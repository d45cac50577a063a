SPECIFICATION Spec
CONSTANTS
  MaxTasks = 2
  Keys = {k}
  NoKey = NoKey
  Priorities = {0, 1}
  Workers = {w1, w2}
  MinWorkers = 1
  MaxWorkers = 2
  Capacity = 1
  Publishers = {p1, p2}
  Watchers = {x1}
  Dbs = {e1}
  Blocks = {b1, b2}
  Every = Every
  SubscriberBuffer = 1
  ReplayBuffer = 2
  MaxEvents = 3
INVARIANTS
  SameKeyInTurn
  WatchersMissOnlyCounted
PROPERTY TasksBegin
CHECK_DEADLOCK FALSE
