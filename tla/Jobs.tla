--------------------------------- MODULE Jobs ---------------------------------
(***************************************************************************)
(* The turbo engine's scheduler (internal/caimandb/turbo/scheduler.go) on  *)
(* its adaptive worker pool (turbo/pool.go): callers submit tasks with a   *)
(* key and a priority, the dispatcher moves those whose key is free to the *)
(* pool's channel, workers run them, idle workers leave and the monitor    *)
(* replaces them, and Coordinator.Close stops all of it.                   *)
(*                                                                         *)
(* A critical section of the scheduler is one step.  The pool has no lock: *)
(* a worker decides to leave and leaves later, a job's key is free before  *)
(* its worker is, and the monitor grows the pool by a count it read before.*)
(***************************************************************************)
EXTENDS Integers, Sequences, FiniteSets, SequencesExt, FiniteSetsExt

CONSTANTS
  MaxTasks,           \* bound: tasks submitted
  Keys, NoKey,        \* their keys; NoKey is the empty key
  Priorities,         \* an interval of integers, the highest first served
  Workers,            \* worker goroutines that can exist: bounds the pool's max
  MinWorkers, MaxWorkers,
  Capacity            \* of the pool's jobs channel (max * 64)

ASSUME JobsAssumption ==
  /\ MinWorkers \in Nat \ {0} /\ MaxWorkers \in Nat /\ MinWorkers <= MaxWorkers
  /\ Capacity \in Nat \ {0} /\ Priorities \subseteq Int /\ IsFiniteSet(Priorities)
  /\ NoKey \notin Keys

VARIABLES
  queues,     \* Scheduler.queues: by priority, the tasks that wait
  keyBusy,    \* Scheduler.keyBusy
  notify,     \* the token in Scheduler.notify
  dispatcher, \* <<"wait">>, <<"drain">>, <<"stopped">> or <<"send", task>>
  closing,    \* what Coordinator.Close has reached: "no", "scheduler", "pool", "done"
  jobs,       \* the pool's channel
  worker,     \* <<step>> or <<step, task>>: where each worker is, "none" when it is not
  monitor,    \* <<"wait">>, <<"stopped">>, or <<"current", what it read>>
  submitted,  \* the tasks submitted, in order, each with its key and priority
  started     \* the tasks begun, in order

jobsVars == <<queues, keyBusy, notify, dispatcher, closing, jobs, worker, monitor,
              submitted, started>>

(* AdaptiveWorkerPool.current and active.  A worker counts as active from  *)
(* taking a job until it has counted the end of it.                        *)
current == Cardinality({w \in Workers: worker[w][1] # "none"})
Busy(w) == Len(worker[w]) = 2
active == Cardinality({w \in Workers: Busy(w)})

JobsInit ==
  /\ queues = [p \in Priorities |-> <<>>]
  /\ keyBusy = {} /\ notify = FALSE
  /\ dispatcher = <<"wait">> /\ closing = "no"
  /\ jobs = <<>>
  /\ \E first \in SUBSET Workers:
        /\ Cardinality(first) = MinWorkers
        /\ worker = [w \in Workers |-> IF w \in first THEN <<"idle">> ELSE <<"none">>]
  /\ monitor = <<"wait">>
  /\ submitted = <<>> /\ started = <<>>

-----------------------------------------------------------------------------
(* The scheduler.                                                          *)

Submit(key, priority) ==
  LET s == [task |-> Len(submitted) + 1, key |-> key, priority |-> priority]
  IN /\ Len(submitted) < MaxTasks
     /\ submitted' = Append(submitted, s)
     /\ queues' = [queues EXCEPT ![priority] = Append(@, s)]
     /\ notify' = TRUE
     /\ UNCHANGED <<keyBusy, dispatcher, closing, jobs, worker, monitor, started>>

Ready(p) == {i \in DOMAIN queues[p]: queues[p][i].key \notin keyBusy}
MarkedNever(key) == keyBusy     \* mutant: popNext leaves the key free
Marked(key) == keyBusy \cup ({key} \ {NoKey})

(* popNext: the first task with a free key of the highest priority that    *)
(* has one.                                                                *)
PopNext ==
  /\ dispatcher = <<"drain">>
  /\ LET ready == {p \in Priorities: Ready(p) # {}}
     IN IF ready = {}
        THEN dispatcher' = <<"wait">> /\ UNCHANGED <<queues, keyBusy>>
        ELSE LET p == Max(ready)
                 i == Min(Ready(p))
             IN /\ dispatcher' = <<"send", queues[p][i]>>
                /\ queues' = [queues EXCEPT ![p] = RemoveAt(@, i)]
                /\ keyBusy' = Marked(queues[p][i].key)
  /\ UNCHANGED <<notify, closing, jobs, worker, monitor, submitted, started>>

(* dispatchLoop: with a token and a closed stopCh, either.                 *)
Notified ==
  /\ dispatcher = <<"wait">> /\ notify
  /\ notify' = FALSE /\ dispatcher' = <<"drain">>
  /\ UNCHANGED <<queues, keyBusy, closing, jobs, worker, monitor, submitted, started>>

DispatcherStops ==
  /\ dispatcher = <<"wait">> /\ closing # "no"
  /\ dispatcher' = <<"stopped">>
  /\ UNCHANGED <<queues, keyBusy, notify, closing, jobs, worker, monitor, submitted,
                 started>>

Sending == dispatcher[1] = "send"
PoolStopped == closing \in {"pool", "done"}

(* AdaptiveWorkerPool.Submit: sends when there is room, and drops the job, *)
(* whose key then stays busy, when the pool is closed.                     *)
Send ==
  /\ Sending /\ Len(jobs) < Capacity
  /\ jobs' = Append(jobs, dispatcher[2]) /\ dispatcher' = <<"drain">>
  /\ UNCHANGED <<queues, keyBusy, notify, closing, worker, monitor, submitted, started>>

SendDropped ==
  /\ Sending /\ PoolStopped
  /\ dispatcher' = <<"drain">>
  /\ UNCHANGED <<queues, keyBusy, notify, closing, jobs, worker, monitor, submitted,
                 started>>

-----------------------------------------------------------------------------
(* The pool's workers.                                                     *)

Take(w) ==
  /\ worker[w] = <<"idle">> /\ jobs # <<>>
  /\ worker' = [worker EXCEPT ![w] = <<"run", Head(jobs)>>]
  /\ jobs' = Tail(jobs) /\ started' = Append(started, Head(jobs))
  /\ UNCHANGED <<queues, keyBusy, notify, dispatcher, closing, monitor, submitted>>

FinishSilently(key) ==     \* mutant: nobody wakes the dispatcher
  IF key = NoKey THEN UNCHANGED <<keyBusy, notify>>
  ELSE keyBusy' = keyBusy \ {key} /\ UNCHANGED notify

(* Scheduler.finish, which the job defers: it runs when fn returns and     *)
(* when fn panics.                                                         *)
Finish(key) ==
  IF key = NoKey THEN UNCHANGED <<keyBusy, notify>>
  ELSE keyBusy' = keyBusy \ {key} /\ notify' = TRUE

End(w) ==
  /\ Busy(w) /\ worker[w][1] = "run"
  /\ Finish(worker[w][2].key)
  /\ worker' = [worker EXCEPT ![w][1] = "ended"]
  /\ UNCHANGED <<queues, dispatcher, closing, jobs, monitor, submitted, started>>

(* runJob's deferred function: counts, and recovers when fn panicked.      *)
Ended(w) ==
  /\ Busy(w) /\ worker[w][1] = "ended"
  /\ worker' = [worker EXCEPT ![w] = <<"idle">>]
  /\ UNCHANGED <<queues, keyBusy, notify, dispatcher, closing, jobs, monitor, submitted,
                 started>>

(* The idle timer: compares current with min, and leaves later, so more    *)
(* workers than the surplus can leave.  A stopped pool lets them all go.   *)
Leave(w) ==
  /\ worker[w] = <<"idle">> /\ (current > MinWorkers \/ PoolStopped)
  /\ worker' = [worker EXCEPT ![w] = <<"leaving">>]
  /\ UNCHANGED <<queues, keyBusy, notify, dispatcher, closing, jobs, monitor, submitted,
                 started>>

Gone(w) ==
  /\ worker[w] = <<"leaving">>
  /\ worker' = [worker EXCEPT ![w] = <<"none">>]
  /\ UNCHANGED <<queues, keyBusy, notify, dispatcher, closing, jobs, monitor, submitted,
                 started>>

-----------------------------------------------------------------------------
(* The monitor: rebalance reads current, then active and the queue's       *)
(* length, and spawns what the queue asks for and max allows.              *)

ReadCurrent ==
  /\ monitor = <<"wait">> /\ jobs # <<>>    \* without a backlog the tick does nothing
  /\ monitor' = <<"current", current>>
  /\ UNCHANGED <<queues, keyBusy, notify, dispatcher, closing, jobs, worker, submitted,
                 started>>

Grow(cur) ==
  IF jobs = <<>> \/ active < cur THEN 0
  ELSE Min({Len(jobs), MaxWorkers - cur})

Rebalance ==
  /\ Len(monitor) = 2
  /\ \E new \in SUBSET {w \in Workers: worker[w] = <<"none">>}:
        /\ Cardinality(new) = Grow(monitor[2])
        /\ worker' = [w \in Workers |-> IF w \in new THEN <<"idle">> ELSE worker[w]]
  /\ monitor' = <<"wait">>
  /\ UNCHANGED <<queues, keyBusy, notify, dispatcher, closing, jobs, submitted, started>>

MonitorStops ==
  /\ monitor = <<"wait">> /\ PoolStopped
  /\ monitor' = <<"stopped">>
  /\ UNCHANGED <<queues, keyBusy, notify, dispatcher, closing, jobs, worker, submitted,
                 started>>

-----------------------------------------------------------------------------
(* Coordinator.Close: Scheduler.Close, then the pool's, which waits for    *)
(* the workers.                                                            *)
CloseStep ==
  /\ \/ closing = "no" /\ closing' = "scheduler"
     \/ closing = "scheduler" /\ closing' = "pool"
     \/ closing = "pool" /\ current = 0 /\ closing' = "done"
  /\ UNCHANGED <<queues, keyBusy, notify, dispatcher, jobs, worker, monitor, submitted,
                 started>>

WorkerStep(w) == End(w) \/ Ended(w) \/ Gone(w)
Dispatch == PopNext \/ Notified \/ Send
Watchdog == ReadCurrent \/ Rebalance

JobsNext ==
  \/ \E key \in Keys \cup {NoKey}, p \in Priorities: Submit(key, p)
  \/ Dispatch \/ DispatcherStops \/ SendDropped
  \/ \E w \in Workers: Take(w) \/ Leave(w) \/ WorkerStep(w)
  \/ Watchdog \/ MonitorStops
  \/ CloseStep

JobsSpec == JobsInit /\ [][JobsNext]_jobsVars

(* The goroutines of the process run, fn returns, and a worker that idles  *)
(* for two seconds while jobs come takes one of them: its select chooses   *)
(* at random between the channel and the timer.  Nobody need call Close,   *)
(* but once called it goes on; a worker of a stopped pool chooses between  *)
(* jobs and stopCh.                                                        *)
JobsFairness ==
  /\ WF_jobsVars(Dispatch) /\ WF_jobsVars(DispatcherStops) /\ WF_jobsVars(SendDropped)
  /\ \A w \in Workers: WF_jobsVars(WorkerStep(w))
  /\ \A w \in Workers: SF_jobsVars(PoolStopped /\ Leave(w))
  /\ SF_jobsVars(\E w \in Workers: Take(w))
  /\ WF_jobsVars(Watchdog)
  /\ WF_jobsVars(closing # "no" /\ CloseStep)

-----------------------------------------------------------------------------
(* Key affinity, the promise of Scheduler's comment: two tasks of one key  *)
(* never run at once, and those of one priority run in the order of their  *)
(* submission.  It spans the queue, the dispatcher, the channel and the    *)
(* workers.  (Tasks of one key and different priorities need not run in    *)
(* order, although the comment says so.)                                   *)
SameKeyInTurn ==
  /\ \A v, w \in Workers:
        v # w /\ Busy(v) /\ Busy(w) /\ worker[v][1] = "run" /\ worker[w][1] = "run" =>
          worker[v][2].key # worker[w][2].key \/ worker[v][2].key = NoKey
  /\ \A i, j \in DOMAIN submitted:
        LET s == submitted[i]  t == submitted[j]
        IN i < j /\ s.key = t.key /\ s.key # NoKey /\ s.priority = t.priority =>
             \A n \in DOMAIN started:
                started[n] = t => s \in Range(SubSeq(started, 1, n - 1))

(* Every submitted task is begun, unless the coordinator is closed first,  *)
(* whatever workers leave in between, and Close returns: no wake-up of the *)
(* dispatcher is lost and the pool recovers from having too few workers.   *)
TasksBegin ==
  /\ \A t \in 1..MaxTasks:
        t <= Len(submitted)
          ~> (\/ \E i \in DOMAIN started: started[i].task = t
              \/ closing # "no")
  /\ closing # "no" ~> closing = "done"
=============================================================================
