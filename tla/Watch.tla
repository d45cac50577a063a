-------------------------------- MODULE Watch --------------------------------
(***************************************************************************)
(* The change bus (internal/caimandb/cluster/changestream.go) and its      *)
(* watchers, the /watch requests of http_query.go: writers publish the     *)
(* events of their documents, each in three steps under two locks, while   *)
(* watchers come, read and leave and BULK MODE sets and clears the hint.   *)
(***************************************************************************)
EXTENDS Integers, Sequences, FiniteSets, SequencesExt

CONSTANTS
  Publishers,         \* goroutines that write documents
  Watchers,           \* /watch requests; each subscribes once: nextID
  Dbs, Blocks, Every,   \* Every is "", which matches every database or block
  SubscriberBuffer,   \* subscriberBufferSize (256)
  ReplayBuffer,       \* replayBufferSize (200)
  MaxEvents           \* bound: events published

ASSUME WatchAssumption ==
  SubscriberBuffer \in Nat \ {0} /\ ReplayBuffer \in Nat \ {0} /\ MaxEvents \in Nat

VARIABLES
  bulkHint, \* ChangeBus.bulkHint
  ring,     \* ChangeBus.replay: buf, head and count
  subs,     \* ChangeBus.subs and dropped: a record per watcher, or none
  publisher,\* what each writer does: idle, or the step and the event
  added,    \* the events added to the replay buffer, in order
  begun,    \* events published so far
  owed,     \* the events published while a watcher was subscribed
  read      \* what each watcher has sent to its client

watchVars == <<bulkHint, ring, subs, publisher, added, begun, owed, read>>

NoEvent == [n |-> 0, db |-> Every, block |-> Every]
Idle == [step |-> "idle"]
NotSubscribed == [on |-> FALSE]

WatchInit ==
  /\ bulkHint = FALSE
  /\ ring = [buf |-> [i \in 0..(ReplayBuffer - 1) |-> NoEvent], head |-> 0, count |-> 0]
  /\ subs = [w \in Watchers |-> NotSubscribed]
  /\ publisher = [p \in Publishers |-> Idle]
  /\ added = <<>> /\ begun = 0
  /\ owed = [w \in Watchers |-> {}] /\ read = [w \in Watchers |-> <<>>]

Subscribed == {w \in Watchers: subs[w].on}
Matches(s, ev) == s.db \in {Every, ev.db} /\ s.block \in {Every, ev.block}

-----------------------------------------------------------------------------
(* Publish.                                                                *)

(* Loads the hint.                                                         *)
Begin(p, db, block) ==
  LET ev == [n |-> begun + 1, db |-> db, block |-> block]
  IN /\ publisher[p] = Idle /\ begun < MaxEvents
     /\ begun' = begun + 1
     /\ publisher' = [publisher EXCEPT ![p] =
                        [step |-> IF bulkHint THEN "look" ELSE "add", ev |-> ev]]
     /\ owed' = [w \in Watchers |->
                   IF subs[w].on /\ Matches(subs[w], ev)
                   THEN owed[w] \cup {ev} ELSE owed[w]]
     /\ UNCHANGED <<bulkHint, ring, subs, added, read>>

UnwatchedInBulk == TRUE     \* mutant: the hint alone decides
Unwatched == Subscribed = {}

(* In bulk mode, the live count of subscribers decides about the event.    *)
Look(p) ==
  /\ publisher[p].step = "look"
  /\ publisher' = [publisher EXCEPT ![p] =
                     IF Unwatched THEN Idle ELSE [@ EXCEPT !.step = "add"]]
  /\ UNCHANGED <<bulkHint, ring, subs, added, begun, owed, read>>

(* eventRing.Add, under replayMu.                                          *)
RingAdd(r, ev) ==
  IF r.count < ReplayBuffer
  THEN [r EXCEPT !.buf[(r.head + r.count) % ReplayBuffer] = ev, !.count = @ + 1]
  ELSE [r EXCEPT !.buf[r.head] = ev, !.head = (@ + 1) % ReplayBuffer]

AddToReplay(p) ==
  /\ publisher[p].step = "add"
  /\ ring' = RingAdd(ring, publisher[p].ev)
  /\ added' = Append(added, publisher[p].ev)
  /\ publisher' = [publisher EXCEPT ![p].step = "fan"]
  /\ UNCHANGED <<bulkHint, subs, begun, owed, read>>

(* The fan-out, under a read lock of mu that Subscribe and Unsubscribe     *)
(* exclude.  Nobody waits: a full channel drops the event and counts it.   *)
(* Two writers can fan out in the other order than they added.             *)
Offer(s, ev) ==
  IF ~s.on \/ ~Matches(s, ev) THEN s
  ELSE IF Len(s.ch) < SubscriberBuffer THEN [s EXCEPT !.ch = Append(@, ev)]
  ELSE [s EXCEPT !.dropped = @ + 1]

FanOut(p) ==
  /\ publisher[p].step = "fan"
  /\ subs' = [w \in Watchers |-> Offer(subs[w], publisher[p].ev)]
  /\ publisher' = [publisher EXCEPT ![p] = Idle]
  /\ UNCHANGED <<bulkHint, ring, added, begun, owed, read>>

-----------------------------------------------------------------------------
(* handleWatch: subscribes, reads until the client goes, unsubscribes.  It *)
(* never asks for RecentEvents.                                            *)

Subscribe(w, db, block) ==
  /\ subs[w] = NotSubscribed /\ read[w] = <<>> /\ owed[w] = {}
  /\ subs' = [subs EXCEPT ![w] = [on |-> TRUE, db |-> db, block |-> block,
                                  ch |-> <<>>, dropped |-> 0]]
  /\ UNCHANGED <<bulkHint, ring, publisher, added, begun, owed, read>>

Receive(w) ==
  /\ subs[w].on /\ subs[w].ch # <<>>
  /\ read' = [read EXCEPT ![w] = Append(@, Head(subs[w].ch))]
  /\ subs' = [subs EXCEPT ![w].ch = Tail(@)]
  /\ UNCHANGED <<bulkHint, ring, publisher, added, begun, owed>>

Unsubscribe(w) ==
  /\ subs[w].on
  /\ subs' = [subs EXCEPT ![w] = NotSubscribed]
  /\ UNCHANGED <<bulkHint, ring, publisher, added, begun, owed, read>>

SetBulkModeHint ==
  /\ bulkHint' = ~bulkHint
  /\ UNCHANGED <<ring, subs, publisher, added, begun, owed, read>>

WatchNext ==
  \/ \E p \in Publishers:
        \/ \E db \in Dbs, block \in Blocks: Begin(p, db, block)
        \/ Look(p) \/ AddToReplay(p) \/ FanOut(p)
  \/ \E w \in Watchers:
        \/ \E db \in Dbs \cup {Every}, block \in Blocks \cup {Every}: Subscribe(w, db, block)
        \/ Receive(w) \/ Unsubscribe(w)
  \/ SetBulkModeHint

WatchSpec == WatchInit /\ [][WatchNext]_watchVars

-----------------------------------------------------------------------------
InFlight(ev) == \E p \in Publishers: publisher[p].step # "idle" /\ publisher[p].ev = ev
Recent == [i \in 1..ring.count |-> ring.buf[(ring.head + i - 1) % ReplayBuffer]]

(* A watcher gets every event of a Publish that began while it was         *)
(* subscribed, once, but for those that met its full channel, and these    *)
(* its counter counts: the early return of bulk mode skips no watcher who  *)
(* came before the event.  Nothing it did not ask for reaches it.  And the *)
(* replay buffer holds the latest events that were added, the oldest first.*)
WatchersMissOnlyCounted ==
  /\ \A w \in Subscribed:
        LET got == read[w] \o subs[w].ch
        IN /\ Cardinality({ev \in owed[w]: ~InFlight(ev) /\ ev \notin ToSet(got)})
                <= subs[w].dropped
           /\ IsInjective(got)
           /\ \A ev \in ToSet(got): Matches(subs[w], ev)
  /\ IsSuffix(Recent, added)
  /\ ring.count = ReplayBuffer \/ Recent = added
=============================================================================
