------------------------------ MODULE WalWriter ------------------------------
(***************************************************************************)
(* One lifetime of CaimanDB's write-ahead log (internal/caimandb/wal):     *)
(* goroutines that call Write and WriteBatch, the writeLoop goroutine that *)
(* groups streaming submissions, the periodic fsync, segment rotation and  *)
(* retention, the two WAL calls of a checkpoint, policy changes and Close. *)
(*                                                                         *)
(* A stretch of code under w.mu touches nothing that is read without it,   *)
(* so it is one step; what the code does between two such stretches        *)
(* (reading the policy, then flushing; flushing, then answering each       *)
(* caller) is separate steps.  Bytes are counted in entries.               *)
(***************************************************************************)
EXTENDS Integers, Sequences, SequencesExt

CONSTANTS
  Streaming,    \* goroutines whose entries go through writeChan
  Direct,       \* goroutines that write under w.mu: WriteBatch, or Write with UseStreamingWAL off
  Quota,        \* how many entries each goroutine writes (bounds the model)
  ChanCap,      \* capacity of writeChan: 10000
  MaxBatch,     \* the size that flushes a batch at once: 100
  SegSize,      \* w.maxSize, in entries
  MaxSegs,      \* w.maxSegs
  StartPolicies,\* the sync policies the engine may start with
  MaxFaults,    \* disk errors in a run (bounds the model)
  MaxChecks,    \* checkpoints in a run (bounds the model)
  MaxSwitches   \* SetSyncPolicy calls in a run (bounds the model)

ASSUME ConstantsAssumption ==
  /\ Streaming \cap Direct = {}
  /\ ChanCap \in Nat \ {0} /\ MaxBatch \in Nat \ {0}
  /\ SegSize \in Nat \ {0} /\ MaxSegs \in Nat \ {0}
  /\ StartPolicies \subseteq {"always", "interval", "off"}
  /\ Quota \in [Streaming \cup Direct -> Nat] /\ MaxFaults \in Nat
  /\ MaxChecks \in Nat /\ MaxSwitches \in Nat

Client == Streaming \cup Direct
Entry == UNION {{c} \X (1 .. Quota[c]) : c \in Client}
Policies == {"always", "interval", "off"}

(* A segment file: its entries, and how many of them an fsync covered.     *)
Segment == [data : Seq(Entry), synced : Nat]
EmptySegment == [data |-> <<>>, synced |-> 0]

VARIABLES
  w,          \* what w.mu guards; see FileState
  writeChan,  \* entries accepted and not yet received by writeLoop
  batch,      \* writeLoop's local batch
  loop,       \* where writeLoop is
  force,      \* the forceSync argument of the flush in progress
  opErr,      \* the flush in progress failed
  made,       \* entries each goroutine has used up
  call,       \* the entries of each goroutine's call in progress, <<>> outside a call
  reply,      \* the done channel of each entry
  answer,     \* what each entry's caller was told
  stopped,    \* stopChan is closed
  closer,     \* where Close is
  marker,     \* the .clean file exists
  checkpoint, \* a checkpoint has called Sync and not yet RotateAndPruneFresh
  checks, switches

vars == <<w, writeChan, batch, loop, force, opErr, made, call, reply, answer,
          stopped, closer, marker, checkpoint, checks, switches>>

loopVars == <<writeChan, batch, loop, force, opErr>>
callVars == <<made, call, answer>>
closeVars == <<stopped, closer, marker>>
boundVars == <<checkpoint, checks, switches>>

(* segs holds every segment of this lifetime; w.segments is the part from  *)
(* first on, the files before it are deleted.  The last is w.currentSeg.   *)
(* handle says what the buffered writer does with the next write: it       *)
(* writes, it repeats an earlier error, or the file under it is closed.    *)
FileState ==
  [segs : Seq(Segment), first : Nat, dirty : BOOLEAN, policy : Policies,
   handle : {"open", "failed", "closed"}, faults : 0 .. MaxFaults]

FileStateOK(f) == f \in FileState /\ f.first \in DOMAIN f.segs

MuFree == closer # "marked"

-----------------------------------------------------------------------------
(* The code under w.mu: each operator gives the set of states it can leave *)

Current(f) == f.segs[Len(f.segs)]

SetCurrent(f, data, synced, dirty) ==
  [f EXCEPT !.segs = [f.segs EXCEPT ![Len(f.segs)] = [data |-> data, synced |-> synced]],
            !.dirty = dirty]

(* Bug: the segment is not opened for append.                              *)
PutOverwrites(f, s) == SetCurrent(f, s, 0, TRUE)

Put(f, s) == SetCurrent(f, Current(f).data \o s, Current(f).synced, TRUE)

Fault(f) == [f EXCEPT !.faults = @ - 1]

(* segWriter.Write and Flush: everything reaches the file, or an error     *)
(* leaves a prefix of it there and the buffered writer failing for good.   *)
WriteOK(f) == f.handle = "open"
WriteFails(f, s) ==
  IF ~WriteOK(f) THEN {f}
  ELSE IF f.faults = 0 THEN {}
  ELSE {[Fault(Put(f, SubSeq(s, 1, n))) EXCEPT !.handle = "failed"] : n \in 0 .. Len(s) - 1}

Synced(f) == SetCurrent(f, Current(f).data, Len(Current(f).data), FALSE)

(* Bug: the dirty count is cleared although the fsync failed.              *)
SyncLockedClears(f) ==
  IF f.policy = "off" \/ ~f.dirty THEN {f}
  ELSE {Synced(f)} \cup (IF f.faults > 0 THEN {[Fault(f) EXCEPT !.dirty = FALSE]} ELSE {})

(* syncLocked: a failed fsync is only logged.                              *)
SyncLocked(f) ==
  IF f.policy = "off" \/ ~f.dirty THEN {f}
  ELSE IF f.handle = "closed" THEN {f}
  ELSE {Synced(f)} \cup (IF f.faults > 0 THEN {Fault(f)} ELSE {})

(* rotate: close the segment as it is, without an fsync; create the next;  *)
(* delete the oldest beyond maxSegs.  When the file cannot be created the  *)
(* closed one stays w.currentSeg.                                          *)
Rotate(f) ==
  LET n == Len(f.segs) + 1
  IN  IF f.handle = "closed" THEN {}
      ELSE {[f EXCEPT !.segs = Append(@, EmptySegment),
                      !.first = IF n - @ + 1 > MaxSegs THEN n - MaxSegs + 1 ELSE @,
                      !.dirty = FALSE,
                      !.handle = "open"]}

RotateFails(f) ==
  IF f.handle = "closed" THEN {f}
  ELSE IF f.faults > 0 THEN {[Fault(f) EXCEPT !.handle = "closed"]}
  ELSE {}

RotateIfFull(f) ==
  IF Len(Current(f).data) >= SegSize THEN Rotate(f) \cup RotateFails(f) ELSE {f}

(* Bug: the pruning loop runs over all of w.segments.                      *)
PruneAll(f) == [f EXCEPT !.first = Len(f.segs) + 1]

PruneToLast(f) == [f EXCEPT !.first = Len(f.segs)]

(* Bug: a full segment is rotated before the batch is fsynced.             *)
FlushedRotateFirst(f, s, sync) ==
  UNION {IF sync THEN SyncLocked(g) ELSE {g} : g \in RotateIfFull(Put(f, s))}

(* The body of flushBatch and of WriteBatch when the write succeeds.       *)
Flushed(f, s, sync) ==
  UNION {RotateIfFull(g) : g \in IF sync THEN SyncLocked(Put(f, s)) ELSE {Put(f, s)}}

-----------------------------------------------------------------------------
Init ==
  /\ \E p \in StartPolicies :
       w = [segs |-> <<EmptySegment>>, first |-> 1, dirty |-> FALSE, policy |-> p,
            handle |-> "open", faults |-> MaxFaults]
  /\ writeChan = <<>> /\ batch = <<>>
  /\ loop = "select" /\ force = FALSE /\ opErr = FALSE
  /\ made = [c \in Client |-> 0]
  /\ call = [c \in Client |-> <<>>]
  /\ reply = [e \in Entry |-> "none"]
  /\ answer = [e \in Entry |-> "new"]
  /\ stopped = FALSE /\ closer = "none" /\ marker = FALSE
  /\ checkpoint = FALSE /\ checks = 0 /\ switches = 0

-----------------------------------------------------------------------------
(* Callers *)

Tell(E, status) == answer' = [e \in Entry |-> IF e \in E THEN status ELSE answer[e]]

Begin(c, n) ==
  /\ call[c] = <<>> /\ made[c] + n <= Quota[c]
  /\ made' = [made EXCEPT ![c] = @ + n]
  /\ UNCHANGED <<w, batch, loop, force, opErr, reply, closeVars, boundVars>>

(* Write, streaming: the send blocks while the channel is full; when       *)
(* stopChan is closed too, select takes either case.                       *)
Send(c) ==
  LET e == <<c, made[c] + 1>>
  IN  /\ Begin(c, 1)
      /\ Len(writeChan) < ChanCap
      /\ writeChan' = Append(writeChan, e)
      /\ call' = [call EXCEPT ![c] = <<e>>]
      /\ Tell({e}, "sent")

RefuseSend(c) ==
  /\ Begin(c, 1)
  /\ stopped
  /\ Tell({<<c, made[c] + 1>>}, "failed")
  /\ UNCHANGED <<writeChan, call>>

(* WriteBatch of n entries, or a non-streaming Write when n = 1.           *)
CallDirect(c, n) ==
  LET s == [i \in 1 .. n |-> <<c, made[c] + i>>]
  IN  /\ Begin(c, n)
      /\ call' = [call EXCEPT ![c] = s]
      /\ Tell(ToSet(s), "sent")
      /\ UNCHANGED writeChan

(* Bug: callers are told the batch was written whatever happened to it.    *)
VerdictAlwaysOK(failed) == IF failed THEN "ok" ELSE "ok"

Verdict(failed) == IF failed THEN "err" ELSE "ok"

Unanswered(c) == call[c] # <<>> /\ \A e \in ToSet(call[c]) : reply[e] = "none"

(* A done channel nobody waits for any more is garbage.                    *)
Answer(E, verdict) ==
  reply' = [e \in Entry |-> IF e \in E /\ answer[e] = "sent" THEN verdict ELSE reply[e]]

(* The direct path fsyncs only under WALSyncAlways; a failed rotate makes  *)
(* the call fail although its entries are in the file.                     *)
WriteDirect(c) ==
  /\ MuFree /\ Unanswered(c)
  /\ \/ /\ WriteOK(w)
        /\ w' \in Flushed(w, call[c], w.policy = "always")
        /\ Answer(ToSet(call[c]), Verdict(w'.handle = "closed"))
     \/ /\ w' \in WriteFails(w, call[c])
        /\ Answer(ToSet(call[c]), Verdict(TRUE))
  /\ UNCHANGED <<loopVars, callVars, closeVars, boundVars>>

Return(c, status) ==
  /\ Tell(ToSet(call[c]), status)
  /\ call' = [call EXCEPT ![c] = <<>>]
  /\ reply' = [e \in Entry |-> IF e \in ToSet(call[c]) THEN "none" ELSE reply[e]]
  /\ UNCHANGED <<w, loopVars, made, closeVars, boundVars>>

TakeReply(c) ==
  /\ call[c] # <<>>
  /\ \E verdict \in {"ok", "err"} :
       /\ \A e \in ToSet(call[c]) : reply[e] = verdict
       /\ Return(c, IF verdict = "ok" THEN "ok" ELSE "failed")

(* Bug: the wait for done has no stopChan case.                            *)
GiveUpNever(c) == c \notin Client

(* "WAL closed while waiting for write confirmation", also when the answer *)
(* is already there.                                                       *)
GiveUp(c) == call[c] # <<>> /\ stopped /\ Return(c, "failed")

-----------------------------------------------------------------------------
(* writeLoop *)

Receive ==
  /\ loop = "select" /\ writeChan # <<>>
  /\ batch' = Append(batch, Head(writeChan))
  /\ writeChan' = Tail(writeChan)
  /\ loop' = IF Len(batch) + 1 >= MaxBatch THEN "policy" ELSE "select"
  /\ UNCHANGED <<w, force, opErr, callVars, reply, closeVars, boundVars>>

(* quietC or capC: both are armed exactly while the batch has an entry.    *)
Timer ==
  /\ loop = "select" /\ batch # <<>>
  /\ loop' = "policy"
  /\ UNCHANGED <<w, writeChan, batch, force, opErr, callVars, reply, closeVars, boundVars>>

(* alwaysSync(): a critical section of its own, before flushBatch's.       *)
ReadPolicy ==
  /\ loop = "policy" /\ MuFree
  /\ force' = (w.policy = "always")
  /\ loop' = "flush"
  /\ UNCHANGED <<w, writeChan, batch, opErr, callVars, reply, closeVars, boundVars>>

(* flushTicker: a batch is flushed with a forced fsync, and without one    *)
(* the current segment is fsynced.                                         *)
Tick ==
  /\ loop = "select" /\ MuFree
  /\ IF batch # <<>>
     THEN /\ force' = TRUE /\ loop' = "flush"
          /\ UNCHANGED w
     ELSE /\ w' \in SyncLocked(w)
          /\ UNCHANGED <<force, loop>>
  /\ UNCHANGED <<writeChan, batch, opErr, callVars, reply, closeVars, boundVars>>

(* flushBatch under w.mu.  An error of rotate is logged, not reported.     *)
Flush ==
  /\ loop \in {"flush", "last"} /\ batch # <<>> /\ MuFree
  /\ \/ /\ WriteOK(w)
        /\ w' \in Flushed(w, batch, force)
        /\ opErr' = FALSE
     \/ /\ w' \in WriteFails(w, batch)
        /\ opErr' = TRUE
  /\ force' = FALSE
  /\ loop' = IF loop = "last" THEN "lastAnswer" ELSE "answer"
  /\ UNCHANGED <<writeChan, batch, callVars, reply, closeVars, boundVars>>

(* ... and after w.mu is released, one done channel after the other; the   *)
(* closure that called flushBatch then resets the batch.                   *)
AnswerNext ==
  /\ loop \in {"answer", "lastAnswer"} /\ batch # <<>>
  /\ Answer({Head(batch)}, Verdict(opErr))
  /\ batch' = Tail(batch)
  /\ loop' = IF Len(batch) > 1 THEN loop
             ELSE IF loop = "answer" THEN "select" ELSE "exited"
  /\ opErr' = (opErr /\ Len(batch) > 1)
  /\ UNCHANGED <<w, writeChan, force, callVars, closeVars, boundVars>>

(* Bug: the loop notices stopChan only with a batch in hand.               *)
StopWithBatch ==
  /\ loop = "select" /\ stopped /\ batch # <<>>
  /\ force' = TRUE /\ loop' = "last"
  /\ UNCHANGED <<w, writeChan, batch, opErr, callVars, reply, closeVars, boundVars>>

(* stopChan: flush what the loop holds and exit; writeChan is left as it   *)
(* is.                                                                     *)
Stop ==
  /\ loop = "select" /\ stopped
  /\ force' = TRUE /\ loop' = "last"
  /\ UNCHANGED <<w, writeChan, batch, opErr, callVars, reply, closeVars, boundVars>>

StopEmpty ==
  /\ loop = "last" /\ batch = <<>> /\ MuFree
  /\ w' \in SyncLocked(w)
  /\ loop' = "exited" /\ force' = FALSE
  /\ UNCHANGED <<writeChan, batch, opErr, callVars, reply, closeVars, boundVars>>

-----------------------------------------------------------------------------
(* Close, checkpoints, policy changes *)

CloseBegin ==
  /\ closer = "none"
  /\ stopped' = TRUE /\ closer' = "waiting"
  /\ UNCHANGED <<w, loopVars, callVars, reply, marker, boundVars>>

(* Bug: Close does not wait for the write loop.                            *)
CloseMarkEarly ==
  /\ closer = "waiting"
  /\ marker' = TRUE /\ closer' = "marked"
  /\ UNCHANGED <<w, loopVars, callVars, reply, stopped, boundVars>>

(* Close holds w.mu from the marker to the closing of the file; a marker   *)
(* that cannot be written is only logged.                                  *)
CloseMark ==
  /\ closer = "waiting" /\ loop = "exited"
  /\ \/ marker' = TRUE /\ UNCHANGED w
     \/ w.faults > 0 /\ w' = Fault(w) /\ UNCHANGED marker
  /\ closer' = "marked"
  /\ UNCHANGED <<loopVars, callVars, reply, stopped, boundVars>>

CloseSync ==
  /\ closer = "marked"
  /\ \/ w.handle # "closed" /\ w' = [Synced(w) EXCEPT !.handle = "closed"]
     \/ w.faults > 0 /\ w' = [Fault(w) EXCEPT !.handle = "closed"]
     \/ w.handle = "closed" /\ UNCHANGED w
  /\ closer' = "closed"
  /\ UNCHANGED <<loopVars, callVars, reply, stopped, marker, boundVars>>

(* A checkpoint calls Sync, which fsyncs under every policy, and goes on   *)
(* only when that succeeded.                                               *)
CheckpointSync ==
  /\ MuFree /\ ~checkpoint /\ checks < MaxChecks
  /\ checks' = checks + 1
  /\ \/ /\ w.handle = "open"
        /\ w' = Synced(w)
        /\ checkpoint' = TRUE
     \/ /\ \/ w.handle # "open" /\ UNCHANGED w
           \/ w.handle = "open" /\ w.faults > 0 /\ w' = Fault(w)
        /\ UNCHANGED checkpoint
  /\ UNCHANGED <<loopVars, callVars, reply, closeVars, switches>>

RotateAndPruneFresh ==
  /\ MuFree /\ checkpoint
  /\ \/ \E f \in Rotate(w) : w' = PruneToLast(f)
     \/ w' \in RotateFails(w)
  /\ checkpoint' = FALSE
  /\ UNCHANGED <<loopVars, callVars, reply, closeVars, checks, switches>>

SetSyncPolicy(p) ==
  /\ MuFree /\ switches < MaxSwitches /\ p # w.policy
  /\ w' = [w EXCEPT !.policy = p]
  /\ switches' = switches + 1
  /\ UNCHANGED <<loopVars, callVars, reply, closeVars, checkpoint, checks>>

-----------------------------------------------------------------------------
CallStep ==
  \/ \E c \in Streaming : Send(c) \/ RefuseSend(c) \/ GiveUp(c)
  \/ \E c \in Direct : WriteDirect(c) \/ \E n \in 1 .. 2 : CallDirect(c, n)
  \/ \E c \in Client : TakeReply(c)

LoopStep ==
  Receive \/ Timer \/ ReadPolicy \/ Tick \/ Flush \/ AnswerNext \/ Stop \/ StopEmpty

AdminStep ==
  \/ CloseBegin \/ CloseMark \/ CloseSync
  \/ CheckpointSync \/ RotateAndPruneFresh
  \/ \E p \in Policies : SetSyncPolicy(p)

Next == CallStep \/ LoopStep \/ AdminStep

Spec == Init /\ [][Next]_vars

(* The goroutines of a call, of writeLoop and of Close keep running; Go's  *)
(* select picks among ready cases at random, so a case that stays ready is *)
(* taken in the end.  Nobody has to call, tick, checkpoint or close.       *)
Fairness ==
  /\ WF_vars(Receive) /\ WF_vars(Timer) /\ WF_vars(ReadPolicy)
  /\ WF_vars(Flush) /\ WF_vars(AnswerNext) /\ WF_vars(Stop) /\ WF_vars(StopEmpty)
  /\ WF_vars(CloseMark) /\ WF_vars(CloseSync)
  /\ \A c \in Client : WF_vars(TakeReply(c))
  /\ \A c \in Streaming : WF_vars(GiveUp(c))
  /\ \A c \in Direct : WF_vars(WriteDirect(c))

FairSpec == Spec /\ Fairness

-----------------------------------------------------------------------------
(* Properties *)

TypeOK ==
  /\ FileStateOK(w)
  /\ writeChan \in Seq(Entry) /\ batch \in Seq(Entry)
  /\ loop \in {"select", "policy", "flush", "answer", "last", "lastAnswer", "exited"}
  /\ force \in BOOLEAN /\ opErr \in BOOLEAN
  /\ made \in [Client -> Nat] /\ \A c \in Client : made[c] <= Quota[c]
  /\ call \in [Client -> Seq(Entry)]
  /\ reply \in [Entry -> {"none", "ok", "err"}]
  /\ answer \in [Entry -> {"new", "sent", "ok", "failed"}]
  /\ stopped \in BOOLEAN /\ closer \in {"none", "waiting", "marked", "closed"}
  /\ marker \in BOOLEAN /\ checkpoint \in BOOLEAN
  /\ checks \in 0 .. MaxChecks /\ switches \in 0 .. MaxSwitches

(* The entries that reached a file, including those of deleted segments.   *)
WrittenIn(f) == UNION {ToSet(f.segs[i].data) : i \in DOMAIN f.segs}

Written == WrittenIn(w)

Durable ==
  UNION {ToSet(SubSeq(w.segs[i].data, 1, w.segs[i].synced)) : i \in DOMAIN w.segs}

(* A call reports success only for entries that reached a segment file,    *)
(* whatever disk errors, retries, policy changes or a concurrent Close the *)
(* flush met (flushBatch delivers opErr, Write returns what done carries). *)
AckedIsWritten == \A e \in Entry : answer[e] = "ok" => e \in Written

(* dirtyBytes = 0 is what lets syncLocked skip the fsync: it must mean     *)
(* that nothing in the current segment is waiting for one.                 *)
SkippedSyncIsSafe ==
  w.handle = "open" /\ ~w.dirty => Current(w).synced = Len(Current(w).data)

(* WALSyncAlways, set at startup and never changed: without disk errors, a *)
(* call that returned success survives a power failure at any later        *)
(* moment, also when its batch filled the segment and rotated it.          *)
AlwaysIsDurable ==
  w.policy = "always" /\ switches = 0 /\ w.faults = MaxFaults =>
    \A e \in Entry : answer[e] = "ok" => e \in Durable

(* A graceful Close leaves nothing in memory: whatever a caller was told   *)
(* succeeded is in a file before the .clean marker makes the next start    *)
(* skip recovery, and the loop holds no batch.                             *)
MarkerAfterLastFlush ==
  marker => /\ batch = <<>> /\ loop = "exited"
            /\ \A e \in Entry : "ok" \in {reply[e], answer[e]} => e \in Written

(* Every call returns, also one whose entry is still in writeChan when     *)
(* Close makes the loop exit, and Close itself terminates.                 *)
CallsReturn == \A c \in Client : call[c] # <<>> ~> call[c] = <<>>
CloseReturns == closer = "waiting" ~> closer = "closed"

Datas(segs) == [i \in DOMAIN segs |-> segs[i].data]

(* The writer implements the abstract log: entries enter it at most once   *)
(* and at its end, an "ok" is given only for an entry in it, and only the  *)
(* oldest entries are deleted.                                             *)
Log == INSTANCE DurableLog WITH
  log <- FlattenSeq(Datas(w.segs)),
  retired <- Len(FlattenSeq(Datas(SubSeq(w.segs, 1, w.first - 1))))

ImplementsDurableLog == Log!Spec
=============================================================================
