-------------------------------- MODULE Turbo --------------------------------
(***************************************************************************)
(* CaimanDB's turbo inserts (internal/caimandb/turbo, ops_turbo.go): the   *)
(* Batcher of one (database, block), which gathers single-document inserts *)
(* and flushes them together through insertBatchLocalDetailed, and bulk    *)
(* mode, which loads switch on and off around themselves and which moves   *)
(* the batch thresholds and the WAL's sync policy.                         *)
(*                                                                         *)
(* A request is one InsertFast call and stands for its document.  Code     *)
(* under b.mu is one step, and so is the commit of a batch, which holds    *)
(* the block's lock.                                                       *)
(***************************************************************************)
EXTENDS Naturals, Sequences, FiniteSets

CONSTANTS
  Requests,     \* InsertFast calls on one block
  Loads,        \* what toggles bulk mode: IMPORTs, GENERATEs, operators' commands
  NormalMax,    \* TurboBatchMaxSize
  BulkMax,      \* TurboBulkBatchMaxSize
  ChunkSize,    \* GenerateBatchFlushSize
  StartPolicies,\* the WAL sync policies the server may start with
  StrayOff,     \* whether an operator may send BULK MODE OFF on its own
  NoOwner,      \* stands for the goroutine of a timer callback
  MaxFired      \* timer callbacks waiting for b.mu at one time (bounds the model)

ASSUME ConstantsAssumption ==
  /\ NoOwner \notin Requests
  /\ NormalMax \in Nat \ {0} /\ BulkMax \in Nat \ {0} /\ ChunkSize \in Nat \ {0}
  /\ MaxFired \in Nat \ {0} /\ StrayOff \in BOOLEAN
  /\ StartPolicies \subseteq {"always", "interval", "off"}

Policies == {"always", "interval", "off"}

VARIABLES
  pending,    \* b.pending, and with it b.waiters
  cap,        \* b.capTimer is set and has not fired
  quiet,      \* b.quietTimer is set and has not fired
  fired,      \* onTimer callbacks that wait for b.mu
  maxSize,    \* b.maxSize
  flushes,    \* the runFlush calls in progress; see Flush
  call,       \* where each request is
  reply,      \* the channel each request waits on
  stored,     \* documents Badger has taken
  unflushed,  \* documents that were in a write batch whose Flush failed
  panicked,   \* documents of a batch whose flush panicked
  bulk,       \* turbo.Bulk
  policy,     \* the WAL's sync policy
  prev,       \* e.bulkModePrevWALPolicy
  initial,    \* the policy the server was configured with
  load,       \* where each load is
  size,       \* the threshold each load has read and not yet set
  mixed       \* a toggle met another load's, or switched off what was not on

batchVars == <<pending, cap, quiet>>
docVars == <<stored, unflushed, panicked>>
bulkVars == <<bulk, policy, prev, initial, load, size, mixed>>
vars == <<pending, cap, quiet, fired, maxSize, flushes, call, reply,
          stored, unflushed, panicked, bulk, policy, prev, initial, load, size, mixed>>

Members(s) == {s[i] : i \in DOMAIN s}

(* A batch being flushed: its items, how far it is, which items failed,    *)
(* how many waiters were answered, and the request whose goroutine runs it *)
(* (NoOwner when a timer callback does).                                   *)
Flush ==
  [items : Seq(Requests), at : {"prep", "commit", "answer"}, failed : SUBSET Requests,
   told : Nat, owner : Requests \cup {NoOwner}]

Unanswered(f) == {f.items[i] : i \in {j \in DOMAIN f.items : j > f.told}}
Ready(f) == Members(f.items) \ f.failed

-----------------------------------------------------------------------------
(* Batcher.Submit, its timers, and the answer of each waiter *)

(* Bug: the batch is handed to the flush and not reset.                    *)
DrainKeeps(items, owner) ==
  /\ flushes' = flushes \cup
       {[items |-> items, at |-> "prep", failed |-> {}, told |-> 0, owner |-> owner]}
  /\ pending' = items /\ cap' = FALSE /\ quiet' = FALSE

(* drainLocked: the batch leaves with its waiters and both timers stop; a  *)
(* callback that already fired is not called back.                         *)
Drain(items, owner) ==
  /\ flushes' = flushes \cup
       {[items |-> items, at |-> "prep", failed |-> {}, told |-> 0, owner |-> owner]}
  /\ pending' = <<>> /\ cap' = FALSE /\ quiet' = FALSE

Enter(r) ==
  /\ call[r] = "new"
  /\ call' = [call EXCEPT ![r] = "waiting"]
  /\ UNCHANGED <<fired, maxSize, reply, docVars, bulkVars>>

SubmitFills(r) ==
  /\ Enter(r)
  /\ Len(pending) + 1 >= maxSize
  /\ Drain(Append(pending, r), r)

(* Bug: the cap timer is re-armed by every arrival only while the quiet    *)
(* timer is still armed.                                                   *)
ArmNeverFirst(now) == cap' = (cap \/ (Len(now) = 1 /\ quiet)) /\ quiet' = TRUE

Arm(now) == cap' = (cap \/ Len(now) = 1) /\ quiet' = TRUE

SubmitWaits(r) ==
  /\ Enter(r)
  /\ Len(pending) + 1 < maxSize
  /\ pending' = Append(pending, r)
  /\ Arm(pending')
  /\ UNCHANGED flushes

CapFires ==
  /\ cap /\ fired < MaxFired
  /\ cap' = FALSE /\ fired' = fired + 1
  /\ UNCHANGED <<pending, quiet, maxSize, flushes, call, reply, docVars, bulkVars>>

QuietFires ==
  /\ quiet /\ fired < MaxFired
  /\ quiet' = FALSE /\ fired' = fired + 1
  /\ UNCHANGED <<pending, cap, maxSize, flushes, call, reply, docVars, bulkVars>>

(* onTimer, for both timers: also the callback of an earlier batch's timer *)
(* takes whatever batch is forming now.                                    *)
OnTimer ==
  /\ fired > 0 /\ fired' = fired - 1
  /\ \/ pending # <<>> /\ Drain(pending, NoOwner)
     \/ pending = <<>> /\ UNCHANGED <<flushes, batchVars>>
  /\ UNCHANGED <<maxSize, call, reply, docVars, bulkVars>>

Becomes(f, g) ==
  /\ flushes' = (flushes \ {f}) \cup {g}
  /\ UNCHANGED <<batchVars, fired, maxSize, call, reply, bulkVars>>

(* prepareInsertDoc on every document, without a lock: one may be too      *)
(* large.  Creating the directories or opening the block fails for all.    *)
Prep(f) ==
  /\ f.at = "prep"
  /\ \/ \E bad \in SUBSET Members(f.items) :
          Becomes(f, [f EXCEPT !.at = "commit", !.failed = bad])
     \/ Becomes(f, [f EXCEPT !.at = "answer", !.failed = Members(f.items)])
  /\ UNCHANGED docVars

Refuse(f) ==
  /\ f.at = "commit"
  /\ Becomes(f, [f EXCEPT !.at = "answer", !.failed = Members(f.items)])
  /\ UNCHANGED docVars

(* The WAL took the batch; Badger's write batch refuses some documents and *)
(* its Flush succeeds.                                                     *)
Commit(f) ==
  /\ f.at = "commit"
  /\ \E refused \in SUBSET Ready(f) :
       /\ Becomes(f, [f EXCEPT !.at = "answer", !.failed = @ \cup refused])
       /\ stored' = stored \cup (Ready(f) \ refused)
  /\ UNCHANGED <<unflushed, panicked>>

(* Flush fails for one chunk: the chunks before it are stored, the others  *)
(* are not, and none of the documents gets an error.                       *)
CommitPartly(f) ==
  /\ f.at = "commit"
  /\ \E cut \in 0 .. Len(f.items) :
       LET kept == {f.items[i] : i \in 1 .. cut} \ f.failed
           lost == Ready(f) \ kept
       IN /\ Cardinality(kept) % ChunkSize = 0 /\ lost # {}
          /\ stored' = stored \cup kept
          /\ unflushed' = unflushed \cup lost
  /\ Becomes(f, [f EXCEPT !.at = "answer"])
  /\ UNCHANGED panicked

(* runFlush recovers a panic and gives it to every waiter, whether Badger  *)
(* already had the documents or not.                                       *)
CommitPanics(f) ==
  /\ f.at = "commit"
  /\ stored' \in {stored, stored \cup Ready(f)}
  /\ panicked' = panicked \cup Members(f.items)
  /\ Becomes(f, [f EXCEPT !.at = "answer", !.failed = Members(f.items)])
  /\ UNCHANGED unflushed

(* Bug: the errors are matched with the waiters one place late.            *)
VerdictShifted(f, i) == IF i > 1 /\ f.items[i - 1] \in f.failed THEN "err" ELSE "ok"

Verdict(f, i) == IF f.items[i] \in f.failed THEN "err" ELSE "ok"

(* Bug: the loop over the waiters ends at the first error.                 *)
AnswerUntilError(f) ==
  /\ f.at = "answer"
  /\ LET i == f.told + 1
         done == flushes \ {f}
     IN /\ reply' = [reply EXCEPT ![f.items[i]] = Verdict(f, i)]
        /\ flushes' = IF i = Len(f.items) \/ Verdict(f, i) = "err" THEN done
                      ELSE done \cup {[f EXCEPT !.told = i]}
  /\ UNCHANGED <<batchVars, fired, maxSize, call, docVars, bulkVars>>

(* One waiter's channel, which has room for its one answer; the goroutine  *)
(* of runFlush ends with the last.                                         *)
Answer(f) ==
  /\ f.at = "answer"
  /\ LET i == f.told + 1
         done == flushes \ {f}
     IN /\ reply' = [reply EXCEPT ![f.items[i]] = Verdict(f, i)]
        /\ flushes' = IF i = Len(f.items) THEN done ELSE done \cup {[f EXCEPT !.told = i]}
  /\ UNCHANGED <<batchVars, fired, maxSize, call, docVars, bulkVars>>

(* A request that runs its own batch's flush waits for the end of it.      *)
TakeReply(r) ==
  /\ call[r] = "waiting" /\ reply[r] # "none"
  /\ \A f \in flushes : f.owner # r
  /\ call' = [call EXCEPT ![r] = reply[r]]
  /\ reply' = [reply EXCEPT ![r] = "none"]
  /\ UNCHANGED <<batchVars, fired, maxSize, flushes, docVars, bulkVars>>

FlushStep(f) ==
  Prep(f) \/ Refuse(f) \/ Commit(f) \/ CommitPartly(f) \/ CommitPanics(f) \/ Answer(f)

-----------------------------------------------------------------------------
(* SetBulkMode, its four steps, and the loads that call it *)

Resting == {"idle", "checked", "done"}
OthersRest(l) == \A k \in Loads \ {l} : load[k] \in Resting

At(l, from, to) == load[l] = from /\ load' = [load EXCEPT ![l] = to]

batcherVars == <<batchVars, fired, flushes, call, reply, docVars>>

(* GENERATE switches bulk mode on only when it finds it off; what it found *)
(* may be old when it does.                                                *)
CheckBulk(l) ==
  /\ load[l] = "idle"
  /\ load' = [load EXCEPT ![l] = IF bulk THEN "done" ELSE "checked"]
  /\ UNCHANGED <<batcherVars, maxSize, bulk, policy, prev, initial, size, mixed>>

Enable(l) ==
  /\ load[l] \in {"idle", "checked"} /\ load' = [load EXCEPT ![l] = "enabled"]
  /\ bulk' = TRUE /\ mixed' = (mixed \/ ~OthersRest(l))
  /\ UNCHANGED <<batcherVars, maxSize, policy, prev, initial, size>>

(* Bug: the policy is saved after it was relaxed.                          *)
SavePolicyLate(l) == prev' = "interval"

SavePolicy(l) == prev' = policy

Save(l) ==
  /\ At(l, "enabled", "saved") /\ SavePolicy(l)
  /\ UNCHANGED <<batcherVars, maxSize, bulk, policy, initial, size, mixed>>

Relax(l) ==
  /\ At(l, "saved", "switchedOn") /\ policy' = "interval"
  /\ UNCHANGED <<batcherVars, maxSize, bulk, prev, initial, size, mixed>>

Disable(l) ==
  /\ \/ load[l] = "on"
     \/ StrayOff /\ load[l] = "idle"
  /\ load' = [load EXCEPT ![l] = "disabled"]
  /\ bulk' = FALSE /\ mixed' = (mixed \/ ~OthersRest(l) \/ load[l] = "idle")
  /\ UNCHANGED <<batcherVars, maxSize, policy, prev, initial, size>>

Restore(l) ==
  /\ At(l, "disabled", "switchedOff") /\ policy' = prev
  /\ UNCHANGED <<batcherVars, maxSize, bulk, prev, initial, size, mixed>>

(* Bug: the normal thresholds were left at their zero values.              *)
ThresholdsUnset == IF bulk THEN BulkMax ELSE 0

BatchThresholds == IF bulk THEN BulkMax ELSE NormalMax

ReadThresholds(l) ==
  /\ At(l, "switchedOn", "readOn") \/ At(l, "switchedOff", "readOff")
  /\ size' = [size EXCEPT ![l] = BatchThresholds]
  /\ UNCHANGED <<batcherVars, maxSize, bulk, policy, prev, initial, mixed>>

SetThresholds(l) ==
  /\ At(l, "readOn", "on") \/ At(l, "readOff", "done")
  /\ maxSize' = size[l]
  /\ UNCHANGED <<batcherVars, bulk, policy, prev, initial, size, mixed>>

LoadStep(l) ==
  \/ CheckBulk(l) \/ Enable(l) \/ Save(l) \/ Relax(l)
  \/ Disable(l) \/ Restore(l) \/ ReadThresholds(l) \/ SetThresholds(l)

-----------------------------------------------------------------------------
Init ==
  /\ pending = <<>> /\ cap = FALSE /\ quiet = FALSE /\ fired = 0
  /\ maxSize = NormalMax /\ flushes = {}
  /\ call = [r \in Requests |-> "new"] /\ reply = [r \in Requests |-> "none"]
  /\ stored = {} /\ unflushed = {} /\ panicked = {}
  /\ bulk = FALSE /\ initial \in StartPolicies /\ policy = initial
  /\ prev = "interval"                 \* the zero value of WALSyncPolicy
  /\ load = [l \in Loads |-> "idle"] /\ size = [l \in Loads |-> NormalMax]
  /\ mixed = FALSE

RequestStep(r) == SubmitFills(r) \/ SubmitWaits(r) \/ TakeReply(r)

Next ==
  \/ \E r \in Requests : RequestStep(r)
  \/ CapFires \/ QuietFires \/ OnTimer
  \/ \E f \in flushes : FlushStep(f)
  \/ \E l \in Loads : LoadStep(l)

Spec == Init /\ [][Next]_vars

(* As long as a set cap timer, a fired callback, a flush or an answered    *)
(* request can go on, one of them does.  Nothing is assumed of the quiet   *)
(* timer, which every arrival postpones, nor of the loads.                 *)
Running ==
  \/ CapFires \/ OnTimer
  \/ \E f \in flushes : FlushStep(f)
  \/ \E r \in Requests : TakeReply(r)

FairSpec == Spec /\ WF_vars(Running)

-----------------------------------------------------------------------------
(* Properties *)

TypeOK ==
  /\ pending \in Seq(Requests) /\ cap \in BOOLEAN /\ quiet \in BOOLEAN
  /\ fired \in 0 .. MaxFired /\ maxSize \in {NormalMax, BulkMax}
  /\ \A f \in flushes : f \in Flush /\ f.told < Len(f.items)
  /\ call \in [Requests -> {"new", "waiting", "ok", "err"}]
  /\ reply \in [Requests -> {"none", "ok", "err"}]
  /\ stored \subseteq Requests /\ unflushed \subseteq Requests /\ panicked \subseteq Requests
  /\ bulk \in BOOLEAN /\ {policy, prev, initial} \subseteq Policies
  /\ load \in [Loads -> Resting \cup
       {"enabled", "saved", "switchedOn", "readOn", "on", "disabled", "switchedOff", "readOff"}]
  /\ size \in [Loads -> {NormalMax, BulkMax}]
  /\ mixed \in BOOLEAN

(* Each caller learns the fate of its own document, although its batch was *)
(* filled, fired and answered by others: success means stored, unless the  *)
(* batch's Flush failed, and an error means not stored, unless it panicked.*)
OwnResult ==
  \A r \in Requests :
    /\ "ok" \in {reply[r], call[r]} => r \in stored \cup unflushed
    /\ "err" \in {reply[r], call[r]} => r \notin stored \/ r \in panicked

(* maxWait stays a hard bound (batcher.go: "or maxWait/maxSize forces a    *)
(* flush") whatever callbacks of earlier batches do to this one's timers:  *)
(* a batch never waits without a set cap timer or a callback on its way.   *)
HardDeadline == pending # <<>> => cap \/ fired > 0

(* A request waits in exactly one place: the forming batch, one flush that *)
(* has not answered it, or its own channel.  Two drains of one batch, or a *)
(* lost or doubled answer, break it.                                       *)
Places(r) ==
  (IF r \in Members(pending) THEN 1 ELSE 0)
  + Cardinality({f \in flushes : r \in Unanswered(f)})
  + (IF reply[r] # "none" THEN 1 ELSE 0)
OnePlace ==
  \A r \in Requests : Places(r) = IF call[r] = "waiting" THEN 1 ELSE 0

(* A load that meets no other toggle runs under bulk thresholds and the    *)
(* relaxed policy, and leaves the thresholds and the policy it found.      *)
BulkBrackets ==
  ~mixed =>
    /\ \A l \in Loads : load[l] = "on" => bulk /\ policy = "interval" /\ maxSize = BulkMax
    /\ (\A l \in Loads : load[l] \in Resting) =>
         ~bulk /\ policy = initial /\ maxSize = NormalMax

(* Every insert returns, also when no other one arrives to fill its batch: *)
(* each request calls once, so a moment comes when none of them waits.     *)
SubmitReturns ==
  (\E r \in Requests : call[r] = "waiting") ~> (\A r \in Requests : call[r] # "waiting")
=============================================================================
