----------------------------- MODULE TurboProofs -----------------------------
(***************************************************************************)
(* Proofs about Turbo, for any number of requests and loads and any batch  *)
(* and chunk sizes: types, the hard deadline of a forming batch, and that  *)
(* every caller is told the fate of its own document.                      *)
(***************************************************************************)
EXTENDS Turbo, FiniteSetTheorems, TLAPS

USE DEF Policies, Resting

FlushesOK == \A f \in flushes : f \in Flush /\ f.told < Len(f.items)

LEMMA FlushFields ==
  ASSUME NEW f \in Flush
  PROVE  /\ f.items \in Seq(Requests) /\ f.failed \subseteq Requests
         /\ f.told \in Nat /\ f.at \in {"prep", "commit", "answer"}
         /\ Members(f.items) \subseteq Requests
         /\ Ready(f) \subseteq Requests
         /\ Ready(f) \subseteq Members(f.items)
BY DEF Flush, Members, Ready

(* A drained batch is a well-formed flush.                                 *)
LEMMA DrainType ==
  ASSUME FlushesOK, NEW items \in Seq(Requests), items # <<>>,
         NEW owner \in Requests \cup {NoOwner}, Drain(items, owner)
  PROVE  FlushesOK' /\ pending' = <<>> /\ cap' = FALSE /\ quiet' = FALSE
<1> DEFINE g == [items |-> items, at |-> "prep", failed |-> {}, told |-> 0, owner |-> owner]
<1>1. g \in Flush
  BY DEF Flush
<1>2. g.told < Len(g.items)
  OBVIOUS
<1>3. flushes' = flushes \cup {g} /\ pending' = <<>> /\ cap' = FALSE /\ quiet' = FALSE
  BY DEF Drain
<1> HIDE DEF g
<1> QED BY <1>1, <1>2, <1>3 DEF FlushesOK

(* One step of a flush keeps every flush well-formed.                      *)
LEMMA FlushStepType ==
  ASSUME FlushesOK, reply \in [Requests -> {"none", "ok", "err"}],
         stored \subseteq Requests, unflushed \subseteq Requests, panicked \subseteq Requests,
         NEW f \in flushes, FlushStep(f)
  PROVE  /\ FlushesOK'
         /\ reply' \in [Requests -> {"none", "ok", "err"}]
         /\ stored' \subseteq Requests /\ unflushed' \subseteq Requests
         /\ panicked' \subseteq Requests
         /\ UNCHANGED <<batchVars, fired, maxSize, call, bulkVars>>
<1>1. f \in Flush /\ f.told < Len(f.items)
  BY DEF FlushesOK
<1>2. /\ f.items \in Seq(Requests) /\ f.failed \subseteq Requests /\ f.told \in Nat
      /\ Members(f.items) \subseteq Requests /\ Ready(f) \subseteq Requests
  BY <1>1, FlushFields
<1>3. ASSUME NEW at \in {"prep", "commit", "answer"}, NEW failed \in SUBSET Requests,
             NEW g, g = [f EXCEPT !.at = at, !.failed = failed]
      PROVE  g \in Flush /\ g.told < Len(g.items)
  BY <1>1, <1>3 DEF Flush
<1>4. ASSUME NEW at \in {"prep", "commit", "answer"}, NEW failed \in SUBSET Requests,
             Becomes(f, [f EXCEPT !.at = at, !.failed = failed])
      PROVE  FlushesOK' /\ UNCHANGED <<batchVars, fired, maxSize, call, reply, bulkVars>>
  BY <1>3, <1>4 DEF Becomes, FlushesOK
<1>5. CASE Prep(f)
  <2>1. \E at \in {"prep", "commit", "answer"} : \E failed \in SUBSET Requests :
          Becomes(f, [f EXCEPT !.at = at, !.failed = failed])
    BY <1>5, <1>2 DEF Prep
  <2> QED BY <2>1, <1>4, <1>5 DEF Prep, docVars
<1>6. CASE Refuse(f)
  BY <1>6, <1>4, <1>2 DEF Refuse, docVars
<1>7. CASE Commit(f)
  <2>1. PICK refused \in SUBSET Ready(f) :
          /\ Becomes(f, [f EXCEPT !.at = "answer", !.failed = @ \cup refused])
          /\ stored' = stored \cup (Ready(f) \ refused)
    BY <1>7 DEF Commit
  <2>2. f.failed \cup refused \in SUBSET Requests
    BY <1>2
  <2>3. Becomes(f, [f EXCEPT !.at = "answer", !.failed = f.failed \cup refused])
    BY <2>1
  <2>4. FlushesOK' /\ UNCHANGED <<batchVars, fired, maxSize, call, reply, bulkVars>>
    BY <2>2, <2>3, <1>4
  <2> QED BY <2>1, <2>4, <1>2, <1>7 DEF Commit
<1>8. CASE CommitPartly(f)
  <2>1. f = [f EXCEPT !.failed = f.failed]
    BY <1>1 DEF Flush
  <2>2. [f EXCEPT !.at = "answer"] = [f EXCEPT !.at = "answer", !.failed = f.failed]
    BY <1>1 DEF Flush
  <2>3. Becomes(f, [f EXCEPT !.at = "answer", !.failed = f.failed])
    BY <1>8, <2>2 DEF CommitPartly
  <2>4. FlushesOK' /\ UNCHANGED <<batchVars, fired, maxSize, call, reply, bulkVars>>
    BY <2>3, <1>2, <1>4
  <2>5. PICK cut \in 0 .. Len(f.items) :
          /\ stored' = stored \cup ({f.items[i] : i \in 1 .. cut} \ f.failed)
          /\ unflushed' = unflushed \cup (Ready(f) \ ({f.items[i] : i \in 1 .. cut} \ f.failed))
    BY <1>8 DEF CommitPartly
  <2>6. {f.items[i] : i \in 1 .. cut} \subseteq Requests
    BY <1>2
  <2> QED BY <2>4, <2>5, <2>6, <1>2, <1>8 DEF CommitPartly
<1>9. CASE CommitPanics(f)
  BY <1>9, <1>4, <1>2 DEF CommitPanics
<1>10. CASE Answer(f)
  <2> DEFINE i == f.told + 1
             g == [f EXCEPT !.told = i]
  <2>1. i \in DOMAIN f.items /\ f.items[i] \in Requests
    BY <1>1, <1>2
  <2>2. Verdict(f, i) \in {"ok", "err"}
    BY DEF Verdict
  <2>3. reply' = [reply EXCEPT ![f.items[i]] = Verdict(f, i)]
    BY <1>10 DEF Answer
  <2>4. reply' \in [Requests -> {"none", "ok", "err"}]
    BY <2>1, <2>2, <2>3
  <2>5. g \in Flush /\ (i # Len(f.items) => g.told < Len(g.items))
    BY <1>1, <1>2 DEF Flush
  <2>6. \/ i = Len(f.items) /\ flushes' = flushes \ {f}
        \/ i # Len(f.items) /\ flushes' = (flushes \ {f}) \cup {g}
    BY <1>10 DEF Answer
  <2>7. FlushesOK'
    BY <2>5, <2>6 DEF FlushesOK
  <2> QED BY <2>4, <2>7, <1>10 DEF Answer, docVars
<1> QED BY <1>5, <1>6, <1>7, <1>8, <1>9, <1>10 DEF FlushStep

-----------------------------------------------------------------------------
(* Types and the deadline *)

Invariant == TypeOK /\ HardDeadline

LEMMA InitInvariant == Init => Invariant
<1> SUFFICES ASSUME Init PROVE Invariant
  OBVIOUS
<1>1. /\ pending \in Seq(Requests) /\ cap \in BOOLEAN /\ quiet \in BOOLEAN
      /\ fired \in 0 .. MaxFired /\ maxSize \in {NormalMax, BulkMax} /\ flushes = {}
  <2>1. cap \in BOOLEAN /\ quiet \in BOOLEAN
    BY DEF Init
  <2>2. pending \in Seq(Requests) /\ maxSize \in {NormalMax, BulkMax} /\ flushes = {}
    BY DEF Init
  <2>3. fired \in 0 .. MaxFired
    BY ConstantsAssumption DEF Init
  <2> QED BY <2>1, <2>2, <2>3
<1>2. /\ call \in [Requests -> {"new", "waiting", "ok", "err"}]
      /\ reply \in [Requests -> {"none", "ok", "err"}]
      /\ stored \subseteq Requests /\ unflushed \subseteq Requests /\ panicked \subseteq Requests
  BY DEF Init
<1>3. /\ bulk \in BOOLEAN /\ mixed \in BOOLEAN
      /\ policy \in Policies /\ prev \in Policies /\ initial \in Policies
  BY ConstantsAssumption DEF Init
<1>4. /\ load \in [Loads -> {"idle", "checked", "done"} \cup
       {"enabled", "saved", "switchedOn", "readOn", "on", "disabled", "switchedOff", "readOff"}]
      /\ size \in [Loads -> {NormalMax, BulkMax}]
  BY DEF Init
<1>5. HardDeadline
  BY DEF Init, HardDeadline
<1> QED BY <1>1, <1>2, <1>3, <1>4, <1>5 DEF Invariant, TypeOK

LEMMA SubmitInvariant ==
  ASSUME Invariant, NEW r \in Requests, SubmitFills(r) \/ SubmitWaits(r)
  PROVE  Invariant'
<1>1. /\ FlushesOK /\ pending \in Seq(Requests) /\ Append(pending, r) \in Seq(Requests)
      /\ Append(pending, r) # <<>>
      /\ pending = <<>> => Len(Append(pending, r)) = 1
  BY DEF Invariant, TypeOK, FlushesOK
<1>2. /\ call' \in [Requests -> {"new", "waiting", "ok", "err"}]
      /\ UNCHANGED <<fired, maxSize, reply, docVars, bulkVars>>
  BY DEF SubmitFills, SubmitWaits, Enter, Invariant, TypeOK
<1>3. CASE SubmitFills(r)
  <2>1. FlushesOK' /\ pending' = <<>> /\ cap' = FALSE /\ quiet' = FALSE
    BY <1>1, <1>3, DrainType, r \in Requests \cup {NoOwner} DEF SubmitFills
  <2>2. cap' \in BOOLEAN /\ quiet' \in BOOLEAN
    BY <2>1
  <2>3. pending' \in Seq(Requests) /\ HardDeadline'
    BY <2>1 DEF HardDeadline
  <2> QED
    BY <1>2, <2>1, <2>2, <2>3 DEF Invariant, TypeOK, FlushesOK, docVars, bulkVars
<1>4. CASE SubmitWaits(r)
  <2>1. pending' = Append(pending, r) /\ flushes' = flushes /\ quiet' = TRUE
        /\ cap' = (cap \/ Len(pending') = 1)
    BY <1>4 DEF SubmitWaits, Arm
  <2>2. cap' \in BOOLEAN
    BY <2>1
  <2>3. HardDeadline'
    <3>1. CASE pending = <<>>
      BY <3>1, <2>1, <1>1 DEF HardDeadline
    <3>2. CASE pending # <<>>
      BY <3>2, <1>2, <2>1 DEF HardDeadline, Invariant
    <3> QED BY <3>1, <3>2
  <2> QED
    BY <1>1, <1>2, <2>1, <2>2, <2>3 DEF Invariant, TypeOK, docVars, bulkVars
<1> QED BY <1>3, <1>4

LEMMA TimerInvariant ==
  ASSUME Invariant, CapFires \/ QuietFires \/ OnTimer
  PROVE  Invariant'
<1>1. CASE CapFires
  <2>1. fired' \in 0 .. MaxFired /\ fired' > 0
    BY <1>1, ConstantsAssumption DEF CapFires, Invariant, TypeOK
  <2>2. cap' \in BOOLEAN /\ quiet' \in BOOLEAN
    BY <1>1 DEF CapFires, Invariant, TypeOK
  <2> QED
    BY <1>1, <2>1, <2>2 DEF CapFires, Invariant, TypeOK, HardDeadline, docVars, bulkVars
<1>2. CASE QuietFires
  <2>1. fired' \in 0 .. MaxFired /\ fired' > 0
    BY <1>2, ConstantsAssumption DEF QuietFires, Invariant, TypeOK
  <2>2. cap' \in BOOLEAN /\ quiet' \in BOOLEAN
    BY <1>2 DEF QuietFires, Invariant, TypeOK
  <2> QED
    BY <1>2, <2>1, <2>2 DEF QuietFires, Invariant, TypeOK, HardDeadline, docVars, bulkVars
<1>3. CASE OnTimer
  <2>1. FlushesOK /\ pending \in Seq(Requests)
    BY DEF Invariant, TypeOK, FlushesOK
  <2>2. /\ FlushesOK' /\ pending' = <<>>
        /\ cap' \in BOOLEAN /\ quiet' \in BOOLEAN
    <3>1. CASE pending # <<>> /\ Drain(pending, NoOwner)
      BY <3>1, <2>1, DrainType
    <3>2. CASE pending = <<>> /\ UNCHANGED <<flushes, batchVars>>
      BY <3>2, <2>1 DEF FlushesOK, batchVars, Invariant, TypeOK
    <3> QED BY <3>1, <3>2, <1>3 DEF OnTimer
  <2>3. fired' \in 0 .. MaxFired
    BY <1>3, ConstantsAssumption DEF OnTimer, Invariant, TypeOK
  <2> QED
    BY <1>3, <2>2, <2>3
    DEF OnTimer, Invariant, TypeOK, HardDeadline, FlushesOK, docVars, bulkVars
<1> QED BY <1>1, <1>2, <1>3

LEMMA FlushInvariant ==
  ASSUME Invariant, NEW f \in flushes, FlushStep(f)
  PROVE  Invariant'
<1>1. /\ FlushesOK' /\ reply' \in [Requests -> {"none", "ok", "err"}]
      /\ stored' \subseteq Requests /\ unflushed' \subseteq Requests
      /\ panicked' \subseteq Requests
      /\ UNCHANGED <<batchVars, fired, maxSize, call, bulkVars>>
  <2>1. /\ FlushesOK /\ reply \in [Requests -> {"none", "ok", "err"}]
        /\ stored \subseteq Requests /\ unflushed \subseteq Requests
        /\ panicked \subseteq Requests
    BY DEF Invariant, TypeOK, FlushesOK
  <2> QED BY <2>1, FlushStepType
<1> QED
  BY <1>1 DEF Invariant, TypeOK, HardDeadline, FlushesOK, batchVars, bulkVars

LEMMA ReplyInvariant ==
  ASSUME Invariant, NEW r \in Requests, TakeReply(r)
  PROVE  Invariant'
<1>1. /\ call' \in [Requests -> {"new", "waiting", "ok", "err"}]
      /\ reply' \in [Requests -> {"none", "ok", "err"}]
  BY DEF TakeReply, Invariant, TypeOK
<1> QED
  BY <1>1 DEF TakeReply, Invariant, TypeOK, HardDeadline, batchVars, docVars, bulkVars

LEMMA LoadInvariant ==
  ASSUME Invariant, NEW l \in Loads, LoadStep(l)
  PROVE  Invariant'
<1>1. UNCHANGED batcherVars
  BY DEF LoadStep, CheckBulk, Enable, Save, Relax, Disable, Restore, ReadThresholds,
         SetThresholds
<1>2. /\ maxSize' \in {NormalMax, BulkMax} /\ bulk' \in BOOLEAN
      /\ policy' \in Policies /\ prev' \in Policies /\ initial' \in Policies
      /\ mixed' \in BOOLEAN
      /\ size' \in [Loads -> {NormalMax, BulkMax}]
  BY DEF Invariant, TypeOK, LoadStep, CheckBulk, Enable, Save, SavePolicy, Relax, Disable,
         Restore, ReadThresholds, BatchThresholds, SetThresholds
<1>3. load' \in [Loads -> {"idle", "checked", "done"} \cup
       {"enabled", "saved", "switchedOn", "readOn", "on", "disabled", "switchedOff", "readOff"}]
  BY DEF Invariant, TypeOK, LoadStep, CheckBulk, Enable, Save, Relax, Disable,
         Restore, ReadThresholds, SetThresholds, At
<1> QED
  BY <1>1, <1>2, <1>3
  DEF batcherVars, batchVars, docVars, Invariant, TypeOK, HardDeadline

LEMMA StepInvariant == Invariant /\ [Next]_vars => Invariant'
<1> SUFFICES ASSUME Invariant, [Next]_vars PROVE Invariant'
  OBVIOUS
<1>1. CASE UNCHANGED vars
  BY <1>1 DEF vars, Invariant, TypeOK, HardDeadline
<1>2. CASE \E r \in Requests : RequestStep(r)
  BY <1>2, SubmitInvariant, ReplyInvariant DEF RequestStep
<1>3. CASE CapFires \/ QuietFires \/ OnTimer
  BY <1>3, TimerInvariant
<1>4. CASE \E f \in flushes : FlushStep(f)
  BY <1>4, FlushInvariant
<1>5. CASE \E l \in Loads : LoadStep(l)
  BY <1>5, LoadInvariant
<1> QED BY <1>1, <1>2, <1>3, <1>4, <1>5 DEF Next

THEOREM InvariantHolds == Spec => []Invariant
BY InitInvariant, StepInvariant, PTL DEF Spec

(* Every value stays in its type (turbo.Batcher, SetBulkMode).             *)
THEOREM TypeCorrect == Spec => []TypeOK
BY InvariantHolds, PTL DEF Invariant

(* maxWait is a hard bound: a batch that has begun always has its cap      *)
(* timer set or a callback on its way (Batcher.Submit, onTimer,            *)
(* drainLocked), with any number of requests and stale callbacks.          *)
THEOREM DeadlineHolds == Spec => []HardDeadline
BY InvariantHolds, PTL DEF Invariant

-----------------------------------------------------------------------------
(* Every caller is told the fate of its own document.  OwnResult alone is  *)
(* not inductive: a request must be known to sit in one place only, with   *)
(* its document untouched until its batch commits, and a batch that is     *)
(* being answered must have its failures match what was stored.            *)

Untouched(r) == r \notin stored \cup unflushed \cup panicked
Waits(r) == call[r] = "waiting" /\ reply[r] = "none"
Distinct(s) == \A i, j \in DOMAIN s : s[i] = s[j] => i = j
Elsewhere(r) == \A f \in flushes : r \notin Members(f.items)

Forming ==
  /\ Distinct(pending)
  /\ \A r \in Members(pending) : Waits(r) /\ Untouched(r) /\ Elsewhere(r)

NotEntered ==
  \A r \in Requests : call[r] = "new" =>
    reply[r] = "none" /\ Untouched(r) /\ r \notin Members(pending) /\ Elsewhere(r)

Fate(f) ==
  \A r \in Members(f.items) :
    /\ r \in f.failed => r \notin stored \/ r \in panicked
    /\ r \notin f.failed => r \in stored \cup unflushed

InFlight(f) ==
  /\ Distinct(f.items)
  /\ \A r \in Unanswered(f) : Waits(r)
  /\ f.at # "answer" => f.told = 0 /\ \A r \in Members(f.items) : Untouched(r)
  /\ f.at = "answer" => Fate(f)

Apart == \A f, g \in flushes : f # g => Members(f.items) \cap Members(g.items) = {}

OwnInv ==
  Forming /\ NotEntered /\ (\A f \in flushes : InFlight(f)) /\ Apart /\ OwnResult

(* The forming batch becomes a flush.                                      *)
LEMMA DrainOwn ==
  ASSUME NEW items, NEW owner, Drain(items, owner), Distinct(items),
         \A r \in Members(items) : Elsewhere(r),
         \A r \in Members(items) : Waits(r)' /\ Untouched(r)',
         \A f \in flushes : InFlight(f), \A f \in flushes : InFlight(f)', Apart
  PROVE  /\ Forming'
         /\ (\A f \in flushes : InFlight(f))' /\ Apart'
         /\ \A f \in flushes' : f \in flushes \/ Members(f.items) = Members(items)
<1> DEFINE g == [items |-> items, at |-> "prep", failed |-> {}, told |-> 0, owner |-> owner]
<1>1. flushes' = flushes \cup {g} /\ pending' = <<>>
  BY DEF Drain
<1>2. g.items = items /\ g.at = "prep" /\ g.told = 0
  OBVIOUS
<1>3. Unanswered(g) \subseteq Members(items)
  BY <1>2 DEF Unanswered, Members
<1>4. InFlight(g)'
  BY <1>2, <1>3 DEF InFlight, Unanswered
<1> HIDE DEF g
<1>5. Forming'
  BY <1>1 DEF Forming, Distinct, Members
<1>6. Apart'
  BY <1>1, <1>2 DEF Apart, Elsewhere
<1> QED BY <1>1, <1>2, <1>4, <1>5, <1>6

LEMMA InitOwn == Init => OwnInv
BY DEF Init, OwnInv, Forming, NotEntered, Apart, OwnResult, Untouched, Distinct, Members,
       Elsewhere

LEMMA MembersAppend ==
  ASSUME NEW s \in Seq(Requests), NEW r \in Requests
  PROVE  /\ Members(Append(s, r)) = Members(s) \cup {r}
         /\ Distinct(s) /\ r \notin Members(s) => Distinct(Append(s, r))
<1>1. /\ DOMAIN s = 1 .. Len(s) /\ DOMAIN Append(s, r) = 1 .. Len(s) + 1
      /\ Len(s) \in Nat /\ Append(s, r)[Len(s) + 1] = r
      /\ \A i \in 1 .. Len(s) : Append(s, r)[i] = s[i]
  OBVIOUS
<1>2. Members(Append(s, r)) = Members(s) \cup {r}
  <2>1. Members(Append(s, r)) \subseteq Members(s) \cup {r}
    BY <1>1 DEF Members
  <2>2. r \in Members(Append(s, r))
    BY <1>1 DEF Members
  <2>3. Members(s) \subseteq Members(Append(s, r))
    BY <1>1 DEF Members
  <2> QED BY <2>1, <2>2, <2>3
<1>3. ASSUME Distinct(s), r \notin Members(s) PROVE Distinct(Append(s, r))
  BY <1>1, <1>3 DEF Distinct, Members
<1> QED BY <1>2, <1>3

LEMMA SubmitOwn ==
  ASSUME Invariant, OwnInv, NEW r \in Requests, SubmitFills(r) \/ SubmitWaits(r)
  PROVE  OwnInv'
<1> DEFINE now == Append(pending, r)
<1>1. /\ call[r] = "new" /\ call' = [call EXCEPT ![r] = "waiting"]
      /\ reply' = reply /\ stored' = stored /\ unflushed' = unflushed /\ panicked' = panicked
  BY DEF SubmitFills, SubmitWaits, Enter, docVars
<1>2. /\ call \in [Requests -> {"new", "waiting", "ok", "err"}]
      /\ pending \in Seq(Requests) /\ \A f \in flushes : f \in Flush
      /\ Members(pending) \subseteq Requests
  BY DEF Invariant, TypeOK, Members
<1>3. reply[r] = "none" /\ Untouched(r) /\ r \notin Members(pending) /\ Elsewhere(r)
  BY <1>1 DEF OwnInv, NotEntered
<1>4. Members(now) = Members(pending) \cup {r} /\ Distinct(now)
  BY <1>2, <1>3, MembersAppend DEF OwnInv, Forming
<1>5. \A q \in Members(now) : Untouched(q) /\ Elsewhere(q)
  BY <1>3, <1>4 DEF OwnInv, Forming
<1>6. \A q \in Members(now) : Waits(q)' /\ Untouched(q)'
  BY <1>1, <1>2, <1>3, <1>4 DEF OwnInv, Forming, Waits, Untouched
<1>7. \A f \in flushes : InFlight(f)'
  <2> SUFFICES ASSUME NEW f \in flushes PROVE InFlight(f)'
    OBVIOUS
  <2>1. Unanswered(f) \subseteq Members(f.items)
    BY DEF Unanswered, Members
  <2>2. r \notin Members(f.items)
    BY <1>3 DEF Elsewhere
  <2>3. \A q \in Unanswered(f) : Waits(q)'
    BY <1>1, <1>2, <2>1, <2>2 DEF OwnInv, InFlight, Waits
  <2>4. (f.at # "answer" => f.told = 0 /\ \A q \in Members(f.items) : Untouched(q)')
        /\ (f.at = "answer" => Fate(f)')
    BY <1>1 DEF OwnInv, InFlight, Untouched, Fate
  <2> QED BY <2>3, <2>4 DEF OwnInv, InFlight
<1>8. OwnResult'
  BY <1>1, <1>2 DEF OwnInv, OwnResult
<1>9. ASSUME NEW q \in Requests, call'[q] = "new"
      PROVE  /\ q # r /\ q \notin Members(now) /\ Elsewhere(q)
             /\ reply'[q] = "none" /\ Untouched(q)'
  <2>1. q # r /\ call[q] = "new"
    BY <1>1, <1>2, <1>9
  <2> QED BY <1>1, <1>4, <2>1 DEF OwnInv, NotEntered, Untouched
<1>10. CASE SubmitFills(r)
  <2>1. Drain(now, r)
    BY <1>10 DEF SubmitFills
  <2>3. /\ Forming' /\ (\A f \in flushes : InFlight(f))' /\ Apart'
        /\ \A f \in flushes' : f \in flushes \/ Members(f.items) = Members(now)
    BY <1>4, <1>5, <1>6, <1>7, <2>1, DrainOwn DEF OwnInv
  <2>4. pending' = <<>> /\ Members(<<>>) = {}
    BY <2>1 DEF Drain, Members
  <2>5. NotEntered'
    BY <1>9, <2>3, <2>4 DEF NotEntered, Elsewhere
  <2> QED BY <1>8, <2>3, <2>5 DEF OwnInv
<1>11. CASE SubmitWaits(r)
  <2>1. pending' = now /\ flushes' = flushes
    BY <1>11 DEF SubmitWaits
  <2>2. Forming' /\ NotEntered'
    BY <1>4, <1>5, <1>6, <1>9, <2>1 DEF Forming, NotEntered, Elsewhere
  <2> QED BY <1>7, <1>8, <2>1, <2>2 DEF OwnInv, Apart
<1> QED BY <1>10, <1>11

LEMMA TimerOwn ==
  ASSUME Invariant, OwnInv, CapFires \/ QuietFires \/ OnTimer
  PROVE  OwnInv'
<1>1. UNCHANGED <<call, reply, docVars>>
  BY DEF CapFires, QuietFires, OnTimer
<1>2. \A r : /\ Waits(r)' <=> Waits(r)
             /\ Untouched(r)' <=> Untouched(r)
  BY <1>1 DEF Waits, Untouched, docVars
<1>3. \A f : InFlight(f) => InFlight(f)'
  BY <1>1, <1>2 DEF InFlight, Fate, docVars
<1>4. OwnResult'
  BY <1>1 DEF OwnInv, OwnResult, docVars
<1>5. CASE UNCHANGED <<pending, flushes>>
  BY <1>1, <1>2, <1>3, <1>4, <1>5 DEF OwnInv, Forming, NotEntered, Apart, Elsewhere
<1>6. CASE Drain(pending, NoOwner)
  <2>1. /\ Forming' /\ (\A f \in flushes : InFlight(f))' /\ Apart'
        /\ \A f \in flushes' : f \in flushes \/ Members(f.items) = Members(pending)
    BY <1>2, <1>3, <1>6, DrainOwn DEF OwnInv, Forming
  <2>2. pending' = <<>> /\ Members(<<>>) = {}
    BY <1>6 DEF Drain, Members
  <2>3. NotEntered'
    BY <1>1, <1>2, <2>1, <2>2 DEF OwnInv, NotEntered, Elsewhere
  <2> QED BY <1>4, <2>1, <2>3 DEF OwnInv
<1> QED BY <1>5, <1>6 DEF CapFires, QuietFires, OnTimer, batchVars

(* A flush that has not touched Badger turns into another state of itself: *)
(* A, B, C are what its commit adds to stored, unflushed and panicked.     *)
LEMMA CommitOwn ==
  ASSUME Invariant, OwnInv, NEW f \in flushes, f.at # "answer",
         NEW A, NEW B, NEW C, NEW g,
         A \subseteq Members(f.items), B \subseteq Members(f.items),
         C \subseteq Members(f.items),
         stored' = stored \cup A, unflushed' = unflushed \cup B, panicked' = panicked \cup C,
         Becomes(f, g), g.items = f.items, g.told = 0,
         g.at # "answer" => A = {} /\ B = {} /\ C = {},
         g.at = "answer" => \A r \in Members(f.items) :
                              /\ r \in g.failed => r \notin A \/ r \in C
                              /\ r \notin g.failed => r \in A \cup B
  PROVE  OwnInv'
<1>1. /\ flushes' = (flushes \ {f}) \cup {g}
      /\ UNCHANGED <<pending, call, reply>>
  BY DEF Becomes, batchVars
<1>2. \A r : Waits(r)' <=> Waits(r)
  BY <1>1 DEF Waits
<1>3. ASSUME NEW r, r \notin Members(f.items) PROVE Untouched(r) => Untouched(r)'
  BY <1>3 DEF Untouched
<1>4. f.told = 0 /\ \A r \in Members(f.items) : Untouched(r)
  BY DEF OwnInv, InFlight
<1>5. ASSUME NEW h \in flushes \ {f} PROVE InFlight(h)'
  <2>1. InFlight(h) /\ Members(h.items) \cap Members(f.items) = {}
    BY <1>5 DEF OwnInv, Apart
  <2>2. h.at = "answer" => Fate(h)'
    BY <2>1 DEF InFlight, Fate
  <2>3. \A r \in Members(h.items) : Untouched(r) => Untouched(r)'
    BY <2>1, <1>3
  <2> QED BY <1>2, <2>1, <2>2, <2>3 DEF InFlight
<1>6. InFlight(g)'
  <2>1. Unanswered(g) = Unanswered(f)
    BY <1>4 DEF Unanswered
  <2>2. Distinct(g.items) /\ \A r \in Unanswered(g) : Waits(r)'
    BY <1>2, <2>1 DEF OwnInv, InFlight
  <2>3. g.at # "answer" => \A r \in Members(g.items) : Untouched(r)'
    BY <1>4 DEF Untouched
  <2>4. g.at = "answer" => Fate(g)'
    BY <1>4 DEF Fate, Untouched
  <2> QED BY <2>2, <2>3, <2>4 DEF InFlight
<1>7. \A r : Elsewhere(r) => Elsewhere(r)' /\ r \notin Members(f.items)
  BY <1>1 DEF Elsewhere
<1>8. Forming' /\ NotEntered'
  BY <1>1, <1>2, <1>3, <1>7 DEF OwnInv, Forming, NotEntered
<1>9. Apart'
  BY <1>1 DEF OwnInv, Apart
<1>10. OwnResult'
  <2> SUFFICES ASSUME NEW r \in Requests
               PROVE  /\ "ok" \in {reply'[r], call'[r]} => r \in stored' \cup unflushed'
                      /\ "err" \in {reply'[r], call'[r]} => r \notin stored' \/ r \in panicked'
    BY DEF OwnResult
  <2>1. CASE r \in Members(f.items)
    <3>1. r \in Unanswered(f)
      <4>1. f \in Flush
        BY DEF Invariant, TypeOK
      <4>2. \A i \in DOMAIN f.items : i > 0
        BY <4>1, FlushFields
      <4> QED BY <2>1, <1>4, <4>2 DEF Unanswered, Members
    <3>2. Waits(r)
      BY <3>1 DEF OwnInv, InFlight
    <3> QED BY <3>2, <1>1 DEF Waits
  <2>2. CASE r \notin Members(f.items)
    BY <2>2, <1>1 DEF OwnInv, OwnResult
  <2> QED BY <2>1, <2>2
<1> QED BY <1>1, <1>5, <1>6, <1>8, <1>9, <1>10 DEF OwnInv

LEMMA AnswerOwn ==
  ASSUME Invariant, OwnInv, NEW f \in flushes, Answer(f)
  PROVE  OwnInv'
<1> DEFINE i == f.told + 1
           q == f.items[i]
           g == [f EXCEPT !.told = i]
<1>1. /\ f \in Flush /\ f.told < Len(f.items)
      /\ reply \in [Requests -> {"none", "ok", "err"}]
      /\ \A h \in flushes : h \in Flush
  BY DEF Invariant, TypeOK
<1>2. /\ i \in DOMAIN f.items /\ f.told \in Nat /\ i > f.told
      /\ q \in Members(f.items) /\ q \in Requests /\ q \in Unanswered(f)
      /\ DOMAIN f.items = 1 .. Len(f.items) /\ Len(f.items) \in Nat
  BY <1>1, FlushFields DEF Members, Unanswered
<1>3. /\ reply' = [reply EXCEPT ![q] = Verdict(f, i)]
      /\ flushes' = flushes \ {f} \/ flushes' = (flushes \ {f}) \cup {g}
      /\ UNCHANGED <<pending, call, stored, unflushed, panicked>>
      /\ f.at = "answer"
  BY DEF Answer, batchVars, docVars
<1>4. /\ g.items = f.items /\ g.at = "answer" /\ g.failed = f.failed /\ g.told = i
  BY <1>1, <1>3 DEF Flush
<1>5. \A r : Untouched(r)' <=> Untouched(r)
  BY <1>3 DEF Untouched
<1>6. \A r : r # q /\ Waits(r) => Waits(r)'
  BY <1>1, <1>3 DEF Waits
<1>7. ASSUME NEW h \in flushes \ {f} PROVE InFlight(h)'
  <2>1. InFlight(h) /\ q \notin Members(h.items)
    BY <1>2, <1>7 DEF OwnInv, Apart
  <2>2. Unanswered(h) \subseteq Members(h.items)
    BY DEF Unanswered, Members
  <2>3. \A r \in Unanswered(h) : Waits(r)'
    BY <1>6, <2>1, <2>2 DEF InFlight
  <2> QED BY <1>3, <1>5, <2>1, <2>3 DEF InFlight, Fate
<1>8. InFlight(g)'
  <2>1. InFlight(f)
    BY DEF OwnInv
  <2>2. q \notin Unanswered(g) /\ Unanswered(g) \subseteq Unanswered(f)
    <3>1. \A j \in DOMAIN f.items : j > i => f.items[j] # q
      BY <1>2, <2>1 DEF InFlight, Distinct
    <3> QED BY <1>2, <1>4, <3>1 DEF Unanswered
  <2>3. \A r \in Unanswered(g) : Waits(r)'
    BY <1>6, <2>1, <2>2 DEF InFlight
  <2> QED BY <1>3, <1>4, <2>1, <2>3 DEF InFlight, Fate
<1> HIDE DEF g, i
<1>9. \A r : Elsewhere(r) => Elsewhere(r)' /\ r # q
  BY <1>2, <1>3, <1>4 DEF Elsewhere
<1>10. Forming' /\ NotEntered'
  BY <1>1, <1>3, <1>5, <1>6, <1>9 DEF OwnInv, Forming, NotEntered
<1>11. Apart'
  BY <1>3, <1>4 DEF OwnInv, Apart
<1>12. OwnResult'
  <2>1. InFlight(f) /\ Fate(f) /\ Waits(q)
    BY <1>2, <1>3 DEF OwnInv, InFlight
  <2>2. \A r \in Requests : r # q => reply'[r] = reply[r]
    BY <1>1, <1>3
  <2>3. reply'[q] = Verdict(f, i) /\ call'[q] = "waiting"
    BY <1>1, <1>2, <1>3, <2>1 DEF Waits
  <2>4. Verdict(f, i) = IF q \in f.failed THEN "err" ELSE "ok"
    BY DEF Verdict
  <2> QED BY <1>2, <1>3, <2>1, <2>2, <2>3, <2>4 DEF OwnInv, OwnResult, Fate
<1> QED BY <1>3, <1>7, <1>8, <1>10, <1>11, <1>12 DEF OwnInv

LEMMA FlushOwn ==
  ASSUME Invariant, OwnInv, NEW f \in flushes, FlushStep(f)
  PROVE  OwnInv'
<1>1. /\ f \in Flush /\ Ready(f) \subseteq Members(f.items)
      /\ Ready(f) = Members(f.items) \ f.failed
  BY FlushFields DEF Invariant, TypeOK, Ready
<1>2. f.at # "answer" => f.told = 0
  BY DEF OwnInv, InFlight
<1>3. ASSUME NEW at, NEW failed PROVE
        LET g == [f EXCEPT !.at = at, !.failed = failed]
        IN g.items = f.items /\ g.told = f.told /\ g.at = at /\ g.failed = failed
  BY <1>1 DEF Flush
<1>4. CASE Prep(f)
  <2>1. /\ stored' = stored \cup {} /\ unflushed' = unflushed \cup {}
        /\ panicked' = panicked \cup {} /\ f.at = "prep"
    BY <1>4 DEF Prep, docVars
  <2>2. CASE \E bad : Becomes(f, [f EXCEPT !.at = "commit", !.failed = bad])
    <3>1. PICK bad : Becomes(f, [f EXCEPT !.at = "commit", !.failed = bad])
      BY <2>2
    <3> DEFINE g == [f EXCEPT !.at = "commit", !.failed = bad]
    <3>2. g.items = f.items /\ g.told = 0 /\ g.at = "commit"
      BY <1>2, <1>3, <2>1
    <3> HIDE DEF g
    <3>3. Becomes(f, g)
      BY <3>1 DEF g
    <3> QED BY <2>1, <3>2, <3>3, CommitOwn
  <2>3. CASE Becomes(f, [f EXCEPT !.at = "answer", !.failed = Members(f.items)])
    <3> DEFINE g == [f EXCEPT !.at = "answer", !.failed = Members(f.items)]
    <3>1. g.items = f.items /\ g.told = 0 /\ g.at = "answer" /\ g.failed = Members(f.items)
      BY <1>2, <1>3, <2>1
    <3>2. Becomes(f, g)
      BY <2>3
    <3> HIDE DEF g
    <3> QED BY <2>1, <3>1, <3>2, CommitOwn
  <2> QED BY <1>4, <2>2, <2>3 DEF Prep
<1>5. CASE Refuse(f)
  <2> DEFINE g == [f EXCEPT !.at = "answer", !.failed = Members(f.items)]
  <2>1. /\ stored' = stored \cup {} /\ unflushed' = unflushed \cup {}
        /\ panicked' = panicked \cup {} /\ f.at = "commit"
    BY <1>5 DEF Refuse, docVars
  <2>2. g.items = f.items /\ g.told = 0 /\ g.at = "answer" /\ g.failed = Members(f.items)
    BY <1>2, <1>3, <2>1
  <2>3. Becomes(f, g)
    BY <1>5 DEF Refuse
  <2> HIDE DEF g
  <2> QED BY <2>1, <2>2, <2>3, CommitOwn
<1>6. CASE Commit(f)
  <2>1. PICK refused \in SUBSET Ready(f) :
          /\ Becomes(f, [f EXCEPT !.at = "answer", !.failed = f.failed \cup refused])
          /\ stored' = stored \cup (Ready(f) \ refused)
    BY <1>6 DEF Commit
  <2> DEFINE g == [f EXCEPT !.at = "answer", !.failed = f.failed \cup refused]
  <2>2. f.at = "commit" /\ unflushed' = unflushed \cup {} /\ panicked' = panicked \cup {}
    BY <1>6 DEF Commit
  <2>3. g.items = f.items /\ g.told = 0 /\ g.at = "answer" /\ g.failed = f.failed \cup refused
    BY <1>2, <1>3, <2>2
  <2>4. Becomes(f, g)
    BY <2>1
  <2> HIDE DEF g
  <2>5. \A r \in Members(f.items) :
          /\ r \in g.failed => r \notin Ready(f) \ refused
          /\ r \notin g.failed => r \in (Ready(f) \ refused) \cup {}
    BY <1>1, <2>3
  <2> QED BY <1>1, <2>1, <2>2, <2>3, <2>4, <2>5, CommitOwn
<1>7. CASE CommitPartly(f)
  <2>1. PICK kept :
          /\ kept \subseteq Members(f.items) \ f.failed
          /\ stored' = stored \cup kept
          /\ unflushed' = unflushed \cup (Ready(f) \ kept)
    <3>1. PICK cut \in 0 .. Len(f.items) :
            /\ stored' = stored \cup ({f.items[i] : i \in 1 .. cut} \ f.failed)
            /\ unflushed' = unflushed \cup (Ready(f) \ ({f.items[i] : i \in 1 .. cut} \ f.failed))
      BY <1>7 DEF CommitPartly
    <3>2. {f.items[i] : i \in 1 .. cut} \subseteq Members(f.items)
      BY <1>1, FlushFields DEF Members
    <3> QED BY <3>1, <3>2
  <2> DEFINE g == [f EXCEPT !.at = "answer"]
  <2>2. f.at = "commit" /\ panicked' = panicked \cup {} /\ Becomes(f, g)
    BY <1>7 DEF CommitPartly
  <2>3. g.items = f.items /\ g.told = 0 /\ g.at = "answer" /\ g.failed = f.failed
    BY <1>1, <1>2, <2>2 DEF Flush
  <2> HIDE DEF g
  <2>4. \A r \in Members(f.items) :
          /\ r \in g.failed => r \notin kept
          /\ r \notin g.failed => r \in kept \cup (Ready(f) \ kept)
    BY <1>1, <2>1, <2>3
  <2> QED BY <1>1, <2>1, <2>2, <2>3, <2>4, CommitOwn
<1>8. CASE CommitPanics(f)
  <2> DEFINE g == [f EXCEPT !.at = "answer", !.failed = Members(f.items)]
  <2>1. PICK A : A \subseteq Members(f.items) /\ stored' = stored \cup A
    <3>1. stored' = stored \cup {} \/ stored' = stored \cup Ready(f)
      BY <1>8 DEF CommitPanics
    <3> QED BY <1>1, <3>1
  <2>2. /\ f.at = "commit" /\ unflushed' = unflushed \cup {}
        /\ panicked' = panicked \cup Members(f.items) /\ Becomes(f, g)
    BY <1>8 DEF CommitPanics
  <2>3. g.items = f.items /\ g.told = 0 /\ g.at = "answer" /\ g.failed = Members(f.items)
    BY <1>2, <1>3, <2>2
  <2> HIDE DEF g
  <2> QED BY <2>1, <2>2, <2>3, CommitOwn
<1>9. CASE Answer(f)
  BY <1>9, AnswerOwn
<1> QED BY <1>4, <1>5, <1>6, <1>7, <1>8, <1>9 DEF FlushStep

LEMMA ReplyOwn ==
  ASSUME Invariant, OwnInv, NEW r \in Requests, TakeReply(r)
  PROVE  OwnInv'
<1>1. /\ call \in [Requests -> {"new", "waiting", "ok", "err"}]
      /\ reply \in [Requests -> {"none", "ok", "err"}]
  BY DEF Invariant, TypeOK
<1>2. /\ call[r] = "waiting" /\ reply[r] # "none"
      /\ call' = [call EXCEPT ![r] = reply[r]]
      /\ reply' = [reply EXCEPT ![r] = "none"]
      /\ UNCHANGED <<pending, flushes, stored, unflushed, panicked>>
  BY DEF TakeReply, batchVars, docVars
<1>3. \A q : Waits(q) => Waits(q)'
  BY <1>1, <1>2 DEF Waits
<1>4. \A q : /\ Untouched(q)' <=> Untouched(q)
             /\ Elsewhere(q)' <=> Elsewhere(q)
  BY <1>2 DEF Untouched, Elsewhere
<1>5. Forming'
  BY <1>2, <1>3, <1>4 DEF OwnInv, Forming
<1>6. \A f \in flushes : InFlight(f)'
  BY <1>2, <1>3, <1>4 DEF OwnInv, InFlight, Fate
<1>7. NotEntered'
  <2> SUFFICES ASSUME NEW q \in Requests, call'[q] = "new"
               PROVE  /\ reply'[q] = "none" /\ Untouched(q) /\ q \notin Members(pending)
                      /\ Elsewhere(q)
    BY <1>2, <1>4 DEF NotEntered
  <2>1. q # r
    BY <1>1, <1>2
  <2> QED BY <1>1, <1>2, <2>1 DEF OwnInv, NotEntered
<1>8. OwnResult'
  <2>1. call'[r] = reply[r] /\ reply'[r] = "none"
    BY <1>1, <1>2
  <2>2. \A q \in Requests : q # r => call'[q] = call[q] /\ reply'[q] = reply[q]
    BY <1>1, <1>2
  <2> QED BY <1>2, <2>1, <2>2 DEF OwnInv, OwnResult
<1> QED BY <1>2, <1>5, <1>6, <1>7, <1>8 DEF OwnInv, Apart

LEMMA QuietOwn ==
  ASSUME OwnInv, UNCHANGED <<pending, flushes, call, reply, docVars>>
  PROVE  OwnInv'
BY DEF OwnInv, Forming, NotEntered, InFlight, Fate, Apart, OwnResult, Waits, Untouched,
       Elsewhere, docVars

LEMMA StepOwn == Invariant /\ OwnInv /\ [Next]_vars => OwnInv'
<1> SUFFICES ASSUME Invariant, OwnInv, [Next]_vars PROVE OwnInv'
  OBVIOUS
<1>1. CASE UNCHANGED vars
  BY <1>1, QuietOwn DEF vars, docVars
<1>2. CASE \E r \in Requests : RequestStep(r)
  BY <1>2, SubmitOwn, ReplyOwn DEF RequestStep
<1>3. CASE CapFires \/ QuietFires \/ OnTimer
  BY <1>3, TimerOwn
<1>4. CASE \E f \in flushes : FlushStep(f)
  BY <1>4, FlushOwn
<1>5. CASE \E l \in Loads : LoadStep(l)
  <2>1. UNCHANGED <<pending, flushes, call, reply, docVars>>
    BY <1>5 DEF LoadStep, CheckBulk, Enable, Save, Relax, Disable, Restore,
                ReadThresholds, SetThresholds, batcherVars, batchVars
  <2> QED BY <2>1, QuietOwn
<1> QED BY <1>1, <1>2, <1>3, <1>4, <1>5 DEF Next

(* Each caller learns what happened to its own document, although its      *)
(* batch is filled, fired and answered by other goroutines (runFlush,      *)
(* insertBatchLocalDetailed), for any number of callers and batch sizes.   *)
THEOREM OwnResultHolds == Spec => []OwnResult
<1>1. OwnInv => OwnResult
  BY DEF OwnInv
<1> QED BY <1>1, InitOwn, StepOwn, InvariantHolds, PTL DEF Spec

-----------------------------------------------------------------------------
(* A request is never in two places, and while it waits it is in one: of   *)
(* that, OwnInv says where it is not, and only what follows is missing.    *)
Somewhere(r) ==
  \/ r \in Members(pending)
  \/ \E f \in flushes : r \in Unanswered(f)
  \/ reply[r] # "none"

PlaceInv ==
  \A r \in Requests :
    /\ reply[r] # "none" => call[r] = "waiting"
    /\ call[r] = "waiting" => Somewhere(r)

LEMMA InitPlace == Init => PlaceInv
BY DEF Init, PlaceInv

(* The batch that leaves takes each of its requests along.                 *)
LEMMA DrainPlace ==
  ASSUME PlaceInv, NEW items \in Seq(Requests), NEW owner, Drain(items, owner),
         reply' = reply, Members(pending) \subseteq Members(items),
         \A r \in Requests : call'[r] = call[r] \/ (r \in Members(items) /\ call'[r] = "waiting")
  PROVE  PlaceInv'
<1> DEFINE g == [items |-> items, at |-> "prep", failed |-> {}, told |-> 0, owner |-> owner]
<1>1. flushes' = flushes \cup {g} /\ g.items = items /\ g.told = 0
  BY DEF Drain
<1> HIDE DEF g
<1>2. Unanswered(g) = Members(items)
  <2>1. \A j \in DOMAIN items : j > 0
    OBVIOUS
  <2> QED BY <1>1, <2>1 DEF Unanswered, Members
<1>3. \A r \in Requests : r \in Members(items) => Somewhere(r)'
  BY <1>1, <1>2 DEF Somewhere
<1>4. \A r \in Requests : Somewhere(r) => Somewhere(r)'
  <2> SUFFICES ASSUME NEW r \in Requests, Somewhere(r) PROVE Somewhere(r)'
    OBVIOUS
  <2>1. CASE r \in Members(pending)
    BY <2>1, <1>3
  <2>2. CASE r \notin Members(pending)
    BY <2>2, <1>1 DEF Somewhere
  <2> QED BY <2>1, <2>2
<1>5. \A r \in Requests : reply'[r] # "none" => call'[r] = "waiting"
  BY DEF PlaceInv
<1> QED BY <1>3, <1>4, <1>5 DEF PlaceInv

LEMMA SubmitPlace ==
  ASSUME Invariant, PlaceInv, NEW r \in Requests, SubmitFills(r) \/ SubmitWaits(r)
  PROVE  PlaceInv'
<1> DEFINE now == Append(pending, r)
<1>1. pending \in Seq(Requests) /\ call \in [Requests -> {"new", "waiting", "ok", "err"}]
  BY DEF Invariant, TypeOK
<1>2. now \in Seq(Requests) /\ Members(pending) \subseteq Members(now) /\ r \in Members(now)
  <2>1. /\ now \in Seq(Requests) /\ DOMAIN now = 1 .. Len(pending) + 1
        /\ \A i \in DOMAIN pending : i \in DOMAIN now /\ now[i] = pending[i]
        /\ Len(pending) + 1 \in DOMAIN now /\ now[Len(pending) + 1] = r
    BY <1>1
  <2> HIDE DEF now
  <2> QED BY <2>1 DEF Members
<1>3. call' = [call EXCEPT ![r] = "waiting"] /\ reply' = reply
  BY DEF SubmitFills, SubmitWaits, Enter
<1>4. \A q \in Requests :
        /\ call'[q] = call[q] \/ (q \in Members(now) /\ call'[q] = "waiting")
        /\ q # r => call'[q] = call[q]
  BY <1>1, <1>2, <1>3
<1>5. CASE SubmitFills(r)
  <2>1. Drain(now, r)
    BY <1>5 DEF SubmitFills
  <2> HIDE DEF now
  <2> QED BY <1>2, <1>3, <1>4, <2>1, DrainPlace
<1>6. CASE SubmitWaits(r)
  <2>1. pending' = now /\ flushes' = flushes
    BY <1>6 DEF SubmitWaits
  <2> HIDE DEF now
  <2>2. \A q \in Requests : Somewhere(q) \/ q = r => Somewhere(q)'
    BY <1>2, <1>3, <2>1 DEF Somewhere
  <2> QED BY <1>1, <1>3, <1>4, <2>2 DEF PlaceInv
<1> QED BY <1>5, <1>6

LEMMA TimerPlace ==
  ASSUME Invariant, PlaceInv, CapFires \/ QuietFires \/ OnTimer
  PROVE  PlaceInv'
<1>1. UNCHANGED <<call, reply>> /\ pending \in Seq(Requests)
  BY DEF CapFires, QuietFires, OnTimer, Invariant, TypeOK
<1>2. CASE UNCHANGED <<pending, flushes>>
  BY <1>1, <1>2 DEF PlaceInv, Somewhere
<1>3. CASE Drain(pending, NoOwner)
  BY <1>1, <1>3, DrainPlace
<1> QED BY <1>2, <1>3 DEF CapFires, QuietFires, OnTimer, batchVars

(* A flush that goes on without answering keeps its waiters.               *)
LEMMA BecomesPlace ==
  ASSUME PlaceInv, NEW f \in flushes, NEW g, Becomes(f, g),
         g.items = f.items, g.told = f.told
  PROVE  PlaceInv'
<1>1. flushes' = (flushes \ {f}) \cup {g} /\ UNCHANGED <<pending, call, reply>>
  BY DEF Becomes, batchVars
<1>2. Unanswered(g) = Unanswered(f)
  BY DEF Unanswered
<1>3. \A r : Somewhere(r) => Somewhere(r)'
  BY <1>1, <1>2 DEF Somewhere
<1> QED BY <1>1, <1>3 DEF PlaceInv

LEMMA AnswerPlace ==
  ASSUME Invariant, OwnInv, PlaceInv, NEW f \in flushes, Answer(f)
  PROVE  PlaceInv'
<1> DEFINE i == f.told + 1
           q == f.items[i]
           g == [f EXCEPT !.told = i]
<1>1. /\ f \in Flush /\ f.told < Len(f.items)
      /\ reply \in [Requests -> {"none", "ok", "err"}]
  BY DEF Invariant, TypeOK
<1>2. /\ i \in DOMAIN f.items /\ f.told \in Nat /\ q \in Requests /\ q \in Unanswered(f)
      /\ DOMAIN f.items = 1 .. Len(f.items) /\ Len(f.items) \in Nat
  BY <1>1, FlushFields DEF Members, Unanswered
<1>3. /\ reply' = [reply EXCEPT ![q] = Verdict(f, i)]
      /\ flushes' = IF i = Len(f.items) THEN flushes \ {f} ELSE (flushes \ {f}) \cup {g}
      /\ UNCHANGED <<pending, call>>
  BY DEF Answer, batchVars
<1>4. g.items = f.items /\ g.told = i
  BY <1>1 DEF Flush
<1>5. call[q] = "waiting" /\ Verdict(f, i) \in {"ok", "err"}
  BY <1>2 DEF OwnInv, InFlight, Waits, Verdict
<1>6. /\ reply'[q] # "none"
      /\ \A r \in Requests : r # q => reply'[r] = reply[r]
  BY <1>1, <1>2, <1>3, <1>5
<1>7. \A r \in Unanswered(f) :
        r = q \/ (i # Len(f.items) /\ r \in Unanswered(g))
  <2> SUFFICES ASSUME NEW j \in DOMAIN f.items, j > f.told, f.items[j] # q
               PROVE  i # Len(f.items) /\ f.items[j] \in Unanswered(g)
    BY DEF Unanswered
  <2>1. j > i
    BY <1>2
  <2> QED BY <1>2, <1>4, <2>1 DEF Unanswered
<1> HIDE DEF g, i, q
<1>8. \A r \in Requests : Somewhere(r) => Somewhere(r)'
  <2> SUFFICES ASSUME NEW r \in Requests, Somewhere(r) PROVE Somewhere(r)'
    OBVIOUS
  <2>1. CASE r = q
    BY <1>6, <2>1 DEF Somewhere
  <2>2. CASE r # q
    BY <1>3, <1>6, <1>7, <2>2 DEF Somewhere
  <2> QED BY <2>1, <2>2
<1> QED BY <1>2, <1>3, <1>5, <1>6, <1>8 DEF PlaceInv

LEMMA FlushPlace ==
  ASSUME Invariant, OwnInv, PlaceInv, NEW f \in flushes, FlushStep(f)
  PROVE  PlaceInv'
<1>1. f \in Flush
  BY DEF Invariant, TypeOK
<1>2. CASE Answer(f)
  BY <1>2, AnswerPlace
<1>3. CASE ~Answer(f)
  <2>1. PICK g : Becomes(f, g) /\ g.items = f.items /\ g.told = f.told
    <3>1. ASSUME NEW at, NEW failed, Becomes(f, [f EXCEPT !.at = at, !.failed = failed])
          PROVE  \E g : Becomes(f, g) /\ g.items = f.items /\ g.told = f.told
      <4>1. PICK g : g = [f EXCEPT !.at = at, !.failed = failed]
        OBVIOUS
      <4>2. g.items = f.items /\ g.told = f.told
        BY <1>1, <4>1 DEF Flush
      <4> QED BY <3>1, <4>1, <4>2
    <3>2. ASSUME Becomes(f, [f EXCEPT !.at = "answer"])
          PROVE  \E g : Becomes(f, g) /\ g.items = f.items /\ g.told = f.told
      <4>1. PICK g : g = [f EXCEPT !.at = "answer"]
        OBVIOUS
      <4>2. g.items = f.items /\ g.told = f.told
        BY <1>1, <4>1 DEF Flush
      <4> QED BY <3>2, <4>1, <4>2
    <3>3. CASE Prep(f)
      <4>1. PICK at, failed : Becomes(f, [f EXCEPT !.at = at, !.failed = failed])
        BY <3>3 DEF Prep
      <4> QED BY <3>1, <4>1
    <3>4. CASE Refuse(f) \/ CommitPanics(f)
      <4>1. Becomes(f, [f EXCEPT !.at = "answer", !.failed = Members(f.items)])
        BY <3>4 DEF Refuse, CommitPanics
      <4> QED BY <3>1, <4>1
    <3>5. CASE Commit(f)
      <4>1. PICK refused :
              Becomes(f, [f EXCEPT !.at = "answer", !.failed = f.failed \cup refused])
        BY <3>5 DEF Commit
      <4> QED BY <3>1, <4>1
    <3>6. CASE CommitPartly(f)
      BY <3>2, <3>6 DEF CommitPartly
    <3> QED BY <1>3, <3>3, <3>4, <3>5, <3>6 DEF FlushStep
  <2> QED BY <2>1, BecomesPlace
<1> QED BY <1>2, <1>3

LEMMA ReplyPlace ==
  ASSUME Invariant, PlaceInv, NEW r \in Requests, TakeReply(r)
  PROVE  PlaceInv'
<1>1. /\ call \in [Requests -> {"new", "waiting", "ok", "err"}]
      /\ reply \in [Requests -> {"none", "ok", "err"}]
  BY DEF Invariant, TypeOK
<1>2. /\ call' = [call EXCEPT ![r] = reply[r]] /\ reply' = [reply EXCEPT ![r] = "none"]
      /\ reply[r] # "none" /\ UNCHANGED <<pending, flushes>>
  BY DEF TakeReply, batchVars
<1>3. /\ call'[r] # "waiting" /\ reply'[r] = "none"
      /\ \A q \in Requests : q # r => call'[q] = call[q] /\ reply'[q] = reply[q]
  BY <1>1, <1>2
<1>4. \A q \in Requests : q # r /\ Somewhere(q) => Somewhere(q)'
  BY <1>2, <1>3 DEF Somewhere
<1> QED BY <1>3, <1>4 DEF PlaceInv

LEMMA StepPlace == Invariant /\ OwnInv /\ PlaceInv /\ [Next]_vars => PlaceInv'
<1> SUFFICES ASSUME Invariant, OwnInv, PlaceInv, [Next]_vars PROVE PlaceInv'
  OBVIOUS
<1>1. CASE UNCHANGED vars
  BY <1>1 DEF vars, PlaceInv, Somewhere
<1>2. CASE \E r \in Requests : RequestStep(r)
  BY <1>2, SubmitPlace, ReplyPlace DEF RequestStep
<1>3. CASE CapFires \/ QuietFires \/ OnTimer
  BY <1>3, TimerPlace
<1>4. CASE \E f \in flushes : FlushStep(f)
  BY <1>4, FlushPlace
<1>5. CASE \E l \in Loads : LoadStep(l)
  <2>1. UNCHANGED <<pending, flushes, call, reply>>
    BY <1>5 DEF LoadStep, CheckBulk, Enable, Save, Relax, Disable, Restore,
                ReadThresholds, SetThresholds, batcherVars, batchVars
  <2> QED BY <2>1 DEF PlaceInv, Somewhere
<1> QED BY <1>1, <1>2, <1>3, <1>4, <1>5 DEF Next

(* The flushes that have a request unanswered are one or none.             *)
LEMMA UnansweredOnce ==
  ASSUME Invariant, OwnInv, NEW r \in Requests
  PROVE  LET B == {f \in flushes : r \in Unanswered(f)}
         IN  /\ B = {} => Cardinality(B) = 0
             /\ B # {} => Cardinality(B) = 1
<1> DEFINE B == {f \in flushes : r \in Unanswered(f)}
<1>1. B = {} => Cardinality(B) = 0
  BY FS_EmptySet
<1>2. ASSUME B # {} PROVE Cardinality(B) = 1
  <2>1. PICK f \in flushes : r \in Unanswered(f)
    BY <1>2
  <2>2. \A g \in flushes : r \in Unanswered(g) => r \in Members(g.items)
    BY DEF Unanswered, Members
  <2>3. \A g \in flushes : r \in Unanswered(g) => g = f
    BY <2>1, <2>2 DEF OwnInv, Apart
  <2>4. B = {f}
    BY <2>1, <2>3
  <2> QED BY <2>4, FS_Singleton
<1> QED BY <1>1, <1>2

LEMMA InOnePlace == Invariant /\ OwnInv /\ PlaceInv => OnePlace
<1> SUFFICES ASSUME Invariant, OwnInv, PlaceInv, NEW r \in Requests
             PROVE  Places(r) = IF call[r] = "waiting" THEN 1 ELSE 0
  BY DEF OnePlace
<1> DEFINE B == {f \in flushes : r \in Unanswered(f)}
<1>1. (B = {} => Cardinality(B) = 0) /\ (B # {} => Cardinality(B) = 1)
  BY UnansweredOnce
<1>2. r \in Members(pending) =>
        call[r] = "waiting" /\ reply[r] = "none" /\ \A f \in flushes : r \notin Members(f.items)
  BY DEF OwnInv, Forming, Waits, Elsewhere
<1>3. \A f \in flushes : r \in Unanswered(f) => r \in Members(f.items)
  BY DEF Unanswered, Members
<1>4. \A f \in flushes : r \in Unanswered(f) => call[r] = "waiting" /\ reply[r] = "none"
  BY DEF OwnInv, InFlight, Waits
<1>5. r \in Members(pending) => B = {}
  BY <1>2, <1>3
<1>6. B # {} => call[r] = "waiting" /\ reply[r] = "none"
  BY <1>4
<1>7. reply[r] # "none" => call[r] = "waiting"
  BY DEF PlaceInv
<1>8. call[r] = "waiting" => r \in Members(pending) \/ B # {} \/ reply[r] # "none"
  BY DEF PlaceInv, Somewhere
<1>9. Places(r) = (IF r \in Members(pending) THEN 1 ELSE 0) + Cardinality(B)
                  + (IF reply[r] # "none" THEN 1 ELSE 0)
  BY DEF Places
<1> HIDE DEF B
<1> QED BY <1>1, <1>2, <1>5, <1>6, <1>7, <1>8, <1>9

(* No request is drained twice, forgotten or answered twice: while its     *)
(* InsertFast call waits, it is in the forming batch, in one flush that    *)
(* has not answered it, or its answer is on its channel (drainLocked,      *)
(* runFlush), whatever timers fire.                                        *)
THEOREM OnePlaceHolds == Spec => []OnePlace
BY InitPlace, StepPlace, InOnePlace, InitOwn, StepOwn, InvariantHolds, PTL DEF Spec

-----------------------------------------------------------------------------
(* One load at a time is under way as long as no toggle met another's;     *)
(* what bulk mode, the policy and the thresholds are then follows from     *)
(* how far it is.                                                          *)
Found == ~bulk /\ policy = initial /\ maxSize = NormalMax
Alone == \A k, l \in Loads : load[k] \notin Resting /\ load[l] \notin Resting => k = l

Phase(l) ==
  /\ load[l] = "enabled" => bulk /\ policy = initial
  /\ load[l] = "saved" => bulk /\ prev = initial
  /\ load[l] \in {"switchedOn", "readOn", "on"} => bulk /\ policy = "interval" /\ prev = initial
  /\ load[l] = "readOn" => size[l] = BulkMax
  /\ load[l] = "on" => maxSize = BulkMax
  /\ load[l] = "disabled" => ~bulk /\ prev = initial
  /\ load[l] \in {"switchedOff", "readOff"} => ~bulk /\ policy = initial
  /\ load[l] = "readOff" => size[l] = NormalMax

BracketInv ==
  ~mixed => /\ Alone
            /\ \A l \in Loads : Phase(l)
            /\ (\A l \in Loads : load[l] \in Resting) => Found

LEMMA InitBracket == Init => BracketInv
<1> SUFFICES ASSUME Init PROVE BracketInv
  OBVIOUS
<1>1. \A l \in Loads : load[l] = "idle"
  BY DEF Init
<1>2. Found
  BY DEF Init, Found
<1> QED BY <1>1, <1>2 DEF BracketInv, Alone, Phase

(* A load's step changes bulk mode for a load that is alone.               *)
LEMMA LoadBracket ==
  ASSUME Invariant, BracketInv, NEW l \in Loads, LoadStep(l)
  PROVE  BracketInv'
<1> SUFFICES ASSUME ~mixed'
             PROVE  /\ Alone' /\ (\A k \in Loads : Phase(k)')
                    /\ (\A k \in Loads : load'[k] \in Resting) => Found'
  BY DEF BracketInv
<1>1. /\ load \in [Loads -> {"idle", "checked", "done"} \cup
           {"enabled", "saved", "switchedOn", "readOn", "on", "disabled", "switchedOff",
            "readOff"}]
      /\ size \in [Loads -> {NormalMax, BulkMax}]
  BY DEF Invariant, TypeOK
<1>2. ~mixed
  BY DEF LoadStep, CheckBulk, Enable, Save, Relax, Disable, Restore, ReadThresholds,
         SetThresholds
<1>3. /\ Alone /\ \A k \in Loads : Phase(k)
      /\ (\A k \in Loads : load[k] \in Resting) => Found
  BY <1>2 DEF BracketInv
<1>4. initial' = initial
  BY DEF LoadStep, CheckBulk, Enable, Save, Relax, Disable, Restore, ReadThresholds,
         SetThresholds
<1>5. \A k \in Loads \ {l} : load'[k] = load[k] /\ size'[k] = size[k]
  BY <1>1 DEF LoadStep, CheckBulk, Enable, Save, Relax, Disable, Restore, ReadThresholds,
         SetThresholds, At
<1>6. CASE CheckBulk(l)
  <2>1. /\ load[l] \in Resting /\ load'[l] \in Resting
        /\ UNCHANGED <<bulk, policy, prev, maxSize>>
    BY <1>1, <1>6 DEF CheckBulk
  <2>2. \A k \in Loads : load'[k] \in Resting <=> load[k] \in Resting
    BY <1>5, <2>1
  <2>3. \A k \in Loads : Phase(k)'
    <3>1. Phase(l)'
      BY <2>1 DEF Phase
    <3>2. ASSUME NEW k \in Loads \ {l} PROVE Phase(k)'
      BY <1>3, <1>4, <1>5, <2>1 DEF Phase
    <3> QED BY <3>1, <3>2
  <2> QED BY <1>3, <1>4, <2>1, <2>2, <2>3 DEF Alone, Found
<1>7. CASE ~CheckBulk(l)
  <2>1. OthersRest(l)
    <3>1. CASE Enable(l) \/ Disable(l)
      BY <3>1 DEF Enable, Disable
    <3>2. CASE ~(Enable(l) \/ Disable(l))
      <4>1. load[l] \notin Resting
        BY <1>7, <3>2 DEF LoadStep, Save, Relax, Restore, ReadThresholds, SetThresholds, At
      <4> QED BY <1>3, <4>1 DEF Alone, OthersRest
    <3> QED BY <3>1, <3>2
  <2>2. \A k \in Loads \ {l} : load'[k] \in Resting
    BY <1>5, <2>1 DEF OthersRest
  <2>3. Alone'
    BY <2>2 DEF Alone
  <2>4. \A k \in Loads \ {l} : Phase(k)'
    BY <2>2 DEF Phase
  <2>5. load[l] \in Resting => Found
    BY <1>3, <2>1 DEF OthersRest
  <2>6. Phase(l)
    BY <1>3
  <2>7. Phase(l)' /\ (load'[l] \in Resting => Found')
    <3>1. CASE Enable(l)
      BY <1>1, <1>4, <2>5, <3>1 DEF Enable, Phase, Found
    <3>2. CASE Save(l)
      BY <1>1, <1>4, <2>6, <3>2 DEF Save, SavePolicy, At, Phase
    <3>3. CASE Relax(l)
      BY <1>1, <1>4, <2>6, <3>3 DEF Relax, At, Phase
    <3>4. CASE Disable(l)
      BY <1>1, <1>4, <2>1, <2>6, <3>4 DEF Disable, Phase
    <3>5. CASE Restore(l)
      BY <1>1, <1>4, <2>6, <3>5 DEF Restore, At, Phase
    <3>6. CASE ReadThresholds(l)
      BY <1>1, <1>4, <2>6, <3>6 DEF ReadThresholds, BatchThresholds, At, Phase
    <3>7. CASE SetThresholds(l)
      BY <1>1, <1>4, <2>6, <3>7 DEF SetThresholds, At, Phase, Found
    <3> QED BY <1>7, <3>1, <3>2, <3>3, <3>4, <3>5, <3>6, <3>7 DEF LoadStep
  <2> QED BY <2>3, <2>4, <2>7
<1> QED BY <1>6, <1>7

LEMMA StepBracket == Invariant /\ BracketInv /\ [Next]_vars => BracketInv'
<1> SUFFICES ASSUME Invariant, BracketInv, [Next]_vars PROVE BracketInv'
  OBVIOUS
<1>1. CASE \E l \in Loads : LoadStep(l)
  BY <1>1, LoadBracket
<1>2. CASE ~\E l \in Loads : LoadStep(l)
  <2>1. UNCHANGED <<bulkVars, maxSize>>
    <3>1. CASE UNCHANGED vars
      BY <3>1 DEF vars, bulkVars
    <3>2. CASE \E f \in flushes : FlushStep(f)
      BY <3>2 DEF FlushStep, Prep, Refuse, Commit, CommitPartly, CommitPanics, Answer, Becomes
    <3>3. CASE \E r \in Requests : RequestStep(r)
      BY <3>3 DEF RequestStep, SubmitFills, SubmitWaits, TakeReply, Enter
    <3>4. CASE CapFires \/ QuietFires \/ OnTimer
      BY <3>4 DEF CapFires, QuietFires, OnTimer
    <3> QED BY <1>2, <3>1, <3>2, <3>3, <3>4 DEF Next
  <2> QED BY <2>1 DEF bulkVars, BracketInv, Alone, Phase, Found
<1> QED BY <1>1, <1>2

(* SetBulkMode's four steps bracket a load that meets no other toggle: it  *)
(* runs relaxed and with bulk thresholds, and when all loads are done      *)
(* again the policy and the thresholds are the ones it found.              *)
THEOREM BulkBracketsHold == Spec => []BulkBrackets
<1>1. BracketInv => BulkBrackets
  BY DEF BracketInv, BulkBrackets, Phase, Found
<1> QED BY <1>1, InitBracket, StepBracket, InvariantHolds, PTL DEF Spec
=============================================================================
