--------------------------- MODULE WalWriterProofs ---------------------------
(***************************************************************************)
(* Theorems about one lifetime of the write-ahead log, for any number of   *)
(* goroutines, entries, segments and disk errors: types, what success and  *)
(* the marker stand for, what may stay without an fsync; and, in the last  *)
(* part, that WalWriter implements DurableLog: each step of the writer is  *)
(* a step of the abstract log or changes nothing of it.                    *)
(***************************************************************************)
EXTENDS WalWriter, FiniteSetTheorems, WellFoundedInduction, TLAPS

(* An operator of the code under w.mu leaves a well-formed state and takes *)
(* nothing out of the files.                                               *)
Extends(f, g) == FileStateOK(g) /\ WrittenIn(f) \subseteq WrittenIn(g)

LEMMA ExtendsTransitive ==
  ASSUME NEW f, NEW g, NEW h, Extends(f, g), Extends(g, h)
  PROVE  Extends(f, h)
BY DEF Extends

(* Replacing the current segment by one that holds at least its entries.   *)
LEMMA SetCurrentExtends ==
  ASSUME NEW f, FileStateOK(f),
         NEW data \in Seq(Entry), NEW synced \in Nat, NEW dirty \in BOOLEAN,
         ToSet(Current(f).data) \subseteq ToSet(data)
  PROVE  /\ Extends(f, SetCurrent(f, data, synced, dirty))
         /\ ToSet(data) \subseteq WrittenIn(SetCurrent(f, data, synced, dirty))
<1> DEFINE n == Len(f.segs)
           seg == [data |-> data, synced |-> synced]
           g == SetCurrent(f, data, synced, dirty)
<1>1. /\ f.segs \in Seq(Segment) /\ n \in Nat \ {0} /\ n \in DOMAIN f.segs
      /\ seg \in Segment
  BY DEF FileStateOK, FileState, Segment
<1>2. /\ g.segs = [f.segs EXCEPT ![n] = seg]
      /\ g.segs \in Seq(Segment) /\ DOMAIN g.segs = DOMAIN f.segs
  BY <1>1 DEF SetCurrent, FileStateOK, FileState
<1>3. FileStateOK(g)
  BY <1>1, <1>2 DEF SetCurrent, FileStateOK, FileState
<1>4. \A i \in DOMAIN f.segs : ToSet(f.segs[i].data) \subseteq ToSet(g.segs[i].data)
  BY <1>1, <1>2 DEF Current
<1>5. WrittenIn(f) \subseteq WrittenIn(g)
  BY <1>2, <1>4 DEF WrittenIn
<1>6. g.segs[n].data = data
  BY <1>1, <1>2
<1>7. ToSet(data) \subseteq WrittenIn(g)
  BY <1>1, <1>2, <1>6 DEF WrittenIn
<1> QED BY <1>3, <1>5, <1>7 DEF Extends

LEMMA CurrentType ==
  ASSUME NEW f, FileStateOK(f)
  PROVE  /\ Current(f).data \in Seq(Entry) /\ Current(f).synced \in Nat
         /\ Len(f.segs) \in DOMAIN f.segs
<1>1. f.segs \in Seq(Segment) /\ f.first \in DOMAIN f.segs
  BY DEF FileStateOK, FileState
<1>2. Len(f.segs) \in DOMAIN f.segs /\ f.segs[Len(f.segs)] \in Segment
  BY <1>1
<1> QED BY <1>2 DEF Current, Segment

(* Concatenation keeps the entries of both parts.                          *)
LEMMA ToSetConcat ==
  ASSUME NEW S, NEW d \in Seq(S), NEW s \in Seq(S)
  PROVE  ToSet(d) \subseteq ToSet(d \o s) /\ ToSet(s) \subseteq ToSet(d \o s)
<1>1. ASSUME NEW x \in ToSet(d) PROVE x \in ToSet(d \o s)
  <2>1. PICK i \in 1 .. Len(d) : d[i] = x
    BY <1>1 DEF ToSet
  <2>2. i \in 1 .. Len(d \o s) /\ (d \o s)[i] = x
    BY <2>1
  <2> QED BY <2>2 DEF ToSet
<1>2. ASSUME NEW x \in ToSet(s) PROVE x \in ToSet(d \o s)
  <2>1. PICK i \in 1 .. Len(s) : s[i] = x
    BY <1>2 DEF ToSet
  <2>2. Len(d) + i \in 1 .. Len(d \o s) /\ (d \o s)[Len(d) + i] = x
    BY <2>1
  <2> QED BY <2>2 DEF ToSet
<1> QED BY <1>1, <1>2

LEMMA PutExtends ==
  ASSUME NEW f, FileStateOK(f), NEW s \in Seq(Entry)
  PROVE  Extends(f, Put(f, s)) /\ ToSet(s) \subseteq WrittenIn(Put(f, s))
<1> DEFINE d == Current(f).data
<1>1. d \in Seq(Entry) /\ d \o s \in Seq(Entry) /\ Current(f).synced \in Nat
  BY CurrentType
<1>2. ToSet(d) \subseteq ToSet(d \o s) /\ ToSet(s) \subseteq ToSet(d \o s)
  BY <1>1, ToSetConcat
<1>3. /\ Extends(f, Put(f, s))
      /\ ToSet(d \o s) \subseteq WrittenIn(Put(f, s))
  BY <1>1, <1>2, SetCurrentExtends DEF Put
<1> QED BY <1>2, <1>3

LEMMA SyncedExtends ==
  ASSUME NEW f, FileStateOK(f) PROVE Extends(f, Synced(f))
<1>1. Current(f).data \in Seq(Entry) /\ Len(Current(f).data) \in Nat
  BY CurrentType
<1> QED BY <1>1, SetCurrentExtends DEF Synced

LEMMA FaultExtends ==
  ASSUME NEW f, FileStateOK(f), f.faults > 0,
         NEW h \in {"open", "failed", "closed"}
  PROVE  Extends(f, Fault(f)) /\ Extends(f, [Fault(f) EXCEPT !.handle = h])
<1>1. MaxFaults \in Nat BY ConstantsAssumption
<1>2. f.faults \in 0 .. MaxFaults /\ f \in FileState
  BY DEF FileStateOK, FileState
<1>3. f.faults - 1 \in 0 .. MaxFaults
  BY <1>1, <1>2
<1>4. Fault(f) \in FileState /\ Fault(f).segs = f.segs /\ Fault(f).first = f.first
  BY <1>2, <1>3 DEF Fault, FileState
<1> DEFINE g == [Fault(f) EXCEPT !.handle = h]
<1>5. g \in FileState /\ g.segs = f.segs /\ g.first = f.first
  BY <1>4 DEF FileState
<1>6. FileStateOK(Fault(f)) /\ FileStateOK(g)
  BY <1>4, <1>5 DEF FileStateOK
<1>7. WrittenIn(Fault(f)) = WrittenIn(f) /\ WrittenIn(g) = WrittenIn(f)
  BY <1>4, <1>5 DEF WrittenIn
<1> QED BY <1>6, <1>7 DEF Extends

LEMMA SyncLockedExtends ==
  ASSUME NEW f, FileStateOK(f), NEW g \in SyncLocked(f)
  PROVE  Extends(f, g)
<1>1. Extends(f, f) BY DEF Extends
<1>2. f.faults > 0 => Extends(f, Fault(f)) BY FaultExtends
<1>3. Extends(f, Synced(f)) BY SyncedExtends
<1> QED BY <1>1, <1>2, <1>3 DEF SyncLocked

(* A failed write leaves a prefix of what it was given in the file.        *)
LEMMA WriteFailsExtends ==
  ASSUME NEW f, FileStateOK(f), NEW s \in Seq(Entry), NEW g \in WriteFails(f, s)
  PROVE  Extends(f, g)
<1>1. CASE ~WriteOK(f)
  BY <1>1 DEF WriteFails, Extends
<1>2. CASE WriteOK(f)
  <2>1. f.faults # 0 /\ f.faults \in 0 .. MaxFaults /\ MaxFaults \in Nat
    BY <1>2, ConstantsAssumption DEF WriteFails, FileStateOK, FileState
  <2>2. PICK n \in 0 .. Len(s) - 1 :
           g = [Fault(Put(f, SubSeq(s, 1, n))) EXCEPT !.handle = "failed"]
    BY <1>2, <2>1 DEF WriteFails
  <2> DEFINE p == Put(f, SubSeq(s, 1, n))
  <2>3. SubSeq(s, 1, n) \in Seq(Entry)
    BY <2>2
  <2>4. Extends(f, p)
    BY <2>3, PutExtends
  <2>5. p.faults = f.faults
    BY DEF Put, SetCurrent, FileStateOK, FileState
  <2>6. p.faults > 0
    BY <2>1, <2>5
  <2>7. Extends(p, g)
    BY <2>2, <2>4, <2>6, FaultExtends DEF Extends
  <2> QED BY <2>4, <2>7, ExtendsTransitive
<1> QED BY <1>1, <1>2

LEMMA RotateExtends ==
  ASSUME NEW f, FileStateOK(f), NEW g \in Rotate(f)
  PROVE  Extends(f, g) /\ g.handle = "open"
<1> DEFINE n == Len(f.segs) + 1
           fst == IF n - f.first + 1 > MaxSegs THEN n - MaxSegs + 1 ELSE f.first
<1>1. g = [f EXCEPT !.segs = Append(@, EmptySegment), !.first = fst,
                    !.dirty = FALSE, !.handle = "open"]
  BY DEF Rotate
<1>2. f \in FileState /\ f.segs \in Seq(Segment) /\ f.first \in DOMAIN f.segs
  BY DEF FileStateOK, FileState
<1>3. EmptySegment \in Segment
  BY DEF EmptySegment, Segment
<1>4. /\ Append(f.segs, EmptySegment) \in Seq(Segment)
      /\ \A i \in DOMAIN f.segs : /\ i \in DOMAIN Append(f.segs, EmptySegment)
                                  /\ Append(f.segs, EmptySegment)[i] = f.segs[i]
      /\ DOMAIN Append(f.segs, EmptySegment) = 1 .. n
  BY <1>2, <1>3
<1>5. MaxSegs \in Nat \ {0}
  BY ConstantsAssumption
<1>6. fst \in 1 .. n /\ fst \in Nat
  BY <1>2, <1>5
<1> HIDE DEF fst
<1>7. g \in FileState /\ g.segs = Append(f.segs, EmptySegment) /\ g.first = fst
      /\ g.handle = "open"
  BY <1>1, <1>2, <1>4, <1>6 DEF FileState
<1>8. FileStateOK(g)
  BY <1>4, <1>6, <1>7 DEF FileStateOK
<1>9. WrittenIn(f) \subseteq WrittenIn(g)
  BY <1>4, <1>7 DEF WrittenIn
<1> QED BY <1>7, <1>8, <1>9 DEF Extends

LEMMA RotateFailsExtends ==
  ASSUME NEW f, FileStateOK(f), NEW g \in RotateFails(f)
  PROVE  Extends(f, g) /\ g.handle = "closed"
<1>1. CASE f.handle = "closed"
  BY <1>1 DEF RotateFails, Extends
<1>2. CASE f.handle # "closed" /\ f.faults > 0
  <2>1. g = [Fault(f) EXCEPT !.handle = "closed"]
    BY <1>2 DEF RotateFails
  <2>2. Extends(f, g)
    BY <1>2, <2>1, FaultExtends
  <2> QED BY <2>1, <2>2 DEF Fault, FileStateOK, FileState
<1> QED BY <1>1, <1>2 DEF RotateFails

LEMMA RotateIfFullExtends ==
  ASSUME NEW f, FileStateOK(f), NEW g \in RotateIfFull(f)
  PROVE  Extends(f, g)
<1>1. Extends(f, f) BY DEF Extends
<1>2. g \in Rotate(f) \/ g \in RotateFails(f) \/ g = f
  BY DEF RotateIfFull
<1> QED BY <1>1, <1>2, RotateExtends, RotateFailsExtends

LEMMA PruneToLastExtends ==
  ASSUME NEW f, FileStateOK(f)
  PROVE  Extends(f, PruneToLast(f))
<1>1. f \in FileState /\ f.segs \in Seq(Segment) /\ f.first \in DOMAIN f.segs
  BY DEF FileStateOK, FileState
<1>2. Len(f.segs) \in Nat /\ Len(f.segs) \in DOMAIN f.segs
  BY <1>1
<1>3. /\ PruneToLast(f) \in FileState
      /\ PruneToLast(f).segs = f.segs /\ PruneToLast(f).first = Len(f.segs)
  BY <1>1, <1>2 DEF PruneToLast, FileState
<1> QED BY <1>2, <1>3 DEF Extends, FileStateOK, WrittenIn

(* What flushBatch and WriteBatch leave behind holds the batch.            *)
LEMMA FlushedExtends ==
  ASSUME NEW f, FileStateOK(f), NEW s \in Seq(Entry), NEW sync \in BOOLEAN,
         NEW g \in Flushed(f, s, sync)
  PROVE  Extends(f, g) /\ ToSet(s) \subseteq WrittenIn(g)
<1> DEFINE p == Put(f, s)
<1>1. Extends(f, p) /\ FileStateOK(p) /\ ToSet(s) \subseteq WrittenIn(p)
  BY PutExtends DEF Extends
<1>2. PICK q \in IF sync THEN SyncLocked(p) ELSE {p} : g \in RotateIfFull(q)
  BY DEF Flushed
<1>3. Extends(p, q)
  BY <1>1, <1>2, SyncLockedExtends DEF Extends
<1>4. Extends(q, g)
  BY <1>2, <1>3, RotateIfFullExtends DEF Extends
<1>5. Extends(p, g)
  BY <1>3, <1>4, ExtendsTransitive
<1> QED BY <1>1, <1>5, ExtendsTransitive DEF Extends

-----------------------------------------------------------------------------
(* The inductive invariant.  An answer is given in three steps: the flush  *)
(* decides opErr, the loop puts it on a done channel, the caller takes it; *)
(* at each of them a success must stand for an entry in a file.            *)
Delivered == \A e \in Entry : reply[e] = "ok" => e \in Written

Announced ==
  loop \in {"answer", "lastAnswer"} /\ ~opErr => ToSet(batch) \subseteq Written

IInv == TypeOK /\ AckedIsWritten /\ Delivered /\ Announced

LEMMA WrittenGrows ==
  ASSUME Extends(w, w') PROVE Written \subseteq Written'
BY DEF Extends, Written

LEMMA InitIInv == Init => IInv
<1> SUFFICES ASSUME Init PROVE IInv
  OBVIOUS
<1> USE DEF Init
<1>1. FileStateOK(w)
  <2>1. PICK p \in StartPolicies :
          w = [segs |-> <<EmptySegment>>, first |-> 1, dirty |-> FALSE, policy |-> p,
               handle |-> "open", faults |-> MaxFaults]
    OBVIOUS
  <2>2. p \in Policies /\ MaxFaults \in 0 .. MaxFaults
    BY ConstantsAssumption DEF Policies
  <2>3. <<EmptySegment>> \in Seq(Segment) /\ 1 \in DOMAIN <<EmptySegment>>
    BY DEF EmptySegment, Segment
  <2> QED BY <2>1, <2>2, <2>3 DEF FileStateOK, FileState
<1>2. made \in [Client -> Nat] /\ \A c \in Client : made[c] <= Quota[c]
  BY ConstantsAssumption DEF Client
<1>3. /\ <<>> \in Seq(Entry) /\ call \in [Client -> Seq(Entry)]
      /\ reply \in [Entry -> {"none", "ok", "err"}]
      /\ answer \in [Entry -> {"new", "sent", "ok", "failed"}]
      /\ checks \in 0 .. MaxChecks /\ switches \in 0 .. MaxSwitches
  BY ConstantsAssumption
<1>4. TypeOK
  BY <1>1, <1>2, <1>3 DEF TypeOK
<1>5. AckedIsWritten /\ Delivered /\ Announced
  BY DEF AckedIsWritten, Delivered, Announced
<1> QED BY <1>4, <1>5 DEF IInv

(* The entries a call of n entries is about.                               *)
LEMMA NextEntries ==
  ASSUME TypeOK, NEW c \in Client, NEW n \in Nat, made[c] + n <= Quota[c]
  PROVE  /\ \A i \in 1 .. n : <<c, made[c] + i>> \in Entry
         /\ [made EXCEPT ![c] = @ + n] \in [Client -> Nat]
         /\ \A d \in Client : [made EXCEPT ![c] = @ + n][d] <= Quota[d]
<1>1. made \in [Client -> Nat] /\ Quota \in [Client -> Nat]
  BY ConstantsAssumption DEF TypeOK, Client
<1>2. \A i \in 1 .. n : made[c] + i \in 1 .. Quota[c]
  BY <1>1
<1>3. \A i \in 1 .. n : <<c, made[c] + i>> \in Entry
  BY <1>2 DEF Entry
<1>4. \A d \in Client : made[d] <= Quota[d]
  BY DEF TypeOK
<1> QED BY <1>1, <1>3, <1>4

LEMMA StepSend ==
  ASSUME IInv, NEW c \in Client, Send(c) PROVE IInv'
<1> DEFINE e == <<c, made[c] + 1>>
<1> USE DEF IInv
<1>1. made[c] + 1 <= Quota[c]
  BY DEF Send, Begin
<1>2. e \in Entry /\ made' \in [Client -> Nat] /\ \A d \in Client : made'[d] <= Quota[d]
  BY <1>1, NextEntries DEF Send, Begin
<1>3. <<e>> \in Seq(Entry) /\ Append(writeChan, e) \in Seq(Entry)
  BY <1>2 DEF TypeOK
<1>4. TypeOK'
  BY <1>2, <1>3 DEF Send, Begin, Tell, TypeOK, closeVars, boundVars
<1>5. (AckedIsWritten /\ Delivered /\ Announced)'
  BY DEF Send, Begin, Tell, AckedIsWritten, Delivered, Announced, Written
<1> QED BY <1>4, <1>5

LEMMA StepRefuseSend ==
  ASSUME IInv, NEW c \in Client, RefuseSend(c) PROVE IInv'
<1> USE DEF IInv
<1>1. made' \in [Client -> Nat] /\ \A d \in Client : made'[d] <= Quota[d]
  BY NextEntries DEF RefuseSend, Begin
<1>2. TypeOK'
  BY <1>1 DEF RefuseSend, Begin, Tell, TypeOK, closeVars, boundVars
<1>3. (AckedIsWritten /\ Delivered /\ Announced)'
  BY DEF RefuseSend, Begin, Tell, AckedIsWritten, Delivered, Announced, Written
<1> QED BY <1>2, <1>3

LEMMA StepCallDirect ==
  ASSUME IInv, NEW c \in Client, NEW n \in 1 .. 2, CallDirect(c, n) PROVE IInv'
<1> DEFINE s == [i \in 1 .. n |-> <<c, made[c] + i>>]
<1> USE DEF IInv
<1>1. made[c] + n <= Quota[c]
  BY DEF CallDirect, Begin
<1>2. /\ \A i \in 1 .. n : <<c, made[c] + i>> \in Entry
      /\ made' \in [Client -> Nat] /\ \A d \in Client : made'[d] <= Quota[d]
  BY <1>1, NextEntries DEF CallDirect, Begin
<1>3. s \in Seq(Entry)
  BY <1>2
<1> HIDE DEF s
<1>4. call' = [call EXCEPT ![c] = s] /\ Tell(ToSet(s), "sent")
  BY DEF CallDirect, s
<1>5. TypeOK'
  BY <1>2, <1>3, <1>4 DEF CallDirect, Begin, Tell, TypeOK, closeVars, boundVars
<1>6. (AckedIsWritten /\ Delivered /\ Announced)'
  BY <1>4 DEF CallDirect, Begin, Tell, AckedIsWritten, Delivered, Announced, Written
<1> QED BY <1>5, <1>6

LEMMA StepWriteDirect ==
  ASSUME IInv, NEW c \in Client, WriteDirect(c) PROVE IInv'
<1> USE DEF IInv
<1> DEFINE s == call[c]
<1>1. s \in Seq(Entry) /\ FileStateOK(w)
  BY DEF TypeOK
<1>2. /\ Extends(w, w')
      /\ \E v \in {"ok", "err"} :
            Answer(ToSet(s), v) /\ (v = "ok" => ToSet(s) \subseteq WrittenIn(w'))
  <2>1. CASE /\ w' \in Flushed(w, s, w.policy = "always")
             /\ Answer(ToSet(s), Verdict(w'.handle = "closed"))
    <3>1. Extends(w, w') /\ ToSet(s) \subseteq WrittenIn(w')
      BY <1>1, <2>1, FlushedExtends
    <3> QED BY <2>1, <3>1 DEF Verdict
  <2>2. CASE w' \in WriteFails(w, s) /\ Answer(ToSet(s), Verdict(TRUE))
    BY <1>1, <2>2, WriteFailsExtends DEF Verdict
  <2> QED BY <2>1, <2>2 DEF WriteDirect
<1>3. Written \subseteq Written'
  BY <1>2, WrittenGrows
<1>4. TypeOK'
  BY <1>2 DEF WriteDirect, Answer, Extends, TypeOK, loopVars, callVars, closeVars, boundVars
<1>5. (AckedIsWritten /\ Announced)'
  BY <1>3 DEF WriteDirect, AckedIsWritten, Announced, loopVars, callVars
<1>6. Delivered'
  BY <1>2, <1>3 DEF Answer, Delivered, Written
<1> QED BY <1>4, <1>5, <1>6

LEMMA StepReturn ==
  ASSUME IInv, NEW c \in Client, NEW status \in {"ok", "failed"},
         status = "ok" => \A e \in ToSet(call[c]) : reply[e] = "ok",
         Return(c, status)
  PROVE  IInv'
<1> USE DEF IInv
<1>1. TypeOK'
  BY DEF Return, Tell, TypeOK, loopVars, closeVars, boundVars
<1>2. (AckedIsWritten /\ Delivered /\ Announced)'
  BY DEF Return, Tell, AckedIsWritten, Delivered, Announced, Written, loopVars
<1> QED BY <1>1, <1>2

LEMMA StepTakeReply ==
  ASSUME IInv, NEW c \in Client, TakeReply(c) PROVE IInv'
<1>1. PICK verdict \in {"ok", "err"} :
        /\ \A e \in ToSet(call[c]) : reply[e] = verdict
        /\ Return(c, IF verdict = "ok" THEN "ok" ELSE "failed")
  BY DEF TakeReply
<1> QED BY <1>1, StepReturn

LEMMA StepGiveUp ==
  ASSUME IInv, NEW c \in Client, GiveUp(c) PROVE IInv'
BY StepReturn DEF GiveUp

LEMMA StepReceive == ASSUME IInv, Receive PROVE IInv'
<1> USE DEF IInv
<1>1. Head(writeChan) \in Entry /\ Tail(writeChan) \in Seq(Entry)
  BY DEF Receive, TypeOK
<1>2. Append(batch, Head(writeChan)) \in Seq(Entry)
  BY <1>1 DEF TypeOK
<1>3. TypeOK'
  BY <1>1, <1>2 DEF Receive, TypeOK, callVars, closeVars, boundVars
<1>4. (AckedIsWritten /\ Delivered /\ Announced)'
  BY DEF Receive, AckedIsWritten, Delivered, Announced, Written, callVars
<1> QED BY <1>3, <1>4

(* The steps of the loop that touch neither a file nor an answer.          *)
LEMMA StepLoopOnly ==
  ASSUME IInv, Timer \/ ReadPolicy \/ Stop PROVE IInv'
<1> USE DEF IInv, Timer, ReadPolicy, Stop
<1>1. TypeOK'
  BY DEF TypeOK, callVars, closeVars, boundVars
<1>2. (AckedIsWritten /\ Delivered /\ Announced)'
  BY DEF AckedIsWritten, Delivered, Announced, Written, callVars
<1> QED BY <1>1, <1>2

(* The steps that only move the files forward.                             *)
LEMMA StepFilesOnly ==
  ASSUME IInv, Extends(w, w'), UNCHANGED <<batch, opErr, answer, reply>>,
         loop' = loop \/ loop' \notin {"answer", "lastAnswer"}
  PROVE  (AckedIsWritten /\ Delivered /\ Announced)'
<1>1. Written \subseteq Written'
  BY WrittenGrows
<1> QED BY <1>1 DEF IInv, AckedIsWritten, Delivered, Announced

LEMMA StepSync ==
  ASSUME IInv, Tick \/ StopEmpty PROVE IInv'
<1> USE DEF IInv
<1>1. FileStateOK(w)
  BY DEF TypeOK
<1>2. Extends(w, w')
  <2>1. UNCHANGED w \/ w' \in SyncLocked(w)
    BY DEF Tick, StopEmpty
  <2> QED BY <1>1, <2>1, SyncLockedExtends DEF Extends
<1>3. TypeOK'
  BY <1>2 DEF Tick, StopEmpty, Extends, TypeOK, callVars, closeVars, boundVars
<1>4. (AckedIsWritten /\ Delivered /\ Announced)'
  <2>1. UNCHANGED <<batch, opErr, answer, reply>>
    BY DEF Tick, StopEmpty, callVars
  <2>2. loop' = loop \/ loop' \notin {"answer", "lastAnswer"}
    BY DEF Tick, StopEmpty
  <2> QED BY <1>2, <2>1, <2>2, StepFilesOnly
<1> QED BY <1>3, <1>4

LEMMA StepFlush == ASSUME IInv, Flush PROVE IInv'
<1> USE DEF IInv
<1>1. FileStateOK(w) /\ batch \in Seq(Entry) /\ force \in BOOLEAN
  BY DEF TypeOK
<1>2. /\ Extends(w, w') /\ opErr' \in BOOLEAN
      /\ ~opErr' => ToSet(batch) \subseteq WrittenIn(w')
  <2>1. CASE w' \in Flushed(w, batch, force) /\ opErr' = FALSE
    BY <1>1, <2>1, FlushedExtends
  <2>2. CASE w' \in WriteFails(w, batch) /\ opErr' = TRUE
    BY <1>1, <2>2, WriteFailsExtends
  <2> QED BY <2>1, <2>2 DEF Flush
<1>3. Written \subseteq Written'
  BY <1>2, WrittenGrows
<1>4. TypeOK'
  BY <1>2 DEF Flush, Extends, TypeOK, callVars, closeVars, boundVars
<1>5. (AckedIsWritten /\ Delivered)'
  BY <1>3 DEF Flush, AckedIsWritten, Delivered, callVars
<1>6. Announced'
  BY <1>2 DEF Flush, Announced, Written
<1> QED BY <1>4, <1>5, <1>6

LEMMA StepAnswerNext == ASSUME IInv, AnswerNext PROVE IInv'
<1> USE DEF IInv
<1>1. /\ batch \in Seq(Entry) /\ batch # <<>>
      /\ loop \in {"answer", "lastAnswer"} /\ batch' = Tail(batch)
  BY DEF AnswerNext, TypeOK
<1>2. Head(batch) \in ToSet(batch)
  <2>1. 1 \in 1 .. Len(batch) /\ batch[1] = Head(batch)
    BY <1>1
  <2> QED BY <2>1 DEF ToSet
<1>3. ToSet(Tail(batch)) \subseteq ToSet(batch)
  <2>1. ASSUME NEW e \in ToSet(Tail(batch)) PROVE e \in ToSet(batch)
    <3>1. PICK i \in 1 .. Len(Tail(batch)) : Tail(batch)[i] = e
      BY DEF ToSet
    <3>2. i + 1 \in 1 .. Len(batch) /\ batch[i + 1] = e
      BY <1>1, <3>1
    <3> QED BY <3>2 DEF ToSet
  <2> QED BY <2>1
<1>4. Tail(batch) \in Seq(Entry)
  BY <1>1
<1>5. TypeOK'
  BY <1>1, <1>4 DEF AnswerNext, Answer, Verdict, TypeOK, callVars, closeVars, boundVars
<1>6. Delivered'
  <2>1. Verdict(opErr) = "ok" => Head(batch) \in Written
    BY <1>1, <1>2 DEF Verdict, Announced
  <2> QED BY <2>1 DEF AnswerNext, Answer, Delivered, Written
<1>7. Announced'
  <2>1. CASE Len(batch) > 1
    BY <1>1, <1>3, <2>1 DEF AnswerNext, Announced, Written
  <2>2. CASE ~(Len(batch) > 1)
    BY <1>1, <2>2 DEF AnswerNext, Announced
  <2> QED BY <2>1, <2>2
<1>8. AckedIsWritten'
  BY DEF AnswerNext, AckedIsWritten, Written, callVars
<1> QED BY <1>5, <1>6, <1>7, <1>8

LEMMA StepClose ==
  ASSUME IInv, CloseBegin \/ CloseMark PROVE IInv'
<1> USE DEF IInv
<1>1. Extends(w, w')
  BY FaultExtends DEF CloseBegin, CloseMark, Extends, TypeOK
<1>2. TypeOK'
  BY <1>1 DEF CloseBegin, CloseMark, Extends, TypeOK, loopVars, callVars, boundVars
<1>3. (AckedIsWritten /\ Delivered /\ Announced)'
  BY <1>1, StepFilesOnly DEF CloseBegin, CloseMark, loopVars, callVars
<1> QED BY <1>2, <1>3

LEMMA ClosedExtends ==
  ASSUME NEW f, NEW g, Extends(f, g), NEW h \in {"open", "failed", "closed"}
  PROVE  Extends(f, [g EXCEPT !.handle = h])
BY DEF Extends, FileStateOK, FileState, WrittenIn

LEMMA StepAdmin ==
  ASSUME IInv, CloseSync \/ CheckpointSync \/ RotateAndPruneFresh
  PROVE  IInv'
<1> USE DEF IInv
<1>1. FileStateOK(w)
  BY DEF TypeOK
<1>2. CASE CloseSync
  <2>1. Extends(w, w')
    BY <1>1, <1>2, SyncedExtends, ClosedExtends, FaultExtends DEF CloseSync, Extends
  <2> QED BY <1>2, <2>1, StepFilesOnly
          DEF CloseSync, Extends, TypeOK, loopVars, callVars, boundVars
<1>3. CASE CheckpointSync
  <2>1. Extends(w, w')
    BY <1>1, <1>3, SyncedExtends, FaultExtends DEF CheckpointSync, Extends
  <2>2. checks \in 0 .. MaxChecks /\ checks < MaxChecks /\ checks' = checks + 1
    BY <1>3 DEF CheckpointSync, TypeOK
  <2>3. checks' \in 0 .. MaxChecks
    BY <2>2, ConstantsAssumption
  <2>4. checkpoint' \in BOOLEAN
    BY <1>3 DEF CheckpointSync, TypeOK
  <2> QED BY <1>3, <2>1, <2>3, <2>4, StepFilesOnly
          DEF CheckpointSync, Extends, TypeOK, loopVars, callVars, closeVars
<1>4. CASE RotateAndPruneFresh
  <2>1. Extends(w, w')
    <3>1. CASE \E f \in Rotate(w) : w' = PruneToLast(f)
      <4>1. PICK f \in Rotate(w) : w' = PruneToLast(f)
        BY <3>1
      <4>2. Extends(w, f)
        BY <1>1, RotateExtends
      <4>3. Extends(f, w')
        BY <4>1, <4>2, PruneToLastExtends DEF Extends
      <4> QED BY <4>2, <4>3, ExtendsTransitive
    <3>2. CASE w' \in RotateFails(w)
      BY <1>1, <3>2, RotateFailsExtends
    <3> QED BY <1>4, <3>1, <3>2 DEF RotateAndPruneFresh
  <2> QED BY <1>4, <2>1, StepFilesOnly
          DEF RotateAndPruneFresh, Extends, TypeOK, loopVars, callVars, closeVars
<1> QED BY <1>2, <1>3, <1>4

LEMMA StepSetSyncPolicy ==
  ASSUME IInv, NEW p \in Policies, SetSyncPolicy(p) PROVE IInv'
<1> USE DEF IInv
<1>1. Extends(w, w')
  BY DEF SetSyncPolicy, TypeOK, Extends, FileStateOK, FileState, WrittenIn
<1>2. switches' \in 0 .. MaxSwitches
  BY ConstantsAssumption DEF SetSyncPolicy, TypeOK
<1> QED BY <1>1, <1>2, StepFilesOnly
        DEF SetSyncPolicy, Extends, TypeOK, loopVars, callVars, closeVars

LEMMA NextIInv == IInv /\ [Next]_vars => IInv'
<1> SUFFICES ASSUME IInv, [Next]_vars PROVE IInv'
  OBVIOUS
<1>1. CASE CallStep
  BY <1>1, StepSend, StepRefuseSend, StepGiveUp, StepWriteDirect, StepCallDirect,
     StepTakeReply DEF CallStep, Client
<1>2. CASE LoopStep
  BY <1>2, StepReceive, StepLoopOnly, StepSync, StepFlush, StepAnswerNext DEF LoopStep
<1>3. CASE AdminStep
  BY <1>3, StepClose, StepAdmin, StepSetSyncPolicy DEF AdminStep
<1>4. CASE UNCHANGED vars
  BY <1>4 DEF vars, IInv, TypeOK, AckedIsWritten, Delivered, Announced, Written
<1> QED BY <1>1, <1>2, <1>3, <1>4 DEF Next

(* Every reachable state is well formed: in particular w.segments is never *)
(* empty and the current segment is never one that was deleted.            *)
THEOREM TypeCorrect == Spec => []TypeOK
<1>1. IInv => TypeOK BY DEF IInv
<1> QED BY <1>1, InitIInv, NextIInv, PTL DEF Spec

(* A call that returned success stands for an entry in a segment file,     *)
(* whatever the interleaving of callers, flushes, errors and Close.        *)
THEOREM AckedWritten == Spec => []AckedIsWritten
<1>1. IInv => AckedIsWritten BY DEF IInv
<1> QED BY <1>1, InitIInv, NextIInv, PTL DEF Spec
(* Close writes the marker after the loop has exited, and the loop exits   *)
(* with no batch in hand; then nothing of what was announced is missing.   *)
ExitedEmpty == loop = "exited" => batch = <<>>
MarkedLast ==
  /\ marker => closer \in {"marked", "closed"}
  /\ closer \in {"marked", "closed"} => loop = "exited"

MarkInv == ExitedEmpty /\ MarkedLast

LEMMA CallKeepsMark == ASSUME MarkInv, CallStep PROVE MarkInv'
<1>1. UNCHANGED closeVars
  BY DEF CallStep, Send, RefuseSend, GiveUp, WriteDirect, CallDirect, TakeReply, Begin, Return
<1>2. UNCHANGED <<loop, batch>>
  BY DEF CallStep, Send, RefuseSend, GiveUp, WriteDirect, CallDirect, TakeReply, Begin,
         Return, loopVars
<1> QED BY <1>1, <1>2 DEF MarkInv, ExitedEmpty, MarkedLast, closeVars

LEMMA LoopKeepsMark == ASSUME TypeOK, MarkInv, LoopStep PROVE MarkInv'
<1>1. UNCHANGED closeVars /\ loop # "exited"
  BY DEF LoopStep, Receive, Timer, ReadPolicy, Tick, Flush, AnswerNext, Stop, StopEmpty
<1>2. closer \notin {"marked", "closed"} /\ ~marker
  BY <1>1 DEF MarkInv, MarkedLast
<1>3. loop' = "exited" => batch' = <<>>
  <2>1. CASE AnswerNext
    <3>1. batch \in Seq(Entry) /\ batch # <<>>
      BY <2>1 DEF TypeOK, AnswerNext
    <3>2. loop' = "exited" => Len(batch) = 1
      <4>1. Len(batch) \in Nat /\ Len(batch) # 0
        BY <3>1
      <4>2. loop' = IF Len(batch) > 1 THEN loop
                    ELSE IF loop = "answer" THEN "select" ELSE "exited"
        BY <2>1 DEF AnswerNext
      <4>3. loop' = "exited" => ~(Len(batch) > 1)
        BY <1>1, <4>2
      <4> QED BY <4>1, <4>3
    <3>3. Len(batch) = 1 => Tail(batch) \in Seq(Entry) /\ Len(Tail(batch)) = 0
      BY <3>1
    <3>4. batch' = Tail(batch)
      BY <2>1 DEF AnswerNext
    <3> QED BY <3>2, <3>3, <3>4
  <2>2. CASE ~AnswerNext
    BY <1>1, <2>2 DEF LoopStep, Receive, Timer, ReadPolicy, Tick, Flush, Stop, StopEmpty
  <2> QED BY <2>1, <2>2
<1> QED BY <1>1, <1>2, <1>3 DEF MarkInv, ExitedEmpty, MarkedLast, closeVars

LEMMA AdminKeepsMark == ASSUME MarkInv, AdminStep PROVE MarkInv'
<1>1. UNCHANGED <<loop, batch>>
  BY DEF AdminStep, CloseBegin, CloseMark, CloseSync, CheckpointSync,
         RotateAndPruneFresh, SetSyncPolicy, loopVars
<1>2. MarkedLast'
  <2>1. CASE CloseBegin \/ CloseMark \/ CloseSync
    BY <1>1, <2>1 DEF CloseBegin, CloseMark, CloseSync, MarkInv, MarkedLast
  <2>2. CASE CheckpointSync \/ RotateAndPruneFresh \/ \E p \in Policies : SetSyncPolicy(p)
    BY <1>1, <2>2 DEF CheckpointSync, RotateAndPruneFresh, SetSyncPolicy, closeVars,
                      MarkInv, MarkedLast
  <2> QED BY <2>1, <2>2 DEF AdminStep
<1> QED BY <1>1, <1>2 DEF MarkInv, ExitedEmpty

(* When the .clean marker exists the writer is empty: every announced      *)
(* success is in a segment file and the loop has nothing left to write.    *)
THEOREM MarkerHolds == Spec => []MarkerAfterLastFlush
<1>1. Init => MarkInv
  BY DEF Init, MarkInv, ExitedEmpty, MarkedLast
<1>2. IInv /\ MarkInv /\ [Next]_vars => MarkInv'
  <2>1. CASE UNCHANGED vars
    BY <2>1 DEF vars, loopVars, closeVars, MarkInv, ExitedEmpty, MarkedLast
  <2> QED BY <2>1, CallKeepsMark, LoopKeepsMark, AdminKeepsMark DEF IInv, Next
<1>3. IInv /\ MarkInv => MarkerAfterLastFlush
  BY DEF IInv, MarkInv, ExitedEmpty, MarkedLast, AckedIsWritten, Delivered,
         MarkerAfterLastFlush
<1> QED BY <1>1, <1>2, <1>3, InitIInv, NextIInv, PTL DEF Spec

-----------------------------------------------------------------------------
(* What an fsync covered stays covered.  A state is sound when no segment  *)
(* counts more fsynced entries than it has and when a current segment that *)
(* is not dirty has nothing waiting for an fsync.                          *)
SafeIn(f) == f.handle = "open" /\ ~f.dirty => Current(f).synced = Len(Current(f).data)

Sound(f) ==
  /\ FileStateOK(f) /\ SafeIn(f)
  /\ \A i \in DOMAIN f.segs : f.segs[i].synced <= Len(f.segs[i].data)

FsyncedOf(seg) == ToSet(SubSeq(seg.data, 1, seg.synced))

DurableIn(f) == UNION {FsyncedOf(f.segs[i]) : i \in DOMAIN f.segs}

(* An operator of the code under w.mu leaves a sound state in which        *)
(* everything fsynced before still is, and uses up disk errors only.       *)
Hardens(f, g) ==
  /\ Sound(g) /\ DurableIn(f) \subseteq DurableIn(g)
  /\ g.faults <= f.faults /\ g.policy = f.policy

(* Operators of the code under w.mu follow one another.                    *)
LEMMA HardensTransitive ==
  ASSUME NEW f, NEW g, NEW h, Sound(f), Hardens(f, g), Hardens(g, h)
  PROVE  Hardens(f, h)
<1>1. f.faults \in Int /\ g.faults \in Int /\ h.faults \in Int
  BY DEF Hardens, Sound, FileStateOK, FileState
<1> QED BY <1>1 DEF Hardens

(* Leaving the state alone loses nothing.                                  *)
LEMMA HardensReflexive ==
  ASSUME NEW f, Sound(f) PROVE Hardens(f, f)
<1>1. f.faults \in Int
  BY DEF Sound, FileStateOK, FileState
<1> QED BY <1>1 DEF Hardens

(* The fsynced entries of a segment are among the fsynced ones of a        *)
(* segment that continues it and of which at least as much was fsynced.    *)
LEMMA FsyncedContinues ==
  ASSUME NEW d \in Seq(Entry), NEW s \in Seq(Entry),
         NEW m \in Nat, NEW n \in Nat, m <= n, m <= Len(d), n <= Len(d \o s)
  PROVE  ToSet(SubSeq(d, 1, m)) \subseteq ToSet(SubSeq(d \o s, 1, n))
<1> DEFINE t == SubSeq(d \o s, 1, n)
<1>1. /\ Len(SubSeq(d, 1, m)) = m /\ Len(t) = n
      /\ \A i \in 1 .. m : i \in 1 .. n /\ SubSeq(d, 1, m)[i] = d[i]
      /\ \A i \in 1 .. n : t[i] = (d \o s)[i]
      /\ \A i \in 1 .. Len(d) : (d \o s)[i] = d[i]
  <2>1. d \o s \in Seq(Entry)
    OBVIOUS
  <2> QED BY <2>1
<1>2. \A i \in 1 .. m : SubSeq(d, 1, m)[i] = t[i] /\ i \in 1 .. Len(t)
  BY <1>1
<1>3. \A i \in 1 .. m : t[i] \in ToSet(t)
  <2>1. d \o s \in Seq(Entry) /\ t \in Seq(Entry)
    OBVIOUS
  <2>2. DOMAIN t = 1 .. Len(t)
    BY <2>1
  <2> QED BY <1>2, <2>2 DEF ToSet
<1>4. ASSUME NEW x \in ToSet(SubSeq(d, 1, m)) PROVE x \in ToSet(t)
  <2>1. PICK i \in 1 .. m : SubSeq(d, 1, m)[i] = x
    BY <1>1 DEF ToSet
  <2> QED BY <1>2, <1>3, <2>1
<1> QED BY <1>4

(* An fsync to the end of a segment covers all of its entries.             *)
LEMMA FsyncedWhole ==
  ASSUME NEW d \in Seq(Entry)
  PROVE  ToSet(d) \subseteq ToSet(SubSeq(d, 1, Len(d)))
<1>1. SubSeq(d, 1, Len(d)) = d
  OBVIOUS
<1> QED BY <1>1

(* Replacing the current segment by one that continues it and of which at  *)
(* least as much is fsynced; a segment that is not dirty is fsynced whole. *)
Continues(f, data, synced, dirty) ==
  /\ Sound(f)
  /\ \E s \in Seq(Entry) : data = Current(f).data \o s
  /\ synced \in Nat /\ Current(f).synced <= synced /\ synced <= Len(data)
  /\ dirty \in BOOLEAN /\ (~dirty => synced = Len(data))

(* SetCurrent, as Put and Synced use it, keeps what was fsynced.           *)
LEMMA SetCurrentHardens ==
  ASSUME NEW f, NEW data, NEW synced, NEW dirty, Continues(f, data, synced, dirty)
  PROVE  /\ Hardens(f, SetCurrent(f, data, synced, dirty))
         /\ ToSet(SubSeq(data, 1, synced)) \subseteq DurableIn(SetCurrent(f, data, synced, dirty))
         /\ SetCurrent(f, data, synced, dirty).handle = f.handle
         /\ SetCurrent(f, data, synced, dirty).faults = f.faults
         /\ SetCurrent(f, data, synced, dirty).dirty = dirty
         /\ Current(SetCurrent(f, data, synced, dirty)).data = data
<1> DEFINE n == Len(f.segs)
           seg == [data |-> data, synced |-> synced]
           g == SetCurrent(f, data, synced, dirty)
<1>1. /\ Sound(f) /\ synced \in Nat /\ dirty \in BOOLEAN
      /\ Current(f).synced <= synced /\ synced <= Len(data)
      /\ ~dirty => synced = Len(data)
  BY DEF Continues
<1>2. PICK s \in Seq(Entry) : data = Current(f).data \o s
  BY DEF Continues
<1>3. /\ FileStateOK(f) /\ f \in FileState /\ f.segs \in Seq(Segment)
      /\ f.faults \in Int
  BY <1>1 DEF Sound, FileStateOK, FileState
<1>4. /\ Current(f).data \in Seq(Entry) /\ Current(f).synced \in Nat
      /\ n \in DOMAIN f.segs /\ n \in Nat
  BY <1>3, CurrentType
<1>5. data \in Seq(Entry) /\ ToSet(Current(f).data) \subseteq ToSet(data)
  BY <1>2, <1>4, ToSetConcat
<1>6. FileStateOK(g)
  BY <1>1, <1>3, <1>5, SetCurrentExtends DEF Extends
<1>7. /\ g.segs = [f.segs EXCEPT ![n] = seg]
      /\ g.handle = f.handle /\ g.faults = f.faults /\ g.policy = f.policy /\ g.dirty = dirty
  BY <1>3 DEF SetCurrent, FileState
<1>8. /\ DOMAIN g.segs = DOMAIN f.segs /\ Len(g.segs) = n /\ g.segs[n] = seg
      /\ \A i \in DOMAIN f.segs : i # n => g.segs[i] = f.segs[i]
  BY <1>3, <1>4, <1>7
<1>9. Current(g) = seg
  BY <1>8 DEF Current
<1>10. SafeIn(g)
  BY <1>1, <1>7, <1>9 DEF SafeIn
<1>11. \A i \in DOMAIN g.segs : g.segs[i].synced <= Len(g.segs[i].data)
  BY <1>1, <1>8 DEF Sound
<1>12. FsyncedOf(seg) = ToSet(SubSeq(data, 1, synced))
  BY DEF FsyncedOf
<1>13. \A i \in DOMAIN f.segs : FsyncedOf(f.segs[i]) \subseteq FsyncedOf(g.segs[i])
  <2>1. Current(f).synced <= Len(Current(f).data)
    BY <1>1, <1>4 DEF Sound, Current
  <2>2. FsyncedOf(f.segs[n]) \subseteq FsyncedOf(seg)
    BY <1>1, <1>2, <1>4, <1>12, <2>1, FsyncedContinues DEF FsyncedOf, Current
  <2> QED BY <1>8, <2>2
<1>14. DurableIn(f) \subseteq DurableIn(g)
  BY <1>8, <1>13 DEF DurableIn
<1>15. FsyncedOf(seg) \subseteq DurableIn(g)
  BY <1>4, <1>8 DEF DurableIn
<1>16. g.faults <= f.faults
  BY <1>3, <1>7
<1>17. Hardens(f, g)
  BY <1>6, <1>7, <1>10, <1>11, <1>14, <1>16 DEF Hardens, Sound
<1>18. Current(g).data = data
  BY <1>9
<1> HIDE DEF g
<1> QED BY <1>7, <1>12, <1>15, <1>17, <1>18 DEF g

(* Bytes written to the current segment make it dirty.                     *)
LEMMA PutHardens ==
  ASSUME NEW f, Sound(f), NEW s \in Seq(Entry)
  PROVE  /\ Hardens(f, Put(f, s)) /\ Put(f, s).dirty
         /\ Put(f, s).handle = f.handle /\ Put(f, s).faults = f.faults
         /\ Current(Put(f, s)).data = Current(f).data \o s
<1>1. PICK d : d = Current(f).data
  OBVIOUS
<1>2. PICK m : m = Current(f).synced
  OBVIOUS
<1>3. PICK data : data = Current(f).data \o s
  OBVIOUS
<1>4. PICK b : b = TRUE
  OBVIOUS
<1>5. d \in Seq(Entry) /\ m \in Nat /\ Len(f.segs) \in DOMAIN f.segs
  BY <1>1, <1>2, CurrentType DEF Sound
<1>6. m <= Len(d)
  BY <1>1, <1>2, <1>5 DEF Sound, Current
<1>7. Current(f).synced <= m
  BY <1>2, <1>5
<1>8. m <= Len(data)
  BY <1>1, <1>3, <1>5, <1>6
<1>9. b \in BOOLEAN /\ (~b => m = Len(data)) /\ m \in Nat
  BY <1>4, <1>5
<1>10. /\ Hardens(f, SetCurrent(f, data, m, b))
       /\ SetCurrent(f, data, m, b).handle = f.handle
       /\ SetCurrent(f, data, m, b).faults = f.faults
       /\ SetCurrent(f, data, m, b).dirty = b
       /\ Current(SetCurrent(f, data, m, b)).data = data
  <2>1. Continues(f, data, m, b)
    BY <1>3, <1>7, <1>8, <1>9 DEF Continues
  <2> QED BY <2>1, SetCurrentHardens
<1>11. Put(f, s) = SetCurrent(f, data, m, b)
  BY <1>2, <1>3, <1>4 DEF Put
<1> QED BY <1>3, <1>4, <1>10, <1>11

(* An fsync makes every entry of the current segment durable.              *)
LEMMA SyncedHardens ==
  ASSUME NEW f, Sound(f)
  PROVE  /\ Hardens(f, Synced(f)) /\ ToSet(Current(f).data) \subseteq DurableIn(Synced(f))
         /\ Synced(f).faults = f.faults
<1>1. PICK d : d = Current(f).data
  OBVIOUS
<1>2. PICK s : s = <<>>
  OBVIOUS
<1>3. PICK n : n = Len(d)
  OBVIOUS
<1>4. PICK b : b = FALSE
  OBVIOUS
<1>5. d \in Seq(Entry) /\ Current(f).synced \in Nat /\ Len(f.segs) \in DOMAIN f.segs
  BY <1>1, CurrentType DEF Sound
<1>6. s \in Seq(Entry) /\ d = Current(f).data \o s
  BY <1>1, <1>2, <1>5
<1>7. Current(f).synced <= n
  BY <1>1, <1>3, <1>5 DEF Sound, Current
<1>8. n \in Nat /\ n <= Len(d)
  BY <1>3, <1>5
<1>9. b \in BOOLEAN /\ (~b => n = Len(d))
  BY <1>3, <1>4
<1>10. /\ Hardens(f, SetCurrent(f, d, n, b))
       /\ ToSet(SubSeq(d, 1, n)) \subseteq DurableIn(SetCurrent(f, d, n, b))
       /\ SetCurrent(f, d, n, b).faults = f.faults
  <2>1. Continues(f, d, n, b)
    BY <1>6, <1>7, <1>8, <1>9 DEF Continues
  <2> QED BY <2>1, SetCurrentHardens
<1>11. Synced(f) = SetCurrent(f, d, n, b)
  BY <1>1, <1>3, <1>4 DEF Synced
<1>12. ToSet(d) \subseteq ToSet(SubSeq(d, 1, n))
  BY <1>3, <1>5, FsyncedWhole
<1> QED BY <1>1, <1>10, <1>11, <1>12

(* A disk error that leaves the files as they are, and a handle that can   *)
(* no longer write.                                                        *)
LEMMA FaultHardens ==
  ASSUME NEW f, Sound(f), f.faults > 0, NEW h \in {"failed", "closed"}
  PROVE  /\ Hardens(f, Fault(f)) /\ Fault(f).faults # f.faults
         /\ Hardens(f, [Fault(f) EXCEPT !.handle = h])
         /\ [Fault(f) EXCEPT !.handle = h].faults # f.faults
<1>1. f \in FileState /\ f.faults \in Int
  BY DEF Sound, FileStateOK, FileState
<1> DEFINE g == [Fault(f) EXCEPT !.handle = h]
<1>2. FileStateOK(Fault(f)) /\ FileStateOK(g)
  BY FaultExtends DEF Extends, Sound
<1>3. /\ Fault(f).segs = f.segs /\ Fault(f).handle = f.handle /\ Fault(f).dirty = f.dirty
      /\ Fault(f).policy = f.policy /\ Fault(f).faults = f.faults - 1
      /\ g.segs = f.segs /\ g.handle = h /\ g.policy = f.policy /\ g.faults = f.faults - 1
  BY <1>1 DEF Fault, FileState
<1>4. SafeIn(Fault(f)) /\ SafeIn(g)
  BY <1>3 DEF Sound, SafeIn, Current
<1>5. DurableIn(Fault(f)) = DurableIn(f) /\ DurableIn(g) = DurableIn(f)
  BY <1>3 DEF DurableIn
<1>6. Sound(Fault(f)) /\ Sound(g)
  BY <1>2, <1>3, <1>4 DEF Sound
<1> QED BY <1>1, <1>3, <1>5, <1>6 DEF Hardens

(* syncLocked without a disk error covers a dirty current segment, unless  *)
(* the policy is off.                                                      *)
LEMMA SyncLockedHardens ==
  ASSUME NEW f, Sound(f), NEW g \in SyncLocked(f)
  PROVE  /\ Hardens(f, g)
         /\ f.policy # "off" /\ f.dirty /\ f.handle = "open" /\ g.faults = f.faults
              => ToSet(Current(f).data) \subseteq DurableIn(g)
<1>1. CASE f.policy = "off" \/ ~f.dirty \/ f.handle = "closed"
  BY <1>1, HardensReflexive DEF SyncLocked
<1>2. CASE ~(f.policy = "off" \/ ~f.dirty \/ f.handle = "closed")
  <2>1. g = Synced(f) \/ (f.faults > 0 /\ g = Fault(f))
    BY <1>2 DEF SyncLocked
  <2> QED BY <2>1, SyncedHardens, FaultHardens
<1> QED BY <1>1, <1>2

(* A failed write fsyncs nothing and forgets no fsync.                     *)
LEMMA WriteFailsHardens ==
  ASSUME NEW f, Sound(f), NEW s \in Seq(Entry), NEW g \in WriteFails(f, s)
  PROVE  Hardens(f, g)
<1>1. CASE ~WriteOK(f)
  BY <1>1, HardensReflexive DEF WriteFails
<1>2. CASE WriteOK(f)
  <2>1. f.faults > 0
    BY <1>2, ConstantsAssumption DEF WriteFails, Sound, FileStateOK, FileState
  <2>2. PICK n \in 0 .. Len(s) - 1 :
           g = [Fault(Put(f, SubSeq(s, 1, n))) EXCEPT !.handle = "failed"]
    BY <1>2, <2>1 DEF WriteFails
  <2> DEFINE p == Put(f, SubSeq(s, 1, n))
  <2>3. SubSeq(s, 1, n) \in Seq(Entry)
    BY <2>2
  <2>4. Hardens(f, p) /\ p.faults = f.faults /\ Sound(p)
    BY <2>3, PutHardens DEF Hardens
  <2> HIDE DEF p
  <2>5. Hardens(p, [Fault(p) EXCEPT !.handle = "failed"])
    BY <2>1, <2>4, FaultHardens
  <2>6. Hardens(p, g)
    BY <2>2, <2>5 DEF p
  <2> QED BY <2>4, <2>6, HardensTransitive
<1> QED BY <1>1, <1>2

(* A new segment is empty, and no segment leaves segs.                     *)
LEMMA RotateHardens ==
  ASSUME NEW f, Sound(f), NEW g \in Rotate(f)
  PROVE  Hardens(f, g)
<1>1. f \in FileState /\ f.segs \in Seq(Segment) /\ f.faults \in Int
  BY DEF Sound, FileStateOK, FileState
<1>2. FileStateOK(g)
  BY RotateExtends DEF Extends, Sound
<1>3. g.segs = Append(f.segs, EmptySegment) /\ g.faults = f.faults /\ g.policy = f.policy
  BY <1>1 DEF Rotate, FileState
<1>4. EmptySegment \in Segment /\ EmptySegment.synced = Len(EmptySegment.data)
      /\ EmptySegment.synced <= Len(EmptySegment.data)
  BY DEF EmptySegment, Segment
<1>5. /\ \A i \in DOMAIN f.segs : i \in DOMAIN g.segs /\ g.segs[i] = f.segs[i]
      /\ \A i \in DOMAIN g.segs : i \in DOMAIN f.segs \/ g.segs[i] = EmptySegment
      /\ Current(g) = EmptySegment
  BY <1>1, <1>3, <1>4 DEF Current
<1>6. DurableIn(f) \subseteq DurableIn(g)
  BY <1>5 DEF DurableIn
<1>7. SafeIn(g)
  BY <1>4, <1>5 DEF SafeIn
<1>8. \A i \in DOMAIN g.segs : g.segs[i].synced <= Len(g.segs[i].data)
  BY <1>4, <1>5 DEF Sound
<1> QED BY <1>1, <1>2, <1>3, <1>6, <1>7, <1>8 DEF Hardens, Sound

(* A segment that cannot be created leaves the others as they are.         *)
LEMMA RotateFailsHardens ==
  ASSUME NEW f, Sound(f), NEW g \in RotateFails(f)
  PROVE  Hardens(f, g)
BY FaultHardens, HardensReflexive DEF RotateFails

LEMMA RotateIfFullHardens ==
  ASSUME NEW f, Sound(f), NEW g \in RotateIfFull(f)
  PROVE  Hardens(f, g)
<1>1. g \in Rotate(f) \/ g \in RotateFails(f) \/ g = f
  BY DEF RotateIfFull
<1> QED BY <1>1, RotateHardens, RotateFailsHardens, HardensReflexive

(* Pruning moves first and touches no segment that is kept.                *)
LEMMA PruneToLastHardens ==
  ASSUME NEW f, Sound(f)
  PROVE  Hardens(f, PruneToLast(f))
<1>1. f \in FileState /\ f.faults \in Int
  BY DEF Sound, FileStateOK, FileState
<1>2. FileStateOK(PruneToLast(f))
  BY PruneToLastExtends DEF Extends, Sound
<1>3. /\ PruneToLast(f).segs = f.segs /\ PruneToLast(f).dirty = f.dirty
      /\ PruneToLast(f).handle = f.handle /\ PruneToLast(f).policy = f.policy
      /\ PruneToLast(f).faults = f.faults
  BY <1>1 DEF PruneToLast, FileState
<1> QED BY <1>1, <1>2, <1>3 DEF Hardens, Sound, SafeIn, Current, DurableIn

(* What flushBatch and WriteBatch leave behind; with an fsync that met no  *)
(* disk error the batch is durable, also when the segment was then closed. *)
LEMMA FlushedHardens ==
  ASSUME NEW f, Sound(f), WriteOK(f), NEW s \in Seq(Entry), NEW sync \in BOOLEAN,
         NEW g \in Flushed(f, s, sync)
  PROVE  /\ Hardens(f, g)
         /\ sync /\ f.policy # "off" /\ g.faults = f.faults => ToSet(s) \subseteq DurableIn(g)
<1> DEFINE p == Put(f, s)
<1>1. /\ Hardens(f, p) /\ Sound(p) /\ p.dirty /\ p.handle = "open"
      /\ p.faults = f.faults /\ p.policy = f.policy
      /\ Current(p).data = Current(f).data \o s
  BY PutHardens DEF Hardens, WriteOK
<1>2. PICK q \in IF sync THEN SyncLocked(p) ELSE {p} : g \in RotateIfFull(q)
  BY DEF Flushed
<1> HIDE DEF p
<1>3. Hardens(p, q) /\ Sound(q)
  BY <1>1, <1>2, SyncLockedHardens, HardensReflexive DEF Hardens
<1>4. Hardens(q, g)
  BY <1>2, <1>3, RotateIfFullHardens
<1>5. Hardens(f, g)
  BY <1>1, <1>3, <1>4, HardensTransitive
<1>6. ASSUME sync, f.policy # "off", g.faults = f.faults PROVE ToSet(s) \subseteq DurableIn(g)
  <2>1. /\ q.faults \in Int /\ g.faults \in Int /\ p.faults \in Int
        /\ g.faults <= q.faults /\ q.faults <= p.faults
    BY <1>1, <1>3, <1>4 DEF Hardens, Sound, FileStateOK, FileState
  <2>2. q.faults = p.faults
    BY <1>1, <1>6, <2>1
  <2>3. q \in SyncLocked(p)
    BY <1>2, <1>6
  <2>4. ToSet(Current(p).data) \subseteq DurableIn(q)
    BY <1>1, <1>6, <2>2, <2>3, SyncLockedHardens
  <2>5. Current(f).data \in Seq(Entry)
    BY CurrentType DEF Sound
  <2>6. ToSet(s) \subseteq ToSet(Current(p).data)
    BY <1>1, <2>5, ToSetConcat
  <2> QED BY <1>4, <2>4, <2>6 DEF Hardens
<1> QED BY <1>5, <1>6

-----------------------------------------------------------------------------
(* WALSyncAlways since the start, and no disk error yet.  What was         *)
(* announced, or is about to be, is then fsynced; for that a flush must    *)
(* have been told to fsync, also the last one and the one of the ticker.   *)
Calm == w.policy = "always" /\ switches = 0 /\ w.faults = MaxFaults

ForcedInv == loop \in {"flush", "last"} => force
AnnouncedDurable == \A e \in Entry : "ok" \in {reply[e], answer[e]} => e \in Durable
FlushedDurable ==
  loop \in {"answer", "lastAnswer"} /\ ~opErr => ToSet(batch) \subseteq Durable

CalmInv == Calm => ForcedInv /\ AnnouncedDurable /\ FlushedDurable

SyncInv == TypeOK /\ Sound(w) /\ CalmInv

(* Disk errors are used up and a policy change is counted, so that a calm  *)
(* state comes after calm states only.                                     *)
Settles == Hardens(w, w') /\ switches' = switches

LEMMA CalmBefore ==
  ASSUME TypeOK, Settles, Calm' PROVE Calm /\ w'.faults = w.faults
<1>1. w.faults \in 0 .. MaxFaults /\ w'.faults = MaxFaults /\ w'.faults <= w.faults
      /\ MaxFaults \in Nat /\ w'.policy = w.policy
  BY ConstantsAssumption DEF TypeOK, FileStateOK, FileState, Settles, Hardens, Calm
<1> QED BY <1>1 DEF Settles, Calm

(* Nothing that is durable is ever taken back.                             *)
LEMMA DurableGrows == ASSUME Settles PROVE Durable \subseteq Durable'
BY DEF Settles, Hardens, Durable, DurableIn, FsyncedOf

(* The steps of callers and of the loop that leave the files alone.        *)
LEMMA FilesKeepSync ==
  ASSUME SyncInv, UNCHANGED <<w, switches>>,
         Calm => (ForcedInv /\ AnnouncedDurable /\ FlushedDurable)'
  PROVE  Sound(w)' /\ CalmInv'
<1>1. Calm' => Calm
  BY DEF Calm
<1> QED BY <1>1 DEF SyncInv, CalmInv

(* The steps that change the files and announce nothing.                   *)
LEMMA SilentKeepsSync ==
  ASSUME SyncInv, Settles, UNCHANGED <<batch, opErr, answer, reply>>,
         loop' = loop \/ loop' \notin {"answer", "lastAnswer"},
         Calm => ForcedInv'
  PROVE  Sound(w)' /\ CalmInv'
<1>1. Sound(w)'
  BY DEF Settles, Hardens
<1>2. ASSUME Calm' PROVE (ForcedInv /\ AnnouncedDurable /\ FlushedDurable)'
  <2>1. Calm
    BY <1>2, CalmBefore DEF SyncInv
  <2>2. ForcedInv /\ AnnouncedDurable /\ FlushedDurable
    BY <2>1 DEF SyncInv, CalmInv
  <2>3. Durable \subseteq Durable'
    BY DurableGrows
  <2>4. AnnouncedDurable'
    BY <2>2, <2>3 DEF AnnouncedDurable
  <2>5. FlushedDurable'
    BY <2>2, <2>3 DEF FlushedDurable
  <2> QED BY <2>1, <2>4, <2>5
<1> QED BY <1>1, <1>2 DEF CalmInv

(* A caller takes its answer, or gives up.                                 *)
LEMMA ReturnKeepsSync ==
  ASSUME SyncInv, NEW c \in Client, NEW status \in {"ok", "failed"},
         status = "ok" => \A e \in ToSet(call[c]) : reply[e] = "ok",
         Return(c, status)
  PROVE  Sound(w)' /\ CalmInv'
<1>1. UNCHANGED <<w, switches, loop, force, batch, opErr>>
  BY DEF Return, loopVars, boundVars
<1>2. Durable' = Durable
  BY <1>1 DEF Durable
<1>3. AnnouncedDurable => AnnouncedDurable'
  <2>1. \A e \in Entry :
           /\ reply'[e] \in {"none", reply[e]}
           /\ answer'[e] = IF e \in ToSet(call[c]) THEN status ELSE answer[e]
    BY DEF Return, Tell
  <2> QED BY <1>2, <2>1 DEF AnnouncedDurable
<1>4. (ForcedInv => ForcedInv') /\ (FlushedDurable => FlushedDurable')
  BY <1>1, <1>2 DEF ForcedInv, FlushedDurable
<1>5. Calm => (ForcedInv /\ AnnouncedDurable /\ FlushedDurable)'
  BY <1>3, <1>4 DEF SyncInv, CalmInv
<1> QED BY <1>1, <1>5, FilesKeepSync

LEMMA CallsKeepSync ==
  ASSUME SyncInv, NEW c \in Client,
         \/ Send(c) \/ RefuseSend(c) \/ TakeReply(c) \/ GiveUp(c)
         \/ \E n \in 1 .. 2 : CallDirect(c, n)
  PROVE  Sound(w)' /\ CalmInv'
<1>1. CASE \/ Send(c) \/ RefuseSend(c)
           \/ \E n \in 1 .. 2 : CallDirect(c, n)
  <2>1. UNCHANGED <<w, switches, loop, force, batch, opErr, reply>>
    BY <1>1 DEF Send, RefuseSend, CallDirect, Begin, boundVars
  <2>2. Durable' = Durable
    BY <2>1 DEF Durable
  <2>3. \A e \in Entry : answer'[e] = "ok" => answer[e] = "ok"
    BY <1>1 DEF Send, RefuseSend, CallDirect, Tell
  <2>4. AnnouncedDurable => AnnouncedDurable'
    BY <2>1, <2>2, <2>3 DEF AnnouncedDurable
  <2>5. (ForcedInv => ForcedInv') /\ (FlushedDurable => FlushedDurable')
    BY <2>1, <2>2 DEF ForcedInv, FlushedDurable
  <2>6. Calm => (ForcedInv /\ AnnouncedDurable /\ FlushedDurable)'
    BY <2>4, <2>5 DEF SyncInv, CalmInv
  <2> QED BY <2>1, <2>6, FilesKeepSync
<1>2. CASE TakeReply(c)
  <2>1. PICK verdict \in {"ok", "err"} :
          /\ \A e \in ToSet(call[c]) : reply[e] = verdict
          /\ Return(c, IF verdict = "ok" THEN "ok" ELSE "failed")
    BY <1>2 DEF TakeReply
  <2> QED BY <2>1, ReturnKeepsSync
<1>3. CASE GiveUp(c)
  BY <1>3, ReturnKeepsSync DEF GiveUp
<1> QED BY <1>1, <1>2, <1>3

(* An answer given for a batch that the files' step made durable.          *)
LEMMA AnswerKeepsDurable ==
  ASSUME AnnouncedDurable, Durable \subseteq Durable', NEW E, NEW v,
         Answer(E, v), v = "ok" => E \cap Entry \subseteq Durable', UNCHANGED answer
  PROVE  AnnouncedDurable'
<1>1. \A e \in Entry : reply'[e] = IF e \in E /\ answer[e] = "sent" THEN v ELSE reply[e]
  BY DEF Answer
<1>2. ASSUME NEW e \in Entry, "ok" \in {reply'[e], answer'[e]} PROVE e \in Durable'
  <2>1. CASE e \in E /\ v = "ok"
    BY <2>1
  <2>2. CASE ~(e \in E /\ v = "ok")
    <3>1. "ok" \in {reply[e], answer[e]}
      BY <1>1, <1>2, <2>2
    <3> QED BY <3>1 DEF AnnouncedDurable
  <2> QED BY <2>1, <2>2
<1> QED BY <1>2 DEF AnnouncedDurable

LEMMA WriteDirectKeepsSync ==
  ASSUME SyncInv, NEW c \in Client, WriteDirect(c)
  PROVE  Sound(w)' /\ CalmInv'
<1> DEFINE s == call[c]
<1>1. s \in Seq(Entry) /\ Sound(w) /\ TypeOK
  BY DEF SyncInv, TypeOK
<1>2. UNCHANGED <<switches, loop, force, batch, opErr, answer>>
  BY DEF WriteDirect, loopVars, callVars, boundVars
<1>3. PICK v \in {"ok", "err"} :
        /\ Hardens(w, w') /\ Answer(ToSet(s), v)
        /\ v = "ok" /\ w.policy = "always" /\ w'.faults = w.faults
             => ToSet(s) \subseteq DurableIn(w')
  <2>1. CASE /\ WriteOK(w) /\ w' \in Flushed(w, s, w.policy = "always")
             /\ Answer(ToSet(s), Verdict(w'.handle = "closed"))
    <3>1. PICK sync \in BOOLEAN : sync <=> w.policy = "always"
      OBVIOUS
    <3>2. w' \in Flushed(w, s, sync)
      <4>1. CASE w.policy = "always"
        <5>1. sync = TRUE /\ (w.policy = "always") = TRUE
          BY <3>1, <4>1
        <5> QED BY <2>1, <5>1
      <4>2. CASE w.policy # "always"
        <5>1. sync = FALSE /\ (w.policy = "always") = FALSE
          BY <3>1, <4>2
        <5> QED BY <2>1, <5>1
      <4> QED BY <4>1, <4>2
    <3>3. /\ Hardens(w, w')
          /\ sync /\ w.policy # "off" /\ w'.faults = w.faults
               => ToSet(s) \subseteq DurableIn(w')
      BY <1>1, <2>1, <3>2, FlushedHardens
    <3>4. Verdict(w'.handle = "closed") \in {"ok", "err"}
      BY DEF Verdict
    <3> QED BY <2>1, <3>1, <3>3, <3>4
  <2>2. CASE w' \in WriteFails(w, s) /\ Answer(ToSet(s), Verdict(TRUE))
    BY <1>1, <2>2, WriteFailsHardens DEF Verdict
  <2> QED BY <2>1, <2>2 DEF WriteDirect
<1>4. Settles /\ Sound(w)'
  BY <1>2, <1>3 DEF Settles, Hardens
<1>5. ASSUME Calm' PROVE (ForcedInv /\ AnnouncedDurable /\ FlushedDurable)'
  <2>1. Calm /\ w'.faults = w.faults
    BY <1>1, <1>4, <1>5, CalmBefore
  <2>2. ForcedInv /\ AnnouncedDurable /\ FlushedDurable
    BY <2>1 DEF SyncInv, CalmInv
  <2>3. Durable \subseteq Durable'
    BY <1>4, DurableGrows
  <2>4. v = "ok" => ToSet(s) \subseteq Durable'
    BY <1>3, <2>1 DEF Calm, Durable, DurableIn, FsyncedOf
  <2>5. AnnouncedDurable'
    BY <1>2, <1>3, <2>2, <2>3, <2>4, AnswerKeepsDurable
  <2>6. (ForcedInv /\ FlushedDurable)'
    BY <1>2, <2>2, <2>3 DEF ForcedInv, FlushedDurable
  <2> QED BY <2>5, <2>6
<1> QED BY <1>4, <1>5 DEF CalmInv

(* The loop between the file operations: whoever sends it to flush asks    *)
(* for an fsync when the policy is always.                                 *)
LEMMA LoopKeepsSync ==
  ASSUME SyncInv, Receive \/ Timer \/ ReadPolicy \/ Stop
  PROVE  Sound(w)' /\ CalmInv'
<1>1. UNCHANGED <<w, switches, reply, answer>>
  BY DEF Receive, Timer, ReadPolicy, Stop, callVars, boundVars
<1>2. loop' \notin {"answer", "lastAnswer"}
  BY DEF Receive, Timer, ReadPolicy, Stop
<1>3. Calm => ForcedInv'
  BY DEF Receive, Timer, ReadPolicy, Stop, ForcedInv, Calm
<1>4. Durable' = Durable
  BY <1>1 DEF Durable
<1>5. AnnouncedDurable => AnnouncedDurable'
  BY <1>1, <1>4 DEF AnnouncedDurable
<1>6. FlushedDurable'
  BY <1>2 DEF FlushedDurable
<1>7. Calm => (ForcedInv /\ AnnouncedDurable /\ FlushedDurable)'
  BY <1>3, <1>5, <1>6 DEF SyncInv, CalmInv
<1> QED BY <1>1, <1>7, FilesKeepSync

LEMMA TickKeepsSync ==
  ASSUME SyncInv, Tick \/ StopEmpty PROVE Sound(w)' /\ CalmInv'
<1>1. Sound(w)
  BY DEF SyncInv
<1>2. UNCHANGED <<switches, batch, opErr, answer, reply>>
  BY DEF Tick, StopEmpty, callVars, boundVars
<1>3. w' = w \/ w' \in SyncLocked(w)
  BY DEF Tick, StopEmpty
<1>4. Settles
  BY <1>1, <1>2, <1>3, SyncLockedHardens, HardensReflexive DEF Settles
<1>5. loop' = loop \/ loop' \notin {"answer", "lastAnswer"}
  BY DEF Tick, StopEmpty
<1>6. Calm => ForcedInv'
  BY DEF Tick, StopEmpty, ForcedInv
<1> QED BY <1>2, <1>4, <1>5, <1>6, SilentKeepsSync

(* flushBatch: without an error and with a forced fsync, the batch that is *)
(* about to be answered is durable.                                        *)
LEMMA FlushKeepsSync ==
  ASSUME SyncInv, Flush PROVE Sound(w)' /\ CalmInv'
<1>1. batch \in Seq(Entry) /\ force \in BOOLEAN /\ Sound(w) /\ TypeOK
  BY DEF SyncInv, TypeOK
<1>2. /\ UNCHANGED <<switches, batch, reply, answer>>
      /\ loop \in {"flush", "last"} /\ loop' \notin {"flush", "last"}
  BY DEF Flush, callVars, boundVars
<1>3. /\ Hardens(w, w')
      /\ ~opErr' /\ force /\ w.policy # "off" /\ w'.faults = w.faults
           => ToSet(batch) \subseteq DurableIn(w')
  <2>1. CASE WriteOK(w) /\ w' \in Flushed(w, batch, force)
    BY <1>1, <2>1, FlushedHardens
  <2>2. CASE w' \in WriteFails(w, batch) /\ opErr' = TRUE
    BY <1>1, <2>2, WriteFailsHardens
  <2> QED BY <2>1, <2>2 DEF Flush
<1>4. Settles /\ Sound(w)'
  BY <1>2, <1>3 DEF Settles, Hardens
<1>5. ASSUME Calm' PROVE (ForcedInv /\ AnnouncedDurable /\ FlushedDurable)'
  <2>1. Calm /\ w'.faults = w.faults
    BY <1>1, <1>4, <1>5, CalmBefore
  <2>2. ForcedInv /\ AnnouncedDurable
    BY <2>1 DEF SyncInv, CalmInv
  <2>3. Durable \subseteq Durable'
    BY <1>4, DurableGrows
  <2>4. AnnouncedDurable'
    BY <1>2, <2>2, <2>3 DEF AnnouncedDurable
  <2>5. ~opErr' => ToSet(batch) \subseteq Durable'
    BY <1>2, <1>3, <2>1, <2>2 DEF Calm, ForcedInv, Durable, DurableIn, FsyncedOf
  <2>6. (ForcedInv /\ FlushedDurable)'
    BY <1>2, <2>5 DEF ForcedInv, FlushedDurable
  <2> QED BY <2>4, <2>6
<1> QED BY <1>4, <1>5 DEF CalmInv

(* The entries of a batch that are still to be answered.                   *)
LEMMA TailOfBatch ==
  ASSUME NEW b \in Seq(Entry), b # <<>>
  PROVE  Head(b) \in ToSet(b) /\ ToSet(Tail(b)) \subseteq ToSet(b)
<1>1. 1 \in 1 .. Len(b) /\ b[1] = Head(b)
  OBVIOUS
<1>2. ASSUME NEW e \in ToSet(Tail(b)) PROVE e \in ToSet(b)
  <2>1. PICK i \in 1 .. Len(Tail(b)) : Tail(b)[i] = e
    BY DEF ToSet
  <2>2. i + 1 \in 1 .. Len(b) /\ b[i + 1] = e
    BY <2>1
  <2> QED BY <2>2 DEF ToSet
<1> QED BY <1>1, <1>2 DEF ToSet

LEMMA AnswerNextKeepsSync ==
  ASSUME SyncInv, AnswerNext PROVE Sound(w)' /\ CalmInv'
<1>1. batch \in Seq(Entry) /\ batch # <<>>
  BY DEF SyncInv, TypeOK, AnswerNext
<1>2. /\ UNCHANGED <<w, switches, answer>>
      /\ loop \in {"answer", "lastAnswer"} /\ loop' \notin {"flush", "last"}
      /\ batch' = Tail(batch) /\ Answer({Head(batch)}, Verdict(opErr))
      /\ opErr' = (opErr /\ Len(batch) > 1)
      /\ Len(batch) > 1 \/ loop' \notin {"answer", "lastAnswer"}
  BY DEF AnswerNext, callVars, boundVars
<1>3. Head(batch) \in ToSet(batch) /\ ToSet(Tail(batch)) \subseteq ToSet(batch)
  BY <1>1, TailOfBatch
<1>4. Durable' = Durable
  BY <1>2 DEF Durable
<1>5. ASSUME Calm PROVE (ForcedInv /\ AnnouncedDurable /\ FlushedDurable)'
  <2>1. AnnouncedDurable /\ FlushedDurable
    BY <1>5 DEF SyncInv, CalmInv
  <2>2. Verdict(opErr) = "ok" => {Head(batch)} \subseteq Durable
    BY <1>2, <1>3, <2>1 DEF Verdict, FlushedDurable
  <2>3. AnnouncedDurable'
    BY <1>2, <1>4, <2>1, <2>2, AnswerKeepsDurable
  <2>4. FlushedDurable'
    BY <1>2, <1>3, <1>4, <2>1 DEF FlushedDurable
  <2>5. ForcedInv'
    BY <1>2 DEF ForcedInv
  <2> QED BY <2>3, <2>4, <2>5
<1> QED BY <1>2, <1>5, FilesKeepSync

(* A handle that can no longer write, over files left as they are.         *)
LEMMA ClosedHardens ==
  ASSUME NEW f, NEW g, Sound(f), Hardens(f, g), NEW h \in {"failed", "closed"}
  PROVE  Hardens(f, [g EXCEPT !.handle = h])
<1>1. g \in FileState /\ FileStateOK(g)
  BY DEF Hardens, Sound, FileStateOK
<1> DEFINE k == [g EXCEPT !.handle = h]
<1>2. /\ k.segs = g.segs /\ k.first = g.first /\ k.handle = h
      /\ k.faults = g.faults /\ k.policy = g.policy /\ k \in FileState
  BY <1>1 DEF FileState
<1>3. FileStateOK(k) /\ SafeIn(k)
  BY <1>1, <1>2 DEF FileStateOK, SafeIn
<1> HIDE DEF k
<1>4. Hardens(f, k)
  BY <1>2, <1>3 DEF Hardens, Sound, DurableIn
<1> QED BY <1>4 DEF k

LEMMA CloseKeepsSync ==
  ASSUME SyncInv, CloseBegin \/ CloseMark \/ CloseSync
  PROVE  Sound(w)' /\ CalmInv'
<1>1. Sound(w)
  BY DEF SyncInv
<1>2. UNCHANGED <<switches, batch, opErr, answer, reply, loop, force>>
  BY DEF CloseBegin, CloseMark, CloseSync, callVars, loopVars, boundVars
<1>3. Hardens(w, w')
  <2>1. CASE w' = w
    BY <1>1, <2>1, HardensReflexive
  <2>2. CASE w.faults > 0 /\ w' = Fault(w)
    BY <1>1, <2>2, FaultHardens
  <2>3. CASE w.faults > 0 /\ w' = [Fault(w) EXCEPT !.handle = "closed"]
    BY <1>1, <2>3, FaultHardens
  <2>4. CASE w' = [Synced(w) EXCEPT !.handle = "closed"]
    BY <1>1, <2>4, SyncedHardens, ClosedHardens
  <2> QED BY <2>1, <2>2, <2>3, <2>4 DEF CloseBegin, CloseMark, CloseSync
<1>4. Settles
  BY <1>2, <1>3 DEF Settles
<1>5. Calm => ForcedInv'
  BY <1>2 DEF SyncInv, CalmInv, ForcedInv
<1> QED BY <1>2, <1>4, <1>5, SilentKeepsSync

LEMMA CheckpointKeepsSync ==
  ASSUME SyncInv, CheckpointSync \/ RotateAndPruneFresh
  PROVE  Sound(w)' /\ CalmInv'
<1>1. Sound(w)
  BY DEF SyncInv
<1>2. UNCHANGED <<switches, batch, opErr, answer, reply, loop, force>>
  BY DEF CheckpointSync, RotateAndPruneFresh, callVars, loopVars
<1>3. Hardens(w, w')
  <2>1. CASE w' = w \/ w' = Synced(w) \/ (w.faults > 0 /\ w' = Fault(w))
    BY <1>1, <2>1, HardensReflexive, SyncedHardens, FaultHardens
  <2>2. CASE \E f \in Rotate(w) : w' = PruneToLast(f)
    <3>1. PICK f \in Rotate(w) : w' = PruneToLast(f)
      BY <2>2
    <3>2. Hardens(w, f) /\ Sound(f)
      BY <1>1, RotateHardens DEF Hardens
    <3>3. Hardens(f, w')
      BY <3>1, <3>2, PruneToLastHardens
    <3> QED BY <1>1, <3>2, <3>3, HardensTransitive
  <2>3. CASE w' \in RotateFails(w)
    BY <1>1, <2>3, RotateFailsHardens
  <2> QED BY <2>1, <2>2, <2>3 DEF CheckpointSync, RotateAndPruneFresh
<1>4. Settles
  BY <1>2, <1>3 DEF Settles
<1>5. Calm => ForcedInv'
  BY <1>2 DEF SyncInv, CalmInv, ForcedInv
<1> QED BY <1>2, <1>4, <1>5, SilentKeepsSync

(* A change of the policy ends the promise: from then on nothing is calm.  *)
LEMMA SetSyncPolicyKeepsSync ==
  ASSUME SyncInv, NEW p \in Policies, SetSyncPolicy(p)
  PROVE  Sound(w)' /\ CalmInv'
<1>1. switches \in Nat /\ switches' = switches + 1
  BY ConstantsAssumption DEF SyncInv, TypeOK, SetSyncPolicy
<1>2. ~Calm'
  BY <1>1 DEF Calm
<1>3. /\ w \in FileState /\ FileStateOK(w) /\ Sound(w) /\ w' = [w EXCEPT !.policy = p]
  BY DEF SyncInv, Sound, FileStateOK, SetSyncPolicy
<1>4. /\ w'.segs = w.segs /\ w'.first = w.first /\ w'.handle = w.handle
      /\ w'.dirty = w.dirty /\ w' \in FileState
  BY <1>3 DEF FileState
<1>5. Sound(w)'
  BY <1>3, <1>4 DEF Sound, FileStateOK, SafeIn, Current
<1> QED BY <1>2, <1>5 DEF CalmInv

LEMMA InitSync == Init => SyncInv
<1> SUFFICES ASSUME Init PROVE SyncInv
  OBVIOUS
<1>1. TypeOK
  BY InitIInv DEF IInv
<1>2. w.segs = <<EmptySegment>> /\ w.dirty = FALSE
  BY DEF Init
<1>3. /\ EmptySegment.synced = Len(EmptySegment.data)
      /\ EmptySegment.synced <= Len(EmptySegment.data)
  BY DEF EmptySegment
<1>4. DOMAIN w.segs = {1} /\ w.segs[1] = EmptySegment /\ Current(w) = EmptySegment
  BY <1>2 DEF Current
<1>5. Sound(w)
  BY <1>1, <1>3, <1>4 DEF Sound, SafeIn, TypeOK
<1>6. CalmInv
  BY DEF Init, CalmInv, ForcedInv, AnnouncedDurable, FlushedDurable
<1> QED BY <1>1, <1>5, <1>6 DEF SyncInv

LEMMA NextSync == IInv /\ SyncInv /\ [Next]_vars => SyncInv'
<1> SUFFICES ASSUME IInv, SyncInv, [Next]_vars PROVE SyncInv'
  OBVIOUS
<1>1. TypeOK'
  BY NextIInv DEF IInv
<1>2. CASE CallStep
  <2>1. Sound(w)' /\ CalmInv'
    BY <1>2, CallsKeepSync, WriteDirectKeepsSync DEF CallStep, Client
  <2> QED BY <1>1, <2>1 DEF SyncInv
<1>3. CASE LoopStep
  <2>1. Sound(w)' /\ CalmInv'
    BY <1>3, LoopKeepsSync, TickKeepsSync, FlushKeepsSync, AnswerNextKeepsSync DEF LoopStep
  <2> QED BY <1>1, <2>1 DEF SyncInv
<1>4. CASE AdminStep
  <2>1. Sound(w)' /\ CalmInv'
    BY <1>4, CloseKeepsSync, CheckpointKeepsSync, SetSyncPolicyKeepsSync DEF AdminStep
  <2> QED BY <1>1, <2>1 DEF SyncInv
<1>5. CASE UNCHANGED vars
  <2>1. UNCHANGED <<w, switches, loop, force, batch, opErr, reply, answer>>
    BY <1>5 DEF vars
  <2>2. Sound(w)' /\ CalmInv'
    BY <2>1 DEF SyncInv, CalmInv, Calm, ForcedInv, AnnouncedDurable, FlushedDurable, Durable
  <2> QED BY <1>1, <2>2 DEF SyncInv
<1> QED BY <1>2, <1>3, <1>4, <1>5 DEF Next

(* Skipping the fsync of a segment whose dirty count is zero never skips   *)
(* an entry: every operator under w.mu, with or without a disk error,      *)
(* leaves a clean open segment fsynced to its end.                         *)
THEOREM SkippedSyncHolds == Spec => []SkippedSyncIsSafe
<1>1. SyncInv => SkippedSyncIsSafe
  BY DEF SyncInv, Sound, SafeIn, SkippedSyncIsSafe
<1> QED BY <1>1, InitIInv, NextIInv, InitSync, NextSync, PTL DEF Spec

(* Under WALSyncAlways from the start and without disk errors, a call that *)
(* returned success is fsynced at every later moment, for any number of    *)
(* callers, segments and rotations.                                        *)
THEOREM AlwaysDurable == Spec => []AlwaysIsDurable
<1>1. SyncInv => AlwaysIsDurable
  BY DEF SyncInv, CalmInv, Calm, AnnouncedDurable, AlwaysIsDurable
<1> QED BY <1>1, InitIInv, NextIInv, InitSync, NextSync, PTL DEF Spec

-----------------------------------------------------------------------------
(* Induction over positions, from the well-foundedness of finite sets: the *)
(* positions that a property holds up to have a largest one.               *)
LEMMA LargestPosition ==
  ASSUME NEW S \in SUBSET Nat, IsFiniteSet(S), S # {}
  PROVE  \E x \in S : \A y \in S : x >= y
<1> DEFINE Without == {U \in SUBSET S : U # {} /\ ~ \E x \in U : \A y \in U : x >= y}
<1>1. SUFFICES ASSUME Without # {} PROVE FALSE
  OBVIOUS
<1>2. PICK U \in Without : \A V \in Without : <<V, U>> \notin StrictSubsetOrdering(S)
  <2>1. IsWellFoundedOn(StrictSubsetOrdering(S), SUBSET S)
    BY FS_StrictSubsetOrderingWellFounded, FS_FiniteSubsetsOfFinite
  <2>2. Without \subseteq SUBSET S
    OBVIOUS
  <2> HIDE DEF Without
  <2>3. PICK U \in Without : \A V \in Without : ~ (<<V, U>> \in StrictSubsetOrdering(S))
    BY <1>1, <2>1, <2>2, WFMin
  <2> QED BY <2>3
<1>3. PICK x \in U : TRUE
  OBVIOUS
<1> DEFINE V == {y \in U : y > x}
<1>4. V # {}
  OBVIOUS
<1>5. V \notin Without
  <2>1. x \in Nat /\ x \notin V /\ V \subseteq U /\ U \in SUBSET S
    OBVIOUS
  <2>2. <<V, U>> \in StrictSubsetOrdering(S)
    BY <2>1 DEF StrictSubsetOrdering
  <2> QED BY <1>2, <2>2
<1>6. PICK z \in V : \A y \in V : z >= y
  BY <1>4, <1>5
<1>7. \A y \in U : z >= y
  BY <1>6
<1> QED BY <1>6, <1>7

LEMMA UpToTheEnd ==
  ASSUME NEW n \in Nat, NEW G \in SUBSET (0 .. n), 0 \in G,
         \A i \in G : i < n => i + 1 \in G
  PROVE  n \in G
<1>1. IsFiniteSet(0 .. n)
  BY FS_Interval
<1>2. IsFiniteSet(G) /\ G \in SUBSET Nat /\ G # {}
  <2>1. IsFiniteSet(G)
    BY <1>1, FS_Subset
  <2> QED BY <2>1
<1>3. PICK m \in G : \A y \in G : m >= y
  BY <1>2, LargestPosition
<1>4. m \in 0 .. n /\ ~(m < n)
  BY <1>3
<1> QED BY <1>4

-----------------------------------------------------------------------------
(* Concatenating the segments.  Unrolls is the function the definition of  *)
(* FlattenSeq recurses with.                                               *)
Unrolls(seqs, f) ==
  f = [i \in 1 .. Len(seqs) |-> IF i = 1 THEN seqs[i] ELSE f[i - 1] \o seqs[i]]

LEMMA FlattenIs ==
  ASSUME NEW seqs
  PROVE  FlattenSeq(seqs) = IF Len(seqs) = 0 THEN seqs
                            ELSE (CHOOSE f : Unrolls(seqs, f))[Len(seqs)]
BY DEF FlattenSeq, Unrolls

LEMMA Unrolled ==
  ASSUME NEW S, NEW seqs \in Seq(Seq(S)), Len(seqs) # 0
  PROVE  \E f : /\ FlattenSeq(seqs) = f[Len(seqs)]
                /\ f[1] = seqs[1]
                /\ \A i \in 1 .. Len(seqs) : f[i] \in Seq(S)
                /\ \A i \in 1 .. Len(seqs) - 1 : f[i + 1] = f[i] \o seqs[i + 1]
<1> DEFINE n == Len(seqs)
           Upto(m, f) == \A i \in 1 .. m :
                           f[i] = IF i = 1 THEN seqs[i] ELSE f[i - 1] \o seqs[i]
           G == {m \in 0 .. n : \E f \in [1 .. m -> Seq(S)] : Upto(m, f)}
<1>1. n \in Nat \ {0} /\ \A i \in 1 .. n : seqs[i] \in Seq(S)
  OBVIOUS
<1>2. 0 \in G
  <2>1. [i \in 1 .. 0 |-> seqs[i]] \in [1 .. 0 -> Seq(S)]
    OBVIOUS
  <2>2. Upto(0, [i \in 1 .. 0 |-> seqs[i]])
    OBVIOUS
  <2> HIDE DEF Upto
  <2>3. \E f \in [1 .. 0 -> Seq(S)] : Upto(0, f)
    BY <2>1, <2>2
  <2>4. 0 \in 0 .. n
    BY <1>1
  <2> QED BY <2>3, <2>4
<1>3. ASSUME NEW m \in G, m < n PROVE m + 1 \in G
  <2>1. PICK f \in [1 .. m -> Seq(S)] : Upto(m, f)
    OBVIOUS
  <2>2. m \in 0 .. n /\ m + 1 \in 1 .. n
    BY <1>1, <1>3
  <2>3. PICK x : x = IF m = 0 THEN seqs[1] ELSE f[m] \o seqs[m + 1]
    OBVIOUS
  <2>4. x \in Seq(S)
    <3>1. m # 0 => f[m] \in Seq(S)
      BY <2>2
    <3> QED BY <1>1, <2>2, <2>3, <3>1
  <2>5. PICK g : g = [i \in 1 .. (m + 1) |-> IF i <= m THEN f[i] ELSE x]
    OBVIOUS
  <2>6. g \in [1 .. (m + 1) -> Seq(S)]
    BY <2>2, <2>4, <2>5
  <2>7. ASSUME NEW i \in 1 .. (m + 1)
        PROVE  g[i] = IF i = 1 THEN seqs[i] ELSE g[i - 1] \o seqs[i]
    <3>1. CASE i <= m
      <4>1. i \in 1 .. m /\ (i # 1 => i - 1 \in 1 .. m)
        BY <2>2, <3>1
      <4>2. g[i] = f[i] /\ (i # 1 => g[i - 1] = f[i - 1])
        BY <2>2, <2>5, <4>1
      <4> QED BY <2>1, <4>1, <4>2
    <3>2. CASE i = m + 1
      <4>1. g[i] = x
        BY <2>2, <2>5, <3>2
      <4>2. CASE m = 0
        BY <2>3, <3>2, <4>1, <4>2
      <4>3. CASE m # 0
        <5>1. g[i - 1] = f[m] /\ i # 1
          BY <2>2, <2>5, <3>2, <4>3
        <5> QED BY <2>3, <3>2, <4>1, <4>3, <5>1
      <4> QED BY <4>2, <4>3
    <3> QED BY <2>2, <3>1, <3>2
  <2>8. Upto(m + 1, g)
    BY <2>7
  <2> HIDE DEF Upto
  <2>9. \E h \in [1 .. (m + 1) -> Seq(S)] : Upto(m + 1, h)
    BY <2>6, <2>8
  <2>10. m + 1 \in 0 .. n
    BY <2>2
  <2> QED BY <2>9, <2>10
<1>4. n \in G
  <2> HIDE DEF G
  <2>1. G \in SUBSET (0 .. n)
    BY DEF G
  <2> QED BY <1>1, <1>2, <1>3, <2>1, UpToTheEnd
<1>5. PICK f \in [1 .. n -> Seq(S)] : Upto(n, f)
  BY <1>4
<1>6. Unrolls(seqs, f)
  BY <1>5 DEF Unrolls
<1>7. PICK g : g = CHOOSE h : Unrolls(seqs, h)
  OBVIOUS
<1>8. Unrolls(seqs, g) /\ FlattenSeq(seqs) = g[n]
  BY <1>6, <1>7, FlattenIs
<1>9. \A i \in 1 .. n : g[i] = IF i = 1 THEN seqs[i] ELSE g[i - 1] \o seqs[i]
  BY <1>8 DEF Unrolls
<1> DEFINE T == {m \in 0 .. n : \A i \in 1 .. m : g[i] \in Seq(S)}
<1>10. n \in T
  <2>1. 0 \in T
    BY <1>1
  <2>2. ASSUME NEW m \in T, m < n PROVE m + 1 \in T
    <3>1. m + 1 \in 1 .. n /\ m \in Nat
      BY <1>1, <2>2
    <3>2. m # 0 => g[m] \in Seq(S)
      BY <3>1
    <3>3. g[m + 1] = IF m = 0 THEN seqs[1] ELSE g[m] \o seqs[m + 1]
      BY <1>9, <3>1
    <3>4. g[m + 1] \in Seq(S)
      BY <1>1, <3>1, <3>2, <3>3
    <3>5. \A i \in 1 .. (m + 1) : i \in 1 .. m \/ i = m + 1
      BY <3>1
    <3> QED BY <3>1, <3>4, <3>5
  <2> HIDE DEF T
  <2>3. T \in SUBSET (0 .. n)
    BY DEF T
  <2> QED BY <1>1, <2>1, <2>2, <2>3, UpToTheEnd
<1>11. g[1] = seqs[1]
  BY <1>1, <1>9
<1>12. ASSUME NEW i \in 1 .. n - 1 PROVE g[i + 1] = g[i] \o seqs[i + 1]
  <2>1. i + 1 \in 1 .. n /\ i + 1 # 1 /\ (i + 1) - 1 = i
    BY <1>1
  <2> QED BY <1>9, <2>1
<1> QED BY <1>8, <1>10, <1>11, <1>12

(* One more segment adds its entries at the end.                           *)
LEMMA FlattenAppend ==
  ASSUME NEW S, NEW seqs \in Seq(Seq(S)), NEW x \in Seq(S)
  PROVE  FlattenSeq(Append(seqs, x)) = FlattenSeq(seqs) \o x
<1> DEFINE n == Len(seqs)
<1>1. PICK more : more = Append(seqs, x)
  OBVIOUS
<1>2. /\ more \in Seq(Seq(S)) /\ Len(more) = n + 1 /\ n \in Nat
      /\ more[n + 1] = x /\ \A i \in 1 .. n : more[i] = seqs[i]
  BY <1>1
<1>3. PICK g : /\ FlattenSeq(more) = g[Len(more)]
               /\ g[1] = more[1]
               /\ \A i \in 1 .. Len(more) : g[i] \in Seq(S)
               /\ \A i \in 1 .. Len(more) - 1 : g[i + 1] = g[i] \o more[i + 1]
  <2>1. Len(more) # 0
    BY <1>2
  <2> QED BY <1>2, <2>1, Unrolled
<1>4. CASE n = 0
  <2>1. seqs = <<>>
    BY <1>4
  <2>2. FlattenSeq(seqs) = <<>>
    BY <2>1, FlattenIs
  <2>3. FlattenSeq(more) = x
    BY <1>2, <1>3, <1>4
  <2> QED BY <1>1, <2>2, <2>3
<1>5. CASE n # 0
  <2>1. PICK f : /\ FlattenSeq(seqs) = f[n]
                 /\ f[1] = seqs[1]
                 /\ \A i \in 1 .. n : f[i] \in Seq(S)
                 /\ \A i \in 1 .. n - 1 : f[i + 1] = f[i] \o seqs[i + 1]
    BY <1>5, Unrolled
  <2> DEFINE Same == {m \in 0 .. n : \A i \in 1 .. m : g[i] = f[i]}
  <2>2. n \in Same
    <3>1. 0 \in Same
      BY <1>2
    <3>2. ASSUME NEW m \in Same, m < n PROVE m + 1 \in Same
      <4>1. m \in Nat /\ m + 1 \in 1 .. n
        BY <1>2, <3>2
      <4>2. CASE m = 0
        BY <1>2, <1>3, <1>5, <2>1, <4>1, <4>2
      <4>3. CASE m # 0
        <5>1. g[m] = f[m] /\ m \in 1 .. n - 1 /\ m \in 1 .. Len(more) - 1
          BY <1>2, <4>1, <4>3
        <5>2. g[m + 1] = g[m] \o more[m + 1] /\ f[m + 1] = f[m] \o seqs[m + 1]
          BY <1>3, <2>1, <5>1
        <5>3. g[m + 1] = f[m + 1]
          BY <1>2, <4>1, <5>1, <5>2
        <5>4. \A i \in 1 .. (m + 1) : i \in 1 .. m \/ i = m + 1
          BY <4>1
        <5> QED BY <4>1, <5>3, <5>4
      <4> QED BY <4>2, <4>3
    <3> HIDE DEF Same
    <3>3. Same \in SUBSET (0 .. n)
      BY DEF Same
    <3> QED BY <1>2, <3>1, <3>2, <3>3, UpToTheEnd
  <2>3. g[n] = f[n]
    BY <1>2, <1>5, <2>2
  <2>4. g[n + 1] = g[n] \o x
    <3>1. n \in 1 .. Len(more) - 1
      BY <1>2, <1>5
    <3> QED BY <1>2, <1>3, <3>1
  <2> QED BY <1>1, <1>2, <1>3, <2>1, <2>3, <2>4
<1> QED BY <1>4, <1>5

LEMMA FlattenType ==
  ASSUME NEW S, NEW seqs \in Seq(Seq(S))
  PROVE  FlattenSeq(seqs) \in Seq(S) /\ FlattenSeq(<<>>) = <<>>
<1>1. FlattenSeq(<<>>) = <<>>
  BY FlattenIs
<1>2. CASE Len(seqs) = 0
  <2>1. seqs = <<>>
    BY <1>2
  <2>2. <<>> \in Seq(S)
    OBVIOUS
  <2> QED BY <1>1, <2>1, <2>2
<1>3. CASE Len(seqs) # 0
  <2>1. Len(seqs) \in 1 .. Len(seqs)
    BY <1>3
  <2> QED BY <1>1, <1>3, <2>1, Unrolled
<1> QED BY <1>2, <1>3

LEMMA FlattenPrefix ==
  ASSUME NEW S, NEW seqs \in Seq(Seq(S)), NEW m \in 0 .. Len(seqs) - 1
  PROVE  /\ SubSeq(seqs, 1, m) \in Seq(Seq(S))
         /\ SubSeq(seqs, 1, m + 1) = Append(SubSeq(seqs, 1, m), seqs[m + 1])
         /\ seqs[m + 1] \in Seq(S)
         /\ FlattenSeq(SubSeq(seqs, 1, m + 1)) =
              FlattenSeq(SubSeq(seqs, 1, m)) \o seqs[m + 1]
<1>1. m \in Nat /\ m + 1 \in 1 .. Len(seqs) /\ Len(seqs) \in Nat
  OBVIOUS
<1>2. SubSeq(seqs, 1, m) \in Seq(Seq(S)) /\ seqs[m + 1] \in Seq(S)
  BY <1>1
<1>3. SubSeq(seqs, 1, m + 1) = Append(SubSeq(seqs, 1, m), seqs[m + 1])
  BY <1>1
<1>4. FlattenSeq(Append(SubSeq(seqs, 1, m), seqs[m + 1])) =
        FlattenSeq(SubSeq(seqs, 1, m)) \o seqs[m + 1]
  BY <1>2, FlattenAppend
<1> QED BY <1>2, <1>3, <1>4

(* Earlier segments take up a beginning of the log.                        *)
LEMMA FlattenGrows ==
  ASSUME NEW S, NEW seqs \in Seq(Seq(S)), NEW m \in 0 .. Len(seqs),
         NEW n \in m .. Len(seqs)
  PROVE  /\ Len(FlattenSeq(SubSeq(seqs, 1, m))) \in Nat
         /\ Len(FlattenSeq(SubSeq(seqs, 1, m))) <=
              Len(FlattenSeq(SubSeq(seqs, 1, n)))
<1> DEFINE Size(k) == Len(FlattenSeq(SubSeq(seqs, 1, k)))
<1>1. ASSUME NEW k \in 0 .. Len(seqs) PROVE Size(k) \in Nat
  <2>1. SubSeq(seqs, 1, k) \in Seq(Seq(S))
    OBVIOUS
  <2>2. FlattenSeq(SubSeq(seqs, 1, k)) \in Seq(S)
    BY <2>1, FlattenType
  <2> QED BY <2>2
<1>2. ASSUME NEW k \in 0 .. Len(seqs) - 1 PROVE Size(k) <= Size(k + 1)
  <2>1. PICK s : s = FlattenSeq(SubSeq(seqs, 1, k))
    OBVIOUS
  <2>2. PICK x : x = seqs[k + 1]
    OBVIOUS
  <2>3. s \in Seq(S) /\ x \in Seq(S)
    BY <2>1, <2>2, FlattenPrefix, FlattenType
  <2>4. FlattenSeq(SubSeq(seqs, 1, k + 1)) = s \o x
    BY <2>1, <2>2, FlattenPrefix
  <2>5. Len(s) <= Len(s \o x)
    BY <2>3
  <2> QED BY <2>1, <2>4, <2>5
<1>3. Len(seqs) \in Nat /\ m \in Nat /\ n \in Nat /\ m <= n /\ n <= Len(seqs)
  OBVIOUS
<1> HIDE DEF Size
<1> DEFINE G == {k \in 0 .. n : k >= m => Size(m) <= Size(k)}
<1>4. n \in G
  <2>1. 0 \in G
    <3>1. 0 >= m => m = 0
      BY <1>3
    <3>2. Size(0) \in Nat
      BY <1>1, <1>3
    <3> QED BY <1>3, <3>1, <3>2
  <2>2. ASSUME NEW k \in G, k < n PROVE k + 1 \in G
    <3>1. k \in 0 .. Len(seqs) - 1 /\ k + 1 \in 0 .. n /\ k \in 0 .. Len(seqs)
          /\ k + 1 \in 0 .. Len(seqs) /\ m \in 0 .. Len(seqs)
      BY <1>3, <2>2
    <3>2. Size(k) <= Size(k + 1) /\ Size(k) \in Nat /\ Size(k + 1) \in Nat
          /\ Size(m) \in Nat
      BY <1>1, <1>2, <3>1
    <3>3. CASE k + 1 = m
      BY <3>1, <3>2, <3>3
    <3>4. CASE k + 1 # m
      <4>1. k + 1 >= m => k >= m
        BY <1>3, <3>1, <3>4
      <4> QED BY <3>1, <3>2, <4>1
    <3> QED BY <3>3, <3>4
  <2> HIDE DEF G
  <2>3. G \in SUBSET (0 .. n)
    BY DEF G
  <2> QED BY <1>3, <2>1, <2>2, <2>3, UpToTheEnd
<1>5. Size(m) <= Size(n) /\ Size(m) \in Nat
  BY <1>1, <1>3, <1>4
<1> QED BY <1>5 DEF Size

(* The entries of two sequences in one.                                    *)
LEMMA ToSetJoin ==
  ASSUME NEW S, NEW s \in Seq(S), NEW t \in Seq(S)
  PROVE  /\ ToSet(s \o t) = ToSet(s) \cup ToSet(t)
         /\ IsInjective(s) /\ IsInjective(t) /\ ToSet(s) \cap ToSet(t) = {}
              => IsInjective(s \o t)
<1>1. /\ Len(s) \in Nat /\ Len(t) \in Nat /\ Len(s \o t) = Len(s) + Len(t)
      /\ DOMAIN s = 1 .. Len(s) /\ DOMAIN t = 1 .. Len(t)
      /\ DOMAIN (s \o t) = 1 .. Len(s) + Len(t)
      /\ \A i \in 1 .. Len(s) : (s \o t)[i] = s[i]
      /\ \A i \in 1 .. Len(t) : (s \o t)[Len(s) + i] = t[i]
  OBVIOUS
<1>2. ASSUME NEW i \in DOMAIN (s \o t)
      PROVE  \/ i \in DOMAIN s /\ (s \o t)[i] = s[i]
             \/ i - Len(s) \in DOMAIN t /\ (s \o t)[i] = t[i - Len(s)]
  <2>1. CASE i <= Len(s)
    BY <1>1, <2>1
  <2>2. CASE i > Len(s)
    <3>1. i - Len(s) \in 1 .. Len(t) /\ Len(s) + (i - Len(s)) = i
      BY <1>1, <2>2
    <3> QED BY <1>1, <3>1
  <2> QED BY <1>1, <2>1, <2>2
<1>3. ToSet(s \o t) \subseteq ToSet(s) \cup ToSet(t)
  BY <1>2 DEF ToSet
<1>4. ToSet(s) \cup ToSet(t) \subseteq ToSet(s \o t)
  BY ToSetConcat
<1>5. ASSUME IsInjective(s), IsInjective(t), ToSet(s) \cap ToSet(t) = {}
      PROVE  IsInjective(s \o t)
  <2> SUFFICES ASSUME NEW i \in DOMAIN (s \o t), NEW j \in DOMAIN (s \o t),
                      (s \o t)[i] = (s \o t)[j]
               PROVE  i = j
    BY DEF IsInjective
  <2>1. CASE i \in DOMAIN s /\ (s \o t)[i] = s[i] /\ j \in DOMAIN s
             /\ (s \o t)[j] = s[j]
    BY <1>5, <2>1 DEF IsInjective
  <2>2. CASE /\ i - Len(s) \in DOMAIN t /\ (s \o t)[i] = t[i - Len(s)]
             /\ j - Len(s) \in DOMAIN t /\ (s \o t)[j] = t[j - Len(s)]
    <3>1. i - Len(s) = j - Len(s)
      BY <1>5, <2>2 DEF IsInjective
    <3> QED BY <1>1, <3>1
  <2>3. ASSUME NEW k \in DOMAIN s, NEW l \in DOMAIN t, s[k] = t[l] PROVE FALSE
    BY <1>5, <2>3 DEF ToSet
  <2> QED BY <1>2, <2>1, <2>2, <2>3
<1> QED BY <1>3, <1>4, <1>5

(* The log has the entries of the segments, and no others.                 *)
LEMMA FlattenHolds ==
  ASSUME NEW S, NEW seqs \in Seq(Seq(S))
  PROVE  ToSet(FlattenSeq(seqs)) = UNION {ToSet(seqs[i]) : i \in DOMAIN seqs}
<1> DEFINE n == Len(seqs)
           Held(k) == UNION {ToSet(seqs[i]) : i \in 1 .. k}
           G == {k \in 0 .. n : ToSet(FlattenSeq(SubSeq(seqs, 1, k))) = Held(k)}
<1>1. n \in Nat /\ DOMAIN seqs = 1 .. n /\ SubSeq(seqs, 1, n) = seqs
  OBVIOUS
<1>2. n \in G
  <2>1. 0 \in G
    <3>1. SubSeq(seqs, 1, 0) = <<>> /\ 0 \in 0 .. n
      BY <1>1
    <3>2. ToSet(FlattenSeq(<<>>)) = {}
      BY FlattenType DEF ToSet
    <3>3. Held(0) = {}
      OBVIOUS
    <3> QED BY <3>1, <3>2, <3>3
  <2>2. ASSUME NEW k \in G, k < n PROVE k + 1 \in G
    <3>1. k \in 0 .. n - 1 /\ k + 1 \in 0 .. n /\ k \in Nat
      BY <1>1, <2>2
    <3>2. PICK s : s = FlattenSeq(SubSeq(seqs, 1, k))
      OBVIOUS
    <3>3. s \in Seq(S) /\ seqs[k + 1] \in Seq(S)
      BY <3>1, <3>2, FlattenPrefix, FlattenType
    <3>4. FlattenSeq(SubSeq(seqs, 1, k + 1)) = s \o seqs[k + 1]
      BY <3>1, <3>2, FlattenPrefix
    <3>5. ToSet(s \o seqs[k + 1]) = ToSet(s) \cup ToSet(seqs[k + 1])
      BY <3>3, ToSetJoin
    <3>6. Held(k + 1) = Held(k) \cup ToSet(seqs[k + 1])
      <4>1. 1 .. (k + 1) = (1 .. k) \cup {k + 1}
        BY <3>1
      <4> QED BY <4>1
    <3>7. ToSet(s) = Held(k)
      BY <3>2
    <3> HIDE DEF Held
    <3> QED BY <3>1, <3>4, <3>5, <3>6, <3>7
  <2> HIDE DEF G
  <2>3. G \in SUBSET (0 .. n)
    BY DEF G
  <2> QED BY <1>1, <2>1, <2>2, <2>3, UpToTheEnd
<1> QED BY <1>1, <1>2

-----------------------------------------------------------------------------
(* The log of DurableLog in the files of a state of w, and how much of it  *)
(* was in files that are deleted.                                          *)
LogOf(f) == FlattenSeq(Datas(f.segs))
GoneOf(f) == Len(FlattenSeq(Datas(SubSeq(f.segs, 1, f.first - 1))))

LEMMA LogFacts ==
  ASSUME NEW f, FileStateOK(f)
  PROVE  /\ f.segs \in Seq(Segment) /\ f.first \in 1 .. Len(f.segs)
         /\ Len(f.segs) \in Nat \ {0}
         /\ Datas(f.segs) \in Seq(Seq(Entry)) /\ Len(Datas(f.segs)) = Len(f.segs)
         /\ \A k \in 0 .. Len(f.segs) :
              Datas(SubSeq(f.segs, 1, k)) = SubSeq(Datas(f.segs), 1, k)
         /\ LogOf(f) \in Seq(Entry)
         /\ ToSet(LogOf(f)) = WrittenIn(f)
         /\ GoneOf(f) \in 0 .. Len(LogOf(f))
<1>1. /\ f.segs \in Seq(Segment) /\ f.first \in 1 .. Len(f.segs)
      /\ Len(f.segs) \in Nat \ {0}
  BY DEF FileStateOK, FileState
<1>2. /\ Datas(f.segs) \in Seq(Seq(Entry)) /\ Len(Datas(f.segs)) = Len(f.segs)
      /\ \A i \in 1 .. Len(f.segs) : Datas(f.segs)[i] = f.segs[i].data
  <2>1. PICK d : d = Datas(f.segs)
    OBVIOUS
  <2>2. PICK n : n = Len(f.segs)
    OBVIOUS
  <2>3. n \in Nat /\ DOMAIN f.segs = 1 .. n
    BY <1>1, <2>2
  <2>4. d = [i \in 1 .. n |-> f.segs[i].data]
    BY <2>1, <2>3 DEF Datas
  <2>5. \A i \in 1 .. n : f.segs[i].data \in Seq(Entry)
    <3>1. \A i \in 1 .. n : f.segs[i] \in Segment
      BY <1>1, <2>3
    <3>2. \A x \in Segment : x.data \in Seq(Entry)
      BY DEF Segment
    <3> QED BY <3>1, <3>2
  <2>6. d \in Seq(Seq(Entry)) /\ Len(d) = n
    BY <2>3, <2>4, <2>5
  <2> QED BY <2>1, <2>2, <2>4, <2>6
<1>3. ASSUME NEW k \in 0 .. Len(f.segs)
      PROVE  Datas(SubSeq(f.segs, 1, k)) = SubSeq(Datas(f.segs), 1, k)
  <2>1. k \in Nat /\ k <= Len(f.segs)
    BY <1>1
  <2>2. /\ SubSeq(f.segs, 1, k) = [i \in 1 .. k |-> f.segs[i]]
        /\ DOMAIN SubSeq(f.segs, 1, k) = 1 .. k
        /\ SubSeq(Datas(f.segs), 1, k) = [i \in 1 .. k |-> Datas(f.segs)[i]]
    BY <1>1, <1>2, <2>1
  <2>3. Datas(SubSeq(f.segs, 1, k)) = [i \in 1 .. k |-> f.segs[i].data]
    BY <2>2 DEF Datas
  <2> QED BY <1>1, <1>2, <2>1, <2>2, <2>3
<1>4. LogOf(f) \in Seq(Entry)
  BY <1>2, FlattenType DEF LogOf
<1>5. ToSet(LogOf(f)) = WrittenIn(f)
  <2>1. ToSet(LogOf(f)) =
          UNION {ToSet(Datas(f.segs)[i]) : i \in DOMAIN Datas(f.segs)}
    BY <1>2, FlattenHolds DEF LogOf
  <2>2. DOMAIN Datas(f.segs) = DOMAIN f.segs
    BY DEF Datas
  <2> QED BY <2>1, <2>2 DEF WrittenIn, Datas
<1>6. GoneOf(f) \in 0 .. Len(LogOf(f))
  <2>1. PICK d : d = Datas(f.segs)
    OBVIOUS
  <2>2. PICK k : k = f.first - 1
    OBVIOUS
  <2>3. d \in Seq(Seq(Entry)) /\ k \in 0 .. Len(d) /\ Len(d) \in k .. Len(d)
    BY <1>1, <1>2, <2>1, <2>2
  <2>4. Len(FlattenSeq(SubSeq(d, 1, k))) \in Nat
        /\ Len(FlattenSeq(SubSeq(d, 1, k))) <= Len(FlattenSeq(SubSeq(d, 1, Len(d))))
    BY <2>3, FlattenGrows
  <2>5. SubSeq(d, 1, Len(d)) = d
    BY <2>3
  <2>6. k \in 0 .. Len(f.segs)
    BY <1>1, <2>2
  <2>7. GoneOf(f) = Len(FlattenSeq(SubSeq(d, 1, k)))
    BY <1>3, <2>1, <2>2, <2>6 DEF GoneOf
  <2>8. LogOf(f) = FlattenSeq(d)
    BY <2>1 DEF LogOf
  <2>9. PICK a : a = GoneOf(f)
    OBVIOUS
  <2>10. PICK b : b = Len(LogOf(f))
    OBVIOUS
  <2>11. b \in Nat
    BY <1>4, <2>10
  <2>12. a \in Nat /\ a <= b
    BY <2>4, <2>5, <2>7, <2>8, <2>9, <2>10
  <2> QED BY <2>9, <2>10, <2>11, <2>12
<1> QED BY <1>1, <1>2, <1>3, <1>4, <1>5, <1>6

(* f becomes g, with s at the end of the log and perhaps files deleted.    *)
Advances(f, g, s) ==
  FileStateOK(g) /\ LogOf(g) = LogOf(f) \o s /\ GoneOf(f) <= GoneOf(g)

LEMMA AdvancesTwice ==
  ASSUME NEW f, FileStateOK(f), NEW g, NEW h, NEW s \in Seq(Entry),
         Advances(f, g, s), Advances(g, h, <<>>)
  PROVE  Advances(f, h, s)
<1>1. FileStateOK(g) /\ FileStateOK(h)
  BY DEF Advances
<1>2. GoneOf(f) \in Nat /\ GoneOf(g) \in Nat /\ GoneOf(h) \in Nat
      /\ LogOf(g) \in Seq(Entry)
  BY <1>1, LogFacts
<1>3. LogOf(h) = LogOf(g)
  BY <1>2 DEF Advances
<1> QED BY <1>1, <1>2, <1>3 DEF Advances

(* Nothing but the other fields of w changes.                              *)
LEMMA SameFiles ==
  ASSUME NEW f, FileStateOK(f), NEW g, FileStateOK(g),
         g.segs = f.segs, g.first = f.first
  PROVE  Advances(f, g, <<>>)
<1>1. LogOf(g) = LogOf(f) /\ GoneOf(g) = GoneOf(f)
  BY DEF LogOf, GoneOf
<1>2. LogOf(f) \in Seq(Entry) /\ GoneOf(f) \in Nat
  BY LogFacts
<1> QED BY <1>1, <1>2 DEF Advances

LEMMA SplitLast ==
  ASSUME NEW T, NEW d \in Seq(T), NEW front \in Seq(T), NEW x \in T,
         Len(d) = Len(front) + 1, d[Len(front) + 1] = x,
         \A i \in 1 .. Len(front) : front[i] = d[i]
  PROVE  d = Append(front, x)
<1>1. PICK a : a = Append(front, x)
  OBVIOUS
<1>2. PICK n : n = Len(front)
  OBVIOUS
<1>3. a \in Seq(T) /\ Len(a) = n + 1 /\ n \in Nat /\ Len(d) = n + 1
  BY <1>1, <1>2
<1>4. ASSUME NEW i \in 1 .. n + 1 PROVE a[i] = d[i]
  <2>1. CASE i = n + 1
    BY <1>1, <1>2, <2>1
  <2>2. CASE i # n + 1
    <3>1. i \in 1 .. n
      BY <1>3, <2>2
    <3> QED BY <1>1, <1>2, <3>1
  <2> QED BY <2>1, <2>2
<1>5. a = d
  BY <1>3, <1>4
<1> QED BY <1>1, <1>5

LEMMA SetCurrentAdvances ==
  ASSUME NEW f, FileStateOK(f), NEW s \in Seq(Entry),
         NEW synced \in Nat, NEW dirty \in BOOLEAN
  PROVE  Advances(f, SetCurrent(f, Current(f).data \o s, synced, dirty), s)
<1>1. PICK n : n = Len(f.segs)
  OBVIOUS
<1>2. PICK cur : cur = Current(f).data
  OBVIOUS
<1>3. PICK seg : seg = [data |-> cur \o s, synced |-> synced]
  OBVIOUS
<1>4. PICK g : g = SetCurrent(f, cur \o s, synced, dirty)
  OBVIOUS
<1>5. /\ f.segs \in Seq(Segment) /\ n \in Nat \ {0} /\ n = Len(f.segs)
      /\ f.first \in 1 .. n /\ f \in FileState
  BY <1>1, LogFacts DEF FileStateOK
<1>6. cur = f.segs[n].data /\ cur \in Seq(Entry) /\ cur \o s \in Seq(Entry)
      /\ seg \in Segment /\ seg.data = cur \o s
  BY <1>1, <1>2, <1>3, CurrentType DEF Current, Segment
<1>7. /\ g.segs = [f.segs EXCEPT ![n] = seg] /\ g.first = f.first
      /\ g.segs \in Seq(Segment) /\ Len(g.segs) = n
  BY <1>1, <1>3, <1>4, <1>5, <1>6 DEF SetCurrent, FileState
<1>8. FileStateOK(g)
  <2>1. ToSet(cur) \subseteq ToSet(cur \o s)
    BY <1>6, ToSetConcat
  <2>2. Extends(f, SetCurrent(f, cur \o s, synced, dirty))
    BY <1>2, <1>6, <2>1, SetCurrentExtends
  <2> QED BY <1>4, <2>2 DEF Extends
<1>9. PICK front : front = SubSeq(Datas(f.segs), 1, n - 1)
  OBVIOUS
<1>10. /\ front \in Seq(Seq(Entry)) /\ Datas(f.segs) = Append(front, cur)
       /\ Datas(g.segs) = Append(front, cur \o s)
  <2>1. /\ Datas(f.segs) \in Seq(Seq(Entry)) /\ Len(Datas(f.segs)) = n
        /\ Datas(g.segs) \in Seq(Seq(Entry)) /\ Len(Datas(g.segs)) = n
    BY <1>1, <1>7, <1>8, LogFacts
  <2>2. Datas(f.segs)[n] = cur /\ Datas(g.segs)[n] = cur \o s
    BY <1>5, <1>6, <1>7 DEF Datas
  <2>3. \A i \in 1 .. n - 1 : Datas(g.segs)[i] = Datas(f.segs)[i]
    BY <1>5, <1>7 DEF Datas
  <2>4. /\ front \in Seq(Seq(Entry)) /\ Len(front) = n - 1
        /\ \A i \in 1 .. n - 1 : front[i] = Datas(f.segs)[i]
    BY <1>5, <1>9, <2>1
  <2>5. Datas(f.segs) = Append(front, cur)
    <3>1. PICK d : d = Datas(f.segs)
      OBVIOUS
    <3>2. /\ d \in Seq(Seq(Entry)) /\ Len(d) = n /\ d[n] = cur
          /\ \A i \in 1 .. n - 1 : front[i] = d[i]
      BY <2>1, <2>2, <2>4, <3>1
    <3>3. d = Append(front, cur)
      <4>1. PICK T : T = Seq(Entry)
        OBVIOUS
      <4>2. /\ d \in Seq(T) /\ front \in Seq(T) /\ cur \in T
            /\ Len(d) = Len(front) + 1 /\ d[Len(front) + 1] = cur
            /\ \A i \in 1 .. Len(front) : front[i] = d[i]
        BY <1>5, <1>6, <2>4, <3>2, <4>1
      <4> QED BY <4>2, SplitLast
    <3> QED BY <3>1, <3>3
  <2>6. Datas(g.segs) = Append(front, cur \o s)
    <3>1. PICK d : d = Datas(g.segs)
      OBVIOUS
    <3>2. PICK x : x = cur \o s
      OBVIOUS
    <3>3. /\ d \in Seq(Seq(Entry)) /\ Len(d) = n /\ d[n] = x /\ x \in Seq(Entry)
          /\ \A i \in 1 .. n - 1 : front[i] = d[i]
      BY <1>6, <2>1, <2>2, <2>3, <2>4, <3>1, <3>2
    <3>4. d = Append(front, x)
      <4>1. PICK T : T = Seq(Entry)
        OBVIOUS
      <4>2. /\ d \in Seq(T) /\ front \in Seq(T) /\ x \in T
            /\ Len(d) = Len(front) + 1 /\ d[Len(front) + 1] = x
            /\ \A i \in 1 .. Len(front) : front[i] = d[i]
        BY <1>5, <2>4, <3>3, <4>1
      <4> QED BY <4>2, SplitLast
    <3> QED BY <3>1, <3>2, <3>4
  <2> QED BY <2>4, <2>5, <2>6
<1>11. LogOf(g) = LogOf(f) \o s
  <2>1. PICK b : b = FlattenSeq(front)
    OBVIOUS
  <2>2. b \in Seq(Entry)
    BY <1>10, <2>1, FlattenType
  <2>3. LogOf(f) = b \o cur
    BY <1>6, <1>10, <2>1, FlattenAppend DEF LogOf
  <2>4. LogOf(g) = b \o (cur \o s)
    BY <1>6, <1>10, <2>1, FlattenAppend DEF LogOf
  <2>5. cur \in Seq(Entry) /\ s \in Seq(Entry)
    BY <1>6
  <2>6. b \o (cur \o s) = (b \o cur) \o s
    BY <2>2, <2>5
  <2> QED BY <2>3, <2>4, <2>6
<1>12. GoneOf(g) = GoneOf(f) /\ GoneOf(f) \in Nat
  <2>1. SubSeq(g.segs, 1, f.first - 1) = SubSeq(f.segs, 1, f.first - 1)
    <3>1. f.first - 1 \in Nat /\ f.first - 1 < n
      BY <1>5
    <3> QED BY <1>5, <1>7, <3>1
  <2>2. g.first = f.first
    BY <1>7
  <2>3. GoneOf(g) = GoneOf(f)
    BY <2>1, <2>2 DEF GoneOf
  <2>4. GoneOf(f) \in Nat
    BY LogFacts
  <2> QED BY <2>3, <2>4
<1> QED BY <1>2, <1>4, <1>8, <1>11, <1>12 DEF Advances

(* A longer list of deleted files.                                         *)
LEMMA FirstMoves ==
  ASSUME NEW f, FileStateOK(f), NEW g, FileStateOK(g), f.first <= g.first,
         LogOf(g) = LogOf(f),
         g.segs = f.segs \/ g.segs = Append(f.segs, EmptySegment)
  PROVE  Advances(f, g, <<>>)
<1>1. PICK d : d = Datas(g.segs)
  OBVIOUS
<1>2. PICK k : k = f.first - 1
  OBVIOUS
<1>3. PICK m : m = g.first - 1
  OBVIOUS
<1>4. /\ d \in Seq(Seq(Entry)) /\ k \in 0 .. Len(f.segs) /\ Len(d) = Len(g.segs)
      /\ m \in 0 .. Len(g.segs) /\ k <= m /\ k \in Nat /\ m \in Nat
      /\ f.segs \in Seq(Segment) /\ k < Len(f.segs)
  <2>1. /\ d \in Seq(Seq(Entry)) /\ Len(d) = Len(g.segs)
        /\ f.segs \in Seq(Segment) /\ f.first \in 1 .. Len(f.segs)
        /\ g.first \in 1 .. Len(g.segs)
        /\ Len(f.segs) \in Nat /\ Len(g.segs) \in Nat
    BY <1>1, LogFacts
  <2>2. PICK i : i = f.first
    OBVIOUS
  <2>3. PICK j : j = g.first
    OBVIOUS
  <2>4. PICK p : p = Len(f.segs)
    OBVIOUS
  <2>5. PICK q : q = Len(g.segs)
    OBVIOUS
  <2>6. /\ i \in 1 .. p /\ j \in 1 .. q /\ p \in Nat /\ q \in Nat /\ i <= j
        /\ k = i - 1 /\ m = j - 1
    BY <1>2, <1>3, <2>1, <2>2, <2>3, <2>4, <2>5
  <2>7. k \in 0 .. p /\ m \in 0 .. q /\ k <= m /\ k \in Nat /\ m \in Nat /\ k < p
    BY <2>6
  <2> QED BY <2>1, <2>4, <2>5, <2>7
<1>5. SubSeq(f.segs, 1, k) = SubSeq(g.segs, 1, k) /\ k \in 0 .. Len(g.segs)
  <2>1. CASE g.segs = f.segs
    BY <1>4, <2>1
  <2>2. CASE g.segs = Append(f.segs, EmptySegment)
    <3>1. \A i \in 1 .. k : g.segs[i] = f.segs[i]
      BY <1>4, <2>2
    <3> QED BY <1>4, <2>2, <3>1
  <2> QED BY <2>1, <2>2
<1>6. GoneOf(f) = Len(FlattenSeq(SubSeq(d, 1, k)))
  <2>1. Datas(SubSeq(g.segs, 1, k)) = SubSeq(d, 1, k)
    BY <1>1, <1>5, LogFacts
  <2> QED BY <1>2, <1>5, <2>1 DEF GoneOf
<1>7. GoneOf(g) = Len(FlattenSeq(SubSeq(d, 1, m)))
  <2>1. Datas(SubSeq(g.segs, 1, m)) = SubSeq(d, 1, m)
    BY <1>1, <1>4, LogFacts
  <2> QED BY <1>3, <2>1 DEF GoneOf
<1>8. GoneOf(f) <= GoneOf(g)
  <2>1. k \in 0 .. Len(d) /\ m \in k .. Len(d)
    BY <1>4, <1>5
  <2> QED BY <1>4, <1>6, <1>7, <2>1, FlattenGrows
<1>9. LogOf(f) \in Seq(Entry)
  BY LogFacts
<1> QED BY <1>8, <1>9 DEF Advances

LEMMA AdvancesType ==
  ASSUME NEW f, NEW g, NEW s, Advances(f, g, s) PROVE FileStateOK(g)
BY DEF Advances

LEMMA PutAdvances ==
  ASSUME NEW f, FileStateOK(f), NEW s \in Seq(Entry)
  PROVE  Advances(f, Put(f, s), s)
<1>1. Current(f).synced \in Nat
  BY CurrentType
<1> QED BY <1>1, SetCurrentAdvances DEF Put

LEMMA SyncedAdvances ==
  ASSUME NEW f, FileStateOK(f) PROVE Advances(f, Synced(f), <<>>)
<1>1. PICK d : d = Current(f).data
  OBVIOUS
<1>2. d \in Seq(Entry) /\ Len(d) \in Nat /\ <<>> \in Seq(Entry)
  BY <1>1, CurrentType
<1>3. d \o <<>> = d
  BY <1>2
<1>4. Advances(f, SetCurrent(f, Current(f).data \o <<>>, Len(d), FALSE), <<>>)
  BY <1>2, SetCurrentAdvances
<1>5. Current(f).data \o <<>> = d
  BY <1>1, <1>3
<1> QED BY <1>1, <1>4, <1>5 DEF Synced

LEMMA FaultAdvances ==
  ASSUME NEW f, FileStateOK(f), f.faults > 0,
         NEW h \in {"open", "failed", "closed"}
  PROVE  /\ Advances(f, Fault(f), <<>>)
         /\ Advances(f, [Fault(f) EXCEPT !.handle = h], <<>>)
<1>1. FileStateOK(Fault(f)) /\ FileStateOK([Fault(f) EXCEPT !.handle = h])
  BY FaultExtends DEF Extends
<1>2. PICK g : g = Fault(f)
  OBVIOUS
<1>3. PICK k : k = [g EXCEPT !.handle = h]
  OBVIOUS
<1>4. f \in FileState /\ g \in FileState
  BY <1>1, <1>2 DEF FileStateOK
<1>5. g.segs = f.segs /\ g.first = f.first
  BY <1>2, <1>4 DEF Fault, FileState
<1>6. k.segs = g.segs /\ k.first = g.first
  BY <1>3, <1>4 DEF FileState
<1>7. Advances(f, g, <<>>) /\ Advances(f, k, <<>>)
  BY <1>1, <1>2, <1>3, <1>5, <1>6, SameFiles
<1> QED BY <1>2, <1>3, <1>7

LEMMA SyncLockedAdvances ==
  ASSUME NEW f, FileStateOK(f), NEW g \in SyncLocked(f)
  PROVE  Advances(f, g, <<>>)
<1>1. Advances(f, f, <<>>) /\ Advances(f, Synced(f), <<>>)
  BY SameFiles, SyncedAdvances
<1>2. f.faults > 0 => Advances(f, Fault(f), <<>>)
  BY FaultAdvances
<1>3. g = f \/ g = Synced(f) \/ (f.faults > 0 /\ g = Fault(f))
  BY DEF SyncLocked
<1> QED BY <1>1, <1>2, <1>3

LEMMA RotateAdvances ==
  ASSUME NEW f, FileStateOK(f), NEW g \in Rotate(f)
  PROVE  Advances(f, g, <<>>)
<1> DEFINE n == Len(f.segs) + 1
<1>1. FileStateOK(g)
  BY RotateExtends DEF Extends
<1>2. PICK fst : fst = IF n - f.first + 1 > MaxSegs THEN n - MaxSegs + 1 ELSE f.first
  OBVIOUS
<1>3. g = [f EXCEPT !.segs = Append(@, EmptySegment), !.first = fst,
                    !.dirty = FALSE, !.handle = "open"]
  BY <1>2 DEF Rotate
<1>4. g.segs = Append(f.segs, EmptySegment) /\ g.first = fst
  BY <1>3 DEF FileStateOK, FileState
<1>5. f.segs \in Seq(Segment) /\ f.first \in 1 .. Len(f.segs) /\ n \in Nat
  BY LogFacts
<1>6. f.first <= fst
  <2>1. MaxSegs \in Nat
    BY ConstantsAssumption
  <2> QED BY <1>2, <1>5, <2>1
<1>7. LogOf(g) = LogOf(f)
  <2>1. PICK d : d = Datas(f.segs)
    OBVIOUS
  <2>2. PICK e : e = Datas(g.segs)
    OBVIOUS
  <2>3. d \in Seq(Seq(Entry)) /\ Len(d) = Len(f.segs)
        /\ e \in Seq(Seq(Entry)) /\ Len(e) = Len(g.segs)
    BY <1>1, <2>1, <2>2, LogFacts
  <2>4. PICK m : m = Len(f.segs)
    OBVIOUS
  <2>5. m \in Nat /\ Len(g.segs) = m + 1 /\ EmptySegment \in Segment
        /\ g.segs[m + 1] = EmptySegment /\ \A i \in 1 .. m : g.segs[i] = f.segs[i]
        /\ DOMAIN g.segs = 1 .. m + 1 /\ DOMAIN f.segs = 1 .. m
    <3>1. EmptySegment \in Segment
      BY DEF EmptySegment, Segment
    <3> QED BY <1>4, <1>5, <2>4, <3>1
  <2>6. \A i \in 1 .. m : d[i] = e[i]
    BY <2>1, <2>2, <2>5 DEF Datas
  <2>7. e[m + 1] = <<>> /\ <<>> \in Seq(Entry)
    BY <2>2, <2>5 DEF Datas, EmptySegment
  <2>8. PICK T : T = Seq(Entry)
    OBVIOUS
  <2>9. PICK x : x = <<>>
    OBVIOUS
  <2>10. /\ e \in Seq(T) /\ d \in Seq(T) /\ x \in T
         /\ Len(e) = Len(d) + 1 /\ e[Len(d) + 1] = x
         /\ \A i \in 1 .. Len(d) : d[i] = e[i]
    BY <2>3, <2>4, <2>5, <2>6, <2>7, <2>8, <2>9
  <2>11. e = Append(d, x)
    BY <2>10, SplitLast
  <2>12. FlattenSeq(e) = FlattenSeq(d) \o x
    BY <2>3, <2>7, <2>9, <2>11, FlattenAppend
  <2>13. PICK b : b = FlattenSeq(d)
    OBVIOUS
  <2>14. b \in Seq(Entry)
    BY <2>3, <2>13, FlattenType
  <2>15. b \o <<>> = b
    BY <2>14
  <2> QED BY <2>1, <2>2, <2>9, <2>12, <2>13, <2>15 DEF LogOf
<1> QED BY <1>1, <1>4, <1>6, <1>7, FirstMoves

LEMMA RotateFailsAdvances ==
  ASSUME NEW f, FileStateOK(f), NEW g \in RotateFails(f)
  PROVE  Advances(f, g, <<>>)
<1>1. g = f \/ (f.faults > 0 /\ g = [Fault(f) EXCEPT !.handle = "closed"])
  BY DEF RotateFails
<1> QED BY <1>1, SameFiles, FaultAdvances

LEMMA RotateIfFullAdvances ==
  ASSUME NEW f, FileStateOK(f), NEW g \in RotateIfFull(f)
  PROVE  Advances(f, g, <<>>)
<1>1. g \in Rotate(f) \/ g \in RotateFails(f) \/ g = f
  BY DEF RotateIfFull
<1> QED BY <1>1, SameFiles, RotateAdvances, RotateFailsAdvances

LEMMA PruneToLastAdvances ==
  ASSUME NEW f, FileStateOK(f) PROVE Advances(f, PruneToLast(f), <<>>)
<1>1. FileStateOK(PruneToLast(f))
  BY PruneToLastExtends DEF Extends
<1>2. PruneToLast(f).segs = f.segs /\ PruneToLast(f).first = Len(f.segs)
  BY DEF PruneToLast, FileStateOK, FileState
<1>3. f.first <= Len(f.segs)
  BY LogFacts
<1>4. LogOf(PruneToLast(f)) = LogOf(f)
  BY <1>2 DEF LogOf
<1>5. PICK g : g = PruneToLast(f)
  OBVIOUS
<1> QED BY <1>1, <1>2, <1>3, <1>4, <1>5, FirstMoves

(* A write under w.mu puts what it was given at the end of the log.        *)
LEMMA FlushedAdvances ==
  ASSUME NEW f, FileStateOK(f), NEW s \in Seq(Entry), NEW sync \in BOOLEAN,
         NEW g \in Flushed(f, s, sync)
  PROVE  Advances(f, g, s)
<1>1. PICK p : p = Put(f, s)
  OBVIOUS
<1>2. Advances(f, p, s) /\ FileStateOK(p)
  BY <1>1, PutAdvances DEF Advances
<1>3. PICK q \in IF sync THEN SyncLocked(p) ELSE {p} : g \in RotateIfFull(q)
  BY <1>1 DEF Flushed
<1>4. Advances(p, q, <<>>) /\ FileStateOK(q)
  BY <1>2, <1>3, SyncLockedAdvances, SameFiles DEF Advances
<1>5. Advances(q, g, <<>>)
  BY <1>3, <1>4, RotateIfFullAdvances
<1>6. Advances(f, q, s)
  BY <1>2, <1>4, AdvancesTwice
<1> QED BY <1>5, <1>6, AdvancesTwice

(* A failed one puts a beginning of it there.                              *)
LEMMA WriteFailsAdvances ==
  ASSUME NEW f, FileStateOK(f), NEW s \in Seq(Entry), NEW g \in WriteFails(f, s)
  PROVE  \E n \in 0 .. Len(s) : Advances(f, g, SubSeq(s, 1, n))
<1>1. CASE ~WriteOK(f)
  <2>1. g = f
    BY <1>1 DEF WriteFails
  <2>2. SubSeq(s, 1, 0) = <<>> /\ 0 \in 0 .. Len(s)
    OBVIOUS
  <2>3. Advances(f, g, <<>>)
    BY <2>1, SameFiles
  <2> QED BY <2>2, <2>3
<1>2. CASE WriteOK(f)
  <2>1. f.faults # 0 /\ f.faults \in 0 .. MaxFaults /\ MaxFaults \in Nat
    BY <1>2, ConstantsAssumption DEF WriteFails, FileStateOK, FileState
  <2>2. PICK n \in 0 .. Len(s) - 1 :
           g = [Fault(Put(f, SubSeq(s, 1, n))) EXCEPT !.handle = "failed"]
    BY <1>2, <2>1 DEF WriteFails
  <2>3. PICK t : t = SubSeq(s, 1, n)
    OBVIOUS
  <2>4. PICK p : p = Put(f, t)
    OBVIOUS
  <2>5. t \in Seq(Entry) /\ n \in 0 .. Len(s)
    BY <2>2, <2>3
  <2>6. Advances(f, p, t) /\ FileStateOK(p)
    BY <2>4, <2>5, PutAdvances DEF Advances
  <2>7. p.faults = f.faults
    BY <2>4 DEF Put, SetCurrent, FileStateOK, FileState
  <2>8. p.faults > 0
    BY <2>1, <2>7
  <2>9. Advances(p, g, <<>>)
    BY <2>2, <2>3, <2>4, <2>6, <2>8, FaultAdvances
  <2>10. Advances(f, g, t)
    BY <2>5, <2>6, <2>9, AdvancesTwice
  <2> QED BY <2>3, <2>5, <2>10
<1> QED BY <1>1, <1>2

-----------------------------------------------------------------------------
(* The invariant of the refinement: an entry is on its way to a file in    *)
(* one place at most, and not at all once it is in one.  Without it a      *)
(* flush could write an entry twice, or one nobody handed over.            *)

(* What writeChan and the batch hold and the loop has still to write.      *)
Waiting ==
  IF loop \in {"answer", "lastAnswer"} THEN writeChan ELSE batch \o writeChan

OwnCalls ==
  \A c \in Client :
    /\ IsInjective(call[c])
    /\ \A e \in ToSet(call[c]) :
         e[1] = c /\ e[2] <= made[c] /\ answer[e] = "sent"

Unmade == \A e \in Entry : e[2] > made[e[1]] => answer[e] = "new"

WaitingOnce ==
  /\ IsInjective(Waiting)
  /\ \A e \in ToSet(Waiting) :
       e[1] \in Streaming /\ answer[e] # "new" /\ e \notin Written

DirectOnce == \A c \in Direct : Unanswered(c) => ToSet(call[c]) \cap Written = {}

WrittenOnce == IsInjective(LogOf(w)) /\ \A e \in Written : answer[e] # "new"

OnceInv == OwnCalls /\ Unmade /\ WaitingOnce /\ DirectOnce /\ WrittenOnce

LEMMA EntryIs ==
  ASSUME NEW e \in Entry
  PROVE  e[1] \in Client /\ e[2] \in Nat \ {0} /\ e = <<e[1], e[2]>>
<1>1. PICK c \in Client : e \in {c} \X (1 .. Quota[c])
  BY DEF Entry
<1>2. Quota[c] \in Nat
  BY ConstantsAssumption DEF Client
<1>3. PICK k \in 1 .. Quota[c] : e = <<c, k>>
  BY <1>1
<1> QED BY <1>2, <1>3

LEMMA WaitingType ==
  ASSUME TypeOK
  PROVE  Waiting \in Seq(Entry) /\ ToSet(Waiting) \subseteq Entry
<1>1. Waiting \in Seq(Entry)
  <2>1. writeChan \in Seq(Entry) /\ batch \in Seq(Entry)
    BY DEF TypeOK
  <2>2. batch \o writeChan \in Seq(Entry)
    BY <2>1
  <2> QED BY <2>1, <2>2 DEF Waiting
<1> QED BY <1>1 DEF ToSet

(* What a step does to the log and to what it holds.                       *)
LEMMA LogAdvances ==
  ASSUME TypeOK, NEW t \in Seq(Entry), Advances(w, w', t)
  PROVE  /\ LogOf(w)' = LogOf(w) \o t /\ Written' = Written \cup ToSet(t)
         /\ LogOf(w) \in Seq(Entry)
<1>1. FileStateOK(w) /\ FileStateOK(w')
  BY DEF TypeOK, Advances
<1>2. /\ LogOf(w) \in Seq(Entry) /\ ToSet(LogOf(w)) = WrittenIn(w)
      /\ ToSet(LogOf(w')) = WrittenIn(w')
  BY <1>1, LogFacts
<1>3. LogOf(w') = LogOf(w) \o t
  BY DEF Advances
<1>4. ToSet(LogOf(w) \o t) = ToSet(LogOf(w)) \cup ToSet(t)
  BY <1>2, ToSetJoin
<1> QED BY <1>2, <1>3, <1>4 DEF Written

LEMMA LogStays ==
  ASSUME TypeOK, Advances(w, w', <<>>)
  PROVE  LogOf(w)' = LogOf(w) /\ Written' = Written
<1>1. PICK t : t = <<>>
  OBVIOUS
<1>2. t \in Seq(Entry) /\ Advances(w, w', t) /\ ToSet(t) = {}
  BY <1>1 DEF ToSet
<1>3. /\ LogOf(w)' = LogOf(w) \o t /\ Written' = Written \cup ToSet(t)
      /\ LogOf(w) \in Seq(Entry)
  BY <1>2, LogAdvances
<1>4. PICK l : l = LogOf(w)
  OBVIOUS
<1>5. l \in Seq(Entry) /\ l \o <<>> = l
  BY <1>3, <1>4
<1> QED BY <1>1, <1>2, <1>3, <1>4, <1>5

(* Steps that neither write nor change what anybody was told.              *)
LEMMA SilentKeepsOnce ==
  ASSUME TypeOK, OnceInv, Advances(w, w', <<>>), UNCHANGED callVars,
         Waiting' = Waiting,
         \A e \in Entry : reply'[e] = "none" => reply[e] = "none"
  PROVE  OnceInv'
<1>1. LogOf(w)' = LogOf(w) /\ Written' = Written
  BY LogStays
<1>2. UNCHANGED <<call, made, answer>>
  BY DEF callVars
<1>3. OwnCalls' /\ Unmade'
  BY <1>2 DEF OnceInv, OwnCalls, Unmade
<1>4. WaitingOnce' /\ WrittenOnce'
  BY <1>1, <1>2 DEF OnceInv, WaitingOnce, WrittenOnce
<1>5. DirectOnce'
  <2> SUFFICES ASSUME NEW c \in Direct, Unanswered(c)'
               PROVE  ToSet(call[c])' \cap Written' = {}
    BY DEF DirectOnce
  <2>1. ToSet(call[c]) \subseteq Entry
    BY DEF TypeOK, Client, ToSet
  <2>2. Unanswered(c)
    BY <1>2, <2>1 DEF Unanswered
  <2> QED BY <1>1, <1>2, <2>2 DEF OnceInv, DirectOnce
<1> QED BY <1>3, <1>4, <1>5 DEF OnceInv

(* The entries of a call that begins are new, and so in no file, in no     *)
(* queue and in no other call.                                             *)
LEMMA BeginsNew ==
  ASSUME TypeOK, OnceInv, NEW c \in Client, NEW n \in Nat \ {0}, Begin(c, n),
         NEW E, E = {<<c, made[c] + i>> : i \in 1 .. n},
         NEW status \in {"sent", "failed"}, Tell(E, status)
  PROVE  /\ E \subseteq Entry /\ \A e \in E : answer[e] = "new"
         /\ E \cap Written = {} /\ E \cap ToSet(Waiting) = {}
         /\ \A d \in Client : E \cap ToSet(call[d]) = {}
         /\ \A e \in Entry : answer[e] # "new" => answer'[e] = answer[e]
         /\ \A e \in E : answer'[e] = status /\ e[2] <= made'[c] /\ e[1] = c
         /\ \A d \in Client : made[d] <= made'[d]
         /\ Unmade'
<1>1. /\ made' = [made EXCEPT ![c] = @ + n] /\ made[c] + n <= Quota[c]
      /\ made \in [Client -> Nat] /\ made[c] \in Nat
  BY DEF Begin, TypeOK
<1>2. \A i \in 1 .. n : <<c, made[c] + i>> \in Entry
  BY <1>1, NextEntries
<1>3. E \subseteq Entry
  BY <1>2
<1>4. ASSUME NEW e \in E
      PROVE  answer[e] = "new" /\ e[1] = c /\ e[2] > made[c] /\ e[2] <= made'[c]
  <2>1. PICK i \in 1 .. n : e = <<c, made[c] + i>>
    OBVIOUS
  <2>2. e[1] = c /\ e[2] = made[c] + i /\ made'[c] = made[c] + n /\ i \in Nat /\ i >= 1 /\ i <= n
    BY <1>1, <2>1
  <2>3. e[2] > made[c] /\ e[2] <= made'[c]
    BY <1>1, <2>2
  <2>4. answer[e] = "new"
    BY <1>3, <2>2, <2>3 DEF OnceInv, Unmade
  <2> QED BY <2>2, <2>3, <2>4
<1>5. E \cap Written = {} /\ E \cap ToSet(Waiting) = {}
  BY <1>4 DEF OnceInv, WrittenOnce, WaitingOnce
<1>6. \A d \in Client : E \cap ToSet(call[d]) = {}
  BY <1>4 DEF OnceInv, OwnCalls
<1>7. \A e \in Entry : answer'[e] = IF e \in E THEN status ELSE answer[e]
  BY DEF Tell
<1>8. \A e \in Entry : answer[e] # "new" => answer'[e] = answer[e]
  BY <1>4, <1>7
<1>9. \A d \in Client : made[d] <= made'[d] /\ made[d] \in Nat /\ made'[d] \in Nat
  BY <1>1
<1>10. Unmade'
  <2> SUFFICES ASSUME NEW e \in Entry, e[2] > made'[e[1]] PROVE answer'[e] = "new"
    BY DEF Unmade
  <2>1. e[1] \in Client /\ e[2] \in Nat
    BY EntryIs
  <2>2. e[2] > made[e[1]]
    BY <1>9, <2>1
  <2>3. e \notin E
    <3>1. ASSUME e \in E PROVE FALSE
      <4>1. e[1] = c /\ e[2] <= made'[c]
        BY <1>4, <3>1
      <4> QED BY <1>9, <2>1, <4>1
    <3> QED BY <3>1
  <2>4. answer[e] = "new"
    BY <2>2 DEF OnceInv, Unmade
  <2> QED BY <1>7, <2>3, <2>4
<1> QED BY <1>3, <1>4, <1>5, <1>6, <1>7, <1>8, <1>9, <1>10

(* What holds of the calls in progress and of the files when one begins.   *)
LEMMA BeginKeepsOnce ==
  ASSUME TypeOK, OnceInv, NEW c \in Client, NEW n \in Nat \ {0}, Begin(c, n),
         NEW E, E = {<<c, made[c] + i>> : i \in 1 .. n},
         NEW status \in {"sent", "failed"}, Tell(E, status),
         \A d \in Client : d # c => call'[d] = call[d],
         \/ call'[c] = call[c]
         \/ status = "sent" /\ IsInjective(call'[c]) /\ ToSet(call'[c]) = E
  PROVE  /\ OwnCalls' /\ Unmade' /\ DirectOnce' /\ WrittenOnce'
         /\ \A e \in Entry : answer[e] # "new" => answer'[e] # "new"
<1>1. /\ E \subseteq Entry /\ \A e \in E : answer[e] = "new"
      /\ E \cap Written = {}
      /\ \A d \in Client : E \cap ToSet(call[d]) = {}
      /\ \A e \in Entry : answer[e] # "new" => answer'[e] = answer[e]
      /\ \A e \in E : answer'[e] = status /\ e[2] <= made'[c] /\ e[1] = c
      /\ \A d \in Client : made[d] <= made'[d]
      /\ Unmade'
  BY BeginsNew
<1>2. UNCHANGED <<w, reply>>
  BY DEF Begin
<1>3. made \in [Client -> Nat] /\ made' \in [Client -> Nat]
  BY DEF TypeOK, Begin
<1>4. \A d \in Client : ToSet(call[d]) \subseteq Entry
  BY DEF TypeOK, ToSet
<1>5. OwnCalls'
  <2> SUFFICES ASSUME NEW d \in Client
               PROVE  /\ IsInjective(call'[d])
                      /\ \A e \in ToSet(call'[d]) :
                           e[1] = d /\ e[2] <= made'[d] /\ answer'[e] = "sent"
    BY DEF OwnCalls
  <2>1. CASE call'[d] = call[d]
    <3>1. IsInjective(call'[d])
      BY <2>1 DEF OnceInv, OwnCalls
    <3>2. ASSUME NEW e \in ToSet(call'[d])
          PROVE  e[1] = d /\ e[2] <= made'[d] /\ answer'[e] = "sent"
      <4>1. e[1] = d /\ e[2] <= made[d] /\ answer[e] = "sent" /\ e \in Entry
        BY <1>4, <2>1 DEF OnceInv, OwnCalls
      <4>2. e[2] \in Nat /\ made[d] \in Nat /\ made'[d] \in Nat /\ made[d] <= made'[d]
        BY <1>1, <1>3, <4>1, EntryIs
      <4>3. answer'[e] = "sent"
        BY <1>1, <4>1
      <4> QED BY <4>1, <4>2, <4>3
    <3> QED BY <3>1, <3>2
  <2>2. CASE call'[d] # call[d]
    BY <1>1, <2>2
  <2> QED BY <2>1, <2>2
<1>6. Written' = Written /\ LogOf(w)' = LogOf(w)
  BY <1>2 DEF Written
<1>7. WrittenOnce'
  <2>1. Written \subseteq Entry
    <3>1. FileStateOK(w)
      BY DEF TypeOK
    <3>2. LogOf(w) \in Seq(Entry) /\ ToSet(LogOf(w)) = WrittenIn(w)
      BY <3>1, LogFacts
    <3> QED BY <3>2 DEF Written, ToSet
  <2> QED BY <1>1, <1>6, <2>1 DEF OnceInv, WrittenOnce
<1>8. DirectOnce'
  <2> SUFFICES ASSUME NEW d \in Direct, Unanswered(d)'
               PROVE  ToSet(call'[d]) \cap Written' = {}
    BY DEF DirectOnce
  <2>1. CASE call'[d] = call[d]
    <3>1. Unanswered(d)
      BY <1>2, <2>1 DEF Unanswered
    <3> QED BY <1>6, <2>1, <3>1 DEF OnceInv, DirectOnce
  <2>2. CASE call'[d] # call[d]
    <3>1. d \in Client
      BY DEF Client
    <3>2. ToSet(call'[d]) = E
      BY <2>2, <3>1
    <3> QED BY <1>1, <1>6, <3>2
  <2> QED BY <2>1, <2>2
<1> QED BY <1>1, <1>5, <1>7, <1>8

(* The entries that one call hands over.                                   *)
LEMMA OneEntry ==
  ASSUME NEW c, NEW m \in Nat
  PROVE  {<<c, m + 1>>} = {<<c, m + i>> : i \in 1 .. 1}
<1>1. 1 .. 1 = {1}
  OBVIOUS
<1> QED BY <1>1

LEMMA SingleIs ==
  ASSUME NEW e PROVE IsInjective(<<e>>) /\ ToSet(<<e>>) = {e}
BY DEF IsInjective, ToSet

LEMMA SendKeepsOnce ==
  ASSUME TypeOK, OnceInv, NEW c \in Streaming, Send(c) PROVE OnceInv'
<1>1. PICK e : e = <<c, made[c] + 1>>
  OBVIOUS
<1>2. c \in Client /\ made[c] \in Nat
  BY DEF Client, TypeOK
<1>3. PICK E : E = {<<c, made[c] + i>> : i \in 1 .. 1}
  OBVIOUS
<1>4. E = {e}
  BY <1>1, <1>2, <1>3, OneEntry
<1>5. /\ Begin(c, 1) /\ writeChan' = Append(writeChan, e)
      /\ call' = [call EXCEPT ![c] = <<e>>] /\ Tell({e}, "sent")
  BY <1>1 DEF Send
<1>6. Tell(E, "sent") /\ 1 \in Nat \ {0}
  BY <1>4, <1>5
<1>7. /\ E \subseteq Entry /\ E \cap Written = {} /\ E \cap ToSet(Waiting) = {}
      /\ \A x \in E : answer'[x] = "sent"
  BY <1>2, <1>3, <1>5, <1>6, BeginsNew
<1>8. /\ \A d \in Client : d # c => call'[d] = call[d]
      /\ IsInjective(call'[c]) /\ ToSet(call'[c]) = E
  BY <1>2, <1>4, <1>5, SingleIs DEF TypeOK
<1>9. /\ OwnCalls' /\ Unmade' /\ DirectOnce' /\ WrittenOnce'
      /\ \A x \in Entry : answer[x] # "new" => answer'[x] # "new"
  BY <1>2, <1>3, <1>5, <1>6, <1>8, BeginKeepsOnce
<1>10. UNCHANGED <<w, batch, loop>>
  BY <1>5 DEF Begin
<1>11. Waiting' = Waiting \o <<e>>
  <2>1. PICK b : b = batch
    OBVIOUS
  <2>2. PICK r : r = writeChan
    OBVIOUS
  <2>3. b \in Seq(Entry) /\ r \in Seq(Entry) /\ e \in Entry
    BY <1>4, <1>7, <2>1, <2>2 DEF TypeOK
  <2>4. Append(r, e) = r \o <<e>> /\ b \o Append(r, e) = (b \o r) \o <<e>>
    BY <2>3
  <2> QED BY <1>5, <1>10, <2>1, <2>2, <2>4 DEF Waiting
<1>12. WaitingOnce'
  <2>1. PICK q : q = Waiting
    OBVIOUS
  <2>2. q \in Seq(Entry) /\ ToSet(q) \subseteq Entry /\ e \in Entry
    BY <1>4, <1>7, <2>1, WaitingType
  <2>3. <<e>> \in Seq(Entry) /\ IsInjective(<<e>>) /\ ToSet(<<e>>) = {e}
    BY <2>2, SingleIs
  <2>4. PICK t : t = <<e>>
    OBVIOUS
  <2>5. IsInjective(q) /\ ToSet(q) \cap ToSet(t) = {}
    BY <1>4, <1>7, <2>1, <2>3, <2>4 DEF OnceInv, WaitingOnce
  <2>6. IsInjective(q \o t) /\ ToSet(q \o t) = ToSet(q) \cup {e}
    <3>1. t \in Seq(Entry) /\ IsInjective(t) /\ ToSet(t) = {e}
      BY <2>3, <2>4
    <3>2. IsInjective(q \o t) /\ ToSet(q \o t) = ToSet(q) \cup ToSet(t)
      BY <2>2, <2>5, <3>1, ToSetJoin
    <3> QED BY <3>1, <3>2
  <2>7. Written' = Written
    BY <1>10 DEF Written
  <2>8. e[1] \in Streaming /\ answer'[e] # "new" /\ e \notin Written
    BY <1>1, <1>4, <1>7
  <2>9. \A x \in ToSet(q) :
          x[1] \in Streaming /\ answer'[x] # "new" /\ x \notin Written
    BY <1>9, <2>1, <2>2 DEF OnceInv, WaitingOnce
  <2>10. Waiting' = q \o t
    BY <1>11, <2>1, <2>4
  <2> QED BY <2>6, <2>7, <2>8, <2>9, <2>10 DEF WaitingOnce
<1> QED BY <1>9, <1>12 DEF OnceInv

(* The queue, when a call begins that does not put anything in it.         *)
LEMMA WaitingStays ==
  ASSUME TypeOK, OnceInv, UNCHANGED <<w, loopVars>>,
         \A e \in Entry : answer[e] # "new" => answer'[e] # "new"
  PROVE  WaitingOnce'
<1>1. Waiting' = Waiting /\ Written' = Written
  BY DEF Waiting, Written, loopVars
<1>2. ToSet(Waiting) \subseteq Entry
  BY WaitingType
<1> QED BY <1>1, <1>2 DEF OnceInv, WaitingOnce

LEMMA RefuseSendKeepsOnce ==
  ASSUME TypeOK, OnceInv, NEW c \in Streaming, RefuseSend(c) PROVE OnceInv'
<1>1. c \in Client /\ made[c] \in Nat
  BY DEF Client, TypeOK
<1>2. PICK E : E = {<<c, made[c] + i>> : i \in 1 .. 1}
  OBVIOUS
<1>3. E = {<<c, made[c] + 1>>}
  BY <1>1, <1>2, OneEntry
<1>4. Begin(c, 1) /\ Tell(E, "failed") /\ UNCHANGED <<writeChan, call>> /\ 1 \in Nat \ {0}
  BY <1>3 DEF RefuseSend
<1>5. /\ OwnCalls' /\ Unmade' /\ DirectOnce' /\ WrittenOnce'
      /\ \A x \in Entry : answer[x] # "new" => answer'[x] # "new"
  BY <1>1, <1>2, <1>4, BeginKeepsOnce
<1>6. UNCHANGED <<w, loopVars>>
  BY <1>4 DEF Begin, loopVars
<1> QED BY <1>5, <1>6, WaitingStays DEF OnceInv

LEMMA CallDirectKeepsOnce ==
  ASSUME TypeOK, OnceInv, NEW c \in Direct, NEW n \in 1 .. 2, CallDirect(c, n)
  PROVE  OnceInv'
<1>1. c \in Client /\ made[c] \in Nat /\ n \in Nat \ {0}
  BY DEF Client, TypeOK
<1>2. PICK s : s = [i \in 1 .. n |-> <<c, made[c] + i>>]
  OBVIOUS
<1>3. PICK E : E = {<<c, made[c] + i>> : i \in 1 .. n}
  OBVIOUS
<1>4. ToSet(s) = E /\ IsInjective(s)
  <2>1. DOMAIN s = 1 .. n
    BY <1>2
  <2>2. ToSet(s) = E
    BY <1>2, <1>3, <2>1 DEF ToSet
  <2>3. ASSUME NEW i \in 1 .. n, NEW j \in 1 .. n, s[i] = s[j] PROVE i = j
    <3>1. made[c] + i = made[c] + j
      BY <1>2, <2>3
    <3> QED BY <1>1, <3>1
  <2> QED BY <2>1, <2>2, <2>3 DEF IsInjective
<1>5. /\ Begin(c, n) /\ call' = [call EXCEPT ![c] = s] /\ Tell(E, "sent")
      /\ UNCHANGED writeChan
  BY <1>2, <1>4 DEF CallDirect
<1>6. /\ \A d \in Client : d # c => call'[d] = call[d]
      /\ IsInjective(call'[c]) /\ ToSet(call'[c]) = E
  BY <1>1, <1>4, <1>5 DEF TypeOK
<1>7. /\ OwnCalls' /\ Unmade' /\ DirectOnce' /\ WrittenOnce'
      /\ \A x \in Entry : answer[x] # "new" => answer'[x] # "new"
  BY <1>1, <1>3, <1>5, <1>6, BeginKeepsOnce
<1>8. UNCHANGED <<w, loopVars>>
  BY <1>5 DEF Begin, loopVars
<1> QED BY <1>7, <1>8, WaitingStays DEF OnceInv

(* Calls of two goroutines are about different entries.                    *)
LEMMA CallsApart ==
  ASSUME OnceInv, NEW c \in Client, NEW d \in Client, c # d
  PROVE  ToSet(call[c]) \cap ToSet(call[d]) = {}
BY DEF OnceInv, OwnCalls

LEMMA ReturnKeepsOnce ==
  ASSUME TypeOK, OnceInv, NEW c \in Client, NEW status \in {"ok", "failed"},
         Return(c, status)
  PROVE  OnceInv'
<1>1. /\ UNCHANGED <<w, loopVars, made>> /\ Tell(ToSet(call[c]), status)
      /\ call' = [call EXCEPT ![c] = <<>>] /\ call \in [Client -> Seq(Entry)]
      /\ reply' = [e \in Entry |-> IF e \in ToSet(call[c]) THEN "none" ELSE reply[e]]
  BY DEF Return, TypeOK
<1>2. \A d \in Client : ToSet(call[d]) \subseteq Entry
  BY <1>1 DEF ToSet
<1>3. \A e \in Entry : answer'[e] = IF e \in ToSet(call[c]) THEN status ELSE answer[e]
  BY <1>1 DEF Tell
<1>4. \A e \in Entry : answer[e] # "new" => answer'[e] # "new"
  BY <1>3
<1>5. call'[c] = <<>> /\ \A d \in Client : d # c => call'[d] = call[d]
  BY <1>1
<1>6. OwnCalls'
  <2> SUFFICES ASSUME NEW d \in Client
               PROVE  /\ IsInjective(call'[d])
                      /\ \A e \in ToSet(call'[d]) :
                           e[1] = d /\ e[2] <= made'[d] /\ answer'[e] = "sent"
    BY DEF OwnCalls
  <2>1. CASE d = c
    BY <1>5, <2>1 DEF IsInjective, ToSet
  <2>2. CASE d # c
    <3>1. call'[d] = call[d] /\ made'[d] = made[d]
      BY <1>1, <1>5, <2>2
    <3>2. \A e \in ToSet(call[d]) : e \in Entry /\ answer'[e] = answer[e]
      BY <1>2, <1>3, <2>2, CallsApart
    <3> QED BY <3>1, <3>2 DEF OnceInv, OwnCalls
  <2> QED BY <2>1, <2>2
<1>7. Unmade'
  <2> SUFFICES ASSUME NEW e \in Entry, e[2] > made'[e[1]] PROVE answer'[e] = "new"
    BY DEF Unmade
  <2>1. e[1] \in Client /\ e[2] \in Nat /\ made[e[1]] \in Nat /\ made' = made
    BY <1>1, EntryIs DEF TypeOK
  <2>2. answer[e] = "new"
    BY <2>1 DEF OnceInv, Unmade
  <2>3. e \notin ToSet(call[c])
    BY <2>2 DEF OnceInv, OwnCalls
  <2> QED BY <1>3, <2>2, <2>3
<1>8. WaitingOnce'
  BY <1>1, <1>4, WaitingStays
<1>9. Written' = Written /\ LogOf(w)' = LogOf(w)
  BY <1>1 DEF Written
<1>10. WrittenOnce'
  <2>1. Written \subseteq Entry
    <3>1. FileStateOK(w)
      BY DEF TypeOK
    <3>2. LogOf(w) \in Seq(Entry) /\ ToSet(LogOf(w)) = WrittenIn(w)
      BY <3>1, LogFacts
    <3> QED BY <3>2 DEF Written, ToSet
  <2> QED BY <1>4, <1>9, <2>1 DEF OnceInv, WrittenOnce
<1>11. DirectOnce'
  <2> SUFFICES ASSUME NEW d \in Direct, Unanswered(d)'
               PROVE  ToSet(call'[d]) \cap Written' = {}
    BY DEF DirectOnce
  <2>1. d # c /\ d \in Client
    BY <1>5 DEF Unanswered, Client
  <2>2. \A e \in ToSet(call[d]) : e \in Entry /\ reply'[e] = reply[e]
    BY <1>1, <1>2, <2>1, CallsApart
  <2>3. Unanswered(d)
    BY <1>5, <2>1, <2>2 DEF Unanswered
  <2> QED BY <1>5, <1>9, <2>1, <2>3 DEF OnceInv, DirectOnce
<1> QED BY <1>6, <1>7, <1>8, <1>10, <1>11 DEF OnceInv

(* The loop and the others, when no entry reaches a file.                  *)
LEMMA QuietStepsKeepOnce ==
  ASSUME TypeOK, OnceInv,
         \/ Receive \/ Timer \/ ReadPolicy \/ Tick \/ AnswerNext \/ Stop \/ StopEmpty
         \/ CloseBegin \/ CloseMark \/ CloseSync
         \/ CheckpointSync \/ RotateAndPruneFresh
         \/ \E p \in Policies : SetSyncPolicy(p)
  PROVE  OnceInv' /\ Advances(w, w', <<>>) /\ UNCHANGED callVars
<1>1. FileStateOK(w)
  BY DEF TypeOK
<1>2. Advances(w, w, <<>>)
  BY <1>1, SameFiles
<1>3. /\ UNCHANGED callVars
      /\ \A e \in Entry : reply'[e] = "none" => reply[e] = "none"
  <2>1. CASE AnswerNext
    <3>1. Answer({Head(batch)}, Verdict(opErr)) /\ UNCHANGED callVars
      BY <2>1 DEF AnswerNext
    <3>2. Verdict(opErr) # "none"
      BY DEF Verdict
    <3> QED BY <3>1, <3>2 DEF Answer
  <2>2. CASE ~AnswerNext
    BY <2>2 DEF Receive, Timer, ReadPolicy, Tick, Stop, StopEmpty, CloseBegin,
                CloseMark, CloseSync, CheckpointSync, RotateAndPruneFresh, SetSyncPolicy
  <2> QED BY <2>1, <2>2
<1>4. Waiting' = Waiting
  <2>1. CASE Receive
    <3>1. PICK b : b = batch
      OBVIOUS
    <3>2. PICK r : r = writeChan
      OBVIOUS
    <3>3. b \in Seq(Entry) /\ r \in Seq(Entry) /\ r # <<>>
      BY <2>1, <3>1, <3>2 DEF TypeOK, Receive
    <3>4. Append(b, Head(r)) \o Tail(r) = b \o r
      BY <3>3
    <3>5. loop' \notin {"answer", "lastAnswer"} /\ loop \notin {"answer", "lastAnswer"}
      BY <2>1 DEF Receive
    <3> QED BY <2>1, <3>1, <3>2, <3>4, <3>5 DEF Receive, Waiting
  <2>2. CASE AnswerNext
    <3>1. loop \in {"answer", "lastAnswer"} /\ writeChan' = writeChan
          /\ batch' = Tail(batch) /\ batch # <<>>
      BY <2>2 DEF AnswerNext
    <3>2. CASE Len(batch) > 1
      BY <2>2, <3>1, <3>2 DEF AnswerNext, Waiting
    <3>3. CASE ~(Len(batch) > 1)
      <4>1. batch' = <<>>
        BY <3>1, <3>3 DEF TypeOK
      <4>2. <<>> \o writeChan = writeChan
        BY DEF TypeOK
      <4>3. loop' \notin {"answer", "lastAnswer"}
        BY <2>2, <3>3 DEF AnswerNext
      <4> QED BY <3>1, <4>1, <4>2, <4>3 DEF Waiting
    <3> QED BY <3>2, <3>3
  <2>3. CASE Timer \/ ReadPolicy \/ Tick \/ Stop \/ StopEmpty
    BY <2>3 DEF Timer, ReadPolicy, Tick, Stop, StopEmpty, Waiting
  <2>4. CASE \/ CloseBegin \/ CloseMark \/ CloseSync
             \/ CheckpointSync \/ RotateAndPruneFresh
             \/ \E p \in Policies : SetSyncPolicy(p)
    <3>1. UNCHANGED loopVars
      BY <2>4 DEF CloseBegin, CloseMark, CloseSync, CheckpointSync,
                  RotateAndPruneFresh, SetSyncPolicy
    <3> QED BY <3>1 DEF loopVars, Waiting
  <2> QED BY <2>1, <2>2, <2>3, <2>4
<1>5. Advances(w, w', <<>>)
  <2>1. CASE UNCHANGED w
    BY <1>2, <2>1
  <2>2. CASE w' \in SyncLocked(w)
    BY <1>1, <2>2, SyncLockedAdvances
  <2>3. CASE w' = Synced(w)
    BY <1>1, <2>3, SyncedAdvances
  <2>4. CASE w.faults > 0 /\ w' = Fault(w)
    BY <1>1, <2>4, FaultAdvances
  <2>5. CASE w.faults > 0 /\ w' = [Fault(w) EXCEPT !.handle = "closed"]
    BY <1>1, <2>5, FaultAdvances
  <2>6. CASE w' = [Synced(w) EXCEPT !.handle = "closed"]
    <3>1. PICK f : f = Synced(w)
      OBVIOUS
    <3>2. Advances(w, f, <<>>) /\ FileStateOK(f)
      BY <1>1, <3>1, SyncedAdvances DEF Advances
    <3>3. /\ w' = [f EXCEPT !.handle = "closed"] /\ FileStateOK(w')
          /\ w'.segs = f.segs /\ w'.first = f.first
      BY <2>6, <3>1, <3>2 DEF FileStateOK, FileState
    <3>4. Advances(f, w', <<>>)
      BY <3>2, <3>3, SameFiles
    <3>5. <<>> \in Seq(Entry)
      OBVIOUS
    <3> QED BY <1>1, <3>2, <3>4, <3>5, AdvancesTwice
  <2>7. CASE RotateAndPruneFresh
    <3>1. CASE w' \in RotateFails(w)
      BY <1>1, <3>1, RotateFailsAdvances
    <3>2. CASE \E f \in Rotate(w) : w' = PruneToLast(f)
      <4>1. PICK f \in Rotate(w) : w' = PruneToLast(f)
        BY <3>2
      <4>2. Advances(w, f, <<>>) /\ FileStateOK(f)
        BY <1>1, <4>1, RotateAdvances DEF Advances
      <4>3. Advances(f, w', <<>>)
        BY <4>1, <4>2, PruneToLastAdvances
      <4>4. <<>> \in Seq(Entry)
        OBVIOUS
      <4> QED BY <1>1, <4>2, <4>3, <4>4, AdvancesTwice
    <3> QED BY <2>7, <3>1, <3>2 DEF RotateAndPruneFresh
  <2>8. CASE \E p \in Policies : SetSyncPolicy(p)
    <3>1. PICK p \in Policies : w' = [w EXCEPT !.policy = p]
      BY <2>8 DEF SetSyncPolicy
    <3>2. FileStateOK(w') /\ w'.segs = w.segs /\ w'.first = w.first
      BY <1>1, <3>1 DEF FileStateOK, FileState
    <3> QED BY <1>1, <3>2, SameFiles
  <2> QED BY <2>1, <2>2, <2>3, <2>4, <2>5, <2>6, <2>7, <2>8
          DEF Receive, Timer, ReadPolicy, Tick, AnswerNext, Stop, StopEmpty,
              CloseBegin, CloseMark, CloseSync, CheckpointSync
<1>6. OnceInv'
  BY <1>3, <1>4, <1>5, SilentKeepsOnce
<1> QED BY <1>3, <1>5, <1>6

LEMMA SplitJoin ==
  ASSUME NEW S, NEW s \in Seq(S), NEW t \in Seq(S), IsInjective(s \o t)
  PROVE  IsInjective(s) /\ IsInjective(t) /\ ToSet(s) \cap ToSet(t) = {}
<1>1. PICK m : m = Len(s)
  OBVIOUS
<1>2. /\ m \in Nat /\ Len(t) \in Nat
      /\ DOMAIN s = 1 .. m /\ DOMAIN t = 1 .. Len(t)
      /\ \A i \in 1 .. m : i \in DOMAIN (s \o t) /\ (s \o t)[i] = s[i]
      /\ \A i \in 1 .. Len(t) :
           m + i \in DOMAIN (s \o t) /\ (s \o t)[m + i] = t[i]
  BY <1>1
<1>3. \A i, j \in DOMAIN (s \o t) : (s \o t)[i] = (s \o t)[j] => i = j
  BY DEF IsInjective
<1>4. ASSUME NEW i \in DOMAIN s, NEW j \in DOMAIN s, s[i] = s[j] PROVE i = j
  BY <1>2, <1>3, <1>4
<1>5. ASSUME NEW i \in DOMAIN t, NEW j \in DOMAIN t, t[i] = t[j] PROVE i = j
  <2>1. m + i = m + j
    BY <1>2, <1>3, <1>5
  <2> QED BY <1>2, <2>1
<1>6. ASSUME NEW i \in DOMAIN s, NEW j \in DOMAIN t, s[i] = t[j] PROVE FALSE
  <2>1. i = m + j
    BY <1>2, <1>3, <1>6
  <2> QED BY <1>2, <2>1
<1> QED BY <1>4, <1>5, <1>6 DEF IsInjective, ToSet

LEMMA Beginning ==
  ASSUME NEW S, NEW s \in Seq(S), NEW n \in 0 .. Len(s)
  PROVE  /\ SubSeq(s, 1, n) \in Seq(S) /\ ToSet(SubSeq(s, 1, n)) \subseteq ToSet(s)
         /\ IsInjective(s) => IsInjective(SubSeq(s, 1, n))
<1>1. PICK t : t = SubSeq(s, 1, n)
  OBVIOUS
<1>2. /\ t \in Seq(S) /\ DOMAIN t = 1 .. n /\ \A i \in 1 .. n : i \in DOMAIN s /\ t[i] = s[i]
  BY <1>1
<1> QED BY <1>1, <1>2 DEF ToSet, IsInjective

LEMMA EndIs ==
  ASSUME NEW S, NEW l \in Seq(S), NEW t \in Seq(S)
  PROVE  IsPrefix(l, l \o t) /\ SubSeq(l \o t, Len(l) + 1, Len(l \o t)) = t
<1>1. PICK k : k = l \o t
  OBVIOUS
<1>2. PICK m : m = Len(l)
  OBVIOUS
<1>3. PICK n : n = Len(t)
  OBVIOUS
<1>4. /\ k \in Seq(S) /\ Len(k) = m + n /\ m \in Nat /\ n \in Nat
      /\ \A i \in 1 .. m : k[i] = l[i]
      /\ \A i \in 1 .. n : k[m + i] = t[i]
  BY <1>1, <1>2, <1>3
<1>5. IsPrefix(l, k)
  <2>1. SubSeq(l, 1, m) = l
    BY <1>2
  <2>2. SubSeq(k, 1, m) = l
    BY <1>2, <1>4
  <2> QED BY <1>2, <1>4, <2>1, <2>2 DEF IsPrefix
<1>6. SubSeq(k, m + 1, m + n) = t
  <2>1. PICK u : u = SubSeq(k, m + 1, m + n)
    OBVIOUS
  <2>2. u \in Seq(S) /\ Len(u) = n
    <3>1. CASE n = 0
      BY <1>4, <2>1, <3>1
    <3>2. CASE n # 0
      <4>1. m + 1 \in 1 .. Len(k) /\ m + n \in 1 .. Len(k) /\ m + 1 <= m + n
        BY <1>4, <3>2
      <4>2. u \in Seq(S)
        BY <1>4, <2>1, <4>1
      <4>3. Len(u) = (m + n) - (m + 1) + 1
        BY <1>4, <2>1, <4>1
      <4> QED BY <1>4, <4>2, <4>3
    <3> QED BY <3>1, <3>2
  <2>3. \A i \in 1 .. n : u[i] = t[i]
    <3> SUFFICES ASSUME NEW i \in 1 .. n PROVE u[i] = t[i]
      OBVIOUS
    <3>1. u[i] = k[m + i]
      BY <1>4, <2>1
    <3> QED BY <1>4, <3>1
  <2> QED BY <1>3, <2>1, <2>2, <2>3
<1> QED BY <1>1, <1>2, <1>4, <1>5, <1>6

(* A step that writes entries which are in no file yet, and which their    *)
(* callers have handed over, extends the abstract log.                     *)
LEMMA WritesExtend ==
  ASSUME TypeOK, AckedIsWritten, OnceInv, NEW t \in Seq(Entry), Advances(w, w', t),
         IsInjective(t), UNCHANGED callVars,
         \A e \in ToSet(t) : answer[e] # "new" /\ e \notin Written
  PROVE  /\ OwnCalls' /\ Unmade' /\ WrittenOnce'
         /\ Written' = Written \cup ToSet(t)
         /\ Log!ExtendOrRetire
<1>1. /\ LogOf(w)' = LogOf(w) \o t /\ Written' = Written \cup ToSet(t)
      /\ LogOf(w) \in Seq(Entry)
  BY LogAdvances
<1>2. UNCHANGED <<call, made, answer>>
  BY DEF callVars
<1>3. OwnCalls' /\ Unmade'
  BY <1>2 DEF OnceInv, OwnCalls, Unmade
<1>4. PICK l : l = LogOf(w)
  OBVIOUS
<1>5. l \in Seq(Entry) /\ IsInjective(l) /\ ToSet(l) = Written
  <2>1. FileStateOK(w)
    BY DEF TypeOK
  <2> QED BY <1>4, <2>1, LogFacts DEF OnceInv, WrittenOnce, Written
<1>6. IsInjective(l \o t)
  <2>1. ToSet(l) \cap ToSet(t) = {}
    BY <1>5
  <2> QED BY <1>5, <2>1, ToSetJoin
<1>7. WrittenOnce'
  BY <1>1, <1>2, <1>4, <1>6 DEF OnceInv, WrittenOnce
<1>8. Log!ExtendOrRetire
  <2>1. PICK k : k = l \o t
    OBVIOUS
  <2>2. LogOf(w)' = k
    BY <1>1, <1>4, <2>1
  <2>3. IsPrefix(l, k) /\ SubSeq(k, Len(l) + 1, Len(k)) = t
    BY <1>5, <2>1, EndIs
  <2>4. \A e \in ToSet(t) : answer[e] \in {"sent", "failed"}
    <3>1. ToSet(t) \subseteq Entry
      BY DEF ToSet
    <3> QED BY <3>1 DEF TypeOK, AckedIsWritten
  <2>5. GoneOf(w)' \in GoneOf(w) .. Len(LogOf(w)')
    <3>1. FileStateOK(w) /\ FileStateOK(w')
      BY DEF TypeOK, Advances
    <3>2. /\ GoneOf(w) \in 0 .. Len(LogOf(w)) /\ LogOf(w) \in Seq(Entry)
          /\ GoneOf(w') \in 0 .. Len(LogOf(w')) /\ LogOf(w') \in Seq(Entry)
      BY <3>1, LogFacts
    <3>3. GoneOf(w) <= GoneOf(w')
      BY DEF Advances
    <3> QED BY <3>2, <3>3
  <2>6. Log!IsPrefix(l, k) /\ Log!IsInjective(k) /\ Log!ToSet(t) = ToSet(t)
    BY <1>6, <2>1, <2>3
       DEF Log!IsPrefix, IsPrefix, Log!IsInjective, IsInjective, Log!ToSet, ToSet
  <2>7. FlattenSeq(Datas(w.segs)) = l /\ FlattenSeq(Datas(w.segs))' = k
    BY <1>4, <2>2 DEF LogOf
  <2>8. Log!Added = t
    BY <2>3, <2>7 DEF Log!Added
  <2> QED BY <1>2, <2>2, <2>4, <2>5, <2>6, <2>7, <2>8 DEF Log!ExtendOrRetire, GoneOf
<1> QED BY <1>1, <1>3, <1>7, <1>8

(* flushBatch writes the front of the queue, or a beginning of it when the *)
(* disk fails.                                                             *)
LEMMA FlushKeepsOnce ==
  ASSUME TypeOK, AckedIsWritten, OnceInv, Flush
  PROVE  OnceInv' /\ Log!ExtendOrRetire
<1>1. /\ FileStateOK(w) /\ batch \in Seq(Entry) /\ writeChan \in Seq(Entry)
      /\ force \in BOOLEAN
  BY DEF TypeOK
<1>2. /\ loop \notin {"answer", "lastAnswer"} /\ loop' \in {"answer", "lastAnswer"}
      /\ UNCHANGED <<writeChan, reply>> /\ UNCHANGED callVars
  BY DEF Flush
<1>3. Waiting = batch \o writeChan /\ Waiting' = writeChan
  BY <1>2 DEF Waiting
<1>4. PICK b : b = batch
  OBVIOUS
<1>5. PICK r : r = writeChan
  OBVIOUS
<1>6. /\ b \in Seq(Entry) /\ r \in Seq(Entry) /\ IsInjective(b) /\ IsInjective(r)
      /\ ToSet(b) \cap ToSet(r) = {} /\ ToSet(b \o r) = ToSet(b) \cup ToSet(r)
  <2>1. b \in Seq(Entry) /\ r \in Seq(Entry) /\ IsInjective(b \o r)
    BY <1>1, <1>3, <1>4, <1>5 DEF OnceInv, WaitingOnce
  <2> QED BY <2>1, SplitJoin, ToSetJoin
<1>7. \A e \in ToSet(b) \cup ToSet(r) :
        e[1] \in Streaming /\ answer[e] # "new" /\ e \notin Written
  BY <1>3, <1>4, <1>5, <1>6 DEF OnceInv, WaitingOnce
<1>8. \E n \in 0 .. Len(b) : Advances(w, w', SubSeq(b, 1, n))
  <2>1. CASE w' \in Flushed(w, batch, force)
    <3>1. Advances(w, w', b)
      BY <1>1, <1>4, <2>1, FlushedAdvances
    <3>2. SubSeq(b, 1, Len(b)) = b /\ Len(b) \in 0 .. Len(b)
      BY <1>6
    <3> QED BY <3>1, <3>2
  <2>2. CASE w' \in WriteFails(w, batch)
    BY <1>1, <1>4, <2>2, WriteFailsAdvances
  <2> QED BY <2>1, <2>2 DEF Flush
<1>9. PICK n \in 0 .. Len(b) : Advances(w, w', SubSeq(b, 1, n))
  BY <1>8
<1>10. PICK t : t = SubSeq(b, 1, n)
  OBVIOUS
<1>11. t \in Seq(Entry) /\ ToSet(t) \subseteq ToSet(b) /\ IsInjective(t)
  BY <1>6, <1>10, Beginning
<1>12. /\ OwnCalls' /\ Unmade' /\ WrittenOnce' /\ Written' = Written \cup ToSet(t)
       /\ Log!ExtendOrRetire
  <2>1. \A e \in ToSet(t) : answer[e] # "new" /\ e \notin Written
    BY <1>7, <1>11
  <2> QED BY <1>2, <1>9, <1>10, <1>11, <2>1, WritesExtend
<1>13. WaitingOnce'
  <2>1. \A e \in ToSet(r) : e \notin Written'
    BY <1>6, <1>7, <1>11, <1>12
  <2>2. answer' = answer
    BY <1>2 DEF callVars
  <2> QED BY <1>3, <1>5, <1>6, <1>7, <2>1, <2>2 DEF WaitingOnce
<1>14. DirectOnce'
  <2> SUFFICES ASSUME NEW c \in Direct, Unanswered(c)'
               PROVE  ToSet(call'[c]) \cap Written' = {}
    BY DEF DirectOnce
  <2>1. call' = call /\ reply' = reply /\ c \in Client
    BY <1>2 DEF callVars, Client
  <2>2. Unanswered(c)
    BY <2>1 DEF Unanswered
  <2>3. ToSet(call[c]) \cap Written = {}
    BY <2>2 DEF OnceInv, DirectOnce
  <2>4. \A e \in ToSet(call[c]) : e[1] = c
    BY <2>1 DEF OnceInv, OwnCalls
  <2>5. \A e \in ToSet(t) : e[1] \in Streaming
    BY <1>7, <1>11
  <2>6. c \notin Streaming
    BY ConstantsAssumption
  <2> QED BY <1>12, <2>1, <2>3, <2>4, <2>5, <2>6
<1> QED BY <1>12, <1>13, <1>14 DEF OnceInv

(* A call that writes by itself does so once: with it comes the answer.    *)
LEMMA WriteDirectKeepsOnce ==
  ASSUME TypeOK, AckedIsWritten, OnceInv, NEW c \in Direct, WriteDirect(c)
  PROVE  OnceInv' /\ Log!ExtendOrRetire
<1>1. PICK s : s = call[c]
  OBVIOUS
<1>2. /\ FileStateOK(w) /\ s \in Seq(Entry) /\ c \in Client /\ IsInjective(s)
      /\ s # <<>> /\ ToSet(s) \cap Written = {}
      /\ \A e \in ToSet(s) : e \in Entry /\ e[1] = c /\ answer[e] = "sent"
  <2>1. c \in Client /\ Unanswered(c) /\ call \in [Client -> Seq(Entry)]
    BY DEF Client, WriteDirect, TypeOK
  <2>2. s \in Seq(Entry) /\ ToSet(s) \subseteq Entry
    BY <1>1, <2>1 DEF ToSet
  <2>3. s # <<>> /\ ToSet(s) \cap Written = {}
    BY <1>1, <2>1 DEF Unanswered, OnceInv, DirectOnce
  <2> QED BY <1>1, <2>1, <2>2, <2>3 DEF TypeOK, OnceInv, OwnCalls
<1>3. UNCHANGED loopVars /\ UNCHANGED callVars
  BY DEF WriteDirect
<1>4. PICK v \in {"ok", "err"} : Answer(ToSet(s), v)
  BY <1>1 DEF WriteDirect, Verdict
<1>5. \E n \in 0 .. Len(s) : Advances(w, w', SubSeq(s, 1, n))
  <2>1. CASE w' \in Flushed(w, call[c], w.policy = "always")
    <3>1. PICK sync \in BOOLEAN : sync = (w.policy = "always")
      OBVIOUS
    <3>2. w' \in Flushed(w, s, sync)
      BY <1>1, <2>1, <3>1
    <3>3. Advances(w, w', s)
      BY <1>2, <3>2, FlushedAdvances
    <3>4. SubSeq(s, 1, Len(s)) = s /\ Len(s) \in 0 .. Len(s)
      BY <1>2
    <3> QED BY <3>3, <3>4
  <2>2. CASE w' \in WriteFails(w, call[c])
    BY <1>1, <1>2, <2>2, WriteFailsAdvances
  <2> QED BY <2>1, <2>2 DEF WriteDirect
<1>6. PICK n \in 0 .. Len(s) : Advances(w, w', SubSeq(s, 1, n))
  BY <1>5
<1>7. PICK t : t = SubSeq(s, 1, n)
  OBVIOUS
<1>8. t \in Seq(Entry) /\ ToSet(t) \subseteq ToSet(s) /\ IsInjective(t)
  BY <1>2, <1>7, Beginning
<1>9. /\ OwnCalls' /\ Unmade' /\ WrittenOnce' /\ Written' = Written \cup ToSet(t)
      /\ Log!ExtendOrRetire
  <2>1. \A e \in ToSet(t) : answer[e] # "new" /\ e \notin Written
    BY <1>2, <1>8
  <2> QED BY <1>3, <1>6, <1>7, <1>8, <2>1, WritesExtend
<1>10. WaitingOnce'
  <2>1. Waiting' = Waiting /\ answer' = answer
    BY <1>3 DEF Waiting, loopVars, callVars
  <2>2. \A e \in ToSet(t) : e[1] \notin Streaming
    BY <1>2, <1>8, ConstantsAssumption
  <2> QED BY <1>9, <2>1, <2>2 DEF OnceInv, WaitingOnce
<1>11. DirectOnce'
  <2> SUFFICES ASSUME NEW d \in Direct, Unanswered(d)'
               PROVE  ToSet(call'[d]) \cap Written' = {}
    BY DEF DirectOnce
  <2>1. call' = call /\ d \in Client
    BY <1>3 DEF callVars, Client
  <2>2. d # c
    <3>1. ASSUME d = c PROVE FALSE
      <4>1. 1 \in DOMAIN s
        BY <1>2
      <4>2. s[1] \in ToSet(s)
        BY <4>1 DEF ToSet
      <4>3. reply'[s[1]] = v
        BY <1>2, <1>4, <4>2 DEF Answer
      <4>4. reply'[s[1]] = "none"
        BY <1>1, <2>1, <3>1, <4>2 DEF Unanswered
      <4> QED BY <4>3, <4>4
    <3> QED BY <3>1
  <2>3. ToSet(call[d]) \cap ToSet(s) = {}
    BY <1>1, <1>2, <2>1, <2>2, CallsApart
  <2>4. \A e \in ToSet(call[d]) : reply'[e] = reply[e]
    <3>1. ToSet(call[d]) \subseteq Entry
      BY <2>1 DEF TypeOK, ToSet
    <3> QED BY <1>4, <2>3, <3>1 DEF Answer
  <2>5. Unanswered(d)
    BY <2>1, <2>4 DEF Unanswered
  <2> QED BY <1>8, <1>9, <2>1, <2>3, <2>5 DEF OnceInv, DirectOnce
<1> QED BY <1>9, <1>10, <1>11 DEF OnceInv

LEMMA TakeReplyKeepsOnce ==
  ASSUME TypeOK, OnceInv, NEW c \in Client, TakeReply(c) PROVE OnceInv'
<1>1. PICK verdict \in {"ok", "err"} :
        Return(c, IF verdict = "ok" THEN "ok" ELSE "failed")
  BY DEF TakeReply
<1>2. PICK status \in {"ok", "failed"} :
        status = IF verdict = "ok" THEN "ok" ELSE "failed"
  OBVIOUS
<1>3. Return(c, status)
  BY <1>1, <1>2
<1> QED BY <1>3, ReturnKeepsOnce

LEMMA NextOnce == IInv /\ OnceInv /\ [Next]_vars => OnceInv'
<1> SUFFICES ASSUME IInv, OnceInv, [Next]_vars PROVE OnceInv'
  OBVIOUS
<1>1. TypeOK /\ AckedIsWritten
  BY DEF IInv
<1>2. CASE CallStep
  <2>1. ASSUME NEW c \in Streaming, Send(c) \/ RefuseSend(c) \/ GiveUp(c)
        PROVE  OnceInv'
    <3>1. c \in Client
      BY DEF Client
    <3>2. CASE GiveUp(c)
      <4>1. Return(c, "failed")
        BY <3>2 DEF GiveUp
      <4> QED BY <1>1, <3>1, <4>1, ReturnKeepsOnce
    <3> QED BY <1>1, <2>1, <3>2, SendKeepsOnce, RefuseSendKeepsOnce
  <2>2. ASSUME NEW c \in Direct,
               WriteDirect(c) \/ \E n \in 1 .. 2 : CallDirect(c, n)
        PROVE  OnceInv'
    BY <1>1, <2>2, WriteDirectKeepsOnce, CallDirectKeepsOnce
  <2>3. ASSUME NEW c \in Client, TakeReply(c) PROVE OnceInv'
    BY <1>1, <2>3, TakeReplyKeepsOnce
  <2> QED BY <1>2, <2>1, <2>2, <2>3 DEF CallStep
<1>3. CASE LoopStep
  BY <1>1, <1>3, FlushKeepsOnce, QuietStepsKeepOnce DEF LoopStep
<1>4. CASE AdminStep
  BY <1>1, <1>4, QuietStepsKeepOnce DEF AdminStep
<1>5. CASE UNCHANGED vars
  BY <1>5 DEF vars, OnceInv, OwnCalls, Unmade, WaitingOnce, Waiting, DirectOnce,
              Unanswered, WrittenOnce, Written
<1> QED BY <1>2, <1>3, <1>4, <1>5 DEF Next

-----------------------------------------------------------------------------
LEMMA EmptyLog ==
  ASSUME Init
  PROVE  LogOf(w) = <<>> /\ GoneOf(w) = 0
<1>1. w.segs = <<EmptySegment>> /\ w.first = 1
  BY DEF Init
<1>2. PICK x : x = <<>>
  OBVIOUS
<1>3. PICK none : none = <<>>
  OBVIOUS
<1>4. x \in Seq(Entry) /\ none \in Seq(Seq(Entry))
  BY <1>2, <1>3
<1>5. Datas(w.segs) = Append(none, x)
  <2>1. DOMAIN <<EmptySegment>> = 1 .. 1 /\ <<EmptySegment>>[1] = EmptySegment
    OBVIOUS
  <2>2. \A i \in 1 .. 1 : <<EmptySegment>>[i].data = x
    BY <1>2, <2>1 DEF EmptySegment
  <2>3. Datas(w.segs) = [i \in 1 .. 1 |-> x]
    BY <1>1, <2>1, <2>2 DEF Datas
  <2>4. Append(none, x) = [i \in 1 .. 1 |-> x]
    BY <1>3
  <2> QED BY <2>3, <2>4
<1>6. FlattenSeq(Append(none, x)) = FlattenSeq(none) \o x /\ FlattenSeq(none) = <<>>
  BY <1>3, <1>4, FlattenAppend, FlattenType
<1>7. LogOf(w) = <<>>
  <2>1. <<>> \o <<>> = <<>>
    OBVIOUS
  <2> QED BY <1>2, <1>5, <1>6, <2>1 DEF LogOf
<1>8. GoneOf(w) = 0
  <2>1. SubSeq(w.segs, 1, w.first - 1) = <<>>
    BY <1>1
  <2>2. Datas(<<>>) = <<>>
    BY DEF Datas
  <2>3. FlattenSeq(<<>>) = <<>> /\ Len(<<>>) = 0
    BY <1>4, FlattenType
  <2> QED BY <2>1, <2>2, <2>3 DEF GoneOf
<1> QED BY <1>7, <1>8

LEMMA InitOnce == Init => OnceInv
<1> SUFFICES ASSUME Init PROVE OnceInv
  OBVIOUS
<1>1. TypeOK
  BY InitIInv DEF IInv
<1>2. ToSet(<<>>) = {} /\ IsInjective(<<>>)
  BY DEF ToSet, IsInjective
<1>3. LogOf(w) = <<>> /\ Written = {}
  <2>1. FileStateOK(w)
    BY <1>1 DEF TypeOK
  <2>2. LogOf(w) = <<>>
    BY EmptyLog
  <2> QED BY <1>2, <2>1, <2>2, LogFacts DEF Written
<1>4. WrittenOnce
  BY <1>2, <1>3 DEF WrittenOnce
<1>5. \A c \in Client : call[c] = <<>>
  BY DEF Init
<1>6. OwnCalls
  BY <1>2, <1>5 DEF OwnCalls
<1>7. DirectOnce
  BY <1>3 DEF DirectOnce
<1>8. Unmade
  BY DEF Init, Unmade
<1>9. WaitingOnce
  <2>1. <<>> \o <<>> = <<>>
    OBVIOUS
  <2>2. Waiting = <<>>
    BY <2>1 DEF Init, Waiting
  <2> QED BY <1>2, <2>2 DEF WaitingOnce
<1> QED BY <1>4, <1>6, <1>7, <1>8, <1>9 DEF OnceInv

LEMMA InitRefines == Init => Log!Init
<1> SUFFICES ASSUME Init PROVE Log!Init
  OBVIOUS
<1>1. /\ FlattenSeq(Datas(w.segs)) = <<>>
      /\ Len(FlattenSeq(Datas(SubSeq(w.segs, 1, w.first - 1)))) = 0
  BY EmptyLog DEF LogOf, GoneOf
<1> QED BY <1>1 DEF Init, Log!Init

(* A step that tells some callers something, and leaves the files alone.   *)
LEMMA TellRefines ==
  ASSUME NEW E \in SUBSET Entry, NEW status, NEW from, status \notin from,
         Tell(E, status), \A e \in E : answer[e] \in from, UNCHANGED w
  PROVE  Log!Changed(status) = E /\ Log!Answer(E, from, status)
<1>1. \A e \in Entry : answer'[e] = IF e \in E THEN status ELSE answer[e]
  BY DEF Tell
<1>2. Log!Changed(status) = E
  BY <1>1 DEF Log!Changed
<1>3. Log!Answer(E, from, status)
  BY DEF Tell, Log!Answer
<1> QED BY <1>2, <1>3

LEMMA BeginRefines ==
  ASSUME TypeOK, OnceInv, NEW c \in Client, NEW n \in Nat \ {0}, Begin(c, n),
         NEW E, E = {<<c, made[c] + i>> : i \in 1 .. n},
         NEW status \in {"sent", "failed"}, Tell(E, status)
  PROVE  Log!Next
<1>1. E \in SUBSET Entry /\ \A e \in E : answer[e] = "new"
  BY BeginsNew
<1>2. UNCHANGED w
  BY DEF Begin
<1>3. CASE status = "sent"
  <2>1. Log!Changed("sent") = E /\ Log!Answer(E, {"new"}, "sent")
    BY <1>1, <1>2, <1>3, TellRefines
  <2> QED BY <2>1 DEF Log!Next, Log!Submit
<1>4. CASE status = "failed"
  <2>1. Log!Changed("failed") = E /\ Log!Answer(E, {"new", "sent"}, "failed")
    BY <1>1, <1>2, <1>4, TellRefines
  <2> QED BY <2>1 DEF Log!Next, Log!Fail
<1> QED BY <1>3, <1>4

LEMMA ReturnRefines ==
  ASSUME TypeOK, OnceInv, Delivered, NEW c \in Client,
         NEW status \in {"ok", "failed"}, Return(c, status),
         status = "ok" => \A e \in ToSet(call[c]) : reply[e] = "ok"
  PROVE  Log!Next
<1>1. PICK E : E = ToSet(call[c])
  OBVIOUS
<1>2. E \in SUBSET Entry /\ \A e \in E : answer[e] = "sent"
  <2>1. call[c] \in Seq(Entry)
    BY DEF TypeOK
  <2> QED BY <1>1, <2>1 DEF ToSet, OnceInv, OwnCalls
<1>3. Tell(E, status) /\ UNCHANGED w
  BY <1>1 DEF Return
<1>4. CASE status = "ok"
  <2>1. Log!Changed("ok") = E /\ Log!Answer(E, {"sent"}, "ok")
    BY <1>2, <1>3, <1>4, TellRefines
  <2>2. E \subseteq Written
    BY <1>1, <1>2, <1>4 DEF Delivered
  <2>3. E \subseteq Log!ToSet(FlattenSeq(Datas(w.segs)))
    <3>1. FileStateOK(w)
      BY DEF TypeOK
    <3>2. ToSet(LogOf(w)) = Written
      BY <3>1, LogFacts DEF Written
    <3> QED BY <2>2, <3>2 DEF LogOf, ToSet, Log!ToSet
  <2> QED BY <2>1, <2>3 DEF Log!Next, Log!Acknowledge
<1>5. CASE status = "failed"
  <2>1. Log!Changed("failed") = E /\ Log!Answer(E, {"new", "sent"}, "failed")
    BY <1>2, <1>3, <1>5, TellRefines
  <2> QED BY <2>1 DEF Log!Next, Log!Fail
<1> QED BY <1>4, <1>5

LEMMA QuietRefines ==
  ASSUME TypeOK, AckedIsWritten, OnceInv, Advances(w, w', <<>>), UNCHANGED callVars
  PROVE  Log!Next
<1>1. PICK t : t = <<>>
  OBVIOUS
<1>2. t \in Seq(Entry) /\ Advances(w, w', t) /\ ToSet(t) = {} /\ IsInjective(t)
  BY <1>1 DEF ToSet, IsInjective
<1>3. Log!ExtendOrRetire
  BY <1>2, WritesExtend
<1> QED BY <1>3 DEF Log!Next

LEMMA CallRefines ==
  ASSUME IInv, OnceInv, CallStep PROVE Log!Next
<1>1. TypeOK /\ AckedIsWritten /\ Delivered
  BY DEF IInv
<1>2. \A c \in Client : made[c] \in Nat
  BY <1>1 DEF TypeOK
<1>3. ASSUME NEW c \in Streaming, Send(c) \/ RefuseSend(c) \/ GiveUp(c)
      PROVE  Log!Next
  <2>1. c \in Client
    BY DEF Client
  <2>2. PICK E : E = {<<c, made[c] + i>> : i \in 1 .. 1}
    OBVIOUS
  <2>3. E = {<<c, made[c] + 1>>}
    BY <1>2, <2>1, <2>2, OneEntry
  <2>4. 1 \in Nat \ {0}
    OBVIOUS
  <2>5. CASE Send(c)
    <3>1. Begin(c, 1) /\ Tell(E, "sent")
      BY <2>3, <2>5 DEF Send
    <3> QED BY <1>1, <2>1, <2>2, <2>4, <3>1, BeginRefines
  <2>6. CASE RefuseSend(c)
    <3>1. Begin(c, 1) /\ Tell(E, "failed")
      BY <2>3, <2>6 DEF RefuseSend
    <3> QED BY <1>1, <2>1, <2>2, <2>4, <3>1, BeginRefines
  <2>7. CASE GiveUp(c)
    <3>1. Return(c, "failed")
      BY <2>7 DEF GiveUp
    <3> QED BY <1>1, <2>1, <3>1, ReturnRefines
  <2> QED BY <1>3, <2>5, <2>6, <2>7
<1>4. ASSUME NEW c \in Direct, NEW n \in 1 .. 2, CallDirect(c, n) PROVE Log!Next
  <2>1. c \in Client /\ n \in Nat \ {0}
    BY DEF Client
  <2>2. PICK s : s = [i \in 1 .. n |-> <<c, made[c] + i>>]
    OBVIOUS
  <2>3. PICK E : E = {<<c, made[c] + i>> : i \in 1 .. n}
    OBVIOUS
  <2>4. ToSet(s) = E
    BY <2>2, <2>3 DEF ToSet
  <2>5. Begin(c, n) /\ Tell(E, "sent")
    BY <1>4, <2>2, <2>4 DEF CallDirect
  <2> QED BY <1>1, <2>1, <2>3, <2>5, BeginRefines
<1>5. ASSUME NEW c \in Direct, WriteDirect(c) PROVE Log!Next
  BY <1>1, <1>5, WriteDirectKeepsOnce DEF Log!Next
<1>6. ASSUME NEW c \in Client, TakeReply(c) PROVE Log!Next
  <2>1. PICK verdict \in {"ok", "err"} :
          /\ \A e \in ToSet(call[c]) : reply[e] = verdict
          /\ Return(c, IF verdict = "ok" THEN "ok" ELSE "failed")
    BY <1>6 DEF TakeReply
  <2>2. PICK status \in {"ok", "failed"} :
          status = IF verdict = "ok" THEN "ok" ELSE "failed"
    OBVIOUS
  <2>3. Return(c, status) /\ (status = "ok" => verdict = "ok")
    BY <2>1, <2>2
  <2> QED BY <1>1, <2>1, <2>3, ReturnRefines
<1> QED BY <1>3, <1>4, <1>5, <1>6 DEF CallStep

LEMMA NextRefines == IInv /\ OnceInv /\ [Next]_vars => [Log!Next]_Log!vars
<1> SUFFICES ASSUME IInv, OnceInv, [Next]_vars PROVE [Log!Next]_Log!vars
  OBVIOUS
<1>1. TypeOK /\ AckedIsWritten
  BY DEF IInv
<1>2. CASE CallStep
  BY <1>2, CallRefines
<1>3. CASE Flush
  BY <1>1, <1>3, FlushKeepsOnce DEF Log!Next
<1>4. CASE LoopStep /\ ~Flush
  BY <1>1, <1>4, QuietStepsKeepOnce, QuietRefines DEF LoopStep
<1>5. CASE AdminStep
  BY <1>1, <1>5, QuietStepsKeepOnce, QuietRefines DEF AdminStep
<1>6. CASE UNCHANGED vars
  BY <1>6 DEF vars, Log!vars
<1> QED BY <1>2, <1>3, <1>4, <1>5, <1>6 DEF Next

(* The write-ahead log implements the log its callers are promised: an     *)
(* entry enters it once, at its end, and only after it was handed over; an *)
(* "ok" is given for an entry in it; only the oldest entries are deleted   *)
(* (writeLoop, WriteBatch, rotate, RotateAndPruneFresh).                   *)
THEOREM LogImplemented == Spec => ImplementsDurableLog
<1> QED BY InitIInv, NextIInv, InitOnce, NextOnce, InitRefines, NextRefines, PTL
        DEF Spec, ImplementsDurableLog, Log!Spec
=============================================================================
