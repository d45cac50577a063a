---------------------------- MODULE ServicesProofs ----------------------------
(***************************************************************************)
(* Proofs about the turbo scheduler with its pool (Jobs) and about the     *)
(* change bus (Watch), for any number of tasks, keys, priorities, workers, *)
(* publishers and watchers.                                                *)
(***************************************************************************)
EXTENDS Jobs, Watch, SequenceTheorems, FiniteSetTheorems, WellFoundedInduction, TLAPS

(* The greatest and the least of a finite set of integers, and a sequence  *)
(* without one of its elements.                                            *)
LEMMA MaxExists ==
  ASSUME NEW S \in SUBSET Int, IsFiniteSet(S), S # {}
  PROVE  \E x \in S : \A y \in S : x >= y
  <1> DEFINE Without == {U \in SUBSET S : U # {} /\ ~ \E x \in U : \A y \in U : x >= y}
  <1>1. SUFFICES ASSUME Without # {} PROVE FALSE
    OBVIOUS
  <1>2. PICK U \in Without : \A V \in Without : <<V, U>> \notin StrictSubsetOrdering(S)
    <2>1. IsWellFoundedOn(StrictSubsetOrdering(S), SUBSET S)
      BY FS_StrictSubsetOrderingWellFounded, FS_FiniteSubsetsOfFinite
    <2>2. Without \subseteq SUBSET S
      OBVIOUS
    <2> HIDE DEF Without
    <2>3. PICK U \in Without : \A V \in Without : ~ (<<V, U>> \in StrictSubsetOrdering(S))
      BY <1>1, <2>1, <2>2, WFMin
    <2> QED
      BY <2>3
  <1>3. PICK x \in U : TRUE
    OBVIOUS
  <1> DEFINE V == {y \in U : y > x}
  <1>4. V # {}
    OBVIOUS
  <1>5. V \notin Without
    <2>1. x \in Int /\ x \notin V /\ V \subseteq U /\ U \in SUBSET S
      OBVIOUS
    <2>2. <<V, U>> \in StrictSubsetOrdering(S)
      BY <2>1 DEF StrictSubsetOrdering
    <2> QED
      BY <1>2, <2>2
  <1>6. PICK z \in V : \A y \in V : z >= y
    BY <1>4, <1>5
  <1>7. \A y \in U : z >= y
    BY <1>6
  <1> QED
    BY <1>2, <1>6, <1>7

LEMMA MinExists ==
  ASSUME NEW S \in SUBSET Int, IsFiniteSet(S), S # {}
  PROVE  \E x \in S : \A y \in S : x =< y
  <1> DEFINE Without == {U \in SUBSET S : U # {} /\ ~ \E x \in U : \A y \in U : x =< y}
  <1>1. SUFFICES ASSUME Without # {} PROVE FALSE
    OBVIOUS
  <1>2. PICK U \in Without : \A V \in Without : <<V, U>> \notin StrictSubsetOrdering(S)
    <2>1. IsWellFoundedOn(StrictSubsetOrdering(S), SUBSET S)
      BY FS_StrictSubsetOrderingWellFounded, FS_FiniteSubsetsOfFinite
    <2>2. Without \subseteq SUBSET S
      OBVIOUS
    <2> HIDE DEF Without
    <2>3. PICK U \in Without : \A V \in Without : ~ (<<V, U>> \in StrictSubsetOrdering(S))
      BY <1>1, <2>1, <2>2, WFMin
    <2> QED
      BY <2>3
  <1>3. PICK x \in U : TRUE
    OBVIOUS
  <1> DEFINE V == {y \in U : y < x}
  <1>4. V # {}
    OBVIOUS
  <1>5. V \notin Without
    <2>1. x \in Int /\ x \notin V /\ V \subseteq U /\ U \in SUBSET S
      OBVIOUS
    <2>2. <<V, U>> \in StrictSubsetOrdering(S)
      BY <2>1 DEF StrictSubsetOrdering
    <2> QED
      BY <1>2, <2>2
  <1>6. PICK z \in V : \A y \in V : z =< y
    BY <1>4, <1>5
  <1>7. \A y \in U : z =< y
    BY <1>6
  <1> QED
    BY <1>2, <1>6, <1>7

(* So Max and Min are what they are meant to be.                           *)
LEMMA MaxIs ==
  ASSUME NEW S \in SUBSET Int, IsFiniteSet(S), S # {}
  PROVE  Max(S) \in S
  BY MaxExists DEF Max

LEMMA MinIs ==
  ASSUME NEW S \in SUBSET Int, IsFiniteSet(S), S # {}
  PROVE  Min(S) \in S /\ \A y \in S : Min(S) =< y
  BY MinExists DEF Min

(* popNext cuts a task out of its queue.                                   *)
LEMMA RemoveAtIs ==
  ASSUME NEW E, NEW s \in Seq(E), NEW i \in DOMAIN s
  PROVE  /\ RemoveAt(s, i) \in Seq(E)
         /\ Len(RemoveAt(s, i)) = Len(s) - 1
         /\ \A j \in 1 .. Len(s) - 1 : RemoveAt(s, i)[j] = IF j < i THEN s[j] ELSE s[j + 1]
  <1>1. DOMAIN s = 1 .. Len(s) /\ Len(s) \in Nat /\ i \in 1 .. Len(s)
    BY LenProperties
  <1> DEFINE a == SubSeq(s, 1, i - 1)
             b == SubSeq(s, i + 1, Len(s))
  <1>2. /\ a \in Seq(E) /\ Len(a) = i - 1
        /\ \A j \in 1 .. i - 1 : a[j] = s[j]
    BY <1>1, SubSeqProperties
  <1>3. /\ b \in Seq(E) /\ Len(b) = Len(s) - i
        /\ \A j \in 1 .. Len(s) - i : b[j] = s[i + j]
    BY <1>1, SubSeqProperties
  <1>4. RemoveAt(s, i) = a \o b
    BY DEF RemoveAt
  <1> HIDE DEF a, b
  <1>5. /\ a \o b \in Seq(E) /\ Len(a \o b) = Len(s) - 1
        /\ \A j \in 1 .. Len(s) - 1 :
             (a \o b)[j] = IF j <= i - 1 THEN a[j] ELSE b[j - (i - 1)]
    <2>1. /\ a \o b \in Seq(E) /\ Len(a \o b) = Len(a) + Len(b)
          /\ \A j \in 1 .. Len(a) + Len(b) :
               (a \o b)[j] = IF j <= Len(a) THEN a[j] ELSE b[j - Len(a)]
      BY <1>2, <1>3, ConcatProperties
    <2>2. Len(a) + Len(b) = Len(s) - 1
      BY <1>1, <1>2, <1>3
    <2> QED
      BY <1>2, <2>1, <2>2
  <1>6. ASSUME NEW j \in 1 .. Len(s) - 1
        PROVE  (a \o b)[j] = IF j < i THEN s[j] ELSE s[j + 1]
    <2>1. CASE j < i
      BY <1>1, <1>2, <1>5, <2>1
    <2>2. CASE ~(j < i)
      <3>1. j - (i - 1) \in 1 .. Len(s) - i /\ i + (j - (i - 1)) = j + 1
        BY <1>1, <2>2
      <3> QED
        BY <1>1, <1>3, <1>5, <2>2, <3>1
    <2> QED
      BY <2>1, <2>2
  <1> QED
    BY <1>4, <1>5, <1>6

-----------------------------------------------------------------------------
(* The scheduler and its pool.                                             *)

Task == [task : Nat, key : Keys \cup {NoKey}, priority : Priorities]

JobsTypeOK ==
  /\ queues \in [Priorities -> Seq(Task)]
  /\ keyBusy \subseteq Keys
  /\ dispatcher \in {<<"wait">>, <<"drain">>, <<"stopped">>} \cup ({"send"} \X Task)
  /\ jobs \in Seq(Task)
  /\ worker \in [Workers -> {<<"idle">>, <<"leaving">>, <<"none">>}
                              \cup ({"run", "ended"} \X Task)]
  /\ submitted \in Seq(Task) /\ started \in Seq(Task)

(* Numbered: a task's number is its place among the submitted ones.        *)
Numbered == \A i \in DOMAIN submitted : submitted[i].task = i

Running(w) == worker[w][1] = "run"
Differ(s, t) == s.key # t.key \/ s.key = NoKey

(* Of the tasks of one key at most one is between the queues and its end.  *)
OneHolder ==
  /\ \A i, j \in DOMAIN jobs : i # j => Differ(jobs[i], jobs[j])
  /\ \A v, w \in Workers :
       v # w /\ Running(v) /\ Running(w) => Differ(worker[v][2], worker[w][2])
  /\ \A i \in DOMAIN jobs, w \in Workers :
       Running(w) => Differ(jobs[i], worker[w][2])
  /\ Sending => /\ \A i \in DOMAIN jobs : Differ(dispatcher[2], jobs[i])
                /\ \A w \in Workers :
                     Running(w) => Differ(dispatcher[2], worker[w][2])

Marks(s) == s.key \in keyBusy \/ s.key = NoKey
HeldIsBusy ==
  /\ Sending => Marks(dispatcher[2])
  /\ \A i \in DOMAIN jobs : Marks(jobs[i])
  /\ \A w \in Workers : Running(w) => Marks(worker[w][2])

Held(key) == \/ Sending /\ dispatcher[2].key = key
             \/ \E i \in DOMAIN jobs : jobs[i].key = key
             \/ \E w \in Workers : Running(w) /\ worker[w][2].key = key

Sent(s) == \/ Sending /\ dispatcher[2] = s
           \/ \E i \in DOMAIN jobs : jobs[i] = s
Begun(s) == \E n \in DOMAIN started : started[n] = s
Queued(s) == \E i \in DOMAIN queues[s.priority] : queues[s.priority][i] = s
Submitted == {submitted[i] : i \in DOMAIN submitted}

(* A submitted task waits, is sent, was begun, or was dropped by a closed  *)
(* pool, and then its key stays busy with no one who could free it.        *)
Accounted ==
  \A s \in Submitted :
    \/ s.key = NoKey
    \/ Queued(s) \/ Sent(s) \/ Begun(s)
    \/ s.key \in keyBusy /\ ~Held(s.key)

Known ==
  /\ \A p \in Priorities : \A i \in DOMAIN queues[p] :
       queues[p][i] \in Submitted /\ queues[p][i].priority = p
  /\ Sending => dispatcher[2] \in Submitted
  /\ \A i \in DOMAIN jobs : jobs[i] \in Submitted
  /\ \A n \in DOMAIN started : started[n] \in Submitted

QueuesInOrder ==
  \A p \in Priorities : \A i, j \in DOMAIN queues[p] :
    i < j => queues[p][i].task < queues[p][j].task

Before(s, t) ==
  s.key = t.key /\ s.key # NoKey /\ s.priority = t.priority /\ s.task < t.task

(* Who is sent has no earlier one of its key and priority to wait for, and *)
(* was begun after it.                                                     *)
SentInTurn ==
  \A s \in Submitted :
    /\ Sending /\ Before(s, dispatcher[2]) => Begun(s)
    /\ \A i \in DOMAIN jobs : Before(s, jobs[i]) => Begun(s)
StartedInTurn ==
  \A n \in DOMAIN started, s \in Submitted :
    Before(s, started[n]) => \E m \in 1 .. n - 1 : started[m] = s

JobsInv ==
  /\ JobsTypeOK /\ Numbered /\ Known /\ QueuesInOrder
  /\ OneHolder /\ HeldIsBusy /\ Accounted
  /\ SentInTurn /\ StartedInTurn

-----------------------------------------------------------------------------

(* Nothing is submitted yet, and nothing is on its way.                    *)
LEMMA JobsInitInv == JobsInit => JobsInv
  <1> SUFFICES ASSUME JobsInit PROVE JobsInv
    OBVIOUS
  <1>1. JobsTypeOK
    BY DEF JobsInit, JobsTypeOK
  <1>2. ~Sending /\ \A w \in Workers : ~Running(w)
    BY DEF JobsInit, Sending, Running
  <1>3. /\ submitted = <<>> /\ jobs = <<>> /\ started = <<>>
        /\ \A p \in Priorities : queues[p] = <<>>
    BY DEF JobsInit
  <1> QED
    BY <1>1, <1>2, <1>3
    DEF JobsInv, Numbered, Known, QueuesInOrder, OneHolder, HeldIsBusy, Accounted,
        SentInTurn, StartedInTurn, Submitted

(* Steps that touch neither the queues nor the tasks on their way.         *)
Quiet ==
  /\ UNCHANGED <<queues, keyBusy, jobs, submitted, started>>
  /\ UNCHANGED dispatcher \/ (~Sending /\ ~Sending')
  /\ \A w \in Workers : worker'[w] = worker[w] \/ (~Running(w) /\ ~Running(w)')

(* Idle workers come and go, the monitor looks, the dispatcher wakes up.   *)
LEMMA QuietInv == ASSUME JobsInv, JobsTypeOK', Quiet PROVE JobsInv'
  <1>1. Sending' <=> Sending
    BY DEF Quiet, Sending
  <1>2. Sending => dispatcher' = dispatcher
    BY DEF Quiet
  <1>3. \A w \in Workers : (Running(w)' <=> Running(w))
                           /\ (Running(w) => worker'[w] = worker[w])
    BY DEF Quiet, Running
  <1>4. UNCHANGED <<queues, keyBusy, jobs, submitted, started>>
    BY DEF Quiet
  <1>5. Numbered' /\ Known' /\ QueuesInOrder'
    BY <1>1, <1>2, <1>4 DEF JobsInv, Numbered, Known, QueuesInOrder, Submitted
  <1>6. OneHolder' /\ HeldIsBusy'
    BY <1>1, <1>2, <1>3, <1>4 DEF JobsInv, OneHolder, HeldIsBusy, Differ, Marks
  <1>7. Accounted'
    <2>1. \A key : Held(key)' <=> Held(key)
      BY <1>1, <1>2, <1>3, <1>4 DEF Held
    <2>2. \A s : (Sent(s)' <=> Sent(s)) /\ (Begun(s)' <=> Begun(s)) /\ (Queued(s)' <=> Queued(s))
      BY <1>1, <1>2, <1>4 DEF Sent, Begun, Queued
    <2> QED
      BY <1>4, <2>1, <2>2 DEF JobsInv, Accounted, Submitted
  <1>8. SentInTurn' /\ StartedInTurn'
    BY <1>1, <1>2, <1>4
    DEF JobsInv, SentInTurn, StartedInTurn, Submitted, Before, Begun
  <1> QED
    BY <1>5, <1>6, <1>7, <1>8 DEF JobsInv

(* A new task is the last of its queue and comes before no other.          *)
LEMMA SubmitInv ==
  ASSUME JobsInv, NEW key \in Keys \cup {NoKey}, NEW p \in Priorities, Submit(key, p)
  PROVE  JobsInv'
  <1>0. PICK s : s = [task |-> Len(submitted) + 1, key |-> key, priority |-> p]
    OBVIOUS
  <1>1. /\ submitted' = Append(submitted, s)
        /\ queues' = [queues EXCEPT ![p] = Append(@, s)]
        /\ UNCHANGED <<keyBusy, dispatcher, jobs, worker, started>>
    BY <1>0 DEF Submit
  <1>2. JobsTypeOK /\ Numbered /\ Known /\ QueuesInOrder
    BY DEF JobsInv
  <1>3. Len(submitted) \in Nat /\ s \in Task
    BY <1>0, <1>2 DEF JobsTypeOK, Task
  <1>4. JobsTypeOK'
    BY <1>1, <1>2, <1>3 DEF JobsTypeOK, Sending
  <1>5. /\ DOMAIN submitted' = 1 .. Len(submitted) + 1
        /\ submitted'[Len(submitted) + 1] = s
        /\ \A i \in DOMAIN submitted : submitted'[i] = submitted[i]
        /\ DOMAIN submitted = 1 .. Len(submitted)
    BY <1>1, <1>2, <1>3 DEF JobsTypeOK
  <1>6. Submitted' = Submitted \cup {s} /\ Numbered'
    <2>1. s.task = Len(submitted) + 1
      BY <1>0
    <2> QED
      BY <1>2, <1>3, <1>5, <2>1 DEF Submitted, Numbered
  (* The new task is the last of its queue, and of all.                    *)
  <1>7. \A t \in Submitted : t \in Task /\ t.task < s.task
    <2>1. s.task = Len(submitted) + 1
      BY <1>0
    <2> QED
      BY <1>2, <1>3, <1>5, <2>1 DEF Submitted, Numbered, JobsTypeOK
  <1>8. ASSUME NEW r \in Priorities
        PROVE  /\ queues[r] \in Seq(Task) /\ DOMAIN queues[r] = 1 .. Len(queues[r])
               /\ \A i \in DOMAIN queues[r] : i \in DOMAIN queues'[r] /\ queues'[r][i] = queues[r][i]
               /\ \A i \in DOMAIN queues'[r] :
                    i \in DOMAIN queues[r]
                    \/ (r = p /\ i = Len(queues[r]) + 1 /\ queues'[r][i] = s)
    <2>1. queues[r] \in Seq(Task) /\ DOMAIN queues[r] = 1 .. Len(queues[r])
      BY <1>2 DEF JobsTypeOK
    <2>2. CASE r = p
      <3>1. queues'[r] = Append(queues[r], s)
        BY <1>1, <1>2, <2>2 DEF JobsTypeOK
      <3> QED
        BY <1>3, <2>1, <2>2, <3>1
    <2>3. CASE r # p
      BY <1>1, <1>2, <2>1, <2>3 DEF JobsTypeOK
    <2> QED
      BY <2>2, <2>3
  <1>9. Known'
    <2>1. s.priority = p
      BY <1>0
    <2> QED
      BY <1>1, <1>2, <1>6, <1>8, <2>1 DEF Known, Sending
  <1>10. QueuesInOrder'
    <2> SUFFICES ASSUME NEW r \in Priorities, NEW i \in DOMAIN queues'[r],
                        NEW j \in DOMAIN queues'[r], i < j
                 PROVE  queues'[r][i].task < queues'[r][j].task
      BY DEF QueuesInOrder
    <2>1. i \in DOMAIN queues[r]
      BY <1>8
    <2>2. CASE j \in DOMAIN queues[r]
      BY <1>2, <1>8, <2>1, <2>2 DEF QueuesInOrder
    <2>3. CASE j \notin DOMAIN queues[r]
      BY <1>2, <1>7, <1>8, <2>1, <2>3 DEF Known
    <2> QED
      BY <2>2, <2>3
  <1>11. OneHolder' /\ HeldIsBusy'
    BY <1>1 DEF JobsInv, OneHolder, HeldIsBusy, Differ, Marks, Running, Sending
  <1>12. Accounted'
    <2>1. \A k : Held(k)' <=> Held(k)
      BY <1>1 DEF Held, Running, Sending
    <2>2. \A t : (Sent(t)' <=> Sent(t)) /\ (Begun(t)' <=> Begun(t))
      BY <1>1 DEF Sent, Begun, Sending
    <2>3. \A t \in Submitted : Queued(t) => Queued(t)'
      BY <1>7, <1>8 DEF Queued, Task
    <2>4. Queued(s)'
      <3>1. s.priority = p
        BY <1>0
      <3>2. queues'[p] = Append(queues[p], s) /\ queues[p] \in Seq(Task)
        BY <1>1, <1>2 DEF JobsTypeOK
      <3>3. Len(queues[p]) + 1 \in DOMAIN queues'[p] /\ queues'[p][Len(queues[p]) + 1] = s
        BY <1>3, <3>2
      <3> QED
        BY <3>1, <3>3 DEF Queued
    <2> QED
      BY <1>1, <1>6, <2>1, <2>2, <2>3, <2>4 DEF JobsInv, Accounted
  (* And it comes before none.                                             *)
  <1>13. \A t \in Submitted : ~Before(s, t)
    BY <1>3, <1>7 DEF Before, Task
  <1>14. SentInTurn' /\ StartedInTurn'
    BY <1>1, <1>2, <1>6, <1>13
    DEF JobsInv, Known, SentInTurn, StartedInTurn, Before, Begun, Sending
  <1> QED
    BY <1>4, <1>6, <1>9, <1>10, <1>11, <1>12, <1>14 DEF JobsInv

-----------------------------------------------------------------------------

(* A task goes from the dispatcher's hand into the channel.                *)
LEMMA SendInv == ASSUME JobsInv, Send PROVE JobsInv'
  <1>0. PICK s : s = dispatcher[2]
    OBVIOUS
  <1>1. /\ Sending /\ ~Sending' /\ jobs' = Append(jobs, s)
        /\ dispatcher' = <<"drain">>
        /\ UNCHANGED <<queues, keyBusy, worker, submitted, started>>
    BY <1>0 DEF Send, Sending
  <1>2. JobsTypeOK /\ Known /\ SentInTurn /\ OneHolder /\ HeldIsBusy
    BY DEF JobsInv
  <1>3. s \in Task
    BY <1>0, <1>1, <1>2 DEF JobsTypeOK, Sending
  <1>4. /\ Len(jobs) \in Nat /\ DOMAIN jobs = 1 .. Len(jobs)
        /\ DOMAIN jobs' = 1 .. Len(jobs) + 1
        /\ jobs'[Len(jobs) + 1] = s
        /\ \A i \in DOMAIN jobs : jobs'[i] = jobs[i]
    BY <1>1, <1>2, <1>3 DEF JobsTypeOK
  <1>5. \A i \in DOMAIN jobs' : \/ (i \in DOMAIN jobs /\ jobs'[i] = jobs[i])
                               \/ (i = Len(jobs) + 1 /\ jobs'[i] = s)
    BY <1>4
  <1>6. JobsTypeOK'
    BY <1>1, <1>2, <1>3 DEF JobsTypeOK
  <1>7. Numbered' /\ QueuesInOrder' /\ Known'
    BY <1>0, <1>1, <1>2, <1>5 DEF JobsInv, Numbered, QueuesInOrder, Known, Submitted
  <1>8. /\ \A i \in DOMAIN jobs : Differ(s, jobs[i]) /\ Differ(jobs[i], s)
        /\ \A w \in Workers : Running(w) => Differ(s, worker[w][2])
        /\ Marks(s)
    BY <1>0, <1>1, <1>2 DEF OneHolder, HeldIsBusy, Differ
  <1>9. OneHolder' /\ HeldIsBusy'
    <2>1. \A w \in Workers : (Running(w)' <=> Running(w)) /\ worker'[w] = worker[w]
      BY <1>1 DEF Running
    <2> QED
      BY <1>1, <1>2, <1>5, <1>8, <2>1 DEF OneHolder, HeldIsBusy, Differ, Marks
  <1>10. Accounted'
    <2>1. \A k : Held(k)' => Held(k)
      BY <1>0, <1>1, <1>5 DEF Held, Running
    <2>2. \A t : (Sent(t) => Sent(t)') /\ (Begun(t)' <=> Begun(t)) /\ (Queued(t)' <=> Queued(t))
      BY <1>0, <1>1, <1>4 DEF Sent, Begun, Queued
    <2> QED
      BY <1>1, <2>1, <2>2 DEF JobsInv, Accounted, Submitted
  <1>11. SentInTurn' /\ StartedInTurn'
    BY <1>0, <1>1, <1>2, <1>5
    DEF JobsInv, SentInTurn, StartedInTurn, Submitted, Before, Begun
  <1> QED
    BY <1>6, <1>7, <1>9, <1>10, <1>11 DEF JobsInv

(* A closed pool drops the task: its key stays busy, and nobody has it.    *)
LEMMA SendDroppedInv == ASSUME JobsInv, SendDropped PROVE JobsInv'
  <1>0. PICK s : s = dispatcher[2]
    OBVIOUS
  <1>1. /\ Sending /\ ~Sending' /\ dispatcher' = <<"drain">>
        /\ UNCHANGED <<queues, keyBusy, jobs, worker, submitted, started>>
    BY DEF SendDropped, Sending
  <1>2. JobsTypeOK' /\ Numbered' /\ QueuesInOrder' /\ Known'
    BY <1>1 DEF JobsInv, JobsTypeOK, Numbered, QueuesInOrder, Known, Submitted
  <1>3. \A w \in Workers : (Running(w)' <=> Running(w)) /\ worker'[w] = worker[w]
    BY <1>1 DEF Running
  <1>4. OneHolder' /\ HeldIsBusy'
    BY <1>1, <1>3 DEF JobsInv, OneHolder, HeldIsBusy, Differ, Marks
  <1>5. Accounted'
    <2> SUFFICES ASSUME NEW t \in Submitted, t.key # NoKey
                 PROVE  (Queued(t) \/ Sent(t) \/ Begun(t) \/ (t.key \in keyBusy /\ ~Held(t.key)))'
      BY <1>1 DEF Accounted, Submitted
    <2>1. \A u : (Begun(u)' <=> Begun(u)) /\ (Queued(u)' <=> Queued(u))
                 /\ (Sent(u)' <=> \E i \in DOMAIN jobs : jobs[i] = u)
      BY <1>1 DEF Sent, Begun, Queued
    <2>2. \A k : Held(k)' => Held(k)
      BY <1>1, <1>3 DEF Held
    <2>3. CASE s = t
      <3>1. t.key \in keyBusy
        BY <1>0, <1>1, <2>3 DEF JobsInv, HeldIsBusy, Marks
      <3>2. ~Held(t.key)'
        BY <1>0, <1>1, <1>3, <2>3 DEF JobsInv, OneHolder, Differ, Held
      <3> QED
        BY <1>1, <3>1, <3>2
    <2>4. CASE s # t
      BY <1>0, <1>1, <2>1, <2>2, <2>4 DEF JobsInv, Accounted, Sent
    <2> QED
      BY <2>3, <2>4
  <1>6. SentInTurn' /\ StartedInTurn'
    BY <1>1 DEF JobsInv, SentInTurn, StartedInTurn, Submitted, Before, Begun
  <1> QED
    BY <1>2, <1>4, <1>5, <1>6 DEF JobsInv

(* A worker begins the task at the head of the channel, after all that     *)
(* come before it.                                                         *)
LEMMA TakeInv == ASSUME JobsInv, NEW w \in Workers, Take(w) PROVE JobsInv'
  <1>0. PICK s : s = Head(jobs)
    OBVIOUS
  <1>1. /\ jobs # <<>> /\ jobs' = Tail(jobs) /\ started' = Append(started, s)
        /\ worker' = [worker EXCEPT ![w] = <<"run", s>>] /\ worker[w] = <<"idle">>
        /\ UNCHANGED <<queues, keyBusy, dispatcher, submitted>>
    BY <1>0 DEF Take
  <1>2. JobsTypeOK /\ Known /\ SentInTurn /\ OneHolder /\ HeldIsBusy /\ StartedInTurn
    BY DEF JobsInv
  <1>3. /\ Len(jobs) \in Nat \ {0} /\ DOMAIN jobs = 1 .. Len(jobs) /\ s = jobs[1]
        /\ s \in Task
        /\ DOMAIN jobs' = 1 .. Len(jobs) - 1
        /\ \A i \in DOMAIN jobs' : i + 1 \in DOMAIN jobs /\ i + 1 # 1 /\ jobs'[i] = jobs[i + 1]
    BY <1>0, <1>1, <1>2 DEF JobsTypeOK
  <1>4. /\ Len(started) \in Nat /\ DOMAIN started = 1 .. Len(started)
        /\ DOMAIN started' = 1 .. Len(started) + 1
        /\ started'[Len(started) + 1] = s
        /\ \A n \in DOMAIN started : started'[n] = started[n]
    BY <1>1, <1>2, <1>3 DEF JobsTypeOK
  <1>5. /\ \A v \in Workers \ {w} : worker'[v] = worker[v]
        /\ worker'[w] = <<"run", s>>
    BY <1>1, <1>2 DEF JobsTypeOK
  <1>6. /\ ~Running(w) /\ Running(w)' /\ worker'[w][2] = s
        /\ \A v \in Workers \ {w} : Running(v)' <=> Running(v)
        /\ Sending' <=> Sending
    BY <1>1, <1>5 DEF Running, Sending
  <1>7. JobsTypeOK'
    BY <1>1, <1>2, <1>3 DEF JobsTypeOK
  <1>8. Numbered' /\ QueuesInOrder'
    BY <1>1 DEF JobsInv, Numbered, QueuesInOrder
  <1>9. Known'
    BY <1>1, <1>2, <1>3, <1>4, <1>6 DEF Known, Submitted
  <1>10. /\ \A i \in DOMAIN jobs' : Differ(s, jobs'[i]) /\ Differ(jobs'[i], s)
         /\ \A v \in Workers : Running(v) =>
              Differ(s, worker[v][2]) /\ Differ(worker[v][2], s)
         /\ Sending => Differ(dispatcher[2], s)
         /\ Marks(s)
    BY <1>2, <1>3 DEF OneHolder, HeldIsBusy, Differ, Marks
  <1>11. OneHolder'
    <2>1. /\ \A i, j \in DOMAIN jobs' : i # j => Differ(jobs'[i], jobs'[j])
          /\ \A i \in DOMAIN jobs', v \in Workers :
               Running(v) => Differ(jobs'[i], worker[v][2])
          /\ Sending => \A i \in DOMAIN jobs' : Differ(dispatcher[2], jobs'[i])
      <3>1. \A i, j \in DOMAIN jobs' : i # j => i + 1 # j + 1
        BY <1>3
      <3> QED
        BY <1>2, <1>3, <3>1 DEF OneHolder
    <2> QED
      BY <1>1, <1>2, <1>5, <1>6, <1>10, <2>1 DEF OneHolder, Differ
  <1>12. HeldIsBusy'
    BY <1>1, <1>2, <1>3, <1>5, <1>6, <1>10 DEF HeldIsBusy, Marks
  <1>13. Accounted'
    <2>1. \A t : Sent(t) => Sent(t)' \/ t = s
      <3> SUFFICES ASSUME NEW t, Sent(t), t # s PROVE Sent(t)'
        OBVIOUS
      <3>1. CASE Sending /\ dispatcher[2] = t
        BY <1>1, <1>6, <3>1 DEF Sent
      <3>2. CASE \E i \in DOMAIN jobs : jobs[i] = t
        <4>1. PICK i \in DOMAIN jobs : jobs[i] = t
          BY <3>2
        <4>2. i - 1 \in DOMAIN jobs' /\ (i - 1) + 1 = i
          BY <1>3, <4>1
        <4>3. jobs'[i - 1] = t
          BY <1>3, <4>1, <4>2
        <4> QED
          BY <4>2, <4>3 DEF Sent
      <3> QED
        BY <3>1, <3>2 DEF Sent
    <2>2. Begun(s)' /\ \A t : Begun(t) => Begun(t)'
      BY <1>4 DEF Begun
    <2>3. \A t : Queued(t)' <=> Queued(t)
      BY <1>1 DEF Queued
    <2>4. \A k : Held(k)' => Held(k)
      BY <1>1, <1>3, <1>5, <1>6 DEF Held
    <2> QED
      BY <1>1, <2>1, <2>2, <2>3, <2>4 DEF JobsInv, Accounted, Submitted
  <1>14. SentInTurn'
    <2>1. \A r : Begun(r) => Begun(r)'
      BY <1>4 DEF Begun
    <2>2. Submitted' = Submitted
      BY <1>1 DEF Submitted
    <2>3. ASSUME NEW r \in Submitted, NEW i \in DOMAIN jobs', Before(r, jobs'[i])
          PROVE  Begun(r)
      BY <1>2, <1>3, <2>3 DEF SentInTurn
    <2>4. ASSUME NEW r \in Submitted, Sending', Before(r, dispatcher'[2])
          PROVE  Begun(r)
      BY <1>1, <1>2, <1>6, <2>4 DEF SentInTurn
    <2> QED
      BY <2>1, <2>2, <2>3, <2>4 DEF SentInTurn, Before
  (* The task begins when it was sent, so the earlier ones have begun.     *)
  <1>15. StartedInTurn'
    <2> SUFFICES ASSUME NEW n \in DOMAIN started', NEW r \in Submitted, Before(r, started'[n])
                 PROVE  \E m \in 1 .. n - 1 : started'[m] = r
      BY <1>1 DEF StartedInTurn, Submitted, Before
    <2>1. CASE n \in DOMAIN started
      <3>1. PICK m \in 1 .. n - 1 : started[m] = r
        BY <1>2, <1>4, <2>1 DEF StartedInTurn
      <3>2. m \in DOMAIN started
        BY <1>4, <2>1, <3>1
      <3> QED
        BY <1>4, <3>1, <3>2
    <2>2. CASE n \notin DOMAIN started
      <3>1. n = Len(started) + 1 /\ Before(r, s)
        BY <1>4, <2>2
      <3>2. PICK m \in DOMAIN started : started[m] = r
        BY <1>2, <1>3, <3>1 DEF SentInTurn, Begun
      <3>3. m \in 1 .. n - 1
        BY <1>4, <3>1, <3>2
      <3> QED
        BY <1>4, <3>2, <3>3
    <2> QED
      BY <2>1, <2>2
  <1> QED
    BY <1>7, <1>8, <1>9, <1>11, <1>12, <1>13, <1>14, <1>15 DEF JobsInv

(* The end of a task frees its key, which nobody else has.                 *)
LEMMA EndInv == ASSUME JobsInv, NEW w \in Workers, End(w) PROVE JobsInv'
  <1>0. PICK s : s = worker[w][2]
    OBVIOUS
  <1>1. /\ Busy(w) /\ Running(w) /\ Finish(s.key)
        /\ worker' = [worker EXCEPT ![w][1] = "ended"]
        /\ UNCHANGED <<queues, dispatcher, jobs, submitted, started>>
    BY <1>0 DEF End, Running
  <1>2. JobsTypeOK /\ OneHolder /\ HeldIsBusy /\ Accounted
    BY DEF JobsInv
  <1>3. s \in Task /\ worker[w] = <<"run", s>>
    BY <1>0, <1>1, <1>2 DEF JobsTypeOK, Running
  <1>4. worker' = [worker EXCEPT ![w] = <<"ended", s>>]
    <2>1. [<<"run", s>> EXCEPT ![1] = "ended"] = <<"ended", s>>
      OBVIOUS
    <2>2. worker' = [worker EXCEPT ![w] = [worker[w] EXCEPT ![1] = "ended"]]
      BY <1>1
    <2> QED
      BY <1>3, <2>1, <2>2
  <1>5. keyBusy' = keyBusy \ ({s.key} \ {NoKey})
    BY <1>1, <1>2, JobsAssumption DEF Finish, JobsTypeOK
  <1>6. /\ ~Running(w)'
        /\ \A v \in Workers \ {w} : (Running(v)' <=> Running(v)) /\ worker'[v] = worker[v]
        /\ Sending' <=> Sending
    BY <1>1, <1>2, <1>4 DEF JobsTypeOK, Running, Sending
  <1>7. JobsTypeOK'
    BY <1>1, <1>2, <1>3, <1>4, <1>5 DEF JobsTypeOK
  <1>8. Numbered' /\ QueuesInOrder' /\ Known' /\ SentInTurn' /\ StartedInTurn'
    BY <1>1, <1>6 DEF JobsInv, Numbered, QueuesInOrder, Known, Submitted, SentInTurn,
                      StartedInTurn, Before, Begun
  <1>9. OneHolder'
    BY <1>1, <1>2, <1>6 DEF OneHolder, Differ
  (* Everyone else has another key.                                        *)
  <1>10. HeldIsBusy'
    BY <1>0, <1>1, <1>2, <1>5, <1>6 DEF HeldIsBusy, OneHolder, Differ, Marks
  <1>11. Accounted'
    <2>1. \A t : /\ Sent(t)' <=> Sent(t)
                 /\ Begun(t)' <=> Begun(t)
                 /\ Queued(t)' <=> Queued(t)
      BY <1>1, <1>6 DEF Sent, Begun, Queued
    <2>2. \A k : Held(k)' => Held(k)
      BY <1>1, <1>6 DEF Held
    <2>3. Held(s.key)
      BY <1>0, <1>1 DEF Held
    <2> QED
      BY <1>1, <1>2, <1>5, <2>1, <2>2, <2>3 DEF Accounted, Submitted
  <1> QED
    BY <1>7, <1>8, <1>9, <1>10, <1>11 DEF JobsInv

(* What was submitted are tasks.                                           *)
LEMMA SubmittedTasks == JobsTypeOK => Submitted \subseteq Task
  <1> SUFFICES ASSUME JobsTypeOK, NEW i \in DOMAIN submitted PROVE submitted[i] \in Task
    BY DEF Submitted
  <1> QED
    BY DEF JobsTypeOK

(* popNext takes the first task of the queue whose key is free: no earlier *)
(* one of its key is before it in the queue, and none is on its way.       *)
LEMMA PopInv == ASSUME JobsInv, PopNext PROVE JobsInv'
  <1> DEFINE ready == {p \in Priorities : Ready(p) # {}}
  <1>1. /\ dispatcher = <<"drain">> /\ ~Sending
        /\ UNCHANGED <<jobs, worker, submitted, started>>
    BY DEF PopNext, Sending
  <1>2. JobsTypeOK /\ Known /\ QueuesInOrder /\ OneHolder /\ HeldIsBusy /\ Accounted /\ SentInTurn
    BY DEF JobsInv
  <1>3. CASE ready = {}
    <2>1. dispatcher' = <<"wait">> /\ UNCHANGED <<queues, keyBusy>>
      BY <1>3 DEF PopNext
    <2>2. Quiet /\ JobsTypeOK'
      BY <1>1, <1>2, <2>1 DEF Quiet, JobsTypeOK, Sending
    <2> QED
      BY <2>2, QuietInv
  <1>4. CASE ready # {}
    <2>1. PICK p \in Priorities : p = Max(ready) /\ Ready(p) # {}
      <3>1. ready \in SUBSET Int /\ IsFiniteSet(ready)
        BY JobsAssumption, FS_Subset DEF JobsAssumption
      <3> HIDE DEF ready
      <3>2. Max(ready) \in ready
        BY <1>4, <3>1, MaxIs
      <3> QED
        BY <3>2 DEF ready
    <2>2. queues[p] \in Seq(Task) /\ DOMAIN queues[p] = 1 .. Len(queues[p]) /\ Len(queues[p]) \in Nat
      BY <1>2 DEF JobsTypeOK
    <2>3. PICK i : i = Min(Ready(p))
      OBVIOUS
    <2>4. i \in Ready(p) /\ \A j \in Ready(p) : i =< j
      <3>1. Ready(p) \subseteq 1 .. Len(queues[p])
        BY <2>2 DEF Ready
      <3>2. IsFiniteSet(1 .. Len(queues[p]))
        BY <2>2, FS_Interval
      <3>3. IsFiniteSet(Ready(p)) /\ Ready(p) \in SUBSET Int
        BY <3>1, <3>2, FS_Subset
      <3> QED
        BY <2>1, <2>3, <3>3, MinIs
    <2>5. PICK s : s = queues[p][i]
      OBVIOUS
    <2>6. /\ dispatcher' = <<"send", s>>
          /\ queues' = [queues EXCEPT ![p] = RemoveAt(@, i)]
          /\ keyBusy' = Marked(s.key)
      BY <1>4, <2>1, <2>3, <2>5 DEF PopNext
    <2>7. /\ i \in DOMAIN queues[p] /\ s.key \notin keyBusy /\ s \in Task
          /\ s \in Submitted /\ s.priority = p
      BY <1>2, <2>2, <2>4, <2>5 DEF Ready, Known
    <2>8. /\ Sending' /\ dispatcher'[2] = s
          /\ \A v \in Workers : (Running(v)' <=> Running(v)) /\ worker'[v] = worker[v]
          /\ Submitted' = Submitted
      BY <1>1, <2>6 DEF Sending, Running, Submitted
    <2>9. keyBusy' = keyBusy \cup ({s.key} \ {NoKey})
      BY <2>6 DEF Marked
    (* What the queues hold now.                                           *)
    <2>10. PICK q : q = RemoveAt(queues[p], i)
      OBVIOUS
    <2>11. /\ q \in Seq(Task) /\ DOMAIN q = 1 .. Len(queues[p]) - 1
           /\ \A j \in 1 .. Len(queues[p]) - 1 :
                q[j] = IF j < i THEN queues[p][j] ELSE queues[p][j + 1]
      <3>1. /\ q \in Seq(Task) /\ Len(q) = Len(queues[p]) - 1
            /\ \A j \in 1 .. Len(queues[p]) - 1 :
                 q[j] = IF j < i THEN queues[p][j] ELSE queues[p][j + 1]
        BY <2>2, <2>7, <2>10, RemoveAtIs
      <3> QED
        BY <3>1
    <2>12. queues' = [queues EXCEPT ![p] = q]
      BY <2>6, <2>10
    <2>13. /\ queues'[p] = q
           /\ \A r \in Priorities \ {p} : queues'[r] = queues[r]
      BY <1>2, <2>12 DEF JobsTypeOK
    <2> DEFINE from(j) == IF j < i THEN j ELSE j + 1
    <2>14. /\ \A j \in DOMAIN q : from(j) \in DOMAIN queues[p] /\ q[j] = queues[p][from(j)]
           /\ \A j, k \in DOMAIN q : j < k => from(j) < from(k)
      BY <2>2, <2>7, <2>11
    <2> HIDE DEF from
    <2>15. JobsTypeOK'
      <3>1. queues' \in [Priorities -> Seq(Task)]
        BY <1>2, <2>11, <2>12 DEF JobsTypeOK
      <3>2. keyBusy' \subseteq Keys
        BY <1>2, <2>7, <2>9 DEF JobsTypeOK, Task
      <3> QED
        BY <1>1, <1>2, <2>6, <2>7, <3>1, <3>2 DEF JobsTypeOK
    <2>16. Numbered'
      BY <1>1 DEF JobsInv, Numbered
    <2>17. Known'
      <3>1. ASSUME NEW r \in Priorities, NEW j \in DOMAIN queues'[r]
            PROVE  queues'[r][j] \in Submitted /\ queues'[r][j].priority = r
        BY <1>2, <2>13, <2>14 DEF Known
      <3> QED
        BY <1>1, <1>2, <2>7, <2>8, <3>1 DEF Known
    <2>18. QueuesInOrder'
      <3> SUFFICES ASSUME NEW r \in Priorities, NEW j \in DOMAIN queues'[r],
                          NEW k \in DOMAIN queues'[r], j < k
                   PROVE  queues'[r][j].task < queues'[r][k].task
        BY DEF QueuesInOrder
      <3>1. CASE r = p
        BY <1>2, <2>13, <2>14, <3>1 DEF QueuesInOrder
      <3>2. CASE r # p
        BY <1>2, <2>13, <3>2 DEF QueuesInOrder
      <3> QED
        BY <3>1, <3>2
    (* Nobody has the key: it is free.                                     *)
    <2>19. /\ \A j \in DOMAIN jobs : Differ(s, jobs[j])
           /\ \A v \in Workers : Running(v) => Differ(s, worker[v][2])
      BY <1>2, <2>7 DEF HeldIsBusy, Marks, Differ
    <2>20. OneHolder' /\ HeldIsBusy'
      <3>1. s.key \in keyBusy' \/ s.key = NoKey
        BY <2>9
      <3>2. keyBusy \subseteq keyBusy'
        BY <2>9
      <3> QED
        BY <1>1, <1>2, <2>8, <2>19, <3>1, <3>2 DEF OneHolder, HeldIsBusy, Differ, Marks
    <2>21. Accounted'
      <3> SUFFICES ASSUME NEW t \in Submitted, t.key # NoKey
                   PROVE  (Queued(t) \/ Sent(t) \/ Begun(t) \/ (t.key \in keyBusy /\ ~Held(t.key)))'
        BY <2>8 DEF Accounted
      <3>1. CASE Queued(t)
        <4>1. PICK j \in DOMAIN queues[t.priority] : queues[t.priority][j] = t
          BY <3>1 DEF Queued
        <4>2. t.priority \in Priorities
          BY <1>2, SubmittedTasks DEF Task
        <4>3. CASE t.priority # p
          BY <2>13, <4>1, <4>2, <4>3 DEF Queued
        <4>4. CASE t.priority = p /\ j = i
          BY <2>5, <2>8, <4>1, <4>4 DEF Sent
        <4>5. CASE t.priority = p /\ j < i
          <5>1. j \in DOMAIN q /\ q[j] = t
            BY <2>2, <2>7, <2>11, <4>1, <4>5
          <5> QED
            BY <2>13, <4>5, <5>1 DEF Queued
        <4>6. CASE t.priority = p /\ j > i
          <5>1. j - 1 \in DOMAIN q /\ ~(j - 1 < i) /\ (j - 1) + 1 = j
            BY <2>2, <2>7, <2>11, <4>1, <4>6
          <5>2. q[j - 1] = t
            BY <2>11, <4>1, <4>6, <5>1
          <5> QED
            BY <2>13, <4>6, <5>1, <5>2 DEF Queued
        <4> QED
          BY <2>2, <2>7, <4>1, <4>3, <4>4, <4>5, <4>6
      <3>2. CASE Sent(t)
        BY <1>1, <3>2 DEF Sent
      <3>3. CASE Begun(t)
        BY <1>1, <3>3 DEF Begun
      <3>4. CASE t.key \in keyBusy /\ ~Held(t.key)
        <4>1. t.key # s.key /\ t.key \in keyBusy'
          BY <2>7, <2>9, <3>4
        <4>2. ~Held(t.key)'
          BY <1>1, <2>8, <3>4, <4>1 DEF Held
        <4> QED
          BY <4>1, <4>2
      <3> QED
        BY <1>2, <3>1, <3>2, <3>3, <3>4 DEF Accounted
    (* A task before s is no longer queued, sent or dropped: it has begun. *)
    <2>22. ASSUME NEW t \in Submitted, Before(t, s) PROVE Begun(t)
      <3>1. t.key = s.key /\ t.key # NoKey /\ t.priority = p /\ t.task < s.task
        BY <2>7, <2>22 DEF Before
      <3>2. ~Queued(t)
        <4> SUFFICES ASSUME NEW j \in DOMAIN queues[p], queues[p][j] = t PROVE FALSE
          BY <3>1 DEF Queued
        <4>1. j \in Ready(p)
          BY <2>7, <3>1 DEF Ready
        <4>2. i =< j
          BY <2>4, <4>1
        <4>3. i = j \/ s.task < t.task
          BY <1>2, <2>2, <2>5, <2>7, <4>2 DEF QueuesInOrder
        <4>4. s.task \in Int /\ t.task \in Int
          BY <1>2, <2>7, SubmittedTasks DEF Task
        <4> QED
          BY <2>5, <3>1, <4>3, <4>4
      <3>3. ~Sent(t)
        BY <1>1, <1>2, <2>7, <3>1 DEF Sent, HeldIsBusy, Marks
      <3> QED
        BY <1>2, <2>7, <3>1, <3>2, <3>3 DEF Accounted
    <2>23. SentInTurn'
      BY <1>1, <1>2, <2>8, <2>22 DEF SentInTurn, Before, Begun
    <2>24. StartedInTurn'
      BY <1>1 DEF JobsInv, StartedInTurn, Submitted, Before
    <2> QED
      BY <2>15, <2>16, <2>17, <2>18, <2>20, <2>21, <2>23, <2>24 DEF JobsInv
  <1> QED
    BY <1>3, <1>4

(* Every step of the scheduler and the pool keeps JobsInv.                 *)
LEMMA JobsStep == JobsInv /\ [JobsNext]_jobsVars => JobsInv'
  <1> SUFFICES ASSUME JobsInv, [JobsNext]_jobsVars PROVE JobsInv'
    OBVIOUS
  <1>0. JobsTypeOK
    BY DEF JobsInv
  <1>1. CASE UNCHANGED jobsVars
    <2>1. Quiet /\ JobsTypeOK'
      BY <1>0, <1>1 DEF jobsVars, Quiet, JobsTypeOK
    <2> QED
      BY <2>1, QuietInv
  <1>2. CASE Notified \/ DispatcherStops
    <2>1. Quiet /\ JobsTypeOK'
      BY <1>0, <1>2 DEF Notified, DispatcherStops, Quiet, JobsTypeOK, Sending
    <2> QED
      BY <2>1, QuietInv
  <1>3. CASE ReadCurrent \/ MonitorStops \/ CloseStep
    <2>1. Quiet /\ JobsTypeOK'
      BY <1>0, <1>3 DEF ReadCurrent, MonitorStops, CloseStep, Quiet, JobsTypeOK
    <2> QED
      BY <2>1, QuietInv
  <1>4. ASSUME NEW w \in Workers, Leave(w) \/ Gone(w) PROVE JobsInv'
    <2>1. PICK there \in {<<"leaving">>, <<"none">>} :
             worker' = [worker EXCEPT ![w] = there]
      BY <1>4 DEF Leave, Gone
    <2>2. /\ worker[w] \in {<<"idle">>, <<"leaving">>}
          /\ UNCHANGED <<queues, keyBusy, dispatcher, jobs, submitted, started>>
      BY <1>4 DEF Leave, Gone
    <2>3. Quiet /\ JobsTypeOK'
      BY <1>0, <2>1, <2>2 DEF Quiet, JobsTypeOK, Running
    <2> QED
      BY <2>3, QuietInv
  <1>5. ASSUME NEW w \in Workers, Ended(w) PROVE JobsInv'
    <2>1. Quiet /\ JobsTypeOK'
      BY <1>0, <1>5 DEF Ended, Quiet, JobsTypeOK, Running
    <2> QED
      BY <2>1, QuietInv
  <1>6. CASE Rebalance
    <2>1. PICK new \in SUBSET {w \in Workers : worker[w] = <<"none">>} :
             worker' = [w \in Workers |-> IF w \in new THEN <<"idle">> ELSE worker[w]]
      BY <1>6 DEF Rebalance
    <2>2. UNCHANGED <<queues, keyBusy, dispatcher, jobs, submitted, started>>
      BY <1>6 DEF Rebalance
    <2>3. Quiet /\ JobsTypeOK'
      BY <1>0, <2>1, <2>2 DEF Quiet, JobsTypeOK, Running
    <2> QED
      BY <2>3, QuietInv
  <1> QED
    BY <1>1, <1>2, <1>3, <1>4, <1>5, <1>6, SubmitInv, PopInv, SendInv,
       SendDroppedInv, TakeInv, EndInv
    DEF JobsNext, Dispatch, Watchdog, WorkerStep

(* The invariant is what the comment of Scheduler promises.                *)
LEMMA InTurn == JobsInv => SameKeyInTurn
  <1> SUFFICES ASSUME JobsInv PROVE SameKeyInTurn
    OBVIOUS
  <1>1. JobsTypeOK /\ Numbered /\ StartedInTurn /\ OneHolder
    BY DEF JobsInv
  <1>2. ASSUME NEW v \in Workers, NEW w \in Workers, v # w,
               worker[v][1] = "run", worker[w][1] = "run"
        PROVE  worker[v][2].key # worker[w][2].key \/ worker[v][2].key = NoKey
    BY <1>1, <1>2 DEF OneHolder, Running, Differ
  <1>3. ASSUME NEW i \in DOMAIN submitted, NEW j \in DOMAIN submitted, i < j,
               submitted[i].key = submitted[j].key, submitted[i].key # NoKey,
               submitted[i].priority = submitted[j].priority,
               NEW n \in DOMAIN started, started[n] = submitted[j]
        PROVE  submitted[i] \in Range(SubSeq(started, 1, n - 1))
    <2>1. Before(submitted[i], started[n]) /\ submitted[i] \in Submitted
      BY <1>1, <1>3 DEF Before, Numbered, Submitted
    <2>2. PICK m \in 1 .. n - 1 : started[m] = submitted[i]
      BY <1>1, <2>1 DEF StartedInTurn
    <2>3. started \in Seq(Task) /\ n \in 1 .. Len(started) /\ Len(started) \in Nat
      BY <1>1 DEF JobsTypeOK
    <2>4. PICK u : u = SubSeq(started, 1, n - 1)
      OBVIOUS
    <2>5. m \in DOMAIN u /\ u[m] = started[m]
      BY <2>2, <2>3, <2>4
    <2> QED
      BY <2>2, <2>4, <2>5 DEF Range
  <1> QED
    BY <1>2, <1>3 DEF SameKeyInTurn

(* Key affinity (turbo/scheduler.go): tasks of one key never run at once,  *)
(* and those of one priority begin in the order of their submission, for any *)
(* number of tasks, workers and priorities, whatever Close drops.          *)
THEOREM SameKeyHolds == JobsSpec => []SameKeyInTurn
  BY JobsInitInv, JobsStep, InTurn, PTL DEF JobsSpec

-----------------------------------------------------------------------------
(* The change bus.                                                         *)

(* The replay buffer: the places of a ring, from its head on.              *)
Wrapped(k) == IF k < ReplayBuffer THEN k ELSE k - ReplayBuffer
Place(h, i) == Wrapped(h + i - 1)

(* One lap past the end of the buffer is as far as an index gets.          *)
LEMMA Wraps ==
  ASSUME NEW k \in Nat, k < 2 * ReplayBuffer
  PROVE  k % ReplayBuffer = Wrapped(k)
  <1> ReplayBuffer \in Nat \ {0}
    BY WatchAssumption DEF WatchAssumption
  <1> QED
    BY DEF Wrapped

(* The place of the i-th oldest event (eventRing.Add, RecentEvents).       *)
LEMMA PlaceIs ==
  ASSUME NEW h \in 0 .. ReplayBuffer - 1, NEW i \in 1 .. ReplayBuffer
  PROVE  (h + i - 1) % ReplayBuffer = Place(h, i)
  <1>1. ReplayBuffer \in Nat \ {0}
    BY WatchAssumption DEF WatchAssumption
  <1>2. PICK k : k = h + i - 1
    OBVIOUS
  <1>3. k \in Nat /\ k < 2 * ReplayBuffer
    BY <1>1, <1>2
  <1>4. k % ReplayBuffer = Wrapped(k)
    BY <1>3, Wraps
  <1>5. (h + i - 1) % ReplayBuffer = k % ReplayBuffer
    BY <1>2, Zenon
  <1>6. Place(h, i) = Wrapped(k)
    BY <1>2, Zenon DEF Place
  <1> QED
    BY <1>4, <1>5, <1>6, Zenon

Event == [n : Nat, db : Dbs, block : Blocks]

RingOK ==
  /\ ring = [buf |-> ring.buf, head |-> ring.head, count |-> ring.count]
  /\ ring.buf = [i \in 0 .. ReplayBuffer - 1 |-> ring.buf[i]]
  /\ ring.head \in 0 .. ReplayBuffer - 1 /\ ring.count \in 0 .. ReplayBuffer
  /\ added \in Seq(Event)
  /\ ring.head # 0 => ring.count = ReplayBuffer
  /\ ring.count =< Len(added)
  /\ ring.count = ReplayBuffer \/ ring.count = Len(added)
  /\ \A i \in 1 .. ring.count :
       ring.buf[Place(ring.head, i)] = added[Len(added) - ring.count + i]

(* The empty ring holds the last of no events.                             *)
LEMMA RingInit == WatchInit => RingOK
  BY WatchAssumption DEF WatchAssumption, WatchInit, RingOK

(* Add puts the event behind the others, or in place of the oldest one.    *)
LEMMA RingAdds ==
  ASSUME RingOK, NEW ev \in Event, ring' = RingAdd(ring, ev), added' = Append(added, ev)
  PROVE  RingOK'
  <1> DEFINE R == ReplayBuffer
  <1>1. R \in Nat \ {0}
    BY WatchAssumption DEF WatchAssumption
  <1>2. PICK b, h, c : /\ ring = [buf |-> b, head |-> h, count |-> c]
                       /\ b = [i \in 0 .. R - 1 |-> b[i]]
                       /\ ring.buf = b /\ ring.head = h /\ ring.count = c
    BY DEF RingOK
  <1>3. /\ h \in 0 .. R - 1 /\ c \in 0 .. R /\ added \in Seq(Event)
        /\ h # 0 => c = R
        /\ c =< Len(added) /\ (c = R \/ c = Len(added))
        /\ \A i \in 1 .. c : b[Place(h, i)] = added[Len(added) - c + i]
    BY <1>2 DEF RingOK
  <1>4. /\ added' \in Seq(Event) /\ Len(added') = Len(added) + 1
        /\ \A i \in 1 .. Len(added) : added'[i] = added[i]
        /\ added'[Len(added) + 1] = ev /\ Len(added) \in Nat
    BY <1>3
  <1>5. CASE c < R
    <2>1. h = 0 /\ c = Len(added) /\ (h + c) % R = c
      BY <1>1, <1>3, <1>5, Wraps DEF Wrapped
    <2>2. ring' = [buf |-> [b EXCEPT ![c] = ev], head |-> 0, count |-> c + 1]
      BY <1>2, <1>5, <2>1 DEF RingAdd
    <2>3. PICK d : d = [b EXCEPT ![c] = ev]
      OBVIOUS
    <2>4. /\ d = [i \in 0 .. R - 1 |-> d[i]]
          /\ \A i \in 0 .. R - 1 : d[i] = IF i = c THEN ev ELSE b[i]
      BY <1>2, <2>3
    <2>5. ASSUME NEW i \in 1 .. c + 1
          PROVE  d[Place(0, i)] = added'[Len(added') - (c + 1) + i]
      <3>1. Place(0, i) = i - 1 /\ Len(added') - (c + 1) + i = i
        BY <1>1, <1>3, <1>4, <1>5, <2>1 DEF Place, Wrapped
      <3>2. CASE i = c + 1
        BY <1>1, <1>3, <1>4, <1>5, <2>1, <2>4, <3>1, <3>2
      <3>3. CASE i # c + 1
        <4>1. i \in 1 .. c /\ i - 1 \in 0 .. R - 1 /\ i - 1 # c
          BY <1>1, <1>3, <1>5, <3>3
        <4>2. b[i - 1] = added[i]
          BY <1>3, <2>1, <3>1, <4>1
        <4> QED
          BY <1>4, <2>1, <2>4, <3>1, <4>1, <4>2
      <3> QED
        BY <3>2, <3>3
    <2>6. ring'.buf = d /\ ring'.head = 0 /\ ring'.count = c + 1
          /\ ring' = [buf |-> d, head |-> 0, count |-> c + 1]
      BY <2>2, <2>3
    <2>7. /\ ring'.head \in 0 .. R - 1 /\ ring'.count \in 0 .. R
          /\ ring'.head # 0 => ring'.count = R
          /\ ring'.count = Len(added')
      BY <1>1, <1>3, <1>4, <1>5, <2>1, <2>6
    <2>8. ring' = [buf |-> ring'.buf, head |-> ring'.head, count |-> ring'.count]
      BY <2>6
    <2>9. ring'.buf = [i \in 0 .. R - 1 |-> ring'.buf[i]]
      BY <2>4, <2>6
    <2>10. \A i \in 1 .. ring'.count :
             ring'.buf[Place(ring'.head, i)] = added'[Len(added') - ring'.count + i]
      BY <2>5, <2>6
    <2> QED
      BY <1>4, <2>7, <2>8, <2>9, <2>10 DEF RingOK, Place, Wrapped
  <1>6. CASE ~(c < R)
    <2>1. c = R /\ Len(added) >= R
      BY <1>1, <1>3, <1>6
    <2>2. PICK g : g = (h + 1) % R
      OBVIOUS
    <2>3. g = IF h + 1 < R THEN h + 1 ELSE 0
      <3>1. h + 1 \in Nat /\ h + 1 < 2 * R
        BY <1>1, <1>3
      <3>2. (h + 1) % R = Wrapped(h + 1)
        BY <3>1, Wraps
      <3> QED
        BY <1>1, <1>3, <2>2, <3>2 DEF Wrapped
    <2>4. PICK d : d = [b EXCEPT ![h] = ev]
      OBVIOUS
    <2>5. /\ d = [i \in 0 .. R - 1 |-> d[i]]
          /\ \A i \in 0 .. R - 1 : d[i] = IF i = h THEN ev ELSE b[i]
      BY <1>2, <2>4
    <2>6. ring' = [buf |-> d, head |-> g, count |-> R]
      BY <1>2, <1>6, <2>1, <2>2, <2>4 DEF RingAdd
    <2>7. ASSUME NEW i \in 1 .. R
          PROVE  d[Place(g, i)] = added'[Len(added') - R + i]
      <3>1. CASE i = R
        <4>1. Place(g, i) = h /\ Len(added') - R + i = Len(added) + 1
          BY <1>1, <1>3, <1>4, <2>3, <3>1 DEF Place, Wrapped
        <4> QED
          BY <1>3, <1>4, <2>5, <4>1
      <3>2. CASE i # R
        <4>1. /\ i + 1 \in 1 .. R /\ Place(g, i) = Place(h, i + 1)
              /\ Place(g, i) # h /\ Place(g, i) \in 0 .. R - 1
          BY <1>1, <1>3, <2>3, <3>2 DEF Place, Wrapped
        <4>2. /\ Len(added') - R + i = Len(added) - R + (i + 1)
              /\ Len(added) - R + (i + 1) \in 1 .. Len(added)
          BY <1>1, <1>4, <2>1, <3>2
        <4>3. b[Place(h, i + 1)] = added[Len(added) - R + (i + 1)]
          BY <1>3, <2>1, <4>1
        <4> QED
          BY <1>4, <2>5, <4>1, <4>2, <4>3
      <3> QED
        BY <3>1, <3>2
    <2>8. g \in 0 .. R - 1
      BY <1>1, <1>3, <2>3
    <2>9. ring'.buf = d /\ ring'.head = g /\ ring'.count = R
      BY <2>6
    <2>10. /\ ring'.head \in 0 .. R - 1 /\ ring'.count \in 0 .. R
           /\ ring'.count = R /\ ring'.count =< Len(added')
      BY <1>1, <1>4, <2>1, <2>8, <2>9
    <2>11. ring' = [buf |-> ring'.buf, head |-> ring'.head, count |-> ring'.count]
      BY <2>6, <2>9
    <2>12. ring'.buf = [i \in 0 .. R - 1 |-> ring'.buf[i]]
      BY <2>5, <2>9
    <2>13. \A i \in 1 .. ring'.count :
             ring'.buf[Place(ring'.head, i)] = added'[Len(added') - ring'.count + i]
      BY <2>7, <2>9
    <2> QED
      BY <1>4, <2>10, <2>11, <2>12, <2>13 DEF RingOK, Place, Wrapped
  <1> QED
    BY <1>5, <1>6

(* What RecentEvents returns is the end of what was added.                 *)
LEMMA RingIsSuffix ==
  RingOK => IsSuffix(Recent, added) /\ (ring.count = ReplayBuffer \/ Recent = added)
  <1> SUFFICES ASSUME RingOK
               PROVE IsSuffix(Recent, added) /\ (ring.count = ReplayBuffer \/ Recent = added)
    OBVIOUS
  <1>1. PICK c, h, b : c = ring.count /\ h = ring.head /\ b = ring.buf
    OBVIOUS
  <1>2. /\ ReplayBuffer \in Nat \ {0} /\ c \in 0 .. ReplayBuffer /\ h \in 0 .. ReplayBuffer - 1
        /\ added \in Seq(Event) /\ Len(added) \in Nat /\ c =< Len(added)
        /\ c = ReplayBuffer \/ c = Len(added)
    BY <1>1, WatchAssumption DEF RingOK, WatchAssumption
  <1>3. PICK r : r = Recent
    OBVIOUS
  <1>4. r = [i \in 1 .. c |-> added[Len(added) - c + i]]
    <2>1. \A i \in 1 .. c : b[(h + i - 1) % ReplayBuffer] = added[Len(added) - c + i]
      <3> SUFFICES ASSUME NEW i \in 1 .. c
                   PROVE  b[(h + i - 1) % ReplayBuffer] = added[Len(added) - c + i]
        OBVIOUS
      <3>1. i \in 1 .. ReplayBuffer
        BY <1>2
      <3>2. (h + i - 1) % ReplayBuffer = Place(h, i)
        BY <1>2, <3>1, PlaceIs
      <3> QED
        BY <1>1, <3>2 DEF RingOK
    <2> QED
      BY <1>1, <1>3, <2>1 DEF Recent
  <1>5. r \in Seq(Event) /\ Len(r) = c
    <2>1. \A i \in 1 .. c : added[Len(added) - c + i] \in Event
      BY <1>2
    <2> QED
      BY <1>2, <1>4, <2>1
  <1>6. IsSuffix(r, added)
    <2>1. PICK u, v : u = Reverse(r) /\ v = Reverse(added)
      OBVIOUS
    <2>2. /\ u \in Seq(Event) /\ Len(u) = c
          /\ \A i \in 1 .. c : u[i] = r[c - i + 1]
      BY <1>2, <1>5, <2>1 DEF Reverse
    <2>3. /\ v \in Seq(Event) /\ Len(v) = Len(added)
          /\ \A i \in 1 .. Len(added) : v[i] = added[Len(added) - i + 1]
      BY <1>2, <2>1 DEF Reverse
    <2>4. \A i \in 1 .. c : u[i] = v[i]
      <3> SUFFICES ASSUME NEW i \in 1 .. c PROVE u[i] = v[i]
        OBVIOUS
      <3>1. /\ c - i + 1 \in 1 .. c /\ i \in 1 .. Len(added)
            /\ Len(added) - c + (c - i + 1) = Len(added) - i + 1
        BY <1>2
      <3>2. r[c - i + 1] = added[Len(added) - i + 1]
        BY <1>4, <3>1
      <3> QED
        BY <2>2, <2>3, <3>1, <3>2
    <2>5. SubSeq(u, 1, c) = SubSeq(v, 1, c)
      BY <1>2, <2>2, <2>3, <2>4
    <2> QED
      BY <1>2, <2>1, <2>2, <2>3, <2>5 DEF IsSuffix, IsPrefix
  <1>7. c = Len(added) => r = added
    BY <1>2, <1>4
  <1> QED
    BY <1>1, <1>2, <1>3, <1>6, <1>7

Names(S) == S \cup {Every}
Subscription == [on : {TRUE}, db : Names(Dbs), block : Names(Blocks),
                 ch : Seq(Event), dropped : Nat]
Publication == [step : {"look", "add", "fan"}, ev : Event]

WatchTypeOK ==
  /\ subs \in [Watchers -> {NotSubscribed} \cup Subscription]
  /\ publisher \in [Publishers -> {Idle} \cup Publication]
  /\ begun \in Nat
  /\ owed \in [Watchers -> SUBSET Event]
  /\ read \in [Watchers -> Seq(Event)]

Publishing(p) == publisher[p].step # "idle"
Got(w) == read[w] \o subs[w].ch

(* Events have numbers of their own, and what a watcher has got is out of  *)
(* its publisher's hands.                                                  *)
EventsApart ==
  /\ \A p \in Publishers : Publishing(p) => publisher[p].ev.n =< begun
  /\ \A p, q \in Publishers : p # q /\ Publishing(p) /\ Publishing(q) =>
       publisher[p].ev # publisher[q].ev
  /\ \A w \in Subscribed : \A i \in DOMAIN Got(w) :
       /\ Got(w)[i].n =< begun
       /\ \A p \in Publishers : Publishing(p) => publisher[p].ev # Got(w)[i]

Missed(w) == {ev \in owed[w] : ~InFlight(ev) /\ ev \notin ToSet(Got(w))}

OwedOK ==
  /\ \A w \in Watchers : IsFiniteSet(owed[w])
  /\ \A w \in Subscribed : \A ev \in owed[w] : Matches(subs[w], ev)

Counted == \A w \in Subscribed : Cardinality(Missed(w)) =< subs[w].dropped
GotOnce == \A w \in Subscribed : IsInjective(Got(w))
GotMatches ==
  \A w \in Subscribed : \A ev \in ToSet(Got(w)) : Matches(subs[w], ev)

WatchInv ==
  /\ WatchTypeOK /\ RingOK /\ EventsApart /\ OwedOK
  /\ Counted /\ GotOnce /\ GotMatches

-----------------------------------------------------------------------------

(* Nobody watches and nobody publishes.                                    *)
LEMMA WatchInitInv == WatchInit => WatchInv
  <1> SUFFICES ASSUME WatchInit PROVE WatchInv
    OBVIOUS
  <1>1. WatchTypeOK
    BY DEF WatchInit, WatchTypeOK
  <1>2. Subscribed = {} /\ \A p \in Publishers : ~Publishing(p)
    BY DEF WatchInit, Subscribed, Publishing, NotSubscribed, Idle
  <1>3. \A w \in Watchers : IsFiniteSet(owed[w])
    BY FS_EmptySet DEF WatchInit
  <1> QED
    BY <1>1, <1>2, <1>3, RingInit
    DEF WatchInv, EventsApart, OwedOK, Counted, GotOnce, GotMatches

(* What is subscribed, and what it has got.                                *)
LEMMA SubscribedIs ==
  ASSUME WatchTypeOK, NEW w \in Subscribed
  PROVE  /\ w \in Watchers /\ subs[w] \in Subscription
         /\ subs[w].ch \in Seq(Event) /\ subs[w].dropped \in Nat
         /\ read[w] \in Seq(Event) /\ Got(w) \in Seq(Event)
  <1>1. w \in Watchers /\ subs[w].on
    BY DEF Subscribed
  <1>2. subs[w] \in Subscription
    BY <1>1 DEF WatchTypeOK, NotSubscribed
  <1>3. subs[w].ch \in Seq(Event) /\ subs[w].dropped \in Nat
    BY <1>2 DEF Subscription
  <1>4. read[w] \in Seq(Event)
    BY <1>1 DEF WatchTypeOK
  <1> QED
    BY <1>1, <1>2, <1>3, <1>4, ConcatProperties DEF Got

(* A publisher has an event in hand, or is idle.                           *)
LEMMA PublishingIs ==
  ASSUME WatchTypeOK, NEW p \in Publishers
  PROVE  /\ Publishing(p) => publisher[p] \in Publication /\ publisher[p].ev \in Event
         /\ ~Publishing(p) => publisher[p] = Idle
  BY DEF WatchTypeOK, Publishing, Publication, Idle

(* A watcher is owed finitely many events.                                 *)
LEMMA MissedFinite ==
  ASSUME OwedOK, NEW w \in Watchers
  PROVE  IsFiniteSet(Missed(w)) /\ Cardinality(Missed(w)) \in Nat
  <1>1. Missed(w) \in SUBSET owed[w] /\ IsFiniteSet(owed[w])
    BY DEF OwedOK, Missed
  <1> QED
    BY <1>1, FS_Subset, FS_CardinalityType

(* Fewer are missed, or one more.                                          *)
LEMMA MissesFewer ==
  ASSUME OwedOK, NEW w \in Watchers, NEW M \in SUBSET Missed(w)
  PROVE  Cardinality(M) =< Cardinality(Missed(w))
  BY MissedFinite, FS_Subset

(* One event more to miss is one more at most.                             *)
LEMMA MissesOneMore ==
  ASSUME OwedOK, NEW w \in Watchers, NEW ev, NEW M \in SUBSET (Missed(w) \cup {ev})
  PROVE  Cardinality(M) =< Cardinality(Missed(w)) + 1
  <1>1. IsFiniteSet(Missed(w)) /\ Cardinality(Missed(w)) \in Nat
    BY MissedFinite
  <1>2. /\ IsFiniteSet(Missed(w) \cup {ev})
        /\ Cardinality(Missed(w) \cup {ev}) =< Cardinality(Missed(w)) + 1
    <2>1. PICK S : S = Missed(w)
      OBVIOUS
    <2>2. /\ IsFiniteSet(S \cup {ev})
          /\ Cardinality(S \cup {ev}) = IF ev \in S THEN Cardinality(S) ELSE Cardinality(S) + 1
      BY <1>1, <2>1, FS_AddElement
    <2> QED
      BY <1>1, <2>1, <2>2
  <1>3. Cardinality(M) =< Cardinality(Missed(w) \cup {ev}) /\ Cardinality(M) \in Nat
        /\ Cardinality(Missed(w) \cup {ev}) \in Nat
    BY <1>2, FS_Subset, FS_CardinalityType
  <1> QED
    BY <1>1, <1>2, <1>3

(* Steps that give no watcher anything and take nothing from one.          *)
LEMMA SameGot ==
  ASSUME WatchInv, WatchTypeOK', RingOK', EventsApart', OwedOK',
         \A w \in Subscribed' :
           /\ w \in Subscribed /\ Got(w)' = Got(w)
           /\ subs'[w].dropped = subs[w].dropped
           /\ subs'[w].db = subs[w].db /\ subs'[w].block = subs[w].block
           /\ Missed(w)' \subseteq Missed(w)
  PROVE  WatchInv'
  <1>1. Counted'
    <2> SUFFICES ASSUME NEW w \in Subscribed'
                 PROVE  Cardinality(Missed(w)') =< subs'[w].dropped
      BY DEF Counted
    <2>1. w \in Subscribed /\ w \in Watchers /\ Missed(w)' \in SUBSET Missed(w)
      BY DEF Subscribed
    <2>2. PICK M : M = Missed(w)'
      OBVIOUS
    <2>3. OwedOK /\ WatchTypeOK
      BY DEF WatchInv
    <2>4. Cardinality(M) =< Cardinality(Missed(w))
      BY <2>1, <2>2, <2>3, MissesFewer
    <2>5. IsFiniteSet(M) /\ Cardinality(M) \in Nat /\ Cardinality(Missed(w)) \in Nat
      BY <2>1, <2>2, <2>3, MissedFinite, FS_Subset, FS_CardinalityType
    <2>6. Cardinality(Missed(w)) =< subs[w].dropped /\ subs[w].dropped \in Nat
      BY <2>1, <2>3, SubscribedIs DEF WatchInv, Counted
    <2> QED
      BY <2>2, <2>4, <2>5, <2>6
  <1>2. GotOnce'
    BY DEF WatchInv, GotOnce, IsInjective
  <1>3. GotMatches'
    <2> SUFFICES ASSUME NEW w \in Subscribed', NEW ev \in ToSet(Got(w)')
                 PROVE  Matches(subs'[w], ev)
      BY DEF GotMatches, Matches
    <2>1. w \in Subscribed /\ ev \in ToSet(Got(w))
      BY DEF ToSet
    <2>2. Matches(subs[w], ev)
      BY <2>1 DEF WatchInv, GotMatches
    <2> QED
      BY <2>2 DEF Matches
  <1> QED
    BY <1>1, <1>2, <1>3 DEF WatchInv

(* A publisher in hand of the same event, or of none any more.             *)
LEMMA BeginInv ==
  ASSUME WatchInv, NEW p \in Publishers, NEW db \in Dbs, NEW block \in Blocks,
         Begin(p, db, block)
  PROVE  WatchInv'
  <1>0. PICK ev : ev = [n |-> begun + 1, db |-> db, block |-> block]
    OBVIOUS
  <1>1. PICK step \in {"look", "add", "fan"} :
           publisher' = [publisher EXCEPT ![p] = [step |-> step, ev |-> ev]]
    BY <1>0 DEF Begin
  <1>2. /\ publisher[p] = Idle /\ begun' = begun + 1
        /\ owed' = [w \in Watchers |-> IF subs[w].on /\ Matches(subs[w], ev)
                                       THEN owed[w] \cup {ev} ELSE owed[w]]
        /\ UNCHANGED <<bulkHint, ring, subs, added, read>>
    BY <1>0 DEF Begin
  <1>3. WatchTypeOK /\ EventsApart /\ OwedOK /\ RingOK
    BY DEF WatchInv
  <1>4. ev \in Event /\ ev.n = begun + 1 /\ begun \in Nat
    BY <1>0, <1>3 DEF WatchTypeOK, Event
  <1>5. WatchTypeOK'
    <2>1. [step |-> step, ev |-> ev] \in Publication
      BY <1>4 DEF Publication
    <2> QED
      BY <1>1, <1>2, <1>3, <1>4, <2>1 DEF WatchTypeOK
  <1>6. /\ ~Publishing(p) /\ Publishing(p)' /\ publisher'[p].ev = ev
        /\ \A q \in Publishers \ {p} : publisher'[q] = publisher[q]
                                       /\ (Publishing(q)' <=> Publishing(q))
    BY <1>1, <1>2, <1>3 DEF WatchTypeOK, Publishing, Idle
  <1>7. Subscribed' = Subscribed /\ \A w : Got(w)' = Got(w)
    BY <1>2 DEF Subscribed, Got
  <1>8. RingOK'
    BY <1>2, <1>3 DEF RingOK
  <1>9. EventsApart'
    <2>1. \A q \in Publishers : Publishing(q) => publisher[q].ev.n \in Nat
      BY <1>3, PublishingIs DEF Event
    <2>2. ASSUME NEW w \in Subscribed, NEW i \in DOMAIN Got(w)
          PROVE  Got(w)[i].n \in Nat
      <3>1. Got(w) \in Seq(Event)
        BY <1>3, SubscribedIs
      <3>2. Got(w)[i] \in Event
        BY <3>1
      <3> QED
        BY <3>2 DEF Event
    <2> QED
      BY <1>2, <1>3, <1>4, <1>6, <1>7, <2>1, <2>2 DEF EventsApart
  <1>10. OwedOK'
    <2>1. ASSUME NEW w \in Watchers PROVE IsFiniteSet(owed'[w])
      BY <1>2, <1>3, FS_AddElement DEF OwedOK
    <2>2. ASSUME NEW w \in Subscribed, NEW e \in owed'[w] PROVE Matches(subs'[w], e)
      BY <1>2, <1>3 DEF OwedOK, Subscribed
    <2> QED
      BY <1>7, <2>1, <2>2 DEF OwedOK, Matches
  <1>11. ASSUME NEW w \in Subscribed PROVE Missed(w)' \subseteq Missed(w)
    <2>1. InFlight(ev)'
      BY <1>6 DEF InFlight, Publishing
    <2>2. \A e : InFlight(e) => InFlight(e)'
      BY <1>6 DEF InFlight, Publishing
    <2>3. owed'[w] \subseteq owed[w] \cup {ev}
      BY <1>2 DEF Subscribed
    <2> QED
      BY <1>7, <2>1, <2>2, <2>3 DEF Missed
  <1> QED
    BY <1>2, <1>5, <1>7, <1>8, <1>9, <1>10, <1>11, SameGot

(* Without a subscriber the event goes nowhere; else it stays in hand.     *)
LEMMA LookInv == ASSUME WatchInv, NEW p \in Publishers, Look(p) PROVE WatchInv'
  <1>1. UNCHANGED <<bulkHint, ring, subs, added, begun, owed, read>>
    BY DEF Look
  <1>2. WatchTypeOK /\ EventsApart /\ OwedOK /\ RingOK
    BY DEF WatchInv
  <1>3. /\ Publishing(p) /\ publisher[p] \in Publication /\ publisher[p].ev \in Event
    BY <1>2, PublishingIs DEF Look, Publishing
  <1>4. \/ Subscribed = {} /\ publisher' = [publisher EXCEPT ![p] = Idle]
        \/ publisher' = [publisher EXCEPT ![p] = [@ EXCEPT !.step = "add"]]
    BY DEF Look, Unwatched
  <1>5. WatchTypeOK'
    <2>1. [publisher[p] EXCEPT !.step = "add"] \in Publication
      BY <1>3 DEF Publication
    <2> QED
      BY <1>1, <1>2, <1>4, <2>1 DEF WatchTypeOK
  <1>6. /\ \A q \in Publishers \ {p} : publisher'[q] = publisher[q]
                                       /\ (Publishing(q)' <=> Publishing(q))
        /\ Publishing(p)' => publisher'[p].ev = publisher[p].ev
        /\ Subscribed # {} => Publishing(p)'
    BY <1>2, <1>3, <1>4 DEF WatchTypeOK, Publishing, Idle, Publication
  <1>7. Subscribed' = Subscribed /\ \A w : Got(w)' = Got(w)
    BY <1>1 DEF Subscribed, Got
  <1>8. RingOK' /\ OwedOK'
    BY <1>1, <1>2, <1>7 DEF RingOK, OwedOK, Matches
  <1>9. EventsApart'
    BY <1>1, <1>2, <1>3, <1>6, <1>7 DEF EventsApart
  <1>10. ASSUME NEW w \in Subscribed PROVE Missed(w)' \subseteq Missed(w)
    <2>1. \A e : InFlight(e) => InFlight(e)'
      BY <1>3, <1>6 DEF InFlight, Publishing
    <2> QED
      BY <1>1, <1>7, <2>1 DEF Missed
  <1> QED
    BY <1>1, <1>5, <1>7, <1>8, <1>9, <1>10, SameGot

(* The event enters the replay buffer and stays in its publisher's hand.   *)
LEMMA AddInv == ASSUME WatchInv, NEW p \in Publishers, AddToReplay(p) PROVE WatchInv'
  <1>1. /\ UNCHANGED <<bulkHint, subs, begun, owed, read>>
        /\ publisher' = [publisher EXCEPT ![p] = [@ EXCEPT !.step = "fan"]]
        /\ ring' = RingAdd(ring, publisher[p].ev)
        /\ added' = Append(added, publisher[p].ev)
    BY DEF AddToReplay
  <1>2. WatchTypeOK /\ EventsApart /\ OwedOK /\ RingOK
    BY DEF WatchInv
  <1>3. Publishing(p) /\ publisher[p] \in Publication /\ publisher[p].ev \in Event
    BY <1>2, PublishingIs DEF AddToReplay, Publishing
  <1>4. RingOK'
    BY <1>1, <1>2, <1>3, RingAdds
  <1>5. WatchTypeOK'
    <2>1. [publisher[p] EXCEPT !.step = "fan"] \in Publication
      BY <1>3 DEF Publication
    <2> QED
      BY <1>1, <1>2, <2>1 DEF WatchTypeOK
  <1>6. /\ \A q \in Publishers \ {p} : publisher'[q] = publisher[q]
                                       /\ (Publishing(q)' <=> Publishing(q))
        /\ Publishing(p)' /\ publisher'[p].ev = publisher[p].ev
    BY <1>1, <1>2, <1>3 DEF WatchTypeOK, Publishing, Publication
  <1>7. Subscribed' = Subscribed /\ \A w : Got(w)' = Got(w)
    BY <1>1 DEF Subscribed, Got
  <1>8. OwedOK' /\ EventsApart'
    BY <1>1, <1>2, <1>3, <1>6, <1>7 DEF OwedOK, Matches, EventsApart
  <1>9. ASSUME NEW w \in Subscribed PROVE Missed(w)' \subseteq Missed(w)
    <2>1. \A e : InFlight(e) => InFlight(e)'
      BY <1>3, <1>6 DEF InFlight, Publishing
    <2> QED
      BY <1>1, <1>7, <2>1 DEF Missed
  <1> QED
    BY <1>1, <1>4, <1>5, <1>7, <1>8, <1>9, SameGot

(* A watcher's events are what it has read, then what its channel holds:   *)
(* one more in the channel, or one moved from there.                       *)
LEMMA ConcatAppend ==
  ASSUME NEW E, NEW s \in Seq(E), NEW t \in Seq(E), NEW e \in E
  PROVE  s \o Append(t, e) = Append(s \o t, e)
  OBVIOUS

LEMMA ConcatMoves ==
  ASSUME NEW E, NEW s \in Seq(E), NEW t \in Seq(E), t # <<>>
  PROVE  Append(s, Head(t)) \o Tail(t) = s \o t
  OBVIOUS

(* A watcher is offered an event: it gets it, or its counter does, or it   *)
(* did not ask for it.                                                     *)
LEMMA FanOutInv == ASSUME WatchInv, NEW p \in Publishers, FanOut(p) PROVE WatchInv'
  <1>0. PICK ev : ev = publisher[p].ev
    OBVIOUS
  <1>1. /\ UNCHANGED <<bulkHint, ring, added, begun, owed, read>>
        /\ publisher' = [publisher EXCEPT ![p] = Idle]
        /\ subs' = [w \in Watchers |-> Offer(subs[w], ev)]
    BY <1>0 DEF FanOut
  <1>2. WatchTypeOK /\ EventsApart /\ OwedOK /\ RingOK /\ Counted /\ GotOnce /\ GotMatches
    BY DEF WatchInv
  <1>3. Publishing(p) /\ ev \in Event /\ ev.n =< begun
    BY <1>0, <1>2, PublishingIs DEF FanOut, Publishing, EventsApart
  <1>4. /\ \A q \in Publishers \ {p} : publisher'[q] = publisher[q]
                                       /\ (Publishing(q)' <=> Publishing(q))
        /\ ~Publishing(p)'
    BY <1>1, <1>2 DEF WatchTypeOK, Publishing, Idle
  <1>5. Subscribed' = Subscribed /\ Subscribed \subseteq Watchers
    <2>1. ASSUME NEW w \in Watchers PROVE subs'[w].on <=> subs[w].on
      <3>1. CASE ~subs[w].on
        BY <1>1, <3>1 DEF Offer
      <3>2. CASE subs[w].on
        <4>1. subs[w] \in Subscription
          BY <1>2, <3>2, SubscribedIs DEF Subscribed
        <4> QED
          BY <1>1, <3>2, <4>1 DEF Offer, Subscription
      <3> QED
        BY <3>1, <3>2
    <2> QED
      BY <2>1 DEF Subscribed
  (* The three outcomes of an offer.                                       *)
  <1> DEFINE Passes(w) == /\ ~Matches(subs[w], ev) /\ Got(w)' = Got(w)
                          /\ subs'[w].dropped = subs[w].dropped
             Gets(w) == /\ Matches(subs[w], ev) /\ Got(w)' = Append(Got(w), ev)
                        /\ subs'[w].dropped = subs[w].dropped
             Drops(w) == /\ Matches(subs[w], ev) /\ Got(w)' = Got(w)
                         /\ subs'[w].dropped = subs[w].dropped + 1
  <1>6. ASSUME NEW w \in Subscribed
        PROVE  /\ w \in Watchers /\ subs[w] \in Subscription /\ subs'[w] \in Subscription
               /\ subs'[w].db = subs[w].db /\ subs'[w].block = subs[w].block
               /\ Got(w) \in Seq(Event) /\ subs[w].dropped \in Nat
               /\ Passes(w) \/ Gets(w) \/ Drops(w)
    <2>1. /\ w \in Watchers /\ subs[w] \in Subscription /\ subs[w].ch \in Seq(Event)
          /\ read[w] \in Seq(Event) /\ Got(w) \in Seq(Event) /\ subs[w].dropped \in Nat
      BY <1>2, SubscribedIs
    <2>2. subs'[w] = Offer(subs[w], ev) /\ subs[w].on /\ read'[w] = read[w]
      BY <1>1, <2>1 DEF Subscribed
    <2>3. CASE ~Matches(subs[w], ev)
      BY <2>1, <2>2, <2>3 DEF Got, Offer
    <2>4. CASE Matches(subs[w], ev) /\ Len(subs[w].ch) < SubscriberBuffer
      <3>1. PICK c : c = Append(subs[w].ch, ev)
        OBVIOUS
      <3>2. c \in Seq(Event) /\ subs'[w] = [subs[w] EXCEPT !.ch = c]
        BY <1>3, <2>1, <2>2, <2>4, <3>1 DEF Offer
      <3>3. /\ subs'[w] \in Subscription /\ subs'[w].ch = c
            /\ subs'[w].db = subs[w].db /\ subs'[w].block = subs[w].block
            /\ subs'[w].dropped = subs[w].dropped
        BY <2>1, <3>2 DEF Subscription
      <3>4. read[w] \o c = Append(read[w] \o subs[w].ch, ev)
        <4>1. PICK r, t : r = read[w] /\ t = subs[w].ch
          OBVIOUS
        <4>2. r \in Seq(Event) /\ t \in Seq(Event)
          BY <2>1, <4>1
        <4>3. r \o Append(t, ev) = Append(r \o t, ev)
          BY <1>3, <4>2, ConcatAppend
        <4> QED
          BY <3>1, <4>1, <4>3, Zenon
      <3> QED
        BY <2>1, <2>2, <2>4, <3>3, <3>4 DEF Got
    <2>5. CASE Matches(subs[w], ev) /\ ~(Len(subs[w].ch) < SubscriberBuffer)
      <3>1. PICK n : n = subs[w].dropped + 1
        OBVIOUS
      <3>2. n \in Nat /\ subs'[w] = [subs[w] EXCEPT !.dropped = n]
        BY <2>1, <2>2, <2>5, <3>1 DEF Offer
      <3>3. /\ subs'[w] \in Subscription /\ subs'[w].ch = subs[w].ch
            /\ subs'[w].db = subs[w].db /\ subs'[w].block = subs[w].block
            /\ subs'[w].dropped = n
        BY <2>1, <3>2 DEF Subscription
      <3> QED
        BY <2>1, <2>2, <2>5, <3>1, <3>3 DEF Got
    <2> QED
      BY <2>3, <2>4, <2>5
  <1>7. WatchTypeOK'
    <2>1. ASSUME NEW w \in Watchers PROVE subs'[w] \in {NotSubscribed} \cup Subscription
      <3>1. CASE w \in Subscribed
        BY <1>6, <3>1
      <3>2. CASE w \notin Subscribed
        BY <1>1, <1>2, <3>2 DEF Subscribed, Offer, WatchTypeOK
      <3> QED
        BY <3>1, <3>2
    <2> QED
      BY <1>1, <1>2, <2>1 DEF WatchTypeOK
  <1>8. RingOK' /\ OwedOK'
    <2>1. \A w \in Subscribed : \A e : Matches(subs'[w], e) <=> Matches(subs[w], e)
      BY <1>6 DEF Matches
    <2> QED
      BY <1>1, <1>2, <1>5, <2>1 DEF RingOK, OwedOK, Matches
  (* What is new to a watcher it had not got.                              *)
  <1>9. ASSUME NEW w \in Subscribed
        PROVE  /\ \A i \in DOMAIN Got(w) : Got(w)[i] # ev
               /\ DOMAIN Got(w) = 1 .. Len(Got(w)) /\ Len(Got(w)) \in Nat
               /\ Gets(w) => /\ DOMAIN Got(w)' = 1 .. Len(Got(w)) + 1
                             /\ Got(w)'[Len(Got(w)) + 1] = ev
                             /\ \A i \in DOMAIN Got(w) : Got(w)'[i] = Got(w)[i]
    <2>1. Got(w) \in Seq(Event)
      BY <1>6
    <2>2. PICK g : g = Got(w)
      OBVIOUS
    <2>3. Gets(w) => Got(w)' = Append(g, ev)
      BY <1>6, <2>2
    <2> QED
      BY <1>0, <1>2, <1>3, <2>1, <2>2, <2>3 DEF EventsApart
  <1>10. EventsApart'
    <2>1. \A q \in Publishers \ {p} : Publishing(q) => publisher[q].ev # ev
      BY <1>0, <1>2, <1>3 DEF EventsApart
    <2>2. ASSUME NEW w \in Subscribed, NEW i \in DOMAIN Got(w)'
          PROVE  /\ Got(w)'[i].n =< begun
                 /\ \A q \in Publishers \ {p} : Publishing(q) => publisher[q].ev # Got(w)'[i]
      <3>1. CASE Gets(w) /\ i = Len(Got(w)) + 1
        BY <1>3, <1>9, <2>1, <3>1
      <3>2. CASE ~(Gets(w) /\ i = Len(Got(w)) + 1)
        <4>1. i \in DOMAIN Got(w) /\ Got(w)'[i] = Got(w)[i]
          BY <1>6, <1>9, <3>2
        <4> QED
          BY <1>2, <4>1 DEF EventsApart
      <3> QED
        BY <3>1, <3>2
    <2> QED
      BY <1>1, <1>2, <1>4, <1>5, <2>2 DEF EventsApart
  <1>11. GotOnce'
    <2> SUFFICES ASSUME NEW w \in Subscribed, NEW i \in DOMAIN Got(w)', NEW j \in DOMAIN Got(w)',
                        Got(w)'[i] = Got(w)'[j]
                 PROVE  i = j
      BY <1>5 DEF GotOnce, IsInjective
    <2>1. CASE Gets(w)
      <3>1. PICK g, n : g = Got(w)' /\ n = Len(Got(w))
        OBVIOUS
      <3>2. /\ n \in Nat /\ DOMAIN g = 1 .. n + 1 /\ g[n + 1] = ev
            /\ \A k \in 1 .. n : g[k] = Got(w)[k] /\ Got(w)[k] # ev
        BY <1>9, <2>1, <3>1
      <3>3. \A k, m \in 1 .. n : Got(w)[k] = Got(w)[m] => k = m
        BY <1>2, <1>9, <3>1 DEF GotOnce, IsInjective
      <3>4. i \in 1 .. n + 1 /\ j \in 1 .. n + 1 /\ g[i] = g[j]
        BY <3>1, <3>2
      <3> QED
        BY <3>2, <3>3, <3>4
    <2>2. CASE ~Gets(w)
      BY <1>2, <1>6, <2>2 DEF GotOnce, IsInjective
    <2> QED
      BY <2>1, <2>2
  <1>12. GotMatches'
    <2> SUFFICES ASSUME NEW w \in Subscribed, NEW i \in DOMAIN Got(w)'
                 PROVE  Matches(subs'[w], Got(w)'[i])
      BY <1>5 DEF GotMatches, ToSet, Matches
    <2>1. \A e : Matches(subs'[w], e) <=> Matches(subs[w], e)
      BY <1>6 DEF Matches
    <2>2. \A k \in DOMAIN Got(w) : Matches(subs[w], Got(w)[k])
      BY <1>2 DEF GotMatches, ToSet
    <2>3. CASE Gets(w)
      <3>1. Matches(subs[w], ev)
        BY <2>3 DEF Gets
      <3> QED
        BY <1>9, <2>1, <2>2, <2>3, <3>1
    <2>4. CASE ~Gets(w)
      BY <1>6, <2>1, <2>2, <2>4
    <2> QED
      BY <2>3, <2>4
  <1>13. Counted'
    <2> SUFFICES ASSUME NEW w \in Subscribed
                 PROVE  Cardinality(Missed(w)') =< subs'[w].dropped
      BY <1>5 DEF Counted
    <2>1. PICK M : M = Missed(w)'
      OBVIOUS
    <2>2. Cardinality(Missed(w)) =< subs[w].dropped /\ Cardinality(Missed(w)) \in Nat
      BY <1>2, <1>6, MissedFinite DEF Counted
    <2>3. \A e : InFlight(e) => InFlight(e)' \/ e = ev
      BY <1>0, <1>4 DEF InFlight, Publishing
    <2>4. Missed(w)' \subseteq Missed(w) \cup {ev}
      <3>1. ToSet(Got(w)) \subseteq ToSet(Got(w)')
        BY <1>6, <1>9 DEF ToSet
      <3> QED
        BY <1>1, <2>3, <3>1 DEF Missed
    <2>5. IsFiniteSet(M) /\ Cardinality(M) \in Nat
      <3>1. M \subseteq owed'[w] /\ IsFiniteSet(owed'[w])
        BY <1>6, <1>8, <2>1 DEF Missed, OwedOK
      <3> QED
        BY <3>1, FS_Subset, FS_CardinalityType
    <2>6. CASE Drops(w)
      <3>1. Cardinality(M) =< Cardinality(Missed(w)) + 1
        BY <1>2, <1>6, <2>1, <2>4, MissesOneMore
      <3> QED
        BY <1>6, <2>1, <2>2, <2>5, <2>6, <3>1
    <2>7. CASE ~Drops(w)
      <3>1. ev \notin M
        <4>1. CASE Gets(w)
          <5>1. ev \in ToSet(Got(w)')
            BY <1>9, <4>1 DEF ToSet
          <5> QED
            BY <2>1, <5>1 DEF Missed
        <4>2. CASE Passes(w)
          <5>1. ev \notin owed[w]
            BY <1>2, <4>2 DEF Passes, OwedOK
          <5> QED
            BY <1>1, <2>1, <5>1 DEF Missed
        <4> QED
          BY <1>6, <2>7, <4>1, <4>2
      <3>2. Cardinality(M) =< Cardinality(Missed(w))
        BY <1>2, <1>6, <2>1, <2>4, <3>1, MissesFewer
      <3> QED
        BY <1>6, <2>1, <2>2, <2>5, <2>7, <3>2
    <2> QED
      BY <2>6, <2>7
  <1> QED
    BY <1>7, <1>8, <1>10, <1>11, <1>12, <1>13 DEF WatchInv

(* A new watcher is owed nothing and has got nothing.                      *)
LEMMA SubscribeInv ==
  ASSUME WatchInv, NEW w \in Watchers, NEW db \in Names(Dbs), NEW block \in Names(Blocks),
         Subscribe(w, db, block)
  PROVE  WatchInv'
  <1>0. PICK s : s = [on |-> TRUE, db |-> db, block |-> block, ch |-> <<>>, dropped |-> 0]
    OBVIOUS
  <1>1. /\ subs' = [subs EXCEPT ![w] = s] /\ read[w] = <<>> /\ owed[w] = {}
        /\ UNCHANGED <<bulkHint, ring, publisher, added, begun, owed, read>>
    BY <1>0 DEF Subscribe
  <1>2. WatchTypeOK /\ EventsApart /\ OwedOK /\ RingOK
    BY DEF WatchInv
  <1>3. s \in Subscription
    BY <1>0 DEF Subscription
  <1>4. WatchTypeOK' /\ RingOK'
    BY <1>1, <1>2, <1>3 DEF WatchTypeOK, RingOK
  <1>5. /\ subs'[w] = s /\ \A v \in Watchers \ {w} : subs'[v] = subs[v]
    BY <1>1, <1>2 DEF WatchTypeOK
  <1>6. Got(w)' = <<>> /\ Missed(w)' = {} /\ subs'[w].dropped = 0
    BY <1>0, <1>1, <1>5 DEF Got, Missed
  <1>7. ASSUME NEW v \in Subscribed', v # w
        PROVE  /\ v \in Subscribed /\ Got(v)' = Got(v) /\ Missed(v)' = Missed(v)
               /\ subs'[v] = subs[v]
    BY <1>1, <1>5, <1>7 DEF Subscribed, Got, Missed, InFlight
  <1>8. EventsApart'
    <2>1. \A p \in Publishers : Publishing(p)' <=> Publishing(p)
      BY <1>1 DEF Publishing
    <2> QED
      BY <1>1, <1>2, <1>6, <1>7, <2>1 DEF EventsApart
  <1>9. OwedOK'
    BY <1>1, <1>2, <1>7 DEF OwedOK, Matches
  <1>10. Counted'
    <2>1. Cardinality(Missed(w)') =< subs'[w].dropped
      BY <1>6, FS_EmptySet
    <2> QED
      BY <1>7, <2>1 DEF Counted, WatchInv
  <1>11. GotOnce' /\ GotMatches'
    BY <1>6, <1>7 DEF GotOnce, GotMatches, WatchInv, IsInjective, ToSet, Matches
  <1> QED
    BY <1>4, <1>8, <1>9, <1>10, <1>11 DEF WatchInv

(* What is read was in the channel.                                        *)
LEMMA ReceiveInv == ASSUME WatchInv, NEW w \in Watchers, Receive(w) PROVE WatchInv'
  <1>1. /\ subs[w].on /\ subs[w].ch # <<>>
        /\ read' = [read EXCEPT ![w] = Append(@, Head(subs[w].ch))]
        /\ subs' = [subs EXCEPT ![w].ch = Tail(@)]
        /\ UNCHANGED <<bulkHint, ring, publisher, added, begun, owed>>
    BY DEF Receive
  <1>2. WatchTypeOK /\ EventsApart /\ OwedOK /\ RingOK
    BY DEF WatchInv
  <1>3. /\ w \in Subscribed /\ subs[w] \in Subscription /\ subs[w].ch \in Seq(Event)
        /\ read[w] \in Seq(Event)
    BY <1>1, <1>2, SubscribedIs DEF Subscribed
  <1>4. PICK t, r : t = Tail(subs[w].ch) /\ r = Append(read[w], Head(subs[w].ch))
    OBVIOUS
  <1>5. t \in Seq(Event) /\ r \in Seq(Event)
    BY <1>1, <1>3, <1>4
  <1>6. subs' = [subs EXCEPT ![w] = [subs[w] EXCEPT !.ch = t]] /\ read' = [read EXCEPT ![w] = r]
    BY <1>1, <1>4
  <1>7. /\ subs'[w] \in Subscription /\ subs'[w].ch = t /\ subs'[w].on
        /\ subs'[w].db = subs[w].db /\ subs'[w].block = subs[w].block
        /\ subs'[w].dropped = subs[w].dropped
    BY <1>2, <1>3, <1>5, <1>6 DEF WatchTypeOK, Subscription
  <1>8. WatchTypeOK' /\ RingOK'
    BY <1>1, <1>2, <1>5, <1>6, <1>7 DEF WatchTypeOK, RingOK
  <1>9. \A v \in Watchers \ {w} : subs'[v] = subs[v] /\ read'[v] = read[v]
    BY <1>2, <1>6 DEF WatchTypeOK
  <1>10. Got(w)' = Got(w)
    <2>1. PICK c, d : c = subs[w].ch /\ d = read[w]
      OBVIOUS
    <2>2. Append(d, Head(c)) \o Tail(c) = d \o c
      BY <1>1, <1>3, <2>1, ConcatMoves
    <2>3. r \o t = d \o c
      BY <1>4, <2>1, <2>2, Zenon
    <2>4. read'[w] = r
      BY <1>2, <1>6 DEF WatchTypeOK
    <2> QED
      BY <1>7, <2>1, <2>3, <2>4 DEF Got
  <1>11. Subscribed' = Subscribed
    BY <1>1, <1>7, <1>9 DEF Subscribed
  <1>12. \A v \in Subscribed :
           /\ Got(v)' = Got(v) /\ subs'[v].dropped = subs[v].dropped
           /\ subs'[v].db = subs[v].db /\ subs'[v].block = subs[v].block
    BY <1>7, <1>9, <1>10 DEF Got, Subscribed
  <1>13. EventsApart' /\ OwedOK'
    <2>1. \A p \in Publishers : Publishing(p)' <=> Publishing(p)
      BY <1>1 DEF Publishing
    <2> QED
      BY <1>1, <1>2, <1>11, <1>12, <2>1 DEF EventsApart, OwedOK, Matches
  <1>14. \A v \in Subscribed : Missed(v)' \subseteq Missed(v)
    BY <1>1, <1>12 DEF Missed, InFlight
  <1> QED
    BY <1>8, <1>11, <1>12, <1>13, <1>14, SameGot

(* A watcher that leaves is owed no answer.                                *)
LEMMA UnsubscribeInv == ASSUME WatchInv, NEW w \in Watchers, Unsubscribe(w) PROVE WatchInv'
  <1>1. /\ subs' = [subs EXCEPT ![w] = NotSubscribed]
        /\ UNCHANGED <<bulkHint, ring, publisher, added, begun, owed, read>>
    BY DEF Unsubscribe
  <1>2. WatchTypeOK /\ EventsApart /\ OwedOK /\ RingOK
    BY DEF WatchInv
  <1>3. WatchTypeOK' /\ RingOK'
    BY <1>1, <1>2 DEF WatchTypeOK, RingOK
  <1>4. \A v \in Subscribed' : v \in Subscribed /\ subs'[v] = subs[v] /\ Got(v)' = Got(v)
    BY <1>1, <1>2 DEF WatchTypeOK, Subscribed, NotSubscribed, Got
  <1>5. EventsApart' /\ OwedOK'
    <2>1. \A p \in Publishers : Publishing(p)' <=> Publishing(p)
      BY <1>1 DEF Publishing
    <2> QED
      BY <1>1, <1>2, <1>4, <2>1 DEF EventsApart, OwedOK, Matches
  <1>6. \A v \in Subscribed' : Missed(v)' \subseteq Missed(v)
    BY <1>1, <1>4 DEF Missed, InFlight
  <1> QED
    BY <1>3, <1>4, <1>5, <1>6, SameGot

(* The hint of bulk mode changes nothing else.                             *)
LEMMA HintInv ==
  ASSUME WatchInv, UNCHANGED <<ring, subs, publisher, added, begun, owed, read>>
  PROVE  WatchInv'
  <1>1. WatchTypeOK' /\ RingOK'
    BY DEF WatchInv, WatchTypeOK, RingOK
  <1>2. Subscribed' = Subscribed /\ \A w : Got(w)' = Got(w) /\ Missed(w)' = Missed(w)
    BY DEF Subscribed, Got, Missed, InFlight
  <1>3. EventsApart' /\ OwedOK'
    BY <1>2 DEF WatchInv, EventsApart, OwedOK, Publishing, Matches
  <1> QED
    BY <1>1, <1>2, <1>3, SameGot

(* Every step of publishers and watchers keeps WatchInv.                   *)
LEMMA WatchStep == WatchInv /\ [WatchNext]_watchVars => WatchInv'
  <1> SUFFICES ASSUME WatchInv, [WatchNext]_watchVars PROVE WatchInv'
    OBVIOUS
  <1>1. CASE UNCHANGED watchVars \/ SetBulkModeHint
    BY <1>1, HintInv DEF watchVars, SetBulkModeHint
  <1> QED
    BY <1>1, BeginInv, LookInv, AddInv, FanOutInv, SubscribeInv, ReceiveInv, UnsubscribeInv
    DEF WatchNext, Names

(* The invariant is what a watcher may rely on.                            *)
LEMMA OnlyCounted == WatchInv => WatchersMissOnlyCounted
  <1> SUFFICES ASSUME WatchInv PROVE WatchersMissOnlyCounted
    OBVIOUS
  <1>1. IsSuffix(Recent, added) /\ (ring.count = ReplayBuffer \/ Recent = added)
    BY RingIsSuffix DEF WatchInv
  <1> QED
    BY <1>1 DEF WatchInv, Counted, GotOnce, GotMatches, Missed, Got,
                WatchersMissOnlyCounted

(* A watcher misses only events its counter counts, gets none twice and none *)
(* it did not ask for, and the replay buffer holds the latest events       *)
(* (cluster/changestream.go), for any number of publishers and watchers and *)
(* any buffer sizes.                                                       *)
THEOREM WatchersHold == WatchSpec => []WatchersMissOnlyCounted
  BY WatchInitInv, WatchStep, OnlyCounted, PTL DEF WatchSpec
===============================================================================
