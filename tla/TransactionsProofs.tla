-------------------------- MODULE TransactionsProofs --------------------------
(***************************************************************************)
(* Proofs about module Transactions, for any number of sessions, writers,  *)
(* documents and stripes: the types, atomicity, that locks exclude, that   *)
(* versions grow, and where circles of waiting transactions come from.     *)
(***************************************************************************)
EXTENDS Transactions, TLAPS, FiniteSetTheorems, FunctionTheorems

(* What of a transaction's life its status, its call and its effects say   *)
(* together: only an open call applies, and only a lost Abort does not     *)
(* unlock what the same call locked.                                       *)
Lifecycle(t) ==
  /\ status[t] = "none" => t \notin applied /\ at[t] = "idle" /\ muts[t] = <<>>
  /\ at[t] # "idle" => status[t] = IF at[t] = "release" THEN "aborted" ELSE "pending"
  /\ status[t] = "pending" => (t \in applied <=> at[t] = "unlock")
  /\ status[t] = "committed" => t \in applied
  /\ status[t] = "aborted" => t \notin applied
  /\ at[t] = "idle" /\ status[t] # "pending" => muts[t] = <<>>
  /\ at[t] \notin {"idle", "release"} => muts[t] # <<>>
  /\ at[t] \in {"lock", "validate", "flush"} => retry[t] < MaxRetries
  /\ at[t] = "idle" => retry[t] = 0

(* The stripes a call has still to visit are the end of its list.          *)
Visited(t) == Len(muts[t]) - Len(todo[t])

TodoIsRest(t) ==
  /\ at[t] \in {"idle", "validate", "flush"} => todo[t] = <<>>
  /\ at[t] = "lock" => todo[t] # <<>>
  /\ Len(todo[t]) <= Len(muts[t])
  /\ \A i \in DOMAIN todo[t] : todo[t][i] = LockList(t)[Visited(t) + i]

(* The places of its list whose stripes a transaction holds.               *)
HeldPlaces(t) ==
  {k \in DOMAIN muts[t] :
     \/ at[t] = "lock" /\ k <= Visited(t)
     \/ Applying(t)
     \/ at[t] \in {"unlock", "failed"} /\ k > Visited(t)}

(* A transaction holds no stripe but those of its held places; as long as  *)
(* no lock has been lost, it holds each of them, and each once.            *)
HoldsOnlyPlaces ==
  \A t \in Txs, st \in Stripes :
    holder[st] = t => \E k \in HeldPlaces(t) : LockList(t)[k] = st

HoldsPlaces ==
  \/ stolen
  \/ \A t \in Txs :
       /\ \A k \in HeldPlaces(t) : holder[LockList(t)[k]] = t
       /\ \A j, k \in HeldPlaces(t) : j # k => LockList(t)[j] # LockList(t)[k]

LostByAbort == fatal \/ stolen => \E t \in Txs : at[t] = "release"

(* What the version check of a transaction has found stays so under its    *)
(* locks, but for documents raced by writers outside and those of which    *)
(* the check was shown an older version than Badger's.                     *)
Fresh(m) == m.type = "set" => m.version >= store[m.doc] \/ m.doc \in raced \cup misled

StaysFresh ==
  \/ stolen
  \/ \A t \in Txs : at[t] = "flush" => \A m \in Range(muts[t]) : Fresh(m)

IInv ==
  /\ TypeOK
  /\ \A t \in Txs : Lifecycle(t) /\ TodoIsRest(t)
  /\ HoldsOnlyPlaces /\ HoldsPlaces /\ LostByAbort
  /\ StaysFresh

-----------------------------------------------------------------------------
(* Lemmas about places in an order.                                        *)

(* R orders S totally.                                                     *)
Orders(R, S) ==
  /\ \A x \in S : <<x, x>> \in R
  /\ \A x, y \in S : <<x, y>> \in R \/ <<y, x>> \in R
  /\ \A x, y \in S : <<x, y>> \in R /\ <<y, x>> \in R => x = y
  /\ \A x, y, z \in S : <<x, y>> \in R /\ <<y, z>> \in R => <<x, z>> \in R

(* How many elements of S are not behind x.                                *)
Ranking(R, S) == [x \in S |-> Cardinality({y \in S : <<y, x>> \in R})]

(* Counting what comes before an element numbers a finite totally ordered  *)
(* set: every number from 1 to its size belongs to exactly one element.    *)
(* transaction.go:207 sorts the keys; Place is that number.                *)
LEMMA Ranks ==
  ASSUME NEW S, IsFiniteSet(S), NEW R, Orders(R, S)
  PROVE  /\ Cardinality(S) \in Nat
         /\ \A x \in S : Ranking(R, S)[x] \in 1 .. Cardinality(S)
         /\ \A x, y \in S : Ranking(R, S)[x] = Ranking(R, S)[y] => x = y
         /\ \A k \in 1 .. Cardinality(S) : \E x \in S : Ranking(R, S)[x] = k
<1> DEFINE rank == Ranking(R, S)
           below(x) == {y \in S : <<y, x>> \in R}
<1>1. \A x \in S : below(x) \in SUBSET S /\ x \in below(x) /\ rank[x] = Cardinality(below(x))
  BY DEF Orders, Ranking
<1>2. \A x, y \in S : <<x, y>> \in R => below(x) \in SUBSET below(y)
  BY DEF Orders
<1>3. \A x, y \in S : below(x) = below(y) => x = y
  BY <1>1 DEF Orders
<1>4. \A x, y \in S : <<x, y>> \in R \/ <<y, x>> \in R
  BY DEF Orders
<1>5. rank = [x \in S |-> rank[x]]
  BY DEF Ranking
<1> HIDE DEF rank, below
<1>6. Cardinality(S) \in Nat
  BY FS_CardinalityType
<1>7. ASSUME NEW x \in S PROVE IsFiniteSet(below(x)) /\ rank[x] \in 1 .. Cardinality(S)
  <2>1. IsFiniteSet(below(x)) /\ Cardinality(below(x)) <= Cardinality(S)
    BY <1>1, FS_Subset
  <2>2. Cardinality(below(x)) \in Nat /\ Cardinality(below(x)) # 0
    BY <1>1, <2>1, FS_CardinalityType, FS_EmptySet
  <2> QED
    BY <1>1, <1>6, <2>1, <2>2
<1>8. ASSUME NEW x \in S, NEW y \in S, <<x, y>> \in R, rank[x] = rank[y]
      PROVE  x = y
  <2>1. below(x) = below(y)
    BY <1>1, <1>2, <1>7, <1>8, FS_Subset
  <2> QED
    BY <1>3, <2>1
<1>9. \A x, y \in S : rank[x] = rank[y] => x = y
  BY <1>4, <1>8
<1>10. rank \in Injection(S, 1 .. Cardinality(S))
  <2>1. rank \in [S -> 1 .. Cardinality(S)]
    BY <1>5, <1>7
  <2> QED
    BY <1>9, <2>1 DEF Injection, IsInjective
<1>11. IsFiniteSet(1 .. Cardinality(S)) /\ Cardinality(1 .. Cardinality(S)) = Cardinality(S)
  BY <1>6, FS_Interval
<1>12. rank \in Surjection(S, 1 .. Cardinality(S))
  BY <1>10, <1>11, FS_Injection
<1>13. \A k \in 1 .. Cardinality(S) : \E x \in S : rank[x] = k
  BY <1>12 DEF Surjection
<1> QED
  BY <1>6, <1>7, <1>9, <1>13 DEF rank

(* Every number up to the size of a finite set of numbers is the place of  *)
(* one of them in the order <=; so a finite set has a greatest number.     *)
LEMMA NumbersInOrder ==
  ASSUME NEW S, S \subseteq Nat, IsFiniteSet(S)
  PROVE  /\ Cardinality(S) \in Nat
         /\ \A k \in 1 .. Cardinality(S) : \E d \in S : Cardinality({e \in S : e <= d}) = k
         /\ S # {} => \E d \in S : \A e \in S : e <= d
<1>0. PICK R : R = {p \in S \X S : p[1] <= p[2]}
  OBVIOUS
<1>1. \A x, y \in S : <<x, y>> \in R <=> x <= y
  BY <1>0
<1>2. \A x \in S : {y \in S : <<y, x>> \in R} = {e \in S : e <= x}
  BY <1>1
<1>3. Orders(R, S)
  BY <1>1 DEF Orders
<1>4. /\ Cardinality(S) \in Nat
      /\ \A k \in 1 .. Cardinality(S) : \E x \in S : Cardinality({y \in S : <<y, x>> \in R}) = k
  <2>1. \A x \in S : Ranking(R, S)[x] = Cardinality({y \in S : <<y, x>> \in R})
    BY DEF Ranking
  <2>2. \A k \in 1 .. Cardinality(S) : \E x \in S : Ranking(R, S)[x] = k
    BY ONLY IsFiniteSet(S), <1>3, Ranks
  <2>3. Cardinality(S) \in Nat
    BY FS_CardinalityType
  <2> QED
    BY <2>1, <2>2, <2>3
<1>5. \A k \in 1 .. Cardinality(S) : \E d \in S : Cardinality({e \in S : e <= d}) = k
  BY <1>2, <1>4
<1>6. ASSUME S # {} PROVE \E d \in S : \A e \in S : e <= d
  <2>1. Cardinality(S) \in 1 .. Cardinality(S)
    BY <1>4, <1>6, FS_EmptySet
  <2>2. PICK d \in S : Cardinality({e \in S : e <= d}) = Cardinality(S)
    BY <1>5, <2>1
  <2>3. {e \in S : e <= d} = S
    BY <2>2, FS_Subset
  <2> QED
    BY <2>3
<1> QED
  BY <1>4, <1>5, <1>6

(* Max takes the greatest member, so Outcome looks at the last mutation of *)
(* a document (transaction.go:225, the batch keeps the last of a key).     *)
LEMMA MaxIsGreatest ==
  ASSUME NEW S, S \subseteq Nat, IsFiniteSet(S), S # {}
  PROVE  Max(S) \in S /\ \A e \in S : e <= Max(S)
<1>1. \E d \in S : \A e \in S : d >= e
  BY NumbersInOrder
<1> QED
  BY <1>1 DEF Max


(* A list with nothing left is empty.                                      *)
LEMMA EmptyIsZero == \A S : \A s \in Seq(S) : s = <<>> <=> Len(s) = 0
OBVIOUS

-----------------------------------------------------------------------------
(* Lemmas about the operators of module Transactions.                      *)

(* The documents of a set, in order, are documents of the set.             *)
LEMMA InOrderType ==
  ASSUME NEW ds, ds \subseteq Docs
  PROVE  /\ Cardinality(ds) \in Nat
         /\ \A k \in 1 .. Cardinality(ds) : InOrder(ds)[k] \in ds
<1>1. IsFiniteSet(ds) /\ ds \subseteq Nat
  BY TransactionsAssumption, FS_Subset DEF TransactionsAssumption
<1>2. /\ Cardinality(ds) \in Nat
      /\ \A k \in 1 .. Cardinality(ds) : \E d \in ds : Cardinality({e \in ds : e <= d}) = k
  BY <1>1, NumbersInOrder
<1> QED
  BY <1>2 DEF InOrder

(* Each mutation has a place of its own and each place a mutation; the     *)
(* documents grow with the places.  So LockList has the stripe of every    *)
(* document the transaction touches, and nothing else, in key order.       *)
LEMMA Places ==
  ASSUME TypeOK, NEW t \in Txs
  PROVE  /\ LockList(t) \in Seq(Stripes) /\ Len(LockList(t)) = Len(muts[t])
         /\ DOMAIN muts[t] = 1 .. Len(muts[t]) /\ Len(muts[t]) \in Nat
         /\ \A k \in DOMAIN muts[t] : AtPlace(t, k) \in DOMAIN muts[t] /\ Place(t, AtPlace(t, k)) = k
         /\ \A i \in DOMAIN muts[t] : Place(t, i) \in DOMAIN muts[t] /\ AtPlace(t, Place(t, i)) = i
         /\ \A j, k \in DOMAIN muts[t] : j <= k => LockDoc(t, j) <= LockDoc(t, k)
         /\ \A k \in DOMAIN muts[t] : LockDoc(t, k) \in Docs
<1> DEFINE S == DOMAIN muts[t]
           doc(i) == muts[t][i].doc
           before(j, i) == doc(j) < doc(i) \/ (doc(j) = doc(i) /\ j <= i)
<1>1. muts[t] \in Seq(Mutation) /\ Len(muts[t]) \in Nat /\ S = 1 .. Len(muts[t])
  BY DEF TypeOK
<1>2. S \subseteq Nat /\ IsFiniteSet(S) /\ Cardinality(S) = Len(muts[t])
  BY <1>1, FS_Interval
<1>3. \A i \in S : doc(i) \in Docs /\ doc(i) \in Nat
  <2>1. \A i \in S : muts[t][i] \in Mutation
    BY <1>1
  <2>2. \A m \in Mutation : m.doc \in Docs
    BY DEF Mutation
  <2>3. Docs \subseteq Nat
    BY TransactionsAssumption DEF TransactionsAssumption
  <2> QED
    BY <2>1, <2>2, <2>3
<1>4. PICK R : R = {p \in S \X S : before(p[1], p[2])}
  OBVIOUS
<1>5. \A j, i \in S : <<j, i>> \in R <=> before(j, i)
  BY <1>4
<1>6. Orders(R, S)
  <2> HIDE DEF doc, S
  <2> QED
    BY <1>2, <1>3, <1>5 DEF Orders
<1>7. \A i \in S : Ranking(R, S)[i] = Place(t, i)
  <2>1. \A i \in S : {j \in S : <<j, i>> \in R} = {j \in S : before(j, i)}
    BY <1>5
  <2> QED
    BY <2>1 DEF Ranking, Place
<1> HIDE DEF S
<1>8. /\ \A i \in S : Ranking(R, S)[i] \in 1 .. Cardinality(S)
      /\ \A i, j \in S : Ranking(R, S)[i] = Ranking(R, S)[j] => i = j
      /\ \A k \in 1 .. Cardinality(S) : \E i \in S : Ranking(R, S)[i] = k
  <2>1. IsFiniteSet(S)
    BY <1>2
  <2> QED
    BY ONLY <2>1, <1>6, Ranks
<1>9. /\ \A i \in S : Place(t, i) \in S
      /\ \A i, j \in S : Place(t, i) = Place(t, j) => i = j
      /\ \A k \in S : \E i \in S : Place(t, i) = k
  <2>1. S = 1 .. Cardinality(S)
    BY <1>1, <1>2
  <2>2. \A i \in S : Place(t, i) \in S
    BY ONLY <1>7, <1>8, <2>1
  <2>3. \A i, j \in S : Place(t, i) = Place(t, j) => i = j
    BY ONLY <1>7, <1>8
  <2>4. ASSUME NEW k \in S PROVE \E i \in S : Place(t, i) = k
    <3>1. k \in 1 .. Cardinality(S)
      BY <2>1
    <3>2. PICK i \in S : Ranking(R, S)[i] = k
      BY <1>8, <3>1
    <3> QED
      BY <1>7, <3>2
  <2> QED
    BY <2>2, <2>3, <2>4
<1>10. \A k \in S : AtPlace(t, k) \in S /\ Place(t, AtPlace(t, k)) = k
  BY <1>9 DEF AtPlace, S
<1>11. \A i \in S : AtPlace(t, Place(t, i)) = i
  BY <1>9, <1>10
<1>12. \A k \in S : LockDoc(t, k) = doc(AtPlace(t, k)) /\ LockDoc(t, k) \in Docs
  BY <1>3, <1>10 DEF LockDoc
<1>13. LockList(t) \in Seq(Stripes) /\ Len(LockList(t)) = Len(muts[t])
  <2>1. \A k \in S : stripe[LockDoc(t, k)] \in Stripes
    BY <1>12 DEF TypeOK
  <2> QED
    BY <1>1, <2>1 DEF LockList, S
<1>14. ASSUME NEW j \in S, NEW k \in S, j <= k PROVE LockDoc(t, j) <= LockDoc(t, k)
  <2> DEFINE a == AtPlace(t, j)
             b == AtPlace(t, k)
  <2>1. a \in S /\ b \in S /\ Place(t, a) = j /\ Place(t, b) = k
    BY <1>10
  <2>2. CASE before(a, b)
    BY <1>3, <1>12, <2>1, <2>2
  <2>3. CASE ~before(a, b)
    <3>1. before(b, a)
      BY <1>5, <1>6, <2>1, <2>3 DEF Orders
    <3>2. {i \in S : before(i, b)} \subseteq {i \in S : before(i, a)}
      <4>1. \A i \in S : before(i, b) => before(i, a)
        BY <1>5, <1>6, <2>1, <3>1 DEF Orders
      <4> HIDE DEF before
      <4> QED
        BY <4>1
    <3>3. IsFiniteSet({i \in S : before(i, a)})
      BY <1>2, FS_Subset
    <3>4. Place(t, a) = Cardinality({i \in S : before(i, a)}) /\ Place(t, b) = Cardinality({i \in S : before(i, b)})
      BY DEF Place, S
    <3>5. Place(t, b) <= Place(t, a)
      BY <3>2, <3>3, <3>4, FS_Subset
    <3>6. j = k
      BY <1>2, <1>14, <2>1, <3>5
    <3> QED
      <4>1. LockDoc(t, k) \in Nat /\ LockDoc(t, j) = LockDoc(t, k)
        BY <1>12, <3>6, TransactionsAssumption DEF TransactionsAssumption
      <4> QED
        BY <4>1
  <2> QED
    BY <2>2, <2>3
<1> QED
  BY <1>1, <1>9, <1>10, <1>11, <1>12, <1>13, <1>14 DEF S

(* What places and stripes say of a transaction depends on its own part of *)
(* the state only.                                                         *)
LEMMA SameList ==
  ASSUME NEW t, muts'[t] = muts[t], stripe' = stripe
  PROVE  LockList(t)' = LockList(t)
BY DEF LockList, LockDoc, AtPlace, Place

(* A transaction whose mutations and place stay holds the places it held.  *)
LEMMA SameView ==
  ASSUME NEW t, muts'[t] = muts[t], stripe' = stripe, at'[t] = at[t], todo'[t] = todo[t]
  PROVE  /\ LockList(t)' = LockList(t) /\ HeldPlaces(t)' = HeldPlaces(t)
         /\ TodoIsRest(t) => TodoIsRest(t)'
<1>1. LockList(t)' = LockList(t)
  BY SameList
<1>2. HeldPlaces(t)' = HeldPlaces(t)
  BY DEF HeldPlaces, Visited, Applying
<1>3. TodoIsRest(t) => TodoIsRest(t)'
  BY <1>1 DEF TodoIsRest, Visited
<1> QED
  BY <1>1, <1>2, <1>3

-----------------------------------------------------------------------------
(* Before the first transaction the inductive invariant holds.             *)
LEMMA InitIInv == Init => IInv
<1> SUFFICES ASSUME Init PROVE IInv
  OBVIOUS
<1> USE TransactionsAssumption DEF TransactionsAssumption
<1>1. TypeOK
  <2>1. /\ stripe \in [Docs -> Stripes] /\ holder \in [Stripes -> Txs \cup Writers \cup {Nobody}]
        /\ status \in [Txs -> {"none", "pending", "committed", "aborted"}]
        /\ at \in [Txs -> Phases] /\ writing \in [Writers -> {"new", "locked", "done"}]
        /\ raced \subseteq Docs /\ applied \subseteq Txs
        /\ fatal \in BOOLEAN /\ stolen \in BOOLEAN
    BY DEF Init, Phases
  <2>2. /\ muts \in [Txs -> Seq(Mutation)] /\ \A t \in Txs : Len(muts[t]) <= MaxMutations
        /\ todo \in [Txs -> Seq(Stripes)] /\ retry \in [Txs -> 0 .. MaxRetries]
    BY DEF Init
  <2>3. /\ store \in [Docs -> 0 .. MaxVersion] /\ cached \in [Docs -> 0 .. MaxVersion]
        /\ had \in [Read -> SUBSET (1 .. MaxVersion)] /\ misled \subseteq Docs
    BY DEF Init
  <2> QED
    BY <2>1, <2>2, <2>3 DEF TypeOK
<1>2. \A t \in Txs : Lifecycle(t)
  BY DEF Init, Lifecycle
<1>3. \A t \in Txs : TodoIsRest(t)
  BY DEF Init, TodoIsRest
<1>4. HoldsOnlyPlaces /\ HoldsPlaces /\ LostByAbort
  BY DEF Init, HoldsOnlyPlaces, HoldsPlaces, LostByAbort, HeldPlaces
<1>5. StaysFresh
  BY DEF Init, StaysFresh
<1> QED
  BY <1>1, <1>2, <1>3, <1>4, <1>5 DEF IInv

-----------------------------------------------------------------------------
(* Lemmas about the values actions store.                                  *)

(* The last mutation of a document a transaction touches decides.          *)
LEMMA OutcomeIsLast ==
  ASSUME TypeOK, NEW t \in Txs, NEW d \in Touched(t)
  PROVE  /\ d \in Docs
         /\ \E m \in Range(muts[t]) :
              m.doc = d /\ m \in Mutation /\ Outcome(t, d) = IF m.type = "set" THEN m.version ELSE 0
         /\ Outcome(t, d) \in 0 .. MaxVersion
<1> DEFINE S == {i \in DOMAIN muts[t] : muts[t][i].doc = d}
           i == Max(S)
<1>1. muts[t] \in Seq(Mutation) /\ DOMAIN muts[t] = 1 .. Len(muts[t]) /\ Len(muts[t]) \in Nat
  BY DEF TypeOK
<1>2. S # {}
  BY DEF Touched, Range
<1>3. S \subseteq Nat /\ IsFiniteSet(S)
  <2>1. S \in SUBSET (1 .. Len(muts[t])) /\ IsFiniteSet(1 .. Len(muts[t]))
    BY <1>1, FS_Interval
  <2>2. S \subseteq Nat
    BY <1>1
  <2> HIDE DEF S
  <2>3. IsFiniteSet(S)
    BY <2>1, FS_Subset
  <2> QED
    BY <2>2, <2>3
<1>4. i \in S
  <2> HIDE DEF S
  <2> QED
    BY <1>2, <1>3, MaxIsGreatest
<1>5. muts[t][i] \in Mutation /\ muts[t][i].doc = d /\ muts[t][i] \in Range(muts[t])
  <2>1. i \in DOMAIN muts[t] /\ muts[t][i].doc = d
    BY <1>4
  <2> HIDE DEF i, S
  <2> QED
    BY <1>1, <2>1 DEF Range
<1>6. Outcome(t, d) = IF muts[t][i].type = "set" THEN muts[t][i].version ELSE 0
  BY DEF Outcome
<1> HIDE DEF i
<1>7. muts[t][i].version \in 0 .. MaxVersion /\ d \in Docs
  BY <1>5, TransactionsAssumption DEF Mutation, TransactionsAssumption
<1>8. 0 \in 0 .. MaxVersion
  BY TransactionsAssumption DEF TransactionsAssumption
<1> QED
  BY <1>5, <1>6, <1>7, <1>8

(* What a flush stores are versions.                                       *)
LEMMA AfterType ==
  ASSUME TypeOK, NEW t \in Txs, NEW ds \in SUBSET Touched(t)
  PROVE  After(t, ds) \in [Docs -> 0 .. MaxVersion]
<1>1. \A d \in ds : Outcome(t, d) \in 0 .. MaxVersion
  BY OutcomeIsLast
<1> QED
  BY <1>1 DEF After, TypeOK

(* Badger's versions, those it has had and those in the cache are versions.*)
LEMMA StoreType ==
  ASSUME TypeOK, NEW new \in [Docs -> 0 .. MaxVersion], Store(new)
  PROVE  store' \in [Docs -> 0 .. MaxVersion] /\ had' \in [Read -> SUBSET (1 .. MaxVersion)]
<1>1. \A d \in Read : had[d] \in SUBSET (1 .. MaxVersion) /\ new[d] \in 0 .. MaxVersion
  BY TransactionsAssumption DEF TypeOK, TransactionsAssumption
<1>2. \A d \in Read : had[d] \cup ({new[d]} \ {0}) \in SUBSET (1 .. MaxVersion)
  BY <1>1, TransactionsAssumption DEF TransactionsAssumption
<1> QED
  BY <1>2 DEF Store

LEMMA GivenType ==
  ASSUME TypeOK, NEW t \in Txs, NEW new
  PROVE  Given(t, Touched(t), new) \in [Docs -> 0 .. MaxVersion]
<1>1. \A d \in Touched(t) : Outcome(t, d) \in 0 .. MaxVersion
  BY OutcomeIsLast
<1>2. 0 \in 0 .. MaxVersion
  BY TransactionsAssumption DEF TransactionsAssumption
<1> QED
  BY <1>1, <1>2 DEF Given, TypeOK

(* The mutations an operation gathers are mutations.                       *)
LEMMA GatheredType ==
  ASSUME NEW ds, ds \subseteq Docs, NEW type \in {"set", "delete"},
         NEW version, \A d \in ds : version[d] \in 0 .. MaxVersion
  PROVE  Mutate(ds, type, version) \in Seq(Mutation)
<1>1. Cardinality(ds) \in Nat /\ \A k \in 1 .. Cardinality(ds) : InOrder(ds)[k] \in ds
  BY InOrderType
<1> DEFINE m(d) == [doc |-> d, type |-> type, version |-> version[d]]
<1>2. \A d \in ds : m(d) \in Mutation
  BY DEF Mutation
<1>3. Mutate(ds, type, version) = [k \in 1 .. Cardinality(ds) |-> m(InOrder(ds)[k])]
  BY DEF Mutate
<1> HIDE DEF m
<1> QED
  BY <1>1, <1>2, <1>3

-----------------------------------------------------------------------------
(* Every step leaves every variable a value of its kind; the retries stay  *)
(* within maxRetries because a transaction that works has one left.        *)
LEMMA TypeStep == IInv /\ [Next]_vars => TypeOK'
<1> SUFFICES ASSUME IInv, [Next]_vars PROVE TypeOK'
  OBVIOUS
<1>0. TypeOK
  BY DEF IInv
<1> USE <1>0
<1>1. ASSUME NEW t \in Txs, Begin(t) PROVE TypeOK'
  BY <1>1 DEF Begin, TypeOK, lockVars, txVars, dataVars, End, Open, Freed, Phases
<1>2. ASSUME NEW t \in Txs, CommitEmpty(t) PROVE TypeOK'
  <2>1. <<>> \in Seq(Mutation) /\ Len(<<>>) <= MaxMutations /\ 0 \in 0 .. MaxRetries
    BY TransactionsAssumption DEF TransactionsAssumption
  <2> QED
    BY <1>2, <2>1 DEF CommitEmpty, End, TypeOK, lockVars, dataVars, Phases
<1>3. ASSUME NEW t \in Txs, Commit(t) PROVE TypeOK'
  <2>1. LockList(t) \in Seq(Stripes)
    BY Places
  <2> QED
    BY <1>3, <2>1 DEF Commit, TypeOK, lockVars, txVars, dataVars, Phases
<1>4. ASSUME NEW t \in Txs, Abort(t) PROVE TypeOK'
  <2>1. LockList(t) \in Seq(Stripes)
    BY Places
  <2> QED
    BY <1>4, <2>1 DEF Abort, TypeOK, lockVars, txVars, dataVars, Phases
<1>5. ASSUME NEW t \in Txs, NEW d \in Docs, Insert(t, d) PROVE TypeOK'
  <2>1. <<[doc |-> d, type |-> "set", version |-> 1]>> \in Seq(Mutation)
    BY TransactionsAssumption DEF Mutation, TransactionsAssumption
  <2> QED
    BY <1>5, <2>1 DEF Insert, Gather, TypeOK, lockVars, dataVars
<1>6. ASSUME NEW t \in Txs, NEW ds \in SUBSET Docs, Update(t, ds) PROVE TypeOK'
  <2>1. PICK seen \in Views :
          /\ ds \subseteq {d \in Docs : ~IsModified(t, d) /\ seen[d] \in 1 .. MaxVersion - 1}
          /\ Gather(t, Mutate(ds, "set", [d \in Docs |-> seen[d] + 1]))
    BY <1>6 DEF Update
  <2>2. \A d \in ds : [e \in Docs |-> seen[e] + 1][d] \in 0 .. MaxVersion
    BY <2>1, TransactionsAssumption DEF TransactionsAssumption
  <2> DEFINE version == [d \in Docs |-> seen[d] + 1]
  <2>3. Mutate(ds, "set", version) \in Seq(Mutation)
    <3>1. ds \subseteq Docs /\ \A d \in ds : version[d] \in 0 .. MaxVersion
      BY <2>2
    <3> HIDE DEF version
    <3> QED
      BY <3>1, GatheredType
  <2>4. PICK new \in Seq(Mutation) : Gather(t, new)
    BY <2>1, <2>3
  <2> QED
    BY <2>4 DEF Gather, TypeOK, lockVars, dataVars
<1>7. ASSUME NEW t \in Txs, NEW ds \in SUBSET Docs, Delete(t, ds) PROVE TypeOK'
  <2>1. Gather(t, Mutate(ds, "delete", [d \in Docs |-> 0]))
    BY <1>7 DEF Delete
  <2>2. \A d \in ds : [e \in Docs |-> 0][d] \in 0 .. MaxVersion
    BY TransactionsAssumption DEF TransactionsAssumption
  <2> DEFINE version == [d \in Docs |-> 0]
  <2>3. Mutate(ds, "delete", version) \in Seq(Mutation)
    <3>1. ds \subseteq Docs /\ \A d \in ds : version[d] \in 0 .. MaxVersion
      BY <2>2
    <3> HIDE DEF version
    <3> QED
      BY <3>1, GatheredType
  <2>4. PICK new \in Seq(Mutation) : Gather(t, new)
    BY <2>1, <2>3
  <2> QED
    BY <2>4 DEF Gather, TypeOK, lockVars, dataVars
<1>8. ASSUME NEW t \in Txs, LockNext(t) PROVE TypeOK'
  <2>1. Head(todo[t]) \in Stripes /\ Tail(todo[t]) \in Seq(Stripes)
    BY <1>8 DEF LockNext, TypeOK
  <2> QED
    BY <1>8, <2>1 DEF LockNext, TypeOK, dataVars, Phases
<1>9. ASSUME NEW t \in Txs, Validate(t) PROVE TypeOK'
  <2>1. LockList(t) \in Seq(Stripes)
    BY Places
  <2>2. at[t] = "validate" /\ retry[t] < MaxRetries
    BY <1>9 DEF Validate, IInv, Lifecycle
  <2>3. retry' \in [Txs -> 0 .. MaxRetries]
    BY <1>9, <2>2, TransactionsAssumption DEF Validate, TypeOK, TransactionsAssumption
  <2>4. misled' \subseteq Docs
    <3>1. Touched(t) \subseteq Docs
      BY OutcomeIsLast
    <3>2. misled' = misled \/ misled' = misled \cup {d \in Touched(t) : Existing(d) < store[d]}
      BY <1>9 DEF Validate
    <3> QED
      BY <3>1, <3>2 DEF TypeOK
  <2> QED
    BY <1>9, <2>1, <2>3, <2>4 DEF Validate, TypeOK, lockVars, dataVars, Phases
<1>10. ASSUME NEW t \in Txs, Flush(t) PROVE TypeOK'
  <2>1. LockList(t) \in Seq(Stripes)
    BY Places
  <2>2. store' \in [Docs -> 0 .. MaxVersion] /\ had' \in [Read -> SUBSET (1 .. MaxVersion)]
    BY <1>10, AfterType, StoreType DEF Flush
  <2>3. cached' \in [Docs -> 0 .. MaxVersion]
    BY <1>10, GivenType DEF Flush
  <2> QED
    BY <1>10, <2>1, <2>2, <2>3 DEF Flush, TypeOK, lockVars, Phases
<1>11. ASSUME NEW t \in Txs, FlushFails(t) PROVE TypeOK'
  <2>1. LockList(t) \in Seq(Stripes)
    BY Places
  <2>0. PICK ds \in SUBSET Touched(t) : Store(After(t, ds)) /\ cached' = Given(t, Touched(t), store')
    BY <1>11 DEF FlushFails
  <2>2. store' \in [Docs -> 0 .. MaxVersion] /\ had' \in [Read -> SUBSET (1 .. MaxVersion)]
    BY <2>0, AfterType, StoreType
  <2>3. cached' \in [Docs -> 0 .. MaxVersion]
    BY <2>0, GivenType
  <2>4. at[t] = "flush" /\ retry[t] < MaxRetries
    BY <1>11 DEF FlushFails, IInv, Lifecycle
  <2>5. retry' \in [Txs -> 0 .. MaxRetries]
    BY <1>11, <2>4, TransactionsAssumption DEF FlushFails, TypeOK, TransactionsAssumption
  <2> QED
    BY <1>11, <2>1, <2>2, <2>3, <2>5 DEF FlushFails, TypeOK, lockVars, Phases
<1>12. ASSUME NEW t \in Txs, UnlockNext(t) PROVE TypeOK'
  <2>1. Head(todo[t]) \in Stripes /\ Tail(todo[t]) \in Seq(Stripes)
    BY <1>12 DEF UnlockNext, TypeOK
  <2> QED
    BY <1>12, <2>1 DEF UnlockNext, Unlock, TypeOK, dataVars, Phases
<1>13. ASSUME NEW t \in Txs, Retry(t) PROVE TypeOK'
  <2>1. LockList(t) \in Seq(Stripes)
    BY Places
  <2> QED
    BY <1>13, <2>1 DEF Retry, TypeOK, lockVars, txVars, dataVars, Phases
<1>14. ASSUME NEW t \in Txs, GiveUp(t) PROVE TypeOK'
  <2>1. <<>> \in Seq(Mutation) /\ Len(<<>>) <= MaxMutations /\ 0 \in 0 .. MaxRetries
    BY TransactionsAssumption DEF TransactionsAssumption
  <2> QED
    BY <1>14, <2>1 DEF GiveUp, End, TypeOK, lockVars, dataVars, Phases
<1>15. ASSUME NEW t \in Txs, Committed(t) PROVE TypeOK'
  <2>1. <<>> \in Seq(Mutation) /\ Len(<<>>) <= MaxMutations /\ 0 \in 0 .. MaxRetries
    BY TransactionsAssumption DEF TransactionsAssumption
  <2> QED
    BY <1>15, <2>1 DEF Committed, End, TypeOK, lockVars, dataVars, Phases
<1>16. ASSUME NEW t \in Txs, Released(t) PROVE TypeOK'
  <2>1. <<>> \in Seq(Mutation) /\ Len(<<>>) <= MaxMutations /\ 0 \in 0 .. MaxRetries
    BY TransactionsAssumption DEF TransactionsAssumption
  <2> QED
    BY <1>16, <2>1 DEF Released, End, TypeOK, lockVars, dataVars, Phases
<1>17. ASSUME NEW w \in Writers, NEW st \in Stripes, WriterLocks(w, st) PROVE TypeOK'
  BY <1>17 DEF WriterLocks, TypeOK, txVars
<1>18. ASSUME NEW w \in Writers, NEW d \in Docs, NEW st \in Stripes, WriterWrites(w, d, st) PROVE TypeOK'
  <2>0. PICK v \in 0 .. MaxVersion : Store([store EXCEPT ![d] = v])
    BY <1>18 DEF WriterWrites
  <2>1. /\ store' \in [Docs -> 0 .. MaxVersion] /\ had' \in [Read -> SUBSET (1 .. MaxVersion)]
        /\ cached' \in [Docs -> 0 .. MaxVersion]
    <3>1. [store EXCEPT ![d] = v] \in [Docs -> 0 .. MaxVersion]
      BY DEF TypeOK
    <3>2. cached' \in [Docs -> 0 .. MaxVersion]
      BY <1>18, TransactionsAssumption DEF WriterWrites, TypeOK, TransactionsAssumption
    <3> QED
      BY <2>0, <3>1, <3>2, StoreType
  <2>2. raced' \subseteq Docs
    BY <1>18 DEF WriterWrites, TypeOK
  <2> QED
    BY <1>18, <2>1, <2>2 DEF WriterWrites, Unlock, TypeOK, txVars
<1>19. ASSUME NEW d \in Docs, Evict(d) PROVE TypeOK'
  BY <1>19, TransactionsAssumption DEF Evict, TypeOK, TransactionsAssumption, lockVars, txVars
<1>21. ASSUME NEW d \in Docs, LateFill(d) PROVE TypeOK'
  <2>1. PICK v \in had[d] : cached' = [cached EXCEPT ![d] = v]
    BY <1>21 DEF LateFill
  <2>2. v \in 0 .. MaxVersion /\ 0 \in 0 .. MaxVersion
    BY <1>21, <2>1, TransactionsAssumption DEF LateFill, TypeOK, TransactionsAssumption
  <2>3. cached' \in [Docs -> 0 .. MaxVersion]
    BY <2>1, <2>2 DEF TypeOK
  <2> QED
    BY <1>21, <2>3 DEF LateFill, TypeOK, lockVars, txVars
<1>20. CASE UNCHANGED vars
  BY <1>20 DEF vars, lockVars, txVars, dataVars, TypeOK
<1> QED
  BY <1>1, <1>2, <1>3, <1>4, <1>5, <1>6, <1>7, <1>8, <1>9, <1>10, <1>11, <1>12, <1>13, <1>14, <1>15, <1>16, <1>17, <1>18, <1>19, <1>20, <1>21 DEF Next, SessionStep, CommitStep, WriterStep

(* No step ends a transaction whose effects it has not stored, or aborts   *)
(* one whose effects are stored: Abort looks at the status under tx.mu.    *)
LEMMA LifeStep == IInv /\ [Next]_vars => \A u \in Txs : Lifecycle(u)'
<1> SUFFICES ASSUME IInv, [Next]_vars, NEW u \in Txs PROVE Lifecycle(u)'
  OBVIOUS
<1>0. TypeOK /\ \A t \in Txs : Lifecycle(t)
  BY DEF IInv
<1> USE <1>0
<1>1. ASSUME NEW t \in Txs, Begin(t) PROVE Lifecycle(u)'
  BY <1>1, TransactionsAssumption DEF Begin, TypeOK, Lifecycle, TransactionsAssumption, lockVars, txVars, dataVars, End, Open, Freed, MayRetry, Gather, Abortable
<1>2. ASSUME NEW t \in Txs, CommitEmpty(t) PROVE Lifecycle(u)'
  BY <1>2, TransactionsAssumption DEF CommitEmpty, TypeOK, Lifecycle, TransactionsAssumption, lockVars, txVars, dataVars, End, Open, Freed, MayRetry, Gather, Abortable
<1>3. ASSUME NEW t \in Txs, Commit(t) PROVE Lifecycle(u)'
  BY <1>3, TransactionsAssumption DEF Commit, TypeOK, Lifecycle, TransactionsAssumption, lockVars, txVars, dataVars, End, Open, Freed, MayRetry, Gather, Abortable
<1>4. ASSUME NEW t \in Txs, Abort(t) PROVE Lifecycle(u)'
  BY <1>4, TransactionsAssumption DEF Abort, TypeOK, Lifecycle, TransactionsAssumption, lockVars, txVars, dataVars, End, Open, Freed, MayRetry, Gather, Abortable
<1>5. ASSUME NEW t \in Txs, NEW d \in Docs, Insert(t, d) PROVE Lifecycle(u)'
  BY <1>5, TransactionsAssumption DEF Insert, TypeOK, Lifecycle, TransactionsAssumption, lockVars, txVars, dataVars, End, Open, Freed, MayRetry, Gather, Abortable
<1>6. ASSUME NEW t \in Txs, NEW ds \in SUBSET Docs, Update(t, ds) PROVE Lifecycle(u)'
  BY <1>6, TransactionsAssumption DEF Update, TypeOK, Lifecycle, TransactionsAssumption, lockVars, txVars, dataVars, End, Open, Freed, MayRetry, Gather, Abortable
<1>7. ASSUME NEW t \in Txs, NEW ds \in SUBSET Docs, Delete(t, ds) PROVE Lifecycle(u)'
  BY <1>7, TransactionsAssumption DEF Delete, TypeOK, Lifecycle, TransactionsAssumption, lockVars, txVars, dataVars, End, Open, Freed, MayRetry, Gather, Abortable
<1>8. ASSUME NEW t \in Txs, LockNext(t) PROVE Lifecycle(u)'
  BY <1>8, TransactionsAssumption DEF LockNext, TypeOK, Lifecycle, TransactionsAssumption, lockVars, txVars, dataVars, End, Open, Freed, MayRetry, Gather, Abortable
<1>9. ASSUME NEW t \in Txs, Validate(t) PROVE Lifecycle(u)'
  BY <1>9, TransactionsAssumption DEF Validate, TypeOK, Lifecycle, TransactionsAssumption, lockVars, txVars, dataVars, End, Open, Freed, MayRetry, Gather, Abortable
<1>10. ASSUME NEW t \in Txs, Flush(t) PROVE Lifecycle(u)'
  BY <1>10, TransactionsAssumption DEF Flush, TypeOK, Lifecycle, TransactionsAssumption, lockVars, txVars, dataVars, End, Open, Freed, MayRetry, Gather, Abortable
<1>11. ASSUME NEW t \in Txs, FlushFails(t) PROVE Lifecycle(u)'
  BY <1>11, TransactionsAssumption DEF FlushFails, TypeOK, Lifecycle, TransactionsAssumption, lockVars, txVars, dataVars, End, Open, Freed, MayRetry, Gather, Abortable
<1>12. ASSUME NEW t \in Txs, UnlockNext(t) PROVE Lifecycle(u)'
  BY <1>12, TransactionsAssumption DEF UnlockNext, TypeOK, Lifecycle, TransactionsAssumption, lockVars, txVars, dataVars, End, Open, Freed, MayRetry, Gather, Abortable
<1>13. ASSUME NEW t \in Txs, Retry(t) PROVE Lifecycle(u)'
  BY <1>13, TransactionsAssumption DEF Retry, TypeOK, Lifecycle, TransactionsAssumption, lockVars, txVars, dataVars, End, Open, Freed, MayRetry, Gather, Abortable
<1>14. ASSUME NEW t \in Txs, GiveUp(t) PROVE Lifecycle(u)'
  BY <1>14, TransactionsAssumption DEF GiveUp, TypeOK, Lifecycle, TransactionsAssumption, lockVars, txVars, dataVars, End, Open, Freed, MayRetry, Gather, Abortable
<1>15. ASSUME NEW t \in Txs, Committed(t) PROVE Lifecycle(u)'
  BY <1>15, TransactionsAssumption DEF Committed, TypeOK, Lifecycle, TransactionsAssumption, lockVars, txVars, dataVars, End, Open, Freed, MayRetry, Gather, Abortable
<1>16. ASSUME NEW t \in Txs, Released(t) PROVE Lifecycle(u)'
  BY <1>16, TransactionsAssumption DEF Released, TypeOK, Lifecycle, TransactionsAssumption, lockVars, txVars, dataVars, End, Open, Freed, MayRetry, Gather, Abortable
<1>17. ASSUME NEW w \in Writers, NEW st \in Stripes, WriterLocks(w, st) PROVE Lifecycle(u)'
  BY <1>17 DEF WriterLocks, txVars, Lifecycle
<1>18. ASSUME NEW w \in Writers, NEW d \in Docs, NEW st \in Stripes, WriterWrites(w, d, st) PROVE Lifecycle(u)'
  BY <1>18 DEF WriterWrites, txVars, Lifecycle
<1>19. ASSUME NEW d \in Docs, Evict(d) PROVE Lifecycle(u)'
  BY <1>19 DEF Evict, txVars, Lifecycle
<1>21. ASSUME NEW d \in Docs, LateFill(d) PROVE Lifecycle(u)'
  BY <1>21 DEF LateFill, txVars, Lifecycle
<1>20. CASE UNCHANGED vars
  BY <1>20 DEF vars, txVars, dataVars, Lifecycle
<1> QED
  BY <1>1, <1>2, <1>3, <1>4, <1>5, <1>6, <1>7, <1>8, <1>9, <1>10, <1>11, <1>12, <1>13, <1>14, <1>15, <1>16, <1>17, <1>18, <1>19, <1>20, <1>21 DEF Next, SessionStep, CommitStep, WriterStep

(* What is left of a call's list is its end, whatever step comes.          *)
LEMMA RestStep == IInv /\ [Next]_vars => \A u \in Txs : TodoIsRest(u)'
<1> SUFFICES ASSUME IInv, [Next]_vars, NEW u \in Txs PROVE TodoIsRest(u)'
  OBVIOUS
<1>0. TypeOK /\ \A t \in Txs : Lifecycle(t) /\ TodoIsRest(t)
  BY DEF IInv
<1> USE <1>0
<1>1. ASSUME NEW t \in Txs, Begin(t) PROVE TodoIsRest(u)'
  <2>1. CASE u # t
    BY <1>1, <2>1, SameView DEF Begin, TypeOK, lockVars, txVars, dataVars, Gather, End, Unlock
  <2>2. CASE u = t
    <3>1. todo'[t] = <<>> /\ at'[t] = "idle" /\ muts'[t] \in Seq(Mutation)
      BY <1>1, TypeStep DEF Begin, TypeOK, lockVars, dataVars, Gather, Open, TodoIsRest, End, Freed, Lifecycle
    <3> QED
      BY <2>2, <3>1 DEF TodoIsRest
  <2> QED
    BY <2>1, <2>2
<1>2. ASSUME NEW t \in Txs, CommitEmpty(t) PROVE TodoIsRest(u)'
  <2>1. CASE u # t
    BY <1>2, <2>1, SameView DEF CommitEmpty, TypeOK, lockVars, txVars, dataVars, Gather, End, Unlock
  <2>2. CASE u = t
    <3>1. todo'[t] = <<>> /\ at'[t] = "idle" /\ muts'[t] \in Seq(Mutation)
      BY <1>2, TypeStep DEF CommitEmpty, TypeOK, lockVars, dataVars, Gather, Open, TodoIsRest, End, Freed, Lifecycle
    <3> QED
      BY <2>2, <3>1 DEF TodoIsRest
  <2> QED
    BY <2>1, <2>2
<1>3. ASSUME NEW t \in Txs, Commit(t) PROVE TodoIsRest(u)'
  <2>1. CASE u # t
    BY <1>3, <2>1, SameView DEF Commit, TypeOK, lockVars, txVars, dataVars, Gather, End, Unlock
  <2>2. CASE u = t
    <3>1. LockList(t)' = LockList(t)
      BY <1>3, SameList DEF Commit, lockVars
    <3>2. todo'[t] = LockList(t) /\ muts'[t] = muts[t] /\ at'[t] \notin {"idle", "validate", "flush"}
          /\ (at'[t] = "lock" => muts[t] # <<>>)
      BY <1>3 DEF Commit, TypeOK, Freed, Open, Lifecycle
    <3>3. Len(muts[t]) \in Nat /\ (at'[t] = "lock" => Len(muts[t]) # 0)
      BY <3>2 DEF TypeOK
    <3> QED
      BY <2>2, <3>1, <3>2, <3>3, Places DEF TodoIsRest, Visited
  <2> QED
    BY <2>1, <2>2
<1>4. ASSUME NEW t \in Txs, Abort(t) PROVE TodoIsRest(u)'
  <2>1. CASE u # t
    BY <1>4, <2>1, SameView DEF Abort, TypeOK, lockVars, txVars, dataVars, Gather, End, Unlock
  <2>2. CASE u = t
    <3>1. LockList(t)' = LockList(t)
      BY <1>4, SameList DEF Abort, lockVars
    <3>2. todo'[t] = LockList(t) /\ muts'[t] = muts[t] /\ at'[t] \notin {"idle", "validate", "flush"}
          /\ (at'[t] = "lock" => muts[t] # <<>>)
      BY <1>4 DEF Abort, TypeOK, Freed, Open, Lifecycle
    <3>3. Len(muts[t]) \in Nat /\ (at'[t] = "lock" => Len(muts[t]) # 0)
      BY <3>2 DEF TypeOK
    <3> QED
      BY <2>2, <3>1, <3>2, <3>3, Places DEF TodoIsRest, Visited
  <2> QED
    BY <2>1, <2>2
<1>5. ASSUME NEW t \in Txs, NEW d \in Docs, Insert(t, d) PROVE TodoIsRest(u)'
  <2>1. CASE u # t
    BY <1>5, <2>1, SameView DEF Insert, TypeOK, lockVars, txVars, dataVars, Gather, End, Unlock
  <2>2. CASE u = t
    <3>1. todo'[t] = <<>> /\ at'[t] = "idle" /\ muts'[t] \in Seq(Mutation)
      BY <1>5, TypeStep DEF Insert, TypeOK, lockVars, dataVars, Gather, Open, TodoIsRest, End, Freed, Lifecycle
    <3> QED
      BY <2>2, <3>1 DEF TodoIsRest
  <2> QED
    BY <2>1, <2>2
<1>6. ASSUME NEW t \in Txs, NEW ds \in SUBSET Docs, Update(t, ds) PROVE TodoIsRest(u)'
  <2>1. CASE u # t
    BY <1>6, <2>1, SameView DEF Update, TypeOK, lockVars, txVars, dataVars, Gather, End, Unlock
  <2>2. CASE u = t
    <3>1. todo'[t] = <<>> /\ at'[t] = "idle" /\ muts'[t] \in Seq(Mutation)
      BY <1>6, TypeStep DEF Update, TypeOK, lockVars, dataVars, Gather, Open, TodoIsRest, End, Freed, Lifecycle
    <3> QED
      BY <2>2, <3>1 DEF TodoIsRest
  <2> QED
    BY <2>1, <2>2
<1>7. ASSUME NEW t \in Txs, NEW ds \in SUBSET Docs, Delete(t, ds) PROVE TodoIsRest(u)'
  <2>1. CASE u # t
    BY <1>7, <2>1, SameView DEF Delete, TypeOK, lockVars, txVars, dataVars, Gather, End, Unlock
  <2>2. CASE u = t
    <3>1. todo'[t] = <<>> /\ at'[t] = "idle" /\ muts'[t] \in Seq(Mutation)
      BY <1>7, TypeStep DEF Delete, TypeOK, lockVars, dataVars, Gather, Open, TodoIsRest, End, Freed, Lifecycle
    <3> QED
      BY <2>2, <3>1 DEF TodoIsRest
  <2> QED
    BY <2>1, <2>2
<1>8. ASSUME NEW t \in Txs, LockNext(t) PROVE TodoIsRest(u)'
  <2>1. CASE u # t
    BY <1>8, <2>1, SameView DEF LockNext, TypeOK, lockVars, txVars, dataVars, Gather, End, Unlock
  <2>2. CASE u = t
    <3>1. LockList(t)' = LockList(t) /\ muts'[t] = muts[t]
      BY <1>8, SameList DEF LockNext, Unlock
    <3>2. todo'[t] = Tail(todo[t]) /\ Len(todo[t]) \in Nat \ {0} /\ Len(todo'[t]) = Len(todo[t]) - 1
      BY <1>8 DEF LockNext, TypeOK
    <3>3. DOMAIN todo'[t] = 1 .. Len(todo[t]) - 1 /\ \A i \in DOMAIN todo'[t] : todo'[t][i] = todo[t][i + 1]
      BY <1>8 DEF LockNext, TypeOK
    <3>4. Len(muts[t]) \in Nat /\ DOMAIN todo[t] = 1 .. Len(todo[t])
      BY DEF TypeOK
    <3>5. Visited(t)' = Visited(t) + 1 /\ Visited(t) \in Nat
      <4>1. Len(todo[t]) <= Len(muts[t])
        BY DEF TodoIsRest
      <4>2. Visited(t)' = Len(muts[t]) - Len(todo'[t]) /\ Visited(t) = Len(muts[t]) - Len(todo[t])
        BY <3>1 DEF Visited
      <4>3. Len(todo'[t]) = Len(todo[t]) - 1 /\ Len(todo[t]) \in Nat
        BY <3>2
      <4> QED
        BY ONLY <3>4, <4>1, <4>2, <4>3
    <3>6. \A i \in DOMAIN todo'[t] : todo'[t][i] = LockList(t)[Visited(t) + 1 + i]
      <4>1. ASSUME NEW i \in DOMAIN todo'[t] PROVE todo'[t][i] = LockList(t)[Visited(t) + 1 + i]
        <5>0. i \in 1 .. Len(todo[t]) - 1
          BY <3>3
        <5>1. i + 1 \in DOMAIN todo[t] /\ Visited(t) + (i + 1) = Visited(t) + 1 + i
          BY ONLY <3>2, <3>4, <3>5, <5>0
        <5> QED
          BY <3>3, <5>1 DEF TodoIsRest
      <4> QED
        BY <4>1
    <3>7. /\ Len(todo'[t]) <= Len(muts'[t])
          /\ at'[t] \in {"idle", "validate", "flush"} => todo'[t] = <<>>
          /\ at'[t] = "lock" => todo'[t] # <<>>
      <4>1. Tail(todo[t]) \in Seq(Stripes) /\ Len(Tail(todo[t])) = Len(todo[t]) - 1
        BY <3>2 DEF TypeOK
      <4>2. at'[t] = IF Len(todo[t]) = 1 THEN "validate" ELSE "lock"
        BY <1>8 DEF LockNext, TypeOK
      <4>5. Len(todo'[t]) <= Len(muts'[t])
        BY <3>1, <3>2, <3>4 DEF TodoIsRest
      <4>3. CASE Len(todo[t]) = 1
        <5>1. Len(Tail(todo[t])) = 0
          BY <4>1, <4>3
        <5>2. Tail(todo[t]) = <<>>
          BY ONLY <4>1, <5>1, EmptyIsZero
        <5> QED
          BY <3>2, <4>2, <4>3, <4>5, <5>2
      <4>4. CASE Len(todo[t]) # 1
        <5>1. Len(Tail(todo[t])) # 0
          BY <3>2, <4>1, <4>4
        <5>2. Tail(todo[t]) # <<>>
          BY ONLY <4>1, <5>1, EmptyIsZero
        <5> QED
          BY <3>2, <4>2, <4>4, <4>5, <5>2
      <4> QED
        BY <4>3, <4>4
    <3> QED
      BY <2>2, <3>1, <3>5, <3>6, <3>7 DEF TodoIsRest
  <2> QED
    BY <2>1, <2>2
<1>9. ASSUME NEW t \in Txs, Validate(t) PROVE TodoIsRest(u)'
  <2>1. CASE u # t
    BY <1>9, <2>1, SameView DEF Validate, TypeOK, lockVars, txVars, dataVars, Gather, End, Unlock
  <2>2. CASE u = t /\ at'[t] = "flush"
    <3>1. todo'[t] = <<>> /\ muts'[t] \in Seq(Mutation)
      BY <1>9, <2>2, TypeStep DEF Validate, TypeOK
    <3> QED
      BY <2>2, <3>1 DEF TodoIsRest
  <2>3. CASE u = t /\ at'[t] = "failed"
    <3>1. LockList(t)' = LockList(t)
      BY <1>9, SameList DEF Validate, lockVars
    <3>2. todo'[t] = LockList(t) /\ muts'[t] = muts[t] /\ at'[t] \notin {"idle", "validate", "flush"}
          /\ (at'[t] = "lock" => muts[t] # <<>>)
      BY <1>9, <2>3 DEF Validate, TypeOK, Freed, Open, Lifecycle
    <3>3. Len(muts[t]) \in Nat /\ (at'[t] = "lock" => Len(muts[t]) # 0)
      BY <3>2 DEF TypeOK
    <3> QED
      BY <2>3, <3>1, <3>2, <3>3, Places DEF TodoIsRest, Visited
  <2>4. at'[t] \in {"flush", "failed"}
    BY <1>9 DEF Validate, TypeOK
  <2> QED
    BY <2>1, <2>2, <2>3, <2>4
<1>10. ASSUME NEW t \in Txs, Flush(t) PROVE TodoIsRest(u)'
  <2>1. CASE u # t
    BY <1>10, <2>1, SameView DEF Flush, TypeOK, lockVars, txVars, dataVars, Gather, End, Unlock
  <2>2. CASE u = t
    <3>1. LockList(t)' = LockList(t)
      BY <1>10, SameList DEF Flush, lockVars
    <3>2. todo'[t] = LockList(t) /\ muts'[t] = muts[t] /\ at'[t] \notin {"idle", "validate", "flush"}
          /\ (at'[t] = "lock" => muts[t] # <<>>)
      BY <1>10 DEF Flush, TypeOK, Freed, Open, Lifecycle
    <3>3. Len(muts[t]) \in Nat /\ (at'[t] = "lock" => Len(muts[t]) # 0)
      BY <3>2 DEF TypeOK
    <3> QED
      BY <2>2, <3>1, <3>2, <3>3, Places DEF TodoIsRest, Visited
  <2> QED
    BY <2>1, <2>2
<1>11. ASSUME NEW t \in Txs, FlushFails(t) PROVE TodoIsRest(u)'
  <2>1. CASE u # t
    BY <1>11, <2>1, SameView DEF FlushFails, TypeOK, lockVars, txVars, dataVars, Gather, End, Unlock
  <2>2. CASE u = t
    <3>1. LockList(t)' = LockList(t)
      BY <1>11, SameList DEF FlushFails, lockVars
    <3>2. todo'[t] = LockList(t) /\ muts'[t] = muts[t] /\ at'[t] \notin {"idle", "validate", "flush"}
          /\ (at'[t] = "lock" => muts[t] # <<>>)
      BY <1>11 DEF FlushFails, TypeOK, Freed, Open, Lifecycle
    <3>3. Len(muts[t]) \in Nat /\ (at'[t] = "lock" => Len(muts[t]) # 0)
      BY <3>2 DEF TypeOK
    <3> QED
      BY <2>2, <3>1, <3>2, <3>3, Places DEF TodoIsRest, Visited
  <2> QED
    BY <2>1, <2>2
<1>12. ASSUME NEW t \in Txs, UnlockNext(t) PROVE TodoIsRest(u)'
  <2>1. CASE u # t
    BY <1>12, <2>1, SameView DEF UnlockNext, TypeOK, lockVars, txVars, dataVars, Gather, End, Unlock
  <2>2. CASE u = t
    <3>1. LockList(t)' = LockList(t) /\ muts'[t] = muts[t]
      BY <1>12, SameList DEF UnlockNext, Unlock
    <3>2. todo'[t] = Tail(todo[t]) /\ Len(todo[t]) \in Nat \ {0} /\ Len(todo'[t]) = Len(todo[t]) - 1
      BY <1>12 DEF UnlockNext, TypeOK
    <3>3. DOMAIN todo'[t] = 1 .. Len(todo[t]) - 1 /\ \A i \in DOMAIN todo'[t] : todo'[t][i] = todo[t][i + 1]
      BY <1>12 DEF UnlockNext, TypeOK
    <3>4. Len(muts[t]) \in Nat /\ DOMAIN todo[t] = 1 .. Len(todo[t])
      BY DEF TypeOK
    <3>5. Visited(t)' = Visited(t) + 1 /\ Visited(t) \in Nat
      <4>1. Len(todo[t]) <= Len(muts[t])
        BY DEF TodoIsRest
      <4>2. Visited(t)' = Len(muts[t]) - Len(todo'[t]) /\ Visited(t) = Len(muts[t]) - Len(todo[t])
        BY <3>1 DEF Visited
      <4>3. Len(todo'[t]) = Len(todo[t]) - 1 /\ Len(todo[t]) \in Nat
        BY <3>2
      <4> QED
        BY ONLY <3>4, <4>1, <4>2, <4>3
    <3>6. \A i \in DOMAIN todo'[t] : todo'[t][i] = LockList(t)[Visited(t) + 1 + i]
      <4>1. ASSUME NEW i \in DOMAIN todo'[t] PROVE todo'[t][i] = LockList(t)[Visited(t) + 1 + i]
        <5>0. i \in 1 .. Len(todo[t]) - 1
          BY <3>3
        <5>1. i + 1 \in DOMAIN todo[t] /\ Visited(t) + (i + 1) = Visited(t) + 1 + i
          BY ONLY <3>2, <3>4, <3>5, <5>0
        <5> QED
          BY <3>3, <5>1 DEF TodoIsRest
      <4> QED
        BY <4>1
    <3>7. /\ Len(todo'[t]) <= Len(muts'[t])
          /\ at'[t] \in {"idle", "validate", "flush"} => todo'[t] = <<>>
          /\ at'[t] = "lock" => todo'[t] # <<>>
      BY <1>12, <3>1, <3>2, <3>4 DEF UnlockNext, TypeOK, TodoIsRest
    <3> QED
      BY <2>2, <3>1, <3>5, <3>6, <3>7 DEF TodoIsRest
  <2> QED
    BY <2>1, <2>2
<1>13. ASSUME NEW t \in Txs, Retry(t) PROVE TodoIsRest(u)'
  <2>1. CASE u # t
    BY <1>13, <2>1, SameView DEF Retry, TypeOK, lockVars, txVars, dataVars, Gather, End, Unlock
  <2>2. CASE u = t
    <3>1. LockList(t)' = LockList(t)
      BY <1>13, SameList DEF Retry, lockVars
    <3>2. todo'[t] = LockList(t) /\ muts'[t] = muts[t] /\ at'[t] \notin {"idle", "validate", "flush"}
          /\ (at'[t] = "lock" => muts[t] # <<>>)
      BY <1>13 DEF Retry, TypeOK, Freed, Open, Lifecycle
    <3>3. Len(muts[t]) \in Nat /\ (at'[t] = "lock" => Len(muts[t]) # 0)
      BY <3>2 DEF TypeOK
    <3> QED
      BY <2>2, <3>1, <3>2, <3>3, Places DEF TodoIsRest, Visited
  <2> QED
    BY <2>1, <2>2
<1>14. ASSUME NEW t \in Txs, GiveUp(t) PROVE TodoIsRest(u)'
  <2>1. CASE u # t
    BY <1>14, <2>1, SameView DEF GiveUp, TypeOK, lockVars, txVars, dataVars, Gather, End, Unlock
  <2>2. CASE u = t
    <3>1. todo'[t] = <<>> /\ at'[t] = "idle" /\ muts'[t] \in Seq(Mutation)
      BY <1>14, TypeStep DEF GiveUp, TypeOK, lockVars, dataVars, Gather, Open, TodoIsRest, End, Freed, Lifecycle
    <3> QED
      BY <2>2, <3>1 DEF TodoIsRest
  <2> QED
    BY <2>1, <2>2
<1>15. ASSUME NEW t \in Txs, Committed(t) PROVE TodoIsRest(u)'
  <2>1. CASE u # t
    BY <1>15, <2>1, SameView DEF Committed, TypeOK, lockVars, txVars, dataVars, Gather, End, Unlock
  <2>2. CASE u = t
    <3>1. todo'[t] = <<>> /\ at'[t] = "idle" /\ muts'[t] \in Seq(Mutation)
      BY <1>15, TypeStep DEF Committed, TypeOK, lockVars, dataVars, Gather, Open, TodoIsRest, End, Freed, Lifecycle
    <3> QED
      BY <2>2, <3>1 DEF TodoIsRest
  <2> QED
    BY <2>1, <2>2
<1>16. ASSUME NEW t \in Txs, Released(t) PROVE TodoIsRest(u)'
  <2>1. CASE u # t
    BY <1>16, <2>1, SameView DEF Released, TypeOK, lockVars, txVars, dataVars, Gather, End, Unlock
  <2>2. CASE u = t
    <3>1. todo'[t] = <<>> /\ at'[t] = "idle" /\ muts'[t] \in Seq(Mutation)
      BY <1>16, TypeStep DEF Released, TypeOK, lockVars, dataVars, Gather, Open, TodoIsRest, End, Freed, Lifecycle
    <3> QED
      BY <2>2, <3>1 DEF TodoIsRest
  <2> QED
    BY <2>1, <2>2
<1>17. ASSUME NEW w \in Writers, NEW st \in Stripes, WriterLocks(w, st) PROVE TodoIsRest(u)'
  BY <1>17, SameView DEF WriterLocks, lockVars, txVars, Unlock
<1>18. ASSUME NEW w \in Writers, NEW d \in Docs, NEW st \in Stripes, WriterWrites(w, d, st) PROVE TodoIsRest(u)'
  BY <1>18, SameView DEF WriterWrites, lockVars, txVars, Unlock
<1>19. ASSUME NEW d \in Docs, Evict(d) PROVE TodoIsRest(u)'
  BY <1>19, SameView DEF Evict, lockVars, txVars, Unlock
<1>21. ASSUME NEW d \in Docs, LateFill(d) PROVE TodoIsRest(u)'
  BY <1>21, SameView DEF LateFill, lockVars, txVars, Unlock
<1>20. CASE UNCHANGED vars
  BY <1>20, SameView DEF vars, lockVars, txVars
<1> QED
  BY <1>1, <1>2, <1>3, <1>4, <1>5, <1>6, <1>7, <1>8, <1>9, <1>10, <1>11, <1>12, <1>13, <1>14, <1>15, <1>16, <1>17, <1>18, <1>19, <1>20, <1>21 DEF Next, SessionStep, CommitStep, WriterStep

-----------------------------------------------------------------------------
(* The locks.                                                              *)

(* The step leaves what t holds as it is.                                  *)
SameHeld(t) ==
  HeldPlaces(t)' = HeldPlaces(t) /\ (HeldPlaces(t) = {} \/ LockList(t)' = LockList(t))

(* Outside a call, and when a call has visited its whole list to unlock    *)
(* it, a transaction holds nothing; neither does one that aborts.          *)
LEMMA Empty ==
  ASSUME TypeOK, NEW t \in Txs,
         at[t] \in {"idle", "release"} \/ (at[t] \in {"failed", "unlock"} /\ todo[t] = <<>>)
  PROVE  HeldPlaces(t) = {}
<1>1. Len(muts[t]) \in Nat /\ DOMAIN muts[t] = 1 .. Len(muts[t])
  BY DEF TypeOK
<1>2. CASE at[t] \in {"idle", "release"}
  BY <1>2 DEF HeldPlaces, Applying
<1>3. CASE at[t] \in {"failed", "unlock"} /\ todo[t] = <<>>
  <2>1. Visited(t) = Len(muts[t])
    BY <1>1, <1>3 DEF Visited
  <2> QED
    BY <1>1, <1>3, <2>1 DEF HeldPlaces, Applying
<1> QED
  BY <1>2, <1>3

(* Only locking and unlocking a stripe changes what a transaction holds:   *)
(* a call passes from locking to applying to unlocking with all it locked. *)
LEMMA HeldStep == IInv /\ [Next]_vars => \A u \in Txs : LockNext(u) \/ UnlockNext(u) \/ SameHeld(u)
<1> SUFFICES ASSUME IInv, [Next]_vars, NEW u \in Txs
             PROVE  LockNext(u) \/ UnlockNext(u) \/ SameHeld(u)
  OBVIOUS
<1>0. TypeOK /\ \A t \in Txs : Lifecycle(t) /\ TodoIsRest(t)
  BY DEF IInv
<1> USE <1>0
<1>1. ASSUME NEW t \in Txs, Begin(t) PROVE LockNext(u) \/ UnlockNext(u) \/ SameHeld(u)
  <2>1. CASE u # t
    BY <1>1, <2>1, SameView DEF Begin, SameHeld, TypeOK, lockVars, txVars, dataVars, Gather, End, Unlock
  <2>2. CASE u = t
    <3>1. HeldPlaces(t) = {}
      BY <1>1, Empty DEF Begin, Open, Gather, Freed, Abortable, Lifecycle
    <3>2. at'[t] \in {"idle", "release"}
      BY <1>1 DEF Begin, Open, Gather, End, TypeOK, lockVars, txVars, dataVars, Lifecycle
    <3>3. HeldPlaces(t)' = {}
      BY <3>2 DEF HeldPlaces, Applying
    <3> QED
      BY <2>2, <3>1, <3>3 DEF SameHeld
  <2> QED
    BY <2>1, <2>2
<1>2. ASSUME NEW t \in Txs, CommitEmpty(t) PROVE LockNext(u) \/ UnlockNext(u) \/ SameHeld(u)
  <2>1. CASE u # t
    BY <1>2, <2>1, SameView DEF CommitEmpty, SameHeld, TypeOK, lockVars, txVars, dataVars, Gather, End, Unlock
  <2>2. CASE u = t
    <3>1. HeldPlaces(t) = {}
      BY <1>2, Empty DEF CommitEmpty, Open, Gather, Freed, Abortable, Lifecycle
    <3>2. at'[t] \in {"idle", "release"}
      BY <1>2 DEF CommitEmpty, Open, Gather, End, TypeOK, lockVars, txVars, dataVars, Lifecycle
    <3>3. HeldPlaces(t)' = {}
      BY <3>2 DEF HeldPlaces, Applying
    <3> QED
      BY <2>2, <3>1, <3>3 DEF SameHeld
  <2> QED
    BY <2>1, <2>2
<1>3. ASSUME NEW t \in Txs, Commit(t) PROVE LockNext(u) \/ UnlockNext(u) \/ SameHeld(u)
  <2>1. CASE u # t
    BY <1>3, <2>1, SameView DEF Commit, SameHeld, TypeOK, lockVars, txVars, dataVars, Gather, End, Unlock
  <2>2. CASE u = t
    <3>1. HeldPlaces(t) = {}
      BY <1>3, Empty DEF Commit, Open, Freed
    <3>2. at'[t] = "lock" /\ muts'[t] = muts[t] /\ Len(todo'[t]) = Len(muts[t])
      BY <1>3, Places DEF Commit, TypeOK
    <3>3. Visited(t)' = 0
      BY <3>2, Places DEF Visited
    <3>4. HeldPlaces(t)' = {}
      BY <3>2, <3>3, Places DEF HeldPlaces, Applying
    <3> QED
      BY <2>2, <3>1, <3>4 DEF SameHeld
  <2> QED
    BY <2>1, <2>2
<1>4. ASSUME NEW t \in Txs, Abort(t) PROVE LockNext(u) \/ UnlockNext(u) \/ SameHeld(u)
  <2>1. CASE u # t
    BY <1>4, <2>1, SameView DEF Abort, SameHeld, TypeOK, lockVars, txVars, dataVars, Gather, End, Unlock
  <2>2. CASE u = t
    <3>1. HeldPlaces(t) = {}
      BY <1>4, Empty DEF Abort, Open, Gather, Freed, Abortable, Lifecycle
    <3>2. at'[t] \in {"idle", "release"}
      BY <1>4 DEF Abort, Open, Gather, End, TypeOK, lockVars, txVars, dataVars, Lifecycle
    <3>3. HeldPlaces(t)' = {}
      BY <3>2 DEF HeldPlaces, Applying
    <3> QED
      BY <2>2, <3>1, <3>3 DEF SameHeld
  <2> QED
    BY <2>1, <2>2
<1>5. ASSUME NEW t \in Txs, NEW d \in Docs, Insert(t, d) PROVE LockNext(u) \/ UnlockNext(u) \/ SameHeld(u)
  <2>1. CASE u # t
    BY <1>5, <2>1, SameView DEF Insert, SameHeld, TypeOK, lockVars, txVars, dataVars, Gather, End, Unlock
  <2>2. CASE u = t
    <3>1. HeldPlaces(t) = {}
      BY <1>5, Empty DEF Insert, Open, Gather, Freed, Abortable, Lifecycle
    <3>2. at'[t] \in {"idle", "release"}
      BY <1>5 DEF Insert, Open, Gather, End, TypeOK, lockVars, txVars, dataVars, Lifecycle
    <3>3. HeldPlaces(t)' = {}
      BY <3>2 DEF HeldPlaces, Applying
    <3> QED
      BY <2>2, <3>1, <3>3 DEF SameHeld
  <2> QED
    BY <2>1, <2>2
<1>6. ASSUME NEW t \in Txs, NEW ds \in SUBSET Docs, Update(t, ds) PROVE LockNext(u) \/ UnlockNext(u) \/ SameHeld(u)
  <2>1. CASE u # t
    BY <1>6, <2>1, SameView DEF Update, SameHeld, TypeOK, lockVars, txVars, dataVars, Gather, End, Unlock
  <2>2. CASE u = t
    <3>1. HeldPlaces(t) = {}
      BY <1>6, Empty DEF Update, Open, Gather, Freed, Abortable, Lifecycle
    <3>2. at'[t] \in {"idle", "release"}
      BY <1>6 DEF Update, Open, Gather, End, TypeOK, lockVars, txVars, dataVars, Lifecycle
    <3>3. HeldPlaces(t)' = {}
      BY <3>2 DEF HeldPlaces, Applying
    <3> QED
      BY <2>2, <3>1, <3>3 DEF SameHeld
  <2> QED
    BY <2>1, <2>2
<1>7. ASSUME NEW t \in Txs, NEW ds \in SUBSET Docs, Delete(t, ds) PROVE LockNext(u) \/ UnlockNext(u) \/ SameHeld(u)
  <2>1. CASE u # t
    BY <1>7, <2>1, SameView DEF Delete, SameHeld, TypeOK, lockVars, txVars, dataVars, Gather, End, Unlock
  <2>2. CASE u = t
    <3>1. HeldPlaces(t) = {}
      BY <1>7, Empty DEF Delete, Open, Gather, Freed, Abortable, Lifecycle
    <3>2. at'[t] \in {"idle", "release"}
      BY <1>7 DEF Delete, Open, Gather, End, TypeOK, lockVars, txVars, dataVars, Lifecycle
    <3>3. HeldPlaces(t)' = {}
      BY <3>2 DEF HeldPlaces, Applying
    <3> QED
      BY <2>2, <3>1, <3>3 DEF SameHeld
  <2> QED
    BY <2>1, <2>2
<1>8. ASSUME NEW t \in Txs, LockNext(t) PROVE LockNext(u) \/ UnlockNext(u) \/ SameHeld(u)
  <2>1. CASE u # t
    BY <1>8, <2>1, SameView DEF LockNext, SameHeld, TypeOK, Unlock
  <2> QED
    BY <1>8, <2>1
<1>9. ASSUME NEW t \in Txs, Validate(t) PROVE LockNext(u) \/ UnlockNext(u) \/ SameHeld(u)
  <2>1. CASE u # t
    BY <1>9, <2>1, SameView DEF Validate, SameHeld, TypeOK, lockVars, txVars, dataVars, Gather, End, Unlock
  <2>2. CASE u = t
    <3>1. HeldPlaces(t) = DOMAIN muts[t] /\ muts'[t] = muts[t] /\ LockList(t)' = LockList(t)
      BY <1>9, SameList DEF Validate, HeldPlaces, Applying, lockVars
    <3>2. \/ at'[t] = "flush"
          \/ at'[t] \in {"unlock", "failed"} /\ Len(todo'[t]) = Len(muts[t])
      BY <1>9, Places DEF Validate, TypeOK
    <3>3. CASE at'[t] = "flush"
      BY <2>2, <3>1, <3>3 DEF HeldPlaces, Applying, SameHeld
    <3>4. CASE at'[t] \in {"unlock", "failed"} /\ Len(todo'[t]) = Len(muts[t])
      <4>1. Visited(t)' = 0
        BY <3>1, <3>4, Places DEF Visited
      <4>2. HeldPlaces(t)' = DOMAIN muts[t]
        BY <3>1, <3>4, <4>1, Places DEF HeldPlaces, Applying
      <4> QED
        BY <2>2, <3>1, <4>2 DEF SameHeld
    <3> QED
      BY <3>2, <3>3, <3>4
  <2> QED
    BY <2>1, <2>2
<1>10. ASSUME NEW t \in Txs, Flush(t) PROVE LockNext(u) \/ UnlockNext(u) \/ SameHeld(u)
  <2>1. CASE u # t
    BY <1>10, <2>1, SameView DEF Flush, SameHeld, TypeOK, lockVars, txVars, dataVars, Gather, End, Unlock
  <2>2. CASE u = t
    <3>1. HeldPlaces(t) = DOMAIN muts[t] /\ muts'[t] = muts[t] /\ LockList(t)' = LockList(t)
      BY <1>10, SameList DEF Flush, HeldPlaces, Applying, lockVars
    <3>2. \/ at'[t] = "flush"
          \/ at'[t] \in {"unlock", "failed"} /\ Len(todo'[t]) = Len(muts[t])
      BY <1>10, Places DEF Flush, TypeOK
    <3>3. CASE at'[t] = "flush"
      BY <2>2, <3>1, <3>3 DEF HeldPlaces, Applying, SameHeld
    <3>4. CASE at'[t] \in {"unlock", "failed"} /\ Len(todo'[t]) = Len(muts[t])
      <4>1. Visited(t)' = 0
        BY <3>1, <3>4, Places DEF Visited
      <4>2. HeldPlaces(t)' = DOMAIN muts[t]
        BY <3>1, <3>4, <4>1, Places DEF HeldPlaces, Applying
      <4> QED
        BY <2>2, <3>1, <4>2 DEF SameHeld
    <3> QED
      BY <3>2, <3>3, <3>4
  <2> QED
    BY <2>1, <2>2
<1>11. ASSUME NEW t \in Txs, FlushFails(t) PROVE LockNext(u) \/ UnlockNext(u) \/ SameHeld(u)
  <2>1. CASE u # t
    BY <1>11, <2>1, SameView DEF FlushFails, SameHeld, TypeOK, lockVars, txVars, dataVars, Gather, End, Unlock
  <2>2. CASE u = t
    <3>1. HeldPlaces(t) = DOMAIN muts[t] /\ muts'[t] = muts[t] /\ LockList(t)' = LockList(t)
      BY <1>11, SameList DEF FlushFails, HeldPlaces, Applying, lockVars
    <3>2. \/ at'[t] = "flush"
          \/ at'[t] \in {"unlock", "failed"} /\ Len(todo'[t]) = Len(muts[t])
      BY <1>11, Places DEF FlushFails, TypeOK
    <3>3. CASE at'[t] = "flush"
      BY <2>2, <3>1, <3>3 DEF HeldPlaces, Applying, SameHeld
    <3>4. CASE at'[t] \in {"unlock", "failed"} /\ Len(todo'[t]) = Len(muts[t])
      <4>1. Visited(t)' = 0
        BY <3>1, <3>4, Places DEF Visited
      <4>2. HeldPlaces(t)' = DOMAIN muts[t]
        BY <3>1, <3>4, <4>1, Places DEF HeldPlaces, Applying
      <4> QED
        BY <2>2, <3>1, <4>2 DEF SameHeld
    <3> QED
      BY <3>2, <3>3, <3>4
  <2> QED
    BY <2>1, <2>2
<1>12. ASSUME NEW t \in Txs, UnlockNext(t) PROVE LockNext(u) \/ UnlockNext(u) \/ SameHeld(u)
  <2>1. CASE u # t
    BY <1>12, <2>1, SameView DEF UnlockNext, SameHeld, TypeOK, Unlock
  <2> QED
    BY <1>12, <2>1
<1>13. ASSUME NEW t \in Txs, Retry(t) PROVE LockNext(u) \/ UnlockNext(u) \/ SameHeld(u)
  <2>1. CASE u # t
    BY <1>13, <2>1, SameView DEF Retry, SameHeld, TypeOK, lockVars, txVars, dataVars, Gather, End, Unlock
  <2>2. CASE u = t
    <3>1. HeldPlaces(t) = {}
      BY <1>13, Empty DEF Retry, Open, Freed
    <3>2. at'[t] = "lock" /\ muts'[t] = muts[t] /\ Len(todo'[t]) = Len(muts[t])
      BY <1>13, Places DEF Retry, TypeOK
    <3>3. Visited(t)' = 0
      BY <3>2, Places DEF Visited
    <3>4. HeldPlaces(t)' = {}
      BY <3>2, <3>3, Places DEF HeldPlaces, Applying
    <3> QED
      BY <2>2, <3>1, <3>4 DEF SameHeld
  <2> QED
    BY <2>1, <2>2
<1>14. ASSUME NEW t \in Txs, GiveUp(t) PROVE LockNext(u) \/ UnlockNext(u) \/ SameHeld(u)
  <2>1. CASE u # t
    BY <1>14, <2>1, SameView DEF GiveUp, SameHeld, TypeOK, lockVars, txVars, dataVars, Gather, End, Unlock
  <2>2. CASE u = t
    <3>1. HeldPlaces(t) = {}
      BY <1>14, Empty DEF GiveUp, Open, Gather, Freed, Abortable, Lifecycle
    <3>2. at'[t] \in {"idle", "release"}
      BY <1>14 DEF GiveUp, Open, Gather, End, TypeOK, lockVars, txVars, dataVars, Lifecycle
    <3>3. HeldPlaces(t)' = {}
      BY <3>2 DEF HeldPlaces, Applying
    <3> QED
      BY <2>2, <3>1, <3>3 DEF SameHeld
  <2> QED
    BY <2>1, <2>2
<1>15. ASSUME NEW t \in Txs, Committed(t) PROVE LockNext(u) \/ UnlockNext(u) \/ SameHeld(u)
  <2>1. CASE u # t
    BY <1>15, <2>1, SameView DEF Committed, SameHeld, TypeOK, lockVars, txVars, dataVars, Gather, End, Unlock
  <2>2. CASE u = t
    <3>1. HeldPlaces(t) = {}
      BY <1>15, Empty DEF Committed, Open, Gather, Freed, Abortable, Lifecycle
    <3>2. at'[t] \in {"idle", "release"}
      BY <1>15 DEF Committed, Open, Gather, End, TypeOK, lockVars, txVars, dataVars, Lifecycle
    <3>3. HeldPlaces(t)' = {}
      BY <3>2 DEF HeldPlaces, Applying
    <3> QED
      BY <2>2, <3>1, <3>3 DEF SameHeld
  <2> QED
    BY <2>1, <2>2
<1>16. ASSUME NEW t \in Txs, Released(t) PROVE LockNext(u) \/ UnlockNext(u) \/ SameHeld(u)
  <2>1. CASE u # t
    BY <1>16, <2>1, SameView DEF Released, SameHeld, TypeOK, lockVars, txVars, dataVars, Gather, End, Unlock
  <2>2. CASE u = t
    <3>1. HeldPlaces(t) = {}
      BY <1>16, Empty DEF Released, Open, Gather, Freed, Abortable, Lifecycle
    <3>2. at'[t] \in {"idle", "release"}
      BY <1>16 DEF Released, Open, Gather, End, TypeOK, lockVars, txVars, dataVars, Lifecycle
    <3>3. HeldPlaces(t)' = {}
      BY <3>2 DEF HeldPlaces, Applying
    <3> QED
      BY <2>2, <3>1, <3>3 DEF SameHeld
  <2> QED
    BY <2>1, <2>2
<1>17. ASSUME NEW w \in Writers, NEW st \in Stripes, WriterLocks(w, st) PROVE LockNext(u) \/ UnlockNext(u) \/ SameHeld(u)
  BY <1>17, SameView DEF WriterLocks, lockVars, txVars, Unlock, SameHeld
<1>18. ASSUME NEW w \in Writers, NEW d \in Docs, NEW st \in Stripes, WriterWrites(w, d, st) PROVE LockNext(u) \/ UnlockNext(u) \/ SameHeld(u)
  BY <1>18, SameView DEF WriterWrites, lockVars, txVars, Unlock, SameHeld
<1>19. ASSUME NEW d \in Docs, Evict(d) PROVE LockNext(u) \/ UnlockNext(u) \/ SameHeld(u)
  BY <1>19, SameView DEF Evict, lockVars, txVars, Unlock, SameHeld
<1>21. ASSUME NEW d \in Docs, LateFill(d) PROVE LockNext(u) \/ UnlockNext(u) \/ SameHeld(u)
  BY <1>21, SameView DEF LateFill, lockVars, txVars, Unlock, SameHeld
<1>20. CASE UNCHANGED vars
  BY <1>20, SameView DEF vars, lockVars, txVars, SameHeld
<1> QED
  BY <1>1, <1>2, <1>3, <1>4, <1>5, <1>6, <1>7, <1>8, <1>9, <1>10, <1>11, <1>12, <1>13, <1>14, <1>15, <1>16, <1>17, <1>18, <1>19, <1>20, <1>21 DEF Next, SessionStep, CommitStep, WriterStep

(* The next stripe of a call that locks or unlocks is the one behind the   *)
(* visited ones.                                                           *)
LEMMA HeadIsNext ==
  ASSUME TypeOK, NEW t \in Txs, TodoIsRest(t), todo[t] # <<>>
  PROVE  /\ Visited(t) \in Nat /\ Visited(t) + 1 \in DOMAIN muts[t]
         /\ Head(todo[t]) = LockList(t)[Visited(t) + 1] /\ Head(todo[t]) \in Stripes
         /\ Len(Tail(todo[t])) = Len(todo[t]) - 1
<1>1. todo[t] \in Seq(Stripes) /\ Len(muts[t]) \in Nat /\ DOMAIN muts[t] = 1 .. Len(muts[t])
  BY DEF TypeOK
<1>2. Len(todo[t]) \in Nat \ {0} /\ 1 \in DOMAIN todo[t] /\ Head(todo[t]) = todo[t][1]
  BY <1>1
<1>3. Len(todo[t]) <= Len(muts[t]) /\ todo[t][1] = LockList(t)[Visited(t) + 1]
  BY <1>2 DEF TodoIsRest
<1>4. Visited(t) \in Nat /\ Visited(t) + 1 \in DOMAIN muts[t]
  <2>1. Visited(t) = Len(muts[t]) - Len(todo[t])
    BY DEF Visited
  <2>2. Visited(t) \in Nat /\ Visited(t) + 1 \in 1 .. Len(muts[t])
    <3>1. Len(muts[t]) \in Nat /\ Len(todo[t]) \in Nat /\ Len(todo[t]) >= 1 /\ Len(todo[t]) <= Len(muts[t])
      BY <1>1, <1>2, <1>3
    <3>2. Visited(t) \in Nat
      BY ONLY <2>1, <3>1
    <3>3. Visited(t) + 1 \in Nat /\ Visited(t) + 1 >= 1 /\ Visited(t) + 1 <= Len(muts[t])
      BY ONLY <2>1, <3>1
    <3> QED
      BY ONLY <3>1, <3>2, <3>3
  <2> QED
    BY <1>1, <2>2
<1>5. Head(todo[t]) \in Stripes /\ Len(Tail(todo[t])) = Len(todo[t]) - 1
  BY <1>1
<1> QED
  BY <1>2, <1>3, <1>4, <1>5

(* A stripe locked is one more held, a stripe unlocked one fewer.          *)
LEMMA HeldLock ==
  ASSUME IInv, NEW t \in Txs, LockNext(t)
  PROVE  /\ LockList(t)' = LockList(t)
         /\ HeldPlaces(t)' = HeldPlaces(t) \cup {Visited(t) + 1}
         /\ Visited(t) + 1 \in DOMAIN muts[t]
         /\ Head(todo[t]) = LockList(t)[Visited(t) + 1]
<1>0. TypeOK /\ TodoIsRest(t)
  BY DEF IInv
<1>1. /\ Visited(t) \in Nat /\ Visited(t) + 1 \in DOMAIN muts[t]
      /\ Head(todo[t]) = LockList(t)[Visited(t) + 1]
      /\ Len(Tail(todo[t])) = Len(todo[t]) - 1
  BY <1>0, HeadIsNext DEF LockNext
<1>2. LockList(t)' = LockList(t) /\ muts'[t] = muts[t] /\ at[t] = "lock"
  BY SameList DEF LockNext
<1>3. Len(todo[t]) \in Nat /\ Len(muts[t]) \in Nat /\ DOMAIN muts[t] = 1 .. Len(muts[t])
  BY <1>0 DEF TypeOK
<1>4. todo'[t] = Tail(todo[t])
  BY <1>0 DEF LockNext, TypeOK
<1>5. Visited(t)' = Visited(t) + 1 /\ Visited(t) = Len(muts[t]) - Len(todo[t])
  <2>1. Visited(t)' = Len(muts[t]) - Len(todo'[t]) /\ Visited(t) = Len(muts[t]) - Len(todo[t])
    BY <1>2 DEF Visited
  <2>2. Len(todo'[t]) = Len(todo[t]) - 1 /\ Len(todo[t]) \in Nat /\ Len(muts[t]) \in Nat
    BY <1>1, <1>3, <1>4
  <2> QED
    BY ONLY <2>1, <2>2
<1>6. HeldPlaces(t) = {k \in DOMAIN muts[t] : k <= Visited(t)}
  BY <1>2 DEF HeldPlaces, Applying
<1>7. HeldPlaces(t)' = {k \in DOMAIN muts[t] : k <= Visited(t) + 1}
  <2>1. CASE Len(todo[t]) = 1
    <3>1. at'[t] = "validate"
      BY <1>0, <2>1 DEF LockNext, TypeOK
    <3>2. Visited(t) + 1 = Len(muts[t])
      BY <1>3, <1>5, <2>1
    <3>3. HeldPlaces(t)' = DOMAIN muts[t]
      BY <1>2, <3>1 DEF HeldPlaces, Applying
    <3> QED
      BY <1>1, <1>3, <3>2, <3>3
  <2>2. CASE Len(todo[t]) # 1
    <3>1. at'[t] = "lock"
      BY <1>0, <2>2 DEF LockNext, TypeOK
    <3> QED
      BY <1>2, <1>5, <3>1 DEF HeldPlaces, Applying
  <2> QED
    BY <2>1, <2>2
<1> QED
  BY <1>1, <1>2, <1>3, <1>6, <1>7

(* A release gives up the place it has come to, which it held.             *)
LEMMA HeldUnlock ==
  ASSUME IInv, NEW t \in Txs, UnlockNext(t)
  PROVE  /\ LockList(t)' = LockList(t) /\ at'[t] = at[t]
         /\ HeldPlaces(t)' = HeldPlaces(t) \ {Visited(t) + 1}
         /\ at[t] # "release" => Visited(t) + 1 \in HeldPlaces(t)
         /\ Head(todo[t]) = LockList(t)[Visited(t) + 1]
         /\ Visited(t) + 1 \in DOMAIN muts[t]
<1>0. TypeOK /\ TodoIsRest(t)
  BY DEF IInv
<1>1. /\ Visited(t) \in Nat /\ Visited(t) + 1 \in DOMAIN muts[t]
      /\ Head(todo[t]) = LockList(t)[Visited(t) + 1]
      /\ Len(Tail(todo[t])) = Len(todo[t]) - 1
  BY <1>0, HeadIsNext DEF UnlockNext
<1>2. LockList(t)' = LockList(t) /\ muts'[t] = muts[t] /\ at'[t] = at[t]
      /\ at[t] \in {"unlock", "failed", "release"}
  BY SameList DEF UnlockNext, Unlock
<1>3. Len(todo[t]) \in Nat /\ Len(muts[t]) \in Nat /\ DOMAIN muts[t] = 1 .. Len(muts[t])
  BY <1>0 DEF TypeOK
<1>4. todo'[t] = Tail(todo[t])
  BY <1>0 DEF UnlockNext, TypeOK
<1>5. Visited(t)' = Visited(t) + 1
  <2>1. Visited(t)' = Len(muts[t]) - Len(todo'[t]) /\ Visited(t) = Len(muts[t]) - Len(todo[t])
    BY <1>2 DEF Visited
  <2>2. Len(todo'[t]) = Len(todo[t]) - 1 /\ Len(todo[t]) \in Nat /\ Len(muts[t]) \in Nat
    BY <1>1, <1>3, <1>4
  <2> QED
    BY ONLY <2>1, <2>2
<1>6. CASE at[t] = "release"
  BY <1>1, <1>2, <1>6 DEF HeldPlaces, Applying
<1>7. CASE at[t] \in {"unlock", "failed"}
  <2>1. HeldPlaces(t) = {k \in DOMAIN muts[t] : k > Visited(t)}
    BY <1>7 DEF HeldPlaces, Applying
  <2>2. HeldPlaces(t)' = {k \in DOMAIN muts[t] : k > Visited(t) + 1}
    BY <1>2, <1>5, <1>7 DEF HeldPlaces, Applying
  <2>3. HeldPlaces(t)' = HeldPlaces(t) \ {Visited(t) + 1}
    BY <1>1, <1>3, <2>1, <2>2
  <2> QED
    BY <1>1, <1>2, <1>3, <2>1, <2>3
<1> QED
  BY <1>2, <1>6, <1>7

(* What can happen to the stripes' holders in one step.                    *)
SameLocks == holder' = holder /\ fatal' = fatal /\ stolen' = stolen

HolderChange ==
  \/ SameLocks
  \/ \E t \in Txs : LockNext(t)
  \/ \E t \in Txs : UnlockNext(t) /\ Unlock(Head(todo[t]), t)
  \/ \E w \in Writers, st \in Stripes :
       /\ holder[st] = Nobody /\ holder' = [holder EXCEPT ![st] = w]
       /\ fatal' = fatal /\ stolen' = stolen
  \/ \E w \in Writers, st \in Stripes : holder[st] = w /\ Unlock(st, w)

(* Each step leaves the holders of the stripes in one of these ways.       *)
LEMMA HolderStep == [Next]_vars => HolderChange
<1> SUFFICES ASSUME [Next]_vars PROVE HolderChange
  OBVIOUS
<1>1. ASSUME NEW t \in Txs, Begin(t) PROVE HolderChange
  BY <1>1 DEF Begin, lockVars, Gather, End, HolderChange, SameLocks
<1>2. ASSUME NEW t \in Txs, CommitEmpty(t) PROVE HolderChange
  BY <1>2 DEF CommitEmpty, lockVars, Gather, End, HolderChange, SameLocks
<1>3. ASSUME NEW t \in Txs, Commit(t) PROVE HolderChange
  BY <1>3 DEF Commit, lockVars, Gather, End, HolderChange, SameLocks
<1>4. ASSUME NEW t \in Txs, Abort(t) PROVE HolderChange
  BY <1>4 DEF Abort, lockVars, Gather, End, HolderChange, SameLocks
<1>5. ASSUME NEW t \in Txs, NEW d \in Docs, Insert(t, d) PROVE HolderChange
  BY <1>5 DEF Insert, lockVars, Gather, End, HolderChange, SameLocks
<1>6. ASSUME NEW t \in Txs, NEW ds \in SUBSET Docs, Update(t, ds) PROVE HolderChange
  BY <1>6 DEF Update, lockVars, Gather, End, HolderChange, SameLocks
<1>7. ASSUME NEW t \in Txs, NEW ds \in SUBSET Docs, Delete(t, ds) PROVE HolderChange
  BY <1>7 DEF Delete, lockVars, Gather, End, HolderChange, SameLocks
<1>8. ASSUME NEW t \in Txs, LockNext(t) PROVE HolderChange
  BY <1>8 DEF LockNext, HolderChange
<1>9. ASSUME NEW t \in Txs, Validate(t) PROVE HolderChange
  BY <1>9 DEF Validate, lockVars, Gather, End, HolderChange, SameLocks
<1>10. ASSUME NEW t \in Txs, Flush(t) PROVE HolderChange
  BY <1>10 DEF Flush, lockVars, Gather, End, HolderChange, SameLocks
<1>11. ASSUME NEW t \in Txs, FlushFails(t) PROVE HolderChange
  BY <1>11 DEF FlushFails, lockVars, Gather, End, HolderChange, SameLocks
<1>12. ASSUME NEW t \in Txs, UnlockNext(t) PROVE HolderChange
  BY <1>12 DEF UnlockNext, HolderChange
<1>13. ASSUME NEW t \in Txs, Retry(t) PROVE HolderChange
  BY <1>13 DEF Retry, lockVars, Gather, End, HolderChange, SameLocks
<1>14. ASSUME NEW t \in Txs, GiveUp(t) PROVE HolderChange
  BY <1>14 DEF GiveUp, lockVars, Gather, End, HolderChange, SameLocks
<1>15. ASSUME NEW t \in Txs, Committed(t) PROVE HolderChange
  BY <1>15 DEF Committed, lockVars, Gather, End, HolderChange, SameLocks
<1>16. ASSUME NEW t \in Txs, Released(t) PROVE HolderChange
  BY <1>16 DEF Released, lockVars, Gather, End, HolderChange, SameLocks
<1>17. ASSUME NEW w \in Writers, NEW st \in Stripes, WriterLocks(w, st) PROVE HolderChange
  BY <1>17 DEF WriterLocks, HolderChange
<1>18. ASSUME NEW w \in Writers, NEW d \in Docs, NEW st \in Stripes, WriterWrites(w, d, st) PROVE HolderChange
  BY <1>18 DEF WriterWrites, HolderChange
<1>19. ASSUME NEW d \in Docs, Evict(d) PROVE HolderChange
  BY <1>19 DEF Evict, lockVars, Gather, End, HolderChange, SameLocks
<1>21. ASSUME NEW d \in Docs, LateFill(d) PROVE HolderChange
  BY <1>21 DEF LateFill, lockVars, Gather, End, HolderChange, SameLocks
<1>20. CASE UNCHANGED vars
  BY <1>20 DEF vars, lockVars, HolderChange, SameLocks
<1> QED
  BY <1>1, <1>2, <1>3, <1>4, <1>5, <1>6, <1>7, <1>8, <1>9, <1>10, <1>11, <1>12, <1>13, <1>14, <1>15, <1>16, <1>17, <1>18, <1>19, <1>20, <1>21 DEF Next, SessionStep, CommitStep, WriterStep

(* A step that finds every lock in its place loses none, unless it is the  *)
(* unlocking of an Abort; and once one is lost, nothing happens.           *)
LEMMA FlagStep ==
  ASSUME IInv, [Next]_vars
  PROVE  /\ fatal \/ stolen => UNCHANGED vars
         /\ \/ fatal' = fatal /\ stolen' = stolen
            \/ ~fatal' /\ ~stolen'
            \/ \E t \in Txs : at[t] = "release" /\ at'[t] = "release"
<1>1. fatal \/ stolen => UNCHANGED vars
  BY DEF Next
<1>2. CASE SameLocks \/ (\E t \in Txs : LockNext(t))
  BY <1>1, <1>2 DEF SameLocks, LockNext
<1>3. ASSUME NEW t \in Txs, UnlockNext(t), Unlock(Head(todo[t]), t), ~fatal, ~stolen
      PROVE  (~fatal' /\ ~stolen') \/ (at[t] = "release" /\ at'[t] = "release")
  <2>1. CASE at[t] = "release"
    BY <1>3, <2>1, HeldUnlock
  <2>2. CASE at[t] # "release"
    <3>1. holder[Head(todo[t])] = t
      BY <1>3, <2>2, HeldUnlock DEF IInv, HoldsPlaces
    <3> QED
      BY <1>3, <3>1, TransactionsAssumption DEF Unlock, TransactionsAssumption
  <2> QED
    BY <2>1, <2>2
<1>4. ASSUME NEW w \in Writers, NEW st \in Stripes, holder[st] = w, Unlock(st, w)
      PROVE  fatal' = FALSE /\ stolen' = stolen
  BY <1>4, TransactionsAssumption DEF Unlock, TransactionsAssumption, IInv, TypeOK
<1>5. fatal \in BOOLEAN /\ stolen \in BOOLEAN
  BY DEF IInv, TypeOK
<1> QED
  BY <1>1, <1>2, <1>3, <1>4, <1>5, HolderStep DEF HolderChange, vars, lockVars

(* Only an Abort's releaseLocks unlocks what it does not hold.             *)
LEMMA LostStep == IInv /\ [Next]_vars => LostByAbort'
<1> SUFFICES ASSUME IInv, [Next]_vars PROVE LostByAbort'
  OBVIOUS
<1>1. CASE fatal \/ stolen
  BY <1>1, FlagStep DEF IInv, LostByAbort, vars, lockVars, txVars
<1>2. CASE ~(fatal \/ stolen)
  BY <1>2, FlagStep DEF LostByAbort
<1> QED
  BY <1>1, <1>2

(* A transaction becomes the holder of a stripe only by locking it, and    *)
(* stops being it only by unlocking it, unless the lock is lost.           *)
LEMMA HolderGain ==
  ASSUME IInv, [Next]_vars, NEW t \in Txs, NEW st \in Stripes, holder'[st] = t, holder[st] # t
  PROVE  LockNext(t) /\ st = Head(todo[t])
<1>0. holder \in [Stripes -> Txs \cup Writers \cup {Nobody}] /\ t # Nobody /\ t \notin Writers
  BY TransactionsAssumption DEF IInv, TypeOK, TransactionsAssumption
<1>1. ASSUME NEW u \in Txs, LockNext(u) PROVE u = t /\ st = Head(todo[u])
  BY <1>0, <1>1 DEF LockNext
<1>2. ASSUME NEW s \in Stripes, NEW who, Unlock(s, who) PROVE FALSE
  BY <1>0, <1>2 DEF Unlock
<1>3. ASSUME NEW w \in Writers, NEW s \in Stripes, holder' = [holder EXCEPT ![s] = w] PROVE FALSE
  BY <1>0, <1>3
<1>4. ASSUME NEW u \in Txs, UnlockNext(u) PROVE Head(todo[u]) \in Stripes
  BY <1>4 DEF UnlockNext, IInv, TypeOK
<1> QED
  BY <1>1, <1>2, <1>3, <1>4, HolderStep DEF HolderChange, SameLocks

(* Before any Abort steals, only the holder's own release frees a stripe.  *)
LEMMA HolderLoss ==
  ASSUME IInv, [Next]_vars, NEW t \in Txs, NEW st \in Stripes, holder[st] = t, holder'[st] # t, ~stolen'
  PROVE  UnlockNext(t) /\ st = Head(todo[t])
<1>0. holder \in [Stripes -> Txs \cup Writers \cup {Nobody}] /\ t # Nobody /\ t \notin Writers
  BY TransactionsAssumption DEF IInv, TypeOK, TransactionsAssumption
<1>1. ASSUME NEW u \in Txs, LockNext(u) PROVE FALSE
  BY <1>0, <1>1 DEF LockNext, CanLock
<1>2. ASSUME NEW s \in Stripes, NEW who, Unlock(s, who) PROVE s = st /\ who = t
  BY <1>0, <1>2 DEF Unlock
<1>3. ASSUME NEW w \in Writers, NEW s \in Stripes, holder[s] = Nobody, holder' = [holder EXCEPT ![s] = w]
      PROVE  FALSE
  BY <1>0, <1>3
<1>4. ASSUME NEW u \in Txs, UnlockNext(u) PROVE Head(todo[u]) \in Stripes
  BY <1>4 DEF UnlockNext, IInv, TypeOK
<1> QED
  BY <1>0, <1>1, <1>2, <1>3, <1>4, HolderStep DEF HolderChange, SameLocks

(* A transaction holds no stripe but those of its held places.             *)
LEMMA OnlyStep == IInv /\ [Next]_vars => HoldsOnlyPlaces'
<1> SUFFICES ASSUME IInv, [Next]_vars, NEW t \in Txs, NEW st \in Stripes, holder'[st] = t
             PROVE  \E k \in HeldPlaces(t)' : LockList(t)'[k] = st
  BY DEF HoldsOnlyPlaces
<1>1. holder[st] = t => \E k \in HeldPlaces(t) : LockList(t)[k] = st
  BY DEF IInv, HoldsOnlyPlaces
<1>2. CASE LockNext(t)
  <2>1. CASE holder[st] = t
    BY <1>1, <1>2, <2>1, HeldLock
  <2>2. CASE holder[st] # t
    BY <1>2, <2>2, HeldLock, HolderGain
  <2> QED
    BY <2>1, <2>2
<1>3. CASE UnlockNext(t)
  <2>1. holder[st] = t
    <3>1. ~LockNext(t)
      BY <1>3 DEF LockNext, UnlockNext
    <3> QED
      BY <3>1, HolderGain
  <2>2. PICK k \in HeldPlaces(t) : LockList(t)[k] = st
    BY <1>1, <2>1
  <2>3. holder'[Head(todo[t])] = Nobody
    BY <1>3 DEF UnlockNext, Unlock, IInv, TypeOK
  <2>4. st # Head(todo[t])
    BY <2>3, TransactionsAssumption DEF TransactionsAssumption
  <2> QED
    BY <1>3, <2>2, <2>4, HeldUnlock
<1>4. CASE SameHeld(t) /\ ~LockNext(t)
  BY <1>1, <1>4, HolderGain DEF SameHeld
<1> QED
  BY <1>2, <1>3, <1>4, HeldStep

(* A transaction holds the stripes of its held places, each once.          *)
LEMMA PlacesStep == IInv /\ [Next]_vars => HoldsPlaces'
<1> SUFFICES ASSUME IInv, [Next]_vars, ~stolen', NEW t \in Txs
             PROVE  /\ \A k \in HeldPlaces(t)' : holder'[LockList(t)'[k]] = t
                    /\ \A j, k \in HeldPlaces(t)' : j # k => LockList(t)'[j] # LockList(t)'[k]
  BY DEF HoldsPlaces
<1>0. ~stolen
  BY FlagStep DEF vars, lockVars
<1>1. /\ \A k \in HeldPlaces(t) : holder[LockList(t)[k]] = t
      /\ \A j, k \in HeldPlaces(t) : j # k => LockList(t)[j] # LockList(t)[k]
  BY <1>0 DEF IInv, HoldsPlaces
<1>2. \A k \in HeldPlaces(t) : LockList(t)[k] \in Stripes
  <2>1. LockList(t) \in Seq(Stripes) /\ Len(LockList(t)) = Len(muts[t]) /\ DOMAIN muts[t] = 1 .. Len(muts[t])
    BY Places DEF IInv
  <2>2. \A k \in DOMAIN muts[t] : LockList(t)[k] \in Stripes
    BY <2>1
  <2> QED
    BY <2>2 DEF HeldPlaces
<1>3. \A k \in HeldPlaces(t) : holder'[LockList(t)[k]] = t \/ (UnlockNext(t) /\ LockList(t)[k] = Head(todo[t]))
  BY <1>1, <1>2, HolderLoss
<1>4. CASE LockNext(t)
  <2> DEFINE n == Visited(t) + 1
  <2>1. LockList(t)' = LockList(t) /\ HeldPlaces(t)' = HeldPlaces(t) \cup {n} /\ Head(todo[t]) = LockList(t)[n]
    BY <1>4, HeldLock
  <2>2. ~UnlockNext(t)
    BY <1>4 DEF LockNext, UnlockNext
  <2>3. holder[Head(todo[t])] = Nobody /\ holder'[Head(todo[t])] = t
    BY <1>4 DEF LockNext, CanLock, IInv, TypeOK
  <2>4. \A k \in HeldPlaces(t) : LockList(t)[k] # LockList(t)[n]
    BY <1>1, <2>1, <2>3, TransactionsAssumption DEF TransactionsAssumption
  <2> HIDE DEF n
  <2> QED
    BY <1>1, <1>3, <2>1, <2>2, <2>3, <2>4
<1>5. CASE UnlockNext(t)
  <2> DEFINE n == Visited(t) + 1
  <2>1. LockList(t)' = LockList(t) /\ HeldPlaces(t)' = HeldPlaces(t) \ {n} /\ Head(todo[t]) = LockList(t)[n]
    BY <1>5, HeldUnlock
  <2>2. at[t] # "release" => n \in HeldPlaces(t)
    BY <1>5, HeldUnlock
  <2>3. at[t] = "release" => HeldPlaces(t) = {}
    BY Empty DEF IInv
  <2> HIDE DEF n
  <2> QED
    BY <1>1, <1>3, <2>1, <2>2, <2>3
<1>6. CASE SameHeld(t) /\ ~UnlockNext(t)
  BY <1>1, <1>3, <1>6 DEF SameHeld
<1> QED
  BY <1>4, <1>5, <1>6, HeldStep

(* Two transactions that apply hold the stripes of all their documents, so *)
(* they have no document in common.                                        *)
LEMMA ExcludedBy == IInv => LocksExclude
<1> SUFFICES ASSUME IInv PROVE LocksExclude
  OBVIOUS
<1>1. ASSUME NEW t \in Txs, Applying(t), NEW d \in Touched(t), ~stolen
      PROVE  holder[stripe[d]] = t
  <2>1. PICK i \in DOMAIN muts[t] : muts[t][i].doc = d
    BY <1>1 DEF Touched, Range
  <2>2. Place(t, i) \in DOMAIN muts[t] /\ AtPlace(t, Place(t, i)) = i
    BY Places DEF IInv
  <2>3. LockList(t)[Place(t, i)] = stripe[d]
    BY <2>1, <2>2 DEF LockList, LockDoc
  <2>4. Place(t, i) \in HeldPlaces(t)
    BY <1>1, <2>2 DEF HeldPlaces
  <2> QED
    BY <1>1, <2>3, <2>4 DEF IInv, HoldsPlaces
<1>2. ASSUME NEW t \in Txs, NEW u \in Txs, t # u, Applying(t), Applying(u), ~stolen
      PROVE  Touched(t) \cap Touched(u) = {}
  BY <1>1, <1>2
<1> QED
  BY <1>2 DEF LocksExclude, IInv, LostByAbort

-----------------------------------------------------------------------------
(* The versions.                                                           *)

UnchangedDocs == store' = store /\ raced' = raced /\ misled' = misled

(* What can happen to documents in one step.                               *)
DocsChange ==
  \/ UnchangedDocs
  \/ \E t \in Txs : Validate(t) \/ Flush(t) \/ FlushFails(t)
  \/ \E w \in Writers, d \in Docs, st \in Stripes : WriterWrites(w, d, st)

(* Each step leaves Badger and what is known of its documents in one of    *)
(* these ways.                                                             *)
LEMMA DocsStep == [Next]_vars => DocsChange
<1> SUFFICES ASSUME [Next]_vars PROVE DocsChange
  OBVIOUS
<1>1. ASSUME NEW t \in Txs, Begin(t) PROVE DocsChange
  BY <1>1 DEF Begin, lockVars, txVars, dataVars, Gather, End, UnchangedDocs, DocsChange
<1>2. ASSUME NEW t \in Txs, CommitEmpty(t) PROVE DocsChange
  BY <1>2 DEF CommitEmpty, lockVars, txVars, dataVars, Gather, End, UnchangedDocs, DocsChange
<1>3. ASSUME NEW t \in Txs, Commit(t) PROVE DocsChange
  BY <1>3 DEF Commit, lockVars, txVars, dataVars, Gather, End, UnchangedDocs, DocsChange
<1>4. ASSUME NEW t \in Txs, Abort(t) PROVE DocsChange
  BY <1>4 DEF Abort, lockVars, txVars, dataVars, Gather, End, UnchangedDocs, DocsChange
<1>5. ASSUME NEW t \in Txs, NEW d \in Docs, Insert(t, d) PROVE DocsChange
  BY <1>5 DEF Insert, lockVars, txVars, dataVars, Gather, End, UnchangedDocs, DocsChange
<1>6. ASSUME NEW t \in Txs, NEW ds \in SUBSET Docs, Update(t, ds) PROVE DocsChange
  BY <1>6 DEF Update, lockVars, txVars, dataVars, Gather, End, UnchangedDocs, DocsChange
<1>7. ASSUME NEW t \in Txs, NEW ds \in SUBSET Docs, Delete(t, ds) PROVE DocsChange
  BY <1>7 DEF Delete, lockVars, txVars, dataVars, Gather, End, UnchangedDocs, DocsChange
<1>8. ASSUME NEW t \in Txs, LockNext(t) PROVE DocsChange
  BY <1>8 DEF LockNext, lockVars, txVars, dataVars, Gather, End, UnchangedDocs, DocsChange
<1>9. ASSUME NEW t \in Txs, Validate(t) PROVE DocsChange
  BY <1>9 DEF DocsChange
<1>10. ASSUME NEW t \in Txs, Flush(t) PROVE DocsChange
  BY <1>10 DEF DocsChange
<1>11. ASSUME NEW t \in Txs, FlushFails(t) PROVE DocsChange
  BY <1>11 DEF DocsChange
<1>12. ASSUME NEW t \in Txs, UnlockNext(t) PROVE DocsChange
  BY <1>12 DEF UnlockNext, lockVars, txVars, dataVars, Gather, End, UnchangedDocs, DocsChange
<1>13. ASSUME NEW t \in Txs, Retry(t) PROVE DocsChange
  BY <1>13 DEF Retry, lockVars, txVars, dataVars, Gather, End, UnchangedDocs, DocsChange
<1>14. ASSUME NEW t \in Txs, GiveUp(t) PROVE DocsChange
  BY <1>14 DEF GiveUp, lockVars, txVars, dataVars, Gather, End, UnchangedDocs, DocsChange
<1>15. ASSUME NEW t \in Txs, Committed(t) PROVE DocsChange
  BY <1>15 DEF Committed, lockVars, txVars, dataVars, Gather, End, UnchangedDocs, DocsChange
<1>16. ASSUME NEW t \in Txs, Released(t) PROVE DocsChange
  BY <1>16 DEF Released, lockVars, txVars, dataVars, Gather, End, UnchangedDocs, DocsChange
<1>17. ASSUME NEW w \in Writers, NEW st \in Stripes, WriterLocks(w, st) PROVE DocsChange
  BY <1>17 DEF WriterLocks, lockVars, txVars, dataVars, Gather, End, UnchangedDocs, DocsChange
<1>18. ASSUME NEW w \in Writers, NEW d \in Docs, NEW st \in Stripes, WriterWrites(w, d, st) PROVE DocsChange
  BY <1>18 DEF DocsChange
<1>19. ASSUME NEW d \in Docs, Evict(d) PROVE DocsChange
  BY <1>19 DEF Evict, UnchangedDocs, DocsChange
<1>21. ASSUME NEW d \in Docs, LateFill(d) PROVE DocsChange
  BY <1>21 DEF LateFill, UnchangedDocs, DocsChange
<1>20. CASE UNCHANGED vars
  BY <1>20 DEF vars, dataVars, UnchangedDocs, DocsChange
<1> QED
  BY <1>1, <1>2, <1>3, <1>4, <1>5, <1>6, <1>7, <1>8, <1>9, <1>10, <1>11, <1>12, <1>13, <1>14, <1>15, <1>16, <1>17, <1>18, <1>19, <1>20, <1>21 DEF Next, SessionStep, CommitStep, WriterStep

(* A transaction that is about to flush was about to before the step, or   *)
(* has just found its mutations valid.                                     *)
MaySee(t) == at'[t] = "flush" => muts'[t] = muts[t] /\ (at[t] = "flush" \/ Validate(t))

(* A transaction comes to its flush by validating its mutations.           *)
LEMMA SeeStep == IInv /\ [Next]_vars => \A u \in Txs : MaySee(u)
<1> SUFFICES ASSUME IInv, [Next]_vars, NEW u \in Txs PROVE MaySee(u)
  OBVIOUS
<1>0. TypeOK /\ \A t \in Txs : Lifecycle(t)
  BY DEF IInv
<1>1. ASSUME NEW t \in Txs, Begin(t) PROVE MaySee(u)
  BY <1>1, <1>0 DEF Begin, TypeOK, Lifecycle, Gather, End, Open, Abortable, Freed, lockVars, txVars, dataVars, UnchangedDocs, MaySee
<1>2. ASSUME NEW t \in Txs, CommitEmpty(t) PROVE MaySee(u)
  BY <1>2, <1>0 DEF CommitEmpty, TypeOK, Lifecycle, Gather, End, Open, Abortable, Freed, lockVars, txVars, dataVars, UnchangedDocs, MaySee
<1>3. ASSUME NEW t \in Txs, Commit(t) PROVE MaySee(u)
  BY <1>3, <1>0 DEF Commit, TypeOK, Lifecycle, Gather, End, Open, Abortable, Freed, lockVars, txVars, dataVars, UnchangedDocs, MaySee
<1>4. ASSUME NEW t \in Txs, Abort(t) PROVE MaySee(u)
  BY <1>4, <1>0 DEF Abort, TypeOK, Lifecycle, Gather, End, Open, Abortable, Freed, lockVars, txVars, dataVars, UnchangedDocs, MaySee
<1>5. ASSUME NEW t \in Txs, NEW d \in Docs, Insert(t, d) PROVE MaySee(u)
  BY <1>5, <1>0 DEF Insert, TypeOK, Lifecycle, Gather, End, Open, Abortable, Freed, lockVars, txVars, dataVars, UnchangedDocs, MaySee
<1>6. ASSUME NEW t \in Txs, NEW ds \in SUBSET Docs, Update(t, ds) PROVE MaySee(u)
  BY <1>6, <1>0 DEF Update, TypeOK, Lifecycle, Gather, End, Open, Abortable, Freed, lockVars, txVars, dataVars, UnchangedDocs, MaySee
<1>7. ASSUME NEW t \in Txs, NEW ds \in SUBSET Docs, Delete(t, ds) PROVE MaySee(u)
  BY <1>7, <1>0 DEF Delete, TypeOK, Lifecycle, Gather, End, Open, Abortable, Freed, lockVars, txVars, dataVars, UnchangedDocs, MaySee
<1>8. ASSUME NEW t \in Txs, LockNext(t) PROVE MaySee(u)
  BY <1>8, <1>0 DEF LockNext, TypeOK, Lifecycle, Gather, End, Open, Abortable, Freed, lockVars, txVars, dataVars, UnchangedDocs, MaySee
<1>9. ASSUME NEW t \in Txs, Validate(t) PROVE MaySee(u)
  BY <1>9, <1>0 DEF Validate, TypeOK, Lifecycle, Gather, End, Open, Abortable, Freed, lockVars, txVars, dataVars, UnchangedDocs, MaySee
<1>10. ASSUME NEW t \in Txs, Flush(t) PROVE MaySee(u)
  BY <1>10, <1>0 DEF Flush, TypeOK, Lifecycle, Gather, End, Open, Abortable, Freed, lockVars, txVars, dataVars, UnchangedDocs, MaySee
<1>11. ASSUME NEW t \in Txs, FlushFails(t) PROVE MaySee(u)
  BY <1>11, <1>0 DEF FlushFails, TypeOK, Lifecycle, Gather, End, Open, Abortable, Freed, lockVars, txVars, dataVars, UnchangedDocs, MaySee
<1>12. ASSUME NEW t \in Txs, UnlockNext(t) PROVE MaySee(u)
  BY <1>12, <1>0 DEF UnlockNext, TypeOK, Lifecycle, Gather, End, Open, Abortable, Freed, lockVars, txVars, dataVars, UnchangedDocs, MaySee
<1>13. ASSUME NEW t \in Txs, Retry(t) PROVE MaySee(u)
  BY <1>13, <1>0 DEF Retry, TypeOK, Lifecycle, Gather, End, Open, Abortable, Freed, lockVars, txVars, dataVars, UnchangedDocs, MaySee
<1>14. ASSUME NEW t \in Txs, GiveUp(t) PROVE MaySee(u)
  BY <1>14, <1>0 DEF GiveUp, TypeOK, Lifecycle, Gather, End, Open, Abortable, Freed, lockVars, txVars, dataVars, UnchangedDocs, MaySee
<1>15. ASSUME NEW t \in Txs, Committed(t) PROVE MaySee(u)
  BY <1>15, <1>0 DEF Committed, TypeOK, Lifecycle, Gather, End, Open, Abortable, Freed, lockVars, txVars, dataVars, UnchangedDocs, MaySee
<1>16. ASSUME NEW t \in Txs, Released(t) PROVE MaySee(u)
  BY <1>16, <1>0 DEF Released, TypeOK, Lifecycle, Gather, End, Open, Abortable, Freed, lockVars, txVars, dataVars, UnchangedDocs, MaySee
<1>17. ASSUME NEW w \in Writers, NEW st \in Stripes, WriterLocks(w, st) PROVE MaySee(u)
  BY <1>17, <1>0 DEF WriterLocks, TypeOK, Lifecycle, Gather, End, Open, Abortable, Freed, lockVars, txVars, dataVars, UnchangedDocs, MaySee
<1>18. ASSUME NEW w \in Writers, NEW d \in Docs, NEW st \in Stripes, WriterWrites(w, d, st) PROVE MaySee(u)
  BY <1>18, <1>0 DEF WriterWrites, TypeOK, Lifecycle, Gather, End, Open, Abortable, Freed, lockVars, txVars, dataVars, UnchangedDocs, MaySee
<1>19. ASSUME NEW d \in Docs, Evict(d) PROVE MaySee(u)
  BY <1>19, <1>0 DEF Evict, TypeOK, Lifecycle, Gather, End, Open, Abortable, Freed, lockVars, txVars, dataVars, UnchangedDocs, MaySee
<1>21. ASSUME NEW d \in Docs, LateFill(d) PROVE MaySee(u)
  BY <1>21, <1>0 DEF LateFill, TypeOK, Lifecycle, Gather, End, Open, Abortable, Freed, lockVars, txVars, dataVars, UnchangedDocs, MaySee
<1>20. CASE UNCHANGED vars
  BY <1>20 DEF vars, txVars, dataVars, UnchangedDocs, MaySee
<1> QED
  BY <1>1, <1>2, <1>3, <1>4, <1>5, <1>6, <1>7, <1>8, <1>9, <1>10, <1>11, <1>12, <1>13, <1>14, <1>15, <1>16, <1>17, <1>18, <1>19, <1>20, <1>21 DEF Next, SessionStep, CommitStep, WriterStep

(* What a Flush, whole or in part, makes of a document.                    *)
LEMMA Flushed ==
  ASSUME IInv, NEW t \in Txs, Flush(t) \/ FlushFails(t), NEW d \in Docs
  PROVE  /\ at[t] = "flush" /\ at'[t] # "flush"
         /\ raced' = raced \ Touched(t) /\ misled' = misled \ Touched(t)
         /\ d \notin Touched(t) => store'[d] = store[d]
         /\ d \in Touched(t) => store'[d] \in {store[d], Outcome(t, d)}
<1>0. /\ at[t] = "flush" /\ at'[t] # "flush"
      /\ raced' = raced \ Touched(t) /\ misled' = misled \ Touched(t)
  BY DEF Flush, FlushFails, IInv, TypeOK
<1>1. PICK ds \in SUBSET Touched(t) : store' = After(t, ds)
  BY DEF Flush, FlushFails, Store
<1> QED
  BY <1>0, <1>1 DEF After

(* What a transaction is about to set is no older than what is stored.     *)
LEMMA FreshStep == IInv /\ [Next]_vars => StaysFresh'
<1> SUFFICES ASSUME IInv, [Next]_vars, ~stolen', NEW t \in Txs, at'[t] = "flush",
                    NEW m \in Range(muts'[t]), m.type = "set"
             PROVE  m.version >= store'[m.doc] \/ m.doc \in raced' \cup misled'
  BY DEF StaysFresh, Fresh
<1>0. ~stolen
  BY FlagStep DEF vars, lockVars
<1>1. muts'[t] = muts[t] /\ (at[t] = "flush" \/ Validate(t))
  BY SeeStep DEF MaySee
<1>2. m \in Mutation /\ m.doc \in Docs /\ m.version \in Nat
  <2>1. m \in Mutation
    BY <1>1 DEF IInv, TypeOK, Range
  <2> QED
    BY <2>1, TransactionsAssumption DEF Mutation, TransactionsAssumption
<1>3. m.doc \in Touched(t)
  BY <1>1 DEF Touched
<1>4. store[m.doc] \in Nat /\ Existing(m.doc) \in Nat
  <2>1. store[m.doc] \in 0 .. MaxVersion /\ cached[m.doc] \in 0 .. MaxVersion
    BY <1>2 DEF IInv, TypeOK
  <2> QED
    BY <2>1, TransactionsAssumption DEF Existing, TransactionsAssumption
<1>5. CASE Validate(t)
  <2> DEFINE fails == \E k \in Range(muts[t]) : Conflict(k)
  <2>1. at' = [at EXCEPT ![t] = IF fails THEN "failed" ELSE "flush"]
    BY <1>5 DEF Validate
  <2>2. ~fails
    BY <2>1 DEF IInv, TypeOK
  <2>3. misled' = misled \cup {d \in Touched(t) : Existing(d) < store[d]}
    BY <1>5, <2>2 DEF Validate
  <2>4. Existing(m.doc) <= m.version
    BY <1>1, <1>2, <1>4, <2>2 DEF Conflict
  <2>5. store' = store
    BY <1>5 DEF Validate
  <2>6. CASE Existing(m.doc) < store[m.doc]
    BY <1>3, <2>3, <2>6
  <2>7. CASE ~(Existing(m.doc) < store[m.doc])
    BY <1>2, <1>4, <2>4, <2>5, <2>7
  <2> QED
    BY <2>6, <2>7
<1>6. CASE at[t] = "flush"
  <2>1. m.version >= store[m.doc] \/ m.doc \in raced \cup misled
    BY <1>0, <1>1, <1>6 DEF IInv, StaysFresh, Fresh
  <2>2. ASSUME NEW u \in Txs, Flush(u) \/ FlushFails(u)
        PROVE  /\ store'[m.doc] = store[m.doc]
               /\ m.doc \in raced \cup misled => m.doc \in raced' \cup misled'
    <3>1. at[u] = "flush" /\ u # t
      BY <1>2, <2>2, Flushed
    <3>2. m.doc \notin Touched(u)
      BY <1>0, <1>3, <1>6, <3>1, ExcludedBy DEF LocksExclude, Applying
    <3> QED
      BY <1>2, <2>2, <3>2, Flushed
  <2>3. ASSUME NEW w \in Writers, NEW d \in Docs, NEW st \in Stripes, WriterWrites(w, d, st)
        PROVE  /\ m.doc \in raced' \/ (store'[m.doc] = store[m.doc] /\ raced \subseteq raced')
               /\ misled' = misled
    <3>1. misled' = misled
      BY <2>3 DEF WriterWrites
    <3>2. CASE d = m.doc
      BY <1>3, <1>6, <2>3, <3>2 DEF WriterWrites
    <3>3. CASE d # m.doc
      <4>1. PICK v : store' = [store EXCEPT ![d] = v]
        BY <2>3 DEF WriterWrites, Store
      <4>2. store'[m.doc] = store[m.doc]
        BY <1>2, <3>3, <4>1 DEF IInv, TypeOK
      <4>3. raced \subseteq raced'
        BY <2>3 DEF WriterWrites
      <4> QED
        BY <3>1, <4>2, <4>3
    <3> QED
      BY <3>1, <3>2, <3>3
  <2>4. ASSUME NEW u \in Txs, Validate(u)
        PROVE  store' = store /\ raced' = raced /\ misled \subseteq misled'
    BY <2>4 DEF Validate
  <2> QED
    BY <2>1, <2>2, <2>3, <2>4, DocsStep DEF DocsChange, UnchangedDocs
<1> QED
  BY <1>1, <1>5, <1>6

(* A set a Flush applies is not older than what it replaces, unless the    *)
(* document was raced by a writer outside or the check of it misled.       *)
LEMMA FlushIsFresh ==
  ASSUME IInv, ~stolen, NEW t \in Txs, at[t] = "flush", NEW d \in Touched(t)
  PROVE  /\ d \in Docs /\ Outcome(t, d) \in Nat
         /\ Outcome(t, d) = 0 \/ Outcome(t, d) >= store[d] \/ d \in raced \cup misled
<1>1. PICK m \in Range(muts[t]) : m.doc = d /\ Outcome(t, d) = IF m.type = "set" THEN m.version ELSE 0
  BY OutcomeIsLast DEF IInv
<1>2. Fresh(m)
  BY DEF IInv, StaysFresh
<1>3. d \in Docs /\ Outcome(t, d) \in 0 .. MaxVersion
  BY OutcomeIsLast DEF IInv
<1> QED
  BY <1>1, <1>2, <1>3, TransactionsAssumption DEF Fresh, TransactionsAssumption

-----------------------------------------------------------------------------
(* The invariant holds in every state a behaviour reaches.                 *)
LEMMA Invariance == Spec => []IInv
<1>1. IInv /\ [Next]_vars => IInv'
  <2> SUFFICES ASSUME IInv, [Next]_vars PROVE IInv'
    OBVIOUS
  <2> QED
    BY TypeStep, LifeStep, RestStep, OnlyStep, PlacesStep, LostStep, FreshStep DEF IInv
<1> QED
  BY InitIInv, <1>1, PTL DEF Spec

(* Type correctness: statuses, versions, retries and lists of stripes stay *)
(* in their ranges, whatever Commit, Abort and the writers do.             *)
THEOREM TypeCorrect == Spec => []TypeOK
<1>1. IInv => TypeOK
  BY DEF IInv
<1> QED
  BY Invariance, <1>1, PTL

(* Atomicity of Commit (transaction.go:105): committed means all effects   *)
(* applied, aborted means none, whatever expiry and ROLLBACK do meanwhile. *)
THEOREM AtomicCommit == Spec => []AllOrNothing
<1>1. IInv => AllOrNothing
  BY DEF IInv, Lifecycle, AllOrNothing
<1> QED
  BY Invariance, <1>1, PTL

(* Exclusion: transactions that apply at the same time have no document in *)
(* common, and only releaseLocks of an Abort (transaction.go:326) unlocks  *)
(* what it does not hold.                                                  *)
THEOREM Exclusion == Spec => []LocksExclude
BY Invariance, ExcludedBy, PTL

(* Versions: applying a transaction (transaction.go:158) never puts an     *)
(* older version over a newer one, but for documents a writer outside      *)
(* raced and those of which L1, read first (transaction.go:291), showed    *)
(* the check an older version than Badger had.                             *)
THEOREM VersionsOnlyGrow == Spec => VersionsGrow
<1> DEFINE Grows == \A t \in Txs, d \in Docs :
              at[t] = "flush" /\ at'[t] # "flush" /\ store'[d] # 0
                /\ d \notin raced \cup misled /\ ~stolen => store'[d] >= store[d]
<1>1. IInv /\ [Next]_vars => [Grows]_vars
  <2> SUFFICES ASSUME IInv, [Next]_vars, NEW t \in Txs, NEW d \in Docs,
                      at[t] = "flush", at'[t] # "flush", store'[d] # 0,
                      d \notin raced \cup misled, ~stolen
               PROVE  store'[d] >= store[d]
    OBVIOUS
  <2>1. store[d] \in Nat
    BY TransactionsAssumption DEF IInv, TypeOK, TransactionsAssumption
  <2>2. CASE UnchangedDocs
    BY <2>1, <2>2 DEF UnchangedDocs
  <2>3. ASSUME NEW u \in Txs, Flush(u) \/ FlushFails(u) PROVE store'[d] >= store[d]
    <3>1. CASE d \notin Touched(u)
      BY <2>1, <2>3, <3>1, Flushed
    <3>2. CASE d \in Touched(u)
      <4>1. Outcome(u, d) \in Nat /\ (Outcome(u, d) = 0 \/ Outcome(u, d) >= store[d])
        BY <2>3, <3>2, Flushed, FlushIsFresh
      <4> QED
        BY <2>1, <2>3, <3>2, <4>1, Flushed
    <3> QED
      BY <3>1, <3>2
  <2>4. ASSUME NEW w \in Writers, NEW e \in Docs, NEW st \in Stripes, WriterWrites(w, e, st) PROVE FALSE
    BY <2>4 DEF WriterWrites, txVars
  <2>5. ASSUME NEW u \in Txs, Validate(u) PROVE store'[d] >= store[d]
    BY <2>1, <2>5 DEF Validate
  <2> QED
    BY <2>2, <2>3, <2>4, <2>5, DocsStep DEF DocsChange
<1> QED
  BY Invariance, <1>1, PTL DEF Spec, VersionsGrow

-----------------------------------------------------------------------------
(* Circles of waiting transactions.                                        *)

(* The mutations i of t and j of u are different ones whose keys share a   *)
(* stripe, and different documents' or the same transaction's.             *)
Shares(t, i, u, j) ==
  /\ <<t, i>> # <<u, j>> /\ stripe[muts[t][i].doc] = stripe[muts[u][j].doc]
  /\ t = u \/ muts[t][i].doc # muts[u][j].doc

(* Where a waiting transaction waits, and what its holder holds.           *)
LEMMA WaitsAt ==
  ASSUME IInv, NEW t \in Txs, NEW u \in Txs, Waits(t, u), at[u] = "lock"
  PROVE  /\ Visited(t) + 1 \in DOMAIN muts[t]
         /\ \E k \in DOMAIN muts[u] :
              k <= Visited(u) /\ stripe[LockDoc(u, k)] = stripe[LockDoc(t, Visited(t) + 1)]
<1>0. TypeOK /\ TodoIsRest(t)
  BY DEF IInv
<1>1. /\ Visited(t) + 1 \in DOMAIN muts[t] /\ Head(todo[t]) \in Stripes
      /\ Head(todo[t]) = LockList(t)[Visited(t) + 1]
  BY <1>0, HeadIsNext DEF Waits
<1>2. Head(todo[t]) = stripe[LockDoc(t, Visited(t) + 1)]
  BY <1>1 DEF LockList
<1>3. holder[Head(todo[t])] = u
  BY DEF Waits
<1>4. PICK k \in HeldPlaces(u) : LockList(u)[k] = Head(todo[t])
  BY <1>1, <1>3 DEF IInv, HoldsOnlyPlaces
<1>5. k \in DOMAIN muts[u] /\ k <= Visited(u)
  BY <1>4 DEF HeldPlaces, Applying
<1>6. LockList(u)[k] = stripe[LockDoc(u, k)]
  BY <1>5 DEF LockList
<1> QED
  BY <1>1, <1>2, <1>4, <1>5, <1>6

(* In a circle, take the transaction that waits for the greatest document. *)
(* Whoever holds its stripe either holds it for another document, or holds *)
(* that document's and waits for a greater one: the circle cannot close.   *)
LEMMA CirclesShare == IInv => NoCircle
<1> SUFFICES ASSUME IInv, NEW ts \in (SUBSET Txs) \ {{}},
                    \A t \in ts : \E u \in ts : Waits(t, u),
                    \A t, u \in ts : \A i \in DOMAIN muts[t], j \in DOMAIN muts[u] : ~Shares(t, i, u, j)
             PROVE  FALSE
  BY DEF NoCircle, Shares
<1> DEFINE n(t) == Visited(t) + 1
           doc(t) == LockDoc(t, n(t))
           D == {doc(t) : t \in ts}
<1>0. TypeOK /\ ts \subseteq Txs /\ \A t \in ts : TodoIsRest(t)
  BY DEF IInv
<1>1. \A t \in ts : at[t] = "lock" /\ todo[t] # <<>>
  BY DEF Waits
<1>2. \A t \in ts : n(t) \in DOMAIN muts[t] /\ Visited(t) \in Nat
  BY <1>0, <1>1, HeadIsNext
<1>3. \A t \in ts : doc(t) \in Docs
  BY <1>0, <1>2, Places
<1>4. Docs \subseteq Nat /\ IsFiniteSet(Docs)
  BY TransactionsAssumption DEF TransactionsAssumption
<1>5. D \subseteq Nat /\ IsFiniteSet(D) /\ D # {}
  <2>0. ts # {}
    OBVIOUS
  <2>1. D \in SUBSET Docs /\ D # {}
    <3> HIDE DEF doc
    <3> QED
      BY <1>3, <2>0
  <2> HIDE DEF D
  <2> QED
    BY <1>4, <2>1, FS_Subset
<1>6. PICK t \in ts : \A u \in ts : doc(u) <= doc(t)
  <2>1. \E d \in D : \A e \in D : e <= d
    <3> HIDE DEF D
    <3> QED
      BY <1>5, NumbersInOrder
  <2> QED
    BY <2>1
<1>7. PICK u \in ts : Waits(t, u)
  OBVIOUS
<1>8. PICK k \in DOMAIN muts[u] : k <= Visited(u) /\ stripe[LockDoc(u, k)] = stripe[doc(t)]
  BY <1>0, <1>1, <1>7, WaitsAt
<1> DEFINE i == AtPlace(u, k)
           j == AtPlace(t, n(t))
           l == AtPlace(u, n(u))
<1>9. k # n(u) /\ k <= n(u) /\ k \in Nat
  <2>1. k \in Nat
    <3>1. DOMAIN muts[u] = 1 .. Len(muts[u])
      BY <1>0, Places
    <3> QED
      BY <1>8, <3>1
  <2> QED
    BY <1>2, <1>8, <2>1
<1>10. /\ i \in DOMAIN muts[u] /\ j \in DOMAIN muts[t] /\ l \in DOMAIN muts[u]
       /\ Place(u, i) = k /\ Place(t, j) = n(t) /\ Place(u, l) = n(u)
  BY <1>0, <1>2, <1>8, Places
<1>11. /\ LockDoc(u, k) = muts[u][i].doc /\ doc(t) = muts[t][j].doc /\ doc(u) = muts[u][l].doc
  BY DEF LockDoc
<1>12. i # l
  BY <1>9, <1>10
<1> HIDE DEF i, j, l, n
<1>13. CASE t = u
  <2>1. j = l
    BY <1>13 DEF j, l
  <2>2. Shares(u, i, u, l)
    BY <1>8, <1>11, <1>12, <1>13, <2>1 DEF Shares
  <2> QED
    BY <1>10, <2>2
<1>14. CASE t # u
  <2>1. LockDoc(u, k) = doc(t)
    <3>1. ~Shares(t, j, u, i)
      BY <1>10
    <3> QED
      BY <1>8, <1>11, <1>14, <3>1 DEF Shares
  <2>2. LockDoc(u, k) <= doc(u)
    BY <1>0, <1>2, <1>8, <1>9, Places
  <2>3. doc(u) = doc(t)
    <3> HIDE DEF doc
    <3>1. doc(u) \in Nat /\ doc(t) \in Nat
      BY <1>3, <1>4
    <3>2. doc(t) <= doc(u) /\ doc(u) <= doc(t)
      BY <1>6, <2>1, <2>2
    <3> QED
      BY <3>1, <3>2
  <2>4. Shares(u, i, u, l)
    BY <1>11, <1>12, <2>1, <2>3 DEF Shares
  <2> QED
    BY <1>10, <2>4
<1> QED
  BY <1>13, <1>14

(* Deadlock: the keys are sorted (transaction.go:207), so transactions     *)
(* that wait in a circle have different keys that share a stripe, or one   *)
(* has a key or a stripe twice.                                            *)
THEOREM CirclesAreOfStripes == Spec => []NoCircle
BY Invariance, CirclesShare, PTL
=============================================================================
