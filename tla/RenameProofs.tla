---------------------------- MODULE RenameProofs ----------------------------
(***************************************************************************)
(* Proofs about Rename, for any finite set of names, and any ids, writers, *)
(* administrators, stores, inserts, troubles and copy attempts.            *)
(*                                                                         *)
(* Both theorems follow from RenameInv, which says in this order: of what  *)
(* shape an order is at each of its steps (OrderInv); that no two names    *)
(* have a directory or a handle in common, and that whoever holds a handle *)
(* holds the pool's (PoolInv); that a store no directory was made for yet  *)
(* is empty (FreshInv); that keys, orders and logs know only what was      *)
(* committed (KnownInv); and where each safe document is (Places): in a    *)
(* directory that no order is about to take away, or where an order that   *)
(* has its names to itself has brought it (Brought).  The lemmas named     *)
(* after an action and a part of RenameInv show that the action keeps it.  *)
(***************************************************************************)
EXTENDS Rename, FiniteSetTheorems, TLAPS

-----------------------------------------------------------------------------
(* Types *)

(* What an order, a request and a sweep keep while they are at work, and   *)
(* what a store holds.                                                     *)
AdminSteps == {"lock", "close", "drop", "move", "copy", "retry", "remove", "open", "read",
               "write", "delete", "meta"}
Doc == [id : Ids, v : Nat, indexed : BOOLEAN]
AnOrder == [step : AdminSteps, op : {"rename", "drop"}, old : Names, new : Names, tries : Nat,
            kind : {"d", "s", None}, pairs : {<<>>} \cup [Ids -> Nat], h : 0 .. MaxStores,
            docs : SUBSET Doc]
AWriter == [step : {"commit"}, name : Names, id : Ids, kind : {"single", "batch"},
            h : 0 .. MaxStores, v : Nat, clean : BOOLEAN]
ASweep == [step : {"check", "purge", "unindex", "index"}, name : Names, h : 0 .. MaxStores,
           bad : SUBSET Ids]
Store == [{"d", "s"} -> [KeyNames -> [Ids -> Nat]]]

TypeInv ==
  /\ scope \in {"block", "db"}
  /\ dir \in [Names -> 0 .. MaxStores] /\ pool \in [Names -> 0 .. MaxStores]
  /\ keys \in [Stores -> Store] /\ made \in Nat \ {0}
  /\ writer \in [Writers -> {Idle} \cup AWriter] /\ admin \in [Admins -> {Idle} \cup AnOrder]
  /\ sweep \in {Idle} \cup ASweep
  /\ log \in Seq([name : Names, id : Ids, v : Nat])
  /\ form \in Seq({"plain", "packed", "broken"})
  /\ sweeps \in Nat
  /\ kept \in SUBSET Nat /\ moved \in [name : Names \cup {None}, docs : SUBSET Doc]

LEMMA OrderFacts ==
  ASSUME TypeInv, NEW a \in Admins
  PROVE  /\ admin[a].step # "idle" <=> admin[a] \in AnOrder
         /\ admin[a].step = "idle" <=> admin[a] = Idle
         /\ admin[a] = Idle \/ admin[a] \in AnOrder
BY DEF TypeInv, AnOrder, Idle, AdminSteps

LEMMA WriterFacts ==
  ASSUME TypeInv, NEW w \in Writers
  PROVE  /\ writer[w].step = "commit" <=> writer[w] \in AWriter
         /\ writer[w].step = "idle" <=> writer[w] = Idle
         /\ writer[w] = Idle \/ writer[w] \in AWriter
BY DEF TypeInv, AWriter, Idle

LEMMA SweepFacts ==
  ASSUME TypeInv
  PROVE  /\ sweep # Idle <=> sweep \in ASweep
         /\ sweep.step = "idle" <=> sweep = Idle
         /\ sweep = Idle \/ sweep \in ASweep
BY DEF TypeInv, ASweep, Idle

LEMMA InitTypes == RenameInit => TypeInv
<1> SUFFICES ASSUME RenameInit PROVE TypeInv
  OBVIOUS
<1>1. MaxStores \in Nat \ {0} /\ Stores = 1 .. MaxStores /\ Scopes \subseteq {"block", "db"}
  BY RenameAssumption DEF Stores
<1>2. PICK n \in Names, i \in Ids, f \in {"plain", "packed", "broken"} :
        /\ dir = [m \in Names |-> IF m = n THEN 1 ELSE 0]
        /\ keys = [s \in Stores |-> IF s = 1
                     THEN [k \in {"d", "s"} |-> [NoKeys[k] EXCEPT ![KeyName(n)][i] =
                             IF k = "d" \/ f # "broken" THEN 1 ELSE 0]] ELSE NoKeys]
        /\ log = <<[name |-> n, id |-> i, v |-> 1]>>
        /\ form = <<f>>
  BY DEF RenameInit
<1>3. NoKeys \in Store
  BY DEF NoKeys, Store
<1>4. \A k \in {"d", "s"} : [NoKeys[k] EXCEPT ![KeyName(n)][i] =
                             IF k = "d" \/ f # "broken" THEN 1 ELSE 0] \in [KeyNames -> [Ids -> Nat]]
  BY DEF NoKeys
<1>5. keys \in [Stores -> Store]
  <2>1. [k \in {"d", "s"} |-> [NoKeys[k] EXCEPT ![KeyName(n)][i] =
                             IF k = "d" \/ f # "broken" THEN 1 ELSE 0]] \in Store
    BY <1>4 DEF Store
  <2> QED BY <1>2, <1>3, <2>1
<1>6. log \in Seq([name : Names, id : Ids, v : Nat]) /\ form \in Seq({"plain", "packed", "broken"})
  BY <1>2
<1>7. dir \in [Names -> 0 .. MaxStores] /\ pool \in [Names -> 0 .. MaxStores]
  BY <1>1, <1>2 DEF RenameInit
<1>8. writer \in [Writers -> {Idle} \cup AWriter] /\ admin \in [Admins -> {Idle} \cup AnOrder]
  BY DEF RenameInit
<1>9. moved \in [name : Names \cup {None}, docs : SUBSET Doc]
  BY DEF RenameInit, NothingMoved
<1>10. /\ scope \in {"block", "db"} /\ sweep \in {Idle} \cup ASweep /\ made \in Nat \ {0}
       /\ sweeps \in Nat /\ kept \in SUBSET Nat
  BY <1>1 DEF RenameInit
<1> QED BY <1>5, <1>6, <1>7, <1>8, <1>9, <1>10 DEF TypeInv

LEMMA Numbers ==
  /\ MaxStores \in Nat \ {0} /\ Stores = 1 .. MaxStores
  /\ \A n : KeyName(n) = IF scope = "block" THEN n ELSE TheBlock
BY RenameAssumption DEF Stores, KeyName

LEMMA MadeTypes ==
  ASSUME TypeInv, NEW n \in Names
  PROVE  /\ MakeDirectory(n) => dir' \in [Names -> 0 .. MaxStores] /\ made' \in Nat \ {0}
         /\ pool[n] = 0 /\ MakeDirectory(n) => Opened(n) \in 1 .. MaxStores
         /\ pool[n] # 0 => Opened(n) \in 1 .. MaxStores
<1>1. dir \in [Names -> 0 .. MaxStores] /\ pool \in [Names -> 0 .. MaxStores] /\ made \in Nat \ {0}
  BY DEF TypeInv
<1>2. MaxStores \in Nat \ {0} /\ (made < MaxStores => made + 1 \in 1 .. MaxStores)
  BY <1>1, Numbers
<1>3. MakeDirectory(n) => dir' \in [Names -> 0 .. MaxStores] /\ made' \in Nat \ {0}
  <2>1. CASE dir[n] = 0
    <3>1. made + 1 \in 1 .. MaxStores => [dir EXCEPT ![n] = made + 1] \in [Names -> 0 .. MaxStores]
      BY <1>1, <1>2
    <3> QED BY <1>1, <1>2, <2>1, <3>1 DEF MakeDirectory, Missing
  <2>2. CASE dir[n] # 0
    BY <1>1, <2>2 DEF MakeDirectory, Missing
  <2> QED BY <2>1, <2>2
<1>4. pool[n] = 0 /\ MakeDirectory(n) => Opened(n) \in 1 .. MaxStores
  BY <1>1, <1>2 DEF MakeDirectory, Missing, Opened
<1>5. pool[n] # 0 => Opened(n) \in 1 .. MaxStores
  BY <1>1 DEF Opened
<1> QED BY <1>3, <1>4, <1>5

LEMMA LosesTypes ==
  ASSUME TypeInv, NEW s
  PROVE  /\ \A w \in Writers : Loses(writer[w], s) \in {Idle} \cup AWriter
         /\ \A a \in Admins : Loses(admin[a], s) \in {Idle} \cup AnOrder
         /\ Loses(sweep, s) \in {Idle} \cup ASweep
<1>1. \A w \in Writers : Loses(writer[w], s) \in {Idle} \cup AWriter
  BY Numbers, WriterFacts DEF Loses, AWriter
<1>2. \A a \in Admins : Loses(admin[a], s) \in {Idle} \cup AnOrder
  BY Numbers, OrderFacts DEF Loses, AnOrder
<1>3. Loses(sweep, s) \in {Idle} \cup ASweep
  BY Numbers, SweepFacts DEF Loses, ASweep
<1> QED BY <1>1, <1>2, <1>3

LEMMA FailsTypes ==
  ASSUME TypeInv, NEW a \in Admins, Fails(a)
  PROVE  admin' \in [Admins -> {Idle} \cup AnOrder]
BY DEF TypeInv, Fails

LEMMA GoesTypes ==
  ASSUME TypeInv, NEW a \in Admins, admin[a] # Idle, NEW step \in AdminSteps, Goes(a, step)
  PROVE  /\ admin' \in [Admins -> {Idle} \cup AnOrder]
         /\ admin'[a] = [admin[a] EXCEPT !.step = step]
         /\ \A b \in Admins \ {a} : admin'[b] = admin[b]
<1>1. admin[a] \in AnOrder /\ admin \in [Admins -> {Idle} \cup AnOrder]
  BY OrderFacts DEF TypeInv
<1>2. [admin[a] EXCEPT !.step = step] \in AnOrder
  BY <1>1 DEF AnOrder
<1>3. admin' = [admin EXCEPT ![a] = [admin[a] EXCEPT !.step = step]]
  BY <1>1 DEF Goes
<1> QED BY <1>1, <1>2, <1>3

LEMMA CreateTypes ==
  ASSUME TypeInv, NEW n \in Names, Create(n) PROVE TypeInv'
BY Numbers DEF TypeInv, Create, ghosts, bounds

LEMMA InsertBeginsTypes ==
  ASSUME TypeInv, NEW w \in Writers, NEW n \in Names, NEW i \in Ids,
         NEW kind \in {"single", "batch"}, NEW f \in {"plain", "packed"},
         InsertBegins(w, n, i, kind, f)
  PROVE  TypeInv'
<1>1. Opened(n) \in 1 .. MaxStores /\ dir' \in [Names -> 0 .. MaxStores] /\ made' \in Nat \ {0}
  BY MadeTypes, pool[n] = 0 \/ pool[n] # 0 DEF InsertBegins
<1>2. Len(form) + 1 \in Nat /\ form' \in Seq({"plain", "packed", "broken"})
  BY DEF InsertBegins, TypeInv
<1>3. [step |-> "commit", name |-> n, id |-> i, kind |-> kind, h |-> Opened(n),
       v |-> Len(form) + 1, clean |-> Undisturbed(n)] \in AWriter
  <2>1. Undisturbed(n) \in BOOLEAN
    BY DEF Undisturbed
  <2> QED BY <1>1, <1>2, <2>1 DEF AWriter
<1>4. writer' \in [Writers -> {Idle} \cup AWriter]
  BY <1>3 DEF InsertBegins, TypeInv
<1>5. pool' \in [Names -> 0 .. MaxStores]
  BY <1>1, Numbers DEF InsertBegins, TypeInv
<1> QED BY <1>1, <1>2, <1>4, <1>5 DEF InsertBegins, TypeInv, bounds, ghosts

LEMMA PutTypes ==
  ASSUME TypeInv, NEW s \in Stores, NEW kind \in {"d", "s"}, NEW k \in KeyNames,
         NEW f \in [Ids -> Nat]
  PROVE  [keys EXCEPT ![s][kind][k] = f] \in [Stores -> Store]
<1>1. keys[s] \in Store
  BY DEF TypeInv
<1>2. [keys[s][kind] EXCEPT ![k] = f] \in [KeyNames -> [Ids -> Nat]]
  BY <1>1 DEF Store
<1>3. [keys[s] EXCEPT ![kind] = [keys[s][kind] EXCEPT ![k] = f]] \in Store
  BY <1>1, <1>2 DEF Store
<1> QED BY <1>3 DEF TypeInv

-----------------------------------------------------------------------------
(* What a step writes to the keys *)

(* One key of a store changed, or a row of keys.                           *)
Put(s, kind, k, f) == [keys EXCEPT ![s][kind][k] = f]

LEMMA SetRow ==
  ASSUME TypeInv, NEW s \in Stores, NEW kind \in {"d", "s"}, NEW k \in KeyNames,
         NEW f \in [Ids -> Nat],
         keys' = Put(s, kind, k, f)
  PROVE  /\ keys' \in [Stores -> Store]
         /\ \A t \in Stores, x \in {"d", "s"}, m \in KeyNames, j \in Ids :
              keys'[t][x][m][j] = IF t = s /\ x = kind /\ m = k THEN f[j] ELSE keys[t][x][m][j]
<1>1. keys[s] \in Store /\ keys' \in [Stores -> Store]
  BY PutTypes DEF TypeInv, Put
<1>2. keys'[s] = [keys[s] EXCEPT ![kind] = [keys[s][kind] EXCEPT ![k] = f]]
  BY DEF TypeInv, Put
<1>3. \A t \in Stores : t # s => keys'[t] = keys[t]
  BY DEF TypeInv, Put
<1>4. \A x \in {"d", "s"} : keys[s][x] \in [KeyNames -> [Ids -> Nat]]
  BY <1>1 DEF Store
<1>5. \A x \in {"d", "s"} : x # kind => keys'[s][x] = keys[s][x]
  BY <1>1, <1>2 DEF Store
<1>6. keys'[s][kind] = [keys[s][kind] EXCEPT ![k] = f]
  BY <1>1, <1>2 DEF Store
<1> QED BY <1>1, <1>3, <1>4, <1>5, <1>6

LEMMA CommitKeys ==
  ASSUME TypeInv, NEW w \in Writers, Commit(w), writer[w].h # 0
  PROVE  LET p == writer[w]
         IN /\ keys' \in [Stores -> Store]
            /\ \A t \in Stores, x \in {"d", "s"}, m \in KeyNames, j \in Ids :
                 keys'[t][x][m][j] = IF t = p.h /\ m = KeyName(p.name) /\ j = p.id THEN p.v
                                     ELSE keys[t][x][m][j]
<1> DEFINE p == writer[w]
           k == KeyName(p.name)
<1>1. p \in AWriter /\ p.h \in Stores /\ k \in KeyNames /\ p.id \in Ids /\ p.v \in Nat
  <2>1. p.step = "commit" /\ p.h # 0
    BY DEF Commit
  <2>2. p \in AWriter
    BY <2>1, WriterFacts
  <2> QED BY <2>1, <2>2, Numbers DEF AWriter, KeyNames, TypeInv
<1>2. keys' = [keys EXCEPT ![p.h]["d"][k][p.id] = p.v, ![p.h]["s"][k][p.id] = p.v]
  BY DEF Commit
<1> HIDE DEF p, k
<1>3. keys[p.h] \in Store /\ keys \in [Stores -> Store]
  BY <1>1 DEF TypeInv
<1>4. keys'[p.h] = [keys[p.h] EXCEPT !["d"][k][p.id] = p.v, !["s"][k][p.id] = p.v]
      /\ \A t \in Stores : t # p.h => keys'[t] = keys[t]
  BY <1>1, <1>2, <1>3
<1>5. \A x \in {"d", "s"} : keys[p.h][x] \in [KeyNames -> [Ids -> Nat]]
  BY <1>3 DEF Store
<1>6. \A x \in {"d", "s"} : keys'[p.h][x] = [keys[p.h][x] EXCEPT ![k][p.id] = p.v]
  BY <1>3, <1>4 DEF Store
<1>7. keys'[p.h] \in Store
  <2>1. \A x \in {"d", "s"} : keys'[p.h][x] \in [KeyNames -> [Ids -> Nat]]
    <3>1. \A g \in [KeyNames -> [Ids -> Nat]] : [g EXCEPT ![k][p.id] = p.v] \in [KeyNames -> [Ids -> Nat]]
      BY <1>1
    <3>2. ASSUME NEW x \in {"d", "s"} PROVE keys'[p.h][x] \in [KeyNames -> [Ids -> Nat]]
      <4>1. keys[p.h][x] \in [KeyNames -> [Ids -> Nat]] /\ keys'[p.h][x] = [keys[p.h][x] EXCEPT ![k][p.id] = p.v]
        BY <1>5, <1>6
      <4> HIDE <1>5, <1>6
      <4> QED BY <3>1, <4>1
    <3> QED BY <3>2
  <2>2. keys'[p.h] = [x \in {"d", "s"} |-> keys'[p.h][x]]
    BY <1>3, <1>4 DEF Store
  <2> QED BY <2>1, <2>2 DEF Store
<1>8. keys' \in [Stores -> Store]
  <2>1. keys' = [t \in Stores |-> keys'[t]]
    BY <1>2, <1>3
  <2>2. \A t \in Stores : keys'[t] \in Store
    BY <1>3, <1>4, <1>7
  <2> QED BY <2>1, <2>2
<1>9. \A x \in {"d", "s"}, m \in KeyNames, j \in Ids :
        keys'[p.h][x][m][j] = IF m = k /\ j = p.id THEN p.v ELSE keys[p.h][x][m][j]
  BY <1>1, <1>5, <1>6
<1>10. \A t \in Stores, x \in {"d", "s"}, m \in KeyNames, j \in Ids :
        keys'[t][x][m][j] = IF t = p.h /\ m = k /\ j = p.id THEN p.v ELSE keys[t][x][m][j]
  <2>1. \A t \in Stores : t # p.h => keys'[t] = keys[t]
    BY <1>4
  <2> HIDE <1>4
  <2> QED BY <1>9, <2>1
<1> QED BY <1>8, <1>10 DEF p, k

LEMMA CommitTypes ==
  ASSUME TypeInv, NEW w \in Writers, Commit(w) PROVE TypeInv'
<1> DEFINE p == writer[w]
<1>1. p \in AWriter
  BY WriterFacts DEF Commit
<1>2. keys' \in [Stores -> Store]
  BY CommitKeys DEF Commit, TypeInv
<1>3. log' \in Seq([name : Names, id : Ids, v : Nat])
  <2>1. [name |-> p.name, id |-> p.id, v |-> p.v] \in [name : Names, id : Ids, v : Nat]
    BY <1>1 DEF AWriter
  <2> QED BY <2>1 DEF Commit, TypeInv
<1>4. writer' \in [Writers -> {Idle} \cup AWriter]
  BY DEF Commit, TypeInv
<1>5. kept' \in SUBSET Nat
  BY <1>1 DEF Commit, TypeInv, AWriter
<1> QED BY <1>2, <1>3, <1>4, <1>5 DEF Commit, TypeInv, bounds

-----------------------------------------------------------------------------
(* Orders, and the types their steps keep *)

(* The steps at which a migration has its handle.                          *)
Touching == {"read", "write", "delete"}
Busy(a) == admin[a].step # "idle"
(* What an order may be at each of its steps.                              *)
GoodOrder(p) ==
  /\ p.op = "drop" => p.old = p.new /\ p.step \in {"lock", "close", "drop"}
  /\ p.op = "rename" => p.old # p.new /\ p.step # "drop"
  /\ scope = "db" => p.step \notin {"open", "read", "write", "delete"}
  /\ p.kind = "s" => p.step \in Touching
  /\ p.kind = None => p.step = "meta"
  /\ p.h # 0 => p.step \in {"read", "write", "delete", "meta"}
  /\ p.step \in {"write", "delete"} => p.pairs \in [Ids -> Nat]
OrderInv == \A a \in Admins : Busy(a) => GoodOrder(admin[a])

LEMMA Steps ==
  ASSUME TypeInv, NEW a \in Admins, NEW x \in AdminSteps, admin[a].step = x
  PROVE  admin[a] \in AnOrder /\ Busy(a) /\ admin[a] # Idle /\ admin[a].step \in AdminSteps
BY OrderFacts DEF AdminSteps, Busy, Idle, AnOrder

LEMMA OrderTypes ==
  ASSUME TypeInv, NEW a \in Admins, NEW op \in {"rename", "drop"}, NEW old \in Names,
         NEW new \in Names,
         Order(a, op, old, new)
  PROVE  TypeInv'
<1>1. [step |-> "lock", op |-> op, old |-> old, new |-> new, tries |-> 0, kind |-> "d",
       pairs |-> <<>>, h |-> 0, docs |-> {}] \in AnOrder
  BY Numbers DEF AnOrder, AdminSteps
<1>2. admin' \in [Admins -> {Idle} \cup AnOrder]
  BY <1>1 DEF Order, TypeInv
<1>3. writer' \in [Writers -> {Idle} \cup AWriter]
  <2>1. \A w \in Writers : writer[w] # Idle => [writer[w] EXCEPT !.clean = FALSE] \in AWriter
    <3>1. \A r \in AWriter : [r EXCEPT !.clean = FALSE] \in AWriter
      BY DEF AWriter
    <3> QED BY <3>1, WriterFacts
  <2> QED BY <2>1, WriterFacts DEF Order
<1>4. moved' \in [name : Names \cup {None}, docs : SUBSET Doc]
  BY DEF Order, NothingMoved
<1> QED BY <1>2, <1>3, <1>4 DEF Order, TypeInv

LEMMA DocsUnderTypes ==
  ASSUME TypeInv, NEW n \in Names, dir[n] # 0
  PROVE  DocsUnder(n) \in SUBSET Doc
<1>1. keys[dir[n]] \in Store /\ KeyName(n) \in KeyNames
  BY Numbers DEF TypeInv, KeyNames
<1>2. keys[dir[n]]["d"][KeyName(n)] \in [Ids -> Nat]
  BY <1>1 DEF Store
<1>3. ASSUME NEW i \in Ids
      PROVE  [id |-> i, v |-> keys[dir[n]]["d"][KeyName(n)][i],
              indexed |-> keys[dir[n]]["s"][KeyName(n)][i] = keys[dir[n]]["d"][KeyName(n)][i]] \in Doc
  BY <1>2 DEF Doc
<1> QED BY <1>3 DEF DocsUnder

LEMMA LockTypes ==
  ASSUME TypeInv, NEW a \in Admins, Lock(a) PROVE TypeInv'
<1>1. admin[a] \in AnOrder
  BY Steps DEF Lock, At, AdminSteps
<1>2. admin' \in [Admins -> {Idle} \cup AnOrder]
  <2> DEFINE D == IF dir[admin[a].old] = 0 THEN {} ELSE DocsUnder(admin[a].old)
  <2>1. D \in SUBSET Doc
    BY <1>1, DocsUnderTypes DEF AnOrder
  <2> HIDE DEF D
  <2>2. \A r \in AnOrder : [r EXCEPT !.step = "close", !.docs = D] \in AnOrder
    BY <2>1 DEF AnOrder, AdminSteps
  <2>3. \/ admin' = [admin EXCEPT ![a] = Idle]
        \/ admin' = [admin EXCEPT ![a] = [admin[a] EXCEPT !.step = "close", !.docs = D]]
    BY <1>1 DEF Lock, D, TypeInv
  <2> QED BY <1>1, <2>2, <2>3 DEF TypeInv
<1> QED BY <1>2 DEF Lock, TypeInv, bounds, ghosts

LEMMA CloseHandlesTypes ==
  ASSUME TypeInv, NEW a \in Admins, CloseHandles(a) PROVE TypeInv'
<1>1. admin[a] \in AnOrder /\ admin[a].old \in Names
  BY Steps DEF CloseHandles, At, AdminSteps, AnOrder
<1>2. \A r \in AnOrder : \A x \in AdminSteps : [r EXCEPT !.step = x] \in AnOrder
  BY DEF AnOrder
<1>3. admin' \in [Admins -> {Idle} \cup AnOrder]
  BY <1>1, <1>2, LosesTypes DEF CloseHandles, AdminSteps
<1>4. writer' \in [Writers -> {Idle} \cup AWriter] /\ sweep' \in {Idle} \cup ASweep
  BY LosesTypes DEF CloseHandles, WithoutHandle
<1>5. pool' \in [Names -> 0 .. MaxStores]
  <2>1. 0 \in 0 .. MaxStores /\ pool \in [Names -> 0 .. MaxStores]
    BY Numbers DEF TypeInv
  <2> QED BY <1>1, <2>1 DEF CloseHandles
<1> QED BY <1>3, <1>4, <1>5 DEF CloseHandles, TypeInv, bounds, ghosts

LEMMA FileStepTypes ==
  ASSUME TypeInv, NEW a \in Admins,
         Drop(a) \/ Move(a) \/ MoveFails(a) \/ CopyFails(a) \/ Retry(a) \/ RemoveSource(a)
  PROVE  TypeInv'
<1>1. admin[a] \in AnOrder /\ admin[a] # Idle
  BY Steps DEF Drop, Move, MoveFails, CopyFails, Retry, RemoveSource, At, AdminSteps
<1>2. AfterMove \in AdminSteps /\ {"copy", "retry"} \subseteq AdminSteps
  BY DEF AfterMove, AdminSteps
<1>3. admin' \in [Admins -> {Idle} \cup AnOrder]
  <2>1. CASE At(a, "retry") /\ admin' = [admin EXCEPT ![a].step = "copy", ![a].tries = @ + 1]
    <3>1. \A r \in AnOrder : [r EXCEPT !.step = "copy", !.tries = r.tries + 1] \in AnOrder
      <4>1. ASSUME NEW r \in AnOrder
            PROVE  [r EXCEPT !.step = "copy", !.tries = r.tries + 1] \in AnOrder
        <5>1. r.tries + 1 \in Nat /\ "copy" \in AdminSteps
          BY DEF AnOrder, AdminSteps
        <5> QED BY <5>1 DEF AnOrder
      <4> QED BY <4>1
    <3>2. admin' = [admin EXCEPT ![a] = [admin[a] EXCEPT !.step = "copy", !.tries = admin[a].tries + 1]]
      BY <1>1, <2>1 DEF TypeInv
    <3> QED BY <1>1, <3>1, <3>2 DEF TypeInv
  <2>2. CASE Fails(a)
    BY <2>2, FailsTypes
  <2>3. CASE \E x \in AdminSteps : Goes(a, x)
    BY <1>1, <2>3, GoesTypes
  <2>4. Fails(a) \/ (\E x \in AdminSteps : Goes(a, x))
        \/ (At(a, "retry") /\ admin' = [admin EXCEPT ![a].step = "copy", ![a].tries = @ + 1])
    BY <1>2 DEF Drop, Move, MoveFails, CopyFails, Retry, RemoveSource
  <2> QED BY <2>1, <2>2, <2>3, <2>4
<1>4. dir' \in [Names -> 0 .. MaxStores]
  <2>1. dir \in [Names -> 0 .. MaxStores] /\ 0 \in 0 .. MaxStores
    BY Numbers DEF TypeInv
  <2>2. admin[a].old \in Names /\ admin[a].new \in Names
    BY <1>1 DEF AnOrder
  <2> HIDE <1>1
  <2>3. CASE Move(a)
    BY <2>1, <2>2, <2>3 DEF Move
  <2>4. CASE Drop(a)
    BY <2>1, <2>2, <2>4 DEF Drop
  <2>5. CASE Retry(a)
    BY <2>1, <2>2, <2>5 DEF Retry
  <2>6. CASE RemoveSource(a)
    BY <2>1, <2>2, <2>6 DEF RemoveSource
  <2>7. CASE MoveFails(a) \/ CopyFails(a)
    BY <2>1, <2>7 DEF MoveFails, CopyFails
  <2> QED BY <2>3, <2>4, <2>5, <2>6, <2>7
<1>5. kept' \in SUBSET Nat
  BY DEF Drop, Move, MoveFails, CopyFails, Retry, RemoveSource, TypeInv, ghosts
<1>6. /\ UNCHANGED <<scope, pool, keys, made, writer, sweep, log, form, sweeps, moved>>
  BY DEF Drop, Move, MoveFails, CopyFails, Retry, RemoveSource, ghosts, bounds
<1> QED BY <1>3, <1>4, <1>5, <1>6 DEF TypeInv

(* Copies: the target has the source's keys, none, or what it had.         *)
LEMMA CopyFacts ==
  ASSUME TypeInv, NEW a \in Admins, Copy(a)
  PROVE  LET p == admin[a]
             s == dir[p.old]
             t == IF dir[p.new] = 0 THEN made + 1 ELSE dir[p.new]
         IN /\ p \in AnOrder /\ s \in Stores /\ t \in Stores
            /\ dir' = [dir EXCEPT ![p.new] = t] /\ made' = IF t > made THEN t ELSE made
            /\ keys' \in [Stores -> Store]
            /\ \A u \in Stores : u # t => keys'[u] = keys[u]
            /\ keys'[t] = keys[s] \/ keys'[t] = NoKeys \/ (keys'[t] = keys[t] /\ Open(t))
            /\ Goes(a, "remove") \/ Goes(a, "retry")
            /\ Goes(a, "remove") => keys'[t] = keys[s] \/ Open(t)
            /\ contested' = IF Open(t) THEN contested \cup Docs(s) ELSE contested
<1> DEFINE p == admin[a]
           s == dir[p.old]
           t == IF dir[p.new] = 0 THEN made + 1 ELSE dir[p.new]
<1>1. p \in AnOrder /\ p \in AnOrder /\ p # Idle /\ p.old \in Names /\ p.new \in Names
  BY Steps DEF Copy, At, AdminSteps, AnOrder
<1>2. s \in Stores /\ t \in Stores
  BY <1>1, Numbers DEF Copy, TypeInv
<1>3. NoKeys \in Store
  BY DEF NoKeys, Store
<1>4. PICK full \in BOOLEAN :
        /\ Goes(a, IF Verified(full) THEN "remove" ELSE "retry")
        /\ \/ keys' = [keys EXCEPT ![t] = IF full THEN keys[s] ELSE NoKeys]
           \/ Open(t) /\ keys' = keys
  BY DEF Copy
<1>5. /\ keys' \in [Stores -> Store]
      /\ \A u \in Stores : u # t => keys'[u] = keys[u]
      /\ keys'[t] = keys[s] \/ keys'[t] = NoKeys \/ (keys'[t] = keys[t] /\ Open(t))
  BY <1>2, <1>3, <1>4 DEF TypeInv
<1>6. /\ Goes(a, "remove") \/ Goes(a, "retry")
      /\ ~full => Goes(a, "retry")
  BY <1>4 DEF Verified
<1>7. ~(Goes(a, "remove") /\ Goes(a, "retry"))
  <2>1. ASSUME NEW x \in AdminSteps, Goes(a, x) PROVE admin'[a].step = x
    <3>1. admin'[a] = [admin[a] EXCEPT !.step = x]
      BY <1>1, <2>1, GoesTypes
    <3> QED BY <1>1, <3>1 DEF AnOrder
  <2>2. {"remove", "retry"} \subseteq AdminSteps
    BY DEF AdminSteps
  <2> HIDE <1>1, <1>4
  <2> QED BY <2>1, <2>2
<1>8. full => keys'[t] = keys[s] \/ Open(t)
  BY <1>2, <1>4 DEF TypeInv
<1> QED BY <1>1, <1>2, <1>5, <1>6, <1>7, <1>8 DEF Copy

LEMMA CopyTypes ==
  ASSUME TypeInv, NEW a \in Admins, Copy(a) PROVE TypeInv'
<1> DEFINE p == admin[a]
           t == IF dir[p.new] = 0 THEN made + 1 ELSE dir[p.new]
<1>1. p \in AnOrder /\ p # Idle /\ t \in Stores /\ p.new \in Names
  BY CopyFacts DEF AnOrder, Idle
<1>2. dir' = [dir EXCEPT ![p.new] = t] /\ made' = IF t > made THEN t ELSE made
  BY CopyFacts
<1>3. admin' \in [Admins -> {Idle} \cup AnOrder]
  <2>1. Goes(a, "remove") \/ Goes(a, "retry")
    BY CopyFacts
  <2> QED BY <1>1, <2>1, GoesTypes DEF AdminSteps
<1> HIDE DEF t, p
<1>4. dir' \in [Names -> 0 .. MaxStores] /\ made' \in Nat \ {0}
  BY <1>1, <1>2, Numbers DEF TypeInv
<1>5. keys' \in [Stores -> Store]
  BY CopyFacts
<1> QED BY <1>3, <1>4, <1>5 DEF Copy, TypeInv, bounds

(* The migration.                                                          *)
LEMMA MigrateOpensTypes ==
  ASSUME TypeInv, NEW a \in Admins, MigrateOpens(a) PROVE TypeInv'
<1>1. admin[a] \in AnOrder /\ admin[a].new \in Names /\ admin[a] # Idle
  BY Steps DEF MigrateOpens, At, AdminSteps, AnOrder
<1>2. CASE CanOpen(admin[a].new)
  <2>1. OpenPath(admin[a].new) /\ admin' = [admin EXCEPT ![a].step = "read", ![a].h = Opened(admin[a].new)]
    BY <1>2 DEF MigrateOpens
  <2>2. /\ dir' \in [Names -> 0 .. MaxStores] /\ made' \in Nat \ {0}
        /\ Opened(admin[a].new) \in 0 .. MaxStores /\ pool' \in [Names -> 0 .. MaxStores]
    <3>1. CASE pool[admin[a].new] = 0
      BY <1>1, <2>1, <3>1, MadeTypes, Numbers DEF OpenPath, TypeInv
    <3>2. CASE pool[admin[a].new] # 0
      BY <1>1, <2>1, <3>2, MadeTypes, Numbers DEF OpenPath, TypeInv
    <3> QED BY <3>1, <3>2
  <2>3. admin' \in [Admins -> {Idle} \cup AnOrder]
    <3>1. \A r \in AnOrder, h \in 0 .. MaxStores : [r EXCEPT !.step = "read", !.h = h] \in AnOrder
      BY DEF AnOrder, AdminSteps
    <3>2. admin' = [admin EXCEPT ![a] = [admin[a] EXCEPT !.step = "read", !.h = Opened(admin[a].new)]]
      BY <2>1 DEF TypeInv
    <3> QED BY <1>1, <2>2, <3>1, <3>2 DEF TypeInv
  <2> QED BY <2>2, <2>3 DEF MigrateOpens, TypeInv, bounds
<1>3. CASE ~CanOpen(admin[a].new)
  BY <1>3, FailsTypes DEF MigrateOpens, TypeInv, bounds
<1> QED BY <1>2, <1>3

(* A migration at work.                                                    *)
LEMMA WorkingFacts ==
  ASSUME TypeInv, OrderInv, NEW a \in Admins, NEW step \in Touching, Working(a, step)
  PROVE  LET p == admin[a]
         IN /\ p \in AnOrder /\ p # Idle /\ p.h \in Stores /\ p.kind \in {"d", "s"}
            /\ p.old \in Names /\ p.new \in Names /\ p.old \in KeyNames /\ p.new \in KeyNames
            /\ scope = "block" /\ p.old # p.new /\ p.op = "rename"
            /\ step # "read" => p.pairs \in [Ids -> Nat]
<1>1. admin[a] \in AnOrder /\ admin[a] # Idle /\ Busy(a) /\ admin[a].step = step /\ admin[a].h # 0
  BY Steps DEF Working, At, AdminSteps, Touching
<1>2. /\ admin[a].h \in 0 .. MaxStores /\ admin[a].old \in Names /\ admin[a].new \in Names
      /\ admin[a].op \in {"rename", "drop"} /\ admin[a].kind \in {"d", "s", None}
  BY <1>1 DEF AnOrder
<1>3. admin[a].h \in Stores /\ admin[a].old \in KeyNames /\ admin[a].new \in KeyNames
  BY <1>1, <1>2, Numbers DEF KeyNames
<1>4. /\ admin[a].op = "drop" => admin[a].step \in {"lock", "close", "drop"}
      /\ admin[a].op = "rename" => admin[a].old # admin[a].new
      /\ scope = "db" => admin[a].step \notin {"open", "read", "write", "delete"}
      /\ admin[a].kind = None => admin[a].step = "meta"
      /\ admin[a].step \in {"write", "delete"} => admin[a].pairs \in [Ids -> Nat]
  BY <1>1 DEF OrderInv, GoodOrder
<1>5. scope = "block" /\ admin[a].kind \in {"d", "s"} /\ admin[a].op = "rename"
  BY <1>1, <1>2, <1>4 DEF Touching, TypeInv
<1>6. step # "read" => admin[a].pairs \in [Ids -> Nat]
  BY <1>1, <1>4 DEF Touching
<1> QED BY <1>1, <1>2, <1>3, <1>4, <1>5, <1>6

LEMMA MigrateReadsTypes ==
  ASSUME TypeInv, OrderInv, NEW a \in Admins, MigrateReads(a)
  PROVE  /\ TypeInv'
         /\ admin'[a] = [admin[a] EXCEPT !.step = "write", !.pairs = keys[admin[a].h][admin[a].kind][admin[a].old]]
         /\ \A b \in Admins \ {a} : admin'[b] = admin[b]
         /\ keys[admin[a].h][admin[a].kind][admin[a].old] \in [Ids -> Nat]
<1> DEFINE f == keys[admin[a].h][admin[a].kind][admin[a].old]
<1>1. admin[a] \in AnOrder /\ f \in [Ids -> Nat]
  <2>1. Working(a, "read") /\ "read" \in Touching
    BY DEF MigrateReads, Touching
  <2>2. admin[a] \in AnOrder /\ admin[a].h \in Stores /\ admin[a].kind \in {"d", "s"} /\ admin[a].old \in KeyNames
    BY <2>1, WorkingFacts
  <2>3. keys[admin[a].h] \in Store
    BY <2>2 DEF TypeInv
  <2> QED BY <2>2, <2>3 DEF Store
<1>2. admin' = [admin EXCEPT ![a] = [admin[a] EXCEPT !.step = "write", !.pairs = f]]
  BY DEF MigrateReads, TypeInv
<1> HIDE DEF f
<1>3. \A r \in AnOrder : [r EXCEPT !.step = "write", !.pairs = f] \in AnOrder
  BY <1>1 DEF AnOrder, AdminSteps
<1>4. admin' \in [Admins -> {Idle} \cup AnOrder]
  BY <1>1, <1>2, <1>3 DEF TypeInv
<1>5. TypeInv'
  BY <1>4 DEF MigrateReads, TypeInv, bounds
<1> QED BY <1>1, <1>2, <1>5 DEF TypeInv, f

LEMMA MigrateWritesFacts ==
  ASSUME TypeInv, OrderInv, NEW a \in Admins, MigrateWrites(a)
  PROVE  LET p == admin[a]
         IN /\ TypeInv'
            /\ \A t \in Stores, x \in {"d", "s"}, m \in KeyNames, j \in Ids :
                 keys'[t][x][m][j] = IF t = p.h /\ x = p.kind /\ m = p.new /\ p.pairs[j] # 0
                                     THEN p.pairs[j] ELSE keys[t][x][m][j]
<1> DEFINE p == admin[a]
           f == Merged(keys[p.h][p.kind][p.new], p.pairs)
<1>1. p \in AnOrder /\ p # Idle /\ p.h \in Stores /\ p.kind \in {"d", "s"} /\ p.new \in KeyNames
      /\ p.pairs \in [Ids -> Nat]
  BY WorkingFacts DEF MigrateWrites, Touching
<1>2. keys' = [keys EXCEPT ![p.h][p.kind][p.new] = f] /\ Goes(a, "delete")
  BY DEF MigrateWrites
<1>3. keys[p.h][p.kind][p.new] \in [Ids -> Nat]
  BY <1>1 DEF TypeInv, Store
<1>4. f \in [Ids -> Nat] /\ \A j \in Ids : f[j] = IF p.pairs[j] # 0 THEN p.pairs[j] ELSE keys[p.h][p.kind][p.new][j]
  BY <1>1, <1>3 DEF Merged
<1> HIDE DEF p, f
<1>5. /\ keys' \in [Stores -> Store]
      /\ \A t \in Stores, x \in {"d", "s"}, m \in KeyNames, j \in Ids :
           keys'[t][x][m][j] = IF t = p.h /\ x = p.kind /\ m = p.new THEN f[j] ELSE keys[t][x][m][j]
  <2>1. keys' = Put(p.h, p.kind, p.new, f)
    BY <1>2 DEF Put
  <2> HIDE <1>2
  <2> QED BY <1>1, <1>4, <2>1, SetRow
<1>6. admin' \in [Admins -> {Idle} \cup AnOrder]
  BY <1>1, <1>2, GoesTypes DEF AdminSteps, p
<1>7. TypeInv'
  BY <1>5, <1>6 DEF MigrateWrites, TypeInv, bounds, ghosts
<1>8. \A t \in Stores, x \in {"d", "s"}, m \in KeyNames, j \in Ids :
                 keys'[t][x][m][j] = IF t = p.h /\ x = p.kind /\ m = p.new /\ p.pairs[j] # 0
                                     THEN p.pairs[j] ELSE keys[t][x][m][j]
  BY <1>1, <1>4, <1>5
<1> QED BY <1>7, <1>8 DEF p

LEMMA MigrateDeletesFacts ==
  ASSUME TypeInv, OrderInv, NEW a \in Admins, MigrateDeletes(a)
  PROVE  LET p == admin[a]
         IN /\ TypeInv'
            /\ \A t \in Stores, x \in {"d", "s"}, m \in KeyNames, j \in Ids :
                 keys'[t][x][m][j] = IF t = p.h /\ x = p.kind /\ m = p.old /\ p.pairs[j] # 0
                                     THEN 0 ELSE keys[t][x][m][j]
            /\ p.kind = "d" => admin'[a] = [p EXCEPT !.step = "read", !.kind = "s", !.pairs = <<>>]
            /\ p.kind = "s" => admin'[a] = [p EXCEPT !.step = "meta", !.kind = None, !.pairs = <<>>]
            /\ \A b \in Admins \ {a} : admin'[b] = admin[b]
<1> DEFINE p == admin[a]
           f == Emptied(keys[p.h][p.kind][p.old], p.pairs)
           q == [p EXCEPT !.step = IF NextKind(p.kind) = None THEN "meta" ELSE "read",
                          !.kind = NextKind(p.kind), !.pairs = <<>>]
<1>1. p \in AnOrder /\ p # Idle /\ p.h \in Stores /\ p.kind \in {"d", "s"} /\ p.old \in KeyNames
      /\ p.pairs \in [Ids -> Nat]
  <2>1. Working(a, "delete") /\ "delete" \in Touching /\ "delete" # "read"
    BY DEF MigrateDeletes, Touching
  <2> QED BY <2>1, WorkingFacts
<1>2. keys' = Put(p.h, p.kind, p.old, f)
  BY DEF MigrateDeletes, Put
<1>3. keys[p.h][p.kind][p.old] \in [Ids -> Nat]
  BY <1>1 DEF TypeInv, Store
<1>4. f \in [Ids -> Nat] /\ \A j \in Ids : f[j] = IF p.pairs[j] # 0 THEN 0 ELSE keys[p.h][p.kind][p.old][j]
  BY <1>1, <1>3 DEF Emptied
<1>5. admin' = [admin EXCEPT ![a] = q]
  BY DEF MigrateDeletes, TypeInv
<1>6. q = (IF p.kind = "d" THEN [p EXCEPT !.step = "read", !.kind = "s", !.pairs = <<>>]
           ELSE [p EXCEPT !.step = "meta", !.kind = None, !.pairs = <<>>])
  BY <1>1 DEF NextKind, None
<1>7. q \in AnOrder
  <2>1. \A r \in AnOrder : /\ [r EXCEPT !.step = "read", !.kind = "s", !.pairs = <<>>] \in AnOrder
                           /\ [r EXCEPT !.step = "meta", !.kind = None, !.pairs = <<>>] \in AnOrder
    BY DEF AnOrder, AdminSteps
  <2> QED BY <1>1, <1>6, <2>1
<1>8. admin'[a] = q /\ (\A b \in Admins \ {a} : admin'[b] = admin[b]) /\ admin' \in [Admins -> {Idle} \cup AnOrder]
  BY <1>5, <1>7 DEF TypeInv
<1> HIDE DEF p, f, q
<1>9. /\ keys' \in [Stores -> Store]
      /\ \A t \in Stores, x \in {"d", "s"}, m \in KeyNames, j \in Ids :
           keys'[t][x][m][j] = IF t = p.h /\ x = p.kind /\ m = p.old THEN f[j] ELSE keys[t][x][m][j]
  BY <1>1, <1>2, <1>4, SetRow
<1>10. TypeInv'
  BY <1>8, <1>9 DEF MigrateDeletes, TypeInv, bounds, ghosts
<1>11. \A t \in Stores, x \in {"d", "s"}, m \in KeyNames, j \in Ids :
                 keys'[t][x][m][j] = IF t = p.h /\ x = p.kind /\ m = p.old /\ p.pairs[j] # 0
                                     THEN 0 ELSE keys[t][x][m][j]
  BY <1>1, <1>4, <1>9
<1> QED BY <1>6, <1>8, <1>10, <1>11 DEF p

LEMMA LastTypes ==
  ASSUME TypeInv, NEW a \in Admins, MigrateFails(a) \/ Succeed(a)
  PROVE  TypeInv'
<1>1. admin' \in [Admins -> {Idle} \cup AnOrder]
  BY FailsTypes DEF MigrateFails, Succeed
<1>2. CASE MigrateFails(a)
  BY <1>1, <1>2 DEF MigrateFails, TypeInv, bounds
<1>3. CASE Succeed(a)
  <2>1. admin[a] \in AnOrder
    BY <1>3, Steps DEF Succeed, At, AdminSteps
  <2>2. moved' \in [name : Names \cup {None}, docs : SUBSET Doc]
    BY <1>3, <2>1 DEF Succeed, AnOrder
  <2> QED BY <1>1, <1>3, <2>2 DEF Succeed, TypeInv, bounds
<1> QED BY <1>2, <1>3

LEMMA SweepTypes ==
  ASSUME TypeInv, (\E n \in Names : SweepPicks(n)) \/ SweepChecks
  PROVE  TypeInv'
<1>1. CASE \E n \in Names : SweepPicks(n)
  <2>1. PICK n \in Names : SweepPicks(n)
    BY <1>1
  <2>2. [step |-> "check", name |-> n, h |-> 0, bad |-> {}] \in ASweep
    BY Numbers DEF ASweep
  <2> QED BY <2>1, <2>2 DEF SweepPicks, TypeInv, ghosts
<1>2. CASE SweepChecks
  <2>1. sweep \in ASweep /\ sweep.name \in Names
    BY <1>2, SweepFacts DEF SweepChecks, ASweep, Idle
  <2> DEFINE n == sweep.name
             bad == Bad(Opened(n), KeyName(n))
  <2>2. CASE CanOpen(n)
    <3>1. OpenPath(n)
      BY <1>2, <2>2 DEF SweepChecks
    <3>2. Opened(n) \in 1 .. MaxStores /\ dir' \in [Names -> 0 .. MaxStores] /\ made' \in Nat \ {0}
      <4>1. CASE pool[n] = 0
        BY <2>1, <3>1, <4>1, MadeTypes DEF OpenPath
      <4>2. CASE pool[n] # 0
        BY <2>1, <3>1, <4>2, MadeTypes DEF OpenPath, TypeInv
      <4> QED BY <4>1, <4>2
    <3>3. pool' \in [Names -> 0 .. MaxStores]
      <4>1. pool \in [Names -> 0 .. MaxStores] /\ Opened(n) \in 0 .. MaxStores
        BY <3>2, Numbers DEF TypeInv
      <4>2. pool' = [pool EXCEPT ![n] = Opened(n)]
        BY <3>1 DEF OpenPath
      <4> HIDE DEF n
      <4> QED BY <4>1, <4>2
    <3>4. sweep' \in {Idle} \cup ASweep
      <4>1. bad \in SUBSET Ids
        BY DEF Bad
      <4>2. \A r \in ASweep, h \in 1 .. MaxStores, x \in SUBSET Ids : [r EXCEPT !.step = "purge", !.h = h, !.bad = x] \in ASweep
        <5>1. ASSUME NEW r \in ASweep, NEW h \in 1 .. MaxStores, NEW x \in SUBSET Ids
              PROVE  [r EXCEPT !.step = "purge", !.h = h, !.bad = x] \in ASweep
          <6>1. h \in 0 .. MaxStores
            BY Numbers
          <6> QED BY <6>1 DEF ASweep
        <5> QED BY <5>1
      <4>3. sweep' = IF bad = {} THEN Idle ELSE [sweep EXCEPT !.step = "purge", !.h = Opened(n), !.bad = bad]
        BY <1>2, <2>2 DEF SweepChecks
      <4> HIDE DEF bad, n
      <4> QED BY <2>1, <3>2, <4>1, <4>2, <4>3
    <3> QED BY <1>2, <3>2, <3>3, <3>4 DEF SweepChecks, TypeInv, ghosts, bounds
  <2>3. CASE ~CanOpen(n)
    BY <1>2, <2>3 DEF SweepChecks, TypeInv, ghosts, bounds
  <2> QED BY <2>2, <2>3
<1> QED BY <1>1, <1>2

(* The purge empties the documents' keys it found, wherever its handle is. *)
LEMMA PurgeFacts ==
  ASSUME TypeInv, SweepPurges
  PROVE  /\ TypeInv'
         /\ keys' # keys => sweep.h \in Stores
         /\ keys' # keys => \A t \in Stores, x \in {"d", "s"}, m \in KeyNames, j \in Ids :
              keys'[t][x][m][j] = IF t = sweep.h /\ x = "d" /\ m = KeyName(sweep.name) /\ j \in sweep.bad
                                  THEN 0 ELSE keys[t][x][m][j]
<1>1. sweep \in ASweep /\ sweep.name \in Names /\ sweep.bad \subseteq Ids /\ sweep.h \in 0 .. MaxStores
  BY SweepFacts DEF SweepPurges, ASweep, Idle
<1>2. CASE sweep.h = 0
  BY <1>2 DEF SweepPurges, TypeInv, bounds
<1>3. CASE sweep.h # 0
  <2> DEFINE k == KeyName(sweep.name)
             f == [i \in Ids |-> IF i \in sweep.bad THEN 0 ELSE keys[sweep.h]["d"][k][i]]
  <2>1. sweep.h \in Stores /\ k \in KeyNames
    BY <1>1, <1>3, Numbers DEF KeyNames
  <2>2. keys[sweep.h]["d"][k] \in [Ids -> Nat] /\ f \in [Ids -> Nat]
    <3>1. keys[sweep.h] \in Store
      BY <2>1 DEF TypeInv
    <3>2. keys[sweep.h]["d"][k] \in [Ids -> Nat]
      BY <2>1, <3>1 DEF Store
    <3> QED BY <3>2
  <2>3. keys' = Put(sweep.h, "d", k, f)
    BY <1>3, <2>1 DEF SweepPurges, Put, TypeInv
  <2>4. sweep' = [sweep EXCEPT !.step = "unindex"]
    BY <1>3 DEF SweepPurges
  <2>5. sweep' \in ASweep
    BY <1>1, <2>4 DEF ASweep
  <2>6. f \in [Ids -> Nat] /\ \A j \in Ids : f[j] = IF j \in sweep.bad THEN 0 ELSE keys[sweep.h]["d"][k][j]
    BY <2>2
  <2> HIDE DEF k, f
  <2>7. /\ keys' \in [Stores -> Store]
        /\ \A t \in Stores, x \in {"d", "s"}, m \in KeyNames, j \in Ids :
             keys'[t][x][m][j] = IF t = sweep.h /\ x = "d" /\ m = k THEN f[j] ELSE keys[t][x][m][j]
    BY <2>1, <2>3, <2>6, SetRow
  <2>8. \A t \in Stores, x \in {"d", "s"}, m \in KeyNames, j \in Ids :
              keys'[t][x][m][j] = IF t = sweep.h /\ x = "d" /\ m = k /\ j \in sweep.bad
                                  THEN 0 ELSE keys[t][x][m][j]
    BY <2>1, <2>6, <2>7
  <2>9. TypeInv'
    BY <2>5, <2>7 DEF SweepPurges, TypeInv, bounds
  <2> QED BY <2>1, <2>8, <2>9 DEF k
<1> QED BY <1>2, <1>3

(* The rebuild writes index keys only, and nothing that is no document.    *)
LEMMA RebuildFacts ==
  ASSUME TypeInv, SweepRebuilds
  PROVE  /\ TypeInv'
         /\ keys' # keys => sweep.h \in Stores
         /\ \A t \in Stores, m \in KeyNames, j \in Ids :
              /\ keys'[t]["d"][m][j] = keys[t]["d"][m][j]
              /\ t # sweep.h => keys'[t]["s"][m][j] = keys[t]["s"][m][j]
              /\ keys'[t]["s"][m][j] \in {0, keys[t]["s"][m][j], keys[t]["d"][m][j]}
<1>1. sweep \in ASweep /\ sweep.name \in Names /\ sweep.h \in 0 .. MaxStores
  BY SweepFacts DEF SweepRebuilds, ASweep, Idle
<1>2. CASE sweep.h = 0
  BY <1>2 DEF SweepRebuilds, TypeInv, ghosts, bounds
<1>3. CASE sweep.h # 0
  <2> DEFINE k == KeyName(sweep.name)
             f == [i \in Ids |->
                     IF sweep.step = "unindex" THEN 0
                     ELSE LET v == keys[sweep.h]["d"][k][i]
                          IN IF v = 0 \/ Unreadable(v) THEN keys[sweep.h]["s"][k][i] ELSE v]
  <2>1. sweep.h \in Stores /\ k \in KeyNames
    BY <1>1, <1>3, Numbers DEF KeyNames
  <2>2. keys[sweep.h]["d"][k] \in [Ids -> Nat] /\ keys[sweep.h]["s"][k] \in [Ids -> Nat]
    <3>1. keys[sweep.h] \in Store
      BY <2>1 DEF TypeInv
    <3> QED BY <2>1, <3>1 DEF Store
  <2>3. keys' = Put(sweep.h, "s", k, f)
    BY <1>3, <2>1 DEF SweepRebuilds, Put, TypeInv
  <2>4. sweep' \in {Idle} \cup ASweep
    BY <1>1, <1>3 DEF SweepRebuilds, ASweep
  <2>5. f \in [Ids -> Nat]
        /\ \A j \in Ids : f[j] \in {0, keys[sweep.h]["s"][k][j], keys[sweep.h]["d"][k][j]}
    BY <2>2
  <2> HIDE DEF k, f
  <2>6. /\ keys' \in [Stores -> Store]
        /\ \A t \in Stores, x \in {"d", "s"}, m \in KeyNames, j \in Ids :
             keys'[t][x][m][j] = IF t = sweep.h /\ x = "s" /\ m = k THEN f[j] ELSE keys[t][x][m][j]
    BY <2>1, <2>3, <2>5, SetRow
  <2>7. \A t \in Stores, m \in KeyNames, j \in Ids :
              /\ keys'[t]["d"][m][j] = keys[t]["d"][m][j]
              /\ t # sweep.h => keys'[t]["s"][m][j] = keys[t]["s"][m][j]
              /\ keys'[t]["s"][m][j] \in {0, keys[t]["s"][m][j], keys[t]["d"][m][j]}
    BY <2>1, <2>5, <2>6
  <2>8. TypeInv'
    BY <2>4, <2>6 DEF SweepRebuilds, TypeInv, ghosts, bounds
  <2> QED BY <2>1, <2>7, <2>8
<1> QED BY <1>2, <1>3

-----------------------------------------------------------------------------
(* The log and its replay *)

(* No two names have the same store.                                       *)
Apart(f) == \A m, n \in Names : f[m] # 0 /\ f[m] = f[n] => m = n
(* What the log has: every insert that was committed.                      *)
Committed == {log[j].v : j \in DOMAIN log}

LEMMA LargestPosition ==
  ASSUME NEW S \in SUBSET Nat, IsFiniteSet(S), S # {}
  PROVE  \E x \in S : \A y \in S : x >= y
<1> DEFINE Without == {U \in SUBSET S : U # {} /\ ~ \E x \in U : \A y \in U : x >= y}
<1>1. SUFFICES ASSUME Without # {} PROVE FALSE
  OBVIOUS
<1>2. PICK U \in Without : \A V \in Without : <<V, U>> \notin StrictSubsetOrdering(S)
  <2>1. IsWellFoundedOn(StrictSubsetOrdering(S), SUBSET S)
    BY FS_StrictSubsetOrderingWellFounded, FS_FiniteSubsetsOfFinite
  <2>2. Without \subseteq SUBSET S
    OBVIOUS
  <2> HIDE DEF Without
  <2>3. PICK U \in Without : \A V \in Without : ~ (<<V, U>> \in StrictSubsetOrdering(S))
    BY <1>1, <2>1, <2>2, WFMin
  <2> QED BY <2>3
<1>3. PICK x \in U : TRUE
  OBVIOUS
<1> DEFINE V == {y \in U : y > x}
<1>4. V # {}
  OBVIOUS
<1>5. V \notin Without
  <2>1. x \in Nat /\ x \notin V /\ V \subseteq U /\ U \in SUBSET S
    OBVIOUS
  <2>2. <<V, U>> \in StrictSubsetOrdering(S)
    BY <2>1 DEF StrictSubsetOrdering
  <2> QED BY <1>2, <2>2
<1>6. PICK z \in V : \A y \in V : z >= y
  BY <1>4, <1>5
<1>7. \A y \in U : z >= y
  BY <1>6
<1> QED BY <1>6, <1>7

(* The last insert that the log has of a document.                         *)
LEMMA LastFacts ==
  ASSUME TypeInv, NEW n, NEW i, LoggedAt(n, i) # {}
  PROVE  /\ LastOf(n, i) \in Nat /\ LastOf(n, i) \in Committed
         /\ \A j \in LoggedAt(n, i) : (\A k \in LoggedAt(n, i) : k <= j) => LastOf(n, i) = log[j].v
<1> DEFINE S == LoggedAt(n, i)
<1>1. log \in Seq([name : Names, id : Ids, v : Nat]) /\ DOMAIN log = 1 .. Len(log) /\ Len(log) \in Nat
  BY DEF TypeInv
<1>2. S \subseteq DOMAIN log /\ S # {}
  BY DEF LoggedAt, Logged
<1>3. S \in SUBSET Nat /\ IsFiniteSet(S)
  <2>1. IsFiniteSet(1 .. Len(log))
    BY <1>1, FS_Interval
  <2> HIDE DEF S
  <2> QED BY <1>1, <1>2, <2>1, FS_Subset
<1> HIDE DEF S
<1>4. PICK x \in S : \A y \in S : x >= y
  BY <1>2, <1>3, LargestPosition
<1> DEFINE c == CHOOSE j \in S : \A k \in S : k <= j
<1>5. c \in S /\ \A k \in S : k <= c
  <2>1. \E j \in S : \A k \in S : k <= j
    BY <1>3, <1>4
  <2> QED BY <2>1
<1>6. LastOf(n, i) = log[c].v
  BY DEF LastOf, S
<1> HIDE DEF c
<1>7. log[c].v \in Nat /\ log[c].v \in Committed
  <2>1. c \in DOMAIN log
    BY <1>2, <1>5
  <2>2. \A j \in DOMAIN log : log[j] \in [name : Names, id : Ids, v : Nat]
    <3> DEFINE R == [name : Names, id : Ids, v : Nat]
    <3>1. log \in Seq(R)
      BY <1>1
    <3> HIDE DEF R
    <3>2. \A j \in 1 .. Len(log) : log[j] \in R
      BY <3>1
    <3> QED BY <1>1, <3>2 DEF R
  <2> QED BY <2>1, <2>2 DEF Committed
<1>8. ASSUME NEW j \in S, \A k \in S : k <= j
      PROVE  j = c
  <2>1. j \in Nat /\ c \in Nat /\ c <= j /\ j <= c
    BY <1>3, <1>5, <1>8
  <2> QED BY <2>1
<1> QED BY <1>6, <1>7, <1>8 DEF S

LEMMA ReplayedFacts ==
  ASSUME TypeInv, NEW ks \in Store, NEW n \in Names
  PROVE  /\ Replayed(ks, n) \in Store
         /\ \A x \in {"d", "s"}, m \in KeyNames, i \in Ids :
              Replayed(ks, n)[x][m][i] = IF m = KeyName(n) /\ LoggedAt(n, i) # {} THEN LastOf(n, i)
                                         ELSE ks[x][m][i]
<1> DEFINE F(x) == [i \in Ids |-> IF LoggedAt(n, i) = {} THEN ks[x][KeyName(n)][i] ELSE LastOf(n, i)]
           G(x) == [ks[x] EXCEPT ![KeyName(n)] = F(x)]
<1>1. KeyName(n) \in KeyNames
  BY Numbers DEF KeyNames
<1>2. \A x \in {"d", "s"} : ks[x] \in [KeyNames -> [Ids -> Nat]]
  BY DEF Store
<1>3. ASSUME NEW x \in {"d", "s"} PROVE F(x) \in [Ids -> Nat]
  <2>1. \A i \in Ids : LoggedAt(n, i) # {} => LastOf(n, i) \in Nat
    BY LastFacts
  <2> QED BY <1>1, <1>2, <2>1
<1>4. Replayed(ks, n) = [x \in {"d", "s"} |-> G(x)]
  BY <1>1, <1>2 DEF Replayed
<1>5. ASSUME NEW x \in {"d", "s"}
      PROVE  /\ G(x) \in [KeyNames -> [Ids -> Nat]]
             /\ \A m \in KeyNames : G(x)[m] = IF m = KeyName(n) THEN F(x) ELSE ks[x][m]
  <2>1. F(x) \in [Ids -> Nat] /\ ks[x] \in [KeyNames -> [Ids -> Nat]]
    BY <1>2, <1>3
  <2> HIDE DEF F
  <2> QED BY <1>1, <2>1
<1>6. Replayed(ks, n) \in Store
  <2> HIDE DEF G
  <2> QED BY <1>4, <1>5 DEF Store
<1>7. ASSUME NEW x \in {"d", "s"}, NEW m \in KeyNames, NEW i \in Ids
      PROVE  Replayed(ks, n)[x][m][i] = IF m = KeyName(n) /\ LoggedAt(n, i) # {} THEN LastOf(n, i)
                                        ELSE ks[x][m][i]
  <2>1. Replayed(ks, n)[x][m] = IF m = KeyName(n) THEN F(x) ELSE ks[x][m]
    <3> HIDE DEF F
    <3> QED BY <1>4, <1>5
  <2>2. F(x)[i] = IF LoggedAt(n, i) = {} THEN ks[x][KeyName(n)][i] ELSE LastOf(n, i)
    OBVIOUS
  <2> HIDE DEF F
  <2> QED BY <2>1, <2>2
<1> QED BY <1>6, <1>7

LEMMA CrashFacts ==
  ASSUME TypeInv, Apart(dir), \A n \in Names : dir[n] <= made, CrashAndRecover
  PROVE  /\ TypeInv'
         /\ \A n \in Names : dir'[n] <= made' /\ made <= made'
         /\ Apart(dir)'
         /\ \A n \in Names : pool'[n] \in {0, dir'[n]}
         /\ \A s \in Stores : (\A n \in Names : dir'[n] # s) => keys'[s] = keys[s]
         /\ \A s \in Stores : keys'[s] = keys[s] \/ \E n \in Names : keys'[s] = Replayed(keys[s], n)
         /\ \A n \in Names : Logged(n) # {} =>
              dir'[n] \in Stores /\ keys'[dir'[n]] = Replayed(keys[dir'[n]], n)
<1> DEFINE M == {n \in Names : Missing(n) /\ Logged(n) # {}}
<1>1. PICK new \in [M -> (made + 1) .. MaxStores] :
        /\ IsInjective(new)
        /\ made' = made + Cardinality(DOMAIN new)
        /\ \A n \in DOMAIN new : new[n] <= made'
        /\ dir' = [n \in Names |-> IF n \in DOMAIN new THEN new[n] ELSE dir[n]]
        /\ keys' = [s \in Stores |->
                      IF \E n \in Names : dir'[n] = s /\ Logged(n) # {}
                      THEN Replayed(keys[s], CHOOSE n \in Names : dir'[n] = s)
                      ELSE keys[s]]
        /\ pool' = [n \in Names |-> IF Logged(n) # {} THEN dir'[n] ELSE 0]
  <2>1. PICK new \in [M -> (made + 1) .. MaxStores] :
          LET homes == [n \in Names |-> IF n \in DOMAIN new THEN new[n] ELSE dir[n]]
          IN /\ IsInjective(new)
             /\ made' = made + Cardinality(DOMAIN new)
             /\ \A n \in DOMAIN new : new[n] <= made'
             /\ dir' = homes
             /\ keys' = [s \in Stores |->
                           IF \E n \in Names : homes[n] = s /\ Logged(n) # {}
                           THEN Replayed(keys[s], CHOOSE n \in Names : homes[n] = s)
                           ELSE keys[s]]
             /\ pool' = [n \in Names |-> IF Logged(n) # {} THEN homes[n] ELSE 0]
    BY Zenon DEF CrashAndRecover
  <2> DEFINE homes == [n \in Names |-> IF n \in DOMAIN new THEN new[n] ELSE dir[n]]
  <2>2. /\ dir' = homes
        /\ keys' = [s \in Stores |->
                      IF \E n \in Names : homes[n] = s /\ Logged(n) # {}
                      THEN Replayed(keys[s], CHOOSE n \in Names : homes[n] = s)
                      ELSE keys[s]]
        /\ pool' = [n \in Names |-> IF Logged(n) # {} THEN homes[n] ELSE 0]
    BY <2>1, Zenon
  <2> HIDE DEF homes
  <2>3. keys' = [s \in Stores |->
                      IF \E n \in Names : dir'[n] = s /\ Logged(n) # {}
                      THEN Replayed(keys[s], CHOOSE n \in Names : dir'[n] = s)
                      ELSE keys[s]]
    BY <2>2
  <2>4. pool' = [n \in Names |-> IF Logged(n) # {} THEN dir'[n] ELSE 0]
    BY <2>2
  <2>5. dir' = [n \in Names |-> IF n \in DOMAIN new THEN new[n] ELSE dir[n]]
    BY <2>2 DEF homes
  <2> QED BY <2>1, <2>3, <2>4, <2>5, Zenon
<1>2. /\ dir \in [Names -> 0 .. MaxStores] /\ made \in Nat \ {0} /\ MaxStores \in Nat \ {0}
      /\ keys \in [Stores -> Store] /\ Stores = 1 .. MaxStores
  BY Numbers DEF TypeInv
<1>3. Cardinality(DOMAIN new) \in Nat
  <2>1. IsFiniteSet(Names) /\ DOMAIN new \subseteq Names
    BY RenameAssumption
  <2>2. IsFiniteSet(DOMAIN new)
    BY <2>1, FS_Subset
  <2> QED BY <2>2, FS_CardinalityType
<1>4. made' \in Nat \ {0} /\ made <= made'
  BY <1>1, <1>2, <1>3
<1>5. ASSUME NEW n \in Names
      PROVE  /\ dir'[n] \in 0 .. MaxStores /\ dir'[n] <= made'
             /\ n \in M => dir'[n] = new[n] /\ dir'[n] > made /\ dir'[n] \in Stores
             /\ n \notin M => dir'[n] = dir[n]
             /\ Logged(n) # {} => dir'[n] \in Stores
  <2>1. n \in M => new[n] \in (made + 1) .. MaxStores /\ new[n] <= made' /\ dir'[n] = new[n]
    BY <1>1
  <2>2. n \notin M => dir'[n] = dir[n]
    BY <1>1
  <2>3. dir[n] \in 0 .. MaxStores /\ dir[n] <= made
    BY <1>2
  <2>4. Logged(n) # {} /\ n \notin M => dir[n] # 0
    BY DEF Missing
  <2> HIDE DEF M
  <2> QED BY <1>2, <1>4, <2>1, <2>2, <2>3, <2>4
<1>6. dir' \in [Names -> 0 .. MaxStores]
  <2>1. dir' = [n \in Names |-> dir'[n]]
    BY <1>1
  <2> QED BY <1>5, <2>1
<1>7. ASSUME NEW m \in Names, NEW n \in Names, dir'[m] # 0, dir'[m] = dir'[n]
      PROVE  m = n
  <2>1. CASE m \in M /\ n \in M
    <3>1. new[m] = new[n] /\ m \in DOMAIN new /\ n \in DOMAIN new
      BY <1>5, <1>7, <2>1
    <3> QED BY <1>1, <3>1 DEF IsInjective
  <2>2. CASE m \notin M /\ n \notin M
    BY <1>5, <1>7, <2>2 DEF Apart
  <2>3. CASE m \in M /\ n \notin M
    BY <1>2, <1>5, <1>7, <2>3
  <2>4. CASE m \notin M /\ n \in M
    BY <1>2, <1>5, <1>7, <2>4
  <2> QED BY <2>1, <2>2, <2>3, <2>4
<1>8. Apart(dir)'
  BY <1>7 DEF Apart
<1>9. ASSUME NEW n \in Names, Logged(n) # {}
      PROVE  dir'[n] \in Stores /\ keys'[dir'[n]] = Replayed(keys[dir'[n]], n)
  <2>1. dir'[n] \in Stores
    BY <1>5, <1>9
  <2>2. (CHOOSE m \in Names : dir'[m] = dir'[n]) = n
    <3> DEFINE c == CHOOSE m \in Names : dir'[m] = dir'[n]
    <3>1. c \in Names /\ dir'[c] = dir'[n]
      OBVIOUS
    <3> HIDE DEF c
    <3>2. dir'[n] # 0
      BY <1>2, <2>1
    <3>3. c = n
      BY <1>7, <3>1, <3>2
    <3> QED BY <3>3 DEF c
  <2>3. keys'[dir'[n]] = Replayed(keys[dir'[n]], CHOOSE m \in Names : dir'[m] = dir'[n])
    BY <1>1, <1>9, <2>1
  <2> QED BY <2>1, <2>2, <2>3
<1>10. ASSUME NEW s \in Stores
       PROVE  /\ (\A n \in Names : dir'[n] # s) => keys'[s] = keys[s]
              /\ keys'[s] = keys[s] \/ \E n \in Names : keys'[s] = Replayed(keys[s], n)
  <2>1. CASE \E n \in Names : dir'[n] = s /\ Logged(n) # {}
    BY <1>9, <2>1
  <2>2. CASE ~ \E n \in Names : dir'[n] = s /\ Logged(n) # {}
    BY <1>1, <2>2
  <2> QED BY <2>1, <2>2
<1>11. keys' \in [Stores -> Store]
  <2>1. keys' = [s \in Stores |-> keys'[s]]
    BY <1>1
  <2>2. ASSUME NEW s \in Stores PROVE keys'[s] \in Store
    <3>1. keys[s] \in Store
      BY <1>2
    <3> QED BY <1>10, <3>1, ReplayedFacts
  <2> QED BY <2>1, <2>2
<1>12. pool' = [n \in Names |-> IF Logged(n) # {} THEN dir'[n] ELSE 0]
  BY <1>1
<1>13. pool' \in [Names -> 0 .. MaxStores] /\ \A n \in Names : pool'[n] \in {0, dir'[n]}
  BY <1>2, <1>5, <1>12
<1>14. /\ writer' \in [Writers -> {Idle} \cup AWriter] /\ admin' \in [Admins -> {Idle} \cup AnOrder]
       /\ sweep' \in {Idle} \cup ASweep /\ moved' \in [name : Names \cup {None}, docs : SUBSET Doc]
       /\ kept' \in SUBSET Nat /\ UNCHANGED <<scope, log, form, sweeps>>
  BY DEF CrashAndRecover, NothingMoved, TypeInv
<1>15. TypeInv'
  BY <1>4, <1>6, <1>11, <1>13, <1>14 DEF TypeInv
<1> QED BY <1>4, <1>5, <1>8, <1>9, <1>10, <1>13, <1>15

-----------------------------------------------------------------------------
(* The shape of an order *)

(* What a step makes of the order that takes it, and of the others.        *)
Same(a) == \A b \in Admins \ {a} : admin'[b] = admin[b]
Lessens(b) == admin'[b] = admin[b] \/ (admin[b] # Idle /\ admin'[b] = [admin[b] EXCEPT !.h = 0])

Stepped(p, x) == [p EXCEPT !.step = x]

LEMMA SteppedFacts ==
  ASSUME NEW p \in AnOrder, NEW x \in AdminSteps
  PROVE  LET q == Stepped(p, x)
         IN /\ q \in AnOrder /\ q.step = x /\ q.op = p.op /\ q.old = p.old /\ q.new = p.new
            /\ q.kind = p.kind /\ q.pairs = p.pairs /\ q.h = p.h /\ q.docs = p.docs
BY DEF AnOrder, Stepped

LEMMA GoesShape ==
  ASSUME TypeInv, NEW a \in Admins, admin[a] # Idle, NEW x \in AdminSteps, Goes(a, x)
  PROVE  Same(a) /\ admin'[a] = Stepped(admin[a], x)
BY GoesTypes DEF Same, Stepped

LEMMA FailsShape ==
  ASSUME TypeInv, NEW a \in Admins, Fails(a)
  PROVE  Same(a) /\ admin'[a] = Idle
BY DEF TypeInv, Same, Fails

LEMMA OrderShape ==
  ASSUME TypeInv, NEW a \in Admins, NEW op \in {"rename", "drop"}, NEW old \in Names,
         NEW new \in Names,
         Order(a, op, old, new)
  PROVE  /\ Same(a) /\ admin[a] = Idle
         /\ admin'[a] = [step |-> "lock", op |-> op, old |-> old, new |-> new, tries |-> 0, kind |-> "d",
                         pairs |-> <<>>, h |-> 0, docs |-> {}]
BY DEF Order, TypeInv, Same

LEMMA LockShape ==
  ASSUME TypeInv, NEW a \in Admins, Lock(a)
  PROVE  /\ Same(a) /\ admin[a] \in AnOrder /\ admin[a].step = "lock"
         /\ \/ admin'[a] = Idle
            \/ /\ admin'[a] = [admin[a] EXCEPT !.step = "close",
                                 !.docs = IF dir[admin[a].old] = 0 THEN {} ELSE DocsUnder(admin[a].old)]
               /\ (admin[a].op = "rename" /\ scope = "block") => (dir[admin[a].old] # 0 /\ dir[admin[a].new] = 0)
<1>1. admin[a] \in AnOrder /\ admin[a].step = "lock"
  BY Steps DEF Lock, At, AdminSteps
<1>2. CASE (admin[a].op = "rename" /\ scope = "block") => (dir[admin[a].old] # 0 /\ dir[admin[a].new] = 0)
  <2> DEFINE D == IF dir[admin[a].old] = 0 THEN {} ELSE DocsUnder(admin[a].old)
  <2>1. admin' = [admin EXCEPT ![a].step = "close", ![a].docs = D]
    BY <1>2 DEF Lock
  <2> HIDE DEF D
  <2>2. admin'[a] = [admin[a] EXCEPT !.step = "close", !.docs = D] /\ Same(a)
    BY <1>1, <2>1 DEF TypeInv, Same
  <2> QED BY <1>1, <1>2, <2>2 DEF D
<1>3. CASE ~((admin[a].op = "rename" /\ scope = "block") => (dir[admin[a].old] # 0 /\ dir[admin[a].new] = 0))
  BY <1>1, <1>3 DEF Lock, TypeInv, Same
<1> QED BY <1>2, <1>3

LEMMA CloseHandlesShape ==
  ASSUME TypeInv, NEW a \in Admins, CloseHandles(a)
  PROVE  /\ admin[a] \in AnOrder /\ admin[a].step = "close"
         /\ admin'[a] = Stepped(admin[a], IF admin[a].op = "drop" THEN "drop" ELSE "move")
         /\ \A b \in Admins \ {a} : Lessens(b)
         /\ \A b \in Admins \ {a} : admin'[b] # Idle /\ admin'[b].h # 0 =>
              admin'[b] = admin[b] /\ admin[b].h # pool[admin[a].old]
<1>1. admin[a] \in AnOrder /\ admin[a].step = "close"
  BY Steps DEF CloseHandles, At, AdminSteps
<1>2. admin'[a] = Stepped(admin[a], IF admin[a].op = "drop" THEN "drop" ELSE "move")
  BY <1>1 DEF CloseHandles, Stepped
<1>3. ASSUME NEW b \in Admins \ {a}
      PROVE  Lessens(b) /\ (admin'[b] # Idle /\ admin'[b].h # 0 =>
               admin'[b] = admin[b] /\ admin[b].h # pool[admin[a].old])
  <2>1. admin'[b] = Loses(admin[b], pool[admin[a].old])
    BY DEF CloseHandles
  <2>2. admin[b] = Idle \/ admin[b] \in AnOrder
    BY OrderFacts
  <2>3. CASE admin[b] = Idle
    BY <2>1, <2>3 DEF Loses, Lessens, Idle
  <2>4. CASE admin[b] \in AnOrder
    <3>1. admin[b] # Idle /\ admin[b].step # "idle"
      BY <2>4, OrderFacts
    <3>2. CASE admin[b].h = pool[admin[a].old]
      <4>1. admin'[b] = [admin[b] EXCEPT !.h = 0]
        BY <2>1, <3>1, <3>2 DEF Loses
      <4>2. admin'[b].h = 0
        BY <2>4, <4>1 DEF AnOrder
      <4> QED BY <3>1, <4>1, <4>2 DEF Lessens
    <3>3. CASE admin[b].h # pool[admin[a].old]
      BY <2>1, <3>1, <3>3 DEF Loses, Lessens
    <3> QED BY <3>2, <3>3
  <2> QED BY <2>2, <2>3, <2>4
<1> QED BY <1>1, <1>2, <1>3

LEMMA RetryShape ==
  ASSUME TypeInv, NEW a \in Admins, Retry(a)
  PROVE  /\ Same(a) /\ admin[a] \in AnOrder /\ admin[a].step = "retry"
         /\ \/ admin'[a] = Idle
            \/ admin'[a] = [admin[a] EXCEPT !.step = "copy", !.tries = admin[a].tries + 1]
<1>1. admin[a] \in AnOrder /\ admin[a].step = "retry"
  BY Steps DEF Retry, At, AdminSteps
<1>2. CASE admin' = [admin EXCEPT ![a].step = "copy", ![a].tries = @ + 1]
  <2>1. admin' = [admin EXCEPT ![a] = [admin[a] EXCEPT !.step = "copy", !.tries = admin[a].tries + 1]]
    BY <1>1, <1>2 DEF TypeInv
  <2> QED BY <1>1, <2>1 DEF TypeInv, Same
<1>3. CASE Fails(a)
  BY <1>1, <1>3, FailsShape
<1> QED BY <1>2, <1>3 DEF Retry

LEMMA MigrateOpensShape ==
  ASSUME TypeInv, NEW a \in Admins, MigrateOpens(a)
  PROVE  /\ Same(a) /\ admin[a] \in AnOrder /\ admin[a].step = "open"
         /\ CanOpen(admin[a].new) => /\ OpenPath(admin[a].new)
                                     /\ admin'[a] = [admin[a] EXCEPT !.step = "read", !.h = Opened(admin[a].new)]
         /\ ~CanOpen(admin[a].new) => admin'[a] = Idle /\ UNCHANGED <<dir, pool, made>>
<1>1. admin[a] \in AnOrder /\ admin[a].step = "open"
  BY Steps DEF MigrateOpens, At, AdminSteps
<1>2. CASE CanOpen(admin[a].new)
  <2>1. admin' = [admin EXCEPT ![a].step = "read", ![a].h = Opened(admin[a].new)] /\ OpenPath(admin[a].new)
    BY <1>2 DEF MigrateOpens
  <2>2. admin' = [admin EXCEPT ![a] = [admin[a] EXCEPT !.step = "read", !.h = Opened(admin[a].new)]]
    BY <1>1, <2>1 DEF TypeInv
  <2> QED BY <1>1, <1>2, <2>1, <2>2 DEF TypeInv, Same
<1>3. CASE ~CanOpen(admin[a].new)
  BY <1>1, <1>3, FailsShape DEF MigrateOpens
<1> QED BY <1>2, <1>3

LEMMA OrderStays ==
  ASSUME TypeInv, OrderInv, UNCHANGED scope, NEW a \in Admins,
         \A b \in Admins \ {a} : Lessens(b),
         admin'[a] = Idle \/ GoodOrder(admin'[a])
  PROVE  OrderInv'
<1>1. \A b \in Admins : Busy(b) => GoodOrder(admin[b])
  BY DEF OrderInv
<1>2. ASSUME NEW b \in Admins, Busy(b)' PROVE GoodOrder(admin[b])'
  <2>1. CASE b = a
    BY <1>2, <2>1 DEF Busy, Idle, GoodOrder
  <2>2. CASE b # a /\ admin'[b] = admin[b]
    BY <1>1, <1>2, <2>2 DEF Busy, GoodOrder
  <2>3. CASE b # a /\ admin[b] # Idle /\ admin'[b] = [admin[b] EXCEPT !.h = 0]
    <3>1. admin[b] \in AnOrder /\ Busy(b)
      BY <2>3, OrderFacts DEF Busy
    <3> QED BY <1>1, <2>3, <3>1 DEF GoodOrder, AnOrder
  <2> QED BY <1>2, <2>1, <2>2, <2>3 DEF Lessens
<1>3. (\A b \in Admins : Busy(b) => GoodOrder(admin[b]))'
  BY <1>2
<1> QED BY <1>3 DEF OrderInv, GoodOrder

LEMMA SameLessens ==
  ASSUME NEW a \in Admins, Same(a) PROVE \A b \in Admins \ {a} : Lessens(b)
BY DEF Same, Lessens

LEMMA GoodKinds ==
  ASSUME NEW p \in AnOrder, GoodOrder(p)
  PROVE  /\ p.step \notin Touching \cup {"meta"} => p.kind = "d" /\ p.h = 0
         /\ p.step \notin {"lock", "close", "drop"} => p.op = "rename"
         /\ p.step = "drop" => p.op = "drop"
BY DEF GoodOrder, AnOrder, Touching, None

LEMMA OrderKeepsOrder ==
  ASSUME TypeInv, OrderInv, NEW a \in Admins, NEW op \in {"rename", "drop"}, NEW old \in Names,
         NEW new \in Names,
         Order(a, op, old, new)
  PROVE  OrderInv'
<1>1. GoodOrder(admin'[a])
  <2>1. admin'[a] = [step |-> "lock", op |-> op, old |-> old, new |-> new, tries |-> 0, kind |-> "d",
                     pairs |-> <<>>, h |-> 0, docs |-> {}]
    BY OrderShape
  <2>2. (op = "rename" => old # new) /\ (op = "drop" => old = new)
    BY DEF Order
  <2> QED BY <2>1, <2>2 DEF GoodOrder, None, Touching
<1>2. UNCHANGED scope
  BY DEF Order
<1> QED BY <1>1, <1>2, OrderShape, SameLessens, OrderStays

LEMMA LockKeepsOrder ==
  ASSUME TypeInv, OrderInv, NEW a \in Admins, Lock(a) PROVE OrderInv'
<1>1. admin[a] \in AnOrder /\ admin[a].step = "lock" /\ Same(a)
  BY LockShape
<1>2. GoodOrder(admin[a])
  BY <1>1 DEF OrderInv, Busy
<1>3. admin'[a] = Idle \/ GoodOrder(admin'[a])
  <2> DEFINE D == IF dir[admin[a].old] = 0 THEN {} ELSE DocsUnder(admin[a].old)
  <2>1. CASE admin'[a] = Idle
    BY <2>1
  <2>2. CASE admin'[a] = [admin[a] EXCEPT !.step = "close", !.docs = D]
    <3> HIDE DEF D
    <3> QED BY <1>1, <1>2, <2>2 DEF GoodOrder, AnOrder, Touching
  <2> QED BY <2>1, <2>2, LockShape
<1>4. UNCHANGED scope
  BY DEF Lock
<1> QED BY <1>1, <1>3, <1>4, SameLessens, OrderStays

LEMMA CloseHandlesKeepsOrder ==
  ASSUME TypeInv, OrderInv, NEW a \in Admins, CloseHandles(a) PROVE OrderInv'
<1>1. admin[a] \in AnOrder /\ admin[a].step = "close"
  BY CloseHandlesShape
<1>2. GoodOrder(admin[a])
  BY <1>1 DEF OrderInv, Busy
<1>3. GoodOrder(admin'[a])
  <2>1. admin[a].kind = "d" /\ admin[a].h = 0 /\ {"drop", "move"} \subseteq AdminSteps
    BY <1>1, <1>2, GoodKinds DEF Touching, AdminSteps
  <2>2. CASE admin[a].op = "drop"
    <3>1. admin'[a] = Stepped(admin[a], "drop")
      BY <2>2, CloseHandlesShape
    <3> QED BY <1>1, <1>2, <2>1, <2>2, <3>1, SteppedFacts DEF GoodOrder, None
  <2>3. CASE admin[a].op # "drop"
    <3>1. admin'[a] = Stepped(admin[a], "move")
      BY <2>3, CloseHandlesShape
    <3> QED BY <1>1, <1>2, <2>1, <2>3, <3>1, SteppedFacts DEF GoodOrder, None
  <2> QED BY <2>2, <2>3
<1>4. UNCHANGED scope
  BY DEF CloseHandles
<1> QED BY <1>3, <1>4, CloseHandlesShape, OrderStays

LEMMA IdleKeepsOrder ==
  ASSUME TypeInv, OrderInv, NEW a \in Admins, Fails(a), UNCHANGED scope PROVE OrderInv'
BY FailsShape, SameLessens, OrderStays

LEMMA FilesKeepOrder ==
  ASSUME TypeInv, OrderInv, NEW a \in Admins,
         Move(a) \/ MoveFails(a) \/ Copy(a) \/ CopyFails(a) \/ RemoveSource(a)
  PROVE  OrderInv'
<1>1. admin[a] \in AnOrder /\ admin[a] # Idle /\ admin[a].step \in {"move", "copy", "remove"}
  BY Steps DEF Move, MoveFails, Copy, CopyFails, RemoveSource, At, AdminSteps
<1>2. GoodOrder(admin[a])
  BY <1>1 DEF OrderInv, Busy
<1>3. /\ admin[a].kind = "d" /\ admin[a].h = 0 /\ admin[a].op = "rename"
      /\ {"copy", "retry", "remove", "open", "meta"} \subseteq AdminSteps
  BY <1>1, <1>2, GoodKinds DEF Touching, AdminSteps
<1>4. UNCHANGED scope
  BY DEF Move, MoveFails, Copy, CopyFails, RemoveSource
<1>5. Goes(a, "copy") \/ Goes(a, "retry") \/ Goes(a, "remove") \/ Goes(a, AfterMove)
  BY CopyFacts DEF Move, MoveFails, CopyFails, RemoveSource
<1>6. ASSUME NEW x \in AdminSteps, Goes(a, x), GoodOrder(Stepped(admin[a], x)) PROVE OrderInv'
  <2>1. Same(a) /\ GoodOrder(admin'[a])
    BY <1>1, <1>6, GoesShape
  <2> QED BY <1>4, <2>1, SameLessens, OrderStays
<1>7. CASE Goes(a, "copy")
  <2>1. GoodOrder(Stepped(admin[a], "copy"))
    BY <1>1, <1>2, <1>3, SteppedFacts DEF GoodOrder, None
  <2> QED BY <1>3, <1>6, <1>7, <2>1
<1>8. CASE Goes(a, "retry")
  <2>1. GoodOrder(Stepped(admin[a], "retry"))
    BY <1>1, <1>2, <1>3, SteppedFacts DEF GoodOrder, None
  <2> QED BY <1>3, <1>6, <1>8, <2>1
<1>9. CASE Goes(a, "remove")
  <2>1. GoodOrder(Stepped(admin[a], "remove"))
    BY <1>1, <1>2, <1>3, SteppedFacts DEF GoodOrder, None
  <2> QED BY <1>3, <1>6, <1>9, <2>1
<1>10. CASE Goes(a, AfterMove)
  <2>1. CASE scope = "block"
    <3>1. Goes(a, "open")
      BY <1>10, <2>1 DEF AfterMove
    <3>2. GoodOrder(Stepped(admin[a], "open"))
      BY <1>1, <1>2, <1>3, <2>1, SteppedFacts DEF GoodOrder, None
    <3> QED BY <1>3, <1>6, <3>1, <3>2
  <2>2. CASE scope # "block"
    <3>1. Goes(a, "meta")
      BY <1>10, <2>2 DEF AfterMove
    <3>2. GoodOrder(Stepped(admin[a], "meta"))
      BY <1>1, <1>2, <1>3, SteppedFacts DEF GoodOrder, None
    <3> QED BY <1>3, <1>6, <3>1, <3>2
  <2> QED BY <2>1, <2>2
<1> QED BY <1>5, <1>7, <1>8, <1>9, <1>10

LEMMA RetryKeepsOrder ==
  ASSUME TypeInv, OrderInv, NEW a \in Admins, Retry(a) PROVE OrderInv'
<1>1. admin[a] \in AnOrder /\ admin[a].step = "retry" /\ Same(a)
  BY RetryShape
<1>2. GoodOrder(admin[a])
  BY <1>1 DEF OrderInv, Busy
<1>3. admin'[a] = Idle \/ GoodOrder(admin'[a])
  <2>1. GoodOrder([admin[a] EXCEPT !.step = "copy", !.tries = admin[a].tries + 1])
    BY <1>1, <1>2 DEF GoodOrder, AnOrder, Touching
  <2> QED BY <2>1, RetryShape
<1>4. UNCHANGED scope
  BY DEF Retry
<1> QED BY <1>1, <1>3, <1>4, SameLessens, OrderStays

LEMMA MigrateOpensKeepsOrder ==
  ASSUME TypeInv, OrderInv, NEW a \in Admins, MigrateOpens(a) PROVE OrderInv'
<1>1. admin[a] \in AnOrder /\ admin[a].step = "open" /\ Same(a)
  BY MigrateOpensShape
<1>2. GoodOrder(admin[a])
  BY <1>1 DEF OrderInv, Busy
<1>3. admin'[a] = Idle \/ GoodOrder(admin'[a])
  <2> DEFINE h == Opened(admin[a].new)
  <2>1. admin'[a] = Idle \/ admin'[a] = [admin[a] EXCEPT !.step = "read", !.h = h]
    BY MigrateOpensShape
  <2> HIDE DEF h
  <2>2. GoodOrder([admin[a] EXCEPT !.step = "read", !.h = h])
    BY <1>1, <1>2 DEF GoodOrder, AnOrder, Touching
  <2> QED BY <2>1, <2>2
<1>4. UNCHANGED scope
  BY DEF MigrateOpens
<1> QED BY <1>1, <1>3, <1>4, SameLessens, OrderStays

LEMMA MigratesKeepOrder ==
  ASSUME TypeInv, OrderInv, NEW a \in Admins,
         MigrateReads(a) \/ MigrateWrites(a) \/ MigrateDeletes(a)
  PROVE  OrderInv'
<1>1. PICK step \in Touching : Working(a, step) /\ step # "x"
  BY DEF MigrateReads, MigrateWrites, MigrateDeletes, Touching
<1>2. admin[a] \in AnOrder /\ admin[a] # Idle /\ admin[a].step = step
  BY <1>1, WorkingFacts DEF Working, At
<1>3. GoodOrder(admin[a])
  BY <1>1, <1>2 DEF OrderInv, Busy, Touching
<1>4. UNCHANGED scope
  BY DEF MigrateReads, MigrateWrites, MigrateDeletes
<1>5. CASE MigrateReads(a)
  <2> DEFINE f == keys[admin[a].h][admin[a].kind][admin[a].old]
  <2>1. Same(a) /\ admin'[a] = [admin[a] EXCEPT !.step = "write", !.pairs = f] /\ f \in [Ids -> Nat]
    BY <1>5, MigrateReadsTypes DEF Same
  <2> HIDE DEF f
  <2>2. admin[a].step = "read"
    BY <1>5 DEF MigrateReads, Working, At
  <2>3. GoodOrder(admin'[a])
    BY <1>2, <1>3, <2>1, <2>2 DEF GoodOrder, AnOrder, Touching, None
  <2> QED BY <1>4, <2>1, <2>3, SameLessens, OrderStays
<1>6. CASE MigrateWrites(a)
  <2>1. Goes(a, "delete") /\ "delete" \in AdminSteps /\ admin[a].step = "write"
    BY <1>6 DEF MigrateWrites, Working, At, AdminSteps
  <2>2. Same(a) /\ admin'[a] = Stepped(admin[a], "delete")
    BY <1>2, <2>1, GoesShape
  <2>3. GoodOrder(admin'[a])
    BY <1>2, <1>3, <2>1, <2>2, SteppedFacts DEF GoodOrder, Touching
  <2> QED BY <1>4, <2>2, <2>3, SameLessens, OrderStays
<1>7. CASE MigrateDeletes(a)
  <2>1. /\ Same(a) /\ admin[a].kind \in {"d", "s"} /\ admin[a].step = "delete"
        /\ admin[a].kind = "d" => admin'[a] = [admin[a] EXCEPT !.step = "read", !.kind = "s", !.pairs = <<>>]
        /\ admin[a].kind = "s" => admin'[a] = [admin[a] EXCEPT !.step = "meta", !.kind = None, !.pairs = <<>>]
    <3>1. Working(a, "delete") /\ "delete" \in Touching
      BY <1>7 DEF MigrateDeletes, Touching
    <3>2. admin[a].kind \in {"d", "s"} /\ admin[a].step = "delete"
      BY <3>1, WorkingFacts DEF Working, At
    <3> QED BY <1>7, <3>2, MigrateDeletesFacts DEF Same
  <2>2. GoodOrder(admin'[a])
    BY <1>2, <1>3, <2>1 DEF GoodOrder, AnOrder, Touching, None
  <2> QED BY <1>4, <2>1, <2>2, SameLessens, OrderStays
<1> QED BY <1>5, <1>6, <1>7

LEMMA QuietKeepsOrder ==
  ASSUME OrderInv, UNCHANGED <<admin, scope>> PROVE OrderInv'
BY DEF OrderInv, GoodOrder, Busy

LEMMA CrashKeepsOrder ==
  ASSUME CrashAndRecover PROVE OrderInv'
BY DEF CrashAndRecover, OrderInv, GoodOrder, Busy, Idle

-----------------------------------------------------------------------------
(* Directories and handles *)

(* Directories and handles.                                                *)
Directories ==
  /\ Apart(dir) /\ Apart(pool)
  /\ \A n \in Names : dir[n] <= made /\ pool[n] <= made
(* A handle that a request, an order or a sweep holds is the pool's, until *)
(* the pool closes it and empties it.                                      *)
WriterHandles == \A w \in Writers : writer[w] # Idle /\ writer[w].h # 0 => pool[writer[w].name] = writer[w].h
OrderHandles == \A a \in Admins : Busy(a) /\ admin[a].h # 0 => pool[admin[a].new] = admin[a].h
SweepHandle == sweep # Idle /\ sweep.h # 0 => pool[sweep.name] = sweep.h
(* Directories and handles are apart, and no handle outlives the pool's.   *)
PoolInv == Directories /\ WriterHandles /\ OrderHandles /\ SweepHandle

LEMMA PlaceTypes ==
  ASSUME TypeInv
  PROVE  /\ \A n \in Names : dir[n] \in 0 .. MaxStores /\ pool[n] \in 0 .. MaxStores
         /\ dir \in [Names -> 0 .. MaxStores] /\ pool \in [Names -> 0 .. MaxStores]
         /\ made \in Nat \ {0} /\ MaxStores \in Nat
BY Numbers DEF TypeInv

LEMMA Emptying ==
  ASSUME TypeInv, NEW f, f \in [Names -> 0 .. MaxStores], Apart(f), \A n \in Names : f[n] <= made,
         NEW m \in Names
  PROVE  Apart([f EXCEPT ![m] = 0]) /\ \A n \in Names : [f EXCEPT ![m] = 0][n] <= made
BY PlaceTypes DEF Apart

LEMMA Making ==
  ASSUME TypeInv, NEW f, f \in [Names -> 0 .. MaxStores], Apart(f), \A n \in Names : f[n] <= made,
         NEW m \in Names
  PROVE  Apart([f EXCEPT ![m] = made + 1]) /\ \A n \in Names : [f EXCEPT ![m] = made + 1][n] <= made + 1
<1> DEFINE g == [f EXCEPT ![m] = made + 1]
<1>1. \A n \in Names : g[n] = IF n = m THEN made + 1 ELSE f[n]
  OBVIOUS
<1>2. \A n \in Names : f[n] \in Nat /\ f[n] <= made /\ made \in Nat
  BY PlaceTypes
<1> HIDE DEF g
<1>3. \A n \in Names : g[n] <= made + 1
  BY <1>1, <1>2
<1>4. Apart(g)
  BY <1>1, <1>2 DEF Apart
<1> QED BY <1>3, <1>4 DEF g

(* Opening the path of n, which may make its directories.                  *)
Opens(n) ==
  /\ CanOpen(n) /\ pool' = [pool EXCEPT ![n] = Opened(n)]
  /\ MakeDirectory(n) \/ (pool[n] # 0 /\ UNCHANGED <<dir, made>>)

LEMMA OpensFacts ==
  ASSUME TypeInv, Directories, NEW n \in Names, Opens(n)
  PROVE  /\ Directories'
         /\ made <= made' /\ made' \in Nat
         /\ pool'[n] = Opened(n) /\ Opened(n) # 0 /\ Opened(n) <= made'
         /\ \A m \in Names : pool[m] # 0 => pool'[m] = pool[m]
         /\ \A m \in Names : m # n => pool'[m] = pool[m] /\ dir'[m] = dir[m]
         /\ \A m \in Names : dir'[m] = dir[m] \/ (dir[m] = 0 /\ dir'[m] > made)
<1>1. \A m \in Names : pool'[m] = IF m = n THEN Opened(n) ELSE pool[m]
  BY PlaceTypes DEF Opens
<1>2. \/ UNCHANGED <<dir, made>> /\ Opened(n) = IF pool[n] # 0 THEN pool[n] ELSE dir[n]
      \/ /\ dir[n] = 0 /\ made' = made + 1 /\ dir' = [dir EXCEPT ![n] = made + 1]
         /\ Opened(n) = IF pool[n] # 0 THEN pool[n] ELSE made + 1
  BY DEF Opens, MakeDirectory, Missing, Opened
<1>3. pool[n] = 0 /\ UNCHANGED dir => Opened(n) = dir[n] /\ dir[n] # 0 /\ \A m \in Names : m # n => pool[m] # dir[n]
  <2>1. ASSUME pool[n] = 0, UNCHANGED dir PROVE dir[n] # 0
    <3>1. MakeDirectory(n)
      BY <2>1 DEF Opens
    <3>2. ASSUME dir[n] = 0 PROVE FALSE
      <4>1. dir' = [dir EXCEPT ![n] = made + 1]
        BY <3>1, <3>2 DEF MakeDirectory, Missing
      <4> QED BY <2>1, <3>2, <4>1, PlaceTypes
    <3> QED BY <3>2
  <2> QED BY <2>1 DEF Opens, CanOpen, Taken, Missing, Opened
<1>4. \A m \in Names : dir[m] \in Nat /\ pool[m] \in Nat /\ dir[m] <= made /\ pool[m] <= made /\ made \in Nat
  BY PlaceTypes DEF Directories
<1>5. \A m \in Names : dir'[m] = dir[m] \/ (m = n /\ dir[m] = 0 /\ dir'[m] = made + 1 /\ made' = made + 1)
  BY <1>2, PlaceTypes
<1>6. made' \in Nat /\ made <= made' /\ (made' = made \/ made' = made + 1)
  BY <1>2, <1>4
<1>7. Opened(n) # 0 /\ Opened(n) <= made' /\ (pool[n] # 0 => Opened(n) = pool[n])
  <2>1. CASE pool[n] # 0
    BY <1>2, <1>4, <1>6, <2>1
  <2>2. CASE pool[n] = 0 /\ UNCHANGED dir
    BY <1>3, <1>4, <1>6, <2>2
  <2>3. CASE pool[n] = 0 /\ ~UNCHANGED dir
    BY <1>2, <1>4, <2>3
  <2> QED BY <2>1, <2>2, <2>3
<1>8. ASSUME NEW m \in Names, m # n, pool[m] # 0 PROVE pool[m] # Opened(n)
  <2>1. CASE pool[n] # 0
    BY <1>7, <1>8, <2>1 DEF Directories, Apart
  <2>2. CASE pool[n] = 0 /\ UNCHANGED dir
    BY <1>3, <1>8, <2>2
  <2>3. CASE pool[n] = 0 /\ ~UNCHANGED dir
    BY <1>2, <1>4, <1>8, <2>3
  <2> QED BY <2>1, <2>2, <2>3
<1>9. Apart(pool)'
  <2>1. \A p, q \in Names : pool'[p] # 0 /\ pool'[p] = pool'[q] => p = q
    BY <1>1, <1>7, <1>8 DEF Directories, Apart
  <2> QED BY <2>1 DEF Apart
<1>10. Apart(dir)'
  <2>1. \A p, q \in Names : dir'[p] # 0 /\ dir'[p] = dir'[q] => p = q
    BY <1>4, <1>5 DEF Directories, Apart
  <2> QED BY <2>1 DEF Apart
<1>11. \A m \in Names : dir'[m] <= made' /\ pool'[m] <= made'
  BY <1>1, <1>4, <1>5, <1>6, <1>7
<1>12. Directories'
  BY <1>9, <1>10, <1>11 DEF Directories
<1>13. \A m \in Names : dir'[m] = dir[m] \/ (dir[m] = 0 /\ dir'[m] > made)
  BY <1>4, <1>5
<1> QED BY <1>1, <1>5, <1>6, <1>7, <1>12, <1>13

-----------------------------------------------------------------------------
(* Handles stay where the pool keeps what it has.                          *)
Grows == \A m \in Names : pool[m] # 0 => pool'[m] = pool[m]

LEMMA WriterHandlesStay ==
  ASSUME TypeInv, WriterHandles, Grows,
         \A w \in Writers : \/ writer'[w] = Idle \/ writer'[w] = writer[w]
                            \/ writer'[w] \in AWriter /\ pool'[writer'[w].name] = writer'[w].h
  PROVE  WriterHandles'
<1>1. ASSUME NEW w \in Writers, writer'[w] # Idle, writer'[w].h # 0
      PROVE  pool'[writer'[w].name] = writer'[w].h
  <2>1. CASE writer'[w] = writer[w]
    <3>1. writer[w] \in AWriter /\ writer[w].name \in Names
      BY <1>1, <2>1, WriterFacts DEF AWriter
    <3> QED BY <1>1, <2>1, <3>1 DEF WriterHandles, Grows
  <2> QED BY <1>1, <2>1
<1> QED BY <1>1 DEF WriterHandles

LEMMA OrderHandlesStay ==
  ASSUME TypeInv, OrderHandles, Grows, NEW a \in Admins, \A b \in Admins \ {a} : Lessens(b),
         \/ admin'[a] = Idle
         \/ admin[a] # Idle /\ admin'[a].h = admin[a].h /\ admin'[a].new = admin[a].new
         \/ admin'[a].h = 0 \/ pool'[admin'[a].new] = admin'[a].h
  PROVE  OrderHandles'
<1>1. ASSUME NEW b \in Admins, Busy(b)', admin'[b].h # 0 PROVE pool'[admin'[b].new] = admin'[b].h
  <2>1. CASE b = a /\ admin[a] # Idle /\ admin'[a].h = admin[a].h /\ admin'[a].new = admin[a].new
    <3>1. admin[a] \in AnOrder /\ admin[a].new \in Names /\ Busy(a)
      BY <2>1, OrderFacts DEF Busy, AnOrder
    <3> QED BY <1>1, <2>1, <3>1 DEF OrderHandles, Grows
  <2>2. CASE b # a /\ admin'[b] = admin[b]
    <3>1. Busy(b)
      BY <1>1, <2>2 DEF Busy
    <3>2. admin[b].new \in Names
      BY <3>1, OrderFacts DEF Busy, AnOrder
    <3> QED BY <1>1, <2>2, <3>1, <3>2 DEF OrderHandles, Grows
  <2>3. CASE b # a /\ admin[b] # Idle /\ admin'[b] = [admin[b] EXCEPT !.h = 0]
    <3>1. admin[b] \in AnOrder
      BY <2>3, OrderFacts
    <3> QED BY <1>1, <2>3, <3>1 DEF AnOrder
  <2>4. CASE b = a /\ admin'[a] = Idle
    BY <1>1, <2>4 DEF Busy, Idle
  <2> QED BY <1>1, <2>1, <2>2, <2>3, <2>4 DEF Lessens
<1> QED BY <1>1 DEF OrderHandles

LEMMA SweepHandleStays ==
  ASSUME TypeInv, SweepHandle, Grows,
         \/ sweep' = Idle \/ sweep'.h = 0 \/ pool'[sweep'.name] = sweep'.h
         \/ sweep # Idle /\ sweep'.h = sweep.h /\ sweep'.name = sweep.name
  PROVE  SweepHandle'
BY SweepFacts DEF SweepHandle, Grows, ASweep

LEMMA StillPool ==
  ASSUME TypeInv, PoolInv, UNCHANGED <<pool, writer, sweep>>, NEW a \in Admins, Same(a),
         Directories', admin'[a] = Idle \/ (admin[a] # Idle /\ admin'[a].h = admin[a].h /\ admin'[a].new = admin[a].new)
                       \/ admin'[a].h = 0
  PROVE  PoolInv'
<1>1. Grows
  BY DEF Grows
<1>2. WriterHandles'
  BY DEF PoolInv, WriterHandles
<1>3. SweepHandle'
  BY DEF PoolInv, SweepHandle
<1>4. OrderHandles'
  BY <1>1, SameLessens, OrderHandlesStay DEF PoolInv
<1> QED BY <1>2, <1>3, <1>4 DEF PoolInv

LEMMA QuietPool ==
  ASSUME PoolInv, UNCHANGED <<dir, pool, made, writer, admin, sweep>> PROVE PoolInv'
BY DEF PoolInv, Directories, Apart, WriterHandles, OrderHandles, SweepHandle, Busy

LEMMA SameDirectories ==
  ASSUME Directories, UNCHANGED <<dir, pool, made>> PROVE Directories'
BY DEF Directories, Apart

LEMMA CreateKeepsPool ==
  ASSUME TypeInv, PoolInv, NEW n \in Names, Create(n) PROVE PoolInv'
<1>1. Directories'
  <2>1. dir' = [dir EXCEPT ![n] = made + 1] /\ made' = made + 1 /\ pool' = pool
    BY DEF Create
  <2>2. Apart(dir') /\ \A m \in Names : dir'[m] <= made'
    BY <2>1, Making, PlaceTypes DEF PoolInv, Directories
  <2>3. \A m \in Names : pool'[m] <= made'
    BY <2>1, PlaceTypes DEF PoolInv, Directories
  <2> QED BY <2>1, <2>2, <2>3 DEF PoolInv, Directories, Apart
<1> QED BY <1>1 DEF PoolInv, Create, WriterHandles, OrderHandles, SweepHandle, Busy

LEMMA InsertBeginsKeepsPool ==
  ASSUME TypeInv, PoolInv, NEW w \in Writers, NEW n \in Names, NEW i \in Ids,
         NEW kind \in {"single", "batch"}, NEW f \in {"plain", "packed"}, InsertBegins(w, n, i, kind, f)
  PROVE  PoolInv'
<1>1. Opens(n)
  BY DEF InsertBegins, Opens
<1>2. Directories' /\ Grows /\ pool'[n] = Opened(n)
  BY <1>1, OpensFacts DEF PoolInv, Grows
<1>3. WriterHandles'
  <2>1. TypeInv'
    BY InsertBeginsTypes
  <2>2. writer'[w] \in AWriter /\ writer'[w].name = n /\ writer'[w].h = Opened(n)
    <3>1. writer'[w] = [step |-> "commit", name |-> n, id |-> i, kind |-> kind, h |-> Opened(n),
                        v |-> Len(form) + 1, clean |-> Undisturbed(n)]
      BY DEF InsertBegins, TypeInv
    <3>2. writer'[w] # Idle
      BY <3>1 DEF Idle
    <3>3. writer'[w] \in {Idle} \cup AWriter
      BY <2>1 DEF TypeInv
    <3> QED BY <3>1, <3>2, <3>3
  <2>3. \A q \in Writers \ {w} : writer'[q] = writer[q]
    BY DEF InsertBegins, TypeInv
  <2> QED BY <1>2, <2>2, <2>3, WriterHandlesStay DEF PoolInv
<1>4. OrderHandles'
  BY <1>2 DEF PoolInv, OrderHandles, Busy, Grows, InsertBegins, TypeInv
<1>5. SweepHandle'
  BY <1>2, SweepFacts DEF PoolInv, SweepHandle, Grows, InsertBegins, ASweep
<1> QED BY <1>2, <1>3, <1>4, <1>5 DEF PoolInv

LEMMA CommitKeepsPool ==
  ASSUME TypeInv, PoolInv, NEW w \in Writers, Commit(w) PROVE PoolInv'
<1>1. WriterHandles'
  <2>1. Grows /\ \A q \in Writers : writer'[q] = Idle \/ writer'[q] = writer[q]
    BY DEF Commit, Grows, TypeInv
  <2> QED BY <2>1, WriterHandlesStay DEF PoolInv
<1> QED BY <1>1 DEF PoolInv, Commit, Directories, Apart, OrderHandles, SweepHandle, Busy

LEMMA OrderKeepsPool ==
  ASSUME TypeInv, PoolInv, NEW a \in Admins, NEW op \in {"rename", "drop"}, NEW old \in Names,
         NEW new \in Names,
         Order(a, op, old, new)
  PROVE  PoolInv'
<1>1. Grows /\ UNCHANGED <<dir, pool, made, sweep>>
  BY DEF Order, Grows
<1>2. OrderHandles'
  <2>1. Same(a) /\ admin'[a].h = 0
    <3>1. Same(a) /\ admin'[a] = [step |-> "lock", op |-> op, old |-> old, new |-> new, tries |-> 0, kind |-> "d",
                                  pairs |-> <<>>, h |-> 0, docs |-> {}]
      BY OrderShape
    <3> QED BY <3>1
  <2> QED BY <1>1, <2>1, SameLessens, OrderHandlesStay DEF PoolInv
<1>3. WriterHandles'
  <2>1. ASSUME NEW w \in Writers, writer'[w] # Idle, writer'[w].h # 0
        PROVE  pool'[writer'[w].name] = writer'[w].h
    <3>1. writer'[w] = writer[w] \/ (writer[w] # Idle /\ writer'[w] = [writer[w] EXCEPT !.clean = FALSE])
      BY DEF Order
    <3>2. CASE writer'[w] = writer[w]
      BY <1>1, <2>1, <3>2 DEF PoolInv, WriterHandles
    <3>3. CASE writer[w] # Idle /\ writer'[w] = [writer[w] EXCEPT !.clean = FALSE]
      <4>1. writer[w] \in AWriter
        BY <3>3, WriterFacts
      <4>2. writer'[w].h = writer[w].h /\ writer'[w].name = writer[w].name
        BY <3>3, <4>1 DEF AWriter
      <4> QED BY <1>1, <2>1, <3>3, <4>2 DEF PoolInv, WriterHandles
    <3> QED BY <3>1, <3>2, <3>3
  <2> QED BY <2>1 DEF WriterHandles
<1>4. Directories' /\ SweepHandle'
  BY <1>1, SameDirectories DEF PoolInv, SweepHandle
<1> QED BY <1>2, <1>3, <1>4 DEF PoolInv

LEMMA CloseHandlesKeepsPool ==
  ASSUME TypeInv, OrderInv, PoolInv, NEW a \in Admins, CloseHandles(a) PROVE PoolInv'
<1> DEFINE s == pool[admin[a].old]
<1>1. admin[a] \in AnOrder /\ admin[a].old \in Names /\ admin[a].step = "close" /\ admin[a].h = 0
  <2>1. admin[a] \in AnOrder /\ admin[a].step = "close"
    BY CloseHandlesShape
  <2>2. admin[a].h = 0
    BY <2>1, GoodKinds DEF OrderInv, Busy, Touching
  <2> QED BY <2>1, <2>2 DEF AnOrder
<1>2. pool' = [pool EXCEPT ![admin[a].old] = 0] /\ UNCHANGED <<dir, made>>
  BY DEF CloseHandles
<1>3. \A m \in Names : pool[m] # s => pool'[m] = pool[m]
  BY <1>1, <1>2, PlaceTypes
<1>4. Directories'
  <2>1. Apart(pool') /\ \A n \in Names : pool'[n] <= made
    BY <1>1, <1>2, Emptying, PlaceTypes DEF PoolInv, Directories
  <2> QED BY <1>2, <2>1 DEF PoolInv, Directories, Apart
<1>5. WriterHandles'
  <2>1. ASSUME NEW w \in Writers, writer'[w] # Idle, writer'[w].h # 0
        PROVE  pool'[writer'[w].name] = writer'[w].h
    <3>1. writer'[w] = Loses(writer[w], s) /\ (writer[w] = Idle \/ writer[w] \in AWriter)
      BY WriterFacts DEF CloseHandles, WithoutHandle
    <3>2. writer'[w] = writer[w] /\ writer[w].h # s /\ writer[w] \in AWriter
      BY <2>1, <3>1 DEF Loses, AWriter, Idle
    <3> QED BY <1>3, <2>1, <3>2 DEF PoolInv, WriterHandles, AWriter
  <2> QED BY <2>1 DEF WriterHandles
<1>6. OrderHandles'
  <2>1. ASSUME NEW b \in Admins, Busy(b)', admin'[b].h # 0 PROVE pool'[admin'[b].new] = admin'[b].h
    <3>1. b # a
      <4>1. admin'[a] = Stepped(admin[a], "drop") \/ admin'[a] = Stepped(admin[a], "move")
        BY CloseHandlesShape
      <4>2. {"drop", "move"} \subseteq AdminSteps
        BY DEF AdminSteps
      <4> QED BY <1>1, <2>1, <4>1, <4>2, SteppedFacts
    <3>2. admin'[b] # Idle
      BY <2>1 DEF Busy, Idle
    <3>3. admin'[b] = admin[b] /\ admin[b].h # s /\ Busy(b)
      BY <2>1, <3>1, <3>2, CloseHandlesShape DEF Busy
    <3>4. admin[b].new \in Names
      BY <3>3, OrderFacts DEF Busy, AnOrder
    <3> QED BY <1>3, <2>1, <3>3, <3>4 DEF PoolInv, OrderHandles
  <2> QED BY <2>1 DEF OrderHandles
<1>7. SweepHandle'
  <2>1. ASSUME sweep' # Idle, sweep'.h # 0 PROVE pool'[sweep'.name] = sweep'.h
    <3>1. sweep' = Loses(sweep, s) /\ (sweep = Idle \/ sweep \in ASweep)
      BY SweepFacts DEF CloseHandles, WithoutHandle
    <3>2. sweep' = sweep /\ sweep.h # s /\ sweep \in ASweep
      BY <2>1, <3>1 DEF Loses, ASweep, Idle
    <3> QED BY <1>3, <2>1, <3>2 DEF PoolInv, SweepHandle, ASweep
  <2> QED BY <2>1 DEF SweepHandle
<1> QED BY <1>4, <1>5, <1>6, <1>7 DEF PoolInv

LEMMA RemovingKeepsPool ==
  ASSUME TypeInv, PoolInv, NEW a \in Admins, Drop(a) \/ Retry(a) \/ RemoveSource(a) \/ Move(a)
  PROVE  PoolInv'
<1>1. admin[a] \in AnOrder /\ admin[a] # Idle /\ admin[a].old \in Names /\ admin[a].new \in Names
  BY Steps DEF Drop, Retry, RemoveSource, Move, At, AdminSteps, AnOrder
<1>2. UNCHANGED <<pool, writer, sweep, made>>
  BY DEF Drop, Retry, RemoveSource, Move, bounds
<1>3. Directories'
  <2>1. CASE Drop(a) \/ Retry(a) \/ RemoveSource(a)
    <3>1. PICK n \in Names : dir' = dir \/ dir' = [dir EXCEPT ![n] = 0]
      BY <1>1, <2>1 DEF Drop, Retry, RemoveSource
    <3> QED BY <1>2, <3>1, Emptying, PlaceTypes DEF PoolInv, Directories, Apart
  <2>2. CASE Move(a)
    <3>1. /\ dir' = [dir EXCEPT ![admin[a].new] = dir[admin[a].old], ![admin[a].old] = 0]
          /\ dir[admin[a].new] = 0 /\ dir[admin[a].old] # 0
      BY <2>2 DEF Move
    <3>2. \A n \in Names : dir'[n] = IF n = admin[a].old THEN 0
                                     ELSE IF n = admin[a].new THEN dir[admin[a].old] ELSE dir[n]
      BY <1>1, <3>1, PlaceTypes
    <3>3. \A m, n \in Names : dir'[m] # 0 /\ dir'[m] = dir'[n] => m = n
      BY <1>1, <3>2 DEF PoolInv, Directories, Apart
    <3>4. \A n \in Names : dir'[n] <= made
      BY <1>1, <3>2, PlaceTypes DEF PoolInv, Directories
    <3> QED BY <1>2, <3>3, <3>4 DEF PoolInv, Directories, Apart
  <2> QED BY <2>1, <2>2
<1>4. Same(a) /\ (admin'[a] = Idle \/ (admin'[a].h = admin[a].h /\ admin'[a].new = admin[a].new))
  <2>1. CASE Drop(a)
    BY <2>1, FailsShape DEF Drop
  <2>2. CASE Retry(a)
    <3>1. Same(a) /\ (admin'[a] = Idle \/ admin'[a] = [admin[a] EXCEPT !.step = "copy", !.tries = admin[a].tries + 1])
      BY <2>2, RetryShape
    <3> QED BY <1>1, <3>1 DEF AnOrder
  <2>3. CASE RemoveSource(a) \/ Move(a)
    <3>1. Goes(a, AfterMove) /\ AfterMove \in AdminSteps
      BY <2>3 DEF RemoveSource, Move, AfterMove, AdminSteps
    <3>2. Same(a) /\ admin'[a] = Stepped(admin[a], AfterMove)
      BY <1>1, <3>1, GoesShape
    <3> QED BY <1>1, <3>1, <3>2, SteppedFacts
  <2> QED BY <2>1, <2>2, <2>3
<1> QED BY <1>1, <1>2, <1>3, <1>4, StillPool

LEMMA LockKeepsPool ==
  ASSUME TypeInv, PoolInv, NEW a \in Admins, Lock(a) PROVE PoolInv'
<1>1. UNCHANGED <<dir, pool, made, writer, sweep>>
  BY DEF Lock, bounds
<1>2. Same(a) /\ admin[a] \in AnOrder /\ admin[a] # Idle
  BY LockShape, OrderFacts DEF AnOrder, Idle
<1>3. admin'[a] = Idle \/ (admin'[a].h = admin[a].h /\ admin'[a].new = admin[a].new)
  <2> DEFINE D == IF dir[admin[a].old] = 0 THEN {} ELSE DocsUnder(admin[a].old)
  <2>1. admin'[a] = Idle \/ admin'[a] = [admin[a] EXCEPT !.step = "close", !.docs = D]
    BY LockShape
  <2> HIDE DEF D
  <2> QED BY <1>2, <2>1 DEF AnOrder
<1>4. Directories'
  BY <1>1, SameDirectories DEF PoolInv
<1> QED BY <1>1, <1>2, <1>3, <1>4, StillPool

LEMMA GoingKeepsPool ==
  ASSUME TypeInv, PoolInv, NEW a \in Admins, MoveFails(a) \/ CopyFails(a) \/ Copy(a)
  PROVE  PoolInv'
<1>1. admin[a] \in AnOrder /\ admin[a] # Idle /\ admin[a].new \in Names /\ {"copy", "retry", "remove"} \subseteq AdminSteps
  BY Steps DEF MoveFails, CopyFails, Copy, At, AdminSteps, AnOrder
<1>2. UNCHANGED <<pool, writer, sweep>>
  BY DEF MoveFails, CopyFails, Copy
<1>3. Same(a) /\ admin'[a].h = admin[a].h /\ admin'[a].new = admin[a].new
  <2>1. Goes(a, "copy") \/ Goes(a, "retry") \/ Goes(a, "remove")
    BY CopyFacts DEF MoveFails, CopyFails
  <2> QED BY <1>1, <2>1, GoesShape, SteppedFacts
<1>4. Directories'
  <2>1. CASE Copy(a)
    <3> DEFINE t == IF dir[admin[a].new] = 0 THEN made + 1 ELSE dir[admin[a].new]
    <3>1. dir' = [dir EXCEPT ![admin[a].new] = t] /\ made' = IF t > made THEN t ELSE made
      BY <2>1, CopyFacts
    <3>2. CASE dir[admin[a].new] = 0
      <4>1. dir' = [dir EXCEPT ![admin[a].new] = made + 1] /\ made' = made + 1
        BY <3>1, <3>2, PlaceTypes
      <4>2. Apart(dir') /\ \A m \in Names : dir'[m] <= made'
        BY <1>1, <4>1, Making, PlaceTypes DEF PoolInv, Directories
      <4> QED BY <1>2, <4>1, <4>2, PlaceTypes DEF PoolInv, Directories, Apart
    <3>3. CASE dir[admin[a].new] # 0
      <4>1. dir[admin[a].new] <= made /\ dir[admin[a].new] \in Nat /\ made \in Nat
        BY <1>1, PlaceTypes DEF PoolInv, Directories
      <4>2. dir' = dir /\ made' = made
        BY <1>1, <3>1, <3>3, <4>1, PlaceTypes
      <4> QED BY <1>2, <4>2, SameDirectories DEF PoolInv
    <3> QED BY <3>2, <3>3
  <2>2. CASE MoveFails(a) \/ CopyFails(a)
    BY <2>2, SameDirectories DEF MoveFails, CopyFails, PoolInv
  <2> QED BY <2>1, <2>2
<1> QED BY <1>1, <1>2, <1>3, <1>4, StillPool

LEMMA MigrateOpensKeepsPool ==
  ASSUME TypeInv, PoolInv, NEW a \in Admins, MigrateOpens(a) PROVE PoolInv'
<1>1. Same(a) /\ admin[a] \in AnOrder /\ admin[a].new \in Names
  BY MigrateOpensShape DEF AnOrder
<1>2. UNCHANGED <<writer, sweep>>
  BY DEF MigrateOpens
<1>3. CASE CanOpen(admin[a].new)
  <2> DEFINE n == admin[a].new
  <2>1. OpenPath(n) /\ admin'[a] = [admin[a] EXCEPT !.step = "read", !.h = Opened(n)]
    BY <1>3, MigrateOpensShape
  <2>2. Opens(n)
    BY <1>3, <2>1 DEF OpenPath, Opens
  <2>3. Directories' /\ Grows /\ pool'[n] = Opened(n)
    BY <1>1, <2>2, OpensFacts DEF PoolInv, Grows
  <2>4. admin'[a].h = Opened(n) /\ admin'[a].new = n
    <3>1. \A h : [admin[a] EXCEPT !.step = "read", !.h = h].h = h /\ [admin[a] EXCEPT !.step = "read", !.h = h].new = n
      BY <1>1 DEF AnOrder
    <3> QED BY <2>1, <3>1
  <2>5. OrderHandles'
    BY <1>1, <2>3, <2>4, SameLessens, OrderHandlesStay DEF PoolInv
  <2>6. WriterHandles'
    BY <1>2, <2>3, WriterHandlesStay DEF PoolInv
  <2>7. SweepHandle'
    BY <1>2, <2>3, SweepFacts DEF PoolInv, SweepHandle, Grows, ASweep
  <2> QED BY <2>3, <2>5, <2>6, <2>7 DEF PoolInv
<1>4. CASE ~CanOpen(admin[a].new)
  <2>1. admin'[a] = Idle /\ UNCHANGED <<dir, pool, made>>
    BY <1>4, MigrateOpensShape
  <2> QED BY <1>1, <1>2, <2>1, SameDirectories, StillPool DEF PoolInv
<1> QED BY <1>3, <1>4

LEMMA MigratingKeepsPool ==
  ASSUME TypeInv, OrderInv, PoolInv, NEW a \in Admins,
         MigrateReads(a) \/ MigrateWrites(a) \/ MigrateDeletes(a) \/ MigrateFails(a) \/ Succeed(a)
  PROVE  PoolInv'
<1>1. UNCHANGED <<dir, pool, made, writer, sweep>>
  BY DEF MigrateReads, MigrateWrites, MigrateDeletes, MigrateFails, Succeed
<1>2. Directories'
  BY <1>1, SameDirectories DEF PoolInv
<1>3. CASE MigrateFails(a) \/ Succeed(a)
  <2>1. Same(a) /\ admin'[a] = Idle
    BY <1>3, FailsShape DEF MigrateFails, Succeed
  <2> QED BY <1>1, <1>2, <2>1, StillPool
<1>4. CASE MigrateReads(a) \/ MigrateWrites(a) \/ MigrateDeletes(a)
  <2>1. admin[a] \in AnOrder /\ admin[a] # Idle
    <3>1. Working(a, "read") \/ Working(a, "write") \/ Working(a, "delete")
      BY <1>4 DEF MigrateReads, MigrateWrites, MigrateDeletes
    <3> QED BY <3>1, WorkingFacts DEF Touching
  <2>2. Same(a) /\ admin'[a].h = admin[a].h /\ admin'[a].new = admin[a].new
    <3>1. CASE MigrateReads(a)
      <4> DEFINE f == keys[admin[a].h][admin[a].kind][admin[a].old]
      <4>1. Same(a) /\ admin'[a] = [admin[a] EXCEPT !.step = "write", !.pairs = f]
        BY <3>1, MigrateReadsTypes DEF Same
      <4> HIDE DEF f
      <4> QED BY <2>1, <4>1 DEF AnOrder
    <3>2. CASE MigrateWrites(a)
      <4>1. Goes(a, "delete") /\ "delete" \in AdminSteps
        BY <3>2 DEF MigrateWrites, AdminSteps
      <4> QED BY <2>1, <4>1, GoesShape, SteppedFacts
    <3>3. CASE MigrateDeletes(a)
      <4>1. admin[a].kind \in {"d", "s"}
        <5>1. Working(a, "delete") /\ "delete" \in Touching
          BY <3>3 DEF MigrateDeletes, Touching
        <5> QED BY <5>1, WorkingFacts
      <4>2. /\ Same(a)
            /\ \/ admin'[a] = [admin[a] EXCEPT !.step = "read", !.kind = "s", !.pairs = <<>>]
               \/ admin'[a] = [admin[a] EXCEPT !.step = "meta", !.kind = None, !.pairs = <<>>]
        BY <3>3, <4>1, MigrateDeletesFacts DEF Same
      <4> QED BY <2>1, <4>2 DEF AnOrder
    <3> QED BY <1>4, <3>1, <3>2, <3>3
  <2> QED BY <1>1, <1>2, <2>1, <2>2, StillPool
<1> QED BY <1>3, <1>4

LEMMA SweepKeepsPool ==
  ASSUME TypeInv, PoolInv, (\E n \in Names : SweepPicks(n)) \/ SweepChecks \/ SweepPurges \/ SweepRebuilds
  PROVE  PoolInv'
<1>1. UNCHANGED <<admin, writer>>
  BY DEF SweepPicks, SweepChecks, SweepPurges, SweepRebuilds
<1>2. CASE SweepChecks /\ CanOpen(sweep.name)
  <2> DEFINE n == sweep.name
  <2>1. sweep \in ASweep /\ n \in Names
    BY <1>2, SweepFacts DEF SweepChecks, ASweep, Idle
  <2>2. Opens(n)
    BY <1>2 DEF SweepChecks, OpenPath, Opens
  <2>3. Directories' /\ Grows /\ pool'[n] = Opened(n)
    BY <2>1, <2>2, OpensFacts DEF PoolInv, Grows
  <2>4. sweep' = Idle \/ (sweep'.h = Opened(n) /\ sweep'.name = n)
    <3> DEFINE bad == Bad(Opened(n), KeyName(n))
               o == Opened(n)
    <3>1. sweep' = Idle \/ sweep' = [sweep EXCEPT !.step = "purge", !.h = o, !.bad = bad]
      BY <1>2 DEF SweepChecks
    <3> HIDE DEF bad, o
    <3>2. sweep' = Idle \/ (sweep'.h = o /\ sweep'.name = sweep.name)
      BY <2>1, <3>1 DEF ASweep
    <3> QED BY <3>2 DEF o
  <2>5. SweepHandle'
    BY <2>3, <2>4, SweepHandleStays DEF PoolInv
  <2>6. WriterHandles'
    BY <1>1, <2>3, WriterHandlesStay DEF PoolInv
  <2>7. OrderHandles'
    BY <1>1, <2>3, OrderFacts DEF PoolInv, OrderHandles, Grows, Busy, AnOrder
  <2> QED BY <2>3, <2>5, <2>6, <2>7 DEF PoolInv
<1>3. CASE ~(SweepChecks /\ CanOpen(sweep.name))
  <2>1. UNCHANGED <<dir, pool, made>>
    BY <1>3 DEF SweepPicks, SweepChecks, SweepPurges, SweepRebuilds
  <2>2. sweep' = Idle \/ sweep'.h = 0 \/ (sweep # Idle /\ sweep'.h = sweep.h /\ sweep'.name = sweep.name)
    <3>1. CASE \E n \in Names : SweepPicks(n)
      BY <3>1 DEF SweepPicks
    <3>2. CASE SweepChecks
      BY <1>3, <3>2 DEF SweepChecks
    <3>3. CASE SweepPurges \/ SweepRebuilds
      <4>1. sweep \in ASweep /\ sweep # Idle
        BY <3>3, SweepFacts DEF SweepPurges, SweepRebuilds, ASweep, Idle
      <4>2. sweep' \in {Idle, sweep, [sweep EXCEPT !.step = "unindex"], [sweep EXCEPT !.step = "index"]}
        BY <3>3 DEF SweepPurges, SweepRebuilds
      <4> QED BY <4>1, <4>2 DEF ASweep
    <3> QED BY <1>3, <3>1, <3>2, <3>3
  <2>3. Grows
    BY <2>1 DEF Grows
  <2>4. SweepHandle'
    BY <2>2, <2>3, SweepHandleStays DEF PoolInv
  <2>5. Directories'
    BY <2>1, SameDirectories DEF PoolInv
  <2> QED BY <1>1, <2>1, <2>4, <2>5 DEF PoolInv, WriterHandles, OrderHandles, Busy
<1> QED BY <1>2, <1>3

LEMMA CrashKeepsPool ==
  ASSUME TypeInv, PoolInv, CrashAndRecover PROVE PoolInv'
<1>1. Apart(dir) /\ \A n \in Names : dir[n] <= made
  BY DEF PoolInv, Directories
<1>2. /\ TypeInv' /\ Apart(dir)'
      /\ \A n \in Names : dir'[n] <= made' /\ pool'[n] \in {0, dir'[n]}
  BY <1>1, CrashFacts
<1>3. \A m, n \in Names : pool'[m] # 0 /\ pool'[m] = pool'[n] => m = n
  BY <1>2 DEF Apart
<1>4. \A n \in Names : pool'[n] <= made'
  <2>1. made' \in Nat /\ 0 <= made'
    BY <1>2 DEF TypeInv
  <2> QED BY <1>2, <2>1
<1>5. Directories'
  BY <1>2, <1>3, <1>4 DEF Directories, Apart
<1>6. WriterHandles' /\ OrderHandles' /\ SweepHandle'
  BY DEF CrashAndRecover, WriterHandles, OrderHandles, SweepHandle, Busy, Idle
<1> QED BY <1>5, <1>6 DEF PoolInv

-----------------------------------------------------------------------------
(* The steps of an order *)

(* The fields of an order that a step leaves alone.                        *)
Alike(q, p) == q.op = p.op /\ q.old = p.old /\ q.new = p.new
Likewise(q, p) == Alike(q, p) /\ q.kind = p.kind /\ q.h = p.h /\ q.docs = p.docs

LEMMA LockFields ==
  ASSUME TypeInv, NEW a \in Admins, Lock(a), admin'[a] # Idle
  PROVE  LET p == admin[a]
             q == admin'[a]
         IN /\ Alike(q, p) /\ q.kind = p.kind /\ q.h = p.h /\ q.step = "close"
            /\ q.docs = IF dir[p.old] = 0 THEN {} ELSE DocsUnder(p.old)
<1> DEFINE D == IF dir[admin[a].old] = 0 THEN {} ELSE DocsUnder(admin[a].old)
<1>1. admin[a] \in AnOrder /\ admin'[a] = [admin[a] EXCEPT !.step = "close", !.docs = D]
  BY LockShape
<1> HIDE DEF D
<1>2. LET p == admin[a]
          q == admin'[a]
      IN Alike(q, p) /\ q.kind = p.kind /\ q.h = p.h /\ q.step = "close" /\ q.docs = D
  BY <1>1 DEF AnOrder, Alike
<1> QED BY <1>2 DEF D

LEMMA RetryFields ==
  ASSUME TypeInv, NEW a \in Admins, Retry(a), admin'[a] # Idle
  PROVE  Likewise(admin'[a], admin[a]) /\ admin'[a].step = "copy"
<1>1. admin[a] \in AnOrder /\ admin'[a] = [admin[a] EXCEPT !.step = "copy", !.tries = admin[a].tries + 1]
  BY RetryShape
<1> QED BY <1>1 DEF AnOrder, Alike, Likewise

LEMMA OpensFields ==
  ASSUME TypeInv, NEW a \in Admins, MigrateOpens(a), CanOpen(admin[a].new)
  PROVE  LET p == admin[a]
             q == admin'[a]
         IN Alike(q, p) /\ q.kind = p.kind /\ q.docs = p.docs /\ q.step = "read" /\ q.h = Opened(p.new)
<1> DEFINE h == Opened(admin[a].new)
<1>1. admin[a] \in AnOrder /\ admin'[a] = [admin[a] EXCEPT !.step = "read", !.h = h]
  BY MigrateOpensShape
<1> HIDE DEF h
<1>2. LET p == admin[a]
          q == admin'[a]
      IN Alike(q, p) /\ q.kind = p.kind /\ q.docs = p.docs /\ q.step = "read" /\ q.h = h
  BY <1>1 DEF AnOrder, Alike
<1> QED BY <1>2 DEF h

LEMMA ReadsFields ==
  ASSUME TypeInv, OrderInv, NEW a \in Admins, MigrateReads(a)
  PROVE  LET p == admin[a]
             q == admin'[a]
         IN /\ Likewise(q, p) /\ q.step = "write" /\ q.pairs = keys[p.h][p.kind][p.old]
            /\ Same(a) /\ p.step = "read" /\ p \in AnOrder
<1> DEFINE f == keys[admin[a].h][admin[a].kind][admin[a].old]
<1>1. Same(a) /\ admin'[a] = [admin[a] EXCEPT !.step = "write", !.pairs = f]
  BY MigrateReadsTypes DEF Same
<1>2. admin[a] \in AnOrder /\ admin[a].step = "read"
  BY Steps DEF MigrateReads, Working, At, AdminSteps
<1> HIDE DEF f
<1>3. LET p == admin[a]
          q == admin'[a]
      IN Likewise(q, p) /\ q.step = "write" /\ q.pairs = f
  BY <1>1, <1>2 DEF AnOrder, Alike, Likewise
<1> QED BY <1>1, <1>2, <1>3 DEF f

LEMMA DeletesFields ==
  ASSUME TypeInv, OrderInv, NEW a \in Admins, MigrateDeletes(a)
  PROVE  LET p == admin[a]
             q == admin'[a]
         IN /\ Alike(q, p) /\ q.h = p.h /\ q.docs = p.docs /\ Same(a)
            /\ p \in AnOrder /\ p.step = "delete" /\ p.kind \in {"d", "s"}
            /\ p.kind = "d" => q.step = "read" /\ q.kind = "s"
            /\ p.kind = "s" => q.step = "meta" /\ q.kind = None
<1>1. Working(a, "delete") /\ "delete" \in Touching
  BY DEF MigrateDeletes, Touching
<1>2. admin[a] \in AnOrder /\ admin[a].step = "delete" /\ admin[a].kind \in {"d", "s"}
  BY <1>1, WorkingFacts DEF Working, At
<1>3. /\ Same(a)
      /\ admin[a].kind = "d" => admin'[a] = [admin[a] EXCEPT !.step = "read", !.kind = "s", !.pairs = <<>>]
      /\ admin[a].kind = "s" => admin'[a] = [admin[a] EXCEPT !.step = "meta", !.kind = None, !.pairs = <<>>]
  BY MigrateDeletesFacts DEF Same
<1>4. CASE admin[a].kind = "d"
  <2>1. admin'[a] = [admin[a] EXCEPT !.step = "read", !.kind = "s", !.pairs = <<>>]
    BY <1>3, <1>4
  <2> QED BY <1>2, <1>3, <1>4, <2>1 DEF AnOrder, Alike
<1>5. CASE admin[a].kind = "s"
  <2>1. admin'[a] = [admin[a] EXCEPT !.step = "meta", !.kind = None, !.pairs = <<>>]
    BY <1>3, <1>5
  <2> QED BY <1>2, <1>3, <1>5, <2>1 DEF AnOrder, Alike
<1> QED BY <1>2, <1>4, <1>5

LEMMA GoesFields ==
  ASSUME TypeInv, NEW a \in Admins, admin[a] # Idle, NEW x \in AdminSteps, Goes(a, x)
  PROVE  Same(a) /\ Likewise(admin'[a], admin[a]) /\ admin'[a].step = x /\ admin'[a].pairs = admin[a].pairs
         /\ admin'[a] # Idle
<1>1. Same(a) /\ admin'[a] = Stepped(admin[a], x) /\ admin[a] \in AnOrder
  BY GoesShape, OrderFacts
<1>2. admin'[a] \in AnOrder
  BY <1>1, SteppedFacts
<1>3. admin'[a] # Idle
  BY <1>2 DEF AnOrder, Idle, AdminSteps
<1> QED BY <1>1, <1>3, SteppedFacts DEF Likewise, Alike

-----------------------------------------------------------------------------
(* The steps of an order, its beginning apart.                             *)
Acts(a) ==
  \/ Lock(a) \/ CloseHandles(a) \/ Drop(a) \/ Move(a) \/ MoveFails(a)
  \/ Copy(a) \/ CopyFails(a) \/ Retry(a) \/ RemoveSource(a)
  \/ MigrateOpens(a) \/ MigrateReads(a) \/ MigrateWrites(a) \/ MigrateDeletes(a)
  \/ MigrateFails(a) \/ Succeed(a)

LEMMA ActsFacts ==
  ASSUME TypeInv, OrderInv, NEW a \in Admins, Acts(a)
  PROVE  /\ admin[a] \in AnOrder /\ Busy(a)
         /\ \A b \in Admins \ {a} : Lessens(b)
         /\ admin'[a] = Idle \/ Alike(admin'[a], admin[a])
<1>1. admin[a] \in AnOrder /\ Busy(a) /\ admin[a] # Idle
  <2>1. admin[a].step # "idle"
    BY DEF Acts, Lock, CloseHandles, Drop, Move, MoveFails, Copy, CopyFails, Retry, RemoveSource, MigrateOpens,
           MigrateReads, MigrateWrites, MigrateDeletes, MigrateFails, Succeed, Working, At
  <2> QED BY <2>1, OrderFacts DEF Busy
<1>2. CASE Lock(a)
  <2>1. admin'[a] # Idle => Alike(admin'[a], admin[a])
    BY <1>2, LockFields
  <2>2. Same(a)
    BY <1>2, LockShape
  <2> QED BY <1>1, <2>1, <2>2, SameLessens
<1>3. CASE CloseHandles(a)
  <2>1. admin'[a] = Stepped(admin[a], "drop") \/ admin'[a] = Stepped(admin[a], "move")
    BY <1>3, CloseHandlesShape
  <2>2. {"drop", "move"} \subseteq AdminSteps
    BY DEF AdminSteps
  <2>3. Alike(admin'[a], admin[a])
    BY <1>1, <2>1, <2>2, SteppedFacts DEF Alike
  <2> QED BY <1>1, <1>3, <2>3, CloseHandlesShape
<1>4. CASE Drop(a) \/ MigrateFails(a) \/ Succeed(a)
  BY <1>1, <1>4, FailsShape, SameLessens DEF Drop, MigrateFails, Succeed
<1>5. CASE Retry(a)
  BY <1>1, <1>5, RetryShape, RetryFields, SameLessens DEF Likewise
<1>6. CASE Move(a) \/ MoveFails(a) \/ Copy(a) \/ CopyFails(a) \/ RemoveSource(a) \/ MigrateWrites(a)
  <2>1. Goes(a, "copy") \/ Goes(a, "retry") \/ Goes(a, "remove") \/ Goes(a, "open") \/ Goes(a, "meta") \/ Goes(a, "delete")
    BY <1>6, CopyFacts DEF Move, MoveFails, CopyFails, RemoveSource, MigrateWrites, AfterMove
  <2>2. {"copy", "retry", "remove", "open", "meta", "delete"} \subseteq AdminSteps
    BY DEF AdminSteps
  <2> QED BY <1>1, <2>1, <2>2, GoesFields, SameLessens DEF Likewise
<1>7. CASE MigrateOpens(a)
  BY <1>1, <1>7, MigrateOpensShape, OpensFields, SameLessens
<1>8. CASE MigrateReads(a)
  BY <1>1, <1>8, ReadsFields, SameLessens DEF Likewise
<1>9. CASE MigrateDeletes(a)
  BY <1>1, <1>9, DeletesFields, SameLessens
<1> QED BY <1>2, <1>3, <1>4, <1>5, <1>6, <1>7, <1>8, <1>9 DEF Acts

LEMMA TouchesFewer ==
  ASSUME TypeInv, NEW a \in Admins, \A b \in Admins \ {a} : Lessens(b), Busy(a),
         admin'[a] = Idle \/ Alike(admin'[a], admin[a]), NEW b \in Admins, NEW n, Touches(b, n)'
  PROVE  Touches(b, n)
<1>1. CASE b = a
  BY <1>1 DEF Touches, Alike, Idle, Busy
<1>2. CASE b # a /\ admin'[b] = admin[b]
  BY <1>2 DEF Touches
<1>3. CASE b # a /\ admin[b] # Idle /\ admin'[b] = [admin[b] EXCEPT !.h = 0]
  <2>1. admin[b] \in AnOrder /\ admin[b].step # "idle"
    BY <1>3, OrderFacts
  <2> QED BY <1>3, <2>1 DEF Touches, AnOrder
<1> QED BY <1>1, <1>2, <1>3 DEF Lessens

-----------------------------------------------------------------------------
(* What keys, orders and requests know is committed *)

(* A store that no directory was made for is empty.                        *)
FreshInv == \A s \in Stores, x \in {"d", "s"}, m \in KeyNames, i \in Ids : s > made => keys[s][x][m][i] = 0
(* Keys hold what was committed, and so do the pairs and documents an      *)
(* order remembers.                                                        *)
KeysKnown == \A s \in Stores, x \in {"d", "s"}, m \in KeyNames, i \in Ids : keys[s][x][m][i] \in Committed \cup {0}
OrdersKnown == \A a \in Admins : Busy(a) =>
  /\ admin[a].step \in {"write", "delete"} => \A i \in Ids : admin[a].pairs[i] \in Committed \cup {0}
  /\ \A doc \in admin[a].docs : doc.v \in Committed
MovedKnown == \A doc \in moved.docs : doc.v \in Committed
LogInv == Committed \subseteq 1 .. Len(form) /\ kept \subseteq Committed
(* A request that is about to commit brings a version nobody has           *)
(* committed.                                                              *)
WritersInv ==
  \A w \in Writers : writer[w] # Idle =>
    /\ writer[w].v \in 1 .. Len(form) /\ writer[w].v \notin Committed
    /\ writer[w].clean => Undisturbed(writer[w].name)
    /\ \A q \in Writers \ {w} : writer[q] # Idle => writer[q].v # writer[w].v
KnownInv == KeysKnown /\ OrdersKnown /\ MovedKnown /\ LogInv /\ WritersInv

LEMMA CommittedFacts ==
  /\ UNCHANGED log => Committed' = Committed
  /\ TypeInv => \A w \in Writers : Commit(w) => Committed' = Committed \cup {writer[w].v}
<1>1. UNCHANGED log => Committed' = Committed
  BY DEF Committed
<1>2. ASSUME TypeInv, NEW w \in Writers, Commit(w) PROVE Committed' = Committed \cup {writer[w].v}
  <2> DEFINE R == [name : Names, id : Ids, v : Nat]
             r == [name |-> writer[w].name, id |-> writer[w].id, v |-> writer[w].v]
  <2>1. log' = Append(log, r) /\ r.v = writer[w].v
    BY <1>2 DEF Commit
  <2>2. log \in Seq(R)
    BY <1>2 DEF TypeInv
  <2> HIDE DEF R, r
  <2>3. /\ DOMAIN log = 1 .. Len(log) /\ Len(log) \in Nat
        /\ DOMAIN log' = 1 .. (Len(log) + 1)
        /\ \A j \in 1 .. Len(log) : log'[j] = log[j]
        /\ log'[Len(log) + 1] = r
    BY <2>1, <2>2
  <2>4. \A v : v \in Committed' <=> v \in Committed \cup {r.v}
    <3>1. ASSUME NEW v, v \in Committed' PROVE v \in Committed \cup {r.v}
      <4>1. PICK j \in 1 .. (Len(log) + 1) : v = log'[j].v
        BY <2>3, <3>1 DEF Committed
      <4>2. CASE j = Len(log) + 1
        BY <2>3, <4>1, <4>2
      <4>3. CASE j # Len(log) + 1
        <5>1. j \in 1 .. Len(log)
          BY <2>3, <4>1, <4>3
        <5> QED BY <2>3, <4>1, <5>1 DEF Committed
      <4> QED BY <4>2, <4>3
    <3>2. ASSUME NEW v, v \in Committed PROVE v \in Committed'
      <4>1. PICK j \in 1 .. Len(log) : v = log[j].v
        BY <2>3, <3>2 DEF Committed
      <4>2. j \in DOMAIN log' /\ log'[j].v = v
        BY <2>3, <4>1
      <4> QED BY <4>2 DEF Committed
    <3>3. r.v \in Committed'
      <4>1. Len(log) + 1 \in DOMAIN log'
        BY <2>3
      <4> QED BY <2>3, <4>1 DEF Committed
    <3> QED BY <3>1, <3>2, <3>3
  <2> QED BY <2>1, <2>4
<1> QED BY <1>1, <1>2

LEMMA KeysStay ==
  ASSUME TypeInv, KeysKnown, FreshInv, made \in Nat, made' \in Nat, made <= made', Committed \subseteq Committed',
         \A s \in Stores, x \in {"d", "s"}, m \in KeyNames, i \in Ids :
            \/ keys'[s][x][m][i] = keys[s][x][m][i]
            \/ s <= made' /\ keys'[s][x][m][i] \in Committed' \cup {0}
  PROVE  KeysKnown' /\ FreshInv'
<1>1. ASSUME NEW s \in Stores, NEW x \in {"d", "s"}, NEW m \in KeyNames, NEW i \in Ids
      PROVE  keys'[s][x][m][i] \in Committed' \cup {0} /\ (s > made' => keys'[s][x][m][i] = 0)
  <2>1. CASE keys'[s][x][m][i] = keys[s][x][m][i]
    <3>1. s \in Nat
      BY Numbers
    <3>2. s > made' => s > made
      BY <3>1
    <3> QED BY <2>1, <3>2 DEF KeysKnown, FreshInv
  <2>2. CASE s <= made' /\ keys'[s][x][m][i] \in Committed' \cup {0}
    <3>1. s \in Nat
      BY Numbers
    <3> QED BY <2>2, <3>1
  <2> QED BY <2>1, <2>2
<1> QED BY <1>1 DEF KeysKnown, FreshInv

LEMMA HandleBounds ==
  ASSUME TypeInv, PoolInv
  PROVE  /\ \A w \in Writers : writer[w] # Idle => writer[w].h <= made
         /\ \A a \in Admins : Busy(a) => admin[a].h <= made
         /\ sweep # Idle => sweep.h <= made
<1>1. made \in Nat /\ \A n \in Names : pool[n] <= made
  BY PlaceTypes DEF PoolInv, Directories
<1>2. ASSUME NEW w \in Writers, writer[w] # Idle PROVE writer[w].h <= made
  BY <1>1, <1>2, WriterFacts DEF PoolInv, WriterHandles, AWriter
<1>3. ASSUME NEW a \in Admins, Busy(a) PROVE admin[a].h <= made
  BY <1>1, <1>3, OrderFacts DEF PoolInv, OrderHandles, AnOrder, Busy
<1>4. ASSUME sweep # Idle PROVE sweep.h <= made
  BY <1>1, <1>4, SweepFacts DEF PoolInv, SweepHandle, ASweep
<1> QED BY <1>2, <1>3, <1>4

LEMMA MadeGrows ==
  ASSUME TypeInv, PoolInv, RenameNext
  PROVE  made \in Nat /\ made' \in Nat /\ made <= made'
<1>1. made \in Nat
  BY PlaceTypes
<1>2. ASSUME NEW n \in Names, Create(n) PROVE made' = made + 1
  BY <1>2 DEF Create
<1>3. ASSUME NEW n \in Names, Opens(n) PROVE made' \in Nat /\ made <= made'
  BY <1>3, OpensFacts DEF PoolInv
<1>4. ASSUME NEW w \in Writers, NEW n \in Names, NEW i \in Ids, NEW kind \in {"single", "batch"},
             NEW f \in {"plain", "packed"}, InsertBegins(w, n, i, kind, f)
      PROVE  made' \in Nat /\ made <= made'
  <2>1. Opens(n)
    BY <1>4 DEF InsertBegins, Opens
  <2> QED BY <1>3, <2>1
<1>5. ASSUME SweepChecks PROVE made' \in Nat /\ made <= made'
  <2>1. sweep.name \in Names
    BY <1>5, SweepFacts DEF SweepChecks, ASweep, Idle
  <2>2. CASE CanOpen(sweep.name)
    <3>1. Opens(sweep.name)
      BY <1>5, <2>2 DEF SweepChecks, Opens, OpenPath
    <3> QED BY <1>3, <2>1, <3>1
  <2>3. CASE ~CanOpen(sweep.name)
    BY <1>1, <1>5, <2>3 DEF SweepChecks
  <2> QED BY <2>2, <2>3
<1>6. ASSUME NEW a \in Admins, MigrateOpens(a) PROVE made' \in Nat /\ made <= made'
  <2>1. admin[a].new \in Names
    BY <1>6, MigrateOpensShape DEF AnOrder
  <2>2. CASE CanOpen(admin[a].new)
    <3>1. Opens(admin[a].new)
      BY <1>6, <2>2 DEF MigrateOpens, Opens, OpenPath
    <3> QED BY <1>3, <2>1, <3>1
  <2>3. CASE ~CanOpen(admin[a].new)
    BY <1>1, <1>6, <2>3 DEF MigrateOpens
  <2> QED BY <2>2, <2>3
<1>7. ASSUME NEW a \in Admins, Copy(a) PROVE made' \in Nat /\ made <= made'
  <2> DEFINE t == IF dir[admin[a].new] = 0 THEN made + 1 ELSE dir[admin[a].new]
  <2>1. t \in Stores /\ made' = IF t > made THEN t ELSE made
    BY <1>7, CopyFacts
  <2>2. t \in Nat
    BY <2>1, Numbers
  <2> HIDE DEF t
  <2> QED BY <1>1, <2>1, <2>2
<1>8. ASSUME CrashAndRecover PROVE made' \in Nat /\ made <= made'
  <2>1. TypeInv' /\ \A n \in Names : made <= made'
    BY <1>8, CrashFacts DEF PoolInv, Directories
  <2>2. made' \in Nat
    BY <2>1 DEF TypeInv
  <2>3. made <= made'
    <3>1. PICK new \in [{n \in Names: Missing(n) /\ Logged(n) # {}} -> (made + 1)..MaxStores] :
             made' = made + Cardinality(DOMAIN new)
      BY <1>8, Zenon DEF CrashAndRecover
    <3>2. IsFiniteSet(DOMAIN new)
      BY RenameAssumption, FS_Subset
    <3>3. Cardinality(DOMAIN new) \in Nat
      BY <3>2, FS_CardinalityType
    <3> QED BY <1>1, <3>1, <3>3
  <2> QED BY <2>2, <2>3
<1>9. CASE UNCHANGED made
  BY <1>1, <1>9
<1>10. ASSUME NEW a \in Admins,
         \/ \E op \in {"rename", "drop"}, old, new \in Names : Order(a, op, old, new)
         \/ Lock(a) \/ CloseHandles(a) \/ Drop(a) \/ Move(a) \/ MoveFails(a) \/ CopyFails(a) \/ Retry(a)
         \/ RemoveSource(a) \/ MigrateReads(a) \/ MigrateWrites(a) \/ MigrateDeletes(a)
         \/ MigrateFails(a) \/ Succeed(a)
       PROVE UNCHANGED made
  BY <1>10 DEF Order, Lock, CloseHandles, Drop, Move, MoveFails, CopyFails, Retry, RemoveSource, MigrateReads,
               MigrateWrites, MigrateDeletes, MigrateFails, Succeed
<1>11. (\E n \in Names : SweepPicks(n)) \/ (\E w \in Writers : Commit(w)) \/ SweepPurges \/ SweepRebuilds
         => UNCHANGED made
  BY DEF SweepPicks, Commit, SweepPurges, SweepRebuilds
<1> QED BY <1>1, <1>2, <1>4, <1>5, <1>6, <1>7, <1>8, <1>10, <1>11 DEF RenameNext

LEMMA KeysStep ==
  ASSUME TypeInv, OrderInv, PoolInv, FreshInv, KnownInv, RenameNext
  PROVE  KeysKnown' /\ FreshInv'
<1>1. made \in Nat /\ made' \in Nat /\ made <= made' /\ KeysKnown
  BY MadeGrows DEF KnownInv
<1>2. ASSUME NEW w \in Writers, Commit(w), writer[w].h # 0 PROVE KeysKnown' /\ FreshInv'
  <2>1. Committed' = Committed \cup {writer[w].v}
    BY <1>2, CommittedFacts
  <2>2. writer[w].h <= made /\ made' = made
    <3>1. writer[w] # Idle
      BY <1>2, WriterFacts DEF Commit, AWriter, Idle
    <3> QED BY <1>2, <3>1, HandleBounds DEF Commit
  <2>3. \A s \in Stores, x \in {"d", "s"}, m \in KeyNames, i \in Ids :
            keys'[s][x][m][i] = keys[s][x][m][i] \/ (s = writer[w].h /\ keys'[s][x][m][i] = writer[w].v)
    BY <1>2, CommitKeys
  <2> QED BY <1>1, <2>1, <2>2, <2>3, KeysStay
<1>3. ASSUME NEW a \in Admins, Copy(a) PROVE KeysKnown' /\ FreshInv'
  <2> DEFINE s == dir[admin[a].old]
             t == IF dir[admin[a].new] = 0 THEN made + 1 ELSE dir[admin[a].new]
  <2>1. /\ s \in Stores /\ t \in Stores /\ made' = IF t > made THEN t ELSE made
        /\ \A u \in Stores : u # t => keys'[u] = keys[u]
        /\ keys'[t] = keys[s] \/ keys'[t] = NoKeys \/ keys'[t] = keys[t]
    BY <1>3, CopyFacts
  <2>2. Committed' = Committed
    BY <1>3, CommittedFacts DEF Copy
  <2> HIDE DEF s, t
  <2>3. t <= made'
    BY <1>1, <2>1, Numbers
  <2>4. \A x \in {"d", "s"}, m \in KeyNames, i \in Ids : NoKeys[x][m][i] = 0 /\ keys[s][x][m][i] \in Committed \cup {0}
    BY <1>1, <2>1 DEF NoKeys, KeysKnown
  <2>5. \A u \in Stores, x \in {"d", "s"}, m \in KeyNames, i \in Ids :
            keys'[u][x][m][i] = keys[u][x][m][i] \/ (u = t /\ keys'[u][x][m][i] \in Committed \cup {0})
    BY <2>1, <2>4
  <2> QED BY <1>1, <2>2, <2>3, <2>5, KeysStay
<1>4. ASSUME NEW a \in Admins, MigrateWrites(a) PROVE KeysKnown' /\ FreshInv'
  <2>1. admin[a].step = "write" /\ Busy(a)
    BY <1>4 DEF MigrateWrites, Working, At, Busy
  <2>2. \A i \in Ids : admin[a].pairs[i] \in Committed \cup {0}
    BY <2>1 DEF KnownInv, OrdersKnown
  <2>3. Committed' = Committed /\ made' = made /\ admin[a].h <= made
    BY <1>4, <2>1, CommittedFacts, HandleBounds DEF MigrateWrites
  <2>4. \A t \in Stores, x \in {"d", "s"}, m \in KeyNames, j \in Ids :
           keys'[t][x][m][j] = keys[t][x][m][j] \/ (t = admin[a].h /\ keys'[t][x][m][j] = admin[a].pairs[j])
    BY <1>4, MigrateWritesFacts
  <2> QED BY <1>1, <2>2, <2>3, <2>4, KeysStay
<1>5. ASSUME NEW a \in Admins, MigrateDeletes(a) PROVE KeysKnown' /\ FreshInv'
  <2>1. Busy(a)
    BY <1>5 DEF MigrateDeletes, Working, At, Busy
  <2>2. Committed' = Committed /\ made' = made /\ admin[a].h <= made
    BY <1>5, <2>1, CommittedFacts, HandleBounds DEF MigrateDeletes
  <2>3. \A t \in Stores, x \in {"d", "s"}, m \in KeyNames, j \in Ids :
           keys'[t][x][m][j] = keys[t][x][m][j] \/ (t = admin[a].h /\ keys'[t][x][m][j] = 0)
    <3>1. \A t \in Stores, x \in {"d", "s"}, m \in KeyNames, j \in Ids :
             keys'[t][x][m][j] = IF t = admin[a].h /\ x = admin[a].kind /\ m = admin[a].old /\ admin[a].pairs[j] # 0
                                 THEN 0 ELSE keys[t][x][m][j]
      BY <1>5, MigrateDeletesFacts
    <3> QED BY <3>1
  <2> QED BY <1>1, <2>2, <2>3, KeysStay
<1>6. ASSUME SweepPurges, keys' # keys PROVE KeysKnown' /\ FreshInv'
  <2>1. sweep # Idle
    BY <1>6 DEF SweepPurges, Idle
  <2>2. Committed' = Committed /\ made' = made /\ sweep.h <= made
    BY <1>6, <2>1, CommittedFacts, HandleBounds DEF SweepPurges
  <2>3. \A t \in Stores, x \in {"d", "s"}, m \in KeyNames, j \in Ids :
           keys'[t][x][m][j] = keys[t][x][m][j] \/ (t = sweep.h /\ keys'[t][x][m][j] = 0)
    BY <1>6, PurgeFacts
  <2> QED BY <1>1, <2>2, <2>3, KeysStay
<1>7. ASSUME SweepRebuilds PROVE KeysKnown' /\ FreshInv'
  <2>1. sweep # Idle
    BY <1>7 DEF SweepRebuilds, Idle
  <2>2. Committed' = Committed /\ made' = made /\ sweep.h <= made
    BY <1>7, <2>1, CommittedFacts, HandleBounds DEF SweepRebuilds
  <2>3. ASSUME NEW t \in Stores, NEW x \in {"d", "s"}, NEW m \in KeyNames, NEW j \in Ids
        PROVE  keys'[t][x][m][j] = keys[t][x][m][j] \/ (t <= made' /\ keys'[t][x][m][j] \in Committed' \cup {0})
    <3>1. /\ keys'[t]["d"][m][j] = keys[t]["d"][m][j]
          /\ t # sweep.h => keys'[t]["s"][m][j] = keys[t]["s"][m][j]
          /\ keys'[t]["s"][m][j] \in {0, keys[t]["s"][m][j], keys[t]["d"][m][j]}
      BY <1>7, RebuildFacts
    <3>2. keys[t]["s"][m][j] \in Committed \cup {0} /\ keys[t]["d"][m][j] \in Committed \cup {0}
      BY <1>1 DEF KeysKnown
    <3>3. CASE x = "d"
      BY <3>1, <3>3
    <3>4. CASE x = "s"
      BY <2>2, <3>1, <3>2, <3>4
    <3> QED BY <3>3, <3>4
  <2> QED BY <1>1, <2>2, <2>3, KeysStay
<1>8. ASSUME CrashAndRecover PROVE KeysKnown' /\ FreshInv'
  <2>1. Committed' = Committed
    BY <1>8, CommittedFacts DEF CrashAndRecover
  <2>2. ASSUME NEW s \in Stores, NEW x \in {"d", "s"}, NEW m \in KeyNames, NEW i \in Ids
        PROVE  keys'[s][x][m][i] = keys[s][x][m][i] \/ (s <= made' /\ keys'[s][x][m][i] \in Committed' \cup {0})
    <3>1. CASE keys'[s] = keys[s]
      BY <3>1
    <3>2. CASE keys'[s] # keys[s]
      <4>1. PICK n \in Names : keys'[s] = Replayed(keys[s], n)
        BY <1>8, <3>2, CrashFacts DEF PoolInv, Directories
      <4>2. s <= made'
        <5>1. \E k \in Names : dir'[k] = s
          BY <1>8, <3>2, CrashFacts DEF PoolInv, Directories
        <5>2. \A k \in Names : dir'[k] <= made'
          BY <1>8, CrashFacts DEF PoolInv, Directories
        <5> QED BY <5>1, <5>2
      <4>3. keys[s] \in Store
        BY DEF TypeInv
      <4>4. keys'[s][x][m][i] = IF m = KeyName(n) /\ LoggedAt(n, i) # {} THEN LastOf(n, i) ELSE keys[s][x][m][i]
        BY <4>1, <4>3, ReplayedFacts
      <4>5. LoggedAt(n, i) # {} => LastOf(n, i) \in Committed
        BY LastFacts
      <4> QED BY <2>1, <4>2, <4>4, <4>5
    <3> QED BY <3>1, <3>2
  <2> QED BY <1>1, <2>1, <2>2, KeysStay
<1>9. ASSUME UNCHANGED <<keys, log>> PROVE KeysKnown' /\ FreshInv'
  <2>1. Committed' = Committed
    BY <1>9, CommittedFacts
  <2> QED BY <1>1, <1>9, <2>1, KeysStay
<1>10. ASSUME NEW w \in Writers, Commit(w), writer[w].h = 0 PROVE KeysKnown' /\ FreshInv'
  <2>1. Committed' = Committed \cup {writer[w].v}
    BY <1>10, CommittedFacts
  <2>2. keys' = keys
    BY <1>10 DEF Commit
  <2> QED BY <1>1, <2>1, <2>2, KeysStay
<1>11. ASSUME NEW a \in Admins,
         \/ \E op \in {"rename", "drop"}, old, new \in Names : Order(a, op, old, new)
         \/ Lock(a) \/ CloseHandles(a) \/ Drop(a) \/ Move(a) \/ MoveFails(a) \/ CopyFails(a) \/ Retry(a)
         \/ RemoveSource(a) \/ MigrateOpens(a) \/ MigrateReads(a) \/ MigrateFails(a) \/ Succeed(a)
       PROVE UNCHANGED <<keys, log>>
  BY <1>11 DEF Order, Lock, CloseHandles, Drop, Move, MoveFails, CopyFails, Retry, RemoveSource, MigrateOpens,
               MigrateReads, MigrateFails, Succeed
<1>12. (\E n \in Names : Create(n) \/ SweepPicks(n)) \/ SweepChecks
       \/ (\E w \in Writers, n \in Names, i \in Ids, kind \in {"single", "batch"}, f \in {"plain", "packed"} :
              InsertBegins(w, n, i, kind, f))
         => UNCHANGED <<keys, log>>
  BY DEF Create, SweepPicks, SweepChecks, InsertBegins
<1>13. SweepPurges => UNCHANGED log
  BY DEF SweepPurges
<1> QED BY <1>2, <1>3, <1>4, <1>5, <1>6, <1>7, <1>8, <1>9, <1>10, <1>11, <1>12, <1>13 DEF RenameNext

LEMMA DocsUnderFacts ==
  ASSUME TypeInv, NEW n \in Names, dir[n] # 0, NEW doc \in DocsUnder(n)
  PROVE  /\ doc.id \in Ids /\ doc.v # 0 /\ doc.v = keys[dir[n]]["d"][KeyName(n)][doc.id]
         /\ doc.indexed => keys[dir[n]]["s"][KeyName(n)][doc.id] = doc.v
         /\ dir[n] \in Stores /\ KeyName(n) \in KeyNames
<1>1. PICK i \in Ids : /\ doc = [id |-> i, v |-> keys[dir[n]]["d"][KeyName(n)][i],
                                 indexed |-> keys[dir[n]]["s"][KeyName(n)][i] = keys[dir[n]]["d"][KeyName(n)][i]]
                       /\ keys[dir[n]]["d"][KeyName(n)][i] # 0
  BY DEF DocsUnder
<1>2. dir[n] \in Stores /\ KeyName(n) \in KeyNames
  BY Numbers, PlaceTypes DEF KeyNames
<1>3. doc.id = i /\ doc.v = keys[dir[n]]["d"][KeyName(n)][i]
      /\ doc.indexed = (keys[dir[n]]["s"][KeyName(n)][i] = keys[dir[n]]["d"][KeyName(n)][i])
  BY <1>1
<1> QED BY <1>1, <1>2, <1>3

(* What an order read, and what it is about, has been committed.           *)
LEMMA ActsKnown ==
  ASSUME TypeInv, OrderInv, KnownInv, NEW a \in Admins, Acts(a) PROVE OrdersKnown' /\ MovedKnown'
<1>1. Committed' = Committed
  BY CommittedFacts DEF Acts, Lock, CloseHandles, Drop, Move, MoveFails, Copy, CopyFails, Retry, RemoveSource,
     MigrateOpens, MigrateReads, MigrateWrites, MigrateDeletes, MigrateFails, Succeed
<1>2. /\ admin[a] \in AnOrder /\ Busy(a) /\ \A b \in Admins \ {a} : Lessens(b)
      /\ \A doc \in admin[a].docs : doc.v \in Committed
  BY ActsFacts DEF KnownInv, OrdersKnown
<1>3. \A doc \in admin'[a].docs : admin'[a] # Idle => doc.v \in Committed
  <2>1. CASE Lock(a)
    <3>1. ASSUME admin'[a] # Idle, NEW doc \in admin'[a].docs PROVE doc.v \in Committed
      <4>1. dir[admin[a].old] # 0 /\ doc \in DocsUnder(admin[a].old)
        BY <2>1, <3>1, LockFields
      <4>2. /\ doc.id \in Ids /\ doc.v # 0 /\ doc.v = keys[dir[admin[a].old]]["d"][KeyName(admin[a].old)][doc.id]
            /\ dir[admin[a].old] \in Stores /\ KeyName(admin[a].old) \in KeyNames
        BY <1>2, <4>1, DocsUnderFacts DEF AnOrder
      <4>3. doc.v \in Committed \cup {0}
        BY <4>2 DEF KnownInv, KeysKnown
      <4> QED BY <4>2, <4>3
    <3> QED BY <3>1
  <2>2. CASE ~Lock(a)
    <3>1. admin'[a] = Idle \/ admin'[a].docs = admin[a].docs
      <4>1. CASE CloseHandles(a)
        <5>1. admin'[a] = Stepped(admin[a], "drop") \/ admin'[a] = Stepped(admin[a], "move")
          BY <4>1, CloseHandlesShape
        <5>2. {"drop", "move"} \subseteq AdminSteps
          BY DEF AdminSteps
        <5> QED BY <1>2, <5>1, <5>2, SteppedFacts
      <4>2. CASE Drop(a) \/ MigrateFails(a) \/ Succeed(a)
        BY <4>2, FailsShape DEF Drop, MigrateFails, Succeed
      <4>3. CASE Retry(a)
        BY <4>3, RetryFields DEF Likewise
      <4>4. CASE Move(a) \/ MoveFails(a) \/ Copy(a) \/ CopyFails(a) \/ RemoveSource(a) \/ MigrateWrites(a)
        <5>1. Goes(a, "copy") \/ Goes(a, "retry") \/ Goes(a, "remove") \/ Goes(a, "open") \/ Goes(a, "meta") \/ Goes(a, "delete")
          BY <4>4, CopyFacts DEF Move, MoveFails, CopyFails, RemoveSource, MigrateWrites, AfterMove
        <5>2. {"copy", "retry", "remove", "open", "meta", "delete"} \subseteq AdminSteps /\ admin[a] # Idle
          BY <1>2, OrderFacts DEF AdminSteps, Busy, Idle
        <5> QED BY <5>1, <5>2, GoesFields DEF Likewise
      <4>5. CASE MigrateOpens(a)
        BY <4>5, MigrateOpensShape, OpensFields
      <4>6. CASE MigrateReads(a)
        BY <4>6, ReadsFields DEF Likewise
      <4>7. CASE MigrateDeletes(a)
        BY <4>7, DeletesFields
      <4> QED BY <2>2, <4>1, <4>2, <4>3, <4>4, <4>5, <4>6, <4>7 DEF Acts
    <3> QED BY <1>2, <3>1
  <2> QED BY <2>1, <2>2
<1>4. admin'[a] # Idle /\ admin'[a].step \in {"write", "delete"} => \A i \in Ids : admin'[a].pairs[i] \in Committed \cup {0}
  <2>1. CASE MigrateReads(a)
    <3>1. admin'[a].pairs = keys[admin[a].h][admin[a].kind][admin[a].old]
      BY <2>1, ReadsFields
    <3>2. Working(a, "read") /\ "read" \in Touching
      BY <2>1 DEF MigrateReads, Touching
    <3>3. admin[a].h \in Stores /\ admin[a].kind \in {"d", "s"} /\ admin[a].old \in KeyNames
      BY <3>2, WorkingFacts
    <3> QED BY <3>1, <3>3 DEF KnownInv, KeysKnown
  <2>2. CASE MigrateWrites(a)
    <3>1. Goes(a, "delete") /\ admin[a].step = "write" /\ "delete" \in AdminSteps /\ admin[a] # Idle
      BY <1>2, <2>2, OrderFacts DEF MigrateWrites, Working, At, AdminSteps, Busy, Idle
    <3>2. admin'[a].pairs = admin[a].pairs
      BY <3>1, GoesFields
    <3> QED BY <1>2, <3>1, <3>2 DEF KnownInv, OrdersKnown
  <2>3. CASE ~MigrateReads(a) /\ ~MigrateWrites(a)
    <3>1. ASSUME admin'[a] # Idle PROVE admin'[a].step \notin {"write", "delete"}
      <4>1. CASE CloseHandles(a)
        <5>1. admin'[a] = Stepped(admin[a], "drop") \/ admin'[a] = Stepped(admin[a], "move")
          BY <4>1, CloseHandlesShape
        <5>2. {"drop", "move"} \subseteq AdminSteps
          BY DEF AdminSteps
        <5> QED BY <1>2, <5>1, <5>2, SteppedFacts
      <4>2. CASE Drop(a) \/ MigrateFails(a) \/ Succeed(a)
        BY <3>1, <4>2, FailsShape DEF Drop, MigrateFails, Succeed
      <4>3. CASE Retry(a)
        BY <3>1, <4>3, RetryFields
      <4>4. CASE Move(a) \/ MoveFails(a) \/ Copy(a) \/ CopyFails(a) \/ RemoveSource(a)
        <5>1. Goes(a, "copy") \/ Goes(a, "retry") \/ Goes(a, "remove") \/ Goes(a, "open") \/ Goes(a, "meta")
          BY <4>4, CopyFacts DEF Move, MoveFails, CopyFails, RemoveSource, AfterMove
        <5>2. {"copy", "retry", "remove", "open", "meta"} \subseteq AdminSteps /\ admin[a] # Idle
          BY <1>2, OrderFacts DEF AdminSteps, Busy, Idle
        <5> QED BY <5>1, <5>2, GoesFields
      <4>5. CASE MigrateOpens(a)
        BY <3>1, <4>5, MigrateOpensShape, OpensFields
      <4>6. CASE MigrateDeletes(a)
        BY <4>6, DeletesFields
      <4>7. CASE Lock(a)
        BY <3>1, <4>7, LockFields
      <4> QED BY <2>3, <4>1, <4>2, <4>3, <4>4, <4>5, <4>6, <4>7 DEF Acts
    <3> QED BY <3>1
  <2> QED BY <2>1, <2>2, <2>3
<1>5. OrdersKnown'
  <2>1. ASSUME NEW b \in Admins, Busy(b)'
        PROVE  /\ admin'[b].step \in {"write", "delete"} => \A i \in Ids : admin'[b].pairs[i] \in Committed \cup {0}
               /\ \A doc \in admin'[b].docs : doc.v \in Committed
    <3>0. admin'[b] # Idle
      BY <2>1 DEF Busy, Idle
    <3>1. CASE b = a
      BY <1>3, <1>4, <3>0, <3>1
    <3>2. CASE b # a /\ admin'[b] = admin[b]
      BY <2>1, <3>2 DEF KnownInv, OrdersKnown, Busy
    <3>3. CASE b # a /\ admin[b] # Idle /\ admin'[b] = [admin[b] EXCEPT !.h = 0]
      <4>1. admin[b] \in AnOrder /\ Busy(b)
        BY <3>3, OrderFacts DEF Busy
      <4>2. admin'[b].step = admin[b].step /\ admin'[b].pairs = admin[b].pairs /\ admin'[b].docs = admin[b].docs
        BY <3>3, <4>1 DEF AnOrder
      <4> QED BY <4>1, <4>2 DEF KnownInv, OrdersKnown
    <3> QED BY <1>2, <3>1, <3>2, <3>3 DEF Lessens
  <2> QED BY <1>1, <2>1 DEF OrdersKnown
<1>6. MovedKnown'
  <2>1. CASE Succeed(a)
    <3>1. moved'.docs = admin[a].docs
      BY <2>1 DEF Succeed
    <3> QED BY <1>1, <1>2, <3>1 DEF MovedKnown
  <2>2. CASE ~Succeed(a)
    <3>1. moved' = moved
      BY <2>2 DEF Acts, Lock, CloseHandles, Drop, Move, MoveFails, Copy, CopyFails, Retry, RemoveSource,
           MigrateOpens, MigrateReads, MigrateWrites, MigrateDeletes, MigrateFails, ghosts
    <3> QED BY <1>1, <3>1 DEF KnownInv, MovedKnown
  <2> QED BY <2>1, <2>2
<1> QED BY <1>5, <1>6

LEMMA OthersKnown ==
  ASSUME TypeInv, OrderInv, KnownInv, RenameNext, \A a \in Admins : ~Acts(a) PROVE OrdersKnown' /\ MovedKnown'
<1>1. Committed \subseteq Committed'
  <2>1. CASE UNCHANGED log
    BY <2>1, CommittedFacts
  <2>2. CASE \E w \in Writers : Commit(w)
    BY <2>2, CommittedFacts
  <2>3. UNCHANGED log \/ \E w \in Writers : Commit(w)
    BY DEF RenameNext, Acts, Create, SweepPicks, InsertBegins, Order, SweepChecks, SweepPurges, SweepRebuilds,
           CrashAndRecover
  <2> QED BY <2>1, <2>2, <2>3
<1>2. CASE UNCHANGED <<admin, moved>>
  BY <1>1, <1>2 DEF KnownInv, OrdersKnown, MovedKnown, Busy
<1>3. CASE CrashAndRecover
  BY <1>3 DEF CrashAndRecover, OrdersKnown, MovedKnown, Busy, Idle, NothingMoved
<1>4. ASSUME NEW a \in Admins, NEW op \in {"rename", "drop"}, NEW old \in Names,
             NEW new \in Names, Order(a, op, old, new)
      PROVE  OrdersKnown' /\ MovedKnown'
  <2>1. Same(a) /\ admin'[a] = [step |-> "lock", op |-> op, old |-> old, new |-> new, tries |-> 0, kind |-> "d",
                                pairs |-> <<>>, h |-> 0, docs |-> {}]
    BY <1>4, OrderShape
  <2>2. moved' = NothingMoved
    BY <1>4 DEF Order
  <2>3. OrdersKnown'
    BY <1>1, <2>1 DEF KnownInv, OrdersKnown, Same, Busy
  <2> QED BY <2>2, <2>3 DEF MovedKnown, NothingMoved
<1>5. \/ UNCHANGED <<admin, moved>> \/ CrashAndRecover
      \/ \E a \in Admins, op \in {"rename", "drop"}, old, new \in Names : Order(a, op, old, new)
  BY DEF RenameNext, Acts, Create, SweepPicks, InsertBegins, Commit, SweepChecks, SweepPurges, SweepRebuilds, ghosts
<1> QED BY <1>2, <1>3, <1>4, <1>5

LEMMA FormFacts ==
  ASSUME TypeInv
  PROVE  /\ Len(form) \in Nat
         /\ \A f \in {"plain", "packed"} : form' = Append(form, f) => Len(form') = Len(form) + 1
BY DEF TypeInv

LEMMA LogStep ==
  ASSUME TypeInv, LogInv, WritersInv, RenameNext PROVE LogInv'
<1>1. Len(form) \in Nat
  BY FormFacts
<1>2. ASSUME NEW w \in Writers, NEW n \in Names, NEW i \in Ids, NEW kind \in {"single", "batch"},
             NEW f \in {"plain", "packed"}, InsertBegins(w, n, i, kind, f)
      PROVE  LogInv'
  <2>1. Len(form') = Len(form) + 1
    BY <1>2, FormFacts DEF InsertBegins
  <2>2. Committed' = Committed /\ kept' = kept
    BY <1>2, CommittedFacts DEF InsertBegins, ghosts
  <2>3. 1 .. Len(form) \subseteq 1 .. Len(form')
    BY <1>1, <2>1
  <2> QED BY <2>2, <2>3 DEF LogInv
<1>3. ASSUME NEW w \in Writers, Commit(w) PROVE LogInv'
  <2>1. Committed' = Committed \cup {writer[w].v} /\ form' = form
    BY <1>3, CommittedFacts DEF Commit
  <2>2. writer[w].v \in 1 .. Len(form)
    BY <1>3, WriterFacts DEF WritersInv, Commit, AWriter, Idle
  <2>3. kept' \subseteq kept \cup {writer[w].v}
    BY <1>3 DEF Commit
  <2> QED BY <2>1, <2>2, <2>3 DEF LogInv
<1>4. ASSUME UNCHANGED <<log, form>>, kept' \subseteq kept PROVE LogInv'
  BY <1>4, CommittedFacts DEF LogInv
<1>5. \/ UNCHANGED <<log, form>> /\ kept' \subseteq kept
      \/ \E w \in Writers : Commit(w)
      \/ \E w \in Writers, n \in Names, i \in Ids, kind \in {"single", "batch"}, f \in {"plain", "packed"} :
            InsertBegins(w, n, i, kind, f)
  <2>1. ASSUME NEW a \in Admins, Acts(a) PROVE UNCHANGED <<log, form>> /\ kept' \subseteq kept
    BY <2>1 DEF Acts, Lock, CloseHandles, Drop, Move, MoveFails, Copy, CopyFails, Retry, RemoveSource, MigrateOpens,
           MigrateReads, MigrateWrites, MigrateDeletes, MigrateFails, Succeed, ghosts
  <2>2. (\E n \in Names : Create(n) \/ SweepPicks(n)) \/ SweepChecks \/ SweepPurges \/ SweepRebuilds \/ CrashAndRecover
        \/ (\E a \in Admins, op \in {"rename", "drop"}, old, new \in Names : Order(a, op, old, new))
        => UNCHANGED <<log, form>> /\ kept' \subseteq kept
    BY DEF Create, SweepPicks, SweepChecks, SweepPurges, SweepRebuilds, CrashAndRecover, Order, ghosts
  <2> QED BY <2>1, <2>2 DEF RenameNext, Acts
<1> QED BY <1>2, <1>3, <1>4, <1>5

(* What a writer's record may become without harm.                         *)
Keeps(q, p) == q = Idle \/ q = p \/ (p # Idle /\ q.v = p.v /\ q.name = p.name /\ (q.clean => p.clean))

LEMMA WritersStay ==
  ASSUME WritersInv, Committed' = Committed, form' = form,
         \A w \in Writers : Keeps(writer'[w], writer[w]),
         \A w \in Writers : writer'[w] # Idle /\ writer'[w].clean /\ Undisturbed(writer[w].name)
                              => Undisturbed(writer[w].name)'
  PROVE  WritersInv'
<1>1. ASSUME NEW w \in Writers, writer'[w] # Idle
      PROVE  /\ writer[w] # Idle /\ writer'[w].v = writer[w].v /\ writer'[w].name = writer[w].name
             /\ writer'[w].clean => writer[w].clean
  BY <1>1 DEF Keeps
<1>2. ASSUME NEW w \in Writers, writer'[w] # Idle
      PROVE  /\ writer'[w].v \in 1 .. Len(form) /\ writer'[w].v \notin Committed
             /\ writer'[w].clean => Undisturbed(writer[w].name)'
             /\ \A q \in Writers \ {w} : writer'[q] # Idle => writer'[q].v # writer'[w].v
  BY <1>1, <1>2 DEF WritersInv
<1> QED BY <1>1, <1>2 DEF WritersInv, Undisturbed, Touches

LEMMA WritersStep ==
  ASSUME TypeInv, OrderInv, LogInv, WritersInv, RenameNext PROVE WritersInv'
<1>1. ASSUME NEW w \in Writers, NEW n \in Names, NEW i \in Ids, NEW kind \in {"single", "batch"},
             NEW f \in {"plain", "packed"}, InsertBegins(w, n, i, kind, f)
      PROVE  WritersInv'
  <2>1. Len(form') = Len(form) + 1 /\ Len(form) \in Nat /\ Committed' = Committed /\ admin' = admin
    BY <1>1, FormFacts, CommittedFacts DEF InsertBegins
  <2>2. /\ writer'[w].v = Len(form) + 1 /\ writer'[w].name = n /\ writer'[w].clean = Undisturbed(n)
        /\ \A q \in Writers \ {w} : writer'[q] = writer[q]
    BY <1>1 DEF InsertBegins, TypeInv
  <2>3. Committed \subseteq 1 .. Len(form)
    BY DEF LogInv
  <2>4. ASSUME NEW q \in Writers, writer'[q] # Idle
        PROVE  /\ writer'[q].v \in 1 .. Len(form') /\ writer'[q].v \notin Committed
               /\ writer'[q].clean => Undisturbed(writer'[q].name)
               /\ \A o \in Writers \ {q} : writer'[o] # Idle => writer'[o].v # writer'[q].v
    <3>1. \A o \in Writers \ {w} : writer'[o] # Idle =>
             writer'[o].v \in 1 .. Len(form) /\ writer'[o].v # Len(form) + 1
      BY <2>1, <2>2 DEF WritersInv
    <3>2. CASE q = w
      BY <2>1, <2>2, <2>3, <3>1, <3>2
    <3>3. CASE q # w
      <4>1. writer'[q] = writer[q] /\ writer[q] # Idle
        BY <2>2, <2>4, <3>3
      <4>2. writer[q].v \in 1 .. Len(form') /\ writer[q].v # Len(form) + 1
        BY <2>1, <4>1 DEF WritersInv
      <4>3. \A o \in Writers \ {q} : writer'[o] # Idle => writer'[o].v # writer[q].v
        BY <2>2, <4>1, <4>2 DEF WritersInv
      <4> QED BY <4>1, <4>2, <4>3 DEF WritersInv
    <3> QED BY <3>2, <3>3
  <2> QED BY <2>1, <2>4 DEF WritersInv, Undisturbed, Touches
<1>2. ASSUME NEW w \in Writers, Commit(w) PROVE WritersInv'
  <2>1. Committed' = Committed \cup {writer[w].v} /\ form' = form /\ admin' = admin
    BY <1>2, CommittedFacts DEF Commit
  <2>2. writer[w] # Idle
    BY <1>2, WriterFacts DEF Commit, AWriter, Idle
  <2>3. writer'[w] = Idle /\ \A q \in Writers \ {w} : writer'[q] = writer[q]
    BY <1>2 DEF Commit, TypeInv
  <2>4. ASSUME NEW q \in Writers, writer'[q] # Idle
        PROVE  /\ writer'[q].v \in 1 .. Len(form) /\ writer'[q].v \notin Committed'
               /\ writer'[q].clean => Undisturbed(writer'[q].name)
               /\ \A o \in Writers \ {q} : writer'[o] # Idle => writer'[o].v # writer'[q].v
    BY <2>1, <2>2, <2>3, <2>4 DEF WritersInv
  <2> QED BY <2>1, <2>4 DEF WritersInv, Undisturbed, Touches
<1>3. ASSUME NEW a \in Admins, NEW op \in {"rename", "drop"}, NEW old \in Names,
             NEW new \in Names, Order(a, op, old, new)
      PROVE  WritersInv'
  <2>1. Committed' = Committed /\ form' = form
    BY <1>3, CommittedFacts DEF Order
  <2>2. ASSUME NEW w \in Writers
        PROVE  /\ Keeps(writer'[w], writer[w])
               /\ writer'[w] # Idle /\ writer'[w].clean => writer[w].name \notin {old, new}
    <3>1. writer'[w] = IF writer[w] # Idle /\ writer[w].name \in {old, new}
                       THEN [writer[w] EXCEPT !.clean = FALSE] ELSE writer[w]
      BY <1>3 DEF Order
    <3>2. CASE writer[w] # Idle /\ writer[w].name \in {old, new}
      <4>1. writer[w] \in AWriter /\ writer'[w] = [writer[w] EXCEPT !.clean = FALSE]
        BY <3>1, <3>2, WriterFacts
      <4> QED BY <3>2, <4>1 DEF AWriter, Keeps
    <3>3. CASE ~(writer[w] # Idle /\ writer[w].name \in {old, new})
      BY <3>1, <3>3 DEF Keeps
    <3> QED BY <3>2, <3>3
  <2>3. /\ \A b \in Admins \ {a} : admin'[b] = admin[b]
        /\ admin'[a].old = old /\ admin'[a].new = new
    <3>1. Same(a) /\ admin'[a] = [step |-> "lock", op |-> op, old |-> old, new |-> new, tries |-> 0, kind |-> "d",
                                pairs |-> <<>>, h |-> 0, docs |-> {}]
      BY <1>3, OrderShape
    <3> QED BY <3>1 DEF Same
  <2>4. ASSUME NEW w \in Writers, writer'[w] # Idle, writer'[w].clean, Undisturbed(writer[w].name)
        PROVE  Undisturbed(writer[w].name)'
    <3>1. writer[w].name \notin {old, new} /\ writer'[w].name = writer[w].name
      BY <2>2, <2>4 DEF Keeps
    <3> QED BY <2>3, <2>4, <3>1 DEF Undisturbed, Touches
  <2> QED BY <2>1, <2>2, <2>4, WritersStay
<1>4. ASSUME NEW a \in Admins, Acts(a) PROVE WritersInv'
  <2>1. Committed' = Committed /\ form' = form
    BY <1>4, CommittedFacts DEF Acts, Lock, CloseHandles, Drop, Move, MoveFails, Copy, CopyFails, Retry, RemoveSource,
     MigrateOpens, MigrateReads, MigrateWrites, MigrateDeletes, MigrateFails, Succeed
  <2>2. ASSUME NEW w \in Writers PROVE Keeps(writer'[w], writer[w])
    <3>1. CASE CloseHandles(a)
      <4>1. writer'[w] = Loses(writer[w], pool[admin[a].old])
        BY <3>1 DEF CloseHandles, WithoutHandle
      <4>2. writer[w] = Idle \/ writer[w] \in AWriter
        BY WriterFacts
      <4> QED BY <4>1, <4>2 DEF Loses, Keeps, AWriter, Idle
    <3>2. CASE ~CloseHandles(a)
      BY <1>4, <3>2 DEF Acts, Lock, Drop, Move, MoveFails, Copy, CopyFails, Retry, RemoveSource,
           MigrateOpens, MigrateReads, MigrateWrites, MigrateDeletes, MigrateFails, Succeed, Keeps
    <3> QED BY <3>1, <3>2
  <2>3. ASSUME NEW w \in Writers, writer'[w] # Idle, writer'[w].clean, Undisturbed(writer[w].name)
        PROVE  Undisturbed(writer[w].name)'
    <3>1. writer'[w].name = writer[w].name
      BY <2>2, <2>3 DEF Keeps
    <3>2. ASSUME NEW n, NEW b \in Admins, Touches(b, n)' PROVE Touches(b, n)
      BY <1>4, <3>2, ActsFacts, TouchesFewer
    <3> QED BY <2>3, <3>1, <3>2 DEF Undisturbed, Touches
  <2> QED BY <2>1, <2>2, <2>3, WritersStay
<1>5. ASSUME CrashAndRecover PROVE WritersInv'
  BY <1>5 DEF CrashAndRecover, WritersInv
<1>6. ASSUME UNCHANGED <<log, form, writer, admin>> PROVE WritersInv'
  BY <1>6, CommittedFacts, WritersStay DEF Keeps, Undisturbed, Touches
<1>7. (\E n \in Names : Create(n) \/ SweepPicks(n)) \/ SweepChecks \/ SweepPurges \/ SweepRebuilds
        => UNCHANGED <<log, form, writer, admin>>
  BY DEF Create, SweepPicks, SweepChecks, SweepPurges, SweepRebuilds
<1> QED BY <1>1, <1>2, <1>3, <1>4, <1>5, <1>6, <1>7 DEF RenameNext, Acts

-----------------------------------------------------------------------------
(* Where safe documents are *)

(* The document, or index entry, of n's directory under key k and id i.    *)
AtKey(kind, n, k, i, v) == dir[n] # 0 /\ keys[dir[n]][kind][k][i] = v
Proper(kind, n, i, v) == AtKey(kind, n, KeyName(n), i, v)
In(v, n) == dir[n] # 0 /\ \E k \in KeyNames, i \in Ids : keys[dir[n]]["d"][k][i] = v

(* No other order touches the names of a.                                  *)
Alone(a) == \A b \in Admins \ {a} : ~Touches(b, admin[a].old) /\ ~Touches(b, admin[a].new)

(* Where the order a has brought a document it is about.                   *)
InOld(a) == admin[a].step \in {"lock", "close", "drop", "move", "copy", "retry"}
(* The migration has yet to rename the keys of this kind.                  *)
OldKeys(a, kind) ==
  LET p == admin[a]
  IN \/ p.step \in {"remove", "open"}
     \/ p.step \in {"read", "write"} /\ p.kind = kind
     \/ p.step \in {"read", "write", "delete"} /\ p.kind = "d" /\ kind = "s"
(* The handle that the migration works through is on the renamed           *)
(* directory.                                                              *)
Fits(a) == admin[a].h # 0 => admin[a].h = dir[admin[a].new]
(* What a migration read and is about to write.                            *)
Reads(a, kind, i, v) ==
  admin[a].step = "write" /\ admin[a].kind = kind /\ admin[a].h # 0 =>
    admin[a].h = dir[admin[a].new] /\ admin[a].pairs[i] = v
(* Where the order a has v by now: with its source until that is moved or  *)
(* copied, then in the target under the key it had, and at last under its  *)
(* new key.                                                                *)
Brought(a, kind, i, v) ==
  IF InOld(a) THEN Proper(kind, admin[a].old, i, v)
  ELSE IF OldKeys(a, kind)
  THEN AtKey(kind, admin[a].new, KeyName(admin[a].old), i, v) /\ Reads(a, kind, i, v)
  ELSE Proper(kind, admin[a].new, i, v)

(* Two orders that overlap contest what their names hold, so who touches   *)
(* the name of a safe document does so alone.                              *)
AloneInv == \A a \in Admins, n \in Names, v \in Safe : Touches(a, n) /\ In(v, n) => Alone(a)

(* No order is about to change what n holds: one that renames to n and     *)
(* waits for its locks may still be refused.                               *)
Settled(n) ==
  \A a \in Admins : Touches(a, n) => scope = "block" /\ admin[a].step = "lock" /\ admin[a].old # n
(* A safe document is with a settled name, or where its order brought it.  *)
HomeInv ==
  \A v \in Safe : \E i \in Ids :
     \/ \E n \in Names : Settled(n) /\ Proper("d", n, i, v)
     \/ \E a \in Admins : Busy(a) /\ Brought(a, "d", i, v)

(* What a migration read is still under the old key when it writes it.     *)
PairsOf(a) ==
  admin[a].step = "write" /\ admin[a].kind = "d" /\ admin[a].h # 0 =>
     \A i \in Ids : admin[a].pairs[i] \in Safe =>
        /\ admin[a].h = dir[admin[a].new]
        /\ AtKey("d", admin[a].new, KeyName(admin[a].old), i, admin[a].pairs[i])
PairsInv == \A a \in Admins : Busy(a) => PairsOf(a)

(* A document that an order began with, and its index entry unless the     *)
(* migration has lost its handle or a sweep was about to rebuild.          *)
DocOf(a, doc) ==
  /\ Brought(a, "d", doc.id, doc.v)
  /\ admin[a].step \in {"write", "delete"} \/ admin[a].kind = "s" => Fits(a)
  /\ \/ admin[a].step \in Touching /\ admin[a].h = 0
     \/ doc.indexed /\ sweeps = 0 => Brought(a, "s", doc.id, doc.v)
DocsInv == \A a \in Admins : Busy(a) => \A doc \in admin[a].docs : doc.v \in Safe => DocOf(a, doc)

(* What the last rename to succeed brought is under its new name.          *)
MovedInv ==
  moved.name # None => \A doc \in moved.docs : doc.v \in Safe =>
     /\ Undisturbed(moved.name)
     /\ Proper("d", moved.name, doc.id, doc.v)
     /\ doc.indexed /\ sweeps = 0 => Proper("s", moved.name, doc.id, doc.v)

Places == AloneInv /\ HomeInv /\ PairsInv /\ DocsInv /\ MovedInv

-----------------------------------------------------------------------------
(* What a step leaves where it is.                                         *)
Stays(kind, n, m) ==
  dir[n] # 0 =>
    /\ dir'[n] = dir[n]
    /\ \A i \in Ids : \A v : v \in Safe /\ v \in Safe' /\ (kind = "s" => sweeps' = 0)
                         /\ keys[dir[n]][kind][KeyName(m)][i] = v => keys'[dir[n]][kind][KeyName(m)][i] = v

LEMMA KeyStays ==
  ASSUME UNCHANGED scope, NEW kind \in {"d", "s"}, NEW n, NEW m, NEW i \in Ids,
         NEW v, v \in Safe, v \in Safe',
         kind = "s" => sweeps' = 0, Stays(kind, n, m), AtKey(kind, n, KeyName(m), i, v)
  PROVE  AtKey(kind, n, KeyName(m), i, v)' /\ dir'[n] = dir[n]
<1>1. KeyName(m)' = KeyName(m)
  BY DEF KeyName
<1>2. dir[n] # 0 /\ keys[dir[n]][kind][KeyName(m)][i] = v
  BY DEF AtKey
<1>3. dir'[n] = dir[n] /\ keys'[dir[n]][kind][KeyName(m)][i] = v
  BY <1>2 DEF Stays
<1> QED BY <1>1, <1>2, <1>3 DEF AtKey

LEMMA BroughtStays ==
  ASSUME TypeInv, UNCHANGED scope, NEW b \in Admins, Busy(b), Lessens(b),
         NEW kind \in {"d", "s"}, NEW i \in Ids, NEW v, v \in Safe, v \in Safe', kind = "s" => sweeps' = 0,
         NEW o \in Names, NEW w \in Names, o = admin[b].old, w = admin[b].new,
         Stays(kind, o, o), Stays(kind, w, o), Stays(kind, w, w), Brought(b, kind, i, v)
  PROVE  Brought(b, kind, i, v)' /\ Busy(b)'
<1>1. admin[b] \in AnOrder
  BY OrderFacts DEF Busy
<1>2. LET p == admin[b]
          q == admin'[b]
      IN /\ q.step = p.step /\ q.old = p.old /\ q.new = p.new /\ q.kind = p.kind /\ q.pairs = p.pairs
         /\ q.h # 0 => q.h = p.h
  BY <1>1 DEF Lessens, AnOrder
<1>3. (InOld(b)' <=> InOld(b)) /\ (OldKeys(b, kind)' <=> OldKeys(b, kind)) /\ Busy(b)'
  BY <1>2 DEF InOld, OldKeys, Busy
<1>4. CASE InOld(b)
  <2>1. AtKey(kind, o, KeyName(o), i, v)
    BY <1>4 DEF Brought, Proper
  <2>2. AtKey(kind, o, KeyName(o), i, v)'
    BY <2>1, KeyStays
  <2> QED BY <1>2, <1>3, <1>4, <2>2 DEF Brought, Proper
<1>5. CASE ~InOld(b) /\ OldKeys(b, kind)
  <2>1. AtKey(kind, w, KeyName(o), i, v) /\ Reads(b, kind, i, v)
    BY <1>5 DEF Brought
  <2>2. AtKey(kind, w, KeyName(o), i, v)' /\ dir'[w] = dir[w]
    BY <2>1, KeyStays
  <2>3. Reads(b, kind, i, v)'
    BY <1>2, <2>1, <2>2 DEF Reads
  <2> QED BY <1>2, <1>3, <1>5, <2>2, <2>3 DEF Brought
<1>6. CASE ~InOld(b) /\ ~OldKeys(b, kind)
  <2>1. AtKey(kind, w, KeyName(w), i, v)
    BY <1>6 DEF Brought, Proper
  <2>2. AtKey(kind, w, KeyName(w), i, v)'
    BY <2>1, KeyStays
  <2> QED BY <1>2, <1>3, <1>6, <2>2 DEF Brought, Proper
<1> QED BY <1>3, <1>4, <1>5, <1>6

LEMMA AtKeyIsIn ==
  ASSUME NEW n \in Names, NEW m \in Names, NEW i \in Ids, NEW v, AtKey("d", n, KeyName(m), i, v)
  PROVE  In(v, n)
<1>1. KeyName(m) \in KeyNames
  BY Numbers DEF KeyNames
<1> QED BY <1>1 DEF AtKey, In

LEMMA BroughtIsIn ==
  ASSUME TypeInv, NEW b \in Admins, Busy(b), NEW i \in Ids, NEW v, Brought(b, "d", i, v)
  PROVE  \E n \in Names : n \in {admin[b].old, admin[b].new} /\ Touches(b, n) /\ In(v, n)
<1>1. admin[b] \in AnOrder
  BY OrderFacts DEF Busy
<1>2. PICK o \in Names, w \in Names : o = admin[b].old /\ w = admin[b].new
  BY <1>1 DEF AnOrder
<1>3. Touches(b, o) /\ Touches(b, w)
  BY <1>2 DEF Touches, Busy
<1>4. AtKey("d", o, KeyName(o), i, v) \/ AtKey("d", w, KeyName(o), i, v) \/ AtKey("d", w, KeyName(w), i, v)
  BY <1>2 DEF Brought, Proper
<1>5. In(v, o) \/ In(v, w)
  BY <1>4, AtKeyIsIn
<1> QED BY <1>2, <1>3, <1>5

LEMMA BroughtAlone ==
  ASSUME TypeInv, AloneInv, NEW b \in Admins, Busy(b), NEW i \in Ids, NEW v \in Safe,
         Brought(b, "d", i, v)
  PROVE  Alone(b)
BY BroughtIsIn DEF AloneInv

-----------------------------------------------------------------------------
(* A step of one order leaves the others' documents where they are *)

(* What a step of a does for the names it touches, and leaves alone        *)
(* elsewhere: names that a does not touch keep what they hold (Elsewhere), *)
(* what a has brought stays brought or is in place (Brings), a name it is  *)
(* only waiting for keeps what it has (Frees), and no document comes to a  *)
(* name but from another of the same order (Carries).                      *)
Elsewhere(a) == \A n, m \in Names : ~Touches(a, n) /\ ~Touches(a, m) => Stays("d", n, m) /\ Stays("s", n, m)
Brings(a) ==
  \A i \in Ids : \A v : v \in Safe /\ v \in Safe' /\ Brought(a, "d", i, v) /\ Alone(a) =>
    \/ Busy(a)' /\ Brought(a, "d", i, v)'
    \/ admin'[a] = Idle /\ \E n \in Names : Touches(a, n) /\ Proper("d", n, i, v)'
Frees(a) ==
  \A n \in Names, i \in Ids : \A v : Touches(a, n) /\ Settled(n) /\ v \in Safe /\ v \in Safe' /\ Proper("d", n, i, v) =>
    Settled(n)' /\ Proper("d", n, i, v)'
Carries(a) ==
  \A n \in Names : \A v : v \in Safe' /\ In(v, n)' =>
    \E m \in Names : In(v, m) /\ (m = n \/ (Touches(a, n) /\ Touches(a, m)))
Lasting(a) ==
  /\ UNCHANGED <<scope, sweeps>> /\ Busy(a) /\ Safe' \subseteq Safe
  /\ \A b \in Admins \ {a} : Lessens(b)
  /\ admin'[a] = Idle \/ Alike(admin'[a], admin[a])

LEMMA AloneStays ==
  ASSUME TypeInv, NEW a \in Admins, Lasting(a), NEW b \in Admins, Alone(b), Busy(b)'
  PROVE  Alone(b)'
<1>1. admin'[b].old = admin[b].old /\ admin'[b].new = admin[b].new
  <2>1. CASE b = a
    BY <2>1 DEF Lasting, Alike, Busy, Idle
  <2>2. CASE b # a
    <3>1. admin'[b] = admin[b] \/ (admin[b] \in AnOrder /\ admin'[b] = [admin[b] EXCEPT !.h = 0])
      BY <2>2, OrderFacts DEF Lasting, Lessens
    <3> QED BY <3>1 DEF AnOrder
  <2> QED BY <2>1, <2>2
<1>2. ASSUME NEW c \in Admins, NEW n, Touches(c, n)' PROVE Touches(c, n)
  BY <1>2, TouchesFewer DEF Lasting
<1>3. \A c \in Admins \ {b} : ~Touches(c, admin[b].old)' /\ ~Touches(c, admin[b].new)'
  <2>1. ASSUME NEW c \in Admins \ {b},
               NEW n \in {admin'[b].old, admin'[b].new}, n \in {admin'[c].old, admin'[c].new},
               admin'[c].step # "idle"
        PROVE  FALSE
    <3>1. Touches(c, n)'
      BY <2>1 DEF Touches
    <3>2. Touches(c, n)
      BY <1>2, <3>1
    <3> QED BY <1>1, <2>1, <3>2 DEF Alone
  <2> QED BY <2>1 DEF Touches
<1> QED BY <1>3 DEF Alone

LEMMA AloneHere ==
  ASSUME NEW a \in Admins, NEW b \in Admins \ {a}, Alone(b), NEW n \in {admin[b].old, admin[b].new}
  PROVE  ~Touches(a, n)
BY DEF Alone

LEMMA BroughtElsewhere ==
  ASSUME TypeInv, Places, NEW a \in Admins, Lasting(a), Elsewhere(a), NEW b \in Admins \ {a},
         Busy(b), Alone(b),
         NEW kind \in {"d", "s"}, kind = "s" => sweeps = 0,
         NEW i \in Ids, NEW v, v \in Safe, v \in Safe', Brought(b, kind, i, v)
  PROVE  Brought(b, kind, i, v)' /\ Busy(b)'
<1>1. admin[b] \in AnOrder /\ Lessens(b)
  BY OrderFacts DEF Busy, Lasting
<1>2. PICK o \in Names, w \in Names : o = admin[b].old /\ w = admin[b].new
  BY <1>1 DEF AnOrder
<1>3. ~Touches(a, o) /\ ~Touches(a, w)
  BY <1>2, AloneHere
<1>4. Stays(kind, o, o) /\ Stays(kind, w, o) /\ Stays(kind, w, w)
  BY <1>3 DEF Elsewhere
<1>5. UNCHANGED scope /\ (kind = "s" => sweeps' = 0)
  BY DEF Lasting
<1> QED BY <1>1, <1>2, <1>4, <1>5, BroughtStays

LEMMA AlonePlaces ==
  ASSUME TypeInv, Places, NEW a \in Admins, Lasting(a), Carries(a) PROVE AloneInv'
<1>1. ASSUME NEW b \in Admins, NEW n \in Names, NEW v, v \in Safe', Touches(b, n)', In(v, n)'
      PROVE  Alone(b)'
  <2>1. Touches(b, n) /\ Busy(b)'
    BY <1>1, TouchesFewer DEF Lasting, Touches, Busy
  <2>2. PICK m \in Names : In(v, m) /\ (m = n \/ (Touches(a, n) /\ Touches(a, m)))
    BY <1>1 DEF Carries
  <2>3. v \in Safe
    BY <1>1 DEF Lasting
  <2>4. Alone(b)
    <3>1. CASE m = n
      BY <2>1, <2>2, <2>3, <3>1 DEF Places, AloneInv
    <3>2. CASE Touches(a, n) /\ Touches(a, m)
      <4>1. Alone(a)
        BY <2>2, <2>3, <3>2 DEF Places, AloneInv
      <4>2. b = a
        BY <2>1, <3>2, <4>1 DEF Alone, Touches
      <4> QED BY <4>1, <4>2
    <3> QED BY <2>2, <3>1, <3>2
  <2> QED BY <2>1, <2>4, AloneStays
<1> QED BY <1>1 DEF AloneInv

LEMMA HomePlaces ==
  ASSUME TypeInv, Places, NEW a \in Admins, Lasting(a), Elsewhere(a), Brings(a),
         Frees(a) PROVE HomeInv'
<1>1. ASSUME NEW v, v \in Safe'
      PROVE  \E i \in Ids : \/ \E n \in Names : Settled(n)' /\ Proper("d", n, i, v)'
                            \/ \E b \in Admins : Busy(b)' /\ Brought(b, "d", i, v)'
  <2>1. v \in Safe /\ UNCHANGED scope
    BY <1>1 DEF Lasting
  <2>2. PICK i \in Ids : \/ \E n \in Names : Settled(n) /\ Proper("d", n, i, v)
                         \/ \E b \in Admins : Busy(b) /\ Brought(b, "d", i, v)
    BY <2>1 DEF Places, HomeInv
  <2>3. ASSUME NEW n \in Names, Settled(n), Proper("d", n, i, v)
        PROVE  Settled(n)' /\ Proper("d", n, i, v)'
    <3>1. CASE Touches(a, n)
      BY <1>1, <2>1, <2>3, <3>1 DEF Frees
    <3>2. CASE ~Touches(a, n)
      <4>1. Stays("d", n, n)
        BY <3>2 DEF Elsewhere
      <4>2. Proper("d", n, i, v)'
        BY <1>1, <2>1, <2>3, <4>1, KeyStays DEF Proper
      <4>3. ASSUME NEW c \in Admins, Touches(c, n)'
            PROVE  scope = "block" /\ admin'[c].step = "lock" /\ admin'[c].old # n
        <5>1. Touches(c, n) /\ c # a
          BY <3>2, <4>3, TouchesFewer DEF Lasting
        <5>2. scope = "block" /\ admin[c].step = "lock" /\ admin[c].old # n
          BY <2>3, <5>1 DEF Settled
        <5>3. admin'[c] = admin[c] \/ (admin[c] \in AnOrder /\ admin'[c] = [admin[c] EXCEPT !.h = 0])
          BY <5>1, OrderFacts DEF Lasting, Lessens
        <5> QED BY <5>2, <5>3 DEF AnOrder
      <4>4. Settled(n)'
        BY <2>1, <4>3 DEF Settled
      <4> QED BY <4>2, <4>4
    <3> QED BY <3>1, <3>2
  <2>4. ASSUME NEW b \in Admins \ {a}, Busy(b), Brought(b, "d", i, v)
        PROVE  Busy(b)' /\ Brought(b, "d", i, v)'
    <3>1. Alone(b)
      BY <2>1, <2>4, BroughtAlone DEF Places
    <3> QED BY <1>1, <2>1, <2>4, <3>1, BroughtElsewhere
  <2>5. ASSUME Brought(a, "d", i, v)
        PROVE  (Busy(a)' /\ Brought(a, "d", i, v)') \/ \E n \in Names : Settled(n)' /\ Proper("d", n, i, v)'
    <3>1. Alone(a)
      BY <2>1, <2>5, BroughtAlone DEF Places, Lasting
    <3>2. CASE Busy(a)' /\ Brought(a, "d", i, v)'
      BY <3>2
    <3>3. CASE admin'[a] = Idle /\ \E n \in Names : Touches(a, n) /\ Proper("d", n, i, v)'
      <4>1. PICK n \in Names : Touches(a, n) /\ Proper("d", n, i, v)'
        BY <3>3
      <4>2. ASSUME NEW c \in Admins, Touches(c, n)' PROVE FALSE
        <5>1. Touches(c, n)
          BY <4>2, TouchesFewer DEF Lasting
        <5>2. c # a
          BY <3>3, <4>2 DEF Touches, Idle
        <5> QED BY <3>1, <4>1, <5>1, <5>2 DEF Alone, Touches
      <4>3. Settled(n)'
        BY <4>2 DEF Settled
      <4> QED BY <4>1, <4>3
    <3> QED BY <1>1, <2>1, <2>5, <3>1, <3>2, <3>3 DEF Brings
  <2> QED BY <2>2, <2>3, <2>4, <2>5
<1> QED BY <1>1 DEF HomeInv

LEMMA PairsElsewhere ==
  ASSUME TypeInv, Places, NEW a \in Admins, Lasting(a), Elsewhere(a),
         Busy(a)' => PairsOf(a)' PROVE PairsInv'
<1>1. ASSUME NEW b \in Admins \ {a}, Busy(b)' PROVE PairsOf(b)'
  <2>1. admin[b] \in AnOrder /\ Busy(b) /\ Lessens(b)
    BY <1>1, OrderFacts DEF Lasting, Lessens, Busy
  <2>2. LET p == admin[b]
            q == admin'[b]
        IN /\ q.step = p.step /\ q.old = p.old /\ q.new = p.new /\ q.kind = p.kind /\ q.pairs = p.pairs
           /\ q.h # 0 => q.h = p.h
    BY <2>1 DEF Lessens, AnOrder
  <2>3. PICK o \in Names, w \in Names : o = admin[b].old /\ w = admin[b].new
    BY <2>1 DEF AnOrder
  <2>4. ASSUME admin'[b].step = "write", admin'[b].kind = "d", admin'[b].h # 0, NEW i \in Ids,
               NEW v, v = admin'[b].pairs[i],
               v \in Safe'
        PROVE  admin'[b].h = dir'[w] /\ AtKey("d", w, KeyName(o), i, v)'
    <3>1. v \in Safe /\ UNCHANGED scope
      BY <2>4 DEF Lasting
    <3>2. admin[b].h = dir[w] /\ AtKey("d", w, KeyName(o), i, v)
      BY <2>1, <2>2, <2>3, <2>4, <3>1 DEF Places, PairsInv, PairsOf
    <3>3. In(v, w) /\ Touches(b, w)
      BY <2>1, <2>3, <3>2, AtKeyIsIn DEF Touches, Busy
    <3>4. Alone(b)
      BY <3>1, <3>3 DEF Places, AloneInv
    <3>5. ~Touches(a, o) /\ ~Touches(a, w)
      BY <2>3, <3>4, AloneHere
    <3>6. Stays("d", w, o)
      BY <3>5 DEF Elsewhere
    <3>7. AtKey("d", w, KeyName(o), i, v)' /\ dir'[w] = dir[w]
      BY <2>4, <3>1, <3>2, <3>6, KeyStays
    <3> QED BY <2>2, <2>4, <3>2, <3>7
  <2> QED BY <2>2, <2>3, <2>4 DEF PairsOf
<1> QED BY <1>1 DEF PairsInv

LEMMA DocsElsewhere ==
  ASSUME TypeInv, Places, NEW a \in Admins, Lasting(a), Elsewhere(a),
         Busy(a)' => \A doc \in admin'[a].docs : doc.v \in Safe' => DocOf(a, doc)'
  PROVE  DocsInv'
<1>1. ASSUME NEW b \in Admins \ {a}, Busy(b)', NEW doc \in admin'[b].docs, doc.v \in Safe'
      PROVE  DocOf(b, doc)'
  <2>1. admin[b] \in AnOrder /\ Busy(b) /\ Lessens(b)
    BY <1>1, OrderFacts DEF Lasting, Lessens, Busy
  <2>2. LET p == admin[b]
            q == admin'[b]
        IN /\ q.step = p.step /\ q.old = p.old /\ q.new = p.new /\ q.kind = p.kind /\ q.pairs = p.pairs
           /\ q.docs = p.docs /\ (q.h # 0 => q.h = p.h)
    BY <2>1 DEF Lessens, AnOrder
  <2>3. PICK o \in Names, w \in Names : o = admin[b].old /\ w = admin[b].new
    BY <2>1 DEF AnOrder
  <2>4. doc.v \in Safe /\ doc \in admin[b].docs /\ doc.id \in Ids
    BY <1>1, <2>1, <2>2 DEF Lasting, AnOrder, Doc
  <2>5. DocOf(b, doc)
    BY <2>1, <2>4 DEF Places, DocsInv
  <2>6. Brought(b, "d", doc.id, doc.v)
    BY <2>5 DEF DocOf
  <2>7. Alone(b)
    BY <2>1, <2>4, <2>6, BroughtAlone DEF Places
  <2>8. Brought(b, "d", doc.id, doc.v)'
    BY <1>1, <2>1, <2>4, <2>6, <2>7, BroughtElsewhere
  <2>9. admin'[b].step \in {"write", "delete"} \/ admin'[b].kind = "s" => Fits(b)'
    <3>1. ASSUME admin'[b].step \in {"write", "delete"} \/ admin'[b].kind = "s", admin'[b].h # 0
          PROVE  admin'[b].h = dir'[w]
      <4>1. admin[b].h # 0 /\ admin[b].h = dir[w] /\ admin'[b].h = admin[b].h
        <5>1. admin'[b].h = admin[b].h
          BY <2>2, <3>1
        <5>2. Fits(b)
          BY <2>2, <2>5, <3>1 DEF DocOf
        <5> QED BY <2>3, <3>1, <5>1, <5>2 DEF Fits
      <4>2. ~Touches(a, w)
        BY <2>3, <2>7, AloneHere
      <4>3. Stays("d", w, w)
        BY <4>2 DEF Elsewhere
      <4> QED BY <4>1, <4>3 DEF Stays
    <3> QED BY <2>2, <2>3, <3>1 DEF Fits
  <2>10. \/ admin'[b].step \in Touching /\ admin'[b].h = 0
         \/ doc.indexed /\ sweeps' = 0 => Brought(b, "s", doc.id, doc.v)'
    <3>1. CASE admin[b].step \in Touching /\ admin[b].h = 0
      BY <2>2, <3>1
    <3>2. CASE ~(admin[b].step \in Touching /\ admin[b].h = 0)
      <4>1. ASSUME doc.indexed, sweeps' = 0 PROVE Brought(b, "s", doc.id, doc.v)'
        <5>1. sweeps = 0
          BY <4>1 DEF Lasting
        <5>2. Brought(b, "s", doc.id, doc.v)
          BY <2>5, <3>2, <4>1, <5>1 DEF DocOf
        <5> QED BY <1>1, <2>1, <2>4, <2>7, <5>1, <5>2, BroughtElsewhere
      <4> QED BY <4>1
    <3> QED BY <3>1, <3>2
  <2> QED BY <2>8, <2>9, <2>10 DEF DocOf
<1> QED BY <1>1 DEF DocsInv

LEMMA MovedElsewhere ==
  ASSUME TypeInv, Places, NEW a \in Admins, Lasting(a), Elsewhere(a),
         UNCHANGED moved PROVE MovedInv'
<1>1. ASSUME moved.name # None, NEW doc \in moved.docs, doc.v \in Safe'
      PROVE  /\ Undisturbed(moved.name)'
             /\ Proper("d", moved.name, doc.id, doc.v)'
             /\ doc.indexed /\ sweeps' = 0 => Proper("s", moved.name, doc.id, doc.v)'
  <2>1. moved.name \in Names /\ doc.id \in Ids
    BY <1>1 DEF TypeInv, Doc
  <2>2. PICK n \in Names : n = moved.name /\ n = moved'.name
    BY <2>1
  <2>3. doc.v \in Safe /\ UNCHANGED <<scope, sweeps>>
    BY <1>1 DEF Lasting
  <2>4. /\ Undisturbed(n) /\ Proper("d", n, doc.id, doc.v)
        /\ doc.indexed /\ sweeps = 0 => Proper("s", n, doc.id, doc.v)
    BY <1>1, <2>2, <2>3 DEF Places, MovedInv
  <2>5. Stays("d", n, n) /\ Stays("s", n, n)
    BY <2>4 DEF Undisturbed, Elsewhere
  <2>6. Proper("d", n, doc.id, doc.v)'
    BY <1>1, <2>1, <2>3, <2>4, <2>5, KeyStays DEF Proper
  <2>7. doc.indexed /\ sweeps' = 0 => Proper("s", n, doc.id, doc.v)'
    BY <1>1, <2>1, <2>3, <2>4, <2>5, KeyStays DEF Proper
  <2>8. Undisturbed(n)'
    <3>1. ASSUME NEW c \in Admins, Touches(c, n)' PROVE FALSE
      BY <2>4, <3>1, TouchesFewer DEF Lasting, Undisturbed
    <3> QED BY <3>1 DEF Undisturbed
  <2> QED BY <2>2, <2>6, <2>7, <2>8 DEF Undisturbed, Touches, Proper, AtKey, KeyName
<1> QED BY <1>1 DEF MovedInv

LEMMA OrderPlaces ==
  ASSUME TypeInv, Places, NEW a \in Admins, Lasting(a), Elsewhere(a), Brings(a), Frees(a),
         Carries(a),
         Busy(a)' => PairsOf(a)',
         Busy(a)' => \A doc \in admin'[a].docs : doc.v \in Safe' => DocOf(a, doc)',
         UNCHANGED moved \/ MovedInv'
  PROVE  Places'
<1>1. MovedInv'
  BY MovedElsewhere
<1> QED BY <1>1, AlonePlaces, HomePlaces, PairsElsewhere, DocsElsewhere DEF Places

-----------------------------------------------------------------------------
LEMMA ActsLast ==
  ASSUME TypeInv, OrderInv, NEW a \in Admins, Acts(a) PROVE Lasting(a)
<1>1. UNCHANGED <<scope, sweeps>>
  BY DEF Acts, Lock, CloseHandles, Drop, Move, MoveFails, Copy, CopyFails, Retry, RemoveSource, MigrateOpens,
         MigrateReads, MigrateWrites, MigrateDeletes, MigrateFails, Succeed, bounds
<1>2. kept' \subseteq kept /\ contested \subseteq contested' /\ purged \subseteq purged' /\ stranded \subseteq stranded'
  BY DEF Acts, Lock, CloseHandles, Drop, Move, MoveFails, Copy, CopyFails, Retry, RemoveSource, MigrateOpens,
         MigrateReads, MigrateWrites, MigrateDeletes, MigrateFails, Succeed, ghosts
<1>3. Safe' \subseteq Safe
  BY <1>2 DEF Safe
<1> QED BY <1>1, <1>3, ActsFacts DEF Lasting

(* Where a step leaves all keys and the directories of other names alone.  *)
LEMMA FilesElsewhere ==
  ASSUME TypeInv, NEW a \in Admins, UNCHANGED <<scope, keys>>, admin[a] \in AnOrder, Busy(a),
         \A n \in Names : n \notin {admin[a].old, admin[a].new} => dir'[n] = dir[n]
  PROVE  Elsewhere(a)
<1>1. ASSUME NEW n \in Names, ~Touches(a, n) PROVE dir'[n] = dir[n]
  BY <1>1 DEF Touches, Busy
<1> QED BY <1>1 DEF Elsewhere, Stays

LEMMA FilesCarry ==
  ASSUME TypeInv, NEW a \in Admins, UNCHANGED keys,
         \A n \in Names : dir'[n] = dir[n] \/ dir'[n] = 0
  PROVE  Carries(a)
<1>1. ASSUME NEW n \in Names, NEW v, In(v, n)' PROVE In(v, n)
  BY <1>1 DEF In
<1> QED BY <1>1 DEF Carries

LEMMA NotLockFrees ==
  ASSUME NEW a \in Admins, admin[a].step # "lock" PROVE Frees(a)
BY DEF Frees, Settled

(* Steps that change the order's own record and no keys and no directory.  *)
LEMMA StillProper ==
  ASSUME UNCHANGED <<scope, keys, dir>>, NEW kind, NEW n, NEW k, NEW i, NEW v
  PROVE  /\ AtKey(kind, n, k, i, v) => AtKey(kind, n, k, i, v)'
         /\ Proper(kind, n, i, v) => Proper(kind, n, i, v)'
BY DEF AtKey, Proper, KeyName

LEMMA OrderNames ==
  ASSUME TypeInv, NEW a \in Admins, admin[a] \in AnOrder
  PROVE  \E o \in Names, w \in Names : /\ o = admin[a].old /\ w = admin[a].new /\ Touches(a, o) /\ Touches(a, w)
                                       /\ \A n : Touches(a, n) => n \in {o, w}
BY OrderFacts DEF Touches, AnOrder

-----------------------------------------------------------------------------
LEMMA LockPlaces ==
  ASSUME TypeInv, OrderInv, Places, KnownInv, NEW a \in Admins, Lock(a) PROVE Places'
<1>1. Lasting(a)
  BY ActsLast DEF Acts
<1>2. UNCHANGED <<scope, dir, keys, moved, sweeps>>
  BY DEF Lock, ghosts, bounds
<1>3. admin[a] \in AnOrder /\ admin[a].step = "lock" /\ Busy(a) /\ GoodOrder(admin[a])
  BY LockShape DEF OrderInv, Busy
<1>4. PICK o \in Names, w \in Names : /\ o = admin[a].old /\ w = admin[a].new /\ Touches(a, o) /\ Touches(a, w)
                                      /\ \A n : Touches(a, n) => n \in {o, w}
  BY <1>3, OrderNames
<1>5. admin[a].h = 0 /\ admin[a].kind = "d"
  BY <1>3, GoodKinds DEF Touching
<1>6. Busy(a)' => /\ admin'[a].old = o /\ admin'[a].new = w /\ admin'[a].step = "close" /\ admin'[a].h = 0
                  /\ admin'[a].kind = "d" /\ admin'[a].docs = (IF dir[o] = 0 THEN {} ELSE DocsUnder(o))
                  /\ (admin[a].op = "rename" /\ scope = "block") => dir[w] = 0
  <2>1. ASSUME Busy(a)' PROVE admin'[a] # Idle
    BY <2>1 DEF Busy, Idle
  <2>2. ASSUME Busy(a)'
        PROVE  /\ Alike(admin'[a], admin[a]) /\ admin'[a].kind = admin[a].kind /\ admin'[a].h = admin[a].h
               /\ admin'[a].step = "close"
               /\ admin'[a].docs = IF dir[admin[a].old] = 0 THEN {} ELSE DocsUnder(admin[a].old)
    BY <2>1, <2>2, LockFields
  <2>3. ASSUME Busy(a)' PROVE (admin[a].op = "rename" /\ scope = "block") => dir[admin[a].new] = 0
    BY <2>1, <2>3, LockShape
  <2> QED BY <1>4, <1>5, <2>2, <2>3 DEF Alike
<1>7. Elsewhere(a) /\ Carries(a)
  BY <1>2, <1>3, FilesElsewhere, FilesCarry
<1>8. Brings(a)
  <2>1. ASSUME NEW i \in Ids, NEW v, Brought(a, "d", i, v)
        PROVE  (Busy(a)' /\ Brought(a, "d", i, v)') \/ (admin'[a] = Idle /\ \E n \in Names : Touches(a, n) /\ Proper("d", n, i, v)')
    <3>1. Proper("d", o, i, v)
      BY <1>3, <1>4, <2>1 DEF Brought, InOld
    <3>2. Proper("d", o, i, v)'
      BY <1>2, <3>1, StillProper
    <3>3. CASE Busy(a)'
      BY <1>6, <3>2, <3>3 DEF Brought, InOld, Proper
    <3>4. CASE ~Busy(a)'
      <4>1. admin'[a] = Idle
        BY <1>1, <1>3, <3>4, LockShape, LockFields DEF Busy
      <4> QED BY <1>4, <3>2, <4>1
    <3> QED BY <3>3, <3>4
  <2> QED BY <2>1 DEF Brings
<1>9. Frees(a)
  <2>1. ASSUME NEW n \in Names, NEW i \in Ids, NEW v, Touches(a, n), Settled(n),
               Proper("d", n, i, v)
        PROVE  Settled(n)' /\ Proper("d", n, i, v)'
    <3>1. Proper("d", n, i, v)'
      BY <1>2, <2>1, StillProper
    <3>2. scope = "block" /\ o # n /\ n = w
      BY <1>4, <2>1 DEF Settled
    <3>3. ~Busy(a)'
      <4>1. dir[w] # 0
        BY <2>1, <3>2 DEF Proper, AtKey
      <4>2. admin[a].op = "rename"
        BY <1>3, <1>4, <3>2 DEF GoodOrder, AnOrder
      <4> QED BY <1>6, <3>2, <4>1, <4>2
    <3>4. ASSUME NEW c \in Admins, Touches(c, n)'
          PROVE  scope = "block" /\ admin'[c].step = "lock" /\ admin'[c].old # n
      <4>1. c # a
        BY <3>3, <3>4 DEF Touches, Busy
      <4>2. admin'[c] = admin[c]
        BY <4>1, LockShape DEF Same
      <4> QED BY <2>1, <3>4, <4>2 DEF Settled, Touches
    <3> QED BY <1>2, <3>1, <3>4 DEF Settled
  <2> QED BY <2>1 DEF Frees
<1>10. Busy(a)' => PairsOf(a)'
  BY <1>6 DEF PairsOf
<1>11. ASSUME Busy(a)', NEW doc \in admin'[a].docs PROVE DocOf(a, doc)'
  <2>1. dir[o] # 0 /\ doc \in DocsUnder(o)
    BY <1>6, <1>11
  <2>2. /\ doc.id \in Ids /\ doc.v = keys[dir[o]]["d"][KeyName(o)][doc.id]
        /\ doc.indexed => keys[dir[o]]["s"][KeyName(o)][doc.id] = doc.v
    BY <2>1, DocsUnderFacts
  <2>3. Proper("d", o, doc.id, doc.v) /\ (doc.indexed => Proper("s", o, doc.id, doc.v))
    BY <2>1, <2>2 DEF Proper, AtKey
  <2>4. Proper("d", o, doc.id, doc.v)' /\ (doc.indexed => Proper("s", o, doc.id, doc.v)')
    BY <1>2, <2>3, StillProper
  <2>5. Brought(a, "d", doc.id, doc.v)' /\ (doc.indexed => Brought(a, "s", doc.id, doc.v)')
    BY <1>6, <1>11, <2>4 DEF Brought, InOld, Proper
  <2> QED BY <1>6, <1>11, <2>5 DEF DocOf
<1> QED BY <1>1, <1>2, <1>7, <1>8, <1>9, <1>10, <1>11, OrderPlaces

-----------------------------------------------------------------------------
(* The files: each step of an order brings its documents on *)

LEMMA SafeVersions ==
  ASSUME TypeInv, LogInv, NEW v \in Safe PROVE v # 0 /\ v \in Nat /\ v \in Committed /\ v \in kept
<1>1. v \in kept /\ v \in 1 .. Len(form)
  BY DEF Safe, LogInv
<1> QED BY <1>1 DEF LogInv, TypeInv

LEMMA InDocs ==
  ASSUME TypeInv, NEW n \in Names, NEW v, v # 0, In(v, n) PROVE dir[n] # 0 /\ v \in Docs(dir[n])
BY DEF In, Docs

(* Attempts on the files that leave the source as it is.                   *)
LEMMA SourceStaysPlaces ==
  ASSUME TypeInv, OrderInv, Places, NEW a \in Admins, Acts(a), UNCHANGED <<keys, moved>>,
         InOld(a), admin[a].step # "lock",
         \A n \in Names : dir'[n] = dir[n] \/ dir'[n] = 0,
         \A n \in Names : n # admin[a].new \/ n = admin[a].old => dir'[n] = dir[n],
         admin'[a] = Idle \/ (Busy(a)' /\ InOld(a)' /\ Likewise(admin'[a], admin[a]))
  PROVE  Places'
<1>1. Lasting(a)
  BY ActsLast
<1>2. admin[a] \in AnOrder /\ Busy(a) /\ GoodOrder(admin[a]) /\ UNCHANGED <<scope, sweeps>>
  BY <1>1, ActsFacts DEF OrderInv, Lasting
<1>3. PICK o \in Names, w \in Names : /\ o = admin[a].old /\ w = admin[a].new /\ Touches(a, o) /\ Touches(a, w)
                                      /\ \A n : Touches(a, n) => n \in {o, w}
  BY <1>2, OrderNames
<1>4. admin[a].h = 0 /\ admin[a].kind = "d"
  BY <1>2, GoodKinds DEF Touching, InOld
<1>5. Busy(a)' => /\ admin'[a].old = o /\ admin'[a].new = w /\ InOld(a)' /\ admin'[a].h = 0
                  /\ admin'[a].kind = "d" /\ admin'[a].docs = admin[a].docs
  BY <1>3, <1>4 DEF Likewise, Alike, Busy, Idle
<1>6. Elsewhere(a) /\ Carries(a) /\ Frees(a)
  BY <1>2, FilesElsewhere, FilesCarry, NotLockFrees
<1>7. ASSUME NEW kind, NEW i, NEW v, Brought(a, kind, i, v) PROVE Proper(kind, o, i, v)'
  <2>1. Proper(kind, o, i, v)
    BY <1>3, <1>7 DEF Brought
  <2> QED BY <1>2, <1>3, <2>1 DEF Proper, AtKey, KeyName
<1>8. ASSUME Busy(a)', NEW kind, NEW i, NEW v, Brought(a, kind, i, v) PROVE Brought(a, kind, i, v)'
  BY <1>5, <1>7, <1>8 DEF Brought, Proper
<1>9. Brings(a)
  <2>1. ASSUME NEW i \in Ids, NEW v, Brought(a, "d", i, v)
        PROVE  (Busy(a)' /\ Brought(a, "d", i, v)') \/ (admin'[a] = Idle /\ \E n \in Names : Touches(a, n) /\ Proper("d", n, i, v)')
    BY <1>3, <1>7, <1>8, <2>1
  <2> QED BY <2>1 DEF Brings
<1>10. Busy(a)' => PairsOf(a)'
  BY <1>5 DEF PairsOf
<1>11. ASSUME Busy(a)', NEW doc \in admin'[a].docs, doc.v \in Safe' PROVE DocOf(a, doc)'
  <2>1. DocOf(a, doc)
    BY <1>1, <1>2, <1>5, <1>11 DEF Places, DocsInv, Lasting
  <2>2. admin[a].step \notin Touching
    BY DEF InOld, Touching
  <2>3. Brought(a, "d", doc.id, doc.v) /\ (doc.indexed /\ sweeps = 0 => Brought(a, "s", doc.id, doc.v))
    BY <2>1, <2>2 DEF DocOf
  <2>4. Brought(a, "d", doc.id, doc.v)' /\ (doc.indexed /\ sweeps' = 0 => Brought(a, "s", doc.id, doc.v)')
    BY <1>2, <1>8, <1>11, <2>3
  <2> QED BY <1>5, <1>11, <2>4 DEF DocOf, InOld
<1> QED BY <1>1, <1>6, <1>9, <1>10, <1>11, OrderPlaces

LEMMA CloseHandlesPlaces ==
  ASSUME TypeInv, OrderInv, Places, NEW a \in Admins, CloseHandles(a) PROVE Places'
<1>1. admin[a] \in AnOrder /\ admin[a].step = "close"
  BY CloseHandlesShape
<1>2. admin'[a] = Stepped(admin[a], "drop") \/ admin'[a] = Stepped(admin[a], "move")
  BY CloseHandlesShape
<1>3. Likewise(admin'[a], admin[a]) /\ admin'[a].step \in {"drop", "move"}
  <2>1. {"drop", "move"} \subseteq AdminSteps
    BY DEF AdminSteps
  <2> QED BY <1>1, <1>2, <2>1, SteppedFacts DEF Likewise, Alike
<1>4. Acts(a) /\ UNCHANGED <<keys, dir, moved>>
  BY DEF Acts, CloseHandles, ghosts
<1> QED BY <1>1, <1>3, <1>4, SourceStaysPlaces DEF InOld, Busy

LEMMA AttemptPlaces ==
  ASSUME TypeInv, OrderInv, Places, NEW a \in Admins, MoveFails(a) \/ CopyFails(a) PROVE Places'
<1>1. admin[a] # Idle /\ admin[a].step \in {"move", "copy"}
  BY DEF MoveFails, CopyFails, At, Idle
<1>2. Goes(a, "copy") \/ Goes(a, "retry")
  BY DEF MoveFails, CopyFails
<1>3. Likewise(admin'[a], admin[a]) /\ admin'[a].step \in {"copy", "retry"}
  <2>1. {"copy", "retry"} \subseteq AdminSteps
    BY DEF AdminSteps
  <2> QED BY <1>1, <1>2, <2>1, GoesFields
<1>4. Acts(a) /\ UNCHANGED <<keys, dir, moved>>
  BY DEF Acts, MoveFails, CopyFails, ghosts
<1> QED BY <1>1, <1>3, <1>4, SourceStaysPlaces DEF InOld, Busy

LEMMA RetryPlaces ==
  ASSUME TypeInv, OrderInv, Places, NEW a \in Admins, Retry(a) PROVE Places'
<1>1. admin[a] \in AnOrder /\ admin[a].step = "retry" /\ Busy(a)
  BY RetryShape DEF Busy
<1>2. admin'[a] = Idle \/ (Likewise(admin'[a], admin[a]) /\ admin'[a].step = "copy")
  BY RetryFields
<1>3. Acts(a) /\ UNCHANGED <<keys, moved>>
  BY DEF Acts, Retry, ghosts
<1>4. GoodOrder(admin[a])
  BY <1>1 DEF OrderInv
<1>5. admin[a].old # admin[a].new
  BY <1>1, <1>4 DEF GoodOrder, AnOrder
<1>6. \A n \in Names : dir'[n] = IF n = admin[a].new THEN 0 ELSE dir[n]
  BY PlaceTypes DEF Retry
<1>7. InOld(a)
  BY <1>1 DEF InOld
<1>8. admin'[a] = Idle \/ (Busy(a)' /\ InOld(a)' /\ Likewise(admin'[a], admin[a]))
  BY <1>2 DEF InOld, Busy
<1> QED BY <1>1, <1>3, <1>5, <1>6, <1>7, <1>8, SourceStaysPlaces

LEMMA DropPlaces ==
  ASSUME TypeInv, OrderInv, KnownInv, Places, NEW a \in Admins, Drop(a) PROVE Places'
<1>1. Acts(a) /\ UNCHANGED <<keys, moved, scope>>
  BY DEF Acts, Drop
<1>2. Lasting(a) /\ admin[a] \in AnOrder /\ Busy(a) /\ admin'[a] = Idle
  BY <1>1, ActsLast, ActsFacts, FailsShape DEF Drop
<1>3. admin[a].step = "drop" /\ InOld(a)
  BY DEF Drop, At, InOld
<1>4. \A n \in Names : dir'[n] = IF n = admin[a].old THEN 0 ELSE dir[n]
  BY PlaceTypes DEF Drop
<1>5. Elsewhere(a) /\ Carries(a) /\ Frees(a)
  BY <1>1, <1>2, <1>3, <1>4, FilesElsewhere, FilesCarry, NotLockFrees
<1>6. Brings(a)
  <2>1. ASSUME NEW i \in Ids, NEW v \in Safe, v \in Safe', Brought(a, "d", i, v) PROVE FALSE
    <3>1. PICK o \in Names : o = admin[a].old
      BY <1>2 DEF AnOrder
    <3>2. AtKey("d", o, KeyName(o), i, v)
      BY <1>3, <2>1, <3>1 DEF Brought, Proper
    <3>3. v # 0
      BY <2>1, SafeVersions DEF KnownInv
    <3>4. dir[o] # 0 /\ v \in Docs(dir[o])
      BY <3>2, <3>3, AtKeyIsIn, InDocs
    <3>5. v \notin kept'
      BY <3>1, <3>4 DEF Drop
    <3> QED BY <2>1, <3>5 DEF Safe
  <2> QED BY <2>1 DEF Brings
<1>7. ~Busy(a)'
  BY <1>2 DEF Busy, Idle
<1> QED BY <1>1, <1>2, <1>5, <1>6, <1>7, OrderPlaces

(* What an order whose migration is not under way has to show of its       *)
(* documents after a step of it.                                           *)
LEMMA QuietDocs ==
  ASSUME TypeInv, Places, NEW a \in Admins,
         Lasting(a), admin[a].step \notin Touching, admin'[a].docs = admin[a].docs,
         admin'[a].kind # "s", admin'[a].step \notin {"write", "delete"},
         \A kind \in {"d", "s"}, i \in Ids : \A v : v \in Safe /\ v \in Safe' /\ Brought(a, "d", i, v)
                                 /\ Brought(a, kind, i, v) => Brought(a, kind, i, v)'
  PROVE  \A doc \in admin'[a].docs : doc.v \in Safe' => DocOf(a, doc)'
<1>1. ASSUME NEW doc \in admin'[a].docs, doc.v \in Safe' PROVE DocOf(a, doc)'
  <2>1. doc.v \in Safe /\ DocOf(a, doc)
    BY <1>1 DEF Places, DocsInv, Lasting
  <2>2. doc.id \in Ids
    <3>1. admin[a] \in AnOrder
      BY OrderFacts DEF Lasting, Busy
    <3> QED BY <1>1, <3>1 DEF AnOrder, Doc
  <2>3. Brought(a, "d", doc.id, doc.v) /\ (doc.indexed /\ sweeps = 0 => Brought(a, "s", doc.id, doc.v))
    BY <2>1 DEF DocOf
  <2>4. Brought(a, "d", doc.id, doc.v)' /\ (doc.indexed /\ sweeps' = 0 => Brought(a, "s", doc.id, doc.v)')
    BY <1>1, <2>1, <2>2, <2>3 DEF Lasting
  <2> QED BY <2>4 DEF DocOf
<1> QED BY <1>1

LEMMA MovePlaces ==
  ASSUME TypeInv, OrderInv, PoolInv, KnownInv, Places, NEW a \in Admins, Move(a) PROVE Places'
<1>1. Acts(a) /\ UNCHANGED <<keys, moved, scope>>
  BY DEF Acts, Move, ghosts
<1>2. Lasting(a) /\ admin[a] \in AnOrder /\ Busy(a) /\ GoodOrder(admin[a])
  BY <1>1, ActsLast, ActsFacts DEF OrderInv
<1>3. admin[a].step = "move" /\ InOld(a)
  BY DEF Move, At, InOld
<1>4. PICK o \in Names, w \in Names : /\ o = admin[a].old /\ w = admin[a].new /\ Touches(a, o) /\ Touches(a, w)
                                      /\ \A n : Touches(a, n) => n \in {o, w}
  BY <1>2, OrderNames
<1>5. o # w /\ admin[a].h = 0 /\ admin[a].kind = "d"
  BY <1>2, <1>3, <1>4, GoodKinds DEF Touching, GoodOrder
<1>6. \A n \in Names : dir'[n] = IF n = w THEN dir[o] ELSE IF n = o THEN 0 ELSE dir[n]
  BY <1>4, <1>5, PlaceTypes DEF Move
<1>7. dir[o] # 0 /\ dir[w] = 0
  BY <1>4 DEF Move
<1>8. /\ admin'[a].old = o /\ admin'[a].new = w /\ admin'[a].h = 0 /\ admin'[a].kind = "d"
      /\ admin'[a].docs = admin[a].docs /\ Busy(a)'
      /\ admin'[a].step = IF scope = "block" THEN "open" ELSE "meta"
  <2>1. admin[a] # Idle /\ {"open", "meta"} \subseteq AdminSteps
    BY <1>2 DEF Busy, Idle, AdminSteps
  <2>2. Goes(a, "open") \/ Goes(a, "meta")
    BY DEF Move, AfterMove
  <2>3. Likewise(admin'[a], admin[a]) /\ admin'[a] # Idle
    BY <2>1, <2>2, GoesFields
  <2>4. admin'[a].step = IF scope = "block" THEN "open" ELSE "meta"
    BY <2>1, GoesFields DEF Move, AfterMove
  <2> QED BY <1>4, <1>5, <2>3, <2>4 DEF Likewise, Alike, Busy
<1>9. Elsewhere(a) /\ Frees(a)
  BY <1>1, <1>2, <1>3, <1>4, <1>6, FilesElsewhere, NotLockFrees
<1>10. Carries(a)
  <2>1. ASSUME NEW n \in Names, NEW v, In(v, n)'
        PROVE  \E m \in Names : In(v, m) /\ (m = n \/ (Touches(a, n) /\ Touches(a, m)))
    <3>1. CASE n = w
      <4>1. In(v, o)
        BY <1>1, <1>6, <1>7, <2>1, <3>1 DEF In
      <4> QED BY <1>4, <3>1, <4>1
    <3>2. CASE n # w
      <4>1. In(v, n)
        BY <1>1, <1>6, <2>1, <3>2 DEF In
      <4> QED BY <4>1
    <3> QED BY <3>1, <3>2
  <2> QED BY <2>1 DEF Carries
<1>11. ASSUME NEW kind \in {"d", "s"}, NEW i \in Ids, NEW v, Brought(a, kind, i, v)
       PROVE  Brought(a, kind, i, v)'
  <2>1. AtKey(kind, o, KeyName(o), i, v)
    BY <1>3, <1>4, <1>11 DEF Brought, Proper
  <2>2. KeyName(o)' = KeyName(o)
    BY <1>1 DEF KeyName
  <2>3. AtKey(kind, w, KeyName(o), i, v)'
    BY <1>1, <1>6, <1>7, <2>1, <2>2 DEF AtKey
  <2>4. CASE scope = "block"
    <3>1. ~InOld(a)' /\ OldKeys(a, kind)' /\ Reads(a, kind, i, v)'
      BY <1>8, <2>4 DEF InOld, OldKeys, Reads
    <3> QED BY <1>8, <2>3, <3>1 DEF Brought
  <2>5. CASE scope # "block"
    <3>1. ~InOld(a)' /\ ~OldKeys(a, kind)'
      BY <1>8, <2>5 DEF InOld, OldKeys
    <3>2. KeyName(o)' = KeyName(w)'
      BY <1>1, <2>5 DEF KeyName
    <3>3. AtKey(kind, w, KeyName(w), i, v)'
      BY <2>3, <3>2 DEF AtKey
    <3> QED BY <1>8, <3>1, <3>3 DEF Brought, Proper
  <2> QED BY <2>4, <2>5
<1>12. Brings(a)
  BY <1>8, <1>11 DEF Brings
<1>13. Busy(a)' => PairsOf(a)'
  BY <1>8 DEF PairsOf
<1>14. \A doc \in admin'[a].docs : doc.v \in Safe' => DocOf(a, doc)'
  <2>1. admin[a].step \notin Touching /\ admin'[a].kind # "s" /\ admin'[a].step \notin {"write", "delete"}
    BY <1>3, <1>8 DEF Touching
  <2> QED BY <1>2, <1>8, <1>11, <2>1, QuietDocs
<1> QED BY <1>1, <1>2, <1>9, <1>10, <1>12, <1>13, <1>14, OrderPlaces

LEMMA RemoveSourcePlaces ==
  ASSUME TypeInv, OrderInv, PoolInv, KnownInv, Places, NEW a \in Admins,
         RemoveSource(a) PROVE Places'
<1>1. Acts(a) /\ UNCHANGED <<keys, moved, scope>>
  BY DEF Acts, RemoveSource, ghosts
<1>2. Lasting(a) /\ admin[a] \in AnOrder /\ Busy(a) /\ GoodOrder(admin[a])
  BY <1>1, ActsLast, ActsFacts DEF OrderInv
<1>3. admin[a].step = "remove"
  BY DEF RemoveSource, At
<1>4. PICK o \in Names, w \in Names : /\ o = admin[a].old /\ w = admin[a].new /\ Touches(a, o) /\ Touches(a, w)
                                      /\ \A n : Touches(a, n) => n \in {o, w}
  BY <1>2, OrderNames
<1>5. o # w /\ admin[a].h = 0 /\ admin[a].kind = "d"
  BY <1>2, <1>3, <1>4, GoodKinds DEF Touching, GoodOrder
<1>6. \A n \in Names : dir'[n] = dir[n] \/ (n = o /\ dir'[n] = 0)
  BY <1>4, PlaceTypes DEF RemoveSource
<1>8. /\ admin'[a].old = o /\ admin'[a].new = w /\ admin'[a].h = 0 /\ admin'[a].kind = "d"
      /\ admin'[a].docs = admin[a].docs /\ Busy(a)'
      /\ admin'[a].step = IF scope = "block" THEN "open" ELSE "meta"
  <2>1. admin[a] # Idle /\ {"open", "meta"} \subseteq AdminSteps
    BY <1>2 DEF Busy, Idle, AdminSteps
  <2>2. Goes(a, "open") \/ Goes(a, "meta")
    BY DEF RemoveSource, AfterMove
  <2>3. Likewise(admin'[a], admin[a]) /\ admin'[a] # Idle
    BY <2>1, <2>2, GoesFields
  <2>4. admin'[a].step = IF scope = "block" THEN "open" ELSE "meta"
    BY <2>1, GoesFields DEF RemoveSource, AfterMove
  <2> QED BY <1>4, <1>5, <2>3, <2>4 DEF Likewise, Alike, Busy
<1>9. Elsewhere(a) /\ Frees(a) /\ Carries(a)
  BY <1>1, <1>2, <1>3, <1>4, <1>6, FilesElsewhere, NotLockFrees, FilesCarry
<1>11. ASSUME NEW kind \in {"d", "s"}, NEW i \in Ids, NEW v, Brought(a, kind, i, v)
       PROVE  Brought(a, kind, i, v)'
  <2>1. AtKey(kind, w, KeyName(o), i, v)
    BY <1>3, <1>4, <1>11 DEF Brought, InOld, OldKeys
  <2>2. KeyName(o)' = KeyName(o)
    BY <1>1 DEF KeyName
  <2>3. AtKey(kind, w, KeyName(o), i, v)'
    BY <1>1, <1>5, <1>6, <2>1, <2>2 DEF AtKey
  <2>4. CASE scope = "block"
    <3>1. ~InOld(a)' /\ OldKeys(a, kind)' /\ Reads(a, kind, i, v)'
      BY <1>8, <2>4 DEF InOld, OldKeys, Reads
    <3> QED BY <1>8, <2>3, <3>1 DEF Brought
  <2>5. CASE scope # "block"
    <3>1. ~InOld(a)' /\ ~OldKeys(a, kind)'
      BY <1>8, <2>5 DEF InOld, OldKeys
    <3>2. KeyName(o)' = KeyName(w)'
      BY <1>1, <2>5 DEF KeyName
    <3>3. AtKey(kind, w, KeyName(w), i, v)'
      BY <2>3, <3>2 DEF AtKey
    <3> QED BY <1>8, <3>1, <3>3 DEF Brought, Proper
  <2> QED BY <2>4, <2>5
<1>12. Brings(a)
  BY <1>8, <1>11 DEF Brings
<1>13. Busy(a)' => PairsOf(a)'
  BY <1>8 DEF PairsOf
<1>14. \A doc \in admin'[a].docs : doc.v \in Safe' => DocOf(a, doc)'
  <2>1. admin[a].step \notin Touching /\ admin'[a].kind # "s" /\ admin'[a].step \notin {"write", "delete"}
    BY <1>3, <1>8 DEF Touching
  <2> QED BY <1>2, <1>8, <1>11, <2>1, QuietDocs
<1> QED BY <1>1, <1>2, <1>9, <1>12, <1>13, <1>14, OrderPlaces

LEMMA CopyPlaces ==
  ASSUME TypeInv, OrderInv, PoolInv, FreshInv, KnownInv, Places, NEW a \in Admins,
         Copy(a) PROVE Places'
<1>1. Acts(a) /\ UNCHANGED <<moved, scope>>
  BY DEF Acts, Copy
<1>2. Lasting(a) /\ admin[a] \in AnOrder /\ Busy(a) /\ GoodOrder(admin[a])
  BY <1>1, ActsLast, ActsFacts DEF OrderInv
<1>3. admin[a].step = "copy" /\ InOld(a)
  BY DEF Copy, At, InOld
<1>4. PICK o \in Names, w \in Names : /\ o = admin[a].old /\ w = admin[a].new /\ Touches(a, o) /\ Touches(a, w)
                                      /\ \A n : Touches(a, n) => n \in {o, w}
  BY <1>2, OrderNames
<1>5. o # w /\ admin[a].h = 0 /\ admin[a].kind = "d"
  BY <1>2, <1>3, <1>4, GoodKinds DEF Touching, GoodOrder
<1>6. PICK s, t : /\ s = dir[o] /\ t = IF dir[w] = 0 THEN made + 1 ELSE dir[w]
                  /\ s \in Stores /\ t \in Stores
                  /\ dir' = [dir EXCEPT ![w] = t]
                  /\ \A u \in Stores : u # t => keys'[u] = keys[u]
                  /\ keys'[t] = keys[s] \/ keys'[t] = NoKeys \/ (keys'[t] = keys[t] /\ Open(t))
                  /\ Goes(a, "remove") \/ Goes(a, "retry")
                  /\ Goes(a, "remove") => keys'[t] = keys[s] \/ Open(t)
                  /\ contested' = IF Open(t) THEN contested \cup Docs(s) ELSE contested
  BY <1>4, CopyFacts
<1>7. /\ \A n \in Names : dir'[n] = IF n = w THEN t ELSE dir[n]
      /\ made \in Nat /\ \A n \in Names : dir[n] \in Nat /\ dir[n] <= made
  BY <1>6, PlaceTypes DEF PoolInv, Directories
<1>8. \A n \in Names : n # w => dir[n] # t
  <2>1. ASSUME NEW n \in Names, n # w, dir[n] = t PROVE FALSE
    <3>1. CASE dir[w] = 0
      <4>1. t = made + 1
        BY <1>6, <3>1
      <4> QED BY <1>7, <2>1, <4>1
    <3>2. CASE dir[w] # 0
      BY <1>6, <2>1, <3>2 DEF PoolInv, Directories, Apart
    <3> QED BY <3>1, <3>2
  <2> QED BY <2>1
<1>9. s # t /\ s # 0 /\ t # 0
  BY <1>4, <1>5, <1>6, <1>8, Numbers
<1>10. /\ admin'[a].old = o /\ admin'[a].new = w /\ admin'[a].h = 0 /\ admin'[a].kind = "d"
       /\ admin'[a].docs = admin[a].docs /\ Busy(a)'
       /\ admin'[a].step \in {"remove", "retry"}
       /\ admin'[a].step = "remove" => keys'[t] = keys[s] \/ Open(t)
  <2>1. admin[a] # Idle /\ {"remove", "retry"} \subseteq AdminSteps
    BY <1>2 DEF Busy, Idle, AdminSteps
  <2>2. Likewise(admin'[a], admin[a]) /\ admin'[a] # Idle
    BY <1>6, <2>1, GoesFields
  <2>3. (Goes(a, "remove") => admin'[a].step = "remove") /\ (Goes(a, "retry") => admin'[a].step = "retry")
    BY <2>1, GoesFields
  <2> QED BY <1>4, <1>5, <1>6, <2>2, <2>3 DEF Likewise, Alike, Busy
<1>11. \A n \in Names : n # w /\ dir[n] # 0 => dir'[n] = dir[n] /\ keys'[dir[n]] = keys[dir[n]]
  <2>1. ASSUME NEW n \in Names, n # w, dir[n] # 0
        PROVE  dir'[n] = dir[n] /\ keys'[dir[n]] = keys[dir[n]]
    <3>1. dir[n] \in Stores
      BY <2>1, PlaceTypes, Numbers
    <3> QED BY <1>6, <1>7, <1>8, <2>1, <3>1
  <2> QED BY <2>1
<1>12. Elsewhere(a) /\ Frees(a)
  <2>1. \A n \in Names : ~Touches(a, n) /\ dir[n] # 0 => dir'[n] = dir[n] /\ keys'[dir[n]] = keys[dir[n]]
    BY <1>4, <1>11
  <2> QED BY <1>3, <2>1, NotLockFrees DEF Elsewhere, Stays
<1>13. Carries(a)
  <2>1. ASSUME NEW n \in Names, NEW v, v \in Safe', In(v, n)'
        PROVE  \E m \in Names : In(v, m) /\ (m = n \/ (Touches(a, n) /\ Touches(a, m)))
    <3>1. v # 0
      BY <1>2, <2>1, SafeVersions DEF KnownInv, Lasting
    <3>2. CASE n # w
      <4>1. dir[n] # 0
        BY <1>7, <2>1, <3>2 DEF In
      <4>2. In(v, n)
        BY <1>11, <2>1, <3>2, <4>1 DEF In
      <4> QED BY <4>2
    <3>3. CASE n = w
      <4>1. PICK k \in KeyNames, i \in Ids : keys'[t]["d"][k][i] = v
        BY <1>7, <2>1, <3>3 DEF In
      <4>2. CASE keys'[t] = keys[s]
        <5>1. In(v, o)
          BY <1>6, <1>9, <4>1, <4>2 DEF In
        <5> QED BY <1>4, <3>3, <5>1
      <4>3. CASE keys'[t] = NoKeys
        BY <3>1, <4>1, <4>3 DEF NoKeys
      <4>4. CASE keys'[t] = keys[t]
        <5>1. CASE dir[w] = 0
          <6>1. t = made + 1
            BY <1>6, <5>1
          <6>2. t > made
            BY <1>7, <6>1
          <6>3. keys[t]["d"][k][i] = 0
            BY <1>6, <6>2 DEF FreshInv
          <6> QED BY <3>1, <4>1, <4>4, <6>3
        <5>2. CASE dir[w] # 0
          <6>1. In(v, w)
            BY <1>6, <4>1, <4>4, <5>2 DEF In
          <6> QED BY <3>3, <6>1
        <5> QED BY <5>1, <5>2
      <4> QED BY <1>6, <4>2, <4>3, <4>4
    <3> QED BY <3>2, <3>3
  <2> QED BY <2>1 DEF Carries
<1>14. ASSUME NEW kind \in {"d", "s"}, NEW i \in Ids, NEW v \in Safe, v \in Safe',
              Brought(a, "d", i, v), Brought(a, kind, i, v)
       PROVE  Brought(a, kind, i, v)'
  <2>1. AtKey(kind, o, KeyName(o), i, v) /\ AtKey("d", o, KeyName(o), i, v)
    BY <1>3, <1>4, <1>14 DEF Brought, Proper
  <2>2. KeyName(o)' = KeyName(o)
    BY <1>1 DEF KeyName
  <2>3. CASE admin'[a].step = "retry"
    <3>1. AtKey(kind, o, KeyName(o), i, v)'
      BY <1>5, <1>11, <2>1, <2>2 DEF AtKey
    <3> QED BY <1>10, <2>3, <3>1 DEF Brought, InOld, Proper
  <2>4. CASE admin'[a].step = "remove"
    <3>1. v \in Docs(s)
      BY <1>6, <2>1, SafeVersions, AtKeyIsIn, InDocs DEF KnownInv
    <3>2. ~Open(t)
      BY <1>6, <1>14, <3>1 DEF Safe
    <3>3. keys'[t] = keys[s]
      BY <1>10, <2>4, <3>2
    <3>4. AtKey(kind, w, KeyName(o), i, v)'
      BY <1>6, <1>7, <1>9, <2>1, <2>2, <3>3 DEF AtKey
    <3>5. ~InOld(a)' /\ OldKeys(a, kind)' /\ Reads(a, kind, i, v)'
      BY <1>10, <2>4 DEF InOld, OldKeys, Reads
    <3> QED BY <1>10, <3>4, <3>5 DEF Brought
  <2> QED BY <1>10, <2>3, <2>4
<1>15. Brings(a)
  BY <1>10, <1>14 DEF Brings
<1>16. Busy(a)' => PairsOf(a)'
  BY <1>10 DEF PairsOf
<1>17. \A doc \in admin'[a].docs : doc.v \in Safe' => DocOf(a, doc)'
  <2>1. admin[a].step \notin Touching /\ admin'[a].kind # "s" /\ admin'[a].step \notin {"write", "delete"}
    BY <1>3, <1>10 DEF Touching
  <2> QED BY <1>2, <1>10, <1>14, <2>1, QuietDocs
<1> QED BY <1>1, <1>2, <1>12, <1>13, <1>15, <1>16, <1>17, OrderPlaces

-----------------------------------------------------------------------------
(* The migration brings its documents on *)

(* A document that still has its old key in the renamed directory.         *)
LEMMA IsBehind ==
  ASSUME TypeInv, NEW a \in Admins, admin[a] \in AnOrder, NEW i \in Ids, NEW v, v # 0,
         scope = "block", AtKey("d", admin[a].new, KeyName(admin[a].old), i, v)
  PROVE  v \in Behind(a)
BY DEF AtKey, KeyName, Behind, Under

LEMMA MigrateOpensPlaces ==
  ASSUME TypeInv, OrderInv, PoolInv, FreshInv, KnownInv, Places, NEW a \in Admins,
         MigrateOpens(a) PROVE Places'
<1>1. Acts(a) /\ UNCHANGED <<keys, moved, scope>>
  BY DEF Acts, MigrateOpens
<1>2. Lasting(a) /\ admin[a] \in AnOrder /\ Busy(a) /\ GoodOrder(admin[a])
  BY <1>1, ActsLast, ActsFacts DEF OrderInv
<1>3. admin[a].step = "open"
  BY DEF MigrateOpens, At
<1>4. PICK o \in Names, w \in Names : /\ o = admin[a].old /\ w = admin[a].new /\ Touches(a, o) /\ Touches(a, w)
                                      /\ \A n : Touches(a, n) => n \in {o, w}
  BY <1>2, OrderNames
<1>5. o # w /\ admin[a].h = 0 /\ admin[a].kind = "d" /\ scope = "block"
  <2>1. scope = "block"
    BY <1>2, <1>3 DEF GoodOrder, TypeInv
  <2> QED BY <1>2, <1>3, <1>4, <2>1, GoodKinds DEF Touching, GoodOrder
<1>6. \A n \in Names : dir'[n] = dir[n] \/ (n = w /\ dir[n] = 0 /\ dir'[n] > made)
  <2>1. CASE CanOpen(w)
    <3>1. Opens(w)
      BY <1>4, <2>1 DEF MigrateOpens, Opens, OpenPath
    <3> QED BY <3>1, OpensFacts DEF PoolInv
  <2>2. CASE ~CanOpen(w)
    BY <1>4, <2>2, MigrateOpensShape
  <2> QED BY <2>1, <2>2
<1>7. CanOpen(w) => /\ admin'[a].old = o /\ admin'[a].new = w /\ admin'[a].step = "read" /\ admin'[a].kind = "d"
                    /\ admin'[a].docs = admin[a].docs /\ Busy(a)'
  BY <1>4, <1>5, OpensFields DEF Alike, Busy
<1>8. ~CanOpen(w) => admin'[a] = Idle /\ stranded' = stranded \cup Behind(a)
  BY <1>4, MigrateOpensShape DEF MigrateOpens
<1>9. Elsewhere(a) /\ Frees(a)
  BY <1>1, <1>2, <1>3, <1>4, <1>6, FilesElsewhere, NotLockFrees
<1>10. Carries(a)
  <2>1. ASSUME NEW n \in Names, NEW v, v \in Safe', In(v, n)' PROVE In(v, n)
    <3>1. v # 0
      BY <1>2, <2>1, SafeVersions DEF KnownInv, Lasting
    <3>2. CASE dir'[n] = dir[n]
      BY <1>1, <2>1, <3>2 DEF In
    <3>3. CASE dir'[n] > made
      <4>1. TypeInv'
        BY MigrateOpensTypes
      <4>2. dir'[n] \in 0 .. MaxStores /\ dir'[n] # 0
        BY <2>1, <4>1 DEF TypeInv, In
      <4>3. dir'[n] \in Stores
        BY <4>2, Numbers
      <4>4. PICK k \in KeyNames, i \in Ids : keys'[dir'[n]]["d"][k][i] = v
        BY <2>1 DEF In
      <4> QED BY <1>1, <3>1, <3>3, <4>3, <4>4 DEF FreshInv
    <3> QED BY <1>6, <3>2, <3>3
  <2> QED BY <2>1 DEF Carries
<1>11. ASSUME NEW kind \in {"d", "s"}, NEW i \in Ids, NEW v \in Safe, v \in Safe',
              Brought(a, "d", i, v), Brought(a, kind, i, v)
       PROVE  CanOpen(w) /\ Brought(a, kind, i, v)'
  <2>1. AtKey(kind, w, KeyName(o), i, v) /\ AtKey("d", w, KeyName(o), i, v)
    BY <1>3, <1>4, <1>11 DEF Brought, InOld, OldKeys
  <2>2. CanOpen(w)
    <3>1. v \in Behind(a)
      BY <1>2, <1>4, <1>5, <2>1, IsBehind, SafeVersions DEF KnownInv
    <3> QED BY <1>8, <1>11, <3>1 DEF Safe
  <2>3. AtKey(kind, w, KeyName(o), i, v)'
    BY <1>1, <1>6, <2>1 DEF AtKey, KeyName
  <2>4. ~InOld(a)' /\ OldKeys(a, kind)' /\ Reads(a, kind, i, v)'
    BY <1>7, <2>2 DEF InOld, OldKeys, Reads
  <2> QED BY <1>7, <2>2, <2>3, <2>4 DEF Brought
<1>12. Brings(a)
  BY <1>7, <1>11 DEF Brings
<1>13. Busy(a)' => CanOpen(w)
  BY <1>8 DEF Busy, Idle
<1>14. Busy(a)' => PairsOf(a)'
  BY <1>7, <1>13 DEF PairsOf
<1>15. Busy(a)' => \A doc \in admin'[a].docs : doc.v \in Safe' => DocOf(a, doc)'
  <2>1. admin[a].step \notin Touching
    BY <1>3 DEF Touching
  <2> QED BY <1>2, <1>7, <1>11, <1>13, <2>1, QuietDocs
<1> QED BY <1>1, <1>2, <1>9, <1>10, <1>12, <1>14, <1>15, OrderPlaces

LEMMA MigrateReadsPlaces ==
  ASSUME TypeInv, OrderInv, PoolInv, KnownInv, Places, NEW a \in Admins,
         MigrateReads(a) PROVE Places'
<1>1. Acts(a) /\ UNCHANGED <<keys, dir, moved, scope>>
  BY DEF Acts, MigrateReads
<1>2. Lasting(a) /\ admin[a] \in AnOrder /\ Busy(a) /\ GoodOrder(admin[a])
  BY <1>1, ActsLast, ActsFacts DEF OrderInv
<1>3. admin[a].step = "read" /\ Working(a, "read") /\ "read" \in Touching
  BY DEF MigrateReads, Working, At, Touching
<1>4. PICK o \in Names, w \in Names : /\ o = admin[a].old /\ w = admin[a].new /\ Touches(a, o) /\ Touches(a, w)
                                      /\ \A n : Touches(a, n) => n \in {o, w}
  BY <1>2, OrderNames
<1>5. PICK h \in Stores : h = admin[a].h /\ h # 0
  BY <1>3, WorkingFacts DEF Working
<1>6. scope = "block" /\ admin[a].kind \in {"d", "s"} /\ KeyName(o) = o
  <2>1. scope = "block" /\ admin[a].kind \in {"d", "s"}
    BY <1>3, WorkingFacts
  <2> QED BY <2>1 DEF KeyName
<1>7. /\ admin'[a].old = o /\ admin'[a].new = w /\ admin'[a].step = "write" /\ admin'[a].kind = admin[a].kind
      /\ admin'[a].h = h /\ admin'[a].docs = admin[a].docs /\ Busy(a)'
      /\ admin'[a].pairs = keys[h][admin[a].kind][o]
  BY <1>4, <1>5, ReadsFields DEF Likewise, Alike, Busy
<1>8. h # dir[w] => stranded' = stranded \cup Behind(a) \cup Under(h, o)
  BY <1>4, <1>5 DEF MigrateReads
<1>9. Elsewhere(a) /\ Frees(a) /\ Carries(a)
  BY <1>1, <1>2, <1>3, <1>4, FilesElsewhere, NotLockFrees, FilesCarry
<1>10. ASSUME NEW i \in Ids, NEW v \in Safe, v \in Safe', Brought(a, "d", i, v), admin[a].kind = "d"
       PROVE  h = dir[w]
  <2>1. AtKey("d", w, KeyName(o), i, v)
    BY <1>3, <1>4, <1>10 DEF Brought, InOld, OldKeys
  <2>2. v \in Behind(a)
    BY <1>2, <1>4, <1>6, <2>1, IsBehind, SafeVersions DEF KnownInv
  <2> QED BY <1>8, <1>10, <2>2 DEF Safe
<1>11. ASSUME NEW kind \in {"d", "s"}, NEW i \in Ids, NEW v,
              Brought(a, kind, i, v), kind = admin[a].kind => h = dir[w]
       PROVE  Brought(a, kind, i, v)'
  <2>1. ~InOld(a) /\ ~InOld(a)' /\ (OldKeys(a, kind) <=> OldKeys(a, kind)')
    BY <1>3, <1>7 DEF InOld, OldKeys
  <2>2. CASE OldKeys(a, kind)
    <3>1. AtKey(kind, w, KeyName(o), i, v)
      BY <1>4, <1>11, <2>1, <2>2 DEF Brought
    <3>2. Reads(a, kind, i, v)'
      BY <1>1, <1>6, <1>7, <1>11, <3>1 DEF Reads, AtKey
    <3>3. AtKey(kind, w, KeyName(o), i, v)'
      BY <1>1, <3>1 DEF AtKey, KeyName
    <3> QED BY <1>7, <2>1, <2>2, <3>2, <3>3 DEF Brought
  <2>3. CASE ~OldKeys(a, kind)
    <3>1. Proper(kind, w, i, v)
      BY <1>4, <1>11, <2>1, <2>3 DEF Brought
    <3>2. Proper(kind, w, i, v)'
      BY <1>1, <3>1, StillProper
    <3> QED BY <1>7, <2>1, <2>3, <3>2 DEF Brought, Proper
  <2> QED BY <2>2, <2>3
<1>12. Brings(a)
  <2>1. ASSUME NEW i \in Ids, NEW v \in Safe, v \in Safe', Brought(a, "d", i, v)
        PROVE  Brought(a, "d", i, v)'
    BY <1>10, <1>11, <2>1
  <2> QED BY <1>7, <2>1 DEF Brings
<1>13. PairsOf(a)'
  <2>1. ASSUME admin[a].kind = "d", NEW i \in Ids, NEW v, v \in Safe', v = keys[h]["d"][o][i]
        PROVE  h = dir[w] /\ AtKey("d", w, KeyName(o), i, v)
    <3>1. v # 0
      BY <1>2, <2>1, SafeVersions DEF KnownInv, Lasting
    <3>2. h = dir[w]
      <4>1. v \in Under(h, o)
        BY <1>5, <2>1, <3>1 DEF Under
      <4> QED BY <1>8, <2>1, <4>1 DEF Safe
    <3> QED BY <1>5, <1>6, <2>1, <3>2 DEF AtKey
  <2>2. ASSUME admin[a].kind = "d", NEW i \in Ids, NEW v, v \in Safe', v = keys[h]["d"][o][i]
        PROVE  h = dir'[w] /\ AtKey("d", w, KeyName(o), i, v)'
    BY <1>1, <2>1, <2>2, StillProper DEF AtKey, KeyName
  <2> QED BY <1>7, <2>2 DEF PairsOf
<1>14. ASSUME NEW doc \in admin'[a].docs, doc.v \in Safe' PROVE DocOf(a, doc)'
  <2>1. doc.v \in Safe /\ DocOf(a, doc) /\ doc.id \in Ids
    BY <1>2, <1>7, <1>14 DEF Places, DocsInv, Lasting, AnOrder, Doc
  <2>2. Brought(a, "d", doc.id, doc.v)
    BY <2>1 DEF DocOf
  <2>3. h = dir[w]
    <3>1. CASE admin[a].kind = "d"
      BY <1>10, <1>14, <2>1, <2>2, <3>1
    <3>2. CASE admin[a].kind = "s"
      <4>1. Fits(a)
        BY <2>1, <3>2 DEF DocOf
      <4> QED BY <1>4, <1>5, <4>1 DEF Fits
    <3> QED BY <1>6, <3>1, <3>2
  <2>4. Fits(a)'
    BY <1>1, <1>7, <2>3 DEF Fits
  <2>5. Brought(a, "d", doc.id, doc.v)'
    BY <1>11, <2>1, <2>2, <2>3
  <2>6. doc.indexed /\ sweeps' = 0 => Brought(a, "s", doc.id, doc.v)'
    <3>1. ASSUME doc.indexed, sweeps' = 0 PROVE Brought(a, "s", doc.id, doc.v)'
      <4>1. Brought(a, "s", doc.id, doc.v)
        BY <1>2, <1>5, <2>1, <3>1 DEF DocOf, Lasting
      <4> QED BY <1>11, <2>1, <2>3, <4>1
    <3> QED BY <3>1
  <2> QED BY <2>4, <2>5, <2>6 DEF DocOf
<1> QED BY <1>1, <1>2, <1>9, <1>12, <1>13, <1>14, OrderPlaces

LEMMA RowElsewhere ==
  ASSUME TypeInv, UNCHANGED <<scope, dir>>, scope = "block", NEW a \in Admins, NEW r \in Names,
         Touches(a, r),
         \A t \in Stores, x \in {"d", "s"}, m \in KeyNames, j \in Ids :
            m # r => keys'[t][x][m][j] = keys[t][x][m][j]
  PROVE  Elsewhere(a)
<1>1. ASSUME NEW kind \in {"d", "s"}, NEW n \in Names, NEW m \in Names, ~Touches(a, m)
      PROVE  Stays(kind, n, m)
  <2>1. m # r /\ KeyName(m) = m /\ m \in KeyNames
    BY <1>1 DEF KeyName, KeyNames
  <2>2. dir[n] # 0 => dir[n] \in Stores
    BY PlaceTypes, Numbers
  <2> QED BY <1>1, <2>1, <2>2 DEF Stays
<1> QED BY <1>1 DEF Elsewhere

LEMMA MigrateWritesPlaces ==
  ASSUME TypeInv, OrderInv, PoolInv, KnownInv, Places, NEW a \in Admins,
         MigrateWrites(a) PROVE Places'
<1>1. Acts(a) /\ UNCHANGED <<dir, moved, scope, kept, contested, purged, stranded>>
  BY DEF Acts, MigrateWrites, ghosts
<1>2. Lasting(a) /\ admin[a] \in AnOrder /\ Busy(a) /\ GoodOrder(admin[a]) /\ Safe' = Safe
  BY <1>1, ActsLast, ActsFacts DEF OrderInv, Safe
<1>3. admin[a].step = "write" /\ Working(a, "write") /\ "write" \in Touching
  BY DEF MigrateWrites, Working, At, Touching
<1>4. PICK o \in Names, w \in Names : /\ o = admin[a].old /\ w = admin[a].new /\ Touches(a, o) /\ Touches(a, w)
                                      /\ \A n : Touches(a, n) => n \in {o, w}
  BY <1>2, OrderNames
<1>5. PICK h \in Stores : h = admin[a].h /\ h # 0
  BY <1>3, WorkingFacts DEF Working
<1>6. /\ scope = "block" /\ admin[a].kind \in {"d", "s"} /\ KeyName(o) = o /\ KeyName(w) = w /\ o # w
      /\ o \in KeyNames /\ w \in KeyNames
  <2>1. scope = "block" /\ admin[a].kind \in {"d", "s"} /\ o # w /\ o \in KeyNames /\ w \in KeyNames
    BY <1>3, <1>4, WorkingFacts
  <2> QED BY <2>1 DEF KeyName
<1>7. /\ admin'[a].old = o /\ admin'[a].new = w /\ admin'[a].step = "delete" /\ admin'[a].kind = admin[a].kind
      /\ admin'[a].h = h /\ admin'[a].docs = admin[a].docs /\ Busy(a)' /\ admin'[a].pairs = admin[a].pairs
  <2>1. Goes(a, "delete") /\ "delete" \in AdminSteps /\ admin[a] # Idle
    BY <1>3 DEF MigrateWrites, AdminSteps, Idle
  <2> QED BY <1>4, <1>5, <2>1, GoesFields DEF Likewise, Alike, Busy
<1>8. \A t \in Stores, x \in {"d", "s"}, m \in KeyNames, j \in Ids :
         keys'[t][x][m][j] = IF t = h /\ x = admin[a].kind /\ m = w /\ admin[a].pairs[j] # 0
                             THEN admin[a].pairs[j] ELSE keys[t][x][m][j]
  BY <1>4, <1>5, MigrateWritesFacts
<1>9. Elsewhere(a) /\ Frees(a)
  BY <1>1, <1>3, <1>4, <1>6, <1>8, RowElsewhere, NotLockFrees
<1>10. Carries(a)
  <2>1. ASSUME NEW n \in Names, NEW v \in Safe, In(v, n)' PROVE In(v, n)
    <3>1. v # 0
      BY <2>1, SafeVersions DEF KnownInv
    <3>2. PICK k \in KeyNames, i \in Ids : keys'[dir[n]]["d"][k][i] = v /\ dir[n] # 0
      BY <1>1, <2>1 DEF In
    <3>3. dir[n] \in Stores
      BY <3>2, PlaceTypes, Numbers
    <3>4. CASE keys'[dir[n]]["d"][k][i] = keys[dir[n]]["d"][k][i]
      BY <3>2, <3>4 DEF In
    <3>5. CASE dir[n] = h /\ admin[a].kind = "d" /\ v = admin[a].pairs[i]
      <4>1. AtKey("d", w, KeyName(o), i, v) /\ h = dir[w]
        BY <1>2, <1>3, <1>4, <1>5, <3>5 DEF Places, PairsInv, PairsOf
      <4>2. n = w
        BY <3>2, <3>5, <4>1 DEF PoolInv, Directories, Apart
      <4> QED BY <4>1, <4>2, AtKeyIsIn
    <3> QED BY <1>8, <3>2, <3>3, <3>4, <3>5
  <2> QED BY <1>2, <2>1 DEF Carries
<1>11. ASSUME NEW kind \in {"d", "s"}, NEW i \in Ids, NEW v \in Safe, Brought(a, kind, i, v)
       PROVE  Brought(a, kind, i, v)'
  <2>1. ~InOld(a) /\ ~InOld(a)' /\ Reads(a, kind, i, v)'
    BY <1>3, <1>7 DEF InOld, Reads
  <2>2. v # 0
    BY SafeVersions DEF KnownInv
  <2>3. CASE kind = admin[a].kind
    <3>1. OldKeys(a, kind) /\ ~OldKeys(a, kind)'
      BY <1>3, <1>7, <2>3 DEF OldKeys
    <3>2. AtKey(kind, w, KeyName(o), i, v) /\ h = dir[w] /\ admin[a].pairs[i] = v
      BY <1>3, <1>4, <1>5, <1>11, <2>1, <2>3, <3>1 DEF Brought, Reads
    <3>3. Proper(kind, w, i, v)'
      BY <1>1, <1>5, <1>6, <1>8, <2>2, <2>3, <3>2 DEF Proper, AtKey, KeyName
    <3> QED BY <1>7, <2>1, <3>1, <3>3 DEF Brought, Proper
  <2>4. CASE kind # admin[a].kind
    <3>1. OldKeys(a, kind) <=> OldKeys(a, kind)'
      BY <1>3, <1>7, <2>4 DEF OldKeys
    <3>2. AtKey(kind, w, IF OldKeys(a, kind) THEN o ELSE w, i, v)
      BY <1>4, <1>6, <1>11, <2>1 DEF Brought, Proper
    <3>3. dir[w] \in Stores
      BY <3>2, PlaceTypes, Numbers DEF AtKey
    <3>4. AtKey(kind, w, IF OldKeys(a, kind) THEN o ELSE w, i, v)'
      BY <1>1, <1>6, <1>8, <2>4, <3>1, <3>2, <3>3 DEF AtKey
    <3> QED BY <1>1, <1>6, <1>7, <2>1, <3>1, <3>4 DEF Brought, Proper, KeyName
  <2> QED BY <2>3, <2>4
<1>12. Brings(a)
  BY <1>7, <1>11 DEF Brings
<1>13. PairsOf(a)'
  BY <1>7 DEF PairsOf
<1>14. ASSUME NEW doc \in admin'[a].docs, doc.v \in Safe' PROVE DocOf(a, doc)'
  <2>1. doc.v \in Safe /\ DocOf(a, doc) /\ doc.id \in Ids
    BY <1>2, <1>7, <1>14 DEF Places, DocsInv, Lasting, AnOrder, Doc
  <2>2. Brought(a, "d", doc.id, doc.v)'
    BY <1>11, <2>1 DEF DocOf
  <2>3. Fits(a)'
    BY <1>1, <1>3, <1>4, <1>5, <1>7, <2>1 DEF DocOf, Fits
  <2>4. doc.indexed /\ sweeps' = 0 => Brought(a, "s", doc.id, doc.v)'
    <3>1. ASSUME doc.indexed, sweeps' = 0 PROVE Brought(a, "s", doc.id, doc.v)'
      <4>1. Brought(a, "s", doc.id, doc.v)
        BY <1>2, <1>5, <2>1, <3>1 DEF DocOf, Lasting
      <4> QED BY <1>11, <2>1, <4>1
    <3> QED BY <3>1
  <2> QED BY <2>2, <2>3, <2>4 DEF DocOf
<1> QED BY <1>1, <1>2, <1>9, <1>10, <1>12, <1>13, <1>14, OrderPlaces

LEMMA MigrateDeletesPlaces ==
  ASSUME TypeInv, OrderInv, PoolInv, KnownInv, Places, NEW a \in Admins,
         MigrateDeletes(a) PROVE Places'
<1>1. Acts(a) /\ UNCHANGED <<dir, moved, scope, kept, contested, purged, stranded>>
  BY DEF Acts, MigrateDeletes, ghosts
<1>2. Lasting(a) /\ admin[a] \in AnOrder /\ Busy(a) /\ GoodOrder(admin[a]) /\ Safe' = Safe
  BY <1>1, ActsLast, ActsFacts DEF OrderInv, Safe
<1>3. admin[a].step = "delete" /\ Working(a, "delete") /\ "delete" \in Touching
  BY DEF MigrateDeletes, Working, At, Touching
<1>4. PICK o \in Names, w \in Names : /\ o = admin[a].old /\ w = admin[a].new /\ Touches(a, o) /\ Touches(a, w)
                                      /\ \A n : Touches(a, n) => n \in {o, w}
  BY <1>2, OrderNames
<1>5. PICK h \in Stores : h = admin[a].h /\ h # 0
  BY <1>3, WorkingFacts DEF Working
<1>6. /\ scope = "block" /\ admin[a].kind \in {"d", "s"} /\ KeyName(o) = o /\ KeyName(w) = w /\ o # w
      /\ o \in KeyNames /\ w \in KeyNames
  <2>1. scope = "block" /\ admin[a].kind \in {"d", "s"} /\ o # w /\ o \in KeyNames /\ w \in KeyNames
    BY <1>3, <1>4, WorkingFacts
  <2> QED BY <2>1 DEF KeyName
<1>7. /\ admin'[a].old = o /\ admin'[a].new = w /\ admin'[a].h = h /\ admin'[a].docs = admin[a].docs /\ Busy(a)'
      /\ admin[a].kind = "d" => admin'[a].step = "read" /\ admin'[a].kind = "s"
      /\ admin[a].kind = "s" => admin'[a].step = "meta" /\ admin'[a].kind = None
  <2>1. /\ admin'[a].old = o /\ admin'[a].new = w /\ admin'[a].h = h /\ admin'[a].docs = admin[a].docs
        /\ admin[a].kind = "d" => admin'[a].step = "read" /\ admin'[a].kind = "s"
        /\ admin[a].kind = "s" => admin'[a].step = "meta" /\ admin'[a].kind = None
    BY <1>4, <1>5, DeletesFields DEF Alike
  <2> QED BY <1>6, <2>1 DEF Busy
<1>8. \A t \in Stores, x \in {"d", "s"}, m \in KeyNames, j \in Ids :
         keys'[t][x][m][j] = IF t = h /\ x = admin[a].kind /\ m = o /\ admin[a].pairs[j] # 0
                             THEN 0 ELSE keys[t][x][m][j]
  <2>1. \A t \in Stores, x \in {"d", "s"}, m \in KeyNames, j \in Ids :
           keys'[t][x][m][j] = IF t = admin[a].h /\ x = admin[a].kind /\ m = admin[a].old /\ admin[a].pairs[j] # 0
                               THEN 0 ELSE keys[t][x][m][j]
    BY MigrateDeletesFacts
  <2> QED BY <1>4, <1>5, <2>1
<1>9. Elsewhere(a) /\ Frees(a)
  BY <1>1, <1>3, <1>4, <1>6, <1>8, RowElsewhere, NotLockFrees
<1>10. Carries(a)
  <2>1. ASSUME NEW n \in Names, NEW v \in Safe, In(v, n)' PROVE In(v, n)
    <3>1. v # 0
      BY <2>1, SafeVersions DEF KnownInv
    <3>2. PICK k \in KeyNames, i \in Ids : keys'[dir[n]]["d"][k][i] = v /\ dir[n] # 0
      BY <1>1, <2>1 DEF In
    <3>3. dir[n] \in Stores
      BY <3>2, PlaceTypes, Numbers
    <3>4. keys'[dir[n]]["d"][k][i] = keys[dir[n]]["d"][k][i]
      BY <1>8, <3>1, <3>2, <3>3
    <3> QED BY <3>2, <3>4 DEF In
  <2> QED BY <1>2, <2>1 DEF Carries
<1>11. ASSUME NEW kind \in {"d", "s"}, NEW i \in Ids, NEW v, Brought(a, kind, i, v)
       PROVE  Brought(a, kind, i, v)'
  <2>1. ~InOld(a) /\ ~InOld(a)' /\ Reads(a, kind, i, v)'
    BY <1>3, <1>6, <1>7 DEF InOld, Reads
  <2>2. CASE admin[a].kind = "d" /\ kind = "s"
    <3>1. OldKeys(a, kind) /\ OldKeys(a, kind)'
      BY <1>3, <1>7, <2>2 DEF OldKeys
    <3>2. AtKey(kind, w, o, i, v)
      BY <1>4, <1>6, <1>11, <2>1, <3>1 DEF Brought
    <3>3. dir[w] \in Stores
      BY <3>2, PlaceTypes, Numbers DEF AtKey
    <3>4. AtKey(kind, w, o, i, v)'
      BY <1>1, <1>6, <1>8, <2>2, <3>2, <3>3 DEF AtKey
    <3> QED BY <1>1, <1>6, <1>7, <2>1, <3>1, <3>4 DEF Brought, KeyName
  <2>3. CASE ~(admin[a].kind = "d" /\ kind = "s")
    <3>1. ~OldKeys(a, kind) /\ ~OldKeys(a, kind)'
      BY <1>3, <1>6, <1>7, <2>3 DEF OldKeys
    <3>2. AtKey(kind, w, w, i, v)
      BY <1>4, <1>6, <1>11, <2>1, <3>1 DEF Brought, Proper
    <3>3. dir[w] \in Stores
      BY <3>2, PlaceTypes, Numbers DEF AtKey
    <3>4. AtKey(kind, w, w, i, v)'
      BY <1>1, <1>6, <1>8, <3>2, <3>3 DEF AtKey
    <3> QED BY <1>1, <1>6, <1>7, <2>1, <3>1, <3>4 DEF Brought, Proper, KeyName
  <2> QED BY <2>2, <2>3
<1>12. Brings(a)
  BY <1>7, <1>11 DEF Brings
<1>13. PairsOf(a)'
  BY <1>6, <1>7 DEF PairsOf
<1>14. ASSUME NEW doc \in admin'[a].docs, doc.v \in Safe' PROVE DocOf(a, doc)'
  <2>1. doc.v \in Safe /\ DocOf(a, doc) /\ doc.id \in Ids
    BY <1>2, <1>7, <1>14 DEF Places, DocsInv, Lasting, AnOrder, Doc
  <2>2. Brought(a, "d", doc.id, doc.v)'
    BY <1>11, <2>1 DEF DocOf
  <2>3. Fits(a)'
    BY <1>1, <1>3, <1>4, <1>5, <1>7, <2>1 DEF DocOf, Fits
  <2>4. doc.indexed /\ sweeps' = 0 => Brought(a, "s", doc.id, doc.v)'
    <3>1. ASSUME doc.indexed, sweeps' = 0 PROVE Brought(a, "s", doc.id, doc.v)'
      <4>1. Brought(a, "s", doc.id, doc.v)
        BY <1>2, <1>5, <2>1, <3>1 DEF DocOf, Lasting
      <4> QED BY <1>11, <2>1, <4>1
    <3> QED BY <3>1
  <2> QED BY <2>2, <2>3, <2>4 DEF DocOf
<1> QED BY <1>1, <1>2, <1>9, <1>10, <1>12, <1>13, <1>14, OrderPlaces

LEMMA MigrateFailsPlaces ==
  ASSUME TypeInv, OrderInv, KnownInv, Places, NEW a \in Admins, MigrateFails(a) PROVE Places'
<1>1. Acts(a) /\ UNCHANGED <<keys, dir, moved, scope>> /\ stranded' = stranded \cup Behind(a)
  BY DEF Acts, MigrateFails
<1>2. Lasting(a) /\ admin[a] \in AnOrder /\ Busy(a) /\ GoodOrder(admin[a]) /\ admin'[a] = Idle
  BY <1>1, ActsLast, ActsFacts, FailsShape DEF OrderInv, MigrateFails
<1>3. admin[a].step \in {"read", "write", "delete"} /\ scope = "block"
  BY <1>2 DEF MigrateFails, GoodOrder, TypeInv
<1>4. PICK o \in Names, w \in Names : /\ o = admin[a].old /\ w = admin[a].new /\ Touches(a, o) /\ Touches(a, w)
                                      /\ \A n : Touches(a, n) => n \in {o, w}
  BY <1>2, OrderNames
<1>5. Elsewhere(a) /\ Frees(a) /\ Carries(a)
  BY <1>1, <1>2, <1>3, <1>4, FilesElsewhere, NotLockFrees, FilesCarry
<1>6. Brings(a)
  <2>1. ASSUME NEW i \in Ids, NEW v \in Safe, v \in Safe', Brought(a, "d", i, v)
        PROVE  Proper("d", w, i, v)'
    <3>1. ~InOld(a)
      BY <1>3 DEF InOld
    <3>2. CASE OldKeys(a, "d")
      <4>1. AtKey("d", w, KeyName(o), i, v)
        BY <1>4, <2>1, <3>1, <3>2 DEF Brought
      <4>2. v \in Behind(a)
        BY <1>2, <1>3, <1>4, <4>1, IsBehind, SafeVersions DEF KnownInv
      <4> QED BY <1>1, <2>1, <4>2 DEF Safe
    <3>3. CASE ~OldKeys(a, "d")
      <4>1. Proper("d", w, i, v)
        BY <1>4, <2>1, <3>1, <3>3 DEF Brought
      <4> QED BY <1>1, <4>1, StillProper
    <3> QED BY <3>2, <3>3
  <2> QED BY <1>2, <1>4, <2>1 DEF Brings
<1>7. ~Busy(a)'
  BY <1>2 DEF Busy, Idle
<1> QED BY <1>1, <1>2, <1>5, <1>6, <1>7, OrderPlaces

LEMMA SucceedPlaces ==
  ASSUME TypeInv, OrderInv, KnownInv, Places, NEW a \in Admins, Succeed(a) PROVE Places'
<1>1. Acts(a) /\ UNCHANGED <<keys, dir, scope, sweeps>> /\ moved' = [name |-> admin[a].new, docs |-> admin[a].docs]
  BY DEF Acts, Succeed, bounds
<1>2. Lasting(a) /\ admin[a] \in AnOrder /\ Busy(a) /\ admin'[a] = Idle /\ Same(a)
  BY <1>1, ActsLast, ActsFacts, FailsShape DEF Succeed
<1>3. admin[a].step = "meta" /\ ~InOld(a) /\ admin[a].step \notin Touching
  BY DEF Succeed, At, InOld, Touching
<1>4. PICK o \in Names, w \in Names : /\ o = admin[a].old /\ w = admin[a].new /\ Touches(a, o) /\ Touches(a, w)
                                      /\ \A n : Touches(a, n) => n \in {o, w}
  BY <1>2, OrderNames
<1>5. Elsewhere(a) /\ Frees(a) /\ Carries(a)
  BY <1>1, <1>2, <1>3, <1>4, FilesElsewhere, NotLockFrees, FilesCarry
<1>6. ASSUME NEW kind, NEW i, NEW v, Brought(a, kind, i, v) PROVE Proper(kind, w, i, v)'
  <2>1. ~OldKeys(a, kind)
    BY <1>3 DEF OldKeys
  <2>2. Proper(kind, w, i, v)
    BY <1>3, <1>4, <1>6, <2>1 DEF Brought
  <2> QED BY <1>1, <2>2, StillProper
<1>7. Brings(a)
  BY <1>2, <1>4, <1>6 DEF Brings
<1>8. MovedInv'
  <2>1. ASSUME NEW doc \in admin[a].docs, doc.v \in Safe'
        PROVE  /\ Undisturbed(w)' /\ Proper("d", w, doc.id, doc.v)'
               /\ doc.indexed /\ sweeps' = 0 => Proper("s", w, doc.id, doc.v)'
    <3>1. doc.v \in Safe /\ DocOf(a, doc) /\ doc.id \in Ids
      BY <1>2, <2>1 DEF Places, DocsInv, Lasting, AnOrder, Doc
    <3>2. Brought(a, "d", doc.id, doc.v) /\ (doc.indexed /\ sweeps = 0 => Brought(a, "s", doc.id, doc.v))
      BY <1>3, <3>1 DEF DocOf
    <3>3. Alone(a)
      BY <1>2, <3>1, <3>2, BroughtAlone DEF Places
    <3>4. Undisturbed(w)'
      <4>1. ASSUME NEW c \in Admins, Touches(c, w)' PROVE FALSE
        <5>1. c # a
          BY <1>2, <4>1 DEF Touches, Idle
        <5>2. Touches(c, w)
          BY <1>2, <4>1, <5>1 DEF Same, Touches
        <5> QED BY <1>4, <3>3, <5>1, <5>2 DEF Alone
      <4> QED BY <4>1 DEF Undisturbed
    <3> QED BY <1>1, <1>6, <3>2, <3>4
  <2>2. moved'.name = w /\ moved'.docs = admin[a].docs
    BY <1>1, <1>4
  <2> QED BY <2>1, <2>2 DEF MovedInv, Undisturbed, Touches, Proper, AtKey, KeyName
<1>9. ~Busy(a)'
  BY <1>2 DEF Busy, Idle
<1> QED BY <1>2, <1>5, <1>7, <1>8, <1>9, OrderPlaces

-----------------------------------------------------------------------------
(* Sweeps and requests leave safe documents where they are *)

(* A sweep at work has been counted.                                       *)
SweepInv == sweep # Idle => sweeps # 0

(* A step of the sweep or of a request that leaves the keys of what is     *)
(* safe.                                                                   *)
LEMMA QuietPlaces ==
  ASSUME TypeInv, Places,
         UNCHANGED <<scope, admin, moved>>, Safe' \subseteq Safe, sweeps' = 0 => sweeps = 0,
         \A n, m \in Names : Stays("d", n, m) /\ Stays("s", n, m),
         \A n \in Names : \A v : v \in Safe' /\ In(v, n)' => In(v, n)
  PROVE  Places'
<1>1. \A b \in Admins : Lessens(b)
  BY DEF Lessens
<1>2. ASSUME NEW b \in Admins, Busy(b), NEW kind \in {"d", "s"}, kind = "s" => sweeps' = 0,
             NEW i \in Ids,
             NEW v \in Safe', Brought(b, kind, i, v)
      PROVE  Brought(b, kind, i, v)'
  <2>1. PICK o \in Names, w \in Names : o = admin[b].old /\ w = admin[b].new
    BY <1>2, OrderFacts DEF Busy, AnOrder
  <2> QED BY <1>1, <1>2, <2>1, BroughtStays
<1>3. ASSUME NEW n \in Names, NEW kind \in {"d", "s"}, kind = "s" => sweeps' = 0, NEW i \in Ids,
             NEW v \in Safe',
             Proper(kind, n, i, v)
      PROVE  Proper(kind, n, i, v)'
  BY <1>3, KeyStays DEF Proper
<1>4. AloneInv'
  <2>1. ASSUME NEW a \in Admins, NEW n \in Names, NEW v \in Safe', Touches(a, n)', In(v, n)'
        PROVE  Alone(a)'
    <3>1. Touches(a, n) /\ In(v, n) /\ v \in Safe
      BY <2>1 DEF Touches
    <3>2. Alone(a)
      BY <3>1 DEF Places, AloneInv
    <3> QED BY <3>2 DEF Alone, Touches
  <2> QED BY <2>1 DEF AloneInv
<1>5. HomeInv'
  <2>1. ASSUME NEW v \in Safe'
        PROVE  \E i \in Ids : \/ \E n \in Names : Settled(n)' /\ Proper("d", n, i, v)'
                              \/ \E a \in Admins : Busy(a)' /\ Brought(a, "d", i, v)'
    <3>1. PICK i \in Ids : \/ \E n \in Names : Settled(n) /\ Proper("d", n, i, v)
                           \/ \E a \in Admins : Busy(a) /\ Brought(a, "d", i, v)
      BY DEF Places, HomeInv
    <3>2. \A n \in Names : Settled(n) => Settled(n)'
      BY DEF Settled, Touches
    <3>3. \A a \in Admins : Busy(a) => Busy(a)'
      BY DEF Busy
    <3> QED BY <1>2, <1>3, <3>1, <3>2, <3>3
  <2> QED BY <2>1 DEF HomeInv
<1>6. PairsInv'
  <2>1. ASSUME NEW a \in Admins,
               Busy(a), admin[a].step = "write", admin[a].kind = "d", admin[a].h # 0,
               NEW i \in Ids, NEW v \in Safe', v = admin[a].pairs[i]
        PROVE  admin[a].h = dir'[admin[a].new] /\ AtKey("d", admin[a].new, KeyName(admin[a].old), i, v)'
    <3>1. PICK o \in Names, w \in Names : o = admin[a].old /\ w = admin[a].new
      BY <2>1, OrderFacts DEF Busy, AnOrder
    <3>2. admin[a].h = dir[w] /\ AtKey("d", w, KeyName(o), i, v)
      BY <2>1, <3>1 DEF Places, PairsInv, PairsOf
    <3>3. AtKey("d", w, KeyName(o), i, v)' /\ dir'[w] = dir[w]
      BY <3>2, KeyStays
    <3> QED BY <3>1, <3>2, <3>3
  <2> QED BY <2>1 DEF PairsInv, PairsOf, Busy
<1>7. DocsInv'
  <2>1. ASSUME NEW a \in Admins, Busy(a), NEW doc \in admin[a].docs, doc.v \in Safe'
        PROVE  DocOf(a, doc)'
    <3>1. PICK o \in Names, w \in Names : o = admin[a].old /\ w = admin[a].new
      BY <2>1, OrderFacts DEF Busy, AnOrder
    <3>2. DocOf(a, doc) /\ doc.id \in Ids
      BY <2>1, OrderFacts DEF Places, DocsInv, Busy, AnOrder, Doc
    <3>3. Fits(a) => Fits(a)'
      BY <3>1 DEF Fits, Stays
    <3>4. Brought(a, "d", doc.id, doc.v)'
      BY <1>2, <2>1, <3>2 DEF DocOf
    <3>5. sweeps' = 0 /\ Brought(a, "s", doc.id, doc.v) => Brought(a, "s", doc.id, doc.v)'
      BY <1>2, <2>1, <3>2
    <3> QED BY <3>2, <3>3, <3>4, <3>5 DEF DocOf
  <2> QED BY <2>1 DEF DocsInv, Busy
<1>8. MovedInv'
  <2>1. ASSUME moved.name # None, NEW doc \in moved.docs, doc.v \in Safe'
        PROVE  /\ Undisturbed(moved.name)' /\ Proper("d", moved.name, doc.id, doc.v)'
               /\ doc.indexed /\ sweeps' = 0 => Proper("s", moved.name, doc.id, doc.v)'
    <3>1. doc.id \in Ids /\ moved.name \in Names
      BY <2>1 DEF TypeInv, Doc
    <3>2. PICK n \in Names : n = moved.name
      BY <3>1
    <3>3. /\ Undisturbed(n) /\ Proper("d", n, doc.id, doc.v)
          /\ doc.indexed /\ sweeps = 0 => Proper("s", n, doc.id, doc.v)
      BY <2>1, <3>2 DEF Places, MovedInv
    <3>4. Undisturbed(n)'
      BY <3>3 DEF Undisturbed, Touches
    <3>5. Proper("d", n, doc.id, doc.v)' /\ (doc.indexed /\ sweeps' = 0 => Proper("s", n, doc.id, doc.v)')
      BY <1>3, <2>1, <3>1, <3>3
    <3> QED BY <3>2, <3>4, <3>5 DEF Undisturbed, Touches, Proper, AtKey, KeyName
  <2> QED BY <2>1 DEF MovedInv, Undisturbed, Touches, Proper, AtKey, KeyName
<1> QED BY <1>4, <1>5, <1>6, <1>7, <1>8 DEF Places

(* A directory that a step makes is empty.                                 *)
LEMMA NewIsEmpty ==
  ASSUME TypeInv, TypeInv', FreshInv, UNCHANGED keys, NEW n \in Names, NEW v, v # 0, In(v, n)',
         dir'[n] = dir[n] \/ dir'[n] > made
  PROVE  In(v, n)
<1>1. PICK k \in KeyNames, i \in Ids : keys[dir'[n]]["d"][k][i] = v /\ dir'[n] # 0
  BY DEF In
<1>2. CASE dir'[n] = dir[n]
  BY <1>1, <1>2 DEF In
<1>3. CASE dir'[n] > made
  <2>1. dir'[n] \in 0 .. MaxStores
    BY DEF TypeInv
  <2>2. dir'[n] \in Stores
    BY <1>1, <2>1, Numbers
  <2> QED BY <1>1, <1>3, <2>2 DEF FreshInv
<1> QED BY <1>2, <1>3

LEMMA MakingPlaces ==
  ASSUME TypeInv, TypeInv', FreshInv, KnownInv, Places,
         UNCHANGED <<scope, admin, moved, keys, kept, contested, purged, stranded>>,
         sweeps' = 0 => sweeps = 0,
         \A n \in Names : dir'[n] = dir[n] \/ (dir[n] = 0 /\ dir'[n] > made)
  PROVE  Places'
<1>1. Safe' = Safe
  BY DEF Safe
<1>2. \A n, m \in Names : Stays("d", n, m) /\ Stays("s", n, m)
  BY DEF Stays
<1>3. \A n \in Names : \A v : v \in Safe' /\ In(v, n)' => In(v, n)
  <2>1. ASSUME NEW n \in Names, NEW v \in Safe, In(v, n)' PROVE In(v, n)
    <3>1. v # 0
      BY SafeVersions DEF KnownInv
    <3> QED BY <2>1, <3>1, NewIsEmpty
  <2> QED BY <1>1, <2>1
<1> QED BY <1>1, <1>2, <1>3, QuietPlaces

LEMMA CreatePlaces ==
  ASSUME TypeInv, PoolInv, FreshInv, KnownInv, Places, NEW n \in Names, Create(n) PROVE Places'
<1>1. TypeInv'
  BY CreateTypes
<1>2. UNCHANGED <<scope, admin, moved, keys, kept, contested, purged, stranded, sweeps>>
  BY DEF Create, ghosts, bounds
<1>3. \A m \in Names : dir'[m] = dir[m] \/ (dir[m] = 0 /\ dir'[m] > made)
  BY PlaceTypes DEF Create
<1> QED BY <1>1, <1>2, <1>3, MakingPlaces

LEMMA InsertBeginsPlaces ==
  ASSUME TypeInv, PoolInv, FreshInv, KnownInv, Places, NEW w \in Writers, NEW n \in Names,
         NEW i \in Ids,
         NEW kind \in {"single", "batch"}, NEW f \in {"plain", "packed"}, InsertBegins(w, n, i, kind, f)
  PROVE  Places'
<1>1. TypeInv'
  BY InsertBeginsTypes
<1>2. UNCHANGED <<scope, admin, moved, keys, kept, contested, purged, stranded, sweeps>>
  BY DEF InsertBegins, ghosts, bounds
<1>3. Opens(n)
  BY DEF InsertBegins, Opens
<1>4. \A m \in Names : dir'[m] = dir[m] \/ (dir[m] = 0 /\ dir'[m] > made)
  BY <1>3, OpensFacts DEF PoolInv
<1> QED BY <1>1, <1>2, <1>4, MakingPlaces

LEMMA SweepBeginsPlaces ==
  ASSUME TypeInv, PoolInv, FreshInv, KnownInv, Places, (\E n \in Names : SweepPicks(n)) \/ SweepChecks PROVE Places'
<1>1. TypeInv'
  BY SweepTypes
<1>2. UNCHANGED <<scope, admin, moved, keys, kept, contested, purged, stranded>>
  BY DEF SweepPicks, SweepChecks, ghosts
<1>3. sweeps' = 0 => sweeps = 0
  BY DEF SweepPicks, SweepChecks, bounds, TypeInv
<1>4. \A m \in Names : dir'[m] = dir[m] \/ (dir[m] = 0 /\ dir'[m] > made)
  <2>1. CASE \E n \in Names : SweepPicks(n)
    BY <2>1 DEF SweepPicks
  <2>2. CASE SweepChecks
    <3>1. sweep.name \in Names
      BY <2>2, SweepFacts DEF SweepChecks, ASweep, Idle
    <3>2. CASE CanOpen(sweep.name)
      <4>1. Opens(sweep.name)
        BY <2>2, <3>2 DEF SweepChecks, Opens, OpenPath
      <4> QED BY <3>1, <4>1, OpensFacts DEF PoolInv
    <3>3. CASE ~CanOpen(sweep.name)
      BY <2>2, <3>3 DEF SweepChecks
    <3> QED BY <3>2, <3>3
  <2> QED BY <2>1, <2>2
<1> QED BY <1>1, <1>2, <1>3, <1>4, MakingPlaces

LEMMA SweepPurgesPlaces ==
  ASSUME TypeInv, SweepInv, KnownInv, Places, SweepPurges PROVE Places'
<1>1. UNCHANGED <<scope, admin, moved, kept, contested, stranded, dir, sweeps>> /\ purged \subseteq purged'
  BY DEF SweepPurges, bounds
<1>2. Safe' \subseteq Safe
  BY <1>1 DEF Safe
<1>3. sweep # Idle /\ sweep \in ASweep /\ sweeps' # 0
  <2>1. sweep # Idle
    BY DEF SweepPurges, Idle
  <2> QED BY <1>1, <2>1, SweepFacts DEF SweepInv
<1>4. ASSUME keys' # keys
      PROVE  \A t \in Stores, x \in {"d", "s"}, m \in KeyNames, j \in Ids :
                /\ keys'[t][x][m][j] \in {0, keys[t][x][m][j]}
                /\ x = "d" /\ keys'[t][x][m][j] # keys[t][x][m][j] => keys[t][x][m][j] \in purged' \cup {0}
  <2>1. /\ sweep.h \in Stores
        /\ \A t \in Stores, x \in {"d", "s"}, m \in KeyNames, j \in Ids :
              keys'[t][x][m][j] = IF t = sweep.h /\ x = "d" /\ m = KeyName(sweep.name) /\ j \in sweep.bad
                                  THEN 0 ELSE keys[t][x][m][j]
    BY <1>4, PurgeFacts
  <2>2. sweep.h # 0
    BY <2>1, Numbers
  <2>3. purged' = purged \cup ({keys[sweep.h]["d"][KeyName(sweep.name)][i] : i \in sweep.bad} \ {0})
    BY <2>2 DEF SweepPurges
  <2> QED BY <2>1, <2>3
<1>5. \A n \in Names : dir[n] # 0 => dir[n] \in Stores
  BY PlaceTypes, Numbers
<1>6. \A m \in Names : KeyName(m) \in KeyNames
  BY DEF KeyName, KeyNames
<1>7. \A n, m \in Names : Stays("d", n, m) /\ Stays("s", n, m)
  <2>1. ASSUME NEW n \in Names, NEW m \in Names, dir[n] # 0, NEW i \in Ids,
               NEW v \in Safe, v \in Safe',
               keys[dir[n]]["d"][KeyName(m)][i] = v
        PROVE  keys'[dir[n]]["d"][KeyName(m)][i] = v
    <3>1. v \notin purged' /\ v # 0
      BY <2>1, SafeVersions DEF Safe, KnownInv
    <3>2. CASE keys' = keys
      BY <2>1, <3>2
    <3>3. CASE keys' # keys
      BY <1>4, <1>5, <1>6, <2>1, <3>1, <3>3
    <3> QED BY <3>2, <3>3
  <2> QED BY <1>1, <1>3, <2>1 DEF Stays
<1>8. \A n \in Names : \A v : v \in Safe' /\ In(v, n)' => In(v, n)
  <2>1. ASSUME NEW n \in Names, NEW v \in Safe, In(v, n)' PROVE In(v, n)
    <3>1. v # 0
      BY SafeVersions DEF KnownInv
    <3>2. PICK k \in KeyNames, i \in Ids : keys'[dir[n]]["d"][k][i] = v /\ dir[n] # 0
      BY <1>1, <2>1 DEF In
    <3>3. keys[dir[n]]["d"][k][i] = v
      BY <1>4, <1>5, <3>1, <3>2
    <3> QED BY <3>2, <3>3 DEF In
  <2> QED BY <1>2, <2>1
<1> QED BY <1>1, <1>2, <1>7, <1>8, QuietPlaces

LEMMA SweepRebuildsPlaces ==
  ASSUME TypeInv, SweepInv, Places, SweepRebuilds PROVE Places'
<1>1. UNCHANGED <<scope, admin, moved, kept, contested, purged, stranded, dir, sweeps>>
  BY DEF SweepRebuilds, bounds, ghosts
<1>2. Safe' = Safe
  BY <1>1 DEF Safe
<1>3. sweep # Idle /\ sweeps' # 0
  <2>1. sweep # Idle
    BY DEF SweepRebuilds, Idle
  <2> QED BY <1>1, <2>1 DEF SweepInv
<1>4. \A t \in Stores, m \in KeyNames, j \in Ids : keys'[t]["d"][m][j] = keys[t]["d"][m][j]
  BY RebuildFacts
<1>5. \A n \in Names : dir[n] # 0 => dir[n] \in Stores
  BY PlaceTypes, Numbers
<1>6. \A m \in Names : KeyName(m) \in KeyNames
  BY DEF KeyName, KeyNames
<1>7. \A n, m \in Names : Stays("d", n, m) /\ Stays("s", n, m)
  BY <1>1, <1>3, <1>4, <1>5, <1>6 DEF Stays
<1>8. \A n \in Names : \A v : v \in Safe' /\ In(v, n)' => In(v, n)
  BY <1>1, <1>4, <1>5 DEF In
<1> QED BY <1>1, <1>2, <1>7, <1>8, QuietPlaces

-----------------------------------------------------------------------------
(* Orders that begin, and kills *)

(* An order that overlaps others contests all that their names hold.       *)
OrderAdds(a, old, new) ==
  IF \A b \in Admins \ {a} : ~Touches(b, old) /\ ~Touches(b, new) THEN TRUE
  ELSE \A n \in Names : \/ ~(n \in {old, new} \/ \E b \in Admins \ {a} : /\ Touches(b, old) \/ Touches(b, new)
                                                                         /\ n \in {admin[b].old, admin[b].new})
                        \/ dir[n] = 0 \/ Docs(dir[n]) \subseteq contested'

LEMMA OrderContests ==
  ASSUME NEW a \in Admins, NEW op, NEW old \in Names, NEW new \in Names, Order(a, op, old, new)
  PROVE  OrderAdds(a, old, new)
<1> DEFINE others == {b \in Admins \ {a} : Touches(b, old) \/ Touches(b, new)}
           both == {old, new} \cup UNION {{admin[b].old, admin[b].new} : b \in others}
<1>1. CASE others = {}
  BY <1>1 DEF OrderAdds
<1>2. CASE others # {}
  <2>1. contested' = contested \cup UNION {Docs(dir[n]) : n \in {m \in both : dir[m] # 0}}
    BY <1>2 DEF Order, Contest
  <2>2. ASSUME NEW n \in both, dir[n] # 0 PROVE Docs(dir[n]) \subseteq contested'
    BY <2>1, <2>2
  <2>3. ASSUME NEW n \in Names, n \in {old, new} PROVE n \in both
    BY <2>3
  <2>4. ASSUME NEW n \in Names, NEW b \in Admins \ {a},
               Touches(b, old) \/ Touches(b, new), n \in {admin[b].old, admin[b].new}
        PROVE  n \in both
    <3>1. b \in others
      BY <2>4
    <3> QED BY <2>4, <3>1
  <2> HIDE DEF both
  <2>5. ASSUME NEW n \in Names,
               n \in {old, new} \/ \E b \in Admins \ {a} : /\ Touches(b, old) \/ Touches(b, new)
                                                           /\ n \in {admin[b].old, admin[b].new}
        PROVE  dir[n] = 0 \/ Docs(dir[n]) \subseteq contested'
    <3>1. n \in both
      BY <2>3, <2>4, <2>5
    <3> QED BY <2>2, <3>1
  <2> QED BY <2>5 DEF OrderAdds
<1> QED BY <1>1, <1>2

LEMMA OrderBeginsPlaces ==
  ASSUME TypeInv, OrderInv, KnownInv, Places, NEW a \in Admins, NEW op \in {"rename", "drop"},
         NEW old \in Names, NEW new \in Names, Order(a, op, old, new)
  PROVE  Places'
<1>1. UNCHANGED <<scope, keys, dir, sweeps, kept, purged, stranded>> /\ moved' = NothingMoved /\ contested \subseteq contested'
  BY DEF Order
<1>2. Safe' \subseteq Safe
  BY <1>1 DEF Safe
<1>3. /\ Same(a) /\ admin[a] = Idle
      /\ admin'[a] = [step |-> "lock", op |-> op, old |-> old, new |-> new, tries |-> 0, kind |-> "d",
                      pairs |-> <<>>, h |-> 0, docs |-> {}]
  BY OrderShape
<1>4. /\ admin'[a].step = "lock" /\ admin'[a].old = old /\ admin'[a].new = new /\ admin'[a].docs = {} /\ Busy(a)'
      /\ op = "drop" => old = new
      /\ scope = "db" /\ op = "rename" => dir[new] = 0
  BY <1>3 DEF Busy, Order
<1>5. \A n : Touches(a, n)' <=> n \in {old, new}
  BY <1>4 DEF Touches
<1>6. \A b \in Admins \ {a} : admin'[b] = admin[b] /\ (Busy(b)' <=> Busy(b)) /\ \A n : Touches(b, n)' <=> Touches(b, n)
  BY <1>3 DEF Same, Touches, Busy
<1>7. ASSUME NEW n \in Names, NEW v \in Safe, v \in Safe', In(v, n)
      PROVE  dir[n] # 0 /\ v \in Docs(dir[n]) /\ v \notin contested'
  <2>1. v # 0
    BY SafeVersions DEF KnownInv
  <2> QED BY <1>7, <2>1, InDocs DEF Safe
<1>8. AloneInv'
  <2>1. ASSUME NEW b \in Admins, NEW n \in Names, NEW v \in Safe, v \in Safe', Touches(b, n)',
               In(v, n)
        PROVE  Alone(b)'
    <3>1. dir[n] # 0 /\ ~(Docs(dir[n]) \subseteq contested')
      BY <1>7, <2>1
    <3>2. OrderAdds(a, old, new)
      BY OrderContests
    <3>3. CASE \A c \in Admins \ {a} : ~Touches(c, old) /\ ~Touches(c, new)
      <4>1. CASE b = a
        <5>1. \A c \in Admins \ {a} : ~Touches(c, old)' /\ ~Touches(c, new)'
          BY <1>6, <3>3
        <5> QED BY <1>4, <4>1, <5>1 DEF Alone, Touches
      <4>2. CASE b # a
        <5>1. Alone(b) /\ Touches(b, n)
          BY <1>6, <2>1, <4>2 DEF Places, AloneInv
        <5>2. ASSUME NEW c \in Admins \ {b}, NEW m \in {admin[b].old, admin[b].new}, Touches(c, m)'
              PROVE  FALSE
          <6>1. CASE c = a
            <7>1. m \in {old, new} /\ Touches(b, m)
              BY <1>5, <5>1, <5>2, <6>1 DEF Touches
            <7> QED BY <3>3, <4>2, <7>1
          <6>2. CASE c # a
            BY <1>6, <5>1, <5>2, <6>2 DEF Alone
          <6> QED BY <6>1, <6>2
        <5>3. admin'[b] = admin[b]
          BY <1>6, <4>2
        <5> QED BY <5>2, <5>3 DEF Alone, Touches
      <4> QED BY <4>1, <4>2
    <3>4. CASE ~(\A c \in Admins \ {a} : ~Touches(c, old) /\ ~Touches(c, new))
      <4>1. ~(n \in {old, new} \/ \E c \in Admins \ {a} : /\ Touches(c, old) \/ Touches(c, new)
                                                         /\ n \in {admin[c].old, admin[c].new})
        BY <3>1, <3>2, <3>4 DEF OrderAdds
      <4>2. b # a
        BY <1>5, <2>1, <4>1
      <4>3. Alone(b) /\ Touches(b, n) /\ n \in {admin[b].old, admin[b].new}
        BY <1>6, <2>1, <4>2 DEF Places, AloneInv, Touches
      <4>4. ~Touches(b, old) /\ ~Touches(b, new)
        BY <4>1, <4>2, <4>3
      <4>5. ASSUME NEW c \in Admins \ {b}, NEW m \in {admin[b].old, admin[b].new}, Touches(c, m)'
            PROVE  FALSE
        <5>1. CASE c = a
          BY <1>5, <4>3, <4>4, <4>5, <5>1 DEF Touches
        <5>2. CASE c # a
          BY <1>6, <4>3, <4>5, <5>2 DEF Alone
        <5> QED BY <5>1, <5>2
      <4>6. admin'[b] = admin[b]
        BY <1>6, <4>2
      <4> QED BY <4>5, <4>6 DEF Alone, Touches
    <3> QED BY <3>3, <3>4
  <2>2. \A n \in Names : \A v : In(v, n)' <=> In(v, n)
    BY <1>1 DEF In
  <2> QED BY <1>2, <2>1, <2>2 DEF AloneInv
<1>9. ASSUME NEW b \in Admins \ {a}, Busy(b), NEW kind, NEW i, NEW v, Brought(b, kind, i, v)
      PROVE  Brought(b, kind, i, v)'
  <2>1. admin'[b] = admin[b]
    BY <1>6
  <2> QED BY <1>1, <1>9, <2>1 DEF Brought, InOld, OldKeys, Reads, Proper, AtKey, KeyName
<1>10. HomeInv'
  <2>1. ASSUME NEW v \in Safe, v \in Safe'
        PROVE  \E i \in Ids : \/ \E n \in Names : Settled(n)' /\ Proper("d", n, i, v)'
                              \/ \E b \in Admins : Busy(b)' /\ Brought(b, "d", i, v)'
    <3>1. PICK i \in Ids : \/ \E n \in Names : Settled(n) /\ Proper("d", n, i, v)
                           \/ \E b \in Admins : Busy(b) /\ Brought(b, "d", i, v)
      BY DEF Places, HomeInv
    <3>2. ASSUME NEW b \in Admins, Busy(b), Brought(b, "d", i, v)
          PROVE  Busy(b)' /\ Brought(b, "d", i, v)'
      <4>1. b # a
        BY <1>3, <3>2 DEF Busy, Idle
      <4> QED BY <1>6, <1>9, <3>2, <4>1
    <3>3. ASSUME NEW n \in Names, Settled(n), Proper("d", n, i, v)
          PROVE  (Settled(n)' /\ Proper("d", n, i, v)') \/ (Busy(a)' /\ Brought(a, "d", i, v)')
      <4>1. Proper("d", n, i, v)'
        BY <1>1, <3>3, StillProper
      <4>2. CASE n = old
        BY <1>4, <4>1, <4>2 DEF Brought, InOld, Proper
      <4>3. CASE n \notin {old, new}
        <5>1. \A c \in Admins : Touches(c, n)' => c # a /\ Touches(c, n) /\ admin'[c] = admin[c]
          BY <1>5, <1>6, <4>3
        <5> QED BY <1>1, <3>3, <4>1, <5>1 DEF Settled
      <4>4. CASE n = new /\ n # old
        <5>1. op = "rename" /\ dir[new] # 0
          BY <1>4, <3>3, <4>4 DEF Proper, AtKey
        <5>2. scope = "block"
          BY <1>4, <5>1 DEF TypeInv
        <5>3. In(v, n)'
          <6>1. In(v, n)
            BY <3>3, AtKeyIsIn DEF Proper
          <6> QED BY <1>1, <6>1 DEF In
        <5>4. Alone(a)'
          BY <1>5, <1>8, <2>1, <4>4, <5>3 DEF AloneInv
        <5>5. ASSUME NEW c \in Admins, Touches(c, n)'
              PROVE  scope = "block" /\ admin'[c].step = "lock" /\ admin'[c].old # n
          <6>1. c = a
            BY <1>4, <4>4, <5>4, <5>5 DEF Alone, Touches
          <6> QED BY <1>4, <4>4, <5>2, <6>1
        <5>6. Settled(n)'
          BY <1>1, <5>5 DEF Settled
        <5> QED BY <4>1, <5>6
      <4> QED BY <4>2, <4>3, <4>4
    <3> QED BY <3>1, <3>2, <3>3
  <2> QED BY <1>2, <2>1 DEF HomeInv
<1>11. PairsInv'
  <2>1. PairsOf(a)'
    BY <1>4 DEF PairsOf
  <2>2. ASSUME NEW b \in Admins \ {a}, Busy(b) PROVE PairsOf(b)'
    <3>1. admin'[b] = admin[b] /\ PairsOf(b)
      BY <1>6, <2>2 DEF Places, PairsInv
    <3> QED BY <1>1, <1>2, <3>1 DEF PairsOf, AtKey, KeyName
  <2> QED BY <1>6, <2>1, <2>2 DEF PairsInv
<1>12. DocsInv'
  <2>1. ASSUME NEW b \in Admins \ {a}, Busy(b), NEW doc \in admin[b].docs, doc.v \in Safe'
        PROVE  DocOf(b, doc)'
    <3>1. admin'[b] = admin[b] /\ DocOf(b, doc)
      BY <1>2, <1>6, <2>1 DEF Places, DocsInv
    <3>2. Fits(b) => Fits(b)'
      BY <1>1, <3>1 DEF Fits
    <3>3. /\ Brought(b, "d", doc.id, doc.v) => Brought(b, "d", doc.id, doc.v)'
          /\ Brought(b, "s", doc.id, doc.v) => Brought(b, "s", doc.id, doc.v)'
      BY <1>9, <2>1
    <3> QED BY <1>1, <3>1, <3>2, <3>3 DEF DocOf
  <2>2. \A doc \in admin'[a].docs : DocOf(a, doc)'
    BY <1>4
  <2>3. \A b \in Admins \ {a} : admin'[b].docs = admin[b].docs
    BY <1>6
  <2> QED BY <1>6, <2>1, <2>2, <2>3 DEF DocsInv
<1>13. MovedInv'
  BY <1>1 DEF MovedInv, NothingMoved
<1> QED BY <1>8, <1>10, <1>11, <1>12, <1>13 DEF Places

LEMMA CrashPlaces ==
  ASSUME TypeInv, PoolInv, KnownInv, CrashAndRecover PROVE Places'
<1>1. /\ admin' = [a \in Admins |-> Idle] /\ moved' = NothingMoved /\ kept' = kept \ Superseded
      /\ UNCHANGED <<scope, log>>
  BY DEF CrashAndRecover
<1>2. \A a \in Admins : ~Busy(a)' /\ \A n : ~Touches(a, n)'
  BY <1>1 DEF Busy, Touches, Idle
<1>3. HomeInv'
  <2>1. ASSUME NEW v \in Safe'
        PROVE  \E i \in Ids, n \in Names : Settled(n)' /\ Proper("d", n, i, v)'
    <3>1. v \in kept /\ v \notin Superseded /\ v \in Committed
      BY <1>1 DEF Safe, KnownInv, LogInv
    <3>2. PICK j \in DOMAIN log : log[j].v = v
      BY <3>1 DEF Committed
    <3>3. PICK n \in Names, i \in Ids : n = log[j].name /\ i = log[j].id
      <4> DEFINE R == [name : Names, id : Ids, v : Nat]
      <4>1. log \in Seq(R)
        BY DEF TypeInv
      <4> HIDE DEF R
      <4>2. log[j] \in R
        BY <3>2, <4>1
      <4> QED BY <4>2 DEF R
    <3>4. j \in LoggedAt(n, i) /\ Logged(n) # {}
      BY <3>3 DEF LoggedAt, Logged
    <3>5. \A k \in LoggedAt(n, i) : k <= j
      <4>1. ASSUME NEW k \in LoggedAt(n, i), ~(k <= j) PROVE FALSE
        <5>1. k \in DOMAIN log /\ log[k].name = n /\ log[k].id = i
          BY <4>1 DEF LoggedAt, Logged
        <5>2. k \in Nat /\ j \in Nat
          <6> DEFINE R == [name : Names, id : Ids, v : Nat]
          <6>1. log \in Seq(R)
            BY DEF TypeInv
          <6> HIDE DEF R
          <6>2. DOMAIN log \subseteq Nat
            BY <6>1
          <6> QED BY <5>1, <6>2
        <5>3. k > j
          BY <4>1, <5>2
        <5> QED BY <3>1, <3>2, <3>3, <5>1, <5>3 DEF Superseded
      <4> QED BY <4>1
    <3>6. LastOf(n, i) = v
      BY <3>2, <3>4, <3>5, LastFacts
    <3>7. dir'[n] \in Stores /\ keys'[dir'[n]] = Replayed(keys[dir'[n]], n)
      BY <3>4, CrashFacts DEF PoolInv, Directories
    <3>8. KeyName(n) \in KeyNames /\ keys[dir'[n]] \in Store
      BY <3>7 DEF KeyName, KeyNames, TypeInv
    <3>9. keys'[dir'[n]]["d"][KeyName(n)][i] = v
      BY <3>4, <3>6, <3>7, <3>8, ReplayedFacts
    <3>10. Proper("d", n, i, v)'
      <4>1. dir'[n] # 0
        BY <3>7, Numbers
      <4> QED BY <1>1, <3>9, <4>1 DEF Proper, AtKey, KeyName
    <3> QED BY <1>2, <3>10 DEF Settled
  <2> QED BY <2>1 DEF HomeInv
<1>4. AloneInv' /\ PairsInv' /\ DocsInv'
  BY <1>2 DEF AloneInv, PairsInv, DocsInv
<1>5. MovedInv'
  BY <1>1 DEF MovedInv, NothingMoved
<1> QED BY <1>3, <1>4, <1>5 DEF Places

-----------------------------------------------------------------------------
(* Commits *)

(* A commit, whose insert is new to the keys and to the orders.            *)
LEMMA CommitChanges ==
  ASSUME TypeInv, KnownInv, NEW w \in Writers, Commit(w), writer[w].h # 0
  PROVE  LET p == writer[w]
         IN /\ p \in AWriter /\ p.h \in Stores /\ p.v \notin Committed
            /\ p.clean => Undisturbed(p.name)
            /\ UNCHANGED <<scope, dir, admin, moved, sweeps>>
            /\ Safe' \subseteq Safe \cup {p.v}
            /\ p.v \in Safe' => p.clean /\ dir[p.name] = p.h
            /\ keys[p.h]["d"][KeyName(p.name)][p.id] = p.v \/ keys[p.h]["d"][KeyName(p.name)][p.id] \notin Safe'
            /\ \A t \in Stores, x \in {"d", "s"}, m \in KeyNames, j \in Ids :
                  keys'[t][x][m][j] = IF t = p.h /\ m = KeyName(p.name) /\ j = p.id THEN p.v
                                      ELSE keys[t][x][m][j]
<1> DEFINE p == writer[w]
           old == keys[p.h]["d"][KeyName(p.name)][p.id]
<1>1. p # Idle /\ p \in AWriter /\ p.h \in Stores
  <2>1. p.step = "commit"
    BY DEF Commit
  <2>2. p \in AWriter /\ p # Idle
    BY <2>1, WriterFacts DEF Idle
  <2> QED BY <2>2, Numbers DEF AWriter
<1>2. p.v \notin Committed /\ (p.clean => Undisturbed(p.name))
  BY <1>1 DEF KnownInv, WritersInv
<1>3. UNCHANGED <<scope, dir, admin, moved, sweeps, contested, purged, stranded>>
  BY DEF Commit, bounds
<1>4. PICK more : more \subseteq {p.v} /\ kept' = (kept \ {old}) \cup more /\ (more # {} => p.clean /\ dir[p.name] = p.h)
  <2>1. kept' = (kept \ {old}) \cup
                  (IF p.clean /\ dir[p.name] = p.h /\ ~(sweep.step = "purge" /\ sweep.h = p.h /\ p.id \in sweep.bad)
                   THEN {p.v} ELSE {})
    BY DEF Commit
  <2> QED BY <2>1
<1>5. p.v \notin kept
  BY <1>2 DEF KnownInv, LogInv
<1>6. Safe' \subseteq Safe \cup {p.v} /\ (p.v \in Safe' => p.clean /\ dir[p.name] = p.h) /\ (old = p.v \/ old \notin Safe')
  BY <1>3, <1>4, <1>5 DEF Safe
<1>7. \A t \in Stores, x \in {"d", "s"}, m \in KeyNames, j \in Ids :
         keys'[t][x][m][j] = IF t = p.h /\ m = KeyName(p.name) /\ j = p.id THEN p.v ELSE keys[t][x][m][j]
  BY CommitKeys
<1> QED BY <1>1, <1>2, <1>3, <1>6, <1>7

LEMMA CommitPlaces ==
  ASSUME TypeInv, OrderInv, PoolInv, KnownInv, Places, NEW w \in Writers, Commit(w) PROVE Places'
<1>1. CASE writer[w].h = 0
  <2>1. UNCHANGED <<scope, dir, admin, moved, sweeps, keys, kept, contested, purged, stranded>>
    BY <1>1 DEF Commit, bounds
  <2>2. Safe' = Safe
    BY <2>1 DEF Safe
  <2>3. \A n, m \in Names : Stays("d", n, m) /\ Stays("s", n, m)
    BY <2>1 DEF Stays
  <2>4. \A n \in Names : \A v : In(v, n)' => In(v, n)
    BY <2>1 DEF In
  <2> QED BY <2>1, <2>2, <2>3, <2>4, QuietPlaces
<1>2. CASE writer[w].h # 0
  <2>0. writer[w] # Idle
    <3>1. writer[w].step = "commit"
      BY DEF Commit
    <3> QED BY <3>1 DEF Idle
  <2>1. PICK o \in Names, h \in Stores, c \in Ids, u \in Nat :
          /\ o = writer[w].name /\ h = writer[w].h /\ c = writer[w].id /\ u = writer[w].v
          /\ u \notin Committed
          /\ UNCHANGED <<scope, dir, admin, moved, sweeps>>
          /\ Safe' \subseteq Safe \cup {u}
          /\ u \in Safe' => Undisturbed(o) /\ dir[o] = h
          /\ keys[h]["d"][KeyName(o)][c] = u \/ keys[h]["d"][KeyName(o)][c] \notin Safe'
          /\ \A t \in Stores, x \in {"d", "s"}, m \in KeyNames, j \in Ids :
                keys'[t][x][m][j] = IF t = h /\ m = KeyName(o) /\ j = c THEN u ELSE keys[t][x][m][j]
    BY <1>2, CommitChanges DEF AWriter
  <2>2. pool[o] = h /\ h # 0
    <3>1. writer[w] # Idle
      BY <2>0
    <3> QED BY <1>2, <2>1, <3>1 DEF PoolInv, WriterHandles
  <2>3. /\ \A n \in Names : dir[n] # 0 => dir[n] \in Stores
        /\ \A m \in Names : KeyName(m) \in KeyNames
    BY PlaceTypes, Numbers DEF KeyName, KeyNames
  <2>4. \A s \in Stores, x \in {"d", "s"}, m \in KeyNames, i \in Ids : keys[s][x][m][i] # u \/ u = 0
    BY <2>1 DEF KnownInv, KeysKnown
  <2>5. ASSUME NEW v \in Safe', v # u PROVE v \in Safe
    BY <2>1, <2>5
  <2>6. \A v \in Safe' : v # 0
    <3>1. u # 0
      <4>1. writer[w] # Idle
        BY <2>0
      <4>2. u \in 1 .. Len(form)
        BY <2>1, <4>1 DEF KnownInv, WritersInv
      <4> QED BY <4>2
    <3>2. \A v \in Safe : v # 0
      BY SafeVersions DEF KnownInv
    <3> QED BY <2>1, <3>1, <3>2
  <2>7. ASSUME NEW n \in Names, NEW m \in Names, NEW i \in Ids, NEW v \in Safe', v # u,
               AtKey("d", n, KeyName(m), i, v)
        PROVE  /\ AtKey("d", n, KeyName(m), i, v)'
               /\ \A x \in {"d", "s"} : AtKey(x, n, KeyName(m), i, v) => AtKey(x, n, KeyName(m), i, v)'
    <3>1. dir[n] \in Stores /\ keys[dir[n]]["d"][KeyName(m)][i] = v
      BY <2>3, <2>7 DEF AtKey
    <3>2. ~(dir[n] = h /\ KeyName(m) = KeyName(o) /\ i = c)
      BY <2>1, <2>7, <3>1
    <3>3. ASSUME NEW x \in {"d", "s"}, AtKey(x, n, KeyName(m), i, v)
          PROVE  AtKey(x, n, KeyName(m), i, v)'
      <4>1. keys'[dir[n]][x][KeyName(m)][i] = v
        BY <2>1, <2>3, <3>1, <3>2, <3>3 DEF AtKey
      <4> QED BY <2>1, <3>3, <4>1 DEF AtKey, KeyName
    <3> QED BY <2>7, <3>3
  <2>8. ASSUME NEW n \in Names, NEW v, In(v, n)', v # u PROVE In(v, n)
    <3>1. PICK k \in KeyNames, i \in Ids : dir[n] # 0 /\ keys'[dir[n]]["d"][k][i] = v
      BY <2>1, <2>8 DEF In
    <3>2. keys[dir[n]]["d"][k][i] = v
      BY <2>1, <2>3, <2>8, <3>1
    <3> QED BY <3>1, <3>2 DEF In
  <2>9. ASSUME u \in Safe', NEW n \in Names, In(u, n)' PROVE n = o
    <3>1. PICK k \in KeyNames, i \in Ids : dir[n] # 0 /\ keys'[dir[n]]["d"][k][i] = u
      BY <2>1, <2>9 DEF In
    <3>2. dir[n] = h
      BY <2>1, <2>3, <2>4, <2>6, <2>9, <3>1
    <3> QED BY <2>1, <2>2, <2>9, <3>2 DEF PoolInv, Directories, Apart
  <2>10. \A a \in Admins : /\ Alone(a)' <=> Alone(a)
                           /\ Busy(a)' <=> Busy(a)
                           /\ \A n : Touches(a, n)' <=> Touches(a, n)
    BY <2>1 DEF Alone, Touches, Busy
  <2>11. AloneInv'
    <3>1. ASSUME NEW a \in Admins, NEW n \in Names, NEW v \in Safe', Touches(a, n), In(v, n)'
          PROVE  Alone(a)
      <4>1. CASE v = u
        BY <2>1, <2>9, <3>1, <4>1 DEF Undisturbed
      <4>2. CASE v # u
        BY <2>5, <2>8, <3>1, <4>2 DEF Places, AloneInv
      <4> QED BY <4>1, <4>2
    <3> QED BY <2>10, <3>1 DEF AloneInv
  <2>12. ASSUME NEW b \in Admins, Busy(b), NEW i \in Ids, NEW v \in Safe', v # u,
                Brought(b, "d", i, v)
         PROVE  Brought(b, "d", i, v)'
    <3>1. PICK f \in Names, g \in Names : f = admin[b].old /\ g = admin[b].new
      BY <2>12, OrderFacts DEF Busy, AnOrder
    <3>2. /\ AtKey("d", f, KeyName(f), i, v) => AtKey("d", f, KeyName(f), i, v)'
          /\ AtKey("d", g, KeyName(f), i, v) => AtKey("d", g, KeyName(f), i, v)'
          /\ AtKey("d", g, KeyName(g), i, v) => AtKey("d", g, KeyName(g), i, v)'
      BY <2>7, <2>12
    <3> QED BY <2>1, <2>12, <3>1, <3>2 DEF Brought, InOld, OldKeys, Reads, Proper
  <2>13. HomeInv'
    <3>1. ASSUME NEW v \in Safe'
          PROVE  \E i \in Ids : \/ \E n \in Names : Settled(n)' /\ Proper("d", n, i, v)'
                                \/ \E a \in Admins : Busy(a)' /\ Brought(a, "d", i, v)'
      <4>1. CASE v = u
        <5>1. Settled(o)'
          BY <2>1, <2>10, <3>1, <4>1 DEF Settled, Undisturbed
        <5>2. Proper("d", o, c, u)'
          <6>1. dir[o] = h /\ KeyName(o) \in KeyNames /\ keys'[h]["d"][KeyName(o)][c] = u
            BY <2>1, <2>3, <3>1, <4>1
          <6> QED BY <2>1, <2>2, <6>1 DEF Proper, AtKey, KeyName
        <5> QED BY <4>1, <5>1, <5>2
      <4>2. CASE v # u
        <5>1. PICK i \in Ids : \/ \E n \in Names : Settled(n) /\ Proper("d", n, i, v)
                               \/ \E a \in Admins : Busy(a) /\ Brought(a, "d", i, v)
          BY <2>5, <3>1, <4>2 DEF Places, HomeInv
        <5>2. \A n \in Names : Settled(n) => Settled(n)'
          BY <2>1 DEF Settled, Touches
        <5>3. \A n \in Names : Proper("d", n, i, v) => Proper("d", n, i, v)'
          BY <2>7, <3>1, <4>2 DEF Proper
        <5> QED BY <2>10, <2>12, <3>1, <4>2, <5>1, <5>2, <5>3
      <4> QED BY <4>1, <4>2
    <3> QED BY <3>1 DEF HomeInv
  <2>14. PairsInv'
    <3>1. ASSUME NEW a \in Admins,
                 Busy(a), admin[a].step = "write", admin[a].kind = "d", admin[a].h # 0,
                 NEW i \in Ids, NEW v \in Safe', v = admin[a].pairs[i]
          PROVE  admin[a].h = dir'[admin[a].new] /\ AtKey("d", admin[a].new, KeyName(admin[a].old), i, v)'
      <4>1. PICK f \in Names, g \in Names : f = admin[a].old /\ g = admin[a].new
        BY <3>1, OrderFacts DEF Busy, AnOrder
      <4>2. v # u
        <5>1. v \in Committed
          BY <2>6, <3>1 DEF KnownInv, OrdersKnown
        <5> QED BY <2>1, <5>1
      <4>3. admin[a].h = dir[g] /\ AtKey("d", g, KeyName(f), i, v)
        BY <2>5, <3>1, <4>1, <4>2 DEF Places, PairsInv, PairsOf
      <4> QED BY <2>1, <2>7, <4>1, <4>2, <4>3
    <3> QED BY <2>1, <3>1 DEF PairsInv, PairsOf, Busy
  <2>15. DocsInv'
    <3>1. ASSUME NEW b \in Admins, Busy(b), NEW doc \in admin[b].docs, doc.v \in Safe'
          PROVE  DocOf(b, doc)'
      <4>1. PICK f \in Names, g \in Names : f = admin[b].old /\ g = admin[b].new
        BY <3>1, OrderFacts DEF Busy, AnOrder
      <4>2. doc.v # u /\ doc.id \in Ids
        BY <2>1, <3>1, OrderFacts DEF KnownInv, OrdersKnown, Busy, AnOrder, Doc
      <4>3. DocOf(b, doc)
        BY <2>5, <3>1, <4>2 DEF Places, DocsInv
      <4>4. Brought(b, "d", doc.id, doc.v)
        BY <4>3 DEF DocOf
      <4>5. Brought(b, "d", doc.id, doc.v)'
        BY <2>12, <3>1, <4>2, <4>4
      <4>6. Fits(b) => Fits(b)'
        BY <2>1 DEF Fits
      <4>7. ASSUME ~(admin[b].step \in Touching /\ admin[b].h = 0), Brought(b, "s", doc.id, doc.v)
            PROVE  Brought(b, "s", doc.id, doc.v)'
        <5>1. CASE InOld(b) \/ (OldKeys(b, "d") <=> OldKeys(b, "s"))
          <6>1. /\ AtKey("d", f, KeyName(f), doc.id, doc.v) /\ AtKey("s", f, KeyName(f), doc.id, doc.v)
                     => AtKey("s", f, KeyName(f), doc.id, doc.v)'
                /\ AtKey("d", g, KeyName(f), doc.id, doc.v) /\ AtKey("s", g, KeyName(f), doc.id, doc.v)
                     => AtKey("s", g, KeyName(f), doc.id, doc.v)'
                /\ AtKey("d", g, KeyName(g), doc.id, doc.v) /\ AtKey("s", g, KeyName(g), doc.id, doc.v)
                     => AtKey("s", g, KeyName(g), doc.id, doc.v)'
            BY <2>7, <3>1, <4>2
          <6> QED BY <2>1, <4>1, <4>4, <4>7, <5>1, <6>1 DEF Brought, InOld, OldKeys, Reads, Proper
        <5>2. CASE ~InOld(b) /\ ~(OldKeys(b, "d") <=> OldKeys(b, "s"))
          <6>1. admin[b].step \in Touching /\ (admin[b].step = "delete" \/ admin[b].kind = "s") /\ OldKeys(b, "s")
            BY <5>2 DEF OldKeys, Touching
          <6>2. Fits(b) /\ admin[b].h # 0
            BY <4>3, <4>7, <6>1 DEF DocOf
          <6>3. scope = "block" /\ f # g
            <7>1. GoodOrder(admin[b])
              BY <3>1 DEF OrderInv
            <7>2. admin[b].step \notin {"lock", "close", "drop"}
              BY <6>1 DEF Touching
            <7> QED BY <3>1, <4>1, <6>1, <7>1, <7>2, OrderFacts DEF GoodOrder, Touching, Busy, AnOrder, TypeInv
          <6>4. pool[g] = dir[g] /\ dir[g] # 0
            BY <3>1, <4>1, <6>2 DEF Fits, PoolInv, OrderHandles
          <6>5. AtKey("s", g, f, doc.id, doc.v) /\ Reads(b, "s", doc.id, doc.v)
            BY <4>1, <4>7, <5>2, <6>1, <6>3 DEF Brought, KeyName
          <6>6. ~(dir[g] = h /\ f = KeyName(o))
            BY <2>2, <6>3, <6>4 DEF KeyName, PoolInv, Directories, Apart
          <6>7. AtKey("s", g, f, doc.id, doc.v)'
            <7>1. f \in KeyNames /\ dir[g] \in Stores
              BY <2>3, <6>4 DEF KeyNames
            <7> QED BY <2>1, <4>2, <6>5, <6>6, <7>1 DEF AtKey
          <6>8. ~InOld(b)' /\ OldKeys(b, "s")' /\ Reads(b, "s", doc.id, doc.v)'
            BY <2>1, <5>2, <6>1, <6>5 DEF InOld, OldKeys, Reads
          <6> QED BY <2>1, <4>1, <6>3, <6>7, <6>8 DEF Brought, KeyName
        <5> QED BY <5>1, <5>2
      <4> QED BY <2>1, <4>3, <4>5, <4>6, <4>7 DEF DocOf
    <3> QED BY <2>1, <3>1 DEF DocsInv, Busy
  <2>16. MovedInv'
    <3>1. ASSUME moved.name # None, NEW doc \in moved.docs, doc.v \in Safe'
          PROVE  /\ Undisturbed(moved.name)' /\ Proper("d", moved.name, doc.id, doc.v)'
                 /\ doc.indexed /\ sweeps' = 0 => Proper("s", moved.name, doc.id, doc.v)'
      <4>1. doc.id \in Ids /\ moved.name \in Names
        BY <3>1 DEF TypeInv, Doc
      <4>2. PICK n \in Names : n = moved.name
        BY <4>1
      <4>3. doc.v # u
        BY <2>1, <3>1 DEF KnownInv, MovedKnown
      <4>4. /\ Undisturbed(n) /\ Proper("d", n, doc.id, doc.v)
            /\ doc.indexed /\ sweeps = 0 => Proper("s", n, doc.id, doc.v)
        BY <2>5, <3>1, <4>2, <4>3 DEF Places, MovedInv
      <4>5. Undisturbed(n)'
        BY <2>10, <4>4 DEF Undisturbed
      <4>6. Proper("d", n, doc.id, doc.v)' /\ (doc.indexed /\ sweeps' = 0 => Proper("s", n, doc.id, doc.v)')
        BY <2>1, <2>7, <3>1, <4>1, <4>3, <4>4 DEF Proper
      <4>7. moved'.name = n
        BY <2>1, <4>2
      <4> QED BY <4>5, <4>6, <4>7 DEF Undisturbed, Touches, Proper, AtKey, KeyName
    <3> QED BY <2>1, <3>1 DEF MovedInv, Undisturbed, Touches, Proper, AtKey, KeyName
  <2> QED BY <2>11, <2>13, <2>14, <2>15, <2>16 DEF Places
<1> QED BY <1>1, <1>2

-----------------------------------------------------------------------------
(* The invariant *)

(* The inductive invariant.                                                *)
RenameInv == TypeInv /\ OrderInv /\ PoolInv /\ FreshInv /\ KnownInv /\ SweepInv /\ Places

LEMMA SweepStep ==
  ASSUME TypeInv, SweepInv, RenameNext PROVE SweepInv'
<1>1. CASE \E n \in Names : SweepPicks(n)
  BY <1>1 DEF SweepPicks, SweepInv, TypeInv
<1>2. CASE SweepChecks \/ SweepPurges \/ SweepRebuilds
  <2>1. sweep # Idle
    <3>1. SweepChecks => sweep.step = "check"
      BY Zenon DEF SweepChecks
    <3>2. SweepPurges => sweep.step = "purge"
      BY Zenon DEF SweepPurges
    <3>3. SweepRebuilds => sweep.step \in {"unindex", "index"}
      BY Zenon DEF SweepRebuilds
    <3> QED BY <1>2, <3>1, <3>2, <3>3 DEF Idle
  <2>2. sweeps' = sweeps
    BY <1>2 DEF SweepChecks, SweepPurges, SweepRebuilds, bounds
  <2> QED BY <2>1, <2>2 DEF SweepInv
<1>3. CASE CrashAndRecover
  BY <1>3 DEF CrashAndRecover, SweepInv
<1>4. ASSUME NEW a \in Admins, CloseHandles(a) PROVE SweepInv'
  <2>1. sweeps' = sweeps /\ sweep' = Loses(sweep, pool[admin[a].old])
    BY <1>4 DEF CloseHandles, WithoutHandle, bounds
  <2>2. sweep = Idle => sweep' = Idle
    BY <2>1 DEF Loses, Idle
  <2> QED BY <2>1, <2>2 DEF SweepInv
<1>5. CASE UNCHANGED <<sweep, sweeps>>
  BY <1>5 DEF SweepInv
<1>6. ASSUME NEW n \in Names, Create(n) PROVE UNCHANGED <<sweep, sweeps>>
  BY <1>6 DEF Create, bounds
<1>7. ASSUME NEW w \in Writers, NEW n \in Names, NEW i \in Ids, NEW kind \in {"single", "batch"},
             NEW f \in {"plain", "packed"}, InsertBegins(w, n, i, kind, f)
      PROVE  UNCHANGED <<sweep, sweeps>>
  BY <1>7 DEF InsertBegins, bounds
<1>8. ASSUME NEW w \in Writers, Commit(w) PROVE UNCHANGED <<sweep, sweeps>>
  BY <1>8 DEF Commit, bounds
<1>9. ASSUME NEW a \in Admins,
         \/ \E op \in {"rename", "drop"}, old, new \in Names : Order(a, op, old, new)
         \/ Lock(a) \/ Drop(a) \/ Move(a) \/ MoveFails(a) \/ Copy(a) \/ CopyFails(a) \/ Retry(a)
         \/ RemoveSource(a) \/ MigrateOpens(a) \/ MigrateReads(a) \/ MigrateWrites(a) \/ MigrateDeletes(a)
         \/ MigrateFails(a) \/ Succeed(a)
      PROVE UNCHANGED <<sweep, sweeps>>
  BY <1>9 DEF Order, Lock, Drop, Move, MoveFails, Copy, CopyFails, Retry, RemoveSource, MigrateOpens, MigrateReads,
              MigrateWrites, MigrateDeletes, MigrateFails, Succeed, bounds
<1> QED BY <1>1, <1>2, <1>3, <1>4, <1>5, <1>6, <1>7, <1>8, <1>9 DEF RenameNext

LEMMA KnownStep ==
  ASSUME RenameInv, RenameNext PROVE KnownInv' /\ FreshInv' /\ SweepInv'
<1>1. KeysKnown' /\ FreshInv'
  BY KeysStep DEF RenameInv
<1>2. OrdersKnown' /\ MovedKnown'
  <2>1. CASE \E a \in Admins : Acts(a)
    BY <2>1, ActsKnown DEF RenameInv
  <2>2. CASE \A a \in Admins : ~Acts(a)
    BY <2>2, OthersKnown DEF RenameInv
  <2> QED BY <2>1, <2>2
<1>3. LogInv' /\ WritersInv'
  BY LogStep, WritersStep DEF RenameInv, KnownInv
<1>4. SweepInv'
  BY SweepStep DEF RenameInv
<1> QED BY <1>1, <1>2, <1>3, <1>4 DEF KnownInv

LEMMA OrderStep ==
  ASSUME RenameInv, NEW a \in Admins, Acts(a) PROVE TypeInv' /\ OrderInv' /\ PoolInv' /\ Places'
<1> USE DEF RenameInv
<1>1. CASE Lock(a)
  BY <1>1, LockTypes, LockKeepsOrder, LockKeepsPool, LockPlaces
<1>2. CASE CloseHandles(a)
  BY <1>2, CloseHandlesTypes, CloseHandlesKeepsOrder, CloseHandlesKeepsPool, CloseHandlesPlaces
<1>3. CASE Drop(a)
  <2>1. OrderInv'
    BY <1>3, IdleKeepsOrder DEF Drop
  <2> QED BY <1>3, <2>1, FileStepTypes, RemovingKeepsPool, DropPlaces
<1>4. CASE Move(a)
  BY <1>4, FileStepTypes, FilesKeepOrder, RemovingKeepsPool, MovePlaces
<1>5. CASE MoveFails(a) \/ CopyFails(a)
  BY <1>5, FileStepTypes, FilesKeepOrder, GoingKeepsPool, AttemptPlaces
<1>6. CASE Copy(a)
  BY <1>6, CopyTypes, FilesKeepOrder, GoingKeepsPool, CopyPlaces
<1>7. CASE Retry(a)
  BY <1>7, FileStepTypes, RetryKeepsOrder, RemovingKeepsPool, RetryPlaces
<1>8. CASE RemoveSource(a)
  BY <1>8, FileStepTypes, FilesKeepOrder, RemovingKeepsPool, RemoveSourcePlaces
<1>9. CASE MigrateOpens(a)
  BY <1>9, MigrateOpensTypes, MigrateOpensKeepsOrder, MigrateOpensKeepsPool, MigrateOpensPlaces
<1>10. CASE MigrateReads(a)
  BY <1>10, MigrateReadsTypes, MigratesKeepOrder, MigratingKeepsPool, MigrateReadsPlaces
<1>11. CASE MigrateWrites(a)
  BY <1>11, MigrateWritesFacts, MigratesKeepOrder, MigratingKeepsPool, MigrateWritesPlaces
<1>12. CASE MigrateDeletes(a)
  BY <1>12, MigrateDeletesFacts, MigratesKeepOrder, MigratingKeepsPool, MigrateDeletesPlaces
<1>13. CASE MigrateFails(a)
  <2>1. OrderInv'
    BY <1>13, IdleKeepsOrder DEF MigrateFails
  <2> QED BY <1>13, <2>1, LastTypes, MigratingKeepsPool, MigrateFailsPlaces
<1>14. CASE Succeed(a)
  <2>1. OrderInv'
    BY <1>14, IdleKeepsOrder DEF Succeed
  <2> QED BY <1>14, <2>1, LastTypes, MigratingKeepsPool, SucceedPlaces
<1> QED BY <1>1, <1>2, <1>3, <1>4, <1>5, <1>6, <1>7, <1>8, <1>9, <1>10, <1>11, <1>12, <1>13, <1>14 DEF Acts

LEMMA InvStep ==
  ASSUME RenameInv, RenameNext PROVE RenameInv'
<1> USE DEF RenameInv
<1>1. KnownInv' /\ FreshInv' /\ SweepInv'
  BY KnownStep
<1>2. ASSUME NEW a \in Admins, Acts(a) PROVE TypeInv' /\ OrderInv' /\ PoolInv' /\ Places'
  BY <1>2, OrderStep
<1>3. ASSUME NEW n \in Names, Create(n) PROVE TypeInv' /\ OrderInv' /\ PoolInv' /\ Places'
  <2>1. OrderInv'
    BY <1>3, QuietKeepsOrder DEF Create
  <2> QED BY <1>3, <2>1, CreateTypes, CreateKeepsPool, CreatePlaces
<1>4. ASSUME (\E n \in Names : SweepPicks(n)) \/ SweepChecks
      PROVE  TypeInv' /\ OrderInv' /\ PoolInv' /\ Places'
  <2>1. OrderInv'
    BY <1>4, QuietKeepsOrder DEF SweepPicks, SweepChecks
  <2> QED BY <1>4, <2>1, SweepTypes, SweepKeepsPool, SweepBeginsPlaces
<1>5. CASE SweepPurges
  <2>1. OrderInv'
    BY <1>5, QuietKeepsOrder DEF SweepPurges
  <2> QED BY <1>1, <1>5, <2>1, PurgeFacts, SweepKeepsPool, SweepPurgesPlaces
<1>6. CASE SweepRebuilds
  <2>1. OrderInv'
    BY <1>6, QuietKeepsOrder DEF SweepRebuilds
  <2>2. TypeInv'
    BY <1>6, RebuildFacts
  <2> QED BY <1>1, <1>6, <2>1, <2>2, SweepKeepsPool, SweepRebuildsPlaces
<1>7. ASSUME NEW w \in Writers, NEW n \in Names, NEW i \in Ids, NEW kind \in {"single", "batch"},
             NEW f \in {"plain", "packed"}, InsertBegins(w, n, i, kind, f)
      PROVE  TypeInv' /\ OrderInv' /\ PoolInv' /\ Places'
  <2>1. OrderInv'
    BY <1>7, QuietKeepsOrder DEF InsertBegins
  <2> QED BY <1>7, <2>1, InsertBeginsTypes, InsertBeginsKeepsPool, InsertBeginsPlaces
<1>8. ASSUME NEW w \in Writers, Commit(w) PROVE TypeInv' /\ OrderInv' /\ PoolInv' /\ Places'
  <2>1. OrderInv'
    BY <1>8, QuietKeepsOrder DEF Commit
  <2> QED BY <1>8, <2>1, CommitTypes, CommitKeepsPool, CommitPlaces
<1>9. ASSUME NEW a \in Admins, NEW op \in {"rename", "drop"}, NEW old \in Names,
             NEW new \in Names, Order(a, op, old, new)
      PROVE  TypeInv' /\ OrderInv' /\ PoolInv' /\ Places'
  BY <1>9, OrderTypes, OrderKeepsOrder, OrderKeepsPool, OrderBeginsPlaces
<1>10. CASE CrashAndRecover
  <2>1. TypeInv'
    BY <1>10, CrashFacts DEF PoolInv, Directories
  <2> QED BY <1>1, <1>10, <2>1, CrashKeepsOrder, CrashKeepsPool, CrashPlaces
<1>11. TypeInv' /\ OrderInv' /\ PoolInv' /\ Places'
  BY <1>2, <1>3, <1>4, <1>5, <1>6, <1>7, <1>8, <1>9, <1>10 DEF RenameNext, Acts
<1> QED BY <1>1, <1>11

LEMMA InvStutters ==
  ASSUME RenameInv, UNCHANGED renameVars PROVE RenameInv'
<1> USE DEF renameVars, RenameInv
<1>1. TypeInv'
  BY DEF TypeInv
<1>2. OrderInv' /\ SweepInv'
  BY DEF OrderInv, GoodOrder, SweepInv, Busy
<1>3. PoolInv'
  BY DEF PoolInv, Directories, WriterHandles, OrderHandles, SweepHandle, Apart, Busy
<1>4. FreshInv' /\ KnownInv'
  BY DEF FreshInv, KnownInv, KeysKnown, OrdersKnown, MovedKnown, LogInv, WritersInv, Committed, Busy, Undisturbed, Touches
<1>5. Places'
  <2>1. Safe' = Safe
    BY DEF Safe
  <2>2. \A n, m \in Names : Stays("d", n, m) /\ Stays("s", n, m)
    BY DEF Stays
  <2>3. \A n \in Names : \A v : In(v, n)' => In(v, n)
    BY DEF In
  <2> QED BY <2>1, <2>2, <2>3, QuietPlaces
<1> QED BY <1>1, <1>2, <1>3, <1>4, <1>5

LEMMA InvHolds ==
  ASSUME RenameInv PROVE InsertsAreKept /\ RenamedIsRead
<1>1. InsertsAreKept
  <2>1. ASSUME NEW v \in Safe PROVE v \in Present
    <3>1. PICK i \in Ids : \/ \E n \in Names : Settled(n) /\ Proper("d", n, i, v)
                           \/ \E a \in Admins : Busy(a) /\ Brought(a, "d", i, v)
      BY DEF RenameInv, Places, HomeInv
    <3>2. PICK n \in Names : In(v, n)
      BY <3>1, BroughtIsIn, AtKeyIsIn DEF RenameInv, Proper
    <3>3. v # 0
      BY SafeVersions DEF RenameInv, KnownInv
    <3>4. dir[n] # 0 /\ v \in Docs(dir[n])
      BY <3>2, <3>3, InDocs DEF RenameInv
    <3> QED BY <3>4 DEF Present
  <2> QED BY <2>1 DEF InsertsAreKept
<1>2. RenamedIsRead
  BY DEF RenameInv, Places, MovedInv, RenamedIsRead, Proper, AtKey
<1> QED BY <1>1, <1>2

LEMMA InvBegins == RenameInit => RenameInv
<1> SUFFICES ASSUME RenameInit PROVE RenameInv
  OBVIOUS
<1>1. TypeInv
  BY InitTypes
<1>2. PICK n \in Names, i \in Ids, f \in {"plain", "packed", "broken"} :
        /\ dir = [m \in Names |-> IF m = n THEN 1 ELSE 0]
        /\ keys = [s \in Stores |-> IF s = 1
                     THEN [k \in {"d", "s"} |-> [NoKeys[k] EXCEPT ![KeyName(n)][i] =
                             IF k = "d" \/ f # "broken" THEN 1 ELSE 0]] ELSE NoKeys]
        /\ log = <<[name |-> n, id |-> i, v |-> 1]>>
        /\ form = <<f>>
  BY DEF RenameInit
<1>3. /\ pool = [m \in Names |-> 0] /\ writer = [w \in Writers |-> Idle] /\ admin = [a \in Admins |-> Idle]
      /\ sweep = Idle /\ made = 1 /\ kept = {1} /\ moved = NothingMoved
  BY DEF RenameInit
<1>4. \A a \in Admins : ~Busy(a) /\ \A m : ~Touches(a, m)
  BY <1>3 DEF Busy, Touches, Idle
<1>5. /\ \A s \in Stores, x \in {"d", "s"}, m \in KeyNames, j \in Ids :
            keys[s][x][m][j] \in {0, 1} /\ (s > 1 => keys[s][x][m][j] = 0)
      /\ keys[1]["d"][KeyName(n)][i] = 1 /\ KeyName(n) \in KeyNames
  <2>1. KeyName(n) \in KeyNames /\ 1 \in Stores
    BY Numbers DEF KeyName, KeyNames
  <2>2. \A x \in {"d", "s"}, m \in KeyNames, j \in Ids : NoKeys[x][m][j] = 0
    BY DEF NoKeys
  <2>3. \A x \in {"d", "s"}, m \in KeyNames, j \in Ids :
           keys[1][x][m][j] = IF m = KeyName(n) /\ j = i /\ (x = "d" \/ f # "broken") THEN 1 ELSE 0
    BY <1>2, <2>1, <2>2 DEF NoKeys
  <2>4. \A s \in Stores : s # 1 => keys[s] = NoKeys
    BY <1>2
  <2> QED BY <2>1, <2>2, <2>3, <2>4
<1>6. Committed = {1}
  BY <1>2 DEF Committed
<1>7. OrderInv /\ SweepInv
  BY <1>3, <1>4 DEF OrderInv, GoodOrder, SweepInv
<1>8. PoolInv
  BY <1>2, <1>3, <1>4 DEF PoolInv, Directories, Apart, WriterHandles, OrderHandles, SweepHandle
<1>9. FreshInv
  BY <1>3, <1>5 DEF FreshInv
<1>10. KnownInv
  <2>1. KeysKnown
    BY <1>5, <1>6 DEF KeysKnown
  <2>2. OrdersKnown /\ MovedKnown /\ WritersInv
    BY <1>3, <1>4 DEF OrdersKnown, MovedKnown, NothingMoved, WritersInv
  <2>3. LogInv
    BY <1>2, <1>3, <1>6 DEF LogInv
  <2> QED BY <2>1, <2>2, <2>3 DEF KnownInv
<1>11. Places
  <2>1. Settled(n) /\ Proper("d", n, i, 1)
    BY <1>2, <1>4, <1>5 DEF Settled, Proper, AtKey
  <2>2. HomeInv
    BY <1>3, <2>1 DEF HomeInv, Safe
  <2>3. MovedInv
    BY <1>3 DEF MovedInv, NothingMoved
  <2> QED BY <1>4, <2>2, <2>3 DEF Places, AloneInv, PairsInv, DocsInv
<1> QED BY <1>1, <1>7, <1>8, <1>9, <1>10, <1>11 DEF RenameInv

(* Whatever is renamed, dropped, copied short, migrated, repaired or       *)
(* killed, an insert answered with success is in some directory that a     *)
(* name leads to, but for what a later insert or a DROP replaced, what two *)
(* overlapping orders or a request in the middle of a copy contested, what *)
(* a repair purged, and what a migration that failed left behind:          *)
(* executeRename and migrateBlockKeyNames lose nothing else.               *)
THEOREM InsertsAreKeptAlways == RenameInit /\ [][RenameNext]_renameVars => []InsertsAreKept
<1>1. RenameInit => RenameInv
  BY InvBegins
<1>2. RenameInv /\ [RenameNext]_renameVars => RenameInv'
  BY InvStep, InvStutters
<1>3. RenameInv => InsertsAreKept
  BY InvHolds
<1> QED BY <1>1, <1>2, <1>3, PTL

(* After RENAME BLOCK or RENAME DB reported success, every safe document   *)
(* that the old name held is under the new name with its new key, and the  *)
(* index has it if it had it before and no sweep was about to rebuild the  *)
(* index; also when requests, sweeps and other orders go on beside it.     *)
THEOREM RenamedIsReadAlways == RenameInit /\ [][RenameNext]_renameVars => []RenamedIsRead
<1>1. RenameInit => RenameInv
  BY InvBegins
<1>2. RenameInv /\ [RenameNext]_renameVars => RenameInv'
  BY InvStep, InvStutters
<1>3. RenameInv => RenamedIsRead
  BY InvHolds
<1> QED BY <1>1, <1>2, <1>3, PTL
=============================================================================
