----------------------------- MODULE ClusterProofs -----------------------------
(***************************************************************************)
(* Theorems about the shard manager of one node, for any calls, nodes and  *)
(* bounds (the second part of this module), and about a cluster.           *)
(*                                                                         *)
(* What Raft's log and the writes beside it leave on the members, for any  *)
(* nodes, ids and bounds: two members that have applied the whole log hold *)
(* the same, but for what was written outside Raft, failed, or was lost    *)
(* with the log of a restarted member.                                     *)
(*                                                                         *)
(* The data of a member is a fold of the log over what it held before, so  *)
(* the invariant does not compute it.  It says of each id which command    *)
(* decided it, which a replay after a restart and a shorter log leave      *)
(* true, and what a member whose batch hangs is waiting at.                *)
(***************************************************************************)
EXTENDS Shards, Cluster, FiniteSetTheorems, TLAPS

TaskKinds == {"none", "member", "rebalance", "start"} \cup Nodes
TaskPlaces == {"none", "peers", "shards", "balance", "refresh"}

(* What each variable of the cluster holds.                                *)
ClusterTypeOK ==
  /\ voters \subseteq Nodes /\ leader \in Nodes \cup {NoOne}
  /\ rlog \in Seq(Commands)
  /\ seen \in [Nodes -> Nat] /\ applied \in [Nodes -> Nat]
  /\ config \in [Nodes -> SUBSET Nodes] /\ reconf \in Nat
  /\ snap \in [Nodes -> [index : Nat, members : SUBSET Nodes]]
  /\ lost \subseteq Ids \cup {New}
  /\ failed \in [Nodes -> SUBSET (Ids \cup {New})]
  /\ singleNode \in [Nodes -> BOOLEAN] /\ peers \in [Nodes -> SUBSET Nodes]
  /\ task \in [Nodes -> [kind : TaskKinds, at : TaskPlaces]]
  /\ held \subseteq Nodes
  /\ data \in [Nodes -> SUBSET Ids] /\ batches \in [Nodes -> Nat]
  /\ jammed \in [Nodes -> SUBSET (Ids \cup {New})]
  /\ bypassed \subseteq Ids /\ odd \subseteq Nodes /\ restarts \in Nat

(* What a member has still to apply is in the log, and what its snapshot   *)
(* stands for it has applied.                                              *)
Behind ==
  /\ \A n \in voters : seen[n] <= Len(rlog) \/ seen[n] <= applied[n]
  /\ \A n \in Nodes : snap[n].index <= applied[n]

(* A document is somewhere because it was inserted: through the log, or    *)
(* outside Raft.                                                           *)
Stored ==
  \A n \in Nodes, i \in Ids \ (bypassed \cup lost) :
    i \in data[n] =>
      \E k \in 1..Len(rlog) : rlog[k].op = "insert" /\ rlog[k].id = i

(* Of an id, n holds what a command about it left, one that no other       *)
(* command about it follows among those n has applied.  n may have applied *)
(* it before a restart, or hang in it.                                     *)
Decides(n, i, k) ==
  /\ rlog[k].id = i /\ (i \in data[n] <=> rlog[k].op = "insert")
  /\ \A j \in 1..Len(rlog) : k < j /\ j <= applied[n] => rlog[j].id # i
FollowsOn(n, i) ==
  \/ \A k \in 1..Len(rlog) : k <= applied[n] => rlog[k].id # i
  \/ \E k \in 1..Len(rlog) : Decides(n, i, k)
Follows ==
  \A n \in Nodes : \A i \in Ids \ (bypassed \cup lost \cup failed[n]) :
    FollowsOn(n, i)

(* A batch of n that hangs came from outside Raft, or is the command that  *)
(* n has to apply next, and n does not get past it.                        *)
AtBatch(n) ==
  applied[n] < Len(rlog) /\ rlog[applied[n] + 1].op = "insert_batch"
Stuck ==
  \A n \in Nodes \ odd : New \in jammed[n] => New \in lost \/ AtBatch(n)

(* A member that took no batch beside the log, replayed none and failed in *)
(* none has one for each it applied.                                       *)
BatchesIn(a) == {k \in 1..Len(rlog) : k <= a /\ rlog[k].op = "insert_batch"}
BatchesCounted ==
  \A n \in Nodes \ odd :
    New \notin lost \cup failed[n] \cup jammed[n] =>
      batches[n] = Cardinality(BatchesIn(applied[n]))

ClusterInv ==
  ClusterTypeOK /\ Behind /\ Stored /\ Follows /\ Stuck /\ BatchesCounted

-----------------------------------------------------------------------------
(* A command is about one id, which is New for a batch.                    *)
LEMMA CommandFacts ==
  ASSUME NEW c \in Commands
  PROVE  /\ c.op \in {"insert", "delete", "insert_batch"}
         /\ c.op = "insert_batch" => c.id = New
         /\ c.op # "insert_batch" => c.id \in Ids
         /\ Inserts(c) <=> c.op \in {"insert", "insert_batch"}
BY DEF Commands, Inserts

(* What storing a command changes on its node, and only there.             *)
LEMMA StoreChanges ==
  ASSUME ClusterTypeOK, NEW n \in Nodes, NEW c \in Commands, Store(n, c)
  PROVE  /\ data' \in [Nodes -> SUBSET Ids] /\ batches' \in [Nodes -> Nat]
         /\ jammed' \in [Nodes -> SUBSET (Ids \cup {New})]
         /\ \A m \in Nodes, i \in Ids :
              m # n \/ c.id # i => (i \in data'[m] <=> i \in data[m])
         /\ c.op = "insert" => c.id \in data'[n]
         /\ c.op = "delete" => c.id \notin data'[n]
         /\ \A m \in Nodes : m # n \/ c.op # "insert_batch" =>
              batches'[m] = batches[m]
         /\ c.op = "insert_batch" => batches'[n] = batches[n] + 1
         /\ \A m \in Nodes \ {n} : jammed'[m] = jammed[m]
         /\ jammed'[n] = IF Hangs(n, c) THEN jammed[n] \cup {c.id}
                                        ELSE jammed[n]
<1> USE CommandFacts DEF ClusterTypeOK, Store
<1>1. data' \in [Nodes -> SUBSET Ids] /\ batches' \in [Nodes -> Nat]
  OBVIOUS
<1>2. c.id \in Ids \cup {New}
  OBVIOUS
<1>3. jammed' \in [Nodes -> SUBSET (Ids \cup {New})]
  BY <1>2
<1>4. \A m \in Nodes, i \in Ids :
        m # n \/ c.id # i => (i \in data'[m] <=> i \in data[m])
  OBVIOUS
<1>5. /\ c.op = "insert" => c.id \in data'[n]
      /\ c.op = "delete" => c.id \notin data'[n]
  OBVIOUS
<1>6. /\ \A m \in Nodes : m # n \/ c.op # "insert_batch" =>
           batches'[m] = batches[m]
      /\ c.op = "insert_batch" => batches'[n] = batches[n] + 1
  OBVIOUS
<1>7. /\ \A m \in Nodes \ {n} : jammed'[m] = jammed[m]
      /\ jammed'[n] = IF Hangs(n, c) THEN jammed[n] \cup {c.id} ELSE jammed[n]
  OBVIOUS
<1> QED
  BY <1>1, <1>3, <1>4, <1>5, <1>6, <1>7

(* A restarted node finds no entry in its log store.                       *)
LEMMA LogLooksEmpty == \A entries : LastIndex(entries) = 0
<1>1. \A i : ~IsPrefix(Key(i), <<"log-">>)
  BY DEF IsPrefix, Key
<1> QED
  BY <1>1 DEF LastIndex

(* The batches among the first commands, one command later.                *)
LEMMA OneMoreCommand ==
  ASSUME ClusterTypeOK, NEW a \in Nat, a < Len(rlog)
  PROVE  /\ IsFiniteSet(BatchesIn(a)) /\ Cardinality(BatchesIn(a)) \in Nat
         /\ Cardinality(BatchesIn(a + 1)) =
              IF rlog[a + 1].op = "insert_batch"
              THEN Cardinality(BatchesIn(a)) + 1 ELSE Cardinality(BatchesIn(a))
<1>0. Len(rlog) \in Nat
  BY DEF ClusterTypeOK
<1>1. IsFiniteSet(BatchesIn(a))
  <2>1. BatchesIn(a) \subseteq 1..Len(rlog)
    BY DEF BatchesIn
  <2>2. IsFiniteSet(1..Len(rlog))
    BY <1>0, FS_Interval
  <2> QED
    BY <2>1, <2>2, FS_Subset
<1>2. Cardinality(BatchesIn(a)) \in Nat
  BY <1>1, FS_CardinalityType
<1>3. BatchesIn(a + 1) = IF rlog[a + 1].op = "insert_batch"
                         THEN BatchesIn(a) \cup {a + 1} ELSE BatchesIn(a)
  BY <1>0 DEF BatchesIn
<1>4. a + 1 \notin BatchesIn(a)
  BY DEF BatchesIn
<1>5. Cardinality(BatchesIn(a) \cup {a + 1}) = Cardinality(BatchesIn(a)) + 1
  BY <1>1, <1>4, FS_AddElement
<1> QED
  BY <1>1, <1>2, <1>3, <1>5

-----------------------------------------------------------------------------
LEMMA ClusterBegins == ClusterInit => ClusterInv
<1> SUFFICES ASSUME ClusterInit PROVE ClusterInv
  OBVIOUS
<1> USE DEF ClusterInit
<1>1. ClusterTypeOK
  BY ClusterAssumption DEF ClusterTypeOK, Idle, TaskKinds, TaskPlaces, NoSnapshot
<1>2. Behind /\ Stored /\ Follows /\ Stuck
  BY ClusterAssumption DEF Behind, Stored, Follows, FollowsOn, Stuck, NoSnapshot
<1>3. BatchesCounted
  <2>1. BatchesIn(0) = {}
    BY DEF BatchesIn
  <2> QED
    BY <2>1, FS_EmptySet DEF BatchesCounted
<1> QED
  BY <1>1, <1>2, <1>3 DEF ClusterInv

(* Steps that change neither the log nor what nodes hold or have applied.  *)
LEMMA QuietStep ==
  ASSUME ClusterInv, ClusterTypeOK', Behind',
         UNCHANGED <<rlog, applied, lost, dataVars>>
  PROVE  ClusterInv'
<1> USE DEF ClusterInv, dataVars
<1>1. Stored'
  BY DEF Stored
<1>2. Follows'
  BY DEF Follows, FollowsOn, Decides
<1>3. Stuck'
  BY DEF Stuck, AtBatch
<1>4. BatchesCounted'
  BY DEF BatchesCounted, BatchesIn
<1> QED
  BY <1>1, <1>2, <1>3, <1>4

(* The log grows by a command.  Those who have applied more than was in it *)
(* skip the command, and its id counts as lost.                            *)
LEMMA ReplicateKeeps ==
  ASSUME ClusterInv, NEW n \in Nodes, NEW c \in Commands, Replicate(n, c)
  PROVE  ClusterInv'
<1> USE DEF ClusterInv, Replicate, managerVars, dataVars
<1>1. /\ rlog' \in Seq(Commands) /\ Len(rlog') = Len(rlog) + 1
      /\ \A k \in 1..Len(rlog) : rlog'[k] = rlog[k]
      /\ rlog'[Len(rlog) + 1] = c /\ Len(rlog) \in Nat
  BY DEF ClusterTypeOK
<1>2. c.id \in Ids \cup {New}
  BY CommandFacts
<1>a. \A m \in Nodes : applied[m] \in Nat
  BY DEF ClusterTypeOK
<1>b. lost' = IF \E m \in Nodes : applied[m] > Len(rlog) THEN lost \cup {c.id}
                                                      ELSE lost
  BY DEF Replicate
<1>3. /\ lost \subseteq lost' /\ lost' \subseteq lost \cup {c.id}
      /\ \A m \in Nodes : c.id \notin lost' => applied[m] <= Len(rlog)
  <2>1. CASE \E m \in Nodes : applied[m] > Len(rlog)
    BY <1>b, <2>1
  <2>2. CASE ~\E m \in Nodes : applied[m] > Len(rlog)
    BY <1>1, <1>a, <1>b, <2>2
  <2> QED
    BY <2>1, <2>2
<1>4. /\ seen' \in [Nodes -> Nat] /\ config' \in [Nodes -> SUBSET Nodes]
      /\ \A m \in voters : seen'[m] = Len(rlog')
  BY <1>1 DEF ClusterTypeOK, Hear
<1>5. ClusterTypeOK'
  BY <1>1, <1>2, <1>3, <1>4 DEF ClusterTypeOK
<1>6. Behind'
  BY <1>1, <1>4 DEF Behind, ClusterTypeOK
<1>7. Stored'
  BY <1>1, <1>3 DEF Stored
<1>8. \A m \in Nodes : applied[m] \in Nat
  BY DEF ClusterTypeOK
<1>9. Follows'
  <2> SUFFICES ASSUME NEW m \in Nodes,
                      NEW i \in Ids \ (bypassed \cup lost' \cup failed[m])
               PROVE  FollowsOn(m, i)'
    BY DEF Follows
  <2>1. FollowsOn(m, i)
    BY <1>3 DEF Follows
  <2>2. Len(rlog) + 1 <= applied[m] => rlog'[Len(rlog) + 1].id # i
    BY <1>1, <1>3, <1>8
  <2>3. CASE \A k \in 1..Len(rlog) : k <= applied[m] => rlog[k].id # i
    <3>1. \A k \in 1..Len(rlog') : k <= applied[m] => rlog'[k].id # i
      BY <1>1, <2>2, <2>3
    <3> QED
      BY <3>1 DEF FollowsOn
  <2>4. ASSUME NEW k \in 1..Len(rlog), Decides(m, i, k) PROVE FollowsOn(m, i)'
    <3>1. k \in 1..Len(rlog') /\ rlog'[k] = rlog[k]
      BY <1>1
    <3>2. \A j \in 1..Len(rlog') : k < j /\ j <= applied[m] => rlog'[j].id # i
      BY <1>1, <2>2, <2>4 DEF Decides
    <3>3. Decides(m, i, k)'
      BY <2>4, <3>1, <3>2 DEF Decides
    <3> QED
      BY <3>1, <3>3 DEF FollowsOn
  <2> QED
    BY <2>1, <2>3, <2>4 DEF FollowsOn
<1>10. Stuck'
  <2> SUFFICES ASSUME NEW m \in Nodes, AtBatch(m) PROVE AtBatch(m)'
    BY <1>3 DEF Stuck
  <2> QED
    BY <1>1, <1>8 DEF AtBatch
<1>11. BatchesCounted'
  <2> SUFFICES ASSUME NEW m \in Nodes \ odd,
                      New \notin lost' \cup failed[m] \cup jammed[m]
               PROVE  batches[m] = Cardinality(BatchesIn(applied[m])')
    BY DEF BatchesCounted
  <2>1. batches[m] = Cardinality(BatchesIn(applied[m]))
    BY <1>3 DEF BatchesCounted
  <2>2. Len(rlog) + 1 <= applied[m] => c.op # "insert_batch"
    BY <1>1, <1>3, <1>8, CommandFacts
  <2>3. BatchesIn(applied[m])' = BatchesIn(applied[m])
    BY <1>1, <2>2 DEF BatchesIn
  <2> QED
    BY <2>1, <2>3
<1> QED
  BY <1>5, <1>6, <1>7, <1>9, <1>10, <1>11

(* A write beside the log concerns an id, or a node, that no part of the   *)
(* invariant speaks of any more.                                           *)
LEMMA WriteLocallyKeeps ==
  ASSUME ClusterInv, NEW n \in Nodes, NEW c \in Commands, WriteLocally(n, c)
  PROVE  ClusterInv'
<1> USE ClusterAssumption DEF ClusterInv, WriteLocally, raftVars, managerVars
<1>1. Store(n, c) /\ c.id \in Ids \cup {New}
  BY CommandFacts
<1>2. bypassed' = IF c.id \in Ids THEN bypassed \cup {c.id} ELSE bypassed
  BY DEF ViaRaft
<1>3. odd' = IF c.op = "insert_batch" THEN odd \cup {n} ELSE odd
  BY DEF ViaRaft
<1>4. ClusterTypeOK'
  <2>1. /\ data' \in [Nodes -> SUBSET Ids] /\ batches' \in [Nodes -> Nat]
        /\ jammed' \in [Nodes -> SUBSET (Ids \cup {New})]
    BY <1>1, StoreChanges
  <2> QED
    BY <1>2, <1>3, <2>1 DEF ClusterTypeOK
<1>5. Behind'
  BY DEF Behind
<1>6. \A m \in Nodes : \A i \in Ids \ bypassed' : i \in data'[m] <=> i \in data[m]
  BY <1>1, <1>2, StoreChanges
<1>7. Stored'
  BY <1>2, <1>6 DEF Stored
<1>8. Follows'
  BY <1>2, <1>6 DEF Follows, FollowsOn, Decides
<1>9. ASSUME NEW m \in Nodes \ odd'
      PROVE  /\ m \notin odd /\ batches'[m] = batches[m]
             /\ New \in jammed'[m] <=> New \in jammed[m]
  <2>1. m # n \/ c.op # "insert_batch"
    BY <1>3, <1>9
  <2>2. batches'[m] = batches[m]
    BY <1>1, <2>1, StoreChanges
  <2>3. m = n => c.id # New
    BY <2>1, CommandFacts
  <2>4. /\ m # n => jammed'[m] = jammed[m]
        /\ jammed'[n] = IF Hangs(n, c) THEN jammed[n] \cup {c.id} ELSE jammed[n]
    BY <1>1, StoreChanges
  <2> QED
    BY <1>3, <1>9, <2>2, <2>3, <2>4
<1>10. Stuck'
  BY <1>9 DEF Stuck, AtBatch
<1>11. BatchesCounted'
  BY <1>9 DEF BatchesCounted, BatchesIn
<1> QED
  BY <1>4, <1>5, <1>7, <1>8, <1>10, <1>11

(* What a member has still to apply is a command of the log.               *)
LEMMA NextCommand ==
  ASSUME ClusterInv, NEW n \in Nodes, Pending(n)
  PROVE  /\ applied[n] \in Nat /\ applied[n] < Len(rlog) /\ Len(rlog) \in Nat
         /\ applied[n] + 1 \in 1..Len(rlog)
         /\ rlog[applied[n] + 1] \in Commands
<1>1. applied[n] \in Nat /\ seen[n] \in Nat /\ Len(rlog) \in Nat
  BY DEF ClusterInv, ClusterTypeOK
<1>2. applied[n] < Len(rlog)
  BY <1>1 DEF ClusterInv, Behind, Pending
<1> QED
  BY <1>1, <1>2 DEF ClusterInv, ClusterTypeOK

(* A member applies the command after those it has applied, or stays there *)
(* with an insert that hangs.                                              *)
LEMMA ApplyKeeps ==
  ASSUME ClusterInv, NEW n \in Nodes, Apply(n)
  PROVE  ClusterInv'
<1> USE ClusterAssumption DEF ClusterInv, managerVars
<1>1. PICK a : a = applied[n]
  OBVIOUS
<1>2. PICK c : c = rlog[a + 1]
  OBVIOUS
<1>3. /\ a \in Nat /\ a < Len(rlog) /\ Len(rlog) \in Nat
      /\ a + 1 \in 1..Len(rlog) /\ c \in Commands
      /\ \A m \in Nodes : applied[m] \in Nat
  BY <1>1, <1>2, NextCommand DEF Apply, ClusterTypeOK
<1>4. /\ CanStore(n, c) /\ Store(n, c)
      /\ applied' = IF Hangs(n, c) THEN applied ELSE [applied EXCEPT ![n] = @ + 1]
      /\ UNCHANGED <<voters, leader, rlog, reconf, seen, config, snap, lost,
                     singleNode, peers, task, held, bypassed, failed, odd, restarts>>
  BY <1>1, <1>2 DEF Apply
<1>5. /\ applied' \in [Nodes -> Nat]
      /\ \A m \in Nodes \ {n} : applied'[m] = applied[m]
      /\ applied'[n] = IF Hangs(n, c) THEN a ELSE a + 1
  BY <1>1, <1>3, <1>4 DEF ClusterTypeOK
<1>s. /\ data' \in [Nodes -> SUBSET Ids] /\ batches' \in [Nodes -> Nat]
      /\ jammed' \in [Nodes -> SUBSET (Ids \cup {New})]
      /\ \A m \in Nodes, i \in Ids :
           m # n \/ c.id # i => (i \in data'[m] <=> i \in data[m])
      /\ c.op = "insert" => c.id \in data'[n]
      /\ c.op = "delete" => c.id \notin data'[n]
      /\ \A m \in Nodes : m # n \/ c.op # "insert_batch" =>
           batches'[m] = batches[m]
      /\ c.op = "insert_batch" => batches'[n] = batches[n] + 1
      /\ \A m \in Nodes \ {n} : jammed'[m] = jammed[m]
      /\ jammed'[n] = IF Hangs(n, c) THEN jammed[n] \cup {c.id} ELSE jammed[n]
  BY <1>3, <1>4, StoreChanges
<1>c. /\ c.op \in {"insert", "delete", "insert_batch"}
      /\ c.op = "insert_batch" => c.id = New
      /\ c.op # "insert_batch" => c.id \in Ids
      /\ Inserts(c) <=> c.op \in {"insert", "insert_batch"}
  BY <1>3, CommandFacts
<1>6. ClusterTypeOK'
  BY <1>4, <1>5, <1>s DEF ClusterTypeOK
<1>7. Behind'
  <2>1. \A m \in Nodes : applied[m] <= applied'[m]
    BY <1>1, <1>3, <1>5
  <2>2. \A m \in Nodes : seen[m] \in Nat /\ snap[m].index \in Nat
    BY DEF ClusterTypeOK
  <2>3. \A m \in voters : m \in Nodes
    BY DEF ClusterTypeOK
  <2> QED
    BY <1>3, <1>4, <1>5, <2>1, <2>2, <2>3 DEF Behind
<1>8. Stored'
  <2> SUFFICES ASSUME NEW m \in Nodes, NEW i \in Ids \ (bypassed \cup lost),
                      i \in data'[m]
               PROVE  \E k \in 1..Len(rlog) :
                        rlog[k].op = "insert" /\ rlog[k].id = i
    BY <1>4 DEF Stored
  <2>1. CASE i \in data[m]
    BY <2>1 DEF Stored
  <2>2. CASE i \notin data[m]
    <3>1. m = n /\ c.id = i
      BY <1>3, <1>4, <2>2, <1>s
    <3>2. c.op = "insert"
      BY <1>3, <1>4, <3>1, <1>s, <1>c
    <3> QED
      BY <1>2, <1>3, <3>1, <3>2
  <2> QED
    BY <2>1, <2>2
<1>9. Follows'
  <2> SUFFICES ASSUME NEW m \in Nodes,
                      NEW i \in Ids \ (bypassed \cup lost \cup failed[m])
               PROVE  FollowsOn(m, i)'
    BY <1>4 DEF Follows
  <2>1. FollowsOn(m, i)
    BY DEF Follows
  <2>2. CASE m # n
    <3>1. applied'[m] = applied[m] /\ (i \in data'[m] <=> i \in data[m])
      BY <1>3, <1>4, <1>5, <2>2, <1>s
    <3> QED
      BY <1>4, <2>1, <3>1 DEF FollowsOn, Decides
  <2>3. CASE m = n /\ c.id = i
    <3>0. c.op \in {"insert", "delete"}
      BY <1>3, <2>3, <1>c
    <3>1. i \in data'[n] <=> c.op = "insert"
      BY <1>3, <1>4, <2>3, <3>0, <1>s
    <3>2. \A j \in 1..Len(rlog) : ~(a + 1 < j /\ j <= applied'[n])
      BY <1>3, <1>5
    <3>3. Decides(n, i, a + 1)'
      BY <1>2, <1>4, <2>3, <3>1, <3>2 DEF Decides
    <3> QED
      BY <1>3, <1>4, <2>3, <3>3 DEF FollowsOn
  <2>4. CASE m = n /\ c.id # i
    <3>1. i \in data'[n] <=> i \in data[n]
      BY <1>3, <1>4, <2>4, <1>s
    <3>2. \A j \in 1..Len(rlog) :
            j <= applied'[n] => j <= a \/ rlog[j].id # i
      BY <1>2, <1>3, <1>5, <2>4
    <3>3. CASE \A k \in 1..Len(rlog) : k <= a => rlog[k].id # i
      <4>1. \A k \in 1..Len(rlog) : k <= applied'[n] => rlog[k].id # i
        BY <3>2, <3>3
      <4> QED
        BY <1>4, <2>4, <4>1 DEF FollowsOn
    <3>4. ASSUME NEW k \in 1..Len(rlog), Decides(n, i, k)
          PROVE  FollowsOn(m, i)'
      <4>1. \A j \in 1..Len(rlog) : k < j /\ j <= applied'[n] => rlog[j].id # i
        BY <1>1, <3>2, <3>4 DEF Decides
      <4>2. Decides(n, i, k)'
        BY <1>4, <3>1, <3>4, <4>1 DEF Decides
      <4> QED
        BY <1>4, <2>4, <4>2 DEF FollowsOn
    <3> QED
      BY <1>1, <2>1, <2>4, <3>3, <3>4 DEF FollowsOn
  <2> QED
    BY <2>2, <2>3, <2>4
<1>10. /\ \A m \in Nodes \ {n} : jammed'[m] = jammed[m]
       /\ jammed'[n] = IF Hangs(n, c) THEN jammed[n] \cup {c.id} ELSE jammed[n]
  BY <1>3, <1>4, <1>s
<1>11. Stuck'
  <2> SUFFICES ASSUME NEW m \in Nodes \ odd, New \in jammed'[m], New \notin lost
               PROVE  AtBatch(m)'
    BY <1>4 DEF Stuck
  <2>1. CASE m # n
    <3>1. AtBatch(m)
      BY <1>10, <2>1 DEF Stuck
    <3> QED
      BY <1>4, <1>5, <2>1, <3>1 DEF AtBatch
  <2>2. CASE m = n /\ New \in jammed[n]
    <3>1. AtBatch(n)
      BY <2>2 DEF Stuck
    <3>2. Inserts(c) /\ c.id = New
      BY <1>1, <1>2, <1>3, <3>1, <1>c DEF AtBatch
    <3> QED
      BY <1>4, <2>2, <3>2 DEF CanStore
  <2>3. CASE m = n /\ New \notin jammed[n]
    <3>1. Hangs(n, c) /\ c.id = New
      BY <1>10, <2>3
    <3>2. c.op = "insert_batch"
      BY <1>3, <3>1, <1>c
    <3> QED
      BY <1>2, <1>3, <1>4, <1>5, <2>3, <3>1, <3>2 DEF AtBatch
  <2> QED
    BY <2>1, <2>2, <2>3
<1>12. BatchesCounted'
  <2> SUFFICES ASSUME NEW m \in Nodes \ odd,
                      New \notin lost \cup failed[m] \cup jammed'[m]
               PROVE  batches'[m] = Cardinality(BatchesIn(applied'[m]))
    BY <1>4 DEF BatchesCounted, BatchesIn
  <2>1. batches[m] = Cardinality(BatchesIn(applied[m]))
    BY <1>10 DEF BatchesCounted
  <2>2. CASE m # n
    <3>1. batches'[m] = batches[m]
      BY <1>3, <1>4, <2>2, <1>s
    <3>2. applied'[m] = applied[m]
      BY <1>5, <2>2
    <3> QED
      BY <2>1, <3>1, <3>2
  <2>3. CASE m = n /\ Hangs(n, c)
    <3>1. c.op # "insert_batch"
      BY <1>3, <1>10, <2>3, <1>c
    <3>2. batches'[n] = batches[n]
      BY <1>3, <1>4, <3>1, <1>s
    <3> QED
      BY <1>1, <1>5, <2>1, <2>3, <3>2
  <2>4. CASE m = n /\ ~Hangs(n, c)
    <3>1. applied'[n] = a + 1
      BY <1>5, <2>4
    <3>2. /\ Cardinality(BatchesIn(a)) \in Nat
          /\ Cardinality(BatchesIn(a + 1)) =
               IF c.op = "insert_batch"
               THEN Cardinality(BatchesIn(a)) + 1 ELSE Cardinality(BatchesIn(a))
      BY <1>2, <1>3, OneMoreCommand
    <3>3. batches'[n] = IF c.op = "insert_batch" THEN batches[n] + 1
                                                 ELSE batches[n]
      BY <1>3, <1>4, <1>s
    <3> QED
      BY <1>1, <2>1, <2>4, <3>1, <3>2, <3>3
  <2> QED
    BY <2>2, <2>3, <2>4
<1> QED
  BY <1>6, <1>7, <1>8, <1>9, <1>11, <1>12

(* A command that fails counts as applied; its id counts as failed.        *)
LEMMA ApplyFailsKeeps ==
  ASSUME ClusterInv, NEW n \in Nodes, ApplyFails(n)
  PROVE  ClusterInv'
<1> USE ClusterAssumption DEF ClusterInv, managerVars
<1>1. PICK a : a = applied[n]
  OBVIOUS
<1>2. PICK c : c = rlog[a + 1]
  OBVIOUS
<1>3. /\ a \in Nat /\ a < Len(rlog) /\ Len(rlog) \in Nat
      /\ a + 1 \in 1..Len(rlog) /\ c \in Commands
      /\ \A m \in Nodes : applied[m] \in Nat
  BY <1>1, <1>2, NextCommand DEF ApplyFails, ClusterTypeOK
<1>4. /\ CanStore(n, c) /\ failed' = [failed EXCEPT ![n] = @ \cup {c.id}]
      /\ applied' = [applied EXCEPT ![n] = @ + 1]
      /\ UNCHANGED <<voters, leader, rlog, reconf, seen, config, snap, lost,
                     singleNode, peers, task, held, data, batches, jammed,
                     bypassed, odd, restarts>>
  BY <1>1, <1>2 DEF ApplyFails
<1>5. c.id \in Ids \cup {New}
  BY <1>3, CommandFacts
<1>6. /\ applied' \in [Nodes -> Nat]
      /\ failed' \in [Nodes -> SUBSET (Ids \cup {New})]
      /\ \A m \in Nodes \ {n} : applied'[m] = applied[m] /\ failed'[m] = failed[m]
      /\ applied'[n] = a + 1 /\ failed'[n] = failed[n] \cup {c.id}
  <2>1. applied \in [Nodes -> Nat] /\ failed \in [Nodes -> SUBSET (Ids \cup {New})]
    BY DEF ClusterTypeOK
  <2>2. applied[n] + 1 \in Nat /\ failed[n] \cup {c.id} \in SUBSET (Ids \cup {New})
    BY <1>1, <1>3, <1>5, <2>1
  <2> QED
    BY <1>1, <1>4, <2>1, <2>2
<1>7. ClusterTypeOK'
  BY <1>4, <1>6 DEF ClusterTypeOK
<1>8. Behind'
  <2>1. \A m \in Nodes : applied[m] <= applied'[m]
    BY <1>1, <1>3, <1>6
  <2>2. \A m \in Nodes : seen[m] \in Nat /\ snap[m].index \in Nat
    BY DEF ClusterTypeOK
  <2>3. \A m \in voters : m \in Nodes
    BY DEF ClusterTypeOK
  <2> QED
    BY <1>3, <1>4, <1>6, <2>1, <2>2, <2>3 DEF Behind
<1>9. Stored'
  BY <1>4 DEF Stored
<1>10. Follows'
  <2> SUFFICES ASSUME NEW m \in Nodes,
                      NEW i \in Ids \ (bypassed \cup lost \cup failed'[m])
               PROVE  FollowsOn(m, i)'
    BY <1>4 DEF Follows
  <2>1. i \notin failed[m] /\ (m = n => c.id # i)
    BY <1>6
  <2>2. FollowsOn(m, i)
    BY <2>1 DEF Follows
  <2>3. \A j \in 1..Len(rlog) :
          j <= applied'[m] => j <= applied[m] \/ rlog[j].id # i
    BY <1>1, <1>2, <1>3, <1>6, <2>1
  <2>4. CASE \A k \in 1..Len(rlog) : k <= applied[m] => rlog[k].id # i
    <3>1. \A k \in 1..Len(rlog) : k <= applied'[m] => rlog[k].id # i
      BY <2>3, <2>4
    <3> QED
      BY <1>4, <3>1 DEF FollowsOn
  <2>5. ASSUME NEW k \in 1..Len(rlog), Decides(m, i, k) PROVE FollowsOn(m, i)'
    <3>1. \A j \in 1..Len(rlog) : k < j /\ j <= applied'[m] => rlog[j].id # i
      BY <2>3, <2>5 DEF Decides
    <3>2. Decides(m, i, k)'
      BY <1>4, <2>5, <3>1 DEF Decides
    <3> QED
      BY <1>4, <3>2 DEF FollowsOn
  <2> QED
    BY <2>2, <2>4, <2>5 DEF FollowsOn
<1>11. Stuck'
  <2> SUFFICES ASSUME NEW m \in Nodes \ odd, New \in jammed[m], AtBatch(m)
               PROVE  AtBatch(m)'
    BY <1>4 DEF Stuck
  <2>1. CASE m # n
    BY <1>4, <1>6, <2>1 DEF AtBatch
  <2>2. CASE m = n
    <3>1. Inserts(c) /\ c.id = New
      BY <1>1, <1>2, <1>3, <2>2, CommandFacts DEF AtBatch
    <3> QED
      BY <1>4, <2>2, <3>1 DEF CanStore
  <2> QED
    BY <2>1, <2>2
<1>12. BatchesCounted'
  <2> SUFFICES ASSUME NEW m \in Nodes \ odd,
                      New \notin lost \cup failed'[m] \cup jammed[m]
               PROVE  batches[m] = Cardinality(BatchesIn(applied'[m]))
    BY <1>4 DEF BatchesCounted, BatchesIn
  <2>1. New \notin failed[m] /\ (m = n => c.id # New)
    BY <1>6
  <2>2. batches[m] = Cardinality(BatchesIn(applied[m]))
    BY <2>1 DEF BatchesCounted
  <2>3. CASE m # n
    BY <1>6, <2>2, <2>3
  <2>4. CASE m = n
    <3>1. c.op # "insert_batch"
      BY <1>3, <2>1, <2>4, CommandFacts
    <3>2. Cardinality(BatchesIn(a + 1)) = Cardinality(BatchesIn(a))
      BY <1>2, <1>3, <3>1, OneMoreCommand
    <3> QED
      BY <1>1, <1>6, <2>2, <2>4, <3>2
  <2> QED
    BY <2>3, <2>4
<1> QED
  BY <1>7, <1>8, <1>9, <1>10, <1>11, <1>12

(* Having applied fewer commands, over the same data, asks less.           *)
LEMMA FewerApplied ==
  ASSUME ClusterInv, ClusterTypeOK', UNCHANGED <<rlog, data, bypassed, lost, failed>>,
         \A m \in Nodes : applied'[m] <= applied[m]
  PROVE  Stored' /\ Follows'
<1>1. Stored'
  BY DEF ClusterInv, Stored
<1>2. \A m \in Nodes : applied[m] \in Nat /\ applied'[m] \in Nat
  BY DEF ClusterInv, ClusterTypeOK
<1>3. \A m \in Nodes : \A k \in 1..Len(rlog) : k <= applied'[m] => k <= applied[m]
  BY <1>2
<1>4. Follows'
  <2> SUFFICES ASSUME NEW m \in Nodes, NEW i \in Ids, FollowsOn(m, i)
               PROVE  FollowsOn(m, i)'
    BY DEF ClusterInv, Follows
  <2>1. CASE \A k \in 1..Len(rlog) : k <= applied[m] => rlog[k].id # i
    BY <1>3, <2>1 DEF FollowsOn
  <2>2. ASSUME NEW k \in 1..Len(rlog), Decides(m, i, k) PROVE FollowsOn(m, i)'
    <3>1. Decides(m, i, k)'
      BY <1>3, <2>2 DEF Decides
    <3> QED
      BY <3>1 DEF FollowsOn
  <2> QED
    BY <2>1, <2>2 DEF FollowsOn
<1> QED
  BY <1>1, <1>4

(* A restarted member begins again at its snapshot, over its data.         *)
LEMMA RestartKeeps ==
  ASSUME ClusterInv, NEW n \in Nodes, Restart(n)
  PROVE  ClusterInv'
<1> USE DEF ClusterInv
<1>0. snap[n].index \in Nat /\ snap[n].members \in SUBSET Nodes
  BY DEF ClusterTypeOK
<1>a. PICK last : last = LastIndex(DOMAIN rlog)
  OBVIOUS
<1>b. PICK from : from = IF last > snap[n].index THEN last ELSE snap[n].index
  OBVIOUS
<1>1. last = 0 /\ from = snap[n].index
  BY <1>0, <1>a, <1>b, LogLooksEmpty
<1>2. /\ seen' = [seen EXCEPT ![n] = snap[n].index]
      /\ applied' = [applied EXCEPT ![n] = snap[n].index]
      /\ config' = [config EXCEPT ![n] = snap[n].members]
      /\ leader' = IF leader = n THEN NoOne ELSE leader
      /\ singleNode' = [singleNode EXCEPT ![n] = FALSE]
      /\ peers' = [peers EXCEPT ![n] = {}]
      /\ Begins(n, "start", "refresh")
      /\ held' = held \ {n} /\ jammed' = [jammed EXCEPT ![n] = {}]
      /\ odd' = IF applied[n] = snap[n].index /\ jammed[n] = {}
                THEN odd ELSE odd \cup {n}
      /\ restarts' = restarts + 1
      /\ UNCHANGED <<voters, rlog, reconf, snap, lost, data, batches, bypassed,
                     failed>>
  <2>1. /\ seen' = [seen EXCEPT ![n] = from]
        /\ config' = IF last > 0 THEN config
                                 ELSE [config EXCEPT ![n] = snap[n].members]
    <3>1. LET last0 == LastIndex(DOMAIN rlog)
              from0 == IF last0 > snap[n].index THEN last0 ELSE snap[n].index
          IN /\ seen' = [seen EXCEPT ![n] = from0]
             /\ config' = IF last0 > 0 THEN config
                                      ELSE [config EXCEPT ![n] = snap[n].members]
      BY Zenon DEF Restart
    <3> QED
      BY <3>1, <1>a, <1>b, Zenon
  <2>2. applied' = [applied EXCEPT ![n] = snap[n].index]
    BY Zenon DEF Restart
  <2>3. /\ leader' = IF leader = n THEN NoOne ELSE leader
        /\ singleNode' = [singleNode EXCEPT ![n] = FALSE]
        /\ peers' = [peers EXCEPT ![n] = {}]
        /\ Begins(n, "start", "refresh")
        /\ held' = held \ {n} /\ jammed' = [jammed EXCEPT ![n] = {}]
        /\ odd' = IF applied[n] = snap[n].index /\ jammed[n] = {}
                  THEN odd ELSE odd \cup {n}
        /\ restarts' = restarts + 1
        /\ UNCHANGED <<voters, rlog, reconf, snap, lost, data, batches, bypassed,
                       failed>>
    BY Zenon DEF Restart
  <2>4. config' = [config EXCEPT ![n] = snap[n].members]
    BY <1>1, <2>1
  <2> QED
    BY <1>1, <2>1, <2>2, <2>3, <2>4
<1>3. ClusterTypeOK'
  <2>1. task' \in [Nodes -> [kind : TaskKinds, at : TaskPlaces]]
    BY <1>2 DEF ClusterTypeOK, Begins, TaskKinds, TaskPlaces
  <2>2. /\ seen' \in [Nodes -> Nat] /\ applied' \in [Nodes -> Nat]
        /\ config' \in [Nodes -> SUBSET Nodes]
        /\ singleNode' \in [Nodes -> BOOLEAN]
        /\ peers' \in [Nodes -> SUBSET Nodes]
        /\ jammed' \in [Nodes -> SUBSET (Ids \cup {New})]
    BY <1>0, <1>2 DEF ClusterTypeOK
  <2>3. /\ leader' \in Nodes \cup {NoOne}
        /\ held' \subseteq Nodes /\ odd' \subseteq Nodes /\ restarts' \in Nat
    BY <1>2 DEF ClusterTypeOK
  <2> QED
    BY <1>2, <2>1, <2>2, <2>3 DEF ClusterTypeOK
<1>4. /\ \A m \in Nodes \ {n} : /\ applied'[m] = applied[m]
                                /\ seen'[m] = seen[m]
                                /\ jammed'[m] = jammed[m]
      /\ applied'[n] = snap[n].index /\ seen'[n] = snap[n].index
      /\ jammed'[n] = {}
  BY <1>2 DEF ClusterTypeOK
<1>5. Behind'
  BY <1>0, <1>2, <1>4 DEF Behind, ClusterTypeOK
<1>6. Stored' /\ Follows'
  <2>1. \A m \in Nodes : applied[m] \in Nat /\ snap[m].index <= applied[m]
    BY DEF Behind, ClusterTypeOK
  <2>2. \A m \in Nodes : applied'[m] <= applied[m]
    BY <1>4, <2>1
  <2> QED
    BY <1>2, <1>3, <2>2, FewerApplied
<1>7. \A m \in Nodes \ odd' : m \notin odd /\ applied'[m] = applied[m]
                              /\ jammed'[m] = jammed[m]
  BY <1>2, <1>4
<1>8. Stuck'
  BY <1>2, <1>7 DEF Stuck, AtBatch
<1>9. BatchesCounted'
  BY <1>2, <1>7 DEF BatchesCounted, BatchesIn
<1> QED
  BY <1>3, <1>5, <1>6, <1>8, <1>9

(* A snapshot stands for what the member has applied.                      *)
LEMMA SnapshotFacts ==
  ASSUME ClusterInv, NEW n \in Nodes, Snapshots(n)
  PROVE  /\ snap' \in [Nodes -> [index : Nat, members : SUBSET Nodes]]
         /\ \A m \in Nodes : snap'[m].index <= applied[m]
<1>1. [index |-> applied[n], members |-> config[n]]
        \in [index : Nat, members : SUBSET Nodes]
  BY DEF ClusterInv, ClusterTypeOK
<1>2. applied[n] <= applied[n]
  BY DEF ClusterInv, ClusterTypeOK
<1>3. snap \in [Nodes -> [index : Nat, members : SUBSET Nodes]]
  BY DEF ClusterInv, ClusterTypeOK
<1>4. \A m \in Nodes : snap[m].index <= applied[m]
  BY DEF ClusterInv, Behind
<1> QED
  BY <1>1, <1>2, <1>3, <1>4 DEF Snapshots

LEMMA SnapshotKeeps ==
  ASSUME ClusterInv, NEW n \in Nodes, TakeSnapshot(n)
  PROVE  ClusterInv'
<1>1. /\ UNCHANGED <<voters, leader, rlog, reconf, seen, applied, config, lost,
                     singleNode, peers, task, held, dataVars, restarts>>
      /\ Snapshots(n)
  BY DEF TakeSnapshot, managerVars
<1>2. ClusterTypeOK'
  BY <1>1, SnapshotFacts DEF ClusterInv, ClusterTypeOK, dataVars
<1>3. Behind'
  BY <1>1, SnapshotFacts DEF ClusterInv, Behind
<1> QED
  BY <1>1, <1>2, <1>3, QuietStep

(* A new configuration reaches its members together with the whole log.    *)
LEMMA ReconfigureKeeps ==
  ASSUME ClusterInv, NEW l \in Nodes, NEW members \in SUBSET Nodes,
         Reconfigure(l, members), UNCHANGED <<rlog, applied>>,
         Snapshots(l) \/ UNCHANGED snap
  PROVE  /\ voters' \subseteq Nodes /\ seen' \in [Nodes -> Nat]
         /\ config' \in [Nodes -> SUBSET Nodes] /\ reconf' \in Nat
         /\ snap' \in [Nodes -> [index : Nat, members : SUBSET Nodes]]
         /\ Behind'
<1>1. Len(rlog) \in Nat
  BY DEF ClusterInv, ClusterTypeOK
<1>2. /\ seen' \in [Nodes -> Nat] /\ config' \in [Nodes -> SUBSET Nodes]
      /\ \A m \in members : seen'[m] = Len(rlog)
  BY <1>1 DEF ClusterInv, ClusterTypeOK, Reconfigure, Hear
<1>3. /\ snap' \in [Nodes -> [index : Nat, members : SUBSET Nodes]]
      /\ \A m \in Nodes : snap'[m].index <= applied[m]
  <2>1. CASE Snapshots(l)
    BY <2>1, SnapshotFacts
  <2>2. CASE UNCHANGED snap
    BY <2>2 DEF ClusterInv, ClusterTypeOK, Behind
  <2> QED
    BY <2>1, <2>2
<1>4. voters' = members /\ reconf' = Len(rlog)
  BY DEF Reconfigure
<1>5. Behind'
  BY <1>1, <1>2, <1>3, <1>4 DEF Behind
<1> QED
  BY <1>1, <1>2, <1>3, <1>4, <1>5

(* The steps of a membership call, of SHARD REBALANCE and of a startup.    *)
LEMMA TaskSteps ==
  ASSUME ClusterInv, NEW n \in Nodes, NEW kind \in TaskKinds,
         NEW at \in TaskPlaces
  PROVE  /\ Begins(n, kind, at) =>
              task' \in [Nodes -> [kind : TaskKinds, at : TaskPlaces]]
         /\ Moves(n, at) =>
              task' \in [Nodes -> [kind : TaskKinds, at : TaskPlaces]]
         /\ Ends(n) => task' \in [Nodes -> [kind : TaskKinds, at : TaskPlaces]]
         /\ ThenShards(n) =>
              task' \in [Nodes -> [kind : TaskKinds, at : TaskPlaces]]
<1> USE DEF ClusterInv, ClusterTypeOK
<1>1. [kind |-> kind, at |-> at] \in [kind : TaskKinds, at : TaskPlaces]
  OBVIOUS
<1>2. Idle \in [kind : TaskKinds, at : TaskPlaces]
  BY DEF Idle, TaskKinds, TaskPlaces
<1>3. [kind |-> "member", at |-> "shards"] \in
        [kind : TaskKinds, at : TaskPlaces]
  BY DEF TaskKinds, TaskPlaces
<1>4. Moves(n, at) => task' \in [Nodes -> [kind : TaskKinds, at : TaskPlaces]]
  <2>1. [task[n] EXCEPT !.at = at] \in [kind : TaskKinds, at : TaskPlaces]
    OBVIOUS
  <2> QED
    BY <2>1 DEF Moves
<1> QED
  BY <1>1, <1>2, <1>3, <1>4 DEF Begins, Ends, ThenShards

(* Membership calls.                                                       *)
LEMMA MembershipKeeps ==
  ASSUME ClusterInv, NEW l \in Nodes, NEW m \in Nodes,
         Join(l, m) \/ Leave(l, m) \/ AutoJoin(l)
  PROVE  ClusterInv'
<1> USE DEF ClusterInv
<1>1. /\ UNCHANGED <<rlog, applied, lost, singleNode, held, dataVars, restarts>>
      /\ \E members \in SUBSET Nodes : Reconfigure(l, members)
      /\ Snapshots(l) \/ UNCHANGED snap
      /\ peers' \in [Nodes -> SUBSET Nodes] /\ leader' \in Nodes \cup {NoOne}
      /\ task' \in [Nodes -> [kind : TaskKinds, at : TaskPlaces]]
  <2>1. CASE Join(l, m)
    <3>1. voters \cup {m} \in SUBSET Nodes
      BY DEF ClusterTypeOK
    <3>2. ThenShards(l) /\ AddMember(l, m)
      BY <2>1 DEF Join
    <3>3. task' \in [Nodes -> [kind : TaskKinds, at : TaskPlaces]]
      BY <3>2, TaskSteps DEF TaskKinds, TaskPlaces
    <3>4. peers' \in [Nodes -> SUBSET Nodes]
      BY <2>1 DEF Join, ClusterTypeOK
    <3> QED
      BY <2>1, <3>1, <3>2, <3>3, <3>4 DEF Join, AddMember, ClusterTypeOK
  <2>2. CASE Leave(l, m)
    <3>1. voters \ {m} \in SUBSET Nodes
      BY DEF ClusterTypeOK
    <3>2. Begins(l, m, "peers")
      BY <2>2 DEF Leave, Begins
    <3>3. task' \in [Nodes -> [kind : TaskKinds, at : TaskPlaces]]
      BY <3>2, TaskSteps DEF TaskKinds, TaskPlaces
    <3> QED
      BY <2>2, <3>1, <3>3 DEF Leave, ClusterTypeOK
  <2>3. CASE AutoJoin(l)
    <3>1. PICK p \in peers[l] \ {l} : AddMember(l, p)
      BY <2>3 DEF AutoJoin
    <3>2. voters \cup {p} \in SUBSET Nodes
      BY <3>1 DEF ClusterTypeOK
    <3>3. ThenShards(l)
      BY <2>3 DEF AutoJoin
    <3>4. task' \in [Nodes -> [kind : TaskKinds, at : TaskPlaces]]
      BY <3>3, TaskSteps DEF TaskKinds, TaskPlaces
    <3> QED
      BY <2>3, <3>1, <3>2, <3>4 DEF AutoJoin, AddMember, ClusterTypeOK
  <2> QED
    BY <2>1, <2>2, <2>3
<1>2. PICK members \in SUBSET Nodes : Reconfigure(l, members)
  BY <1>1
<1>3. /\ voters' \subseteq Nodes /\ seen' \in [Nodes -> Nat]
      /\ config' \in [Nodes -> SUBSET Nodes] /\ reconf' \in Nat
      /\ snap' \in [Nodes -> [index : Nat, members : SUBSET Nodes]]
      /\ Behind'
  BY <1>1, <1>2, ReconfigureKeeps
<1>4. ClusterTypeOK'
  BY <1>1, <1>3 DEF ClusterTypeOK, dataVars
<1> QED
  BY <1>1, <1>3, <1>4, QuietStep

LEMMA NodeStepKeeps ==
  ASSUME ClusterInv, NEW n \in Nodes,
         \/ ForgetPeer(n) \/ ChangeShards(n) \/ Rebalance(n) \/ Balance(n)
         \/ Refresh(n)
  PROVE  ClusterInv'
<1> USE DEF ClusterInv
<1>1. /\ UNCHANGED <<raftVars, dataVars, restarts>>
      /\ singleNode' \in [Nodes -> BOOLEAN]
      /\ peers' \in [Nodes -> SUBSET Nodes] /\ held' \subseteq Nodes
      /\ task' \in [Nodes -> [kind : TaskKinds, at : TaskPlaces]]
  <2>0. /\ "member" \in TaskKinds /\ "rebalance" \in TaskKinds
        /\ "shards" \in TaskPlaces /\ "balance" \in TaskPlaces
        /\ "refresh" \in TaskPlaces
    BY DEF TaskKinds, TaskPlaces
  <2>1. CASE ForgetPeer(n)
    <3>1. Begins(n, "member", "shards")
      BY <2>1 DEF ForgetPeer
    <3> QED
      BY <2>0, <2>1, <3>1, TaskSteps DEF ForgetPeer, ClusterTypeOK
  <2>2. CASE ChangeShards(n)
    <3>1. Moves(n, "balance")
      BY <2>2 DEF ChangeShards
    <3> QED
      BY <2>0, <2>2, <3>1, TaskSteps DEF ChangeShards, ClusterTypeOK
  <2>3. CASE Rebalance(n)
    <3>1. Begins(n, "rebalance", "balance")
      BY <2>3 DEF Rebalance
    <3> QED
      BY <2>0, <2>3, <3>1, TaskSteps DEF Rebalance, ClusterTypeOK
  <2>4. CASE Balance(n)
    <3>1. Ends(n) \/ Moves(n, "refresh")
      BY <2>4 DEF Balance
    <3> QED
      BY <2>0, <2>4, <3>1, TaskSteps DEF Balance, ClusterTypeOK
  <2>5. CASE Refresh(n)
    <3>1. Ends(n)
      BY <2>5 DEF Refresh
    <3>2. task' \in [Nodes -> [kind : TaskKinds, at : TaskPlaces]]
      BY <2>0, <3>1, TaskSteps
    <3>3. singleNode' \in [Nodes -> BOOLEAN]
      <4>1. (Cardinality(config[n]) <= 1) \in BOOLEAN
        OBVIOUS
      <4> QED
        BY <2>5, <4>1 DEF Refresh, ClusterTypeOK
    <3> QED
      BY <2>5, <3>2, <3>3 DEF Refresh, ClusterTypeOK
  <2> QED
    BY <2>1, <2>2, <2>3, <2>4, <2>5
<1>2. ClusterTypeOK'
  BY <1>1 DEF ClusterTypeOK, raftVars, dataVars
<1>3. Behind'
  BY <1>1 DEF Behind, raftVars
<1> QED
  BY <1>1, <1>2, <1>3, QuietStep DEF raftVars

LEMMA LoseLeaderKeeps == ASSUME ClusterInv, LoseLeader PROVE ClusterInv'
<1> USE DEF ClusterInv
<1>1. /\ UNCHANGED <<voters, rlog, reconf, seen, applied, config, snap, lost,
                     singleNode, peers, task, held, dataVars, restarts>>
      /\ leader' = NoOne
  BY DEF LoseLeader, managerVars
<1>2. ClusterTypeOK'
  BY <1>1 DEF ClusterTypeOK, dataVars
<1>3. Behind'
  BY <1>1 DEF Behind
<1> QED
  BY <1>1, <1>2, <1>3, QuietStep

(* The log of a new leader is a beginning of the one before; the ids of    *)
(* the commands after it count as lost.                                    *)
LEMMA ElectKeeps ==
  ASSUME ClusterInv, NEW n \in Nodes, Elect(n)
  PROVE  ClusterInv'
<1> USE DEF ClusterInv
<1>1. PICK l : l = seen[n]
  OBVIOUS
<1>2. l \in Nat /\ l <= Len(rlog) /\ Len(rlog) \in Nat
  BY <1>1 DEF Elect, ClusterTypeOK
<1>3. /\ leader' = n /\ voters' = config[n] /\ rlog' = SubSeq(rlog, 1, l)
      /\ lost' = lost \cup {rlog[k].id : k \in (l + 1)..Len(rlog)}
      /\ reconf' = IF reconf > l THEN l ELSE reconf
      /\ Hear(config[n], rlog', config[n])
      /\ UNCHANGED <<applied, snap, singleNode, peers, task, held, dataVars,
                     restarts>>
  BY <1>1 DEF Elect, managerVars
<1>4. /\ rlog' \in Seq(Commands) /\ Len(rlog') = l
      /\ \A k \in 1..l : rlog'[k] = rlog[k]
  BY <1>2, <1>3 DEF ClusterTypeOK
<1>5. /\ lost \subseteq lost' /\ lost' \subseteq Ids \cup {New}
      /\ \A k \in (l + 1)..Len(rlog) : rlog[k].id \in lost'
  <2>1. \A k \in (l + 1)..Len(rlog) : rlog[k] \in Commands
    BY <1>2 DEF ClusterTypeOK
  <2>2. \A k \in (l + 1)..Len(rlog) : rlog[k].id \in Ids \cup {New}
    BY <2>1, CommandFacts
  <2> QED
    BY <1>3, <2>2 DEF ClusterTypeOK
<1>6. config[n] \in SUBSET Nodes
  BY DEF ClusterTypeOK
<1>7. /\ seen' \in [Nodes -> Nat] /\ config' \in [Nodes -> SUBSET Nodes]
      /\ \A m \in voters' : seen'[m] = Len(rlog')
  BY <1>2, <1>3, <1>4, <1>6 DEF ClusterTypeOK, Hear
<1>8. ClusterTypeOK'
  BY <1>2, <1>3, <1>4, <1>5, <1>6, <1>7 DEF ClusterTypeOK, dataVars
<1>9. Behind'
  BY <1>2, <1>3, <1>4, <1>7 DEF Behind
<1>10. \A k \in 1..Len(rlog) : k \in 1..l \/ rlog[k].id \in lost'
  BY <1>2, <1>5
<1>11. Stored'
  <2> SUFFICES ASSUME NEW m \in Nodes, NEW i \in Ids \ (bypassed' \cup lost'),
                      i \in data'[m]
               PROVE  \E k \in 1..Len(rlog') :
                        rlog'[k].op = "insert" /\ rlog'[k].id = i
    BY DEF Stored
  <2>1. i \in data[m] /\ i \notin bypassed \cup lost
    BY <1>3, <1>5 DEF dataVars
  <2>2. PICK k \in 1..Len(rlog) : rlog[k].op = "insert" /\ rlog[k].id = i
    BY <2>1 DEF Stored
  <2>3. k \in 1..l
    BY <1>10, <2>2
  <2> QED
    BY <1>4, <2>2, <2>3
<1>12. Follows'
  <2> SUFFICES ASSUME NEW m \in Nodes,
                      NEW i \in Ids \ (bypassed \cup lost' \cup failed[m])
               PROVE  FollowsOn(m, i)'
    BY <1>3 DEF Follows, dataVars
  <2>1. FollowsOn(m, i)
    BY <1>5 DEF Follows
  <2>2. \A k \in 1..l : k \in 1..Len(rlog)
    BY <1>2
  <2>3. CASE \A k \in 1..Len(rlog) : k <= applied[m] => rlog[k].id # i
    BY <1>3, <1>4, <2>2, <2>3 DEF FollowsOn
  <2>4. ASSUME NEW k \in 1..Len(rlog), Decides(m, i, k) PROVE FollowsOn(m, i)'
    <3>1. k \in 1..l
      BY <1>10, <2>4 DEF Decides
    <3>2. Decides(m, i, k)'
      BY <1>3, <1>4, <2>2, <2>4, <3>1 DEF Decides, dataVars
    <3> QED
      BY <1>4, <3>1, <3>2 DEF FollowsOn
  <2> QED
    BY <2>1, <2>3, <2>4 DEF FollowsOn
<1>13. Stuck'
  <2> SUFFICES ASSUME NEW m \in Nodes \ odd, AtBatch(m), New \notin lost'
               PROVE  AtBatch(m)'
    BY <1>3, <1>5 DEF Stuck, dataVars
  <2>1. applied[m] \in Nat /\ applied[m] + 1 \in 1..Len(rlog)
    BY <1>2 DEF AtBatch, ClusterTypeOK
  <2>2. rlog[applied[m] + 1] \in Commands
    BY <2>1 DEF ClusterTypeOK
  <2>3. rlog[applied[m] + 1].id = New
    BY <2>2, CommandFacts DEF AtBatch
  <2>4. applied[m] + 1 \in 1..l
    BY <1>10, <2>1, <2>3
  <2> QED
    BY <1>2, <1>3, <1>4, <2>1, <2>4 DEF AtBatch
<1>14. BatchesCounted'
  <2> SUFFICES ASSUME NEW m \in Nodes \ odd,
                      New \notin lost' \cup failed[m] \cup jammed[m]
               PROVE  batches[m] = Cardinality(BatchesIn(applied[m])')
    BY <1>3 DEF BatchesCounted, dataVars
  <2>1. batches[m] = Cardinality(BatchesIn(applied[m]))
    BY <1>5 DEF BatchesCounted
  <2>2. \A k \in 1..Len(rlog) : rlog[k].op = "insert_batch" => k \in 1..l
    <3> SUFFICES ASSUME NEW k \in 1..Len(rlog), rlog[k].op = "insert_batch"
                 PROVE  k \in 1..l
      OBVIOUS
    <3>1. rlog[k] \in Commands
      BY DEF ClusterTypeOK
    <3>2. rlog[k].id = New
      BY <3>1, CommandFacts
    <3> QED
      BY <1>10, <3>2
  <2>3. BatchesIn(applied[m])' = BatchesIn(applied[m])
    BY <1>2, <1>3, <1>4, <2>2 DEF BatchesIn
  <2> QED
    BY <2>1, <2>3
<1> QED
  BY <1>8, <1>9, <1>11, <1>12, <1>13, <1>14

LEMMA ClusterStep == ClusterInv /\ [ClusterNext]_clusterVars => ClusterInv'
<1> SUFFICES ASSUME ClusterInv, [ClusterNext]_clusterVars PROVE ClusterInv'
  OBVIOUS
<1>1. CASE LogStep
  <2>1. ASSUME NEW n \in Nodes, NEW c \in Commands, Replicate(n, c)
        PROVE  ClusterInv'
    BY <2>1, ReplicateKeeps
  <2>2. ASSUME NEW l \in Nodes, NEW m \in Nodes, Join(l, m) \/ Leave(l, m)
        PROVE  ClusterInv'
    BY <2>2, MembershipKeeps
  <2>3. ASSUME NEW n \in Nodes, Apply(n) \/ ApplyFails(n) \/ TakeSnapshot(n)
        PROVE  ClusterInv'
    BY <2>3, ApplyKeeps, ApplyFailsKeeps, SnapshotKeeps
  <2>4. ASSUME NEW n \in Nodes, Refresh(n) \/ Restart(n) \/ Elect(n)
        PROVE  ClusterInv'
    BY <2>4, NodeStepKeeps, RestartKeeps, ElectKeeps
  <2>5. ASSUME LoseLeader PROVE ClusterInv'
    BY <2>5, LoseLeaderKeeps
  <2> QED
    BY <1>1, <2>1, <2>2, <2>3, <2>4, <2>5 DEF LogStep
<1>2. CASE OtherStep
  <2>1. ASSUME NEW n \in Nodes, NEW c \in Commands, WriteLocally(n, c)
        PROVE  ClusterInv'
    BY <2>1, WriteLocallyKeeps
  <2>2. ASSUME NEW n \in Nodes,
               \/ AutoJoin(n) \/ ForgetPeer(n) \/ ChangeShards(n)
               \/ Rebalance(n) \/ Balance(n)
        PROVE  ClusterInv'
    BY <2>2, MembershipKeeps, NodeStepKeeps
  <2> QED
    BY <1>2, <2>1, <2>2 DEF OtherStep
<1>3. ASSUME UNCHANGED clusterVars PROVE ClusterInv'
  <2>1. UNCHANGED <<voters, leader, rlog, reconf, seen, applied, config, snap,
                    lost, singleNode, peers, task, held, dataVars, restarts>>
    BY <1>3 DEF clusterVars, raftVars, managerVars
  <2>2. ClusterTypeOK'
    BY <2>1 DEF ClusterInv, ClusterTypeOK, dataVars
  <2>3. Behind'
    BY <2>1 DEF ClusterInv, Behind
  <2> QED
    BY <2>1, <2>2, <2>3, QuietStep
<1> QED
  BY <1>1, <1>2, <1>3 DEF ClusterNext

-----------------------------------------------------------------------------
(* Two members that applied the whole log have the same last command on    *)
(* every id, and no batch of either hangs there.                           *)
LEMMA SameWhenCaughtUp == ClusterInv => DifferencesAreExplained
<1> SUFFICES ASSUME ClusterInv, NEW n \in Nodes, NEW m \in Nodes,
                    CaughtUp(n), CaughtUp(m)
             PROVE  LET known == lost \cup failed[n] \cup failed[m] IN
                    /\ data[n] \ (bypassed \cup known) = data[m] \ (bypassed \cup known)
                    /\ {n, m} \cap odd = {} /\ New \notin known =>
                         batches[n] = batches[m]
  BY DEF DifferencesAreExplained
<1> DEFINE known == lost \cup failed[n] \cup failed[m]
<1> USE DEF ClusterInv, CaughtUp
<1>1. Len(rlog) \in Nat /\ applied[n] = Len(rlog) /\ applied[m] = Len(rlog)
  BY DEF ClusterTypeOK
<1>2. ASSUME NEW i \in Ids \ (bypassed \cup known) PROVE i \in data[n] <=> i \in data[m]
  <2>1. FollowsOn(n, i) /\ FollowsOn(m, i)
    BY DEF Follows
  <2>2. CASE \A k \in 1..Len(rlog) : rlog[k].id # i
    BY <2>2 DEF Stored
  <2>3. CASE ~\A k \in 1..Len(rlog) : rlog[k].id # i
    <3>1. PICK k \in 1..Len(rlog) : Decides(n, i, k)
      BY <1>1, <2>1, <2>3 DEF FollowsOn
    <3>2. PICK j \in 1..Len(rlog) : Decides(m, i, j)
      BY <1>1, <2>1, <2>3 DEF FollowsOn
    <3>3. j = k
      <4>1. CASE j < k
        BY <1>1, <3>1, <3>2, <4>1 DEF Decides
      <4>2. CASE k < j
        BY <1>1, <3>1, <3>2, <4>2 DEF Decides
      <4> QED
        BY <4>1, <4>2
    <3> QED
      BY <3>1, <3>2, <3>3 DEF Decides
  <2> QED
    BY <2>2, <2>3
<1>3. data[n] \subseteq Ids /\ data[m] \subseteq Ids
  BY DEF ClusterTypeOK
<1>4. data[n] \ (bypassed \cup known) = data[m] \ (bypassed \cup known)
  BY <1>2, <1>3
<1>5. ASSUME n \notin odd, m \notin odd, New \notin known
      PROVE  batches[n] = batches[m]
  <2>1. New \notin jammed[n] /\ New \notin jammed[m]
    BY <1>1, <1>5 DEF Stuck, AtBatch
  <2> QED
    BY <1>1, <1>5, <2>1 DEF BatchesCounted
<1> QED
  BY <1>4, <1>5

(* Members that have applied the whole log hold the same documents, but    *)
(* for those written outside Raft, those whose command failed on one of    *)
(* them (raft_fsm.go:82-88), and those whose command a restarted member    *)
(* became leader without (raft_logstore.go:56-85, cluster.go:643).         *)
THEOREM MembersAgree == ClusterSpec => []DifferencesAreExplained
<1>1. ClusterInit => ClusterInv
  BY ClusterBegins
<1>2. ClusterInv /\ [ClusterNext]_clusterVars => ClusterInv'
  BY ClusterStep
<1>3. ClusterInv => DifferencesAreExplained
  BY SameWhenCaughtUp
<1> QED
  BY <1>1, <1>2, <1>3, PTL DEF ClusterSpec

-----------------------------------------------------------------------------
(* The shard manager *)

(* What records and functions the state is made of.                        *)
ShapesOK ==
  /\ nodeInfo = [m \in Members |-> nodeInfo[m]]
  /\ \A i \in DOMAIN shards :
       DOMAIN shards[i] = {"nodes", "primary", "docs", "status"}

(* While sm.mu is free for writers, every shard is on Self alone, so that  *)
(* BalanceShards finds nothing to move (shard_manager.go:565-612).         *)
OneNode == writer = {} => \A i \in DOMAIN shards : shards[i].nodes = <<Self>>

(* Self stays every shard's primary, and is not dead while one is active.  *)
OwnPrimary == \A i \in DOMAIN shards : shards[i].primary = Self
SelfLives ==
  \A i \in DOMAIN shards : shards[i].status = "active" => nodeInfo[Self] # "dead"

IInv == ShapesOK /\ OneNode /\ OwnPrimary /\ SelfLives

LEMMA InitInv == ShardsInit => IInv
  BY ShardsAssumption
  DEF ShardsInit, Initialized, IInv, ShapesOK, OneNode, OwnPrimary, SelfLives

LEMMA CountInv == ASSUME NEW c \in Calls, IInv, CountDoc(c) PROVE IInv'
  <1>1. DOMAIN shards' = DOMAIN shards
    BY DEF CountDoc
  <1>2. ASSUME NEW i \in DOMAIN shards
        PROVE  /\ DOMAIN shards'[i] = {"nodes", "primary", "docs", "status"}
               /\ shards'[i].nodes = shards[i].nodes
               /\ shards'[i].primary = shards[i].primary
               /\ shards'[i].status = shards[i].status
    BY DEF CountDoc, IInv, ShapesOK
  <1> QED
    BY <1>1, <1>2
    DEF CountDoc, lockVars, IInv, ShapesOK, OneNode, OwnPrimary, SelfLives

LEMMA ScaleInv == ASSUME NEW c \in Calls, IInv, Scale(c) PROVE IInv'
  BY ShardsAssumption
  DEF Scale, Initialized, lockVars, IInv, ShapesOK, OneNode, OwnPrimary, SelfLives

(* The failed node is another one, or Self; then no shard has a second     *)
(* node to go to, and all are degraded.                                    *)
LEMMA FailureInv == ASSUME NEW c \in Calls, IInv, HandleNodeFailure(c) PROVE IInv'
  <1>1. writer = {} /\ writer' = {} /\ DOMAIN shards' = DOMAIN shards
    BY DEF HandleNodeFailure, WriterEnters, lockVars
  <1>2. ASSUME NEW i \in DOMAIN shards
        PROVE  shards'[i] = IF arg[c] = Self
                            THEN [shards[i] EXCEPT !.status = "degraded"]
                            ELSE shards[i]
    <2>1. shards[i].primary = Self /\ shards[i].nodes = <<Self>>
      BY <1>1 DEF IInv, OwnPrimary, OneNode
    <2>2. arg[c] = Self => Others(shards[i], arg[c]) = {}
      BY <2>1 DEF Others
    <2>3. shards'[i] = WithoutNode(shards[i], arg[c], nodeInfo')
      BY DEF HandleNodeFailure
    <2> QED
      BY <2>1, <2>2, <2>3 DEF WithoutNode
  <1>3. ShapesOK' /\ OneNode' /\ OwnPrimary'
    BY <1>1, <1>2 DEF HandleNodeFailure, IInv, ShapesOK, OneNode, OwnPrimary
  <1>4. SelfLives'
    <2>1. CASE arg[c] = Self
      BY <1>1, <1>2, <2>1 DEF IInv, ShapesOK, SelfLives
    <2>2. CASE arg[c] # Self
      BY <1>1, <1>2, <2>2, ShardsAssumption
      DEF HandleNodeFailure, IInv, ShapesOK, SelfLives
    <2> QED
      BY <2>1, <2>2
  <1> QED
    BY <1>3, <1>4 DEF IInv

LEMMA AddInv == ASSUME NEW c \in Calls, IInv, AddNode(c) PROVE IInv'
  <1>1. writer' # {} /\ DOMAIN shards' = DOMAIN shards
    BY DEF AddNode
  <1>2. ASSUME NEW i \in DOMAIN shards
        PROVE  /\ DOMAIN shards'[i] = {"nodes", "primary", "docs", "status"}
               /\ shards'[i].primary = shards[i].primary
               /\ shards'[i].status = shards[i].status
    BY DEF AddNode, IInv, ShapesOK
  <1> QED
    BY <1>1, <1>2, ShardsAssumption
    DEF AddNode, IInv, ShapesOK, OneNode, OwnPrimary, SelfLives

LEMMA RemoveInv == ASSUME NEW c \in Calls, IInv, RemoveNode(c) PROVE IInv'
  <1>1. writer = {} /\ writer' # {} /\ DOMAIN shards' = DOMAIN shards
    BY DEF RemoveNode, WriterEnters
  <1>2. ASSUME NEW i \in DOMAIN shards
        PROVE  /\ DOMAIN shards'[i] = {"nodes", "primary", "docs", "status"}
               /\ shards'[i].primary = Self
               /\ shards'[i].status = shards[i].status
    <2>1. shards[i].primary = Self /\ shards[i].nodes = <<Self>>
      BY <1>1 DEF IInv, OwnPrimary, OneNode
    <2>2. arg[c] = Self => Others(shards[i], arg[c]) = {}
      BY <2>1 DEF Others
    <2> DEFINE kept == SelectSeq(shards[i].nodes, LAMBDA n : n # arg[c])
    <2>3. shards'[i] = [shards[i] EXCEPT !.nodes = kept, !.primary = Self]
      BY <2>1, <2>2 DEF RemoveNode
    <2> HIDE DEF kept
    <2> QED
      BY <2>3 DEF IInv, ShapesOK
  <1> QED
    BY <1>1, <1>2, ShardsAssumption
    DEF RemoveNode, IInv, ShapesOK, OneNode, OwnPrimary, SelfLives

(* The other steps leave shards and nodes alone, and the write lock free   *)
(* when it was free.                                                       *)
LEMMA OtherInv ==
  ASSUME IInv, UNCHANGED <<shards, nodeInfo>>, writer' = {} => writer = {}
  PROVE  IInv'
  BY DEF IInv, ShapesOK, OneNode, OwnPrimary, SelfLives

LEMMA StepInv == IInv /\ [ShardsNext]_shardVars => IInv'
  <1> SUFFICES ASSUME IInv, [ShardsNext]_shardVars PROVE IInv'
    OBVIOUS
  <1>1. CASE UNCHANGED shardVars
    BY <1>1, OtherInv DEF shardVars
  <1>2. CASE CooldownEnds
    BY <1>2, OtherInv DEF CooldownEnds, lockVars
  <1>3. ASSUME NEW c \in Calls,
               \/ BeginStats(c) \/ BeginStatus(c) \/ BeginScale(c)
               \/ BeginMembership(c) \/ BeginRebalance(c)
        PROVE  IInv'
    <2>1. UNCHANGED <<lockVars, stateVars>>
      BY <1>3 DEF BeginStats, BeginStatus, BeginScale, BeginMembership,
                  BeginRebalance, Begin
    <2> QED
      BY <2>1, OtherInv DEF lockVars, stateVars
  <1>4. ASSUME NEW c \in Calls,
               \/ LookUpShard(c) \/ ReadStatus(c) \/ ReadAgain(c)
               \/ SumShards(c) \/ CheckCooldown(c)
        PROVE  IInv'
    <2>1. UNCHANGED <<writer, stateVars>>
      BY <1>4 DEF LookUpShard, ReadStatus, ReadAgain, SumShards, CheckCooldown, lockVars
    <2> QED
      BY <2>1, OtherInv DEF stateVars
  <1>5. ASSUME NEW c \in Calls, BalanceShards(c) PROVE IInv'
    BY <1>5, OtherInv DEF BalanceShards, WriterEnters, stateVars
  <1> QED
    BY <1>1, <1>2, <1>3, <1>4, <1>5, CountInv, ScaleInv, FailureInv, AddInv,
       RemoveInv DEF ShardsNext

LEMMA InvHolds == ShardsSpec => []IInv
  BY InitInv, StepInv, PTL DEF ShardsSpec

(* BalanceShards (shard_manager.go:565) never meets a shard of two nodes:  *)
(* the only call that adds one keeps sm.mu for good.                       *)
THEOREM OneNodeWhileFree == ShardsSpec => []OneNode
  <1>1. IInv => OneNode
    BY DEF IInv
  <1> QED
    BY <1>1, InvHolds, PTL

(* No active shard has a dead node for its primary, for any number of      *)
(* shards, nodes and calls (shard_manager.go:470-504).                     *)
THEOREM LivePrimaries == ShardsSpec => []ActiveShardHasLivePrimary
  <1>1. IInv => ActiveShardHasLivePrimary
    BY DEF IInv, OwnPrimary, SelfLives, ActiveShardHasLivePrimary
  <1> QED
    BY <1>1, InvHolds, PTL

-----------------------------------------------------------------------------
(* sm.mu: a call with a read lock is SHARD STATUS before its second one,   *)
(* and the one with the write lock is on its way into BalanceShards.       *)
LocksOK == /\ pc = [c \in Calls |-> pc[c]]
           /\ readers = [c \in Calls |-> readers[c]]
ReadersAsk == \A c \in Calls : readers[c] # 0 => pc[c] = "again"
HolderBalances ==
  writer # {} => \E c \in Calls : writer = {c} /\ pc[c] = "balance"

LockInv == LocksOK /\ ReadersAsk /\ HolderBalances

LEMMA LockInit == ShardsInit => LockInv
  BY DEF ShardsInit, LockInv, LocksOK, ReadersAsk, HolderBalances

(* A call that holds no read lock, or has just let go of it, and is not    *)
(* past a lock it holds, may go anywhere.                                  *)
LEMMA LockMoves ==
  ASSUME NEW c \in Calls, NEW next, LockInv, Goes(c, next), UNCHANGED lockVars,
         pc[c] \notin {"again", "balance"}
  PROVE  LockInv'
  BY DEF LockInv, LocksOK, ReadersAsk, HolderBalances, Goes, lockVars

LEMMA LockStep == LockInv /\ [ShardsNext]_shardVars => LockInv'
  <1> SUFFICES ASSUME LockInv, [ShardsNext]_shardVars PROVE LockInv'
    OBVIOUS
  <1>1. CASE UNCHANGED shardVars \/ CooldownEnds
    BY <1>1 DEF CooldownEnds, shardVars, lockVars, LockInv, LocksOK, ReadersAsk,
                HolderBalances
  <1>2. ASSUME NEW c \in Calls,
               \/ BeginStats(c) \/ BeginStatus(c) \/ BeginScale(c)
               \/ BeginMembership(c) \/ BeginRebalance(c)
        PROVE  LockInv'
    <2>1. pc[c] = "idle" /\ UNCHANGED lockVars /\ \E next : Goes(c, next)
      BY <1>2 DEF BeginStats, BeginStatus, BeginScale, BeginMembership,
                  BeginRebalance, Begin
    <2> QED
      BY <2>1, LockMoves
  <1>3. ASSUME NEW c \in Calls,
               \/ LookUpShard(c) \/ CountDoc(c) \/ SumShards(c) \/ CheckCooldown(c)
               \/ Scale(c) \/ HandleNodeFailure(c)
        PROVE  LockInv'
    <2>1. /\ pc[c] \in {"lookup", "count", "sum", "cooldown", "write"}
          /\ UNCHANGED lockVars /\ \E next : Goes(c, next)
      BY <1>3 DEF LookUpShard, CountDoc, SumShards, CheckCooldown, Scale,
                  HandleNodeFailure
    <2> QED
      BY <2>1, LockMoves
  <1>4. ASSUME NEW c \in Calls, ReadStatus(c) \/ ReadAgain(c) PROVE LockInv'
    BY <1>4 DEF ReadStatus, ReadAgain, ReaderEnters, Reads, Goes, LockInv,
                LocksOK, ReadersAsk, HolderBalances
  <1>5. ASSUME NEW c \in Calls, AddNode(c) \/ RemoveNode(c) PROVE LockInv'
    <2>1. pc[c] = "write" /\ Goes(c, "balance") /\ writer' = {c} /\ readers' = readers
      BY <1>5 DEF AddNode, RemoveNode
    <2> QED
      BY <2>1 DEF Goes, LockInv, LocksOK, ReadersAsk, HolderBalances
  (* Nobody holds the lock when BalanceShards gets it.                     *)
  <1>6. ASSUME NEW c \in Calls, BalanceShards(c) PROVE LockInv'
    BY <1>6 DEF BalanceShards, WriterEnters, Goes, LockInv, LocksOK, ReadersAsk,
                HolderBalances
  <1> QED
    BY <1>1, <1>2, <1>3, <1>4, <1>5, <1>6 DEF ShardsNext

(* Where all busy calls wait, either the holder of the write lock is one   *)
(* of them, or the lock is free and a reader waits only for a writer, which *)
(* waits only for a reader in its second lock.                             *)
LEMMA StandstillKnown == LockInv => EveryStandstillIsKnown
  <1> SUFFICES ASSUME LockInv, NEW b \in Busy, \A c \in Busy : Blocked(c)
               PROVE  \/ \E c \in Busy : pc[c] = "balance" /\ writer = {c}
                      \/ \E c, d \in Busy : pc[c] = "again" /\ AwaitsWrite(d)
    BY DEF EveryStandstillIsKnown
  <1>1. CASE writer # {}
    BY <1>1 DEF LockInv, HolderBalances, Busy
  <1>2. CASE writer = {}
    <2>1. PICK d \in Calls : AwaitsWrite(d)
      BY <1>2 DEF Busy, Blocked, ReaderEnters
    <2>2. d \in Busy /\ ~WriterEnters(d)
      BY <2>1 DEF Busy, Blocked, Reading, AwaitsWrite
    <2>3. PICK c \in Calls : readers[c] # 0
      BY <1>2, <2>2 DEF WriterEnters
    <2>4. c \in Busy /\ pc[c] = "again"
      BY <2>3 DEF LockInv, ReadersAsk, Busy
    <2> QED
      BY <2>1, <2>2, <2>4
  <1> QED
    BY <1>1, <1>2

(* Calls of the manager that wait for each other for ever are one that     *)
(* entered BalanceShards with the lock held, or SHARD STATUS behind a      *)
(* writer (shard_manager.go:539, cmd_admin.go:291-302), for any number of  *)
(* calls.                                                                  *)
THEOREM StandstillsAreKnown == ShardsSpec => []EveryStandstillIsKnown
  BY LockInit, LockStep, StandstillKnown, PTL DEF ShardsSpec
=============================================================================
