------------------------------- MODULE MCCluster -------------------------------
(* The shard manager and the cluster on small instances.  They share no    *)
(* variable: a behaviour is one part's, and the other stays where it began.*)
EXTENDS Shards, Cluster, TLC

VARIABLE part

(* Members that have restarted and refreshed once with nothing written: a  *)
(* state ClusterSpec reaches, and the first in which writes go through the *)
(* log, because a join hangs before it gets to refreshSingleNodeStatus.    *)
Formed ==
  /\ voters = Nodes /\ leader = Seed /\ rlog = <<>> /\ reconf = 0
  /\ seen = [n \in Nodes |-> 0] /\ applied = [n \in Nodes |-> 0]
  /\ config = [n \in Nodes |-> Nodes] /\ snap = [n \in Nodes |-> NoSnapshot]
  /\ singleNode = [n \in Nodes |-> FALSE] /\ peers = [n \in Nodes |-> {}]
  /\ task = [n \in Nodes |-> Idle] /\ held = {}
  /\ data = [n \in Nodes |-> {}] /\ batches = [n \in Nodes |-> 0]
  /\ jammed = [n \in Nodes |-> {}]
  /\ bypassed = {} /\ lost = {} /\ failed = [n \in Nodes |-> {}]
  /\ odd = {} /\ restarts = 0

Init ==
  /\ ShardsInit
  /\ \/ part \in {"shards", "cluster"} /\ ClusterInit
     \/ part \in {"log", "beside"} /\ Formed

(* Restarts and the snapshots they go back to come with what happens       *)
(* through the log; writes beside it and the shard manager's lock without, *)
(* and in formed clusters under one leader.                                *)
Next ==
  \/ part = "shards" /\ ShardsNext /\ UNCHANGED <<part, clusterVars>>
  \/ part = "log" /\ LogStep /\ UNCHANGED <<part, shardVars>>
  \/ /\ part \in {"cluster", "beside"} /\ ClusterNext
     /\ UNCHANGED <<part, shardVars, snap, restarts>>
     /\ part = "beside" => UNCHANGED leader
Spec == Init /\ [][Next]_<<part, shardVars, clusterVars>>

Symmetry == Permutations(Calls)
=============================================================================
