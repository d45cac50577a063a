-------------------------------- MODULE Cluster --------------------------------
(***************************************************************************)
(* CaimanDB's cluster mode: which writes go through Raft and which do not  *)
(* (ops_*.go), the state machine that applies Raft's log (raft_fsm.go),    *)
(* joining, leaving and automatic joining (cluster.go), and restarts over  *)
(* the Badger log store (raft/raft_logstore.go).                           *)
(*                                                                         *)
(* Raft itself is a library: the log of the leader last elected is one     *)
(* sequence, a new leader has all that those who elect it show of theirs,  *)
(* and delivery to a member is the step Apply.  Of the shard manager       *)
(* (module Shards) only sm.mu is kept: it is what a join, an insert and    *)
(* SHARD REBALANCE meet at.                                                *)
(***************************************************************************)
EXTENDS Integers, Sequences, FiniteSets, SequencesExt

CONSTANTS
  Nodes, Seed,  \* node ids; the node whose cluster the others join
  Ids,          \* document ids
  NoOne,        \* no leader
  ReadMayFail,  \* whether reading Raft's configuration may report an error
  MaxLog,       \* bound: commands in Raft's log
  MaxBatches,   \* bound: batches a node stores
  MaxFailed,    \* bound: nodes and ids of commands that failed there
  MaxRestarts   \* bound: restarts

VARIABLES
  voters,     \* the servers of the Raft configuration of Seed's cluster
  leader,     \* its leader
  rlog,       \* its committed commands
  reconf,     \* the commands before its last configuration entry
  seen,       \* seen[n]: the last command n's Raft instance knows of
  applied,    \* applied[n]: the last command n's RaftFSM has applied
  config,     \* config[n]: the configuration n's Raft instance knows
  snap,       \* snap[n]: n's last Raft snapshot
  singleNode, \* cm.singleNode
  peers,      \* cm.peers
  task,       \* the membership call, rebalance or startup each node is in
  held,       \* nodes whose sm.mu a call keeps
  data,       \* data[n]: ids stored on n
  batches,    \* batches of documents without ids stored on n
  jammed,     \* ids whose insert on n waits for sm.mu with its lock held
  \* history
  bypassed,   \* ids written outside Raft
  lost,       \* ids of commands that a new leader did not have, or that came
              \* where a member had already applied such a one
  failed,     \* failed[n]: ids of commands that failed on n
  odd,        \* nodes with a batch outside Raft, or that replayed the log
  restarts

raftVars == <<voters, leader, rlog, reconf, seen, applied, config, snap, lost>>
managerVars == <<singleNode, peers, task, held>>
dataVars == <<data, batches, jammed, bypassed, failed, odd>>
clusterVars == <<raftVars, managerVars, dataVars, restarts>>

New == "new"
Commands ==
  [op : {"insert", "delete"}, id : Ids] \cup {[op |-> "insert_batch", id |-> New]}
Idle == [kind |-> "none", at |-> "none"]
NoSnapshot == [index |-> 0, members |-> {}]

(* A batch is of documents that get their ids when they are stored, so New *)
(* names none of them.                                                     *)
ASSUME ClusterAssumption == Seed \in Nodes /\ New \notin Ids

(* Every node bootstraps a cluster of its own; only Seed's is followed.    *)
ClusterInit ==
  /\ voters = {Seed} /\ leader = Seed /\ rlog = <<>> /\ reconf = 0
  /\ seen = [n \in Nodes |-> 0] /\ applied = [n \in Nodes |-> 0]
  /\ config = [n \in Nodes |-> {n}] /\ snap = [n \in Nodes |-> NoSnapshot]
  /\ singleNode = [n \in Nodes |-> TRUE] /\ peers = [n \in Nodes |-> {}]
  /\ task = [n \in Nodes |-> Idle] /\ held = {}
  /\ data = [n \in Nodes |-> {}] /\ batches = [n \in Nodes |-> 0]
  /\ jammed = [n \in Nodes |-> {}]
  /\ bypassed = {} /\ lost = {} /\ failed = [n \in Nodes |-> {}]
  /\ odd = {} /\ restarts = 0

-----------------------------------------------------------------------------
(* Writes *)

(* Bug: deletes are never routed.                                          *)
ViaRaftButDeletes(n, c) == n = leader /\ ~singleNode[n] /\ c.op # "delete"

(* e.cluster.IsLeader() && !e.cluster.IsSingleNode(), in every ops_*.go    *)
(* that writes.  A node outside Seed's cluster leads its own and is alone. *)
ViaRaft(n, c) == n = leader /\ ~singleNode[n]

(* insertWithIDLocal, insertBatchLocal and deleteLocal.  An insert stores  *)
(* and then counts in the shard manager; when it waits there, the lock of  *)
(* its key stays taken.                                                    *)
Inserts(c) == c.op # "delete"
CanStore(n, c) == Inserts(c) => c.id \notin jammed[n]

Hangs(n, c) == Inserts(c) /\ n \in held

Store(n, c) ==
  /\ data' = [data EXCEPT ![n] =
       CASE c.op = "insert" -> @ \cup {c.id}
         [] c.op = "delete" -> @ \ {c.id}
         [] OTHER -> @]
  /\ batches' = IF c.op = "insert_batch" THEN [batches EXCEPT ![n] = @ + 1]
                                         ELSE batches
  /\ jammed' = IF Hangs(n, c) THEN [jammed EXCEPT ![n] = @ \cup {c.id}] ELSE jammed

Serving(n) == task[n].kind # "start"

(* The members hear of the log and the configuration.                      *)
Hear(members, log, conf) ==
  /\ seen' = [m \in Nodes |-> IF m \in members THEN Len(log) ELSE seen[m]]
  /\ config' = [m \in Nodes |-> IF m \in members THEN conf ELSE config[m]]

(* raft.Apply: the command is committed and every member hears of it.  One *)
(* that has applied as many skips it.                                      *)
Replicate(n, c) ==
  /\ Serving(n) /\ ViaRaft(n, c) /\ Len(rlog) < MaxLog
  /\ rlog' = Append(rlog, c)
  /\ Hear(voters, rlog', voters)
  /\ lost' = IF \E m \in Nodes : applied[m] > Len(rlog) THEN lost \cup {c.id}
                                                        ELSE lost
  /\ UNCHANGED <<voters, leader, reconf, applied, snap, managerVars, dataVars,
                 restarts>>

(* The write goes straight to the node's own storage.                      *)
WriteLocally(n, c) ==
  /\ Serving(n) /\ ~ViaRaft(n, c) /\ CanStore(n, c)
  /\ c.op = "insert_batch" => batches[n] < MaxBatches
  /\ Store(n, c)
  /\ LET outside == n # leader \/ singleNode[n] IN
     /\ bypassed' = IF outside /\ c.id \in Ids THEN bypassed \cup {c.id}
                                               ELSE bypassed
     /\ odd' = IF outside /\ c.op = "insert_batch" THEN odd \cup {n} ELSE odd
  /\ UNCHANGED <<raftVars, failed, managerVars, restarts>>

(* RaftFSM.Apply.  An insert that hangs keeps f.mu: nothing is applied     *)
(* after it, and it does not count as applied.                             *)
Pending(n) == n \in voters /\ Serving(n) /\ applied[n] < seen[n]

Apply(n) ==
  /\ Pending(n)
  /\ LET c == rlog[applied[n] + 1] IN
     /\ CanStore(n, c) /\ Store(n, c)
     /\ applied' = IF Hangs(n, c) THEN applied ELSE [applied EXCEPT ![n] = @ + 1]
  /\ UNCHANGED <<voters, leader, rlog, reconf, seen, config, snap, lost,
                 managerVars, bypassed, failed, odd, restarts>>

(* Where the local operation fails, the error is logged and the command    *)
(* counts as applied like any other.                                       *)
ApplyFails(n) ==
  /\ Pending(n)
  /\ LET c == rlog[applied[n] + 1] IN
     /\ CanStore(n, c)
     /\ failed' = [failed EXCEPT ![n] = @ \cup {c.id}]
     /\ Cardinality(UNION {{m} \X failed'[m] : m \in Nodes}) <= MaxFailed
  /\ applied' = [applied EXCEPT ![n] = @ + 1]
  /\ UNCHANGED <<voters, leader, rlog, reconf, seen, config, snap, lost,
                 managerVars, data, batches, jammed, bypassed, odd, restarts>>

-----------------------------------------------------------------------------
(* Membership *)

(* The state machine waits in an insert that hangs.                        *)
Waiting(n) == Pending(n) /\ ~CanStore(n, rlog[applied[n] + 1])

(* raft.Snapshot: the number of the last command applied and the           *)
(* configuration, if no configuration entry came later; a member takes one *)
(* of its own accord after 2000 commands, here after any.  It may fail.    *)
Snapshots(n) ==
  \/ applied[n] > reconf
     /\ snap' = [snap EXCEPT ![n] = [index |-> applied[n], members |-> config[n]]]
  \/ UNCHANGED snap

TakeSnapshot(n) ==
  /\ n \in voters /\ Serving(n) /\ ~Waiting(n) /\ Snapshots(n)
  /\ UNCHANGED <<voters, leader, rlog, reconf, seen, applied, config, lost,
                 managerVars, dataVars, restarts>>

(* AddVoter and RemoveServer: a configuration entry reaches every member,  *)
(* and the leader that writes it.                                          *)
Reconfigure(l, members) ==
  /\ voters' = members /\ reconf' = Len(rlog)
  /\ Hear(members \cup {l}, rlog, members)

Begins(n, kind, at) == task' = [task EXCEPT ![n] = [kind |-> kind, at |-> at]]
Moves(n, at) == task' = [task EXCEPT ![n].at = at]
Ends(n) == task' = [task EXCEPT ![n] = Idle]

(* A snapshot, which waits for the state machine, and AddVoter.  The new   *)
(* member does not get the snapshot: the log keeps its last 100,000        *)
(* entries, and is replayed to it.                                         *)
AddMember(l, m) ==
  /\ l = leader /\ Serving(l) /\ ~Waiting(l) /\ m \notin voters
  /\ Snapshots(l) /\ Reconfigure(l, voters \cup {m})

(* HandleJoin.  Behind another call the rest of this one only waits for    *)
(* sm.mu.                                                                  *)
ThenShards(l) ==
  IF task[l] = Idle THEN Begins(l, "member", "shards") ELSE UNCHANGED task

Join(l, m) ==
  /\ AddMember(l, m)
  /\ peers' = [peers EXCEPT ![l] = @ \cup {m}]
  /\ ThenShards(l)
  /\ UNCHANGED <<leader, rlog, applied, lost, singleNode, held, dataVars,
                 restarts>>

(* HandleLeave, up to RemoveServer: the peer is forgotten in a later step. *)
Leave(l, m) ==
  /\ l = leader /\ Serving(l) /\ task[l] = Idle /\ m \in voters
  /\ Reconfigure(l, voters \ {m})
  /\ leader' = IF m = l THEN NoOne ELSE leader
  /\ task' = [task EXCEPT ![l] = [kind |-> m, at |-> "peers"]]
  /\ UNCHANGED <<rlog, applied, snap, lost, singleNode, peers, held, dataVars,
                 restarts>>

ForgetPeer(l) ==
  /\ task[l].at = "peers"
  /\ peers' = [peers EXCEPT ![l] = @ \ {task[l].kind}]
  /\ Begins(l, "member", "shards")
  /\ UNCHANGED <<raftVars, singleNode, held, dataVars, restarts>>

(* handleAutoJoin, every five seconds on the leader: it looks at cm.peers, *)
(* which only the node that handled a join has, and forgets nothing.       *)
AutoJoin(l) ==
  /\ \E m \in peers[l] \ {l} : AddMember(l, m)
  /\ ThenShards(l)
  /\ UNCHANGED <<leader, rlog, applied, lost, singleNode, peers, held, dataVars,
                 restarts>>

(* AddNodeToShards and RemoveNodeFromShards, up to BalanceShards.          *)
ChangeShards(l) ==
  /\ task[l].at = "shards" /\ l \notin held
  /\ held' = held \cup {l} /\ Moves(l, "balance")
  /\ UNCHANGED <<raftVars, singleNode, peers, dataVars, restarts>>

(* SHARD REBALANCE.                                                        *)
Rebalance(n) ==
  /\ Serving(n) /\ task[n] = Idle /\ n \notin held
  /\ Begins(n, "rebalance", "balance")
  /\ UNCHANGED <<raftVars, singleNode, peers, held, dataVars, restarts>>

(* BalanceShards takes sm.mu, and so does not return to a caller with it.  *)
Balance(n) ==
  /\ task[n].at = "balance" /\ n \notin held
  /\ IF task[n].kind = "rebalance" THEN Ends(n) ELSE Moves(n, "refresh")
  /\ UNCHANGED <<raftVars, singleNode, peers, held, dataVars, restarts>>

(* refreshSingleNodeStatus.                                                *)
Refresh(n) ==
  /\ task[n].at = "refresh"
  /\ \/ singleNode' = [singleNode EXCEPT ![n] = Cardinality(config[n]) <= 1]
     \/ ReadMayFail /\ singleNode' = [singleNode EXCEPT ![n] = FALSE]
  /\ Ends(n)
  /\ UNCHANGED <<raftVars, peers, held, dataVars, restarts>>

-----------------------------------------------------------------------------
(* Restarts and elections *)

(* BadgerLogStore.LastIndex: a reverse seek to the bare prefix finds the   *)
(* last key at or before it.  A key that goes on after the prefix sorts    *)
(* behind it, so the log looks empty whatever it holds.                    *)
Key(i) == <<"log-", i>>
LastIndex(entries) ==
  LET found == {i \in entries : IsPrefix(Key(i), <<"log-">>)} IN
  IF found = {} THEN 0 ELSE CHOOSE i \in found : \A j \in found : i >= j

(* NewClusterManager on existing state: no bootstrap, and with a log that  *)
(* looks empty, no more than the last snapshot tells.  RaftFSM.Restore     *)
(* decodes nothing of it: the data stays what it is on the disk.           *)
Restart(n) ==
  /\ n \in voters /\ restarts < MaxRestarts
  /\ restarts' = restarts + 1
  /\ LET last == LastIndex(DOMAIN rlog)
         from == IF last > snap[n].index THEN last ELSE snap[n].index
     IN /\ seen' = [seen EXCEPT ![n] = from]
        /\ applied' = [applied EXCEPT ![n] = snap[n].index]
        /\ config' = IF last > 0 THEN config
                                 ELSE [config EXCEPT ![n] = snap[n].members]
  /\ leader' = IF leader = n THEN NoOne ELSE leader
  /\ singleNode' = [singleNode EXCEPT ![n] = FALSE]
  /\ peers' = [peers EXCEPT ![n] = {}]
  /\ Begins(n, "start", "refresh")
  /\ held' = held \ {n} /\ jammed' = [jammed EXCEPT ![n] = {}]
  /\ odd' = IF applied[n] = snap[n].index /\ jammed[n] = {} THEN odd ELSE odd \cup {n}
  /\ UNCHANGED <<voters, rlog, reconf, snap, lost, data, batches, bypassed,
                 failed>>

LoseLeader ==
  /\ leader # NoOne /\ leader' = NoOne
  /\ UNCHANGED <<voters, rlog, reconf, seen, applied, config, snap, lost,
                 managerVars, dataVars, restarts>>

(* A majority of the configuration n knows, without anyone that shows a    *)
(* longer log or knows n is no member.  A member without a configuration   *)
(* does not stand.                                                         *)
Elects(n, some) ==
  /\ n \in some /\ 2 * Cardinality(some) > Cardinality(config[n])
  /\ \A m \in some : seen[m] <= seen[n] /\ (config[m] = {} \/ n \in config[m])

(* The leader's log and configuration are the cluster's.  Bound: not with  *)
(* a snapshot of commands that are lost, which would number the next ones. *)
Elect(n) ==
  /\ leader = NoOne /\ n \in voters /\ Serving(n) /\ seen[n] <= Len(rlog)
  /\ \E some \in SUBSET config[n] : Elects(n, some)
  /\ leader' = n /\ voters' = config[n]
  /\ rlog' = SubSeq(rlog, 1, seen[n])
  /\ lost' = lost \cup {rlog[k].id : k \in (seen[n] + 1)..Len(rlog)}
  /\ reconf' = IF reconf > seen[n] THEN seen[n] ELSE reconf
  /\ Hear(config[n], rlog', config[n])
  /\ UNCHANGED <<applied, snap, managerVars, dataVars, restarts>>

-----------------------------------------------------------------------------
(* What the log and its members do, and what is done beside it.            *)
LogStep ==
  \/ \E n \in Nodes, c \in Commands : Replicate(n, c)
  \/ \E l, m \in Nodes : Join(l, m) \/ Leave(l, m)
  \/ \E n \in Nodes :
       \/ Apply(n) \/ ApplyFails(n) \/ TakeSnapshot(n)
       \/ Refresh(n) \/ Restart(n) \/ Elect(n)
  \/ LoseLeader

OtherStep ==
  \/ \E n \in Nodes, c \in Commands : WriteLocally(n, c)
  \/ \E n \in Nodes :
       \/ AutoJoin(n) \/ ForgetPeer(n) \/ ChangeShards(n)
       \/ Rebalance(n) \/ Balance(n)

ClusterNext == LogStep \/ OtherStep

ClusterSpec == ClusterInit /\ [][ClusterNext]_clusterVars

-----------------------------------------------------------------------------
(* Properties *)

CaughtUp(n) == n \in voters /\ applied[n] = Len(rlog)

(* Two members that have applied the whole log hold the same documents,    *)
(* but for ids written while the writer did not lead or believed itself    *)
(* alone, ids whose command failed on one of them, and ids of commands     *)
(* lost with the log of a restarted member; and the same batches unless    *)
(* one took a batch outside Raft, or restarted and replayed the log, or a  *)
(* batch failed or was lost (raft_fsm.go:39-94, ops_insert.go:95).         *)
DifferencesAreExplained ==
  \A n, m \in Nodes : CaughtUp(n) /\ CaughtUp(m) =>
    LET known == lost \cup failed[n] \cup failed[m] IN
    /\ data[n] \ (bypassed \cup known) = data[m] \ (bypassed \cup known)
    /\ {n, m} \cap odd = {} /\ New \notin known => batches[n] = batches[m]
=============================================================================
