-------------------------------- MODULE Shards --------------------------------
(***************************************************************************)
(* CaimanDB's shard manager (internal/caimandb/shard_manager.go) on one    *)
(* node: the shards' nodes, primaries and counters, scaling, failures and  *)
(* membership changes, and sm.mu, the read-write lock they share with      *)
(* SHARD STATUS (cmd_admin.go).                                            *)
(*                                                                         *)
(* A call does one operation at a time.  A critical section that takes no  *)
(* other lock is one step.  sm.mu is a sync.RWMutex: a call that waits in  *)
(* Lock lets no new reader in, so a reader that asks for a second read     *)
(* lock waits for a writer that waits for the reader's first.              *)
(***************************************************************************)
EXTENDS Integers, Sequences, FiniteSets, FiniteSetsExt, SequencesExt

CONSTANTS
  Calls,           \* goroutines that call the manager
  Members,         \* node ids
  Self,            \* sm.nodeID
  MinShards,       \* the fewest shards, at the start and after scaling (4)
  MaxShards,       \* MaxShardsPerNode
  Replicas,        \* sm.replicaCount
  MinDocs, MaxDocs,\* MinShardDocs and MaxShardDocs
  MaxBegun         \* bound: operations begun

ASSUME ShardsAssumption == Self \in Members

VARIABLES
  op,       \* what each call does
  pc,       \* where each call is in it; "idle" between operations
  arg,      \* a shard and its era, the count to scale to, or a node
  readers,  \* how many read locks of sm.mu each call holds
  writer,   \* the calls that hold sm.mu's write lock: one or none
  shards,   \* sm.shards: nodes, primary, DocCount and Status of each
  nodeInfo, \* sm.clusterNodes: Status of each node, "unknown" without an entry
  cooling,  \* the scale directions in their cooldown
  era,      \* how often InitializeShards has replaced the shards
  begun     \* operations begun

shardVars ==
  <<op, pc, arg, readers, writer, shards, nodeInfo, cooling, era, begun>>
lockVars == <<readers, writer>>
stateVars == <<shards, nodeInfo, cooling, era>>

(* InitializeShards: every counter and every list starts again.            *)
Initialized(n) ==
  [i \in 0 .. n - 1 |->
     [nodes |-> <<Self>>, primary |-> Self, docs |-> 0, status |-> "active"]]

ShardsInit ==
  /\ op = [c \in Calls |-> "none"] /\ pc = [c \in Calls |-> "idle"]
  /\ arg = [c \in Calls |-> Self]
  /\ readers = [c \in Calls |-> 0] /\ writer = {}
  /\ shards = Initialized(MinShards)
  /\ nodeInfo = [m \in Members |-> IF m = Self THEN "active" ELSE "unknown"]
  /\ cooling = {} /\ era = 0 /\ begun = 0

-----------------------------------------------------------------------------
(* sm.mu *)

AwaitsWrite(c) == pc[c] \in {"write", "balance"}

(* A reader gets in when no call has or awaits the write lock.             *)
ReaderEnters(c) == writer = {} /\ ~ \E d \in Calls : AwaitsWrite(d)

WriterEnters(c) == writer = {} /\ \A d \in Calls : readers[d] = 0

Goes(c, next) == pc' = [pc EXCEPT ![c] = next]
Reads(c, n) == readers' = [readers EXCEPT ![c] = n]

Begin(c, operation, subject, next) ==
  /\ pc[c] = "idle" /\ begun < MaxBegun
  /\ begun' = begun + 1
  /\ op' = [op EXCEPT ![c] = operation]
  /\ arg' = [arg EXCEPT ![c] = subject]
  /\ Goes(c, next)
  /\ UNCHANGED <<lockVars, stateVars>>

-----------------------------------------------------------------------------
(* Counting an inserted document.  GetShardForKey takes no lock: it reads  *)
(* the count and the ids InitializeShards published last.  UpdateShardStats *)
(* looks the shard up under the read lock and counts on it afterwards.     *)

BeginStats(c) ==
  \E i \in DOMAIN shards : Begin(c, "stats", <<i, era>>, "lookup")

LookUpShard(c) ==
  /\ pc[c] = "lookup" /\ ReaderEnters(c)
  /\ IF arg[c][1] \in DOMAIN shards
     THEN arg' = [arg EXCEPT ![c] = <<@[1], era>>] /\ Goes(c, "count")
     ELSE UNCHANGED arg /\ Goes(c, "idle")
  /\ UNCHANGED <<op, lockVars, stateVars, begun>>

(* The *ShardInfo found may have been replaced meanwhile.                  *)
CountDoc(c) ==
  /\ pc[c] = "count" /\ Goes(c, "idle")
  /\ shards' = IF arg[c][2] = era
               THEN [shards EXCEPT ![arg[c][1]].docs = @ + 1]
               ELSE shards
  /\ UNCHANGED <<op, arg, lockVars, nodeInfo, cooling, era, begun>>

-----------------------------------------------------------------------------
(* SHARD STATUS keeps its read lock while totalDocs and calculateSkew take *)
(* it again; the other getters (GetShardsForFilter, IsShardLocal,          *)
(* GetShardStats, ...) are the first step alone.                           *)

BeginStatus(c) == Begin(c, "status", Self, "status")

ReadStatus(c) ==
  /\ pc[c] = "status" /\ ReaderEnters(c)
  /\ Reads(c, 1) /\ Goes(c, "again")
  /\ UNCHANGED <<op, arg, writer, stateVars, begun>>

ReadAgain(c) ==
  /\ pc[c] = "again" /\ ReaderEnters(c)
  /\ Reads(c, 0) /\ Goes(c, "idle")
  /\ UNCHANGED <<op, arg, writer, stateVars, begun>>

-----------------------------------------------------------------------------
(* checkAndScale, run by the one scale loop.                               *)

TotalDocs == MapThenSumSet(LAMBDA i : shards[i].docs, DOMAIN shards)
ShardCount == Cardinality(DOMAIN shards)

BeginScale(c) ==
  /\ \A d \in Calls : pc[d] = "idle" \/ op[d] # "scale"
  /\ Begin(c, "scale", <<0, 0>>, "sum")

(* The count to scale to; the present one when nothing is to be done.      *)
NewCount ==
  LET perShard == TotalDocs \div ShardCount IN
  IF TotalDocs = 0 THEN ShardCount
  ELSE IF perShard > MaxDocs
       THEN IF ShardCount * 2 <= MaxShards THEN ShardCount * 2 ELSE ShardCount
  ELSE IF perShard < MinDocs /\ ShardCount \div 2 >= MinShards
       THEN ShardCount \div 2 ELSE ShardCount

Direction(n) == IF n > ShardCount THEN "scale_up" ELSE "scale_down"

(* Bug: the sum's read lock is kept until the function returns.            *)
SumShardsDeferred(c) ==
  /\ pc[c] = "sum" /\ ReaderEnters(c)
  /\ arg' = [arg EXCEPT ![c] = <<NewCount, 0>>]
  /\ Reads(c, IF NewCount = ShardCount THEN 0 ELSE 1)
  /\ Goes(c, IF NewCount = ShardCount THEN "idle" ELSE "cooldown")
  /\ UNCHANGED <<op, writer, stateVars, begun>>

SumShards(c) ==
  /\ pc[c] = "sum" /\ ReaderEnters(c)
  /\ arg' = [arg EXCEPT ![c] = <<NewCount, 0>>]
  /\ Goes(c, IF NewCount = ShardCount THEN "idle" ELSE "cooldown")
  /\ UNCHANGED <<op, lockVars, stateVars, begun>>

(* isInCooldown, with the read lock of its own.                            *)
CheckCooldown(c) ==
  /\ pc[c] = "cooldown" /\ ReaderEnters(c)
  /\ Goes(c, IF Direction(arg[c][1]) \in cooling THEN "idle" ELSE "write")
  /\ UNCHANGED <<op, arg, lockVars, stateVars, begun>>

(* scaleUp and scaleDown.                                                  *)
Scale(c) ==
  /\ pc[c] = "write" /\ op[c] = "scale" /\ WriterEnters(c)
  /\ shards' = Initialized(arg[c][1])
  /\ nodeInfo' = [nodeInfo EXCEPT ![Self] = "active"]
  /\ cooling' = cooling \cup {Direction(arg[c][1])} /\ era' = era + 1
  /\ Goes(c, "idle")
  /\ UNCHANGED <<op, arg, lockVars, begun>>

(* Time passes: a cooldown ends.                                           *)
CooldownEnds ==
  /\ \E s \in cooling : cooling' = cooling \ {s}
  /\ UNCHANGED <<op, pc, arg, lockVars, shards, nodeInfo, era, begun>>

-----------------------------------------------------------------------------
(* Membership *)

BeginMembership(c) ==
  \E operation \in {"failure", "add", "remove"}, m \in Members :
    Begin(c, operation, m, "write")

Known(m) == nodeInfo[m] # "unknown"

(* The places of the other nodes in a shard's list.                        *)
Others(shard, m) == {k \in DOMAIN shard.nodes : shard.nodes[k] # m}

(* Bug: a shard no other node can serve is left as it is.                  *)
WithoutNodeUndegraded(shard, m, info) ==
  LET able == {k \in Others(shard, m) : info[shard.nodes[k]] = "active"} IN
  IF shard.primary = m /\ able # {}
  THEN [shard EXCEPT !.primary = shard.nodes[Min(able)]] ELSE shard

(* What HandleNodeFailure does to a shard: the first other active node of  *)
(* its list becomes primary, without one the shard is degraded.            *)
WithoutNode(shard, m, info) ==
  LET able == {k \in Others(shard, m) : info[shard.nodes[k]] = "active"} IN
  IF shard.primary # m THEN shard
  ELSE IF able # {} THEN [shard EXCEPT !.primary = shard.nodes[Min(able)]]
  ELSE [shard EXCEPT !.status = "degraded"]

HandleNodeFailure(c) ==
  /\ pc[c] = "write" /\ op[c] = "failure" /\ WriterEnters(c)
  /\ nodeInfo' = IF Known(arg[c]) THEN [nodeInfo EXCEPT ![arg[c]] = "dead"]
                                  ELSE nodeInfo
  /\ shards' = [i \in DOMAIN shards |-> WithoutNode(shards[i], arg[c], nodeInfo')]
  /\ Goes(c, "idle")
  /\ UNCHANGED <<op, arg, lockVars, cooling, era, begun>>

(* AddNodeToShards and RemoveNodeFromShards change the lists and call      *)
(* BalanceShards with the write lock in their hands.                       *)
AddNode(c) ==
  /\ pc[c] = "write" /\ op[c] = "add" /\ WriterEnters(c)
  /\ writer' = {c}
  /\ shards' = [i \in DOMAIN shards |->
       IF Contains(shards[i].nodes, arg[c]) \/ Len(shards[i].nodes) >= Replicas
       THEN shards[i]
       ELSE [shards[i] EXCEPT !.nodes = Append(@, arg[c])]]
  /\ nodeInfo' = [nodeInfo EXCEPT ![arg[c]] = "active"]
  /\ Goes(c, "balance")
  /\ UNCHANGED <<op, arg, readers, cooling, era, begun>>

RemoveNode(c) ==
  /\ pc[c] = "write" /\ op[c] = "remove" /\ WriterEnters(c)
  /\ writer' = {c}
  /\ shards' = [i \in DOMAIN shards |->
       LET others == Others(shards[i], arg[c]) IN
       [shards[i] EXCEPT
          !.nodes = SelectSeq(@, LAMBDA n : n # arg[c]),
          !.primary = IF @ = arg[c] /\ others # {}
                      THEN shards[i].nodes[Min(others)] ELSE @]]
  /\ nodeInfo' = IF Known(arg[c]) THEN [nodeInfo EXCEPT ![arg[c]] = "leaving"]
                                  ELSE nodeInfo
  /\ Goes(c, "balance")
  /\ UNCHANGED <<op, arg, readers, cooling, era, begun>>

(* SHARD REBALANCE.                                                        *)
BeginRebalance(c) == Begin(c, "rebalance", Self, "balance")

(* BalanceShards.  It extends only lists of two nodes and more, and none   *)
(* has two when it gets in: the only call that adds one keeps the lock     *)
(* (theorem OneNodeWhileFree in ShardsProofs).                             *)
BalanceShards(c) ==
  /\ pc[c] = "balance" /\ WriterEnters(c)
  /\ Goes(c, "idle") /\ writer' = writer \ {c}
  /\ UNCHANGED <<op, arg, readers, stateVars, begun>>

-----------------------------------------------------------------------------
ShardsNext ==
  \/ \E c \in Calls :
       \/ BeginStats(c) \/ LookUpShard(c) \/ CountDoc(c)
       \/ BeginStatus(c) \/ ReadStatus(c) \/ ReadAgain(c)
       \/ BeginScale(c) \/ SumShards(c) \/ CheckCooldown(c) \/ Scale(c)
       \/ BeginMembership(c) \/ HandleNodeFailure(c)
       \/ AddNode(c) \/ RemoveNode(c)
       \/ BeginRebalance(c) \/ BalanceShards(c)
  \/ CooldownEnds

ShardsSpec == ShardsInit /\ [][ShardsNext]_shardVars

-----------------------------------------------------------------------------
(* Properties *)

Reading(c) == pc[c] \in {"lookup", "status", "again", "sum", "cooldown"}
Blocked(c) == \/ Reading(c) /\ ~ReaderEnters(c)
              \/ AwaitsWrite(c) /\ ~WriterEnters(c)
Busy == {c \in Calls : pc[c] # "idle"}

(* Wherever calls of the manager wait for each other for ever, one of them *)
(* waits for itself, in BalanceShards called with the write lock held, or  *)
(* is SHARD STATUS, which asks for a second read lock behind a writer      *)
(* (shard_manager.go:539, cmd_admin.go:291-302).                           *)
EveryStandstillIsKnown ==
  (Busy # {} /\ \A c \in Busy : Blocked(c)) =>
    \/ \E c \in Busy : pc[c] = "balance" /\ writer = {c}
    \/ \E c, d \in Busy : pc[c] = "again" /\ AwaitsWrite(d)

(* No shard that calls itself active has a dead node for its primary,      *)
(* whatever failures, removals and scalings came before                    *)
(* (shard_manager.go:470-504).                                             *)
ActiveShardHasLivePrimary ==
  \A i \in DOMAIN shards :
    shards[i].status = "active" => nodeInfo[shards[i].primary] # "dead"
=============================================================================
