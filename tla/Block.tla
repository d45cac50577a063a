-------------------------------- MODULE Block --------------------------------
(***************************************************************************)
(* One block of CaimanDB while it is written and read: the documents and   *)
(* the secondary index in Badger, and the copies the engine keeps of them, *)
(* which are the L1 cache of documents, the L2 cache of index lookups, the *)
(* FLEX-COLUMN index, the change feed and the count in block.json.         *)
(*                                                                         *)
(* A document is an id and the value of its one indexed field.  Each       *)
(* client runs one operation at a time, and a step of it reads or changes  *)
(* what other goroutines see once.  Documents are small: each is indexed,  *)
(* stored whole and fits a write batch of one transaction.                 *)
(***************************************************************************)
EXTENDS Integers, FiniteSets

CONSTANTS
  Clients,     \* goroutines that serve commands
  Ids,         \* document ids
  Vals,        \* values of the indexed field
  Shards,      \* the shards of the block
  ShardOf,     \* shardMgr.GetShardForDoc
  NoVal,       \* no document, no entry
  FlexEnabled, \* config.FlexColumn.Enabled
  LazyIndex,   \* config.LazyIndexLoading
  Failures,    \* whether log writes and commits may fail
  Commands,    \* the commands clients send
  MaxOps,      \* commands of a behaviour (bounds the model)
  MaxRestarts  \* restarts of a behaviour (bounds the model)

ASSUME ConstantsAssumption ==
  /\ IsFiniteSet(Ids) /\ NoVal \notin Vals /\ ShardOf \in [Ids -> Shards]
  /\ {FlexEnabled, LazyIndex, Failures} \subseteq BOOLEAN
  /\ MaxOps \in Nat /\ MaxRestarts \in Nat
  /\ Shards \cap {"block", "all"} = {}

VARIABLES
  docs,     \* what Badger holds: a value for each id, NoVal for none
  index,    \* the values each id is indexed under in Badger
  l1,       \* the L1 cache
  l2,       \* the L2 cache: a lookup's ids and total for each value
  flex,     \* the values each id is indexed under in FLEX-COLUMN
  flexLast, \* docFields: the value FLEX-COLUMN would remove
  feed,     \* what a subscriber that applies the change feed holds
  count,    \* doc_count in block.json
  whole,    \* block.json is not cut short by a save that has begun
  task,     \* the operation each client is in
  excuse,   \* why the copies of an id may be wrong
  clash,    \* two operations under different locks met in block.json
  ops, restarts

badgerVars == <<docs, index>>
flexVars == <<flex, flexLast>>
memVars == <<l1, l2, flexVars, feed>>
metaVars == <<count, whole>>
ghosts == <<excuse, clash>>
vars == <<badgerVars, memVars, metaVars, task, ghosts, ops, restarts>>

Writers == {"insert", "batch", "update", "delete"}
Readers == {"get", "find", "count"}
Entry == [ids : SUBSET Ids, total : Nat]
NoEntry == [ids |-> {}, total |-> -1]
NoDocs == [i \in Ids |-> NoVal]

(* Where an operation is: the documents it writes (ids) and with what      *)
(* (put), its filter, what is left to do, what it has shown in the copies, *)
(* what its transaction has read and whether that was written since, the   *)
(* count it loaded, the ids written while it reads, and what it found.     *)
Idle ==
  [op |-> "none", pc |-> "idle", ids |-> {}, put |-> NoDocs, val |-> NoVal,
   todo |-> {}, shown |-> {}, reads |-> {}, torn |-> FALSE, base |-> 0,
   moved |-> {}, src |-> "none", got |-> {}]

-----------------------------------------------------------------------------
(* Locks, transactions and what an operation does to the others *)

(* The key each writer locks: an insert locks a shard, a batch the block,  *)
(* and an update or a delete the key of the empty shard.                   *)
LockKeys(op, ids) ==
  IF op = "insert" THEN {ShardOf[i] : i \in ids}
  ELSE IF op = "batch" THEN {"block"} ELSE {"all"}

Holds(t) ==
  IF t.op \in Writers THEN LockKeys(t.op, t.ids) ELSE {}

(* Find holds the block's read lock from its index lookup to its end.      *)
HoldsRead(t) ==
  /\ t.op = "find"
  /\ \/ t.pc \in {"lookup", "seek", "keep", "scan"}
     \/ t.pc \in {"fetch", "fill"} /\ t.src # "flex"

(* Bug: an insert locks nothing.                                           *)
FreeForInserts(op, ids) ==
  \/ op = "insert"
  \/ \A d \in Clients : /\ Holds(task[d]) \cap LockKeys(op, ids) = {}
                        /\ op = "batch" => ~HoldsRead(task[d])

(* Bug: the batch goes on without the block's lock.                        *)
FreeForBatches(op, ids) ==
  \/ op = "batch"
  \/ \A d \in Clients : Holds(task[d]) \cap LockKeys(op, ids) = {}

Free(op, ids) ==
  \A d \in Clients : /\ Holds(task[d]) \cap LockKeys(op, ids) = {}
                     /\ op = "batch" => ~HoldsRead(task[d])

(* Client c goes to t and has written these documents: an open update that *)
(* read one of them will not commit, and readers learn what moves.         *)
Shift(c, t, written) ==
  [d \in Clients |->
     IF d = c THEN t
     ELSE [task[d] EXCEPT
             !.moved = IF task[d].op \in Readers THEN @ \cup t.ids ELSE @,
             !.torn = @ \/ (task[d].op = "update" /\ task[d].reads \cap written # {})]]

Step(c, t) == task' = Shift(c, t, {})

Excused(ids, why) == [i \in Ids |-> IF i \in ids THEN excuse[i] \cup {why} ELSE excuse[i]]

(* The documents that another writer, under another key, is busy with.     *)
Crossed(c, op, ids) ==
  {i \in ids : \E d \in Clients \ {c} :
     i \in task[d].ids /\ Holds(task[d]) # LockKeys(op, ids)}

CanStart(c) == task[c] = Idle /\ ops < MaxOps /\ ops' = ops + 1

L1Set(i, v) == l1' = [l1 EXCEPT ![i] = v]

L2Set(v, entry) == l2' = [l2 EXCEPT ![v] = entry]

L1Del(i) == l1' = [l1 EXCEPT ![i] = NoVal]

(* InsertWithColumnar adds, and does not take an earlier value away.       *)
FlexInsert(i, v) ==
  IF FlexEnabled
  THEN /\ flex' = [flex EXCEPT ![i] = @ \cup {v}]
       /\ flexLast' = [flexLast EXCEPT ![i] = v]
  ELSE UNCHANGED flexVars

(* Bug: the document is indexed under its new value and its old one stays. *)
FlexUpdateAdds(i, v) == FlexInsert(i, v)

FlexUpdate(i, v) ==
  IF FlexEnabled
  THEN /\ flex' = [flex EXCEPT ![i] = (@ \ {flexLast[i]}) \cup {v}]
       /\ flexLast' = [flexLast EXCEPT ![i] = v]
  ELSE UNCHANGED flexVars

FlexDelete(i) ==
  IF FlexEnabled
  THEN /\ flex' = [flex EXCEPT ![i] = @ \ {flexLast[i]}]
       /\ flexLast' = [flexLast EXCEPT ![i] = NoVal]
  ELSE UNCHANGED flexVars

-----------------------------------------------------------------------------
(* Inserts: insertWithIDLocal and insertBatchLocalDetailed *)

(* The shard is locked, the log has the entry and the document is in       *)
(* Badger; the set reads nothing, so the commit meets no conflict.         *)
Insert(c, i, v) ==
  /\ CanStart(c) /\ Free("insert", {i})
  /\ docs' = [docs EXCEPT ![i] = v]
  /\ task' = Shift(c, [Idle EXCEPT !.op = "insert", !.pc = "index", !.ids = {i}, !.todo = {i},
                                   !.put = [NoDocs EXCEPT ![i] = v]], {i})
  /\ excuse' = [Excused(Crossed(c, "insert", {i}), "crossed") EXCEPT
                  ![i] = IF docs[i] \in {NoVal, v} THEN @ ELSE @ \cup {"overwritten"}]
  /\ UNCHANGED <<index, memVars, metaVars, clash, restarts>>

(* The log, or Badger, refuses an insert or a batch before it shows.       *)
Refused(c) ==
  /\ Failures /\ CanStart(c)
  /\ UNCHANGED <<badgerVars, memVars, metaVars, task, ghosts, restarts>>

(* buildSecondaryIndex, in a transaction of its own.                       *)
InsertIndex(c) ==
  /\ task[c].pc = "index"
  /\ index' = [i \in Ids |-> IF i \in task[c].ids THEN index[i] \cup {task[c].put[i]} ELSE index[i]]
  /\ Step(c, [task[c] EXCEPT !.pc = "cache"])
  /\ UNCHANGED <<docs, memVars, metaVars, ghosts, ops, restarts>>

(* The transaction fails: insertWithIDLocal logs that and goes on.         *)
InsertIndexFails(c) ==
  /\ Failures /\ task[c].pc = "index"
  /\ Step(c, [task[c] EXCEPT !.pc = "cache"])
  /\ excuse' = Excused(task[c].ids, "unindexed")
  /\ UNCHANGED <<badgerVars, memVars, metaVars, clash, ops, restarts>>

Batch(c, put) ==
  LET ids == {i \in Ids : put[i] # NoVal} IN
  /\ CanStart(c) /\ ids # {} /\ Free("batch", ids)
  /\ Step(c, [Idle EXCEPT !.op = "batch", !.pc = "cache", !.ids = ids, !.todo = ids, !.put = put])
  /\ excuse' = Excused(Crossed(c, "batch", ids), "crossed")
  /\ UNCHANGED <<badgerVars, memVars, metaVars, clash, restarts>>

(* A batch fills the cache document by document before its Flush; an       *)
(* insert does after its commit.                                           *)
CacheInsert(c, i) ==
  /\ task[c].pc = "cache" /\ i \in task[c].todo
  /\ L1Set(i, task[c].put[i])
  /\ Step(c, [task[c] EXCEPT
       !.todo = @ \ {i},
       !.pc = IF task[c].todo # {i} THEN "cache"
              ELSE IF task[c].op = "insert" THEN "load" ELSE "flush"])
  /\ UNCHANGED <<badgerVars, l2, flexVars, feed, metaVars, ghosts, ops, restarts>>

Replaces(t) == {i \in t.ids : docs[i] \notin {NoVal, t.put[i]}}

(* The write batch holds the documents and their index entries.            *)
Stored(t, ids) ==
  /\ docs' = [i \in Ids |-> IF i \in ids THEN t.put[i] ELSE docs[i]]
  /\ index' = [i \in Ids |-> IF i \in ids THEN index[i] \cup {t.put[i]} ELSE index[i]]

BatchFlush(c) ==
  /\ task[c].pc = "flush"
  /\ Stored(task[c], task[c].ids)
  /\ task' = Shift(c, [task[c] EXCEPT !.pc = "load"], task[c].ids)
  /\ excuse' = Excused(Replaces(task[c]), "overwritten")
  /\ UNCHANGED <<memVars, metaVars, clash, ops, restarts>>

(* A chunk fails: those before it stay, and nothing else is told of them.  *)
BatchFlushFails(c, stored) ==
  /\ Failures /\ task[c].pc = "flush"
  /\ stored \subseteq task[c].ids /\ stored # task[c].ids
  /\ Stored(task[c], stored)
  /\ task' = Shift(c, Idle, stored)
  /\ excuse' = Excused(task[c].ids, "undone")
  /\ UNCHANGED <<memVars, metaVars, clash, ops, restarts>>

(* The feed and FLEX-COLUMN come last, after the count.                    *)
Tell(c, i) ==
  /\ task[c].pc = "tell" /\ i \in task[c].todo
  /\ feed' = [feed EXCEPT ![i] = task[c].put[i]]
  /\ FlexInsert(i, task[c].put[i])
  /\ Step(c, IF task[c].todo = {i} THEN Idle ELSE [task[c] EXCEPT !.todo = @ \ {i}])
  /\ UNCHANGED <<badgerVars, l1, l2, metaVars, ghosts, ops, restarts>>

-----------------------------------------------------------------------------
(* block.json: EnsureBlockMeta loads it, SaveBlockMeta writes it back *)

(* updateLocal adds the number of updated documents to the count.          *)
Delta(t) ==
  IF t.op = "delete" THEN -Cardinality(t.shown)
  ELSE IF t.op = "update" THEN Cardinality(t.shown) ELSE Cardinality(t.ids)

(* Operations under other keys that have loaded the file and not saved it. *)
Meets(c) ==
  \E d \in Clients \ {c} : task[d].pc \in {"save", "write"} /\ Holds(task[d]) # Holds(task[c])

(* A file that is cut short does not parse: it is rebuilt, with no count.  *)
LoadCount(c) ==
  /\ task[c].pc = "load"
  /\ count' = IF whole THEN count ELSE 0
  /\ whole' = TRUE
  /\ Step(c, [task[c] EXCEPT !.pc = "save", !.base = count'])
  /\ clash' = (clash \/ Meets(c))
  /\ UNCHANGED <<badgerVars, memVars, excuse, ops, restarts>>

(* os.WriteFile empties the file before it writes it.                      *)
SaveBegins(c) ==
  /\ task[c].pc = "save"
  /\ whole' = FALSE
  /\ Step(c, [task[c] EXCEPT !.pc = "write"])
  /\ UNCHANGED <<badgerVars, memVars, count, ghosts, ops, restarts>>

AfterSave(c) ==
  Step(c, IF task[c].op \in {"insert", "batch"}
          THEN [task[c] EXCEPT !.pc = "tell", !.todo = task[c].ids, !.base = 0]
          ELSE Idle)

SaveCount(c) ==
  /\ task[c].pc = "write"
  /\ count' = task[c].base + Delta(task[c])
  /\ whole' = TRUE
  /\ AfterSave(c)
  /\ UNCHANGED <<badgerVars, memVars, ghosts, ops, restarts>>

(* Nobody looks at the error of SaveBlockMeta.                             *)
SaveFails(c) ==
  /\ Failures /\ task[c].pc \in {"save", "write"}
  /\ AfterSave(c)
  /\ UNCHANGED <<badgerVars, memVars, metaVars, ghosts, ops, restarts>>

-----------------------------------------------------------------------------
(* updateLocal *)

Matching(v) == {i \in Ids : docs[i] = v}

(* What the log takes of the matching documents: all, unless it fails.     *)
Logged(v) == IF Failures THEN SUBSET Matching(v) ELSE {Matching(v)}

(* The transaction's snapshot: it iterates over every document.            *)
UpdateStart(c, v, w, ids) ==
  /\ CanStart(c) /\ ids \in Logged(v) /\ Free("update", ids)
  /\ Step(c, [Idle EXCEPT !.op = "update", !.pc = "show", !.ids = ids, !.todo = ids, !.val = v,
                !.put = [i \in Ids |-> IF i \in ids THEN w ELSE NoVal],
                !.reads = {i \in Ids : docs[i] # NoVal}])
  /\ excuse' = Excused(Crossed(c, "update", ids), "crossed")
  /\ UNCHANGED <<badgerVars, memVars, metaVars, clash, restarts>>

(* FLEX-COLUMN, the cache and the feed have each new document before the   *)
(* transaction commits.                                                    *)
UpdateShow(c, i) ==
  /\ task[c].pc = "show" /\ task[c].op = "update" /\ i \in task[c].todo
  /\ FlexUpdate(i, task[c].put[i])
  /\ L1Set(i, task[c].put[i])
  /\ feed' = [feed EXCEPT ![i] = task[c].put[i]]
  /\ Step(c, [task[c] EXCEPT !.todo = @ \ {i}, !.shown = @ \cup {i}])
  /\ UNCHANGED <<badgerVars, l2, metaVars, ghosts, ops, restarts>>

(* Bug: the new entry is built before the old one is dropped.              *)
ReindexedLate(i, t) == (index[i] \cup {t.put[i]}) \ {t.val}

Reindexed(i, t) == (index[i] \ {t.val}) \cup {t.put[i]}

(* Bug: Badger is opened without conflict detection.                       *)
NeverConflicts(t) == FALSE

(* Badger refuses a transaction that writes when something it read has     *)
(* been written since.                                                     *)
Conflicts(t) == t.torn /\ t.ids # {}

(* Past the transaction, the count changes with what was shown.            *)
AfterUpdate(c, written) ==
  task' = Shift(c, IF task[c].shown = {} THEN Idle ELSE [task[c] EXCEPT !.pc = "load"], written)

UpdateCommit(c) ==
  /\ task[c].op = "update" /\ task[c].pc = "show" /\ task[c].todo = {}
  /\ ~Conflicts(task[c])
  /\ docs' = [i \in Ids |-> IF i \in task[c].ids THEN task[c].put[i] ELSE docs[i]]
  /\ index' = [i \in Ids |-> IF i \in task[c].ids THEN Reindexed(i, task[c]) ELSE index[i]]
  /\ AfterUpdate(c, task[c].ids)
  /\ UNCHANGED <<memVars, metaVars, ghosts, ops, restarts>>

(* A conflict at the commit, or a set that the transaction has no room     *)
(* for: updateLocal has shown documents that Badger does not hold.         *)
UpdateFails(c) ==
  /\ task[c].op = "update" /\ task[c].pc = "show" /\ task[c].ids # {}
  /\ \/ task[c].todo = {} /\ Conflicts(task[c])
     \/ Failures
  /\ excuse' = Excused(task[c].shown, "undone")
  /\ AfterUpdate(c, {})
  /\ UNCHANGED <<badgerVars, memVars, metaVars, clash, ops, restarts>>

-----------------------------------------------------------------------------
(* deleteLocal: a read transaction finds the documents, another one later  *)
(* removes them and reads nothing                                          *)

DeleteStart(c, v, ids) ==
  /\ CanStart(c) /\ ids \in Logged(v) /\ Free("delete", ids)
  /\ Step(c, [Idle EXCEPT !.op = "delete", !.pc = "unflex", !.ids = ids, !.todo = ids, !.val = v])
  /\ excuse' = Excused(Crossed(c, "delete", ids), "crossed")
  /\ UNCHANGED <<badgerVars, memVars, metaVars, clash, restarts>>

DeleteFlex(c, i) ==
  /\ task[c].pc = "unflex" /\ i \in task[c].todo
  /\ FlexDelete(i)
  /\ Step(c, [task[c] EXCEPT !.todo = @ \ {i}])
  /\ UNCHANGED <<badgerVars, l1, l2, feed, metaVars, ghosts, ops, restarts>>

DeleteFound(c) ==
  /\ task[c].pc = "unflex" /\ task[c].todo = {}
  /\ Step(c, IF task[c].ids = {} THEN Idle
             ELSE [task[c] EXCEPT !.pc = "show", !.todo = task[c].ids])
  /\ UNCHANGED <<badgerVars, memVars, metaVars, ghosts, ops, restarts>>

(* Bug: the cache keeps what is deleted.                                   *)
DeleteShowFeedOnly(c, i) ==
  /\ task[c].pc = "show" /\ task[c].op = "delete" /\ i \in task[c].todo
  /\ feed' = [feed EXCEPT ![i] = NoVal]
  /\ Step(c, [task[c] EXCEPT !.todo = @ \ {i}, !.shown = @ \cup {i}])
  /\ UNCHANGED <<badgerVars, l1, l2, flexVars, metaVars, ghosts, ops, restarts>>

DeleteShow(c, i) ==
  /\ task[c].pc = "show" /\ task[c].op = "delete" /\ i \in task[c].todo
  /\ L1Del(i)
  /\ feed' = [feed EXCEPT ![i] = NoVal]
  /\ Step(c, [task[c] EXCEPT !.todo = @ \ {i}, !.shown = @ \cup {i}])
  /\ UNCHANGED <<badgerVars, l2, flexVars, metaVars, ghosts, ops, restarts>>

(* The index keys are those of the values the filter met.                  *)
DeleteCommit(c) ==
  /\ task[c].op = "delete" /\ task[c].pc = "show" /\ task[c].todo = {}
  /\ docs' = [i \in Ids |-> IF i \in task[c].ids THEN NoVal ELSE docs[i]]
  /\ index' = [i \in Ids |-> IF i \in task[c].ids THEN index[i] \ {task[c].val} ELSE index[i]]
  /\ task' = Shift(c, [task[c] EXCEPT !.pc = "load"], task[c].ids)
  /\ UNCHANGED <<memVars, metaVars, ghosts, ops, restarts>>

DeleteFails(c) ==
  /\ Failures /\ task[c].op = "delete" /\ task[c].pc = "show"
  /\ excuse' = Excused(task[c].ids, "undone")
  /\ Step(c, Idle)
  /\ UNCHANGED <<badgerVars, memVars, metaVars, clash, ops, restarts>>

-----------------------------------------------------------------------------
(* FindByID, Find and Count *)

Moving == UNION {task[d].ids : d \in Clients}

Reading(op, pc, v) == [Idle EXCEPT !.op = op, !.pc = pc, !.val = v, !.moved = Moving]

Get(c, i) ==
  /\ CanStart(c)
  /\ Step(c, [Reading("get", "fetch", NoVal) EXCEPT !.todo = {i}])
  /\ UNCHANGED <<badgerVars, memVars, metaVars, ghosts, restarts>>

FlexIds(v) == {i \in Ids : v \in flex[i]}

(* A query whose only filter is an equality asks FLEX-COLUMN first.        *)
Find(c, v, alone) ==
  /\ CanStart(c)
  /\ Step(c, IF alone /\ FlexIds(v) # {}
             THEN [Reading("find", "fetch", v) EXCEPT !.todo = FlexIds(v), !.src = "flex"]
             ELSE Reading("find", "lock", v))
  /\ UNCHANGED <<badgerVars, memVars, metaVars, ghosts, restarts>>

Count(c, v) ==
  /\ CanStart(c)
  /\ Step(c, Reading("count", "lookup", v))
  /\ UNCHANGED <<badgerVars, memVars, metaVars, ghosts, restarts>>

FindLocks(c) ==
  /\ task[c].pc = "lock"
  /\ \A d \in Clients : "block" \notin Holds(task[d])
  /\ Step(c, [task[c] EXCEPT !.pc = "lookup", !.src = "none"])
  /\ UNCHANGED <<badgerVars, memVars, metaVars, ghosts, ops, restarts>>

(* What the operation does with the ids of an index lookup: Count answers  *)
(* with the total, and a Find without ids scans the block.                 *)
Looked(t, ids, total, src) ==
  IF t.op = "count" THEN [t EXCEPT !.pc = "done", !.base = total, !.src = src, !.todo = {}]
  ELSE IF ids = {} THEN [t EXCEPT !.pc = "scan", !.todo = {}]
  ELSE [t EXCEPT !.pc = "fetch", !.todo = ids, !.src = src]

LookupCached(c) ==
  /\ task[c].pc = "lookup" /\ l2[task[c].val] # NoEntry
  /\ Step(c, Looked(task[c], l2[task[c].val].ids, l2[task[c].val].total, "l2"))
  /\ UNCHANGED <<badgerVars, memVars, metaVars, ghosts, ops, restarts>>

(* With lazy loading the cache is given an empty result first.             *)
LookupMisses(c) ==
  /\ task[c].pc = "lookup" /\ l2[task[c].val] = NoEntry
  /\ IF LazyIndex THEN L2Set(task[c].val, [ids |-> {}, total |-> 0]) ELSE UNCHANGED l2
  /\ Step(c, [task[c] EXCEPT !.pc = "seek"])
  /\ UNCHANGED <<badgerVars, l1, flexVars, feed, metaVars, ghosts, ops, restarts>>

(* Bug: Find asks for a page of one as well.                               *)
SmallPage(t, ids) ==
  {page \in SUBSET ids : Cardinality(page) = IF ids = {} THEN 0 ELSE 1}

(* A page of the ids: Count's is of one, Find's takes them all.            *)
Page(t, ids) ==
  {page \in SUBSET ids :
     Cardinality(page) = IF t.op = "count" /\ ids # {} THEN 1 ELSE Cardinality(ids)}

Indexed(v) == {i \in Ids : v \in index[i]}

Seek(c, page) ==
  /\ task[c].pc = "seek" /\ page \in Page(task[c], Indexed(task[c].val))
  /\ Step(c, [task[c] EXCEPT !.pc = "keep", !.todo = page,
                             !.base = Cardinality(Indexed(task[c].val))])
  /\ UNCHANGED <<badgerVars, memVars, metaVars, ghosts, ops, restarts>>

Keep(c) ==
  /\ task[c].pc = "keep"
  /\ L2Set(task[c].val, [ids |-> task[c].todo, total |-> task[c].base])
  /\ Step(c, Looked([task[c] EXCEPT !.base = 0], task[c].todo, task[c].base, "index"))
  /\ UNCHANGED <<badgerVars, l1, flexVars, feed, metaVars, ghosts, ops, restarts>>

Scan(c) ==
  /\ task[c].pc = "scan"
  /\ Step(c, [task[c] EXCEPT !.pc = "done", !.src = "scan",
                             !.got = {<<i, docs[i]>> : i \in Matching(task[c].val)}])
  /\ UNCHANGED <<badgerVars, memVars, metaVars, ghosts, ops, restarts>>

(* A document comes from the cache, or from Badger and then goes into it.  *)
Fetch(c, i) ==
  /\ task[c].pc = "fetch" /\ i \in task[c].todo
  /\ Step(c, IF l1[i] # NoVal
             THEN [task[c] EXCEPT !.todo = @ \ {i}, !.got = @ \cup {<<i, l1[i]>>}]
             ELSE IF docs[i] = NoVal THEN [task[c] EXCEPT !.todo = @ \ {i}]
             ELSE [task[c] EXCEPT !.todo = @ \ {i}, !.pc = "fill", !.put[i] = docs[i]])
  /\ UNCHANGED <<badgerVars, memVars, metaVars, ghosts, ops, restarts>>

(* An operation that has been to the cache and has not committed.          *)
Ahead(t, i) ==
  \/ t.pc = "show" /\ i \in t.shown
  \/ t.op = "batch" /\ t.pc \in {"cache", "flush"} /\ i \in t.ids \ t.todo

(* The fill is late when the document has changed since it was read or is  *)
(* about to, by an operation that has already been to the cache.           *)
Late(c, i) ==
  \/ docs[i] # task[c].put[i]
  \/ \E d \in Clients : Ahead(task[d], i)

Fill(c, i) ==
  /\ task[c].pc = "fill" /\ task[c].put[i] # NoVal
  /\ L1Set(i, task[c].put[i])
  /\ excuse' = IF Late(c, i) THEN Excused({i}, "lateFill") ELSE excuse
  /\ Step(c, [task[c] EXCEPT !.pc = "fetch", !.put = NoDocs,
                             !.got = @ \cup {<<i, task[c].put[i]>>}])
  /\ UNCHANGED <<badgerVars, l2, flexVars, feed, metaVars, clash, ops, restarts>>

(* Find checks the filter again on what the index gave, but not on what    *)
(* FLEX-COLUMN gave; if that is nothing, it goes on with the index.        *)
Fetched(c) ==
  LET t == task[c] IN
  /\ t.pc = "fetch" /\ t.todo = {}
  /\ Step(c, IF t.src = "flex" /\ t.got = {} THEN [t EXCEPT !.pc = "lock", !.src = "none"]
             ELSE [t EXCEPT !.pc = "done",
                            !.got = IF t.src \in {"index", "l2"} THEN {g \in @ : g[2] = t.val} ELSE @])
  /\ UNCHANGED <<badgerVars, memVars, metaVars, ghosts, ops, restarts>>

Return(c) ==
  /\ task[c].pc = "done"
  /\ Step(c, Idle)
  /\ UNCHANGED <<badgerVars, memVars, metaVars, ghosts, ops, restarts>>

-----------------------------------------------------------------------------
(* Eviction, expiry and restart *)

(* Ristretto may evict an entry at any time; an eviction right after a set *)
(* is also how a set that Ristretto turns away looks.                      *)
EvictL1(i) ==
  /\ l1[i] # NoVal /\ L1Del(i)
  /\ UNCHANGED <<badgerVars, l2, flexVars, feed, metaVars, task, ghosts, ops, restarts>>

EvictL2(v) ==
  /\ l2[v] # NoEntry /\ l2' = [l2 EXCEPT ![v] = NoEntry]
  /\ UNCHANGED <<badgerVars, l1, flexVars, feed, metaVars, task, ghosts, ops, restarts>>

(* A clean restart: nothing rebuilds FLEX-COLUMN, and subscribers start    *)
(* over from the documents.                                                *)
Restart ==
  /\ \A c \in Clients : task[c] = Idle
  /\ restarts < MaxRestarts /\ restarts' = restarts + 1
  /\ l1' = NoDocs /\ l2' = [v \in Vals |-> NoEntry]
  /\ flex' = [i \in Ids |-> {}] /\ flexLast' = NoDocs
  /\ feed' = docs
  /\ excuse' = Excused({i \in Ids : FlexEnabled /\ docs[i] # NoVal}, "restarted")
  /\ UNCHANGED <<badgerVars, metaVars, task, clash, ops>>

-----------------------------------------------------------------------------
Init ==
  /\ docs \in [Ids -> Vals \cup {NoVal}]
  /\ index = [i \in Ids |-> {docs[i]} \ {NoVal}]
  /\ l1 \in {m \in [Ids -> Vals \cup {NoVal}] : \A i \in Ids : m[i] \in {NoVal, docs[i]}}
  /\ l2 = [v \in Vals |-> NoEntry]
  /\ flex = [i \in Ids |-> IF FlexEnabled THEN {docs[i]} \ {NoVal} ELSE {}]
  /\ flexLast = IF FlexEnabled THEN docs ELSE NoDocs
  /\ feed = docs
  /\ count = Cardinality({i \in Ids : docs[i] # NoVal}) /\ whole = TRUE
  /\ task = [c \in Clients |-> Idle]
  /\ excuse = [i \in Ids |-> {}] /\ clash = FALSE
  /\ ops = 0 /\ restarts = 0

Start(c) ==
  \/ "insert" \in Commands /\ \E i \in Ids, v \in Vals : Insert(c, i, v)
  \/ "batch" \in Commands /\ \E put \in [Ids -> Vals \cup {NoVal}] : Batch(c, put)
  \/ "update" \in Commands /\ \E v, w \in Vals, ids \in SUBSET Ids : UpdateStart(c, v, w, ids)
  \/ "delete" \in Commands /\ \E v \in Vals, ids \in SUBSET Ids : DeleteStart(c, v, ids)
  \/ "get" \in Commands /\ \E i \in Ids : Get(c, i)
  \/ "find" \in Commands /\ \E v \in Vals, alone \in BOOLEAN : Find(c, v, alone)
  \/ "count" \in Commands /\ \E v \in Vals : Count(c, v)
  \/ Refused(c)

WriteStep(c) ==
  \/ InsertIndex(c) \/ InsertIndexFails(c)
  \/ BatchFlush(c) \/ \E stored \in SUBSET Ids : BatchFlushFails(c, stored)
  \/ LoadCount(c) \/ SaveBegins(c) \/ SaveCount(c) \/ SaveFails(c)
  \/ UpdateCommit(c) \/ UpdateFails(c)
  \/ DeleteFound(c) \/ DeleteCommit(c) \/ DeleteFails(c)
  \/ \E i \in Ids : CacheInsert(c, i) \/ Tell(c, i) \/ UpdateShow(c, i) \/ DeleteFlex(c, i) \/ DeleteShow(c, i)

ReadStep(c) ==
  \/ FindLocks(c) \/ LookupCached(c) \/ LookupMisses(c)
  \/ \E page \in SUBSET Ids : Seek(c, page)
  \/ Keep(c) \/ Scan(c) \/ Fetched(c) \/ Return(c)
  \/ \E i \in Ids : Fetch(c, i) \/ Fill(c, i)

Next ==
  \/ \E c \in Clients : Start(c) \/ WriteStep(c) \/ ReadStep(c)
  \/ \E i \in Ids : EvictL1(i)
  \/ \E v \in Vals : EvictL2(v)
  \/ Restart

Spec == Init /\ [][Next]_vars

-----------------------------------------------------------------------------
Causes == {"unindexed", "crossed", "undone", "overwritten", "lateFill", "restarted"}
Pcs == {"idle", "index", "cache", "flush", "load", "save", "write", "tell", "show", "unflex",
        "lock", "lookup", "seek", "keep", "scan", "fetch", "fill", "done"}
Task ==
  [op : Writers \cup Readers \cup {"none"}, pc : Pcs,
   ids : SUBSET Ids, put : [Ids -> Vals \cup {NoVal}], val : Vals \cup {NoVal},
   todo : SUBSET Ids, shown : SUBSET Ids, reads : SUBSET Ids, torn : BOOLEAN, base : Int,
   moved : SUBSET Ids, src : {"none", "flex", "l2", "index", "scan"},
   got : SUBSET (Ids \X Vals)]

(* What the variables range over.                                          *)
TypeOK ==
  /\ docs \in [Ids -> Vals \cup {NoVal}] /\ index \in [Ids -> SUBSET Vals]
  /\ l1 \in [Ids -> Vals \cup {NoVal}] /\ l2 \in [Vals -> Entry \cup {NoEntry}]
  /\ flex \in [Ids -> SUBSET Vals] /\ flexLast \in [Ids -> Vals \cup {NoVal}]
  /\ feed \in [Ids -> Vals \cup {NoVal}] /\ count \in Int /\ whole \in BOOLEAN
  /\ task \in [Clients -> Task]
  /\ excuse \in [Ids -> SUBSET Causes] /\ clash \in BOOLEAN
  /\ ops \in 0..MaxOps /\ restarts \in 0..MaxRestarts

(* The secondary index misses no document, except those of an insert that  *)
(* is between its commit and the transaction that builds its entries, or   *)
(* whose transaction failed: the four writers keep this although they lock *)
(* different keys.                                                         *)
IndexCovers ==
  \A i \in Ids :
    docs[i] # NoVal /\ "unindexed" \notin excuse[i] =>
      \/ docs[i] \in index[i]
      \/ \E c \in Clients : task[c].pc = "index" /\ i \in task[c].ids /\ task[c].put[i] = docs[i]

(* An update changes documents that its filter matches when it commits,    *)
(* whatever was inserted or deleted since it read them.                    *)
UpdatesTakeMatching ==
  [][\A c \in Clients, i \in Ids :
       /\ task[c].op = "update" /\ task[c].pc = "show" /\ task'[c].pc # "show"
       /\ docs'[i] # docs[i]
       => docs[i] = task[c].val]_vars

Settled(i) == \A c \in Clients : i \notin task[c].ids

(* When no writer is busy with a document, the L1 cache has it as Badger   *)
(* does or not at all, except after a reader filled the cache late, after  *)
(* writers under different locks overlapped, and after a failed commit.    *)
CacheAgrees ==
  \A i \in Ids : Settled(i) /\ excuse[i] \cap {"lateFill", "crossed", "undone"} = {} =>
    l1[i] \in {NoVal, docs[i]}

(* A subscriber that applies the change feed has what Badger has, except   *)
(* after overlapping writers and failed commits.                           *)
FeedAgrees ==
  \A i \in Ids : Settled(i) /\ excuse[i] \cap {"crossed", "undone"} = {} =>
    feed[i] = docs[i]

(* FLEX-COLUMN has each document under its value and no other, except      *)
(* where an insert replaced a document, after a restart, after overlapping *)
(* writers and failed commits.                                             *)
FlexAgrees ==
  FlexEnabled =>
    \A i \in Ids : Settled(i) /\ excuse[i] \subseteq {"lateFill", "unindexed"} =>
      flex[i] = {docs[i]} \ {NoVal}

(* A Find that does not answer from the L2 cache finds a document exactly  *)
(* when it matches, if nobody wrote it meanwhile and nothing excuses its   *)
(* copies.                                                                 *)
FindExact ==
  \A c \in Clients :
    task[c].op = "find" /\ task[c].pc = "done" /\ task[c].src # "l2" =>
      \A i \in Ids \ task[c].moved :
        excuse[i] = {} => (docs[i] = task[c].val <=> \E g \in task[c].got : g[1] = i)

(* Operations under one lock do not lose each other's counts: who is about *)
(* to save the count has loaded what is there, unless operations under     *)
(* different locks have met.                                               *)
CountIsFresh ==
  \A c \in Clients : task[c].pc = "save" => clash \/ task[c].base = count
=============================================================================
