# CaimanDB in TLA+

A verification project for CaimanDB, a document database in Go: a single
process (optionally a Raft node) that keeps each collection ("block") in a
Badger store, logs writes to its own write-ahead log (WAL), groups inserts
("turbo"), caches documents and index lookups, and serves NQL commands from a
REPL and over HTTP.  Paths below are relative to `src/internal/caimandb/`
unless they start with `src/`.

Sections: 1 inventory, 2 modules, 3 runs, 4 bounds, 5 fairness, 6 proofs,
7 what is not modelled, 8 plan.

## 1. Inventory

How a write travels: a command (`cmd_*.go`) or HTTP request (`http_query.go`)
calls `Engine.Insert` / `InsertFast` / `InsertBatch` / `Update` / `Delete`
(`ops_*.go`).  On a Raft leader with peers these go through `raft.Apply`;
everywhere else they call the local functions of `ops_local.go` and
`ops_insert.go`, which take a lock of `lockManager`, write the WAL, commit to
Badger, and update the secondary index, FLEX-COLUMN, the L1 cache, the block's
metadata file and the change bus.  Background loops (checkpoint, maintenance,
cleanup) run beside them on the same structures.

| Component | State | Operations | What is hard | What makes it correct |
|---|---|---|---|---|
| WAL (`wal/wal.go`) | segment files, current writer, `dirtyBytes`, policy, `writeChan`, `.clean` marker | `Write`, `WriteBatch`, `writeLoop`, `flushBatch`, `rotate`, `Sync`, `SetSyncPolicy`, `RotateAndPruneFresh`, `ReadAll`, `Close` | callers, `writeLoop`, checkpoint and `Close` interleave; disk errors; policy read before the flush it decides | success means written, and stable under WALSyncAlways; every caller is answered; the marker means nothing is left to write |
| Recovery and checkpoint (`wal_recovery.go`, `checkpoint.go`, `engine_main.go`) | what is in the log, on disk and in Badger's buffers | `RecoverWAL`, `Checkpoint`, start, `Shutdown` | crash and power failure anywhere, also in recovery; segments deleted while a write is between log and commit | after a restart each document is as its last acknowledged write left it |
| Turbo batcher and bulk mode (`turbo/batcher.go`, `ops_turbo.go`, `turbo/bulkmode.go`) | forming batch, two timers, thresholds, running flushes; bulk flag, saved policy | `Submit`, `onTimer`, `runFlush`, `SetThresholds`, `SetBulkMode` | timers race with size flushes; answers cross goroutines; loads toggle a shared flag | each caller gets its own result, in bounded time; bulk mode leaves no trace |
| Turbo pool and scheduler (`turbo/pool.go`, `turbo/scheduler.go`) | job queue, worker count, busy keys | `Submit`, `rebalance`, idle exit, `Close` | check-then-act on the worker count; queued jobs dropped by `Close` | same key never runs twice at once; every task begins |
| Document write path (`ops_insert.go`, `ops_local.go`, `ops_update.go`, `ops_delete.go`, `locks.go`) | Badger documents, block metadata, caches | insert, batch, update, delete | three kinds of lock that do not exclude each other; cache and bus updated before the commit | document, index, cache and count agree when nothing runs |
| Read path (`ops_find.go`, `query_filter.go`, `query_optimizer.go`, `sort_utils.go`, `group_by.go`) | none of its own | find, search, paginate, aggregate | cache filled with what was read before a concurrent write | a query returns what the store holds |
| Caches (`cache/cache.go`) and indexes (`index_secondary.go`, `flexcolumn.go`) | L1 documents, L2 lookups, index keys, columns | get, set, invalidate, lazy build | L2 is never invalidated by writes; lazy index build races with writers | no lookup returns a document that does not match |
| Badger pool and storage (`storage/`) | open handles, memory budget, directories, metadata files | open, close, sync, tiers, repair | close or rename under a running request; metadata read-modify-write | one handle per path; budget returned on close |
| Transactions (`transaction.go`) | transaction table, mutations, lock shards | `Begin`, `Commit`, `Abort`, expiry | several lock shards taken in key order, not shard order; expiry against commit | all or nothing; no deadlock; locks balanced |
| Cluster (`cluster.go`, `raft_fsm.go`, `raft/raft_logstore.go`, `dist_query.go`) | Raft state, peers, discovery, FSM snapshot | join, leave, apply, restore, fan-out queries | membership changes, replayed log entries, log keys in text order | replicas apply the same operations; the log store returns what was stored |
| Shards (`shard_manager.go`) | shards, their nodes and primary, counters, cooldowns | count, scale, add or remove node, balance, fail over | `sm.mu` is not reentrant and is taken again by `BalanceShards` | calls return; an active shard has a live primary |
| Change stream and worker pool (`cluster/changestream.go`, `cluster/worker_pool.go`) | subscribers, replay ring, job queue | publish, subscribe, submit, close | slow subscribers; submit against close | a watcher gets every event it was there for, or the drop is counted |
| Access control (`users_auth.go`, `auth_jwt.go`, `roles.go`, `ratelimit.go`, `risk_engine.go`, `audit.go`) | users, attempts, tokens, buckets, audit queue | authenticate, lock out, refresh, allow | read-modify-write of the attempt counter; bucket created twice | the limits hold under concurrent requests |
| Administration (`ops_database.go`, `ops_block.go`, `ops_rename.go`, `block_rename_migration.go`, `block_repair.go`, `maintenance.go`, `ops_backup.go`, `ops_compact.go`, `server_manager.go`) | directories, registry file, rename marks | create, drop, rename, migrate, repair, compact, back up | several steps on disk with no log of their own; requests in between | acknowledged documents stay readable under the name they have |
| Import, export, relations, aggregation, views (`ops_bulk_import.go`, `ops_export.go`, `relations*.go`, `ops_aggregate.go`, `cmd_view.go`) | none or metadata | loads, joins, grouping | partial failure of a load | counts reported equal counts done |
| NQL and interfaces (`dsl_parser.go`, `parse/`, `query/`, `cmd_*.go`, `http_*.go`, `app.go`) | session | tokenise, parse, dispatch | precedence, two WHERE parsers | the same text means the same filter everywhere |
| Metrics, logging, configuration, help, CLI, drivers, UI | counters, files | | | outside the scope of this project |

## 2. Modules

**DurableLog** is what a writer of the log may rely on: a sequence that entries
enter at most once, a growing number of retired entries at its old end, and an
"ok" only for an entry that is in it.

**WalWriter** is one process lifetime of `wal/wal.go`.  Its record `w` is what
`w.mu` guards (segments with how much of each is synced, `dirty`, the policy,
and `handle`, since a `bufio.Writer` repeats its first error and a rotation
that failed leaves a closed file).  A stretch under `w.mu` is one step; between
stretches everything interleaves.

| Action | Code |
|---|---|
| `Send`, `RefuseSend`, `CallDirect`, `WriteDirect`, `TakeReply`, `GiveUp` | `Write` with and without streaming, `WriteBatch`; `GiveUp` is the `stopChan` case of the wait |
| `Receive`, `Timer`, `Tick`, `ReadPolicy`, `Flush`, `AnswerNext`, `Stop`, `StopEmpty` | `writeLoop` and `flushBatch`; the policy is read before the lock is taken, and answers go out one by one after it is released |
| `CloseBegin`, `CloseMark`, `CloseSync` | `Close`: stop the loop, write `.clean`, then flush and sync |
| `CheckpointSync`, `RotateAndPruneFresh`, `SetSyncPolicy` | the calls checkpoints and bulk mode make |

The refinement mapping to DurableLog concatenates the segments; `retired` is
the length of the ones before `w.first`.

**Durability** is the path of a write across process ends.  Of the WAL it keeps
files, their synced prefixes and the list `w.segments` (one `Write` is one step;
WalWriter has the goroutines behind it); of Badger it keeps `base`, which is on
stable storage, and `tail`, the commits after the last sync (Badger is opened
with `SyncWrites(false)`).

| Action | Code |
|---|---|
| `InsertLog`, `InsertCommit`, `InsertFails` | `insertWithIDLocal`, `insertBatchLocalDetailed` |
| `FilterBegin`, `LogDoc`, `SkipDoc`, `FilterCommit` | `updateLocal`, `deleteLocal`, with the Badger conflict an update can meet |
| `SyncAll`, `WalSync`, `Rotate`, `Prune` | `Checkpoint` |
| `WalClose`, `PoolClose` | `Engine.Shutdown`: the WAL is closed, with its marker, before Badger |
| `Kill`, `PowerLoss` | the process ends anywhere; a power failure also takes any unsynced suffix and may tear the entry at the cut |
| `Start`, `ReplayUpdate`, `ReplaySkip`, `ReplayLog`, `ReplayStore`, `RecoverRotate`, `RecoverPrune`, `Open` | `NewWAL`, `RecoverWAL`; recovery calls the same local functions, so it logs what it redoes |

`last`, `raced`, `pruned` and `excused` are history: the last commit of each
document, and the documents the code gives no guarantee for, each for a reason
named at its definition.

**Turbo** is the batcher of one block with the insert path behind it, and
`SetBulkMode`.  `fired` counts timer callbacks that were started and wait for
`b.mu`: `Stop` does not call them back, so a callback of an earlier batch can
take a later one.  The commit of a batch is one step, under the block's lock;
its outcomes are those of `insertBatchLocalDetailed`: documents refused in
preparation or by the write batch, the WAL refusing all, a chunk whose Flush
fails (the documents of that chunk and those after it are not stored and carry
no error), and a panic, which `runFlush` turns into an error for all.  A load
toggles bulk mode in four steps (flag, save the policy, relax it, thresholds);
GENERATE looks at the flag first.

**Block** is one block of documents under concurrent writers and readers: the
documents and the secondary index as Badger has them (`docs`, `index`), and the
copies the engine keeps: L1 and L2 cache, FLEX-COLUMN (`flex`, and `flexLast`
for `docFields`), the change feed (what a subscriber that applies every event
holds) and the count in `block.json`.  A client's operation is a record in
`task`; `pc` says how far it is.  One step of it reads or changes once what other
goroutines see.

| Action | Code |
|---|---|
| `Insert`, `InsertIndex`, `InsertIndexFails` | `insertWithIDLocal`: lock of the document's shard, commit, and the index entries in a second transaction whose failure is logged only |
| `Batch`, `CacheInsert`, `BatchFlush`, `BatchFlushFails` | `insertBatchLocalDetailed`: lock of the block, documents put into L1 one by one, the write batch; a chunk may fail after others are stored |
| `UpdateStart`, `UpdateShow`, `UpdateCommit`, `UpdateFails` | `updateLocal`: one transaction under the lock of the empty shard; FLEX-COLUMN, L1 and the feed change before the commit, which Badger refuses when a document the iterator met has been written since (`torn`) |
| `DeleteStart`, `DeleteFlex`, `DeleteFound`, `DeleteShow`, `DeleteCommit`, `DeleteFails` | `deleteLocal`: a read transaction finds the documents and takes them out of FLEX-COLUMN, a second one deletes keys and reads nothing |
| `LoadCount`, `SaveBegins`, `SaveCount`, `SaveFails` | `EnsureBlockMeta` and `SaveBlockMeta`: `os.WriteFile` empties the file first, a file that does not parse is rebuilt with no count, errors of a save are dropped |
| `Tell` | change feed and FLEX-COLUMN after an insert or a batch |
| `Find`, `FindLocks`, `LookupCached`, `LookupMisses`, `Seek`, `Keep`, `Scan`, `Fetch`, `Fill`, `Fetched`, `Return` | `Find`: FLEX-COLUMN first, then under the block's read lock the index through L2, or a scan; a document missing from L1 is read and put there later |
| `Get`, `Count` | `FindByID`; `Count` by the index, which stores a page of one id in L2 |
| `EvictL1`, `EvictL2`, `Restart` | Ristretto's eviction and expiry, also of what was just set; a start with empty caches and an empty FLEX-COLUMN |

`excuse` and `clash` are history, read by properties only.  An id gets a cause
when the code cannot keep its copies right: two writers under different locks had
it in hand at once (`crossed`), a commit failed after its copies were changed
(`undone`), an insert replaced a document with another value, whose index entries
nobody removes (`overwritten`), an insert's index transaction failed
(`unindexed`), a reader put into L1 what a writer had changed since (`lateFill`),
or FLEX-COLUMN was emptied by a restart (`restarted`).  Each cause was first a
counterexample of a property without it.  `clash` says that operations under
different locks met in `block.json`.

Abstractions of Block: a document is one indexed value, small enough to be
indexed and stored as it is; the order in which loops take documents is free; a
Find that is not "alone" has further conditions that all documents meet and that
offer no index; what an update does to FLEX-COLUMN, L1 and the feed of one
document is one step; two saves of `block.json` that overlap leave the later
one's text; lock keys that share a stripe of the lock manager are kept apart,
which only allows more.

**Transactions** is `transaction.go` on one block, with the sessions that begin
and end transactions and the sharded locks.  A document is its version (0 for
none); `store` is Badger's, `cached` what L1 shows instead, which may be a newer one
(after a Flush that failed) or an older one: `had` keeps the versions Badger has had of
the documents in `Read`, any of which a read that took it from Badger may still
put in L1.  A key's lock is a stripe it shares with other keys (`stripe` is chosen
anew in every behaviour), and a stripe does not know who holds it.

| Action | Code |
|---|---|
| `Begin`, `Insert`, `Update`, `Delete` | `Begin` and the mutations a session gathers under `tx.mu` |
| `Commit`, `CommitEmpty`, `LockNext`, `Validate`, `Flush`, `FlushFails`, `UnlockNext`, `Retry`, `GiveUp`, `Committed` | `Commit` and `applyMutations`: locks in key order, the version check, the write batch, which may store a part and fail, the unlocks, the sleep and the next attempt |
| `Abort`, `Released` | `Abort` by a session or by `cleanupExpired`; `releaseLocks` unlocks what only `Commit` locks |
| `WriterLocks`, `WriterWrites` | an insert, update or delete of the rest of the engine, under a stripe of a key of its own |
| `Evict`, `LateFill` | Ristretto forgets; `FindByID` or the fetch of `Find` puts in L1 what it has read from Badger, under no lock |

**Shards** is the shard manager of one node.  A call (a goroutine) does one
operation at a time; a critical section of `sm.mu` is a step, and getting it
follows `sync.RWMutex`: a waiting writer keeps new readers out.

| Action | Code |
|---|---|
| `BeginStats`, `LookUpShard`, `CountDoc` | `UpdateShardStats`, which counts on a shard that may have been replaced |
| `BeginStatus`, `ReadStatus`, `ReadAgain` | SHARD STATUS, whose helpers lock again |
| `BeginScale`, `SumShards`, `CheckCooldown`, `Scale`, `CooldownEnds` | `checkAndScale`, `scaleUp`, `scaleDown`, `InitializeShards` |
| `BeginMembership`, `HandleNodeFailure`, `AddNode`, `RemoveNode`, `BeginRebalance`, `BalanceShards` | failures, joins, removals, SHARD REBALANCE |

**Cluster** is what Raft is used for.  Raft itself is a library: `rlog` is the log
of the leader last elected, `seen`, `config` and `snap` are what each member's Raft
knows of log and configuration and what it keeps through a restart; `applied`,
`data` and `batches` are what its state machine did and what it stores.  A
restarted member finds its log empty (`LastIndex`) and goes back to its last
snapshot, or to nothing; members that know as little as it does may elect it, and
what they do not have is cut from the log (`lost`).  Of the shard manager only `sm.mu` is
kept (`held`), since that is where a join, an insert and SHARD REBALANCE meet.

| Action | Code |
|---|---|
| `Replicate`, `WriteLocally` | every writing function of `ops_*.go`: through `raft.Apply` on a leader that does not believe itself alone, else straight to the local function |
| `Apply`, `ApplyFails` | `RaftFSM.Apply`; one that waits for `sm.mu` keeps `f.mu`; one whose operation fails is logged and counts as applied |
| `TakeSnapshot`, `AddMember` | `raft.Snapshot`, by Raft itself and before `AddVoter` in a join: index and configuration, and documents that `Restore` decodes into nothing |
| `Join`, `Leave`, `ForgetPeer`, `AutoJoin`, `ChangeShards`, `Balance`, `Refresh`, `Rebalance` | `HandleJoin`, `HandleLeave` and `handleAutoJoin`, in the order of their calls |
| `Restart`, `LoseLeader`, `Elect` | a start over `BadgerLogStore`, whose `LastIndex` does not find the log, with the index and configuration of the snapshot; elections among those who know their candidate |

**Jobs** is the turbo scheduler on its adaptive pool: `Submit`; the dispatcher's
`PopNext`, `Notified`, `Send`, `SendDropped`, `DispatcherStops`; a worker's
`Take`, `End`, `Ended`, and `Leave` and `Gone` of an idle one; the monitor's
`ReadCurrent`, `Rebalance`, `MonitorStops`; `CloseStep`.  The scheduler's
critical sections are steps; the pool has no lock, so a decision and its effect
are two steps.

**Watch** is the change bus: a Publish reads the bulk hint (`Begin`), counts the
subscribers (`Look`), adds to the replay ring (`AddToReplay`) and fans out
(`FanOut`), under two locks; `Subscribe`, `Receive`, `Unsubscribe` are a /watch
request, `SetBulkModeHint` is BULK MODE.

**Rename** is renaming and dropping of blocks, or of databases, under requests
that insert.  A store is what one data directory holds; a path leads to one
through the file system (`dir`) and through the handle the pool keeps (`pool`),
and these can come apart.  Four histories are kept for the properties: `kept`, the
inserts answered with success that nothing has replaced or dropped, and of these
those that two orders at once, or a request in the middle of a copy, were about
(`contested`), that a repair removed (`purged`), and that a rename left under the
old name's keys, because its migration failed or had a handle on another store
(`stranded`).

| Action | Code |
|---|---|
| `Order`, `Lock`, `CloseHandles`, `Drop` | RENAME and DROP of a block or database up to the move; the mark the sweep looks at |
| `Move`, `MoveFails`, `Copy`, `CopyFails`, `Retry`, `RemoveSource` | `renameDirRobust` with the copy fallback and its cleanup |
| `MigrateOpens`, `MigrateReads`, `MigrateWrites`, `MigrateDeletes`, `MigrateFails`, `Succeed` | `migrateBlockKeyNames`, for documents and then index keys, and `EnsureBlockMeta` |
| `Create`, `InsertBegins`, `Commit` | CREATE; inserts, which open a path and use the handle later |
| `SweepPicks`, `SweepChecks`, `SweepPurges`, `SweepRebuilds` | the maintenance sweep with quarantine and index rebuild |
| `CrashAndRecover` | a kill, and a replay of the log, which knows no renames |

**Where** has the two readers of a WHERE clause on tokens: `ParseWhere` with its
tree and `evalExpr`, for FIND and SEARCH, and `parseFilters` with its flat list
and `matchesFilters`, for the rest.  A token is a string; tables say what is left
of it without quotation marks, which parts a list has, and what is JSON or a
number, and each reader types values by its own rules (`coerce`,
`parseArrayLiteral`; `FlatArray`, `FlatBound`).  A step types one more unit of a
clause.

**Find** computes answers: conditions through dotted paths and relations,
FLEX-COLUMN (`QueryWithColumnar`), candidates and their selectivity, index keys
and the ids cut out of them, pages, intersection, L2 entries, scans, sorting,
selection, grouping and HAVING (`Ask`, `Count`), the three forms of SEARCH on what a Find answered (`Search`), eviction (`EvictEntry`); `Aggregate`
and `Group` are functions of the documents.  These are algorithms, so the
module is functions, and its steps are queries that leave L2 entries and
statistics to the next.

**MCWalWriter**, **MCDurability**, **MCTurbo**, **MCBlock**, **MCTransactions** and
**MCRename** give the constants their values for TLC.  **MCCluster** (Shards and
Cluster), **MCServices** (Jobs and Watch) and **MCQueries** (Where and Find) each
check two modules that share no variable: a behaviour belongs to one of them,
chosen at the start.

**WalWriterProofs**, **DurabilityProofs**, **TurboProofs**, **BlockProofs**,
**TransactionsProofs**, **ClusterProofs** (Cluster, then Shards), **RenameProofs** and
**ServicesProofs** (Jobs, then Watch) hold the theorems about those modules.

## 3. Runs

| Run | Question | Result |
|---|---|---|
| `wal_writer` | Is a successful `Write` in a file, stable under WALSyncAlways, whatever the interleaving of writers, `writeLoop`, checkpoint, policy change, one disk error and `Close`?  May `syncLocked` skip the fsync when it does?  Does the marker mean an empty writer?  Does the writer implement DurableLog? | holds |
| `wal_writer_live` | Do all calls return, and does `Close`, also when they race? | holds |
| `durability` | After any crashes, power failures, checkpoints and restarts, is every document as its last acknowledged write left it, except for the reasons the module lists?  Are the files on disk those the process knows? | holds |
| `update_replay` | Does an acknowledged update survive a kill, as logging before the commit promises? | violated |
| `turbo` | Does each insert get its own result, once, in bounded time, and does a load that meets no other leave bulk mode as it found it? | holds |
| `block` | Does the index miss no document?  Do L1, the feed and FLEX-COLUMN agree with Badger when nobody writes, except for the named causes?  Is a query exact that does not answer from L2?  Does an update change matching documents only?  Are counts kept under one lock? | holds |
| `transactions` | Is what a transaction stores all of it or nothing, whatever expires, is retried or is rolled back meanwhile?  Do its locks exclude others?  Can transactions wait for each other in a circle?  May a set put an older version over a newer one? | holds, but for named cases |
| `cluster` | Which calls of the shard manager can stand still for ever?  Does an active shard always have a live primary?  Do members that applied the whole log hold the same? | holds, but for named cases |
| `rename` | Do acknowledged inserts stay in the files through renames, drops, sweeps and kills?  Is a renamed block read, with its index, under its new name? | holds, but for named cases |
| `rename_twice` | Does the cleanup of a failed rename remove only incomplete copies, as its comment says? | violated by two renames |
| `services` | Do tasks of one key run one at a time and in turn?  Does every task begin and does `Close` return, under the fairness of section 5?  Does a watcher get every event it was there for, or is the drop counted? | holds |
| `queries` | Is a clause read as the grammar says?  Do FIND and DELETE mean the same by it?  Are answers those of the definition, whichever way they are computed?  Does SELECT show what the filter matched?  Do GROUP, aggregates and GROUP BY agree? | holds, but for named cases |

What the violated runs show:

* `update_replay`.  `updateLocal` logs the whole new document; `RecoverWAL`
  parses it as an `UpdateOp`, finds nothing to set, and touches every document of
  the block without changing it.  The insert before it is replayed, so after a
  kill an acknowledged update is undone.
* `rename_twice`.  `renameDirRobust` looks for the target once, at the start.
  When its own attempts to copy have failed it removes the target, and that may
  be the directory another rename has put there and reported as done.

What else Block has from the code that a reader may not expect: `updateLocal`
adds the updated documents to `doc_count`; `Count` leaves an entry of one id in
L2 from which a later Find answers; a delete also removes a document that was
inserted again, with another value, between its two transactions; FLEX-COLUMN
keeps the earlier value of a document that an insert replaces, and after a
restart knows only what was written since, which is all a lone equality then
finds.  They are listed in `PROJECT.json` under findings.

Properties say "but for" where the code does not keep its word.  Each exception
is a named set or condition of the module, was found as a counterexample of the
property without it, and where it is a defect stands in `PROJECT.json` under findings
with the line it comes from.  Among those of the newer modules:

* transactions: an Abort unlocks stripes it never locked, which takes another's
  lock or ends the process; keys of one stripe can block a commit for ever; two
  transactions that read one version both commit; the version check reads L1 first,
  where a late fill leaves an older version, so that an older set goes over a
  newer one (`misled`).
* cluster: `AddNodeToShards` takes `sm.mu` twice, so a join ends there and the
  leader goes on writing outside Raft; a restarted node finds its log empty, may
  be elected and cut it for the others, and replays it on its data; a command that
  fails on one member counts as applied there; batches get different ids on each
  member.
* rename: the replay of the log brings documents back under names that were
  renamed or dropped; a sweep deletes compressed documents as corrupted; a
  request or a sweep that comes between two steps leaves a handle on a directory
  that is gone.
* queries, `FormsAgree`: the flat parser misreads NOT, parentheses and an AND after
  an OR; ParseWhere ends where an AND is omitted, which the syntax allows; the two
  differ on connectives too many, on half a BETWEEN and an unknown operator at the
  end, and type values differently in lists, as bounds and in braces; a lone
  quotation mark makes the flat one panic.
* queries, `AnswersAreExplained` (`Untrue`, `Lossy`, `Twice`): FLEX-COLUMN has other
  documents than the block; a condition after an omitted AND chooses the documents
  and does not filter them; OFFSET and LIMIT are applied before the matching or the
  sort, except by FLEX-COLUMN; a page or an old entry of the index cache, or another
  database's, cuts an answer; a slash in a value splits its index key, so that the
  ids found are other texts; lists and null have no entry.

What `durability` had to except, each found as a counterexample of the property
without the exception:

* requests of different kinds hold different locks, so two of them can be logged
  in one order and committed in the other; a delete logs its filters and
  recovery searches again;
* updates are not redone, and neither are documents stored compressed: the log
  entry holds the compressed bytes, not marked as such, and recovery passes over
  what is not JSON;
* after a power failure Badger may be back at a version stored compressed, which
  the delete that is replayed does not find, since its search reads JSON only; that
  the insert before it is replayed first helps only while retention has not dropped
  it, so a kill in the middle of that recovery is excused as well;
* recovery logs what it redoes behind newer entries, and retention may delete
  newer entries meanwhile, so a second crash can bring back an older value;
* under `interval`, a lost newer entry lets an older one be replayed over a value
  that was already stable;
* an insert that returned an error may appear after a restart, since its entry is
  in the log;
* after a torn entry `ReadAll` never returns: the decoder repeats its error and
  the loop only ends at the end of file.  The process then is in phase `hung`.

## 4. Bounds

* `wal_writer`: two streaming writers with one entry each and one bulk writer
  with two, channel of one, batches and segments of two entries, two segments
  kept, one disk error, one checkpoint, one policy change.  Batches fill and also
  leave by timer, segments rotate during a flush, old ones are retired, and every
  pair of the named events can meet.  Writers are symmetric.
* `wal_writer_live`: the same without symmetry, checkpoint and policy change.
* `durability`: two documents, two requests of any kind, both policies, segments
  of two entries with two kept, one checkpoint, two process ends.  Two ends are
  what a crash in recovery needs; two requests are what an overlap needs.
  Documents and requests are symmetric.
* `update_replay` restricts kinds and events to what its question is about, so
  that the trace is the shortest for it.
* `turbo`: three requests, a threshold of two, or three in bulk mode, chunks of
  one, two callbacks waiting at once, one load that may also be a lone
  `BULK MODE OFF`.  Two requests fill a batch and the third forms the one a stale
  callback meets.  `prev` starts at the zero value, `interval`; the configured
  policy is `always`, the one it differs from.
* `block`: two clients, two documents in shards of their own, two values, two
  operations of any kind, failures, one restart.  Every property relates two
  operations, or one and a restart; a batch and an update can hold both documents.
  An instance with three operations and no failures (eleven million states)
  passes too.  Clients, documents and values are symmetric; the properties are
  invariants and one action property.
* `transactions`: two transactions with up to two mutations of two documents, two
  stripes in every assignment, one other writer, two attempts (the code has three;
  the second already meets what the first left), versions up to two.  Two
  keys in two stripes are what a circle needs, and one stripe what a transaction
  that waits for itself needs.  One of the documents is read outside, which is what
  fills L1 late.  Transactions are symmetric, documents are not: their order is the
  order of locking.
* `cluster`, shards: three calls (a holder, a waiting writer and a reader), two
  members, one or two shards, five operations.  Cluster: two nodes, one
  document id and one batch, two commands in the log, one failing command, one
  restart.  Differences of members need a join, a write before or during it, and a
  restart.  Its behaviours come in parts, to stay within what TLC can hold: `cluster` from the
  first start, without restarts; `log` and `beside` from a cluster that has formed
  (a state the specification reaches by a restart of both members), `log` with the
  restarts, snapshots and elections, `beside` with writes beside the log, joins and the
  lock of the shard manager under one leader.  The theorem has no such parts.
* `rename`: two names, one id, a writer and two orders, both scopes, three stores,
  two inserts beside nothing else or two of {rename or drop, sweep, kill}, two
  attempts to copy.  `rename_twice` is the same with the property of that name.
* `services`: two tasks of one key or none, two priorities, one or two workers, a
  channel of one, so that it is full, empty and closed; two publishers, one
  watcher, a channel of one, a ring of two, three events, so that both overflow.
* `queries`: clauses of up to five units, a unit being a condition, a connective
  with one, or a piece of a condition, with values quoted and not, lists that are
  JSON and lists that are not, words, braces and a lone quotation mark; four
  contents of two databases, three queries out of twenty finds, three counts and
  seven searches.  The conditions are free truth values in Where; Find's documents
  have values with a slash, blank ones, lists, a text spelled like null, columns
  that are complete, missing or old, related documents with the field, with null
  and without the field; its queries order both ways, use pages of every size that
  matters, an OFFSET that FLEX-COLUMN sees and one that it does not, and all four
  kinds of foreign key.  Each exception of `FormsAgree` and `AnswersAreExplained` is
  needed: without it, the run finds the case.

Deadlock is not checked in these runs: a process whose bounded work is done,
that was shut down, or that is `hung`, has no further step.

## 5. Fairness

* `WalWriter!FairSpec`: weak fairness of the loop's steps, of the answers, of
  each caller's next step and of `Close`.  Goroutines that are runnable run, and
  Go's `select` chooses at random among ready cases, so a case that stays ready
  is taken.  No caller has to call, no ticker is needed for `Close`.
* `Turbo!FairSpec`: one weak fairness for the union of: the cap timer fires, a
  fired callback gets `b.mu`, a flush goes on, an answered request takes its
  answer.  The quiet timer, arrivals and loads get none: that a request returns
  must not depend on them.
* `Jobs!JobsFairness`: weak fairness of the dispatcher, of each worker that has a
  job, of the monitor's ticker and of `Close` once it was called; strong fairness
  of taking a job while jobs come (the `select` of an idle worker chooses at
  random between the channel and its timer) and of leaving a stopped pool.
  Callers need not submit, and an idle worker may leave whenever its timer lets
  it.

## 6. Proofs

Every safety property that a passing run checks is also a theorem, for all values
of the constants, except those of Where and Find (see the end of this section).
Each proof is: an invariant that is inductive, one lemma per action that it is kept, and the property as a consequence or a conjunct.
TLC evaluated the invariants on instances of the runs before they were proved.

### The log

`WalWriterProofs`, for any sets of writers and any sizes and bounds:

* `TypeCorrect`: `Spec => []TypeOK`.
* `AckedWritten`: `Spec => []AckedIsWritten`.  That an "ok" the caller holds is in
  a segment says nothing of the next "ok" to come, so the invariant `IInv` adds
  `Delivered` (an "ok" still in a done channel is in a segment) and `Announced`
  (while the loop answers a batch whose flush did not fail, all of the batch is
  in a segment).  A step under `w.mu` only extends what is written (`Extends`:
  put, sync, rotation, retention), which is proved once per operator and used in
  every action.
* `MarkerHolds`: `Spec => []MarkerAfterLastFlush`, from the same invariant and
  `MarkInv`: the loop exits with no batch in hand (`ExitedEmpty`), and only after
  that does `Close` write the marker (`MarkedLast`).
* `SkippedSyncHolds` (`SkippedSyncIsSafe`) and `AlwaysDurable`
  (`AlwaysIsDurable`) from `SyncInv`.  `Sound(w)` says that a closed segment is
  fsynced to its end and that the current one is while its dirty flag is down;
  it is kept by every operator under `w.mu`, a failing one too.  `CalmInv` says that under
  WALSyncAlways, with no disk error yet, a flush has been told to fsync
  (`ForcedInv`) and that what is announced, or about to be, is already fsynced;
  once calm is over it never comes back (`CalmBefore`), so that calm states
  follow only calm states.

`LogImplemented`, in the last part of `WalWriterProofs`: `Spec => ImplementsDurableLog`.  The written
entries of WalWriter are a sequence of sequences, `FlattenSeq` of the segments.
Under `w.mu` the log only gets longer at its end or loses its oldest segments
(`Advances`, once per operator); each step of the writer is then `Submit`,
`ExtendOrRetire`, `Acknowledge` or `Fail` of the abstract log, or changes nothing of
it.  The abstract log takes an entry at most once, after it was handed over.  Types do not
give that, since nothing in them keeps an entry out of two places, so `OnceInv`
follows an entry from the call (`OwnCalls`, `Unmade`) through the channel and the
batch (`WaitingOnce`) or the bulk call (`DirectOnce`) to the segments
(`WrittenOnce`), each without repetition and apart from the others.  Facts about
`FlattenSeq`, which is recursive, come from its recurrence by an induction over
positions that rests on the well-foundedness of finite sets (`LargestPosition`),
since the library's induction theorems need an operator as argument.

`DurabilityProofs`, for any documents, requests, sizes, crashes and restarts:
`SegmentsAreKnown`, `Spec /\ []NamesInOrder => []SegmentsOnDisk`.  The list of segments
is always in the order of their numbers and complete (`SegInv`), also while the
process is down.  Each step under `w.mu` keeps it, and a start finds it again if the
names on disk sort as their numbers do: `NamesInOrder`, which is true while the
numbers have as many digits.  Where it fails, `recover` sorts file names as text, and a
restart that finds `wal-9` and `wal-10` takes 9 for the current segment; when it rotates,
at once if 9 is full, it empties 10.  That is a finding.  With `FirstId` = 9, TLC finds
this property violated after one kill, and the next one too, so the premise cannot be
dropped.

`LossesAreExplained`, `Spec /\ []NamesInOrder => []EveryLossIsExplained`, in the same
module.  The property speaks of what a document holds when requests are accepted again;
the reason it holds was laid down before the crash, in the order of the log, and must
outlast any number of further crashes during recovery.  So the invariant `Inv` says, for
each document, what the log promises at every moment:

* `Logs`: the segments as above, none of them full when nobody writes (`NotFull`), all
  of them fsynced under `always` (`Synced`).
* `Basics`: types; what each phase says of the rest (`PhaseInv`); how far each
  request is and that two with entries about one document both know it (`ReqInv`,
  `OverlapInv`); that every entry on disk or still to be replayed is of a request that
  began and says its value (`EntryInv`, `LastInv`); that every version Badger may be back
  at after a power failure was committed (`SourceInv`).
* `Runs`: the order of the log.  An entry is `Mine` for a document if recovery redoes it
  and it is of the request that committed the document last, and `Bad` if redoing it
  would leave a value the document must not have.  A document is `Clean` if none of the
  reasons the module names applies to it.  `OrderInv`: for a clean document a bad entry
  has one that is mine behind it, and none that is mine before it.  `CovInv`: whatever
  version a power failure leaves of a clean document is one it may have, or the log has an
  entry that is mine.  Both have to be established by the commit that makes a request
  the last one, which needs what holds from its first entry on: no other entry
  gets behind its own (`OwnInv`), unless the two overlap; that a batch's chunks stay the
  last (`BatchInv`); and that what a delete selects and does not delete is not there
  (`DelInv`).  `TailInv`: a commit that is not stable is in the log.
* `Vals`: the values.  In service each document is as it should be (`ValInv`); out of
  service it is, or the log redoes its last request (`NowInv`); while the process is
  down the documents the next start may get wrong are excused (`DownInv`); during
  recovery the last entry left for a document decides its value, and rightly
  (`ReplayInv`), unless recovery passes over all of them.

The log is taken as a set of places (segment, index) with an order, so that an append,
a rotation, a checkpoint and a cut are statements about places (`SameLog` and the lemmas
on what each step adds or removes); `ReadAll`, a concatenation, is connected with it once:
it returns the entries in the order of their places.  The lemmas on concatenation are
those of WalWriterProofs, repeated because they are stated there about another module's
log.  The proof changed the module it is about: the first attempt failed on a kill
during recovery when retention had already dropped an insert and a delete of
a compressed document was left (`PassedOver`, until then only considered at a power failure), and on a redo that
is stored when its own entry is already retired (`pruned` in `ReplayStore`).

### The batcher

`TurboProofs`, for any sets of requests and loads and any sizes:

* `TypeCorrect` and `DeadlineHolds` (`HardDeadline`) from one invariant, which is
  inductive as it stands.
* `OwnResultHolds` (`OwnResult`).  The invariant `OwnInv` adds that a request is
  in one place: not entered, in the forming batch, or in one flush, in each case
  without repetition (`Forming`, `NotEntered`, `Apart`, `Distinct`); that its
  document is untouched until its flush commits; and that in a flush that answers
  the failures match what was stored (`Fate`).  Without the first, an answer could
  go to a channel that already has one; without the last, nothing ties an answer
  to the commit before it.  `CommitOwn` treats the five outcomes of a commit
  together, by what each adds to the stored, unflushed and panicked documents.
* `OnePlaceHolds` (`OnePlace`).  `OwnInv` says a request is in no two places,
  `PlaceInv` that a caller that waits is in some place, or has its answer.
* `BulkBracketsHold` (`BulkBrackets`) from `BracketInv`: as long as no two loads
  have overlapped, at most one is on its way, and for each step it may be at,
  what policy, bulk flag and remembered size then are (`Phase`).

### Transactions

`TransactionsProofs`, for any sessions, documents, stripes, retries and versions.
One invariant, `IInv`, carries all four properties:

* `Lifecycle` and `TodoIsRest` say what status, call and remaining stripes say
  together: only an open call applies, and the stripes a call has still to visit
  are the end of its list of locks.
* `HoldsOnlyPlaces` and `HoldsPlaces`: the stripes a transaction holds are those
  of the places it has visited and not left, each held once, until an Abort
  unlocks one it never locked; that `fatal` or `stolen` comes from nothing else is
  `LostByAbort`.  `Exclusion` (`LocksExclude`) follows.
* `StaysFresh`: a version check that passed stays true of Badger under the locks
  until the flush, but for documents written outside since (`raced`) and for those
  whose check read an older version in L1 (`misled`).  `VersionsOnlyGrow`
  (`VersionsGrow`) is a property of steps that needs it.  Nothing is assumed of
  L1: a late fill may put any version there that Badger has had.
* `AtomicCommit` (`AllOrNothing`) from `Lifecycle`.
* `CirclesAreOfStripes` (`NoCircle`): the locks of a call are in the order of the
  keys; a circle of transactions with one stripe per key would give a key
  before itself.  The greatest place of the circle is found by induction over its finite set
  of documents.

### The block

`BlockProofs`, for any clients, documents, values and shards.  Its first part says
for each action A, in `DidA`, what the task of its client is afterwards and which
variables change, and proves that A is such a step; the rest uses only these.  The
invariant `IInv`:

* who is where and under which lock: `Shape`, `Excl` (two operations never hold
  one lock), `Unique` (two writers are busy with a document only if it is excused
  as "crossed", because they hold different locks), `MovedSees` (a reader knows
  every document that was written since it began);
* `DocsHold`, the heart: for each document, what Badger, L1, the feed and
  FLEX-COLUMN hold while a writer is on its way through them (`StoredIs`,
  `CacheIs`, `FeedIs`, `FlexIs`).  At the place where nobody is busy these are
  `CacheAgrees`, `FeedAgrees` and `FlexAgrees`;
* `ReadsHold`: the snapshot of an open update is what Badger has, or the update
  will not commit.  From it `UpdatesTakeWhatMatches`;
* `SavesMeet` (two operations between load and save of a count have met) for
  `CountsAreFresh`; `FindsHold` (what a reader has found and has still to look at,
  for each source) for `FindsAreExact`; `IndexMissesNothing` is inductive with
  `Shape`.

`TypeOK` of Block and of Transactions is proved (`TypeCorrect`) and not run: it says
only that variables have their types.

### Cluster and shards

`ClusterProofs`, for any nodes, ids and bounds:

* `MembersAgree` (`DifferencesAreExplained`).  What a member holds is a fold of the
  log over what it held before; the invariant does not compute it.  `Follows`
  says of each id that the last command about it which the member applied decides whether it is there, or
  that it was written outside Raft, failed there or was lost; a replay after a
  restart leaves that true, and so does a log that an election cuts behind what a
  member has applied, since the commands cut off and those that then take their
  numbers count as lost.
  `Stuck` says what a member whose insert hangs is waiting at, `Stored` and
  `BatchesCounted` where documents and batches come from.  Two members that
  applied the whole log have the same last command for each id.
* `LivePrimaries` (`ActiveShardHasLivePrimary`) and `OneNodeWhileFree`, for any
  calls, nodes and numbers of shards, from an invariant that says why both hold:
  a shard gets a second node only from a call that then keeps `sm.mu` for good,
  so while the lock is free every shard is on this node alone, a failure of
  another node concerns no shard, and one of this node degrades all.
  `OneNodeWhileFree` is what lets `BalanceShards` leave the lists as they are.
* `StandstillsAreKnown` (`EveryStandstillIsKnown`) from `LockInv`: who holds a read
  lock is SHARD STATUS before its second one, and who holds the write lock is on
  its way into `BalanceShards`.

### Renames

`RenameProofs`, for any finite set of names and any ids, writers, administrators,
stores, troubles and copy attempts: `InsertsAreKeptAlways` (`InsertsAreKept`) and
`RenamedIsReadAlways` (`RenamedIsRead`), both from `RenameInv`.  Neither property is
inductive: that a document is somewhere says nothing of the next step of the order
that is moving it.  The invariant adds, in the order of its conjuncts:

* `OrderInv`: what kind, pairs and handle an order may have at each of its steps.
* `PoolInv`: no two names have a directory or a handle in common, and a handle that
  a request, an order or a sweep holds is the one in the pool, until the pool
  closes it for all of them.  `FreshInv`: a directory that is made is empty.
* `KnownInv`: keys, pairs and logs have only versions that were committed, and a
  request that is about to commit brings one that nobody has yet.  So a commit puts
  no second copy of a safe document anywhere.
* `Places`, where each document is that no excuse covers (`Safe`).  `AloneInv`: an
  order that touches the name of a safe document does so alone, because orders
  that overlap contest what their names hold.  `HomeInv`: the document is with a
  name no order is about to change, or where its order has brought it (`Brought`):
  with the old name until `Move` or `Copy`, in the new directory under the old key
  until `MigrateWrites`, then under the new key.  `PairsInv`: what the migration
  read is still there when it is written.  `DocsInv`: all that the order began
  with, and its index entries, are where it has brought them; `MovedInv`: so they
  are after it reported success.

Each step of an order is shown to bring on what the order has (`Brings`) and to
leave other names alone (`Elsewhere`, `Carries`), from which `OrderPlaces` concludes
`Places'`; `QuietPlaces` does so for the steps of requests and sweeps.  The kill
(`CrashPlaces`) needs what the replay of a log leaves in a store, the last insert of
each id or what was there (`ReplayedFacts`).

### Goroutines

`ServicesProofs`:

* `SameKeyHolds` (`SameKeyInTurn`), for any tasks, keys, priorities and workers,
  from `JobsInv`.  `OneHolder`: of the tasks of a key at most one is between the
  queues and its end; `HeldIsBusy`: its key is then marked.  `Accounted`: a
  submitted task waits, is sent, was begun, or was dropped by a pool that closed,
  and then its key stays busy for ever, so that no later one overtakes it.
  `QueuesInOrder` and `SentInTurn` carry the order of submission through queue and
  channel.
* `WatchersHold` (`WatchersMissOnlyCounted`), for any publishers, watchers and
  buffers, from `WatchInv`: `EventsApart` (events have numbers of their own, and
  one that a watcher got is out of its publisher's hands for it), `Counted` (of
  those owed that are neither on their way nor got there are at most as many as
  the counter says), `RingOK` (the ring holds the last events in their places, modulo its
  size).

### Assumptions

The proofs assume the named assumption of each module (`ConstantsAssumption`,
`TransactionsAssumption`, `JobsAssumption` and so on), which every run of the
module evaluates, and nothing else: sizes are positive, sets of processes do not
overlap, the values that stand for "none" are not among the others; a block's
documents, the priorities and the names of blocks are finitely many.

### Model-checked only

* Liveness (`CallsReturn`, `CloseReturns`, `SubmitReturns`, `TasksBegin`): fairness
  and ENABLED are beyond the provers used.
* Where and Find, which read clauses and compute answers with recursive
  operators.

## 7. Not modelled

* Of the WAL: `FastStartup`, which truncates the log instead of replaying it (an
  operator's choice to lose it), `Stats`, encoding of entries.
* Of Durability: deletes of more than 10000 documents, which commit in several
  transactions; two blocks (the code's blocks share only the log); the Raft path.
* Of Turbo: the hints to the Badger pool and the change bus; keys, since each block
  has a batcher of its own.
* Of Block: documents that are large, compressed or kept in the external store
  (`updateLocal` and `deleteLocal` do not decompress and pass over them; L1
  compresses values over 1 KB and `Get` does not decompress, so that such an
  entry fails to parse and is read again); a second indexed field; `Set` calls
  Ristretto drops while an older `Set` of the same key is still in its buffer;
  subscribers whose channel is full; two databases, whose L2 entries share keys.
* Badger itself, the file system and Go's runtime are modelled by what the code
  relies on: a Badger transaction or write batch is atomic, is visible when it
  returns, and is stable after `Sync` or `Close`; files keep a prefix of what was
  written, at least up to the last fsync.
* Of Transactions: documents that are large or compressed; `validateSerializable`,
  which nothing selects; index, FLEX-COLUMN and shard counts of a commit, which
  follow under the locks and cannot fail it (Block has the first two).
* Of the cluster: Raft itself, two leaders at once, discovery and the HTTP handlers,
  what a snapshot holds, the log and the numbers a node brings from the cluster of its
  own that it bootstrapped before it joined, a leader elected with a snapshot of
  commands that are lost, `dist_query.go`, whose fan-out no command calls, updates
  (which store what an insert stores, as far as members can differ).
* Of Rename: power failures (Durability), backup and compaction, the registry of
  servers, rights and errors of the file system beyond "it failed".
* Of the queries: names of fields with slashes, the size above which a text is not
  indexed, LIKE, CONTAINS and the other text operators, computed SELECT
  items, EXCLUDE, JOIN, views, automatic relations, time limits; tokenising; the
  dispatch of commands.  Concurrent writers are Block's subject.
* `cluster/worker_pool.go`, which is created and never given work; adaptive
  storage, buffer pools, the external store.
* Access control (`users_auth.go`, `auth_jwt.go`, `roles.go`, `ratelimit.go`,
  `risk_engine.go`, `audit.go`): counters and tokens of their own on which no
  other component's state depends.
* File formats of import and export, metrics, logging, configuration, help, the
  HTTP administration pages, the command-line client, drivers and the UI: input
  and output, with no state that other components decide on.

## 8. Plan

Modelled, in the order of what would hurt most when wrong: the log, what survives
a crash, the batcher in front of them, the block they write to; then
transactions, the cluster with its shards, what renames do to all of it, the
goroutines that serve tasks and watchers, and the queries.

The proofs came in the same order, and cover all but the queries and liveness.
What is left to model is in section 7.
