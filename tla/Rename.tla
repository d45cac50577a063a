-------------------------------- MODULE Rename --------------------------------
(***************************************************************************)
(* Renaming, dropping, creating and repairing blocks and databases of      *)
(* CaimanDB under requests that insert: ops_rename.go, the local handlers  *)
(* of ops_local.go, RenameDB (ops_database.go), the key migration          *)
(* (block_rename_migration.go), the maintenance sweep (maintenance.go,     *)
(* block_repair.go), the pool of Badger handles (storage/badger_pool.go)   *)
(* and the directories (storage/directory.go).                             *)
(*                                                                         *)
(* A store is what one data directory holds.  A path leads to a store      *)
(* through the file system (dir) and, once opened, through the handle the  *)
(* pool keeps for the path (pool), and the two can come apart: a handle    *)
(* stays on its store when the directory is renamed or removed.  Badger    *)
(* locks a store's directory, so no second path can open it meanwhile.     *)
(* In scope "block" the names are a database's blocks; in scope "db" they  *)
(* are databases with one block each, whose keys do not carry the name.    *)
(*                                                                         *)
(* A key holds the number of the insert that wrote it.  External and taken *)
(* as Badger's: a write through a closed handle fails, a write that was    *)
(* acknowledged is in the files (power failures are Durability's subject). *)
(***************************************************************************)
EXTENDS Integers, Sequences, FiniteSets, SequencesExt

CONSTANTS
  Names, Ids,
  TheBlock,      \* the name in the keys of a database's block, in scope "db"
  Scopes,        \* which scopes to consider, out of "block" and "db"
  Writers,       \* requests that insert
  Admins,        \* requests that rename or drop
  MaxStores,     \* bound: directories made
  MaxInserts,    \* bound: inserts, the first document included
  MaxTroubles,   \* bound: renames, drops, maintenance sweeps and kills, together
  CopyAttempts   \* maxCopyAttempts (3)

ASSUME RenameAssumption ==
  /\ IsFiniteSet(Names) /\ MaxStores \in Nat \ {0} /\ MaxInserts \in Nat \ {0}
  /\ CopyAttempts \in Nat \ {0} /\ Scopes \subseteq {"block", "db"}

VARIABLES
  scope,
  dir,      \* the store a name's directory holds; 0: no such directory
  pool,     \* DBPool.dbs: the store a name's open handle is on; 0: none
  keys,     \* each store's document ("d") and index ("s") keys
  label,    \* the name in each store's block.json; None: no such file
  locked,   \* the names whose lock a rename or a drop holds
  writer, admin, sweep,
  log,      \* the write-ahead log: the inserts, in order
  form,     \* of each insert: "plain", "packed" (zstd) or "broken"
  made, orders, sweeps, crashes,
  kept,     \* the inserts answered with success that nothing replaced or dropped
  contested,\* those in a name that two orders at once were about, or copied over
             \* a target that a request had opened meanwhile
  purged,   \* those a repair removed
  stranded, \* those a rename left under the old name's keys; see Behind
  moved     \* what the last rename that reported success had to move

renameVars == <<scope, dir, pool, keys, label, locked, writer, admin, sweep, log, form,
                made, orders, sweeps, crashes, kept, contested, purged, stranded, moved>>
ghosts == <<kept, contested, purged, stranded, moved>>
bounds == <<orders, sweeps, crashes>>

None == "none"
Idle == [step |-> "idle"]
CanHappen == orders + sweeps + crashes < MaxTroubles
NothingMoved == [name |-> None, docs |-> {}]
Stores == 1..MaxStores
Versions == 1..MaxInserts
KeyNames == Names \cup {TheBlock}
KeyName(n) == IF scope = "block" THEN n ELSE TheBlock
NoKeys == [k \in {"d", "s"} |-> [n \in KeyNames |-> [i \in Ids |-> 0]]]
Docs(s) == {keys[s]["d"][n][i]: n \in KeyNames, i \in Ids} \ {0}

(* The block, or database, first has one document, of any form.            *)
RenameInit ==
  /\ scope \in Scopes
  /\ \E n \in Names, i \in Ids, f \in {"plain", "packed", "broken"}:
        LET store == [k \in {"d", "s"} |->
                        [NoKeys[k] EXCEPT ![KeyName(n)][i] =
                           IF k = "d" \/ f # "broken" THEN 1 ELSE 0]]
        IN /\ dir = [m \in Names |-> IF m = n THEN 1 ELSE 0]
           /\ keys = [s \in Stores |-> IF s = 1 THEN store ELSE NoKeys]
           /\ label = [s \in Stores |-> IF s = 1 THEN n ELSE None]
           /\ log = <<[name |-> n, id |-> i, v |-> 1]>>
           /\ form = <<f>>
  /\ pool = [n \in Names |-> 0]
  /\ locked = {}
  /\ writer = [w \in Writers |-> Idle] /\ admin = [a \in Admins |-> Idle]
  /\ sweep = Idle
  /\ made = 1 /\ orders = 0 /\ sweeps = 0 /\ crashes = 0
  /\ kept = {1} /\ contested = {} /\ purged = {} /\ stranded = {}
  /\ moved = NothingMoved

-----------------------------------------------------------------------------
(* The pool and the directories.                                           *)

(* OpenDataPath: the handle of the path, or a new one; MkdirAll makes the  *)
(* directories that are missing.                                           *)
Taken(n) == \E m \in Names \ {n}: pool[m] = dir[n]
Missing(n) == dir[n] = 0
Open(s) == \E n \in Names: pool[n] = s
CanOpen(n) == pool[n] # 0 \/ Missing(n) \/ ~Taken(n)
Opened(n) == IF pool[n] # 0 THEN pool[n] ELSE IF Missing(n) THEN made + 1 ELSE dir[n]
MakeDirectory(n) ==
  IF Missing(n)
  THEN /\ made < MaxStores
       /\ dir' = [dir EXCEPT ![n] = made + 1] /\ made' = made + 1
  ELSE UNCHANGED <<dir, made>>
OpenPath(n) ==
  /\ pool' = [pool EXCEPT ![n] = Opened(n)]
  /\ IF pool[n] = 0 THEN MakeDirectory(n) ELSE UNCHANGED <<dir, made>>

(* A request keeps the handle it got: closing the handle makes it useless. *)
Loses(p, s) == IF p.step # "idle" /\ p.h = s THEN [p EXCEPT !.h = 0] ELSE p
WithoutHandle(s) ==
  /\ writer' = [w \in Writers |-> Loses(writer[w], s)]
  /\ sweep' = Loses(sweep, s)

(* EnsureBlockMeta: makes or corrects block.json, if the block exists.     *)
EnsureMeta(n) ==
  label' = IF dir[n] = 0 THEN label ELSE [label EXCEPT ![dir[n]] = n]

(* createBlockLocal and createDBLocal, which take no lock.                 *)
Create(n) ==
  /\ dir[n] = 0 /\ made < MaxStores
  /\ made' = made + 1
  /\ dir' = [dir EXCEPT ![n] = made + 1]
  /\ label' = [label EXCEPT ![made + 1] = n]
  /\ UNCHANGED <<scope, pool, keys, locked, writer, admin, sweep, log, form, bounds,
                 ghosts>>

-----------------------------------------------------------------------------
(* Inserts.  A single insert takes its shard's lock only; a batch takes    *)
(* the block's, which RENAME and DROP BLOCK take as well.  Both make the   *)
(* block's directories and open it before.                                 *)

Touches(a, n) == admin[a].step # "idle" /\ n \in {admin[a].old, admin[a].new}
Undisturbed(n) == \A a \in Admins: ~Touches(a, n)

InsertBegins(w, n, i, kind, f) ==
  /\ writer[w] = Idle /\ Len(form) < MaxInserts
  /\ form' = Append(form, f)
  /\ CanOpen(n) /\ MakeDirectory(n)
  /\ pool' = [pool EXCEPT ![n] = Opened(n)]
  /\ writer' = [writer EXCEPT ![w] =
                  [step |-> "commit", name |-> n, id |-> i, kind |-> kind, h |-> Opened(n),
                   v |-> Len(form) + 1, clean |-> Undisturbed(n)]]
  /\ UNCHANGED <<scope, keys, label, locked, admin, sweep, log, bounds, ghosts>>

(* Logs, commits, indexes (a packed document's entries too, from what was  *)
(* inserted) and corrects block.json.  Through a closed handle the commit  *)
(* fails after the log has the insert.                                     *)
Commit(w) ==
  LET p == writer[w]
      k == KeyName(p.name)
      old == keys[p.h]["d"][k][p.id]
      purging == sweep.step = "purge" /\ sweep.h = p.h /\ p.id \in sweep.bad
  IN /\ p.step = "commit"
     /\ (p.kind = "batch" /\ scope = "block") => p.name \notin locked
     /\ log' = Append(log, [name |-> p.name, id |-> p.id, v |-> p.v])
     /\ writer' = [writer EXCEPT ![w] = Idle]
     /\ IF p.h = 0
        THEN UNCHANGED <<keys, label, kept>>
        ELSE /\ keys' = [keys EXCEPT ![p.h]["d"][k][p.id] = p.v,
                                     ![p.h]["s"][k][p.id] = p.v]
             /\ kept' = (kept \ {old}) \cup
                          (IF p.clean /\ dir[p.name] = p.h /\ ~purging THEN {p.v} ELSE {})
             /\ EnsureMeta(p.name)
     /\ UNCHANGED <<scope, dir, pool, locked, admin, sweep, form, made, bounds, contested,
                    purged, stranded, moved>>

-----------------------------------------------------------------------------
(* Orders: RENAME and DROP.                                                *)

At(a, step) == admin[a].step = step
Goes(a, step) == admin' = [admin EXCEPT ![a].step = step]
Fails(a) == admin' = [admin EXCEPT ![a] = Idle] /\ locked' = locked \ {admin[a].old}

Contest(a, old, new) ==
  LET others == {b \in Admins \ {a}: Touches(b, old) \/ Touches(b, new)}
      both == {old, new} \cup UNION {{admin[b].old, admin[b].new}: b \in others}
  IN IF others = {} THEN {}
     ELSE UNION {Docs(dir[n]): n \in {m \in both: dir[m] # 0}}

(* RenameDB looks at both names before it takes the lock, renameBlockLocal *)
(* after.  A drop has no second name.                                      *)
Order(a, op, old, new) ==
  /\ admin[a] = Idle /\ CanHappen
  /\ op = "rename" => old # new /\ (scope = "db" => dir[old] # 0 /\ dir[new] = 0)
  /\ op = "drop" => old = new
  /\ orders' = orders + 1
  /\ admin' = [admin EXCEPT ![a] = [step |-> "lock", op |-> op, old |-> old, new |-> new,
                                    tries |-> 0, kind |-> "d", pairs |-> <<>>, h |-> 0,
                                    docs |-> {}]]
  /\ writer' = [w \in Writers |->
                  IF writer[w] # Idle /\ writer[w].name \in {old, new}
                  THEN [writer[w] EXCEPT !.clean = FALSE] ELSE writer[w]]
  /\ contested' = contested \cup Contest(a, old, new)
  /\ moved' = NothingMoved
  /\ UNCHANGED <<scope, dir, pool, keys, label, locked, sweep, log, form, made, sweeps,
                 crashes, kept, purged, stranded>>

(* What n holds, and whether its index has it.                             *)
DocsUnder(n) ==
  LET store == keys[dir[n]]
      k == KeyName(n)
  IN {[id |-> i, v |-> store["d"][k][i], indexed |-> store["s"][k][i] = store["d"][k][i]]:
        i \in {j \in Ids: store["d"][k][j] # 0}}

(* The lock; a drop of a database takes none.  From here on the sweep      *)
(* finds the old name marked.                                              *)
Lock(a) ==
  LET p == admin[a]
      fits == (p.op = "rename" /\ scope = "block") => (dir[p.old] # 0 /\ dir[p.new] = 0)
  IN /\ At(a, "lock")
     /\ (p.op = "drop" /\ scope = "db") \/ p.old \notin locked
     /\ IF ~fits
        THEN admin' = [admin EXCEPT ![a] = Idle] /\ UNCHANGED locked
        ELSE /\ admin' = [admin EXCEPT ![a].step = "close",
                                       ![a].docs = IF dir[p.old] = 0 THEN {}
                                                   ELSE DocsUnder(p.old)]
             /\ locked' = IF p.op = "drop" /\ scope = "db" THEN locked
                          ELSE locked \cup {p.old}
     /\ UNCHANGED <<scope, dir, pool, keys, label, writer, sweep, log, form, made, bounds,
                    ghosts>>

(* CloseAndRemoveForceByPrefix.                                            *)
CloseHandles(a) ==
  /\ At(a, "close")
  /\ pool' = [pool EXCEPT ![admin[a].old] = 0]
  /\ WithoutHandle(pool[admin[a].old])
  /\ admin' = [b \in Admins |->
                 IF b # a THEN Loses(admin[b], pool[admin[a].old])
                 ELSE [admin[a] EXCEPT !.step = IF admin[a].op = "drop" THEN "drop" ELSE "move"]]
  /\ UNCHANGED <<scope, dir, keys, label, locked, log, form, made, bounds, ghosts>>

(* RemoveAll of a dropped block or database.                               *)
Drop(a) ==
  LET n == admin[a].old
  IN /\ At(a, "drop")
     /\ dir' = [dir EXCEPT ![n] = 0]
     /\ kept' = IF dir[n] = 0 THEN kept ELSE kept \ Docs(dir[n])
     /\ Fails(a)
     /\ UNCHANGED <<scope, pool, keys, label, writer, sweep, log, form, made, bounds,
                    contested, purged, stranded, moved>>

AfterMove == IF scope = "block" THEN "open" ELSE "meta"

(* os.Rename.                                                              *)
Move(a) ==
  LET p == admin[a]
  IN /\ At(a, "move") /\ dir[p.old] # 0 /\ dir[p.new] = 0
     /\ dir' = [dir EXCEPT ![p.new] = dir[p.old], ![p.old] = 0]
     /\ Goes(a, AfterMove)
     /\ UNCHANGED <<scope, pool, keys, label, locked, writer, sweep, log, form, made,
                    bounds, ghosts>>

(* It fails for a missing source, an occupied target and many reasons of   *)
(* the system's, and the files are copied.                                 *)
MoveFails(a) ==
  /\ At(a, "move") /\ Goes(a, "copy")
  /\ UNCHANGED <<scope, dir, pool, keys, label, locked, writer, sweep, log, form, made,
                 bounds, ghosts>>

(* copyDatabaseFilesComplete, over what the target holds: with a handle    *)
(* open on it, either content can be what is found later.  A copy can be   *)
(* short, when files appear or vanish meanwhile; verifyDirCopy counts      *)
(* them.                                                                   *)
AnyCopy(full) == TRUE     \* mutant: the count is not looked at
Verified(full) == full

Copy(a) ==
  LET p == admin[a]
      s == dir[p.old]
      t == IF dir[p.new] = 0 THEN made + 1 ELSE dir[p.new]
  IN /\ At(a, "copy") /\ s # 0 /\ t <= MaxStores
     /\ dir' = [dir EXCEPT ![p.new] = t]
     /\ made' = IF t > made THEN t ELSE made
     /\ \E full \in BOOLEAN:
           /\ Goes(a, IF Verified(full) THEN "remove" ELSE "retry")
           /\ \/ keys' = [keys EXCEPT ![t] = IF full THEN keys[s] ELSE NoKeys]
              \/ Open(t) /\ keys' = keys
     /\ label' = [label EXCEPT ![t] = label[s]]
     /\ contested' = IF Open(t) THEN contested \cup Docs(s) ELSE contested
     /\ UNCHANGED <<scope, pool, locked, writer, sweep, log, form, bounds, kept, purged,
                    stranded, moved>>

CopyFails(a) ==
  /\ At(a, "copy") /\ Goes(a, "retry")
  /\ UNCHANGED <<scope, dir, pool, keys, label, locked, writer, sweep, log, form, made,
                 bounds, ghosts>>

(* Before another attempt, and after the last, the target is removed.      *)
Retry(a) ==
  /\ At(a, "retry")
  /\ dir' = [dir EXCEPT ![admin[a].new] = 0]
  /\ IF admin[a].tries + 1 < CopyAttempts
     THEN /\ admin' = [admin EXCEPT ![a].step = "copy", ![a].tries = @ + 1]
          /\ UNCHANGED locked
     ELSE Fails(a)
  /\ UNCHANGED <<scope, pool, keys, label, writer, sweep, log, form, made, bounds, ghosts>>

(* RemoveAll of the source; an error is logged and the source stays.       *)
RemoveSource(a) ==
  /\ At(a, "remove")
  /\ dir' \in {dir, [dir EXCEPT ![admin[a].old] = 0]}
  /\ Goes(a, AfterMove)
  /\ UNCHANGED <<scope, pool, keys, label, locked, writer, sweep, log, form, made, bounds,
                 ghosts>>

-----------------------------------------------------------------------------
(* migrateBlockKeyNames, for the documents' keys and then the index's:     *)
(* rewriteKeyPrefix reads all pairs, writes them under the new name, and   *)
(* deletes the old keys.                                                   *)

(* The documents in the renamed directory that have their old keys.        *)
Under(s, n) == IF s = 0 THEN {} ELSE {keys[s]["d"][n][i]: i \in Ids} \ {0}
Behind(a) == Under(dir[admin[a].new], admin[a].old)

MigrateOpens(a) ==
  LET n == admin[a].new
  IN /\ At(a, "open")
     /\ IF CanOpen(n)
        THEN /\ OpenPath(n) /\ UNCHANGED locked
             /\ admin' = [admin EXCEPT ![a].step = "read", ![a].h = Opened(n)]
        ELSE Fails(a) /\ UNCHANGED <<dir, pool, made>>
     /\ stranded' = IF CanOpen(n) THEN stranded ELSE stranded \cup Behind(a)
     /\ UNCHANGED <<scope, keys, label, writer, sweep, log, form, bounds, kept, contested,
                    purged, moved>>

Working(a, step) == At(a, step) /\ admin[a].h # 0

(* A handle of the new name that was left on another block's store makes   *)
(* the migration work there.                                               *)
MigrateReads(a) ==
  LET p == admin[a]
  IN /\ Working(a, "read")
     /\ admin' = [admin EXCEPT ![a].step = "write", ![a].pairs = keys[p.h][p.kind][p.old]]
     /\ stranded' = IF p.h = dir[p.new] THEN stranded
                    ELSE stranded \cup Behind(a) \cup Under(p.h, p.old)
     /\ UNCHANGED <<scope, dir, pool, keys, label, locked, writer, sweep, log, form, made,
                    bounds, kept, contested, purged, moved>>

Merged(new, pairs) == [i \in Ids |-> IF pairs[i] # 0 THEN pairs[i] ELSE new[i]]
Emptied(old, pairs) == [i \in Ids |-> IF pairs[i] # 0 THEN 0 ELSE old[i]]

(* writeNew, whatever the new key holds by now.                            *)
MigrateWrites(a) ==
  LET p == admin[a]
  IN /\ Working(a, "write") /\ Goes(a, "delete")
     /\ keys' = [keys EXCEPT ![p.h][p.kind][p.new] = Merged(@, p.pairs)]
     /\ UNCHANGED <<scope, dir, pool, label, locked, writer, sweep, log, form, made,
                    bounds, ghosts>>

NoNextKind(kind) == None    \* mutant: the index's keys keep the old name
NextKind(kind) == IF kind = "d" THEN "s" ELSE None

(* deleteOld: the keys that were read, whatever they hold by now.          *)
MigrateDeletes(a) ==
  LET p == admin[a]
  IN /\ Working(a, "delete")
     /\ keys' = [keys EXCEPT ![p.h][p.kind][p.old] = Emptied(@, p.pairs)]
     /\ admin' = [admin EXCEPT ![a].step = IF NextKind(p.kind) = None THEN "meta" ELSE "read",
                               ![a].kind = NextKind(p.kind), ![a].pairs = <<>>]
     /\ UNCHANGED <<scope, dir, pool, label, locked, writer, sweep, log, form, made,
                    bounds, ghosts>>

(* Its handle was closed: the order fails, the directory stays renamed.    *)
MigrateFails(a) ==
  /\ admin[a].step \in {"read", "write", "delete"} /\ admin[a].h = 0
  /\ Fails(a)
  /\ stranded' = stranded \cup Behind(a)
  /\ UNCHANGED <<scope, dir, pool, keys, label, writer, sweep, log, form, made, bounds,
                 kept, contested, purged, moved>>

(* EnsureBlockMeta under the new name, and success.                        *)
Succeed(a) ==
  /\ At(a, "meta") /\ EnsureMeta(admin[a].new) /\ Fails(a)
  /\ moved' = [name |-> admin[a].new, docs |-> admin[a].docs]
  /\ UNCHANGED <<scope, dir, pool, keys, writer, sweep, log, form, made, bounds, kept,
                 contested, purged, stranded>>

-----------------------------------------------------------------------------
(* The maintenance sweep, for one block: it looks whether the block is     *)
(* being renamed, and then opens, checks and repairs it.                   *)

Renaming(n) ==
  \E a \in Admins: /\ admin[a].step \notin {"idle", "lock"}
                   /\ admin[a].op = "rename" /\ admin[a].old = n

SweepPicks(n) ==
  /\ sweep = Idle /\ CanHappen /\ dir[n] # 0
  /\ ~Renaming(n)
  /\ sweeps' = sweeps + 1
  /\ sweep' = [step |-> "check", name |-> n, h |-> 0, bad |-> {}]
  /\ UNCHANGED <<scope, dir, pool, keys, label, locked, writer, admin, log, form, made,
                 orders, crashes, ghosts>>

(* CheckBlock and quarantineCorruptedDocs' scan: a value that json cannot  *)
(* read, compressed ones included.                                         *)
Unreadable(v) == v # 0 /\ form[v] # "plain"
Bad(s, k) == {i \in Ids: Unreadable(keys[s]["d"][k][i])}

SweepChecks ==
  LET n == sweep.name
  IN /\ sweep.step = "check"
     /\ IF CanOpen(n)
        THEN /\ OpenPath(n)
             /\ LET bad == Bad(Opened(n), KeyName(n))
                IN sweep' = IF bad = {} THEN Idle
                            ELSE [sweep EXCEPT !.step = "purge", !.h = Opened(n), !.bad = bad]
        ELSE sweep' = Idle /\ UNCHANGED <<dir, pool, made>>
     /\ UNCHANGED <<scope, keys, label, locked, writer, admin, log, form, bounds, ghosts>>

(* The keys found are deleted, whatever they hold by now.                  *)
SweepPurges ==
  LET k == KeyName(sweep.name)
  IN /\ sweep.step = "purge"
     /\ IF sweep.h = 0 THEN sweep' = Idle /\ UNCHANGED <<keys, purged>>
        ELSE /\ purged' = purged \cup ({keys[sweep.h]["d"][k][i]: i \in sweep.bad} \ {0})
             /\ keys' = [keys EXCEPT ![sweep.h]["d"][k] =
                           [i \in Ids |-> IF i \in sweep.bad THEN 0 ELSE @[i]]]
             /\ sweep' = [sweep EXCEPT !.step = "unindex"]
     /\ UNCHANGED <<scope, dir, pool, label, locked, writer, admin, log, form, made, bounds,
                    kept, contested, stranded, moved>>

(* RebuildBlock: drops the index and builds it from the documents json can *)
(* read.                                                                   *)
SweepRebuilds ==
  LET k == KeyName(sweep.name)
  IN /\ sweep.step \in {"unindex", "index"}
     /\ IF sweep.h = 0 THEN sweep' = Idle /\ UNCHANGED keys
        ELSE /\ keys' = [keys EXCEPT ![sweep.h]["s"][k] =
                  [i \in Ids |->
                     IF sweep.step = "unindex" THEN 0
                     ELSE LET v == keys[sweep.h]["d"][k][i]
                          IN IF v = 0 \/ Unreadable(v) THEN @[i] ELSE v]]
             /\ sweep' = IF sweep.step = "index" THEN Idle ELSE [sweep EXCEPT !.step = "index"]
     /\ UNCHANGED <<scope, dir, pool, label, locked, writer, admin, log, form, made, bounds,
                    ghosts>>

-----------------------------------------------------------------------------
(* A kill, the restart, and the replay of the log, which knows nothing of  *)
(* renames and drops: what was inserted is inserted again under the name   *)
(* it had.  A directory is what every open path leads to again.            *)

Logged(n) == {j \in DOMAIN log: log[j].name = n}
LoggedAt(n, i) == {j \in Logged(n): log[j].id = i}
LastOf(n, i) == log[CHOOSE j \in LoggedAt(n, i): \A k \in LoggedAt(n, i): k <= j].v
Replayed(ks, n) ==
  [x \in {"d", "s"} |->
     [ks[x] EXCEPT ![KeyName(n)] =
        [i \in Ids |-> IF LoggedAt(n, i) = {} THEN @[i] ELSE LastOf(n, i)]]]

(* A logged insert takes an earlier one's place, also if it had failed.    *)
Superseded ==
  {log[j].v: j \in {x \in DOMAIN log: \E y \in DOMAIN log:
                      y > x /\ log[y].name = log[x].name /\ log[y].id = log[x].id}}

CrashAndRecover ==
  /\ CanHappen /\ crashes' = crashes + 1
  /\ \E new \in [{n \in Names: Missing(n) /\ Logged(n) # {}} -> (made + 1)..MaxStores]:
        LET homes == [n \in Names |-> IF n \in DOMAIN new THEN new[n] ELSE dir[n]]
        IN /\ IsInjective(new)
           /\ made' = made + Cardinality(DOMAIN new)
           /\ \A n \in DOMAIN new: new[n] <= made'
           /\ dir' = homes
           /\ keys' = [s \in Stores |->
                         IF \E n \in Names: homes[n] = s /\ Logged(n) # {}
                         THEN Replayed(keys[s], CHOOSE n \in Names: homes[n] = s)
                         ELSE keys[s]]
           /\ label' = [s \in Stores |->
                          IF \E n \in Names: homes[n] = s /\ Logged(n) # {}
                          THEN CHOOSE n \in Names: homes[n] = s ELSE label[s]]
           /\ pool' = [n \in Names |-> IF Logged(n) # {} THEN homes[n] ELSE 0]
  /\ locked' = {} /\ sweep' = Idle
  /\ writer' = [w \in Writers |-> Idle] /\ admin' = [a \in Admins |-> Idle]
  /\ moved' = NothingMoved
  /\ kept' = kept \ Superseded
  /\ UNCHANGED <<scope, log, form, orders, sweeps, contested, purged, stranded>>

RenameNext ==
  \/ \E n \in Names: Create(n) \/ SweepPicks(n)
  \/ \E w \in Writers:
        \/ \E n \in Names, i \in Ids, kind \in {"single", "batch"}, f \in {"plain", "packed"}:
              InsertBegins(w, n, i, kind, f)
        \/ Commit(w)
  \/ \E a \in Admins:
        \/ \E op \in {"rename", "drop"}, old, new \in Names: Order(a, op, old, new)
        \/ Lock(a) \/ CloseHandles(a) \/ Drop(a) \/ Move(a) \/ MoveFails(a)
        \/ Copy(a) \/ CopyFails(a) \/ Retry(a) \/ RemoveSource(a)
        \/ MigrateOpens(a) \/ MigrateReads(a) \/ MigrateWrites(a) \/ MigrateDeletes(a)
        \/ MigrateFails(a) \/ Succeed(a)
  \/ SweepChecks \/ SweepPurges \/ SweepRebuilds
  \/ CrashAndRecover

-----------------------------------------------------------------------------
Present == UNION {Docs(dir[n]): n \in {m \in Names: dir[m] # 0}}

(* An insert that was answered with success while nobody renamed or        *)
(* dropped its block is in some block's directory for good, through        *)
(* failing renames, short copies, key migration, kills and repairs, unless *)
(* a later insert or a DROP took its place, two orders about its name      *)
(* overlapped, a request opened the target while RENAME was about to copy, *)
(* a repair took it for corrupted, or a rename left it under the old       *)
(* name's keys, because its migration failed or worked on another store.   *)
Safe == kept \ (contested \cup purged \cup stranded)
InsertsAreKept == Safe \subseteq Present

(* After RENAME reported success, what the block held when it began is     *)
(* read under the new name, and the index there has it if it had it before *)
(* and no sweep was about to rebuild an index; but for what was replaced,  *)
(* contested, purged, or left under the old name's keys.                   *)
RenamedIsRead ==
  LET n == moved.name
  IN n # None =>
       \A doc \in moved.docs:
          doc.v \in Safe =>
            /\ dir[n] # 0 /\ keys[dir[n]]["d"][KeyName(n)][doc.id] = doc.v
            /\ doc.indexed /\ sweeps = 0 => keys[dir[n]]["s"][KeyName(n)][doc.id] = doc.v

(* ops_rename.go, of the target that a failed copy removes: it "never held *)
(* anything but an incomplete copy".  So what it holds, the source holds.  *)
CleanupTakesOnlyCopies ==
  \A a \in Admins:
     (At(a, "retry") /\ dir[admin[a].new] # 0) =>
        kept \cap Docs(dir[admin[a].new]) \subseteq
           UNION {Docs(dir[n]): n \in {m \in Names \ {admin[a].new}: dir[m] # 0}}
=============================================================================
