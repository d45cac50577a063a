------------------------------ MODULE Durability ------------------------------
(***************************************************************************)
(* The write path of one block across crashes and restarts: the engine's   *)
(* insert, batch insert, update and delete log to the write-ahead log and  *)
(* then commit to Badger; a checkpoint syncs Badger and starts a fresh     *)
(* segment; a start replays the log unless the last shutdown was clean.    *)
(*                                                                         *)
(* One WAL.Write or WriteBatch is one step: module WalWriter has the       *)
(* goroutines behind it, and answers only for entries that are in a file.  *)
(* A killed process leaves every file as it is; a power failure also takes *)
(* what no fsync covered.  File creation and removal survive both.         *)
(***************************************************************************)
EXTENDS Integers, Sequences, SequencesExt, FiniteSets, TLC

CONSTANTS
  Docs,         \* document ids of the block
  Requests,     \* client requests; a request writes its own name as the value
  Gone,         \* the value of a document that is not there
  Kinds,        \* the kinds of request in this instance
  Policies,     \* WAL sync policies a process may be configured with
  SegSize,      \* entries that fill a segment: 128 MB
  MaxSegs,      \* segments kept: 32
  FirstId,      \* number of the segment the first start finds, empty
  SyncErrors,   \* syncing Badger may fail in a checkpoint
  MaxChecks,    \* checkpoints in a run, and ends of the process, graceful
  MaxEnds       \* or not (these bound the model)

ASSUME ConstantsAssumption ==
  /\ IsFiniteSet(Docs) /\ Gone \notin Requests
  /\ Kinds \subseteq {"insert", "large", "batch", "update", "delete"}
  /\ Policies \subseteq {"always", "interval"} /\ SyncErrors \in BOOLEAN
  /\ {SegSize, MaxSegs, FirstId} \subseteq Nat \ {0}
  /\ {MaxChecks, MaxEnds} \subseteq Nat

Value == Requests \cup {Gone}

(* by is the request an entry was first logged for; docs the document of   *)
(* an insert or update, and the documents the filters of a delete select.  *)
(* "large" is the insert of a document that is logged as it is stored,     *)
(* compressed, which recovery takes for JSON and passes over.              *)
LogEntry == [op : {"insert", "large", "update", "delete"}, docs : SUBSET Docs, by : Requests]

(* torn: a power failure cut the entry at the end of the file in two.      *)
SegmentFile == [data : Seq(LogEntry), synced : Nat, torn : BOOLEAN]
NewFile == [data |-> <<>>, synced |-> 0, torn |-> FALSE]

VARIABLES
  policy,   \* the sync policy, never changed
  files,    \* the segment files on disk, by number
  segs,     \* w.segments: numbers, oldest first; the last is the current one
  marker,   \* the .clean file
  base,     \* what Badger holds for each document on stable storage,
  tail,     \* and the commits after that, oldest first
  phase,    \* of the process
  replay,   \* entries recovery has read and not yet applied
  applied,  \* recovery has logged entries again
  req,      \* the client requests
  admin,    \* where a checkpoint is
  last,     \* the last commit a request made to each document
  raced,    \* documents the log may have in another order than Badger
  pruned,   \* documents whose last commit is neither stable nor in the log
  excused,  \* documents the next recovery may get wrong; see Crash
  used      \* how many of each bounded event happened

vars == <<policy, files, segs, marker, base, tail, phase, replay, applied, req, admin,
          last, raced, pruned, excused, used>>
logVars == <<policy, files, segs>>
dbVars == <<base, tail>>
runVars == <<phase, replay, applied>>
ghostVars == <<last, raced, pruned, excused>>

-----------------------------------------------------------------------------
(* Badger *)

CommitsOf(t, d) == {i \in DOMAIN t : t[i].doc = d}

ValIn(b, t, d) ==
  IF CommitsOf(t, d) = {} THEN b[d]
  ELSE t[CHOOSE i \in CommitsOf(t, d) : \A j \in CommitsOf(t, d) : j <= i].val

Val(d) == ValIn(base, tail, d)
Present == {d \in Docs : Val(d) # Gone}

(* The kind of request a value is from.                                    *)
KindOf(v) == IF v = Gone THEN "delete" ELSE req[v].kind

(* A transaction that leaves val in each document of D.                    *)
Store(D, val) ==
  /\ tail' = tail \o SetToSeq({[doc |-> d, val |-> val] : d \in D})
  /\ UNCHANGED base

Unsynced == {c.doc : c \in ToSet(tail)}

-----------------------------------------------------------------------------
(* The log *)

(* Bug: the number of the new segment is that of the current one.          *)
RotatedSameId(f, s) ==
  [files |-> (s[Len(s)] :> NewFile) @@ f, segs |-> Append(s, s[Len(s)])]

(* os.Create of the next number, which empties a file of that name, then   *)
(* retention.                                                              *)
Rotated(f, s) ==
  LET id == s[Len(s)] + 1
      s2 == Append(s, id)
      drop == IF Len(s2) > MaxSegs THEN Len(s2) - MaxSegs ELSE 0
      f2 == [n \in DOMAIN f \cup {id} |-> IF n = id THEN NewFile ELSE f[n]]
  IN  [files |-> [n \in DOMAIN f2 \ ToSet(SubSeq(s2, 1, drop)) |-> f2[n]],
       segs |-> SubSeq(s2, drop + 1, Len(s2))]

Full(f, s) == s[Len(s)] \in DOMAIN f /\ Len(f[s[Len(s)]].data) >= SegSize

(* Write and WriteBatch; a file that was removed swallows what is written. *)
Logged(f, s, es) ==
  LET n == s[Len(s)]
      data == f[n].data \o es
      f2 == IF n \notin DOMAIN f THEN f
            ELSE [f EXCEPT ![n] = [data |-> data, torn |-> f[n].torn,
                    synced |-> IF policy = "always" THEN Len(data) ELSE f[n].synced]]
  IN  IF Full(f2, s) THEN Rotated(f2, s) ELSE [files |-> f2, segs |-> s]

(* filepath.Glob and sort.Strings: the names wal-<n>.log are in dictionary *)
(* order, in which wal-10 comes before wal-9.                              *)
Digits[n \in Nat] == IF n < 10 THEN <<n>> ELSE Append(Digits[n \div 10], n % 10)

NameBefore(m, n) ==
  LET a == Digits[m]
      b == Digits[n]
  IN  \/ IsStrictPrefix(a, b)
      \/ \E i \in DOMAIN a \cap DOMAIN b :
           a[i] < b[i] /\ \A j \in 1 .. i - 1 : a[j] = b[j]

FileNames ==
  CHOOSE s \in [1 .. Cardinality(DOMAIN files) -> DOMAIN files] :
    \A i, j \in DOMAIN s : i < j => NameBefore(s[i], s[j])

ReadAll(f, s) ==
  FlattenSeq([i \in DOMAIN s |-> IF s[i] \in DOMAIN f THEN f[s[i]].data ELSE <<>>])

EntriesIn(f) == UNION {ToSet(f[n].data) : n \in DOMAIN f}
DocsIn(f) == UNION {e.docs : e \in EntriesIn(f)}

(* Files are deleted.  What only they protected is pruned, unless Badger   *)
(* has it on stable storage.                                               *)
Deleted(f2) == UNION {ToSet(files[n].data) : n \in DOMAIN files \ DOMAIN f2}

Unstable == Unsynced \cup {d \in Docs : base[d] # last[d].val}

PrunedBy(f2) ==
  {d \in Unstable : /\ \E e \in Deleted(f2) : d \in e.docs
                    /\ \A e \in EntriesIn(f2) : d \in e.docs => e.by # last[d].by}

SetLog(new) ==
  /\ UNCHANGED policy
  /\ files' = new.files /\ segs' = new.segs
  /\ pruned' = pruned \cup PrunedBy(new.files)

-----------------------------------------------------------------------------
(* Requests.  Each holds a lock of lockManager: an insert that of its      *)
(* shard (here every document is in a shard of its own), a batch that of   *)
(* the block, an update or delete that of the block with an empty shard.   *)
(* The three do not exclude each other.                                    *)

Idle == [pc |-> "idle", kind |-> "none", docs |-> {}, todo |-> {}, match |-> {},
         seen |-> <<>>, overlap |-> {}]

LockOf(kind, D) == CASE kind \in {"update", "delete"} -> <<"no shard", {}>>
                     [] kind = "batch" -> <<"block", {}>>
                     [] OTHER -> <<"shard", D>>

(* A request that was answered, and one that ended without success.        *)
Done(r) == [Idle EXCEPT !.pc = "done", !.kind = req[r].kind]
Lost(r) == [Idle EXCEPT !.pc = "lost", !.kind = req[r].kind, !.docs = req[r].docs]

Active(r) == req[r].pc \in {"log", "commit"}

LockFree(kind, D) ==
  \A r \in Requests : Active(r) => LockOf(req[r].kind, req[r].docs) # LockOf(kind, D)

(* The documents an active request has entries about: those an update has  *)
(* logged; for a delete all its filters select from the search on, since   *)
(* recovery will search again.                                             *)
Pending(r) ==
  {d \in req[r].docs :
     Active(r) /\ (req[r].kind = "update" => d \in req[r].match \ req[r].todo)}

(* r will have entries about D: req then, with the overlaps both ways.     *)
WithOverlap(r, rec, D) ==
  [q \in Requests |->
     IF q = r
     THEN [rec EXCEPT !.overlap = @ \cup {d \in D : \E p \in Requests \ {r} : d \in Pending(p)}]
     ELSE [req[q] EXCEPT !.overlap = @ \cup (D \cap Pending(q))]]

CanLog == phase = "up" /\ admin # "rotated"

(* What the search of an update or a delete sees: it passes over the       *)
(* documents that are stored compressed.                                   *)
Readable == {d \in Present : KindOf(Val(d)) # "large"}

(* insertWithIDLocal, insertBatchLocalDetailed: lock, log, ...             *)
InsertLog(r, kind, D) ==
  /\ CanLog /\ req[r].pc = "idle" /\ LockFree(kind, D)
  /\ SetLog(Logged(files, segs,
       SetToSeq({[op |-> IF kind = "large" THEN kind ELSE "insert",
                  docs |-> {d}, by |-> r] : d \in D})))
  /\ req' = WithOverlap(r, [Idle EXCEPT !.pc = "commit", !.kind = kind,
                                        !.docs = D, !.todo = D], D)
  /\ UNCHANGED <<marker, dbVars, runVars, admin, last, raced, excused, used>>

(* What the commit of D leaves to say about the next recovery.             *)
Note(r, D) ==
  LET kind == req[r].kind
      val == IF kind = "delete" THEN Gone ELSE r
      cut(d) == phase = "closing" \/ ~ \E e \in EntriesIn(files) : e.by = r /\ d \in e.docs
  IN  /\ last' = [d \in Docs |-> IF d \in D THEN [by |-> r, val |-> val] ELSE last[d]]
      /\ raced' = (raced \ D) \cup (D \cap req[r].overlap)
      /\ pruned' = (pruned \ D) \cup {d \in D : cut(d)}
      /\ excused' = IF kind = "update" THEN excused ELSE excused \ D

(* ... commit: a batch in chunks, a single insert at once.                 *)
InsertCommit(r, D) ==
  /\ phase \in {"up", "closing"}
  /\ req[r].pc = "commit" /\ req[r].kind \in {"insert", "large", "batch"}
  /\ D # {} /\ D \subseteq req[r].todo
  /\ Store(D, r)
  /\ Note(r, D)
  /\ LET left == req[r].todo \ D
     IN  req' = [req EXCEPT ![r] = IF left = {} THEN Done(r) ELSE [req[r] EXCEPT !.todo = left]]
  /\ UNCHANGED <<logVars, marker, runVars, admin, used>>

(* ... or Badger refuses it, or the wait for the log was cut short: the     *)
(* client gets an error, and the entry is in the log.                      *)
InsertFails(r) ==
  /\ phase \in {"up", "closing"}
  /\ req[r].pc = "commit" /\ req[r].kind \in {"insert", "large"}
  /\ req' = [req EXCEPT ![r] = Lost(r)]
  /\ UNCHANGED <<logVars, marker, dbVars, runVars, admin, ghostVars, used>>

(* updateLocal, deleteLocal: lock, then one Badger transaction finds the   *)
(* documents the filters select; each is logged, ...                       *)
FilterBegin(r, kind, F) ==
  /\ phase = "up" /\ req[r].pc = "idle" /\ LockFree(kind, F)
  /\ LET match == F \cap Readable
     IN  req' = IF match = {} THEN [req EXCEPT ![r] = Done(r)]
                ELSE WithOverlap(r, [Idle EXCEPT !.pc = "log", !.kind = kind, !.docs = F,
                                       !.todo = match, !.match = match,
                                       !.seen = [d \in Present |-> Val(d)]],
                                 IF kind = "delete" THEN F ELSE {})
  /\ UNCHANGED <<logVars, marker, dbVars, runVars, admin, ghostVars, used>>

LogDoc(r, d) ==
  /\ CanLog /\ req[r].pc = "log" /\ d \in req[r].todo
  /\ LET kind == req[r].kind
         D == IF kind = "delete" THEN req[r].docs ELSE {d}
         left == req[r].todo \ {d}
     IN  /\ SetLog(Logged(files, segs, <<[op |-> kind, docs |-> D, by |-> r]>>))
         /\ req' = WithOverlap(r, [req[r] EXCEPT !.todo = left,
                     !.pc = IF left = {} THEN "commit" ELSE "log"], D)
  /\ UNCHANGED <<marker, dbVars, runVars, admin, last, raced, excused, used>>

(* ... or skipped when the log refuses it (a delete that has an entry by   *)
(* then leaves one that selects more than it deletes); ...                 *)
SkipDoc(r, d) ==
  /\ phase = "closing" /\ req[r].pc = "log" /\ d \in req[r].todo
  /\ LET left == req[r].todo \ {d}
     IN  req' = [req EXCEPT ![r] = [req[r] EXCEPT !.todo = left, !.match = req[r].match \ {d},
                                      !.pc = IF left = {} THEN "commit" ELSE "log"]]
  /\ raced' = raced \cup IF req[r].kind = "delete" THEN {d} ELSE {}
  /\ UNCHANGED <<logVars, marker, dbVars, runVars, admin, last, pruned, excused, used>>

(* ... and all are committed at once.  The transaction of an update has    *)
(* read the whole block and fails when a document of it was written since; *)
(* that of a delete reads nothing.  Either may fail on an I/O error.       *)
Conflict(r) ==
  req[r].kind = "update" /\ \E d \in DOMAIN req[r].seen : Val(d) # req[r].seen[d]

FilterCommit(r) ==
  /\ phase \in {"up", "closing"}
  /\ req[r].pc = "commit" /\ req[r].kind \in {"update", "delete"}
  /\ \/ /\ ~Conflict(r)
        /\ req' = [req EXCEPT ![r] = Done(r)]
        /\ Store(req[r].match, IF req[r].kind = "delete" THEN Gone ELSE r)
        /\ Note(r, req[r].match)
     \/ req' = [req EXCEPT ![r] = Lost(r)] /\ UNCHANGED <<dbVars, ghostVars>>
  /\ UNCHANGED <<logVars, marker, runVars, admin, used>>

-----------------------------------------------------------------------------
(* Checkpoint *)

Count(event, bound) == used[event] < bound /\ used' = [used EXCEPT ![event] = @ + 1]

SyncBadger == base' = [d \in Docs |-> Val(d)] /\ tail' = <<>> /\ pruned' = {}

(* Bug: the checkpoint does not sync Badger first.                         *)
SyncAllSkipped ==
  /\ phase = "up" /\ admin = "idle"
  /\ Count("checks", MaxChecks)
  /\ admin' = "synced" /\ pruned' = {}
  /\ UNCHANGED <<dbVars, logVars, marker, runVars, req, last, raced, excused>>

(* pool.SyncAll; a failure is logged and the checkpoint goes on.           *)
SyncAll ==
  /\ phase = "up" /\ admin = "idle"
  /\ Count("checks", MaxChecks)
  /\ admin' = "synced"
  /\ \/ SyncBadger
     \/ SyncErrors /\ UNCHANGED <<dbVars, pruned>>
  /\ UNCHANGED <<logVars, marker, runVars, req, last, raced, excused>>

SyncedCurrent ==
  IF Last(segs) \notin DOMAIN files THEN files
  ELSE [files EXCEPT ![Last(segs)] = [@ EXCEPT !.synced = Len(files[Last(segs)].data)]]

WalSync ==
  /\ phase = "up" /\ admin = "synced"
  /\ files' = SyncedCurrent
  /\ admin' = "walsynced"
  /\ UNCHANGED <<policy, segs, marker, dbVars, runVars, req, ghostVars, used>>

(* RotateAndPruneFresh keeps w.mu from one to the other.                   *)
Rotate ==
  /\ phase = "up" /\ admin = "walsynced"
  /\ SetLog(Rotated(files, segs))
  /\ admin' = "rotated"
  /\ UNCHANGED <<marker, dbVars, runVars, req, last, raced, excused, used>>

OnlyCurrent ==
  [files |-> [n \in DOMAIN files \ ToSet(Front(segs)) |-> files[n]], segs |-> <<Last(segs)>>]

(* The log is empty: what recovery got wrong before is now simply what the *)
(* store holds.                                                            *)
Settle ==
  /\ last' = [d \in Docs |-> IF d \in excused THEN [by |-> last[d].by, val |-> Val(d)] ELSE last[d]]
  /\ excused' = {}
  /\ raced' = {d \in raced : \E r \in Requests : d \in Pending(r)}

Prune ==
  /\ phase = "up" /\ admin = "rotated"
  /\ SetLog(OnlyCurrent)
  /\ Settle
  /\ admin' = "idle"
  /\ UNCHANGED <<marker, dbVars, runVars, req, used>>

-----------------------------------------------------------------------------
(* Shutdown, crashes *)

(* Shutdown closes the log, which leaves the marker, and then Badger.      *)
WalClose ==
  /\ phase = "up" /\ admin # "rotated"
  /\ Count("ends", MaxEnds)
  /\ files' = SyncedCurrent
  /\ marker' = TRUE /\ phase' = "closing" /\ admin' = "idle"
  /\ pruned' = pruned \cup Unsynced
  /\ UNCHANGED <<policy, segs, dbVars, replay, applied, req, last, raced, excused>>

(* Requests cut off by the end of the process are never answered.          *)
Abandon ==
  req' = [r \in Requests |-> IF Active(r) THEN Lost(r) ELSE req[r]]

Stopped == phase' = "down" /\ replay' = <<>> /\ applied' = FALSE /\ admin' = "idle" /\ Abandon

PoolClose ==
  /\ phase = "closing"
  /\ SyncBadger
  /\ Stopped
  /\ UNCHANGED <<logVars, marker, last, raced, excused, used>>

(* Documents a start after the crash may get wrong, and why:               *)
(*   - requests that overlapped may be in the log in another order than    *)
(*     they committed in;                                                  *)
(*   - an update or a large insert is not redone by recovery, though the   *)
(*     insert before it is;                                                *)
(*   - when recovery was under way, older entries are in the log again     *)
(*     behind newer ones, and retention may have removed the newest.       *)
(*   - a delete that is redone passes over a version stored compressed,    *)
(*     which Badger may be back at after a power failure.                  *)
Updated == {d \in Docs : KindOf(last[d].val) = "update"}
NotRedone == {d \in Docs : KindOf(last[d].val) \in {"update", "large"}}

Rewound ==
  pruned \cup {d \in Docs : \E e \in EntriesIn(files) :
                 e.op \in {"insert", "delete"} /\ d \in e.docs /\ e.by # last[d].by}

Excuses ==
  ((raced \cup NotRedone) \cap DocsIn(files)) \cup IF applied THEN Rewound ELSE {}

PassedOver(b, f) ==
  {d \in Docs : /\ last[d].val = Gone /\ KindOf(b[d]) = "large"
                /\ ~ \E e \in EntriesIn(f) : e.op = "insert" /\ d \in e.docs}

Kill ==
  /\ phase # "down"
  /\ Count("ends", MaxEnds)
  /\ Stopped
  /\ excused' = excused \cup Excuses \cup PassedOver([d \in Docs |-> Val(d)], files)
  /\ UNCHANGED <<logVars, marker, dbVars, last, raced, pruned>>

(* Each file keeps what was synced and some of the rest.                   *)
Remains(file) ==
  {[data |-> SubSeq(file.data, 1, k), synced |-> k,
    torn |-> file.torn \/ (t /\ k < Len(file.data))] :
     k \in file.synced .. Len(file.data), t \in BOOLEAN}

AfterPowerLoss ==
  {f \in [DOMAIN files -> UNION {Remains(files[n]) : n \in DOMAIN files}] :
     \A n \in DOMAIN files : f[n] \in Remains(files[n])}

(*   - a power failure also takes what was pruned, what is not redone and  *)
(*     not stable, and without "always" unsynced entries.                  *)
LostEntries(f) ==
  {d \in Docs : \E e \in EntriesIn(files) \ EntriesIn(f) : d \in e.docs /\ e.by = last[d].by}

PowerLoss ==
  /\ phase # "down"
  /\ Count("ends", MaxEnds)
  /\ Stopped
  /\ \E f \in AfterPowerLoss, n \in 0 .. Len(tail) :
       /\ files' = f
       /\ base' = [d \in Docs |-> ValIn(base, SubSeq(tail, 1, n), d)]
       /\ excused' = excused \cup Excuses \cup pruned \cup (NotRedone \cap Unsynced)
                     \cup PassedOver(base', f)
                     \cup IF policy = "always" THEN {} ELSE LostEntries(f)
  /\ tail' = <<>> /\ pruned' = {}
  /\ UNCHANGED <<policy, segs, marker, last, raced>>

-----------------------------------------------------------------------------
(* Start and recovery *)

(* NewWAL.recover: the marker is read and removed; a full last segment is  *)
(* rotated before anything is read.  ReadAll never gets past a torn entry. *)
Start ==
  LET new == IF Full(files, FileNames) THEN Rotated(files, FileNames)
             ELSE [files |-> files, segs |-> FileNames]
      torn == \E i \in DOMAIN new.segs : new.segs[i] \in DOMAIN new.files
                                         /\ new.files[new.segs[i]].torn
  IN  /\ phase = "down"
      /\ SetLog(new)
      /\ marker' = FALSE
      /\ phase' = IF ~marker /\ torn THEN "hung" ELSE "replay"
      /\ replay' = IF marker \/ torn THEN <<>> ELSE ReadAll(new.files, new.segs)
      /\ UNCHANGED <<dbVars, applied, req, admin, last, raced, excused, used>>

ValueOf(e) == IF e.op = "delete" THEN Gone ELSE e.by
Affected(e) == IF e.op = "delete" THEN e.docs \cap Readable ELSE e.docs

(* An "update" entry is applied as an update of every document by nothing: *)
(* each is logged again and keeps its value.                               *)
ReplayUpdate ==
  /\ phase = "replay" /\ replay # <<>> /\ Head(replay).op = "update"
  /\ SetLog(Logged(files, segs,
       SetToSeq({[op |-> "update", docs |-> {d}, by |-> Head(replay).by] : d \in Readable})))
  /\ replay' = Tail(replay) /\ applied' = TRUE
  /\ UNCHANGED <<marker, dbVars, phase, req, admin, last, raced, excused, used>>

(* insertWithIDLocal and deleteLocal log what they redo.                   *)
ReplayLog ==
  /\ phase = "replay" /\ replay # <<>> /\ Head(replay).op \in {"insert", "delete"}
  /\ SetLog(Logged(files, segs, [i \in 1 .. Cardinality(Affected(Head(replay))) |-> Head(replay)]))
  /\ phase' = "redo" /\ applied' = TRUE
  /\ UNCHANGED <<marker, dbVars, replay, req, admin, last, raced, excused, used>>

ReplaySkip ==
  /\ phase = "replay" /\ replay # <<>> /\ Head(replay).op = "large"
  /\ replay' = Tail(replay)
  /\ UNCHANGED <<logVars, dbVars, marker, phase, applied, req, admin, ghostVars, used>>

ReplayStore ==
  /\ phase = "redo"
  /\ LET e == Head(replay)
     IN  /\ Store(Affected(e), ValueOf(e))
         /\ pruned' = pruned \cup IF e \in EntriesIn(files) THEN {} ELSE Affected(e)
  /\ replay' = Tail(replay) /\ phase' = "replay"
  /\ UNCHANGED <<logVars, marker, applied, req, admin, last, raced, excused, used>>

Recovered == phase = "replay" /\ replay = <<>>

RecoverRotate ==
  /\ Recovered /\ applied
  /\ SetLog(Rotated(files, segs))
  /\ phase' = "rotated"
  /\ UNCHANGED <<marker, dbVars, replay, applied, req, admin, last, raced, excused, used>>

RecoverPrune ==
  /\ phase = "rotated"
  /\ SetLog(OnlyCurrent)
  /\ Settle
  /\ phase' = "up" /\ applied' = FALSE
  /\ UNCHANGED <<marker, dbVars, replay, req, admin, used>>

(* Nothing to recover: the log stays as it is.                             *)
Open ==
  /\ Recovered /\ ~applied
  /\ phase' = "up"
  /\ UNCHANGED <<logVars, marker, dbVars, replay, applied, req, admin, ghostVars, used>>

-----------------------------------------------------------------------------
Init ==
  /\ policy \in Policies
  /\ files = [n \in {FirstId} |-> NewFile] /\ segs = <<FirstId>> /\ marker = FALSE
  /\ base = [d \in Docs |-> Gone] /\ tail = <<>>
  /\ phase = "up" /\ replay = <<>> /\ applied = FALSE
  /\ req = [r \in Requests |-> Idle] /\ admin = "idle"
  /\ last = [d \in Docs |-> [by |-> Gone, val |-> Gone]]
  /\ raced = {} /\ pruned = {} /\ excused = {}
  /\ used = [checks |-> 0, ends |-> 0]

RequestStep(r) ==
  \/ \E kind \in Kinds \cap {"insert", "large"} : \E d \in Docs : InsertLog(r, kind, {d})
  \/ "batch" \in Kinds /\ InsertLog(r, "batch", Docs)
  \/ \E kind \in Kinds \cap {"update", "delete"} : \E F \in (SUBSET Docs) \ {{}} :
       FilterBegin(r, kind, F)
  \/ \E D \in SUBSET Docs : InsertCommit(r, D)
  \/ InsertFails(r)
  \/ \E d \in Docs : LogDoc(r, d) \/ SkipDoc(r, d)
  \/ FilterCommit(r)

RecoveryStep ==
  Start \/ ReplayUpdate \/ ReplaySkip \/ ReplayLog \/ ReplayStore \/ RecoverRotate \/ RecoverPrune \/ Open

Next ==
  \/ \E r \in Requests : RequestStep(r)
  \/ SyncAll \/ WalSync \/ Rotate \/ Prune
  \/ WalClose \/ PoolClose \/ Kill \/ PowerLoss
  \/ RecoveryStep

Spec == Init /\ [][Next]_vars

-----------------------------------------------------------------------------
(* Properties *)

TypeOK ==
  /\ DOMAIN files \subseteq Nat /\ \A n \in DOMAIN files : files[n] \in SegmentFile
  /\ segs \in Seq(Nat) /\ segs # <<>>
  /\ base \in [Docs -> Value] /\ \A c \in ToSet(tail) : c.doc \in Docs /\ c.val \in Value
  /\ phase \in {"up", "closing", "down", "hung", "replay", "redo", "rotated"}
  /\ replay \in Seq(LogEntry) /\ {marker, applied} \subseteq BOOLEAN
  /\ admin \in {"idle", "synced", "walsynced", "rotated"}
  /\ \A r \in Requests : req[r].pc \in {"idle", "log", "commit", "done", "lost"}
  /\ {raced, pruned, excused} \subseteq SUBSET Docs

(* The values a request that was cut off may have left for recovery.       *)
LostValues(d) ==
  {IF req[r].kind = "delete" THEN Gone ELSE r :
     r \in {x \in Requests : req[x].pc = "lost" /\ d \in req[x].docs}}

RestoredDocs(D) == \A d \in D : Val(d) \in {last[d].val} \cup LostValues(d)

(* When the engine accepts requests, after any number of crashes, power    *)
(* failures, checkpoints and clean or unclean starts, every document is as *)
(* the last request to commit left it, or as one that was cut off would    *)
(* have; the exceptions are those Excuses and PowerLoss name, and no other.*)
EveryLossIsExplained ==
  phase \in {"up", "rotated"} \/ Recovered => RestoredDocs(Docs \ excused)

(* The running process knows every segment on disk, each under one name,   *)
(* and writes to one that a restart will find.                             *)
SegmentsOnDisk ==
  phase \in {"up", "closing", "replay", "redo"} =>
    IsInjective(segs) /\ ToSet(segs) = DOMAIN files

(* "a document that made it into Badger but never into the WAL is a        *)
(* document the client believes is durable but that a crash would silently *)
(* lose" (ops_local.go:82-86), which is why updateLocal, too, logs before  *)
(* it commits: at the end of recovery a document is as its last update     *)
(* left it.                                                                *)
UpdatesSurviveCrash ==
  Recovered /\ applied => RestoredDocs(Updated \ raced)
=============================================================================
