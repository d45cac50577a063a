----------------------------- MODULE Transactions -----------------------------
(***************************************************************************)
(* CaimanDB's transactions (internal/caimandb/transaction.go) on one       *)
(* block, the commands of sessions that begin and end them                 *)
(* (cmd_admin_extra.go) and the sharded locks they take (locks.go).        *)
(*                                                                         *)
(* A transaction gathers mutations and applies them at Commit under the    *)
(* locks of their keys.  A key's lock is a stripe that other keys share;   *)
(* the rest of the engine locks stripes too, for keys of its own, so it    *)
(* does not exclude a transaction on the same document.                    *)
(*                                                                         *)
(* Documents are numbered in the order of their keys.  What the store, the *)
(* L1 cache and a mutation hold of a document is its version, 0 for none.  *)
(* The isolation is repeatable_read, the only one NewTxManager sets.       *)
(***************************************************************************)
EXTENDS Naturals, Sequences, FiniteSets, Functions, FiniteSetsExt

CONSTANTS
  Txs,         \* the current transactions of as many sessions
  Docs,        \* numbers, in the order of the documents' keys
  Stripes,     \* the shards of the lock manager
  Writers,     \* inserts, updates and deletes outside transactions
  Read,        \* the documents that are read outside (bounds the model)
  Nobody,      \* stands for no transaction, no writer
  MaxRetries,  \* tm.maxRetries
  MaxMutations,\* mutations of a transaction (bounds the model)
  MaxVersion   \* versions of a document (bounds the model)

ASSUME TransactionsAssumption ==
  /\ Docs \subseteq Nat /\ Read \subseteq Docs /\ IsFiniteSet(Docs) /\ Nobody \notin Txs \cup Writers /\ Txs \cap Writers = {}
  /\ MaxRetries \in Nat \ {0} /\ MaxMutations \in Nat /\ MaxVersion \in Nat \ {0}

VARIABLES
  stripe,   \* shardFn: the stripe of each document's key
  holder,   \* who holds each stripe
  status,   \* tx.Status; "none" before Begin
  muts,     \* tx.Mutations
  at,       \* where the call that holds tx.mu is; "idle" when none does
  todo,     \* stripes that call has still to lock or to unlock
  retry,    \* failed calls of applyMutations
  store,    \* the version of each document in Badger
  cached,   \* a version the L1 cache shows and Badger does not hold; 0 for none
  had,      \* the versions Badger has had of each document that is read outside
  writing,  \* where each writer is
  fatal,    \* an unlock of a stripe nobody holds has ended the process
  stolen,   \* a stripe was unlocked that another holds
  applied,  \* transactions whose Flush succeeded
  raced,    \* documents about to be flushed, written outside since they were validated
  misled    \* documents about to be flushed, validated by a version older than Badger's

lockVars == <<stripe, holder, fatal, stolen>>
txVars == <<status, muts, at, todo, retry>>
dataVars == <<store, cached, had, writing, raced, misled, applied>>
vars == <<lockVars, txVars, dataVars>>

Phases == {"idle", "lock", "validate", "flush", "unlock", "failed", "release"}

(* Nothing looks at the version of a delete; it is 0.                      *)
Mutation == [doc : Docs, type : {"set", "delete"}, version : 0 .. MaxVersion]

Touched(t) == {m.doc : m \in Range(muts[t])}
IsModified(t, d) == d \in Touched(t)

(* Bug: the locks are taken in the order of the mutations.                 *)
LockListUnsorted(t) == [i \in DOMAIN muts[t] |-> stripe[muts[t][i].doc]]

(* The place of a mutation when they are sorted by their keys, and the     *)
(* mutation at a place.                                                    *)
Place(t, i) ==
  LET doc(j) == muts[t][j].doc
  IN  Cardinality({j \in DOMAIN muts[t] : doc(j) < doc(i) \/ (doc(j) = doc(i) /\ j <= i)})

AtPlace(t, k) == CHOOSE i \in DOMAIN muts[t] : Place(t, i) = k

LockDoc(t, k) == muts[t][AtPlace(t, k)].doc

(* The stripes of the mutations' keys, in the order of the keys; a key or  *)
(* a stripe that occurs twice is there twice.                              *)
LockList(t) == [k \in DOMAIN muts[t] |-> stripe[LockDoc(t, k)]]

(* A transaction is inside the part of applyMutations its locks protect.   *)
Applying(t) == at[t] \in {"validate", "flush"}

-----------------------------------------------------------------------------
(* Begin, and the operations that gather mutations; all but Begin hold     *)
(* tx.mu.                                                                  *)

(* BEGIN is refused while the session's transaction is pending.  A later   *)
(* transaction of the session is another member of Txs.                    *)
Begin(t) ==
  /\ status[t] = "none"
  /\ status' = [status EXCEPT ![t] = "pending"]
  /\ UNCHANGED <<lockVars, dataVars, muts, at, todo, retry>>

Open(t) == at[t] = "idle" /\ status[t] = "pending"

Gather(t, new) ==
  /\ new # <<>> /\ Len(muts[t]) + Len(new) <= MaxMutations
  /\ muts' = [muts EXCEPT ![t] = @ \o new]
  /\ UNCHANGED <<lockVars, dataVars, status, at, todo, retry>>

Insert(t, d) == Open(t) /\ Gather(t, <<[doc |-> d, type |-> "set", version |-> 1]>>)

(* The documents of a set in the order Find returns them, that of the keys *)
InOrder(ds) ==
  [k \in 1 .. Cardinality(ds) |-> CHOOSE d \in ds : Cardinality({e \in ds : e <= d}) = k]

(* The document as FindByID sees it: the L1 cache comes first.             *)
Existing(d) == IF cached[d] > 0 THEN cached[d] ELSE store[d]

(* What Find sees: a scan reads Badger, the ids of an index are looked up. *)
Views == {store, [d \in Docs |-> Existing(d)]}

(* The mutations of a filter that matches ds: of each document Find        *)
(* returns and the transaction has not modified yet.                       *)
Mutate(ds, type, version) ==
  [i \in 1 .. Cardinality(ds) |->
     LET d == InOrder(ds)[i] IN [doc |-> d, type |-> type, version |-> version[d]]]

Update(t, ds) ==
  /\ Open(t)
  /\ \E seen \in Views :
       /\ ds \subseteq {d \in Docs : ~IsModified(t, d) /\ seen[d] \in 1 .. MaxVersion - 1}
       /\ Gather(t, Mutate(ds, "set", [d \in Docs |-> seen[d] + 1]))

Delete(t, ds) ==
  /\ Open(t)
  /\ \E seen \in Views :
       /\ ds \subseteq {d \in Docs : ~IsModified(t, d) /\ seen[d] > 0}
       /\ Gather(t, Mutate(ds, "delete", [d \in Docs |-> 0]))

-----------------------------------------------------------------------------
(* Commit.  It holds tx.mu from beginning to end, also while it sleeps     *)
(* between attempts.                                                       *)

(* What happens to a transaction that has ended is over: nothing reads its *)
(* mutations again, so they go.                                            *)
End(t, outcome) ==
  /\ status' = [status EXCEPT ![t] = outcome]
  /\ at' = [at EXCEPT ![t] = "idle"]
  /\ muts' = [muts EXCEPT ![t] = <<>>] /\ retry' = [retry EXCEPT ![t] = 0]

CommitEmpty(t) ==
  /\ Open(t) /\ muts[t] = <<>>
  /\ End(t, "committed")
  /\ applied' = applied \cup {t}
  /\ UNCHANGED <<lockVars, store, cached, had, writing, raced, misled, todo>>

Commit(t) ==
  /\ Open(t) /\ muts[t] # <<>>
  /\ at' = [at EXCEPT ![t] = "lock"]
  /\ todo' = [todo EXCEPT ![t] = LockList(t)]
  /\ UNCHANGED <<lockVars, dataVars, status, muts, retry>>

(* Bug: RLock, which holders share.                                        *)
CanRLock(st) == holder[st] \in Txs \cup {Nobody}

CanLock(st) == holder[st] = Nobody

LockNext(t) ==
  /\ at[t] = "lock" /\ todo[t] # <<>>
  /\ CanLock(Head(todo[t]))
  /\ holder' = [holder EXCEPT ![Head(todo[t])] = t]
  /\ todo' = [todo EXCEPT ![t] = Tail(@)]
  /\ at' = [at EXCEPT ![t] = IF Len(todo[t]) = 1 THEN "validate" ELSE "lock"]
  /\ UNCHANGED <<stripe, fatal, stolen, dataVars, status, muts, retry>>

(* Bug: the version is checked for deletes only.                           *)
ConflictForDeletes(m) == m.type = "delete" /\ Existing(m.doc) > m.version

Conflict(m) == m.type = "set" /\ Existing(m.doc) > m.version

(* validateMutation of each; a conflict ends the attempt.                  *)
Validate(t) ==
  /\ at[t] = "validate"
  /\ LET fails == \E m \in Range(muts[t]) : Conflict(m)
     IN  /\ at' = [at EXCEPT ![t] = IF fails THEN "failed" ELSE "flush"]
         /\ todo' = [todo EXCEPT ![t] = IF fails THEN LockList(t) ELSE <<>>]
         /\ retry' = [retry EXCEPT ![t] = IF fails THEN @ + 1 ELSE @]
         /\ misled' = IF fails THEN misled
                      ELSE misled \cup {d \in Touched(t) : Existing(d) < store[d]}
  /\ UNCHANGED <<lockVars, store, cached, had, writing, raced, applied, status, muts>>

(* The version the last mutation of d leaves it with.                      *)
Outcome(t, d) ==
  LET m == muts[t][Max({i \in DOMAIN muts[t] : muts[t][i].doc = d})]
  IN  IF m.type = "set" THEN m.version ELSE 0

After(t, ds) == [d \in Docs |-> IF d \in ds THEN Outcome(t, d) ELSE store[d]]

(* What the cache shows otherwise once Badger holds new and the cache has   *)
(* been given what t leaves of ds; a deleted document leaves the cache.    *)
Given(t, ds, new) ==
  [d \in Docs |-> IF d \notin ds THEN cached[d]
                  ELSE IF Outcome(t, d) = new[d] THEN 0 ELSE Outcome(t, d)]

(* Badger holds new, and what it had it has had.                           *)
Store(new) ==
  /\ store' = new
  /\ had' = [d \in Read |-> had[d] \cup ({new[d]} \ {0})]

(* The write batch is filled, and the L1 cache with it, and flushed.       *)
(* Index, FLEX-COLUMN and shard statistics follow, under the locks still;  *)
(* none of them can fail the attempt (module Block has the first two).     *)
Flush(t) ==
  /\ at[t] = "flush"
  /\ Store(After(t, Touched(t)))
  /\ cached' = Given(t, Touched(t), store')
  /\ raced' = raced \ Touched(t) /\ misled' = misled \ Touched(t)
  /\ applied' = applied \cup {t}
  /\ at' = [at EXCEPT ![t] = "unlock"] /\ todo' = [todo EXCEPT ![t] = LockList(t)]
  /\ UNCHANGED <<lockVars, writing, status, muts, retry>>

(* A failed Flush: a large batch has stored a part of itself by then.      *)
FlushFails(t) ==
  /\ at[t] = "flush"
  /\ \E ds \in (SUBSET Touched(t)) \ {Touched(t)} :
       /\ Store(After(t, ds))
       /\ cached' = Given(t, Touched(t), store')
  /\ at' = [at EXCEPT ![t] = "failed"] /\ todo' = [todo EXCEPT ![t] = LockList(t)]
  /\ raced' = raced \ Touched(t) /\ misled' = misled \ Touched(t)
  /\ retry' = [retry EXCEPT ![t] = @ + 1]
  /\ UNCHANGED <<lockVars, writing, applied, status, muts>>

(* Unlock of a stripe by whoever asks: the lock does not know its holder.  *)
(* Of a free stripe it is fatal: "sync: Unlock of unlocked RWMutex".       *)
Unlock(st, who) ==
  /\ fatal' = (holder[st] = Nobody)
  /\ stolen' = (stolen \/ holder[st] \notin {who, Nobody})
  /\ holder' = [holder EXCEPT ![st] = Nobody]
  /\ UNCHANGED stripe

UnlockNext(t) ==
  /\ at[t] \in {"unlock", "failed", "release"} /\ todo[t] # <<>>
  /\ Unlock(Head(todo[t]), t)
  /\ todo' = [todo EXCEPT ![t] = Tail(@)]
  /\ UNCHANGED <<dataVars, status, muts, at, retry>>

(* The locks of an attempt are free again; todo is empty.                  *)
Freed(t, phase) == at[t] = phase /\ todo[t] = <<>>

MayRetry(t) == retry[t] < MaxRetries

(* After a sleep, in which tx.mu stays held and the status pending.        *)
Retry(t) ==
  /\ Freed(t, "failed") /\ MayRetry(t)
  /\ at' = [at EXCEPT ![t] = "lock"]
  /\ todo' = [todo EXCEPT ![t] = LockList(t)]
  /\ UNCHANGED <<lockVars, dataVars, status, muts, retry>>

(* The last attempt failed: the session keeps the aborted transaction.     *)
GiveUp(t) ==
  /\ Freed(t, "failed") /\ ~MayRetry(t)
  /\ End(t, "aborted")
  /\ UNCHANGED <<lockVars, dataVars, todo>>

(* The entry tx_commit is written after the documents, and a failure to    *)
(* write or sync it changes nothing.                                       *)
Committed(t) ==
  /\ Freed(t, "unlock")
  /\ End(t, "committed")
  /\ UNCHANGED <<lockVars, dataVars, todo>>

-----------------------------------------------------------------------------
(* Abort, by a session or by a goroutine of cleanupExpired, which found    *)
(* the transaction pending and too old, perhaps while Commit worked on it, *)
(* and waited for tx.mu: in either case the status decides under tx.mu.    *)

(* Bug: the status is not looked at again under tx.mu.                     *)
AbortableAnyway(t) == at[t] = "idle" /\ status[t] # "none"

Abortable(t) == Open(t)

(* The status changes first; the locks that releaseLocks unlocks were      *)
(* never taken, for only applyMutations takes them.                        *)
Abort(t) ==
  /\ Abortable(t)
  /\ status' = [status EXCEPT ![t] = "aborted"]
  /\ at' = [at EXCEPT ![t] = "release"]
  /\ todo' = [todo EXCEPT ![t] = LockList(t)]
  /\ UNCHANGED <<stripe, holder, fatal, stolen, dataVars, muts, retry>>

Released(t) ==
  /\ Freed(t, "release")
  /\ End(t, "aborted")
  /\ UNCHANGED <<lockVars, dataVars, todo>>

-----------------------------------------------------------------------------
(* The rest of the engine: writers that hold a stripe of a key of theirs,  *)
(* and the L1 cache, which forgets and is filled.                          *)

WriterLocks(w, st) ==
  /\ writing[w] = "new" /\ holder[st] = Nobody
  /\ holder' = [holder EXCEPT ![st] = w]
  /\ writing' = [writing EXCEPT ![w] = "locked"]
  /\ UNCHANGED <<stripe, fatal, stolen, txVars, store, cached, had, raced, misled, applied>>

(* An insert stores version 1, an update the next one, a delete none; then *)
(* the writer unlocks its stripe.                                          *)
WriterWrites(w, d, st) ==
  /\ writing[w] = "locked" /\ holder[st] = w
  /\ \E v \in {0, 1, store[d] + 1} \cap (0 .. MaxVersion) : Store([store EXCEPT ![d] = v])
  /\ cached' = [cached EXCEPT ![d] = 0]
  /\ raced' = raced \cup {e \in {d} : \E t \in Txs : at[t] = "flush" /\ d \in Touched(t)}
  /\ Unlock(st, w)
  /\ writing' = [writing EXCEPT ![w] = "done"]
  /\ UNCHANGED <<txVars, misled, applied>>

Evict(d) ==
  /\ cached[d] > 0
  /\ cached' = [cached EXCEPT ![d] = 0]
  /\ UNCHANGED <<lockVars, txVars, store, had, writing, raced, misled, applied>>

(* FindByID, or the fetch of a Find, that found nothing in L1 and read     *)
(* Badger, puts what it read there, however much later; it holds no lock   *)
(* that a transaction takes.                                               *)
LateFill(d) ==
  /\ d \in Read /\ cached[d] = 0
  /\ \E v \in had[d] \ {store[d]} : cached' = [cached EXCEPT ![d] = v]
  /\ UNCHANGED <<lockVars, txVars, store, had, writing, raced, misled, applied>>

-----------------------------------------------------------------------------
Init ==
  /\ stripe \in [Docs -> Stripes] /\ holder = [st \in Stripes |-> Nobody]
  /\ fatal = FALSE /\ stolen = FALSE
  /\ status = [t \in Txs |-> "none"] /\ muts = [t \in Txs |-> <<>>]
  /\ at = [t \in Txs |-> "idle"] /\ todo = [t \in Txs |-> <<>>] /\ retry = [t \in Txs |-> 0]
  /\ store = [d \in Docs |-> 1] /\ cached = [d \in Docs |-> 0] /\ had = [d \in Read |-> {1}]
  /\ writing = [w \in Writers |-> "new"] /\ raced = {} /\ misled = {} /\ applied = {}

CommitStep(t) ==
  \/ LockNext(t) \/ Validate(t) \/ Flush(t) \/ FlushFails(t)
  \/ UnlockNext(t) \/ Retry(t) \/ GiveUp(t) \/ Committed(t) \/ Released(t)

WriterStep(w) ==
  \E st \in Stripes : WriterLocks(w, st) \/ \E d \in Docs : WriterWrites(w, d, st)

SessionStep(t) ==
  \/ Begin(t) \/ CommitEmpty(t) \/ Commit(t) \/ Abort(t)
  \/ \E d \in Docs : Insert(t, d)
  \/ \E ds \in SUBSET Docs : Update(t, ds) \/ Delete(t, ds)

(* The process ends at a fatal unlock.  At a stolen lock only the model     *)
(* ends: no exclusion is left of which it could say anything.              *)
Next ==
  /\ ~fatal /\ ~stolen
  /\ \/ \E t \in Txs :
          SessionStep(t) \/ CommitStep(t)
     \/ \E w \in Writers : WriterStep(w)
     \/ \E d \in Docs : Evict(d) \/ LateFill(d)

Spec == Init /\ [][Next]_vars

-----------------------------------------------------------------------------
(* Every variable holds values of its kind.                                *)
TypeOK ==
  /\ stripe \in [Docs -> Stripes] /\ holder \in [Stripes -> Txs \cup Writers \cup {Nobody}]
  /\ status \in [Txs -> {"none", "pending", "committed", "aborted"}]
  /\ muts \in [Txs -> Seq(Mutation)] /\ \A t \in Txs : Len(muts[t]) <= MaxMutations
  /\ todo \in [Txs -> Seq(Stripes)]
  /\ at \in [Txs -> Phases] /\ retry \in [Txs -> 0 .. MaxRetries]
  /\ store \in [Docs -> 0 .. MaxVersion] /\ cached \in [Docs -> 0 .. MaxVersion]
  /\ had \in [Read -> SUBSET (1 .. MaxVersion)] /\ misled \subseteq Docs
  /\ writing \in [Writers -> {"new", "locked", "done"}]
  /\ raced \subseteq Docs /\ applied \subseteq Txs
  /\ fatal \in BOOLEAN /\ stolen \in BOOLEAN

(* Atomicity: what a transaction does to documents, it does when it ends   *)
(* committed, and all of it; one that ends aborted has stored nothing,     *)
(* unless a Flush failed half-way.  Expiry and ROLLBACK do not undo a      *)
(* commit that has begun.                                                  *)
AllOrNothing ==
  \A t \in Txs :
    /\ status[t] = "committed" => t \in applied
    /\ status[t] = "aborted" => t \notin applied

(* The version check, under the locks: a transaction's set never puts an   *)
(* older version over a newer one, unless an outside writer, whose locks   *)
(* are others, came in between, a lock was lost to an Abort, or the L1     *)
(* cache showed the check of that document an older version than Badger    *)
(* had, which a late fill leaves there.                                    *)
VersionsGrow ==
  [][\A t \in Txs, d \in Docs :
       at[t] = "flush" /\ at'[t] # "flush" /\ store'[d] # 0
         /\ d \notin raced \cup misled /\ ~stolen => store'[d] >= store[d]]_vars

(* What transactions lock excludes each other; the only unlock of a lock   *)
(* another holds, or nobody, is that of an Abort, which unlocks what only  *)
(* Commit locks.                                                           *)
LocksExclude ==
  /\ fatal \/ stolen => \E t \in Txs : at[t] = "release"
  /\ \/ stolen
     \/ \A t, u \in Txs :
          t # u /\ Applying(t) /\ Applying(u) => Touched(t) \cap Touched(u) = {}

Waits(t, u) == at[t] = "lock" /\ todo[t] # <<>> /\ holder[Head(todo[t])] = u

(* Locks are taken in the order of keys, so transactions that wait for     *)
(* each other in a circle, or one for itself, have keys of one stripe.     *)
NoCircle ==
  \A ts \in (SUBSET Txs) \ {{}} :
    (\A t \in ts : \E u \in ts : Waits(t, u))
      => \E t, u \in ts : \E i \in DOMAIN muts[t], j \in DOMAIN muts[u] :
           /\ <<t, i>> # <<u, j>> /\ stripe[muts[t][i].doc] = stripe[muts[u][j].doc]
           /\ t = u \/ muts[t][i].doc # muts[u][j].doc
=============================================================================
