----------------------------- MODULE BlockProofs -----------------------------
(***************************************************************************)
(* Proofs about Block, for any number of clients, documents, values and    *)
(* shards: the invariants its run checks follow from the inductive         *)
(* invariant IInv, which every action keeps.                               *)
(*                                                                         *)
(* IInv says of each document what every copy of it holds while one writer *)
(* is on its way through the copies (DocIs), and that two writers are on   *)
(* their way with one document only when it is excused (Unique), because   *)
(* they hold different locks.                                              *)
(*                                                                         *)
(* The first part says what each action does: an action A has a definition *)
(* DidA, which gives its client's task after the step field by field and   *)
(* every variable that the step changes, and a lemma that A is such a      *)
(* step.  The second part keeps to these facts and opens no action again:  *)
(* its lemmas XStep show that every step keeps one part of IInv, action by *)
(* action.                                                                 *)
(***************************************************************************)
EXTENDS Block, FiniteSetTheorems, TLAPS

-----------------------------------------------------------------------------
(* The inductive invariant *)

(* Where an operation may be.                                              *)
Phases(op) ==
  CASE op = "none" -> {"idle"}
    [] op = "insert" -> {"index", "cache", "load", "save", "write", "tell"}
    [] op = "batch" -> {"cache", "flush", "load", "save", "write", "tell"}
    [] op = "update" -> {"show", "load", "save", "write"}
    [] op = "delete" -> {"unflex", "show", "load", "save", "write"}
    [] op = "get" -> {"fetch", "fill", "done"}
    [] op = "count" -> {"lookup", "seek", "keep", "done"}
    [] OTHER -> {"lock", "lookup", "seek", "keep", "scan", "fetch", "fill", "done"}

(* What a writer writes, and what it has been to.                          *)
WriterShape(t) ==
  /\ t.op \notin Writers => t.ids = {}
  /\ t.op = "insert" => t.ids # {}
  /\ t.op \in Writers => t.todo \subseteq t.ids
  /\ t.shown \subseteq t.ids
  /\ t.op \in {"insert", "batch", "update"} => \A i \in t.ids : t.put[i] \in Vals
  /\ t.op = "delete" => t.put = NoDocs
  /\ t.pc = "show" => t.shown = t.ids \ t.todo
  /\ t.pc = "unflex" => t.shown = {}
  /\ t.pc = "flush" => t.todo = {}

(* What a reader looks for, and what it has in hand.                       *)
ReaderShape(t) ==
  /\ t.op \in {"find", "count", "update", "delete"} => t.val \in Vals
  /\ t.op = "get" => t.src = "none"
  /\ t.pc = "keep" => t.base \in Nat
  /\ t.op \in Readers /\ t.pc # "fill" => t.put = NoDocs
  /\ t.op \in Readers /\ t.pc = "fill" =>
       \A j, k \in Ids : t.put[j] # NoVal /\ t.put[k] # NoVal => j = k
  /\ t.op = "find" =>
       /\ t.pc \in {"lock", "lookup", "seek", "keep", "scan"} =>
            t.src = "none" /\ t.got = {}
       /\ t.pc \in {"fetch", "fill"} => t.src \in {"flex", "l2", "index"}
       /\ t.pc = "done" => t.src \in {"flex", "l2", "index", "scan"}

Shape ==
  \A c \in Clients :
    task[c].pc \in Phases(task[c].op) /\ WriterShape(task[c]) /\ ReaderShape(task[c])

(* Two operations never hold one lock.                                     *)
Excl == \A c, d \in Clients : c # d => Holds(task[c]) \cap Holds(task[d]) = {}

(* Two writers are busy with a document only if it is excused.             *)
Unique ==
  \A c, d \in Clients : c # d =>
    \A i \in task[c].ids \cap task[d].ids : "crossed" \in excuse[i]

(* Readers know every document that a writer is busy with.                 *)
MovedSees ==
  \A c, d \in Clients : task[c].op \in Readers => task[d].ids \subseteq task[c].moved

(* A snapshot of an open update is what Badger has, or it will not commit. *)
ReadsHold ==
  \A c \in Clients : task[c].op = "update" /\ task[c].pc = "show" =>
    /\ task[c].ids \subseteq task[c].reads
    /\ task[c].torn \/ \A i \in task[c].ids : docs[i] = task[c].val

(* Two operations between a load and a save of the count have met.         *)
SavesMeet ==
  \A c, d \in Clients :
    c # d /\ task[c].pc \in {"save", "write"} /\ task[d].pc \in {"save", "write"} => clash

(* An insert or a batch past its commit.                                   *)
Committed(t, i) ==
  /\ i \in t.ids
  /\ t.op = "insert" \/ (t.op = "batch" /\ t.pc \notin {"cache", "flush"})

(* Of these, the ones that have not told the feed and FLEX-COLUMN.         *)
Untold(t, i) == Committed(t, i) /\ (t.pc = "tell" => i \in t.todo)

(* An insert that has not been to the cache.                               *)
Uncached(t, i) == t.op = "insert" /\ t.pc \in {"index", "cache"} /\ i \in t.todo

(* An update or a delete that has shown a document and not committed.      *)
ShownEarly(t, i) == t.pc = "show" /\ i \in t.shown

(* A delete that has been to FLEX-COLUMN and not committed.                *)
Unflexed(t, i) ==
  t.op = "delete" /\ i \in t.ids /\ (t.pc = "show" \/ (t.pc = "unflex" /\ i \notin t.todo))

StoredIs(i) ==
  "crossed" \notin excuse[i] => \A c \in Clients : Committed(task[c], i) =>
    docs[i] = task[c].put[i]

CacheIs(i) ==
  excuse[i] \cap {"lateFill", "crossed", "undone"} = {} =>
    /\ \A c \in Clients : Ahead(task[c], i) => l1[i] \in {NoVal, task[c].put[i]}
    /\ (\A c \in Clients : ~Ahead(task[c], i) /\ ~Uncached(task[c], i)) =>
         l1[i] \in {NoVal, docs[i]}

FeedIs(i) ==
  excuse[i] \cap {"crossed", "undone"} = {} =>
    /\ \A c \in Clients : ShownEarly(task[c], i) => feed[i] = task[c].put[i]
    /\ (\A c \in Clients : ~ShownEarly(task[c], i) /\ ~Untold(task[c], i)) =>
         feed[i] = docs[i]

FlexIs(i) ==
  FlexEnabled /\ excuse[i] \subseteq {"lateFill", "unindexed"} =>
    /\ \A c \in Clients : task[c].op = "update" /\ ShownEarly(task[c], i) =>
         flex[i] = {task[c].put[i]} /\ flexLast[i] = task[c].put[i]
    /\ \A c \in Clients : Unflexed(task[c], i) => flex[i] = {} /\ flexLast[i] = NoVal
    /\ \A c \in Clients : Untold(task[c], i) =>
         \/ flex[i] = {} /\ flexLast[i] = NoVal
         \/ flex[i] = {task[c].put[i]} /\ flexLast[i] = task[c].put[i]
    /\ (\A c \in Clients : /\ ~(task[c].op = "update" /\ ShownEarly(task[c], i))
                           /\ ~Unflexed(task[c], i) /\ ~Untold(task[c], i))
       => flex[i] = {docs[i]} \ {NoVal} /\ flexLast[i] = docs[i]

FlexOff == ~FlexEnabled => flex = [i \in Ids |-> {}]

(* What a Find has of a document, or still has to fetch.                   *)
Answered(got, i) == \E g \in got : g[1] = i

InHand(t, i) ==
  \/ i \in t.todo
  \/ t.pc = "fill" /\ t.put[i] # NoVal
  \/ Answered(t.got, i)

(* What a Find knows of a document that nobody has written meanwhile.      *)
FindIs(t, i) ==
  /\ \A g \in t.got : g[1] = i => g[2] = docs[i]
  /\ t.pc = "fill" /\ t.put[i] # NoVal => t.put[i] = docs[i]
  /\ t.src = "flex" /\ t.pc \in {"fetch", "fill"} => (docs[i] = t.val <=> InHand(t, i))
  /\ t.src = "index" /\ t.pc \in {"fetch", "fill"} => (docs[i] = t.val => InHand(t, i))
  /\ t.pc = "keep" => (docs[i] = t.val => i \in t.todo)
  /\ t.pc = "done" /\ t.src # "l2" => (docs[i] = t.val <=> Answered(t.got, i))

FindsHold ==
  \A c \in Clients, i \in Ids :
    task[c].op = "find" /\ i \notin task[c].moved /\ excuse[i] = {} => FindIs(task[c], i)

DocIs(i) == StoredIs(i) /\ CacheIs(i) /\ FeedIs(i) /\ FlexIs(i)

DocsHold == \A i \in Ids : DocIs(i)

IInv ==
  /\ TypeOK /\ Shape /\ Excl /\ Unique /\ MovedSees
  /\ ReadsHold /\ SavesMeet /\ CountIsFresh /\ IndexCovers
  /\ DocsHold /\ FlexOff /\ FindsHold

-----------------------------------------------------------------------------
(* What a step does to the tasks *)

Typed == TypeOK /\ Shape

SameWork(t, u) ==
  /\ u.op = t.op /\ u.pc = t.pc /\ u.ids = t.ids /\ u.put = t.put /\ u.val = t.val
  /\ u.todo = t.todo /\ u.shown = t.shown /\ u.reads = t.reads /\ u.base = t.base
  /\ u.src = t.src /\ u.got = t.got

(* The other clients stay where they are: readers learn of the documents   *)
(* ids, and the updates that read one of the documents written are torn.   *)
Others(c, ids, written) ==
  \A d \in Clients \ {c} :
    /\ SameWork(task[d], task'[d])
    /\ task'[d].moved = IF task[d].op \in Readers THEN task[d].moved \cup ids
         ELSE task[d].moved
    /\ task'[d].torn = (task[d].torn \/
         (task[d].op = "update" /\ task[d].reads \cap written # {}))

(* A task, field by field.                                                 *)
Is(t, op, pc, ids, put, val, todo, shown, reads, torn, base, moved, src, got) ==
  /\ t.op = op /\ t.pc = pc /\ t.ids = ids /\ t.put = put /\ t.val = val
  /\ t.todo = todo /\ t.shown = shown /\ t.reads = reads /\ t.torn = torn
  /\ t.base = base /\ t.moved = moved /\ t.src = src /\ t.got = got

(* Client c's task after the step.                                         *)
Now(c, op, pc, ids, put, val, todo, shown, reads, torn, base, moved, src, got) ==
  Is(task'[c], op, pc, ids, put, val, todo, shown, reads, torn, base, moved, src, got)

(* The task of a client in no operation is typed.                          *)
LEMMA IdleType == Idle \in Task
  BY DEF Idle, Task, NoDocs, Pcs

(* A step moves its own client, and the others see what it writes.         *)
LEMMA ShiftOthers ==
  ASSUME task \in [Clients -> Task], NEW c \in Clients, NEW t \in Task, NEW w,
         task' = Shift(c, t, w)
  PROVE  /\ task'[c] = t
         /\ Others(c, t.ids, w)
<1>1. task'[c] = t
  BY DEF Shift
<1>2. ASSUME NEW d \in Clients \ {c}
      PROVE  /\ SameWork(task[d], task'[d])
             /\ task'[d].moved = IF task[d].op \in Readers THEN task[d].moved \cup t.ids
                  ELSE task[d].moved
             /\ task'[d].torn = (task[d].torn \/
                  (task[d].op = "update" /\ task[d].reads \cap w # {}))
  BY DEF Shift, Task, SameWork
<1> QED
  BY <1>1, <1>2 DEF Others

(* A step leaves tasks.                                                    *)
LEMMA ShiftType ==
  ASSUME task \in [Clients -> Task], NEW c \in Clients, NEW t \in Task, NEW w,
         task' = Shift(c, t, w)
  PROVE  task' \in [Clients -> Task]
<1>1. ASSUME NEW d \in Clients \ {c}
      PROVE  [task[d] EXCEPT
             !.moved = IF task[d].op \in Readers THEN @ \cup t.ids ELSE @,
             !.torn = @ \/ (task[d].op = "update" /\ task[d].reads \cap w # {})] \in Task
  <2> DEFINE m == IF task[d].op \in Readers THEN task[d].moved \cup t.ids ELSE task[d].moved
             b == task[d].torn \/ (task[d].op = "update" /\ task[d].reads \cap w # {})
  <2>1. task[d] \in Task
    BY <1>1
  <2>2. m \in SUBSET Ids
    BY <2>1 DEF Task
  <2>3. b \in BOOLEAN
    OBVIOUS
  <2> HIDE DEF m, b
  <2>4. [task[d] EXCEPT !.moved = m, !.torn = b] \in Task
    BY <2>1, <2>2, <2>3 DEF Task
  <2> QED BY <2>4 DEF m, b
<1> QED
  BY <1>1 DEF Shift

(* Only some operations come to a place.                                   *)
LEMMA PhaseOps ==
  ASSUME Typed
  PROVE  \A c \in Clients :
           /\ task[c].pc = "idle" => task[c].op = "none"
           /\ task[c].pc = "index" => task[c].op = "insert"
           /\ task[c].pc \in {"cache", "tell"} => task[c].op \in {"insert", "batch"}
           /\ task[c].pc = "flush" => task[c].op = "batch"
           /\ task[c].pc \in {"load", "save", "write"} => task[c].op \in Writers
           /\ task[c].pc = "show" => task[c].op \in {"update", "delete"}
           /\ task[c].pc = "unflex" => task[c].op = "delete"
           /\ task[c].pc \in {"lock", "scan"} => task[c].op = "find"
           /\ task[c].pc \in {"lookup", "seek", "keep"} => task[c].op \in {"find", "count"}
           /\ task[c].pc \in {"fetch", "fill"} => task[c].op \in {"get", "find"}
           /\ task[c].pc = "done" => task[c].op \in Readers
<1> TAKE c \in Clients
<1>1. task[c].op \in {"insert", "batch", "update", "delete", "get", "find", "count", "none"}
  BY DEF Typed, TypeOK, Task, Writers, Readers
<1>2. task[c].pc \in Phases(task[c].op)
  BY DEF Typed, Shape
<1> QED
  BY <1>1, <1>2 DEF Phases, Writers, Readers

-----------------------------------------------------------------------------
(* What each action does *)

(* A task that has answered is a task.                                     *)
LEMMA AnswerType ==
  ASSUME NEW t \in Task, NEW g \in SUBSET (Ids \X Vals)
  PROVE  [t EXCEPT !.pc = "done", !.src = "scan", !.got = g] \in Task
  BY DEF Task, Pcs

(* An insert starts: its document is in Badger.                            *)
DidInsert(c, i, v) ==
  /\ task[c] = Idle
  /\ task' \in [Clients -> Task]
  /\ Others(c, {i}, {i})
  /\ Now(c, "insert", "index", {i}, [NoDocs EXCEPT ![i] = v], NoVal, {i},
        {}, {}, FALSE, 0, {}, "none", {})
  /\ Free("insert", {i})
  /\ docs' = [docs EXCEPT ![i] = v]
  /\ excuse' = [Excused(Crossed(c, "insert", {i}), "crossed") EXCEPT
           ![i] = IF docs[i] \in {NoVal, v} THEN @ ELSE @ \cup {"overwritten"}]
  /\ UNCHANGED <<index, l1, l2, flex, flexLast, feed, count, whole, clash>>

(* Insert is such a step.                                                  *)
LEMMA InsertDoes ==
  ASSUME Typed, NEW c \in Clients, NEW i \in Ids, NEW v \in Vals, Insert(c, i, v)
  PROVE  DidInsert(c, i, v)
<1>1. task \in [Clients -> Task] /\ task[c] \in Task
  BY DEF Typed, TypeOK
<1>a0. {i} \in SUBSET Ids /\ {} \in SUBSET Ids
  OBVIOUS
<1>a1. [NoDocs EXCEPT ![i] = v] \in [Ids -> Vals \cup {NoVal}]
  BY DEF NoDocs
<1>g. task[c] = Idle
  BY DEF Insert, CanStart
<1>f. /\ Free("insert", {i})
      /\ docs' = [docs EXCEPT ![i] = v]
      /\ excuse' = [Excused(Crossed(c, "insert", {i}), "crossed") EXCEPT
                  ![i] = IF docs[i] \in {NoVal, v} THEN @ ELSE @ \cup {"overwritten"}]
      /\ UNCHANGED <<index, l1, l2, flex, flexLast, feed, count, whole, clash>>
  BY DEF Insert, CanStart, badgerVars, memVars, flexVars, metaVars, ghosts
<1> QED
  <2> DEFINE u == [Idle EXCEPT !.op = "insert", !.pc = "index", !.ids = {i},
    !.put = [NoDocs EXCEPT ![i] = v], !.todo = {i}]
  <2>1. u \in Task
    <3>1. "insert" \in Writers \cup Readers \cup {"none"} /\ "index" \in Pcs
      BY DEF Pcs, Writers, Readers
    <3> QED BY <1>1, <3>1, <1>a0, <1>a1, IdleType DEF Task
  <2>2. Is(u, "insert", "index", {i}, [NoDocs EXCEPT ![i] = v], NoVal, {i}, {}, {},
           FALSE, 0, {}, "none", {})
    BY <1>1, <1>a0, <1>a1 DEF Is, Task, Idle
  <2>3. task' = Shift(c, u, {i})
    BY <1>1, <1>a0, <1>a1 DEF Insert, Step
  <2> HIDE DEF u
  <2>4. task'[c] = u /\ Others(c, u.ids, {i}) /\ task' \in [Clients -> Task]
    BY <1>1, <2>1, <2>3, ShiftOthers, ShiftType
  <2> QED
    BY <1>g, <1>f, <2>2, <2>4 DEF Now, Is, DidInsert

(* A batch starts with the block's lock.                                   *)
DidBatch(c, put) ==
  /\ task[c] = Idle
  /\ task' \in [Clients -> Task]
  /\ Others(c, {i \in Ids : put[i] # NoVal}, {})
  /\ Now(c, "batch", "cache", {i \in Ids : put[i] # NoVal}, put, NoVal,
        {i \in Ids : put[i] # NoVal}, {}, {}, FALSE, 0, {}, "none", {})
  /\ Free("batch", {i \in Ids : put[i] # NoVal})
  /\ excuse' = Excused(Crossed(c, "batch", {i \in Ids : put[i] # NoVal}), "crossed")
  /\ UNCHANGED <<docs, index, l1, l2, flex, flexLast, feed, count, whole, clash>>

(* Batch is such a step.                                                   *)
LEMMA BatchDoes ==
  ASSUME Typed, NEW c \in Clients, NEW put \in [Ids -> Vals \cup {NoVal}], Batch(c, put)
  PROVE  DidBatch(c, put)
<1>1. task \in [Clients -> Task] /\ task[c] \in Task
  BY DEF Typed, TypeOK
<1>g. task[c] = Idle
  BY DEF Batch, CanStart
<1>f. /\ Free("batch", {i \in Ids : put[i] # NoVal})
      /\ excuse' = Excused(Crossed(c, "batch", {i \in Ids : put[i] # NoVal}), "crossed")
      /\ UNCHANGED <<docs, index, l1, l2, flex, flexLast, feed, count, whole, clash>>
  BY DEF Batch, CanStart, badgerVars, memVars, flexVars, metaVars, ghosts
<1> QED
  <2> DEFINE u == [Idle EXCEPT !.op = "batch", !.pc = "cache",
    !.ids = {i \in Ids : put[i] # NoVal}, !.put = put,
      !.todo = {i \in Ids : put[i] # NoVal}]
  <2>1. u \in Task
    <3>1. "batch" \in Writers \cup Readers \cup {"none"} /\ "cache" \in Pcs
      BY DEF Pcs, Writers, Readers
    <3> QED BY <1>1, <3>1, IdleType DEF Task
  <2>2. Is(u, "batch", "cache", {i \in Ids : put[i] # NoVal}, put, NoVal,
           {i \in Ids : put[i] # NoVal}, {}, {}, FALSE, 0, {}, "none", {})
    BY <1>1 DEF Is, Task, Idle
  <2>3. task' = Shift(c, u, {})
    BY <1>1 DEF Batch, Step
  <2> HIDE DEF u
  <2>4. task'[c] = u /\ Others(c, u.ids, {}) /\ task' \in [Clients -> Task]
    BY <1>1, <2>1, <2>3, ShiftOthers, ShiftType
  <2> QED
    BY <1>g, <1>f, <2>2, <2>4 DEF Now, Is, DidBatch

(* An update opens its transaction and finds its documents.                *)
DidUpdateStart(c, v, w, ids) ==
  /\ task[c] = Idle /\ ids \subseteq Matching(v)
  /\ task' \in [Clients -> Task]
  /\ Others(c, ids, {})
  /\ Now(c, "update", "show", ids,
        [i \in Ids |-> IF i \in ids THEN w ELSE NoVal], v, ids, {},
        {i \in Ids : docs[i] # NoVal}, FALSE, 0, {}, "none", {})
  /\ Free("update", ids)
  /\ excuse' = Excused(Crossed(c, "update", ids), "crossed")
  /\ UNCHANGED <<docs, index, l1, l2, flex, flexLast, feed, count, whole, clash>>

(* UpdateStart is such a step.                                             *)
LEMMA UpdateStartDoes ==
  ASSUME Typed, NEW c \in Clients, NEW v \in Vals, NEW w \in Vals, NEW ids \in SUBSET Ids,
         UpdateStart(c, v, w, ids)
  PROVE  DidUpdateStart(c, v, w, ids)
<1>1. task \in [Clients -> Task] /\ task[c] \in Task
  BY DEF Typed, TypeOK
<1>a0. [k \in Ids |-> IF k \in ids THEN w ELSE NoVal] \in [Ids -> Vals \cup {NoVal}]
  OBVIOUS
<1>g. task[c] = Idle /\ ids \subseteq Matching(v)
  BY DEF UpdateStart, CanStart, Logged
<1>f. /\ Free("update", ids)
      /\ excuse' = Excused(Crossed(c, "update", ids), "crossed")
      /\ UNCHANGED <<docs, index, l1, l2, flex, flexLast, feed, count, whole, clash>>
  BY DEF UpdateStart, CanStart, Logged, badgerVars, memVars, flexVars, metaVars, ghosts
<1> QED
  <2> DEFINE u == [Idle EXCEPT !.op = "update", !.pc = "show", !.ids = ids,
    !.put = [i \in Ids |-> IF i \in ids THEN w ELSE NoVal], !.val = v, !.todo = ids,
      !.reads = {i \in Ids : docs[i] # NoVal}]
  <2>1. u \in Task
    <3>1. "update" \in Writers \cup Readers \cup {"none"} /\ "show" \in Pcs
      BY DEF Pcs, Writers, Readers
    <3> QED BY <1>1, <3>1, <1>a0, IdleType DEF Task
  <2>2. Is(u, "update", "show", ids, [i \in Ids |-> IF i \in ids THEN w ELSE NoVal],
           v, ids, {}, {i \in Ids : docs[i] # NoVal}, FALSE, 0, {}, "none", {})
    BY <1>1, <1>a0 DEF Is, Task, Idle
  <2>3. task' = Shift(c, u, {})
    BY <1>1, <1>a0 DEF UpdateStart, Step
  <2> HIDE DEF u
  <2>4. task'[c] = u /\ Others(c, u.ids, {}) /\ task' \in [Clients -> Task]
    BY <1>1, <2>1, <2>3, ShiftOthers, ShiftType
  <2> QED
    BY <1>g, <1>f, <2>2, <2>4 DEF Now, Is, DidUpdateStart

(* A delete has found its documents.                                       *)
DidDeleteStart(c, v, ids) ==
  /\ task[c] = Idle /\ ids \subseteq Matching(v)
  /\ task' \in [Clients -> Task]
  /\ Others(c, ids, {})
  /\ Now(c, "delete", "unflex", ids, NoDocs, v, ids, {}, {}, FALSE, 0, {},
        "none", {})
  /\ Free("delete", ids)
  /\ excuse' = Excused(Crossed(c, "delete", ids), "crossed")
  /\ UNCHANGED <<docs, index, l1, l2, flex, flexLast, feed, count, whole, clash>>

(* DeleteStart is such a step.                                             *)
LEMMA DeleteStartDoes ==
  ASSUME Typed, NEW c \in Clients, NEW v \in Vals, NEW ids \in SUBSET Ids,
         DeleteStart(c, v, ids)
  PROVE  DidDeleteStart(c, v, ids)
<1>1. task \in [Clients -> Task] /\ task[c] \in Task
  BY DEF Typed, TypeOK
<1>g. task[c] = Idle /\ ids \subseteq Matching(v)
  BY DEF DeleteStart, CanStart, Logged
<1>f. /\ Free("delete", ids)
      /\ excuse' = Excused(Crossed(c, "delete", ids), "crossed")
      /\ UNCHANGED <<docs, index, l1, l2, flex, flexLast, feed, count, whole, clash>>
  BY DEF DeleteStart, CanStart, Logged, badgerVars, memVars, flexVars, metaVars, ghosts
<1> QED
  <2> DEFINE u == [Idle EXCEPT !.op = "delete", !.pc = "unflex", !.ids = ids, !.val = v,
    !.todo = ids]
  <2>1. u \in Task
    <3>1. "delete" \in Writers \cup Readers \cup {"none"} /\ "unflex" \in Pcs
      BY DEF Pcs, Writers, Readers
    <3> QED BY <1>1, <3>1, IdleType DEF Task
  <2>2. Is(u, "delete", "unflex", ids, NoDocs, v, ids, {}, {}, FALSE, 0, {}, "none",
           {})
    BY <1>1 DEF Is, Task, Idle
  <2>3. task' = Shift(c, u, {})
    BY <1>1 DEF DeleteStart, Step
  <2> HIDE DEF u
  <2>4. task'[c] = u /\ Others(c, u.ids, {}) /\ task' \in [Clients -> Task]
    BY <1>1, <2>1, <2>3, ShiftOthers, ShiftType
  <2> QED
    BY <1>g, <1>f, <2>2, <2>4 DEF Now, Is, DidDeleteStart

(* A FindByID starts.                                                      *)
DidGet(c, i) ==
  /\ task[c] = Idle
  /\ task' \in [Clients -> Task]
  /\ Others(c, {}, {})
  /\ Now(c, "get", "fetch", {}, NoDocs, NoVal, {i}, {}, {}, FALSE, 0,
        Moving, "none", {})
  /\ UNCHANGED <<docs, index, l1, l2, flex, flexLast, feed, count, whole, excuse, clash>>

(* Get is such a step.                                                     *)
LEMMA GetDoes ==
  ASSUME Typed, NEW c \in Clients, NEW i \in Ids, Get(c, i)
  PROVE  DidGet(c, i)
<1>1. task \in [Clients -> Task] /\ task[c] \in Task
  BY DEF Typed, TypeOK
<1>a0. Moving \in SUBSET Ids
  BY <1>1 DEF Moving, Task
<1>g. task[c] = Idle
  BY DEF Get, CanStart
<1>f. /\ UNCHANGED <<docs, index, l1, l2, flex, flexLast, feed, count, whole, excuse,
           clash>>
  BY DEF Get, CanStart, badgerVars, memVars, flexVars, metaVars, ghosts
<1> QED
  <2> DEFINE u == [Reading("get", "fetch", NoVal) EXCEPT !.todo = {i}]
  <2>1. u \in Task
    <3>1. "get" \in Writers \cup Readers \cup {"none"} /\ "fetch" \in Pcs
      BY DEF Pcs, Writers, Readers
    <3> QED BY <1>1, <3>1, <1>a0, IdleType DEF Task, Reading, Idle, NoDocs
  <2>2. Is(u, "get", "fetch", {}, NoDocs, NoVal, {i}, {}, {}, FALSE, 0, Moving,
           "none", {})
    BY <1>1, <1>a0 DEF Is, Task, Idle, Reading
  <2>3. task' = Shift(c, u, {})
    BY <1>1, <1>a0 DEF Get, Step
  <2> HIDE DEF u
  <2>4. task'[c] = u /\ Others(c, u.ids, {}) /\ task' \in [Clients -> Task]
    BY <1>1, <2>1, <2>3, ShiftOthers, ShiftType
  <2> QED
    BY <1>g, <1>f, <2>2, <2>4 DEF Now, Is, DidGet

(* A Find starts, with FLEX-COLUMN if that has an answer.                  *)
DidFind(c, v, alone) ==
  /\ task[c] = Idle
  /\ task' \in [Clients -> Task]
  /\ alone /\ FlexIds(v) # {} =>
       /\ Others(c, {}, {})
       /\ Now(c, "find", "fetch", {}, NoDocs, v, FlexIds(v), {}, {}, FALSE,
             0, Moving, "flex", {})
  /\ ~(alone /\ FlexIds(v) # {}) =>
       /\ Others(c, {}, {})
       /\ Now(c, "find", "lock", {}, NoDocs, v, {}, {}, {}, FALSE, 0,
             Moving, "none", {})
  /\ UNCHANGED <<docs, index, l1, l2, flex, flexLast, feed, count, whole, excuse, clash>>

(* Find is such a step.                                                    *)
LEMMA FindDoes ==
  ASSUME Typed, NEW c \in Clients, NEW v \in Vals, NEW alone \in BOOLEAN, Find(c, v, alone)
  PROVE  DidFind(c, v, alone)
<1>1. task \in [Clients -> Task] /\ task[c] \in Task
  BY DEF Typed, TypeOK
<1>a0. Moving \in SUBSET Ids
  BY <1>1 DEF Moving, Task
<1>a1. FlexIds(v) \in SUBSET Ids
  BY DEF FlexIds
<1>g. task[c] = Idle
  BY DEF Find, CanStart
<1>f. /\ UNCHANGED <<docs, index, l1, l2, flex, flexLast, feed, count, whole, excuse,
           clash>>
  BY DEF Find, CanStart, badgerVars, memVars, flexVars, metaVars, ghosts
<1>3. ASSUME alone /\ FlexIds(v) # {}
      PROVE  /\ task' \in [Clients -> Task] /\ Others(c, {}, {})
             /\ Now(c, "find", "fetch", {}, NoDocs, v, FlexIds(v), {}, {}, FALSE, 0,
                  Moving, "flex", {})
  <2> DEFINE u == [Idle EXCEPT !.op = "find", !.pc = "fetch", !.val = v,
    !.todo = FlexIds(v), !.moved = Moving, !.src = "flex"]
  <2>1. u \in Task
    <3>1. "find" \in Writers \cup Readers \cup {"none"} /\ "fetch" \in Pcs /\ "flex" \in {"none", "flex", "l2", "index", "scan"}
      BY DEF Pcs, Writers, Readers
    <3> QED BY <1>1, <3>1, <1>a0, <1>a1, <1>3, IdleType DEF Task
  <2>2. Is(u, "find", "fetch", {}, NoDocs, v, FlexIds(v), {}, {}, FALSE, 0, Moving,
           "flex", {})
    BY <1>1, <1>a0, <1>a1, <1>3 DEF Is, Task, Idle
  <2>3. task' = Shift(c, u, {})
    BY <1>1, <1>a0, <1>a1, <1>3 DEF Find, Step, Reading, Idle
  <2> HIDE DEF u
  <2>4. task'[c] = u /\ Others(c, u.ids, {}) /\ task' \in [Clients -> Task]
    BY <1>1, <2>1, <2>3, ShiftOthers, ShiftType
  <2> QED
    BY <1>g, <1>f, <2>2, <2>4 DEF Now, Is
<1>4. ASSUME ~(alone /\ FlexIds(v) # {})
      PROVE  /\ task' \in [Clients -> Task] /\ Others(c, {}, {})
             /\ Now(c, "find", "lock", {}, NoDocs, v, {}, {}, {}, FALSE, 0, Moving,
                  "none", {})
  <2> DEFINE u == [Idle EXCEPT !.op = "find", !.pc = "lock", !.val = v, !.moved = Moving]
  <2>1. u \in Task
    <3>1. "find" \in Writers \cup Readers \cup {"none"} /\ "lock" \in Pcs
      BY DEF Pcs, Writers, Readers
    <3> QED BY <1>1, <3>1, <1>a0, <1>a1, <1>4, IdleType DEF Task
  <2>2. Is(u, "find", "lock", {}, NoDocs, v, {}, {}, {}, FALSE, 0, Moving, "none",
           {})
    BY <1>1, <1>a0, <1>a1, <1>4 DEF Is, Task, Idle
  <2>3. task' = Shift(c, u, {})
    BY <1>1, <1>a0, <1>a1, <1>4 DEF Find, Step, Reading, Idle
  <2> HIDE DEF u
  <2>4. task'[c] = u /\ Others(c, u.ids, {}) /\ task' \in [Clients -> Task]
    BY <1>1, <2>1, <2>3, ShiftOthers, ShiftType
  <2> QED
    BY <1>g, <1>f, <2>2, <2>4 DEF Now, Is
<1> QED
  BY <1>g, <1>f, <1>3, <1>4 DEF DidFind

(* A Count starts.                                                         *)
DidCount(c, v) ==
  /\ task[c] = Idle
  /\ task' \in [Clients -> Task]
  /\ Others(c, {}, {})
  /\ Now(c, "count", "lookup", {}, NoDocs, v, {}, {}, {}, FALSE, 0, Moving,
        "none", {})
  /\ UNCHANGED <<docs, index, l1, l2, flex, flexLast, feed, count, whole, excuse, clash>>

(* Count is such a step.                                                   *)
LEMMA CountDoes ==
  ASSUME Typed, NEW c \in Clients, NEW v \in Vals, Count(c, v)
  PROVE  DidCount(c, v)
<1>1. task \in [Clients -> Task] /\ task[c] \in Task
  BY DEF Typed, TypeOK
<1>a0. Moving \in SUBSET Ids
  BY <1>1 DEF Moving, Task
<1>g. task[c] = Idle
  BY DEF Count, CanStart
<1>f. /\ UNCHANGED <<docs, index, l1, l2, flex, flexLast, feed, count, whole, excuse,
           clash>>
  BY DEF Count, CanStart, badgerVars, memVars, flexVars, metaVars, ghosts
<1> QED
  <2> DEFINE u == [Idle EXCEPT !.op = "count", !.pc = "lookup", !.val = v, !.moved = Moving]
  <2>1. u \in Task
    <3>1. "count" \in Writers \cup Readers \cup {"none"} /\ "lookup" \in Pcs
      BY DEF Pcs, Writers, Readers
    <3> QED BY <1>1, <3>1, <1>a0, IdleType DEF Task
  <2>2. Is(u, "count", "lookup", {}, NoDocs, v, {}, {}, {}, FALSE, 0, Moving,
           "none", {})
    BY <1>1, <1>a0 DEF Is, Task, Idle
  <2>3. task' = Shift(c, u, {})
    BY <1>1, <1>a0 DEF Count, Step, Reading, Idle
  <2> HIDE DEF u
  <2>4. task'[c] = u /\ Others(c, u.ids, {}) /\ task' \in [Clients -> Task]
    BY <1>1, <2>1, <2>3, ShiftOthers, ShiftType
  <2> QED
    BY <1>g, <1>f, <2>2, <2>4 DEF Now, Is, DidCount

(* An insert builds its index entries.                                     *)
DidInsertIndex(c) ==
  /\ task[c].pc = "index"
  /\ task' \in [Clients -> Task]
  /\ Others(c, task[c].ids, {})
  /\ Now(c, task[c].op, "cache", task[c].ids, task[c].put, task[c].val,
        task[c].todo, task[c].shown, task[c].reads, task[c].torn,
        task[c].base, task[c].moved, task[c].src, task[c].got)
  /\ index' = [i \in Ids |-> IF i \in task[c].ids THEN index[i] \cup {task[c].put[i]}
       ELSE index[i]]
  /\ UNCHANGED <<docs, l1, l2, flex, flexLast, feed, count, whole, excuse, clash>>

(* InsertIndex is such a step.                                             *)
LEMMA InsertIndexDoes ==
  ASSUME Typed, NEW c \in Clients, InsertIndex(c)
  PROVE  DidInsertIndex(c)
<1>1. task \in [Clients -> Task] /\ task[c] \in Task
  BY DEF Typed, TypeOK
<1>g. task[c].pc = "index"
  BY DEF InsertIndex
<1>f. /\ index' = [i \in Ids |-> IF i \in task[c].ids THEN index[i] \cup {task[c].put[i]}
           ELSE index[i]]
      /\ UNCHANGED <<docs, l1, l2, flex, flexLast, feed, count, whole, excuse, clash>>
  BY DEF InsertIndex, badgerVars, memVars, flexVars, metaVars, ghosts
<1> QED
  <2> DEFINE u == [task[c] EXCEPT !.pc = "cache"]
  <2>1. u \in Task
    <3>1. "cache" \in Pcs
      BY DEF Pcs, Writers, Readers
    <3> QED BY <1>1, <3>1, IdleType DEF Task
  <2>2. Is(u, task[c].op, "cache", task[c].ids, task[c].put, task[c].val,
           task[c].todo, task[c].shown, task[c].reads, task[c].torn,
           task[c].base, task[c].moved, task[c].src, task[c].got)
    BY <1>1 DEF Is, Task, Idle
  <2>3. task' = Shift(c, u, {})
    BY <1>1 DEF InsertIndex, Step
  <2> HIDE DEF u
  <2>4. task'[c] = u /\ Others(c, u.ids, {}) /\ task' \in [Clients -> Task]
    BY <1>1, <2>1, <2>3, ShiftOthers, ShiftType
  <2> QED
    BY <1>g, <1>f, <2>2, <2>4 DEF Now, Is, DidInsertIndex

(* An insert goes on without its index entries.                            *)
DidInsertIndexFails(c) ==
  /\ task[c].pc = "index"
  /\ task' \in [Clients -> Task]
  /\ Others(c, task[c].ids, {})
  /\ Now(c, task[c].op, "cache", task[c].ids, task[c].put, task[c].val,
        task[c].todo, task[c].shown, task[c].reads, task[c].torn,
        task[c].base, task[c].moved, task[c].src, task[c].got)
  /\ excuse' = Excused(task[c].ids, "unindexed")
  /\ UNCHANGED <<docs, index, l1, l2, flex, flexLast, feed, count, whole, clash>>

(* InsertIndexFails is such a step.                                        *)
LEMMA InsertIndexFailsDoes ==
  ASSUME Typed, NEW c \in Clients, InsertIndexFails(c)
  PROVE  DidInsertIndexFails(c)
<1>1. task \in [Clients -> Task] /\ task[c] \in Task
  BY DEF Typed, TypeOK
<1>g. task[c].pc = "index"
  BY DEF InsertIndexFails
<1>f. /\ excuse' = Excused(task[c].ids, "unindexed")
      /\ UNCHANGED <<docs, index, l1, l2, flex, flexLast, feed, count, whole, clash>>
  BY DEF InsertIndexFails, badgerVars, memVars, flexVars, metaVars, ghosts
<1> QED
  <2> DEFINE u == [task[c] EXCEPT !.pc = "cache"]
  <2>1. u \in Task
    <3>1. "cache" \in Pcs
      BY DEF Pcs
    <3> QED BY <1>1, <3>1, IdleType DEF Task
  <2>2. Is(u, task[c].op, "cache", task[c].ids, task[c].put, task[c].val,
           task[c].todo, task[c].shown, task[c].reads, task[c].torn,
           task[c].base, task[c].moved, task[c].src, task[c].got)
    BY <1>1 DEF Is, Task, Idle
  <2>3. task' = Shift(c, u, {})
    BY <1>1 DEF InsertIndexFails, Step
  <2> HIDE DEF u
  <2>4. task'[c] = u /\ Others(c, u.ids, {}) /\ task' \in [Clients -> Task]
    BY <1>1, <2>1, <2>3, ShiftOthers, ShiftType
  <2> QED
    BY <1>g, <1>f, <2>2, <2>4 DEF Now, Is, DidInsertIndexFails

(* A batch is in Badger.                                                   *)
DidBatchFlush(c) ==
  /\ task[c].pc = "flush"
  /\ task' \in [Clients -> Task]
  /\ Others(c, task[c].ids, task[c].ids)
  /\ Now(c, task[c].op, "load", task[c].ids, task[c].put, task[c].val,
        task[c].todo, task[c].shown, task[c].reads, task[c].torn,
        task[c].base, task[c].moved, task[c].src, task[c].got)
  /\ Stored(task[c], task[c].ids)
  /\ excuse' = Excused(Replaces(task[c]), "overwritten")
  /\ UNCHANGED <<l1, l2, flex, flexLast, feed, count, whole, clash>>

(* BatchFlush is such a step.                                              *)
LEMMA BatchFlushDoes ==
  ASSUME Typed, NEW c \in Clients, BatchFlush(c)
  PROVE  DidBatchFlush(c)
<1>1. task \in [Clients -> Task] /\ task[c] \in Task
  BY DEF Typed, TypeOK
<1>g. task[c].pc = "flush"
  BY DEF BatchFlush
<1>f. /\ Stored(task[c], task[c].ids)
      /\ excuse' = Excused(Replaces(task[c]), "overwritten")
      /\ UNCHANGED <<l1, l2, flex, flexLast, feed, count, whole, clash>>
  BY DEF BatchFlush, badgerVars, memVars, flexVars, metaVars, ghosts
<1> QED
  <2> DEFINE u == [task[c] EXCEPT !.pc = "load"]
  <2>1. u \in Task
    BY <1>1, IdleType DEF Task, Pcs, Writers, Readers
  <2>2. Is(u, task[c].op, "load", task[c].ids, task[c].put, task[c].val,
           task[c].todo, task[c].shown, task[c].reads, task[c].torn,
           task[c].base, task[c].moved, task[c].src, task[c].got)
    BY <1>1 DEF Is, Task, Idle
  <2>3. task' = Shift(c, u, task[c].ids)
    BY <1>1 DEF BatchFlush, Step
  <2> HIDE DEF u
  <2>4. task'[c] = u /\ Others(c, u.ids, task[c].ids) /\ task' \in [Clients -> Task]
    BY <1>1, <2>1, <2>3, ShiftOthers, ShiftType
  <2> QED
    BY <1>g, <1>f, <2>2, <2>4 DEF Now, Is, DidBatchFlush

(* A part of a batch is in Badger, and the batch ends.                     *)
DidBatchFlushFails(c, stored) ==
  /\ task[c].pc = "flush" /\ stored \subseteq task[c].ids
  /\ task' \in [Clients -> Task]
  /\ Others(c, {}, stored)
  /\ Now(c, "none", "idle", {}, NoDocs, NoVal, {}, {}, {}, FALSE, 0, {},
        "none", {})
  /\ Stored(task[c], stored)
  /\ excuse' = Excused(task[c].ids, "undone")
  /\ UNCHANGED <<l1, l2, flex, flexLast, feed, count, whole, clash>>

(* BatchFlushFails is such a step.                                         *)
LEMMA BatchFlushFailsDoes ==
  ASSUME Typed, NEW c \in Clients, NEW stored \in SUBSET Ids, BatchFlushFails(c, stored)
  PROVE  DidBatchFlushFails(c, stored)
<1>1. task \in [Clients -> Task] /\ task[c] \in Task
  BY DEF Typed, TypeOK
<1>g. task[c].pc = "flush" /\ stored \subseteq task[c].ids
  BY DEF BatchFlushFails
<1>f. /\ Stored(task[c], stored)
      /\ excuse' = Excused(task[c].ids, "undone")
      /\ UNCHANGED <<l1, l2, flex, flexLast, feed, count, whole, clash>>
  BY DEF BatchFlushFails, badgerVars, memVars, flexVars, metaVars, ghosts
<1> QED
  <2> DEFINE u == Idle
  <2>1. u \in Task
    BY <1>1, IdleType DEF Task, Pcs, Writers, Readers
  <2>2. Is(u, "none", "idle", {}, NoDocs, NoVal, {}, {}, {}, FALSE, 0, {}, "none",
           {})
    BY <1>1 DEF Is, Task, Idle
  <2>3. task' = Shift(c, u, stored)
    BY <1>1 DEF BatchFlushFails, Step
  <2> HIDE DEF u
  <2>4. task'[c] = u /\ Others(c, u.ids, stored) /\ task' \in [Clients -> Task]
    BY <1>1, <2>1, <2>3, ShiftOthers, ShiftType
  <2> QED
    BY <1>g, <1>f, <2>2, <2>4 DEF Now, Is, DidBatchFlushFails

(* A writer loads the count.                                               *)
DidLoadCount(c) ==
  /\ task[c].pc = "load"
  /\ task' \in [Clients -> Task]
  /\ Others(c, task[c].ids, {})
  /\ Now(c, task[c].op, "save", task[c].ids, task[c].put, task[c].val,
        task[c].todo, task[c].shown, task[c].reads, task[c].torn,
        count', task[c].moved, task[c].src, task[c].got)
  /\ count' = IF whole THEN count ELSE 0
  /\ whole' = TRUE
  /\ clash' = (clash \/ Meets(c))
  /\ UNCHANGED <<docs, index, l1, l2, flex, flexLast, feed, excuse>>

(* LoadCount is such a step.                                               *)
LEMMA LoadCountDoes ==
  ASSUME Typed, NEW c \in Clients, LoadCount(c)
  PROVE  DidLoadCount(c)
<1>1. task \in [Clients -> Task] /\ task[c] \in Task
  BY DEF Typed, TypeOK
<1>a0. count' \in Int
  BY DEF LoadCount, Typed, TypeOK
<1>g. task[c].pc = "load"
  BY DEF LoadCount
<1>f. /\ count' = IF whole THEN count ELSE 0
      /\ whole' = TRUE
      /\ clash' = (clash \/ Meets(c))
      /\ UNCHANGED <<docs, index, l1, l2, flex, flexLast, feed, excuse>>
  BY DEF LoadCount, badgerVars, memVars, flexVars, metaVars, ghosts
<1> QED
  <2> DEFINE u == [task[c] EXCEPT !.pc = "save", !.base = count']
  <2>1. u \in Task
    BY <1>1, <1>a0, IdleType DEF Task, Pcs, Writers, Readers
  <2>2. Is(u, task[c].op, "save", task[c].ids, task[c].put, task[c].val,
           task[c].todo, task[c].shown, task[c].reads, task[c].torn, count',
           task[c].moved, task[c].src, task[c].got)
    BY <1>1, <1>a0 DEF Is, Task, Idle
  <2>3. task' = Shift(c, u, {})
    BY <1>1, <1>a0 DEF LoadCount, Step
  <2> HIDE DEF u
  <2>4. task'[c] = u /\ Others(c, u.ids, {}) /\ task' \in [Clients -> Task]
    BY <1>1, <2>1, <2>3, ShiftOthers, ShiftType
  <2> QED
    BY <1>g, <1>f, <2>2, <2>4 DEF Now, Is, DidLoadCount

(* A writer cuts block.json short.                                         *)
DidSaveBegins(c) ==
  /\ task[c].pc = "save"
  /\ task' \in [Clients -> Task]
  /\ Others(c, task[c].ids, {})
  /\ Now(c, task[c].op, "write", task[c].ids, task[c].put, task[c].val,
        task[c].todo, task[c].shown, task[c].reads, task[c].torn,
        task[c].base, task[c].moved, task[c].src, task[c].got)
  /\ whole' = FALSE
  /\ UNCHANGED <<docs, index, l1, l2, flex, flexLast, feed, count, excuse, clash>>

(* SaveBegins is such a step.                                              *)
LEMMA SaveBeginsDoes ==
  ASSUME Typed, NEW c \in Clients, SaveBegins(c)
  PROVE  DidSaveBegins(c)
<1>1. task \in [Clients -> Task] /\ task[c] \in Task
  BY DEF Typed, TypeOK
<1>g. task[c].pc = "save"
  BY DEF SaveBegins
<1>f. /\ whole' = FALSE
      /\ UNCHANGED <<docs, index, l1, l2, flex, flexLast, feed, count, excuse, clash>>
  BY DEF SaveBegins, badgerVars, memVars, flexVars, metaVars, ghosts
<1> QED
  <2> DEFINE u == [task[c] EXCEPT !.pc = "write"]
  <2>1. u \in Task
    BY <1>1, IdleType DEF Task, Pcs, Writers, Readers
  <2>2. Is(u, task[c].op, "write", task[c].ids, task[c].put, task[c].val,
           task[c].todo, task[c].shown, task[c].reads, task[c].torn,
           task[c].base, task[c].moved, task[c].src, task[c].got)
    BY <1>1 DEF Is, Task, Idle
  <2>3. task' = Shift(c, u, {})
    BY <1>1 DEF SaveBegins, Step
  <2> HIDE DEF u
  <2>4. task'[c] = u /\ Others(c, u.ids, {}) /\ task' \in [Clients -> Task]
    BY <1>1, <2>1, <2>3, ShiftOthers, ShiftType
  <2> QED
    BY <1>g, <1>f, <2>2, <2>4 DEF Now, Is, DidSaveBegins

(* A writer saves the count.                                               *)
DidSaveCount(c) ==
  /\ task[c].pc = "write"
  /\ task' \in [Clients -> Task]
  /\ task[c].op \in {"insert", "batch"} =>
       /\ Others(c, task[c].ids, {})
       /\ Now(c, task[c].op, "tell", task[c].ids, task[c].put, task[c].val,
             task[c].ids, task[c].shown, task[c].reads, task[c].torn, 0,
             task[c].moved, task[c].src, task[c].got)
  /\ task[c].op \notin {"insert", "batch"} =>
       /\ Others(c, {}, {})
       /\ Now(c, "none", "idle", {}, NoDocs, NoVal, {}, {}, {}, FALSE, 0,
             {}, "none", {})
  /\ count' = task[c].base + Delta(task[c])
  /\ whole' = TRUE
  /\ UNCHANGED <<docs, index, l1, l2, flex, flexLast, feed, excuse, clash>>

(* SaveCount is such a step.                                               *)
LEMMA SaveCountDoes ==
  ASSUME Typed, NEW c \in Clients, SaveCount(c)
  PROVE  DidSaveCount(c)
<1>1. task \in [Clients -> Task] /\ task[c] \in Task
  BY DEF Typed, TypeOK
<1>z. 0 \in Int
  OBVIOUS
<1>g. task[c].pc = "write"
  BY DEF SaveCount
<1>f. /\ count' = task[c].base + Delta(task[c])
      /\ whole' = TRUE
      /\ UNCHANGED <<docs, index, l1, l2, flex, flexLast, feed, excuse, clash>>
  BY DEF SaveCount, badgerVars, memVars, flexVars, metaVars, ghosts
<1>3. ASSUME task[c].op \in {"insert", "batch"}
      PROVE  /\ task' \in [Clients -> Task] /\ Others(c, task[c].ids, {})
             /\ Now(c, task[c].op, "tell", task[c].ids, task[c].put, task[c].val,
                  task[c].ids, task[c].shown, task[c].reads, task[c].torn, 0,
                  task[c].moved, task[c].src, task[c].got)
  <2> DEFINE u == [task[c] EXCEPT !.pc = "tell", !.todo = task[c].ids, !.base = 0]
  <2>1. u \in Task
    BY <1>1, <1>z, <1>3, IdleType DEF Task, Pcs, Writers, Readers
  <2>2. Is(u, task[c].op, "tell", task[c].ids, task[c].put, task[c].val,
           task[c].ids, task[c].shown, task[c].reads, task[c].torn, 0,
           task[c].moved, task[c].src, task[c].got)
    BY <1>1, <1>z, <1>3 DEF Is, Task, Idle
  <2>3. task' = Shift(c, u, {})
    BY <1>1, <1>z, <1>3 DEF SaveCount, Step, AfterSave
  <2> HIDE DEF u
  <2>4. task'[c] = u /\ Others(c, u.ids, {}) /\ task' \in [Clients -> Task]
    BY <1>1, <2>1, <2>3, ShiftOthers, ShiftType
  <2> QED
    BY <1>g, <1>f, <2>2, <2>4 DEF Now, Is
<1>4. ASSUME task[c].op \notin {"insert", "batch"}
      PROVE  /\ task' \in [Clients -> Task] /\ Others(c, {}, {})
             /\ Now(c, "none", "idle", {}, NoDocs, NoVal, {}, {}, {}, FALSE, 0, {},
                  "none", {})
  <2> DEFINE u == Idle
  <2>1. u \in Task
    BY <1>1, <1>z, <1>4, IdleType DEF Task, Pcs, Writers, Readers
  <2>2. Is(u, "none", "idle", {}, NoDocs, NoVal, {}, {}, {}, FALSE, 0, {}, "none",
           {})
    BY <1>1, <1>z, <1>4 DEF Is, Task, Idle
  <2>3. task' = Shift(c, u, {})
    BY <1>1, <1>z, <1>4 DEF SaveCount, Step, AfterSave
  <2> HIDE DEF u
  <2>4. task'[c] = u /\ Others(c, u.ids, {}) /\ task' \in [Clients -> Task]
    BY <1>1, <2>1, <2>3, ShiftOthers, ShiftType
  <2> QED
    BY <1>g, <1>f, <2>2, <2>4 DEF Now, Is
<1> QED
  BY <1>g, <1>f, <1>3, <1>4 DEF DidSaveCount

(* A writer goes on without the count saved.                               *)
DidSaveFails(c) ==
  /\ task[c].pc \in {"save", "write"}
  /\ task' \in [Clients -> Task]
  /\ task[c].op \in {"insert", "batch"} =>
       /\ Others(c, task[c].ids, {})
       /\ Now(c, task[c].op, "tell", task[c].ids, task[c].put, task[c].val,
             task[c].ids, task[c].shown, task[c].reads, task[c].torn, 0,
             task[c].moved, task[c].src, task[c].got)
  /\ task[c].op \notin {"insert", "batch"} =>
       /\ Others(c, {}, {})
       /\ Now(c, "none", "idle", {}, NoDocs, NoVal, {}, {}, {}, FALSE, 0,
             {}, "none", {})
  /\ UNCHANGED <<docs, index, l1, l2, flex, flexLast, feed, count, whole, excuse, clash>>

(* SaveFails is such a step.                                               *)
LEMMA SaveFailsDoes ==
  ASSUME Typed, NEW c \in Clients, SaveFails(c)
  PROVE  DidSaveFails(c)
<1>1. task \in [Clients -> Task] /\ task[c] \in Task
  BY DEF Typed, TypeOK
<1>z. 0 \in Int
  OBVIOUS
<1>g. task[c].pc \in {"save", "write"}
  BY DEF SaveFails
<1>f. /\ UNCHANGED <<docs, index, l1, l2, flex, flexLast, feed, count, whole, excuse,
           clash>>
  BY DEF SaveFails, badgerVars, memVars, flexVars, metaVars, ghosts
<1>3. ASSUME task[c].op \in {"insert", "batch"}
      PROVE  /\ task' \in [Clients -> Task] /\ Others(c, task[c].ids, {})
             /\ Now(c, task[c].op, "tell", task[c].ids, task[c].put, task[c].val,
                  task[c].ids, task[c].shown, task[c].reads, task[c].torn, 0,
                  task[c].moved, task[c].src, task[c].got)
  <2> DEFINE u == [task[c] EXCEPT !.pc = "tell", !.todo = task[c].ids, !.base = 0]
  <2>1. u \in Task
    BY <1>1, <1>z, <1>3, IdleType DEF Task, Pcs, Writers, Readers
  <2>2. Is(u, task[c].op, "tell", task[c].ids, task[c].put, task[c].val,
           task[c].ids, task[c].shown, task[c].reads, task[c].torn, 0,
           task[c].moved, task[c].src, task[c].got)
    BY <1>1, <1>z, <1>3 DEF Is, Task, Idle
  <2>3. task' = Shift(c, u, {})
    BY <1>1, <1>z, <1>3 DEF SaveFails, Step, AfterSave
  <2> HIDE DEF u
  <2>4. task'[c] = u /\ Others(c, u.ids, {}) /\ task' \in [Clients -> Task]
    BY <1>1, <2>1, <2>3, ShiftOthers, ShiftType
  <2> QED
    BY <1>g, <1>f, <2>2, <2>4 DEF Now, Is
<1>4. ASSUME task[c].op \notin {"insert", "batch"}
      PROVE  /\ task' \in [Clients -> Task] /\ Others(c, {}, {})
             /\ Now(c, "none", "idle", {}, NoDocs, NoVal, {}, {}, {}, FALSE, 0, {},
                  "none", {})
  <2> DEFINE u == Idle
  <2>1. u \in Task
    BY <1>1, <1>z, <1>4, IdleType DEF Task, Pcs, Writers, Readers
  <2>2. Is(u, "none", "idle", {}, NoDocs, NoVal, {}, {}, {}, FALSE, 0, {}, "none",
           {})
    BY <1>1, <1>z, <1>4 DEF Is, Task, Idle
  <2>3. task' = Shift(c, u, {})
    BY <1>1, <1>z, <1>4 DEF SaveFails, Step, AfterSave
  <2> HIDE DEF u
  <2>4. task'[c] = u /\ Others(c, u.ids, {}) /\ task' \in [Clients -> Task]
    BY <1>1, <2>1, <2>3, ShiftOthers, ShiftType
  <2> QED
    BY <1>g, <1>f, <2>2, <2>4 DEF Now, Is
<1> QED
  BY <1>g, <1>f, <1>3, <1>4 DEF DidSaveFails

(* An update commits.                                                      *)
DidUpdateCommit(c) ==
  /\ task[c].pc = "show" /\ task[c].op = "update" /\ task[c].todo = {}
  /\ task' \in [Clients -> Task]
  /\ task[c].shown # {} =>
       /\ Others(c, task[c].ids, task[c].ids)
       /\ Now(c, task[c].op, "load", task[c].ids, task[c].put, task[c].val,
             task[c].todo, task[c].shown, task[c].reads, task[c].torn,
             task[c].base, task[c].moved, task[c].src, task[c].got)
  /\ task[c].shown = {} =>
       /\ Others(c, {}, task[c].ids)
       /\ Now(c, "none", "idle", {}, NoDocs, NoVal, {}, {}, {}, FALSE, 0,
             {}, "none", {})
  /\ ~Conflicts(task[c])
  /\ docs' = [i \in Ids |-> IF i \in task[c].ids THEN task[c].put[i] ELSE docs[i]]
  /\ index' = [i \in Ids |-> IF i \in task[c].ids THEN Reindexed(i, task[c]) ELSE index[i]]
  /\ UNCHANGED <<l1, l2, flex, flexLast, feed, count, whole, excuse, clash>>

(* UpdateCommit is such a step.                                            *)
LEMMA UpdateCommitDoes ==
  ASSUME Typed, NEW c \in Clients, UpdateCommit(c)
  PROVE  DidUpdateCommit(c)
<1>1. task \in [Clients -> Task] /\ task[c] \in Task
  BY DEF Typed, TypeOK
<1>g. task[c].pc = "show" /\ task[c].op = "update" /\ task[c].todo = {}
  BY DEF UpdateCommit
<1>f. /\ ~Conflicts(task[c])
      /\ docs' = [i \in Ids |-> IF i \in task[c].ids THEN task[c].put[i] ELSE docs[i]]
      /\ index' = [i \in Ids |-> IF i \in task[c].ids THEN Reindexed(i, task[c])
           ELSE index[i]]
      /\ UNCHANGED <<l1, l2, flex, flexLast, feed, count, whole, excuse, clash>>
  BY DEF UpdateCommit, badgerVars, memVars, flexVars, metaVars, ghosts
<1>3. ASSUME task[c].shown # {}
      PROVE  /\ task' \in [Clients -> Task] /\ Others(c, task[c].ids, task[c].ids)
             /\ Now(c, task[c].op, "load", task[c].ids, task[c].put, task[c].val,
                  task[c].todo, task[c].shown, task[c].reads, task[c].torn,
                  task[c].base, task[c].moved, task[c].src, task[c].got)
  <2> DEFINE u == [task[c] EXCEPT !.pc = "load"]
  <2>1. u \in Task
    BY <1>1, <1>3, IdleType DEF Task, Pcs, Writers, Readers
  <2>2. Is(u, task[c].op, "load", task[c].ids, task[c].put, task[c].val,
           task[c].todo, task[c].shown, task[c].reads, task[c].torn,
           task[c].base, task[c].moved, task[c].src, task[c].got)
    BY <1>1, <1>3 DEF Is, Task, Idle
  <2>3. task' = Shift(c, u, task[c].ids)
    BY <1>1, <1>3 DEF UpdateCommit, Step, AfterUpdate
  <2> HIDE DEF u
  <2>4. task'[c] = u /\ Others(c, u.ids, task[c].ids) /\ task' \in [Clients -> Task]
    BY <1>1, <2>1, <2>3, ShiftOthers, ShiftType
  <2> QED
    BY <1>g, <1>f, <2>2, <2>4 DEF Now, Is
<1>4. ASSUME task[c].shown = {}
      PROVE  /\ task' \in [Clients -> Task] /\ Others(c, {}, task[c].ids)
             /\ Now(c, "none", "idle", {}, NoDocs, NoVal, {}, {}, {}, FALSE, 0, {},
                  "none", {})
  <2> DEFINE u == Idle
  <2>1. u \in Task
    BY <1>1, <1>4, IdleType DEF Task, Pcs, Writers, Readers
  <2>2. Is(u, "none", "idle", {}, NoDocs, NoVal, {}, {}, {}, FALSE, 0, {}, "none",
           {})
    BY <1>1, <1>4 DEF Is, Task, Idle
  <2>3. task' = Shift(c, u, task[c].ids)
    BY <1>1, <1>4 DEF UpdateCommit, Step, AfterUpdate
  <2> HIDE DEF u
  <2>4. task'[c] = u /\ Others(c, u.ids, task[c].ids) /\ task' \in [Clients -> Task]
    BY <1>1, <2>1, <2>3, ShiftOthers, ShiftType
  <2> QED
    BY <1>g, <1>f, <2>2, <2>4 DEF Now, Is
<1> QED
  BY <1>g, <1>f, <1>3, <1>4 DEF DidUpdateCommit

(* An update does not commit.                                              *)
DidUpdateFails(c) ==
  /\ task[c].pc = "show" /\ task[c].op = "update"
  /\ task' \in [Clients -> Task]
  /\ task[c].shown # {} =>
       /\ Others(c, task[c].ids, {})
       /\ Now(c, task[c].op, "load", task[c].ids, task[c].put, task[c].val,
             task[c].todo, task[c].shown, task[c].reads, task[c].torn,
             task[c].base, task[c].moved, task[c].src, task[c].got)
  /\ task[c].shown = {} =>
       /\ Others(c, {}, {})
       /\ Now(c, "none", "idle", {}, NoDocs, NoVal, {}, {}, {}, FALSE, 0,
             {}, "none", {})
  /\ excuse' = Excused(task[c].shown, "undone")
  /\ UNCHANGED <<docs, index, l1, l2, flex, flexLast, feed, count, whole, clash>>

(* UpdateFails is such a step.                                             *)
LEMMA UpdateFailsDoes ==
  ASSUME Typed, NEW c \in Clients, UpdateFails(c)
  PROVE  DidUpdateFails(c)
<1>1. task \in [Clients -> Task] /\ task[c] \in Task
  BY DEF Typed, TypeOK
<1>g. task[c].pc = "show" /\ task[c].op = "update"
  BY DEF UpdateFails
<1>f. /\ excuse' = Excused(task[c].shown, "undone")
      /\ UNCHANGED <<docs, index, l1, l2, flex, flexLast, feed, count, whole, clash>>
  BY DEF UpdateFails, badgerVars, memVars, flexVars, metaVars, ghosts
<1>3. ASSUME task[c].shown # {}
      PROVE  /\ task' \in [Clients -> Task] /\ Others(c, task[c].ids, {})
             /\ Now(c, task[c].op, "load", task[c].ids, task[c].put, task[c].val,
                  task[c].todo, task[c].shown, task[c].reads, task[c].torn,
                  task[c].base, task[c].moved, task[c].src, task[c].got)
  <2> DEFINE u == [task[c] EXCEPT !.pc = "load"]
  <2>1. u \in Task
    BY <1>1, <1>3, IdleType DEF Task, Pcs, Writers, Readers
  <2>2. Is(u, task[c].op, "load", task[c].ids, task[c].put, task[c].val,
           task[c].todo, task[c].shown, task[c].reads, task[c].torn,
           task[c].base, task[c].moved, task[c].src, task[c].got)
    BY <1>1, <1>3 DEF Is, Task, Idle
  <2>3. task' = Shift(c, u, {})
    BY <1>1, <1>3 DEF UpdateFails, Step, AfterUpdate
  <2> HIDE DEF u
  <2>4. task'[c] = u /\ Others(c, u.ids, {}) /\ task' \in [Clients -> Task]
    BY <1>1, <2>1, <2>3, ShiftOthers, ShiftType
  <2> QED
    BY <1>g, <1>f, <2>2, <2>4 DEF Now, Is
<1>4. ASSUME task[c].shown = {}
      PROVE  /\ task' \in [Clients -> Task] /\ Others(c, {}, {})
             /\ Now(c, "none", "idle", {}, NoDocs, NoVal, {}, {}, {}, FALSE, 0, {},
                  "none", {})
  <2> DEFINE u == Idle
  <2>1. u \in Task
    BY <1>1, <1>4, IdleType DEF Task, Pcs, Writers, Readers
  <2>2. Is(u, "none", "idle", {}, NoDocs, NoVal, {}, {}, {}, FALSE, 0, {}, "none",
           {})
    BY <1>1, <1>4 DEF Is, Task, Idle
  <2>3. task' = Shift(c, u, {})
    BY <1>1, <1>4 DEF UpdateFails, Step, AfterUpdate
  <2> HIDE DEF u
  <2>4. task'[c] = u /\ Others(c, u.ids, {}) /\ task' \in [Clients -> Task]
    BY <1>1, <2>1, <2>3, ShiftOthers, ShiftType
  <2> QED
    BY <1>g, <1>f, <2>2, <2>4 DEF Now, Is
<1> QED
  BY <1>g, <1>f, <1>3, <1>4 DEF DidUpdateFails

(* A delete is done with FLEX-COLUMN.                                      *)
DidDeleteFound(c) ==
  /\ task[c].pc = "unflex" /\ task[c].todo = {}
  /\ task' \in [Clients -> Task]
  /\ task[c].ids # {} =>
       /\ Others(c, task[c].ids, {})
       /\ Now(c, task[c].op, "show", task[c].ids, task[c].put, task[c].val,
             task[c].ids, task[c].shown, task[c].reads, task[c].torn,
             task[c].base, task[c].moved, task[c].src, task[c].got)
  /\ task[c].ids = {} =>
       /\ Others(c, {}, {})
       /\ Now(c, "none", "idle", {}, NoDocs, NoVal, {}, {}, {}, FALSE, 0,
             {}, "none", {})
  /\ UNCHANGED <<docs, index, l1, l2, flex, flexLast, feed, count, whole, excuse, clash>>

(* DeleteFound is such a step.                                             *)
LEMMA DeleteFoundDoes ==
  ASSUME Typed, NEW c \in Clients, DeleteFound(c)
  PROVE  DidDeleteFound(c)
<1>1. task \in [Clients -> Task] /\ task[c] \in Task
  BY DEF Typed, TypeOK
<1>g. task[c].pc = "unflex" /\ task[c].todo = {}
  BY DEF DeleteFound
<1>f. /\ UNCHANGED <<docs, index, l1, l2, flex, flexLast, feed, count, whole, excuse,
           clash>>
  BY DEF DeleteFound, badgerVars, memVars, flexVars, metaVars, ghosts
<1>3. ASSUME task[c].ids # {}
      PROVE  /\ task' \in [Clients -> Task] /\ Others(c, task[c].ids, {})
             /\ Now(c, task[c].op, "show", task[c].ids, task[c].put, task[c].val,
                  task[c].ids, task[c].shown, task[c].reads, task[c].torn,
                  task[c].base, task[c].moved, task[c].src, task[c].got)
  <2> DEFINE u == [task[c] EXCEPT !.pc = "show", !.todo = task[c].ids]
  <2>1. u \in Task
    BY <1>1, <1>3, IdleType DEF Task, Pcs, Writers, Readers
  <2>2. Is(u, task[c].op, "show", task[c].ids, task[c].put, task[c].val,
           task[c].ids, task[c].shown, task[c].reads, task[c].torn, task[c].base,
           task[c].moved, task[c].src, task[c].got)
    BY <1>1, <1>3 DEF Is, Task, Idle
  <2>3. task' = Shift(c, u, {})
    BY <1>1, <1>3 DEF DeleteFound, Step
  <2> HIDE DEF u
  <2>4. task'[c] = u /\ Others(c, u.ids, {}) /\ task' \in [Clients -> Task]
    BY <1>1, <2>1, <2>3, ShiftOthers, ShiftType
  <2> QED
    BY <1>g, <1>f, <2>2, <2>4 DEF Now, Is
<1>4. ASSUME task[c].ids = {}
      PROVE  /\ task' \in [Clients -> Task] /\ Others(c, {}, {})
             /\ Now(c, "none", "idle", {}, NoDocs, NoVal, {}, {}, {}, FALSE, 0, {},
                  "none", {})
  <2> DEFINE u == Idle
  <2>1. u \in Task
    BY <1>1, <1>4, IdleType DEF Task, Pcs, Writers, Readers
  <2>2. Is(u, "none", "idle", {}, NoDocs, NoVal, {}, {}, {}, FALSE, 0, {}, "none",
           {})
    BY <1>1, <1>4 DEF Is, Task, Idle
  <2>3. task' = Shift(c, u, {})
    BY <1>1, <1>4 DEF DeleteFound, Step
  <2> HIDE DEF u
  <2>4. task'[c] = u /\ Others(c, u.ids, {}) /\ task' \in [Clients -> Task]
    BY <1>1, <2>1, <2>3, ShiftOthers, ShiftType
  <2> QED
    BY <1>g, <1>f, <2>2, <2>4 DEF Now, Is
<1> QED
  BY <1>g, <1>f, <1>3, <1>4 DEF DidDeleteFound

(* A delete commits.                                                       *)
DidDeleteCommit(c) ==
  /\ task[c].pc = "show" /\ task[c].op = "delete" /\ task[c].todo = {}
  /\ task' \in [Clients -> Task]
  /\ Others(c, task[c].ids, task[c].ids)
  /\ Now(c, task[c].op, "load", task[c].ids, task[c].put, task[c].val,
        task[c].todo, task[c].shown, task[c].reads, task[c].torn,
        task[c].base, task[c].moved, task[c].src, task[c].got)
  /\ docs' = [i \in Ids |-> IF i \in task[c].ids THEN NoVal ELSE docs[i]]
  /\ index' = [i \in Ids |-> IF i \in task[c].ids THEN index[i] \ {task[c].val}
       ELSE index[i]]
  /\ UNCHANGED <<l1, l2, flex, flexLast, feed, count, whole, excuse, clash>>

(* DeleteCommit is such a step.                                            *)
LEMMA DeleteCommitDoes ==
  ASSUME Typed, NEW c \in Clients, DeleteCommit(c)
  PROVE  DidDeleteCommit(c)
<1>1. task \in [Clients -> Task] /\ task[c] \in Task
  BY DEF Typed, TypeOK
<1>g. task[c].pc = "show" /\ task[c].op = "delete" /\ task[c].todo = {}
  BY DEF DeleteCommit
<1>f. /\ docs' = [i \in Ids |-> IF i \in task[c].ids THEN NoVal ELSE docs[i]]
      /\ index' = [i \in Ids |-> IF i \in task[c].ids THEN index[i] \ {task[c].val}
           ELSE index[i]]
      /\ UNCHANGED <<l1, l2, flex, flexLast, feed, count, whole, excuse, clash>>
  BY DEF DeleteCommit, badgerVars, memVars, flexVars, metaVars, ghosts
<1> QED
  <2> DEFINE u == [task[c] EXCEPT !.pc = "load"]
  <2>1. u \in Task
    BY <1>1, IdleType DEF Task, Pcs, Writers, Readers
  <2>2. Is(u, task[c].op, "load", task[c].ids, task[c].put, task[c].val,
           task[c].todo, task[c].shown, task[c].reads, task[c].torn,
           task[c].base, task[c].moved, task[c].src, task[c].got)
    BY <1>1 DEF Is, Task, Idle
  <2>3. task' = Shift(c, u, task[c].ids)
    BY <1>1 DEF DeleteCommit, Step
  <2> HIDE DEF u
  <2>4. task'[c] = u /\ Others(c, u.ids, task[c].ids) /\ task' \in [Clients -> Task]
    BY <1>1, <2>1, <2>3, ShiftOthers, ShiftType
  <2> QED
    BY <1>g, <1>f, <2>2, <2>4 DEF Now, Is, DidDeleteCommit

(* A delete does not commit.                                               *)
DidDeleteFails(c) ==
  /\ task[c].pc = "show" /\ task[c].op = "delete"
  /\ task' \in [Clients -> Task]
  /\ Others(c, {}, {})
  /\ Now(c, "none", "idle", {}, NoDocs, NoVal, {}, {}, {}, FALSE, 0, {},
        "none", {})
  /\ excuse' = Excused(task[c].ids, "undone")
  /\ UNCHANGED <<docs, index, l1, l2, flex, flexLast, feed, count, whole, clash>>

(* DeleteFails is such a step.                                             *)
LEMMA DeleteFailsDoes ==
  ASSUME Typed, NEW c \in Clients, DeleteFails(c)
  PROVE  DidDeleteFails(c)
<1>1. task \in [Clients -> Task] /\ task[c] \in Task
  BY DEF Typed, TypeOK
<1>g. task[c].pc = "show" /\ task[c].op = "delete"
  BY DEF DeleteFails
<1>f. /\ excuse' = Excused(task[c].ids, "undone")
      /\ UNCHANGED <<docs, index, l1, l2, flex, flexLast, feed, count, whole, clash>>
  BY DEF DeleteFails, badgerVars, memVars, flexVars, metaVars, ghosts
<1> QED
  <2> DEFINE u == Idle
  <2>1. u \in Task
    BY <1>1, IdleType DEF Task, Pcs, Writers, Readers
  <2>2. Is(u, "none", "idle", {}, NoDocs, NoVal, {}, {}, {}, FALSE, 0, {}, "none",
           {})
    BY <1>1 DEF Is, Task, Idle
  <2>3. task' = Shift(c, u, {})
    BY <1>1 DEF DeleteFails, Step
  <2> HIDE DEF u
  <2>4. task'[c] = u /\ Others(c, u.ids, {}) /\ task' \in [Clients -> Task]
    BY <1>1, <2>1, <2>3, ShiftOthers, ShiftType
  <2> QED
    BY <1>g, <1>f, <2>2, <2>4 DEF Now, Is, DidDeleteFails

(* An insert or a batch fills the cache.                                   *)
DidCacheInsert(c, i) ==
  /\ task[c].pc = "cache" /\ i \in task[c].todo
  /\ task' \in [Clients -> Task]
  /\ task[c].todo # {i} =>
       /\ Others(c, task[c].ids, {})
       /\ Now(c, task[c].op, task[c].pc, task[c].ids, task[c].put,
             task[c].val, task[c].todo \ {i}, task[c].shown,
             task[c].reads, task[c].torn, task[c].base, task[c].moved,
             task[c].src, task[c].got)
  /\ task[c].todo = {i} /\ task[c].op = "insert" =>
       /\ Others(c, task[c].ids, {})
       /\ Now(c, task[c].op, "load", task[c].ids, task[c].put, task[c].val,
             {}, task[c].shown, task[c].reads, task[c].torn,
             task[c].base, task[c].moved, task[c].src, task[c].got)
  /\ task[c].todo = {i} /\ task[c].op # "insert" =>
       /\ Others(c, task[c].ids, {})
       /\ Now(c, task[c].op, "flush", task[c].ids, task[c].put, task[c].val,
             {}, task[c].shown, task[c].reads, task[c].torn,
             task[c].base, task[c].moved, task[c].src, task[c].got)
  /\ L1Set(i, task[c].put[i])
  /\ UNCHANGED <<docs, index, l2, flex, flexLast, feed, count, whole, excuse, clash>>

(* CacheInsert is such a step.                                             *)
LEMMA CacheInsertDoes ==
  ASSUME Typed, NEW c \in Clients, NEW i \in Ids, CacheInsert(c, i)
  PROVE  DidCacheInsert(c, i)
<1>1. task \in [Clients -> Task] /\ task[c] \in Task
  BY DEF Typed, TypeOK
<1>g. task[c].pc = "cache" /\ i \in task[c].todo
  BY DEF CacheInsert
<1>f. /\ L1Set(i, task[c].put[i])
      /\ UNCHANGED <<docs, index, l2, flex, flexLast, feed, count, whole, excuse, clash>>
  BY DEF CacheInsert, badgerVars, memVars, flexVars, metaVars, ghosts
<1>3. ASSUME task[c].todo # {i}
      PROVE  /\ task' \in [Clients -> Task] /\ Others(c, task[c].ids, {})
             /\ Now(c, task[c].op, task[c].pc, task[c].ids, task[c].put,
                  task[c].val, task[c].todo \ {i}, task[c].shown,
                  task[c].reads, task[c].torn, task[c].base, task[c].moved,
                  task[c].src, task[c].got)
  <2> DEFINE u == [task[c] EXCEPT !.todo = task[c].todo \ {i}]
  <2>1. u \in Task
    BY <1>1, <1>3, IdleType DEF Task, Pcs, Writers, Readers
  <2>2. Is(u, task[c].op, task[c].pc, task[c].ids, task[c].put, task[c].val,
           task[c].todo \ {i}, task[c].shown, task[c].reads, task[c].torn,
           task[c].base, task[c].moved, task[c].src, task[c].got)
    BY <1>1, <1>3 DEF Is, Task, Idle
  <2>3. task' = Shift(c, u, {})
    BY <1>1, <1>3 DEF CacheInsert, Step
  <2> HIDE DEF u
  <2>4. task'[c] = u /\ Others(c, u.ids, {}) /\ task' \in [Clients -> Task]
    BY <1>1, <2>1, <2>3, ShiftOthers, ShiftType
  <2> QED
    BY <1>g, <1>f, <2>2, <2>4 DEF Now, Is
<1>4. ASSUME task[c].todo = {i} /\ task[c].op = "insert"
      PROVE  /\ task' \in [Clients -> Task] /\ Others(c, task[c].ids, {})
             /\ Now(c, task[c].op, "load", task[c].ids, task[c].put, task[c].val,
                  {}, task[c].shown, task[c].reads, task[c].torn, task[c].base,
                  task[c].moved, task[c].src, task[c].got)
  <2> DEFINE u == [task[c] EXCEPT !.pc = "load", !.todo = {}]
  <2>1. u \in Task
    BY <1>1, <1>4, IdleType DEF Task, Pcs, Writers, Readers
  <2>2. Is(u, task[c].op, "load", task[c].ids, task[c].put, task[c].val, {},
           task[c].shown, task[c].reads, task[c].torn, task[c].base,
           task[c].moved, task[c].src, task[c].got)
    BY <1>1, <1>4 DEF Is, Task, Idle
  <2>3. task' = Shift(c, u, {})
    BY <1>1, <1>4 DEF CacheInsert, Step
  <2> HIDE DEF u
  <2>4. task'[c] = u /\ Others(c, u.ids, {}) /\ task' \in [Clients -> Task]
    BY <1>1, <2>1, <2>3, ShiftOthers, ShiftType
  <2> QED
    BY <1>g, <1>f, <2>2, <2>4 DEF Now, Is
<1>5. ASSUME task[c].todo = {i} /\ task[c].op # "insert"
      PROVE  /\ task' \in [Clients -> Task] /\ Others(c, task[c].ids, {})
             /\ Now(c, task[c].op, "flush", task[c].ids, task[c].put, task[c].val,
                  {}, task[c].shown, task[c].reads, task[c].torn, task[c].base,
                  task[c].moved, task[c].src, task[c].got)
  <2> DEFINE u == [task[c] EXCEPT !.pc = "flush", !.todo = {}]
  <2>1. u \in Task
    BY <1>1, <1>5, IdleType DEF Task, Pcs, Writers, Readers
  <2>2. Is(u, task[c].op, "flush", task[c].ids, task[c].put, task[c].val, {},
           task[c].shown, task[c].reads, task[c].torn, task[c].base,
           task[c].moved, task[c].src, task[c].got)
    BY <1>1, <1>5 DEF Is, Task, Idle
  <2>3. task' = Shift(c, u, {})
    BY <1>1, <1>5 DEF CacheInsert, Step
  <2> HIDE DEF u
  <2>4. task'[c] = u /\ Others(c, u.ids, {}) /\ task' \in [Clients -> Task]
    BY <1>1, <2>1, <2>3, ShiftOthers, ShiftType
  <2> QED
    BY <1>g, <1>f, <2>2, <2>4 DEF Now, Is
<1> QED
  BY <1>g, <1>f, <1>3, <1>4, <1>5 DEF DidCacheInsert

(* An insert or a batch tells the feed and FLEX-COLUMN.                    *)
DidTell(c, i) ==
  /\ task[c].pc = "tell" /\ i \in task[c].todo
  /\ task' \in [Clients -> Task]
  /\ task[c].todo # {i} =>
       /\ Others(c, task[c].ids, {})
       /\ Now(c, task[c].op, task[c].pc, task[c].ids, task[c].put,
             task[c].val, task[c].todo \ {i}, task[c].shown,
             task[c].reads, task[c].torn, task[c].base, task[c].moved,
             task[c].src, task[c].got)
  /\ task[c].todo = {i} =>
       /\ Others(c, {}, {})
       /\ Now(c, "none", "idle", {}, NoDocs, NoVal, {}, {}, {}, FALSE, 0,
             {}, "none", {})
  /\ feed' = [feed EXCEPT ![i] = task[c].put[i]]
  /\ FlexInsert(i, task[c].put[i])
  /\ UNCHANGED <<docs, index, l1, l2, count, whole, excuse, clash>>

(* Tell is such a step.                                                    *)
LEMMA TellDoes ==
  ASSUME Typed, NEW c \in Clients, NEW i \in Ids, Tell(c, i)
  PROVE  DidTell(c, i)
<1>1. task \in [Clients -> Task] /\ task[c] \in Task
  BY DEF Typed, TypeOK
<1>g. task[c].pc = "tell" /\ i \in task[c].todo
  BY DEF Tell
<1>f. /\ feed' = [feed EXCEPT ![i] = task[c].put[i]]
      /\ FlexInsert(i, task[c].put[i])
      /\ UNCHANGED <<docs, index, l1, l2, count, whole, excuse, clash>>
  BY DEF Tell, badgerVars, memVars, flexVars, metaVars, ghosts
<1>3. ASSUME task[c].todo # {i}
      PROVE  /\ task' \in [Clients -> Task] /\ Others(c, task[c].ids, {})
             /\ Now(c, task[c].op, task[c].pc, task[c].ids, task[c].put,
                  task[c].val, task[c].todo \ {i}, task[c].shown,
                  task[c].reads, task[c].torn, task[c].base, task[c].moved,
                  task[c].src, task[c].got)
  <2> DEFINE u == [task[c] EXCEPT !.todo = task[c].todo \ {i}]
  <2>1. u \in Task
    BY <1>1, <1>3, IdleType DEF Task, Pcs, Writers, Readers
  <2>2. Is(u, task[c].op, task[c].pc, task[c].ids, task[c].put, task[c].val,
           task[c].todo \ {i}, task[c].shown, task[c].reads, task[c].torn,
           task[c].base, task[c].moved, task[c].src, task[c].got)
    BY <1>1, <1>3 DEF Is, Task, Idle
  <2>3. task' = Shift(c, u, {})
    BY <1>1, <1>3 DEF Tell, Step
  <2> HIDE DEF u
  <2>4. task'[c] = u /\ Others(c, u.ids, {}) /\ task' \in [Clients -> Task]
    BY <1>1, <2>1, <2>3, ShiftOthers, ShiftType
  <2> QED
    BY <1>g, <1>f, <2>2, <2>4 DEF Now, Is
<1>4. ASSUME task[c].todo = {i}
      PROVE  /\ task' \in [Clients -> Task] /\ Others(c, {}, {})
             /\ Now(c, "none", "idle", {}, NoDocs, NoVal, {}, {}, {}, FALSE, 0, {},
                  "none", {})
  <2> DEFINE u == Idle
  <2>1. u \in Task
    BY <1>1, <1>4, IdleType DEF Task, Pcs, Writers, Readers
  <2>2. Is(u, "none", "idle", {}, NoDocs, NoVal, {}, {}, {}, FALSE, 0, {}, "none",
           {})
    BY <1>1, <1>4 DEF Is, Task, Idle
  <2>3. task' = Shift(c, u, {})
    BY <1>1, <1>4 DEF Tell, Step
  <2> HIDE DEF u
  <2>4. task'[c] = u /\ Others(c, u.ids, {}) /\ task' \in [Clients -> Task]
    BY <1>1, <2>1, <2>3, ShiftOthers, ShiftType
  <2> QED
    BY <1>g, <1>f, <2>2, <2>4 DEF Now, Is
<1> QED
  BY <1>g, <1>f, <1>3, <1>4 DEF DidTell

(* An update shows a document.                                             *)
DidUpdateShow(c, i) ==
  /\ task[c].pc = "show" /\ task[c].op = "update" /\ i \in task[c].todo
  /\ task' \in [Clients -> Task]
  /\ Others(c, task[c].ids, {})
  /\ Now(c, task[c].op, task[c].pc, task[c].ids, task[c].put, task[c].val,
        task[c].todo \ {i}, task[c].shown \cup {i}, task[c].reads,
        task[c].torn, task[c].base, task[c].moved, task[c].src,
        task[c].got)
  /\ feed' = [feed EXCEPT ![i] = task[c].put[i]]
  /\ FlexUpdate(i, task[c].put[i])
  /\ L1Set(i, task[c].put[i])
  /\ UNCHANGED <<docs, index, l2, count, whole, excuse, clash>>

(* UpdateShow is such a step.                                              *)
LEMMA UpdateShowDoes ==
  ASSUME Typed, NEW c \in Clients, NEW i \in Ids, UpdateShow(c, i)
  PROVE  DidUpdateShow(c, i)
<1>1. task \in [Clients -> Task] /\ task[c] \in Task
  BY DEF Typed, TypeOK
<1>g. task[c].pc = "show" /\ task[c].op = "update" /\ i \in task[c].todo
  BY DEF UpdateShow
<1>f. /\ feed' = [feed EXCEPT ![i] = task[c].put[i]]
      /\ FlexUpdate(i, task[c].put[i])
      /\ L1Set(i, task[c].put[i])
      /\ UNCHANGED <<docs, index, l2, count, whole, excuse, clash>>
  BY DEF UpdateShow, badgerVars, memVars, flexVars, metaVars, ghosts
<1> QED
  <2> DEFINE u == [task[c] EXCEPT !.todo = task[c].todo \ {i}, !.shown = task[c].shown \cup
    {i}]
  <2>1. u \in Task
    BY <1>1, IdleType DEF Task, Pcs, Writers, Readers
  <2>2. Is(u, task[c].op, task[c].pc, task[c].ids, task[c].put, task[c].val,
           task[c].todo \ {i}, task[c].shown \cup {i}, task[c].reads,
           task[c].torn, task[c].base, task[c].moved, task[c].src, task[c].got)
    BY <1>1 DEF Is, Task, Idle
  <2>3. task' = Shift(c, u, {})
    BY <1>1 DEF UpdateShow, Step
  <2> HIDE DEF u
  <2>4. task'[c] = u /\ Others(c, u.ids, {}) /\ task' \in [Clients -> Task]
    BY <1>1, <2>1, <2>3, ShiftOthers, ShiftType
  <2> QED
    BY <1>g, <1>f, <2>2, <2>4 DEF Now, Is, DidUpdateShow

(* A delete takes a document from FLEX-COLUMN.                             *)
DidDeleteFlex(c, i) ==
  /\ task[c].pc = "unflex" /\ i \in task[c].todo
  /\ task' \in [Clients -> Task]
  /\ Others(c, task[c].ids, {})
  /\ Now(c, task[c].op, task[c].pc, task[c].ids, task[c].put, task[c].val,
        task[c].todo \ {i}, task[c].shown, task[c].reads, task[c].torn,
        task[c].base, task[c].moved, task[c].src, task[c].got)
  /\ FlexDelete(i)
  /\ UNCHANGED <<docs, index, l1, l2, feed, count, whole, excuse, clash>>

(* DeleteFlex is such a step.                                              *)
LEMMA DeleteFlexDoes ==
  ASSUME Typed, NEW c \in Clients, NEW i \in Ids, DeleteFlex(c, i)
  PROVE  DidDeleteFlex(c, i)
<1>1. task \in [Clients -> Task] /\ task[c] \in Task
  BY DEF Typed, TypeOK
<1>g. task[c].pc = "unflex" /\ i \in task[c].todo
  BY DEF DeleteFlex
<1>f. /\ FlexDelete(i)
      /\ UNCHANGED <<docs, index, l1, l2, feed, count, whole, excuse, clash>>
  BY DEF DeleteFlex, badgerVars, memVars, flexVars, metaVars, ghosts
<1> QED
  <2> DEFINE u == [task[c] EXCEPT !.todo = task[c].todo \ {i}]
  <2>1. u \in Task
    BY <1>1, IdleType DEF Task, Pcs, Writers, Readers
  <2>2. Is(u, task[c].op, task[c].pc, task[c].ids, task[c].put, task[c].val,
           task[c].todo \ {i}, task[c].shown, task[c].reads, task[c].torn,
           task[c].base, task[c].moved, task[c].src, task[c].got)
    BY <1>1 DEF Is, Task, Idle
  <2>3. task' = Shift(c, u, {})
    BY <1>1 DEF DeleteFlex, Step
  <2> HIDE DEF u
  <2>4. task'[c] = u /\ Others(c, u.ids, {}) /\ task' \in [Clients -> Task]
    BY <1>1, <2>1, <2>3, ShiftOthers, ShiftType
  <2> QED
    BY <1>g, <1>f, <2>2, <2>4 DEF Now, Is, DidDeleteFlex

(* A delete shows a document as gone.                                      *)
DidDeleteShow(c, i) ==
  /\ task[c].pc = "show" /\ task[c].op = "delete" /\ i \in task[c].todo
  /\ task' \in [Clients -> Task]
  /\ Others(c, task[c].ids, {})
  /\ Now(c, task[c].op, task[c].pc, task[c].ids, task[c].put, task[c].val,
        task[c].todo \ {i}, task[c].shown \cup {i}, task[c].reads,
        task[c].torn, task[c].base, task[c].moved, task[c].src,
        task[c].got)
  /\ feed' = [feed EXCEPT ![i] = NoVal]
  /\ L1Del(i)
  /\ UNCHANGED <<docs, index, l2, flex, flexLast, count, whole, excuse, clash>>

(* DeleteShow is such a step.                                              *)
LEMMA DeleteShowDoes ==
  ASSUME Typed, NEW c \in Clients, NEW i \in Ids, DeleteShow(c, i)
  PROVE  DidDeleteShow(c, i)
<1>1. task \in [Clients -> Task] /\ task[c] \in Task
  BY DEF Typed, TypeOK
<1>g. task[c].pc = "show" /\ task[c].op = "delete" /\ i \in task[c].todo
  BY DEF DeleteShow
<1>f. /\ feed' = [feed EXCEPT ![i] = NoVal]
      /\ L1Del(i)
      /\ UNCHANGED <<docs, index, l2, flex, flexLast, count, whole, excuse, clash>>
  BY DEF DeleteShow, badgerVars, memVars, flexVars, metaVars, ghosts
<1> QED
  <2> DEFINE u == [task[c] EXCEPT !.todo = task[c].todo \ {i}, !.shown = task[c].shown \cup
    {i}]
  <2>1. u \in Task
    BY <1>1, IdleType DEF Task, Pcs, Writers, Readers
  <2>2. Is(u, task[c].op, task[c].pc, task[c].ids, task[c].put, task[c].val,
           task[c].todo \ {i}, task[c].shown \cup {i}, task[c].reads,
           task[c].torn, task[c].base, task[c].moved, task[c].src, task[c].got)
    BY <1>1 DEF Is, Task, Idle
  <2>3. task' = Shift(c, u, {})
    BY <1>1 DEF DeleteShow, Step
  <2> HIDE DEF u
  <2>4. task'[c] = u /\ Others(c, u.ids, {}) /\ task' \in [Clients -> Task]
    BY <1>1, <2>1, <2>3, ShiftOthers, ShiftType
  <2> QED
    BY <1>g, <1>f, <2>2, <2>4 DEF Now, Is, DidDeleteShow

(* A Find takes the block's read lock.                                     *)
DidFindLocks(c) ==
  /\ task[c].pc = "lock"
  /\ task' \in [Clients -> Task]
  /\ Others(c, task[c].ids, {})
  /\ Now(c, task[c].op, "lookup", task[c].ids, task[c].put, task[c].val,
        task[c].todo, task[c].shown, task[c].reads, task[c].torn,
        task[c].base, task[c].moved, "none", task[c].got)
  /\ UNCHANGED <<docs, index, l1, l2, flex, flexLast, feed, count, whole, excuse, clash>>

(* FindLocks is such a step.                                               *)
LEMMA FindLocksDoes ==
  ASSUME Typed, NEW c \in Clients, FindLocks(c)
  PROVE  DidFindLocks(c)
<1>1. task \in [Clients -> Task] /\ task[c] \in Task
  BY DEF Typed, TypeOK
<1>g. task[c].pc = "lock"
  BY DEF FindLocks
<1>f. /\ UNCHANGED <<docs, index, l1, l2, flex, flexLast, feed, count, whole, excuse,
           clash>>
  BY DEF FindLocks, badgerVars, memVars, flexVars, metaVars, ghosts
<1> QED
  <2> DEFINE u == [task[c] EXCEPT !.pc = "lookup", !.src = "none"]
  <2>1. u \in Task
    <3>1. "lookup" \in Pcs /\ "none" \in {"none", "flex", "l2", "index", "scan"}
      BY DEF Pcs, Writers, Readers
    <3> QED BY <1>1, <3>1, IdleType DEF Task
  <2>2. Is(u, task[c].op, "lookup", task[c].ids, task[c].put, task[c].val,
           task[c].todo, task[c].shown, task[c].reads, task[c].torn,
           task[c].base, task[c].moved, "none", task[c].got)
    BY <1>1 DEF Is, Task, Idle
  <2>3. task' = Shift(c, u, {})
    BY <1>1 DEF FindLocks, Step
  <2> HIDE DEF u
  <2>4. task'[c] = u /\ Others(c, u.ids, {}) /\ task' \in [Clients -> Task]
    BY <1>1, <2>1, <2>3, ShiftOthers, ShiftType
  <2> QED
    BY <1>g, <1>f, <2>2, <2>4 DEF Now, Is, DidFindLocks

(* A lookup is answered by the L2 cache.                                   *)
DidLookupCached(c) ==
  /\ task[c].pc = "lookup"
  /\ task' \in [Clients -> Task]
  /\ task[c].op = "count" =>
       /\ Others(c, task[c].ids, {})
       /\ Now(c, task[c].op, "done", task[c].ids, task[c].put, task[c].val,
             {}, task[c].shown, task[c].reads, task[c].torn,
             l2[task[c].val].total, task[c].moved, "l2", task[c].got)
  /\ task[c].op # "count" /\ l2[task[c].val].ids = {} =>
       /\ Others(c, task[c].ids, {})
       /\ Now(c, task[c].op, "scan", task[c].ids, task[c].put, task[c].val,
             {}, task[c].shown, task[c].reads, task[c].torn,
             task[c].base, task[c].moved, task[c].src, task[c].got)
  /\ task[c].op # "count" /\ l2[task[c].val].ids # {} =>
       /\ Others(c, task[c].ids, {})
       /\ Now(c, task[c].op, "fetch", task[c].ids, task[c].put, task[c].val,
             l2[task[c].val].ids, task[c].shown, task[c].reads,
             task[c].torn, task[c].base, task[c].moved, "l2",
             task[c].got)
  /\ UNCHANGED <<docs, index, l1, l2, flex, flexLast, feed, count, whole, excuse, clash>>

(* LookupCached is such a step.                                            *)
LEMMA LookupCachedDoes ==
  ASSUME Typed, NEW c \in Clients, LookupCached(c)
  PROVE  DidLookupCached(c)
<1>1. task \in [Clients -> Task] /\ task[c] \in Task
  BY DEF Typed, TypeOK
<1>a0. task[c].val \in Vals
  BY PhaseOps DEF LookupCached, Typed, Shape, ReaderShape
<1>a1. l2[task[c].val].total \in Int /\ l2[task[c].val].ids \in SUBSET Ids
  BY <1>1, <1>a0 DEF LookupCached, Typed, TypeOK, Entry
<1>g. task[c].pc = "lookup"
  BY DEF LookupCached
<1>f. /\ UNCHANGED <<docs, index, l1, l2, flex, flexLast, feed, count, whole, excuse,
           clash>>
  BY DEF LookupCached, badgerVars, memVars, flexVars, metaVars, ghosts
<1>3. ASSUME task[c].op = "count"
      PROVE  /\ task' \in [Clients -> Task] /\ Others(c, task[c].ids, {})
             /\ Now(c, task[c].op, "done", task[c].ids, task[c].put, task[c].val,
                  {}, task[c].shown, task[c].reads, task[c].torn,
                  l2[task[c].val].total, task[c].moved, "l2", task[c].got)
  <2> DEFINE u == [task[c] EXCEPT !.pc = "done", !.todo = {},
    !.base = l2[task[c].val].total, !.src = "l2"]
  <2>1. u \in Task
    BY <1>1, <1>a0, <1>a1, <1>3, IdleType DEF Task, Pcs, Writers, Readers
  <2>2. Is(u, task[c].op, "done", task[c].ids, task[c].put, task[c].val, {},
           task[c].shown, task[c].reads, task[c].torn, l2[task[c].val].total,
           task[c].moved, "l2", task[c].got)
    BY <1>1, <1>a0, <1>a1, <1>3 DEF Is, Task, Idle
  <2>3. task' = Shift(c, u, {})
    BY <1>1, <1>a0, <1>a1, <1>3 DEF LookupCached, Step, Looked
  <2> HIDE DEF u
  <2>4. task'[c] = u /\ Others(c, u.ids, {}) /\ task' \in [Clients -> Task]
    BY <1>1, <2>1, <2>3, ShiftOthers, ShiftType
  <2> QED
    BY <1>g, <1>f, <2>2, <2>4 DEF Now, Is
<1>4. ASSUME task[c].op # "count" /\ l2[task[c].val].ids = {}
      PROVE  /\ task' \in [Clients -> Task] /\ Others(c, task[c].ids, {})
             /\ Now(c, task[c].op, "scan", task[c].ids, task[c].put, task[c].val,
                  {}, task[c].shown, task[c].reads, task[c].torn, task[c].base,
                  task[c].moved, task[c].src, task[c].got)
  <2> DEFINE u == [task[c] EXCEPT !.pc = "scan", !.todo = {}]
  <2>1. u \in Task
    BY <1>1, <1>a0, <1>a1, <1>4, IdleType DEF Task, Pcs, Writers, Readers
  <2>2. Is(u, task[c].op, "scan", task[c].ids, task[c].put, task[c].val, {},
           task[c].shown, task[c].reads, task[c].torn, task[c].base,
           task[c].moved, task[c].src, task[c].got)
    BY <1>1, <1>a0, <1>a1, <1>4 DEF Is, Task, Idle
  <2>3. task' = Shift(c, u, {})
    BY <1>1, <1>a0, <1>a1, <1>4 DEF LookupCached, Step, Looked
  <2> HIDE DEF u
  <2>4. task'[c] = u /\ Others(c, u.ids, {}) /\ task' \in [Clients -> Task]
    BY <1>1, <2>1, <2>3, ShiftOthers, ShiftType
  <2> QED
    BY <1>g, <1>f, <2>2, <2>4 DEF Now, Is
<1>5. ASSUME task[c].op # "count" /\ l2[task[c].val].ids # {}
      PROVE  /\ task' \in [Clients -> Task] /\ Others(c, task[c].ids, {})
             /\ Now(c, task[c].op, "fetch", task[c].ids, task[c].put, task[c].val,
                  l2[task[c].val].ids, task[c].shown, task[c].reads,
                  task[c].torn, task[c].base, task[c].moved, "l2", task[c].got)
  <2> DEFINE u == [task[c] EXCEPT !.pc = "fetch", !.todo = l2[task[c].val].ids,
    !.src = "l2"]
  <2>1. u \in Task
    <3>1. "fetch" \in Pcs /\ "l2" \in {"none", "flex", "l2", "index", "scan"}
      BY DEF Pcs, Writers, Readers
    <3> QED BY <1>1, <3>1, <1>a0, <1>a1, <1>5, IdleType DEF Task
  <2>2. Is(u, task[c].op, "fetch", task[c].ids, task[c].put, task[c].val,
           l2[task[c].val].ids, task[c].shown, task[c].reads, task[c].torn,
           task[c].base, task[c].moved, "l2", task[c].got)
    BY <1>1, <1>a0, <1>a1, <1>5 DEF Is, Task, Idle
  <2>3. task' = Shift(c, u, {})
    BY <1>1, <1>a0, <1>a1, <1>5 DEF LookupCached, Step, Looked
  <2> HIDE DEF u
  <2>4. task'[c] = u /\ Others(c, u.ids, {}) /\ task' \in [Clients -> Task]
    BY <1>1, <2>1, <2>3, ShiftOthers, ShiftType
  <2> QED
    BY <1>g, <1>f, <2>2, <2>4 DEF Now, Is
<1> QED
  BY <1>g, <1>f, <1>3, <1>4, <1>5 DEF DidLookupCached

(* A lookup misses in the L2 cache.                                        *)
DidLookupMisses(c) ==
  /\ task[c].pc = "lookup"
  /\ task' \in [Clients -> Task]
  /\ Others(c, task[c].ids, {})
  /\ Now(c, task[c].op, "seek", task[c].ids, task[c].put, task[c].val,
        task[c].todo, task[c].shown, task[c].reads, task[c].torn,
        task[c].base, task[c].moved, task[c].src, task[c].got)
  /\ UNCHANGED <<docs, index, l1, flex, flexLast, feed, count, whole, excuse, clash>>

(* LookupMisses is such a step.                                            *)
LEMMA LookupMissesDoes ==
  ASSUME Typed, NEW c \in Clients, LookupMisses(c)
  PROVE  DidLookupMisses(c)
<1>1. task \in [Clients -> Task] /\ task[c] \in Task
  BY DEF Typed, TypeOK
<1>g. task[c].pc = "lookup"
  BY DEF LookupMisses
<1>f. /\ UNCHANGED <<docs, index, l1, flex, flexLast, feed, count, whole, excuse, clash>>
  BY DEF LookupMisses, badgerVars, memVars, flexVars, metaVars, ghosts
<1> QED
  <2> DEFINE u == [task[c] EXCEPT !.pc = "seek"]
  <2>1. u \in Task
    <3>1. "seek" \in Pcs
      BY DEF Pcs, Writers, Readers
    <3> QED BY <1>1, <3>1, IdleType DEF Task
  <2>2. Is(u, task[c].op, "seek", task[c].ids, task[c].put, task[c].val,
           task[c].todo, task[c].shown, task[c].reads, task[c].torn,
           task[c].base, task[c].moved, task[c].src, task[c].got)
    BY <1>1 DEF Is, Task, Idle
  <2>3. task' = Shift(c, u, {})
    BY <1>1 DEF LookupMisses, Step
  <2> HIDE DEF u
  <2>4. task'[c] = u /\ Others(c, u.ids, {}) /\ task' \in [Clients -> Task]
    BY <1>1, <2>1, <2>3, ShiftOthers, ShiftType
  <2> QED
    BY <1>g, <1>f, <2>2, <2>4 DEF Now, Is, DidLookupMisses

(* A lookup iterates over the index.                                       *)
DidSeek(c, page) ==
  /\ task[c].pc = "seek"
  /\ task' \in [Clients -> Task]
  /\ Others(c, task[c].ids, {})
  /\ Now(c, task[c].op, "keep", task[c].ids, task[c].put, task[c].val, page,
        task[c].shown, task[c].reads, task[c].torn,
        Cardinality(Indexed(task[c].val)), task[c].moved, task[c].src,
        task[c].got)
  /\ page \in Page(task[c], Indexed(task[c].val))
  /\ UNCHANGED <<docs, index, l1, l2, flex, flexLast, feed, count, whole, excuse, clash>>

(* Seek is such a step.                                                    *)
LEMMA SeekDoes ==
  ASSUME Typed, NEW c \in Clients, NEW page \in SUBSET Ids, Seek(c, page)
  PROVE  DidSeek(c, page)
<1>1. task \in [Clients -> Task] /\ task[c] \in Task
  BY DEF Typed, TypeOK
<1>a0. Cardinality(Indexed(task[c].val)) \in Int
  BY ConstantsAssumption, FS_Subset, FS_CardinalityType,
     Indexed(task[c].val) \subseteq Ids DEF ConstantsAssumption, Indexed
<1>g. task[c].pc = "seek"
  BY DEF Seek
<1>f. /\ page \in Page(task[c], Indexed(task[c].val))
      /\ UNCHANGED <<docs, index, l1, l2, flex, flexLast, feed, count, whole, excuse,
           clash>>
  BY DEF Seek, badgerVars, memVars, flexVars, metaVars, ghosts
<1> QED
  <2> DEFINE u == [task[c] EXCEPT !.pc = "keep", !.todo = page,
    !.base = Cardinality(Indexed(task[c].val))]
  <2>1. u \in Task
    BY <1>1, <1>a0, IdleType DEF Task, Pcs, Writers, Readers
  <2>2. Is(u, task[c].op, "keep", task[c].ids, task[c].put, task[c].val, page,
           task[c].shown, task[c].reads, task[c].torn,
           Cardinality(Indexed(task[c].val)), task[c].moved, task[c].src,
           task[c].got)
    BY <1>1, <1>a0 DEF Is, Task, Idle
  <2>3. task' = Shift(c, u, {})
    BY <1>1, <1>a0 DEF Seek, Step
  <2> HIDE DEF u
  <2>4. task'[c] = u /\ Others(c, u.ids, {}) /\ task' \in [Clients -> Task]
    BY <1>1, <2>1, <2>3, ShiftOthers, ShiftType
  <2> QED
    BY <1>g, <1>f, <2>2, <2>4 DEF Now, Is, DidSeek

(* A lookup's result goes into the L2 cache.                               *)
DidKeep(c) ==
  /\ task[c].pc = "keep"
  /\ task' \in [Clients -> Task]
  /\ task[c].op = "count" =>
       /\ Others(c, task[c].ids, {})
       /\ Now(c, task[c].op, "done", task[c].ids, task[c].put, task[c].val,
             {}, task[c].shown, task[c].reads, task[c].torn,
             task[c].base, task[c].moved, "index", task[c].got)
  /\ task[c].op # "count" /\ task[c].todo = {} =>
       /\ Others(c, task[c].ids, {})
       /\ Now(c, task[c].op, "scan", task[c].ids, task[c].put, task[c].val,
             {}, task[c].shown, task[c].reads, task[c].torn, 0,
             task[c].moved, task[c].src, task[c].got)
  /\ task[c].op # "count" /\ task[c].todo # {} =>
       /\ Others(c, task[c].ids, {})
       /\ Now(c, task[c].op, "fetch", task[c].ids, task[c].put, task[c].val,
             task[c].todo, task[c].shown, task[c].reads, task[c].torn,
             0, task[c].moved, "index", task[c].got)
  /\ UNCHANGED <<docs, index, l1, flex, flexLast, feed, count, whole, excuse, clash>>

(* Keep is such a step.                                                    *)
LEMMA KeepDoes ==
  ASSUME Typed, NEW c \in Clients, Keep(c)
  PROVE  DidKeep(c)
<1>1. task \in [Clients -> Task] /\ task[c] \in Task
  BY DEF Typed, TypeOK
<1>z. 0 \in Int
  OBVIOUS
<1>g. task[c].pc = "keep"
  BY DEF Keep
<1>f. /\ UNCHANGED <<docs, index, l1, flex, flexLast, feed, count, whole, excuse, clash>>
  BY DEF Keep, badgerVars, memVars, flexVars, metaVars, ghosts
<1>3. ASSUME task[c].op = "count"
      PROVE  /\ task' \in [Clients -> Task] /\ Others(c, task[c].ids, {})
             /\ Now(c, task[c].op, "done", task[c].ids, task[c].put, task[c].val,
                  {}, task[c].shown, task[c].reads, task[c].torn, task[c].base,
                  task[c].moved, "index", task[c].got)
  <2> DEFINE u == [task[c] EXCEPT !.pc = "done", !.todo = {}, !.src = "index"]
  <2>1. u \in Task
    BY <1>1, <1>z, <1>3, IdleType DEF Task, Pcs, Writers, Readers
  <2>2. Is(u, task[c].op, "done", task[c].ids, task[c].put, task[c].val, {},
           task[c].shown, task[c].reads, task[c].torn, task[c].base,
           task[c].moved, "index", task[c].got)
    BY <1>1, <1>z, <1>3 DEF Is, Task, Idle
  <2>3. task' = Shift(c, u, {})
    BY <1>1, <1>z, <1>3 DEF Keep, Step, Looked, Task
  <2> HIDE DEF u
  <2>4. task'[c] = u /\ Others(c, u.ids, {}) /\ task' \in [Clients -> Task]
    BY <1>1, <2>1, <2>3, ShiftOthers, ShiftType
  <2> QED
    BY <1>g, <1>f, <2>2, <2>4 DEF Now, Is
<1>4. ASSUME task[c].op # "count" /\ task[c].todo = {}
      PROVE  /\ task' \in [Clients -> Task] /\ Others(c, task[c].ids, {})
             /\ Now(c, task[c].op, "scan", task[c].ids, task[c].put, task[c].val,
                  {}, task[c].shown, task[c].reads, task[c].torn, 0,
                  task[c].moved, task[c].src, task[c].got)
  <2> DEFINE u == [task[c] EXCEPT !.pc = "scan", !.todo = {}, !.base = 0]
  <2>1. u \in Task
    BY <1>1, <1>z, <1>4, IdleType DEF Task, Pcs, Writers, Readers
  <2>2. Is(u, task[c].op, "scan", task[c].ids, task[c].put, task[c].val, {},
           task[c].shown, task[c].reads, task[c].torn, 0, task[c].moved,
           task[c].src, task[c].got)
    BY <1>1, <1>z, <1>4 DEF Is, Task, Idle
  <2>3. task' = Shift(c, u, {})
    BY <1>1, <1>z, <1>4 DEF Keep, Step, Looked, Task
  <2> HIDE DEF u
  <2>4. task'[c] = u /\ Others(c, u.ids, {}) /\ task' \in [Clients -> Task]
    BY <1>1, <2>1, <2>3, ShiftOthers, ShiftType
  <2> QED
    BY <1>g, <1>f, <2>2, <2>4 DEF Now, Is
<1>5. ASSUME task[c].op # "count" /\ task[c].todo # {}
      PROVE  /\ task' \in [Clients -> Task] /\ Others(c, task[c].ids, {})
             /\ Now(c, task[c].op, "fetch", task[c].ids, task[c].put, task[c].val,
                  task[c].todo, task[c].shown, task[c].reads, task[c].torn, 0,
                  task[c].moved, "index", task[c].got)
  <2> DEFINE u == [task[c] EXCEPT !.pc = "fetch", !.base = 0, !.src = "index"]
  <2>1. u \in Task
    <3>1. "fetch" \in Pcs /\ "index" \in {"none", "flex", "l2", "index", "scan"}
      BY DEF Pcs, Writers, Readers
    <3> QED BY <1>1, <3>1, <1>z, <1>5, IdleType DEF Task
  <2>2. Is(u, task[c].op, "fetch", task[c].ids, task[c].put, task[c].val,
           task[c].todo, task[c].shown, task[c].reads, task[c].torn, 0,
           task[c].moved, "index", task[c].got)
    BY <1>1, <1>z, <1>5 DEF Is, Task, Idle
  <2>3. task' = Shift(c, u, {})
    BY <1>1, <1>z, <1>5 DEF Keep, Step, Looked, Task
  <2> HIDE DEF u
  <2>4. task'[c] = u /\ Others(c, u.ids, {}) /\ task' \in [Clients -> Task]
    BY <1>1, <2>1, <2>3, ShiftOthers, ShiftType
  <2> QED
    BY <1>g, <1>f, <2>2, <2>4 DEF Now, Is
<1> QED
  BY <1>g, <1>f, <1>3, <1>4, <1>5 DEF DidKeep

(* A Find scans the block.                                                 *)
DidScan(c) ==
  /\ task[c].pc = "scan"
  /\ task' \in [Clients -> Task]
  /\ Others(c, task[c].ids, {})
  /\ Now(c, task[c].op, "done", task[c].ids, task[c].put, task[c].val,
        task[c].todo, task[c].shown, task[c].reads, task[c].torn,
        task[c].base, task[c].moved, "scan",
        {<<i, docs[i]>> : i \in Matching(task[c].val)})
  /\ UNCHANGED <<docs, index, l1, l2, flex, flexLast, feed, count, whole, excuse, clash>>

(* Scan is such a step.                                                    *)
LEMMA ScanDoes ==
  ASSUME Typed, NEW c \in Clients, Scan(c)
  PROVE  DidScan(c)
<1>1. task \in [Clients -> Task] /\ task[c] \in Task
  BY DEF Typed, TypeOK
<1>a0. task[c].val \in Vals
  BY PhaseOps DEF Scan, Typed, Shape, ReaderShape
<1>a1. {<<i, docs[i]>> : i \in Matching(task[c].val)} \in SUBSET (Ids \X Vals)
  BY <1>a0 DEF Matching
<1>g. task[c].pc = "scan"
  BY DEF Scan
<1>f. /\ UNCHANGED <<docs, index, l1, l2, flex, flexLast, feed, count, whole, excuse,
           clash>>
  BY DEF Scan, badgerVars, memVars, flexVars, metaVars, ghosts
<1> QED
  <2> DEFINE g == {<<i, docs[i]>> : i \in Matching(task[c].val)}
  <2>0. g \in SUBSET (Ids \X Vals)
    BY <1>a1
  <2> HIDE DEF g
  <2> DEFINE u == [task[c] EXCEPT !.pc = "done", !.src = "scan", !.got = g]
  <2>1. u \in Task
    BY <1>1, <2>0, AnswerType
  <2>2. Is(u, task[c].op, "done", task[c].ids, task[c].put, task[c].val,
           task[c].todo, task[c].shown, task[c].reads, task[c].torn,
           task[c].base, task[c].moved, "scan",
           g)
    BY <1>1, <1>a0, <1>a1 DEF Is, Task, Idle
  <2> USE DEF g
  <2>3. task' = Shift(c, u, {})
    BY <1>1, <1>a0, <1>a1 DEF Scan, Step
  <2> HIDE DEF u, g
  <2>4. task'[c] = u /\ Others(c, u.ids, {}) /\ task' \in [Clients -> Task]
    BY <1>1, <2>1, <2>3, ShiftOthers, ShiftType
  <2> QED
    BY <1>g, <1>f, <2>2, <2>4 DEF Now, Is, g, DidScan

(* A Find has all it looked for.                                           *)
DidFetched(c) ==
  /\ task[c].pc = "fetch" /\ task[c].todo = {}
  /\ task' \in [Clients -> Task]
  /\ task[c].src = "flex" /\ task[c].got = {} =>
       /\ Others(c, task[c].ids, {})
       /\ Now(c, task[c].op, "lock", task[c].ids, task[c].put, task[c].val,
             task[c].todo, task[c].shown, task[c].reads, task[c].torn,
             task[c].base, task[c].moved, "none", task[c].got)
  /\ ~(task[c].src = "flex" /\ task[c].got = {}) /\ task[c].src \in {"index", "l2"} =>
       /\ Others(c, task[c].ids, {})
       /\ Now(c, task[c].op, "done", task[c].ids, task[c].put, task[c].val,
             task[c].todo, task[c].shown, task[c].reads, task[c].torn,
             task[c].base, task[c].moved, task[c].src,
             {g \in task[c].got : g[2] = task[c].val})
  /\ ~(task[c].src = "flex" /\ task[c].got = {}) /\ task[c].src \notin {"index", "l2"} =>
       /\ Others(c, task[c].ids, {})
       /\ Now(c, task[c].op, "done", task[c].ids, task[c].put, task[c].val,
             task[c].todo, task[c].shown, task[c].reads, task[c].torn,
             task[c].base, task[c].moved, task[c].src, task[c].got)
  /\ UNCHANGED <<docs, index, l1, l2, flex, flexLast, feed, count, whole, excuse, clash>>

(* Fetched is such a step.                                                 *)
LEMMA FetchedDoes ==
  ASSUME Typed, NEW c \in Clients, Fetched(c)
  PROVE  DidFetched(c)
<1>1. task \in [Clients -> Task] /\ task[c] \in Task
  BY DEF Typed, TypeOK
<1>a0. {g \in task[c].got : g[2] = task[c].val} \in SUBSET (Ids \X Vals)
  BY <1>1 DEF Task
<1>g. task[c].pc = "fetch" /\ task[c].todo = {}
  BY DEF Fetched
<1>f. /\ UNCHANGED <<docs, index, l1, l2, flex, flexLast, feed, count, whole, excuse,
           clash>>
  BY DEF Fetched, badgerVars, memVars, flexVars, metaVars, ghosts
<1>3. ASSUME task[c].src = "flex" /\ task[c].got = {}
      PROVE  /\ task' \in [Clients -> Task] /\ Others(c, task[c].ids, {})
             /\ Now(c, task[c].op, "lock", task[c].ids, task[c].put, task[c].val,
                  task[c].todo, task[c].shown, task[c].reads, task[c].torn,
                  task[c].base, task[c].moved, "none", task[c].got)
  <2> DEFINE u == [task[c] EXCEPT !.pc = "lock", !.src = "none"]
  <2>1. u \in Task
    BY <1>1, <1>a0, <1>3, IdleType DEF Task, Pcs, Writers, Readers
  <2>2. Is(u, task[c].op, "lock", task[c].ids, task[c].put, task[c].val,
           task[c].todo, task[c].shown, task[c].reads, task[c].torn,
           task[c].base, task[c].moved, "none", task[c].got)
    BY <1>1, <1>a0, <1>3 DEF Is, Task, Idle
  <2>3. task' = Shift(c, u, {})
    BY <1>1, <1>a0, <1>3 DEF Fetched, Step
  <2> HIDE DEF u
  <2>4. task'[c] = u /\ Others(c, u.ids, {}) /\ task' \in [Clients -> Task]
    BY <1>1, <2>1, <2>3, ShiftOthers, ShiftType
  <2> QED
    BY <1>g, <1>f, <2>2, <2>4 DEF Now, Is
<1>4. ASSUME ~(task[c].src = "flex" /\ task[c].got = {}) /\ task[c].src \in {"index", "l2"}
      PROVE  /\ task' \in [Clients -> Task] /\ Others(c, task[c].ids, {})
             /\ Now(c, task[c].op, "done", task[c].ids, task[c].put, task[c].val,
                  task[c].todo, task[c].shown, task[c].reads, task[c].torn,
                  task[c].base, task[c].moved, task[c].src,
                  {g \in task[c].got : g[2] = task[c].val})
  <2> DEFINE u == [task[c] EXCEPT !.pc = "done",
    !.got = {g \in task[c].got : g[2] = task[c].val}]
  <2>1. u \in Task
    <3>1. "done" \in Pcs
      BY DEF Pcs, Writers, Readers
    <3> QED BY <1>1, <3>1, <1>a0, <1>4, IdleType DEF Task
  <2>2. Is(u, task[c].op, "done", task[c].ids, task[c].put, task[c].val,
           task[c].todo, task[c].shown, task[c].reads, task[c].torn,
           task[c].base, task[c].moved, task[c].src,
           {g \in task[c].got : g[2] = task[c].val})
    BY <1>1, <1>a0, <1>4 DEF Is, Task, Idle
  <2>3. task' = Shift(c, u, {})
    BY <1>1, <1>a0, <1>4 DEF Fetched, Step
  <2> HIDE DEF u
  <2>4. task'[c] = u /\ Others(c, u.ids, {}) /\ task' \in [Clients -> Task]
    BY <1>1, <2>1, <2>3, ShiftOthers, ShiftType
  <2> QED
    BY <1>g, <1>f, <2>2, <2>4 DEF Now, Is
<1>5. ASSUME ~(task[c].src = "flex" /\ task[c].got = {}) /\
             task[c].src \notin {"index", "l2"}
      PROVE  /\ task' \in [Clients -> Task] /\ Others(c, task[c].ids, {})
             /\ Now(c, task[c].op, "done", task[c].ids, task[c].put, task[c].val,
                  task[c].todo, task[c].shown, task[c].reads, task[c].torn,
                  task[c].base, task[c].moved, task[c].src, task[c].got)
  <2> DEFINE u == [task[c] EXCEPT !.pc = "done"]
  <2>1. u \in Task
    BY <1>1, <1>a0, <1>5, IdleType DEF Task, Pcs, Writers, Readers
  <2>2. Is(u, task[c].op, "done", task[c].ids, task[c].put, task[c].val,
           task[c].todo, task[c].shown, task[c].reads, task[c].torn,
           task[c].base, task[c].moved, task[c].src, task[c].got)
    BY <1>1, <1>a0, <1>5 DEF Is, Task, Idle
  <2>3. task' = Shift(c, u, {})
    BY <1>1, <1>a0, <1>5 DEF Fetched, Step
  <2> HIDE DEF u
  <2>4. task'[c] = u /\ Others(c, u.ids, {}) /\ task' \in [Clients -> Task]
    BY <1>1, <2>1, <2>3, ShiftOthers, ShiftType
  <2> QED
    BY <1>g, <1>f, <2>2, <2>4 DEF Now, Is
<1> QED
  BY <1>g, <1>f, <1>3, <1>4, <1>5 DEF DidFetched

(* A reader is done.                                                       *)
DidReturn(c) ==
  /\ task[c].pc = "done"
  /\ task' \in [Clients -> Task]
  /\ Others(c, {}, {})
  /\ Now(c, "none", "idle", {}, NoDocs, NoVal, {}, {}, {}, FALSE, 0, {},
        "none", {})
  /\ UNCHANGED <<docs, index, l1, l2, flex, flexLast, feed, count, whole, excuse, clash>>

(* Return is such a step.                                                  *)
LEMMA ReturnDoes ==
  ASSUME Typed, NEW c \in Clients, Return(c)
  PROVE  DidReturn(c)
<1>1. task \in [Clients -> Task] /\ task[c] \in Task
  BY DEF Typed, TypeOK
<1>g. task[c].pc = "done"
  BY DEF Return
<1>f. /\ UNCHANGED <<docs, index, l1, l2, flex, flexLast, feed, count, whole, excuse,
           clash>>
  BY DEF Return, badgerVars, memVars, flexVars, metaVars, ghosts
<1> QED
  <2> DEFINE u == Idle
  <2>1. u \in Task
    BY <1>1, IdleType DEF Task, Pcs, Writers, Readers
  <2>2. Is(u, "none", "idle", {}, NoDocs, NoVal, {}, {}, {}, FALSE, 0, {}, "none",
           {})
    BY <1>1 DEF Is, Task, Idle
  <2>3. task' = Shift(c, u, {})
    BY <1>1 DEF Return, Step
  <2> HIDE DEF u
  <2>4. task'[c] = u /\ Others(c, u.ids, {}) /\ task' \in [Clients -> Task]
    BY <1>1, <2>1, <2>3, ShiftOthers, ShiftType
  <2> QED
    BY <1>g, <1>f, <2>2, <2>4 DEF Now, Is, DidReturn

(* A reader fetches a document.                                            *)
DidFetch(c, i) ==
  /\ task[c].pc = "fetch" /\ i \in task[c].todo
  /\ task' \in [Clients -> Task]
  /\ l1[i] # NoVal =>
       /\ Others(c, task[c].ids, {})
       /\ Now(c, task[c].op, task[c].pc, task[c].ids, task[c].put,
             task[c].val, task[c].todo \ {i}, task[c].shown,
             task[c].reads, task[c].torn, task[c].base, task[c].moved,
             task[c].src, task[c].got \cup {<<i, l1[i]>>})
  /\ l1[i] = NoVal /\ docs[i] = NoVal =>
       /\ Others(c, task[c].ids, {})
       /\ Now(c, task[c].op, task[c].pc, task[c].ids, task[c].put,
             task[c].val, task[c].todo \ {i}, task[c].shown,
             task[c].reads, task[c].torn, task[c].base, task[c].moved,
             task[c].src, task[c].got)
  /\ l1[i] = NoVal /\ docs[i] # NoVal =>
       /\ Others(c, task[c].ids, {})
       /\ Now(c, task[c].op, "fill", task[c].ids,
             [task[c].put EXCEPT ![i] = docs[i]], task[c].val,
             task[c].todo \ {i}, task[c].shown, task[c].reads,
             task[c].torn, task[c].base, task[c].moved, task[c].src,
             task[c].got)
  /\ UNCHANGED <<docs, index, l1, l2, flex, flexLast, feed, count, whole, excuse, clash>>

(* Fetch is such a step.                                                   *)
LEMMA FetchDoes ==
  ASSUME Typed, NEW c \in Clients, NEW i \in Ids, Fetch(c, i)
  PROVE  DidFetch(c, i)
<1>1. task \in [Clients -> Task] /\ task[c] \in Task
  BY DEF Typed, TypeOK
<1>a0. l1[i] # NoVal => task[c].got \cup {<<i, l1[i]>>} \in SUBSET (Ids \X Vals)
  BY <1>1 DEF Task, Typed, TypeOK
<1>a1. [task[c].put EXCEPT ![i] = docs[i]] \in [Ids -> Vals \cup {NoVal}]
  BY <1>1 DEF Task, Typed, TypeOK
<1>g. task[c].pc = "fetch" /\ i \in task[c].todo
  BY DEF Fetch
<1>f. /\ UNCHANGED <<docs, index, l1, l2, flex, flexLast, feed, count, whole, excuse,
           clash>>
  BY DEF Fetch, badgerVars, memVars, flexVars, metaVars, ghosts
<1>3. ASSUME l1[i] # NoVal
      PROVE  /\ task' \in [Clients -> Task] /\ Others(c, task[c].ids, {})
             /\ Now(c, task[c].op, task[c].pc, task[c].ids, task[c].put,
                  task[c].val, task[c].todo \ {i}, task[c].shown,
                  task[c].reads, task[c].torn, task[c].base, task[c].moved,
                  task[c].src, task[c].got \cup {<<i, l1[i]>>})
  <2> DEFINE u == [task[c] EXCEPT !.todo = task[c].todo \ {i}, !.got = task[c].got \cup
    {<<i, l1[i]>>}]
  <2>1. u \in Task
    BY <1>1, <1>a0, <1>a1, <1>3, IdleType DEF Task, Pcs, Writers, Readers
  <2>2. Is(u, task[c].op, task[c].pc, task[c].ids, task[c].put, task[c].val,
           task[c].todo \ {i}, task[c].shown, task[c].reads, task[c].torn,
           task[c].base, task[c].moved, task[c].src,
           task[c].got \cup {<<i, l1[i]>>})
    BY <1>1, <1>a0, <1>a1, <1>3 DEF Is, Task, Idle
  <2>3. task' = Shift(c, u, {})
    BY <1>1, <1>a0, <1>a1, <1>3 DEF Fetch, Step
  <2> HIDE DEF u
  <2>4. task'[c] = u /\ Others(c, u.ids, {}) /\ task' \in [Clients -> Task]
    BY <1>1, <2>1, <2>3, ShiftOthers, ShiftType
  <2> QED
    BY <1>g, <1>f, <2>2, <2>4 DEF Now, Is
<1>4. ASSUME l1[i] = NoVal /\ docs[i] = NoVal
      PROVE  /\ task' \in [Clients -> Task] /\ Others(c, task[c].ids, {})
             /\ Now(c, task[c].op, task[c].pc, task[c].ids, task[c].put,
                  task[c].val, task[c].todo \ {i}, task[c].shown,
                  task[c].reads, task[c].torn, task[c].base, task[c].moved,
                  task[c].src, task[c].got)
  <2> DEFINE u == [task[c] EXCEPT !.todo = task[c].todo \ {i}]
  <2>1. u \in Task
    BY <1>1, <1>a0, <1>a1, <1>4, IdleType DEF Task, Pcs, Writers, Readers
  <2>2. Is(u, task[c].op, task[c].pc, task[c].ids, task[c].put, task[c].val,
           task[c].todo \ {i}, task[c].shown, task[c].reads, task[c].torn,
           task[c].base, task[c].moved, task[c].src, task[c].got)
    BY <1>1, <1>a0, <1>a1, <1>4 DEF Is, Task, Idle
  <2>3. task' = Shift(c, u, {})
    BY <1>1, <1>a0, <1>a1, <1>4 DEF Fetch, Step
  <2> HIDE DEF u
  <2>4. task'[c] = u /\ Others(c, u.ids, {}) /\ task' \in [Clients -> Task]
    BY <1>1, <2>1, <2>3, ShiftOthers, ShiftType
  <2> QED
    BY <1>g, <1>f, <2>2, <2>4 DEF Now, Is
<1>5. ASSUME l1[i] = NoVal /\ docs[i] # NoVal
      PROVE  /\ task' \in [Clients -> Task] /\ Others(c, task[c].ids, {})
             /\ Now(c, task[c].op, "fill", task[c].ids,
                  [task[c].put EXCEPT ![i] = docs[i]], task[c].val,
                  task[c].todo \ {i}, task[c].shown, task[c].reads,
                  task[c].torn, task[c].base, task[c].moved, task[c].src,
                  task[c].got)
  <2> DEFINE u == [task[c] EXCEPT !.pc = "fill",
    !.put = [task[c].put EXCEPT ![i] = docs[i]], !.todo = task[c].todo \ {i}]
  <2>1. u \in Task
    <3>1. "fill" \in Pcs
      BY DEF Pcs, Writers, Readers
    <3> QED BY <1>1, <3>1, <1>a0, <1>a1, <1>5, IdleType DEF Task
  <2>2. Is(u, task[c].op, "fill", task[c].ids, [task[c].put EXCEPT ![i] = docs[i]],
           task[c].val, task[c].todo \ {i}, task[c].shown, task[c].reads,
           task[c].torn, task[c].base, task[c].moved, task[c].src, task[c].got)
    BY <1>1, <1>a0, <1>a1, <1>5 DEF Is, Task, Idle
  <2>3. task' = Shift(c, u, {})
    BY <1>1, <1>a0, <1>a1, <1>5 DEF Fetch, Step
  <2> HIDE DEF u
  <2>4. task'[c] = u /\ Others(c, u.ids, {}) /\ task' \in [Clients -> Task]
    BY <1>1, <2>1, <2>3, ShiftOthers, ShiftType
  <2> QED
    BY <1>g, <1>f, <2>2, <2>4 DEF Now, Is
<1> QED
  BY <1>g, <1>f, <1>3, <1>4, <1>5 DEF DidFetch

(* A reader fills the cache.                                               *)
DidFill(c, i) ==
  /\ task[c].pc = "fill" /\ task[c].put[i] # NoVal
  /\ task' \in [Clients -> Task]
  /\ Others(c, task[c].ids, {})
  /\ Now(c, task[c].op, "fetch", task[c].ids, NoDocs, task[c].val,
        task[c].todo, task[c].shown, task[c].reads, task[c].torn,
        task[c].base, task[c].moved, task[c].src,
        task[c].got \cup {<<i, task[c].put[i]>>})
  /\ L1Set(i, task[c].put[i])
  /\ excuse' = IF Late(c, i) THEN Excused({i}, "lateFill") ELSE excuse
  /\ UNCHANGED <<docs, index, l2, flex, flexLast, feed, count, whole, clash>>

(* Fill is such a step.                                                    *)
LEMMA FillDoes ==
  ASSUME Typed, NEW c \in Clients, NEW i \in Ids, Fill(c, i)
  PROVE  DidFill(c, i)
<1>1. task \in [Clients -> Task] /\ task[c] \in Task
  BY DEF Typed, TypeOK
<1>a0. NoDocs \in [Ids -> Vals \cup {NoVal}]
  BY DEF NoDocs
<1>a1. task[c].got \cup {<<i, task[c].put[i]>>} \in SUBSET (Ids \X Vals)
  BY <1>1 DEF Task, Fill
<1>g. task[c].pc = "fill" /\ task[c].put[i] # NoVal
  BY DEF Fill
<1>f. /\ L1Set(i, task[c].put[i])
      /\ excuse' = IF Late(c, i) THEN Excused({i}, "lateFill") ELSE excuse
      /\ UNCHANGED <<docs, index, l2, flex, flexLast, feed, count, whole, clash>>
  BY DEF Fill, badgerVars, memVars, flexVars, metaVars, ghosts
<1> QED
  <2> DEFINE u == [task[c] EXCEPT !.pc = "fetch", !.put = NoDocs, !.got = task[c].got \cup
    {<<i, task[c].put[i]>>}]
  <2>1. u \in Task
    BY <1>1, <1>a0, <1>a1, IdleType DEF Task, Pcs, Writers, Readers
  <2>2. Is(u, task[c].op, "fetch", task[c].ids, NoDocs, task[c].val, task[c].todo,
           task[c].shown, task[c].reads, task[c].torn, task[c].base,
           task[c].moved, task[c].src, task[c].got \cup {<<i, task[c].put[i]>>})
    BY <1>1, <1>a0, <1>a1 DEF Is, Task, Idle
  <2>3. task' = Shift(c, u, {})
    BY <1>1, <1>a0, <1>a1 DEF Fill, Step
  <2> HIDE DEF u
  <2>4. task'[c] = u /\ Others(c, u.ids, {}) /\ task' \in [Clients -> Task]
    BY <1>1, <2>1, <2>3, ShiftOthers, ShiftType
  <2> QED
    BY <1>g, <1>f, <2>2, <2>4 DEF Now, Is, DidFill

-----------------------------------------------------------------------------
(* Types *)

(* An excuse added is a cause.                                             *)
LEMMA ExcusedType ==
  ASSUME TypeOK, NEW ids, NEW why \in Causes
  PROVE  Excused(ids, why) \in [Ids -> SUBSET Causes]
  BY DEF TypeOK, Excused

(* The index and FLEX-COLUMN get values of documents.                      *)
LEMMA PutTypes ==
  ASSUME Typed, NEW c \in Clients, task[c].op \in {"insert", "batch", "update"}
  PROVE  /\ task[c].ids \subseteq Ids /\ task[c].todo \subseteq task[c].ids
         /\ \A i \in task[c].ids : task[c].put[i] \in Vals
  BY DEF Typed, TypeOK, Task, Shape, WriterShape, Writers

Copies ==
  /\ docs \in [Ids -> Vals \cup {NoVal}] /\ index \in [Ids -> SUBSET Vals]
  /\ l1 \in [Ids -> Vals \cup {NoVal}] /\ l2 \in [Vals -> Entry \cup {NoEntry}]
  /\ flex \in [Ids -> SUBSET Vals] /\ flexLast \in [Ids -> Vals \cup {NoVal}]
  /\ feed \in [Ids -> Vals \cup {NoVal}] /\ count \in Int /\ whole \in BOOLEAN

Ghosts ==
  /\ excuse \in [Ids -> SUBSET Causes] /\ clash \in BOOLEAN
  /\ ops \in 0..MaxOps /\ restarts \in 0..MaxRestarts

(* Every step keeps the types.                                             *)
LEMMA TypeStep ==
  ASSUME Typed, [Next]_vars
  PROVE  TypeOK'
<1>a. Copies /\ Ghosts
  BY DEF Typed, TypeOK, Copies, Ghosts
<1>o. TypeOK
  BY DEF Typed
<1>t. \A c \in Clients : /\ task[c].put \in [Ids -> Vals \cup {NoVal}] /\
                              task[c].val \in Vals \cup {NoVal}
                       /\ task[c].todo \in SUBSET Ids /\ task[c].ids \in SUBSET Ids
  BY DEF Typed, TypeOK, Task
<1>p. \A c \in Clients : task[c].pc = "keep" => task[c].base \in Nat /\ task[c].val \in Vals
  BY PhaseOps DEF Typed, Shape, ReaderShape

<1>1. ASSUME NEW c \in Clients, NEW i \in Ids, NEW v \in Vals, Insert(c, i, v)
      PROVE  TypeOK'
  <2>1. task' \in [Clients -> Task]
    BY <1>1, InsertDoes DEF DidInsert
  <2>2. Copies'
    BY <1>1, <1>a DEF Copies, Insert, badgerVars, memVars, flexVars, metaVars, ghosts
  <2>3. Ghosts'
    BY <1>1, <1>a, <1>o, ExcusedType, ConstantsAssumption DEF Ghosts, Insert, CanStart,
       Causes, ConstantsAssumption, badgerVars, memVars, flexVars, metaVars, ghosts
  <2> QED
    BY <2>1, <2>2, <2>3 DEF Copies, Ghosts, TypeOK
<1>2. ASSUME NEW c \in Clients, NEW put \in [Ids -> Vals \cup {NoVal}], Batch(c, put)
      PROVE  TypeOK'
  <2>1. task' \in [Clients -> Task]
    BY <1>2, BatchDoes DEF DidBatch
  <2>2. Copies'
    BY <1>2, <1>a DEF Copies, Batch, badgerVars, memVars, flexVars, metaVars, ghosts
  <2>3. Ghosts'
    BY <1>2, <1>a, <1>o, ExcusedType, ConstantsAssumption DEF Ghosts, Batch, CanStart,
       Causes, ConstantsAssumption, badgerVars, memVars, flexVars, metaVars, ghosts
  <2> QED
    BY <2>1, <2>2, <2>3 DEF Copies, Ghosts, TypeOK
<1>3. ASSUME NEW c \in Clients, NEW v \in Vals, NEW w \in Vals, NEW ids \in SUBSET Ids,
             UpdateStart(c, v, w, ids)
      PROVE  TypeOK'
  <2>1. task' \in [Clients -> Task]
    BY <1>3, UpdateStartDoes DEF DidUpdateStart
  <2>2. Copies'
    BY <1>3, <1>a DEF Copies, UpdateStart, badgerVars, memVars, flexVars, metaVars, ghosts
  <2>3. Ghosts'
    BY <1>3, <1>a, <1>o, ExcusedType, ConstantsAssumption DEF Ghosts, UpdateStart,
       CanStart, Causes, ConstantsAssumption, badgerVars, memVars, flexVars, metaVars,
       ghosts
  <2> QED
    BY <2>1, <2>2, <2>3 DEF Copies, Ghosts, TypeOK
<1>4. ASSUME NEW c \in Clients, NEW v \in Vals, NEW ids \in SUBSET Ids,
             DeleteStart(c, v, ids)
      PROVE  TypeOK'
  <2>1. task' \in [Clients -> Task]
    BY <1>4, DeleteStartDoes DEF DidDeleteStart
  <2>2. Copies'
    BY <1>4, <1>a DEF Copies, DeleteStart, badgerVars, memVars, flexVars, metaVars, ghosts
  <2>3. Ghosts'
    BY <1>4, <1>a, <1>o, ExcusedType, ConstantsAssumption DEF Ghosts, DeleteStart,
       CanStart, Causes, ConstantsAssumption, badgerVars, memVars, flexVars, metaVars,
       ghosts
  <2> QED
    BY <2>1, <2>2, <2>3 DEF Copies, Ghosts, TypeOK
<1>5. ASSUME NEW c \in Clients, NEW i \in Ids, Get(c, i)
      PROVE  TypeOK'
  <2>1. task' \in [Clients -> Task]
    BY <1>5, GetDoes DEF DidGet
  <2>2. Copies'
    BY <1>5, <1>a DEF Copies, Get, badgerVars, memVars, flexVars, metaVars, ghosts
  <2>3. Ghosts'
    BY <1>5, <1>a, ConstantsAssumption DEF Ghosts, Get, CanStart, ConstantsAssumption,
       badgerVars, memVars, flexVars, metaVars, ghosts
  <2> QED
    BY <2>1, <2>2, <2>3 DEF Copies, Ghosts, TypeOK
<1>6. ASSUME NEW c \in Clients, NEW v \in Vals, NEW alone \in BOOLEAN, Find(c, v, alone)
      PROVE  TypeOK'
  <2>1. task' \in [Clients -> Task]
    BY <1>6, FindDoes DEF DidFind
  <2>2. Copies'
    BY <1>6, <1>a DEF Copies, Find, badgerVars, memVars, flexVars, metaVars, ghosts
  <2>3. Ghosts'
    BY <1>6, <1>a, ConstantsAssumption DEF Ghosts, Find, CanStart, ConstantsAssumption,
       badgerVars, memVars, flexVars, metaVars, ghosts
  <2> QED
    BY <2>1, <2>2, <2>3 DEF Copies, Ghosts, TypeOK
<1>7. ASSUME NEW c \in Clients, NEW v \in Vals, Count(c, v)
      PROVE  TypeOK'
  <2>1. task' \in [Clients -> Task]
    BY <1>7, CountDoes DEF DidCount
  <2>2. Copies'
    BY <1>7, <1>a DEF Copies, Count, badgerVars, memVars, flexVars, metaVars, ghosts
  <2>3. Ghosts'
    BY <1>7, <1>a, ConstantsAssumption DEF Ghosts, Count, CanStart, ConstantsAssumption,
       badgerVars, memVars, flexVars, metaVars, ghosts
  <2> QED
    BY <2>1, <2>2, <2>3 DEF Copies, Ghosts, TypeOK
<1>8. ASSUME NEW c \in Clients, Refused(c)
      PROVE  TypeOK'
  <2>1. task' \in [Clients -> Task]
    BY <1>8 DEF Refused, Typed, TypeOK
  <2>2. Copies'
    BY <1>8, <1>a DEF Copies, Refused, badgerVars, memVars, flexVars, metaVars, ghosts
  <2>3. Ghosts'
    BY <1>8, <1>a, ConstantsAssumption DEF Ghosts, Refused, CanStart, ConstantsAssumption,
       badgerVars, memVars, flexVars, metaVars, ghosts
  <2> QED
    BY <2>1, <2>2, <2>3 DEF Copies, Ghosts, TypeOK
<1>9. ASSUME NEW c \in Clients, InsertIndex(c)
      PROVE  TypeOK'
  <2>1. task' \in [Clients -> Task]
    BY <1>9, InsertIndexDoes DEF DidInsertIndex
  <2>2. Copies'
    BY <1>9, <1>a, PutTypes, PhaseOps DEF Copies, InsertIndex, badgerVars, memVars,
       flexVars, metaVars, ghosts
  <2>3. Ghosts'
    BY <1>9, <1>a, ConstantsAssumption DEF Ghosts, InsertIndex, ConstantsAssumption,
       badgerVars, memVars, flexVars, metaVars, ghosts
  <2> QED
    BY <2>1, <2>2, <2>3 DEF Copies, Ghosts, TypeOK
<1>10. ASSUME NEW c \in Clients, InsertIndexFails(c)
      PROVE  TypeOK'
  <2>1. task' \in [Clients -> Task]
    BY <1>10, InsertIndexFailsDoes DEF DidInsertIndexFails
  <2>2. Copies'
    BY <1>10, <1>a DEF Copies, InsertIndexFails, badgerVars, memVars, flexVars, metaVars,
       ghosts
  <2>3. Ghosts'
    BY <1>10, <1>a, <1>o, ExcusedType, ConstantsAssumption DEF Ghosts, InsertIndexFails,
       Causes, ConstantsAssumption, badgerVars, memVars, flexVars, metaVars, ghosts
  <2> QED
    BY <2>1, <2>2, <2>3 DEF Copies, Ghosts, TypeOK
<1>11. ASSUME NEW c \in Clients, BatchFlush(c)
      PROVE  TypeOK'
  <2>1. task' \in [Clients -> Task]
    BY <1>11, BatchFlushDoes DEF DidBatchFlush
  <2>2. Copies'
    BY <1>11, <1>a, PutTypes, PhaseOps DEF Copies, BatchFlush, Stored, badgerVars, memVars,
       flexVars, metaVars, ghosts
  <2>3. Ghosts'
    BY <1>11, <1>a, <1>o, ExcusedType, ConstantsAssumption DEF Ghosts, BatchFlush, Causes,
       ConstantsAssumption, badgerVars, memVars, flexVars, metaVars, ghosts
  <2> QED
    BY <2>1, <2>2, <2>3 DEF Copies, Ghosts, TypeOK
<1>12. ASSUME NEW c \in Clients, NEW stored \in SUBSET Ids, BatchFlushFails(c, stored)
      PROVE  TypeOK'
  <2>1. task' \in [Clients -> Task]
    BY <1>12, BatchFlushFailsDoes DEF DidBatchFlushFails
  <2>2. Copies'
    BY <1>12, <1>a, PutTypes, PhaseOps DEF Copies, BatchFlushFails, Stored, badgerVars,
       memVars, flexVars, metaVars, ghosts
  <2>3. Ghosts'
    BY <1>12, <1>a, <1>o, ExcusedType, ConstantsAssumption DEF Ghosts, BatchFlushFails,
       Causes, ConstantsAssumption, badgerVars, memVars, flexVars, metaVars, ghosts
  <2> QED
    BY <2>1, <2>2, <2>3 DEF Copies, Ghosts, TypeOK
<1>13. ASSUME NEW c \in Clients, LoadCount(c)
      PROVE  TypeOK'
  <2>1. task' \in [Clients -> Task]
    BY <1>13, LoadCountDoes DEF DidLoadCount
  <2>2. Copies'
    BY <1>13, <1>a DEF Copies, LoadCount, badgerVars, memVars, flexVars, metaVars, ghosts
  <2>3. Ghosts'
    BY <1>13, <1>a, ConstantsAssumption DEF Ghosts, LoadCount, ConstantsAssumption,
       badgerVars, memVars, flexVars, metaVars, ghosts
  <2> QED
    BY <2>1, <2>2, <2>3 DEF Copies, Ghosts, TypeOK
<1>14. ASSUME NEW c \in Clients, SaveBegins(c)
      PROVE  TypeOK'
  <2>1. task' \in [Clients -> Task]
    BY <1>14, SaveBeginsDoes DEF DidSaveBegins
  <2>2. Copies'
    BY <1>14, <1>a DEF Copies, SaveBegins, badgerVars, memVars, flexVars, metaVars, ghosts
  <2>3. Ghosts'
    BY <1>14, <1>a, ConstantsAssumption DEF Ghosts, SaveBegins, ConstantsAssumption,
       badgerVars, memVars, flexVars, metaVars, ghosts
  <2> QED
    BY <2>1, <2>2, <2>3 DEF Copies, Ghosts, TypeOK
<1>15. ASSUME NEW c \in Clients, SaveCount(c)
      PROVE  TypeOK'
  <2>a. task[c].base + Delta(task[c]) \in Int
    <3>1. IsFiniteSet(task[c].shown) /\ IsFiniteSet(task[c].ids) /\ task[c].base \in Int
      BY ConstantsAssumption, FS_Subset DEF ConstantsAssumption, Typed, TypeOK, Task
    <3>2. Cardinality(task[c].shown) \in Nat /\ Cardinality(task[c].ids) \in Nat
      BY <3>1, FS_CardinalityType
    <3> QED
      BY <3>1, <3>2 DEF Delta
  <2>1. task' \in [Clients -> Task]
    BY <1>15, SaveCountDoes DEF DidSaveCount
  <2>2. Copies'
    BY <1>15, <1>a, <2>a DEF Copies, SaveCount, badgerVars, memVars, flexVars, metaVars,
       ghosts
  <2>3. Ghosts'
    BY <1>15, <1>a, ConstantsAssumption DEF Ghosts, SaveCount, ConstantsAssumption,
       badgerVars, memVars, flexVars, metaVars, ghosts
  <2> QED
    BY <2>1, <2>2, <2>3 DEF Copies, Ghosts, TypeOK
<1>16. ASSUME NEW c \in Clients, SaveFails(c)
      PROVE  TypeOK'
  <2>1. task' \in [Clients -> Task]
    BY <1>16, SaveFailsDoes DEF DidSaveFails
  <2>2. Copies'
    BY <1>16, <1>a DEF Copies, SaveFails, badgerVars, memVars, flexVars, metaVars, ghosts
  <2>3. Ghosts'
    BY <1>16, <1>a, ConstantsAssumption DEF Ghosts, SaveFails, ConstantsAssumption,
       badgerVars, memVars, flexVars, metaVars, ghosts
  <2> QED
    BY <2>1, <2>2, <2>3 DEF Copies, Ghosts, TypeOK
<1>17. ASSUME NEW c \in Clients, UpdateCommit(c)
      PROVE  TypeOK'
  <2>1. task' \in [Clients -> Task]
    BY <1>17, UpdateCommitDoes DEF DidUpdateCommit
  <2>2. Copies'
    BY <1>17, <1>a, PutTypes, PhaseOps DEF Copies, UpdateCommit, Reindexed, badgerVars,
       memVars, flexVars, metaVars, ghosts
  <2>3. Ghosts'
    BY <1>17, <1>a, ConstantsAssumption DEF Ghosts, UpdateCommit, ConstantsAssumption,
       badgerVars, memVars, flexVars, metaVars, ghosts
  <2> QED
    BY <2>1, <2>2, <2>3 DEF Copies, Ghosts, TypeOK
<1>18. ASSUME NEW c \in Clients, UpdateFails(c)
      PROVE  TypeOK'
  <2>1. task' \in [Clients -> Task]
    BY <1>18, UpdateFailsDoes DEF DidUpdateFails
  <2>2. Copies'
    BY <1>18, <1>a DEF Copies, UpdateFails, badgerVars, memVars, flexVars, metaVars, ghosts
  <2>3. Ghosts'
    BY <1>18, <1>a, <1>o, ExcusedType, ConstantsAssumption DEF Ghosts, UpdateFails, Causes,
       ConstantsAssumption, badgerVars, memVars, flexVars, metaVars, ghosts
  <2> QED
    BY <2>1, <2>2, <2>3 DEF Copies, Ghosts, TypeOK
<1>19. ASSUME NEW c \in Clients, DeleteFound(c)
      PROVE  TypeOK'
  <2>1. task' \in [Clients -> Task]
    BY <1>19, DeleteFoundDoes DEF DidDeleteFound
  <2>2. Copies'
    BY <1>19, <1>a DEF Copies, DeleteFound, badgerVars, memVars, flexVars, metaVars, ghosts
  <2>3. Ghosts'
    BY <1>19, <1>a, ConstantsAssumption DEF Ghosts, DeleteFound, ConstantsAssumption,
       badgerVars, memVars, flexVars, metaVars, ghosts
  <2> QED
    BY <2>1, <2>2, <2>3 DEF Copies, Ghosts, TypeOK
<1>20. ASSUME NEW c \in Clients, DeleteCommit(c)
      PROVE  TypeOK'
  <2>1. task' \in [Clients -> Task]
    BY <1>20, DeleteCommitDoes DEF DidDeleteCommit
  <2>2. Copies'
    BY <1>20, <1>a DEF Copies, DeleteCommit, badgerVars, memVars, flexVars, metaVars, ghosts
  <2>3. Ghosts'
    BY <1>20, <1>a, ConstantsAssumption DEF Ghosts, DeleteCommit, ConstantsAssumption,
       badgerVars, memVars, flexVars, metaVars, ghosts
  <2> QED
    BY <2>1, <2>2, <2>3 DEF Copies, Ghosts, TypeOK
<1>21. ASSUME NEW c \in Clients, DeleteFails(c)
      PROVE  TypeOK'
  <2>1. task' \in [Clients -> Task]
    BY <1>21, DeleteFailsDoes DEF DidDeleteFails
  <2>2. Copies'
    BY <1>21, <1>a DEF Copies, DeleteFails, badgerVars, memVars, flexVars, metaVars, ghosts
  <2>3. Ghosts'
    BY <1>21, <1>a, <1>o, ExcusedType, ConstantsAssumption DEF Ghosts, DeleteFails, Causes,
       ConstantsAssumption, badgerVars, memVars, flexVars, metaVars, ghosts
  <2> QED
    BY <2>1, <2>2, <2>3 DEF Copies, Ghosts, TypeOK
<1>22. ASSUME NEW c \in Clients, NEW i \in Ids, CacheInsert(c, i)
      PROVE  TypeOK'
  <2>1. task' \in [Clients -> Task]
    BY <1>22, CacheInsertDoes DEF DidCacheInsert
  <2>2. Copies'
    BY <1>22, <1>a, <1>t DEF Copies, CacheInsert, L1Set, badgerVars, memVars, flexVars,
       metaVars, ghosts
  <2>3. Ghosts'
    BY <1>22, <1>a, ConstantsAssumption DEF Ghosts, CacheInsert, ConstantsAssumption,
       badgerVars, memVars, flexVars, metaVars, ghosts
  <2> QED
    BY <2>1, <2>2, <2>3 DEF Copies, Ghosts, TypeOK
<1>23. ASSUME NEW c \in Clients, NEW i \in Ids, Tell(c, i)
      PROVE  TypeOK'
  <2>a. task[c].put[i] \in Vals
    BY <1>23, PutTypes, PhaseOps DEF Tell
  <2>1. task' \in [Clients -> Task]
    BY <1>23, TellDoes DEF DidTell
  <2>2. Copies'
    BY <1>23, <1>a, <1>t, <2>a DEF Copies, Tell, FlexInsert, badgerVars, memVars, flexVars,
       metaVars, ghosts
  <2>3. Ghosts'
    BY <1>23, <1>a, ConstantsAssumption DEF Ghosts, Tell, ConstantsAssumption, badgerVars,
       memVars, flexVars, metaVars, ghosts
  <2> QED
    BY <2>1, <2>2, <2>3 DEF Copies, Ghosts, TypeOK
<1>24. ASSUME NEW c \in Clients, NEW i \in Ids, UpdateShow(c, i)
      PROVE  TypeOK'
  <2>a. task[c].put[i] \in Vals
    BY <1>24, PutTypes, PhaseOps DEF UpdateShow
  <2>1. task' \in [Clients -> Task]
    BY <1>24, UpdateShowDoes DEF DidUpdateShow
  <2>2. Copies'
    BY <1>24, <1>a, <1>t, <1>t, <2>a DEF Copies, UpdateShow, L1Set, FlexUpdate, badgerVars,
       memVars, flexVars, metaVars, ghosts
  <2>3. Ghosts'
    BY <1>24, <1>a, ConstantsAssumption DEF Ghosts, UpdateShow, ConstantsAssumption,
       badgerVars, memVars, flexVars, metaVars, ghosts
  <2> QED
    BY <2>1, <2>2, <2>3 DEF Copies, Ghosts, TypeOK
<1>25. ASSUME NEW c \in Clients, NEW i \in Ids, DeleteFlex(c, i)
      PROVE  TypeOK'
  <2>1. task' \in [Clients -> Task]
    BY <1>25, DeleteFlexDoes DEF DidDeleteFlex
  <2>2. Copies'
    BY <1>25, <1>a DEF Copies, DeleteFlex, FlexDelete, badgerVars, memVars, flexVars,
       metaVars, ghosts
  <2>3. Ghosts'
    BY <1>25, <1>a, ConstantsAssumption DEF Ghosts, DeleteFlex, ConstantsAssumption,
       badgerVars, memVars, flexVars, metaVars, ghosts
  <2> QED
    BY <2>1, <2>2, <2>3 DEF Copies, Ghosts, TypeOK
<1>26. ASSUME NEW c \in Clients, NEW i \in Ids, DeleteShow(c, i)
      PROVE  TypeOK'
  <2>1. task' \in [Clients -> Task]
    BY <1>26, DeleteShowDoes DEF DidDeleteShow
  <2>2. Copies'
    BY <1>26, <1>a DEF Copies, DeleteShow, L1Del, badgerVars, memVars, flexVars, metaVars,
       ghosts
  <2>3. Ghosts'
    BY <1>26, <1>a, ConstantsAssumption DEF Ghosts, DeleteShow, ConstantsAssumption,
       badgerVars, memVars, flexVars, metaVars, ghosts
  <2> QED
    BY <2>1, <2>2, <2>3 DEF Copies, Ghosts, TypeOK
<1>27. ASSUME NEW c \in Clients, FindLocks(c)
      PROVE  TypeOK'
  <2>1. task' \in [Clients -> Task]
    BY <1>27, FindLocksDoes DEF DidFindLocks
  <2>2. Copies'
    BY <1>27, <1>a DEF Copies, FindLocks, badgerVars, memVars, flexVars, metaVars, ghosts
  <2>3. Ghosts'
    BY <1>27, <1>a, ConstantsAssumption DEF Ghosts, FindLocks, ConstantsAssumption,
       badgerVars, memVars, flexVars, metaVars, ghosts
  <2> QED
    BY <2>1, <2>2, <2>3 DEF Copies, Ghosts, TypeOK
<1>28. ASSUME NEW c \in Clients, LookupCached(c)
      PROVE  TypeOK'
  <2>1. task' \in [Clients -> Task]
    BY <1>28, LookupCachedDoes DEF DidLookupCached
  <2>2. Copies'
    BY <1>28, <1>a DEF Copies, LookupCached, badgerVars, memVars, flexVars, metaVars, ghosts
  <2>3. Ghosts'
    BY <1>28, <1>a, ConstantsAssumption DEF Ghosts, LookupCached, ConstantsAssumption,
       badgerVars, memVars, flexVars, metaVars, ghosts
  <2> QED
    BY <2>1, <2>2, <2>3 DEF Copies, Ghosts, TypeOK
<1>29. ASSUME NEW c \in Clients, LookupMisses(c)
      PROVE  TypeOK'
  <2>1. task' \in [Clients -> Task]
    BY <1>29, LookupMissesDoes DEF DidLookupMisses
  <2>2. Copies'
    BY <1>29, <1>a, <1>t, <1>p DEF Copies, LookupMisses, L2Set, Entry, NoEntry, badgerVars,
       memVars, flexVars, metaVars, ghosts
  <2>3. Ghosts'
    BY <1>29, <1>a, ConstantsAssumption DEF Ghosts, LookupMisses, ConstantsAssumption,
       badgerVars, memVars, flexVars, metaVars, ghosts
  <2> QED
    BY <2>1, <2>2, <2>3 DEF Copies, Ghosts, TypeOK
<1>30. ASSUME NEW c \in Clients, NEW page \in SUBSET Ids, Seek(c, page)
      PROVE  TypeOK'
  <2>1. task' \in [Clients -> Task]
    BY <1>30, SeekDoes DEF DidSeek
  <2>2. Copies'
    BY <1>30, <1>a DEF Copies, Seek, badgerVars, memVars, flexVars, metaVars, ghosts
  <2>3. Ghosts'
    BY <1>30, <1>a, ConstantsAssumption DEF Ghosts, Seek, ConstantsAssumption, badgerVars,
       memVars, flexVars, metaVars, ghosts
  <2> QED
    BY <2>1, <2>2, <2>3 DEF Copies, Ghosts, TypeOK
<1>31. ASSUME NEW c \in Clients, Keep(c)
      PROVE  TypeOK'
  <2>1. task' \in [Clients -> Task]
    BY <1>31, KeepDoes DEF DidKeep
  <2>2. Copies'
    BY <1>31, <1>a, <1>t, <1>p DEF Copies, Keep, L2Set, Entry, NoEntry, badgerVars,
       memVars, flexVars, metaVars, ghosts
  <2>3. Ghosts'
    BY <1>31, <1>a, ConstantsAssumption DEF Ghosts, Keep, ConstantsAssumption, badgerVars,
       memVars, flexVars, metaVars, ghosts
  <2> QED
    BY <2>1, <2>2, <2>3 DEF Copies, Ghosts, TypeOK
<1>32. ASSUME NEW c \in Clients, Scan(c)
      PROVE  TypeOK'
  <2>1. task' \in [Clients -> Task]
    BY <1>32, ScanDoes DEF DidScan
  <2>2. Copies'
    BY <1>32, <1>a DEF Copies, Scan, badgerVars, memVars, flexVars, metaVars, ghosts
  <2>3. Ghosts'
    BY <1>32, <1>a, ConstantsAssumption DEF Ghosts, Scan, ConstantsAssumption, badgerVars,
       memVars, flexVars, metaVars, ghosts
  <2> QED
    BY <2>1, <2>2, <2>3 DEF Copies, Ghosts, TypeOK
<1>33. ASSUME NEW c \in Clients, Fetched(c)
      PROVE  TypeOK'
  <2>1. task' \in [Clients -> Task]
    BY <1>33, FetchedDoes DEF DidFetched
  <2>2. Copies'
    BY <1>33, <1>a DEF Copies, Fetched, badgerVars, memVars, flexVars, metaVars, ghosts
  <2>3. Ghosts'
    BY <1>33, <1>a, ConstantsAssumption DEF Ghosts, Fetched, ConstantsAssumption,
       badgerVars, memVars, flexVars, metaVars, ghosts
  <2> QED
    BY <2>1, <2>2, <2>3 DEF Copies, Ghosts, TypeOK
<1>34. ASSUME NEW c \in Clients, Return(c)
      PROVE  TypeOK'
  <2>1. task' \in [Clients -> Task]
    BY <1>34, ReturnDoes DEF DidReturn
  <2>2. Copies'
    BY <1>34, <1>a DEF Copies, Return, badgerVars, memVars, flexVars, metaVars, ghosts
  <2>3. Ghosts'
    BY <1>34, <1>a, ConstantsAssumption DEF Ghosts, Return, ConstantsAssumption,
       badgerVars, memVars, flexVars, metaVars, ghosts
  <2> QED
    BY <2>1, <2>2, <2>3 DEF Copies, Ghosts, TypeOK
<1>35. ASSUME NEW c \in Clients, NEW i \in Ids, Fetch(c, i)
      PROVE  TypeOK'
  <2>1. task' \in [Clients -> Task]
    BY <1>35, FetchDoes DEF DidFetch
  <2>2. Copies'
    BY <1>35, <1>a DEF Copies, Fetch, badgerVars, memVars, flexVars, metaVars, ghosts
  <2>3. Ghosts'
    BY <1>35, <1>a, ConstantsAssumption DEF Ghosts, Fetch, ConstantsAssumption, badgerVars,
       memVars, flexVars, metaVars, ghosts
  <2> QED
    BY <2>1, <2>2, <2>3 DEF Copies, Ghosts, TypeOK
<1>36. ASSUME NEW c \in Clients, NEW i \in Ids, Fill(c, i)
      PROVE  TypeOK'
  <2>1. task' \in [Clients -> Task]
    BY <1>36, FillDoes DEF DidFill
  <2>2. Copies'
    BY <1>36, <1>a, <1>t DEF Copies, Fill, L1Set, badgerVars, memVars, flexVars, metaVars,
       ghosts
  <2>3. Ghosts'
    BY <1>36, <1>a, <1>o, ExcusedType, ConstantsAssumption DEF Ghosts, Fill, Causes,
       ConstantsAssumption, badgerVars, memVars, flexVars, metaVars, ghosts
  <2> QED
    BY <2>1, <2>2, <2>3 DEF Copies, Ghosts, TypeOK
<1>37. ASSUME NEW i \in Ids, EvictL1(i)
      PROVE  TypeOK'
  <2>1. task' \in [Clients -> Task]
    BY <1>37 DEF EvictL1, Typed, TypeOK
  <2>2. Copies'
    BY <1>37, <1>a DEF Copies, EvictL1, L1Del, badgerVars, memVars, flexVars, metaVars,
       ghosts
  <2>3. Ghosts'
    BY <1>37, <1>a, ConstantsAssumption DEF Ghosts, EvictL1, ConstantsAssumption,
       badgerVars, memVars, flexVars, metaVars, ghosts
  <2> QED
    BY <2>1, <2>2, <2>3 DEF Copies, Ghosts, TypeOK
<1>38. ASSUME NEW v \in Vals, EvictL2(v)
      PROVE  TypeOK'
  <2>1. task' \in [Clients -> Task]
    BY <1>38 DEF EvictL2, Typed, TypeOK
  <2>2. Copies'
    BY <1>38, <1>a DEF Copies, EvictL2, NoEntry, badgerVars, memVars, flexVars, metaVars,
       ghosts
  <2>3. Ghosts'
    BY <1>38, <1>a, ConstantsAssumption DEF Ghosts, EvictL2, ConstantsAssumption,
       badgerVars, memVars, flexVars, metaVars, ghosts
  <2> QED
    BY <2>1, <2>2, <2>3 DEF Copies, Ghosts, TypeOK
<1>39. ASSUME Restart
      PROVE  TypeOK'
  <2>1. task' \in [Clients -> Task]
    BY <1>39 DEF Restart, Typed, TypeOK
  <2>2. Copies'
    BY <1>39, <1>a DEF Copies, Restart, NoDocs, NoEntry, badgerVars, memVars, flexVars,
       metaVars, ghosts
  <2>3. Ghosts'
    BY <1>39, <1>a, <1>o, ExcusedType, ConstantsAssumption DEF Ghosts, Restart, Causes,
       ConstantsAssumption, badgerVars, memVars, flexVars, metaVars, ghosts
  <2> QED
    BY <2>1, <2>2, <2>3 DEF Copies, Ghosts, TypeOK
<1>40. CASE UNCHANGED vars
  BY <1>40 DEF vars, Typed, TypeOK, badgerVars, memVars, flexVars, metaVars, ghosts
<1>41. ASSUME NEW c \in Clients, Start(c)
      PROVE  TypeOK'
  BY <1>41, <1>1, <1>2, <1>3, <1>4, <1>5, <1>6, <1>7, <1>8 DEF Start
<1>42. ASSUME NEW c \in Clients, WriteStep(c)
      PROVE  TypeOK'
  BY <1>42, <1>9, <1>10, <1>11, <1>12, <1>13, <1>14, <1>15, <1>16, <1>17, <1>18, <1>19,
     <1>20, <1>21, <1>22, <1>23, <1>24, <1>25, <1>26 DEF WriteStep
<1>43. ASSUME NEW c \in Clients, ReadStep(c)
      PROVE  TypeOK'
  BY <1>43, <1>27, <1>28, <1>29, <1>30, <1>31, <1>32, <1>33, <1>34, <1>35, <1>36
     DEF ReadStep
<1> QED
  BY <1>37, <1>38, <1>39, <1>40, <1>41, <1>42, <1>43 DEF Next

-----------------------------------------------------------------------------
(* Where an operation is *)

WellShaped(t) == t.pc \in Phases(t.op) /\ WriterShape(t) /\ ReaderShape(t)

(* The other tasks keep their shape.                                       *)
LEMMA OthersShape ==
  ASSUME Shape, NEW c \in Clients, NEW ids, NEW w, Others(c, ids, w), WellShaped(task'[c])
  PROVE  Shape'
<1>1. ASSUME NEW t, NEW u, WellShaped(t), SameWork(t, u)
      PROVE  WellShaped(u)
  BY <1>1 DEF WellShaped, SameWork, WriterShape, ReaderShape
<1>2. ASSUME NEW d \in Clients PROVE WellShaped(task'[d])
  <2>1. CASE d = c
    BY <2>1
  <2>2. CASE d # c
    BY <2>2, <1>1 DEF Others, Shape, WellShaped
  <2> QED
    BY <2>1, <2>2
<1> QED
  BY <1>2 DEF Shape, WellShaped

(* Every step keeps the tasks' shapes.                                     *)
LEMMA ShapeStep ==
  ASSUME Typed, [Next]_vars
  PROVE  Shape'
<1>o. \A c \in Clients : task[c].op \in Writers \cup Readers \cup {"none"}
  BY DEF Typed, TypeOK, Task
<1>s. \A c \in Clients : WellShaped(task[c])
  BY DEF Typed, Shape, WellShaped

<1>1. ASSUME NEW c \in Clients, NEW i \in Ids, NEW v \in Vals, Insert(c, i, v)
      PROVE  Shape'
  <2>n. DidInsert(c, i, v)
    BY <1>1, InsertDoes
  <2>t. \E js, x : Others(c, js, x)
    BY <2>n DEF DidInsert
  <2>p. WellShaped(task[c]) /\ task[c].op \in Writers \cup Readers \cup {"none"}
    BY <1>s, <1>o
  <2>q. [NoDocs EXCEPT ![i] = v][i] \in Vals
    BY DEF NoDocs
  <2>1. task'[c].pc \in Phases(task'[c].op)
    BY <2>n, <2>p DEF DidInsert, Now, Is, Phases, Writers, Readers
  <2>2. WriterShape(task'[c])
    BY <2>n, <2>q, <2>p, ConstantsAssumption DEF DidInsert, Now, Is, WriterShape,
       WellShaped, Writers, Readers, ConstantsAssumption
  <2>3. ReaderShape(task'[c])
    BY <2>n, <2>p DEF DidInsert, Now, Is, ReaderShape, WellShaped, Writers, Readers
  <2> QED
    BY <2>t, <2>1, <2>2, <2>3, OthersShape DEF WellShaped, Typed
<1>2. ASSUME NEW c \in Clients, NEW put \in [Ids -> Vals \cup {NoVal}], Batch(c, put)
      PROVE  Shape'
  <2>n. DidBatch(c, put)
    BY <1>2, BatchDoes
  <2>t. \E js, x : Others(c, js, x)
    BY <2>n DEF DidBatch
  <2>p. WellShaped(task[c]) /\ task[c].op \in Writers \cup Readers \cup {"none"}
    BY <1>s, <1>o
  <2>q. \A k \in Ids : put[k] # NoVal => put[k] \in Vals
    OBVIOUS
  <2>1. task'[c].pc \in Phases(task'[c].op)
    BY <2>n, <2>p DEF DidBatch, Now, Is, Phases, Writers, Readers
  <2>2. WriterShape(task'[c])
    BY <2>n, <2>q, <2>p, ConstantsAssumption DEF DidBatch, Now, Is, WriterShape,
       WellShaped, Writers, Readers, ConstantsAssumption
  <2>3. ReaderShape(task'[c])
    BY <2>n, <2>p DEF DidBatch, Now, Is, ReaderShape, WellShaped, Writers, Readers
  <2> QED
    BY <2>t, <2>1, <2>2, <2>3, OthersShape DEF WellShaped, Typed
<1>3. ASSUME NEW c \in Clients, NEW v \in Vals, NEW w \in Vals, NEW ids \in SUBSET Ids,
             UpdateStart(c, v, w, ids)
      PROVE  Shape'
  <2>n. DidUpdateStart(c, v, w, ids)
    BY <1>3, UpdateStartDoes
  <2>t. \E js, x : Others(c, js, x)
    BY <2>n DEF DidUpdateStart
  <2>p. WellShaped(task[c]) /\ task[c].op \in Writers \cup Readers \cup {"none"}
    BY <1>s, <1>o
  <2>q. \A k \in ids : task'[c].put[k] = w /\ w \in Vals
    BY <2>n DEF DidUpdateStart, Now, Is
  <2>1. task'[c].pc \in Phases(task'[c].op)
    BY <2>n, <2>p DEF DidUpdateStart, Now, Is, Phases, Writers, Readers
  <2>2. WriterShape(task'[c])
    BY <2>n, <2>q, <2>p, ConstantsAssumption DEF DidUpdateStart, Now, Is, WriterShape,
       WellShaped, Writers, Readers, ConstantsAssumption
  <2>3. ReaderShape(task'[c])
    BY <2>n, <2>p DEF DidUpdateStart, Now, Is, ReaderShape, WellShaped, Writers, Readers
  <2> QED
    BY <2>t, <2>1, <2>2, <2>3, OthersShape DEF WellShaped, Typed
<1>4. ASSUME NEW c \in Clients, NEW v \in Vals, NEW ids \in SUBSET Ids,
             DeleteStart(c, v, ids)
      PROVE  Shape'
  <2>n. DidDeleteStart(c, v, ids)
    BY <1>4, DeleteStartDoes
  <2>t. \E js, x : Others(c, js, x)
    BY <2>n DEF DidDeleteStart
  <2>p. WellShaped(task[c]) /\ task[c].op \in Writers \cup Readers \cup {"none"}
    BY <1>s, <1>o
  <2>1. task'[c].pc \in Phases(task'[c].op)
    BY <2>n, <2>p DEF DidDeleteStart, Now, Is, Phases, Writers, Readers
  <2>2. WriterShape(task'[c])
    BY <2>n, <2>p, ConstantsAssumption DEF DidDeleteStart, Now, Is, WriterShape,
       WellShaped, Writers, Readers, ConstantsAssumption
  <2>3. ReaderShape(task'[c])
    BY <2>n, <2>p DEF DidDeleteStart, Now, Is, ReaderShape, WellShaped, Writers, Readers
  <2> QED
    BY <2>t, <2>1, <2>2, <2>3, OthersShape DEF WellShaped, Typed
<1>5. ASSUME NEW c \in Clients, NEW i \in Ids, Get(c, i)
      PROVE  Shape'
  <2>n. DidGet(c, i)
    BY <1>5, GetDoes
  <2>t. \E js, x : Others(c, js, x)
    BY <2>n DEF DidGet
  <2>p. WellShaped(task[c]) /\ task[c].op \in Writers \cup Readers \cup {"none"}
    BY <1>s, <1>o
  <2>1. task'[c].pc \in Phases(task'[c].op)
    BY <2>n, <2>p DEF DidGet, Now, Is, Phases, Writers, Readers
  <2>2. WriterShape(task'[c])
    BY <2>n, <2>p, ConstantsAssumption DEF DidGet, Now, Is, WriterShape, WellShaped,
       Writers, Readers, ConstantsAssumption
  <2>3. ReaderShape(task'[c])
    BY <2>n, <2>p DEF DidGet, Now, Is, ReaderShape, WellShaped, Writers, Readers
  <2> QED
    BY <2>t, <2>1, <2>2, <2>3, OthersShape DEF WellShaped, Typed
<1>6. ASSUME NEW c \in Clients, NEW v \in Vals, NEW alone \in BOOLEAN, Find(c, v, alone)
      PROVE  Shape'
  <2>n. DidFind(c, v, alone)
    BY <1>6, FindDoes
  <2>t. \E js, x : Others(c, js, x)
    BY <2>n DEF DidFind
  <2>p. WellShaped(task[c]) /\ task[c].op \in Writers \cup Readers \cup {"none"}
    BY <1>s, <1>o
  <2>1. task'[c].pc \in Phases(task'[c].op)
    BY <2>n, <2>p DEF DidFind, Now, Is, Phases, Writers, Readers
  <2>2. WriterShape(task'[c])
    BY <2>n, <2>p, ConstantsAssumption DEF DidFind, Now, Is, WriterShape, WellShaped,
       Writers, Readers, ConstantsAssumption
  <2>3. ReaderShape(task'[c])
    BY <2>n, <2>p DEF DidFind, Now, Is, ReaderShape, WellShaped, Writers, Readers
  <2> QED
    BY <2>t, <2>1, <2>2, <2>3, OthersShape DEF WellShaped, Typed
<1>7. ASSUME NEW c \in Clients, NEW v \in Vals, Count(c, v)
      PROVE  Shape'
  <2>n. DidCount(c, v)
    BY <1>7, CountDoes
  <2>t. \E js, x : Others(c, js, x)
    BY <2>n DEF DidCount
  <2>p. WellShaped(task[c]) /\ task[c].op \in Writers \cup Readers \cup {"none"}
    BY <1>s, <1>o
  <2>1. task'[c].pc \in Phases(task'[c].op)
    BY <2>n, <2>p DEF DidCount, Now, Is, Phases, Writers, Readers
  <2>2. WriterShape(task'[c])
    BY <2>n, <2>p, ConstantsAssumption DEF DidCount, Now, Is, WriterShape, WellShaped,
       Writers, Readers, ConstantsAssumption
  <2>3. ReaderShape(task'[c])
    BY <2>n, <2>p DEF DidCount, Now, Is, ReaderShape, WellShaped, Writers, Readers
  <2> QED
    BY <2>t, <2>1, <2>2, <2>3, OthersShape DEF WellShaped, Typed
<1>8. ASSUME NEW c \in Clients, Refused(c)
      PROVE  Shape'
  BY <1>8 DEF Refused, Typed, Shape
<1>9. ASSUME NEW c \in Clients, InsertIndex(c)
      PROVE  Shape'
  <2>n. DidInsertIndex(c)
    BY <1>9, InsertIndexDoes
  <2>t. \E js, x : Others(c, js, x)
    BY <2>n DEF DidInsertIndex
  <2>p. WellShaped(task[c]) /\ task[c].op \in Writers \cup Readers \cup {"none"}
    BY <1>s, <1>o
  <2>o. task[c].op = "insert"
    BY <2>n, PhaseOps DEF DidInsertIndex
  <2>1. task'[c].pc \in Phases(task'[c].op)
    BY <2>n, <2>p, <2>o DEF DidInsertIndex, Now, Is, Phases, Writers, Readers
  <2>2. WriterShape(task'[c])
    BY <2>n, <2>p, <2>o, ConstantsAssumption DEF DidInsertIndex, Now, Is, WriterShape,
       WellShaped, Writers, Readers, ConstantsAssumption
  <2>3. ReaderShape(task'[c])
    BY <2>n, <2>p, <2>o DEF DidInsertIndex, Now, Is, ReaderShape, WellShaped, Writers,
       Readers
  <2> QED
    BY <2>t, <2>1, <2>2, <2>3, OthersShape DEF WellShaped, Typed
<1>10. ASSUME NEW c \in Clients, InsertIndexFails(c)
      PROVE  Shape'
  <2>n. DidInsertIndexFails(c)
    BY <1>10, InsertIndexFailsDoes
  <2>t. \E js, x : Others(c, js, x)
    BY <2>n DEF DidInsertIndexFails
  <2>p. WellShaped(task[c]) /\ task[c].op \in Writers \cup Readers \cup {"none"}
    BY <1>s, <1>o
  <2>o. task[c].op = "insert"
    BY <2>n, PhaseOps DEF DidInsertIndexFails
  <2>1. task'[c].pc \in Phases(task'[c].op)
    BY <2>n, <2>p, <2>o DEF DidInsertIndexFails, Now, Is, Phases, Writers, Readers
  <2>2. WriterShape(task'[c])
    BY <2>n, <2>p, <2>o, ConstantsAssumption DEF DidInsertIndexFails, Now, Is, WriterShape,
       WellShaped, Writers, Readers, ConstantsAssumption
  <2>3. ReaderShape(task'[c])
    BY <2>n, <2>p, <2>o DEF DidInsertIndexFails, Now, Is, ReaderShape, WellShaped, Writers,
       Readers
  <2> QED
    BY <2>t, <2>1, <2>2, <2>3, OthersShape DEF WellShaped, Typed
<1>11. ASSUME NEW c \in Clients, BatchFlush(c)
      PROVE  Shape'
  <2>n. DidBatchFlush(c)
    BY <1>11, BatchFlushDoes
  <2>t. \E js, x : Others(c, js, x)
    BY <2>n DEF DidBatchFlush
  <2>p. WellShaped(task[c]) /\ task[c].op \in Writers \cup Readers \cup {"none"}
    BY <1>s, <1>o
  <2>o. task[c].op = "batch"
    BY <2>n, PhaseOps DEF DidBatchFlush
  <2>1. task'[c].pc \in Phases(task'[c].op)
    BY <2>n, <2>p, <2>o DEF DidBatchFlush, Now, Is, Phases, Writers, Readers
  <2>2. WriterShape(task'[c])
    BY <2>n, <2>p, <2>o, ConstantsAssumption DEF DidBatchFlush, Now, Is, WriterShape,
       WellShaped, Writers, Readers, ConstantsAssumption
  <2>3. ReaderShape(task'[c])
    BY <2>n, <2>p, <2>o DEF DidBatchFlush, Now, Is, ReaderShape, WellShaped, Writers,
       Readers
  <2> QED
    BY <2>t, <2>1, <2>2, <2>3, OthersShape DEF WellShaped, Typed
<1>12. ASSUME NEW c \in Clients, NEW stored \in SUBSET Ids, BatchFlushFails(c, stored)
      PROVE  Shape'
  <2>n. DidBatchFlushFails(c, stored)
    BY <1>12, BatchFlushFailsDoes
  <2>t. \E js, x : Others(c, js, x)
    BY <2>n DEF DidBatchFlushFails
  <2>p. WellShaped(task[c]) /\ task[c].op \in Writers \cup Readers \cup {"none"}
    BY <1>s, <1>o
  <2>o. task[c].op = "batch"
    BY <2>n, PhaseOps DEF DidBatchFlushFails
  <2>1. task'[c].pc \in Phases(task'[c].op)
    BY <2>n, <2>p, <2>o DEF DidBatchFlushFails, Now, Is, Phases, Writers, Readers
  <2>2. WriterShape(task'[c])
    BY <2>n, <2>p, <2>o, ConstantsAssumption DEF DidBatchFlushFails, Now, Is, WriterShape,
       WellShaped, Writers, Readers, ConstantsAssumption
  <2>3. ReaderShape(task'[c])
    BY <2>n, <2>p, <2>o DEF DidBatchFlushFails, Now, Is, ReaderShape, WellShaped, Writers,
       Readers
  <2> QED
    BY <2>t, <2>1, <2>2, <2>3, OthersShape DEF WellShaped, Typed
<1>13. ASSUME NEW c \in Clients, LoadCount(c)
      PROVE  Shape'
  <2>n. DidLoadCount(c)
    BY <1>13, LoadCountDoes
  <2>t. \E js, x : Others(c, js, x)
    BY <2>n DEF DidLoadCount
  <2>p. WellShaped(task[c]) /\ task[c].op \in Writers \cup Readers \cup {"none"}
    BY <1>s, <1>o
  <2>o. task[c].op \in Writers
    BY <2>n, PhaseOps DEF DidLoadCount
  <2>1. task'[c].pc \in Phases(task'[c].op)
    BY <2>n, <2>p, <2>o DEF DidLoadCount, Now, Is, Phases, Writers, Readers
  <2>2. WriterShape(task'[c])
    BY <2>n, <2>p, <2>o, ConstantsAssumption DEF DidLoadCount, Now, Is, WriterShape,
       WellShaped, Writers, Readers, ConstantsAssumption
  <2>3. ReaderShape(task'[c])
    BY <2>n, <2>p, <2>o DEF DidLoadCount, Now, Is, ReaderShape, WellShaped, Writers, Readers
  <2> QED
    BY <2>t, <2>1, <2>2, <2>3, OthersShape DEF WellShaped, Typed
<1>14. ASSUME NEW c \in Clients, SaveBegins(c)
      PROVE  Shape'
  <2>n. DidSaveBegins(c)
    BY <1>14, SaveBeginsDoes
  <2>t. \E js, x : Others(c, js, x)
    BY <2>n DEF DidSaveBegins
  <2>p. WellShaped(task[c]) /\ task[c].op \in Writers \cup Readers \cup {"none"}
    BY <1>s, <1>o
  <2>o. task[c].op \in Writers
    BY <2>n, PhaseOps DEF DidSaveBegins
  <2>1. task'[c].pc \in Phases(task'[c].op)
    BY <2>n, <2>p, <2>o DEF DidSaveBegins, Now, Is, Phases, Writers, Readers
  <2>2. WriterShape(task'[c])
    BY <2>n, <2>p, <2>o, ConstantsAssumption DEF DidSaveBegins, Now, Is, WriterShape,
       WellShaped, Writers, Readers, ConstantsAssumption
  <2>3. ReaderShape(task'[c])
    BY <2>n, <2>p, <2>o DEF DidSaveBegins, Now, Is, ReaderShape, WellShaped, Writers,
       Readers
  <2> QED
    BY <2>t, <2>1, <2>2, <2>3, OthersShape DEF WellShaped, Typed
<1>15. ASSUME NEW c \in Clients, SaveCount(c)
      PROVE  Shape'
  <2>n. DidSaveCount(c)
    BY <1>15, SaveCountDoes
  <2>t. \E js, x : Others(c, js, x)
    BY <2>n DEF DidSaveCount
  <2>p. WellShaped(task[c]) /\ task[c].op \in Writers \cup Readers \cup {"none"}
    BY <1>s, <1>o
  <2>o. task[c].op \in Writers
    BY <2>n, PhaseOps DEF DidSaveCount
  <2>1. task'[c].pc \in Phases(task'[c].op)
    BY <2>n, <2>p, <2>o DEF DidSaveCount, Now, Is, Phases, Writers, Readers
  <2>2. WriterShape(task'[c])
    BY <2>n, <2>p, <2>o, ConstantsAssumption DEF DidSaveCount, Now, Is, WriterShape,
       WellShaped, Writers, Readers, ConstantsAssumption
  <2>3. ReaderShape(task'[c])
    BY <2>n, <2>p, <2>o DEF DidSaveCount, Now, Is, ReaderShape, WellShaped, Writers, Readers
  <2> QED
    BY <2>t, <2>1, <2>2, <2>3, OthersShape DEF WellShaped, Typed
<1>16. ASSUME NEW c \in Clients, SaveFails(c)
      PROVE  Shape'
  <2>n. DidSaveFails(c)
    BY <1>16, SaveFailsDoes
  <2>t. \E js, x : Others(c, js, x)
    BY <2>n DEF DidSaveFails
  <2>p. WellShaped(task[c]) /\ task[c].op \in Writers \cup Readers \cup {"none"}
    BY <1>s, <1>o
  <2>o. task[c].op \in Writers
    BY <2>n, PhaseOps DEF DidSaveFails
  <2>1. task'[c].pc \in Phases(task'[c].op)
    BY <2>n, <2>p, <2>o DEF DidSaveFails, Now, Is, Phases, Writers, Readers
  <2>2. WriterShape(task'[c])
    BY <2>n, <2>p, <2>o, ConstantsAssumption DEF DidSaveFails, Now, Is, WriterShape,
       WellShaped, Writers, Readers, ConstantsAssumption
  <2>3. ReaderShape(task'[c])
    BY <2>n, <2>p, <2>o DEF DidSaveFails, Now, Is, ReaderShape, WellShaped, Writers, Readers
  <2> QED
    BY <2>t, <2>1, <2>2, <2>3, OthersShape DEF WellShaped, Typed
<1>17. ASSUME NEW c \in Clients, UpdateCommit(c)
      PROVE  Shape'
  <2>n. DidUpdateCommit(c)
    BY <1>17, UpdateCommitDoes
  <2>t. \E js, x : Others(c, js, x)
    BY <2>n DEF DidUpdateCommit
  <2>p. WellShaped(task[c]) /\ task[c].op \in Writers \cup Readers \cup {"none"}
    BY <1>s, <1>o
  <2>o. task[c].op \in {"update", "delete"}
    BY <2>n, PhaseOps DEF DidUpdateCommit
  <2>1. task'[c].pc \in Phases(task'[c].op)
    BY <2>n, <2>p, <2>o DEF DidUpdateCommit, Now, Is, Phases, Writers, Readers
  <2>2. WriterShape(task'[c])
    BY <2>n, <2>p, <2>o, ConstantsAssumption DEF DidUpdateCommit, Now, Is, WriterShape,
       WellShaped, Writers, Readers, ConstantsAssumption
  <2>3. ReaderShape(task'[c])
    BY <2>n, <2>p, <2>o DEF DidUpdateCommit, Now, Is, ReaderShape, WellShaped, Writers,
       Readers
  <2> QED
    BY <2>t, <2>1, <2>2, <2>3, OthersShape DEF WellShaped, Typed
<1>18. ASSUME NEW c \in Clients, UpdateFails(c)
      PROVE  Shape'
  <2>n. DidUpdateFails(c)
    BY <1>18, UpdateFailsDoes
  <2>t. \E js, x : Others(c, js, x)
    BY <2>n DEF DidUpdateFails
  <2>p. WellShaped(task[c]) /\ task[c].op \in Writers \cup Readers \cup {"none"}
    BY <1>s, <1>o
  <2>o. task[c].op \in {"update", "delete"}
    BY <2>n, PhaseOps DEF DidUpdateFails
  <2>1. task'[c].pc \in Phases(task'[c].op)
    BY <2>n, <2>p, <2>o DEF DidUpdateFails, Now, Is, Phases, Writers, Readers
  <2>2. WriterShape(task'[c])
    BY <2>n, <2>p, <2>o, ConstantsAssumption DEF DidUpdateFails, Now, Is, WriterShape,
       WellShaped, Writers, Readers, ConstantsAssumption
  <2>3. ReaderShape(task'[c])
    BY <2>n, <2>p, <2>o DEF DidUpdateFails, Now, Is, ReaderShape, WellShaped, Writers,
       Readers
  <2> QED
    BY <2>t, <2>1, <2>2, <2>3, OthersShape DEF WellShaped, Typed
<1>19. ASSUME NEW c \in Clients, DeleteFound(c)
      PROVE  Shape'
  <2>n. DidDeleteFound(c)
    BY <1>19, DeleteFoundDoes
  <2>t. \E js, x : Others(c, js, x)
    BY <2>n DEF DidDeleteFound
  <2>p. WellShaped(task[c]) /\ task[c].op \in Writers \cup Readers \cup {"none"}
    BY <1>s, <1>o
  <2>o. task[c].op = "delete"
    BY <2>n, PhaseOps DEF DidDeleteFound
  <2>q. task[c].shown = {}
    BY <2>n, <2>p, <2>o DEF DidDeleteFound, WellShaped, WriterShape
  <2>1. task'[c].pc \in Phases(task'[c].op)
    BY <2>n, <2>p, <2>o DEF DidDeleteFound, Now, Is, Phases, Writers, Readers
  <2>2. WriterShape(task'[c])
    BY <2>n, <2>q, <2>p, <2>o, ConstantsAssumption DEF DidDeleteFound, Now, Is,
       WriterShape, WellShaped, Writers, Readers, ConstantsAssumption
  <2>3. ReaderShape(task'[c])
    BY <2>n, <2>p, <2>o DEF DidDeleteFound, Now, Is, ReaderShape, WellShaped, Writers,
       Readers
  <2> QED
    BY <2>t, <2>1, <2>2, <2>3, OthersShape DEF WellShaped, Typed
<1>20. ASSUME NEW c \in Clients, DeleteCommit(c)
      PROVE  Shape'
  <2>n. DidDeleteCommit(c)
    BY <1>20, DeleteCommitDoes
  <2>t. \E js, x : Others(c, js, x)
    BY <2>n DEF DidDeleteCommit
  <2>p. WellShaped(task[c]) /\ task[c].op \in Writers \cup Readers \cup {"none"}
    BY <1>s, <1>o
  <2>o. task[c].op \in {"update", "delete"}
    BY <2>n, PhaseOps DEF DidDeleteCommit
  <2>1. task'[c].pc \in Phases(task'[c].op)
    BY <2>n, <2>p, <2>o DEF DidDeleteCommit, Now, Is, Phases, Writers, Readers
  <2>2. WriterShape(task'[c])
    BY <2>n, <2>p, <2>o, ConstantsAssumption DEF DidDeleteCommit, Now, Is, WriterShape,
       WellShaped, Writers, Readers, ConstantsAssumption
  <2>3. ReaderShape(task'[c])
    BY <2>n, <2>p, <2>o DEF DidDeleteCommit, Now, Is, ReaderShape, WellShaped, Writers,
       Readers
  <2> QED
    BY <2>t, <2>1, <2>2, <2>3, OthersShape DEF WellShaped, Typed
<1>21. ASSUME NEW c \in Clients, DeleteFails(c)
      PROVE  Shape'
  <2>n. DidDeleteFails(c)
    BY <1>21, DeleteFailsDoes
  <2>t. \E js, x : Others(c, js, x)
    BY <2>n DEF DidDeleteFails
  <2>p. WellShaped(task[c]) /\ task[c].op \in Writers \cup Readers \cup {"none"}
    BY <1>s, <1>o
  <2>o. task[c].op \in {"update", "delete"}
    BY <2>n, PhaseOps DEF DidDeleteFails
  <2>1. task'[c].pc \in Phases(task'[c].op)
    BY <2>n, <2>p, <2>o DEF DidDeleteFails, Now, Is, Phases, Writers, Readers
  <2>2. WriterShape(task'[c])
    BY <2>n, <2>p, <2>o, ConstantsAssumption DEF DidDeleteFails, Now, Is, WriterShape,
       WellShaped, Writers, Readers, ConstantsAssumption
  <2>3. ReaderShape(task'[c])
    BY <2>n, <2>p, <2>o DEF DidDeleteFails, Now, Is, ReaderShape, WellShaped, Writers,
       Readers
  <2> QED
    BY <2>t, <2>1, <2>2, <2>3, OthersShape DEF WellShaped, Typed
<1>22. ASSUME NEW c \in Clients, NEW i \in Ids, CacheInsert(c, i)
      PROVE  Shape'
  <2>n. DidCacheInsert(c, i)
    BY <1>22, CacheInsertDoes
  <2>t. \E js, x : Others(c, js, x)
    BY <2>n DEF DidCacheInsert
  <2>p. WellShaped(task[c]) /\ task[c].op \in Writers \cup Readers \cup {"none"}
    BY <1>s, <1>o
  <2>o. task[c].op \in {"insert", "batch"}
    BY <2>n, PhaseOps DEF DidCacheInsert
  <2>1. task'[c].pc \in Phases(task'[c].op)
    BY <2>n, <2>p, <2>o DEF DidCacheInsert, Now, Is, Phases, Writers, Readers
  <2>2. WriterShape(task'[c])
    BY <2>n, <2>p, <2>o, ConstantsAssumption DEF DidCacheInsert, Now, Is, WriterShape,
       WellShaped, Writers, Readers, ConstantsAssumption
  <2>3. ReaderShape(task'[c])
    BY <2>n, <2>p, <2>o DEF DidCacheInsert, Now, Is, ReaderShape, WellShaped, Writers,
       Readers
  <2> QED
    BY <2>t, <2>1, <2>2, <2>3, OthersShape DEF WellShaped, Typed
<1>23. ASSUME NEW c \in Clients, NEW i \in Ids, Tell(c, i)
      PROVE  Shape'
  <2>n. DidTell(c, i)
    BY <1>23, TellDoes
  <2>t. \E js, x : Others(c, js, x)
    BY <2>n DEF DidTell
  <2>p. WellShaped(task[c]) /\ task[c].op \in Writers \cup Readers \cup {"none"}
    BY <1>s, <1>o
  <2>o. task[c].op \in {"insert", "batch"}
    BY <2>n, PhaseOps DEF DidTell
  <2>1. task'[c].pc \in Phases(task'[c].op)
    BY <2>n, <2>p, <2>o DEF DidTell, Now, Is, Phases, Writers, Readers
  <2>2. WriterShape(task'[c])
    BY <2>n, <2>p, <2>o, ConstantsAssumption DEF DidTell, Now, Is, WriterShape, WellShaped,
       Writers, Readers, ConstantsAssumption
  <2>3. ReaderShape(task'[c])
    BY <2>n, <2>p, <2>o DEF DidTell, Now, Is, ReaderShape, WellShaped, Writers, Readers
  <2> QED
    BY <2>t, <2>1, <2>2, <2>3, OthersShape DEF WellShaped, Typed
<1>24. ASSUME NEW c \in Clients, NEW i \in Ids, UpdateShow(c, i)
      PROVE  Shape'
  <2>n. DidUpdateShow(c, i)
    BY <1>24, UpdateShowDoes
  <2>t. \E js, x : Others(c, js, x)
    BY <2>n DEF DidUpdateShow
  <2>p. WellShaped(task[c]) /\ task[c].op \in Writers \cup Readers \cup {"none"}
    BY <1>s, <1>o
  <2>o. task[c].op \in {"update", "delete"}
    BY <2>n, PhaseOps DEF DidUpdateShow
  <2>1. task'[c].pc \in Phases(task'[c].op)
    BY <2>n, <2>p, <2>o DEF DidUpdateShow, Now, Is, Phases, Writers, Readers
  <2>2. WriterShape(task'[c])
    BY <2>n, <2>p, <2>o, ConstantsAssumption DEF DidUpdateShow, Now, Is, WriterShape,
       WellShaped, Writers, Readers, ConstantsAssumption
  <2>3. ReaderShape(task'[c])
    BY <2>n, <2>p, <2>o DEF DidUpdateShow, Now, Is, ReaderShape, WellShaped, Writers,
       Readers
  <2> QED
    BY <2>t, <2>1, <2>2, <2>3, OthersShape DEF WellShaped, Typed
<1>25. ASSUME NEW c \in Clients, NEW i \in Ids, DeleteFlex(c, i)
      PROVE  Shape'
  <2>n. DidDeleteFlex(c, i)
    BY <1>25, DeleteFlexDoes
  <2>t. \E js, x : Others(c, js, x)
    BY <2>n DEF DidDeleteFlex
  <2>p. WellShaped(task[c]) /\ task[c].op \in Writers \cup Readers \cup {"none"}
    BY <1>s, <1>o
  <2>o. task[c].op = "delete"
    BY <2>n, PhaseOps DEF DidDeleteFlex
  <2>1. task'[c].pc \in Phases(task'[c].op)
    BY <2>n, <2>p, <2>o DEF DidDeleteFlex, Now, Is, Phases, Writers, Readers
  <2>2. WriterShape(task'[c])
    BY <2>n, <2>p, <2>o, ConstantsAssumption DEF DidDeleteFlex, Now, Is, WriterShape,
       WellShaped, Writers, Readers, ConstantsAssumption
  <2>3. ReaderShape(task'[c])
    BY <2>n, <2>p, <2>o DEF DidDeleteFlex, Now, Is, ReaderShape, WellShaped, Writers,
       Readers
  <2> QED
    BY <2>t, <2>1, <2>2, <2>3, OthersShape DEF WellShaped, Typed
<1>26. ASSUME NEW c \in Clients, NEW i \in Ids, DeleteShow(c, i)
      PROVE  Shape'
  <2>n. DidDeleteShow(c, i)
    BY <1>26, DeleteShowDoes
  <2>t. \E js, x : Others(c, js, x)
    BY <2>n DEF DidDeleteShow
  <2>p. WellShaped(task[c]) /\ task[c].op \in Writers \cup Readers \cup {"none"}
    BY <1>s, <1>o
  <2>o. task[c].op \in {"update", "delete"}
    BY <2>n, PhaseOps DEF DidDeleteShow
  <2>1. task'[c].pc \in Phases(task'[c].op)
    BY <2>n, <2>p, <2>o DEF DidDeleteShow, Now, Is, Phases, Writers, Readers
  <2>2. WriterShape(task'[c])
    BY <2>n, <2>p, <2>o, ConstantsAssumption DEF DidDeleteShow, Now, Is, WriterShape,
       WellShaped, Writers, Readers, ConstantsAssumption
  <2>3. ReaderShape(task'[c])
    BY <2>n, <2>p, <2>o DEF DidDeleteShow, Now, Is, ReaderShape, WellShaped, Writers,
       Readers
  <2> QED
    BY <2>t, <2>1, <2>2, <2>3, OthersShape DEF WellShaped, Typed
<1>27. ASSUME NEW c \in Clients, FindLocks(c)
      PROVE  Shape'
  <2>n. DidFindLocks(c)
    BY <1>27, FindLocksDoes
  <2>t. \E js, x : Others(c, js, x)
    BY <2>n DEF DidFindLocks
  <2>p. WellShaped(task[c]) /\ task[c].op \in Writers \cup Readers \cup {"none"}
    BY <1>s, <1>o
  <2>o. task[c].op = "find"
    BY <2>n, PhaseOps DEF DidFindLocks
  <2>1. task'[c].pc \in Phases(task'[c].op)
    BY <2>n, <2>p, <2>o DEF DidFindLocks, Now, Is, Phases, Writers, Readers
  <2>2. WriterShape(task'[c])
    BY <2>n, <2>p, <2>o, ConstantsAssumption DEF DidFindLocks, Now, Is, WriterShape,
       WellShaped, Writers, Readers, ConstantsAssumption
  <2>3. ReaderShape(task'[c])
    BY <2>n, <2>p, <2>o DEF DidFindLocks, Now, Is, ReaderShape, WellShaped, Writers, Readers
  <2> QED
    BY <2>t, <2>1, <2>2, <2>3, OthersShape DEF WellShaped, Typed
<1>28. ASSUME NEW c \in Clients, LookupCached(c)
      PROVE  Shape'
  <2>n. DidLookupCached(c)
    BY <1>28, LookupCachedDoes
  <2>t. \E js, x : Others(c, js, x)
    BY <2>n DEF DidLookupCached
  <2>p. WellShaped(task[c]) /\ task[c].op \in Writers \cup Readers \cup {"none"}
    BY <1>s, <1>o
  <2>o. task[c].op \in {"find", "count"}
    BY <2>n, PhaseOps DEF DidLookupCached
  <2>1. task'[c].pc \in Phases(task'[c].op)
    BY <2>n, <2>p, <2>o DEF DidLookupCached, Now, Is, Phases, Writers, Readers
  <2>2. WriterShape(task'[c])
    BY <2>n, <2>p, <2>o, ConstantsAssumption DEF DidLookupCached, Now, Is, WriterShape,
       WellShaped, Writers, Readers, ConstantsAssumption
  <2>3. ReaderShape(task'[c])
    BY <2>n, <2>p, <2>o DEF DidLookupCached, Now, Is, ReaderShape, WellShaped, Writers,
       Readers
  <2> QED
    BY <2>t, <2>1, <2>2, <2>3, OthersShape DEF WellShaped, Typed
<1>29. ASSUME NEW c \in Clients, LookupMisses(c)
      PROVE  Shape'
  <2>n. DidLookupMisses(c)
    BY <1>29, LookupMissesDoes
  <2>t. \E js, x : Others(c, js, x)
    BY <2>n DEF DidLookupMisses
  <2>p. WellShaped(task[c]) /\ task[c].op \in Writers \cup Readers \cup {"none"}
    BY <1>s, <1>o
  <2>o. task[c].op \in {"find", "count"}
    BY <2>n, PhaseOps DEF DidLookupMisses
  <2>1. task'[c].pc \in Phases(task'[c].op)
    BY <2>n, <2>p, <2>o DEF DidLookupMisses, Now, Is, Phases, Writers, Readers
  <2>2. WriterShape(task'[c])
    BY <2>n, <2>p, <2>o, ConstantsAssumption DEF DidLookupMisses, Now, Is, WriterShape,
       WellShaped, Writers, Readers, ConstantsAssumption
  <2>3. ReaderShape(task'[c])
    BY <2>n, <2>p, <2>o DEF DidLookupMisses, Now, Is, ReaderShape, WellShaped, Writers,
       Readers
  <2> QED
    BY <2>t, <2>1, <2>2, <2>3, OthersShape DEF WellShaped, Typed
<1>30. ASSUME NEW c \in Clients, NEW page \in SUBSET Ids, Seek(c, page)
      PROVE  Shape'
  <2>n. DidSeek(c, page)
    BY <1>30, SeekDoes
  <2>t. \E js, x : Others(c, js, x)
    BY <2>n DEF DidSeek
  <2>p. WellShaped(task[c]) /\ task[c].op \in Writers \cup Readers \cup {"none"}
    BY <1>s, <1>o
  <2>o. task[c].op \in {"find", "count"}
    BY <2>n, PhaseOps DEF DidSeek
  <2>q. Cardinality(Indexed(task[c].val)) \in Nat
    BY ConstantsAssumption, FS_Subset, FS_CardinalityType,
       Indexed(task[c].val) \subseteq Ids DEF ConstantsAssumption, Indexed
  <2>1. task'[c].pc \in Phases(task'[c].op)
    BY <2>n, <2>p, <2>o DEF DidSeek, Now, Is, Phases, Writers, Readers
  <2>2. WriterShape(task'[c])
    BY <2>n, <2>p, <2>o, ConstantsAssumption DEF DidSeek, Now, Is, WriterShape, WellShaped,
       Writers, Readers, ConstantsAssumption
  <2>3. ReaderShape(task'[c])
    BY <2>n, <2>q, <2>p, <2>o DEF DidSeek, Now, Is, ReaderShape, WellShaped, Writers,
       Readers
  <2> QED
    BY <2>t, <2>1, <2>2, <2>3, OthersShape DEF WellShaped, Typed
<1>31. ASSUME NEW c \in Clients, Keep(c)
      PROVE  Shape'
  <2>n. DidKeep(c)
    BY <1>31, KeepDoes
  <2>t. \E js, x : Others(c, js, x)
    BY <2>n DEF DidKeep
  <2>p. WellShaped(task[c]) /\ task[c].op \in Writers \cup Readers \cup {"none"}
    BY <1>s, <1>o
  <2>o. task[c].op \in {"find", "count"}
    BY <2>n, PhaseOps DEF DidKeep
  <2>1. task'[c].pc \in Phases(task'[c].op)
    BY <2>n, <2>p, <2>o DEF DidKeep, Now, Is, Phases, Writers, Readers
  <2>2. WriterShape(task'[c])
    BY <2>n, <2>p, <2>o, ConstantsAssumption DEF DidKeep, Now, Is, WriterShape, WellShaped,
       Writers, Readers, ConstantsAssumption
  <2>3. ReaderShape(task'[c])
    BY <2>n, <2>p, <2>o DEF DidKeep, Now, Is, ReaderShape, WellShaped, Writers, Readers
  <2> QED
    BY <2>t, <2>1, <2>2, <2>3, OthersShape DEF WellShaped, Typed
<1>32. ASSUME NEW c \in Clients, Scan(c)
      PROVE  Shape'
  <2>n. DidScan(c)
    BY <1>32, ScanDoes
  <2>t. \E js, x : Others(c, js, x)
    BY <2>n DEF DidScan
  <2>p. WellShaped(task[c]) /\ task[c].op \in Writers \cup Readers \cup {"none"}
    BY <1>s, <1>o
  <2>o. task[c].op = "find"
    BY <2>n, PhaseOps DEF DidScan
  <2>1. task'[c].pc \in Phases(task'[c].op)
    BY <2>n, <2>p, <2>o DEF DidScan, Now, Is, Phases, Writers, Readers
  <2>2. WriterShape(task'[c])
    BY <2>n, <2>p, <2>o, ConstantsAssumption DEF DidScan, Now, Is, WriterShape, WellShaped,
       Writers, Readers, ConstantsAssumption
  <2>3. ReaderShape(task'[c])
    BY <2>n, <2>p, <2>o DEF DidScan, Now, Is, ReaderShape, WellShaped, Writers, Readers
  <2> QED
    BY <2>t, <2>1, <2>2, <2>3, OthersShape DEF WellShaped, Typed
<1>33. ASSUME NEW c \in Clients, Fetched(c)
      PROVE  Shape'
  <2>n. DidFetched(c)
    BY <1>33, FetchedDoes
  <2>t. \E js, x : Others(c, js, x)
    BY <2>n DEF DidFetched
  <2>p. WellShaped(task[c]) /\ task[c].op \in Writers \cup Readers \cup {"none"}
    BY <1>s, <1>o
  <2>o. task[c].op \in {"get", "find"}
    BY <2>n, PhaseOps DEF DidFetched
  <2>q. task[c].op = "find" \/ (task[c].op = "get" /\ task[c].src = "none")
    BY <2>p, <2>o DEF WellShaped, ReaderShape
  <2>1. task'[c].pc \in Phases(task'[c].op)
    BY <2>n, <2>q, <2>p, <2>o DEF DidFetched, Now, Is, Phases, Writers, Readers
  <2>2. WriterShape(task'[c])
    BY <2>n, <2>p, <2>o, ConstantsAssumption DEF DidFetched, Now, Is, WriterShape,
       WellShaped, Writers, Readers, ConstantsAssumption
  <2>3. ReaderShape(task'[c])
    BY <2>n, <2>p, <2>o DEF DidFetched, Now, Is, ReaderShape, WellShaped, Writers, Readers
  <2> QED
    BY <2>t, <2>1, <2>2, <2>3, OthersShape DEF WellShaped, Typed
<1>34. ASSUME NEW c \in Clients, Return(c)
      PROVE  Shape'
  <2>n. DidReturn(c)
    BY <1>34, ReturnDoes
  <2>t. \E js, x : Others(c, js, x)
    BY <2>n DEF DidReturn
  <2>p. WellShaped(task[c]) /\ task[c].op \in Writers \cup Readers \cup {"none"}
    BY <1>s, <1>o
  <2>o. task[c].op \in Readers
    BY <2>n, PhaseOps DEF DidReturn
  <2>1. task'[c].pc \in Phases(task'[c].op)
    BY <2>n, <2>p, <2>o DEF DidReturn, Now, Is, Phases, Writers, Readers
  <2>2. WriterShape(task'[c])
    BY <2>n, <2>p, <2>o, ConstantsAssumption DEF DidReturn, Now, Is, WriterShape,
       WellShaped, Writers, Readers, ConstantsAssumption
  <2>3. ReaderShape(task'[c])
    BY <2>n, <2>p, <2>o DEF DidReturn, Now, Is, ReaderShape, WellShaped, Writers, Readers
  <2> QED
    BY <2>t, <2>1, <2>2, <2>3, OthersShape DEF WellShaped, Typed
<1>35. ASSUME NEW c \in Clients, NEW i \in Ids, Fetch(c, i)
      PROVE  Shape'
  <2>n. DidFetch(c, i)
    BY <1>35, FetchDoes
  <2>t. \E js, x : Others(c, js, x)
    BY <2>n DEF DidFetch
  <2>p. WellShaped(task[c]) /\ task[c].op \in Writers \cup Readers \cup {"none"}
    BY <1>s, <1>o
  <2>o. task[c].op \in {"get", "find"}
    BY <2>n, PhaseOps DEF DidFetch
  <2>q. \A j \in Ids : j # i => task'[c].put[j] = NoVal
    BY <2>n, <2>p, <2>o DEF DidFetch, Now, Is, NoDocs, WellShaped, ReaderShape, Readers
  <2>1. task'[c].pc \in Phases(task'[c].op)
    BY <2>n, <2>p, <2>o DEF DidFetch, Now, Is, Phases, Writers, Readers
  <2>2. WriterShape(task'[c])
    BY <2>n, <2>p, <2>o, ConstantsAssumption DEF DidFetch, Now, Is, WriterShape,
       WellShaped, Writers, Readers, ConstantsAssumption
  <2>3. ReaderShape(task'[c])
    BY <2>n, <2>q, <2>p, <2>o DEF DidFetch, Now, Is, ReaderShape, WellShaped, Writers,
       Readers
  <2> QED
    BY <2>t, <2>1, <2>2, <2>3, OthersShape DEF WellShaped, Typed
<1>36. ASSUME NEW c \in Clients, NEW i \in Ids, Fill(c, i)
      PROVE  Shape'
  <2>n. DidFill(c, i)
    BY <1>36, FillDoes
  <2>t. \E js, x : Others(c, js, x)
    BY <2>n DEF DidFill
  <2>p. WellShaped(task[c]) /\ task[c].op \in Writers \cup Readers \cup {"none"}
    BY <1>s, <1>o
  <2>o. task[c].op \in {"get", "find"}
    BY <2>n, PhaseOps DEF DidFill
  <2>1. task'[c].pc \in Phases(task'[c].op)
    BY <2>n, <2>p, <2>o DEF DidFill, Now, Is, Phases, Writers, Readers
  <2>2. WriterShape(task'[c])
    BY <2>n, <2>p, <2>o, ConstantsAssumption DEF DidFill, Now, Is, WriterShape, WellShaped,
       Writers, Readers, ConstantsAssumption
  <2>3. ReaderShape(task'[c])
    BY <2>n, <2>p, <2>o DEF DidFill, Now, Is, ReaderShape, WellShaped, Writers, Readers
  <2> QED
    BY <2>t, <2>1, <2>2, <2>3, OthersShape DEF WellShaped, Typed
<1>37. ASSUME NEW i \in Ids, EvictL1(i)
      PROVE  Shape'
  BY <1>37 DEF EvictL1, Typed, Shape
<1>38. ASSUME NEW v \in Vals, EvictL2(v)
      PROVE  Shape'
  BY <1>38 DEF EvictL2, Typed, Shape
<1>39. ASSUME Restart
      PROVE  Shape'
  BY <1>39 DEF Restart, Typed, Shape
<1>40. CASE UNCHANGED vars
  BY <1>40 DEF vars, Typed, Shape
<1>41. ASSUME NEW c \in Clients, Start(c)
      PROVE  Shape'
  BY <1>41, <1>1, <1>2, <1>3, <1>4, <1>5, <1>6, <1>7, <1>8 DEF Start
<1>42. ASSUME NEW c \in Clients, WriteStep(c)
      PROVE  Shape'
  BY <1>42, <1>9, <1>10, <1>11, <1>12, <1>13, <1>14, <1>15, <1>16, <1>17, <1>18, <1>19,
     <1>20, <1>21, <1>22, <1>23, <1>24, <1>25, <1>26 DEF WriteStep
<1>43. ASSUME NEW c \in Clients, ReadStep(c)
      PROVE  Shape'
  BY <1>43, <1>27, <1>28, <1>29, <1>30, <1>31, <1>32, <1>33, <1>34, <1>35, <1>36
     DEF ReadStep
<1> QED
  BY <1>37, <1>38, <1>39, <1>40, <1>41, <1>42, <1>43 DEF Next

-----------------------------------------------------------------------------
(* Locks, and what readers learn of writers *)

Locks == Excl /\ Unique /\ MovedSees

(* An excuse once given stays.                                             *)
ExcuseGrows == \A i \in Ids : excuse[i] \subseteq excuse'[i]

(* Excusing documents takes no excuse away.                                *)
LEMMA ExcusedGrows ==
  ASSUME Typed, NEW ids, NEW why
  PROVE  \A i \in Ids : /\ excuse[i] \subseteq Excused(ids, why)[i]
                        /\ i \in ids => why \in Excused(ids, why)[i]
  BY DEF Excused

(* No step takes an excuse away.                                           *)
LEMMA GrowsStep ==
  ASSUME Typed, [Next]_vars
  PROVE  ExcuseGrows
<1>e. excuse \in [Ids -> SUBSET Causes]
  BY DEF Typed, TypeOK

<1>1. ASSUME NEW c \in Clients, NEW i \in Ids, NEW v \in Vals, Insert(c, i, v)
      PROVE  ExcuseGrows
  <2>1. DidInsert(c, i, v)
    BY <1>1, InsertDoes
  <2> QED
    BY <2>1, <1>e, ExcusedGrows DEF DidInsert, ExcuseGrows
<1>2. ASSUME NEW c \in Clients, NEW put \in [Ids -> Vals \cup {NoVal}], Batch(c, put)
      PROVE  ExcuseGrows
  <2>1. DidBatch(c, put)
    BY <1>2, BatchDoes
  <2> QED
    BY <2>1, <1>e, ExcusedGrows DEF DidBatch, ExcuseGrows
<1>3. ASSUME NEW c \in Clients, NEW v \in Vals, NEW w \in Vals, NEW ids \in SUBSET Ids,
             UpdateStart(c, v, w, ids)
      PROVE  ExcuseGrows
  <2>1. DidUpdateStart(c, v, w, ids)
    BY <1>3, UpdateStartDoes
  <2> QED
    BY <2>1, <1>e, ExcusedGrows DEF DidUpdateStart, ExcuseGrows
<1>4. ASSUME NEW c \in Clients, NEW v \in Vals, NEW ids \in SUBSET Ids,
             DeleteStart(c, v, ids)
      PROVE  ExcuseGrows
  <2>1. DidDeleteStart(c, v, ids)
    BY <1>4, DeleteStartDoes
  <2> QED
    BY <2>1, <1>e, ExcusedGrows DEF DidDeleteStart, ExcuseGrows
<1>5. ASSUME NEW c \in Clients, NEW i \in Ids, Get(c, i)
      PROVE  ExcuseGrows
  <2>1. DidGet(c, i)
    BY <1>5, GetDoes
  <2> QED
    BY <2>1 DEF DidGet, ExcuseGrows
<1>6. ASSUME NEW c \in Clients, NEW v \in Vals, NEW alone \in BOOLEAN, Find(c, v, alone)
      PROVE  ExcuseGrows
  <2>1. DidFind(c, v, alone)
    BY <1>6, FindDoes
  <2> QED
    BY <2>1 DEF DidFind, ExcuseGrows
<1>7. ASSUME NEW c \in Clients, NEW v \in Vals, Count(c, v)
      PROVE  ExcuseGrows
  <2>1. DidCount(c, v)
    BY <1>7, CountDoes
  <2> QED
    BY <2>1 DEF DidCount, ExcuseGrows
<1>8. ASSUME NEW c \in Clients, Refused(c)
      PROVE  ExcuseGrows
  BY <1>8, ExcusedGrows DEF Refused, ExcuseGrows, ghosts
<1>9. ASSUME NEW c \in Clients, InsertIndex(c)
      PROVE  ExcuseGrows
  <2>1. DidInsertIndex(c)
    BY <1>9, InsertIndexDoes
  <2> QED
    BY <2>1 DEF DidInsertIndex, ExcuseGrows
<1>10. ASSUME NEW c \in Clients, InsertIndexFails(c)
      PROVE  ExcuseGrows
  <2>1. DidInsertIndexFails(c)
    BY <1>10, InsertIndexFailsDoes
  <2> QED
    BY <2>1, <1>e, ExcusedGrows DEF DidInsertIndexFails, ExcuseGrows
<1>11. ASSUME NEW c \in Clients, BatchFlush(c)
      PROVE  ExcuseGrows
  <2>1. DidBatchFlush(c)
    BY <1>11, BatchFlushDoes
  <2> QED
    BY <2>1, <1>e, ExcusedGrows DEF DidBatchFlush, ExcuseGrows
<1>12. ASSUME NEW c \in Clients, NEW stored \in SUBSET Ids, BatchFlushFails(c, stored)
      PROVE  ExcuseGrows
  <2>1. DidBatchFlushFails(c, stored)
    BY <1>12, BatchFlushFailsDoes
  <2> QED
    BY <2>1, <1>e, ExcusedGrows DEF DidBatchFlushFails, ExcuseGrows
<1>13. ASSUME NEW c \in Clients, LoadCount(c)
      PROVE  ExcuseGrows
  <2>1. DidLoadCount(c)
    BY <1>13, LoadCountDoes
  <2> QED
    BY <2>1 DEF DidLoadCount, ExcuseGrows
<1>14. ASSUME NEW c \in Clients, SaveBegins(c)
      PROVE  ExcuseGrows
  <2>1. DidSaveBegins(c)
    BY <1>14, SaveBeginsDoes
  <2> QED
    BY <2>1 DEF DidSaveBegins, ExcuseGrows
<1>15. ASSUME NEW c \in Clients, SaveCount(c)
      PROVE  ExcuseGrows
  <2>1. DidSaveCount(c)
    BY <1>15, SaveCountDoes
  <2> QED
    BY <2>1 DEF DidSaveCount, ExcuseGrows
<1>16. ASSUME NEW c \in Clients, SaveFails(c)
      PROVE  ExcuseGrows
  <2>1. DidSaveFails(c)
    BY <1>16, SaveFailsDoes
  <2> QED
    BY <2>1 DEF DidSaveFails, ExcuseGrows
<1>17. ASSUME NEW c \in Clients, UpdateCommit(c)
      PROVE  ExcuseGrows
  <2>1. DidUpdateCommit(c)
    BY <1>17, UpdateCommitDoes
  <2> QED
    BY <2>1 DEF DidUpdateCommit, ExcuseGrows
<1>18. ASSUME NEW c \in Clients, UpdateFails(c)
      PROVE  ExcuseGrows
  <2>1. DidUpdateFails(c)
    BY <1>18, UpdateFailsDoes
  <2> QED
    BY <2>1, <1>e, ExcusedGrows DEF DidUpdateFails, ExcuseGrows
<1>19. ASSUME NEW c \in Clients, DeleteFound(c)
      PROVE  ExcuseGrows
  <2>1. DidDeleteFound(c)
    BY <1>19, DeleteFoundDoes
  <2> QED
    BY <2>1 DEF DidDeleteFound, ExcuseGrows
<1>20. ASSUME NEW c \in Clients, DeleteCommit(c)
      PROVE  ExcuseGrows
  <2>1. DidDeleteCommit(c)
    BY <1>20, DeleteCommitDoes
  <2> QED
    BY <2>1 DEF DidDeleteCommit, ExcuseGrows
<1>21. ASSUME NEW c \in Clients, DeleteFails(c)
      PROVE  ExcuseGrows
  <2>1. DidDeleteFails(c)
    BY <1>21, DeleteFailsDoes
  <2> QED
    BY <2>1, <1>e, ExcusedGrows DEF DidDeleteFails, ExcuseGrows
<1>22. ASSUME NEW c \in Clients, NEW i \in Ids, CacheInsert(c, i)
      PROVE  ExcuseGrows
  <2>1. DidCacheInsert(c, i)
    BY <1>22, CacheInsertDoes
  <2> QED
    BY <2>1 DEF DidCacheInsert, ExcuseGrows
<1>23. ASSUME NEW c \in Clients, NEW i \in Ids, Tell(c, i)
      PROVE  ExcuseGrows
  <2>1. DidTell(c, i)
    BY <1>23, TellDoes
  <2> QED
    BY <2>1 DEF DidTell, ExcuseGrows
<1>24. ASSUME NEW c \in Clients, NEW i \in Ids, UpdateShow(c, i)
      PROVE  ExcuseGrows
  <2>1. DidUpdateShow(c, i)
    BY <1>24, UpdateShowDoes
  <2> QED
    BY <2>1 DEF DidUpdateShow, ExcuseGrows
<1>25. ASSUME NEW c \in Clients, NEW i \in Ids, DeleteFlex(c, i)
      PROVE  ExcuseGrows
  <2>1. DidDeleteFlex(c, i)
    BY <1>25, DeleteFlexDoes
  <2> QED
    BY <2>1 DEF DidDeleteFlex, ExcuseGrows
<1>26. ASSUME NEW c \in Clients, NEW i \in Ids, DeleteShow(c, i)
      PROVE  ExcuseGrows
  <2>1. DidDeleteShow(c, i)
    BY <1>26, DeleteShowDoes
  <2> QED
    BY <2>1 DEF DidDeleteShow, ExcuseGrows
<1>27. ASSUME NEW c \in Clients, FindLocks(c)
      PROVE  ExcuseGrows
  <2>1. DidFindLocks(c)
    BY <1>27, FindLocksDoes
  <2> QED
    BY <2>1 DEF DidFindLocks, ExcuseGrows
<1>28. ASSUME NEW c \in Clients, LookupCached(c)
      PROVE  ExcuseGrows
  <2>1. DidLookupCached(c)
    BY <1>28, LookupCachedDoes
  <2> QED
    BY <2>1 DEF DidLookupCached, ExcuseGrows
<1>29. ASSUME NEW c \in Clients, LookupMisses(c)
      PROVE  ExcuseGrows
  <2>1. DidLookupMisses(c)
    BY <1>29, LookupMissesDoes
  <2> QED
    BY <2>1 DEF DidLookupMisses, ExcuseGrows
<1>30. ASSUME NEW c \in Clients, NEW page \in SUBSET Ids, Seek(c, page)
      PROVE  ExcuseGrows
  <2>1. DidSeek(c, page)
    BY <1>30, SeekDoes
  <2> QED
    BY <2>1 DEF DidSeek, ExcuseGrows
<1>31. ASSUME NEW c \in Clients, Keep(c)
      PROVE  ExcuseGrows
  <2>1. DidKeep(c)
    BY <1>31, KeepDoes
  <2> QED
    BY <2>1 DEF DidKeep, ExcuseGrows
<1>32. ASSUME NEW c \in Clients, Scan(c)
      PROVE  ExcuseGrows
  <2>1. DidScan(c)
    BY <1>32, ScanDoes
  <2> QED
    BY <2>1 DEF DidScan, ExcuseGrows
<1>33. ASSUME NEW c \in Clients, Fetched(c)
      PROVE  ExcuseGrows
  <2>1. DidFetched(c)
    BY <1>33, FetchedDoes
  <2> QED
    BY <2>1 DEF DidFetched, ExcuseGrows
<1>34. ASSUME NEW c \in Clients, Return(c)
      PROVE  ExcuseGrows
  <2>1. DidReturn(c)
    BY <1>34, ReturnDoes
  <2> QED
    BY <2>1 DEF DidReturn, ExcuseGrows
<1>35. ASSUME NEW c \in Clients, NEW i \in Ids, Fetch(c, i)
      PROVE  ExcuseGrows
  <2>1. DidFetch(c, i)
    BY <1>35, FetchDoes
  <2> QED
    BY <2>1 DEF DidFetch, ExcuseGrows
<1>36. ASSUME NEW c \in Clients, NEW i \in Ids, Fill(c, i)
      PROVE  ExcuseGrows
  <2>1. DidFill(c, i)
    BY <1>36, FillDoes
  <2> QED
    BY <2>1, <1>e, ExcusedGrows DEF DidFill, ExcuseGrows
<1>37. ASSUME NEW i \in Ids, EvictL1(i)
      PROVE  ExcuseGrows
  BY <1>37, ExcusedGrows DEF EvictL1, ExcuseGrows, ghosts
<1>38. ASSUME NEW v \in Vals, EvictL2(v)
      PROVE  ExcuseGrows
  BY <1>38, ExcusedGrows DEF EvictL2, ExcuseGrows, ghosts
<1>39. ASSUME Restart
      PROVE  ExcuseGrows
  BY <1>39, ExcusedGrows DEF Restart, ExcuseGrows, ghosts
<1>40. CASE UNCHANGED vars
  BY <1>40 DEF vars, ghosts, ExcuseGrows
<1>41. ASSUME NEW c \in Clients, Start(c)
      PROVE  ExcuseGrows
  BY <1>41, <1>1, <1>2, <1>3, <1>4, <1>5, <1>6, <1>7, <1>8 DEF Start
<1>42. ASSUME NEW c \in Clients, WriteStep(c)
      PROVE  ExcuseGrows
  BY <1>42, <1>9, <1>10, <1>11, <1>12, <1>13, <1>14, <1>15, <1>16, <1>17, <1>18, <1>19,
     <1>20, <1>21, <1>22, <1>23, <1>24, <1>25, <1>26 DEF WriteStep
<1>43. ASSUME NEW c \in Clients, ReadStep(c)
      PROVE  ExcuseGrows
  BY <1>43, <1>27, <1>28, <1>29, <1>30, <1>31, <1>32, <1>33, <1>34, <1>35, <1>36
     DEF ReadStep
<1> QED
  BY <1>37, <1>38, <1>39, <1>40, <1>41, <1>42, <1>43 DEF Next

(* A step that takes no locks keeps what is known of them.                 *)
LEMMA LocksStay ==
  ASSUME Typed, Locks, ExcuseGrows, NEW c \in Clients, NEW w,
         Others(c, task'[c].ids, w), task'[c].ids \subseteq task[c].ids,
         Holds(task'[c]) \subseteq Holds(task[c]),
         task'[c].op \in Readers =>
           task'[c].ids = {} /\ \A d \in Clients : task[d].ids \subseteq task'[c].moved
  PROVE  Locks'
<1>1. \A d \in Clients : /\ Holds(task'[d]) \subseteq Holds(task[d])
                         /\ task'[d].ids \subseteq task[d].ids
  BY DEF Others, SameWork, Holds
<1>2. Excl'
  BY <1>1 DEF Excl, Locks
<1>3. Unique'
  BY <1>1 DEF Unique, Locks, ExcuseGrows, Typed, TypeOK, Task
<1>4. ASSUME NEW a \in Clients, NEW d \in Clients, task'[a].op \in Readers
      PROVE  task'[d].ids \subseteq task'[a].moved
  <2>1. CASE a = c
    BY <1>1, <1>4, <2>1
  <2>2. CASE a # c
    BY <1>1, <1>4, <2>2 DEF Locks, MovedSees, Others, SameWork
  <2> QED
    BY <2>1, <2>2
<1> QED
  BY <1>2, <1>3, <1>4 DEF Locks, MovedSees

(* A writer takes locks that are free; the documents it shares with        *)
(* another are crossed, since that one's locks are others.                 *)
LEMMA LocksTaken ==
  ASSUME Typed, Locks, ExcuseGrows, NEW c \in Clients, NEW w,
         NEW op \in Writers, NEW ids \in SUBSET Ids, Free(op, ids),
         task[c] = Idle, task'[c].op = op, task'[c].ids = ids, Others(c, ids, w),
         \A i \in Crossed(c, op, ids) : "crossed" \in excuse'[i]
  PROVE  Locks'
<1>1. Holds(task'[c]) = LockKeys(op, ids)
  BY DEF Holds
<1>2. \A d \in Clients \ {c} : Holds(task'[d]) = Holds(task[d]) /\
        task'[d].ids = task[d].ids
  BY DEF Others, SameWork, Holds
<1>3. \A d \in Clients : Holds(task[d]) \cap LockKeys(op, ids) = {}
  BY DEF Free
<1>4. Excl'
  BY <1>1, <1>2, <1>3 DEF Excl, Locks
<1>5. ASSUME NEW d \in Clients \ {c}, NEW i \in ids \cap task[d].ids
      PROVE  "crossed" \in excuse'[i]
  <2>1. LockKeys(op, ids) # {}
    BY <1>5 DEF LockKeys
  <2>2. Holds(task[d]) # LockKeys(op, ids)
    BY <2>1, <1>3
  <2> QED
    BY <1>5, <2>2 DEF Crossed
<1>6. ASSUME NEW a \in Clients, NEW d \in Clients, a # d,
             NEW i \in task'[a].ids \cap task'[d].ids
      PROVE  "crossed" \in excuse'[i]
  <2>1. CASE a = c
    BY <2>1, <1>2, <1>5, <1>6
  <2>2. CASE d = c
    BY <2>2, <1>2, <1>5, <1>6
  <2>3. CASE a # c /\ d # c
    BY <2>3, <1>2, <1>6 DEF Locks, Unique, ExcuseGrows, Typed, TypeOK, Task
  <2> QED
    BY <2>1, <2>2, <2>3
<1>7. Unique'
  BY <1>6 DEF Unique
<1>8. ASSUME NEW a \in Clients, NEW d \in Clients, task'[a].op \in Readers
      PROVE  task'[d].ids \subseteq task'[a].moved
  <2>1. a # c
    BY <1>8 DEF Readers, Writers
  <2> QED
    BY <1>2, <1>8, <2>1 DEF Locks, MovedSees, Others, SameWork
<1> QED
  BY <1>4, <1>7, <1>8 DEF Locks, MovedSees

(* Every step keeps what is known of the locks.                            *)
LEMMA LocksStep ==
  ASSUME Typed, Locks, [Next]_vars
  PROVE  Locks'
<1>g. ExcuseGrows
  BY GrowsStep
<1>c. ASSUME NEW c \in Clients,
             \/ task'[c].op = task[c].op /\ task'[c].ids = task[c].ids /\
                  task'[c].moved = task[c].moved
             \/ task'[c].op = "none"
      PROVE  /\ Holds(task'[c]) \subseteq Holds(task[c])
             /\ task'[c].op \in Readers =>
                  task'[c].ids = {} /\
                    \A d \in Clients : task[d].ids \subseteq task'[c].moved
  BY <1>c DEF Holds, Writers, Readers, Locks, MovedSees, Typed, Shape, WriterShape

<1>1. ASSUME NEW c \in Clients, NEW i \in Ids, NEW v \in Vals, Insert(c, i, v)
      PROVE  Locks'
  <2>1. DidInsert(c, i, v)
    BY <1>1, InsertDoes
  <2> DEFINE taken == {i}
  <2>2. taken \in SUBSET Ids /\ "insert" \in Writers
    BY DEF Writers
  <2>3. /\ Free("insert", taken) /\ task[c] = Idle /\ task'[c].op = "insert" /\
             task'[c].ids = taken
        /\ Others(c, taken, {i})
    BY <2>1 DEF DidInsert, Now, Is
  <2>4. \A k \in Crossed(c, "insert", taken) : "crossed" \in excuse'[k]
    <3>1. Crossed(c, "insert", taken) \subseteq Ids
      BY <2>2 DEF Crossed
    <3>2. \A k \in Ids : Excused(Crossed(c, "insert", taken),
            "crossed")[k] \subseteq excuse'[k]
      BY <2>1 DEF DidInsert, Excused
    <3> QED
      BY <3>1, <3>2, ExcusedGrows
  <2> HIDE DEF taken
  <2> QED
    BY <2>2, <2>3, <2>4, <1>g, LocksTaken
<1>2. ASSUME NEW c \in Clients, NEW put \in [Ids -> Vals \cup {NoVal}], Batch(c, put)
      PROVE  Locks'
  <2>1. DidBatch(c, put)
    BY <1>2, BatchDoes
  <2> DEFINE taken == {i \in Ids : put[i] # NoVal}
  <2>2. taken \in SUBSET Ids /\ "batch" \in Writers
    BY DEF Writers
  <2>3. /\ Free("batch", taken) /\ task[c] = Idle /\ task'[c].op = "batch" /\
             task'[c].ids = taken
        /\ Others(c, taken, {})
    BY <2>1 DEF DidBatch, Now, Is
  <2>4. \A k \in Crossed(c, "batch", taken) : "crossed" \in excuse'[k]
    <3>1. Crossed(c, "batch", taken) \subseteq Ids
      BY <2>2 DEF Crossed
    <3>2. excuse' = Excused(Crossed(c, "batch", taken), "crossed")
      BY <2>1 DEF DidBatch
    <3> QED
      BY <3>1, <3>2, ExcusedGrows
  <2> HIDE DEF taken
  <2> QED
    BY <2>2, <2>3, <2>4, <1>g, LocksTaken
<1>3. ASSUME NEW c \in Clients, NEW v \in Vals, NEW w \in Vals, NEW ids \in SUBSET Ids,
             UpdateStart(c, v, w, ids)
      PROVE  Locks'
  <2>1. DidUpdateStart(c, v, w, ids)
    BY <1>3, UpdateStartDoes
  <2> DEFINE taken == ids
  <2>2. taken \in SUBSET Ids /\ "update" \in Writers
    BY DEF Writers
  <2>3. /\ Free("update", taken) /\ task[c] = Idle /\ task'[c].op = "update" /\
             task'[c].ids = taken
        /\ Others(c, taken, {})
    BY <2>1 DEF DidUpdateStart, Now, Is
  <2>4. \A k \in Crossed(c, "update", taken) : "crossed" \in excuse'[k]
    <3>1. Crossed(c, "update", taken) \subseteq Ids
      BY <2>2 DEF Crossed
    <3>2. excuse' = Excused(Crossed(c, "update", taken), "crossed")
      BY <2>1 DEF DidUpdateStart
    <3> QED
      BY <3>1, <3>2, ExcusedGrows
  <2> HIDE DEF taken
  <2> QED
    BY <2>2, <2>3, <2>4, <1>g, LocksTaken
<1>4. ASSUME NEW c \in Clients, NEW v \in Vals, NEW ids \in SUBSET Ids,
             DeleteStart(c, v, ids)
      PROVE  Locks'
  <2>1. DidDeleteStart(c, v, ids)
    BY <1>4, DeleteStartDoes
  <2> DEFINE taken == ids
  <2>2. taken \in SUBSET Ids /\ "delete" \in Writers
    BY DEF Writers
  <2>3. /\ Free("delete", taken) /\ task[c] = Idle /\ task'[c].op = "delete" /\
             task'[c].ids = taken
        /\ Others(c, taken, {})
    BY <2>1 DEF DidDeleteStart, Now, Is
  <2>4. \A k \in Crossed(c, "delete", taken) : "crossed" \in excuse'[k]
    <3>1. Crossed(c, "delete", taken) \subseteq Ids
      BY <2>2 DEF Crossed
    <3>2. excuse' = Excused(Crossed(c, "delete", taken), "crossed")
      BY <2>1 DEF DidDeleteStart
    <3> QED
      BY <3>1, <3>2, ExcusedGrows
  <2> HIDE DEF taken
  <2> QED
    BY <2>2, <2>3, <2>4, <1>g, LocksTaken
<1>5. ASSUME NEW c \in Clients, NEW i \in Ids, Get(c, i)
      PROVE  Locks'
  <2>1. DidGet(c, i)
    BY <1>5, GetDoes
  <2>2. task[c].op = "none" /\ task[c].ids = {} /\ task'[c].ids = {} /\ Others(c, {}, {})
    BY <2>1 DEF DidGet, Now, Is, Idle
  <2>3. task'[c].op \in Readers /\ task'[c].moved = Moving
    BY <2>1 DEF DidGet, Now, Is, Readers
  <2>4. Holds(task'[c]) = {}
    BY <2>3 DEF Holds, Readers, Writers
  <2>5. \A d \in Clients : task[d].ids \subseteq Moving
    BY DEF Moving
  <2> QED
    BY <2>2, <2>3, <2>4, <2>5, <1>g, LocksStay
<1>6. ASSUME NEW c \in Clients, NEW v \in Vals, NEW alone \in BOOLEAN, Find(c, v, alone)
      PROVE  Locks'
  <2>1. DidFind(c, v, alone)
    BY <1>6, FindDoes
  <2>2. task[c].op = "none" /\ task[c].ids = {} /\ task'[c].ids = {} /\ Others(c, {}, {})
    BY <2>1 DEF DidFind, Now, Is, Idle
  <2>3. task'[c].op \in Readers /\ task'[c].moved = Moving
    BY <2>1 DEF DidFind, Now, Is, Readers
  <2>4. Holds(task'[c]) = {}
    BY <2>3 DEF Holds, Readers, Writers
  <2>5. \A d \in Clients : task[d].ids \subseteq Moving
    BY DEF Moving
  <2> QED
    BY <2>2, <2>3, <2>4, <2>5, <1>g, LocksStay
<1>7. ASSUME NEW c \in Clients, NEW v \in Vals, Count(c, v)
      PROVE  Locks'
  <2>1. DidCount(c, v)
    BY <1>7, CountDoes
  <2>2. task[c].op = "none" /\ task[c].ids = {} /\ task'[c].ids = {} /\ Others(c, {}, {})
    BY <2>1 DEF DidCount, Now, Is, Idle
  <2>3. task'[c].op \in Readers /\ task'[c].moved = Moving
    BY <2>1 DEF DidCount, Now, Is, Readers
  <2>4. Holds(task'[c]) = {}
    BY <2>3 DEF Holds, Readers, Writers
  <2>5. \A d \in Clients : task[d].ids \subseteq Moving
    BY DEF Moving
  <2> QED
    BY <2>2, <2>3, <2>4, <2>5, <1>g, LocksStay
<1>8. ASSUME NEW c \in Clients, Refused(c)
      PROVE  Locks'
  <2>1. task' = task
    BY <1>8 DEF Refused
  <2> QED
    BY <2>1, <1>g DEF Locks, Excl, Unique, MovedSees, ExcuseGrows, Typed, TypeOK, Task
<1>9. ASSUME NEW c \in Clients, InsertIndex(c)
      PROVE  Locks'
  <2>1. DidInsertIndex(c)
    BY <1>9, InsertIndexDoes
  <2>2. Others(c, task'[c].ids, {}) /\ task'[c].ids \subseteq task[c].ids
    BY <2>1 DEF DidInsertIndex, Now, Is
  <2>3. \/ task'[c].op = task[c].op /\ task'[c].ids = task[c].ids /\
             task'[c].moved = task[c].moved
        \/ task'[c].op = "none"
    BY <2>1 DEF DidInsertIndex, Now, Is
  <2> QED
    BY <2>2, <2>3, <1>g, <1>c, LocksStay
<1>10. ASSUME NEW c \in Clients, InsertIndexFails(c)
      PROVE  Locks'
  <2>1. DidInsertIndexFails(c)
    BY <1>10, InsertIndexFailsDoes
  <2>2. Others(c, task'[c].ids, {}) /\ task'[c].ids \subseteq task[c].ids
    BY <2>1 DEF DidInsertIndexFails, Now, Is
  <2>3. \/ task'[c].op = task[c].op /\ task'[c].ids = task[c].ids /\
             task'[c].moved = task[c].moved
        \/ task'[c].op = "none"
    BY <2>1 DEF DidInsertIndexFails, Now, Is
  <2> QED
    BY <2>2, <2>3, <1>g, <1>c, LocksStay
<1>11. ASSUME NEW c \in Clients, BatchFlush(c)
      PROVE  Locks'
  <2>1. DidBatchFlush(c)
    BY <1>11, BatchFlushDoes
  <2>2. Others(c, task'[c].ids, task[c].ids) /\ task'[c].ids \subseteq task[c].ids
    BY <2>1 DEF DidBatchFlush, Now, Is
  <2>3. \/ task'[c].op = task[c].op /\ task'[c].ids = task[c].ids /\
             task'[c].moved = task[c].moved
        \/ task'[c].op = "none"
    BY <2>1 DEF DidBatchFlush, Now, Is
  <2> QED
    BY <2>2, <2>3, <1>g, <1>c, LocksStay
<1>12. ASSUME NEW c \in Clients, NEW stored \in SUBSET Ids, BatchFlushFails(c, stored)
      PROVE  Locks'
  <2>1. DidBatchFlushFails(c, stored)
    BY <1>12, BatchFlushFailsDoes
  <2>2. Others(c, task'[c].ids, stored) /\ task'[c].ids \subseteq task[c].ids
    BY <2>1 DEF DidBatchFlushFails, Now, Is
  <2>3. \/ task'[c].op = task[c].op /\ task'[c].ids = task[c].ids /\
             task'[c].moved = task[c].moved
        \/ task'[c].op = "none"
    BY <2>1 DEF DidBatchFlushFails, Now, Is
  <2> QED
    BY <2>2, <2>3, <1>g, <1>c, LocksStay
<1>13. ASSUME NEW c \in Clients, LoadCount(c)
      PROVE  Locks'
  <2>1. DidLoadCount(c)
    BY <1>13, LoadCountDoes
  <2>2. Others(c, task'[c].ids, {}) /\ task'[c].ids \subseteq task[c].ids
    BY <2>1 DEF DidLoadCount, Now, Is
  <2>3. \/ task'[c].op = task[c].op /\ task'[c].ids = task[c].ids /\
             task'[c].moved = task[c].moved
        \/ task'[c].op = "none"
    BY <2>1 DEF DidLoadCount, Now, Is
  <2> QED
    BY <2>2, <2>3, <1>g, <1>c, LocksStay
<1>14. ASSUME NEW c \in Clients, SaveBegins(c)
      PROVE  Locks'
  <2>1. DidSaveBegins(c)
    BY <1>14, SaveBeginsDoes
  <2>2. Others(c, task'[c].ids, {}) /\ task'[c].ids \subseteq task[c].ids
    BY <2>1 DEF DidSaveBegins, Now, Is
  <2>3. \/ task'[c].op = task[c].op /\ task'[c].ids = task[c].ids /\
             task'[c].moved = task[c].moved
        \/ task'[c].op = "none"
    BY <2>1 DEF DidSaveBegins, Now, Is
  <2> QED
    BY <2>2, <2>3, <1>g, <1>c, LocksStay
<1>15. ASSUME NEW c \in Clients, SaveCount(c)
      PROVE  Locks'
  <2>1. DidSaveCount(c)
    BY <1>15, SaveCountDoes
  <2>2. Others(c, task'[c].ids, {}) /\ task'[c].ids \subseteq task[c].ids
    BY <2>1 DEF DidSaveCount, Now, Is
  <2>3. \/ task'[c].op = task[c].op /\ task'[c].ids = task[c].ids /\
             task'[c].moved = task[c].moved
        \/ task'[c].op = "none"
    BY <2>1 DEF DidSaveCount, Now, Is
  <2> QED
    BY <2>2, <2>3, <1>g, <1>c, LocksStay
<1>16. ASSUME NEW c \in Clients, SaveFails(c)
      PROVE  Locks'
  <2>1. DidSaveFails(c)
    BY <1>16, SaveFailsDoes
  <2>2. Others(c, task'[c].ids, {}) /\ task'[c].ids \subseteq task[c].ids
    BY <2>1 DEF DidSaveFails, Now, Is
  <2>3. \/ task'[c].op = task[c].op /\ task'[c].ids = task[c].ids /\
             task'[c].moved = task[c].moved
        \/ task'[c].op = "none"
    BY <2>1 DEF DidSaveFails, Now, Is
  <2> QED
    BY <2>2, <2>3, <1>g, <1>c, LocksStay
<1>17. ASSUME NEW c \in Clients, UpdateCommit(c)
      PROVE  Locks'
  <2>1. DidUpdateCommit(c)
    BY <1>17, UpdateCommitDoes
  <2>2. Others(c, task'[c].ids, task[c].ids) /\ task'[c].ids \subseteq task[c].ids
    BY <2>1 DEF DidUpdateCommit, Now, Is
  <2>3. \/ task'[c].op = task[c].op /\ task'[c].ids = task[c].ids /\
             task'[c].moved = task[c].moved
        \/ task'[c].op = "none"
    BY <2>1 DEF DidUpdateCommit, Now, Is
  <2> QED
    BY <2>2, <2>3, <1>g, <1>c, LocksStay
<1>18. ASSUME NEW c \in Clients, UpdateFails(c)
      PROVE  Locks'
  <2>1. DidUpdateFails(c)
    BY <1>18, UpdateFailsDoes
  <2>2. Others(c, task'[c].ids, {}) /\ task'[c].ids \subseteq task[c].ids
    BY <2>1 DEF DidUpdateFails, Now, Is
  <2>3. \/ task'[c].op = task[c].op /\ task'[c].ids = task[c].ids /\
             task'[c].moved = task[c].moved
        \/ task'[c].op = "none"
    BY <2>1 DEF DidUpdateFails, Now, Is
  <2> QED
    BY <2>2, <2>3, <1>g, <1>c, LocksStay
<1>19. ASSUME NEW c \in Clients, DeleteFound(c)
      PROVE  Locks'
  <2>1. DidDeleteFound(c)
    BY <1>19, DeleteFoundDoes
  <2>2. Others(c, task'[c].ids, {}) /\ task'[c].ids \subseteq task[c].ids
    BY <2>1 DEF DidDeleteFound, Now, Is
  <2>3. \/ task'[c].op = task[c].op /\ task'[c].ids = task[c].ids /\
             task'[c].moved = task[c].moved
        \/ task'[c].op = "none"
    BY <2>1 DEF DidDeleteFound, Now, Is
  <2> QED
    BY <2>2, <2>3, <1>g, <1>c, LocksStay
<1>20. ASSUME NEW c \in Clients, DeleteCommit(c)
      PROVE  Locks'
  <2>1. DidDeleteCommit(c)
    BY <1>20, DeleteCommitDoes
  <2>2. Others(c, task'[c].ids, task[c].ids) /\ task'[c].ids \subseteq task[c].ids
    BY <2>1 DEF DidDeleteCommit, Now, Is
  <2>3. \/ task'[c].op = task[c].op /\ task'[c].ids = task[c].ids /\
             task'[c].moved = task[c].moved
        \/ task'[c].op = "none"
    BY <2>1 DEF DidDeleteCommit, Now, Is
  <2> QED
    BY <2>2, <2>3, <1>g, <1>c, LocksStay
<1>21. ASSUME NEW c \in Clients, DeleteFails(c)
      PROVE  Locks'
  <2>1. DidDeleteFails(c)
    BY <1>21, DeleteFailsDoes
  <2>2. Others(c, task'[c].ids, {}) /\ task'[c].ids \subseteq task[c].ids
    BY <2>1 DEF DidDeleteFails, Now, Is
  <2>3. \/ task'[c].op = task[c].op /\ task'[c].ids = task[c].ids /\
             task'[c].moved = task[c].moved
        \/ task'[c].op = "none"
    BY <2>1 DEF DidDeleteFails, Now, Is
  <2> QED
    BY <2>2, <2>3, <1>g, <1>c, LocksStay
<1>22. ASSUME NEW c \in Clients, NEW i \in Ids, CacheInsert(c, i)
      PROVE  Locks'
  <2>1. DidCacheInsert(c, i)
    BY <1>22, CacheInsertDoes
  <2>2. Others(c, task'[c].ids, {}) /\ task'[c].ids \subseteq task[c].ids
    BY <2>1 DEF DidCacheInsert, Now, Is
  <2>3. \/ task'[c].op = task[c].op /\ task'[c].ids = task[c].ids /\
             task'[c].moved = task[c].moved
        \/ task'[c].op = "none"
    BY <2>1 DEF DidCacheInsert, Now, Is
  <2> QED
    BY <2>2, <2>3, <1>g, <1>c, LocksStay
<1>23. ASSUME NEW c \in Clients, NEW i \in Ids, Tell(c, i)
      PROVE  Locks'
  <2>1. DidTell(c, i)
    BY <1>23, TellDoes
  <2>2. Others(c, task'[c].ids, {}) /\ task'[c].ids \subseteq task[c].ids
    BY <2>1 DEF DidTell, Now, Is
  <2>3. \/ task'[c].op = task[c].op /\ task'[c].ids = task[c].ids /\
             task'[c].moved = task[c].moved
        \/ task'[c].op = "none"
    BY <2>1 DEF DidTell, Now, Is
  <2> QED
    BY <2>2, <2>3, <1>g, <1>c, LocksStay
<1>24. ASSUME NEW c \in Clients, NEW i \in Ids, UpdateShow(c, i)
      PROVE  Locks'
  <2>1. DidUpdateShow(c, i)
    BY <1>24, UpdateShowDoes
  <2>2. Others(c, task'[c].ids, {}) /\ task'[c].ids \subseteq task[c].ids
    BY <2>1 DEF DidUpdateShow, Now, Is
  <2>3. \/ task'[c].op = task[c].op /\ task'[c].ids = task[c].ids /\
             task'[c].moved = task[c].moved
        \/ task'[c].op = "none"
    BY <2>1 DEF DidUpdateShow, Now, Is
  <2> QED
    BY <2>2, <2>3, <1>g, <1>c, LocksStay
<1>25. ASSUME NEW c \in Clients, NEW i \in Ids, DeleteFlex(c, i)
      PROVE  Locks'
  <2>1. DidDeleteFlex(c, i)
    BY <1>25, DeleteFlexDoes
  <2>2. Others(c, task'[c].ids, {}) /\ task'[c].ids \subseteq task[c].ids
    BY <2>1 DEF DidDeleteFlex, Now, Is
  <2>3. \/ task'[c].op = task[c].op /\ task'[c].ids = task[c].ids /\
             task'[c].moved = task[c].moved
        \/ task'[c].op = "none"
    BY <2>1 DEF DidDeleteFlex, Now, Is
  <2> QED
    BY <2>2, <2>3, <1>g, <1>c, LocksStay
<1>26. ASSUME NEW c \in Clients, NEW i \in Ids, DeleteShow(c, i)
      PROVE  Locks'
  <2>1. DidDeleteShow(c, i)
    BY <1>26, DeleteShowDoes
  <2>2. Others(c, task'[c].ids, {}) /\ task'[c].ids \subseteq task[c].ids
    BY <2>1 DEF DidDeleteShow, Now, Is
  <2>3. \/ task'[c].op = task[c].op /\ task'[c].ids = task[c].ids /\
             task'[c].moved = task[c].moved
        \/ task'[c].op = "none"
    BY <2>1 DEF DidDeleteShow, Now, Is
  <2> QED
    BY <2>2, <2>3, <1>g, <1>c, LocksStay
<1>27. ASSUME NEW c \in Clients, FindLocks(c)
      PROVE  Locks'
  <2>1. DidFindLocks(c)
    BY <1>27, FindLocksDoes
  <2>2. Others(c, task'[c].ids, {}) /\ task'[c].ids \subseteq task[c].ids
    BY <2>1 DEF DidFindLocks, Now, Is
  <2>3. \/ task'[c].op = task[c].op /\ task'[c].ids = task[c].ids /\
             task'[c].moved = task[c].moved
        \/ task'[c].op = "none"
    BY <2>1 DEF DidFindLocks, Now, Is
  <2> QED
    BY <2>2, <2>3, <1>g, <1>c, LocksStay
<1>28. ASSUME NEW c \in Clients, LookupCached(c)
      PROVE  Locks'
  <2>1. DidLookupCached(c)
    BY <1>28, LookupCachedDoes
  <2>2. Others(c, task'[c].ids, {}) /\ task'[c].ids \subseteq task[c].ids
    BY <2>1 DEF DidLookupCached, Now, Is
  <2>3. \/ task'[c].op = task[c].op /\ task'[c].ids = task[c].ids /\
             task'[c].moved = task[c].moved
        \/ task'[c].op = "none"
    BY <2>1 DEF DidLookupCached, Now, Is
  <2> QED
    BY <2>2, <2>3, <1>g, <1>c, LocksStay
<1>29. ASSUME NEW c \in Clients, LookupMisses(c)
      PROVE  Locks'
  <2>1. DidLookupMisses(c)
    BY <1>29, LookupMissesDoes
  <2>2. Others(c, task'[c].ids, {}) /\ task'[c].ids \subseteq task[c].ids
    BY <2>1 DEF DidLookupMisses, Now, Is
  <2>3. \/ task'[c].op = task[c].op /\ task'[c].ids = task[c].ids /\
             task'[c].moved = task[c].moved
        \/ task'[c].op = "none"
    BY <2>1 DEF DidLookupMisses, Now, Is
  <2> QED
    BY <2>2, <2>3, <1>g, <1>c, LocksStay
<1>30. ASSUME NEW c \in Clients, NEW page \in SUBSET Ids, Seek(c, page)
      PROVE  Locks'
  <2>1. DidSeek(c, page)
    BY <1>30, SeekDoes
  <2>2. Others(c, task'[c].ids, {}) /\ task'[c].ids \subseteq task[c].ids
    BY <2>1 DEF DidSeek, Now, Is
  <2>3. \/ task'[c].op = task[c].op /\ task'[c].ids = task[c].ids /\
             task'[c].moved = task[c].moved
        \/ task'[c].op = "none"
    BY <2>1 DEF DidSeek, Now, Is
  <2> QED
    BY <2>2, <2>3, <1>g, <1>c, LocksStay
<1>31. ASSUME NEW c \in Clients, Keep(c)
      PROVE  Locks'
  <2>1. DidKeep(c)
    BY <1>31, KeepDoes
  <2>2. Others(c, task'[c].ids, {}) /\ task'[c].ids \subseteq task[c].ids
    BY <2>1 DEF DidKeep, Now, Is
  <2>3. \/ task'[c].op = task[c].op /\ task'[c].ids = task[c].ids /\
             task'[c].moved = task[c].moved
        \/ task'[c].op = "none"
    BY <2>1 DEF DidKeep, Now, Is
  <2> QED
    BY <2>2, <2>3, <1>g, <1>c, LocksStay
<1>32. ASSUME NEW c \in Clients, Scan(c)
      PROVE  Locks'
  <2>1. DidScan(c)
    BY <1>32, ScanDoes
  <2>2. Others(c, task'[c].ids, {}) /\ task'[c].ids \subseteq task[c].ids
    BY <2>1 DEF DidScan, Now, Is
  <2>3. \/ task'[c].op = task[c].op /\ task'[c].ids = task[c].ids /\
             task'[c].moved = task[c].moved
        \/ task'[c].op = "none"
    BY <2>1 DEF DidScan, Now, Is
  <2> QED
    BY <2>2, <2>3, <1>g, <1>c, LocksStay
<1>33. ASSUME NEW c \in Clients, Fetched(c)
      PROVE  Locks'
  <2>1. DidFetched(c)
    BY <1>33, FetchedDoes
  <2>2. Others(c, task'[c].ids, {}) /\ task'[c].ids \subseteq task[c].ids
    BY <2>1 DEF DidFetched, Now, Is
  <2>3. \/ task'[c].op = task[c].op /\ task'[c].ids = task[c].ids /\
             task'[c].moved = task[c].moved
        \/ task'[c].op = "none"
    BY <2>1 DEF DidFetched, Now, Is
  <2> QED
    BY <2>2, <2>3, <1>g, <1>c, LocksStay
<1>34. ASSUME NEW c \in Clients, Return(c)
      PROVE  Locks'
  <2>1. DidReturn(c)
    BY <1>34, ReturnDoes
  <2>2. Others(c, task'[c].ids, {}) /\ task'[c].ids \subseteq task[c].ids
    BY <2>1 DEF DidReturn, Now, Is
  <2>3. \/ task'[c].op = task[c].op /\ task'[c].ids = task[c].ids /\
             task'[c].moved = task[c].moved
        \/ task'[c].op = "none"
    BY <2>1 DEF DidReturn, Now, Is
  <2> QED
    BY <2>2, <2>3, <1>g, <1>c, LocksStay
<1>35. ASSUME NEW c \in Clients, NEW i \in Ids, Fetch(c, i)
      PROVE  Locks'
  <2>1. DidFetch(c, i)
    BY <1>35, FetchDoes
  <2>2. Others(c, task'[c].ids, {}) /\ task'[c].ids \subseteq task[c].ids
    BY <2>1 DEF DidFetch, Now, Is
  <2>3. \/ task'[c].op = task[c].op /\ task'[c].ids = task[c].ids /\
             task'[c].moved = task[c].moved
        \/ task'[c].op = "none"
    BY <2>1 DEF DidFetch, Now, Is
  <2> QED
    BY <2>2, <2>3, <1>g, <1>c, LocksStay
<1>36. ASSUME NEW c \in Clients, NEW i \in Ids, Fill(c, i)
      PROVE  Locks'
  <2>1. DidFill(c, i)
    BY <1>36, FillDoes
  <2>2. Others(c, task'[c].ids, {}) /\ task'[c].ids \subseteq task[c].ids
    BY <2>1 DEF DidFill, Now, Is
  <2>3. \/ task'[c].op = task[c].op /\ task'[c].ids = task[c].ids /\
             task'[c].moved = task[c].moved
        \/ task'[c].op = "none"
    BY <2>1 DEF DidFill, Now, Is
  <2> QED
    BY <2>2, <2>3, <1>g, <1>c, LocksStay
<1>37. ASSUME NEW i \in Ids, EvictL1(i)
      PROVE  Locks'
  <2>1. task' = task
    BY <1>37 DEF EvictL1
  <2> QED
    BY <2>1, <1>g DEF Locks, Excl, Unique, MovedSees, ExcuseGrows, Typed, TypeOK, Task
<1>38. ASSUME NEW v \in Vals, EvictL2(v)
      PROVE  Locks'
  <2>1. task' = task
    BY <1>38 DEF EvictL2
  <2> QED
    BY <2>1, <1>g DEF Locks, Excl, Unique, MovedSees, ExcuseGrows, Typed, TypeOK, Task
<1>39. ASSUME Restart
      PROVE  Locks'
  <2>1. task' = task
    BY <1>39 DEF Restart
  <2> QED
    BY <2>1, <1>g DEF Locks, Excl, Unique, MovedSees, ExcuseGrows, Typed, TypeOK, Task
<1>40. CASE UNCHANGED vars
  BY <1>40 DEF vars, ghosts, Locks, Excl, Unique, MovedSees
<1>41. ASSUME NEW c \in Clients, Start(c)
      PROVE  Locks'
  BY <1>41, <1>1, <1>2, <1>3, <1>4, <1>5, <1>6, <1>7, <1>8 DEF Start
<1>42. ASSUME NEW c \in Clients, WriteStep(c)
      PROVE  Locks'
  BY <1>42, <1>9, <1>10, <1>11, <1>12, <1>13, <1>14, <1>15, <1>16, <1>17, <1>18, <1>19,
     <1>20, <1>21, <1>22, <1>23, <1>24, <1>25, <1>26 DEF WriteStep
<1>43. ASSUME NEW c \in Clients, ReadStep(c)
      PROVE  Locks'
  BY <1>43, <1>27, <1>28, <1>29, <1>30, <1>31, <1>32, <1>33, <1>34, <1>35, <1>36
     DEF ReadStep
<1> QED
  BY <1>37, <1>38, <1>39, <1>40, <1>41, <1>42, <1>43 DEF Next

-----------------------------------------------------------------------------
(* The secondary index, and an update's snapshot *)

(* A step that writes no document and no entry, and builds no index, keeps *)
(* the index covering.                                                     *)
LEMMA IndexStays ==
  ASSUME Typed, IndexCovers, ExcuseGrows, UNCHANGED <<docs, index>>,
         \A c \in Clients : task[c].pc = "index" =>
           task'[c].pc = "index" /\ task'[c].ids = task[c].ids /\ task'[c].put = task[c].put
  PROVE  IndexCovers'
  BY DEF IndexCovers, ExcuseGrows

(* Every step keeps the index covering.                                    *)
LEMMA IndexStep ==
  ASSUME Typed, IndexCovers, [Next]_vars
  PROVE  IndexCovers'
<1>g. ExcuseGrows
  BY GrowsStep
<1>t. /\ docs \in [Ids -> Vals \cup {NoVal}] /\ index \in [Ids -> SUBSET Vals]
      /\ excuse \in [Ids -> SUBSET Causes]
      /\ \A c \in Clients : task[c].ids \subseteq Ids
  BY DEF Typed, TypeOK, Task

<1>1. ASSUME NEW c \in Clients, NEW i \in Ids, NEW v \in Vals, Insert(c, i, v)
      PROVE  IndexCovers'
  <2>1. DidInsert(c, i, v)
    BY <1>1, InsertDoes
  <2>2. \A d \in Clients : task[d].pc = "index" =>
           task'[d].pc = "index" /\ task'[d].ids = task[d].ids /\ task'[d].put = task[d].put
    <3>1. task[c].pc # "index" /\ Others(c, {i}, {i})
      BY <2>1 DEF DidInsert, Idle
    <3> QED
      BY <3>1 DEF Others, SameWork
  <2>3. /\ docs' = [docs EXCEPT ![i] = v] /\ index' = index
        /\ task'[c].pc = "index" /\ i \in task'[c].ids /\ task'[c].put[i] = v
    BY <2>1 DEF DidInsert, Now, Is, NoDocs
  <2>4. ASSUME NEW k \in Ids, docs'[k] # NoVal, "unindexed" \notin excuse'[k]
        PROVE  \/ docs'[k] \in index'[k]
               \/ \E d \in Clients : task'[d].pc = "index" /\ k \in task'[d].ids /\
                    task'[d].put[k] = docs'[k]
    <3>1. CASE k = i
      BY <2>3, <3>1, <1>t
    <3>2. CASE k # i
      BY <2>2, <2>3, <2>4, <3>2, <1>t, <1>g DEF IndexCovers, ExcuseGrows
    <3> QED
      BY <3>1, <3>2
  <2> QED
    BY <2>4 DEF IndexCovers
<1>2. ASSUME NEW c \in Clients, NEW put \in [Ids -> Vals \cup {NoVal}], Batch(c, put)
      PROVE  IndexCovers'
  <2>1. DidBatch(c, put)
    BY <1>2, BatchDoes
  <2>2. UNCHANGED <<docs, index>> /\ task[c].pc # "index"
    BY <2>1 DEF DidBatch, Idle
  <2>3. \A d \in Clients : task[d].pc = "index" =>
           task'[d].pc = "index" /\ task'[d].ids = task[d].ids /\ task'[d].put = task[d].put
    BY <2>1, <2>2 DEF DidBatch, Others, SameWork
  <2> QED
    BY <2>2, <2>3, <1>g, IndexStays
<1>3. ASSUME NEW c \in Clients, NEW v \in Vals, NEW w \in Vals, NEW ids \in SUBSET Ids,
             UpdateStart(c, v, w, ids)
      PROVE  IndexCovers'
  <2>1. DidUpdateStart(c, v, w, ids)
    BY <1>3, UpdateStartDoes
  <2>2. UNCHANGED <<docs, index>> /\ task[c].pc # "index"
    BY <2>1 DEF DidUpdateStart, Idle
  <2>3. \A d \in Clients : task[d].pc = "index" =>
           task'[d].pc = "index" /\ task'[d].ids = task[d].ids /\ task'[d].put = task[d].put
    BY <2>1, <2>2 DEF DidUpdateStart, Others, SameWork
  <2> QED
    BY <2>2, <2>3, <1>g, IndexStays
<1>4. ASSUME NEW c \in Clients, NEW v \in Vals, NEW ids \in SUBSET Ids,
             DeleteStart(c, v, ids)
      PROVE  IndexCovers'
  <2>1. DidDeleteStart(c, v, ids)
    BY <1>4, DeleteStartDoes
  <2>2. UNCHANGED <<docs, index>> /\ task[c].pc # "index"
    BY <2>1 DEF DidDeleteStart, Idle
  <2>3. \A d \in Clients : task[d].pc = "index" =>
           task'[d].pc = "index" /\ task'[d].ids = task[d].ids /\ task'[d].put = task[d].put
    BY <2>1, <2>2 DEF DidDeleteStart, Others, SameWork
  <2> QED
    BY <2>2, <2>3, <1>g, IndexStays
<1>5. ASSUME NEW c \in Clients, NEW i \in Ids, Get(c, i)
      PROVE  IndexCovers'
  <2>1. DidGet(c, i)
    BY <1>5, GetDoes
  <2>2. UNCHANGED <<docs, index>> /\ task[c].pc # "index"
    BY <2>1 DEF DidGet, Idle
  <2>3. \A d \in Clients : task[d].pc = "index" =>
           task'[d].pc = "index" /\ task'[d].ids = task[d].ids /\ task'[d].put = task[d].put
    BY <2>1, <2>2 DEF DidGet, Others, SameWork
  <2> QED
    BY <2>2, <2>3, <1>g, IndexStays
<1>6. ASSUME NEW c \in Clients, NEW v \in Vals, NEW alone \in BOOLEAN, Find(c, v, alone)
      PROVE  IndexCovers'
  <2>1. DidFind(c, v, alone)
    BY <1>6, FindDoes
  <2>2. UNCHANGED <<docs, index>> /\ task[c].pc # "index"
    BY <2>1 DEF DidFind, Idle
  <2>3. \A d \in Clients : task[d].pc = "index" =>
           task'[d].pc = "index" /\ task'[d].ids = task[d].ids /\ task'[d].put = task[d].put
    BY <2>1, <2>2 DEF DidFind, Others, SameWork
  <2> QED
    BY <2>2, <2>3, <1>g, IndexStays
<1>7. ASSUME NEW c \in Clients, NEW v \in Vals, Count(c, v)
      PROVE  IndexCovers'
  <2>1. DidCount(c, v)
    BY <1>7, CountDoes
  <2>2. UNCHANGED <<docs, index>> /\ task[c].pc # "index"
    BY <2>1 DEF DidCount, Idle
  <2>3. \A d \in Clients : task[d].pc = "index" =>
           task'[d].pc = "index" /\ task'[d].ids = task[d].ids /\ task'[d].put = task[d].put
    BY <2>1, <2>2 DEF DidCount, Others, SameWork
  <2> QED
    BY <2>2, <2>3, <1>g, IndexStays
<1>8. ASSUME NEW c \in Clients, Refused(c)
      PROVE  IndexCovers'
  <2>1. task' = task /\ UNCHANGED <<docs, index>>
    BY <1>8 DEF Refused, badgerVars
  <2> QED
    BY <2>1, <1>g, IndexStays
<1>9. ASSUME NEW c \in Clients, InsertIndex(c)
      PROVE  IndexCovers'
  <2>1. DidInsertIndex(c)
    BY <1>9, InsertIndexDoes
  <2>2. ASSUME NEW d \in Clients \ {c}, task[d].pc = "index"
        PROVE  task'[d].pc = "index" /\ task'[d].ids = task[d].ids /\
                 task'[d].put = task[d].put
    BY <2>1, <2>2 DEF DidInsertIndex, Others, SameWork
  <2> QED
    BY <2>1, <2>2, <1>g, <1>t, ExcusedGrows DEF DidInsertIndex, Now, Is, IndexCovers,
       ExcuseGrows, Idle, Stored, Reindexed
<1>10. ASSUME NEW c \in Clients, InsertIndexFails(c)
      PROVE  IndexCovers'
  <2>1. DidInsertIndexFails(c)
    BY <1>10, InsertIndexFailsDoes
  <2>2. ASSUME NEW d \in Clients \ {c}, task[d].pc = "index"
        PROVE  task'[d].pc = "index" /\ task'[d].ids = task[d].ids /\
                 task'[d].put = task[d].put
    BY <2>1, <2>2 DEF DidInsertIndexFails, Others, SameWork
  <2> QED
    BY <2>1, <2>2, <1>g, <1>t, ExcusedGrows DEF DidInsertIndexFails, Now, Is, IndexCovers,
       ExcuseGrows, Idle, Stored, Reindexed
<1>11. ASSUME NEW c \in Clients, BatchFlush(c)
      PROVE  IndexCovers'
  <2>1. DidBatchFlush(c)
    BY <1>11, BatchFlushDoes
  <2>2. ASSUME NEW d \in Clients \ {c}, task[d].pc = "index"
        PROVE  task'[d].pc = "index" /\ task'[d].ids = task[d].ids /\
                 task'[d].put = task[d].put
    BY <2>1, <2>2 DEF DidBatchFlush, Others, SameWork
  <2> QED
    BY <2>1, <2>2, <1>g, <1>t, ExcusedGrows DEF DidBatchFlush, Now, Is, IndexCovers,
       ExcuseGrows, Idle, Stored, Reindexed
<1>12. ASSUME NEW c \in Clients, NEW stored \in SUBSET Ids, BatchFlushFails(c, stored)
      PROVE  IndexCovers'
  <2>1. DidBatchFlushFails(c, stored)
    BY <1>12, BatchFlushFailsDoes
  <2>2. ASSUME NEW d \in Clients \ {c}, task[d].pc = "index"
        PROVE  task'[d].pc = "index" /\ task'[d].ids = task[d].ids /\
                 task'[d].put = task[d].put
    BY <2>1, <2>2 DEF DidBatchFlushFails, Others, SameWork
  <2> QED
    BY <2>1, <2>2, <1>g, <1>t, ExcusedGrows DEF DidBatchFlushFails, Now, Is, IndexCovers,
       ExcuseGrows, Idle, Stored, Reindexed
<1>13. ASSUME NEW c \in Clients, LoadCount(c)
      PROVE  IndexCovers'
  <2>1. DidLoadCount(c)
    BY <1>13, LoadCountDoes
  <2>2. UNCHANGED <<docs, index>> /\ task[c].pc # "index"
    BY <2>1 DEF DidLoadCount, Idle
  <2>3. \A d \in Clients : task[d].pc = "index" =>
           task'[d].pc = "index" /\ task'[d].ids = task[d].ids /\ task'[d].put = task[d].put
    BY <2>1, <2>2 DEF DidLoadCount, Others, SameWork
  <2> QED
    BY <2>2, <2>3, <1>g, IndexStays
<1>14. ASSUME NEW c \in Clients, SaveBegins(c)
      PROVE  IndexCovers'
  <2>1. DidSaveBegins(c)
    BY <1>14, SaveBeginsDoes
  <2>2. UNCHANGED <<docs, index>> /\ task[c].pc # "index"
    BY <2>1 DEF DidSaveBegins, Idle
  <2>3. \A d \in Clients : task[d].pc = "index" =>
           task'[d].pc = "index" /\ task'[d].ids = task[d].ids /\ task'[d].put = task[d].put
    BY <2>1, <2>2 DEF DidSaveBegins, Others, SameWork
  <2> QED
    BY <2>2, <2>3, <1>g, IndexStays
<1>15. ASSUME NEW c \in Clients, SaveCount(c)
      PROVE  IndexCovers'
  <2>1. DidSaveCount(c)
    BY <1>15, SaveCountDoes
  <2>2. UNCHANGED <<docs, index>> /\ task[c].pc # "index"
    BY <2>1 DEF DidSaveCount, Idle
  <2>3. \A d \in Clients : task[d].pc = "index" =>
           task'[d].pc = "index" /\ task'[d].ids = task[d].ids /\ task'[d].put = task[d].put
    BY <2>1, <2>2 DEF DidSaveCount, Others, SameWork
  <2> QED
    BY <2>2, <2>3, <1>g, IndexStays
<1>16. ASSUME NEW c \in Clients, SaveFails(c)
      PROVE  IndexCovers'
  <2>1. DidSaveFails(c)
    BY <1>16, SaveFailsDoes
  <2>2. UNCHANGED <<docs, index>> /\ task[c].pc # "index"
    BY <2>1 DEF DidSaveFails, Idle
  <2>3. \A d \in Clients : task[d].pc = "index" =>
           task'[d].pc = "index" /\ task'[d].ids = task[d].ids /\ task'[d].put = task[d].put
    BY <2>1, <2>2 DEF DidSaveFails, Others, SameWork
  <2> QED
    BY <2>2, <2>3, <1>g, IndexStays
<1>17. ASSUME NEW c \in Clients, UpdateCommit(c)
      PROVE  IndexCovers'
  <2>1. DidUpdateCommit(c)
    BY <1>17, UpdateCommitDoes
  <2>2. ASSUME NEW d \in Clients \ {c}, task[d].pc = "index"
        PROVE  task'[d].pc = "index" /\ task'[d].ids = task[d].ids /\
                 task'[d].put = task[d].put
    BY <2>1, <2>2 DEF DidUpdateCommit, Others, SameWork
  <2> QED
    BY <2>1, <2>2, <1>g, <1>t, ExcusedGrows DEF DidUpdateCommit, Now, Is, IndexCovers,
       ExcuseGrows, Idle, Stored, Reindexed
<1>18. ASSUME NEW c \in Clients, UpdateFails(c)
      PROVE  IndexCovers'
  <2>1. DidUpdateFails(c)
    BY <1>18, UpdateFailsDoes
  <2>2. UNCHANGED <<docs, index>> /\ task[c].pc # "index"
    BY <2>1 DEF DidUpdateFails, Idle
  <2>3. \A d \in Clients : task[d].pc = "index" =>
           task'[d].pc = "index" /\ task'[d].ids = task[d].ids /\ task'[d].put = task[d].put
    BY <2>1, <2>2 DEF DidUpdateFails, Others, SameWork
  <2> QED
    BY <2>2, <2>3, <1>g, IndexStays
<1>19. ASSUME NEW c \in Clients, DeleteFound(c)
      PROVE  IndexCovers'
  <2>1. DidDeleteFound(c)
    BY <1>19, DeleteFoundDoes
  <2>2. UNCHANGED <<docs, index>> /\ task[c].pc # "index"
    BY <2>1 DEF DidDeleteFound, Idle
  <2>3. \A d \in Clients : task[d].pc = "index" =>
           task'[d].pc = "index" /\ task'[d].ids = task[d].ids /\ task'[d].put = task[d].put
    BY <2>1, <2>2 DEF DidDeleteFound, Others, SameWork
  <2> QED
    BY <2>2, <2>3, <1>g, IndexStays
<1>20. ASSUME NEW c \in Clients, DeleteCommit(c)
      PROVE  IndexCovers'
  <2>1. DidDeleteCommit(c)
    BY <1>20, DeleteCommitDoes
  <2>2. ASSUME NEW d \in Clients \ {c}, task[d].pc = "index"
        PROVE  task'[d].pc = "index" /\ task'[d].ids = task[d].ids /\
                 task'[d].put = task[d].put
    BY <2>1, <2>2 DEF DidDeleteCommit, Others, SameWork
  <2> QED
    BY <2>1, <2>2, <1>g, <1>t, ExcusedGrows DEF DidDeleteCommit, Now, Is, IndexCovers,
       ExcuseGrows, Idle, Stored, Reindexed
<1>21. ASSUME NEW c \in Clients, DeleteFails(c)
      PROVE  IndexCovers'
  <2>1. DidDeleteFails(c)
    BY <1>21, DeleteFailsDoes
  <2>2. UNCHANGED <<docs, index>> /\ task[c].pc # "index"
    BY <2>1 DEF DidDeleteFails, Idle
  <2>3. \A d \in Clients : task[d].pc = "index" =>
           task'[d].pc = "index" /\ task'[d].ids = task[d].ids /\ task'[d].put = task[d].put
    BY <2>1, <2>2 DEF DidDeleteFails, Others, SameWork
  <2> QED
    BY <2>2, <2>3, <1>g, IndexStays
<1>22. ASSUME NEW c \in Clients, NEW i \in Ids, CacheInsert(c, i)
      PROVE  IndexCovers'
  <2>1. DidCacheInsert(c, i)
    BY <1>22, CacheInsertDoes
  <2>2. UNCHANGED <<docs, index>> /\ task[c].pc # "index"
    BY <2>1 DEF DidCacheInsert, Idle
  <2>3. \A d \in Clients : task[d].pc = "index" =>
           task'[d].pc = "index" /\ task'[d].ids = task[d].ids /\ task'[d].put = task[d].put
    BY <2>1, <2>2 DEF DidCacheInsert, Others, SameWork
  <2> QED
    BY <2>2, <2>3, <1>g, IndexStays
<1>23. ASSUME NEW c \in Clients, NEW i \in Ids, Tell(c, i)
      PROVE  IndexCovers'
  <2>1. DidTell(c, i)
    BY <1>23, TellDoes
  <2>2. UNCHANGED <<docs, index>> /\ task[c].pc # "index"
    BY <2>1 DEF DidTell, Idle
  <2>3. \A d \in Clients : task[d].pc = "index" =>
           task'[d].pc = "index" /\ task'[d].ids = task[d].ids /\ task'[d].put = task[d].put
    BY <2>1, <2>2 DEF DidTell, Others, SameWork
  <2> QED
    BY <2>2, <2>3, <1>g, IndexStays
<1>24. ASSUME NEW c \in Clients, NEW i \in Ids, UpdateShow(c, i)
      PROVE  IndexCovers'
  <2>1. DidUpdateShow(c, i)
    BY <1>24, UpdateShowDoes
  <2>2. UNCHANGED <<docs, index>> /\ task[c].pc # "index"
    BY <2>1 DEF DidUpdateShow, Idle
  <2>3. \A d \in Clients : task[d].pc = "index" =>
           task'[d].pc = "index" /\ task'[d].ids = task[d].ids /\ task'[d].put = task[d].put
    BY <2>1, <2>2 DEF DidUpdateShow, Others, SameWork
  <2> QED
    BY <2>2, <2>3, <1>g, IndexStays
<1>25. ASSUME NEW c \in Clients, NEW i \in Ids, DeleteFlex(c, i)
      PROVE  IndexCovers'
  <2>1. DidDeleteFlex(c, i)
    BY <1>25, DeleteFlexDoes
  <2>2. UNCHANGED <<docs, index>> /\ task[c].pc # "index"
    BY <2>1 DEF DidDeleteFlex, Idle
  <2>3. \A d \in Clients : task[d].pc = "index" =>
           task'[d].pc = "index" /\ task'[d].ids = task[d].ids /\ task'[d].put = task[d].put
    BY <2>1, <2>2 DEF DidDeleteFlex, Others, SameWork
  <2> QED
    BY <2>2, <2>3, <1>g, IndexStays
<1>26. ASSUME NEW c \in Clients, NEW i \in Ids, DeleteShow(c, i)
      PROVE  IndexCovers'
  <2>1. DidDeleteShow(c, i)
    BY <1>26, DeleteShowDoes
  <2>2. UNCHANGED <<docs, index>> /\ task[c].pc # "index"
    BY <2>1 DEF DidDeleteShow, Idle
  <2>3. \A d \in Clients : task[d].pc = "index" =>
           task'[d].pc = "index" /\ task'[d].ids = task[d].ids /\ task'[d].put = task[d].put
    BY <2>1, <2>2 DEF DidDeleteShow, Others, SameWork
  <2> QED
    BY <2>2, <2>3, <1>g, IndexStays
<1>27. ASSUME NEW c \in Clients, FindLocks(c)
      PROVE  IndexCovers'
  <2>1. DidFindLocks(c)
    BY <1>27, FindLocksDoes
  <2>2. UNCHANGED <<docs, index>> /\ task[c].pc # "index"
    BY <2>1 DEF DidFindLocks, Idle
  <2>3. \A d \in Clients : task[d].pc = "index" =>
           task'[d].pc = "index" /\ task'[d].ids = task[d].ids /\ task'[d].put = task[d].put
    BY <2>1, <2>2 DEF DidFindLocks, Others, SameWork
  <2> QED
    BY <2>2, <2>3, <1>g, IndexStays
<1>28. ASSUME NEW c \in Clients, LookupCached(c)
      PROVE  IndexCovers'
  <2>1. DidLookupCached(c)
    BY <1>28, LookupCachedDoes
  <2>2. UNCHANGED <<docs, index>> /\ task[c].pc # "index"
    BY <2>1 DEF DidLookupCached, Idle
  <2>3. \A d \in Clients : task[d].pc = "index" =>
           task'[d].pc = "index" /\ task'[d].ids = task[d].ids /\ task'[d].put = task[d].put
    BY <2>1, <2>2 DEF DidLookupCached, Others, SameWork
  <2> QED
    BY <2>2, <2>3, <1>g, IndexStays
<1>29. ASSUME NEW c \in Clients, LookupMisses(c)
      PROVE  IndexCovers'
  <2>1. DidLookupMisses(c)
    BY <1>29, LookupMissesDoes
  <2>2. UNCHANGED <<docs, index>> /\ task[c].pc # "index"
    BY <2>1 DEF DidLookupMisses, Idle
  <2>3. \A d \in Clients : task[d].pc = "index" =>
           task'[d].pc = "index" /\ task'[d].ids = task[d].ids /\ task'[d].put = task[d].put
    BY <2>1, <2>2 DEF DidLookupMisses, Others, SameWork
  <2> QED
    BY <2>2, <2>3, <1>g, IndexStays
<1>30. ASSUME NEW c \in Clients, NEW page \in SUBSET Ids, Seek(c, page)
      PROVE  IndexCovers'
  <2>1. DidSeek(c, page)
    BY <1>30, SeekDoes
  <2>2. UNCHANGED <<docs, index>> /\ task[c].pc # "index"
    BY <2>1 DEF DidSeek, Idle
  <2>3. \A d \in Clients : task[d].pc = "index" =>
           task'[d].pc = "index" /\ task'[d].ids = task[d].ids /\ task'[d].put = task[d].put
    BY <2>1, <2>2 DEF DidSeek, Others, SameWork
  <2> QED
    BY <2>2, <2>3, <1>g, IndexStays
<1>31. ASSUME NEW c \in Clients, Keep(c)
      PROVE  IndexCovers'
  <2>1. DidKeep(c)
    BY <1>31, KeepDoes
  <2>2. UNCHANGED <<docs, index>> /\ task[c].pc # "index"
    BY <2>1 DEF DidKeep, Idle
  <2>3. \A d \in Clients : task[d].pc = "index" =>
           task'[d].pc = "index" /\ task'[d].ids = task[d].ids /\ task'[d].put = task[d].put
    BY <2>1, <2>2 DEF DidKeep, Others, SameWork
  <2> QED
    BY <2>2, <2>3, <1>g, IndexStays
<1>32. ASSUME NEW c \in Clients, Scan(c)
      PROVE  IndexCovers'
  <2>1. DidScan(c)
    BY <1>32, ScanDoes
  <2>2. UNCHANGED <<docs, index>> /\ task[c].pc # "index"
    BY <2>1 DEF DidScan, Idle
  <2>3. \A d \in Clients : task[d].pc = "index" =>
           task'[d].pc = "index" /\ task'[d].ids = task[d].ids /\ task'[d].put = task[d].put
    BY <2>1, <2>2 DEF DidScan, Others, SameWork
  <2> QED
    BY <2>2, <2>3, <1>g, IndexStays
<1>33. ASSUME NEW c \in Clients, Fetched(c)
      PROVE  IndexCovers'
  <2>1. DidFetched(c)
    BY <1>33, FetchedDoes
  <2>2. UNCHANGED <<docs, index>> /\ task[c].pc # "index"
    BY <2>1 DEF DidFetched, Idle
  <2>3. \A d \in Clients : task[d].pc = "index" =>
           task'[d].pc = "index" /\ task'[d].ids = task[d].ids /\ task'[d].put = task[d].put
    BY <2>1, <2>2 DEF DidFetched, Others, SameWork
  <2> QED
    BY <2>2, <2>3, <1>g, IndexStays
<1>34. ASSUME NEW c \in Clients, Return(c)
      PROVE  IndexCovers'
  <2>1. DidReturn(c)
    BY <1>34, ReturnDoes
  <2>2. UNCHANGED <<docs, index>> /\ task[c].pc # "index"
    BY <2>1 DEF DidReturn, Idle
  <2>3. \A d \in Clients : task[d].pc = "index" =>
           task'[d].pc = "index" /\ task'[d].ids = task[d].ids /\ task'[d].put = task[d].put
    BY <2>1, <2>2 DEF DidReturn, Others, SameWork
  <2> QED
    BY <2>2, <2>3, <1>g, IndexStays
<1>35. ASSUME NEW c \in Clients, NEW i \in Ids, Fetch(c, i)
      PROVE  IndexCovers'
  <2>1. DidFetch(c, i)
    BY <1>35, FetchDoes
  <2>2. UNCHANGED <<docs, index>> /\ task[c].pc # "index"
    BY <2>1 DEF DidFetch, Idle
  <2>3. \A d \in Clients : task[d].pc = "index" =>
           task'[d].pc = "index" /\ task'[d].ids = task[d].ids /\ task'[d].put = task[d].put
    BY <2>1, <2>2 DEF DidFetch, Others, SameWork
  <2> QED
    BY <2>2, <2>3, <1>g, IndexStays
<1>36. ASSUME NEW c \in Clients, NEW i \in Ids, Fill(c, i)
      PROVE  IndexCovers'
  <2>1. DidFill(c, i)
    BY <1>36, FillDoes
  <2>2. UNCHANGED <<docs, index>> /\ task[c].pc # "index"
    BY <2>1 DEF DidFill, Idle
  <2>3. \A d \in Clients : task[d].pc = "index" =>
           task'[d].pc = "index" /\ task'[d].ids = task[d].ids /\ task'[d].put = task[d].put
    BY <2>1, <2>2 DEF DidFill, Others, SameWork
  <2> QED
    BY <2>2, <2>3, <1>g, IndexStays
<1>37. ASSUME NEW i \in Ids, EvictL1(i)
      PROVE  IndexCovers'
  <2>1. task' = task /\ UNCHANGED <<docs, index>>
    BY <1>37 DEF EvictL1, badgerVars
  <2> QED
    BY <2>1, <1>g, IndexStays
<1>38. ASSUME NEW v \in Vals, EvictL2(v)
      PROVE  IndexCovers'
  <2>1. task' = task /\ UNCHANGED <<docs, index>>
    BY <1>38 DEF EvictL2, badgerVars
  <2> QED
    BY <2>1, <1>g, IndexStays
<1>39. ASSUME Restart
      PROVE  IndexCovers'
  <2>1. task' = task /\ UNCHANGED <<docs, index>>
    BY <1>39 DEF Restart, badgerVars
  <2> QED
    BY <2>1, <1>g, IndexStays
<1>40. CASE UNCHANGED vars
  BY <1>40 DEF vars, ghosts, badgerVars, IndexCovers
<1>41. ASSUME NEW c \in Clients, Start(c)
      PROVE  IndexCovers'
  BY <1>41, <1>1, <1>2, <1>3, <1>4, <1>5, <1>6, <1>7, <1>8 DEF Start
<1>42. ASSUME NEW c \in Clients, WriteStep(c)
      PROVE  IndexCovers'
  BY <1>42, <1>9, <1>10, <1>11, <1>12, <1>13, <1>14, <1>15, <1>16, <1>17, <1>18, <1>19,
     <1>20, <1>21, <1>22, <1>23, <1>24, <1>25, <1>26 DEF WriteStep
<1>43. ASSUME NEW c \in Clients, ReadStep(c)
      PROVE  IndexCovers'
  BY <1>43, <1>27, <1>28, <1>29, <1>30, <1>31, <1>32, <1>33, <1>34, <1>35, <1>36
     DEF ReadStep
<1> QED
  BY <1>37, <1>38, <1>39, <1>40, <1>41, <1>42, <1>43 DEF Next

ReadsFit(t) ==
  t.op = "update" /\ t.pc = "show" =>
    /\ t.ids \subseteq t.reads
    /\ t.torn \/ \A i \in t.ids : docs[i] = t.val

(* Who writes a document that an open update read tears its snapshot.      *)
LEMMA ReadsStay ==
  ASSUME Typed, ReadsHold, NEW c \in Clients, NEW w, NEW ids, Others(c, ids, w),
         \A i \in Ids : docs'[i] # docs[i] => i \in w,
         ReadsFit(task[c])'
  PROVE  ReadsHold'
<1>1. ASSUME NEW d \in Clients \ {c} PROVE ReadsFit(task[d])'
  <2>1. SameWork(task[d], task'[d]) /\ ReadsFit(task[d]) /\ task[d].ids \subseteq Ids
    BY DEF Others, ReadsHold, ReadsFit, Typed, TypeOK, Task
  <2>2. task'[d].torn = (task[d].torn \/
          (task[d].op = "update" /\ task[d].reads \cap w # {}))
    BY DEF Others
  <2> QED
    BY <2>1, <2>2 DEF SameWork, ReadsFit
<1> QED
  BY <1>1 DEF ReadsHold, ReadsFit

(* Every step keeps the snapshots.                                         *)
LEMMA ReadsStep ==
  ASSUME Typed, ReadsHold, [Next]_vars
  PROVE  ReadsHold'
<1>t. docs \in [Ids -> Vals \cup {NoVal}] /\ \A c \in Clients : task[c].ids \subseteq Ids
  BY DEF Typed, TypeOK, Task
<1>r. \A c \in Clients : ReadsFit(task[c])
  BY DEF ReadsHold, ReadsFit

<1>1. ASSUME NEW c \in Clients, NEW i \in Ids, NEW v \in Vals, Insert(c, i, v)
      PROVE  ReadsHold'
  <2>1. DidInsert(c, i, v)
    BY <1>1, InsertDoes
  <2>2. \A k \in Ids : docs'[k] # docs[k] => k \in {i}
    BY <2>1, <1>t DEF DidInsert, Stored
  <2>3. Others(c, task'[c].ids, {i})
    BY <2>1 DEF DidInsert, Now, Is
  <2>4. ReadsFit(task[c])'
    BY <2>1, <1>t, <1>r, PhaseOps, ConstantsAssumption
    DEF DidInsert, Now, Is, ReadsFit, Matching, ConstantsAssumption, Stored, Writers
  <2> QED
    BY <2>2, <2>3, <2>4, ReadsStay
<1>2. ASSUME NEW c \in Clients, NEW put \in [Ids -> Vals \cup {NoVal}], Batch(c, put)
      PROVE  ReadsHold'
  <2>1. DidBatch(c, put)
    BY <1>2, BatchDoes
  <2>2. \A k \in Ids : docs'[k] # docs[k] => k \in {}
    BY <2>1, <1>t DEF DidBatch, Stored
  <2>3. Others(c, task'[c].ids, {})
    BY <2>1 DEF DidBatch, Now, Is
  <2>4. ReadsFit(task[c])'
    BY <2>1, <1>t, <1>r, PhaseOps, ConstantsAssumption
    DEF DidBatch, Now, Is, ReadsFit, Matching, ConstantsAssumption, Stored, Writers
  <2> QED
    BY <2>2, <2>3, <2>4, ReadsStay
<1>3. ASSUME NEW c \in Clients, NEW v \in Vals, NEW w \in Vals, NEW ids \in SUBSET Ids,
             UpdateStart(c, v, w, ids)
      PROVE  ReadsHold'
  <2>1. DidUpdateStart(c, v, w, ids)
    BY <1>3, UpdateStartDoes
  <2>2. \A k \in Ids : docs'[k] # docs[k] => k \in {}
    BY <2>1, <1>t DEF DidUpdateStart, Stored
  <2>3. Others(c, task'[c].ids, {})
    BY <2>1 DEF DidUpdateStart, Now, Is
  <2>4. ReadsFit(task[c])'
    BY <2>1, <1>t, <1>r, PhaseOps, ConstantsAssumption
    DEF DidUpdateStart, Now, Is, ReadsFit, Matching, ConstantsAssumption, Stored, Writers
  <2> QED
    BY <2>2, <2>3, <2>4, ReadsStay
<1>4. ASSUME NEW c \in Clients, NEW v \in Vals, NEW ids \in SUBSET Ids,
             DeleteStart(c, v, ids)
      PROVE  ReadsHold'
  <2>1. DidDeleteStart(c, v, ids)
    BY <1>4, DeleteStartDoes
  <2>2. \A k \in Ids : docs'[k] # docs[k] => k \in {}
    BY <2>1, <1>t DEF DidDeleteStart, Stored
  <2>3. Others(c, task'[c].ids, {})
    BY <2>1 DEF DidDeleteStart, Now, Is
  <2>4. ReadsFit(task[c])'
    BY <2>1, <1>t, <1>r, PhaseOps, ConstantsAssumption
    DEF DidDeleteStart, Now, Is, ReadsFit, Matching, ConstantsAssumption, Stored, Writers
  <2> QED
    BY <2>2, <2>3, <2>4, ReadsStay
<1>5. ASSUME NEW c \in Clients, NEW i \in Ids, Get(c, i)
      PROVE  ReadsHold'
  <2>1. DidGet(c, i)
    BY <1>5, GetDoes
  <2>2. \A k \in Ids : docs'[k] # docs[k] => k \in {}
    BY <2>1, <1>t DEF DidGet, Stored
  <2>3. Others(c, task'[c].ids, {})
    BY <2>1 DEF DidGet, Now, Is
  <2>4. ReadsFit(task[c])'
    BY <2>1, <1>t, <1>r, PhaseOps, ConstantsAssumption
    DEF DidGet, Now, Is, ReadsFit, Matching, ConstantsAssumption, Stored, Writers
  <2> QED
    BY <2>2, <2>3, <2>4, ReadsStay
<1>6. ASSUME NEW c \in Clients, NEW v \in Vals, NEW alone \in BOOLEAN, Find(c, v, alone)
      PROVE  ReadsHold'
  <2>1. DidFind(c, v, alone)
    BY <1>6, FindDoes
  <2>2. \A k \in Ids : docs'[k] # docs[k] => k \in {}
    BY <2>1, <1>t DEF DidFind, Stored
  <2>3. Others(c, task'[c].ids, {})
    BY <2>1 DEF DidFind, Now, Is
  <2>4. ReadsFit(task[c])'
    BY <2>1, <1>t, <1>r, PhaseOps, ConstantsAssumption
    DEF DidFind, Now, Is, ReadsFit, Matching, ConstantsAssumption, Stored, Writers
  <2> QED
    BY <2>2, <2>3, <2>4, ReadsStay
<1>7. ASSUME NEW c \in Clients, NEW v \in Vals, Count(c, v)
      PROVE  ReadsHold'
  <2>1. DidCount(c, v)
    BY <1>7, CountDoes
  <2>2. \A k \in Ids : docs'[k] # docs[k] => k \in {}
    BY <2>1, <1>t DEF DidCount, Stored
  <2>3. Others(c, task'[c].ids, {})
    BY <2>1 DEF DidCount, Now, Is
  <2>4. ReadsFit(task[c])'
    BY <2>1, <1>t, <1>r, PhaseOps, ConstantsAssumption
    DEF DidCount, Now, Is, ReadsFit, Matching, ConstantsAssumption, Stored, Writers
  <2> QED
    BY <2>2, <2>3, <2>4, ReadsStay
<1>8. ASSUME NEW c \in Clients, Refused(c)
      PROVE  ReadsHold'
  <2>1. task' = task /\ UNCHANGED docs
    BY <1>8 DEF Refused, badgerVars
  <2> QED
    BY <2>1 DEF ReadsHold
<1>9. ASSUME NEW c \in Clients, InsertIndex(c)
      PROVE  ReadsHold'
  <2>1. DidInsertIndex(c)
    BY <1>9, InsertIndexDoes
  <2>2. \A k \in Ids : docs'[k] # docs[k] => k \in {}
    BY <2>1, <1>t DEF DidInsertIndex, Stored
  <2>3. Others(c, task'[c].ids, {})
    BY <2>1 DEF DidInsertIndex, Now, Is
  <2>4. ReadsFit(task[c])'
    BY <2>1, <1>t, <1>r, PhaseOps, ConstantsAssumption
    DEF DidInsertIndex, Now, Is, ReadsFit, Matching, ConstantsAssumption, Stored, Writers
  <2> QED
    BY <2>2, <2>3, <2>4, ReadsStay
<1>10. ASSUME NEW c \in Clients, InsertIndexFails(c)
      PROVE  ReadsHold'
  <2>1. DidInsertIndexFails(c)
    BY <1>10, InsertIndexFailsDoes
  <2>2. \A k \in Ids : docs'[k] # docs[k] => k \in {}
    BY <2>1, <1>t DEF DidInsertIndexFails, Stored
  <2>3. Others(c, task'[c].ids, {})
    BY <2>1 DEF DidInsertIndexFails, Now, Is
  <2>4. ReadsFit(task[c])'
    BY <2>1, <1>t, <1>r, PhaseOps, ConstantsAssumption
    DEF DidInsertIndexFails, Now, Is, ReadsFit, Matching, ConstantsAssumption, Stored,
      Writers
  <2> QED
    BY <2>2, <2>3, <2>4, ReadsStay
<1>11. ASSUME NEW c \in Clients, BatchFlush(c)
      PROVE  ReadsHold'
  <2>1. DidBatchFlush(c)
    BY <1>11, BatchFlushDoes
  <2>2. \A k \in Ids : docs'[k] # docs[k] => k \in task[c].ids
    BY <2>1, <1>t DEF DidBatchFlush, Stored
  <2>3. Others(c, task'[c].ids, task[c].ids)
    BY <2>1 DEF DidBatchFlush, Now, Is
  <2>4. ReadsFit(task[c])'
    BY <2>1, <1>t, <1>r, PhaseOps, ConstantsAssumption
    DEF DidBatchFlush, Now, Is, ReadsFit, Matching, ConstantsAssumption, Stored, Writers
  <2> QED
    BY <2>2, <2>3, <2>4, ReadsStay
<1>12. ASSUME NEW c \in Clients, NEW stored \in SUBSET Ids, BatchFlushFails(c, stored)
      PROVE  ReadsHold'
  <2>1. DidBatchFlushFails(c, stored)
    BY <1>12, BatchFlushFailsDoes
  <2>2. \A k \in Ids : docs'[k] # docs[k] => k \in stored
    BY <2>1, <1>t DEF DidBatchFlushFails, Stored
  <2>3. Others(c, task'[c].ids, stored)
    BY <2>1 DEF DidBatchFlushFails, Now, Is
  <2>4. ReadsFit(task[c])'
    BY <2>1, <1>t, <1>r, PhaseOps, ConstantsAssumption
    DEF DidBatchFlushFails, Now, Is, ReadsFit, Matching, ConstantsAssumption, Stored,
      Writers
  <2> QED
    BY <2>2, <2>3, <2>4, ReadsStay
<1>13. ASSUME NEW c \in Clients, LoadCount(c)
      PROVE  ReadsHold'
  <2>1. DidLoadCount(c)
    BY <1>13, LoadCountDoes
  <2>2. \A k \in Ids : docs'[k] # docs[k] => k \in {}
    BY <2>1, <1>t DEF DidLoadCount, Stored
  <2>3. Others(c, task'[c].ids, {})
    BY <2>1 DEF DidLoadCount, Now, Is
  <2>4. ReadsFit(task[c])'
    BY <2>1, <1>t, <1>r, PhaseOps, ConstantsAssumption
    DEF DidLoadCount, Now, Is, ReadsFit, Matching, ConstantsAssumption, Stored, Writers
  <2> QED
    BY <2>2, <2>3, <2>4, ReadsStay
<1>14. ASSUME NEW c \in Clients, SaveBegins(c)
      PROVE  ReadsHold'
  <2>1. DidSaveBegins(c)
    BY <1>14, SaveBeginsDoes
  <2>2. \A k \in Ids : docs'[k] # docs[k] => k \in {}
    BY <2>1, <1>t DEF DidSaveBegins, Stored
  <2>3. Others(c, task'[c].ids, {})
    BY <2>1 DEF DidSaveBegins, Now, Is
  <2>4. ReadsFit(task[c])'
    BY <2>1, <1>t, <1>r, PhaseOps, ConstantsAssumption
    DEF DidSaveBegins, Now, Is, ReadsFit, Matching, ConstantsAssumption, Stored, Writers
  <2> QED
    BY <2>2, <2>3, <2>4, ReadsStay
<1>15. ASSUME NEW c \in Clients, SaveCount(c)
      PROVE  ReadsHold'
  <2>1. DidSaveCount(c)
    BY <1>15, SaveCountDoes
  <2>2. \A k \in Ids : docs'[k] # docs[k] => k \in {}
    BY <2>1, <1>t DEF DidSaveCount, Stored
  <2>3. Others(c, task'[c].ids, {})
    BY <2>1 DEF DidSaveCount, Now, Is
  <2>4. ReadsFit(task[c])'
    BY <2>1, <1>t, <1>r, PhaseOps, ConstantsAssumption
    DEF DidSaveCount, Now, Is, ReadsFit, Matching, ConstantsAssumption, Stored, Writers
  <2> QED
    BY <2>2, <2>3, <2>4, ReadsStay
<1>16. ASSUME NEW c \in Clients, SaveFails(c)
      PROVE  ReadsHold'
  <2>1. DidSaveFails(c)
    BY <1>16, SaveFailsDoes
  <2>2. \A k \in Ids : docs'[k] # docs[k] => k \in {}
    BY <2>1, <1>t DEF DidSaveFails, Stored
  <2>3. Others(c, task'[c].ids, {})
    BY <2>1 DEF DidSaveFails, Now, Is
  <2>4. ReadsFit(task[c])'
    BY <2>1, <1>t, <1>r, PhaseOps, ConstantsAssumption
    DEF DidSaveFails, Now, Is, ReadsFit, Matching, ConstantsAssumption, Stored, Writers
  <2> QED
    BY <2>2, <2>3, <2>4, ReadsStay
<1>17. ASSUME NEW c \in Clients, UpdateCommit(c)
      PROVE  ReadsHold'
  <2>1. DidUpdateCommit(c)
    BY <1>17, UpdateCommitDoes
  <2>2. \A k \in Ids : docs'[k] # docs[k] => k \in task[c].ids
    BY <2>1, <1>t DEF DidUpdateCommit, Stored
  <2>3. Others(c, task'[c].ids, task[c].ids)
    BY <2>1 DEF DidUpdateCommit, Now, Is
  <2>4. ReadsFit(task[c])'
    BY <2>1, <1>t, <1>r, PhaseOps, ConstantsAssumption
    DEF DidUpdateCommit, Now, Is, ReadsFit, Matching, ConstantsAssumption, Stored, Writers
  <2> QED
    BY <2>2, <2>3, <2>4, ReadsStay
<1>18. ASSUME NEW c \in Clients, UpdateFails(c)
      PROVE  ReadsHold'
  <2>1. DidUpdateFails(c)
    BY <1>18, UpdateFailsDoes
  <2>2. \A k \in Ids : docs'[k] # docs[k] => k \in {}
    BY <2>1, <1>t DEF DidUpdateFails, Stored
  <2>3. Others(c, task'[c].ids, {})
    BY <2>1 DEF DidUpdateFails, Now, Is
  <2>4. ReadsFit(task[c])'
    BY <2>1, <1>t, <1>r, PhaseOps, ConstantsAssumption
    DEF DidUpdateFails, Now, Is, ReadsFit, Matching, ConstantsAssumption, Stored, Writers
  <2> QED
    BY <2>2, <2>3, <2>4, ReadsStay
<1>19. ASSUME NEW c \in Clients, DeleteFound(c)
      PROVE  ReadsHold'
  <2>1. DidDeleteFound(c)
    BY <1>19, DeleteFoundDoes
  <2>2. \A k \in Ids : docs'[k] # docs[k] => k \in {}
    BY <2>1, <1>t DEF DidDeleteFound, Stored
  <2>3. Others(c, task'[c].ids, {})
    BY <2>1 DEF DidDeleteFound, Now, Is
  <2>4. ReadsFit(task[c])'
    BY <2>1, <1>t, <1>r, PhaseOps, ConstantsAssumption
    DEF DidDeleteFound, Now, Is, ReadsFit, Matching, ConstantsAssumption, Stored, Writers
  <2> QED
    BY <2>2, <2>3, <2>4, ReadsStay
<1>20. ASSUME NEW c \in Clients, DeleteCommit(c)
      PROVE  ReadsHold'
  <2>1. DidDeleteCommit(c)
    BY <1>20, DeleteCommitDoes
  <2>2. \A k \in Ids : docs'[k] # docs[k] => k \in task[c].ids
    BY <2>1, <1>t DEF DidDeleteCommit, Stored
  <2>3. Others(c, task'[c].ids, task[c].ids)
    BY <2>1 DEF DidDeleteCommit, Now, Is
  <2>4. ReadsFit(task[c])'
    BY <2>1, <1>t, <1>r, PhaseOps, ConstantsAssumption
    DEF DidDeleteCommit, Now, Is, ReadsFit, Matching, ConstantsAssumption, Stored, Writers
  <2> QED
    BY <2>2, <2>3, <2>4, ReadsStay
<1>21. ASSUME NEW c \in Clients, DeleteFails(c)
      PROVE  ReadsHold'
  <2>1. DidDeleteFails(c)
    BY <1>21, DeleteFailsDoes
  <2>2. \A k \in Ids : docs'[k] # docs[k] => k \in {}
    BY <2>1, <1>t DEF DidDeleteFails, Stored
  <2>3. Others(c, task'[c].ids, {})
    BY <2>1 DEF DidDeleteFails, Now, Is
  <2>4. ReadsFit(task[c])'
    BY <2>1, <1>t, <1>r, PhaseOps, ConstantsAssumption
    DEF DidDeleteFails, Now, Is, ReadsFit, Matching, ConstantsAssumption, Stored, Writers
  <2> QED
    BY <2>2, <2>3, <2>4, ReadsStay
<1>22. ASSUME NEW c \in Clients, NEW i \in Ids, CacheInsert(c, i)
      PROVE  ReadsHold'
  <2>1. DidCacheInsert(c, i)
    BY <1>22, CacheInsertDoes
  <2>2. \A k \in Ids : docs'[k] # docs[k] => k \in {}
    BY <2>1, <1>t DEF DidCacheInsert, Stored
  <2>3. Others(c, task'[c].ids, {})
    BY <2>1 DEF DidCacheInsert, Now, Is
  <2>4. ReadsFit(task[c])'
    BY <2>1, <1>t, <1>r, PhaseOps, ConstantsAssumption
    DEF DidCacheInsert, Now, Is, ReadsFit, Matching, ConstantsAssumption, Stored, Writers
  <2> QED
    BY <2>2, <2>3, <2>4, ReadsStay
<1>23. ASSUME NEW c \in Clients, NEW i \in Ids, Tell(c, i)
      PROVE  ReadsHold'
  <2>1. DidTell(c, i)
    BY <1>23, TellDoes
  <2>2. \A k \in Ids : docs'[k] # docs[k] => k \in {}
    BY <2>1, <1>t DEF DidTell, Stored
  <2>3. Others(c, task'[c].ids, {})
    BY <2>1 DEF DidTell, Now, Is
  <2>4. ReadsFit(task[c])'
    BY <2>1, <1>t, <1>r, PhaseOps, ConstantsAssumption
    DEF DidTell, Now, Is, ReadsFit, Matching, ConstantsAssumption, Stored, Writers
  <2> QED
    BY <2>2, <2>3, <2>4, ReadsStay
<1>24. ASSUME NEW c \in Clients, NEW i \in Ids, UpdateShow(c, i)
      PROVE  ReadsHold'
  <2>1. DidUpdateShow(c, i)
    BY <1>24, UpdateShowDoes
  <2>2. \A k \in Ids : docs'[k] # docs[k] => k \in {}
    BY <2>1, <1>t DEF DidUpdateShow, Stored
  <2>3. Others(c, task'[c].ids, {})
    BY <2>1 DEF DidUpdateShow, Now, Is
  <2>4. ReadsFit(task[c])'
    BY <2>1, <1>t, <1>r, PhaseOps, ConstantsAssumption
    DEF DidUpdateShow, Now, Is, ReadsFit, Matching, ConstantsAssumption, Stored, Writers
  <2> QED
    BY <2>2, <2>3, <2>4, ReadsStay
<1>25. ASSUME NEW c \in Clients, NEW i \in Ids, DeleteFlex(c, i)
      PROVE  ReadsHold'
  <2>1. DidDeleteFlex(c, i)
    BY <1>25, DeleteFlexDoes
  <2>2. \A k \in Ids : docs'[k] # docs[k] => k \in {}
    BY <2>1, <1>t DEF DidDeleteFlex, Stored
  <2>3. Others(c, task'[c].ids, {})
    BY <2>1 DEF DidDeleteFlex, Now, Is
  <2>4. ReadsFit(task[c])'
    BY <2>1, <1>t, <1>r, PhaseOps, ConstantsAssumption
    DEF DidDeleteFlex, Now, Is, ReadsFit, Matching, ConstantsAssumption, Stored, Writers
  <2> QED
    BY <2>2, <2>3, <2>4, ReadsStay
<1>26. ASSUME NEW c \in Clients, NEW i \in Ids, DeleteShow(c, i)
      PROVE  ReadsHold'
  <2>1. DidDeleteShow(c, i)
    BY <1>26, DeleteShowDoes
  <2>2. \A k \in Ids : docs'[k] # docs[k] => k \in {}
    BY <2>1, <1>t DEF DidDeleteShow, Stored
  <2>3. Others(c, task'[c].ids, {})
    BY <2>1 DEF DidDeleteShow, Now, Is
  <2>4. ReadsFit(task[c])'
    BY <2>1, <1>t, <1>r, PhaseOps, ConstantsAssumption
    DEF DidDeleteShow, Now, Is, ReadsFit, Matching, ConstantsAssumption, Stored, Writers
  <2> QED
    BY <2>2, <2>3, <2>4, ReadsStay
<1>27. ASSUME NEW c \in Clients, FindLocks(c)
      PROVE  ReadsHold'
  <2>1. DidFindLocks(c)
    BY <1>27, FindLocksDoes
  <2>2. \A k \in Ids : docs'[k] # docs[k] => k \in {}
    BY <2>1, <1>t DEF DidFindLocks, Stored
  <2>3. Others(c, task'[c].ids, {})
    BY <2>1 DEF DidFindLocks, Now, Is
  <2>4. ReadsFit(task[c])'
    BY <2>1, <1>t, <1>r, PhaseOps, ConstantsAssumption
    DEF DidFindLocks, Now, Is, ReadsFit, Matching, ConstantsAssumption, Stored, Writers
  <2> QED
    BY <2>2, <2>3, <2>4, ReadsStay
<1>28. ASSUME NEW c \in Clients, LookupCached(c)
      PROVE  ReadsHold'
  <2>1. DidLookupCached(c)
    BY <1>28, LookupCachedDoes
  <2>2. \A k \in Ids : docs'[k] # docs[k] => k \in {}
    BY <2>1, <1>t DEF DidLookupCached, Stored
  <2>3. Others(c, task'[c].ids, {})
    BY <2>1 DEF DidLookupCached, Now, Is
  <2>4. ReadsFit(task[c])'
    BY <2>1, <1>t, <1>r, PhaseOps, ConstantsAssumption
    DEF DidLookupCached, Now, Is, ReadsFit, Matching, ConstantsAssumption, Stored, Writers
  <2> QED
    BY <2>2, <2>3, <2>4, ReadsStay
<1>29. ASSUME NEW c \in Clients, LookupMisses(c)
      PROVE  ReadsHold'
  <2>1. DidLookupMisses(c)
    BY <1>29, LookupMissesDoes
  <2>2. \A k \in Ids : docs'[k] # docs[k] => k \in {}
    BY <2>1, <1>t DEF DidLookupMisses, Stored
  <2>3. Others(c, task'[c].ids, {})
    BY <2>1 DEF DidLookupMisses, Now, Is
  <2>4. ReadsFit(task[c])'
    BY <2>1, <1>t, <1>r, PhaseOps, ConstantsAssumption
    DEF DidLookupMisses, Now, Is, ReadsFit, Matching, ConstantsAssumption, Stored, Writers
  <2> QED
    BY <2>2, <2>3, <2>4, ReadsStay
<1>30. ASSUME NEW c \in Clients, NEW page \in SUBSET Ids, Seek(c, page)
      PROVE  ReadsHold'
  <2>1. DidSeek(c, page)
    BY <1>30, SeekDoes
  <2>2. \A k \in Ids : docs'[k] # docs[k] => k \in {}
    BY <2>1, <1>t DEF DidSeek, Stored
  <2>3. Others(c, task'[c].ids, {})
    BY <2>1 DEF DidSeek, Now, Is
  <2>4. ReadsFit(task[c])'
    BY <2>1, <1>t, <1>r, PhaseOps, ConstantsAssumption
    DEF DidSeek, Now, Is, ReadsFit, Matching, ConstantsAssumption, Stored, Writers
  <2> QED
    BY <2>2, <2>3, <2>4, ReadsStay
<1>31. ASSUME NEW c \in Clients, Keep(c)
      PROVE  ReadsHold'
  <2>1. DidKeep(c)
    BY <1>31, KeepDoes
  <2>2. \A k \in Ids : docs'[k] # docs[k] => k \in {}
    BY <2>1, <1>t DEF DidKeep, Stored
  <2>3. Others(c, task'[c].ids, {})
    BY <2>1 DEF DidKeep, Now, Is
  <2>4. ReadsFit(task[c])'
    BY <2>1, <1>t, <1>r, PhaseOps, ConstantsAssumption
    DEF DidKeep, Now, Is, ReadsFit, Matching, ConstantsAssumption, Stored, Writers
  <2> QED
    BY <2>2, <2>3, <2>4, ReadsStay
<1>32. ASSUME NEW c \in Clients, Scan(c)
      PROVE  ReadsHold'
  <2>1. DidScan(c)
    BY <1>32, ScanDoes
  <2>2. \A k \in Ids : docs'[k] # docs[k] => k \in {}
    BY <2>1, <1>t DEF DidScan, Stored
  <2>3. Others(c, task'[c].ids, {})
    BY <2>1 DEF DidScan, Now, Is
  <2>4. ReadsFit(task[c])'
    BY <2>1, <1>t, <1>r, PhaseOps, ConstantsAssumption
    DEF DidScan, Now, Is, ReadsFit, Matching, ConstantsAssumption, Stored, Writers
  <2> QED
    BY <2>2, <2>3, <2>4, ReadsStay
<1>33. ASSUME NEW c \in Clients, Fetched(c)
      PROVE  ReadsHold'
  <2>1. DidFetched(c)
    BY <1>33, FetchedDoes
  <2>2. \A k \in Ids : docs'[k] # docs[k] => k \in {}
    BY <2>1, <1>t DEF DidFetched, Stored
  <2>3. Others(c, task'[c].ids, {})
    BY <2>1 DEF DidFetched, Now, Is
  <2>4. ReadsFit(task[c])'
    BY <2>1, <1>t, <1>r, PhaseOps, ConstantsAssumption
    DEF DidFetched, Now, Is, ReadsFit, Matching, ConstantsAssumption, Stored, Writers
  <2> QED
    BY <2>2, <2>3, <2>4, ReadsStay
<1>34. ASSUME NEW c \in Clients, Return(c)
      PROVE  ReadsHold'
  <2>1. DidReturn(c)
    BY <1>34, ReturnDoes
  <2>2. \A k \in Ids : docs'[k] # docs[k] => k \in {}
    BY <2>1, <1>t DEF DidReturn, Stored
  <2>3. Others(c, task'[c].ids, {})
    BY <2>1 DEF DidReturn, Now, Is
  <2>4. ReadsFit(task[c])'
    BY <2>1, <1>t, <1>r, PhaseOps, ConstantsAssumption
    DEF DidReturn, Now, Is, ReadsFit, Matching, ConstantsAssumption, Stored, Writers
  <2> QED
    BY <2>2, <2>3, <2>4, ReadsStay
<1>35. ASSUME NEW c \in Clients, NEW i \in Ids, Fetch(c, i)
      PROVE  ReadsHold'
  <2>1. DidFetch(c, i)
    BY <1>35, FetchDoes
  <2>2. \A k \in Ids : docs'[k] # docs[k] => k \in {}
    BY <2>1, <1>t DEF DidFetch, Stored
  <2>3. Others(c, task'[c].ids, {})
    BY <2>1 DEF DidFetch, Now, Is
  <2>4. ReadsFit(task[c])'
    BY <2>1, <1>t, <1>r, PhaseOps, ConstantsAssumption
    DEF DidFetch, Now, Is, ReadsFit, Matching, ConstantsAssumption, Stored, Writers
  <2> QED
    BY <2>2, <2>3, <2>4, ReadsStay
<1>36. ASSUME NEW c \in Clients, NEW i \in Ids, Fill(c, i)
      PROVE  ReadsHold'
  <2>1. DidFill(c, i)
    BY <1>36, FillDoes
  <2>2. \A k \in Ids : docs'[k] # docs[k] => k \in {}
    BY <2>1, <1>t DEF DidFill, Stored
  <2>3. Others(c, task'[c].ids, {})
    BY <2>1 DEF DidFill, Now, Is
  <2>4. ReadsFit(task[c])'
    BY <2>1, <1>t, <1>r, PhaseOps, ConstantsAssumption
    DEF DidFill, Now, Is, ReadsFit, Matching, ConstantsAssumption, Stored, Writers
  <2> QED
    BY <2>2, <2>3, <2>4, ReadsStay
<1>37. ASSUME NEW i \in Ids, EvictL1(i)
      PROVE  ReadsHold'
  <2>1. task' = task /\ UNCHANGED docs
    BY <1>37 DEF EvictL1, badgerVars
  <2> QED
    BY <2>1 DEF ReadsHold
<1>38. ASSUME NEW v \in Vals, EvictL2(v)
      PROVE  ReadsHold'
  <2>1. task' = task /\ UNCHANGED docs
    BY <1>38 DEF EvictL2, badgerVars
  <2> QED
    BY <2>1 DEF ReadsHold
<1>39. ASSUME Restart
      PROVE  ReadsHold'
  <2>1. task' = task /\ UNCHANGED docs
    BY <1>39 DEF Restart, badgerVars
  <2> QED
    BY <2>1 DEF ReadsHold
<1>40. CASE UNCHANGED vars
  BY <1>40 DEF vars, badgerVars, ReadsHold
<1>41. ASSUME NEW c \in Clients, Start(c)
      PROVE  ReadsHold'
  BY <1>41, <1>1, <1>2, <1>3, <1>4, <1>5, <1>6, <1>7, <1>8 DEF Start
<1>42. ASSUME NEW c \in Clients, WriteStep(c)
      PROVE  ReadsHold'
  BY <1>42, <1>9, <1>10, <1>11, <1>12, <1>13, <1>14, <1>15, <1>16, <1>17, <1>18, <1>19,
     <1>20, <1>21, <1>22, <1>23, <1>24, <1>25, <1>26 DEF WriteStep
<1>43. ASSUME NEW c \in Clients, ReadStep(c)
      PROVE  ReadsHold'
  BY <1>43, <1>27, <1>28, <1>29, <1>30, <1>31, <1>32, <1>33, <1>34, <1>35, <1>36
     DEF ReadStep
<1> QED
  BY <1>37, <1>38, <1>39, <1>40, <1>41, <1>42, <1>43 DEF Next

-----------------------------------------------------------------------------
(* The count *)

Saving(t) == t.pc \in {"save", "write"}

Counts == SavesMeet /\ CountIsFresh

(* A step that is not about the count keeps what is known of it.           *)
LEMMA CountsStay ==
  ASSUME Counts, NEW c \in Clients, NEW ids, NEW w, Others(c, ids, w),
         count' = count, clash' = clash, ~Saving(task'[c])
  PROVE  Counts'
<1>1. \A d \in Clients \ {c} : task'[d].pc = task[d].pc /\ task'[d].base = task[d].base
  BY DEF Others, SameWork
<1> QED
  BY <1>1 DEF Counts, SavesMeet, CountIsFresh, Saving

(* Whoever else is at the file holds other locks.                          *)
LEMMA SavingMeets ==
  ASSUME Typed, Excl, NEW c \in Clients, task[c].pc = "load",
         NEW d \in Clients \ {c}, Saving(task[d])
  PROVE  Meets(c)
<1>1. task[c].op \in Writers
  BY PhaseOps
<1>2. task[c].op = "insert" => task[c].ids # {}
  BY DEF Typed, Shape, WriterShape
<1>3. Holds(task[c]) # {}
  BY <1>1, <1>2 DEF Holds, LockKeys, Writers
<1>4. Holds(task[c]) \cap Holds(task[d]) = {}
  BY DEF Excl
<1>5. Holds(task[d]) # Holds(task[c])
  BY <1>3, <1>4
<1> QED
  BY <1>5 DEF Meets, Saving

(* Every step keeps the counts.                                            *)
LEMMA CountsStep ==
  ASSUME Typed, Excl, Counts, [Next]_vars
  PROVE  Counts'

<1>1. ASSUME NEW c \in Clients, NEW i \in Ids, NEW v \in Vals, Insert(c, i, v)
      PROVE  Counts'
  <2>1. DidInsert(c, i, v)
    BY <1>1, InsertDoes
  <2>2. count' = count /\ clash' = clash /\ ~Saving(task'[c]) /\ \E js, x : Others(c, js, x)
    BY <2>1 DEF DidInsert, Now, Is, Saving
  <2> QED
    BY <2>2, CountsStay
<1>2. ASSUME NEW c \in Clients, NEW put \in [Ids -> Vals \cup {NoVal}], Batch(c, put)
      PROVE  Counts'
  <2>1. DidBatch(c, put)
    BY <1>2, BatchDoes
  <2>2. count' = count /\ clash' = clash /\ ~Saving(task'[c]) /\ \E js, x : Others(c, js, x)
    BY <2>1 DEF DidBatch, Now, Is, Saving
  <2> QED
    BY <2>2, CountsStay
<1>3. ASSUME NEW c \in Clients, NEW v \in Vals, NEW w \in Vals, NEW ids \in SUBSET Ids,
             UpdateStart(c, v, w, ids)
      PROVE  Counts'
  <2>1. DidUpdateStart(c, v, w, ids)
    BY <1>3, UpdateStartDoes
  <2>2. count' = count /\ clash' = clash /\ ~Saving(task'[c]) /\ \E js, x : Others(c, js, x)
    BY <2>1 DEF DidUpdateStart, Now, Is, Saving
  <2> QED
    BY <2>2, CountsStay
<1>4. ASSUME NEW c \in Clients, NEW v \in Vals, NEW ids \in SUBSET Ids,
             DeleteStart(c, v, ids)
      PROVE  Counts'
  <2>1. DidDeleteStart(c, v, ids)
    BY <1>4, DeleteStartDoes
  <2>2. count' = count /\ clash' = clash /\ ~Saving(task'[c]) /\ \E js, x : Others(c, js, x)
    BY <2>1 DEF DidDeleteStart, Now, Is, Saving
  <2> QED
    BY <2>2, CountsStay
<1>5. ASSUME NEW c \in Clients, NEW i \in Ids, Get(c, i)
      PROVE  Counts'
  <2>1. DidGet(c, i)
    BY <1>5, GetDoes
  <2>2. count' = count /\ clash' = clash /\ ~Saving(task'[c]) /\ \E js, x : Others(c, js, x)
    BY <2>1 DEF DidGet, Now, Is, Saving
  <2> QED
    BY <2>2, CountsStay
<1>6. ASSUME NEW c \in Clients, NEW v \in Vals, NEW alone \in BOOLEAN, Find(c, v, alone)
      PROVE  Counts'
  <2>1. DidFind(c, v, alone)
    BY <1>6, FindDoes
  <2>2. count' = count /\ clash' = clash /\ ~Saving(task'[c]) /\ \E js, x : Others(c, js, x)
    BY <2>1 DEF DidFind, Now, Is, Saving
  <2> QED
    BY <2>2, CountsStay
<1>7. ASSUME NEW c \in Clients, NEW v \in Vals, Count(c, v)
      PROVE  Counts'
  <2>1. DidCount(c, v)
    BY <1>7, CountDoes
  <2>2. count' = count /\ clash' = clash /\ ~Saving(task'[c]) /\ \E js, x : Others(c, js, x)
    BY <2>1 DEF DidCount, Now, Is, Saving
  <2> QED
    BY <2>2, CountsStay
<1>8. ASSUME NEW c \in Clients, Refused(c)
      PROVE  Counts'
  <2>1. UNCHANGED <<task, count, clash>>
    BY <1>8 DEF Refused, metaVars, ghosts
  <2> QED
    BY <2>1 DEF Counts, SavesMeet, CountIsFresh
<1>9. ASSUME NEW c \in Clients, InsertIndex(c)
      PROVE  Counts'
  <2>1. DidInsertIndex(c)
    BY <1>9, InsertIndexDoes
  <2>2. count' = count /\ clash' = clash /\ ~Saving(task'[c]) /\ \E js, x : Others(c, js, x)
    BY <2>1 DEF DidInsertIndex, Now, Is, Saving
  <2> QED
    BY <2>2, CountsStay
<1>10. ASSUME NEW c \in Clients, InsertIndexFails(c)
      PROVE  Counts'
  <2>1. DidInsertIndexFails(c)
    BY <1>10, InsertIndexFailsDoes
  <2>2. count' = count /\ clash' = clash /\ ~Saving(task'[c]) /\ \E js, x : Others(c, js, x)
    BY <2>1 DEF DidInsertIndexFails, Now, Is, Saving
  <2> QED
    BY <2>2, CountsStay
<1>11. ASSUME NEW c \in Clients, BatchFlush(c)
      PROVE  Counts'
  <2>1. DidBatchFlush(c)
    BY <1>11, BatchFlushDoes
  <2>2. count' = count /\ clash' = clash /\ ~Saving(task'[c]) /\ \E js, x : Others(c, js, x)
    BY <2>1 DEF DidBatchFlush, Now, Is, Saving
  <2> QED
    BY <2>2, CountsStay
<1>12. ASSUME NEW c \in Clients, NEW stored \in SUBSET Ids, BatchFlushFails(c, stored)
      PROVE  Counts'
  <2>1. DidBatchFlushFails(c, stored)
    BY <1>12, BatchFlushFailsDoes
  <2>2. count' = count /\ clash' = clash /\ ~Saving(task'[c]) /\ \E js, x : Others(c, js, x)
    BY <2>1 DEF DidBatchFlushFails, Now, Is, Saving
  <2> QED
    BY <2>2, CountsStay
<1>13. ASSUME NEW c \in Clients, LoadCount(c)
      PROVE  Counts'
  <2>1. DidLoadCount(c)
    BY <1>13, LoadCountDoes
  <2>2. Others(c, task[c].ids, {}) /\ clash' = (clash \/ Meets(c)) /\ task[c].pc = "load" /\
          task'[c].base = count'
    BY <2>1 DEF DidLoadCount, Now, Is
  <2>3. ASSUME NEW d \in Clients \ {c}, Saving(task'[d]) PROVE clash'
    BY <2>2, <2>3, SavingMeets DEF Others, SameWork, Saving
  <2>4. SavesMeet'
    BY <2>3 DEF SavesMeet, Saving
  <2>5. CountIsFresh'
    BY <2>2, <2>3 DEF CountIsFresh, Saving
  <2> QED
    BY <2>4, <2>5 DEF Counts
<1>14. ASSUME NEW c \in Clients, SaveBegins(c)
      PROVE  Counts'
  <2>1. DidSaveBegins(c)
    BY <1>14, SaveBeginsDoes
  <2>2. \A d \in Clients \ {c} : task'[d].pc = task[d].pc /\ task'[d].base = task[d].base
    BY <2>1 DEF DidSaveBegins, Others, SameWork
  <2>3. Saving(task[c]) /\ clash' = clash /\ task'[c].pc # "save"
    BY <2>1 DEF DidSaveBegins, Now, Is, Saving
  <2>4. task'[c].pc = "write" \/ ~Saving(task'[c])
    BY <2>1 DEF DidSaveBegins, Now, Is, Saving
  <2>5. SavesMeet'
    BY <2>2, <2>3, <2>4 DEF Counts, SavesMeet, Saving
  <2>6. ASSUME NEW d \in Clients, task'[d].pc = "save" PROVE clash' \/
               task'[d].base = count'
    BY <2>2, <2>3, <2>6 DEF Counts, SavesMeet, Saving
  <2> QED
    BY <2>5, <2>6 DEF Counts, CountIsFresh
<1>15. ASSUME NEW c \in Clients, SaveCount(c)
      PROVE  Counts'
  <2>1. DidSaveCount(c)
    BY <1>15, SaveCountDoes
  <2>2. \A d \in Clients \ {c} : task'[d].pc = task[d].pc /\ task'[d].base = task[d].base
    BY <2>1 DEF DidSaveCount, Others, SameWork
  <2>3. Saving(task[c]) /\ clash' = clash /\ task'[c].pc # "save"
    BY <2>1 DEF DidSaveCount, Now, Is, Saving
  <2>4. task'[c].pc = "write" \/ ~Saving(task'[c])
    BY <2>1 DEF DidSaveCount, Now, Is, Saving
  <2>5. SavesMeet'
    BY <2>2, <2>3, <2>4 DEF Counts, SavesMeet, Saving
  <2>6. ASSUME NEW d \in Clients, task'[d].pc = "save" PROVE clash' \/
               task'[d].base = count'
    BY <2>2, <2>3, <2>6 DEF Counts, SavesMeet, Saving
  <2> QED
    BY <2>5, <2>6 DEF Counts, CountIsFresh
<1>16. ASSUME NEW c \in Clients, SaveFails(c)
      PROVE  Counts'
  <2>1. DidSaveFails(c)
    BY <1>16, SaveFailsDoes
  <2>2. count' = count /\ clash' = clash /\ ~Saving(task'[c]) /\ \E js, x : Others(c, js, x)
    BY <2>1 DEF DidSaveFails, Now, Is, Saving
  <2> QED
    BY <2>2, CountsStay
<1>17. ASSUME NEW c \in Clients, UpdateCommit(c)
      PROVE  Counts'
  <2>1. DidUpdateCommit(c)
    BY <1>17, UpdateCommitDoes
  <2>2. count' = count /\ clash' = clash /\ ~Saving(task'[c]) /\ \E js, x : Others(c, js, x)
    BY <2>1 DEF DidUpdateCommit, Now, Is, Saving
  <2> QED
    BY <2>2, CountsStay
<1>18. ASSUME NEW c \in Clients, UpdateFails(c)
      PROVE  Counts'
  <2>1. DidUpdateFails(c)
    BY <1>18, UpdateFailsDoes
  <2>2. count' = count /\ clash' = clash /\ ~Saving(task'[c]) /\ \E js, x : Others(c, js, x)
    BY <2>1 DEF DidUpdateFails, Now, Is, Saving
  <2> QED
    BY <2>2, CountsStay
<1>19. ASSUME NEW c \in Clients, DeleteFound(c)
      PROVE  Counts'
  <2>1. DidDeleteFound(c)
    BY <1>19, DeleteFoundDoes
  <2>2. count' = count /\ clash' = clash /\ ~Saving(task'[c]) /\ \E js, x : Others(c, js, x)
    BY <2>1 DEF DidDeleteFound, Now, Is, Saving
  <2> QED
    BY <2>2, CountsStay
<1>20. ASSUME NEW c \in Clients, DeleteCommit(c)
      PROVE  Counts'
  <2>1. DidDeleteCommit(c)
    BY <1>20, DeleteCommitDoes
  <2>2. count' = count /\ clash' = clash /\ ~Saving(task'[c]) /\ \E js, x : Others(c, js, x)
    BY <2>1 DEF DidDeleteCommit, Now, Is, Saving
  <2> QED
    BY <2>2, CountsStay
<1>21. ASSUME NEW c \in Clients, DeleteFails(c)
      PROVE  Counts'
  <2>1. DidDeleteFails(c)
    BY <1>21, DeleteFailsDoes
  <2>2. count' = count /\ clash' = clash /\ ~Saving(task'[c]) /\ \E js, x : Others(c, js, x)
    BY <2>1 DEF DidDeleteFails, Now, Is, Saving
  <2> QED
    BY <2>2, CountsStay
<1>22. ASSUME NEW c \in Clients, NEW i \in Ids, CacheInsert(c, i)
      PROVE  Counts'
  <2>1. DidCacheInsert(c, i)
    BY <1>22, CacheInsertDoes
  <2>2. count' = count /\ clash' = clash /\ ~Saving(task'[c]) /\ \E js, x : Others(c, js, x)
    BY <2>1 DEF DidCacheInsert, Now, Is, Saving
  <2> QED
    BY <2>2, CountsStay
<1>23. ASSUME NEW c \in Clients, NEW i \in Ids, Tell(c, i)
      PROVE  Counts'
  <2>1. DidTell(c, i)
    BY <1>23, TellDoes
  <2>2. count' = count /\ clash' = clash /\ ~Saving(task'[c]) /\ \E js, x : Others(c, js, x)
    BY <2>1 DEF DidTell, Now, Is, Saving
  <2> QED
    BY <2>2, CountsStay
<1>24. ASSUME NEW c \in Clients, NEW i \in Ids, UpdateShow(c, i)
      PROVE  Counts'
  <2>1. DidUpdateShow(c, i)
    BY <1>24, UpdateShowDoes
  <2>2. count' = count /\ clash' = clash /\ ~Saving(task'[c]) /\ \E js, x : Others(c, js, x)
    BY <2>1 DEF DidUpdateShow, Now, Is, Saving
  <2> QED
    BY <2>2, CountsStay
<1>25. ASSUME NEW c \in Clients, NEW i \in Ids, DeleteFlex(c, i)
      PROVE  Counts'
  <2>1. DidDeleteFlex(c, i)
    BY <1>25, DeleteFlexDoes
  <2>2. count' = count /\ clash' = clash /\ ~Saving(task'[c]) /\ \E js, x : Others(c, js, x)
    BY <2>1 DEF DidDeleteFlex, Now, Is, Saving
  <2> QED
    BY <2>2, CountsStay
<1>26. ASSUME NEW c \in Clients, NEW i \in Ids, DeleteShow(c, i)
      PROVE  Counts'
  <2>1. DidDeleteShow(c, i)
    BY <1>26, DeleteShowDoes
  <2>2. count' = count /\ clash' = clash /\ ~Saving(task'[c]) /\ \E js, x : Others(c, js, x)
    BY <2>1 DEF DidDeleteShow, Now, Is, Saving
  <2> QED
    BY <2>2, CountsStay
<1>27. ASSUME NEW c \in Clients, FindLocks(c)
      PROVE  Counts'
  <2>1. DidFindLocks(c)
    BY <1>27, FindLocksDoes
  <2>2. count' = count /\ clash' = clash /\ ~Saving(task'[c]) /\ \E js, x : Others(c, js, x)
    BY <2>1 DEF DidFindLocks, Now, Is, Saving
  <2> QED
    BY <2>2, CountsStay
<1>28. ASSUME NEW c \in Clients, LookupCached(c)
      PROVE  Counts'
  <2>1. DidLookupCached(c)
    BY <1>28, LookupCachedDoes
  <2>2. count' = count /\ clash' = clash /\ ~Saving(task'[c]) /\ \E js, x : Others(c, js, x)
    BY <2>1 DEF DidLookupCached, Now, Is, Saving
  <2> QED
    BY <2>2, CountsStay
<1>29. ASSUME NEW c \in Clients, LookupMisses(c)
      PROVE  Counts'
  <2>1. DidLookupMisses(c)
    BY <1>29, LookupMissesDoes
  <2>2. count' = count /\ clash' = clash /\ ~Saving(task'[c]) /\ \E js, x : Others(c, js, x)
    BY <2>1 DEF DidLookupMisses, Now, Is, Saving
  <2> QED
    BY <2>2, CountsStay
<1>30. ASSUME NEW c \in Clients, NEW page \in SUBSET Ids, Seek(c, page)
      PROVE  Counts'
  <2>1. DidSeek(c, page)
    BY <1>30, SeekDoes
  <2>2. count' = count /\ clash' = clash /\ ~Saving(task'[c]) /\ \E js, x : Others(c, js, x)
    BY <2>1 DEF DidSeek, Now, Is, Saving
  <2> QED
    BY <2>2, CountsStay
<1>31. ASSUME NEW c \in Clients, Keep(c)
      PROVE  Counts'
  <2>1. DidKeep(c)
    BY <1>31, KeepDoes
  <2>2. count' = count /\ clash' = clash /\ ~Saving(task'[c]) /\ \E js, x : Others(c, js, x)
    BY <2>1 DEF DidKeep, Now, Is, Saving
  <2> QED
    BY <2>2, CountsStay
<1>32. ASSUME NEW c \in Clients, Scan(c)
      PROVE  Counts'
  <2>1. DidScan(c)
    BY <1>32, ScanDoes
  <2>2. count' = count /\ clash' = clash /\ ~Saving(task'[c]) /\ \E js, x : Others(c, js, x)
    BY <2>1 DEF DidScan, Now, Is, Saving
  <2> QED
    BY <2>2, CountsStay
<1>33. ASSUME NEW c \in Clients, Fetched(c)
      PROVE  Counts'
  <2>1. DidFetched(c)
    BY <1>33, FetchedDoes
  <2>2. count' = count /\ clash' = clash /\ ~Saving(task'[c]) /\ \E js, x : Others(c, js, x)
    BY <2>1 DEF DidFetched, Now, Is, Saving
  <2> QED
    BY <2>2, CountsStay
<1>34. ASSUME NEW c \in Clients, Return(c)
      PROVE  Counts'
  <2>1. DidReturn(c)
    BY <1>34, ReturnDoes
  <2>2. count' = count /\ clash' = clash /\ ~Saving(task'[c]) /\ \E js, x : Others(c, js, x)
    BY <2>1 DEF DidReturn, Now, Is, Saving
  <2> QED
    BY <2>2, CountsStay
<1>35. ASSUME NEW c \in Clients, NEW i \in Ids, Fetch(c, i)
      PROVE  Counts'
  <2>1. DidFetch(c, i)
    BY <1>35, FetchDoes
  <2>2. count' = count /\ clash' = clash /\ ~Saving(task'[c]) /\ \E js, x : Others(c, js, x)
    BY <2>1 DEF DidFetch, Now, Is, Saving
  <2> QED
    BY <2>2, CountsStay
<1>36. ASSUME NEW c \in Clients, NEW i \in Ids, Fill(c, i)
      PROVE  Counts'
  <2>1. DidFill(c, i)
    BY <1>36, FillDoes
  <2>2. count' = count /\ clash' = clash /\ ~Saving(task'[c]) /\ \E js, x : Others(c, js, x)
    BY <2>1 DEF DidFill, Now, Is, Saving
  <2> QED
    BY <2>2, CountsStay
<1>37. ASSUME NEW i \in Ids, EvictL1(i)
      PROVE  Counts'
  <2>1. UNCHANGED <<task, count, clash>>
    BY <1>37 DEF EvictL1, metaVars, ghosts
  <2> QED
    BY <2>1 DEF Counts, SavesMeet, CountIsFresh
<1>38. ASSUME NEW v \in Vals, EvictL2(v)
      PROVE  Counts'
  <2>1. UNCHANGED <<task, count, clash>>
    BY <1>38 DEF EvictL2, metaVars, ghosts
  <2> QED
    BY <2>1 DEF Counts, SavesMeet, CountIsFresh
<1>39. ASSUME Restart
      PROVE  Counts'
  <2>1. UNCHANGED <<task, count, clash>>
    BY <1>39 DEF Restart, metaVars, ghosts
  <2> QED
    BY <2>1 DEF Counts, SavesMeet, CountIsFresh
<1>40. CASE UNCHANGED vars
  BY <1>40 DEF vars, ghosts, metaVars, Counts, SavesMeet, CountIsFresh
<1>41. ASSUME NEW c \in Clients, Start(c)
      PROVE  Counts'
  BY <1>41, <1>1, <1>2, <1>3, <1>4, <1>5, <1>6, <1>7, <1>8 DEF Start
<1>42. ASSUME NEW c \in Clients, WriteStep(c)
      PROVE  Counts'
  BY <1>42, <1>9, <1>10, <1>11, <1>12, <1>13, <1>14, <1>15, <1>16, <1>17, <1>18, <1>19,
     <1>20, <1>21, <1>22, <1>23, <1>24, <1>25, <1>26 DEF WriteStep
<1>43. ASSUME NEW c \in Clients, ReadStep(c)
      PROVE  Counts'
  BY <1>43, <1>27, <1>28, <1>29, <1>30, <1>31, <1>32, <1>33, <1>34, <1>35, <1>36
     DEF ReadStep
<1> QED
  BY <1>37, <1>38, <1>39, <1>40, <1>41, <1>42, <1>43 DEF Next

-----------------------------------------------------------------------------
(* The copies of a document *)

(* What DocIs says of a document when one client is alone with it.         *)
OwnStored(t, i) ==
  "crossed" \notin excuse[i] => (Committed(t, i) => docs[i] = t.put[i])

OwnCache(t, i) ==
  excuse[i] \cap {"lateFill", "crossed", "undone"} = {} =>
    /\ Ahead(t, i) => l1[i] \in {NoVal, t.put[i]}
    /\ ~Ahead(t, i) /\ ~Uncached(t, i) => l1[i] \in {NoVal, docs[i]}

OwnFeed(t, i) ==
  excuse[i] \cap {"crossed", "undone"} = {} =>
    /\ ShownEarly(t, i) => feed[i] = t.put[i]
    /\ ~ShownEarly(t, i) /\ ~Untold(t, i) => feed[i] = docs[i]

OwnFlex(t, i) ==
  FlexEnabled /\ excuse[i] \subseteq {"lateFill", "unindexed"} =>
    /\ t.op = "update" /\ ShownEarly(t, i) => flex[i] = {t.put[i]} /\ flexLast[i] = t.put[i]
    /\ Unflexed(t, i) => flex[i] = {} /\ flexLast[i] = NoVal
    /\ Untold(t, i) => \/ flex[i] = {} /\ flexLast[i] = NoVal
                       \/ flex[i] = {t.put[i]} /\ flexLast[i] = t.put[i]
    /\ ~(t.op = "update" /\ ShownEarly(t, i)) /\ ~Unflexed(t, i) /\ ~Untold(t, i)
       => flex[i] = {docs[i]} \ {NoVal} /\ flexLast[i] = docs[i]

Own(t, i) == OwnStored(t, i) /\ OwnCache(t, i) /\ OwnFeed(t, i) /\ OwnFlex(t, i)

(* A task that is not busy with a document has done nothing to it.         *)
LEMMA NotBusy ==
  ASSUME NEW t, WriterShape(t), NEW i, i \notin t.ids
  PROVE  /\ ~Committed(t, i) /\ ~Ahead(t, i) /\ ~Uncached(t, i)
         /\ ~ShownEarly(t, i) /\ ~Unflexed(t, i) /\ ~Untold(t, i)
  BY DEF WriterShape, Writers, Committed, Ahead, Uncached, ShownEarly, Unflexed, Untold

(* Alone with a document, a client knows all there is to know.             *)
LEMMA Solo ==
  ASSUME Shape, NEW c \in Clients, NEW i \in Ids, DocIs(i),
         \A d \in Clients \ {c} : i \notin task[d].ids
  PROVE  Own(task[c], i)
<1>1. \A d \in Clients \ {c} : /\ ~Committed(task[d], i) /\ ~Ahead(task[d], i) /\
                                    ~Uncached(task[d], i)
                               /\ ~ShownEarly(task[d], i) /\ ~Unflexed(task[d], i) /\
                                    ~Untold(task[d], i)
  BY NotBusy DEF Shape
<1>2. OwnStored(task[c], i)
  BY DEF DocIs, StoredIs, OwnStored
<1>3. OwnCache(task[c], i)
  BY <1>1 DEF DocIs, CacheIs, OwnCache
<1>4. OwnFeed(task[c], i)
  BY <1>1 DEF DocIs, FeedIs, OwnFeed
<1>5. OwnFlex(task[c], i)
  BY <1>1 DEF DocIs, FlexIs, OwnFlex
<1> QED
  BY <1>2, <1>3, <1>4, <1>5 DEF Own

(* The same after a step.                                                  *)
LEMMA SoloAfter ==
  ASSUME Shape', NEW c \in Clients, NEW i \in Ids, Own(task[c], i)',
         \A d \in Clients \ {c} : i \notin task'[d].ids
  PROVE  DocIs(i)'
<1>1. \A d \in Clients \ {c} : /\ ~Committed(task'[d], i) /\ ~Ahead(task'[d], i) /\
                                    ~Uncached(task'[d], i)
                               /\ ~ShownEarly(task'[d], i) /\ ~Unflexed(task'[d], i) /\
                                    ~Untold(task'[d], i)
  BY NotBusy DEF Shape
<1>2. StoredIs(i)'
  BY <1>1 DEF Own, StoredIs, OwnStored
<1>3. CacheIs(i)'
  BY <1>1 DEF Own, CacheIs, OwnCache
<1>4. FeedIs(i)'
  BY <1>1 DEF Own, FeedIs, OwnFeed
<1>5. FlexIs(i)'
  BY <1>1 DEF Own, FlexIs, OwnFlex
<1> QED
  BY <1>2, <1>3, <1>4, <1>5 DEF DocIs

(* A step keeps what is known of a document that its client is not busy    *)
(* with, before or after, and that it leaves alone.                        *)
SameDoc(i) ==
  /\ docs'[i] = docs[i] /\ feed'[i] = feed[i] /\ flex'[i] = flex[i] /\
       flexLast'[i] = flexLast[i]

(* A client that stays where it is keeps what is known of a document.      *)
LEMMA SamePlace ==
  ASSUME NEW t, NEW u, SameWork(t, u), NEW i
  PROVE  /\ Committed(u, i) <=> Committed(t, i)
         /\ Ahead(u, i) <=> Ahead(t, i)
         /\ Uncached(u, i) <=> Uncached(t, i)
         /\ ShownEarly(u, i) <=> ShownEarly(t, i)
         /\ Unflexed(u, i) <=> Unflexed(t, i)
         /\ Untold(u, i) <=> Untold(t, i)
         /\ u.put = t.put /\ u.op = t.op
  BY DEF SameWork, Committed, Ahead, Uncached, ShownEarly, Unflexed, Untold

(* The tasks that count for a document, and what is known of them.         *)
LEMMA Aside ==
  ASSUME Shape, Shape', ExcuseGrows, NEW c \in Clients, NEW ids, NEW w, Others(c, ids, w),
         NEW i \in Ids, i \notin task[c].ids, i \notin task'[c].ids, SameDoc(i), DocIs(i),
         l1'[i] = l1[i] \/ CacheIs(i)'
  PROVE  DocIs(i)'
<1>1. \A d \in Clients :
        /\ Committed(task'[d], i) <=> Committed(task[d], i)
        /\ Ahead(task'[d], i) <=> Ahead(task[d], i)
        /\ Uncached(task'[d], i) <=> Uncached(task[d], i)
        /\ ShownEarly(task'[d], i) <=> ShownEarly(task[d], i)
        /\ Unflexed(task'[d], i) <=> Unflexed(task[d], i)
        /\ Untold(task'[d], i) <=> Untold(task[d], i)
  <2>1. CASE ~ \E d \in Clients : d # c
    BY <2>1, NotBusy DEF Shape
  <2>2. ASSUME NEW d \in Clients, d # c PROVE SameWork(task[d], task'[d])
    BY <2>2 DEF Others
  <2> QED
    BY <2>2, SamePlace, NotBusy DEF Shape
<1>2. \A d \in Clients : d # c => task'[d].put = task[d].put /\ task'[d].op = task[d].op
  BY DEF Others, SameWork
<1>3. /\ ~Committed(task[c], i) /\ ~Ahead(task[c], i) /\ ~Uncached(task[c], i)
      /\ ~ShownEarly(task[c], i) /\ ~Unflexed(task[c], i) /\ ~Untold(task[c], i)
  BY NotBusy DEF Shape
<1>4. excuse[i] \subseteq excuse'[i]
  BY DEF ExcuseGrows
<1>5. StoredIs(i)'
  BY <1>1, <1>2, <1>3, <1>4 DEF DocIs, StoredIs, SameDoc
<1>6. CacheIs(i)'
  BY <1>1, <1>2, <1>3, <1>4 DEF DocIs, CacheIs, SameDoc
<1>7. FeedIs(i)'
  BY <1>1, <1>2, <1>3, <1>4 DEF DocIs, FeedIs, SameDoc
<1>8. FlexIs(i)'
  <2>1. CASE ~(FlexEnabled /\ excuse'[i] \subseteq {"lateFill", "unindexed"})
    BY <2>1 DEF FlexIs
  <2>2. CASE FlexEnabled /\ excuse'[i] \subseteq {"lateFill", "unindexed"}
    <3>1. FlexEnabled /\ excuse[i] \subseteq {"lateFill", "unindexed"}
      BY <2>2, <1>4
    <3> QED
      BY <1>1, <1>2, <1>3, <3>1 DEF DocIs, FlexIs, SameDoc
  <2> QED
    BY <2>1, <2>2
<1> QED
  BY <1>5, <1>6, <1>7, <1>8 DEF DocIs

(* A document that is crossed is excused of everything.                    *)
LEMMA CrossedIs ==
  ASSUME NEW i \in Ids, "crossed" \in excuse'[i]
  PROVE  DocIs(i)'
  BY DEF DocIs, StoredIs, CacheIs, FeedIs, FlexIs

(* To show of a step: it keeps what its client knows of its documents, and *)
(* leaves the others.                                                      *)
LEMMA DocsKept ==
  ASSUME Typed, Shape', Locks, Locks', ExcuseGrows, DocsHold,
         NEW c \in Clients, NEW ids, NEW w, Others(c, ids, w),
         \A i \in Ids : i \notin task[c].ids /\ i \notin task'[c].ids =>
                          SameDoc(i) /\ (l1'[i] = l1[i] \/ CacheIs(i)'),
         \A i \in Ids : /\ i \in task[c].ids \/ i \in task'[c].ids
                        /\ Own(task[c], i) /\ "crossed" \notin excuse'[i]
                        => Own(task[c], i)'
  PROVE  DocsHold'
<1> SUFFICES ASSUME NEW i \in Ids
             PROVE  DocIs(i)'
  BY DEF DocsHold
<1>1. Shape /\ DocIs(i)
  BY DEF Typed, DocsHold
<1>2. CASE i \notin task[c].ids /\ i \notin task'[c].ids
  BY <1>1, <1>2, Aside
<1>3. CASE "crossed" \in excuse'[i]
  BY <1>3, CrossedIs
<1>4. CASE (i \in task[c].ids \/ i \in task'[c].ids) /\ "crossed" \notin excuse'[i]
  <2>1. \A d \in Clients \ {c} : task'[d].ids = task[d].ids
    BY DEF Others, SameWork
  <2>2. "crossed" \notin excuse[i]
    BY <1>4 DEF ExcuseGrows
  <2>3. \A d \in Clients \ {c} : i \notin task[d].ids
    BY <1>4, <2>1, <2>2 DEF Locks, Unique
  <2>4. Own(task[c], i)
    BY <1>1, <2>3, Solo
  <2>5. Own(task[c], i)'
    BY <1>4, <2>4
  <2> QED
    BY <2>1, <2>3, <2>5, SoloAfter
<1> QED
  BY <1>2, <1>3, <1>4

(* Every step keeps what is known of the documents.                        *)
LEMMA DocsStep ==
  ASSUME Typed, Locks, DocsHold, [Next]_vars
  PROVE  DocsHold'
<1>g. ExcuseGrows /\ Shape' /\ Locks'
  BY GrowsStep, ShapeStep, LocksStep
<1>h. Shape'
  BY <1>g
<1>t. /\ docs \in [Ids -> Vals \cup {NoVal}] /\ l1 \in [Ids -> Vals \cup {NoVal}]
      /\ flex \in [Ids -> SUBSET Vals] /\ flexLast \in [Ids -> Vals \cup {NoVal}]
      /\ feed \in [Ids -> Vals \cup {NoVal}] /\ excuse \in [Ids -> SUBSET Causes]
      /\ NoVal \notin Vals
  BY ConstantsAssumption DEF Typed, TypeOK, ConstantsAssumption
<1>r. \A c \in Clients : task[c].op \notin Writers => task[c].ids = {}
  BY DEF Typed, Shape, WriterShape
<1>w. \A c \in Clients : WriterShape(task[c])
  BY DEF Typed, Shape

<1>1. ASSUME NEW c \in Clients, NEW i \in Ids, NEW v \in Vals, Insert(c, i, v)
      PROVE  DocsHold'
  <2>1. DidInsert(c, i, v)
    BY <1>1, InsertDoes
  <2>o. task[c] = Idle
    BY <2>1, PhaseOps DEF DidInsert
  <2>s. task'[c].put[i] = v /\ task'[c].ids = {i} /\ task[c].ids = {}
    BY <2>1 DEF DidInsert, Now, Is, NoDocs, Idle
  <2>2. ASSUME NEW k \in Ids, k \notin task[c].ids, k \notin task'[c].ids
        PROVE  SameDoc(k) /\ l1'[k] = l1[k]
    BY <2>1, <2>2, <1>t, <2>s DEF DidInsert, Now, Is, SameDoc
  <2>3. ASSUME NEW k \in Ids, k \in task[c].ids \/ k \in task'[c].ids,
               Own(task[c], k), "crossed" \notin excuse'[k]
        PROVE  Own(task[c], k)'
    <3>1. /\ excuse[k] \subseteq excuse'[k]
          /\ OwnStored(task[c], k) /\ OwnCache(task[c], k) /\ OwnFeed(task[c], k) /\
               OwnFlex(task[c], k)
      BY <1>g, <2>3 DEF ExcuseGrows, Own
    <3>2. OwnStored(task[c], k)'
      BY <2>1, <2>o, <2>3, <3>1, <1>t, <2>s, ExcusedGrows DEF DidInsert, Now, Is,
         OwnStored, Committed, Idle
    <3>3. OwnCache(task[c], k)'
      BY <2>1, <2>o, <2>3, <3>1, <3>2, <1>t, <2>s, ExcusedGrows DEF DidInsert, Now, Is,
         OwnStored, OwnCache, Committed, Ahead, Uncached, Idle, NoDocs
    <3>4. OwnFeed(task[c], k)'
      BY <2>1, <2>o, <2>3, <3>1, <3>2, <1>t, <2>s, ExcusedGrows DEF DidInsert, Now, Is,
         OwnStored, OwnFeed, Committed, ShownEarly, Untold, Idle, NoDocs
    <3>5. OwnFlex(task[c], k)'
      <4>1. k = i /\ docs'[k] = v /\ flex'[k] = flex[k] /\ flexLast'[k] = flexLast[k]
        BY <2>1, <2>3, <2>s, <1>t DEF DidInsert
      <4>2. docs[k] \in {NoVal, v} \/ "overwritten" \in excuse'[k]
        BY <2>1, <4>1, ExcusedGrows DEF DidInsert, Excused
      <4>3. task'[c].op = "insert" /\ task'[c].pc = "index" /\ task'[c].put[k] = v /\
              k \in task'[c].ids
        BY <2>1, <2>s, <4>1 DEF DidInsert, Now, Is
      <4>4. ~Untold(task[c], k) /\ ~ShownEarly(task[c], k) /\ ~Unflexed(task[c], k)
        BY <2>o DEF Idle, Untold, Committed, ShownEarly, Unflexed
      <4> QED
        BY <3>1, <4>1, <4>2, <4>3, <4>4 DEF OwnFlex, Untold, Committed, ShownEarly, Unflexed
    <3> QED
      BY <3>2, <3>3, <3>4, <3>5 DEF Own
  <2>4. Others(c, task'[c].ids, {i})
    BY <2>1 DEF DidInsert, Now, Is
  <2> QED
    BY <2>2, <2>3, <2>4, <1>g, DocsKept
<1>2. ASSUME NEW c \in Clients, NEW put \in [Ids -> Vals \cup {NoVal}], Batch(c, put)
      PROVE  DocsHold'
  <2>1. DidBatch(c, put)
    BY <1>2, BatchDoes
  <2>o. task[c] = Idle
    BY <2>1, PhaseOps DEF DidBatch
  <2>2. ASSUME NEW k \in Ids, k \notin task[c].ids, k \notin task'[c].ids
        PROVE  SameDoc(k) /\ l1'[k] = l1[k]
    BY <2>1, <2>2, <1>t, <1>w DEF DidBatch, Now, Is, SameDoc
  <2>3. ASSUME NEW k \in Ids, k \in task[c].ids \/ k \in task'[c].ids,
               Own(task[c], k), "crossed" \notin excuse'[k]
        PROVE  Own(task[c], k)'
    <3>1. /\ excuse[k] \subseteq excuse'[k]
          /\ OwnStored(task[c], k) /\ OwnCache(task[c], k) /\ OwnFeed(task[c], k) /\
               OwnFlex(task[c], k)
      BY <1>g, <2>3 DEF ExcuseGrows, Own
    <3>2. OwnStored(task[c], k)'
      BY <2>1, <2>o, <2>3, <3>1, <1>t, <1>w, ExcusedGrows DEF DidBatch, Now, Is, OwnStored,
         Committed, Idle
    <3>3. OwnCache(task[c], k)'
      BY <2>1, <2>o, <2>3, <3>1, <3>2, <1>t, <1>w, ExcusedGrows DEF DidBatch, Now, Is,
         OwnStored, OwnCache, Committed, Ahead, Uncached, Idle, NoDocs
    <3>4. OwnFeed(task[c], k)'
      BY <2>1, <2>o, <2>3, <3>1, <3>2, <1>t, <1>w, ExcusedGrows DEF DidBatch, Now, Is,
         OwnStored, OwnFeed, Committed, ShownEarly, Untold, Idle, NoDocs
    <3>5. OwnFlex(task[c], k)'
      BY <2>1, <2>o, <2>3, <3>1, <3>2, <1>t, <1>w, ExcusedGrows DEF DidBatch, Now, Is,
         OwnStored, OwnFlex, Committed, ShownEarly, Untold, Unflexed, Idle, NoDocs
    <3> QED
      BY <3>2, <3>3, <3>4, <3>5 DEF Own
  <2>4. Others(c, task'[c].ids, {})
    BY <2>1 DEF DidBatch, Now, Is
  <2> QED
    BY <2>2, <2>3, <2>4, <1>g, DocsKept
<1>3. ASSUME NEW c \in Clients, NEW v \in Vals, NEW w \in Vals, NEW ids \in SUBSET Ids,
             UpdateStart(c, v, w, ids)
      PROVE  DocsHold'
  <2>1. DidUpdateStart(c, v, w, ids)
    BY <1>3, UpdateStartDoes
  <2>o. task[c] = Idle
    BY <2>1, PhaseOps DEF DidUpdateStart
  <2>2. ASSUME NEW k \in Ids, k \notin task[c].ids, k \notin task'[c].ids
        PROVE  SameDoc(k) /\ l1'[k] = l1[k]
    BY <2>1, <2>2, <1>t, <1>w DEF DidUpdateStart, Now, Is, SameDoc
  <2>3. ASSUME NEW k \in Ids, k \in task[c].ids \/ k \in task'[c].ids,
               Own(task[c], k), "crossed" \notin excuse'[k]
        PROVE  Own(task[c], k)'
    <3>1. /\ excuse[k] \subseteq excuse'[k]
          /\ OwnStored(task[c], k) /\ OwnCache(task[c], k) /\ OwnFeed(task[c], k) /\
               OwnFlex(task[c], k)
      BY <1>g, <2>3 DEF ExcuseGrows, Own
    <3>2. OwnStored(task[c], k)'
      BY <2>1, <2>o, <2>3, <3>1, <1>t, <1>w, ExcusedGrows DEF DidUpdateStart, Now, Is,
         OwnStored, Committed, Idle
    <3>3. OwnCache(task[c], k)'
      BY <2>1, <2>o, <2>3, <3>1, <3>2, <1>t, <1>w, ExcusedGrows DEF DidUpdateStart, Now,
         Is, OwnStored, OwnCache, Committed, Ahead, Uncached, Idle, NoDocs
    <3>4. OwnFeed(task[c], k)'
      BY <2>1, <2>o, <2>3, <3>1, <3>2, <1>t, <1>w, ExcusedGrows DEF DidUpdateStart, Now,
         Is, OwnStored, OwnFeed, Committed, ShownEarly, Untold, Idle, NoDocs
    <3>5. OwnFlex(task[c], k)'
      BY <2>1, <2>o, <2>3, <3>1, <3>2, <1>t, <1>w, ExcusedGrows DEF DidUpdateStart, Now,
         Is, OwnStored, OwnFlex, Committed, ShownEarly, Untold, Unflexed, Idle, NoDocs
    <3> QED
      BY <3>2, <3>3, <3>4, <3>5 DEF Own
  <2>4. Others(c, task'[c].ids, {})
    BY <2>1 DEF DidUpdateStart, Now, Is
  <2> QED
    BY <2>2, <2>3, <2>4, <1>g, DocsKept
<1>4. ASSUME NEW c \in Clients, NEW v \in Vals, NEW ids \in SUBSET Ids,
             DeleteStart(c, v, ids)
      PROVE  DocsHold'
  <2>1. DidDeleteStart(c, v, ids)
    BY <1>4, DeleteStartDoes
  <2>o. task[c] = Idle
    BY <2>1, PhaseOps DEF DidDeleteStart
  <2>2. ASSUME NEW k \in Ids, k \notin task[c].ids, k \notin task'[c].ids
        PROVE  SameDoc(k) /\ l1'[k] = l1[k]
    BY <2>1, <2>2, <1>t, <1>w DEF DidDeleteStart, Now, Is, SameDoc
  <2>3. ASSUME NEW k \in Ids, k \in task[c].ids \/ k \in task'[c].ids,
               Own(task[c], k), "crossed" \notin excuse'[k]
        PROVE  Own(task[c], k)'
    <3>1. /\ excuse[k] \subseteq excuse'[k]
          /\ OwnStored(task[c], k) /\ OwnCache(task[c], k) /\ OwnFeed(task[c], k) /\
               OwnFlex(task[c], k)
      BY <1>g, <2>3 DEF ExcuseGrows, Own
    <3>2. OwnStored(task[c], k)'
      BY <2>1, <2>o, <2>3, <3>1, <1>t, <1>w, ExcusedGrows DEF DidDeleteStart, Now, Is,
         OwnStored, Committed, Idle
    <3>3. OwnCache(task[c], k)'
      BY <2>1, <2>o, <2>3, <3>1, <3>2, <1>t, <1>w, ExcusedGrows DEF DidDeleteStart, Now,
         Is, OwnStored, OwnCache, Committed, Ahead, Uncached, Idle, NoDocs
    <3>4. OwnFeed(task[c], k)'
      BY <2>1, <2>o, <2>3, <3>1, <3>2, <1>t, <1>w, ExcusedGrows DEF DidDeleteStart, Now,
         Is, OwnStored, OwnFeed, Committed, ShownEarly, Untold, Idle, NoDocs
    <3>5. OwnFlex(task[c], k)'
      BY <2>1, <2>o, <2>3, <3>1, <3>2, <1>t, <1>w, ExcusedGrows DEF DidDeleteStart, Now,
         Is, OwnStored, OwnFlex, Committed, ShownEarly, Untold, Unflexed, Idle, NoDocs
    <3> QED
      BY <3>2, <3>3, <3>4, <3>5 DEF Own
  <2>4. Others(c, task'[c].ids, {})
    BY <2>1 DEF DidDeleteStart, Now, Is
  <2> QED
    BY <2>2, <2>3, <2>4, <1>g, DocsKept
<1>5. ASSUME NEW c \in Clients, NEW i \in Ids, Get(c, i)
      PROVE  DocsHold'
  <2>1. DidGet(c, i)
    BY <1>5, GetDoes
  <2>2. task[c].ids = {} /\ task'[c].ids = {} /\ Others(c, {}, {})
    BY <2>1, <1>r, PhaseOps DEF DidGet, Now, Is, Idle, Readers, Writers
  <2>3. \A k \in Ids : SameDoc(k) /\ l1'[k] = l1[k]
    BY <2>1 DEF DidGet, SameDoc
  <2> QED
    BY <2>2, <2>3, <1>g, DocsKept
<1>6. ASSUME NEW c \in Clients, NEW v \in Vals, NEW alone \in BOOLEAN, Find(c, v, alone)
      PROVE  DocsHold'
  <2>1. DidFind(c, v, alone)
    BY <1>6, FindDoes
  <2>2. task[c].ids = {} /\ task'[c].ids = {} /\ Others(c, {}, {})
    BY <2>1, <1>r, PhaseOps DEF DidFind, Now, Is, Idle, Readers, Writers
  <2>3. \A k \in Ids : SameDoc(k) /\ l1'[k] = l1[k]
    BY <2>1 DEF DidFind, SameDoc
  <2> QED
    BY <2>2, <2>3, <1>g, DocsKept
<1>7. ASSUME NEW c \in Clients, NEW v \in Vals, Count(c, v)
      PROVE  DocsHold'
  <2>1. DidCount(c, v)
    BY <1>7, CountDoes
  <2>2. task[c].ids = {} /\ task'[c].ids = {} /\ Others(c, {}, {})
    BY <2>1, <1>r, PhaseOps DEF DidCount, Now, Is, Idle, Readers, Writers
  <2>3. \A k \in Ids : SameDoc(k) /\ l1'[k] = l1[k]
    BY <2>1 DEF DidCount, SameDoc
  <2> QED
    BY <2>2, <2>3, <1>g, DocsKept
<1>8. ASSUME NEW c \in Clients, Refused(c)
      PROVE  DocsHold'
  BY <1>8 DEF Refused, badgerVars, memVars, flexVars, ghosts, DocsHold, DocIs, StoredIs,
     CacheIs, FeedIs, FlexIs
<1>9. ASSUME NEW c \in Clients, InsertIndex(c)
      PROVE  DocsHold'
  <2>1. DidInsertIndex(c)
    BY <1>9, InsertIndexDoes
  <2>o. task[c].op = "insert"
    BY <2>1, PhaseOps DEF DidInsertIndex
  <2>2. ASSUME NEW k \in Ids, k \notin task[c].ids, k \notin task'[c].ids
        PROVE  SameDoc(k) /\ l1'[k] = l1[k]
    BY <2>1, <2>2, <1>t, <1>w DEF DidInsertIndex, Now, Is, SameDoc
  <2>3. ASSUME NEW k \in Ids, k \in task[c].ids \/ k \in task'[c].ids,
               Own(task[c], k), "crossed" \notin excuse'[k]
        PROVE  Own(task[c], k)'
    <3>1. /\ excuse[k] \subseteq excuse'[k]
          /\ OwnStored(task[c], k) /\ OwnCache(task[c], k) /\ OwnFeed(task[c], k) /\
               OwnFlex(task[c], k)
      BY <1>g, <2>3 DEF ExcuseGrows, Own
    <3>2. OwnStored(task[c], k)'
      BY <2>1, <2>o, <2>3, <3>1, <1>t, <1>w, ExcusedGrows DEF DidInsertIndex, Now, Is,
         OwnStored, Committed, Idle
    <3>3. OwnCache(task[c], k)'
      BY <2>1, <2>o, <2>3, <3>1, <3>2, <1>t, <1>w, ExcusedGrows DEF DidInsertIndex, Now,
         Is, OwnStored, OwnCache, Committed, Ahead, Uncached, Idle, NoDocs
    <3>4. OwnFeed(task[c], k)'
      BY <2>1, <2>o, <2>3, <3>1, <3>2, <1>t, <1>w, ExcusedGrows DEF DidInsertIndex, Now,
         Is, OwnStored, OwnFeed, Committed, ShownEarly, Untold, Idle, NoDocs
    <3>5. OwnFlex(task[c], k)'
      BY <2>1, <2>o, <2>3, <3>1, <3>2, <1>t, <1>w, ExcusedGrows DEF DidInsertIndex, Now,
         Is, OwnStored, OwnFlex, Committed, ShownEarly, Untold, Unflexed, Idle, NoDocs
    <3> QED
      BY <3>2, <3>3, <3>4, <3>5 DEF Own
  <2>4. Others(c, task'[c].ids, {})
    BY <2>1 DEF DidInsertIndex, Now, Is
  <2> QED
    BY <2>2, <2>3, <2>4, <1>g, DocsKept
<1>10. ASSUME NEW c \in Clients, InsertIndexFails(c)
      PROVE  DocsHold'
  <2>1. DidInsertIndexFails(c)
    BY <1>10, InsertIndexFailsDoes
  <2>o. task[c].op = "insert"
    BY <2>1, PhaseOps DEF DidInsertIndexFails
  <2>2. ASSUME NEW k \in Ids, k \notin task[c].ids, k \notin task'[c].ids
        PROVE  SameDoc(k) /\ l1'[k] = l1[k]
    BY <2>1, <2>2, <1>t, <1>w DEF DidInsertIndexFails, Now, Is, SameDoc
  <2>3. ASSUME NEW k \in Ids, k \in task[c].ids \/ k \in task'[c].ids,
               Own(task[c], k), "crossed" \notin excuse'[k]
        PROVE  Own(task[c], k)'
    <3>1. /\ excuse[k] \subseteq excuse'[k]
          /\ OwnStored(task[c], k) /\ OwnCache(task[c], k) /\ OwnFeed(task[c], k) /\
               OwnFlex(task[c], k)
      BY <1>g, <2>3 DEF ExcuseGrows, Own
    <3>2. OwnStored(task[c], k)'
      BY <2>1, <2>o, <2>3, <3>1, <1>t, <1>w, ExcusedGrows DEF DidInsertIndexFails, Now, Is,
         OwnStored, Committed, Idle
    <3>3. OwnCache(task[c], k)'
      BY <2>1, <2>o, <2>3, <3>1, <3>2, <1>t, <1>w, ExcusedGrows DEF DidInsertIndexFails,
         Now, Is, OwnStored, OwnCache, Committed, Ahead, Uncached, Idle, NoDocs
    <3>4. OwnFeed(task[c], k)'
      BY <2>1, <2>o, <2>3, <3>1, <3>2, <1>t, <1>w, ExcusedGrows DEF DidInsertIndexFails,
         Now, Is, OwnStored, OwnFeed, Committed, ShownEarly, Untold, Idle, NoDocs
    <3>5. OwnFlex(task[c], k)'
      BY <2>1, <2>o, <2>3, <3>1, <3>2, <1>t, <1>w, ExcusedGrows DEF DidInsertIndexFails,
         Now, Is, OwnStored, OwnFlex, Committed, ShownEarly, Untold, Unflexed, Idle, NoDocs
    <3> QED
      BY <3>2, <3>3, <3>4, <3>5 DEF Own
  <2>4. Others(c, task'[c].ids, {})
    BY <2>1 DEF DidInsertIndexFails, Now, Is
  <2> QED
    BY <2>2, <2>3, <2>4, <1>g, DocsKept
<1>11. ASSUME NEW c \in Clients, BatchFlush(c)
      PROVE  DocsHold'
  <2>1. DidBatchFlush(c)
    BY <1>11, BatchFlushDoes
  <2>o. task[c].op = "batch"
    BY <2>1, PhaseOps DEF DidBatchFlush
  <2>s. task[c].todo = {}
    BY <2>1, <2>o, <1>w DEF DidBatchFlush, WriterShape, Writers
  <2>2. ASSUME NEW k \in Ids, k \notin task[c].ids, k \notin task'[c].ids
        PROVE  SameDoc(k) /\ l1'[k] = l1[k]
    BY <2>1, <2>2, <1>t, <2>s DEF DidBatchFlush, Now, Is, SameDoc, Stored, Replaces
  <2>3. ASSUME NEW k \in Ids, k \in task[c].ids \/ k \in task'[c].ids,
               Own(task[c], k), "crossed" \notin excuse'[k]
        PROVE  Own(task[c], k)'
    <3>1. /\ excuse[k] \subseteq excuse'[k]
          /\ OwnStored(task[c], k) /\ OwnCache(task[c], k) /\ OwnFeed(task[c], k) /\
               OwnFlex(task[c], k)
      BY <1>g, <2>3 DEF ExcuseGrows, Own
    <3>2. OwnStored(task[c], k)'
      BY <2>1, <2>o, <2>3, <3>1, <1>t, <2>s, ExcusedGrows DEF DidBatchFlush, Now, Is,
         OwnStored, Committed, Stored, Replaces, Idle
    <3>3. OwnCache(task[c], k)'
      BY <2>1, <2>o, <2>3, <3>1, <3>2, <1>t, <2>s, ExcusedGrows DEF DidBatchFlush, Now, Is,
         OwnStored, OwnCache, Committed, Ahead, Uncached, Stored, Replaces, Idle, NoDocs
    <3>4. OwnFeed(task[c], k)'
      BY <2>1, <2>o, <2>3, <3>1, <3>2, <1>t, <2>s, ExcusedGrows DEF DidBatchFlush, Now, Is,
         OwnStored, OwnFeed, Committed, ShownEarly, Untold, Stored, Replaces, Idle, NoDocs
    <3>5. OwnFlex(task[c], k)'
      BY <2>1, <2>o, <2>3, <3>1, <3>2, <1>t, <2>s, ExcusedGrows DEF DidBatchFlush, Now, Is,
         OwnStored, OwnFlex, Committed, ShownEarly, Untold, Unflexed, Stored, Replaces,
         Idle, NoDocs
    <3> QED
      BY <3>2, <3>3, <3>4, <3>5 DEF Own
  <2>4. Others(c, task'[c].ids, task[c].ids)
    BY <2>1 DEF DidBatchFlush, Now, Is
  <2> QED
    BY <2>2, <2>3, <2>4, <1>g, DocsKept
<1>12. ASSUME NEW c \in Clients, NEW stored \in SUBSET Ids, BatchFlushFails(c, stored)
      PROVE  DocsHold'
  <2>1. DidBatchFlushFails(c, stored)
    BY <1>12, BatchFlushFailsDoes
  <2>o. task[c].op = "batch"
    BY <2>1, PhaseOps DEF DidBatchFlushFails
  <2>2. ASSUME NEW k \in Ids, k \notin task[c].ids, k \notin task'[c].ids
        PROVE  SameDoc(k) /\ l1'[k] = l1[k]
    BY <2>1, <2>2, <1>t, <1>w DEF DidBatchFlushFails, Now, Is, SameDoc, Stored
  <2>3. ASSUME NEW k \in Ids, k \in task[c].ids \/ k \in task'[c].ids,
               Own(task[c], k), "crossed" \notin excuse'[k]
        PROVE  Own(task[c], k)'
    <3>1. /\ excuse[k] \subseteq excuse'[k]
          /\ OwnStored(task[c], k) /\ OwnCache(task[c], k) /\ OwnFeed(task[c], k) /\
               OwnFlex(task[c], k)
      BY <1>g, <2>3 DEF ExcuseGrows, Own
    <3>2. OwnStored(task[c], k)'
      BY <2>1, <2>o, <2>3, <3>1, <1>t, <1>w, ExcusedGrows DEF DidBatchFlushFails, Now, Is,
         OwnStored, Committed, Stored, Idle
    <3>3. OwnCache(task[c], k)'
      BY <2>1, <2>o, <2>3, <3>1, <3>2, <1>t, <1>w, ExcusedGrows DEF DidBatchFlushFails,
         Now, Is, OwnStored, OwnCache, Committed, Ahead, Uncached, Stored, Idle, NoDocs
    <3>4. OwnFeed(task[c], k)'
      BY <2>1, <2>o, <2>3, <3>1, <3>2, <1>t, <1>w, ExcusedGrows DEF DidBatchFlushFails,
         Now, Is, OwnStored, OwnFeed, Committed, ShownEarly, Untold, Stored, Idle, NoDocs
    <3>5. OwnFlex(task[c], k)'
      BY <2>1, <2>o, <2>3, <3>1, <3>2, <1>t, <1>w, ExcusedGrows DEF DidBatchFlushFails,
         Now, Is, OwnStored, OwnFlex, Committed, ShownEarly, Untold, Unflexed, Stored,
         Idle, NoDocs
    <3> QED
      BY <3>2, <3>3, <3>4, <3>5 DEF Own
  <2>4. Others(c, task'[c].ids, stored)
    BY <2>1 DEF DidBatchFlushFails, Now, Is
  <2> QED
    BY <2>2, <2>3, <2>4, <1>g, DocsKept
<1>13. ASSUME NEW c \in Clients, LoadCount(c)
      PROVE  DocsHold'
  <2>1. DidLoadCount(c)
    BY <1>13, LoadCountDoes
  <2>o. task[c].op \in Writers
    BY <2>1, PhaseOps DEF DidLoadCount
  <2>2. ASSUME NEW k \in Ids, k \notin task[c].ids, k \notin task'[c].ids
        PROVE  SameDoc(k) /\ l1'[k] = l1[k]
    BY <2>1, <2>2, <1>t, <1>w DEF DidLoadCount, Now, Is, SameDoc
  <2>3. ASSUME NEW k \in Ids, k \in task[c].ids \/ k \in task'[c].ids,
               Own(task[c], k), "crossed" \notin excuse'[k]
        PROVE  Own(task[c], k)'
    <3>1. /\ excuse[k] \subseteq excuse'[k]
          /\ OwnStored(task[c], k) /\ OwnCache(task[c], k) /\ OwnFeed(task[c], k) /\
               OwnFlex(task[c], k)
      BY <1>g, <2>3 DEF ExcuseGrows, Own
    <3>2. OwnStored(task[c], k)'
      BY <2>1, <2>o, <2>3, <3>1, <1>t, <1>w, ExcusedGrows DEF DidLoadCount, Now, Is,
         OwnStored, Committed, Idle
    <3>3. OwnCache(task[c], k)'
      BY <2>1, <2>o, <2>3, <3>1, <3>2, <1>t, <1>w, ExcusedGrows DEF DidLoadCount, Now, Is,
         OwnStored, OwnCache, Committed, Ahead, Uncached, Idle, NoDocs
    <3>4. OwnFeed(task[c], k)'
      BY <2>1, <2>o, <2>3, <3>1, <3>2, <1>t, <1>w, ExcusedGrows DEF DidLoadCount, Now, Is,
         OwnStored, OwnFeed, Committed, ShownEarly, Untold, Idle, NoDocs
    <3>5. OwnFlex(task[c], k)'
      BY <2>1, <2>o, <2>3, <3>1, <3>2, <1>t, <1>w, ExcusedGrows DEF DidLoadCount, Now, Is,
         OwnStored, OwnFlex, Committed, ShownEarly, Untold, Unflexed, Idle, NoDocs
    <3> QED
      BY <3>2, <3>3, <3>4, <3>5 DEF Own
  <2>4. Others(c, task'[c].ids, {})
    BY <2>1 DEF DidLoadCount, Now, Is
  <2> QED
    BY <2>2, <2>3, <2>4, <1>g, DocsKept
<1>14. ASSUME NEW c \in Clients, SaveBegins(c)
      PROVE  DocsHold'
  <2>1. DidSaveBegins(c)
    BY <1>14, SaveBeginsDoes
  <2>o. task[c].op \in Writers
    BY <2>1, PhaseOps DEF DidSaveBegins
  <2>2. ASSUME NEW k \in Ids, k \notin task[c].ids, k \notin task'[c].ids
        PROVE  SameDoc(k) /\ l1'[k] = l1[k]
    BY <2>1, <2>2, <1>t, <1>w DEF DidSaveBegins, Now, Is, SameDoc
  <2>3. ASSUME NEW k \in Ids, k \in task[c].ids \/ k \in task'[c].ids,
               Own(task[c], k), "crossed" \notin excuse'[k]
        PROVE  Own(task[c], k)'
    <3>1. /\ excuse[k] \subseteq excuse'[k]
          /\ OwnStored(task[c], k) /\ OwnCache(task[c], k) /\ OwnFeed(task[c], k) /\
               OwnFlex(task[c], k)
      BY <1>g, <2>3 DEF ExcuseGrows, Own
    <3>2. OwnStored(task[c], k)'
      BY <2>1, <2>o, <2>3, <3>1, <1>t, <1>w, ExcusedGrows DEF DidSaveBegins, Now, Is,
         OwnStored, Committed, Idle
    <3>3. OwnCache(task[c], k)'
      BY <2>1, <2>o, <2>3, <3>1, <3>2, <1>t, <1>w, ExcusedGrows DEF DidSaveBegins, Now, Is,
         OwnStored, OwnCache, Committed, Ahead, Uncached, Idle, NoDocs
    <3>4. OwnFeed(task[c], k)'
      BY <2>1, <2>o, <2>3, <3>1, <3>2, <1>t, <1>w, ExcusedGrows DEF DidSaveBegins, Now, Is,
         OwnStored, OwnFeed, Committed, ShownEarly, Untold, Idle, NoDocs
    <3>5. OwnFlex(task[c], k)'
      BY <2>1, <2>o, <2>3, <3>1, <3>2, <1>t, <1>w, ExcusedGrows DEF DidSaveBegins, Now, Is,
         OwnStored, OwnFlex, Committed, ShownEarly, Untold, Unflexed, Idle, NoDocs
    <3> QED
      BY <3>2, <3>3, <3>4, <3>5 DEF Own
  <2>4. Others(c, task'[c].ids, {})
    BY <2>1 DEF DidSaveBegins, Now, Is
  <2> QED
    BY <2>2, <2>3, <2>4, <1>g, DocsKept
<1>15. ASSUME NEW c \in Clients, SaveCount(c)
      PROVE  DocsHold'
  <2>1. DidSaveCount(c)
    BY <1>15, SaveCountDoes
  <2>o. task[c].op \in Writers
    BY <2>1, PhaseOps DEF DidSaveCount
  <2>2. ASSUME NEW k \in Ids, k \notin task[c].ids, k \notin task'[c].ids
        PROVE  SameDoc(k) /\ l1'[k] = l1[k]
    BY <2>1, <2>2, <1>t, <1>w DEF DidSaveCount, Now, Is, SameDoc
  <2>3. ASSUME NEW k \in Ids, k \in task[c].ids \/ k \in task'[c].ids,
               Own(task[c], k), "crossed" \notin excuse'[k]
        PROVE  Own(task[c], k)'
    <3>1. /\ excuse[k] \subseteq excuse'[k]
          /\ OwnStored(task[c], k) /\ OwnCache(task[c], k) /\ OwnFeed(task[c], k) /\
               OwnFlex(task[c], k)
      BY <1>g, <2>3 DEF ExcuseGrows, Own
    <3>2. OwnStored(task[c], k)'
      BY <2>1, <2>o, <2>3, <3>1, <1>t, <1>w, ExcusedGrows DEF DidSaveCount, Now, Is,
         OwnStored, Committed, Idle
    <3>3. OwnCache(task[c], k)'
      BY <2>1, <2>o, <2>3, <3>1, <3>2, <1>t, <1>w, ExcusedGrows DEF DidSaveCount, Now, Is,
         OwnStored, OwnCache, Committed, Ahead, Uncached, Idle, NoDocs
    <3>4. OwnFeed(task[c], k)'
      BY <2>1, <2>o, <2>3, <3>1, <3>2, <1>t, <1>w, ExcusedGrows DEF DidSaveCount, Now, Is,
         OwnStored, OwnFeed, Committed, ShownEarly, Untold, Idle, NoDocs
    <3>5. OwnFlex(task[c], k)'
      BY <2>1, <2>o, <2>3, <3>1, <3>2, <1>t, <1>w, ExcusedGrows DEF DidSaveCount, Now, Is,
         OwnStored, OwnFlex, Committed, ShownEarly, Untold, Unflexed, Idle, NoDocs
    <3> QED
      BY <3>2, <3>3, <3>4, <3>5 DEF Own
  <2>4. Others(c, task'[c].ids, {})
    BY <2>1 DEF DidSaveCount, Now, Is
  <2> QED
    BY <2>2, <2>3, <2>4, <1>g, DocsKept
<1>16. ASSUME NEW c \in Clients, SaveFails(c)
      PROVE  DocsHold'
  <2>1. DidSaveFails(c)
    BY <1>16, SaveFailsDoes
  <2>o. task[c].op \in Writers
    BY <2>1, PhaseOps DEF DidSaveFails
  <2>2. ASSUME NEW k \in Ids, k \notin task[c].ids, k \notin task'[c].ids
        PROVE  SameDoc(k) /\ l1'[k] = l1[k]
    BY <2>1, <2>2, <1>t, <1>w DEF DidSaveFails, Now, Is, SameDoc
  <2>3. ASSUME NEW k \in Ids, k \in task[c].ids \/ k \in task'[c].ids,
               Own(task[c], k), "crossed" \notin excuse'[k]
        PROVE  Own(task[c], k)'
    <3>1. /\ excuse[k] \subseteq excuse'[k]
          /\ OwnStored(task[c], k) /\ OwnCache(task[c], k) /\ OwnFeed(task[c], k) /\
               OwnFlex(task[c], k)
      BY <1>g, <2>3 DEF ExcuseGrows, Own
    <3>2. OwnStored(task[c], k)'
      BY <2>1, <2>o, <2>3, <3>1, <1>t, <1>w, ExcusedGrows DEF DidSaveFails, Now, Is,
         OwnStored, Committed, Idle
    <3>3. OwnCache(task[c], k)'
      BY <2>1, <2>o, <2>3, <3>1, <3>2, <1>t, <1>w, ExcusedGrows DEF DidSaveFails, Now, Is,
         OwnStored, OwnCache, Committed, Ahead, Uncached, Idle, NoDocs
    <3>4. OwnFeed(task[c], k)'
      BY <2>1, <2>o, <2>3, <3>1, <3>2, <1>t, <1>w, ExcusedGrows DEF DidSaveFails, Now, Is,
         OwnStored, OwnFeed, Committed, ShownEarly, Untold, Idle, NoDocs
    <3>5. OwnFlex(task[c], k)'
      BY <2>1, <2>o, <2>3, <3>1, <3>2, <1>t, <1>w, ExcusedGrows DEF DidSaveFails, Now, Is,
         OwnStored, OwnFlex, Committed, ShownEarly, Untold, Unflexed, Idle, NoDocs
    <3> QED
      BY <3>2, <3>3, <3>4, <3>5 DEF Own
  <2>4. Others(c, task'[c].ids, {})
    BY <2>1 DEF DidSaveFails, Now, Is
  <2> QED
    BY <2>2, <2>3, <2>4, <1>g, DocsKept
<1>17. ASSUME NEW c \in Clients, UpdateCommit(c)
      PROVE  DocsHold'
  <2>1. DidUpdateCommit(c)
    BY <1>17, UpdateCommitDoes
  <2>o. task[c].op \in {"update", "delete"}
    BY <2>1, PhaseOps DEF DidUpdateCommit
  <2>s. task[c].shown = task[c].ids /\ \A j \in task[c].ids : task[c].put[j] \in Vals
    BY <2>1, <2>o, <1>w DEF DidUpdateCommit, WriterShape, Writers
  <2>2. ASSUME NEW k \in Ids, k \notin task[c].ids, k \notin task'[c].ids
        PROVE  SameDoc(k) /\ l1'[k] = l1[k]
    BY <2>1, <2>2, <1>t, <2>s DEF DidUpdateCommit, Now, Is, SameDoc
  <2>3. ASSUME NEW k \in Ids, k \in task[c].ids \/ k \in task'[c].ids,
               Own(task[c], k), "crossed" \notin excuse'[k]
        PROVE  Own(task[c], k)'
    <3>1. /\ excuse[k] \subseteq excuse'[k]
          /\ OwnStored(task[c], k) /\ OwnCache(task[c], k) /\ OwnFeed(task[c], k) /\
               OwnFlex(task[c], k)
      BY <1>g, <2>3 DEF ExcuseGrows, Own
    <3>2. OwnStored(task[c], k)'
      BY <2>1, <2>o, <2>3, <3>1, <1>t, <2>s, ExcusedGrows DEF DidUpdateCommit, Now, Is,
         OwnStored, Committed, Idle
    <3>3. OwnCache(task[c], k)'
      BY <2>1, <2>o, <2>3, <3>1, <3>2, <1>t, <2>s, ExcusedGrows DEF DidUpdateCommit, Now,
         Is, OwnStored, OwnCache, Committed, Ahead, Uncached, Idle, NoDocs
    <3>4. OwnFeed(task[c], k)'
      BY <2>1, <2>o, <2>3, <3>1, <3>2, <1>t, <2>s, ExcusedGrows DEF DidUpdateCommit, Now,
         Is, OwnStored, OwnFeed, Committed, ShownEarly, Untold, Idle, NoDocs
    <3>5. OwnFlex(task[c], k)'
      BY <2>1, <2>o, <2>3, <3>1, <3>2, <1>t, <2>s, ExcusedGrows DEF DidUpdateCommit, Now,
         Is, OwnStored, OwnFlex, Committed, ShownEarly, Untold, Unflexed, Idle, NoDocs
    <3> QED
      BY <3>2, <3>3, <3>4, <3>5 DEF Own
  <2>4. Others(c, task'[c].ids, task[c].ids)
    BY <2>1 DEF DidUpdateCommit, Now, Is
  <2> QED
    BY <2>2, <2>3, <2>4, <1>g, DocsKept
<1>18. ASSUME NEW c \in Clients, UpdateFails(c)
      PROVE  DocsHold'
  <2>1. DidUpdateFails(c)
    BY <1>18, UpdateFailsDoes
  <2>o. task[c].op \in {"update", "delete"}
    BY <2>1, PhaseOps DEF DidUpdateFails
  <2>2. ASSUME NEW k \in Ids, k \notin task[c].ids, k \notin task'[c].ids
        PROVE  SameDoc(k) /\ l1'[k] = l1[k]
    BY <2>1, <2>2, <1>t, <1>w DEF DidUpdateFails, Now, Is, SameDoc
  <2>3. ASSUME NEW k \in Ids, k \in task[c].ids \/ k \in task'[c].ids,
               Own(task[c], k), "crossed" \notin excuse'[k]
        PROVE  Own(task[c], k)'
    <3>1. /\ excuse[k] \subseteq excuse'[k]
          /\ OwnStored(task[c], k) /\ OwnCache(task[c], k) /\ OwnFeed(task[c], k) /\
               OwnFlex(task[c], k)
      BY <1>g, <2>3 DEF ExcuseGrows, Own
    <3>2. OwnStored(task[c], k)'
      BY <2>1, <2>o, <2>3, <3>1, <1>t, <1>w, ExcusedGrows DEF DidUpdateFails, Now, Is,
         OwnStored, Committed, Idle
    <3>3. OwnCache(task[c], k)'
      BY <2>1, <2>o, <2>3, <3>1, <3>2, <1>t, <1>w, ExcusedGrows DEF DidUpdateFails, Now,
         Is, OwnStored, OwnCache, Committed, Ahead, Uncached, Idle, NoDocs
    <3>4. OwnFeed(task[c], k)'
      BY <2>1, <2>o, <2>3, <3>1, <3>2, <1>t, <1>w, ExcusedGrows DEF DidUpdateFails, Now,
         Is, OwnStored, OwnFeed, Committed, ShownEarly, Untold, Idle, NoDocs
    <3>5. OwnFlex(task[c], k)'
      BY <2>1, <2>o, <2>3, <3>1, <3>2, <1>t, <1>w, ExcusedGrows DEF DidUpdateFails, Now,
         Is, OwnStored, OwnFlex, Committed, ShownEarly, Untold, Unflexed, Idle, NoDocs
    <3> QED
      BY <3>2, <3>3, <3>4, <3>5 DEF Own
  <2>4. Others(c, task'[c].ids, {})
    BY <2>1 DEF DidUpdateFails, Now, Is
  <2> QED
    BY <2>2, <2>3, <2>4, <1>g, DocsKept
<1>19. ASSUME NEW c \in Clients, DeleteFound(c)
      PROVE  DocsHold'
  <2>1. DidDeleteFound(c)
    BY <1>19, DeleteFoundDoes
  <2>o. task[c].op = "delete"
    BY <2>1, PhaseOps DEF DidDeleteFound
  <2>s. task[c].shown = {}
    BY <2>1, <2>o, <1>w DEF DidDeleteFound, WriterShape, Writers
  <2>2. ASSUME NEW k \in Ids, k \notin task[c].ids, k \notin task'[c].ids
        PROVE  SameDoc(k) /\ l1'[k] = l1[k]
    BY <2>1, <2>2, <1>t, <2>s DEF DidDeleteFound, Now, Is, SameDoc
  <2>3. ASSUME NEW k \in Ids, k \in task[c].ids \/ k \in task'[c].ids,
               Own(task[c], k), "crossed" \notin excuse'[k]
        PROVE  Own(task[c], k)'
    <3>1. /\ excuse[k] \subseteq excuse'[k]
          /\ OwnStored(task[c], k) /\ OwnCache(task[c], k) /\ OwnFeed(task[c], k) /\
               OwnFlex(task[c], k)
      BY <1>g, <2>3 DEF ExcuseGrows, Own
    <3>2. OwnStored(task[c], k)'
      BY <2>1, <2>o, <2>3, <3>1, <1>t, <2>s, ExcusedGrows DEF DidDeleteFound, Now, Is,
         OwnStored, Committed, Idle
    <3>3. OwnCache(task[c], k)'
      BY <2>1, <2>o, <2>3, <3>1, <3>2, <1>t, <2>s, ExcusedGrows DEF DidDeleteFound, Now,
         Is, OwnStored, OwnCache, Committed, Ahead, Uncached, Idle, NoDocs
    <3>4. OwnFeed(task[c], k)'
      BY <2>1, <2>o, <2>3, <3>1, <3>2, <1>t, <2>s, ExcusedGrows DEF DidDeleteFound, Now,
         Is, OwnStored, OwnFeed, Committed, ShownEarly, Untold, Idle, NoDocs
    <3>5. OwnFlex(task[c], k)'
      BY <2>1, <2>o, <2>3, <3>1, <3>2, <1>t, <2>s, ExcusedGrows DEF DidDeleteFound, Now,
         Is, OwnStored, OwnFlex, Committed, ShownEarly, Untold, Unflexed, Idle, NoDocs
    <3> QED
      BY <3>2, <3>3, <3>4, <3>5 DEF Own
  <2>4. Others(c, task'[c].ids, {})
    BY <2>1 DEF DidDeleteFound, Now, Is
  <2> QED
    BY <2>2, <2>3, <2>4, <1>g, DocsKept
<1>20. ASSUME NEW c \in Clients, DeleteCommit(c)
      PROVE  DocsHold'
  <2>1. DidDeleteCommit(c)
    BY <1>20, DeleteCommitDoes
  <2>o. task[c].op \in {"update", "delete"}
    BY <2>1, PhaseOps DEF DidDeleteCommit
  <2>s. task[c].shown = task[c].ids /\ task[c].put = NoDocs
    BY <2>1, <2>o, <1>w DEF DidDeleteCommit, WriterShape, Writers
  <2>2. ASSUME NEW k \in Ids, k \notin task[c].ids, k \notin task'[c].ids
        PROVE  SameDoc(k) /\ l1'[k] = l1[k]
    BY <2>1, <2>2, <1>t, <2>s DEF DidDeleteCommit, Now, Is, SameDoc
  <2>3. ASSUME NEW k \in Ids, k \in task[c].ids \/ k \in task'[c].ids,
               Own(task[c], k), "crossed" \notin excuse'[k]
        PROVE  Own(task[c], k)'
    <3>1. /\ excuse[k] \subseteq excuse'[k]
          /\ OwnStored(task[c], k) /\ OwnCache(task[c], k) /\ OwnFeed(task[c], k) /\
               OwnFlex(task[c], k)
      BY <1>g, <2>3 DEF ExcuseGrows, Own
    <3>2. OwnStored(task[c], k)'
      BY <2>1, <2>o, <2>3, <3>1, <1>t, <2>s, ExcusedGrows DEF DidDeleteCommit, Now, Is,
         OwnStored, Committed, Idle
    <3>3. OwnCache(task[c], k)'
      BY <2>1, <2>o, <2>3, <3>1, <3>2, <1>t, <2>s, ExcusedGrows DEF DidDeleteCommit, Now,
         Is, OwnStored, OwnCache, Committed, Ahead, Uncached, Idle, NoDocs
    <3>4. OwnFeed(task[c], k)'
      BY <2>1, <2>o, <2>3, <3>1, <3>2, <1>t, <2>s, ExcusedGrows DEF DidDeleteCommit, Now,
         Is, OwnStored, OwnFeed, Committed, ShownEarly, Untold, Idle, NoDocs
    <3>5. OwnFlex(task[c], k)'
      BY <2>1, <2>o, <2>3, <3>1, <3>2, <1>t, <2>s, ExcusedGrows DEF DidDeleteCommit, Now,
         Is, OwnStored, OwnFlex, Committed, ShownEarly, Untold, Unflexed, Idle, NoDocs
    <3> QED
      BY <3>2, <3>3, <3>4, <3>5 DEF Own
  <2>4. Others(c, task'[c].ids, task[c].ids)
    BY <2>1 DEF DidDeleteCommit, Now, Is
  <2> QED
    BY <2>2, <2>3, <2>4, <1>g, DocsKept
<1>21. ASSUME NEW c \in Clients, DeleteFails(c)
      PROVE  DocsHold'
  <2>1. DidDeleteFails(c)
    BY <1>21, DeleteFailsDoes
  <2>o. task[c].op \in {"update", "delete"}
    BY <2>1, PhaseOps DEF DidDeleteFails
  <2>2. ASSUME NEW k \in Ids, k \notin task[c].ids, k \notin task'[c].ids
        PROVE  SameDoc(k) /\ l1'[k] = l1[k]
    BY <2>1, <2>2, <1>t, <1>w DEF DidDeleteFails, Now, Is, SameDoc
  <2>3. ASSUME NEW k \in Ids, k \in task[c].ids \/ k \in task'[c].ids,
               Own(task[c], k), "crossed" \notin excuse'[k]
        PROVE  Own(task[c], k)'
    <3>1. /\ excuse[k] \subseteq excuse'[k]
          /\ OwnStored(task[c], k) /\ OwnCache(task[c], k) /\ OwnFeed(task[c], k) /\
               OwnFlex(task[c], k)
      BY <1>g, <2>3 DEF ExcuseGrows, Own
    <3>2. OwnStored(task[c], k)'
      BY <2>1, <2>o, <2>3, <3>1, <1>t, <1>w, ExcusedGrows DEF DidDeleteFails, Now, Is,
         OwnStored, Committed, Idle
    <3>3. OwnCache(task[c], k)'
      BY <2>1, <2>o, <2>3, <3>1, <3>2, <1>t, <1>w, ExcusedGrows DEF DidDeleteFails, Now,
         Is, OwnStored, OwnCache, Committed, Ahead, Uncached, Idle, NoDocs
    <3>4. OwnFeed(task[c], k)'
      BY <2>1, <2>o, <2>3, <3>1, <3>2, <1>t, <1>w, ExcusedGrows DEF DidDeleteFails, Now,
         Is, OwnStored, OwnFeed, Committed, ShownEarly, Untold, Idle, NoDocs
    <3>5. OwnFlex(task[c], k)'
      BY <2>1, <2>o, <2>3, <3>1, <3>2, <1>t, <1>w, ExcusedGrows DEF DidDeleteFails, Now,
         Is, OwnStored, OwnFlex, Committed, ShownEarly, Untold, Unflexed, Idle, NoDocs
    <3> QED
      BY <3>2, <3>3, <3>4, <3>5 DEF Own
  <2>4. Others(c, task'[c].ids, {})
    BY <2>1 DEF DidDeleteFails, Now, Is
  <2> QED
    BY <2>2, <2>3, <2>4, <1>g, DocsKept
<1>22. ASSUME NEW c \in Clients, NEW i \in Ids, CacheInsert(c, i)
      PROVE  DocsHold'
  <2>1. DidCacheInsert(c, i)
    BY <1>22, CacheInsertDoes
  <2>o. task[c].op \in {"insert", "batch"}
    BY <2>1, PhaseOps DEF DidCacheInsert
  <2>s. i \in task[c].ids
    BY <2>1, <2>o, <1>w DEF DidCacheInsert, WriterShape, Writers
  <2>2. ASSUME NEW k \in Ids, k \notin task[c].ids, k \notin task'[c].ids
        PROVE  SameDoc(k) /\ l1'[k] = l1[k]
    BY <2>1, <2>2, <1>t, <2>s DEF DidCacheInsert, Now, Is, SameDoc, L1Set
  <2>3. ASSUME NEW k \in Ids, k \in task[c].ids \/ k \in task'[c].ids,
               Own(task[c], k), "crossed" \notin excuse'[k]
        PROVE  Own(task[c], k)'
    <3>1. /\ excuse[k] \subseteq excuse'[k]
          /\ OwnStored(task[c], k) /\ OwnCache(task[c], k) /\ OwnFeed(task[c], k) /\
               OwnFlex(task[c], k)
      BY <1>g, <2>3 DEF ExcuseGrows, Own
    <3>2. OwnStored(task[c], k)'
      BY <2>1, <2>o, <2>3, <3>1, <1>t, <2>s, ExcusedGrows DEF DidCacheInsert, Now, Is,
         OwnStored, Committed, L1Set, Idle
    <3>3. OwnCache(task[c], k)'
      BY <2>1, <2>o, <2>3, <3>1, <3>2, <1>t, <2>s, ExcusedGrows DEF DidCacheInsert, Now,
         Is, OwnStored, OwnCache, Committed, Ahead, Uncached, L1Set, Idle, NoDocs
    <3>4. OwnFeed(task[c], k)'
      BY <2>1, <2>o, <2>3, <3>1, <3>2, <1>t, <2>s, ExcusedGrows DEF DidCacheInsert, Now,
         Is, OwnStored, OwnFeed, Committed, ShownEarly, Untold, L1Set, Idle, NoDocs
    <3>5. OwnFlex(task[c], k)'
      BY <2>1, <2>o, <2>3, <3>1, <3>2, <1>t, <2>s, ExcusedGrows DEF DidCacheInsert, Now,
         Is, OwnStored, OwnFlex, Committed, ShownEarly, Untold, Unflexed, L1Set, Idle,
         NoDocs
    <3> QED
      BY <3>2, <3>3, <3>4, <3>5 DEF Own
  <2>4. Others(c, task'[c].ids, {})
    BY <2>1 DEF DidCacheInsert, Now, Is
  <2> QED
    BY <2>2, <2>3, <2>4, <1>g, DocsKept
<1>23. ASSUME NEW c \in Clients, NEW i \in Ids, Tell(c, i)
      PROVE  DocsHold'
  <2>1. DidTell(c, i)
    BY <1>23, TellDoes
  <2>o. task[c].op \in {"insert", "batch"}
    BY <2>1, PhaseOps DEF DidTell
  <2>s. task[c].put[i] \in Vals /\ i \in task[c].ids
    BY <2>1, <2>o, <1>w DEF DidTell, WriterShape, Writers
  <2>2. ASSUME NEW k \in Ids, k \notin task[c].ids, k \notin task'[c].ids
        PROVE  SameDoc(k) /\ l1'[k] = l1[k]
    BY <2>1, <2>2, <1>t, <2>s DEF DidTell, Now, Is, SameDoc, FlexInsert, flexVars
  <2>3. ASSUME NEW k \in Ids, k \in task[c].ids \/ k \in task'[c].ids,
               Own(task[c], k), "crossed" \notin excuse'[k]
        PROVE  Own(task[c], k)'
    <3>1. /\ excuse[k] \subseteq excuse'[k]
          /\ OwnStored(task[c], k) /\ OwnCache(task[c], k) /\ OwnFeed(task[c], k) /\
               OwnFlex(task[c], k)
      BY <1>g, <2>3 DEF ExcuseGrows, Own
    <3>2. OwnStored(task[c], k)'
      BY <2>1, <2>o, <2>3, <3>1, <1>t, <2>s, ExcusedGrows DEF DidTell, Now, Is, OwnStored,
         Committed, FlexInsert, flexVars, Idle
    <3>3. OwnCache(task[c], k)'
      BY <2>1, <2>o, <2>3, <3>1, <3>2, <1>t, <2>s, ExcusedGrows DEF DidTell, Now, Is,
         OwnStored, OwnCache, Committed, Ahead, Uncached, FlexInsert, flexVars, Idle, NoDocs
    <3>4. OwnFeed(task[c], k)'
      BY <2>1, <2>o, <2>3, <3>1, <3>2, <1>t, <2>s, ExcusedGrows DEF DidTell, Now, Is,
         OwnStored, OwnFeed, Committed, ShownEarly, Untold, FlexInsert, flexVars, Idle,
         NoDocs
    <3>5. OwnFlex(task[c], k)'
      BY <2>1, <2>o, <2>3, <3>1, <3>2, <1>t, <2>s, ExcusedGrows DEF DidTell, Now, Is,
         OwnStored, OwnFlex, Committed, ShownEarly, Untold, Unflexed, FlexInsert, flexVars,
         Idle, NoDocs
    <3> QED
      BY <3>2, <3>3, <3>4, <3>5 DEF Own
  <2>4. Others(c, task'[c].ids, {})
    BY <2>1 DEF DidTell, Now, Is
  <2> QED
    BY <2>2, <2>3, <2>4, <1>g, DocsKept
<1>24. ASSUME NEW c \in Clients, NEW i \in Ids, UpdateShow(c, i)
      PROVE  DocsHold'
  <2>1. DidUpdateShow(c, i)
    BY <1>24, UpdateShowDoes
  <2>o. task[c].op \in {"update", "delete"}
    BY <2>1, PhaseOps DEF DidUpdateShow
  <2>s. task[c].put[i] \in Vals /\ i \in task[c].ids
    BY <2>1, <2>o, <1>w DEF DidUpdateShow, WriterShape, Writers
  <2>2. ASSUME NEW k \in Ids, k \notin task[c].ids, k \notin task'[c].ids
        PROVE  SameDoc(k) /\ l1'[k] = l1[k]
    BY <2>1, <2>2, <1>t, <2>s DEF DidUpdateShow, Now, Is, SameDoc, L1Set, FlexUpdate,
       flexVars
  <2>3. ASSUME NEW k \in Ids, k \in task[c].ids \/ k \in task'[c].ids,
               Own(task[c], k), "crossed" \notin excuse'[k]
        PROVE  Own(task[c], k)'
    <3>1. /\ excuse[k] \subseteq excuse'[k]
          /\ OwnStored(task[c], k) /\ OwnCache(task[c], k) /\ OwnFeed(task[c], k) /\
               OwnFlex(task[c], k)
      BY <1>g, <2>3 DEF ExcuseGrows, Own
    <3>2. OwnStored(task[c], k)'
      BY <2>1, <2>o, <2>3, <3>1, <1>t, <2>s, ExcusedGrows DEF DidUpdateShow, Now, Is,
         OwnStored, Committed, L1Set, FlexUpdate, flexVars, Idle
    <3>3. OwnCache(task[c], k)'
      BY <2>1, <2>o, <2>3, <3>1, <3>2, <1>t, <2>s, ExcusedGrows DEF DidUpdateShow, Now, Is,
         OwnStored, OwnCache, Committed, Ahead, Uncached, L1Set, FlexUpdate, flexVars,
         Idle, NoDocs
    <3>4. OwnFeed(task[c], k)'
      BY <2>1, <2>o, <2>3, <3>1, <3>2, <1>t, <2>s, ExcusedGrows DEF DidUpdateShow, Now, Is,
         OwnStored, OwnFeed, Committed, ShownEarly, Untold, L1Set, FlexUpdate, flexVars,
         Idle, NoDocs
    <3>5. OwnFlex(task[c], k)'
      BY <2>1, <2>o, <2>3, <3>1, <3>2, <1>t, <2>s, ExcusedGrows DEF DidUpdateShow, Now, Is,
         OwnStored, OwnFlex, Committed, ShownEarly, Untold, Unflexed, L1Set, FlexUpdate,
         flexVars, Idle, NoDocs
    <3> QED
      BY <3>2, <3>3, <3>4, <3>5 DEF Own
  <2>4. Others(c, task'[c].ids, {})
    BY <2>1 DEF DidUpdateShow, Now, Is
  <2> QED
    BY <2>2, <2>3, <2>4, <1>g, DocsKept
<1>25. ASSUME NEW c \in Clients, NEW i \in Ids, DeleteFlex(c, i)
      PROVE  DocsHold'
  <2>1. DidDeleteFlex(c, i)
    BY <1>25, DeleteFlexDoes
  <2>o. task[c].op = "delete"
    BY <2>1, PhaseOps DEF DidDeleteFlex
  <2>s. i \in task[c].ids
    BY <2>1, <2>o, <1>w DEF DidDeleteFlex, WriterShape, Writers
  <2>2. ASSUME NEW k \in Ids, k \notin task[c].ids, k \notin task'[c].ids
        PROVE  SameDoc(k) /\ l1'[k] = l1[k]
    BY <2>1, <2>2, <1>t, <2>s DEF DidDeleteFlex, Now, Is, SameDoc, FlexDelete, flexVars
  <2>3. ASSUME NEW k \in Ids, k \in task[c].ids \/ k \in task'[c].ids,
               Own(task[c], k), "crossed" \notin excuse'[k]
        PROVE  Own(task[c], k)'
    <3>1. /\ excuse[k] \subseteq excuse'[k]
          /\ OwnStored(task[c], k) /\ OwnCache(task[c], k) /\ OwnFeed(task[c], k) /\
               OwnFlex(task[c], k)
      BY <1>g, <2>3 DEF ExcuseGrows, Own
    <3>2. OwnStored(task[c], k)'
      BY <2>1, <2>o, <2>3, <3>1, <1>t, <2>s, ExcusedGrows DEF DidDeleteFlex, Now, Is,
         OwnStored, Committed, FlexDelete, flexVars, Idle
    <3>3. OwnCache(task[c], k)'
      BY <2>1, <2>o, <2>3, <3>1, <3>2, <1>t, <2>s, ExcusedGrows DEF DidDeleteFlex, Now, Is,
         OwnStored, OwnCache, Committed, Ahead, Uncached, FlexDelete, flexVars, Idle, NoDocs
    <3>4. OwnFeed(task[c], k)'
      BY <2>1, <2>o, <2>3, <3>1, <3>2, <1>t, <2>s, ExcusedGrows DEF DidDeleteFlex, Now, Is,
         OwnStored, OwnFeed, Committed, ShownEarly, Untold, FlexDelete, flexVars, Idle,
         NoDocs
    <3>5. OwnFlex(task[c], k)'
      BY <2>1, <2>o, <2>3, <3>1, <3>2, <1>t, <2>s, ExcusedGrows DEF DidDeleteFlex, Now, Is,
         OwnStored, OwnFlex, Committed, ShownEarly, Untold, Unflexed, FlexDelete, flexVars,
         Idle, NoDocs
    <3> QED
      BY <3>2, <3>3, <3>4, <3>5 DEF Own
  <2>4. Others(c, task'[c].ids, {})
    BY <2>1 DEF DidDeleteFlex, Now, Is
  <2> QED
    BY <2>2, <2>3, <2>4, <1>g, DocsKept
<1>26. ASSUME NEW c \in Clients, NEW i \in Ids, DeleteShow(c, i)
      PROVE  DocsHold'
  <2>1. DidDeleteShow(c, i)
    BY <1>26, DeleteShowDoes
  <2>o. task[c].op \in {"update", "delete"}
    BY <2>1, PhaseOps DEF DidDeleteShow
  <2>s. task[c].put = NoDocs /\ i \in task[c].ids
    BY <2>1, <2>o, <1>w DEF DidDeleteShow, WriterShape, Writers
  <2>2. ASSUME NEW k \in Ids, k \notin task[c].ids, k \notin task'[c].ids
        PROVE  SameDoc(k) /\ l1'[k] = l1[k]
    BY <2>1, <2>2, <1>t, <2>s DEF DidDeleteShow, Now, Is, SameDoc, L1Del
  <2>3. ASSUME NEW k \in Ids, k \in task[c].ids \/ k \in task'[c].ids,
               Own(task[c], k), "crossed" \notin excuse'[k]
        PROVE  Own(task[c], k)'
    <3>1. /\ excuse[k] \subseteq excuse'[k]
          /\ OwnStored(task[c], k) /\ OwnCache(task[c], k) /\ OwnFeed(task[c], k) /\
               OwnFlex(task[c], k)
      BY <1>g, <2>3 DEF ExcuseGrows, Own
    <3>2. OwnStored(task[c], k)'
      BY <2>1, <2>o, <2>3, <3>1, <1>t, <2>s, ExcusedGrows DEF DidDeleteShow, Now, Is,
         OwnStored, Committed, L1Del, Idle
    <3>3. OwnCache(task[c], k)'
      BY <2>1, <2>o, <2>3, <3>1, <3>2, <1>t, <2>s, ExcusedGrows DEF DidDeleteShow, Now, Is,
         OwnStored, OwnCache, Committed, Ahead, Uncached, L1Del, Idle, NoDocs
    <3>4. OwnFeed(task[c], k)'
      BY <2>1, <2>o, <2>3, <3>1, <3>2, <1>t, <2>s, ExcusedGrows DEF DidDeleteShow, Now, Is,
         OwnStored, OwnFeed, Committed, ShownEarly, Untold, L1Del, Idle, NoDocs
    <3>5. OwnFlex(task[c], k)'
      BY <2>1, <2>o, <2>3, <3>1, <3>2, <1>t, <2>s, ExcusedGrows DEF DidDeleteShow, Now, Is,
         OwnStored, OwnFlex, Committed, ShownEarly, Untold, Unflexed, L1Del, Idle, NoDocs
    <3> QED
      BY <3>2, <3>3, <3>4, <3>5 DEF Own
  <2>4. Others(c, task'[c].ids, {})
    BY <2>1 DEF DidDeleteShow, Now, Is
  <2> QED
    BY <2>2, <2>3, <2>4, <1>g, DocsKept
<1>27. ASSUME NEW c \in Clients, FindLocks(c)
      PROVE  DocsHold'
  <2>1. DidFindLocks(c)
    BY <1>27, FindLocksDoes
  <2>2. task[c].ids = {} /\ task'[c].ids = {} /\ Others(c, {}, {})
    BY <2>1, <1>r, PhaseOps DEF DidFindLocks, Now, Is, Idle, Readers, Writers
  <2>3. \A k \in Ids : SameDoc(k) /\ l1'[k] = l1[k]
    BY <2>1 DEF DidFindLocks, SameDoc
  <2> QED
    BY <2>2, <2>3, <1>g, DocsKept
<1>28. ASSUME NEW c \in Clients, LookupCached(c)
      PROVE  DocsHold'
  <2>1. DidLookupCached(c)
    BY <1>28, LookupCachedDoes
  <2>2. task[c].ids = {} /\ task'[c].ids = {} /\ Others(c, {}, {})
    BY <2>1, <1>r, PhaseOps DEF DidLookupCached, Now, Is, Idle, Readers, Writers
  <2>3. \A k \in Ids : SameDoc(k) /\ l1'[k] = l1[k]
    BY <2>1 DEF DidLookupCached, SameDoc
  <2> QED
    BY <2>2, <2>3, <1>g, DocsKept
<1>29. ASSUME NEW c \in Clients, LookupMisses(c)
      PROVE  DocsHold'
  <2>1. DidLookupMisses(c)
    BY <1>29, LookupMissesDoes
  <2>2. task[c].ids = {} /\ task'[c].ids = {} /\ Others(c, {}, {})
    BY <2>1, <1>r, PhaseOps DEF DidLookupMisses, Now, Is, Idle, Readers, Writers
  <2>3. \A k \in Ids : SameDoc(k) /\ l1'[k] = l1[k]
    BY <2>1 DEF DidLookupMisses, SameDoc
  <2> QED
    BY <2>2, <2>3, <1>g, DocsKept
<1>30. ASSUME NEW c \in Clients, NEW page \in SUBSET Ids, Seek(c, page)
      PROVE  DocsHold'
  <2>1. DidSeek(c, page)
    BY <1>30, SeekDoes
  <2>2. task[c].ids = {} /\ task'[c].ids = {} /\ Others(c, {}, {})
    BY <2>1, <1>r, PhaseOps DEF DidSeek, Now, Is, Idle, Readers, Writers
  <2>3. \A k \in Ids : SameDoc(k) /\ l1'[k] = l1[k]
    BY <2>1 DEF DidSeek, SameDoc
  <2> QED
    BY <2>2, <2>3, <1>g, DocsKept
<1>31. ASSUME NEW c \in Clients, Keep(c)
      PROVE  DocsHold'
  <2>1. DidKeep(c)
    BY <1>31, KeepDoes
  <2>2. task[c].ids = {} /\ task'[c].ids = {} /\ Others(c, {}, {})
    BY <2>1, <1>r, PhaseOps DEF DidKeep, Now, Is, Idle, Readers, Writers
  <2>3. \A k \in Ids : SameDoc(k) /\ l1'[k] = l1[k]
    BY <2>1 DEF DidKeep, SameDoc
  <2> QED
    BY <2>2, <2>3, <1>g, DocsKept
<1>32. ASSUME NEW c \in Clients, Scan(c)
      PROVE  DocsHold'
  <2>1. DidScan(c)
    BY <1>32, ScanDoes
  <2>2. task[c].ids = {} /\ task'[c].ids = {} /\ Others(c, {}, {})
    BY <2>1, <1>r, PhaseOps DEF DidScan, Now, Is, Idle, Readers, Writers
  <2>3. \A k \in Ids : SameDoc(k) /\ l1'[k] = l1[k]
    BY <2>1 DEF DidScan, SameDoc
  <2> QED
    BY <2>2, <2>3, <1>g, DocsKept
<1>33. ASSUME NEW c \in Clients, Fetched(c)
      PROVE  DocsHold'
  <2>1. DidFetched(c)
    BY <1>33, FetchedDoes
  <2>2. task[c].ids = {} /\ task'[c].ids = {} /\ Others(c, {}, {})
    BY <2>1, <1>r, PhaseOps DEF DidFetched, Now, Is, Idle, Readers, Writers
  <2>3. \A k \in Ids : SameDoc(k) /\ l1'[k] = l1[k]
    BY <2>1 DEF DidFetched, SameDoc
  <2> QED
    BY <2>2, <2>3, <1>g, DocsKept
<1>34. ASSUME NEW c \in Clients, Return(c)
      PROVE  DocsHold'
  <2>1. DidReturn(c)
    BY <1>34, ReturnDoes
  <2>2. task[c].ids = {} /\ task'[c].ids = {} /\ Others(c, {}, {})
    BY <2>1, <1>r, PhaseOps DEF DidReturn, Now, Is, Idle, Readers, Writers
  <2>3. \A k \in Ids : SameDoc(k) /\ l1'[k] = l1[k]
    BY <2>1 DEF DidReturn, SameDoc
  <2> QED
    BY <2>2, <2>3, <1>g, DocsKept
<1>35. ASSUME NEW c \in Clients, NEW i \in Ids, Fetch(c, i)
      PROVE  DocsHold'
  <2>1. DidFetch(c, i)
    BY <1>35, FetchDoes
  <2>2. task[c].ids = {} /\ task'[c].ids = {} /\ Others(c, {}, {})
    BY <2>1, <1>r, PhaseOps DEF DidFetch, Now, Is, Idle, Readers, Writers
  <2>3. \A k \in Ids : SameDoc(k) /\ l1'[k] = l1[k]
    BY <2>1 DEF DidFetch, SameDoc
  <2> QED
    BY <2>2, <2>3, <1>g, DocsKept
<1>36. ASSUME NEW c \in Clients, NEW i \in Ids, Fill(c, i)
      PROVE  DocsHold'
  <2>1. DidFill(c, i)
    BY <1>36, FillDoes
  <2>2. task[c].ids = {} /\ task'[c].ids = {} /\ Others(c, {}, {})
    BY <2>1, <1>r, PhaseOps DEF DidFill, Now, Is, Readers, Writers
  <2>3. \A k \in Ids : SameDoc(k) /\ (k # i => l1'[k] = l1[k])
    BY <2>1, <1>t DEF DidFill, SameDoc, L1Set
  <2>4. CacheIs(i)'
    <3>1. CASE Late(c, i)
      <4>1. "lateFill" \in excuse'[i]
        BY <2>1, <3>1, ExcusedGrows DEF DidFill
      <4> QED
        BY <4>1 DEF CacheIs
    <3>2. CASE ~Late(c, i)
      <4>1. l1'[i] = docs[i] /\ docs'[i] = docs[i]
        BY <2>1, <3>2, <1>t DEF DidFill, L1Set, Late
      <4>2. \A d \in Clients : ~Ahead(task[d], i)
        BY <3>2 DEF Late
      <4>3. \A d \in Clients \ {c} : ~Ahead(task'[d], i)
        BY <2>2, <4>2, SamePlace DEF Others
      <4>4. ~Ahead(task'[c], i)
        BY <2>2, <1>h, NotBusy DEF Shape
      <4> QED
        BY <4>1, <4>3, <4>4 DEF CacheIs
    <3> QED
      BY <3>1, <3>2
  <2> QED
    BY <2>2, <2>3, <2>4, <1>g, <1>h, DocsKept
<1>37. ASSUME NEW i \in Ids, EvictL1(i)
      PROVE  DocsHold'
  <2>1. /\ UNCHANGED <<docs, feed, flex, flexLast, task, excuse>>
        /\ l1' = [l1 EXCEPT ![i] = NoVal]
    BY <1>37 DEF EvictL1, L1Del, badgerVars, flexVars, ghosts
  <2>2. ASSUME NEW k \in Ids PROVE CacheIs(k)'
    <3>1. l1'[k] \in {l1[k], NoVal}
      BY <2>1, <1>t
    <3> QED
      BY <2>1, <3>1 DEF DocsHold, DocIs, CacheIs
  <2> QED
    BY <2>1, <2>2 DEF DocsHold, DocIs, StoredIs, FeedIs, FlexIs
<1>38. ASSUME NEW v \in Vals, EvictL2(v)
      PROVE  DocsHold'
  BY <1>38 DEF EvictL2, badgerVars, memVars, flexVars, ghosts, DocsHold, DocIs, StoredIs,
     CacheIs, FeedIs, FlexIs
<1>39. ASSUME Restart
      PROVE  DocsHold'
  <2>1. /\ \A c \in Clients : task[c] = Idle
        /\ task' = task /\ docs' = docs /\ l1' = NoDocs /\ feed' = docs
        /\ excuse' = Excused({j \in Ids : FlexEnabled /\ docs[j] # NoVal}, "restarted")
        /\ flex' = [j \in Ids |-> {}] /\ flexLast' = NoDocs
    BY <1>39 DEF Restart, badgerVars
  <2>2. ASSUME NEW k \in Ids PROVE DocIs(k)'
    <3>1. \A c \in Clients :
            /\ ~Committed(task'[c], k) /\ ~Ahead(task'[c], k) /\ ~Uncached(task'[c], k)
            /\ ~ShownEarly(task'[c], k) /\ ~Unflexed(task'[c], k) /\ ~Untold(task'[c], k)
      BY <2>1 DEF Idle, Committed, Ahead, Uncached, ShownEarly, Unflexed, Untold
    <3>2. l1'[k] = NoVal /\ feed'[k] = docs[k] /\ flex'[k] = {} /\ flexLast'[k] = NoVal
      BY <2>1 DEF NoDocs
    <3>3. FlexEnabled /\ docs[k] # NoVal => "restarted" \in excuse'[k]
      BY <2>1, ExcusedGrows
    <3> QED
      BY <2>1, <3>1, <3>2, <3>3 DEF DocIs, StoredIs, CacheIs, FeedIs, FlexIs
  <2> QED
    BY <2>2 DEF DocsHold
<1>40. CASE UNCHANGED vars
  BY <1>40 DEF vars, badgerVars, memVars, flexVars, ghosts, DocsHold, DocIs, StoredIs,
     CacheIs, FeedIs, FlexIs
<1>41. ASSUME NEW c \in Clients, Start(c)
      PROVE  DocsHold'
  BY <1>41, <1>1, <1>2, <1>3, <1>4, <1>5, <1>6, <1>7, <1>8 DEF Start
<1>42. ASSUME NEW c \in Clients, WriteStep(c)
      PROVE  DocsHold'
  BY <1>42, <1>9, <1>10, <1>11, <1>12, <1>13, <1>14, <1>15, <1>16, <1>17, <1>18, <1>19,
     <1>20, <1>21, <1>22, <1>23, <1>24, <1>25, <1>26 DEF WriteStep
<1>43. ASSUME NEW c \in Clients, ReadStep(c)
      PROVE  DocsHold'
  BY <1>43, <1>27, <1>28, <1>29, <1>30, <1>31, <1>32, <1>33, <1>34, <1>35, <1>36
     DEF ReadStep
<1> QED
  BY <1>37, <1>38, <1>39, <1>40, <1>41, <1>42, <1>43 DEF Next

-----------------------------------------------------------------------------
(* What a Find answers *)

(* FLEX-COLUMN stays empty when it is off.                                 *)
LEMMA FlexOffStep ==
  ASSUME Typed, FlexOff, [Next]_vars
  PROVE  FlexOff'

<1>1. ASSUME NEW c \in Clients, NEW i \in Ids, NEW v \in Vals, Insert(c, i, v)
      PROVE  FlexOff'
  <2>1. DidInsert(c, i, v)
    BY <1>1, InsertDoes
  <2> QED
    BY <2>1 DEF DidInsert, FlexOff
<1>2. ASSUME NEW c \in Clients, NEW put \in [Ids -> Vals \cup {NoVal}], Batch(c, put)
      PROVE  FlexOff'
  <2>1. DidBatch(c, put)
    BY <1>2, BatchDoes
  <2> QED
    BY <2>1 DEF DidBatch, FlexOff
<1>3. ASSUME NEW c \in Clients, NEW v \in Vals, NEW w \in Vals, NEW ids \in SUBSET Ids,
             UpdateStart(c, v, w, ids)
      PROVE  FlexOff'
  <2>1. DidUpdateStart(c, v, w, ids)
    BY <1>3, UpdateStartDoes
  <2> QED
    BY <2>1 DEF DidUpdateStart, FlexOff
<1>4. ASSUME NEW c \in Clients, NEW v \in Vals, NEW ids \in SUBSET Ids,
             DeleteStart(c, v, ids)
      PROVE  FlexOff'
  <2>1. DidDeleteStart(c, v, ids)
    BY <1>4, DeleteStartDoes
  <2> QED
    BY <2>1 DEF DidDeleteStart, FlexOff
<1>5. ASSUME NEW c \in Clients, NEW i \in Ids, Get(c, i)
      PROVE  FlexOff'
  <2>1. DidGet(c, i)
    BY <1>5, GetDoes
  <2> QED
    BY <2>1 DEF DidGet, FlexOff
<1>6. ASSUME NEW c \in Clients, NEW v \in Vals, NEW alone \in BOOLEAN, Find(c, v, alone)
      PROVE  FlexOff'
  <2>1. DidFind(c, v, alone)
    BY <1>6, FindDoes
  <2> QED
    BY <2>1 DEF DidFind, FlexOff
<1>7. ASSUME NEW c \in Clients, NEW v \in Vals, Count(c, v)
      PROVE  FlexOff'
  <2>1. DidCount(c, v)
    BY <1>7, CountDoes
  <2> QED
    BY <2>1 DEF DidCount, FlexOff
<1>8. ASSUME NEW c \in Clients, Refused(c)
      PROVE  FlexOff'
  BY <1>8 DEF Refused, FlexOff, memVars, flexVars
<1>9. ASSUME NEW c \in Clients, InsertIndex(c)
      PROVE  FlexOff'
  <2>1. DidInsertIndex(c)
    BY <1>9, InsertIndexDoes
  <2> QED
    BY <2>1 DEF DidInsertIndex, FlexOff
<1>10. ASSUME NEW c \in Clients, InsertIndexFails(c)
      PROVE  FlexOff'
  <2>1. DidInsertIndexFails(c)
    BY <1>10, InsertIndexFailsDoes
  <2> QED
    BY <2>1 DEF DidInsertIndexFails, FlexOff
<1>11. ASSUME NEW c \in Clients, BatchFlush(c)
      PROVE  FlexOff'
  <2>1. DidBatchFlush(c)
    BY <1>11, BatchFlushDoes
  <2> QED
    BY <2>1 DEF DidBatchFlush, FlexOff
<1>12. ASSUME NEW c \in Clients, NEW stored \in SUBSET Ids, BatchFlushFails(c, stored)
      PROVE  FlexOff'
  <2>1. DidBatchFlushFails(c, stored)
    BY <1>12, BatchFlushFailsDoes
  <2> QED
    BY <2>1 DEF DidBatchFlushFails, FlexOff
<1>13. ASSUME NEW c \in Clients, LoadCount(c)
      PROVE  FlexOff'
  <2>1. DidLoadCount(c)
    BY <1>13, LoadCountDoes
  <2> QED
    BY <2>1 DEF DidLoadCount, FlexOff
<1>14. ASSUME NEW c \in Clients, SaveBegins(c)
      PROVE  FlexOff'
  <2>1. DidSaveBegins(c)
    BY <1>14, SaveBeginsDoes
  <2> QED
    BY <2>1 DEF DidSaveBegins, FlexOff
<1>15. ASSUME NEW c \in Clients, SaveCount(c)
      PROVE  FlexOff'
  <2>1. DidSaveCount(c)
    BY <1>15, SaveCountDoes
  <2> QED
    BY <2>1 DEF DidSaveCount, FlexOff
<1>16. ASSUME NEW c \in Clients, SaveFails(c)
      PROVE  FlexOff'
  <2>1. DidSaveFails(c)
    BY <1>16, SaveFailsDoes
  <2> QED
    BY <2>1 DEF DidSaveFails, FlexOff
<1>17. ASSUME NEW c \in Clients, UpdateCommit(c)
      PROVE  FlexOff'
  <2>1. DidUpdateCommit(c)
    BY <1>17, UpdateCommitDoes
  <2> QED
    BY <2>1 DEF DidUpdateCommit, FlexOff
<1>18. ASSUME NEW c \in Clients, UpdateFails(c)
      PROVE  FlexOff'
  <2>1. DidUpdateFails(c)
    BY <1>18, UpdateFailsDoes
  <2> QED
    BY <2>1 DEF DidUpdateFails, FlexOff
<1>19. ASSUME NEW c \in Clients, DeleteFound(c)
      PROVE  FlexOff'
  <2>1. DidDeleteFound(c)
    BY <1>19, DeleteFoundDoes
  <2> QED
    BY <2>1 DEF DidDeleteFound, FlexOff
<1>20. ASSUME NEW c \in Clients, DeleteCommit(c)
      PROVE  FlexOff'
  <2>1. DidDeleteCommit(c)
    BY <1>20, DeleteCommitDoes
  <2> QED
    BY <2>1 DEF DidDeleteCommit, FlexOff
<1>21. ASSUME NEW c \in Clients, DeleteFails(c)
      PROVE  FlexOff'
  <2>1. DidDeleteFails(c)
    BY <1>21, DeleteFailsDoes
  <2> QED
    BY <2>1 DEF DidDeleteFails, FlexOff
<1>22. ASSUME NEW c \in Clients, NEW i \in Ids, CacheInsert(c, i)
      PROVE  FlexOff'
  <2>1. DidCacheInsert(c, i)
    BY <1>22, CacheInsertDoes
  <2> QED
    BY <2>1 DEF DidCacheInsert, FlexOff
<1>23. ASSUME NEW c \in Clients, NEW i \in Ids, Tell(c, i)
      PROVE  FlexOff'
  <2>1. DidTell(c, i)
    BY <1>23, TellDoes
  <2> QED
    BY <2>1 DEF DidTell, FlexOff, FlexInsert, flexVars
<1>24. ASSUME NEW c \in Clients, NEW i \in Ids, UpdateShow(c, i)
      PROVE  FlexOff'
  <2>1. DidUpdateShow(c, i)
    BY <1>24, UpdateShowDoes
  <2> QED
    BY <2>1 DEF DidUpdateShow, FlexOff, FlexUpdate, flexVars
<1>25. ASSUME NEW c \in Clients, NEW i \in Ids, DeleteFlex(c, i)
      PROVE  FlexOff'
  <2>1. DidDeleteFlex(c, i)
    BY <1>25, DeleteFlexDoes
  <2> QED
    BY <2>1 DEF DidDeleteFlex, FlexOff, FlexDelete, flexVars
<1>26. ASSUME NEW c \in Clients, NEW i \in Ids, DeleteShow(c, i)
      PROVE  FlexOff'
  <2>1. DidDeleteShow(c, i)
    BY <1>26, DeleteShowDoes
  <2> QED
    BY <2>1 DEF DidDeleteShow, FlexOff
<1>27. ASSUME NEW c \in Clients, FindLocks(c)
      PROVE  FlexOff'
  <2>1. DidFindLocks(c)
    BY <1>27, FindLocksDoes
  <2> QED
    BY <2>1 DEF DidFindLocks, FlexOff
<1>28. ASSUME NEW c \in Clients, LookupCached(c)
      PROVE  FlexOff'
  <2>1. DidLookupCached(c)
    BY <1>28, LookupCachedDoes
  <2> QED
    BY <2>1 DEF DidLookupCached, FlexOff
<1>29. ASSUME NEW c \in Clients, LookupMisses(c)
      PROVE  FlexOff'
  <2>1. DidLookupMisses(c)
    BY <1>29, LookupMissesDoes
  <2> QED
    BY <2>1 DEF DidLookupMisses, FlexOff
<1>30. ASSUME NEW c \in Clients, NEW page \in SUBSET Ids, Seek(c, page)
      PROVE  FlexOff'
  <2>1. DidSeek(c, page)
    BY <1>30, SeekDoes
  <2> QED
    BY <2>1 DEF DidSeek, FlexOff
<1>31. ASSUME NEW c \in Clients, Keep(c)
      PROVE  FlexOff'
  <2>1. DidKeep(c)
    BY <1>31, KeepDoes
  <2> QED
    BY <2>1 DEF DidKeep, FlexOff
<1>32. ASSUME NEW c \in Clients, Scan(c)
      PROVE  FlexOff'
  <2>1. DidScan(c)
    BY <1>32, ScanDoes
  <2> QED
    BY <2>1 DEF DidScan, FlexOff
<1>33. ASSUME NEW c \in Clients, Fetched(c)
      PROVE  FlexOff'
  <2>1. DidFetched(c)
    BY <1>33, FetchedDoes
  <2> QED
    BY <2>1 DEF DidFetched, FlexOff
<1>34. ASSUME NEW c \in Clients, Return(c)
      PROVE  FlexOff'
  <2>1. DidReturn(c)
    BY <1>34, ReturnDoes
  <2> QED
    BY <2>1 DEF DidReturn, FlexOff
<1>35. ASSUME NEW c \in Clients, NEW i \in Ids, Fetch(c, i)
      PROVE  FlexOff'
  <2>1. DidFetch(c, i)
    BY <1>35, FetchDoes
  <2> QED
    BY <2>1 DEF DidFetch, FlexOff
<1>36. ASSUME NEW c \in Clients, NEW i \in Ids, Fill(c, i)
      PROVE  FlexOff'
  <2>1. DidFill(c, i)
    BY <1>36, FillDoes
  <2> QED
    BY <2>1 DEF DidFill, FlexOff
<1>37. ASSUME NEW i \in Ids, EvictL1(i)
      PROVE  FlexOff'
  BY <1>37 DEF EvictL1, FlexOff, memVars, flexVars
<1>38. ASSUME NEW v \in Vals, EvictL2(v)
      PROVE  FlexOff'
  BY <1>38 DEF EvictL2, FlexOff, memVars, flexVars
<1>39. ASSUME Restart
      PROVE  FlexOff'
  BY <1>39 DEF Restart, FlexOff, memVars, flexVars
<1>40. CASE UNCHANGED vars
  BY <1>40 DEF vars, memVars, flexVars, FlexOff
<1>41. ASSUME NEW c \in Clients, Start(c)
      PROVE  FlexOff'
  BY <1>41, <1>1, <1>2, <1>3, <1>4, <1>5, <1>6, <1>7, <1>8 DEF Start
<1>42. ASSUME NEW c \in Clients, WriteStep(c)
      PROVE  FlexOff'
  BY <1>42, <1>9, <1>10, <1>11, <1>12, <1>13, <1>14, <1>15, <1>16, <1>17, <1>18, <1>19,
     <1>20, <1>21, <1>22, <1>23, <1>24, <1>25, <1>26 DEF WriteStep
<1>43. ASSUME NEW c \in Clients, ReadStep(c)
      PROVE  FlexOff'
  BY <1>43, <1>27, <1>28, <1>29, <1>30, <1>31, <1>32, <1>33, <1>34, <1>35, <1>36
     DEF ReadStep
<1> QED
  BY <1>37, <1>38, <1>39, <1>40, <1>41, <1>42, <1>43 DEF Next

(* What the copies of a document are that no writer is busy with and that  *)
(* nothing excuses.                                                        *)
LEMMA Calm ==
  ASSUME Typed, DocsHold, IndexCovers, FlexOff, NEW i \in Ids, Settled(i), excuse[i] = {}
  PROVE  /\ l1[i] \in {NoVal, docs[i]}
         /\ docs[i] # NoVal => docs[i] \in index[i]
         /\ \A v \in Vals : FlexEnabled => (v \in flex[i] <=> docs[i] = v)
         /\ ~FlexEnabled => flex[i] = {}
<1>1. \A c \in Clients : /\ ~Ahead(task[c], i) /\ ~Uncached(task[c], i)
                         /\ ~ShownEarly(task[c], i) /\ ~Unflexed(task[c], i) /\
                              ~Untold(task[c], i)
  BY NotBusy DEF Typed, Shape, Settled
<1>2. CacheIs(i) /\ FlexIs(i)
  BY DEF DocsHold, DocIs
<1>3. l1[i] \in {NoVal, docs[i]}
  BY <1>1, <1>2 DEF CacheIs
<1>4. docs[i] # NoVal => docs[i] \in index[i]
  BY DEF IndexCovers, Settled
<1>5. FlexEnabled => flex[i] = {docs[i]} \ {NoVal}
  BY <1>1, <1>2 DEF FlexIs
<1>6. ~FlexEnabled => flex[i] = {}
  BY DEF FlexOff
<1> QED
  BY <1>3, <1>4, <1>5, <1>6, ConstantsAssumption DEF ConstantsAssumption

(* A step keeps what the other Finds know: they know nothing of what its   *)
(* client writes.                                                          *)
LEMMA FindsStay ==
  ASSUME Typed, Locks, FindsHold, ExcuseGrows, NEW c \in Clients, NEW w,
         Others(c, task'[c].ids, w),
         \A i \in Ids : docs'[i] # docs[i] => i \in task[c].ids \/ i \in task'[c].ids,
         \A i \in Ids : task'[c].op = "find" /\ i \notin task'[c].moved /\
           excuse'[i] = {} =>
                          FindIs(task[c], i)'
  PROVE  FindsHold'
<1> SUFFICES ASSUME NEW d \in Clients, NEW i \in Ids,
                    task'[d].op = "find", i \notin task'[d].moved, excuse'[i] = {}
             PROVE  FindIs(task[d], i)'
  BY DEF FindsHold
<1>1. CASE d = c
  BY <1>1
<1>2. CASE d # c
  <2>1. SameWork(task[d], task'[d])
    BY <1>2 DEF Others
  <2>2. task[d].op = "find" /\ task[d].op \in Readers
    BY <2>1 DEF SameWork, Readers
  <2>3. task'[d].moved = task[d].moved \cup task'[c].ids
    BY <1>2, <2>2 DEF Others
  <2>4. i \notin task[c].ids /\ i \notin task'[c].ids
    BY <2>2, <2>3 DEF Locks, MovedSees
  <2>5. docs'[i] = docs[i] /\ excuse[i] = {}
    BY <2>4 DEF ExcuseGrows
  <2>6. FindIs(task[d], i)
    BY <2>2, <2>3, <2>5 DEF FindsHold
  <2> QED
    BY <2>1, <2>5, <2>6 DEF FindIs, InHand, SameWork
<1> QED
  BY <1>1, <1>2

(* A page that Find asks for has all the ids.                              *)
LEMMA WholePage ==
  ASSUME NEW t, t.op = "find", NEW ids \in SUBSET Ids, NEW page \in Page(t, ids)
  PROVE  page = ids
<1>1. IsFiniteSet(ids) /\ page \subseteq ids
  BY ConstantsAssumption, FS_Subset DEF ConstantsAssumption, Page
<1>2. Cardinality(page) = Cardinality(ids)
  BY DEF Page
<1> QED
  BY <1>1, <1>2, FS_Subset

(* A pair more answers for one document more.                              *)
LEMMA PairMore ==
  ASSUME NEW S, NEW T, NEW i, NEW x, NEW k, T = S \cup {<<i, x>>}
  PROVE  Answered(T, k) <=> (k = i \/ Answered(S, k))
<1>1. <<i, x>>[1] = i
  OBVIOUS
<1> QED
  BY <1>1 DEF Answered

(* Every step keeps what the Finds know.                                   *)
LEMMA FindsStep ==
  ASSUME Typed, Locks, DocsHold, IndexCovers, FlexOff, FindsHold, [Next]_vars
  PROVE  FindsHold'
<1>g. ExcuseGrows
  BY GrowsStep
<1>t. /\ docs \in [Ids -> Vals \cup {NoVal}] /\ flex \in [Ids -> SUBSET Vals] /\
           NoVal \notin Vals
      /\ \A c \in Clients : task[c].got \in SUBSET (Ids \X Vals)
  BY ConstantsAssumption DEF Typed, TypeOK, ConstantsAssumption, Task
<1>s. \A c \in Clients : ReaderShape(task[c])
  BY DEF Typed, Shape

<1>1. ASSUME NEW c \in Clients, NEW i \in Ids, NEW v \in Vals, Insert(c, i, v)
      PROVE  FindsHold'
  <2>1. DidInsert(c, i, v)
    BY <1>1, InsertDoes
  <2>2. task'[c].op # "find"
    BY <2>1, PhaseOps DEF DidInsert, Now, Is, Writers
  <2>3. \A k \in Ids : docs'[k] # docs[k] => k \in task[c].ids \/ k \in task'[c].ids
    BY <2>1, <1>t DEF DidInsert, Now, Is, Stored
  <2>4. Others(c, task'[c].ids, {i})
    BY <2>1 DEF DidInsert, Now, Is
  <2> QED
    BY <2>2, <2>3, <2>4, <1>g, FindsStay
<1>2. ASSUME NEW c \in Clients, NEW put \in [Ids -> Vals \cup {NoVal}], Batch(c, put)
      PROVE  FindsHold'
  <2>1. DidBatch(c, put)
    BY <1>2, BatchDoes
  <2>2. task'[c].op # "find"
    BY <2>1, PhaseOps DEF DidBatch, Now, Is, Writers
  <2>3. \A k \in Ids : docs'[k] # docs[k] => k \in task[c].ids \/ k \in task'[c].ids
    BY <2>1, <1>t DEF DidBatch, Now, Is, Stored
  <2>4. Others(c, task'[c].ids, {})
    BY <2>1 DEF DidBatch, Now, Is
  <2> QED
    BY <2>2, <2>3, <2>4, <1>g, FindsStay
<1>3. ASSUME NEW c \in Clients, NEW v \in Vals, NEW w \in Vals, NEW ids \in SUBSET Ids,
             UpdateStart(c, v, w, ids)
      PROVE  FindsHold'
  <2>1. DidUpdateStart(c, v, w, ids)
    BY <1>3, UpdateStartDoes
  <2>2. task'[c].op # "find"
    BY <2>1, PhaseOps DEF DidUpdateStart, Now, Is, Writers
  <2>3. \A k \in Ids : docs'[k] # docs[k] => k \in task[c].ids \/ k \in task'[c].ids
    BY <2>1, <1>t DEF DidUpdateStart, Now, Is, Stored
  <2>4. Others(c, task'[c].ids, {})
    BY <2>1 DEF DidUpdateStart, Now, Is
  <2> QED
    BY <2>2, <2>3, <2>4, <1>g, FindsStay
<1>4. ASSUME NEW c \in Clients, NEW v \in Vals, NEW ids \in SUBSET Ids,
             DeleteStart(c, v, ids)
      PROVE  FindsHold'
  <2>1. DidDeleteStart(c, v, ids)
    BY <1>4, DeleteStartDoes
  <2>2. task'[c].op # "find"
    BY <2>1, PhaseOps DEF DidDeleteStart, Now, Is, Writers
  <2>3. \A k \in Ids : docs'[k] # docs[k] => k \in task[c].ids \/ k \in task'[c].ids
    BY <2>1, <1>t DEF DidDeleteStart, Now, Is, Stored
  <2>4. Others(c, task'[c].ids, {})
    BY <2>1 DEF DidDeleteStart, Now, Is
  <2> QED
    BY <2>2, <2>3, <2>4, <1>g, FindsStay
<1>5. ASSUME NEW c \in Clients, NEW i \in Ids, Get(c, i)
      PROVE  FindsHold'
  <2>1. DidGet(c, i)
    BY <1>5, GetDoes
  <2>2. task'[c].op # "find"
    BY <2>1, PhaseOps DEF DidGet, Now, Is, Writers
  <2>3. \A k \in Ids : docs'[k] # docs[k] => k \in task[c].ids \/ k \in task'[c].ids
    BY <2>1, <1>t DEF DidGet, Now, Is, Stored
  <2>4. Others(c, task'[c].ids, {})
    BY <2>1 DEF DidGet, Now, Is
  <2> QED
    BY <2>2, <2>3, <2>4, <1>g, FindsStay
<1>6. ASSUME NEW c \in Clients, NEW v \in Vals, NEW alone \in BOOLEAN, Find(c, v, alone)
      PROVE  FindsHold'
  <2>1. DidFind(c, v, alone)
    BY <1>6, FindDoes
  <2>2. ASSUME NEW k \in Ids, task'[c].op = "find", k \notin task'[c].moved, excuse'[k] = {}
        PROVE  FindIs(task[c], k)'
    <3>d. docs' = docs /\ excuse[k] = {}
      BY <2>1, <2>2, <1>g DEF DidFind, ExcuseGrows
    <3>s. Settled(k)
      BY <2>1, <2>2 DEF DidFind, Now, Is, Moving, Settled
    <3>k. \A u \in Vals : FlexEnabled => (u \in flex[k] <=> docs[k] = u)
      BY <3>d, <3>s, Calm
    <3>1. CASE alone /\ FlexIds(v) # {}
      <4>1. FlexEnabled
        BY <3>1, <1>t DEF FlexOff, FlexIds
      <4>2. task'[c].todo = FlexIds(v) /\ task'[c].pc = "fetch" /\ task'[c].src = "flex" /\
              task'[c].got = {} /\ task'[c].val = v
        BY <2>1, <3>1 DEF DidFind, Now, Is
      <4>3. k \in FlexIds(v) <=> docs[k] = v
        BY <3>k, <4>1 DEF FlexIds
      <4> QED
        BY <3>d, <4>2, <4>3 DEF FindIs, InHand, Answered
    <3>2. CASE ~(alone /\ FlexIds(v) # {})
      <4>1. task'[c].pc = "lock" /\ task'[c].got = {}
        BY <2>1, <3>2 DEF DidFind, Now, Is
      <4> QED
        BY <4>1 DEF FindIs
    <3> QED
      BY <3>1, <3>2
  <2>3. Others(c, task'[c].ids, {}) /\ docs' = docs
    BY <2>1 DEF DidFind, Now, Is
  <2> QED
    BY <2>2, <2>3, <1>g, FindsStay
<1>7. ASSUME NEW c \in Clients, NEW v \in Vals, Count(c, v)
      PROVE  FindsHold'
  <2>1. DidCount(c, v)
    BY <1>7, CountDoes
  <2>2. task'[c].op # "find"
    BY <2>1, PhaseOps DEF DidCount, Now, Is, Writers
  <2>3. \A k \in Ids : docs'[k] # docs[k] => k \in task[c].ids \/ k \in task'[c].ids
    BY <2>1, <1>t DEF DidCount, Now, Is, Stored
  <2>4. Others(c, task'[c].ids, {})
    BY <2>1 DEF DidCount, Now, Is
  <2> QED
    BY <2>2, <2>3, <2>4, <1>g, FindsStay
<1>8. ASSUME NEW c \in Clients, Refused(c)
      PROVE  FindsHold'
  <2>1. UNCHANGED <<task, docs>> /\ \A k \in Ids : excuse[k] \subseteq excuse'[k]
    BY <1>8, <1>g DEF Refused, badgerVars, ExcuseGrows
  <2> QED
    BY <2>1 DEF FindsHold, FindIs, InHand
<1>9. ASSUME NEW c \in Clients, InsertIndex(c)
      PROVE  FindsHold'
  <2>1. DidInsertIndex(c)
    BY <1>9, InsertIndexDoes
  <2>2. task'[c].op # "find"
    BY <2>1, PhaseOps DEF DidInsertIndex, Now, Is, Writers
  <2>3. \A k \in Ids : docs'[k] # docs[k] => k \in task[c].ids \/ k \in task'[c].ids
    BY <2>1, <1>t DEF DidInsertIndex, Now, Is, Stored
  <2>4. Others(c, task'[c].ids, {})
    BY <2>1 DEF DidInsertIndex, Now, Is
  <2> QED
    BY <2>2, <2>3, <2>4, <1>g, FindsStay
<1>10. ASSUME NEW c \in Clients, InsertIndexFails(c)
      PROVE  FindsHold'
  <2>1. DidInsertIndexFails(c)
    BY <1>10, InsertIndexFailsDoes
  <2>2. task'[c].op # "find"
    BY <2>1, PhaseOps DEF DidInsertIndexFails, Now, Is, Writers
  <2>3. \A k \in Ids : docs'[k] # docs[k] => k \in task[c].ids \/ k \in task'[c].ids
    BY <2>1, <1>t DEF DidInsertIndexFails, Now, Is, Stored
  <2>4. Others(c, task'[c].ids, {})
    BY <2>1 DEF DidInsertIndexFails, Now, Is
  <2> QED
    BY <2>2, <2>3, <2>4, <1>g, FindsStay
<1>11. ASSUME NEW c \in Clients, BatchFlush(c)
      PROVE  FindsHold'
  <2>1. DidBatchFlush(c)
    BY <1>11, BatchFlushDoes
  <2>2. task'[c].op # "find"
    BY <2>1, PhaseOps DEF DidBatchFlush, Now, Is, Writers
  <2>3. \A k \in Ids : docs'[k] # docs[k] => k \in task[c].ids \/ k \in task'[c].ids
    BY <2>1, <1>t DEF DidBatchFlush, Now, Is, Stored
  <2>4. Others(c, task'[c].ids, task[c].ids)
    BY <2>1 DEF DidBatchFlush, Now, Is
  <2> QED
    BY <2>2, <2>3, <2>4, <1>g, FindsStay
<1>12. ASSUME NEW c \in Clients, NEW stored \in SUBSET Ids, BatchFlushFails(c, stored)
      PROVE  FindsHold'
  <2>1. DidBatchFlushFails(c, stored)
    BY <1>12, BatchFlushFailsDoes
  <2>2. task'[c].op # "find"
    BY <2>1, PhaseOps DEF DidBatchFlushFails, Now, Is, Writers
  <2>3. \A k \in Ids : docs'[k] # docs[k] => k \in task[c].ids \/ k \in task'[c].ids
    BY <2>1, <1>t DEF DidBatchFlushFails, Now, Is, Stored
  <2>4. Others(c, task'[c].ids, stored)
    BY <2>1 DEF DidBatchFlushFails, Now, Is
  <2> QED
    BY <2>2, <2>3, <2>4, <1>g, FindsStay
<1>13. ASSUME NEW c \in Clients, LoadCount(c)
      PROVE  FindsHold'
  <2>1. DidLoadCount(c)
    BY <1>13, LoadCountDoes
  <2>2. task'[c].op # "find"
    BY <2>1, PhaseOps DEF DidLoadCount, Now, Is, Writers
  <2>3. \A k \in Ids : docs'[k] # docs[k] => k \in task[c].ids \/ k \in task'[c].ids
    BY <2>1, <1>t DEF DidLoadCount, Now, Is, Stored
  <2>4. Others(c, task'[c].ids, {})
    BY <2>1 DEF DidLoadCount, Now, Is
  <2> QED
    BY <2>2, <2>3, <2>4, <1>g, FindsStay
<1>14. ASSUME NEW c \in Clients, SaveBegins(c)
      PROVE  FindsHold'
  <2>1. DidSaveBegins(c)
    BY <1>14, SaveBeginsDoes
  <2>2. task'[c].op # "find"
    BY <2>1, PhaseOps DEF DidSaveBegins, Now, Is, Writers
  <2>3. \A k \in Ids : docs'[k] # docs[k] => k \in task[c].ids \/ k \in task'[c].ids
    BY <2>1, <1>t DEF DidSaveBegins, Now, Is, Stored
  <2>4. Others(c, task'[c].ids, {})
    BY <2>1 DEF DidSaveBegins, Now, Is
  <2> QED
    BY <2>2, <2>3, <2>4, <1>g, FindsStay
<1>15. ASSUME NEW c \in Clients, SaveCount(c)
      PROVE  FindsHold'
  <2>1. DidSaveCount(c)
    BY <1>15, SaveCountDoes
  <2>2. task'[c].op # "find"
    BY <2>1, PhaseOps DEF DidSaveCount, Now, Is, Writers
  <2>3. \A k \in Ids : docs'[k] # docs[k] => k \in task[c].ids \/ k \in task'[c].ids
    BY <2>1, <1>t DEF DidSaveCount, Now, Is, Stored
  <2>4. Others(c, task'[c].ids, {})
    BY <2>1 DEF DidSaveCount, Now, Is
  <2> QED
    BY <2>2, <2>3, <2>4, <1>g, FindsStay
<1>16. ASSUME NEW c \in Clients, SaveFails(c)
      PROVE  FindsHold'
  <2>1. DidSaveFails(c)
    BY <1>16, SaveFailsDoes
  <2>2. task'[c].op # "find"
    BY <2>1, PhaseOps DEF DidSaveFails, Now, Is, Writers
  <2>3. \A k \in Ids : docs'[k] # docs[k] => k \in task[c].ids \/ k \in task'[c].ids
    BY <2>1, <1>t DEF DidSaveFails, Now, Is, Stored
  <2>4. Others(c, task'[c].ids, {})
    BY <2>1 DEF DidSaveFails, Now, Is
  <2> QED
    BY <2>2, <2>3, <2>4, <1>g, FindsStay
<1>17. ASSUME NEW c \in Clients, UpdateCommit(c)
      PROVE  FindsHold'
  <2>1. DidUpdateCommit(c)
    BY <1>17, UpdateCommitDoes
  <2>2. task'[c].op # "find"
    BY <2>1, PhaseOps DEF DidUpdateCommit, Now, Is, Writers
  <2>3. \A k \in Ids : docs'[k] # docs[k] => k \in task[c].ids \/ k \in task'[c].ids
    BY <2>1, <1>t DEF DidUpdateCommit, Now, Is, Stored
  <2>4. Others(c, task'[c].ids, task[c].ids)
    BY <2>1 DEF DidUpdateCommit, Now, Is
  <2> QED
    BY <2>2, <2>3, <2>4, <1>g, FindsStay
<1>18. ASSUME NEW c \in Clients, UpdateFails(c)
      PROVE  FindsHold'
  <2>1. DidUpdateFails(c)
    BY <1>18, UpdateFailsDoes
  <2>2. task'[c].op # "find"
    BY <2>1, PhaseOps DEF DidUpdateFails, Now, Is, Writers
  <2>3. \A k \in Ids : docs'[k] # docs[k] => k \in task[c].ids \/ k \in task'[c].ids
    BY <2>1, <1>t DEF DidUpdateFails, Now, Is, Stored
  <2>4. Others(c, task'[c].ids, {})
    BY <2>1 DEF DidUpdateFails, Now, Is
  <2> QED
    BY <2>2, <2>3, <2>4, <1>g, FindsStay
<1>19. ASSUME NEW c \in Clients, DeleteFound(c)
      PROVE  FindsHold'
  <2>1. DidDeleteFound(c)
    BY <1>19, DeleteFoundDoes
  <2>2. task'[c].op # "find"
    BY <2>1, PhaseOps DEF DidDeleteFound, Now, Is, Writers
  <2>3. \A k \in Ids : docs'[k] # docs[k] => k \in task[c].ids \/ k \in task'[c].ids
    BY <2>1, <1>t DEF DidDeleteFound, Now, Is, Stored
  <2>4. Others(c, task'[c].ids, {})
    BY <2>1 DEF DidDeleteFound, Now, Is
  <2> QED
    BY <2>2, <2>3, <2>4, <1>g, FindsStay
<1>20. ASSUME NEW c \in Clients, DeleteCommit(c)
      PROVE  FindsHold'
  <2>1. DidDeleteCommit(c)
    BY <1>20, DeleteCommitDoes
  <2>2. task'[c].op # "find"
    BY <2>1, PhaseOps DEF DidDeleteCommit, Now, Is, Writers
  <2>3. \A k \in Ids : docs'[k] # docs[k] => k \in task[c].ids \/ k \in task'[c].ids
    BY <2>1, <1>t DEF DidDeleteCommit, Now, Is, Stored
  <2>4. Others(c, task'[c].ids, task[c].ids)
    BY <2>1 DEF DidDeleteCommit, Now, Is
  <2> QED
    BY <2>2, <2>3, <2>4, <1>g, FindsStay
<1>21. ASSUME NEW c \in Clients, DeleteFails(c)
      PROVE  FindsHold'
  <2>1. DidDeleteFails(c)
    BY <1>21, DeleteFailsDoes
  <2>2. task'[c].op # "find"
    BY <2>1, PhaseOps DEF DidDeleteFails, Now, Is, Writers
  <2>3. \A k \in Ids : docs'[k] # docs[k] => k \in task[c].ids \/ k \in task'[c].ids
    BY <2>1, <1>t DEF DidDeleteFails, Now, Is, Stored
  <2>4. Others(c, task'[c].ids, {})
    BY <2>1 DEF DidDeleteFails, Now, Is
  <2> QED
    BY <2>2, <2>3, <2>4, <1>g, FindsStay
<1>22. ASSUME NEW c \in Clients, NEW i \in Ids, CacheInsert(c, i)
      PROVE  FindsHold'
  <2>1. DidCacheInsert(c, i)
    BY <1>22, CacheInsertDoes
  <2>2. task'[c].op # "find"
    BY <2>1, PhaseOps DEF DidCacheInsert, Now, Is, Writers
  <2>3. \A k \in Ids : docs'[k] # docs[k] => k \in task[c].ids \/ k \in task'[c].ids
    BY <2>1, <1>t DEF DidCacheInsert, Now, Is, Stored
  <2>4. Others(c, task'[c].ids, {})
    BY <2>1 DEF DidCacheInsert, Now, Is
  <2> QED
    BY <2>2, <2>3, <2>4, <1>g, FindsStay
<1>23. ASSUME NEW c \in Clients, NEW i \in Ids, Tell(c, i)
      PROVE  FindsHold'
  <2>1. DidTell(c, i)
    BY <1>23, TellDoes
  <2>2. task'[c].op # "find"
    BY <2>1, PhaseOps DEF DidTell, Now, Is, Writers
  <2>3. \A k \in Ids : docs'[k] # docs[k] => k \in task[c].ids \/ k \in task'[c].ids
    BY <2>1, <1>t DEF DidTell, Now, Is, Stored
  <2>4. Others(c, task'[c].ids, {})
    BY <2>1 DEF DidTell, Now, Is
  <2> QED
    BY <2>2, <2>3, <2>4, <1>g, FindsStay
<1>24. ASSUME NEW c \in Clients, NEW i \in Ids, UpdateShow(c, i)
      PROVE  FindsHold'
  <2>1. DidUpdateShow(c, i)
    BY <1>24, UpdateShowDoes
  <2>2. task'[c].op # "find"
    BY <2>1, PhaseOps DEF DidUpdateShow, Now, Is, Writers
  <2>3. \A k \in Ids : docs'[k] # docs[k] => k \in task[c].ids \/ k \in task'[c].ids
    BY <2>1, <1>t DEF DidUpdateShow, Now, Is, Stored
  <2>4. Others(c, task'[c].ids, {})
    BY <2>1 DEF DidUpdateShow, Now, Is
  <2> QED
    BY <2>2, <2>3, <2>4, <1>g, FindsStay
<1>25. ASSUME NEW c \in Clients, NEW i \in Ids, DeleteFlex(c, i)
      PROVE  FindsHold'
  <2>1. DidDeleteFlex(c, i)
    BY <1>25, DeleteFlexDoes
  <2>2. task'[c].op # "find"
    BY <2>1, PhaseOps DEF DidDeleteFlex, Now, Is, Writers
  <2>3. \A k \in Ids : docs'[k] # docs[k] => k \in task[c].ids \/ k \in task'[c].ids
    BY <2>1, <1>t DEF DidDeleteFlex, Now, Is, Stored
  <2>4. Others(c, task'[c].ids, {})
    BY <2>1 DEF DidDeleteFlex, Now, Is
  <2> QED
    BY <2>2, <2>3, <2>4, <1>g, FindsStay
<1>26. ASSUME NEW c \in Clients, NEW i \in Ids, DeleteShow(c, i)
      PROVE  FindsHold'
  <2>1. DidDeleteShow(c, i)
    BY <1>26, DeleteShowDoes
  <2>2. task'[c].op # "find"
    BY <2>1, PhaseOps DEF DidDeleteShow, Now, Is, Writers
  <2>3. \A k \in Ids : docs'[k] # docs[k] => k \in task[c].ids \/ k \in task'[c].ids
    BY <2>1, <1>t DEF DidDeleteShow, Now, Is, Stored
  <2>4. Others(c, task'[c].ids, {})
    BY <2>1 DEF DidDeleteShow, Now, Is
  <2> QED
    BY <2>2, <2>3, <2>4, <1>g, FindsStay
<1>27. ASSUME NEW c \in Clients, FindLocks(c)
      PROVE  FindsHold'
  <2>1. DidFindLocks(c)
    BY <1>27, FindLocksDoes
  <2>2. ASSUME NEW k \in Ids, task'[c].op = "find", k \notin task'[c].moved, excuse'[k] = {}
        PROVE  FindIs(task[c], k)'
    <3>d. docs' = docs /\ excuse[k] = {}
      BY <2>1, <2>2, <1>g DEF DidFindLocks, ExcuseGrows
    <3>m. task[c].op = "find" /\ k \notin task[c].moved
      BY <2>1, <2>2 DEF DidFindLocks, Now, Is
    <3>s. Settled(k)
      BY <3>m DEF Locks, MovedSees, Settled, Readers
    <3>k. l1[k] \in {NoVal, docs[k]} /\ (docs[k] # NoVal => docs[k] \in index[k])
      BY <3>d, <3>s, Calm
    <3>i. FindIs(task[c], k)
      BY <3>d, <3>m DEF FindsHold
    <3>f. task[c].op = "find" /\ task[c].got = {}
      BY <2>1, <3>m, <1>s DEF DidFindLocks, ReaderShape, Readers
    <3>1. task'[c].got = {} /\ task'[c].pc = "lookup"
      BY <2>1, <3>f DEF DidFindLocks, Now, Is
    <3> QED
      BY <3>1 DEF FindIs
  <2>3. Others(c, task'[c].ids, {}) /\ docs' = docs
    BY <2>1 DEF DidFindLocks, Now, Is
  <2> QED
    BY <2>2, <2>3, <1>g, FindsStay
<1>28. ASSUME NEW c \in Clients, LookupCached(c)
      PROVE  FindsHold'
  <2>1. DidLookupCached(c)
    BY <1>28, LookupCachedDoes
  <2>2. ASSUME NEW k \in Ids, task'[c].op = "find", k \notin task'[c].moved, excuse'[k] = {}
        PROVE  FindIs(task[c], k)'
    <3>d. docs' = docs /\ excuse[k] = {}
      BY <2>1, <2>2, <1>g DEF DidLookupCached, ExcuseGrows
    <3>m. task[c].op = "find" /\ k \notin task[c].moved
      BY <2>1, <2>2 DEF DidLookupCached, Now, Is
    <3>s. Settled(k)
      BY <3>m DEF Locks, MovedSees, Settled, Readers
    <3>k. l1[k] \in {NoVal, docs[k]} /\ (docs[k] # NoVal => docs[k] \in index[k])
      BY <3>d, <3>s, Calm
    <3>i. FindIs(task[c], k)
      BY <3>d, <3>m DEF FindsHold
    <3>f. task[c].op = "find" /\ task[c].got = {}
      BY <2>1, <3>m, <1>s DEF DidLookupCached, ReaderShape, Readers
    <3>1. task[c].pc = "lookup" /\ task'[c].got = {} /\ task'[c].pc \in {"scan", "fetch"} /\
            (task'[c].pc = "fetch" => task'[c].src = "l2")
      BY <2>1, <3>f DEF DidLookupCached, Now, Is
    <3> QED
      BY <3>1 DEF FindIs
  <2>3. Others(c, task'[c].ids, {}) /\ docs' = docs
    BY <2>1 DEF DidLookupCached, Now, Is
  <2> QED
    BY <2>2, <2>3, <1>g, FindsStay
<1>29. ASSUME NEW c \in Clients, LookupMisses(c)
      PROVE  FindsHold'
  <2>1. DidLookupMisses(c)
    BY <1>29, LookupMissesDoes
  <2>2. ASSUME NEW k \in Ids, task'[c].op = "find", k \notin task'[c].moved, excuse'[k] = {}
        PROVE  FindIs(task[c], k)'
    <3>d. docs' = docs /\ excuse[k] = {}
      BY <2>1, <2>2, <1>g DEF DidLookupMisses, ExcuseGrows
    <3>m. task[c].op = "find" /\ k \notin task[c].moved
      BY <2>1, <2>2 DEF DidLookupMisses, Now, Is
    <3>s. Settled(k)
      BY <3>m DEF Locks, MovedSees, Settled, Readers
    <3>k. l1[k] \in {NoVal, docs[k]} /\ (docs[k] # NoVal => docs[k] \in index[k])
      BY <3>d, <3>s, Calm
    <3>i. FindIs(task[c], k)
      BY <3>d, <3>m DEF FindsHold
    <3>f. task[c].op = "find" /\ task[c].got = {}
      BY <2>1, <3>m, <1>s DEF DidLookupMisses, ReaderShape, Readers
    <3>1. task'[c].got = {} /\ task'[c].pc = "seek"
      BY <2>1, <3>f DEF DidLookupMisses, Now, Is
    <3> QED
      BY <3>1 DEF FindIs
  <2>3. Others(c, task'[c].ids, {}) /\ docs' = docs
    BY <2>1 DEF DidLookupMisses, Now, Is
  <2> QED
    BY <2>2, <2>3, <1>g, FindsStay
<1>30. ASSUME NEW c \in Clients, NEW page \in SUBSET Ids, Seek(c, page)
      PROVE  FindsHold'
  <2>1. DidSeek(c, page)
    BY <1>30, SeekDoes
  <2>2. ASSUME NEW k \in Ids, task'[c].op = "find", k \notin task'[c].moved, excuse'[k] = {}
        PROVE  FindIs(task[c], k)'
    <3>d. docs' = docs /\ excuse[k] = {}
      BY <2>1, <2>2, <1>g DEF DidSeek, ExcuseGrows
    <3>m. task[c].op = "find" /\ k \notin task[c].moved
      BY <2>1, <2>2 DEF DidSeek, Now, Is
    <3>s. Settled(k)
      BY <3>m DEF Locks, MovedSees, Settled, Readers
    <3>k. l1[k] \in {NoVal, docs[k]} /\ (docs[k] # NoVal => docs[k] \in index[k])
      BY <3>d, <3>s, Calm
    <3>i. FindIs(task[c], k)
      BY <3>d, <3>m DEF FindsHold
    <3>f. task[c].op = "find" /\ task[c].got = {} /\ task[c].val \in Vals
      BY <2>1, <3>m, <1>s DEF DidSeek, ReaderShape, Readers
    <3>1. page = Indexed(task[c].val)
      <4>1. page \in Page(task[c], Indexed(task[c].val)) /\
              Indexed(task[c].val) \in SUBSET Ids
        BY <2>1 DEF DidSeek, Indexed
      <4> QED
        BY <4>1, <3>f, WholePage
    <3>2. docs[k] = task[c].val => k \in page
      BY <3>k, <3>f, <3>1, <1>t DEF Indexed
    <3>3. task'[c].pc = "keep" /\ task'[c].todo = page /\ task'[c].val = task[c].val /\
            task'[c].got = {}
      BY <2>1, <3>f DEF DidSeek, Now, Is
    <3> QED
      BY <3>d, <3>2, <3>3 DEF FindIs
  <2>3. Others(c, task'[c].ids, {}) /\ docs' = docs
    BY <2>1 DEF DidSeek, Now, Is
  <2> QED
    BY <2>2, <2>3, <1>g, FindsStay
<1>31. ASSUME NEW c \in Clients, Keep(c)
      PROVE  FindsHold'
  <2>1. DidKeep(c)
    BY <1>31, KeepDoes
  <2>2. ASSUME NEW k \in Ids, task'[c].op = "find", k \notin task'[c].moved, excuse'[k] = {}
        PROVE  FindIs(task[c], k)'
    <3>d. docs' = docs /\ excuse[k] = {}
      BY <2>1, <2>2, <1>g DEF DidKeep, ExcuseGrows
    <3>m. task[c].op = "find" /\ k \notin task[c].moved
      BY <2>1, <2>2 DEF DidKeep, Now, Is
    <3>s. Settled(k)
      BY <3>m DEF Locks, MovedSees, Settled, Readers
    <3>k. l1[k] \in {NoVal, docs[k]} /\ (docs[k] # NoVal => docs[k] \in index[k])
      BY <3>d, <3>s, Calm
    <3>i. FindIs(task[c], k)
      BY <3>d, <3>m DEF FindsHold
    <3>f. task[c].op = "find" /\ task[c].got = {}
      BY <2>1, <3>m, <1>s DEF DidKeep, ReaderShape, Readers
    <3>1. task[c].pc = "keep" /\ task'[c].got = {} /\ task'[c].val = task[c].val
          /\ (task[c].todo = {} => task'[c].pc = "scan")
          /\ (task[c].todo # {} => task'[c].pc = "fetch" /\ task'[c].src = "index" /\
               task'[c].todo = task[c].todo)
      BY <2>1, <3>f DEF DidKeep, Now, Is
    <3> QED
      BY <3>d, <3>i, <3>1 DEF FindIs, InHand
  <2>3. Others(c, task'[c].ids, {}) /\ docs' = docs
    BY <2>1 DEF DidKeep, Now, Is
  <2> QED
    BY <2>2, <2>3, <1>g, FindsStay
<1>32. ASSUME NEW c \in Clients, Scan(c)
      PROVE  FindsHold'
  <2>1. DidScan(c)
    BY <1>32, ScanDoes
  <2>2. ASSUME NEW k \in Ids, task'[c].op = "find", k \notin task'[c].moved, excuse'[k] = {}
        PROVE  FindIs(task[c], k)'
    <3>d. docs' = docs /\ excuse[k] = {}
      BY <2>1, <2>2, <1>g DEF DidScan, ExcuseGrows
    <3>m. task[c].op = "find" /\ k \notin task[c].moved
      BY <2>1, <2>2 DEF DidScan, Now, Is
    <3>s. Settled(k)
      BY <3>m DEF Locks, MovedSees, Settled, Readers
    <3>k. l1[k] \in {NoVal, docs[k]} /\ (docs[k] # NoVal => docs[k] \in index[k])
      BY <3>d, <3>s, Calm
    <3>i. FindIs(task[c], k)
      BY <3>d, <3>m DEF FindsHold
    <3>f. task[c].op = "find" /\ task[c].got = {}
      BY <2>1, <3>m, <1>s DEF DidScan, ReaderShape, Readers
    <3>1. task'[c].pc = "done" /\ task'[c].val = task[c].val
      BY <2>1 DEF DidScan, Now, Is
    <3>2. task'[c].got = {<<j, docs[j]>> : j \in Matching(task[c].val)}
      BY <2>1 DEF DidScan, Now, Is
    <3>3. \A g \in task'[c].got : g[1] = k => g[2] = docs[k] /\ docs[k] = task[c].val
      BY <3>2 DEF Matching
    <3>4. docs[k] = task[c].val => Answered(task'[c].got, k)
      <4>1. ASSUME docs[k] = task[c].val PROVE <<k, docs[k]>> \in task'[c].got
        BY <3>2, <4>1 DEF Matching
      <4> QED
        BY <4>1 DEF Answered
    <3> QED
      BY <3>d, <3>1, <3>3, <3>4 DEF FindIs, Answered
  <2>3. Others(c, task'[c].ids, {}) /\ docs' = docs
    BY <2>1 DEF DidScan, Now, Is
  <2> QED
    BY <2>2, <2>3, <1>g, FindsStay
<1>33. ASSUME NEW c \in Clients, Fetched(c)
      PROVE  FindsHold'
  <2>1. DidFetched(c)
    BY <1>33, FetchedDoes
  <2>2. ASSUME NEW k \in Ids, task'[c].op = "find", k \notin task'[c].moved, excuse'[k] = {}
        PROVE  FindIs(task[c], k)'
    <3>d. docs' = docs /\ excuse[k] = {}
      BY <2>1, <2>2, <1>g DEF DidFetched, ExcuseGrows
    <3>m. task[c].op = "find" /\ k \notin task[c].moved
      BY <2>1, <2>2 DEF DidFetched, Now, Is
    <3>s. Settled(k)
      BY <3>m DEF Locks, MovedSees, Settled, Readers
    <3>k. l1[k] \in {NoVal, docs[k]} /\ (docs[k] # NoVal => docs[k] \in index[k])
      BY <3>d, <3>s, Calm
    <3>i. FindIs(task[c], k)
      BY <3>d, <3>m DEF FindsHold
    <3>f. task[c].op = "find" /\ task[c].src \in {"flex", "l2", "index"}
      BY <2>1, <3>m, <1>s DEF DidFetched, ReaderShape, Readers
    <3>1. task[c].pc = "fetch" /\ task[c].todo = {} /\ task'[c].val = task[c].val
      BY <2>1 DEF DidFetched, Now, Is
    <3>2. InHand(task[c], k) <=> Answered(task[c].got, k)
      BY <3>1 DEF InHand
    <3>3. CASE task[c].src = "flex" /\ task[c].got = {}
      <4>1. task'[c].pc = "lock" /\ task'[c].got = {}
        BY <2>1, <3>3 DEF DidFetched, Now, Is
      <4> QED
        BY <4>1, <3>3, <3>i DEF FindIs
    <3>4. CASE ~(task[c].src = "flex" /\ task[c].got = {}) /\
                 task[c].src \in {"index", "l2"}
      <4>1. task'[c].pc = "done" /\
              task'[c].got = {g \in task[c].got : g[2] = task[c].val} /\
                task'[c].src = task[c].src
        BY <2>1, <3>4 DEF DidFetched, Now, Is
      <4>2. \A g \in task'[c].got : g[1] = k => g[2] = docs[k] /\ g[2] = task[c].val
        BY <3>i, <4>1 DEF FindIs
      <4>3. ASSUME task[c].src = "index", docs[k] = task[c].val PROVE Answered(task'[c].got,
                   k)
        <5>1. PICK g \in task[c].got : g[1] = k
          BY <3>i, <3>1, <3>2, <4>3 DEF FindIs, Answered
        <5>2. g[2] = docs[k]
          BY <3>i, <5>1 DEF FindIs
        <5> QED
          BY <4>1, <4>3, <5>1, <5>2 DEF Answered
      <4> QED
        BY <3>d, <3>1, <3>4, <4>1, <4>2, <4>3 DEF FindIs, Answered
    <3>5. CASE ~(task[c].src = "flex" /\ task[c].got = {}) /\
                 task[c].src \notin {"index", "l2"}
      <4>1. task'[c].pc = "done" /\ task'[c].got = task[c].got /\ task'[c].src = task[c].src
        BY <2>1, <3>5 DEF DidFetched, Now, Is
      <4>2. task[c].src = "flex"
        BY <3>f, <3>1, <3>5
      <4> QED
        BY <3>d, <3>i, <3>1, <3>2, <4>1, <4>2 DEF FindIs
    <3> QED
      BY <3>3, <3>4, <3>5
  <2>3. Others(c, task'[c].ids, {}) /\ docs' = docs
    BY <2>1 DEF DidFetched, Now, Is
  <2> QED
    BY <2>2, <2>3, <1>g, FindsStay
<1>34. ASSUME NEW c \in Clients, Return(c)
      PROVE  FindsHold'
  <2>1. DidReturn(c)
    BY <1>34, ReturnDoes
  <2>2. task'[c].op # "find"
    BY <2>1, PhaseOps DEF DidReturn, Now, Is, Writers
  <2>3. \A k \in Ids : docs'[k] # docs[k] => k \in task[c].ids \/ k \in task'[c].ids
    BY <2>1, <1>t DEF DidReturn, Now, Is, Stored
  <2>4. Others(c, task'[c].ids, {})
    BY <2>1 DEF DidReturn, Now, Is
  <2> QED
    BY <2>2, <2>3, <2>4, <1>g, FindsStay
<1>35. ASSUME NEW c \in Clients, NEW i \in Ids, Fetch(c, i)
      PROVE  FindsHold'
  <2>1. DidFetch(c, i)
    BY <1>35, FetchDoes
  <2>2. ASSUME NEW k \in Ids, task'[c].op = "find", k \notin task'[c].moved, excuse'[k] = {}
        PROVE  FindIs(task[c], k)'
    <3>d. docs' = docs /\ excuse[k] = {}
      BY <2>1, <2>2, <1>g DEF DidFetch, ExcuseGrows
    <3>m. task[c].op = "find" /\ k \notin task[c].moved
      BY <2>1, <2>2 DEF DidFetch, Now, Is
    <3>s. Settled(k)
      BY <3>m DEF Locks, MovedSees, Settled, Readers
    <3>k. l1[k] \in {NoVal, docs[k]} /\ (docs[k] # NoVal => docs[k] \in index[k])
      BY <3>d, <3>s, Calm
    <3>i. FindIs(task[c], k)
      BY <3>d, <3>m DEF FindsHold
    <3>f. task[c].op = "find" /\ task[c].put = NoDocs /\ task[c].val \in Vals
      BY <2>1, <3>m, <1>s DEF DidFetch, ReaderShape, Readers
    <3>1. task'[c].val = task[c].val /\ task'[c].src = task[c].src /\
            task'[c].todo = task[c].todo \ {i}
          /\ task[c].pc = "fetch" /\ i \in task[c].todo /\
               task'[c].pc \in {"fetch", "fill"} /\ task[c].put = NoDocs
      BY <2>1, <3>f DEF DidFetch, Now, Is
    <3>2. CASE l1[i] # NoVal
      <4>1. task'[c].got = task[c].got \cup {<<i, l1[i]>>} /\ task'[c].pc = "fetch"
        BY <2>1, <3>1, <3>2 DEF DidFetch, Now, Is
      <4>2. k = i => l1[i] = docs[k]
        BY <3>k, <3>2
      <4>a. Answered(task'[c].got, k) <=> (k = i \/ Answered(task[c].got, k))
        BY <4>1, PairMore
      <4>3. InHand(task'[c], k) <=> InHand(task[c], k)
        BY <3>1, <4>1, <4>a DEF InHand
      <4>4. \A g \in task'[c].got : g[1] = k => g[2] = docs[k]
        BY <3>i, <4>1, <4>2 DEF FindIs
      <4> QED
        BY <3>d, <3>i, <3>1, <4>1, <4>3, <4>4 DEF FindIs
    <3>3. CASE l1[i] = NoVal /\ docs[i] = NoVal
      <4>1. task'[c].got = task[c].got /\ task'[c].pc = "fetch"
        BY <2>1, <3>1, <3>3 DEF DidFetch, Now, Is
      <4>2. docs[k] = task[c].val => k # i
        BY <3>f, <3>3, <1>t
      <4>3. k # i => (InHand(task'[c], k) <=> InHand(task[c], k))
        BY <3>1, <4>1 DEF InHand
      <4>4. InHand(task'[c], k) => InHand(task[c], k)
        BY <3>1, <4>1 DEF InHand
      <4> QED
        BY <3>d, <3>i, <3>1, <4>1, <4>2, <4>3, <4>4 DEF FindIs
    <3>4. CASE l1[i] = NoVal /\ docs[i] # NoVal
      <4>1. task'[c].got = task[c].got /\ task'[c].pc = "fill" /\
              task'[c].put = [NoDocs EXCEPT ![i] = docs[i]]
        BY <2>1, <3>1, <3>4 DEF DidFetch, Now, Is
      <4>2. task'[c].put[k] = IF k = i THEN docs[i] ELSE NoVal
        BY <4>1 DEF NoDocs
      <4>3. InHand(task'[c], k) <=> InHand(task[c], k)
        BY <3>1, <3>4, <4>1, <4>2 DEF InHand
      <4> QED
        BY <3>d, <3>i, <3>1, <4>1, <4>2, <4>3 DEF FindIs
    <3> QED
      BY <3>2, <3>3, <3>4
  <2>3. Others(c, task'[c].ids, {}) /\ docs' = docs
    BY <2>1 DEF DidFetch, Now, Is
  <2> QED
    BY <2>2, <2>3, <1>g, FindsStay
<1>36. ASSUME NEW c \in Clients, NEW i \in Ids, Fill(c, i)
      PROVE  FindsHold'
  <2>1. DidFill(c, i)
    BY <1>36, FillDoes
  <2>2. ASSUME NEW k \in Ids, task'[c].op = "find", k \notin task'[c].moved, excuse'[k] = {}
        PROVE  FindIs(task[c], k)'
    <3>d. docs' = docs /\ excuse[k] = {}
      BY <2>1, <2>2, <1>g DEF DidFill, ExcuseGrows
    <3>m. task[c].op = "find" /\ k \notin task[c].moved
      BY <2>1, <2>2 DEF DidFill, Now, Is
    <3>s. Settled(k)
      BY <3>m DEF Locks, MovedSees, Settled, Readers
    <3>k. l1[k] \in {NoVal, docs[k]} /\ (docs[k] # NoVal => docs[k] \in index[k])
      BY <3>d, <3>s, Calm
    <3>i. FindIs(task[c], k)
      BY <3>d, <3>m DEF FindsHold
    <3>f. task[c].op = "find" /\ task[c].val \in Vals
      BY <2>1, <3>m, <1>s DEF DidFill, ReaderShape, Readers
    <3>1. /\ task'[c].val = task[c].val /\ task'[c].src = task[c].src /\
               task'[c].todo = task[c].todo
          /\ task[c].pc = "fill" /\ task'[c].pc = "fetch" /\ task[c].put[i] # NoVal
          /\ task'[c].got = task[c].got \cup {<<i, task[c].put[i]>>}
      BY <2>1 DEF DidFill, Now, Is
    <3>2. task[c].put[k] # NoVal => k = i
      BY <3>1, <3>f, <1>s DEF ReaderShape, Readers
    <3>3. k = i => task[c].put[i] = docs[k]
      BY <3>i, <3>1 DEF FindIs
    <3>g. PICK x : task'[c].got = task[c].got \cup {<<i, x>>}
      BY <3>1
    <3>a. Answered(task'[c].got, k) <=> (k = i \/ Answered(task[c].got, k))
      BY <3>g, PairMore
    <3>4. InHand(task'[c], k) <=> InHand(task[c], k)
      BY <3>1, <3>2, <3>a DEF InHand
    <3>5. \A g \in task'[c].got : g[1] = k => g[2] = docs[k]
      BY <3>i, <3>1, <3>3 DEF FindIs
    <3> QED
      BY <3>d, <3>i, <3>1, <3>4, <3>5 DEF FindIs
  <2>3. Others(c, task'[c].ids, {}) /\ docs' = docs
    BY <2>1 DEF DidFill, Now, Is
  <2> QED
    BY <2>2, <2>3, <1>g, FindsStay
<1>37. ASSUME NEW i \in Ids, EvictL1(i)
      PROVE  FindsHold'
  <2>1. UNCHANGED <<task, docs>> /\ \A k \in Ids : excuse[k] \subseteq excuse'[k]
    BY <1>37, <1>g DEF EvictL1, badgerVars, ExcuseGrows
  <2> QED
    BY <2>1 DEF FindsHold, FindIs, InHand
<1>38. ASSUME NEW v \in Vals, EvictL2(v)
      PROVE  FindsHold'
  <2>1. UNCHANGED <<task, docs>> /\ \A k \in Ids : excuse[k] \subseteq excuse'[k]
    BY <1>38, <1>g DEF EvictL2, badgerVars, ExcuseGrows
  <2> QED
    BY <2>1 DEF FindsHold, FindIs, InHand
<1>39. ASSUME Restart
      PROVE  FindsHold'
  <2>1. UNCHANGED <<task, docs>> /\ \A k \in Ids : excuse[k] \subseteq excuse'[k]
    BY <1>39, <1>g DEF Restart, badgerVars, ExcuseGrows
  <2> QED
    BY <2>1 DEF FindsHold, FindIs, InHand
<1>40. CASE UNCHANGED vars
  BY <1>40 DEF vars, badgerVars, ghosts, FindsHold, FindIs, InHand
<1>41. ASSUME NEW c \in Clients, Start(c)
      PROVE  FindsHold'
  BY <1>41, <1>1, <1>2, <1>3, <1>4, <1>5, <1>6, <1>7, <1>8 DEF Start
<1>42. ASSUME NEW c \in Clients, WriteStep(c)
      PROVE  FindsHold'
  BY <1>42, <1>9, <1>10, <1>11, <1>12, <1>13, <1>14, <1>15, <1>16, <1>17, <1>18, <1>19,
     <1>20, <1>21, <1>22, <1>23, <1>24, <1>25, <1>26 DEF WriteStep
<1>43. ASSUME NEW c \in Clients, ReadStep(c)
      PROVE  FindsHold'
  BY <1>43, <1>27, <1>28, <1>29, <1>30, <1>31, <1>32, <1>33, <1>34, <1>35, <1>36
     DEF ReadStep
<1> QED
  BY <1>37, <1>38, <1>39, <1>40, <1>41, <1>42, <1>43 DEF Next

-----------------------------------------------------------------------------
(* What an update changes *)

(* What UpdatesTakeMatching says of a step.                                *)
TakesMatching ==
  \A c \in Clients, i \in Ids :
    /\ task[c].op = "update" /\ task[c].pc = "show" /\ task'[c].pc # "show"
    /\ docs'[i] # docs[i]
    => docs[i] = task[c].val

(* A step of a client that is not in an update takes no other out of its   *)
(* transaction.                                                            *)
LEMMA TakesNothing ==
  ASSUME NEW c \in Clients, task[c].op # "update", NEW ids, NEW w, Others(c, ids, w)
  PROVE  TakesMatching
<1>1. \A d \in Clients : d # c => task'[d].pc = task[d].pc
  BY DEF Others, SameWork
<1> QED
  BY <1>1 DEF TakesMatching

(* Only a commit changes documents, and the snapshot of the update that    *)
(* commits holds.                                                          *)
LEMMA TakesStep ==
  ASSUME Typed, ReadsHold, [Next]_vars
  PROVE  TakesMatching

<1>1. ASSUME NEW c \in Clients, NEW i \in Ids, NEW v \in Vals, Insert(c, i, v)
      PROVE  TakesMatching
  <2>1. DidInsert(c, i, v)
    BY <1>1, InsertDoes
  <2>2. task[c].op # "update" /\ Others(c, {i}, {i})
    BY <2>1 DEF DidInsert, Idle
  <2> QED
    BY <2>2, TakesNothing
<1>2. ASSUME NEW c \in Clients, NEW put \in [Ids -> Vals \cup {NoVal}], Batch(c, put)
      PROVE  TakesMatching
  <2>1. docs' = docs
    BY <1>2, BatchDoes DEF DidBatch
  <2> QED
    BY <2>1 DEF TakesMatching
<1>3. ASSUME NEW c \in Clients, NEW v \in Vals, NEW w \in Vals, NEW ids \in SUBSET Ids,
             UpdateStart(c, v, w, ids)
      PROVE  TakesMatching
  <2>1. docs' = docs
    BY <1>3, UpdateStartDoes DEF DidUpdateStart
  <2> QED
    BY <2>1 DEF TakesMatching
<1>4. ASSUME NEW c \in Clients, NEW v \in Vals, NEW ids \in SUBSET Ids,
             DeleteStart(c, v, ids)
      PROVE  TakesMatching
  <2>1. docs' = docs
    BY <1>4, DeleteStartDoes DEF DidDeleteStart
  <2> QED
    BY <2>1 DEF TakesMatching
<1>5. ASSUME NEW c \in Clients, NEW i \in Ids, Get(c, i)
      PROVE  TakesMatching
  <2>1. docs' = docs
    BY <1>5, GetDoes DEF DidGet
  <2> QED
    BY <2>1 DEF TakesMatching
<1>6. ASSUME NEW c \in Clients, NEW v \in Vals, NEW alone \in BOOLEAN, Find(c, v, alone)
      PROVE  TakesMatching
  <2>1. docs' = docs
    BY <1>6, FindDoes DEF DidFind
  <2> QED
    BY <2>1 DEF TakesMatching
<1>7. ASSUME NEW c \in Clients, NEW v \in Vals, Count(c, v)
      PROVE  TakesMatching
  <2>1. docs' = docs
    BY <1>7, CountDoes DEF DidCount
  <2> QED
    BY <2>1 DEF TakesMatching
<1>8. ASSUME NEW c \in Clients, Refused(c)
      PROVE  TakesMatching
  BY <1>8 DEF Refused, badgerVars, TakesMatching
<1>9. ASSUME NEW c \in Clients, InsertIndex(c)
      PROVE  TakesMatching
  <2>1. docs' = docs
    BY <1>9, InsertIndexDoes DEF DidInsertIndex
  <2> QED
    BY <2>1 DEF TakesMatching
<1>10. ASSUME NEW c \in Clients, InsertIndexFails(c)
      PROVE  TakesMatching
  <2>1. docs' = docs
    BY <1>10, InsertIndexFailsDoes DEF DidInsertIndexFails
  <2> QED
    BY <2>1 DEF TakesMatching
<1>11. ASSUME NEW c \in Clients, BatchFlush(c)
      PROVE  TakesMatching
  <2>1. DidBatchFlush(c)
    BY <1>11, BatchFlushDoes
  <2>2. task[c].op # "update" /\ Others(c, task[c].ids, task[c].ids)
    BY <2>1, PhaseOps DEF DidBatchFlush, Idle
  <2> QED
    BY <2>2, TakesNothing
<1>12. ASSUME NEW c \in Clients, NEW stored \in SUBSET Ids, BatchFlushFails(c, stored)
      PROVE  TakesMatching
  <2>1. DidBatchFlushFails(c, stored)
    BY <1>12, BatchFlushFailsDoes
  <2>2. task[c].op # "update" /\ Others(c, {}, stored)
    BY <2>1, PhaseOps DEF DidBatchFlushFails, Idle
  <2> QED
    BY <2>2, TakesNothing
<1>13. ASSUME NEW c \in Clients, LoadCount(c)
      PROVE  TakesMatching
  <2>1. docs' = docs
    BY <1>13, LoadCountDoes DEF DidLoadCount
  <2> QED
    BY <2>1 DEF TakesMatching
<1>14. ASSUME NEW c \in Clients, SaveBegins(c)
      PROVE  TakesMatching
  <2>1. docs' = docs
    BY <1>14, SaveBeginsDoes DEF DidSaveBegins
  <2> QED
    BY <2>1 DEF TakesMatching
<1>15. ASSUME NEW c \in Clients, SaveCount(c)
      PROVE  TakesMatching
  <2>1. docs' = docs
    BY <1>15, SaveCountDoes DEF DidSaveCount
  <2> QED
    BY <2>1 DEF TakesMatching
<1>16. ASSUME NEW c \in Clients, SaveFails(c)
      PROVE  TakesMatching
  <2>1. docs' = docs
    BY <1>16, SaveFailsDoes DEF DidSaveFails
  <2> QED
    BY <2>1 DEF TakesMatching
<1>17. ASSUME NEW c \in Clients, UpdateCommit(c)
      PROVE  TakesMatching
  <2>1. DidUpdateCommit(c)
    BY <1>17, UpdateCommitDoes
  <2>2. \A i \in Ids : docs'[i] # docs[i] => docs[i] = task[c].val
    <3>1. \A i \in Ids : docs'[i] # docs[i] => i \in task[c].ids
      BY <2>1 DEF DidUpdateCommit
    <3>2. \A i \in task[c].ids : docs[i] = task[c].val
      BY <2>1 DEF DidUpdateCommit, Conflicts, ReadsHold
    <3> QED
      BY <3>1, <3>2
  <2>3. \A d \in Clients : d # c => task'[d].pc = task[d].pc
    BY <2>1 DEF DidUpdateCommit, Others, SameWork
  <2> QED
    BY <2>2, <2>3 DEF TakesMatching
<1>18. ASSUME NEW c \in Clients, UpdateFails(c)
      PROVE  TakesMatching
  <2>1. docs' = docs
    BY <1>18, UpdateFailsDoes DEF DidUpdateFails
  <2> QED
    BY <2>1 DEF TakesMatching
<1>19. ASSUME NEW c \in Clients, DeleteFound(c)
      PROVE  TakesMatching
  <2>1. docs' = docs
    BY <1>19, DeleteFoundDoes DEF DidDeleteFound
  <2> QED
    BY <2>1 DEF TakesMatching
<1>20. ASSUME NEW c \in Clients, DeleteCommit(c)
      PROVE  TakesMatching
  <2>1. DidDeleteCommit(c)
    BY <1>20, DeleteCommitDoes
  <2>2. task[c].op # "update" /\ Others(c, task[c].ids, task[c].ids)
    BY <2>1 DEF DidDeleteCommit, Idle
  <2> QED
    BY <2>2, TakesNothing
<1>21. ASSUME NEW c \in Clients, DeleteFails(c)
      PROVE  TakesMatching
  <2>1. docs' = docs
    BY <1>21, DeleteFailsDoes DEF DidDeleteFails
  <2> QED
    BY <2>1 DEF TakesMatching
<1>22. ASSUME NEW c \in Clients, NEW i \in Ids, CacheInsert(c, i)
      PROVE  TakesMatching
  <2>1. docs' = docs
    BY <1>22, CacheInsertDoes DEF DidCacheInsert
  <2> QED
    BY <2>1 DEF TakesMatching
<1>23. ASSUME NEW c \in Clients, NEW i \in Ids, Tell(c, i)
      PROVE  TakesMatching
  <2>1. docs' = docs
    BY <1>23, TellDoes DEF DidTell
  <2> QED
    BY <2>1 DEF TakesMatching
<1>24. ASSUME NEW c \in Clients, NEW i \in Ids, UpdateShow(c, i)
      PROVE  TakesMatching
  <2>1. docs' = docs
    BY <1>24, UpdateShowDoes DEF DidUpdateShow
  <2> QED
    BY <2>1 DEF TakesMatching
<1>25. ASSUME NEW c \in Clients, NEW i \in Ids, DeleteFlex(c, i)
      PROVE  TakesMatching
  <2>1. docs' = docs
    BY <1>25, DeleteFlexDoes DEF DidDeleteFlex
  <2> QED
    BY <2>1 DEF TakesMatching
<1>26. ASSUME NEW c \in Clients, NEW i \in Ids, DeleteShow(c, i)
      PROVE  TakesMatching
  <2>1. docs' = docs
    BY <1>26, DeleteShowDoes DEF DidDeleteShow
  <2> QED
    BY <2>1 DEF TakesMatching
<1>27. ASSUME NEW c \in Clients, FindLocks(c)
      PROVE  TakesMatching
  <2>1. docs' = docs
    BY <1>27, FindLocksDoes DEF DidFindLocks
  <2> QED
    BY <2>1 DEF TakesMatching
<1>28. ASSUME NEW c \in Clients, LookupCached(c)
      PROVE  TakesMatching
  <2>1. docs' = docs
    BY <1>28, LookupCachedDoes DEF DidLookupCached
  <2> QED
    BY <2>1 DEF TakesMatching
<1>29. ASSUME NEW c \in Clients, LookupMisses(c)
      PROVE  TakesMatching
  <2>1. docs' = docs
    BY <1>29, LookupMissesDoes DEF DidLookupMisses
  <2> QED
    BY <2>1 DEF TakesMatching
<1>30. ASSUME NEW c \in Clients, NEW page \in SUBSET Ids, Seek(c, page)
      PROVE  TakesMatching
  <2>1. docs' = docs
    BY <1>30, SeekDoes DEF DidSeek
  <2> QED
    BY <2>1 DEF TakesMatching
<1>31. ASSUME NEW c \in Clients, Keep(c)
      PROVE  TakesMatching
  <2>1. docs' = docs
    BY <1>31, KeepDoes DEF DidKeep
  <2> QED
    BY <2>1 DEF TakesMatching
<1>32. ASSUME NEW c \in Clients, Scan(c)
      PROVE  TakesMatching
  <2>1. docs' = docs
    BY <1>32, ScanDoes DEF DidScan
  <2> QED
    BY <2>1 DEF TakesMatching
<1>33. ASSUME NEW c \in Clients, Fetched(c)
      PROVE  TakesMatching
  <2>1. docs' = docs
    BY <1>33, FetchedDoes DEF DidFetched
  <2> QED
    BY <2>1 DEF TakesMatching
<1>34. ASSUME NEW c \in Clients, Return(c)
      PROVE  TakesMatching
  <2>1. docs' = docs
    BY <1>34, ReturnDoes DEF DidReturn
  <2> QED
    BY <2>1 DEF TakesMatching
<1>35. ASSUME NEW c \in Clients, NEW i \in Ids, Fetch(c, i)
      PROVE  TakesMatching
  <2>1. docs' = docs
    BY <1>35, FetchDoes DEF DidFetch
  <2> QED
    BY <2>1 DEF TakesMatching
<1>36. ASSUME NEW c \in Clients, NEW i \in Ids, Fill(c, i)
      PROVE  TakesMatching
  <2>1. docs' = docs
    BY <1>36, FillDoes DEF DidFill
  <2> QED
    BY <2>1 DEF TakesMatching
<1>37. ASSUME NEW i \in Ids, EvictL1(i)
      PROVE  TakesMatching
  BY <1>37 DEF EvictL1, badgerVars, TakesMatching
<1>38. ASSUME NEW v \in Vals, EvictL2(v)
      PROVE  TakesMatching
  BY <1>38 DEF EvictL2, badgerVars, TakesMatching
<1>39. ASSUME Restart
      PROVE  TakesMatching
  BY <1>39 DEF Restart, badgerVars, TakesMatching
<1>40. CASE UNCHANGED vars
  BY <1>40 DEF vars, badgerVars, TakesMatching
<1>41. ASSUME NEW c \in Clients, Start(c)
      PROVE  TakesMatching
  BY <1>41, <1>1, <1>2, <1>3, <1>4, <1>5, <1>6, <1>7, <1>8 DEF Start
<1>42. ASSUME NEW c \in Clients, WriteStep(c)
      PROVE  TakesMatching
  BY <1>42, <1>9, <1>10, <1>11, <1>12, <1>13, <1>14, <1>15, <1>16, <1>17, <1>18, <1>19,
     <1>20, <1>21, <1>22, <1>23, <1>24, <1>25, <1>26 DEF WriteStep
<1>43. ASSUME NEW c \in Clients, ReadStep(c)
      PROVE  TakesMatching
  BY <1>43, <1>27, <1>28, <1>29, <1>30, <1>31, <1>32, <1>33, <1>34, <1>35, <1>36
     DEF ReadStep
<1> QED
  BY <1>37, <1>38, <1>39, <1>40, <1>41, <1>42, <1>43 DEF Next

-----------------------------------------------------------------------------
(* The theorems *)

(* The block the server starts with is typed.                              *)
LEMMA InitType ==
  ASSUME Init
  PROVE  TypeOK
<1>1. Cardinality({i \in Ids : docs[i] # NoVal}) \in Int
  <2>1. IsFiniteSet({i \in Ids : docs[i] # NoVal})
    BY ConstantsAssumption, FS_Subset DEF ConstantsAssumption
  <2> QED
    BY <2>1, FS_CardinalityType
<1>2. docs \in [Ids -> Vals \cup {NoVal}] /\ l1 \in [Ids -> Vals \cup {NoVal}]
  BY DEF Init
<1>3. index \in [Ids -> SUBSET Vals] /\ flex \in [Ids -> SUBSET Vals]
  BY <1>2 DEF Init
<1>4. flexLast \in [Ids -> Vals \cup {NoVal}] /\ feed \in [Ids -> Vals \cup {NoVal}]
  BY <1>2 DEF Init, NoDocs
<1>5. l2 \in [Vals -> Entry \cup {NoEntry}]
  BY DEF Init
<1>6. task \in [Clients -> Task]
  BY IdleType DEF Init
<1>7. count \in Int /\ whole \in BOOLEAN
  BY <1>1 DEF Init
<1>8. excuse \in [Ids -> SUBSET Causes] /\ clash \in BOOLEAN
  BY DEF Init
<1>9. ops \in 0..MaxOps /\ restarts \in 0..MaxRestarts
  BY ConstantsAssumption DEF Init, ConstantsAssumption
<1> QED
  BY <1>2, <1>3, <1>4, <1>5, <1>6, <1>7, <1>8, <1>9 DEF TypeOK

(* Nobody is in an operation, and the copies are right.                    *)
LEMMA InitIInv ==
  ASSUME Init
  PROVE  IInv
<1>1. TypeOK
  BY InitType
<1>2. \A c \in Clients : task[c] = Idle
  BY DEF Init
<1>3. \A c \in Clients : /\ task[c].op = "none" /\ task[c].pc = "idle" /\ task[c].ids = {}
                         /\ task[c].todo = {} /\ task[c].shown = {} /\ task[c].got = {}
                         /\ task[c].put = NoDocs /\ task[c].src = "none"
  BY <1>2 DEF Idle
<1>4. Shape
  BY <1>3 DEF Shape, Phases, WriterShape, ReaderShape, Writers, Readers
<1>5. Excl /\ Unique /\ MovedSees
  BY <1>3 DEF Excl, Unique, MovedSees, Holds, Writers, Readers
<1>6. ReadsHold /\ SavesMeet /\ CountIsFresh /\ FindsHold
  BY <1>3 DEF ReadsHold, SavesMeet, CountIsFresh, FindsHold
<1>7. IndexCovers
  <2>1. \A i \in Ids : index[i] = {docs[i]} \ {NoVal}
    BY DEF Init
  <2> QED
    BY <2>1 DEF IndexCovers
<1>8. FlexOff
  BY DEF Init, FlexOff
<1>9. DocsHold
  <2>1. ASSUME NEW i \in Ids
        PROVE  DocIs(i)
    <3>1. /\ l1[i] \in {NoVal, docs[i]} /\ feed[i] = docs[i]
          /\ FlexEnabled => flex[i] = {docs[i]} \ {NoVal} /\ flexLast[i] = docs[i]
      BY DEF Init
    <3>2. \A c \in Clients :
             /\ ~Committed(task[c], i) /\ ~Ahead(task[c], i) /\ ~Uncached(task[c], i)
             /\ ~ShownEarly(task[c], i) /\ ~Unflexed(task[c], i) /\ ~Untold(task[c], i)
      BY <1>3, <1>4, NotBusy DEF Shape
    <3> QED
      BY <3>1, <3>2 DEF DocIs, StoredIs, CacheIs, FeedIs, FlexIs
  <2> QED
    BY <2>1 DEF DocsHold
<1> QED
  BY <1>1, <1>4, <1>5, <1>6, <1>7, <1>8, <1>9 DEF IInv

(* Every step keeps the inductive invariant.                               *)
LEMMA StepIInv ==
  ASSUME IInv, [Next]_vars
  PROVE  IInv'
<1>1. Typed /\ Locks /\ Counts
  BY DEF IInv, Typed, Locks, Counts
<1>2. TypeOK' /\ Shape'
  BY <1>1, TypeStep, ShapeStep
<1>3. Locks'
  BY <1>1, LocksStep
<1>4. IndexCovers' /\ ReadsHold'
  BY <1>1, IndexStep, ReadsStep DEF IInv
<1>5. Counts'
  BY <1>1, CountsStep DEF IInv
<1>6. DocsHold'
  BY <1>1, DocsStep DEF IInv
<1>7. FlexOff' /\ FindsHold'
  BY <1>1, FlexOffStep, FindsStep DEF IInv
<1> QED
  BY <1>2, <1>3, <1>4, <1>5, <1>6, <1>7 DEF IInv, Locks, Counts

(* The inductive invariant holds in every behaviour.                       *)
LEMMA Invariance == Spec => []IInv
<1>1. Init => IInv
  BY InitIInv
<1>2. IInv /\ [Next]_vars => IInv'
  BY StepIInv
<1> QED
  BY <1>1, <1>2, PTL DEF Spec

(* What is known of a document that no writer is busy with.                *)
LEMMA Rest ==
  ASSUME IInv, NEW i \in Ids, Settled(i)
  PROVE  /\ excuse[i] \cap {"lateFill", "crossed", "undone"} = {} =>
              l1[i] \in {NoVal, docs[i]}
         /\ excuse[i] \cap {"crossed", "undone"} = {} => feed[i] = docs[i]
         /\ FlexEnabled /\ excuse[i] \subseteq {"lateFill", "unindexed"} =>
              flex[i] = {docs[i]} \ {NoVal}
<1>1. \A c \in Clients : /\ ~Ahead(task[c], i) /\ ~Uncached(task[c], i)
                         /\ ~ShownEarly(task[c], i) /\ ~Unflexed(task[c], i) /\
                              ~Untold(task[c], i)
  BY NotBusy DEF IInv, Shape, Settled
<1>2. CacheIs(i) /\ FeedIs(i) /\ FlexIs(i)
  BY DEF IInv, DocsHold, DocIs
<1> QED
  BY <1>1, <1>2 DEF CacheIs, FeedIs, FlexIs

(* The variables keep to their ranges: of the caches, the count and the    *)
(* tasks of any number of clients.                                         *)
THEOREM TypeCorrect == Spec => []TypeOK
<1>1. IInv => TypeOK
  BY DEF IInv
<1> QED
  BY <1>1, Invariance, PTL

(* The secondary index misses no document but those of an insert that has  *)
(* still to build its entries, or failed to, however inserts, batches,     *)
(* updates and deletes under their different locks overlap.                *)
THEOREM IndexMissesNothing == Spec => []IndexCovers
<1>1. IInv => IndexCovers
  BY DEF IInv
<1> QED
  BY <1>1, Invariance, PTL

(* The L1 cache never keeps a value Badger does not have, once no writer   *)
(* is busy with the document and nothing excuses it.                       *)
THEOREM CacheIsRight == Spec => []CacheAgrees
<1>1. IInv => CacheAgrees
  BY Rest DEF CacheAgrees
<1> QED
  BY <1>1, Invariance, PTL

(* What the change feed told of a document is what Badger has of it.       *)
THEOREM FeedIsRight == Spec => []FeedAgrees
<1>1. IInv => FeedAgrees
  BY Rest DEF FeedAgrees
<1> QED
  BY <1>1, Invariance, PTL

(* FLEX-COLUMN has a document under its value and under no other.          *)
THEOREM FlexIsRight == Spec => []FlexAgrees
<1>1. IInv => FlexAgrees
  BY Rest DEF FlexAgrees
<1> QED
  BY <1>1, Invariance, PTL

(* A Find that goes to FLEX-COLUMN, the secondary index or the documents   *)
(* and not to the L2 cache is exact on what nobody wrote meanwhile.        *)
THEOREM FindsAreExact == Spec => []FindExact
<1>1. ASSUME IInv
      PROVE  FindExact
  <2>1. ASSUME NEW c \in Clients, task[c].op = "find", task[c].pc = "done",
               task[c].src # "l2",
               NEW i \in Ids \ task[c].moved, excuse[i] = {}
        PROVE  docs[i] = task[c].val <=> Answered(task[c].got, i)
    <3>1. FindIs(task[c], i)
      BY <1>1, <2>1 DEF IInv, FindsHold
    <3> QED
      BY <2>1, <3>1 DEF FindIs
  <2> QED
    BY <2>1 DEF FindExact, Answered
<1> QED
  BY <1>1, Invariance, PTL

(* An operation that is about to save the count has the count of the file, *)
(* unless operations under different locks have met in block.json.         *)
THEOREM CountsAreFresh == Spec => []CountIsFresh
<1>1. IInv => CountIsFresh
  BY DEF IInv
<1> QED
  BY <1>1, Invariance, PTL

(* An update that commits changes only documents its filter matches at     *)
(* that moment: Badger's conflict detection sees to the writers that the   *)
(* update's lock does not hold off.                                        *)
THEOREM UpdatesTakeWhatMatches == Spec => UpdatesTakeMatching
<1>1. ASSUME IInv, [Next]_vars
      PROVE  TakesMatching
  BY <1>1, TakesStep DEF IInv, Typed
<1>2. IInv /\ [Next]_vars =>
        [\A c \in Clients, i \in Ids :
           /\ task[c].op = "update" /\ task[c].pc = "show" /\ task'[c].pc # "show"
           /\ docs'[i] # docs[i]
           => docs[i] = task[c].val]_vars
  BY <1>1 DEF TakesMatching
<1> QED
  BY <1>2, Invariance, PTL DEF Spec, UpdatesTakeMatching
==============================================================================
