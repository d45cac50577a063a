------------------------------- MODULE Find --------------------------------
(***************************************************************************)
(* How FIND, SEARCH, COUNT, GROUP and the aggregates compute their answers.*)
(*                                                                         *)
(* The documents of a block named alike in every database are chosen once  *)
(* and do not change (Block has the writers); what a query leaves behind   *)
(* for the next one are the L2 cache of index lookups and the optimizer's  *)
(* statistics.  A document has its id, its data, its foreign keys, whether *)
(* it is compressed, and its entries of FLEX-COLUMN: <<field, text>>.  A   *)
(* query is a record:                                                      *)
(*   any, conds     the conditions, all of them or any of them to hold     *)
(*   loose          conditions after a WHERE that has ended                *)
(*   limit, offset, sort, select, group, having, preferScan                *)
(* A path is <<field>> or <<alias, field>>, the latter through a RELATE    *)
(* alias to the documents of another block.  A value keeps what is looked  *)
(* at: its number (0 for a word), the rank of its text, and whether it is  *)
(* a scalar; no word reads as NaN or as an infinity.  An id is a text, and *)
(* names of fields have no slash.                                          *)
(***************************************************************************)
EXTENDS Integers, Sequences, FiniteSets
LOCAL INSTANCE SequencesExt
LOCAL INSTANCE Functions
LOCAL INSTANCE FiniteSetsExt

CONSTANTS Databases,
          Fields,     \* the fields of a document
          Contents,   \* what may be stored: [Databases -> Seq of documents]
          Related,    \* the related block: id -> [field -> value]
          Queries,    \* the FINDs that are asked
          Tallies,    \* the single equalities that are counted
          Searches,   \* the SEARCHes: query, whether quoted, whole text, parts
          Weight,     \* getFieldWeight: [Fields -> Nat]
          DocCount,   \* documents that the statistics count, 0 if they do not
          Pieces,     \* of a text with slashes: the texts between them
          MaxQueries  \* bound: queries of a behaviour

VARIABLES stored,     \* the documents of the block, in the order of their keys
          l2,         \* the L2 cache: <<path, value>> -> ids and total
          indexStats, \* the optimizer: path -> size and documents it is out of
          answer,     \* the answer to the query of the last step
          queries     \* how many were asked

findVars == <<stored, l2, indexStats, answer, queries>>

Number(n) == [num |-> n, text |-> n, scalar |-> TRUE]
Word(k)   == [num |-> 0, text |-> 10 + k, scalar |-> TRUE]
Blank     == Word(-11)
Nil       == [Word(0) EXCEPT !.scalar = FALSE]

NoAnswer == [kind |-> "none"]

----------------------------------------------------------------------------
(* Conditions. *)

Sign(n) == IF n < 0 THEN -1 ELSE IF n > 0 THEN 1 ELSE 0

compareNumbers(a, b) == IF a.num # 0 \/ b.num # 0 THEN Sign(a.num - b.num)
                        ELSE Sign(a.text - b.text)

matchValue(v, c) ==
    LET x      == c.values[1]
        within == \E i \in DOMAIN c.values : c.values[i].text = v.text
    IN  CASE c.op = "="       -> v.text = x.text
          [] c.op = "!="      -> v.text # x.text
          [] c.op = ">"       -> compareNumbers(v, x) > 0
          [] c.op = "<="      -> compareNumbers(v, x) <= 0
          [] c.op = "BETWEEN" -> /\ compareNumbers(v, x) >= 0
                                 /\ compareNumbers(v, c.values[2]) <= 0
          [] c.op = "IN"      -> within
          [] c.op = "NOT IN"  -> ~within
          [] c.op = "IS NULL" -> v = Nil \/ v.text = Blank.text

(* fkValues, and the documents they lead to; a dangling id leads nowhere.  *)
Targets(d) == SelectSeq(d.fk.ids, LAMBDA id : id \in DOMAIN Related)

Attached(d) == LET t == Targets(d)
               IN  IF d.fk.many \/ d.fk.ids = <<>> THEN t
                   ELSE SelectSeq(<<d.fk.ids[1]>>, LAMBDA id : id \in ToSet(t))

ValuesIn(data, f) == IF f \in DOMAIN data THEN <<data[f]>> ELSE <<>>

(* getNestedValues: one value, or one of each document of the alias that   *)
(* has the field, null included.                                           *)
getNestedValues(d, path) ==
    IF Len(path) = 1 THEN ValuesIn(d.data, path[1])
    ELSE FlattenSeq([i \in DOMAIN Attached(d) |->
                        ValuesIn(Related[Attached(d)[i]], path[2])])

matchFilter(d, c) ==
    LET vs == getNestedValues(d, c.path)
    IN  IF vs = <<>> THEN matchValue(Nil, c)
        ELSE \E i \in DOMAIN vs : matchValue(vs[i], c)

Holds(d, any, conds) ==
    IF any THEN \E i \in DOMAIN conds : matchFilter(d, conds[i])
    ELSE \A i \in DOMAIN conds : matchFilter(d, conds[i])

matchesQuery(d, q) == Holds(d, q.any, q.conds)

getNested(data, f) == IF f \in DOMAIN data THEN data[f] ELSE Nil

----------------------------------------------------------------------------
(* Index selection. *)

(* A candidate's lookup value; IN keeps its list elsewhere, so it is nil.  *)
Candidate(c) == [path |-> c.path,
                 value |-> IF c.op = "IN" THEN Nil ELSE c.values[1]]

Selectivity(path) == \* size and out of; an unmeasured path counts as all
    IF path \notin DOMAIN indexStats THEN [size |-> 1, of |-> 1]
    ELSE [indexStats[path] EXCEPT !.size = Min({@, indexStats[path].of})]

(* q.Filters: the conjuncts of a WHERE that is a conjunction, and what     *)
(* stood after it.                                                         *)
Filters(q) == (IF q.any THEN <<>> ELSE q.conds) \o q.loose

(* The equality filters, measured and selective first.                     *)
AnalyzeQuery(q) ==
    LET eq == SelectSeq(Filters(q), LAMBDA c : c.op \in {"=", "IN"})
        known(i) == eq[i].path \in DOMAIN indexStats
        better(i, j) ==
          IF known(i) # known(j) THEN known(i)
          ELSE LET a == Selectivity(eq[i].path)
                   b == Selectivity(eq[j].path)
               IN  a.size * b.of < b.size * a.of
        order == SetToSortSeq(DOMAIN eq, LAMBDA i, j :
                   better(i, j) \/ (~better(j, i) /\ i < j))
    IN  [k \in DOMAIN order |-> Candidate(eq[order[k]])]

FirstOf(s, n) == SubSeq(s, 1, Min({Len(s), n}))

PiecesOf(text) == IF text \in DOMAIN Pieces THEN Pieces[text] ELSE <<text>>

(* The part of a key that follows the name of the field.                   *)
IndexKey(d, f) == PiecesOf(d.data[f].text) \o PiecesOf(d.id)

KeyBefore(k, l) ==
    \E n \in 1..Len(l) : /\ n <= Len(k) + 1
                         /\ FirstOf(k, n - 1) = FirstOf(l, n - 1)
                         /\ n = Len(k) + 1 \/ k[n] < l[n]

(* The ids of a lookup: the piece that follows the value's, in every key   *)
(* that the value begins; a blank value begins all those of its field.     *)
IndexIds(db, c) ==
    LET has(d)  == Len(c.path) = 1 /\ getNested(d.data, c.path[1]).scalar
        prefix  == IF c.value.text = Blank.text THEN <<>>
                   ELSE PiecesOf(c.value.text)
        entries == {IndexKey(d, c.path[1]) :
                      d \in {e \in ToSet(stored[db]) : has(e)}}
        met     == SetToSortSeq({k \in entries : IsPrefix(prefix, k)},
                                KeyBefore)
    IN  [i \in DOMAIN met |-> met[i][2]]

(* One lookup of a page, given the cache and the statistics so far: a hit  *)
(* is served as it is; a miss leaves its page and its measure behind.      *)
lookupByIndex(db, c, pageSize, before) ==
    LET key == <<c.path, c.value.text>>
        all == IndexIds(db, c)
    IN  IF key \in DOMAIN before.l2
        THEN [before EXCEPT !.ids = FirstOf(before.l2[key].ids, pageSize),
                            !.total = before.l2[key].total]
        ELSE [ids |-> FirstOf(all, pageSize), total |-> Len(all),
              l2 |-> [k \in DOMAIN before.l2 \cup {key} |->
                        IF k = key THEN [ids   |-> FirstOf(all, pageSize),
                                         total |-> Len(all), db |-> db]
                        ELSE before.l2[k]],
              stats |-> IF DocCount[db] = 0 THEN before.stats
                        ELSE [p \in DOMAIN before.stats \cup {c.path} |->
                                IF p = c.path
                                THEN [size |-> Len(all), of |-> DocCount[db]]
                                ELSE before.stats[p]]]

intersectIDs(a, b) == SelectSeq(a, LAMBDA id : id \in ToSet(b))

maxExtraCandidates == 2

Before == [ids |-> <<>>, total |-> 0, l2 |-> l2, stats |-> indexStats]

(* The ids that the index offers: those of the first candidate, narrowed   *)
(* by the next ones while more than one is left.                           *)
Probe(db, q) ==
    LET plan  == AnalyzeQuery(q)
        first == lookupByIndex(db, plan[1], q.limit, Before)
        narrow(sofar, c) ==
          IF Len(sofar.ids) <= 1 THEN sofar
          ELSE LET extra == lookupByIndex(db, c, q.limit, sofar)
               IN  IF extra.ids = <<>> THEN [extra EXCEPT !.ids = sofar.ids]
                   ELSE [extra EXCEPT !.ids = intersectIDs(sofar.ids, @)]
    IN  IF q.preferScan \/ plan = <<>> THEN Before
        ELSE IF first.ids = <<>> THEN first
        ELSE FoldLeft(narrow, first,
                      FirstOf(Tail(plan), maxExtraCandidates))

----------------------------------------------------------------------------
(* From documents to rows. *)

(* One document for each of the ids that is a document's.                  *)
ByIds(db, ids) ==
    FlattenSeq([i \in DOMAIN ids |->
                  SelectSeq(stored[db], LAMBDA d : d.id = ids[i])])

(* Broken variant of scanBlock: the limit counts documents, not matches.   *)
ScanAtMost(db, q) ==
    SelectSeq(FirstOf(SubSeq(stored[db], q.offset + 1, Len(stored[db])),
                      q.limit),
              LAMBDA d : matchesQuery(d, q))

(* OFFSET skips documents, LIMIT stops at that many matches. *)
scanBlock(db, q) ==
    FirstOf(SelectSeq(SubSeq(stored[db], q.offset + 1, Len(stored[db])),
                      LAMBDA d : matchesQuery(d, q)),
            q.limit)

(* sortDocs is stable; rows are [id, data]. *)
RowBefore(sort, a, b) ==
    \E k \in DOMAIN sort :
       LET cmp(m) == compareNumbers(getNested(a.data, sort[m].field),
                                    getNested(b.data, sort[m].field))
       IN  /\ \A m \in 1..(k - 1) : cmp(m) = 0
           /\ IF sort[k].desc THEN cmp(k) > 0 ELSE cmp(k) < 0

sortDocs(rows, sort) ==
    LET order == SetToSortSeq(DOMAIN rows, LAMBDA i, j :
                   RowBefore(sort, rows[i], rows[j])
                   \/ (~RowBefore(sort, rows[j], rows[i]) /\ i < j))
    IN  [k \in DOMAIN rows |-> rows[order[k]]]

(* Broken variant of Shown: a list of foreign keys is taken for one.       *)
ShownFirst(d, field) ==
    LET t == Targets(d)
    IN  FirstOf([i \in DOMAIN t |-> getNested(Related[t[i]], field)], 1)

(* What resolveRelations shows of an alias: the field of every related     *)
(* document it fetched, the first one's for a single foreign key.          *)
Shown(d, field) ==
    LET t == Targets(d)
        values == [i \in DOMAIN t |-> getNested(Related[t[i]], field)]
    IN  IF d.fk.many THEN values ELSE FirstOf(values, 1)

Project(d, select) ==
    [p \in ToSet(select) |-> IF Len(p) = 1 THEN <<getNested(d.data, p[1])>>
                             ELSE Shown(d, p[2])]

(* groupDocs: one row for each key, in the order of first sight, with the  *)
(* first document's values and the number of documents.                    *)
GroupKey(d, fields) == [i \in DOMAIN fields |->
                          getNested(d.data, fields[i]).text]

(* Broken variant of GroupSize: the first document opens the group only. *)
GroupSizeAfterFirst(docs, key, fields) ==
    Cardinality({i \in DOMAIN docs : GroupKey(docs[i], fields) = key}) - 1

GroupSize(docs, key, fields) ==
    Cardinality({i \in DOMAIN docs : GroupKey(docs[i], fields) = key})

groupDocs(docs, q) ==
    LET isFirst(i) == \A j \in 1..(i - 1) :
                        GroupKey(docs[j], q.group) # GroupKey(docs[i], q.group)
        firsts == SetToSortSeq({i \in DOMAIN docs : isFirst(i)}, <)
        size(d) == Number(GroupSize(docs, GroupKey(d, q.group), q.group))
        row(d) == [id   |-> d.id,
                   data |-> [f \in ToSet(q.group) \cup {"count"} |->
                               IF f = "count" THEN size(d)
                               ELSE getNested(d.data, f)]]
        kept(d) == Holds([data |-> [f \in DOMAIN d.data \cup {"count"} |->
                                      IF f = "count" THEN size(d)
                                      ELSE d.data[f]],
                          fk |-> [many |-> TRUE, ids |-> <<>>]],
                         FALSE, q.having)
        all == [k \in DOMAIN firsts |-> docs[firsts[k]]]
    IN  [k \in DOMAIN SelectSeq(all, kept) |-> row(SelectSeq(all, kept)[k])]

Presented(rows, q) ==
    LET sorted == IF q.sort = <<>> THEN rows ELSE sortDocs(rows, q.sort)
    IN  IF q.group # <<>> \/ q.select = <<>> THEN sorted
        ELSE [k \in DOMAIN sorted |->
                [id |-> sorted[k].id, data |-> sorted[k].data,
                 shown |-> Project(sorted[k], q.select)]]

postProcessDocs(docs, q) ==
    FirstOf(Presented(IF q.group = <<>> THEN docs ELSE groupDocs(docs, q), q),
            q.limit)

----------------------------------------------------------------------------
(* SEARCH.  A term stands for what contains it: texts of values, names of  *)
(* fields, ids.  A search has its whole text as a term and the text's      *)
(* parts, each with its sign: + must occur, - must not, one of the rest    *)
(* has to.  Aliases are not selected.                                      *)

Seen(row) == IF "shown" \in DOMAIN row THEN {p[1] : p \in DOMAIN row.shown}
             ELSE DOMAIN row.data

SeenAs(row, f) == IF "shown" \in DOMAIN row THEN row.shown[<<f>>][1]
                  ELSE row.data[f]

searchTermInDoc(row, term) ==
    \/ row.id \in term.ids
    \/ \E f \in Seen(row) : SeenAs(row, f).text \in term.values

searchWithOperators(row, parts) ==
    LET has(i) == searchTermInDoc(row, parts[i].term)
        free   == {i \in DOMAIN parts : parts[i].sign = ""}
    IN  /\ \A i \in DOMAIN parts : /\ parts[i].sign = "+" => has(i)
                                   /\ parts[i].sign = "-" => ~has(i)
        /\ free # {} => \E i \in free : has(i)

(* In halves of a point. *)
calculateRelevance(row, s) ==
    LET words(f) == {i \in DOMAIN s.parts :
                       SeenAs(row, f).text \in s.parts[i].term.values}
        points(f) == Weight[f] * (Cardinality(words(f))
          + (IF f \in s.whole.names THEN 4 ELSE 0)
          + (IF SeenAs(row, f).text \in s.whole.values THEN 2 ELSE 0))
    IN  (IF row.id \in s.whole.ids THEN 20 ELSE 0)
          + MapThenSumSet(points, Seen(row))

Hits(page, s) ==
    SelectSeq(page, LAMBDA row :
      \/ s.form = "phrase" /\ searchTermInDoc(row, s.whole)
      \/ s.form = "operators" /\ searchWithOperators(row, s.parts)
      \/ s.form = "relevance" /\ calculateRelevance(row, s) > 0)

(* The orders of an answer: by score, documents of one score in any order. *)
Ranked(rows, s) ==
    LET score == [k \in DOMAIN rows |-> calculateRelevance(rows[k], s)]
    IN  IF s.form # "relevance" THEN {rows}
        ELSE {[k \in DOMAIN rows |-> rows[perm[k]]] : perm \in
               {p \in SetToSeqs(DOMAIN rows) : \A i, j \in DOMAIN p :
                  i < j => score[p[i]] >= score[p[j]]}}

----------------------------------------------------------------------------
(* The operations. *)

Answered(db, q, source, rows) ==
    answer' = [kind |-> "find", db |-> db, q |-> q, source |-> source,
               rows |-> rows]

(* The documents that FLEX-COLUMN has for a query it takes: of a single    *)
(* equality, without groups.                                               *)
FlexDocs(db, q) ==
    LET f == Filters(q)
        entry == <<f[1].path[1], f[1].values[1].text>>
    IN  IF /\ Len(f) = 1 /\ f[1].op = "=" /\ Len(f[1].path) = 1
           /\ q.group = <<>> /\ q.having = <<>>
        THEN SelectSeq(stored[db], LAMBDA d : entry \in d.columns)
        ELSE <<>>

(* The documents of an index come in any order. *)
Orders(docs) == {[k \in DOMAIN docs |-> docs[perm[k]]] :
                   perm \in SetToSeqs(DOMAIN docs)}

(* QueryWithColumnar sorts, then skips OFFSET documents, then stops at     *)
(* LIMIT, and looks at no other condition; Find takes what it has unless   *)
(* that is nothing.                                                        *)
QueryWithColumnar(db, q) ==
    /\ \E docs \in Orders(FlexDocs(db, q)) :
         Answered(db, q, "flex",
                  FirstOf(SubSeq(Presented(docs, q), q.offset + 1, Len(docs)),
                          q.limit))
    /\ UNCHANGED <<l2, indexStats>>

(* Find: by FLEX-COLUMN, else by the ids of the index when it has any,     *)
(* else by a scan.                                                         *)
Ask(db, q) ==
    LET probe == Probe(db, q)
        kept  == SelectSeq(ByIds(db, probe.ids),
                           LAMBDA d : matchesQuery(d, q))
    IN  /\ queries < MaxQueries
        /\ queries' = queries + 1
        /\ UNCHANGED stored
        /\ \/ Len(FlexDocs(db, q)) > q.offset /\ QueryWithColumnar(db, q)
           \/ /\ Len(FlexDocs(db, q)) <= q.offset
              /\ l2' = probe.l2
              /\ indexStats' = probe.stats
              /\ IF probe.ids = <<>>
                 THEN Answered(db, q, "scan",
                               postProcessDocs(scanBlock(db, q), q))
                 ELSE \E docs \in Orders(kept) :
                        Answered(db, q, "index", postProcessDocs(docs, q))

(* Count of a single equality is the total of a lookup of one id. *)
Count(db, c) ==
    LET found == lookupByIndex(db, Candidate(c), 1, Before)
    IN  /\ queries < MaxQueries
        /\ queries' = queries + 1
        /\ l2' = found.l2
        /\ indexStats' = found.stats
        /\ answer' = [kind |-> "count", db |-> db, cond |-> c,
                      total |-> found.total]
        /\ UNCHANGED stored

(* Search looks for the text in what Find has answered to its query, which *)
(* prefers a scan; quotation marks make the text a phrase, a + or - in it  *)
(* a list of signed terms.                                                 *)
Search(s) ==
    /\ answer.kind = "find" /\ answer.q = s.q
    /\ \E rows \in Ranked(Hits(answer.rows, s), s) :
         answer' = [kind |-> "search", db |-> answer.db, search |-> s,
                    source |-> answer.source, rows |-> FirstOf(rows, s.q.limit)]
    /\ UNCHANGED <<stored, l2, indexStats, queries>>

(* Ristretto evicts, a day passes. *)
EvictEntry(key) ==
    /\ l2' = [k \in DOMAIN l2 \ {key} |-> l2[k]]
    /\ answer' = NoAnswer
    /\ UNCHANGED <<stored, indexStats, queries>>

FindInit == /\ stored \in Contents
            /\ l2 = <<>>
            /\ indexStats = <<>>
            /\ answer = NoAnswer
            /\ queries = 0

FindNext == \/ \E db \in Databases,
                  q \in Queries \cup {s.q : s \in Searches} : Ask(db, q)
            \/ \E db \in Databases, c \in Tallies : Count(db, c)
            \/ \E s \in Searches : Search(s)
            \/ \E key \in DOMAIN l2 : EvictEntry(key)

FindSpec == FindInit /\ [][FindNext]_findVars

----------------------------------------------------------------------------
(* GROUP and the aggregates: scans of their own, over the documents that   *)
(* are stored uncompressed, with no relation attached.                     *)

Scanned(db, q) ==
    SelectSeq(stored[db], LAMBDA d : ~d.packed
      /\ Holds([d EXCEPT !.fk = [many |-> TRUE, ids |-> <<>>]],
               q.any, q.conds))

ValuesOf(docs, field) == [k \in DOMAIN docs |-> getNested(docs[k].data, field).num]
SumOf(s) == FoldLeft(LAMBDA a, b : a + b, 0, s)

Aggregate(db, q, op, field) ==
    LET values == ValuesOf(Scanned(db, q), field)
    IN  CASE op = "COUNT" -> Len(values)
          [] op = "SUM"   -> SumOf(values)
          [] op = "MIN"   -> IF values = <<>> THEN 0 ELSE Min(ToSet(values))
          [] op = "MAX"   -> IF values = <<>> THEN 0 ELSE Max(ToSet(values))

(* Group: the key's text -> its documents' count, sum and extremes. *)
Group(db, q, by, field) ==
    LET docs == Scanned(db, q)
        keys == {getNested(docs[k].data, by).text : k \in DOMAIN docs}
    IN  [key \in keys |->
          LET mine   == SelectSeq(docs, LAMBDA d :
                                    getNested(d.data, by).text = key)
              values == ValuesOf(mine, field)
          IN  [count |-> Len(values), sum |-> SumOf(values),
               min |-> Min(ToSet(values)), max |-> Max(ToSet(values))]]

----------------------------------------------------------------------------
(* Properties. *)

Matching(db, q) == SelectSeq(stored[db], LAMBDA d : matchesQuery(d, q))
RowIds == {answer.rows[k].id : k \in DOMAIN answer.rows}

(* An entry of the cache that does not hold what the index holds now. *)
Stale(db, c) ==
    LET key == <<c.path, c.value.text>>
    IN  /\ key \in DOMAIN l2
        /\ l2[key].ids # IndexIds(db, c)

(* A slash in a value of the field, or in an id: another piece of the key  *)
(* is taken for the id, and the keys of a longer value are met.            *)
Slashed(db, c) ==
    Len(c.path) = 1 /\ \E d \in ToSet(stored[db]) :
      \/ d.id \in DOMAIN Pieces
      \/ getNested(d.data, c.path[1]).text \in DOMAIN Pieces

(* A document that matches and has no entry for the value, being a list,   *)
(* an object or null; or null looked up where a text is spelled like it.   *)
NoEntry(db, q, c) ==
    /\ Len(c.path) = 1
    /\ \/ c.value = Nil /\ IndexIds(db, c) # <<>>
       \/ \E d \in ToSet(Matching(db, q)) : ~getNested(d.data, c.path[1]).scalar

(* Columns that are not the documents': of documents written before the    *)
(* start, overwritten since, with more fields than are kept in columns,    *)
(* or with a list, an object or null.                                      *)
OtherColumns(db, c) ==
    \E d \in ToSet(stored[db]) :
       (<<c.path[1], c.values[1].text>> \in d.columns)
         # (getNested(d.data, c.path[1]).text = c.values[1].text)

(* Conditions that the choice of documents sees and WHERE does not.        *)
Unasked(q) == q.loose # <<>>

(* Why an answer may have a document that does not match.                  *)
Untrue(db, q, source) ==
    source = "flex" /\ (Unasked(q) \/ OtherColumns(db, Filters(q)[1]))

(* Why it may lack one that does: OFFSET skipped documents and not         *)
(* matches, LIMIT stopped a scan before the sort, the columns or the index *)
(* hold something else, or the index was asked for a page or answered from *)
(* the cache, with a page or with another database's ids; the query leaves *)
(* that entry in place.                                                    *)
Lossy(db, q, source) ==
    \/ Untrue(db, q, source)
    \/ source # "flex" /\ q.offset > 0
    \/ source = "scan" /\ q.sort # <<>> /\ Len(Matching(db, q)) > q.limit
    \/ /\ source = "index"
       /\ \/ Unasked(q)
          \/ \E k \in DOMAIN AnalyzeQuery(q) :
               LET c == AnalyzeQuery(q)[k]
               IN  \/ Stale(db, c) \/ Slashed(db, c) \/ NoEntry(db, q, c)
                   \/ Len(IndexIds(db, c)) > q.limit

(* A key that is split may have the id of a document that has one anyway.  *)
Twice(db, q, source) ==
    source = "index" /\ \E k \in DOMAIN AnalyzeQuery(q) :
                          Slashed(db, AnalyzeQuery(q)[k])

(* The row may stand where it does when all that match are sorted.         *)
InPlace(k, db, q) ==
    LET row == answer.rows[k]
        all == ToSet(Matching(db, q))
        before == {d \in all : RowBefore(q.sort, d, row)}
        after  == {d \in all : RowBefore(q.sort, row, d)}
    IN  /\ Cardinality(before) < q.offset + k
        /\ Cardinality(all \ after) >= q.offset + k

FindIsExplained ==
    answer.kind = "find" /\ answer.q.group = <<>> =>
      LET q == answer.q
          db == answer.db
          rows == answer.rows
          left == Len(Matching(db, q)) - q.offset
      IN  /\ \/ RowIds \subseteq {d.id : d \in ToSet(Matching(db, q))}
             \/ Untrue(db, q, answer.source)
          /\ \/ Cardinality(RowIds) = Len(rows)
             \/ Twice(db, q, answer.source)
          /\ Len(rows) <= q.limit
          /\ \A i, j \in DOMAIN rows :
               i < j => ~RowBefore(q.sort, rows[j], rows[i])
          /\ \/ /\ Len(rows) = Min({q.limit, Max({0, left})})
                /\ \A k \in DOMAIN rows : InPlace(k, db, q)
             \/ Lossy(db, q, answer.source)

(* What occurs in a document as it is shown, wherever the search looks.    *)
Occurs(d, q, term) ==
    \/ d.id \in term.ids
    \/ \E f \in DOMAIN d.data :
         /\ q.select = <<>> \/ <<f>> \in ToSet(q.select)
         /\ d.data[f].text \in term.values

(* The parts with this sign that occur in d, and those that do not.        *)
Parts(s, sign) == {i \in DOMAIN s.parts : s.parts[i].sign = sign}
Occurring(d, s, sign) == {i \in Parts(s, sign) : Occurs(d, s.q, s.parts[i].term)}

Excluded(d, s) == s.form = "operators" /\ Occurring(d, s, "-") # {}

(* Everything asked for occurs; something does, or nothing was asked for.  *)
Asked(d, s) ==
    IF s.form = "phrase" THEN Occurs(d, s.q, s.whole)
    ELSE \A sign \in {"+", ""} : Occurring(d, s, sign) = Parts(s, sign)

AskedInPart(d, s) ==
    \/ Occurs(d, s.q, s.whole)
    \/ s.form = "relevance" /\ s.whole.names # {}
    \/ /\ s.form # "phrase"
       /\ \E sign \in {"+", ""} :
            Occurring(d, s, sign) # {} \/ Parts(s, "") = {}

SearchIsExplained ==
    answer.kind = "search" =>
      /\ Cardinality(RowIds) = Len(answer.rows)
      /\ \/ RowIds \subseteq
              {d.id : d \in ToSet(Matching(answer.db, answer.search.q))}
         \/ Untrue(answer.db, answer.search.q, answer.source)
      /\ \A d \in ToSet(Matching(answer.db, answer.search.q)) :
           IF d.id \in RowIds
           THEN ~Excluded(d, answer.search) /\ AskedInPart(d, answer.search)
           ELSE Asked(d, answer.search) /\ ~Excluded(d, answer.search) =>
                  \/ Lossy(answer.db, answer.search.q, answer.source)
                  \/ answer.search.q.offset > 0
                  \/ Len(Matching(answer.db, answer.search.q)) > answer.search.q.limit

(***************************************************************************)
(* A FIND answers with documents that match, each once, in the order asked *)
(* for and no more than LIMIT; and with the very page that sorting all the *)
(* matching documents, skipping OFFSET and stopping at LIMIT would give,   *)
(* but for the causes named in Untrue, Twice and Lossy.  Which way the     *)
(* query went - FLEX-COLUMN, the index of any candidate, intersection, a   *)
(* scan - makes no other difference, for the documents that are typed      *)
(* here.  A SEARCH answers with matching documents in which something      *)
(* asked for occurs and nothing excluded does, whichever way the text was  *)
(* written, and misses none in which everything asked for occurs unless    *)
(* FIND did, or LIMIT or OFFSET cut the documents before the search.       *)
(***************************************************************************)
AnswersAreExplained == FindIsExplained /\ SearchIsExplained

(***************************************************************************)
(* What the filter saw is what SELECT shows: a document found because a    *)
(* related one has a value shows that value among its alias's, so          *)
(* attachRelationsForFilter and resolveRelations reach the same related    *)
(* documents, dangling foreign keys included.                              *)
(***************************************************************************)
ShownIsWhatMatched ==
    answer.kind = "find" /\ answer.q.group = <<>> /\ ~answer.q.any
      /\ ~Untrue(answer.db, answer.q, answer.source) =>
      \A k \in DOMAIN answer.rows, i \in DOMAIN answer.q.conds :
        LET c == answer.q.conds[i]
        IN  c.path \in ToSet(answer.q.select) =>
              LET shown == answer.rows[k].shown[c.path]
              IN  \/ \E n \in DOMAIN shown : matchValue(shown[n], c)
                  \/ shown = <<>> /\ matchValue(Nil, c)

Adds(g, db, q, f) ==
  LET total(part(_)) == MapThenSumSet(part, DOMAIN g)
  IN  /\ total(LAMBDA key : g[key].count) = Aggregate(db, q, "COUNT", f)
      /\ total(LAMBDA key : g[key].sum) = Aggregate(db, q, "SUM", f)
      /\ DOMAIN g # {} =>
           /\ Aggregate(db, q, "MIN", f) = Min({g[key].min : key \in DOMAIN g})
           /\ Aggregate(db, q, "MAX", f) = Max({g[key].max : key \in DOMAIN g})

Counts(g, by) ==
  /\ Len(answer.rows) = Cardinality(DOMAIN g)
  /\ \A key \in DOMAIN g : \E k \in DOMAIN answer.rows :
       /\ answer.rows[k].data[by].text = key
       /\ answer.rows[k].data["count"].num = g[key].count

(* Nothing is compressed, filtered on an alias or cut short.               *)
Plain(db, q) ==
  /\ \A k \in DOMAIN stored[db] : ~stored[db][k].packed
  /\ \A i \in DOMAIN q.conds : Len(q.conds[i].path) = 1
  /\ q.having = <<>> /\ ~Lossy(db, q, answer.source)
  /\ Len(Matching(db, q)) <= q.limit

Partition(db, q, by) ==
  /\ \A f \in Fields : Adds(Group(db, q, by, f), db, q, f)
  /\ Plain(db, q) => Counts(Group(db, q, by, by), by)

(***************************************************************************)
(* Three ways to count agree.  The groups of GROUP partition what the      *)
(* aggregates add up, and FIND ... GROUP BY has GROUP's counts, as long as *)
(* no document is compressed, no alias is filtered on and nothing cut the  *)
(* answer short.                                                           *)
(***************************************************************************)
GroupsPartition ==
    answer.kind = "find" /\ Len(answer.q.group) = 1 =>
      Partition(answer.db, answer.q, answer.q.group[1])

=============================================================================
