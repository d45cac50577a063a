------------------------------- MODULE Where -------------------------------
(***************************************************************************)
(* The two readers of a WHERE clause.                                      *)
(*                                                                         *)
(* FIND and SEARCH call parse.ParseWhere, a recursive-descent parser whose *)
(* tree evalExpr evaluates; UPDATE, DELETE, COUNT, the aggregates and the  *)
(* administrative commands call parseFilters, whose flat list              *)
(* matchesFilters folds from the left.  Both read the tokens of one        *)
(* command, upper-cased where they are keywords, and both leave the rest   *)
(* of the command to their caller at a stop word.                          *)
(*                                                                         *)
(* State: the tokens after WHERE.  A step types one more unit of a command *)
(* that is not already refused; the invariants compare the readers with    *)
(* the grammar ParseWhere documents and with each other, for every truth   *)
(* value of the conditions.  A token is a string; what quotation marks,    *)
(* lists and coercion do to it is given by tables.                         *)
(***************************************************************************)
EXTENDS Integers, Sequences
LOCAL INSTANCE SequencesExt

CONSTANTS Units,     \* the pieces a command is typed from: tuples of tokens
          MaxUnits,  \* bound: units in one clause
          Text,      \* of a token with quotation marks: what it is without
          Items,     \* of a [...] token: its parts, as they are spelled
          Json,      \* the [...] tokens that are JSON
          Braces,    \* {...} tokens that are not JSON
          Numbers    \* what strconv.ParseFloat reads

VARIABLES clause,    \* the tokens after WHERE
          units      \* how many units they were typed in

whereVars == <<clause, units>>

Connectives == {"AND", "OR"}

FlatStopWords == {"LIMIT", "ORDER"}
stopWords == FlatStopWords \cup {"GROUP"}

validOps == {<<"=">>, <<"IN">>, <<"NOT", "IN">>, <<"BETWEEN">>, <<"EXISTS">>}
NullTests == {<<"IS", "NULL">>, <<"IS", "NOT", "NULL">>}

ListOps == {<<"IN">>, <<"NOT", "IN">>}
Words == {"true", "false", "null"}
LoneQuotes == {"'", "\""}

At(t, p) == IF p \in 1..Len(t) THEN t[p] ELSE ""

(***************************************************************************)
(* The operator whose first word is t[p]: as many words as make one.       *)
(***************************************************************************)
OperatorAt(t, p) ==
    LET n == CASE At(t, p) = "NOT" /\ At(t, p + 1) = "IN"  -> 2
               [] At(t, p) = "IS" /\ At(t, p + 1) = "NULL" -> 2
               [] At(t, p) = "IS" /\ At(t, p + 1) = "NOT"
                                  /\ At(t, p + 2) = "NULL" -> 3
               [] OTHER                                    -> 1
    IN  SubSeq(t, p, p + n - 1)

----------------------------------------------------------------------------
(* The tree. *)

(* A leaf: one value, or BETWEEN's two, or a list of them.  A value is its *)
(* type and its text.                                                      *)
Condition(field, op, value, values) ==
    [kind |-> "COND", field |-> field, op |-> op, value |-> value,
     values |-> values]

Join(kind, l, r) == [kind |-> kind, left |-> l, right |-> r]
Negate(e) == [kind |-> "NOT", child |-> e]

Read(e, p) == [ok |-> TRUE, expr |-> e, pos |-> p]
Refuse(p) == [ok |-> FALSE, pos |-> p]

Trim(s) == IF s \in DOMAIN Text THEN Text[s] ELSE s

coerce(s) ==
    <<CASE s \in Numbers -> "number" [] s \in Words -> "word" [] OTHER -> "text",
      s>>

FromJson(s) == IF s \in DOMAIN Text THEN <<"text", Text[s]>> ELSE coerce(s)

parseArrayLiteral(a) ==
    [i \in DOMAIN Items[a] |-> IF a \in Json THEN FromJson(Items[a][i])
                               ELSE coerce(Trim(Items[a][i]))]

Single(field, op, value) ==
    IF op \in ListOps THEN Condition(field, op, <<>>, <<value>>)
    ELSE Condition(field, op, <<value>>, <<>>)

(* The condition that one token for a value makes.                         *)
OneValue(field, op, v) ==
    CASE v \in DOMAIN Items -> Condition(field, op, <<>>, parseArrayLiteral(v))
      [] v \in Braces       -> Condition(field, op, <<<<"text", v>>>>, <<>>)
      [] OTHER              -> Single(field, op, coerce(Trim(v)))

Between(field, low, high) == Condition(field, <<"BETWEEN">>, <<low, high>>, <<>>)

(* BETWEEN needs two values, unless they are a list or an object.          *)
parseValue(t, field, op, p) ==
    IF op # <<"BETWEEN">> \/ t[p] \in DOMAIN Items \cup Braces
    THEN Read(OneValue(field, op, t[p]), p + 1)
    ELSE IF p + 2 <= Len(t) /\ t[p + 1] = "AND"
    THEN Read(Between(field, coerce(Trim(t[p])), coerce(Trim(t[p + 2]))), p + 3)
    ELSE Refuse(p + 1)

(* An operator nobody knows makes an existence test, and is consumed. *)
parseCondition(t, p) ==
    IF p = Len(t) THEN Refuse(p + 1)
    ELSE LET op == OperatorAt(t, p + 1)
             q  == p + 1 + Len(op)
         IN  CASE op \in NullTests -> Read(Condition(t[p], op, <<>>, <<>>), q)
               [] op \notin validOps \cup NullTests ->
                    Read(Condition(t[p], <<"EXISTS">>, <<>>, <<>>), q)
               [] op \in validOps /\ q > Len(t) -> Refuse(q)
               [] OTHER -> parseValue(t, t[p], op, q)

RECURSIVE parseOr(_, _), parseAnd(_, _), parseNot(_, _)
RECURSIVE moreOr(_, _), moreAnd(_, _), moreOfBoth(_, _)

parsePrimary(t, p) ==
    CASE p > Len(t) -> Refuse(p)
      [] At(t, p) = "(" ->
           LET inner == parseOr(t, p + 1)
           IN  IF inner.ok /\ At(t, inner.pos) = ")"
               THEN Read(inner.expr, inner.pos + 1)
               ELSE Refuse(inner.pos)
      [] At(t, p) \in stopWords \cup {")"} -> Refuse(p)
      [] OTHER -> parseCondition(t, p)

parseNot(t, p) ==
    IF At(t, p) # "NOT" THEN parsePrimary(t, p)
    ELSE LET e == parseNot(t, p + 1)
         IN  IF e.ok THEN Read(Negate(e.expr), e.pos) ELSE e

(* Broken variant of moreAnd: the conjunction loop also takes the ORs. *)
moreOfBoth(t, l) ==
    IF ~(l.ok /\ At(t, l.pos) \in Connectives) THEN l
    ELSE LET r == parseNot(t, l.pos + 1)
         IN  IF r.ok
             THEN moreOfBoth(t, Read(Join(t[l.pos], l.expr, r.expr), r.pos))
             ELSE r

moreAnd(t, l) ==
    IF ~(l.ok /\ At(t, l.pos) = "AND") THEN l
    ELSE LET r == parseNot(t, l.pos + 1)
         IN  IF r.ok
             THEN moreAnd(t, Read(Join("AND", l.expr, r.expr), r.pos))
             ELSE r

parseAnd(t, p) == moreAnd(t, parseNot(t, p))

moreOr(t, l) ==
    IF ~(l.ok /\ At(t, l.pos) = "OR") THEN l
    ELSE LET r == parseAnd(t, l.pos + 1)
         IN  IF r.ok THEN moreOr(t, Read(Join("OR", l.expr, r.expr), r.pos))
             ELSE r

parseOr(t, p) == moreOr(t, parseAnd(t, p))

ParseWhere(t) == IF t = <<>> THEN Refuse(1) ELSE parseOr(t, 1)

(* evalExpr, given the conditions that the document satisfies. *)
RECURSIVE evalExpr(_, _)
evalExpr(e, satisfied) ==
    CASE e.kind = "AND" -> /\ evalExpr(e.left, satisfied)
                           /\ evalExpr(e.right, satisfied)
      [] e.kind = "OR"  -> \/ evalExpr(e.left, satisfied)
                           \/ evalExpr(e.right, satisfied)
      [] e.kind = "NOT" -> ~evalExpr(e.child, satisfied)
      [] OTHER          -> e \in satisfied

(* The leaves handed to the optimizer; no leaves for an OR or a NOT. *)
RECURSIVE FlattenTopLevelAnd(_)
FlattenTopLevelAnd(e) ==
    CASE e.kind = "COND" -> [ok |-> TRUE, leaves |-> <<e>>]
      [] e.kind = "AND"  ->
           LET l == FlattenTopLevelAnd(e.left)
               r == FlattenTopLevelAnd(e.right)
           IN  [ok |-> l.ok /\ r.ok, leaves |-> l.leaves \o r.leaves]
      [] OTHER           -> [ok |-> FALSE, leaves |-> <<>>]

----------------------------------------------------------------------------
(* The flat list. *)

(* A part of a list is looked at for a number with its quotation marks,   *)
(* and for nothing else.                                                   *)
FlatArray(a) ==
    [i \in DOMAIN Items[a] |->
       LET s == Items[a][i] IN
       CASE a \in Json    -> FromJson(s)
         [] a \notin Json -> IF s \in Numbers THEN <<"number", s>>
                             ELSE <<"text", Trim(s)>>]

(* A bound is a number or a text.                                          *)
FlatBound(v) ==
    IF Trim(v) \in Numbers THEN <<"number", Trim(v)>> ELSE <<"text", Trim(v)>>

(* A value of the flat form: quotation marks and brackets are looked for   *)
(* before BETWEEN is.  Of a lone quotation mark a slice is taken that it   *)
(* has not, and the command panics.                                        *)
FlatValue(t, field, op, q) ==
    LET v == t[q] IN
    IF v \in LoneQuotes THEN Refuse(q)
    ELSE IF v \in DOMAIN Items
    THEN Read(Condition(field, op, <<>>, FlatArray(v)), q + 1)
    ELSE IF /\ op = <<"BETWEEN">> /\ v \notin DOMAIN Text \cup Braces
            /\ q + 2 <= Len(t) /\ t[q + 1] = "AND"
    THEN Read(Between(field, FlatBound(v), FlatBound(t[q + 2])), q + 3)
    ELSE Read(Single(field, op, coerce(Trim(v))), q + 1)

(* One filter at t[p]; ok is FALSE for an incomplete one.  The value is    *)
(* looked for before the operator is.                                      *)
FlatFilter(t, p) ==
    LET op == OperatorAt(t, p + 1)
        q  == p + 1 + Len(op)
    IN  CASE p = Len(t) -> Refuse(p)
          [] p < Len(t) /\ op \in NullTests ->
               Read(Condition(t[p], op, <<>>, <<>>), q)
          [] op \notin NullTests /\ q > Len(t) -> Refuse(q)
          [] q <= Len(t) /\ op \notin validOps \cup NullTests ->
               Read(Condition(t[p], <<"EXISTS">>, <<>>, <<>>), q)
          [] OTHER -> FlatValue(t, t[p], op, q)

RECURSIVE FlatFrom(_, _, _, _)
FlatFrom(t, p, filters, logic) ==
    CASE At(t, p) \in Connectives -> FlatFrom(t, p + 1, filters, t[p])
      [] p > Len(t) \/ At(t, p) \in FlatStopWords ->
           [ok |-> filters # <<>>, filters |-> filters, pos |-> p]
      [] OTHER ->
           LET f == FlatFilter(t, p)
           IN  IF f.ok
               THEN FlatFrom(t, f.pos,
                     Append(filters, [cond |-> f.expr, logic |-> logic]), "")
               ELSE f

parseFilters(t) == FlatFrom(t, 1, <<>>, "")

(* Broken variant of matchesFilters: the connectives are not looked at. *)
MatchesAll(filters, satisfied) ==
    \A i \in DOMAIN filters : filters[i].cond \in satisfied

matchesFilters(filters, satisfied) ==
    FoldLeft(LAMBDA result, f :
                IF f.logic = "OR" THEN result \/ f.cond \in satisfied
                ELSE result /\ f.cond \in satisfied,
             Head(filters).cond \in satisfied, Tail(filters))

----------------------------------------------------------------------------
(* What is typed. *)

WhereInit == clause = <<>> /\ units = 0

(* A clause that was refused before its end, or that the reader has ended, *)
(* is not typed further; nor is anything after a lone quotation mark, with *)
(* which a text begins that goes on to the end of the command.             *)
Open == /\ ParseWhere(clause).pos > Len(clause)
        /\ At(clause, Len(clause)) \notin LoneQuotes

Type(u) ==
    /\ units < MaxUnits
    /\ Open
    /\ clause' = clause \o u
    /\ units' = units + 1

WhereNext == \E u \in Units : Type(u)

WhereSpec == WhereInit /\ [][WhereNext]_whereVars

----------------------------------------------------------------------------
(* The grammar of the comment on ParseWhere, without positions or loops:   *)
(* the trees of t[i..j] as an expr, an andExpr, a notExpr or a primary.    *)

ConditionsOf(t, i, j) ==
    IF i >= j \/ At(t, i) \in stopWords \cup {"(", ")", "NOT"} THEN {}
    ELSE LET op   == OperatorAt(t, i + 1)
             rest == SubSeq(t, i + 1 + Len(op), j)
             only(es) == IF i + Len(op) <= j THEN es ELSE {}
         IN  CASE op \in NullTests -> only(
                    IF rest = <<>> THEN {Condition(t[i], op, <<>>, <<>>)} ELSE {})
               [] op \notin NullTests \cup validOps -> only(
                    IF rest = <<>>
                    THEN {Condition(t[i], <<"EXISTS">>, <<>>, <<>>)} ELSE {})
               [] op = <<"BETWEEN">> /\ Len(rest) = 3 ->
                    IF rest[2] = "AND" /\ rest[1] \notin DOMAIN Items \cup Braces
                    THEN {Between(t[i], coerce(Trim(rest[1])), coerce(Trim(rest[3])))}
                    ELSE {}
               [] op \in validOps /\ Len(rest) = 1 ->
                    IF op = <<"BETWEEN">> /\ rest[1] \notin DOMAIN Items \cup Braces
                    THEN {} ELSE {OneValue(t[i], op, rest[1])}
               [] OTHER -> {}

RECURSIVE Trees(_, _, _, _)
Trees(level, t, i, j) ==
    LET binary(word, lower) ==
          Trees(lower, t, i, j) \cup UNION
            {{Join(word, l, r) : l \in Trees(level, t, i, k - 1),
                                 r \in Trees(lower, t, k + 1, j)} :
               k \in {m \in (i + 1)..(j - 1) : t[m] = word}}
    IN  CASE i > j -> {}
          [] i <= j /\ level = "expr" -> binary("OR", "andExpr")
          [] i <= j /\ level = "andExpr" -> binary("AND", "notExpr")
          [] i <= j /\ level = "notExpr" ->
               IF t[i] = "NOT"
               THEN {Negate(e) : e \in Trees("notExpr", t, i + 1, j)}
               ELSE Trees("primary", t, i, j)
          [] i <= j /\ level = "primary" ->
               IF t[i] = "(" /\ t[j] = ")"
               THEN Trees("expr", t, i + 1, j - 1)
               ELSE ConditionsOf(t, i, j)

DerivesOnly(whole, r) ==
    whole # {} => r.ok /\ r.pos > Len(clause) /\ whole = {r.expr}

Derived(r) ==
    r.ok => /\ r.expr \in Trees("expr", clause, 1, r.pos - 1)
            /\ At(clause, r.pos) \notin Connectives

(***************************************************************************)
(* The tree that ParseWhere returns is the one the grammar gives to the    *)
(* tokens it consumed: OR under AND only within parentheses, both grouping *)
(* to the left.  It never stops in front of a connective, and a clause     *)
(* that the grammar derives as a whole has one tree and is read as a       *)
(* whole.                                                                  *)
(***************************************************************************)
WhereIsGrammar ==
    /\ Derived(ParseWhere(clause))
    /\ DerivesOnly(Trees("expr", clause, 1, Len(clause)), ParseWhere(clause))

RECURSIVE Nodes(_)
Nodes(e) == {e} \cup
    CASE e.kind \in Connectives -> Nodes(e.left) \cup Nodes(e.right)
      [] e.kind = "NOT"         -> Nodes(e.child)
      [] OTHER                  -> {}

(* Where the two readers part.  What the flat form cannot say: grouping,   *)
(* NOT, an AND that follows an OR.                                         *)
BeyondFlat(f) ==
    \/ \E i \in DOMAIN clause :
         \/ clause[i] \in {"(", ")"}
         \/ clause[i] = "NOT" /\ At(clause, i - 1) \in Connectives \cup {""}
    \/ f.ok /\ \E i, j \in DOMAIN f.filters :
         i < j /\ f.filters[i].logic = "OR" /\ f.filters[j].logic = "AND"

(* Conditions one after the other: the tree ends where the connective is   *)
(* omitted, and the flat list goes on with AND.                            *)
OmitsConnective(w) ==
    w.ok /\ At(clause, w.pos) \notin FlatStopWords \cup {""}

(* A connective too many: the flat list skips it, and the tree takes it    *)
(* for a field or refuses the end that follows.                            *)
StrayConnective ==
    \E i \in DOMAIN clause :
       /\ clause[i] \in Connectives
       /\ \/ i = 1 \/ clause[i - 1] \in Connectives
          \/ i = Len(clause) \/ clause[i + 1] \in stopWords

(* An operator that nobody knows, at the end: the flat list asks for a     *)
(* value before it looks at the operator.                                  *)
EndsUnknown(w) ==
    w.ok /\ \E n \in Nodes(w.expr) :
       /\ n.kind = "COND" /\ n.op = <<"EXISTS">> /\ n.value = <<>>
       /\ n.field = At(clause, Len(clause) - 1)

(* A BETWEEN without its second bound, which only the tree refuses.         *)
HalfBetween ==
    \E i \in DOMAIN clause :
       /\ clause[i] = "BETWEEN" /\ At(clause, i + 1) \notin DOMAIN Items \cup Braces
       /\ At(clause, i + 2) # "AND" \/ At(clause, i + 3) = ""

(* Values that the two type differently: bounds with quotation marks,      *)
(* words as bounds, parts of a list that is not JSON with quotation marks  *)
(* around a number or with a word; text in braces after IN; a lone mark.   *)
TypedDifferently(v) ==
    \/ v \in LoneQuotes
    \/ v \in DOMAIN Items \ Json /\ \E i \in DOMAIN Items[v] :
          \/ Trim(Items[v][i]) \in Words
          \/ Items[v][i] \in DOMAIN Text /\ Trim(Items[v][i]) \in Numbers

TypesDiffer ==
    \E i \in DOMAIN clause :
       \/ TypedDifferently(clause[i])
       \/ clause[i] \in Braces /\ i > 1 /\ clause[i - 1] = "IN"
       \/ clause[i] = "BETWEEN" /\ At(clause, i + 1) \in DOMAIN Text
       \/ clause[i] = "BETWEEN" /\ \E k \in {1, 3} : Trim(At(clause, i + k)) \in Words

Differ(w, f) ==
    \/ BeyondFlat(f) \/ OmitsConnective(w) \/ StrayConnective
    \/ EndsUnknown(w) \/ HalfBetween \/ TypesDiffer

ConditionsIn(e) == {n \in Nodes(e) : n.kind = "COND"}

LeavesAreConjuncts(e) ==
    LET flat == FlattenTopLevelAnd(e)
    IN  flat.ok => \A satisfied \in SUBSET ConditionsIn(e) :
          evalExpr(e, satisfied) <=>
            \A i \in DOMAIN flat.leaves : flat.leaves[i] \in satisfied

SameChoice(e, filters) ==
    \A satisfied \in SUBSET (ConditionsIn(e) \cup {x.cond : x \in Range(filters)}) :
       evalExpr(e, satisfied) <=> matchesFilters(filters, satisfied)

ReadersAgree(w, f) ==
    /\ w.ok => LeavesAreConjuncts(w.expr)
    /\ \/ Differ(w, f)
       \/ ~w.ok /\ ~f.ok
       \/ w.ok /\ f.ok /\ f.pos = w.pos /\ SameChoice(w.expr, f.filters)

(***************************************************************************)
(* The three forms of one clause select the same documents.  The leaves    *)
(* given to the optimizer are the conjuncts of the tree; and but for the   *)
(* named differences both readers take or both refuse a clause, end it at  *)
(* the same token, and give it the same truth value in evalExpr and in     *)
(* matchesFilters, whichever conditions hold: FIND shows what DELETE, with *)
(* the same clause, removes.                                               *)
(***************************************************************************)
FormsAgree == ReadersAgree(ParseWhere(clause), parseFilters(clause))

=============================================================================
