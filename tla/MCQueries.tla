------------------------------ MODULE MCQueries ------------------------------
(* The readers of a WHERE clause and the evaluation of queries on small    *)
(* instances.  They share no variable: a behaviour is one module's, and    *)
(* the other stays in one of its initial states.                          *)
EXTENDS Where, Find, TLC

VARIABLE part

Init == /\ WhereInit /\ FindInit
        /\ \/ part = "find"
           \/ part = "where" /\ stored = CHOOSE c \in Contents : TRUE
Next ==
  \/ part = "where" /\ WhereNext /\ UNCHANGED <<part, findVars>>
  \/ part = "find" /\ FindNext /\ UNCHANGED <<part, whereVars>>
Spec == Init /\ [][Next]_<<part, whereVars, findVars>>

-----------------------------------------------------------------------------
(* Clauses are typed from conditions of every shape, connectives, brackets *)
(* and stop words, pieces of conditions and pairs of pieces.               *)
MCUnits ==
  {<<"a", "=", "1">>, <<"b", "IS", "NULL">>, <<"b", "NOT", "IN", "[1]">>,
   <<"b", "BETWEEN", "1", "AND", "'2'">>, <<"a", "BETWEEN", "'1'", "AND", "'2'">>,
   <<"b", "IN", "['1']">>, <<"b", "IN", "[null,x]">>, <<"b", "BETWEEN", "null", "AND", "2">>,
   <<"b", "IN", "{x}">>, <<"b", "BETWEEN">>, <<"1">>, <<"'">>,
   <<"OR", "a", "=", "1">>, <<"AND", "b", "IS", "NULL">>,
   <<"a">>, <<"a", "=">>, <<"AND">>, <<"OR">>, <<"NOT">>, <<"(">>, <<")">>,
   <<"LIMIT">>, <<"GROUP">>}
MCText == "'1'" :> "1" @@ "'2'" :> "2" @@ "'" :> ""
MCItems == "[1]" :> <<"1">> @@ "['1']" :> <<"'1'">> @@ "[null,x]" :> <<"null", "x">>

-----------------------------------------------------------------------------
(* Documents with one foreign key, several, none, and dangling ones; with  *)
(* all their columns, without, and with another version's.                 *)
One(i) == [many |-> FALSE, ids |-> <<i>>]
Several(s) == [many |-> TRUE, ids |-> s]
None == [many |-> FALSE, ids |-> <<>>]
Doc(i, a, b, fk) ==
  [id |-> i, data |-> [f \in {"a", "b"} |-> IF f = "a" THEN a ELSE b], fk |-> fk,
   packed |-> FALSE, columns |-> {}]
Packed(d) == [d EXCEPT !.packed = TRUE]
Written(d) == [d EXCEPT !.columns =
  {<<f, d.data[f].text>> : f \in {g \in DOMAIN d.data : d.data[g].scalar}}]

MCRelated ==
  11 :> [f \in {"x"} |-> Number(3)] @@ 12 :> [f \in {"x"} |-> Word(1)]
    @@ 14 :> [f \in {"x"} |-> Nil] @@ 15 :> [f \in {"y"} |-> Nil]

(* The text of rank 21 is that of rank 11, a slash and a 2. *)
MCPieces == 21 :> <<11, 2>>
Listed(k) == [Word(k) EXCEPT !.scalar = FALSE]

Block1 == <<Written(Doc(1, Number(1), Number(2), One(11))),
            Written(Doc(2, Number(1), Number(5), Several(<<11, 13, 12>>))),
            Written(Doc(3, Nil, Word(1), None))>>
Block2 == <<Doc(4, Number(1), Number(7), One(13)),
            Written(Doc(5, Number(0), Number(5), Several(<<14, 15, 12>>)))>>
Block3 == <<[Doc(1, Number(1), Word(2), One(14)) EXCEPT !.columns = {<<"a", 2>>}],
            [Packed(Doc(2, Number(2), Word(1), None)) EXCEPT !.columns = {<<"a", 1>>}],
            Doc(3, Number(2), Number(4), Several(<<15, 14>>)),
            Doc(6, Nil, Number(0), None)>>
Block4 == <<Doc(1, Word(1), Word(2), None), Doc(2, Word(1), Blank, None),
            Doc(3, Word(11), Number(5), One(15)), Doc(4, Nil, Word(0), None),
            Doc(5, Number(7), Listed(2), None)>>
MCContents ==
  {[d1 |-> Block1, d2 |-> Block2], [d1 |-> Block3, d2 |-> Block1],
   [d1 |-> Block2, d2 |-> <<>>], [d1 |-> <<>>, d2 |-> Block4]}
MCDocCount == [d1 |-> 4, d2 |-> 0]

Cond(path, op, values) == [path |-> path, op |-> op, values |-> values]
A == <<"a">>
B == <<"b">>
X == <<"r", "x">>
AisOne == Cond(A, "=", <<Number(1)>>)
Query(conds, limit) ==
  [any |-> FALSE, conds |-> conds, loose |-> <<>>, limit |-> limit, offset |-> 0, sort |-> <<>>,
   select |-> <<>>, group |-> <<>>, having |-> <<>>, preferScan |-> FALSE]
Asc(f) == [field |-> f, desc |-> FALSE]
Desc(f) == [field |-> f, desc |-> TRUE]

MCQueries ==
  {[Query(<<AisOne>>, 5) EXCEPT !.select = <<A>>],
   [Query(<<AisOne>>, 1) EXCEPT !.offset = 1, !.sort = <<Desc("b")>>],
   [Query(<<AisOne>>, 5) EXCEPT !.loose = <<Cond(B, "=", <<Number(5)>>)>>],
   Query(<<Cond(A, "=", <<Word(1)>>)>>, 5), Query(<<Cond(A, "=", <<Word(11)>>)>>, 5),
   Query(<<Cond(B, "=", <<Word(2)>>)>>, 5), Query(<<Cond(B, "=", <<Blank>>)>>, 5),
   Query(<<AisOne, Cond(B, ">", <<Number(4)>>)>>, 1),
   [Query(<<AisOne, Cond(B, "=", <<Number(5)>>), Cond(X, "=", <<Number(3)>>)>>, 5)
      EXCEPT !.select = <<A, X>>],
   [Query(<<Cond(B, "IN", <<Number(5), Word(1)>>)>>, 5) EXCEPT !.sort = <<Desc("b")>>],
   [Query(<<Cond(A, "IS NULL", <<>>), Cond(B, "BETWEEN", <<Number(4), Number(7)>>)>>, 1)
      EXCEPT !.any = TRUE, !.sort = <<Asc("a"), Desc("b")>>],
   [Query(<<Cond(B, "=", <<Number(2)>>), Cond(A, "=", <<Nil>>)>>, 5)
      EXCEPT !.any = TRUE, !.loose = <<AisOne>>],
   [Query(<<Cond(A, "=", <<Nil>>)>>, 5) EXCEPT !.sort = <<Asc("a")>>],
   [Query(<<Cond(X, "=", <<Word(1)>>)>>, 1) EXCEPT !.select = <<X>>],
   [Query(<<Cond(X, "!=", <<Number(3)>>)>>, 5) EXCEPT !.select = <<X>>],
   [Query(<<Cond(X, "NOT IN", <<Number(3), Word(1)>>)>>, 5) EXCEPT !.select = <<X, A>>],
   [Query(<<Cond(A, "<=", <<Number(1)>>)>>, 2) EXCEPT !.offset = 1, !.sort = <<Desc("b")>>],
   [Query(<<AisOne>>, 5) EXCEPT !.group = <<"b">>],
   [Query(<<Cond(B, "!=", <<Number(0)>>)>>, 5)
      EXCEPT !.group = <<"a">>, !.sort = <<Desc("count")>>],
   [Query(<<Cond(B, "!=", <<Number(9)>>)>>, 5)
      EXCEPT !.group = <<"a">>, !.having = <<Cond(<<"count">>, ">", <<Number(1)>>)>>]}
MCTallies == {AisOne, Cond(B, "=", <<Number(5)>>), Cond(A, "=", <<Nil>>)}

-----------------------------------------------------------------------------
(* A word of two values, a word in one value and a field name, an id.      *)
Term(values, names, ids) == [values |-> values, names |-> names, ids |-> ids]
Five == Term({5}, {}, {})
OneOrW == Term({1, 11}, {"b"}, {})
TwoId == Term({}, {}, {2, 3})
Both == Term({}, {}, {})
Part(sign, term) == [sign |-> sign, term |-> term]
Page(conds, limit) == [Query(conds, limit) EXCEPT !.preferScan = TRUE]
SearchFor(form, q, whole, parts) ==
  [form |-> form, q |-> q, whole |-> whole, parts |-> parts]
MCSearches ==
  {SearchFor("relevance", Page(<<>>, 5), Both, <<Part("", Five), Part("", OneOrW)>>),
   SearchFor("relevance", Page(<<>>, 2), OneOrW, <<Part("", OneOrW)>>),
   SearchFor("relevance", [Page(<<>>, 5) EXCEPT !.select = <<B>>], TwoId,
             <<Part("", TwoId)>>),
   SearchFor("phrase", [Page(<<AisOne>>, 5) EXCEPT !.offset = 1], OneOrW, <<>>),
   SearchFor("phrase", [Page(<<>>, 5) EXCEPT !.select = <<A>>], Five, <<>>),
   SearchFor("operators", Page(<<>>, 5), Both,
             <<Part("+", OneOrW), Part("-", Five), Part("", TwoId)>>),
   SearchFor("operators", Page(<<AisOne>>, 1), Both, <<Part("-", Five)>>)}
MCWeight == [f \in {"a", "b"} |-> IF f = "a" THEN 5 ELSE 1]
=============================================================================
