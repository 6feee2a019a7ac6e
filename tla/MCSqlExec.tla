----------------------------- MODULE MCSqlExec -----------------------------
(***************************************************************************)
(* Small tables: two columns and one that pads, cells that are a number or *)
(* a text.  Supported queries are those the two sides agree about; each of *)
(* the other sets adds one kind of query.                                  *)
(***************************************************************************)
EXTENDS SqlExec

MCHeader == <<3, 5, 0>>
MCCodes  == [v \in Value |-> CASE v = "1" -> 1 [] v = "'1'" -> 49 [] v = "'a'" -> 97]
\* Columns of type int and string are both numeric to SQLite: a text that
\* looks like a number becomes one.
MCAffinity == [j \in Named |-> [v \in Value |-> IF v = "'1'" THEN "1" ELSE v]]

Val(v) == [value |-> v]
Is(j, op, v) == [operator |-> op, column |-> j, right |-> Val(v)]
And(l, r)   == [operator |-> "AND", left |-> l, right |-> r]
Or(l, r)    == [operator |-> "OR", left |-> l, right |-> r]

Small(op) == {Is(1, op, "1"), Is(1, op, "'a'"), Is(2, op, "1")}
About(j, S) == {c \in S : c.column = j}
Both(S) == {And(l, r) : l \in About(1, S), r \in About(2, S)}

\* Trees with up to three conditions, in every shape.
Pairs(S)  == Both(S) \cup {Or(l, r) : l, r \in S}
Triples(S) ==
    {Or(p, c) : p \in Pairs(S), c \in S} \cup {Or(c, p) : p \in Pairs(S), c \in S}
    \cup {And(p, c) : p \in {Or(l, r) : l, r \in S}, c \in About(2, S)}
    \cup {And(c, p) : p \in Both(S), c \in About(2, S)}
Clauses(op) == {NoWhere} \cup Small(op) \cup Pairs(Small(op))
Unknown == Is(3, "=", "1")

InsertsOf(S) ==
    {[type |-> "insert", columns |-> <<1, 2>>, values |-> <<<<Val(v), Val(w)>>>>] :
        v, w \in S}
Inserts == InsertsOf({"1", "'a'"})
Deletes(S) == {[type |-> "delete", where |-> w] : w \in S}
Updates(S) ==
    {[type |-> "update", set |-> [j \in {c} |-> Val("'a'")], where |-> w] :
        c \in {1, 2}, w \in S}
SelectAll(S) == {[type |-> "select", columns |-> f, where |-> w] : f \in {Cols, {2}}, w \in S}

Supported ==
    Inserts \cup Deletes(Clauses("=") \cup Small("!="))
    \cup Updates((Clauses("=") \ {NoWhere})
                    \cup {Or(Or(c, c), c) : c \in Small("=")} \cup {Unknown})
SupportedSelects ==
    SelectAll(Clauses("=") \cup Clauses("!=") \cup Triples(Small("=")) \cup {Unknown})

UpdateAll    == Inserts \cup Updates({NoWhere})
UpdateOthers == Inserts \cup Updates(Small("!="))
InsertMany   ==
    {[type |-> "insert", columns |-> <<1, 2>>, values |-> <<<<Val(v), Val(v)>>,
                                                            <<Val(v), Val(v)>>>>] :
        v \in Value}
RangeSelects == SelectAll(Small("<"))
SameColumn   == SelectAll({And(Is(1, "=", "1"), Is(1, "!=", "1"))})
\* An INSERT that names its columns in another order, or only some of them.
InsertByName == {[q EXCEPT !.columns = <<2, 1>>] : q \in Inserts}
InsertSome   ==
    {[type |-> "insert", columns |-> <<1>>, values |-> <<<<Val(v)>>>>] : v \in Value}
\* SET a = b, and a = b in a clause.
CopyColumn   ==
    Inserts \cup {[type |-> "update", set |-> [j \in {1} |-> [column |-> 2]], where |-> w] :
                    w \in Small("=")}
CompareColumns == SelectAll({[operator |-> "=", column |-> 1, right |-> [column |-> 2]]})
NumberTexts  == InsertsOf({"'1'"})

\* The clauses of an instance, which have at most three levels.
Joins(S) == {c \in S : c.operator \in {"OR", "AND"}}
WithParts(S) == S \cup {c.left : c \in Joins(S)} \cup {c.right : c \in Joins(S)}
Trees ==
    WithParts(WithParts({q.where : q \in {r \in Writes \cup Selects : r.type # "insert"}}
                            \ {NoWhere}))
Sizes == [c \in Trees |-> Cardinality(WithParts(WithParts({c})))]
\* TLC keeps the value of what a substituted constant refers to.
MCClause == Trees
MCSize   == Sizes
=============================================================================
