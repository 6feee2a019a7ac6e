--------------------------- MODULE MCZkSqlSystem ---------------------------
(***************************************************************************)
(* Small instances of the system.  A content is a number of rows: an       *)
(* insert adds one and a delete takes one away, or takes them all.  The    *)
(* circuits compute the hash of what SQLite computes: SqlExec is about     *)
(* where they do.                                                          *)
(***************************************************************************)
EXTENDS ZkSqlSystem, FiniteSetsExt, TLC

Sql(type, table, args) == [type |-> type, table |-> table, args |-> args]

InsertOnly    == {Sql("insert", "t1", 1)}
InsertDelete  == InsertOnly \cup {Sql("delete", "t1", 2)}
ReadAndWrite  == InsertDelete \cup {Sql("select", "t1", 0)}
\* The arguments of an insert do not name its table.
SameInserts   == {Sql("insert", "t1", 1), Sql("insert", "t2", 1)}

\* The hash of a table sums its column names and its cells.
DifferentColumns == [t \in Table |-> [c \in Content |-> (IF t = "t1" THEN 10 ELSE 20) + c]]
SameColumns      == [t \in Table |-> [c \in Content |-> 10 + c]]

Full == CHOOSE c \in Content : \A d \in Content : d <= c

InsertOrRemove ==
    [q \in Query |-> [c \in Content |->
        CASE q.type = "insert" /\ c < Full -> c + 1
          [] q.type = "delete" /\ c > 1    -> c - 1
          [] OTHER                         -> c]]
InsertOrClear ==
    [q \in Query |-> [c \in Content |->
        CASE q.type = "insert" /\ c < Full -> c + 1
          [] q.type = "delete"             -> 0
          [] OTHER                         -> c]]

Agrees == [q \in Query |-> [c \in Content |-> Hash[q.table][RunSql[q][c]]]]

\* Tables of two columns, whose hash is that of the sum of the column names, 10
\* or 20, and of the cells.  The arguments hash to the sum of the values that
\* are inserted, or of the columns and the values of an update.
InsertRow(t, r) == [type |-> "insert", table |-> t, args |-> r[1] + r[2], row |-> r]
\* UPDATE t1 SET a = 5 WHERE b = w
SetFive(w) == [type |-> "update", table |-> "t1", args |-> 10 + 5 + w, where |-> w]

Cells(c)   == MapThenSumSet(LAMBDA i : c[i][1] + c[i][2], DOMAIN c)
SumOfCells == [t \in Table |-> [c \in Content |-> (IF t = "t1" THEN 10 ELSE 20) + Cells(c)]]
Sums       == {SumOfCells[t][c] : t \in Table, c \in Content}

SqlOfRows ==
    [q \in Query |-> [c \in Content |->
        CASE q.type = "insert" /\ Len(c) < 2 -> Append(c, q.row)
          [] q.type = "update" ->
                [i \in DOMAIN c |-> <<IF c[i][2] = q.where THEN 5 ELSE c[i][1], c[i][2]>>]
          [] OTHER -> c]]

Empty == {<<>>}

\* At most two rows: the arguments of both inserts are the same, and so are the
\* hashes of the tables they make.
TwoRows  == UNION {[1 .. n -> {<<1, 2>>, <<2, 1>>, <<5, 2>>}] : n \in 0 .. 2}
SameSums == {InsertRow("t1", <<1, 2>>), InsertRow("t1", <<2, 1>>), SetFive(2)}

\* A table that is created with a row of zeros has the hash of its columns, and
\* what the update makes of it the hash of the arguments of the update.
ZeroRow     == {<< <<0, 0>> >>}
ZeroOrFive  == Empty \cup ZeroRow \cup {<< <<5, 0>> >>}
WriteAndRead == {SetFive(0), Sql("select", "t2", 0)}

Symmetry == Permutations(Job) \cup Permutations(Node)
=============================================================================
