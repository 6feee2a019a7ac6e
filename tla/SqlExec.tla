------------------------------ MODULE SqlExec ------------------------------
(***************************************************************************)
(* Queries on one table, one at a time: execQuery (lib/engine/engine.ts)   *)
(* parses the query and hands the table to its circuit, then runs the      *)
(* query on SQLite, and the contract takes the commitment the circuit      *)
(* computed.  The question is whether the two did the same thing.          *)
(***************************************************************************)
EXTENDS SqlParser, FiniteSets

CONSTANTS
    NULL,           \* the cell of a column an INSERT leaves out
    affinity,       \* affinity[j][v]: what column j stores when it is given v
    Writes,         \* INSERT, UPDATE and DELETE queries
    Selects,        \* SELECT queries
    MaxId           \* bound: ids SQLite gives

ASSUME NullIsNoValue == NULL \notin Value
ASSUME ColumnsStoreValues == affinity \in [Named -> [Value -> Value]]
ASSUME IdsAreBounded == MaxId \in Nat

\* The queries SQLite takes: an INSERT has as many values as columns.
Where == Clause \cup {NoWhere}
Insert == {q \in [type : {"insert"}, columns : Seq(Named), values : Seq(Seq(Literal)) \ {<<>>}] :
            \A k \in DOMAIN q.values : Len(q.values[k]) = Len(q.columns)}
Update == [type : {"update"}, set : UNION {[S -> Operand] : S \in SUBSET Cols}, where : Where]
Delete == [type : {"delete"}, where : Where]
Select == [type : {"select"}, columns : SUBSET Cols, where : Where]

ASSUME QueriesAreTyped ==
    Writes \subseteq Insert \cup Update \cup Delete /\ Selects \subseteq Select

VARIABLES
    rows,           \* the table in SQLite, from ids to rows
    nextId,         \* AUTOINCREMENT: ids are not given twice
    tableCommit,    \* the commitment of the table
    modified,       \* the table the last circuit computed
    answer          \* of the last query

vars == <<rows, nextId, tableCommit, modified, answer>>

Code == {encodeSqlValue[v] : v \in Value} \cup {0}

TypeOK ==
    /\ nextId \in 1 .. MaxId + 1
    /\ DOMAIN rows \subseteq 1 .. nextId - 1
    /\ \A i \in DOMAIN rows : rows[i] \in [Named -> Value \cup {NULL}]
    /\ tableCommit \in Nat
    /\ DOMAIN modified \in {Rows, 1 .. maxRows + 1}
    /\ \A i \in DOMAIN modified : modified[i] \in [Cols -> Code]
    /\ answer \in {"none", "proved", "failed"}

-----------------------------------------------------------------------------
\* A table as the circuits get it: a row is placed by its id, and ids above
\* maxRows have no place.
formatForCircuit(view) ==
    [i \in Rows |-> [j \in Cols |->
        IF i \in DOMAIN view /\ j \in DOMAIN view[i] THEN encodeSqlValue[view[i][j]] ELSE 0]]

Table == formatForCircuit(rows)

\* encodeSqlValue throws on NULL, so getTable does.
Readable(view) == \A i \in DOMAIN view : \A j \in DOMAIN view[i] : view[i][j] # NULL

Init ==
    /\ rows = <<>>
    /\ nextId = 1
    /\ tableCommit = HashTable(Table)
    /\ modified = Table
    /\ answer = "none"

-----------------------------------------------------------------------------
\* SQLite.

\* A comparison with NULL is not true.  The literal is converted as it would
\* be for the column; the values of the instances are ordered as their codes.
Compare(op, a, b) ==
    /\ NULL \notin {a, b}
    /\ LET x == encodeSqlValue[a]
           y == encodeSqlValue[b]
       IN  CASE op = "="  -> x = y  [] op = "!=" -> x # y [] op = "<"  -> x < y
             [] op = ">"  -> x > y  [] op = "<=" -> x <= y [] op = ">=" -> x >= y

Evaluate(operand, j, row) ==
    IF "value" \in DOMAIN operand THEN affinity[j][operand.value] ELSE row[operand.column]

Holds(ast, row) ==
    LET holds[c \in Clause] ==
            \/ c.operator = "OR" /\ (holds[c.left] \/ holds[c.right])
            \/ c.operator = "AND" /\ holds[c.left] /\ holds[c.right]
            \/ /\ c.operator \notin {"OR", "AND"}
               /\ Compare(c.operator, row[c.column], Evaluate(c.right, c.column, row))
    IN  ast = NoWhere \/ holds[ast]

Matching(ast) == {i \in DOMAIN rows : Holds(ast, rows[i])}

\* The row an INSERT makes of one list of values.
RowOf(q, list) ==
    [j \in Named |->
        IF \E k \in DOMAIN q.columns : q.columns[k] = j
        THEN LET k == CHOOSE k \in DOMAIN q.columns : q.columns[k] = j
             IN  affinity[j][list[k].value]
        ELSE NULL]

-----------------------------------------------------------------------------
\* The inputs can be made: the query parses and the table can be encoded.
Prepared(q) == Parses(q) /\ Readable(rows)

argsHash(q) ==
    CASE q.type = "insert" -> HashValues(parseInsert(q))
      [] q.type = "update" -> HashSet(parseUpdate(q)) + HashWhere(whereConditions(q))
      [] q.type = "delete" -> HashWhere(whereConditions(q))

\* The circuit has a witness when the table and the arguments are those
\* committed to.
Satisfied(q) ==
    /\ Fits(q)
    /\ HashTable(Table) = tableCommit
    /\ q.type # "select" => argsHash(q) = genArgsCommitment(q)

Accepted(q) == Prepared(q) /\ Satisfied(q)

\* The end of a write: selectTable reads the columns of a result that sql.js
\* leaves out when there are no rows, and nothing is sent then.
Answer ==
    IF DOMAIN rows' = {}
    THEN answer' = "failed" /\ UNCHANGED tableCommit
    ELSE answer' = "proved" /\ tableCommit' = HashTable(modified')

\* SQLite takes any number of rows; the limit is the page's alone.
execInsert(q) ==
    /\ q.type = "insert"
    /\ nextId + Len(q.values) <= MaxId + 1
    /\ Accepted(q)
    /\ modified' = INSERT(Table, parseInsert(q))
    /\ rows' = [i \in DOMAIN rows \cup (nextId .. nextId + Len(q.values) - 1) |->
                IF i >= nextId THEN RowOf(q, q.values[i - nextId + 1]) ELSE rows[i]]
    /\ nextId' = nextId + Len(q.values)
    /\ Answer

execUpdate(q) ==
    /\ q.type = "update"
    /\ Accepted(q)
    /\ modified' = UPDATE(Table, parseUpdate(q), whereConditions(q))
    /\ rows' = [i \in DOMAIN rows |-> [j \in Named |->
                IF i \in Matching(q.where) /\ j \in DOMAIN q.set
                THEN Evaluate(q.set[j], j, rows[i]) ELSE rows[i][j]]]
    /\ UNCHANGED nextId
    /\ Answer

execDelete(q) ==
    /\ q.type = "delete"
    /\ Accepted(q)
    /\ modified' = DELETE(Table, whereConditions(q))
    /\ rows' = [i \in DOMAIN rows \ Matching(q.where) |-> rows[i]]
    /\ UNCHANGED nextId
    /\ Answer

\* The query does not parse, a cell has no code, the table is not the one
\* committed to, or the clause does not fit.
execFails(q) ==
    /\ ~Accepted(q)
    /\ answer' = "failed"
    /\ UNCHANGED <<rows, nextId, tableCommit, modified>>

Next == \E q \in Writes : execInsert(q) \/ execUpdate(q) \/ execDelete(q) \/ execFails(q)

Spec == Init /\ [][Next]_vars

-----------------------------------------------------------------------------
\* A table of a circuit holds the rows of SQLite, each as often.  A row of
\* zeros is the same as no row.
SameRows(table) ==
    \A row \in [Named -> Code] :
        (\E j \in Named : row[j] # 0) =>
            Cardinality({i \in DOMAIN table : \A j \in Named : table[i][j] = row[j]})
                = Cardinality({i \in DOMAIN rows :
                                \A j \in Named : encodeSqlValue[rows[i][j]] = row[j]})

\* What is proved is what is executed: after a write that was answered with a
\* proof, the table the circuit computed holds the rows SQLite has, and the
\* next query finds the table it is committed to (src/README.md:15).
ProvedIsExecuted ==
    answer = "proved" =>
        Readable(rows) /\ SameRows(modified) /\ HashTable(Table) = tableCommit

\* The result of a SELECT as the circuit gets it.
results(q) ==
    formatForCircuit([i \in Matching(q.where) |->
                        [j \in q.columns \cap Named |-> rows[i][j]]])

\* A SELECT of the instance whose clause is translated and fits is answered with
\* a proof: the circuit accepts the rows SQLite selects by the tree, whatever was
\* written before (the SELECTs by = and != of test/SqlCircuitsTest.ts:62-89 have
\* witnesses).  The instance that is to pass leaves out what is not so: <, >, <=
\* and >= (SqlCircuitsTest.ts:90, MCSqlRange), an AND about one column twice
\* (MCSqlSameColumn) and comparisons of columns (MCSqlCompare).
SelectsAreProved ==
    \A q \in Selects : Accepted(q) => results(q) = SELECT(Table, q.columns, whereConditions(q))

\* No write is refused for the state of the table: unless a write on the last
\* rows ended in an error, the table stays one that can be encoded and the one
\* committed to, and the arguments a client commits to are those the circuit
\* hashes.
WritesAreProved ==
    (rows = <<>> => nextId = 1) =>
        \A q \in Writes : Parses(q) /\ Fits(q) => Accepted(q)
=============================================================================
