---------------------------- MODULE SqlCircuits ----------------------------
(***************************************************************************)
(* The arithmetic circuits (circuits/*.circom), as operators.              *)
(*                                                                         *)
(* A table is a matrix of numbers padded with zeros to maxRows x maxCols,  *)
(* where 0 is also a value.  A signal that is 0 or 1 is a Boolean.         *)
(* Poseidon is taken to be injective, so a commitment is the sum that is   *)
(* hashed: it does not depend on the places of the numbers.                *)
(***************************************************************************)
EXTENDS Naturals, Sequences, FiniteSetsExt

CONSTANTS
    maxRows, maxCols, maxOR,    \* the size of the circuits (maxAND = maxCols)
    header                      \* the code of the name of each column, then 0

Rows  == 1 .. maxRows
Cols  == 1 .. maxCols
Named == {j \in Cols : header[j] # 0}

ASSUME SizesAreNaturals == {maxRows, maxCols, maxOR} \subseteq Nat \ {0}
ASSUME HeaderIsDistinct ==
    /\ header \in [Cols -> Nat]
    /\ \A i, j \in Named : header[i] = header[j] => i = j

\* enum ConditionType, the opcodes of conditions.
Eq  == 0
Ne  == 1
Lt  == 2
Gt  == 3
Lte == 4
Gte == 5

-----------------------------------------------------------------------------
CalculateTotal(f, S) == MapThenSumSet(LAMBDA x : f[x], S)

HashTable(table) ==
    CalculateTotal(header, Cols)
        + CalculateTotal([i \in DOMAIN table |-> CalculateTotal(table[i], Cols)], DOMAIN table)

\* The hash of the arguments of a write: the sums of the values of an INSERT,
\* of the SET expressions and of the conditions.
HashValues(insertValues) == CalculateTotal(insertValues, Cols)
HashSet(setExpressions) ==
    CalculateTotal([j \in Cols |-> setExpressions[j][1] + setExpressions[j][2]], Cols)
HashCondition(c) == c.left + c.opcode + c.right
HashWhere(where) ==
    CalculateTotal([k \in 1 .. maxOR |->
        CalculateTotal([j \in Cols |-> HashCondition(where[k][j])], Cols)], 1 .. maxOR)

\* The templates of <, >, <= and >= are commented out: their opcodes match
\* nothing.
IsFiltered(a, b, op) ==
    \/ op = Eq /\ a = b
    \/ op = Ne /\ a # b

equalCell(cell, condition, j) ==
    IF header[j] = condition.left
    THEN IsFiltered(cell, condition.right, condition.opcode)
    ELSE IsFiltered(0, 0, condition.opcode)

\* 1 when the k-th OR has conditions, in spite of its name.
skipNothing(where, k) == TRUE   \* mutant: the ORs that pad the clause count
skipORCond(where, k) == \E j \in Cols : where[k][j].left # 0

neverAll(where) == FALSE        \* mutant: as in UPDATE, no clause selects no row
skipAll(where) == \A k \in DOMAIN where : ~skipORCond(where, k)

filterRow(row, where) ==
    \E k \in DOMAIN where :
        /\ \A j \in Cols : equalCell(row[j], where[k][j], j)
        /\ skipORCond(where, k)

\* The results the SELECT circuit accepts.
SELECT(table, fields, where) ==
    [i \in Rows |-> [j \in Cols |->
        IF (filterRow(table[i], where) \/ skipAll(where)) /\ j \in fields
        THEN table[i][j] ELSE 0]]

\* The modified tables of the other three.
INSERT(table, insertValues) ==
    [i \in 1 .. maxRows + 1 |-> IF i \in Rows THEN table[i] ELSE insertValues]

\* Mutant: the two numbers of a set expression are confused.
UpdateWithCode(table, setExpressions, where) ==
    [i \in Rows |-> [j \in Cols |->
        IF filterRow(table[i], where) /\ header[j] = setExpressions[j][1]
        THEN setExpressions[j][1] ELSE table[i][j]]]

\* There is no skipAll here.
UPDATE(table, setExpressions, where) ==
    [i \in Rows |-> [j \in Cols |->
        IF filterRow(table[i], where) /\ header[j] = setExpressions[j][1]
        THEN setExpressions[j][2] ELSE table[i][j]]]

DELETE(table, where) ==
    [i \in Rows |-> [j \in Cols |->
        IF filterRow(table[i], where) \/ skipAll(where) THEN 0 ELSE table[i][j]]]
=============================================================================
