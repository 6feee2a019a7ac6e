----------------------------- MODULE SqlParser -----------------------------
(***************************************************************************)
(* From the syntax tree of a query to the inputs of its circuit            *)
(* (lib/engine/parser.ts, encode.ts) and to the commitment of its          *)
(* arguments (genArgsCommitment), which a client computes as well.         *)
(*                                                                         *)
(* A tree is a record: [operator, left, right] joins two conditions and    *)
(* [operator, column, right] compares a column with an operand.  An        *)
(* operand is [value |-> v] or an expression over a column,                *)
(* [column |-> j].  An error thrown is a result like another.              *)
(***************************************************************************)
EXTENDS SqlCircuits, SequencesExt

CONSTANTS
    Value,          \* the values cells can have, but NULL
    encodeSqlValue, \* encodeSqlValue[v]: a number is its code, a text its bytes
    Clause,         \* the trees of WHERE clauses and of their parts
    size            \* size[c]: the size of the tree c, larger than that of a part

ASSUME ValuesHaveCodes == encodeSqlValue \in [Value -> Nat]

Literal == [value : Value]
Operand == Literal \cup [column : Named]

ASSUME ClausesAreTrees ==
    /\ size \in [Clause -> Nat]
    /\ \A c \in Clause :
        IF c.operator \in {"OR", "AND"}
        THEN \A part \in {c.left, c.right} : part \in Clause /\ size[part] < size[c]
        ELSE c.operator # "none" /\ c.column \in Cols /\ c.right \in Operand

-----------------------------------------------------------------------------
\* What is not a literal has no value of its own: its code is that of
\* undefined.
codeOf(operand) ==
    IF "value" \in DOMAIN operand THEN encodeSqlValue[operand.value] ELSE 0

ConditionType ==
    [op \in {"=", "!=", "<", ">", "<=", ">="} |->
        CASE op = "="  -> Eq  [] op = "!=" -> Ne  [] op = "<"  -> Lt
          [] op = ">"  -> Gt  [] op = "<=" -> Lte [] op = ">=" -> Gte]

\* The three classes of results, each as an OR of ANDs.
Throws == [class |-> "throws"]
Result(class, ors) == [class |-> class, ors |-> ors]
Few == {"Condition", "ANDCondition"}

\* A WHERE clause without a tree.
NoWhere == [operator |-> "none"]

\* Only trees that lean to the left, with OR above AND, are accepted.
parseCondition[ast \in Clause] ==
    IF ast.operator \in {"OR", "AND"}
    THEN LET l == parseCondition[ast.left]
             r == parseCondition[ast.right]
         IN  CASE ast.operator = "OR" /\ l.class # "throws" /\ r.class \in Few ->
                    Result("WhereCondition", l.ors \o r.ors)
               [] ast.operator = "AND" /\ l.class \in Few /\ r.class = "Condition" ->
                    Result("ANDCondition", <<l.ors[1] \o r.ors[1]>>)
               [] OTHER -> Throws
    ELSE IF ast.operator \in DOMAIN ConditionType /\ ast.column \in Named
         THEN Result("Condition", <<<<[left   |-> header[ast.column],
                                       opcode |-> ConditionType[ast.operator],
                                       right  |-> codeOf(ast.right)]>>>>)
         ELSE Throws

\* Mutant: the right operand of an OR is forgotten.
parseLeft(ast) ==
    IF ast = NoWhere THEN Result("WhereCondition", <<>>)
    ELSE parseCondition[IF ast.operator = "OR" THEN ast.left ELSE ast]

parseWhere(ast) ==
    IF ast = NoWhere THEN Result("WhereCondition", <<>>) ELSE parseCondition[ast]

NoCondition == [left |-> 0, opcode |-> Eq, right |-> 0]

\* The condition about a column goes to the place of the column, and there is
\* one place: of two conditions about the same column the first is kept.
FirstAbout(and, j) ==
    LET about == {i \in DOMAIN and : and[i].left = header[j]}
    IN  IF about = {} THEN NoCondition ELSE and[Min(about)]

serialize(ors) ==
    [k \in 1 .. maxOR |->
        [j \in Cols |-> IF k <= Len(ors) THEN FirstAbout(ors[k], j) ELSE NoCondition]]

whereConditions(q) == serialize(parseWhere(q.where).ors)

\* VALUES: the first of the rows, by position whatever the column list says.
parseInsert(q) ==
    [j \in Cols |-> IF j \in DOMAIN q.values[1] THEN codeOf(q.values[1][j]) ELSE 0]

\* SET, a function from some columns to operands.
parseUpdate(q) ==
    [j \in Cols |-> IF j \in DOMAIN q.set THEN <<header[j], codeOf(q.set[j])>> ELSE <<0, 0>>]

-----------------------------------------------------------------------------
\* The query is translated without an error: parseSelect and parseUpdate also
\* look up the columns they name (SELECT * stands for all, padding included).
Parses(q) ==
    /\ q.type # "insert" => parseWhere(q.where).class # "throws"
    /\ q.type = "select" => q.columns = Cols \/ q.columns \subseteq Named
    /\ q.type = "update" => DOMAIN q.set \subseteq Named

\* A clause with more ORs has too many values for its signal.
Fits(q) == q.type # "insert" => Len(parseWhere(q.where).ors) <= maxOR

Total(numbers) == FoldSeq(+, 0, numbers)
Codes(conditions) ==
    FlattenSeq([j \in DOMAIN conditions |->
        <<conditions[j].left, conditions[j].opcode, conditions[j].right>>])

\* Mutant: the clause of an UPDATE does not enter its commitment.
argsWithoutWhere(q) ==
    CASE q.type = "insert" -> Total(parseInsert(q))
      [] q.type = "update" -> Total(FlattenSeq(parseUpdate(q)))
      [] q.type = "delete" -> Total(Codes(FlattenSeq(whereConditions(q))))

genArgsCommitment(q) ==
    CASE q.type = "insert" -> Total(parseInsert(q))
      [] q.type = "update" -> Total(FlattenSeq(parseUpdate(q))
                                        \o Codes(FlattenSeq(whereConditions(q))))
      [] q.type = "delete" -> Total(Codes(FlattenSeq(whereConditions(q))))
=============================================================================
