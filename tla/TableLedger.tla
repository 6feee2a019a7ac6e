---------------------------- MODULE TableLedger ----------------------------
(***************************************************************************)
(* What outsourcing tables promises: a ledger that has the hash of each    *)
(* table, on which queries that were asked for run one at a time, each     *)
(* from contents with the hash the previous one left.  It knows no         *)
(* process, proof or transaction.                                          *)
(*                                                                         *)
(* The hash of a table is that of a sum, so contents share it: the ledger  *)
(* does not say which of them a query ran on.  What was asked for is a     *)
(* table and the hash of arguments, so queries share that too, those of    *)
(* other tables included.                                                  *)
(***************************************************************************)
CONSTANTS
    Table,      \* table names
    Query,      \* write queries: records with at least table and args
    Content,    \* contents of a table
    NoRows,     \* the contents without rows
    Hash,       \* Hash[t][c]: hash of the contents c of the table t
    RunSql,     \* RunSql[q][c]: what the query q makes of c
    NoHash      \* no hash: that of a table that was not created

VARIABLES
    ledger,     \* the hash of each table
    asked       \* pairs of a table and of arguments some user asked to run

vars == <<ledger, asked>>

Init ==
    /\ ledger = [t \in Table |-> NoHash]
    /\ asked = {}

Create(t) ==
    /\ ledger[t] = NoHash
    /\ \E c \in NoRows : ledger' = [ledger EXCEPT ![t] = Hash[t][c]]
    /\ UNCHANGED asked

\* Asking for the same arguments again replaces what was asked before.
Ask(q) ==
    /\ asked' = {p \in asked : p[2] # q.args} \cup {<<q.table, q.args>>}
    /\ UNCHANGED ledger

Run(q, t) ==
    /\ <<t, q.args>> \in asked
    /\ \E c \in Content :
        /\ Hash[q.table][c] = ledger[t]
        /\ ledger' = [ledger EXCEPT ![t] = Hash[q.table][RunSql[q][c]]]
    /\ UNCHANGED asked

Next ==
    \/ \E t \in Table : Create(t)
    \/ \E q \in Query : Ask(q)
    \/ \E q \in Query, t \in Table : Run(q, t)

Spec == Init /\ [][Next]_vars
=============================================================================
