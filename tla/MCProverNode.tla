---------------------------- MODULE MCProverNode ----------------------------
(***************************************************************************)
(* One process whose chain may say anything.  A content is the number of   *)
(* rows of a table; both tables have the same columns, hence the same      *)
(* hashes, as nothing in a hash names the table.                           *)
(***************************************************************************)
EXTENDS ProverNode

MCQuery ==
    {[type |-> "select", table |-> "t2", args |-> 0],
     [type |-> "insert", table |-> "t1", args |-> 1]}
MCHash   == [t \in Table |-> [c \in Content |-> 10 + c]]
MCRunSql  == [q \in Query |-> [c \in Content |-> IF q.type = "insert" THEN 1 ELSE c]]
MCCircuit == [q \in Query |-> [c \in Content |-> Hash[q.table][RunSql[q][c]]]]
=============================================================================
