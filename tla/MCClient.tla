------------------------------ MODULE MCClient ------------------------------
(***************************************************************************)
(* A table that is empty (0) or full (1).  Rows are named by the content   *)
(* they show, matrices of results and commitments alike by 10 and 11 (the  *)
(* type of a proof tells them apart).                                      *)
(*                                                                         *)
(* The two updates have the same sum of arguments (SET a=1 WHERE b=2 and   *)
(* SET a=2 WHERE b=1), and only one of them changes a row.                 *)
(***************************************************************************)
EXTENDS Client

SelectAll == [type |-> "select"]
InsertRow == [type |-> "insert"]
Update    == {[type |-> "update", set |-> v] : v \in {1, 2}}

OneInsert   == {SelectAll, InsertRow}
TwoUpdates  == OneInsert \cup Update
MCInputs    == [q \in Query |-> q.type]
MCHash      == [c \in Content |-> 10 + c]
MCSignal    == {10, 11}
MCOutput    ==
    [q \in Query |-> [c \in Content |->
        CASE q.type = "select" -> MCHash[c]
          [] q.type = "insert" -> 11
          [] q.type = "update" -> IF q.set = 1 THEN 11 ELSE MCHash[c]]]
MCPlaced    == [r \in Rows |-> 10 + r]
MCRowCount  == [r \in Rows |-> 6 * r]

OneEach == [s \in Submission |-> s]
Shared  == [s \in Submission |-> First]
=============================================================================
