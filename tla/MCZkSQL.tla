------------------------------ MODULE MCZkSQL ------------------------------
(***************************************************************************)
(* The contract on its own: two named tables and the empty name, three     *)
(* commitments, and the statements between them that the circuits of this  *)
(* instance accept.                                                        *)
(***************************************************************************)
EXTENDS ZkSQL

\* An insert from each commitment to the next and a delete back: a table can
\* return to a commitment it has left.
MCProvable ==
    {s \in Statement :
        \/ s.op = "insert" /\ s.args = 1 /\ s.new = s.old + 1
        \/ s.op = "delete" /\ s.args = 2 /\ s.old = s.new + 1}
=============================================================================
