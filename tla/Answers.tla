------------------------------ MODULE Answers ------------------------------
(***************************************************************************)
(* What Client assumes of POST /request and GET /query: a token is given   *)
(* to one query, its answer is handed out at most once, and the process    *)
(* that has it may end.                                                    *)
(***************************************************************************)
CONSTANT Token

VARIABLE box    \* where the answer to each token is

Init == box = [t \in Token |-> "none"]

Become(t, from, to) == box[t] = from /\ box' = [box EXCEPT ![t] = to]

Accept(t) == Become(t, "none", "working")
Answer(t) == Become(t, "working", "answered")
Take(t)   == Become(t, "answered", "taken")

\* A process ends, and with it the tokens it had given and not yet served.
Lose(T) ==
    /\ \A t \in T : box[t] \in {"working", "answered"}
    /\ box' = [t \in Token |-> IF t \in T THEN "lost" ELSE box[t]]
=============================================================================
