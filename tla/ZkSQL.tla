------------------------------- MODULE ZkSQL -------------------------------
(***************************************************************************)
(* The ZkSQL contract (contracts/zkSQL.sol): two mappings, three events    *)
(* and three transactions, which anybody may send.  A commitment is a      *)
(* uint256; 0 is what the mapping returns for a table that was never       *)
(* created, and Unnamed (the empty string) is the table of arguments that  *)
(* were never posted.  Both are values a caller can give as well.          *)
(*                                                                         *)
(* A PLONK proof is represented by the statement it proves.  Provable is   *)
(* the set of statements the INSERT, UPDATE and DELETE circuits accept: a  *)
(* sound verifier accepts the proofs of these statements and no other.     *)
(*                                                                         *)
(* The log of each event is kept in full, in the order of emission: it is  *)
(* what requestAllTables and the listeners of the nodes read.              *)
(***************************************************************************)
EXTENDS Naturals, Sequences

CONSTANTS
    Table,          \* the names users give to tables
    Unnamed,        \* the empty string
    Commitment,     \* numbers other than 0: some are hashes of tables
    Args,           \* the commitments of the arguments of write queries
    Provable,       \* the statements the circuits accept
    MaxCreations,   \* bound: successful calls of createTable
    MaxRequests,    \* bound: calls of request
    MaxUpdates      \* bound: successful calls of execRequest

SqlOperation == {"insert", "update", "delete"}
NoCommitment == 0
Name         == Table \cup {Unnamed}

Statement == [op : SqlOperation, new : Commitment, old : Commitment, args : Args]

ASSUME UnnamedIsNoTable == Unnamed \notin Table
\* The circuits put out hashes of Poseidon, for which no preimage of 0 is known.
ASSUME ZeroIsNoCommitment == NoCommitment \notin Commitment
ASSUME ProvableAreStatements == Provable \subseteq Statement
ASSUME BoundsAreNaturals == {MaxCreations, MaxRequests, MaxUpdates} \subseteq Nat

VARIABLES
    tableCommitments,       \* commitment of each table
    requestsCommitments,    \* table of each posted request
    requestPosted,          \* log of RequestPosted events
    tableCreated,           \* log of TableCreated events
    tableUpdated            \* log of TableUpdated events

vars == <<tableCommitments, requestsCommitments,
          requestPosted, tableCreated, tableUpdated>>

TableEvent(commitments) == [table : Name, commitment : commitments]

TypeOK ==
    /\ tableCommitments \in [Name -> Commitment \cup {NoCommitment}]
    /\ requestsCommitments \in [Args -> Name]
    /\ requestPosted \in Seq(Args)
    /\ tableCreated \in Seq(TableEvent(Commitment \cup {NoCommitment}))
    /\ tableUpdated \in Seq(TableEvent(Commitment))

Init ==
    /\ tableCommitments = [t \in Name |-> NoCommitment]
    /\ requestsCommitments = [a \in Args |-> Unnamed]
    /\ requestPosted = <<>>
    /\ tableCreated = <<>>
    /\ tableUpdated = <<>>

-----------------------------------------------------------------------------
\* A call that reverts changes nothing, so only the calls that succeed are
\* actions.

\* Mutant: the require is missing.
CreateTableAgain(t, c) ==
    /\ Len(tableCreated) < MaxCreations
    /\ tableCommitments' = [tableCommitments EXCEPT ![t] = c]
    /\ tableCreated' = Append(tableCreated, [table |-> t, commitment |-> c])
    /\ UNCHANGED <<requestsCommitments, requestPosted, tableUpdated>>

\* Any name and any number.  With the number 0 the table stays unset, and may
\* be created again.
CreateTable(t, c) ==
    /\ Len(tableCreated) < MaxCreations
    /\ tableCommitments[t] = NoCommitment
    /\ tableCommitments' = [tableCommitments EXCEPT ![t] = c]
    /\ tableCreated' = Append(tableCreated, [table |-> t, commitment |-> c])
    /\ UNCHANGED <<requestsCommitments, requestPosted, tableUpdated>>

\* A request for arguments that were posted before, for this table or for
\* another one, replaces the earlier request.
Request(t, a) ==
    /\ Len(requestPosted) < MaxRequests
    /\ requestsCommitments' = [requestsCommitments EXCEPT ![a] = t]
    /\ requestPosted' = Append(requestPosted, a)
    /\ UNCHANGED <<tableCommitments, tableCreated, tableUpdated>>

\* Mutant: the commitment the proof starts from is not a public input.
VerifyFromAny(op, proof, new, old, a) ==
    /\ proof \in Provable
    /\ proof.op = op /\ proof.new = new /\ proof.args = a

VerifyProof(op, proof, new, old, a) ==
    /\ proof \in Provable
    /\ proof = [op |-> op, new |-> new, old |-> old, args |-> a]

\* What an estimate of the call answers, and what its transaction requires.
\* There is no check that the request was ever posted (it is commented out in
\* the contract), and the request is not consumed.
ExecSucceeds(op, a, new, proof) ==
    VerifyProof(op, proof, new, tableCommitments[requestsCommitments[a]], a)

\* Mutant: the contract stores the commitment of the arguments, as the
\* controller of the prover does.
ExecRequestStoresArgs(op, a, new, proof) ==
    /\ Len(tableUpdated) < MaxUpdates
    /\ ExecSucceeds(op, a, new, proof)
    /\ LET table == requestsCommitments[a] IN
        /\ tableCommitments' = [tableCommitments EXCEPT ![table] = a]
        /\ tableUpdated' = Append(tableUpdated, [table |-> table, commitment |-> new])
    /\ UNCHANGED <<requestsCommitments, requestPosted, tableCreated>>

ExecRequest(op, a, new, proof) ==
    /\ Len(tableUpdated) < MaxUpdates
    /\ ExecSucceeds(op, a, new, proof)
    /\ LET table == requestsCommitments[a] IN
        /\ tableCommitments' = [tableCommitments EXCEPT ![table] = new]
        /\ tableUpdated' = Append(tableUpdated, [table |-> table, commitment |-> new])
    /\ UNCHANGED <<requestsCommitments, requestPosted, tableCreated>>

Next ==
    \/ \E t \in Name, c \in Commitment \cup {NoCommitment} : CreateTable(t, c)
    \/ \E t \in Name, a \in Args : Request(t, a)
    \/ \E s \in Provable : ExecRequest(s.op, s.args, s.new, s)

Spec == Init /\ [][Next]_vars

-----------------------------------------------------------------------------
\* Before the n-th entry of a log of updates, table t is at commitment c: the
\* last earlier entry about t says so or, when there is none, its creation.
FoundAt(created, updated, n, t, c) ==
    \/ \E m \in 1 .. n - 1 :
        /\ updated[m] = [table |-> t, commitment |-> c]
        /\ \A k \in m + 1 .. n - 1 : updated[k].table # t
    \/ /\ \A k \in 1 .. n - 1 : updated[k].table # t
       /\ \E m \in 1 .. Len(created) : created[m] = [table |-> t, commitment |-> c]

\* Replaying the logs gives the state: a listener that applies the events of
\* a table in order ends with the commitment the contract holds, and a table
\* without a commitment has no updates and was only ever created with 0
\* (zkSQL.sol emits an event at each write, lines 32 and 57).
LogReplays ==
    \A t \in Name :
        IF tableCommitments[t] # NoCommitment
        THEN FoundAt(tableCreated, tableUpdated, Len(tableUpdated) + 1, t, tableCommitments[t])
        ELSE /\ \A k \in 1 .. Len(tableUpdated) : tableUpdated[k].table # t
             /\ \A k \in 1 .. Len(tableCreated) :
                    tableCreated[k].table = t => tableCreated[k].commitment = NoCommitment

\* A table gets a first commitment once: nothing is created after it, because
\* createTable refuses a table that has a commitment (zkSQL.sol:30) and no
\* update takes it away again.  Only creations with 0 repeat.
CommittedOnce ==
    \A m, n \in 1 .. Len(tableCreated) :
        m < n /\ tableCreated[m].table = tableCreated[n].table =>
            tableCreated[m].commitment = NoCommitment

\* Every update in the log is a step some circuit accepts, from the
\* commitment the table was left at by its previous event.  An update of a
\* table with a name is on arguments somebody posted, although execRequest
\* does not check that (zkSQL.sol:48): what was not posted names the empty
\* table.
UpdatesAreRequestedSteps ==
    \A n \in 1 .. Len(tableUpdated) :
        \E s \in Provable :
            /\ s.new = tableUpdated[n].commitment
            /\ FoundAt(tableCreated, tableUpdated, n, tableUpdated[n].table, s.old)
            /\ tableUpdated[n].table # Unnamed =>
                    \E m \in 1 .. Len(requestPosted) : requestPosted[m] = s.args

\* Every update is on arguments somebody posted.  This does not hold: once the
\* empty name was created, what nobody posted runs on it.
OnlyPostedRuns ==
    \A n \in 1 .. Len(tableUpdated) :
        \E s \in Provable :
            /\ s.new = tableUpdated[n].commitment
            /\ \E m \in 1 .. Len(requestPosted) : requestPosted[m] = s.args
=============================================================================
