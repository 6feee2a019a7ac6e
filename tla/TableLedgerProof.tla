-------------------------- MODULE TableLedgerProof --------------------------
(***************************************************************************)
(* The contract and the processes implement the ledger of hashes, for any  *)
(* number of processes, queries and tables, whatever hashes the contents   *)
(* share, and however processes end, restart and prove at the same time.   *)
(***************************************************************************)
EXTENDS ZkSqlSystemProof

\* The circuits of the write queries compute what SQLite computes.
CircuitsAgree ==
    \A q \in Query : q.type # "select" =>
        \A c \in Content : Circuit[q][c] = Hash[q.table][RunSql[q][c]]

\* The ledger the contract stands for.
Hashes   == [t \in Table |-> chainCommitments[t]]
Requests ==
    {<<requestsCommitments[a], a>> : a \in {b \in Args : requestsCommitments[b] # Unnamed}}

\* Setting the commitment of one table sets its hash in the ledger.
LEMMA SetHash ==
    ASSUME Inv, NEW t \in Table, NEW h, chainCommitments' = [chainCommitments EXCEPT ![t] = h]
    PROVE  Hashes' = [Hashes EXCEPT ![t] = h]
  <1>1. chainCommitments \in [Table \cup {Unnamed} -> Commitment \cup {0}]
    BY ContractTypes DEF Inv
  <1>2. /\ chainCommitments'[t] = h
        /\ \A u \in Table \ {t} : chainCommitments'[u] = chainCommitments[u]
    BY <1>1
  <1>3. Hashes'[t] = h /\ \A u \in Table \ {t} : Hashes'[u] = Hashes[u]
    BY <1>2 DEF Hashes
  <1>4. /\ Hashes = [u \in Table |-> Hashes[u]]
        /\ Hashes' = [u \in Table |-> Hashes'[u]]
    BY DEF Hashes
  <1>5. QED
    BY <1>3, <1>4

\* A table is created without rows.
LEMMA CreateRefines ==
    ASSUME Inv, NEW t \in Table, UserCreatesTable(t)
    PROVE  Ledger!Create(t)
  <1> DEFINE none == CHOOSE c \in NoRows : TRUE
  <1>1. Contract!CreateTable(t, Prover!ColumnsCommit(t))
    BY DEF UserCreatesTable
  <1>2. /\ chainCommitments[t] = 0
        /\ chainCommitments' = [chainCommitments EXCEPT ![t] = Hash[t][none]]
        /\ requestsCommitments' = requestsCommitments
    BY <1>1 DEF Contract!CreateTable, Contract!NoCommitment, Prover!ColumnsCommit
  <1>3. none \in NoRows
    BY ContentsAreNamed
  <1> HIDE DEF none
  <1>4. Hashes' = [Hashes EXCEPT ![t] = Hash[t][none]]
    BY <1>2, SetHash
  <1>5. Hashes[t] = 0 /\ Requests' = Requests
    BY <1>2 DEF Hashes, Requests
  <1>6. QED
    BY <1>3, <1>4, <1>5 DEF Ledger!Create, Hashes, Requests

\* A request replaces the earlier one for the same arguments.
LEMMA RequestRefines ==
    ASSUME Inv, NEW q \in Query, UserRequests(q)
    PROVE  Ledger!Ask(q) /\ q.type # "select"
  <1>1. /\ q.type # "select"
        /\ requestsCommitments' = [requestsCommitments EXCEPT ![q.args] = q.table]
        /\ chainCommitments' = chainCommitments
    BY DEF UserRequests, Contract!Request
  <1>2. requestsCommitments \in [Args -> Table \cup {Unnamed}]
    BY ContractTypes DEF Inv
  <1>3. q.table \in Table /\ q.args \in Args /\ q.table # Unnamed
    BY QueriesAreRecords, UnnamedIsNoTable
  <1>4. Requests' = {p \in Requests : p[2] # q.args} \cup {<<q.table, q.args>>}
    BY <1>1, <1>2, <1>3 DEF Requests
  <1>5. Hashes' = Hashes
    BY <1>1 DEF Hashes
  <1>6. QED
    BY <1>1, <1>4, <1>5 DEF Ledger!Ask, Hashes, Requests

\* A proof that is accepted moves the table its arguments were posted for as
\* its query does: the contents it was made from have the hash of the ledger.
LEMMA ExecRefines ==
    ASSUME CircuitsAgree, Inv,
           NEW s \in Provable, Contract!ExecRequest(s.op, s.args, s.new, s)
    PROVE  \E q \in {r \in Query : r.type # "select"}, t \in Table : Ledger!Run(q, t)
  <1>1. PICK q \in {r \in Query : r.type # "select"}, c \in Content :
            s = [op |-> q.type, new |-> Circuit[q][c], old |-> Hash[q.table][c],
                 args |-> q.args]
    BY DEF Provable
  <1> DEFINE t == requestsCommitments[q.args]
  <1>2. q.table \in Table /\ q.args \in Args
    BY QueriesAreRecords
  <1>3. /\ chainCommitments[t] = Hash[q.table][c]
        /\ chainCommitments' = [chainCommitments EXCEPT ![t] = Circuit[q][c]]
        /\ requestsCommitments' = requestsCommitments
    BY <1>1 DEF Contract!ExecRequest, Contract!ExecSucceeds, Contract!VerifyProof
  <1>4. t \in Table \cup {Unnamed} /\ chainCommitments[Unnamed] = 0
    BY <1>2, ContractTypes DEF Inv, UsersNameTables
  <1>5. Hash[q.table][c] # 0
    <2>1. Hash[q.table][c] \in Commitment
      BY <1>2, FunctionsOfContents
    <2>2. QED
      BY <2>1, ZeroIsNoCommitment
  <1>6. t \in Table
    BY <1>3, <1>4, <1>5
  <1>7. Circuit[q][c] = Hash[q.table][RunSql[q][c]]
    BY DEF CircuitsAgree
  <1>8. <<t, q.args>> \in Requests /\ Requests' = Requests
    BY <1>2, <1>3, <1>6, UnnamedIsNoTable DEF Requests
  <1> HIDE DEF t
  <1>9. Hashes[t] = Hash[q.table][c]
    BY <1>3, <1>6 DEF Hashes
  <1>10. Hashes' = [Hashes EXCEPT ![t] = Hash[q.table][RunSql[q][c]]]
    BY <1>3, <1>6, <1>7, SetHash
  <1>11. PICK u \in Table : u = t
    BY <1>6
  <1>12. Ledger!Run(q, u)
    BY <1>8, <1>9, <1>10, <1>11 DEF Ledger!Run, Hashes, Requests
  <1>13. QED
    BY <1>12

\* What leaves the contract alone leaves the ledger alone.
LEMMA KeepsLedger ==
    ASSUME UNCHANGED chainVars
    PROVE  UNCHANGED Ledger!vars
  BY DEF chainVars, Ledger!vars

\* Every step of the system is one of the ledger or none.
LEMMA NextRefines ==
    ASSUME CircuitsAgree
    PROVE  Inv /\ [Next]_vars => [Ledger!Next]_Ledger!vars
  <1> SUFFICES ASSUME Inv, [Next]_vars
               PROVE  [Ledger!Next]_Ledger!vars
    OBVIOUS
  <1>1. ASSUME NEW t \in Table, UserCreatesTable(t)
        PROVE  Ledger!Next
    BY <1>1, CreateRefines DEF Ledger!Next
  <1>2. ASSUME NEW q \in Query, UserRequests(q)
        PROVE  Ledger!Next
    BY <1>2, RequestRefines DEF Ledger!Next
  <1>3. ASSUME Mine
        PROVE  [Ledger!Next]_Ledger!vars
    <2>1. Head(txpool) \in Provable
      BY <1>3 DEF Inv, Mine
    <2>2. CASE UNCHANGED chainVars
      BY <2>2, KeepsLedger
    <2>3. CASE Contract!ExecRequest(Head(txpool).op, Head(txpool).args, Head(txpool).new,
                                    Head(txpool))
      BY <2>1, <2>3, ExecRefines DEF Ledger!Next
    <2>4. QED
      BY <1>3, <2>2, <2>3 DEF Mine
  <1>4. ASSUME UNCHANGED chainVars
        PROVE  [Ledger!Next]_Ledger!vars
    BY <1>4, KeepsLedger
  <1>5. QED
    BY <1>1, <1>2, <1>3, <1>4
       DEF Next, vars, ListTables, ReadCommitment, Listen, Boot, BootFails, Crash,
       HearRequestPosted, HearTableCreated, HearTableUpdated, PostCreate, PostRefused,
       PostRequest, Prove, Send, SendReverts, SendFails, Finish, Poll

\* No table is committed to at the start.
LEMMA InitRefines == Init => Ledger!Init
  <1> SUFFICES ASSUME Init
               PROVE  Ledger!Init
    OBVIOUS
  <1>1. \A t \in Table : chainCommitments[t] = 0
    BY DEF Init, Contract!Init, Contract!Name, Contract!NoCommitment
  <1>2. \A a \in Args : requestsCommitments[a] = Unnamed
    BY DEF Init, Contract!Init
  <1>3. Hashes = [t \in Table |-> 0] /\ Requests = {}
    BY <1>1, <1>2 DEF Hashes, Requests
  <1>4. QED
    BY <1>3 DEF Ledger!Init, Hashes, Requests

\* The contract is a ledger on which requested queries run one at a time:
\* every step of the processes, the users, the pool and the contract is a step
\* of the ledger or leaves it alone, and no transaction that verifies does
\* anything else (zkSQL.sol, execRequest).
THEOREM ContractIsALedger ==
    ASSUME CircuitsAgree
    PROVE  Spec => IsALedger
  BY InitRefines, NextRefines, AlwaysInv, PTL DEF Spec, IsALedger, Ledger!Spec
=============================================================================
