-------------------------- MODULE ZkSqlSystemProof --------------------------
(***************************************************************************)
(* The processes and the contract together, for any number of processes,   *)
(* tables, queries and transactions: the composition runs its components,  *)
(* so their theorems hold of it.                                           *)
(***************************************************************************)
EXTENDS ZkSqlSystem, TLAPS

P == INSTANCE ProverNodeProof
C == INSTANCE ZkSQLProof WITH tableCommitments <- chainCommitments

\* Tables whose commitment a process is about to read have one.
UnreadAreCommitted ==
    \A n \in Node, t \in Table : t \in unread[n] => chainCommitments[t] # 0

\* What a handler is about to send was proved.
SendingIsProved ==
    \A j \in Job : job[j].pc = "sending" =>
        job[j].query.type # "select" /\ P!Satisfied(j)

\* Users name the tables they create and commit to their columns, so the empty
\* name has no commitment and no table is created with the number 0.
UsersNameTables ==
    /\ chainCommitments[Unnamed] = 0
    /\ tableCreated \in Seq([table : Table, commitment : Commitment])

\* A process has read no event that was not logged.
SeenIsLogged ==
    seen \in [Node -> [posted : 0 .. Len(requestPosted), created : 0 .. Len(tableCreated),
                       updated : 0 .. Len(tableUpdated)]]

\* The components stand on each other: a commitment a process reads is one
\* because the contract has one, and the transactions it sends carry proofs.
Inv ==
    /\ P!WellFormed
    /\ C!IInv
    /\ UsersNameTables
    /\ UnreadAreCommitted
    /\ SendingIsProved
    /\ txpool \in Seq(Provable)
    /\ SeenIsLogged
    /\ crashes \in 0 .. MaxCrashes

-----------------------------------------------------------------------------
\* What was proved of the components, with the constants they have here.

LEMMA ProverAssumed ==
    /\ P!Init => P!WellFormed
    /\ P!WellFormed /\ [P!Next]_P!vars => P!WellFormed'
  BY P!InitWellFormed, P!NextWellFormed, QueriesAreRecords, ContentsAreNamed,
     FunctionsOfContents, CacheIsADatabase, BoundsAreNaturals DEF P!QueryType, P!Database

LEMMA StatementsAreTyped == Provable \subseteq C!Statement
  BY QueriesAreRecords, FunctionsOfContents DEF Provable, C!Statement, C!SqlOperation

LEMMA ContractAssumed ==
    /\ C!Init => C!IInv
    /\ C!IInv /\ [C!Next]_C!vars => C!IInv'
  BY C!InitIInv, C!NextIInv, StatementsAreTyped, UnnamedIsNoTable, ZeroIsNoCommitment,
     BoundsAreNaturals DEF C!NoCommitment

\* The two instances of a component are the same.
LEMMA SameStart ==
    ASSUME NEW n \in Node
    PROVE  /\ Prover!Boot(n) => P!Boot(n)
           /\ \A tables : Prover!ListTables(n, tables) => P!ListTables(n, tables)
           /\ \A t, c : Prover!ReadCommitment(n, t, c) => P!ReadCommitment(n, t, c)
           /\ Prover!Listen(n) => P!Listen(n)
           /\ Prover!BootFails(n) => P!BootFails(n)
           /\ Prover!Crash(n) => P!Crash(n)
  BY DEF Prover!Boot, P!Boot, Prover!FromCache, P!FromCache, Prover!NoTables, P!NoTables,
     Prover!ListTables, P!ListTables, Prover!ReadCommitment, P!ReadCommitment,
     Prover!Listen, P!Listen, Prover!BootFails, P!BootFails, Prover!Crash, P!Crash,
     Prover!Stop, P!Stop, Prover!AllRead, P!AllRead, Prover!Listed, P!Listed,
     Prover!db, P!db, Prover!Unknown, P!Unknown, Prover!JobsOf, P!JobsOf,
     Prover!NoCommitment, P!NoCommitment

LEMMA SameEvents ==
    ASSUME NEW n \in Node
    PROVE  /\ \A a : Prover!OnRequestPosted(n, a) => P!OnRequestPosted(n, a)
           /\ \A c : Prover!OnTableCreated(n, c) => P!OnTableCreated(n, c)
           /\ \A t, c : Prover!OnTableUpdated(n, t, c) => P!OnTableUpdated(n, t, c)
  BY DEF Prover!OnRequestPosted, P!OnRequestPosted, Prover!OnTableCreated, P!OnTableCreated,
     Prover!OnTableUpdated, P!OnTableUpdated

LEMMA SameCalls ==
    ASSUME NEW n \in Node
    PROVE  /\ \A t, c : Prover!CreateTable(n, t, c) => P!CreateTable(n, t, c)
           /\ Prover!Refuse(n) => P!Refuse(n)
           /\ \A j, q : Prover!Start(n, j, q) => P!Start(n, j, q)
           /\ \A j, q : Prover!StartFails(n, j, q) => P!StartFails(n, j, q)
  BY DEF Prover!CreateTable, P!CreateTable, Prover!IsPending, P!IsPending,
     Prover!ColumnsCommit, P!ColumnsCommit, Prover!writeDB, P!writeDB, Prover!db, P!db,
     Prover!Refuse, P!Refuse, Prover!FromCache, P!FromCache, Prover!NoTables, P!NoTables,
     Prover!Start, P!Start, Prover!StartFails, P!StartFails, Prover!MayStart, P!MayStart,
     Prover!Idle, P!Idle, Prover!nodeVars, P!nodeVars

LEMMA SameHandler ==
    ASSUME NEW j \in Job
    PROVE  /\ Prover!ProveSelect(j) => P!ProveSelect(j)
           /\ Prover!ProveFails(j) => P!ProveFails(j)
           /\ Prover!ProveWrite(j) => P!ProveWrite(j)
           /\ Prover!SendOk(j) => P!SendOk(j)
           /\ Prover!SendThrows(j) => P!SendThrows(j)
           /\ Prover!Finish(j) => P!Finish(j)
           /\ Prover!Poll(j) => P!Poll(j)
  BY DEF Prover!ProveSelect, P!ProveSelect, Prover!ProveFails, P!ProveFails,
     Prover!ProveWrite, P!ProveWrite, Prover!SendOk, P!SendOk, Prover!SendThrows,
     P!SendThrows, Prover!Finish, P!Finish, Prover!Poll, P!Poll, Prover!Answer, P!Answer,
     Prover!Satisfied, P!Satisfied, Prover!Stop, P!Stop, Prover!Unknown, P!Unknown,
     Prover!JobsOf, P!JobsOf, Prover!NoCommitment, P!NoCommitment, Prover!writeDB,
     P!writeDB, Prover!db, P!db, Prover!nodeVars, P!nodeVars

LEMMA SameContract ==
    /\ \A t, c : Contract!CreateTable(t, c) => C!CreateTable(t, c)
    /\ \A t, a : Contract!Request(t, a) => C!Request(t, a)
    /\ \A op, a, new, s : Contract!ExecRequest(op, a, new, s) => C!ExecRequest(op, a, new, s)
  BY DEF Contract!CreateTable, C!CreateTable, Contract!Request, C!Request,
     Contract!ExecRequest, C!ExecRequest, Contract!ExecSucceeds, C!ExecSucceeds,
     Contract!VerifyProof, C!VerifyProof, Contract!NoCommitment, C!NoCommitment

-----------------------------------------------------------------------------
\* The contract, as the processes see it.

LEMMA ContractTypes ==
    ASSUME C!IInv
    PROVE  /\ chainCommitments \in [Table \cup {Unnamed} -> Commitment \cup {0}]
           /\ requestsCommitments \in [Args -> Table \cup {Unnamed}]
           /\ requestPosted \in Seq(Args)
           /\ tableCreated \in Seq([table : Table \cup {Unnamed},
                                    commitment : Commitment \cup {0}])
           /\ tableUpdated \in Seq([table : Table \cup {Unnamed}, commitment : Commitment])
  BY DEF C!IInv, C!TypeOK, C!Name, C!TableEvent, C!NoCommitment

LEMMA EntryType ==
    ASSUME NEW S, NEW s \in Seq(S), NEW i \in 1 .. Len(s)
    PROVE  s[i] \in S
  OBVIOUS

\* A table in the logs has a commitment.
LEMMA LoggedHaveCommitments ==
    ASSUME C!IInv, UsersNameTables
    PROVE  /\ \A i \in 1 .. Len(tableCreated) :
                /\ tableCreated[i].table \in Table
                /\ tableCreated[i].commitment \in Commitment
                /\ chainCommitments[tableCreated[i].table] # 0
           /\ \A i \in 1 .. Len(tableUpdated) :
                /\ tableUpdated[i].table \in Table
                /\ tableUpdated[i].commitment \in Commitment
  <1> DEFINE N == [table : Table, commitment : Commitment]
             E == [table : Table \cup {Unnamed}, commitment : Commitment]
  <1>1. tableCreated \in Seq(N) /\ tableUpdated \in Seq(E)
    BY ContractTypes DEF UsersNameTables
  <1>2. /\ \A k \in 1 .. Len(tableCreated) : tableCreated[k] \in N
        /\ \A k \in 1 .. Len(tableUpdated) : tableUpdated[k] \in E
    BY <1>1, EntryType
  <1>3. ASSUME NEW u \in Table \cup {Unnamed}, chainCommitments[u] = 0
        PROVE  /\ \A k \in 1 .. Len(tableCreated) : tableCreated[k].table # u
               /\ \A k \in 1 .. Len(tableUpdated) : tableUpdated[k].table # u
    <2>1. /\ \A k \in 1 .. Len(tableUpdated) : tableUpdated[k].table # u
          /\ \A k \in 1 .. Len(tableCreated) :
                tableCreated[k].table = u => tableCreated[k].commitment = 0
      BY <1>3 DEF C!IInv, C!LogReplays, C!Name, C!NoCommitment
    <2>2. QED
      BY <1>2, <2>1, ZeroIsNoCommitment
  <1>4. chainCommitments[Unnamed] = 0
    BY DEF UsersNameTables
  <1>5. QED
    BY <1>2, <1>3, <1>4

\* What a transaction leaves: the entries of the logs, and that a table has a
\* commitment.
LEMMA ContractKeeps ==
    ASSUME C!IInv, [C!Next]_C!vars
    PROVE  /\ \A t \in Table : chainCommitments[t] # 0 => chainCommitments'[t] # 0
           /\ Len(requestPosted) <= Len(requestPosted')
           /\ Len(tableCreated) <= Len(tableCreated')
           /\ Len(tableUpdated) <= Len(tableUpdated')
           /\ \A i \in 1 .. Len(requestPosted) : requestPosted'[i] = requestPosted[i]
           /\ \A i \in 1 .. Len(tableCreated) : tableCreated'[i] = tableCreated[i]
           /\ \A i \in 1 .. Len(tableUpdated) : tableUpdated'[i] = tableUpdated[i]
  <1> DEFINE N == [table : Table \cup {Unnamed}, commitment : Commitment \cup {0}]
             E == [table : Table \cup {Unnamed}, commitment : Commitment]
             Grows(log, next) ==
                Len(log) <= Len(next) /\ \A i \in 1 .. Len(log) : next[i] = log[i]
             Goal ==
                /\ \A t \in Table : chainCommitments[t] # 0 => chainCommitments'[t] # 0
                /\ Grows(requestPosted, requestPosted')
                /\ Grows(tableCreated, tableCreated')
                /\ Grows(tableUpdated, tableUpdated')
  <1>1. /\ chainCommitments \in [Table \cup {Unnamed} -> Commitment \cup {0}]
        /\ requestsCommitments \in [Args -> Table \cup {Unnamed}]
        /\ requestPosted \in Seq(Args) /\ tableCreated \in Seq(N) /\ tableUpdated \in Seq(E)
    BY ContractTypes
  <1>2. /\ \A e \in N : Grows(tableCreated, Append(tableCreated, e))
        /\ \A e \in E : Grows(tableUpdated, Append(tableUpdated, e))
        /\ \A a \in Args : Grows(requestPosted, Append(requestPosted, a))
    <2>1. ASSUME NEW S, NEW s \in Seq(S), NEW e \in S
          PROVE  Grows(s, Append(s, e))
      OBVIOUS
    <2>2. QED
      BY <1>1, <2>1
  <1>3. /\ Grows(tableCreated, tableCreated)
        /\ Grows(tableUpdated, tableUpdated)
        /\ Grows(requestPosted, requestPosted)
    BY <1>1
  <1> HIDE DEF Grows
  <1>4. ASSUME NEW t \in Table \cup {Unnamed}, NEW c \in Commitment \cup {0},
               C!CreateTable(t, c)
        PROVE  Goal
    <2>1. \A u \in Table : chainCommitments[u] # 0 => chainCommitments'[u] # 0
      BY <1>1, <1>4 DEF C!CreateTable, C!NoCommitment
    <2>2. [table |-> t, commitment |-> c] \in N
      OBVIOUS
    <2>3. QED
      BY <1>2, <1>3, <1>4, <2>1, <2>2 DEF C!CreateTable
  <1>5. ASSUME NEW t \in Table \cup {Unnamed}, NEW a \in Args, C!Request(t, a)
        PROVE  Goal
    BY <1>2, <1>3, <1>5 DEF C!Request
  <1>6. ASSUME NEW s \in Provable, C!ExecRequest(s.op, s.args, s.new, s)
        PROVE  Goal
    <2>1. s.new \in Commitment /\ s.args \in Args
      BY StatementsAreTyped DEF C!Statement
    <2>2. \A u \in Table : chainCommitments[u] # 0 => chainCommitments'[u] # 0
      BY <1>1, <1>6, <2>1, ZeroIsNoCommitment DEF C!ExecRequest
    <2>3. [table |-> requestsCommitments[s.args], commitment |-> s.new] \in E
      BY <1>1, <2>1
    <2>4. QED
      BY <1>2, <1>3, <1>6, <2>2, <2>3 DEF C!ExecRequest
  <1>7. ASSUME UNCHANGED C!vars
        PROVE  Goal
    BY <1>3, <1>7 DEF C!vars
  <1> HIDE DEF Goal
  <1>8. Goal
    BY <1>4, <1>5, <1>6, <1>7 DEF C!Next, C!Name, C!NoCommitment
  <1>9. QED
    BY <1>8 DEF Goal, Grows

-----------------------------------------------------------------------------
\* What a step of the system is to the components.

Step ==
    /\ [P!Next]_P!vars
    /\ [C!Next]_C!vars
    /\ UsersNameTables'
    /\ UnreadAreCommitted'
    /\ SendingIsProved'
    /\ txpool' \in Seq(Provable)

\* The contract never takes a commitment back.
LEMMA UnreadStay ==
    ASSUME Inv, [C!Next]_C!vars,
           \A n \in Node, t \in Table : t \in unread'[n] => t \in unread[n]
    PROVE  UnreadAreCommitted'
  BY ContractKeeps DEF Inv, UnreadAreCommitted

\* What leaves the contract alone names no table.
LEMMA NamesStay ==
    ASSUME Inv, UNCHANGED C!vars
    PROVE  UsersNameTables'
  BY DEF Inv, UsersNameTables, C!vars

\* Only a proof brings a handler to sending.
LEMMA SendingStay ==
    ASSUME Inv, \A j \in Job : job'[j].pc = "sending" => job'[j] = job[j]
    PROVE  SendingIsProved'
  BY DEF Inv, SendingIsProved, P!Satisfied

\* Steps of a process that leave the contract and the pool alone.
LEMMA ProcessStep ==
    ASSUME Inv, P!Next, UNCHANGED <<chainVars, txpool>>,
           \A n \in Node, t \in Table : t \in unread'[n] => t \in unread[n],
           \A j \in Job : job'[j].pc = "sending" => job'[j] = job[j]
    PROVE  Step
  <1>1. UNCHANGED C!vars
    BY DEF chainVars, C!vars
  <1>2. UnreadAreCommitted' /\ SendingIsProved' /\ UsersNameTables'
    BY <1>1, UnreadStay, SendingStay, NamesStay
  <1>3. QED
    BY <1>1, <1>2 DEF Step, Inv

\* Users call the contract and no process.
LEMMA UserStep ==
    ASSUME Inv, \/ \E t \in Table : UserCreatesTable(t)
                \/ \E q \in Query : UserRequests(q)
    PROVE  Step
  <1>1. UNCHANGED <<P!vars, unread, job, txpool>>
    BY DEF UserCreatesTable, UserRequests, proverVars, P!vars, P!nodeVars
  <1>2. ASSUME NEW t \in Table, UserCreatesTable(t)
        PROVE  C!Next /\ UsersNameTables'
    <2> DEFINE c == Prover!ColumnsCommit(t)
    <2>1. c \in Commitment
      BY ContentsAreNamed, FunctionsOfContents DEF Prover!ColumnsCommit
    <2> HIDE DEF c
    <2>2. C!CreateTable(t, c)
      BY <1>2, SameContract DEF UserCreatesTable, c
    <2>3. C!Next
      BY <2>1, <2>2 DEF C!Next, C!Name
    <2>4. chainCommitments \in [Table \cup {Unnamed} -> Commitment \cup {0}]
      BY ContractTypes DEF Inv
    <2>5. chainCommitments'[Unnamed] = 0
      BY <2>2, <2>4, UnnamedIsNoTable DEF C!CreateTable, Inv, UsersNameTables
    <2>6. [table |-> t, commitment |-> c] \in [table : Table, commitment : Commitment]
      BY <2>1
    <2>7. tableCreated' = Append(tableCreated, [table |-> t, commitment |-> c])
      BY <2>2 DEF C!CreateTable
    <2>8. tableCreated' \in Seq([table : Table, commitment : Commitment])
      BY <2>6, <2>7 DEF Inv, UsersNameTables
    <2>9. QED
      BY <2>3, <2>5, <2>8 DEF UsersNameTables
  <1>3. ASSUME NEW q \in Query, UserRequests(q)
        PROVE  C!Next /\ UsersNameTables'
    <2>1. q.table \in Table /\ q.args \in Args
      BY QueriesAreRecords
    <2>2. C!Request(q.table, q.args)
      BY <1>3, SameContract DEF UserRequests
    <2>3. C!Next
      BY <2>1, <2>2 DEF C!Next, C!Name
    <2>4. UsersNameTables'
      BY <2>2 DEF C!Request, Inv, UsersNameTables
    <2>5. QED
      BY <2>3, <2>4
  <1>4. C!Next /\ UsersNameTables'
    BY <1>2, <1>3
  <1>5. UnreadAreCommitted' /\ SendingIsProved'
    BY <1>1, <1>4, UnreadStay, SendingStay
  <1>6. QED
    BY <1>1, <1>4, <1>5 DEF Step, Inv

\* The tables of the log have commitments, so what a process lists it can read.
LEMMA ListTablesStep ==
    ASSUME Inv, NEW n \in Node, ListTables(n)
    PROVE  Step
  <1> DEFINE tables == {tableCreated[i].table : i \in 1 .. Len(tableCreated)}
  <1>1. C!IInv /\ UsersNameTables /\ P!TypeOK
    BY DEF Inv, P!WellFormed
  <1>2. \A t \in tables : t \in Table /\ chainCommitments[t] # 0
    BY <1>1, LoggedHaveCommitments
  <1>3. tables \in SUBSET Table
    BY <1>2
  <1>4. Prover!ListTables(n, tables)
    BY DEF ListTables
  <1> HIDE DEF tables
  <1>5. P!Next
    BY <1>3, <1>4, SameStart DEF P!Next, P!ChainStep
  <1>6. UNCHANGED C!vars /\ UNCHANGED txpool
    BY DEF ListTables, chainVars, C!vars
  <1>7. UnreadAreCommitted'
    BY <1>1, <1>2, <1>4, <1>6
       DEF Inv, UnreadAreCommitted, Prover!ListTables, P!TypeOK, C!vars
  <1>8. SendingIsProved' /\ UsersNameTables'
    BY <1>4, <1>6, SendingStay, NamesStay DEF Prover!ListTables
  <1>9. QED
    BY <1>5, <1>6, <1>7, <1>8 DEF Step, Inv

\* What a process reads is a commitment: it listed only tables that have one.
LEMMA ReadCommitmentStep ==
    ASSUME Inv, NEW n \in Node, NEW t \in Table, ReadCommitment(n, t)
    PROVE  Step
  <1>1. Prover!ReadCommitment(n, t, chainCommitments[t]) /\ UNCHANGED <<chainVars, txpool>>
    BY DEF ReadCommitment
  <1>2. P!TypeOK /\ C!IInv /\ UnreadAreCommitted
    BY DEF Inv, P!WellFormed
  <1>3. chainCommitments[t] # 0
    BY <1>1, <1>2 DEF UnreadAreCommitted, Prover!ReadCommitment
  <1>4. chainCommitments[t] \in Commitment
    BY <1>2, <1>3, ContractTypes
  <1>5. P!Next
    BY <1>1, <1>4, SameStart DEF P!Next, P!ChainStep
  <1>6. \A m \in Node, u \in Table : u \in unread'[m] => u \in unread[m]
    BY <1>1, <1>2 DEF Prover!ReadCommitment, P!TypeOK
  <1>7. job' = job
    BY <1>1 DEF Prover!ReadCommitment
  <1>8. QED
    BY <1>1, <1>5, <1>6, <1>7, ProcessStep

\* The end of a process, whatever ends it.
LEMMA StopStep ==
    ASSUME Inv, NEW n \in Node, Prover!Stop(n), P!Next, UNCHANGED <<chainVars, txpool>>
    PROVE  Step
  <1>1. P!TypeOK
    BY DEF Inv, P!WellFormed
  <1>2. \A m \in Node, u \in Table : u \in unread'[m] => u \in unread[m]
    BY <1>1 DEF Prover!Stop, P!TypeOK
  <1>3. \A j \in Job : job'[j].pc = "sending" => job'[j] = job[j]
    BY DEF Prover!Stop
  <1>4. QED
    BY <1>2, <1>3, ProcessStep

\* Starting and stopping.
LEMMA StartStep ==
    ASSUME Inv, NEW n \in Node, Boot(n) \/ Listen(n) \/ BootFails(n) \/ Crash(n)
    PROVE  Step
  <1>1. UNCHANGED <<chainVars, txpool>>
    BY DEF Boot, Listen, BootFails, Crash
  <1>2. P!Next
    BY SameStart DEF Boot, Listen, BootFails, Crash, P!Next, P!LocalStep
  <1>3. CASE Boot(n) \/ Listen(n)
    <2>1. unread' = unread /\ job' = job
      BY <1>3 DEF Boot, Listen, Prover!Boot, Prover!Listen
    <2>2. QED
      BY <1>1, <1>2, <2>1, ProcessStep
  <1>4. CASE BootFails(n) \/ Crash(n)
    <2>1. Prover!Stop(n)
      BY <1>4 DEF BootFails, Crash, Prover!BootFails, Prover!Crash
    <2>2. QED
      BY <1>1, <1>2, <2>1, StopStep
  <1>5. QED
    BY <1>3, <1>4

\* An event that is heard was logged.
LEMMA HearStep ==
    ASSUME Inv, NEW n \in Node,
           HearRequestPosted(n) \/ HearTableCreated(n) \/ HearTableUpdated(n)
    PROVE  Step
  <1> DEFINE N == [table : Table \cup {Unnamed}, commitment : Commitment \cup {0}]
             E == [table : Table \cup {Unnamed}, commitment : Commitment]
  <1>1. UNCHANGED <<chainVars, txpool>>
    BY DEF HearRequestPosted, HearTableCreated, HearTableUpdated
  <1>2. /\ requestPosted \in Seq(Args) /\ tableCreated \in Seq(N) /\ tableUpdated \in Seq(E)
        /\ seen[n].posted \in Nat /\ seen[n].created \in Nat /\ seen[n].updated \in Nat
    BY ContractTypes DEF Inv, SeenIsLogged
  <1>3. ASSUME HearRequestPosted(n)
        PROVE  P!Next /\ UNCHANGED <<unread, job>>
    <2>1. seen[n].posted + 1 \in 1 .. Len(requestPosted)
      BY <1>2, <1>3 DEF HearRequestPosted
    <2>2. requestPosted[seen[n].posted + 1] \in Args
      BY <1>2, <2>1, EntryType
    <2>3. QED
      BY <1>3, <2>2, SameEvents
         DEF HearRequestPosted, P!Next, P!ChainStep, Prover!OnRequestPosted
  <1>4. ASSUME HearTableCreated(n)
        PROVE  P!Next /\ UNCHANGED <<unread, job>>
    <2>1. seen[n].created + 1 \in 1 .. Len(tableCreated)
      BY <1>2, <1>4 DEF HearTableCreated
    <2>2. tableCreated[seen[n].created + 1].commitment \in Commitment
      BY <2>1, LoggedHaveCommitments DEF Inv
    <2>3. QED
      BY <1>4, <2>2, SameEvents
         DEF HearTableCreated, P!Next, P!ChainStep, Prover!OnTableCreated
  <1>5. ASSUME HearTableUpdated(n)
        PROVE  P!Next /\ UNCHANGED <<unread, job>>
    <2>1. seen[n].updated + 1 \in 1 .. Len(tableUpdated)
      BY <1>2, <1>5 DEF HearTableUpdated
    <2>2. /\ tableUpdated[seen[n].updated + 1].table \in Table
          /\ tableUpdated[seen[n].updated + 1].commitment \in Commitment
      BY <2>1, LoggedHaveCommitments DEF Inv
    <2>3. QED
      BY <1>5, <2>2, SameEvents
         DEF HearTableUpdated, P!Next, P!ChainStep, Prover!OnTableUpdated
  <1>6. QED
    BY <1>1, <1>3, <1>4, <1>5, ProcessStep

\* The calls of POST /create and POST /request.
LEMMA CallStep ==
    ASSUME Inv, NEW n \in Node,
           \/ \E t \in Table : PostCreate(n, t)
           \/ PostRefused(n)
           \/ \E j \in Job, q \in Query : PostRequest(n, j, q)
    PROVE  Step
  <1>1. P!TypeOK
    BY DEF Inv, P!WellFormed
  <1>2. ASSUME NEW t \in Table, PostCreate(n, t)
        PROVE  Step
    <2>1. PICK c \in FirstContent : Prover!CreateTable(n, t, c)
      BY <1>2 DEF PostCreate
    <2>2. P!Next
      BY <2>1, SameCalls DEF P!Next, P!LocalStep
    <2>3. UNCHANGED <<chainVars, txpool, unread, job>>
      BY <1>2, <2>1 DEF PostCreate, Prover!CreateTable
    <2>4. QED
      BY <2>2, <2>3, ProcessStep
  <1>3. ASSUME PostRefused(n)
        PROVE  Step
    <2>1. P!Next
      BY <1>3, SameCalls DEF PostRefused, P!Next, P!LocalStep
    <2>2. UNCHANGED <<chainVars, txpool, unread, job>>
      BY <1>3 DEF PostRefused, Prover!Refuse
    <2>3. QED
      BY <2>1, <2>2, ProcessStep
  <1>4. ASSUME NEW j \in Job, NEW q \in Query, PostRequest(n, j, q)
        PROVE  Step
    <2>1. P!Next
      BY <1>4, SameCalls DEF PostRequest, P!Next, P!LocalStep
    <2>2. UNCHANGED <<chainVars, txpool, unread>>
      BY <1>4 DEF PostRequest, Prover!Start, Prover!StartFails, Prover!nodeVars
    <2>3. \A k \in Job : job'[k].pc = "sending" => job'[k] = job[k]
      BY <1>1, <1>4 DEF PostRequest, Prover!Start, Prover!StartFails, P!TypeOK
    <2>4. QED
      BY <2>1, <2>2, <2>3, ProcessStep
  <1>5. QED
    BY <1>2, <1>3, <1>4

\* A handler that is under way is a record.
LEMMA HandlerType ==
    ASSUME Inv, NEW j \in Job, job[j].pc \notin {"idle", "taken", "lost"}
    PROVE  /\ job[j] \in P!Handler
           /\ job[j].node \in Node /\ job[j].query \in Query
           /\ job[j].query.table \in Table /\ job[j].read \in Content
  <1>1. P!TypeOK
    BY DEF Inv, P!WellFormed
  <1>2. job[j] \in P!Handler
    BY <1>1 DEF P!TypeOK, P!Idle, P!Ended
  <1>3. QED
    BY <1>2, QueriesAreRecords DEF P!Handler

\* A write that was proved is to be sent.
LEMMA ProveStep ==
    ASSUME Inv, NEW j \in Job, Prove(j)
    PROVE  Step
  <1>1. P!TypeOK
    BY DEF Inv, P!WellFormed
  <1>2. UNCHANGED <<chainVars, txpool>>
    BY DEF Prove
  <1>3. P!Next
    BY SameHandler DEF Prove, P!Next, P!LocalStep
  <1>4. UNCHANGED unread
    BY DEF Prove, Prover!ProveSelect, Prover!ProveFails, Prover!ProveWrite, Prover!nodeVars
  <1>5. job[j] \in P!Handler
    BY HandlerType DEF Prove, Prover!ProveSelect, Prover!ProveFails, Prover!ProveWrite
  <1>6. CASE Prover!ProveSelect(j) \/ Prover!ProveFails(j)
    <2>1. \A k \in Job : job'[k].pc = "sending" => job'[k] = job[k]
      BY <1>1, <1>5, <1>6
         DEF Prover!ProveSelect, Prover!ProveFails, Prover!Answer, P!TypeOK, P!Handler
    <2>2. QED
      BY <1>2, <1>3, <1>4, <2>1, ProcessStep
  <1>7. CASE Prover!ProveWrite(j)
    <2>1. PICK pc : job' = [job EXCEPT ![j].pc = pc]
      BY <1>7 DEF Prover!ProveWrite, Prover!Answer
    <2>2. job[j].query.type # "select" /\ P!Satisfied(j)
      BY <1>7 DEF Prover!ProveWrite, Prover!Satisfied, P!Satisfied
    <2>3. /\ job'[j].query = job[j].query /\ job'[j].read = job[j].read
          /\ job'[j].commit = job[j].commit
          /\ \A k \in Job \ {j} : job'[k] = job[k]
      BY <1>1, <1>5, <2>1 DEF P!TypeOK, P!Handler
    <2>4. SendingIsProved'
      BY <2>2, <2>3 DEF Inv, SendingIsProved, P!Satisfied
    <2>5. UNCHANGED C!vars
      BY <1>2 DEF chainVars, C!vars
    <2>6. UnreadAreCommitted' /\ UsersNameTables'
      BY <1>4, <2>5, UnreadStay, NamesStay
    <2>7. QED
      BY <1>2, <1>3, <2>4, <2>5, <2>6 DEF Step, Inv
  <1>8. QED
    BY <1>6, <1>7 DEF Prove

\* What is sent carries a proof.
LEMMA SentIsProvable ==
    ASSUME Inv, NEW j \in Job, job[j].pc = "sending"
    PROVE  Prover!StatementOf(j) \in Provable
  <1> DEFINE q == job[j].query
             c == job[j].read
  <1>1. q \in Query /\ c \in Content
    BY HandlerType
  <1>2. q.type # "select" /\ job[j].commit = Hash[q.table][c]
    BY DEF Inv, SendingIsProved, P!Satisfied
  <1>3. Prover!StatementOf(j) =
            [op |-> q.type, new |-> Circuit[q][c], old |-> Hash[q.table][c], args |-> q.args]
    BY <1>2 DEF Prover!StatementOf
  <1>4. QED
    BY <1>1, <1>2, <1>3 DEF Provable

\* The rest of a handler.
LEMMA SendStep ==
    ASSUME Inv, NEW j \in Job,
           Send(j) \/ SendReverts(j) \/ SendFails(j) \/ Finish(j) \/ Poll(j)
    PROVE  Step
  <1>1. P!TypeOK
    BY DEF Inv, P!WellFormed
  <1>2. P!Next
    BY SameHandler DEF Send, SendReverts, SendFails, Finish, Poll, P!Next, P!LocalStep, P!ChainStep
  <1>3. UNCHANGED C!vars
    BY DEF Send, SendReverts, SendFails, Finish, Poll, chainVars, C!vars
  <1>4. CASE Send(j)
    <2>1. Prover!SendOk(j) /\ txpool' = Append(txpool, Prover!StatementOf(j))
      BY <1>4 DEF Send
    <2>2. txpool' \in Seq(Provable)
      BY <2>1, SentIsProvable DEF Inv, Prover!SendOk
    <2>3. job[j] \in P!Handler
      BY <2>1, HandlerType DEF Prover!SendOk
    <2>4. \A k \in Job : job'[k].pc = "sending" => job'[k] = job[k]
      BY <1>1, <2>1, <2>3 DEF Prover!SendOk, Prover!Answer, P!TypeOK, P!Handler
    <2>5. unread' = unread
      BY <2>1 DEF Prover!SendOk, Prover!nodeVars
    <2>6. UnreadAreCommitted' /\ SendingIsProved' /\ UsersNameTables'
      BY <1>3, <2>4, <2>5, UnreadStay, SendingStay, NamesStay
    <2>7. QED
      BY <1>2, <1>3, <2>2, <2>6 DEF Step
  <1>5. CASE SendReverts(j) \/ SendFails(j)
    <2>1. Prover!SendThrows(j) /\ UNCHANGED <<chainVars, txpool>>
      BY <1>5 DEF SendReverts, SendFails
    <2>2. job[j] \in P!Handler
      BY <2>1, HandlerType DEF Prover!SendThrows
    <2>3. \A k \in Job : job'[k].pc = "sending" => job'[k] = job[k]
      BY <1>1, <2>1, <2>2 DEF Prover!SendThrows, Prover!Answer, P!TypeOK, P!Handler
    <2>4. unread' = unread
      BY <2>1 DEF Prover!SendThrows, Prover!nodeVars
    <2>5. QED
      BY <1>2, <2>1, <2>3, <2>4, ProcessStep
  <1>6. CASE Finish(j) \/ Poll(j)
    <2>1. UNCHANGED <<chainVars, txpool, unread>>
      BY <1>6 DEF Finish, Poll, Prover!Finish, Prover!Poll, Prover!nodeVars
    <2>2. job[j] \in P!Handler
      BY <1>6, HandlerType DEF Finish, Poll, Prover!Finish, Prover!Poll
    <2>3. \A k \in Job : job'[k].pc = "sending" => job'[k] = job[k]
      BY <1>1, <1>6, <2>2
         DEF Finish, Poll, Prover!Finish, Prover!Poll, Prover!Answer, P!TypeOK, P!Handler
    <2>4. QED
      BY <1>2, <2>1, <2>3, ProcessStep
  <1>7. QED
    BY <1>4, <1>5, <1>6

\* What is mined is a call of the contract, or reverts.
LEMMA MineStep ==
    ASSUME Inv, Mine
    PROVE  Step
  <1>1. txpool \in Seq(Provable) /\ txpool # <<>>
    BY DEF Inv, Mine
  <1>2. Head(txpool) \in Provable /\ txpool' \in Seq(Provable)
    BY <1>1 DEF Mine
  <1>3. UNCHANGED <<P!vars, unread, job>>
    BY DEF Mine, proverVars, P!vars, P!nodeVars
  <1>4. [C!Next]_C!vars
    BY <1>2, SameContract DEF Mine, C!Next, chainVars, C!vars
  <1>5. UnreadAreCommitted' /\ SendingIsProved'
    BY <1>3, <1>4, UnreadStay, SendingStay
  <1>6. ASSUME UNCHANGED chainVars
        PROVE  UsersNameTables'
    BY <1>6 DEF Inv, UsersNameTables, chainVars
  <1>7. ASSUME NEW s \in Provable, C!ExecRequest(s.op, s.args, s.new, s)
        PROVE  UsersNameTables'
    <2> DEFINE t == requestsCommitments[s.args]
    <2>1. s.old \in Commitment /\ s.args \in Args
      BY StatementsAreTyped DEF C!Statement
    <2>2. /\ chainCommitments \in [Table \cup {Unnamed} -> Commitment \cup {0}]
          /\ chainCommitments[Unnamed] = 0
      BY ContractTypes DEF Inv, UsersNameTables
    <2>3. /\ s.old = chainCommitments[t]
          /\ chainCommitments' = [chainCommitments EXCEPT ![t] = s.new]
          /\ UNCHANGED tableCreated
      BY <1>7 DEF C!ExecRequest, C!ExecSucceeds, C!VerifyProof
    <2> HIDE DEF t
    <2>4. t # Unnamed
      BY <2>1, <2>2, <2>3, ZeroIsNoCommitment
    <2>5. QED
      BY <2>2, <2>3, <2>4 DEF Inv, UsersNameTables
  <1>8. UsersNameTables'
    <2>1. PICK s \in Provable : s = Head(txpool)
      BY <1>2
    <2>2. Contract!ExecRequest(s.op, s.args, s.new, s) \/ UNCHANGED chainVars
      BY <2>1 DEF Mine
    <2>3. CASE Contract!ExecRequest(s.op, s.args, s.new, s)
      BY <1>7, <2>3, SameContract
    <2>4. CASE UNCHANGED chainVars
      BY <1>6, <2>4
    <2>5. QED
      BY <2>2, <2>3, <2>4
  <1>9. QED
    BY <1>2, <1>3, <1>4, <1>5, <1>8 DEF Step

\* Reading one more event of one log.
LEMMA ReadOne ==
    ASSUME NEW p \in Nat, NEW c \in Nat, NEW u \in Nat,
           NEW e \in [posted : 0 .. p, created : 0 .. c, updated : 0 .. u]
    PROVE  /\ e.posted < p => [e EXCEPT !.posted = e.posted + 1]
                                \in [posted : 0 .. p, created : 0 .. c, updated : 0 .. u]
           /\ e.created < c => [e EXCEPT !.created = e.created + 1]
                                \in [posted : 0 .. p, created : 0 .. c, updated : 0 .. u]
           /\ e.updated < u => [e EXCEPT !.updated = e.updated + 1]
                                \in [posted : 0 .. p, created : 0 .. c, updated : 0 .. u]
  <1>1. e.posted < p => e.posted + 1 \in 0 .. p
    OBVIOUS
  <1>2. e.created < c => e.created + 1 \in 0 .. c
    OBVIOUS
  <1>3. e.updated < u => e.updated + 1 \in 0 .. u
    OBVIOUS
  <1>4. QED
    BY <1>1, <1>2, <1>3

\* No process has read further than the logs go, and crashes are counted.
LEMMA StepSeen ==
    ASSUME Inv, [Next]_vars, [C!Next]_C!vars
    PROVE  SeenIsLogged' /\ crashes' \in 0 .. MaxCrashes
  <1> DEFINE At(p, c, u) == [posted : 0 .. p, created : 0 .. c, updated : 0 .. u]
             p == Len(requestPosted)
             c == Len(tableCreated)
             u == Len(tableUpdated)
  <1>1. /\ seen \in [Node -> At(p, c, u)] /\ crashes \in 0 .. MaxCrashes
        /\ p \in Nat /\ c \in Nat /\ u \in Nat
    BY ContractTypes DEF Inv, SeenIsLogged
  <1>2. C!IInv'
    BY ContractAssumed DEF Inv
  <1>3. p' \in Nat /\ c' \in Nat /\ u' \in Nat
    BY <1>2 DEF C!IInv, C!TypeOK
  <1>4. p <= p' /\ c <= c' /\ u <= u'
    BY ContractKeeps DEF Inv
  <1>5. At(p, c, u) \subseteq At(p', c', u')
    BY <1>1, <1>3, <1>4
  <1>6. ASSUME UNCHANGED <<seen, crashes>>
        PROVE  seen' \in [Node -> At(p', c', u')] /\ crashes' \in 0 .. MaxCrashes
    BY <1>1, <1>5, <1>6
  <1>7. ASSUME NEW n \in Node, Listen(n)
        PROVE  seen' \in [Node -> At(p', c', u')] /\ crashes' \in 0 .. MaxCrashes
    <2>1. seen' = [seen EXCEPT ![n] = [posted |-> p, created |-> c, updated |-> u]]
                /\ UNCHANGED crashes
      BY <1>7 DEF Listen
    <2>2. [posted |-> p, created |-> c, updated |-> u] \in At(p', c', u')
      BY <1>1, <1>3, <1>4
    <2>3. QED
      BY <1>1, <1>5, <2>1, <2>2
  <1>8. ASSUME NEW n \in Node,
               HearRequestPosted(n) \/ HearTableCreated(n) \/ HearTableUpdated(n)
        PROVE  seen' \in [Node -> At(p', c', u')] /\ crashes' \in 0 .. MaxCrashes
    <2>1. seen[n] \in At(p, c, u)
      BY <1>1
    <2>2. PICK e \in At(p, c, u) : seen' = [seen EXCEPT ![n] = e] /\ UNCHANGED crashes
      <3>1. CASE HearRequestPosted(n)
        <4>1. [seen[n] EXCEPT !.posted = @ + 1] \in At(p, c, u)
          BY <1>1, <2>1, <3>1, ReadOne DEF HearRequestPosted
        <4>2. /\ seen' = [seen EXCEPT ![n] = [seen[n] EXCEPT !.posted = @ + 1]]
              /\ UNCHANGED crashes
          BY <1>1, <3>1 DEF HearRequestPosted
        <4>3. QED
          BY <4>1, <4>2
      <3>2. CASE HearTableCreated(n)
        <4>1. [seen[n] EXCEPT !.created = @ + 1] \in At(p, c, u)
          BY <1>1, <2>1, <3>2, ReadOne DEF HearTableCreated
        <4>2. /\ seen' = [seen EXCEPT ![n] = [seen[n] EXCEPT !.created = @ + 1]]
              /\ UNCHANGED crashes
          BY <1>1, <3>2 DEF HearTableCreated
        <4>3. QED
          BY <4>1, <4>2
      <3>3. CASE HearTableUpdated(n)
        <4>1. [seen[n] EXCEPT !.updated = @ + 1] \in At(p, c, u)
          BY <1>1, <2>1, <3>3, ReadOne DEF HearTableUpdated
        <4>2. /\ seen' = [seen EXCEPT ![n] = [seen[n] EXCEPT !.updated = @ + 1]]
              /\ UNCHANGED crashes
          BY <1>1, <3>3 DEF HearTableUpdated
        <4>3. QED
          BY <4>1, <4>2
      <3>4. QED
        BY <1>8, <3>1, <3>2, <3>3
    <2>3. QED
      BY <1>1, <1>5, <2>2
  <1>9. ASSUME \/ \E n \in Node : Crash(n)
               \/ \E j \in Job : SendFails(j)
        PROVE  seen' \in [Node -> At(p', c', u')] /\ crashes' \in 0 .. MaxCrashes
    <2>1. UNCHANGED seen /\ crashes' \in 0 .. MaxCrashes
      BY <1>1, <1>9, BoundsAreNaturals DEF Crash, SendFails
    <2>2. QED
      BY <1>1, <1>5, <2>1
  <1> HIDE DEF At, p, c, u
  <1>10. seen' \in [Node -> At(p', c', u')] /\ crashes' \in 0 .. MaxCrashes
    BY <1>6, <1>7, <1>8, <1>9
       DEF Next, vars, UserCreatesTable, UserRequests, ListTables, ReadCommitment, Boot,
       BootFails, PostCreate, PostRefused, PostRequest, Prove, Send, SendReverts, Finish,
       Poll, Mine
  <1>11. QED
    BY <1>10 DEF SeenIsLogged, At, p, c, u

LEMMA NextStep == Inv /\ [Next]_vars => Step
  <1> SUFFICES ASSUME Inv, [Next]_vars
               PROVE  Step
    OBVIOUS
  <1>1. CASE UNCHANGED vars
    <2>1. UNCHANGED <<P!vars, C!vars, unread, job, txpool>>
      BY <1>1 DEF vars, proverVars, chainVars, P!vars, P!nodeVars, C!vars
    <2>2. UnreadAreCommitted' /\ SendingIsProved' /\ UsersNameTables'
      BY <2>1, UnreadStay, SendingStay, NamesStay
    <2>3. QED
      BY <2>1, <2>2 DEF Step, Inv
  <1>2. CASE Next
    BY <1>2, UserStep, ListTablesStep, ReadCommitmentStep, StartStep, HearStep, CallStep,
       ProveStep, SendStep, MineStep DEF Next
  <1>3. QED
    BY <1>1, <1>2

LEMMA NextInv == Inv /\ [Next]_vars => Inv'
  <1> SUFFICES ASSUME Inv, [Next]_vars
               PROVE  Inv'
    OBVIOUS
  <1>1. Step
    BY NextStep
  <1>2. P!WellFormed' /\ C!IInv'
    BY <1>1, ProverAssumed, ContractAssumed DEF Inv, Step
  <1>3. SeenIsLogged' /\ crashes' \in 0 .. MaxCrashes
    BY <1>1, StepSeen DEF Step
  <1>4. QED
    BY <1>1, <1>2, <1>3 DEF Inv, Step

LEMMA SameInit == Init => P!Init /\ C!Init
  BY DEF Init, Prover!Init, P!Init, Prover!Unknown, P!Unknown, Prover!NoCommitment,
     P!NoCommitment, Prover!Idle, P!Idle, Contract!Init, C!Init, Contract!Name, C!Name,
     Contract!NoCommitment, C!NoCommitment

LEMMA InitInv == Init => Inv
  <1> SUFFICES ASSUME Init
               PROVE  Inv
    OBVIOUS
  <1>1. P!WellFormed /\ C!IInv
    BY SameInit, ProverAssumed, ContractAssumed
  <1>2. UnreadAreCommitted /\ SendingIsProved
    BY DEF Init, Prover!Init, Prover!Idle, UnreadAreCommitted, SendingIsProved
  <1>3. txpool \in Seq(Provable) /\ UsersNameTables
    BY DEF Init, Contract!Init, Contract!Name, Contract!NoCommitment, UsersNameTables
  <1>4. SeenIsLogged /\ crashes \in 0 .. MaxCrashes
    BY BoundsAreNaturals DEF Init, Contract!Init, SeenIsLogged
  <1>5. QED
    BY <1>1, <1>2, <1>3, <1>4 DEF Inv

LEMMA AlwaysInv == Spec => []Inv
  BY InitInv, NextInv, PTL DEF Spec

\* The composition runs its components: what is proved of the processes and of
\* the contract alone, whatever the other side does, holds of them together.
THEOREM ComponentsRun == Spec => P!Spec /\ C!Spec
  <1>1. Inv /\ [Next]_vars => [P!Next]_P!vars /\ [C!Next]_C!vars
    BY NextStep DEF Step
  <1>2. QED
    BY SameInit, AlwaysInv, <1>1, PTL DEF Spec, P!Spec, C!Spec

LEMMA InvTypes == Inv => TypeOK
  <1> SUFFICES ASSUME Inv
               PROVE  TypeOK
    OBVIOUS
  <1>1. P!TypeOK /\ C!TypeOK
    BY DEF Inv, P!WellFormed, C!IInv
  <1>2. Prover!TypeOK
    BY <1>1 DEF Prover!TypeOK, P!TypeOK, Prover!Database, P!Database, Prover!NoCommitment,
       P!NoCommitment, Prover!Idle, P!Idle, Prover!Ended, P!Ended, Prover!Handler, P!Handler
  <1>3. Contract!TypeOK
    BY <1>1 DEF Contract!TypeOK, C!TypeOK, Contract!Name, C!Name, Contract!NoCommitment,
       C!NoCommitment, Contract!TableEvent, C!TableEvent
  <1>4. QED
    BY <1>2, <1>3 DEF Inv, SeenIsLogged, TypeOK

\* The state of the system has its types, whatever is sent, lost or restarted.
THEOREM TypeCorrect == Spec => []TypeOK
  BY AlwaysInv, InvTypes, PTL
=============================================================================
