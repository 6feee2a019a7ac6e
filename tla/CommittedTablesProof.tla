------------------------ MODULE CommittedTablesProof ------------------------
(***************************************************************************)
(* Whatever a process proves about, and every table it has, was committed  *)
(* to on chain, for any number of processes, tables and queries.           *)
(***************************************************************************)
EXTENDS ZkSqlSystemProof

\* No two tables have the same columns, which is what POST /create takes them
\* for (its key is the commitment).
ColumnsAreDistinct ==
    \A t, u \in Table : P!ColumnsCommit(t) = P!ColumnsCommit(u) => t = u

MaybeHeld(t) == Held(t) \cup PostedFor(t) \cup {0}

\* Users commit to the columns of a table when they create it.
CreatedOfColumns ==
    \A i \in 1 .. Len(tableCreated) :
        tableCreated[i].commitment = P!ColumnsCommit(tableCreated[i].table)

\* What POST /create waits for is one of those.
PendingWereCreated ==
    \A n \in Node : \A c \in pendingTablesToCreate[n] :
        \E i \in 1 .. Len(tableCreated) : tableCreated[i].commitment = c

\* What POST /request waits for was posted.
RequestsWerePosted == \A n \in Node : pendingRequests[n] \subseteq Posted

\* What a process takes for the commitment of a table was one, or comes from
\* arguments, or is none.
CommitmentsWereHeld ==
    \A n \in Node, t \in Table : tableCommitments[n][t] \in MaybeHeld(t)

\* So was what a handler proves from; what is proved was checked, and the
\* arguments of a write were posted.
Proved(j) ==
    LET q == job[j].query
    IN  /\ job[j].commit \in MaybeHeld(q.table)
        /\ job[j].pc # "proving" => P!Satisfied(j)
        /\ q.type # "select" => q.args \in Posted
        /\ job[j].pc \in {"sending", "sent"} => q.type # "select"

ProvedFromHeld ==
    \A j \in Job : job[j].pc \in {"proving", "sending", "sent", "ready"} => Proved(j)

About ==
    /\ CreatedOfColumns /\ PendingWereCreated /\ RequestsWerePosted
    /\ CommitmentsWereHeld /\ ProvedFromHeld

-----------------------------------------------------------------------------
\* What the contract has held.

\* The contract has held what it holds.
LEMMA HeldNow ==
    ASSUME Inv, NEW t \in Table, chainCommitments[t] # 0
    PROVE  chainCommitments[t] \in Held(t)
  <1> DEFINE now == chainCommitments[t]
  <1>1. Len(tableUpdated) \in Nat
    BY ContractTypes DEF Inv
  <1>2. C!FoundAt(tableCreated, tableUpdated, Len(tableUpdated) + 1, t, now)
    BY DEF Inv, C!IInv, C!LogReplays, C!Name, C!NoCommitment
  <1>3. \/ \E m \in 1 .. Len(tableUpdated) :
                tableUpdated[m].table = t /\ tableUpdated[m].commitment = now
        \/ \E m \in 1 .. Len(tableCreated) :
                tableCreated[m].table = t /\ tableCreated[m].commitment = now
    <2>1. (Len(tableUpdated) + 1) - 1 = Len(tableUpdated)
      BY <1>1
    <2>2. QED
      BY <1>2, <2>1 DEF C!FoundAt
  <1>4. QED
    BY <1>3 DEF Held

\* And what it has held, it has held for ever.
LEMMA HeldStays ==
    ASSUME Inv, [Next]_vars, NEW t
    PROVE  Held(t) \subseteq Held(t)'
  <1>1. /\ Len(tableCreated) <= Len(tableCreated')
        /\ Len(tableUpdated) <= Len(tableUpdated')
        /\ \A i \in 1 .. Len(tableCreated) : tableCreated'[i] = tableCreated[i]
        /\ \A i \in 1 .. Len(tableUpdated) : tableUpdated'[i] = tableUpdated[i]
    BY NextStep, ContractKeeps DEF Inv, Step
  <1>2. Inv'
    BY NextInv
  <1>3. /\ 1 .. Len(tableCreated) \subseteq 1 .. Len(tableCreated')
        /\ 1 .. Len(tableUpdated) \subseteq 1 .. Len(tableUpdated')
    BY <1>1, <1>2, ContractTypes DEF Inv, C!IInv, C!TypeOK
  <1>4. QED
    BY <1>1, <1>3 DEF Held

\* And what was posted stays so.
LEMMA PostedStays ==
    ASSUME Inv, [Next]_vars
    PROVE  /\ Posted \subseteq Posted'
           /\ \A t : PostedFor(t) \subseteq PostedFor(t)'
           /\ \A t : MaybeHeld(t) \subseteq MaybeHeld(t)'
  <1>1. /\ Len(requestPosted) <= Len(requestPosted')
        /\ \A i \in 1 .. Len(requestPosted) : requestPosted'[i] = requestPosted[i]
    BY NextStep, ContractKeeps DEF Inv, Step
  <1>2. Inv'
    BY NextInv
  <1>3. 1 .. Len(requestPosted) \subseteq 1 .. Len(requestPosted')
    BY <1>1, <1>2, ContractTypes DEF Inv, C!IInv, C!TypeOK
  <1>4. Posted \subseteq Posted'
    BY <1>1, <1>3 DEF Posted
  <1>5. \A t : PostedFor(t) \subseteq PostedFor(t)'
    BY <1>4 DEF PostedFor
  <1>6. \A t : Held(t) \subseteq Held(t)'
    BY HeldStays
  <1>7. QED
    BY <1>4, <1>5, <1>6 DEF MaybeHeld

\* A table some process may create was created on chain.
LEMMA PendingIsCreated ==
    ASSUME Inv, ColumnsAreDistinct, CreatedOfColumns, PendingWereCreated,
           NEW n \in Node, NEW t \in Table, P!IsPending(n, t)
    PROVE  /\ P!ColumnsCommit(t) \in Held(t)
           /\ chainCommitments[t] # 0
  <1>1. PICK i \in 1 .. Len(tableCreated) : tableCreated[i].commitment = P!ColumnsCommit(t)
    BY DEF P!IsPending, PendingWereCreated
  <1>2. /\ tableCreated[i].table \in Table
        /\ chainCommitments[tableCreated[i].table] # 0
    BY LoggedHaveCommitments DEF Inv
  <1>3. tableCreated[i].table = t
    BY <1>1, <1>2 DEF CreatedOfColumns, ColumnsAreDistinct
  <1>4. QED
    BY <1>1, <1>2, <1>3 DEF Held

-----------------------------------------------------------------------------
\* Steps that add nothing to what processes know.

FewerPending ==
    \A n \in Node : pendingTablesToCreate'[n] \subseteq pendingTablesToCreate[n]

PostedOnly ==
    \A n \in Node : pendingRequests'[n] \subseteq pendingRequests[n] \cup Posted'

HeldOnly ==
    \A n \in Node, t \in Table :
        tableCommitments'[n][t] \in {tableCommitments[n][t]} \cup MaybeHeld(t)'

\* A handler goes on with what it has, from a check of the circuit.
HandlersGoOn ==
    \A j \in Job : job'[j].pc \in {"proving", "sending", "sent", "ready"} =>
        /\ job[j].pc \in {"proving", "sending", "sent", "ready"}
        /\ job'[j] = [job[j] EXCEPT !.pc = job'[j].pc]
        /\ job'[j].pc # "proving" => job[j].pc # "proving" \/ P!Satisfied(j)
        /\ job'[j].pc \in {"sending", "sent"} =>
                job[j].pc \in {"sending", "sent"} \/ job[j].query.type # "select"

\* The logs only grow, so each part stands while nothing is added to it.
LEMMA PendingStay ==
    ASSUME Inv, [Next]_vars, PendingWereCreated, FewerPending
    PROVE  PendingWereCreated'
  <1>1. /\ Len(tableCreated) <= Len(tableCreated')
        /\ \A i \in 1 .. Len(tableCreated) : tableCreated'[i] = tableCreated[i]
    BY NextStep, ContractKeeps DEF Inv, Step
  <1>2. Inv'
    BY NextInv
  <1>3. 1 .. Len(tableCreated) \subseteq 1 .. Len(tableCreated')
    BY <1>1, <1>2, ContractTypes DEF Inv, C!IInv, C!TypeOK
  <1>4. QED
    BY <1>1, <1>3 DEF PendingWereCreated, FewerPending

LEMMA RequestsStayPosted ==
    ASSUME Inv, [Next]_vars, RequestsWerePosted, PostedOnly
    PROVE  RequestsWerePosted'
  BY PostedStays DEF RequestsWerePosted, PostedOnly

LEMMA CommitmentsStay ==
    ASSUME Inv, [Next]_vars, CommitmentsWereHeld, HeldOnly
    PROVE  CommitmentsWereHeld'
  <1> SUFFICES ASSUME NEW n \in Node, NEW t \in Table
               PROVE  tableCommitments'[n][t] \in MaybeHeld(t)'
    BY DEF CommitmentsWereHeld
  <1>1. tableCommitments[n][t] \in MaybeHeld(t)
    BY DEF CommitmentsWereHeld
  <1>2. MaybeHeld(t) \subseteq MaybeHeld(t)'
    BY PostedStays
  <1>3. tableCommitments'[n][t] \in {tableCommitments[n][t]} \cup MaybeHeld(t)'
    BY DEF HeldOnly
  <1>4. QED
    BY <1>1, <1>2, <1>3

\* A handler that goes on is as it was, but for what it has checked.
LEMMA ProvedStays ==
    ASSUME Inv, [Next]_vars, ProvedFromHeld, NEW j \in Job,
           job[j].pc \in {"proving", "sending", "sent", "ready"},
           job'[j] = [job[j] EXCEPT !.pc = job'[j].pc],
           job'[j].pc # "proving" => job[j].pc # "proving" \/ P!Satisfied(j),
           job'[j].pc \in {"sending", "sent"} =>
                job[j].pc \in {"sending", "sent"} \/ job[j].query.type # "select"
    PROVE  Proved(j)'
  <1>1. job[j] \in P!Handler
    BY HandlerType
  <1>2. /\ job'[j].commit = job[j].commit /\ job'[j].query = job[j].query
        /\ job'[j].read = job[j].read
    BY <1>1 DEF P!Handler
  <1>3. PICK t \in Table : t = job[j].query.table
    BY HandlerType
  <1>4. Proved(j)
    BY DEF ProvedFromHeld
  <1>5. job[j].commit \in MaybeHeld(t)
    BY <1>3, <1>4 DEF Proved
  <1>6. MaybeHeld(t) \subseteq MaybeHeld(t)' /\ Posted \subseteq Posted'
    BY PostedStays
  <1>7. job'[j].commit \in MaybeHeld(t)'
    BY <1>2, <1>5, <1>6
  <1>8. job'[j].pc # "proving" => Hash[job'[j].query.table][job'[j].read] = job'[j].commit
    BY <1>2, <1>4 DEF Proved, P!Satisfied
  <1>9. /\ job'[j].query.type # "select" => job'[j].query.args \in Posted'
        /\ job'[j].pc \in {"sending", "sent"} => job'[j].query.type # "select"
    BY <1>2, <1>4, <1>6 DEF Proved
  <1>10. job'[j].query.table = t
    BY <1>2, <1>3
  <1>11. QED
    BY <1>7, <1>8, <1>9, <1>10 DEF Proved, P!Satisfied, MaybeHeld, Held, PostedFor

LEMMA HandlersStay ==
    ASSUME Inv, [Next]_vars, ProvedFromHeld, HandlersGoOn
    PROVE  ProvedFromHeld'
  BY ProvedStays DEF ProvedFromHeld, HandlersGoOn

LEMMA AboutStays ==
    ASSUME Inv, [Next]_vars, About, tableCreated' = tableCreated,
           FewerPending, PostedOnly, HeldOnly, HandlersGoOn
    PROVE  About'
  <1>1. CreatedOfColumns'
    BY DEF About, CreatedOfColumns
  <1>2. QED
    BY <1>1, PendingStay, RequestsStayPosted, CommitmentsStay, HandlersStay DEF About

\* What a step that leaves a part alone keeps of it.
LEMMA Unchanged ==
    ASSUME Inv
    PROVE  /\ pendingTablesToCreate' = pendingTablesToCreate => FewerPending
           /\ pendingRequests' = pendingRequests => PostedOnly
           /\ tableCommitments' = tableCommitments => HeldOnly
           /\ job' = job => HandlersGoOn
  <1>1. \A j \in Job : job[j].pc \in {"proving", "sending", "sent", "ready"} =>
            job[j] = [job[j] EXCEPT !.pc = job[j].pc]
    BY HandlerType DEF P!Handler
  <1>2. QED
    BY <1>1 DEF FewerPending, PostedOnly, HeldOnly, HandlersGoOn

-----------------------------------------------------------------------------
\* The steps, one by one.

\* A created table is logged with the hash of its columns.
LEMMA UserAbout ==
    ASSUME Inv, [Next]_vars, About,
           \/ \E t \in Table : UserCreatesTable(t)
           \/ \E q \in Query : UserRequests(q)
    PROVE  About'
  <1>1. UNCHANGED <<pendingTablesToCreate, pendingRequests, tableCommitments, job>>
    BY DEF UserCreatesTable, UserRequests, proverVars
  <1>2. FewerPending /\ PostedOnly /\ HeldOnly /\ HandlersGoOn
    BY <1>1, Unchanged
  <1>3. ASSUME NEW t \in Table, UserCreatesTable(t)
        PROVE  CreatedOfColumns'
    <2> DEFINE E == [table : Table \cup {Unnamed}, commitment : Commitment \cup {0}]
               e == [table |-> t, commitment |-> P!ColumnsCommit(t)]
    <2>1. tableCreated \in Seq(E)
      BY ContractTypes DEF Inv
    <2>2. tableCreated' = Append(tableCreated, e)
      BY <1>3 DEF UserCreatesTable, Contract!CreateTable, Prover!ColumnsCommit,
         P!ColumnsCommit
    <2>3. e.commitment = P!ColumnsCommit(e.table)
      OBVIOUS
    <2> HIDE DEF e
    <2>4. \A i \in 1 .. Len(tableCreated') :
            tableCreated'[i] = e \/ (i \in 1 .. Len(tableCreated) /\ tableCreated'[i] = tableCreated[i])
      BY <2>1, <2>2
    <2>5. \A u : P!ColumnsCommit(u)' = P!ColumnsCommit(u)
      BY DEF P!ColumnsCommit
    <2>6. QED
      BY <2>3, <2>4, <2>5 DEF About, CreatedOfColumns, P!ColumnsCommit
  <1>4. ASSUME NEW q \in Query, UserRequests(q)
        PROVE  CreatedOfColumns'
    BY <1>4 DEF About, CreatedOfColumns, UserRequests, Contract!Request
  <1>5. QED
    BY <1>2, <1>3, <1>4, PendingStay, RequestsStayPosted, CommitmentsStay, HandlersStay
       DEF About

\* A process that ends forgets.
LEMMA StopAbout ==
    ASSUME Inv, [Next]_vars, About, NEW n \in Node, Prover!Stop(n),
           tableCreated' = tableCreated
    PROVE  About'
  <1>1. P!TypeOK
    BY DEF Inv, P!WellFormed
  <1>2. FewerPending /\ PostedOnly
    BY <1>1 DEF Prover!Stop, P!TypeOK, FewerPending, PostedOnly
  <1>3. HeldOnly
    BY <1>1 DEF Prover!Stop, Prover!Unknown, Prover!NoCommitment, P!TypeOK, HeldOnly, MaybeHeld
  <1>4. HandlersGoOn
    <2>1. \A j \in Job : job'[j].pc \in {"proving", "sending", "sent", "ready"} =>
            job'[j] = job[j]
      BY DEF Prover!Stop
    <2>2. \A j \in Job : job[j].pc \in {"proving", "sending", "sent", "ready"} =>
            job[j] = [job[j] EXCEPT !.pc = job[j].pc]
      BY HandlerType DEF P!Handler
    <2>3. QED
      BY <2>1, <2>2 DEF HandlersGoOn
  <1>5. QED
    BY <1>2, <1>3, <1>4, AboutStays

\* What the contract holds it has held.
LEMMA StartAbout ==
    ASSUME Inv, [Next]_vars, About, NEW n \in Node,
           \/ Boot(n) \/ ListTables(n) \/ Listen(n) \/ BootFails(n) \/ Crash(n)
           \/ \E t \in Table : ReadCommitment(n, t)
    PROVE  About'
  <1>1. P!TypeOK
    BY DEF Inv, P!WellFormed
  <1>2. UNCHANGED chainVars
    BY DEF Boot, ListTables, Listen, BootFails, Crash, ReadCommitment
  <1>3. CASE Boot(n) \/ ListTables(n) \/ Listen(n)
    <2>1. UNCHANGED <<pendingTablesToCreate, pendingRequests, tableCommitments, job>>
      BY <1>3 DEF Boot, ListTables, Listen, Prover!Boot, Prover!ListTables, Prover!Listen
    <2>2. QED
      BY <1>2, <2>1, Unchanged, AboutStays DEF chainVars
  <1>4. CASE BootFails(n) \/ Crash(n)
    BY <1>2, <1>4, StopAbout DEF chainVars, BootFails, Crash, Prover!BootFails, Prover!Crash
  <1>5. ASSUME NEW t \in Table, ReadCommitment(n, t)
        PROVE  About'
    <2>1. /\ tableCommitments' = [tableCommitments EXCEPT ![n][t] = chainCommitments[t]]
          /\ t \in unread[n]
          /\ UNCHANGED <<pendingTablesToCreate, pendingRequests, job>>
      BY <1>5 DEF ReadCommitment, Prover!ReadCommitment
    <2>2. chainCommitments[t] \in Held(t)
      BY <2>1, HeldNow DEF Inv, UnreadAreCommitted
    <2>3. Held(t) \subseteq Held(t)'
      BY HeldStays
    <2>4. HeldOnly
      BY <1>1, <2>1, <2>2, <2>3 DEF P!TypeOK, HeldOnly, MaybeHeld
    <2>5. QED
      BY <1>2, <2>1, <2>4, Unchanged, AboutStays DEF chainVars
  <1>6. QED
    BY <1>3, <1>4, <1>5

\* An event says what was held.
LEMMA HearAbout ==
    ASSUME Inv, [Next]_vars, About, NEW n \in Node,
           HearRequestPosted(n) \/ HearTableCreated(n) \/ HearTableUpdated(n)
    PROVE  About'
  <1>1. P!TypeOK
    BY DEF Inv, P!WellFormed
  <1>2. /\ Len(requestPosted) \in Nat /\ Len(tableCreated) \in Nat /\ Len(tableUpdated) \in Nat
        /\ seen[n].posted \in Nat /\ seen[n].created \in Nat /\ seen[n].updated \in Nat
    BY ContractTypes DEF Inv, SeenIsLogged
  <1>3. UNCHANGED chainVars
    BY DEF HearRequestPosted, HearTableCreated, HearTableUpdated
  <1>4. CASE HearRequestPosted(n)
    <2> DEFINE i == seen[n].posted + 1
    <2>1. i \in 1 .. Len(requestPosted)
      BY <1>2, <1>4 DEF HearRequestPosted
    <2>2. /\ pendingRequests' = [pendingRequests EXCEPT ![n] = @ \cup {requestPosted[i]}]
          /\ UNCHANGED <<pendingTablesToCreate, tableCommitments, job>>
      BY <1>4 DEF HearRequestPosted, Prover!OnRequestPosted
    <2> HIDE DEF i
    <2>3. requestPosted[i] \in Posted /\ Posted \subseteq Posted'
      BY <2>1, PostedStays DEF Posted
    <2>4. PostedOnly
      BY <1>1, <2>2, <2>3 DEF PostedOnly, P!TypeOK
    <2>5. QED
      BY <1>3, <2>2, <2>4, Unchanged, AboutStays DEF chainVars
  <1>5. CASE HearTableCreated(n)
    <2> DEFINE i == seen[n].created + 1
    <2>1. i \in 1 .. Len(tableCreated)
      BY <1>2, <1>5 DEF HearTableCreated
    <2>2. /\ pendingTablesToCreate' =
                [pendingTablesToCreate EXCEPT ![n] = @ \cup {tableCreated[i].commitment}]
          /\ UNCHANGED <<pendingRequests, tableCommitments, job, tableCreated>>
      BY <1>3, <1>5 DEF HearTableCreated, Prover!OnTableCreated, chainVars
    <2> HIDE DEF i
    <2>3. PendingWereCreated'
      BY <1>1, <2>1, <2>2 DEF About, PendingWereCreated, P!TypeOK
    <2>4. CreatedOfColumns'
      BY <2>2 DEF About, CreatedOfColumns
    <2>5. QED
      BY <2>2, <2>3, <2>4, Unchanged, RequestsStayPosted, CommitmentsStay, HandlersStay
         DEF About
  <1>6. CASE HearTableUpdated(n)
    <2> DEFINE i == seen[n].updated + 1
    <2>1. i \in 1 .. Len(tableUpdated)
      BY <1>2, <1>6 DEF HearTableUpdated
    <2>2. /\ tableCommitments' = [tableCommitments EXCEPT
                ![n][tableUpdated[i].table] = tableUpdated[i].commitment]
          /\ UNCHANGED <<pendingTablesToCreate, pendingRequests, job, tableUpdated,
                         tableCreated>>
      BY <1>3, <1>6 DEF HearTableUpdated, Prover!OnTableUpdated, chainVars
    <2> HIDE DEF i
    <2>3. PICK t \in Table : t = tableUpdated[i].table
      BY <2>1, LoggedHaveCommitments DEF Inv
    <2>4. tableUpdated[i].commitment \in Held(t)
      BY <2>1, <2>3 DEF Held
    <2>5. Held(t) \subseteq Held(t)'
      BY HeldStays
    <2>6. HeldOnly
      BY <1>1, <2>2, <2>3, <2>4, <2>5 DEF P!TypeOK, HeldOnly, MaybeHeld
    <2>7. QED
      BY <2>2, <2>6, Unchanged, AboutStays
  <1>7. QED
    BY <1>4, <1>5, <1>6

\* A table that is created was pending, and a query is started from the
\* commitment the process has.
LEMMA CallAbout ==
    ASSUME ColumnsAreDistinct, Inv, [Next]_vars, About, NEW n \in Node,
           \/ \E t \in Table : PostCreate(n, t)
           \/ PostRefused(n)
           \/ \E j \in Job, q \in Query : PostRequest(n, j, q)
    PROVE  About'
  <1>1. P!TypeOK
    BY DEF Inv, P!WellFormed
  <1>2. UNCHANGED chainVars
    BY DEF PostCreate, PostRefused, PostRequest
  <1>3. ASSUME NEW t \in Table, PostCreate(n, t)
        PROVE  About'
    <2>1. PICK c \in FirstContent : Prover!CreateTable(n, t, c)
      BY <1>3 DEF PostCreate
    <2>2. P!IsPending(n, t)
      BY <2>1 DEF Prover!CreateTable, Prover!IsPending, P!IsPending, Prover!ColumnsCommit,
         P!ColumnsCommit
    <2>3. /\ tableCommitments' = [tableCommitments EXCEPT ![n][t] = P!ColumnsCommit(t)]
          /\ UNCHANGED <<pendingTablesToCreate, pendingRequests, job>>
      BY <2>1 DEF Prover!CreateTable, Prover!ColumnsCommit, P!ColumnsCommit
    <2>4. P!ColumnsCommit(t) \in Held(t)
      BY <2>2, PendingIsCreated DEF About
    <2>5. Held(t) \subseteq Held(t)'
      BY HeldStays
    <2>6. HeldOnly
      BY <1>1, <2>3, <2>4, <2>5 DEF P!TypeOK, HeldOnly, MaybeHeld
    <2>7. QED
      BY <1>2, <2>3, <2>6, Unchanged, AboutStays DEF chainVars
  <1>4. CASE PostRefused(n)
    <2>1. UNCHANGED <<pendingTablesToCreate, pendingRequests, tableCommitments, job>>
      BY <1>4 DEF PostRefused, Prover!Refuse
    <2>2. QED
      BY <1>2, <2>1, Unchanged, AboutStays DEF chainVars
  <1>5. ASSUME NEW j \in Job, NEW q \in Query, PostRequest(n, j, q)
        PROVE  About'
    <2>1. UNCHANGED <<pendingTablesToCreate, pendingRequests, tableCommitments>>
      BY <1>5 DEF PostRequest, Prover!Start, Prover!StartFails, Prover!nodeVars
    <2>2. PICK h : /\ job' = [job EXCEPT ![j] = h]
                   /\ h.pc \in {"proving", "failed"}
                   /\ h.query = q /\ h.commit = tableCommitments[n][q.table]
      <3> DEFINE H(pc, read) ==
                    [pc |-> pc, node |-> n, query |-> q, obj |-> Len(heap[n]),
                     read |-> read, commit |-> tableCommitments[n][q.table]]
      <3>1. PICK pc, read : /\ pc \in {"proving", "failed"}
                            /\ job' = [job EXCEPT ![j] = H(pc, read)]
        BY <1>5 DEF PostRequest, Prover!Start, Prover!StartFails
      <3>2. /\ H(pc, read).pc = pc /\ H(pc, read).query = q
            /\ H(pc, read).commit = tableCommitments[n][q.table]
        OBVIOUS
      <3> HIDE DEF H
      <3>3. QED
        BY <3>1, <3>2
    <2>3. PICK t \in Table : t = q.table
      BY QueriesAreRecords
    <2>4. tableCommitments[n][t] \in MaybeHeld(t)
      BY DEF About, CommitmentsWereHeld
    <2>5. MaybeHeld(t) \subseteq MaybeHeld(t)' /\ Posted \subseteq Posted'
      BY PostedStays
    <2>6. tableCommitments[n][t] \in MaybeHeld(t)'
      BY <2>4, <2>5
    <2>7. job'[j] = h /\ \A k \in Job \ {j} : job'[k] = job[k]
      BY <1>1, <2>2 DEF P!TypeOK
    <2>8. job'[j].pc \in {"proving", "sending", "sent", "ready"} => Proved(j)'
      <3>1. job'[j].commit \in MaybeHeld(t)' /\ job'[j].query.table = t
        BY <2>2, <2>3, <2>6, <2>7
      <3>2. job'[j].pc \in {"proving", "failed"}
        BY <2>2, <2>7
      <3>3. job'[j].query.type # "select" => job'[j].query.args \in Posted'
        BY <1>5, <2>2, <2>5, <2>7 DEF PostRequest, Prover!Start, Prover!StartFails,
           Prover!MayStart, About, RequestsWerePosted
      <3>4. QED
        BY <3>1, <3>2, <3>3 DEF Proved, MaybeHeld, Held, PostedFor
    <2>9. ASSUME NEW k \in Job \ {j}, job'[k].pc \in {"proving", "sending", "sent", "ready"}
          PROVE  Proved(k)'
      <3>1. job'[k] = job[k]
        BY <2>7
      <3>2. job[k] = [job[k] EXCEPT !.pc = job[k].pc]
        BY <2>9, <3>1, HandlerType DEF P!Handler
      <3>3. QED
        BY <2>9, <3>1, <3>2, ProvedStays DEF About
    <2>10. ProvedFromHeld'
      BY <2>8, <2>9 DEF ProvedFromHeld
    <2>11. CreatedOfColumns'
      BY <1>2 DEF About, CreatedOfColumns, chainVars
    <2>12. QED
      BY <2>1, <2>10, <2>11, Unchanged, PendingStay, RequestsStayPosted, CommitmentsStay
         DEF About
  <1>6. QED
    BY <1>3, <1>4, <1>5

\* A handler that goes on checks the table it read against its commitment;
\* what it stores at its end is the commitment of arguments.
LEMMA HandlerAbout ==
    ASSUME Inv, [Next]_vars, About, NEW j \in Job,
           Prove(j) \/ Send(j) \/ SendReverts(j) \/ SendFails(j) \/ Finish(j) \/ Poll(j)
    PROVE  About'
  <1>1. P!TypeOK
    BY DEF Inv, P!WellFormed
  <1>2. UNCHANGED chainVars
    BY DEF Prove, Send, SendReverts, SendFails, Finish, Poll
  <1>3. CASE SendReverts(j) \/ SendFails(j)
    <2>1. /\ job[j].pc = "sending" /\ job' = [job EXCEPT ![j].pc = "thrown"]
          /\ UNCHANGED <<pendingTablesToCreate, pendingRequests, tableCommitments>>
      BY <1>3 DEF SendReverts, SendFails, Prover!SendThrows, Prover!Answer, Prover!nodeVars
    <2>2. job'[j].pc = "thrown" /\ \A k \in Job \ {j} : job'[k] = job[k]
      BY <1>1, <2>1, HandlerType DEF P!TypeOK, P!Handler
    <2>3. \A k \in Job : job[k].pc \in {"proving", "sending", "sent", "ready"} =>
              job[k] = [job[k] EXCEPT !.pc = job[k].pc]
      BY HandlerType DEF P!Handler
    <2>4. HandlersGoOn
      BY <2>2, <2>3 DEF HandlersGoOn
    <2>5. QED
      BY <1>2, <2>1, <2>4, Unchanged, AboutStays DEF chainVars
  <1>4. CASE Prove(j) \/ Send(j) \/ Finish(j) \/ Poll(j)
    <2>1. job[j] \in P!Handler
      BY <1>4, HandlerType DEF Prove, Send, Finish, Poll, Prover!ProveSelect,
         Prover!ProveFails, Prover!ProveWrite, Prover!SendOk, Prover!Finish, Prover!Poll
    <2>2. UNCHANGED <<pendingTablesToCreate, pendingRequests>>
      BY <1>4 DEF Prove, Send, Finish, Poll, Prover!ProveSelect,
         Prover!ProveFails, Prover!ProveWrite, Prover!SendOk, Prover!Finish, Prover!Poll,
         Prover!nodeVars
    <2>3. HeldOnly
      <3>1. CASE Finish(j)
        <4>1. PICK t \in Table : t = job[j].query.table
          BY <2>1, HandlerType DEF P!Handler, Finish
        <4>2. job[j].query \in Query /\ job[j].node \in Node
          BY <2>1 DEF P!Handler
        <4>3. job[j].pc = "sent" /\ tableCommitments' =
                    [tableCommitments EXCEPT ![job[j].node][t] = job[j].query.args]
          BY <3>1, <4>1 DEF Finish, Prover!Finish
        <4>4. job[j].query.type # "select" /\ job[j].query.args \in Posted
          BY <4>3 DEF About, ProvedFromHeld, Proved
        <4>5. job[j].query.args \in PostedFor(t)
          BY <4>1, <4>2, <4>4 DEF PostedFor
        <4>6. job[j].query.args \in MaybeHeld(t)'
          BY <4>5, PostedStays DEF MaybeHeld
        <4>7. QED
          BY <1>1, <4>2, <4>3, <4>6 DEF P!TypeOK, HeldOnly
      <3>2. CASE Prove(j) \/ Send(j) \/ Poll(j)
        BY <3>2, Unchanged DEF Prove, Send, Poll, Prover!ProveSelect, Prover!ProveFails,
           Prover!ProveWrite, Prover!SendOk, Prover!Poll, Prover!nodeVars
      <3>3. QED
        BY <1>4, <3>1, <3>2
    <2>4. \A k \in Job \ {j} : job'[k] = job[k]
      BY <1>1, <1>4 DEF P!TypeOK, Prove, Send, Finish, Poll, Prover!ProveSelect,
         Prover!ProveFails, Prover!ProveWrite, Prover!SendOk, Prover!Finish, Prover!Poll,
         Prover!Answer
    <2>5. job'[j].pc \in {"proving", "sending", "sent", "ready"} =>
            /\ job[j].pc \in {"proving", "sending", "sent", "ready"}
            /\ job'[j] = [job[j] EXCEPT !.pc = job'[j].pc]
            /\ job'[j].pc # "proving" => job[j].pc # "proving" \/ P!Satisfied(j)
            /\ job'[j].pc \in {"sending", "sent"} =>
                    job[j].pc \in {"sending", "sent"} \/ job[j].query.type # "select"
      <3>1. CASE Prove(j)
        <4>1. PICK pc : /\ job' = [job EXCEPT ![j].pc = pc]
                        /\ pc = "failed" \/ P!Satisfied(j)
                        /\ pc \in {"ready", "failed"} \/ job[j].query.type # "select"
          BY <3>1 DEF Prove, Prover!ProveSelect, Prover!ProveFails, Prover!ProveWrite,
             Prover!Answer, Prover!Satisfied, P!Satisfied
        <4>2. job[j].pc = "proving"
          BY <3>1 DEF Prove, Prover!ProveSelect, Prover!ProveFails, Prover!ProveWrite
        <4>3. job'[j] = [job[j] EXCEPT !.pc = pc] /\ job'[j].pc = pc
          BY <1>1, <2>1, <4>1 DEF P!TypeOK, P!Handler
        <4>4. QED
          BY <4>1, <4>2, <4>3
      <3>2. CASE Send(j) \/ Finish(j)
        <4>1. PICK pc : job' = [job EXCEPT ![j].pc = pc]
          BY <3>2 DEF Send, Finish, Prover!SendOk, Prover!Finish, Prover!Answer
        <4>2. job[j].pc \in {"sending", "sent"}
          BY <3>2 DEF Send, Finish, Prover!SendOk, Prover!Finish
        <4>3. job'[j] = [job[j] EXCEPT !.pc = pc] /\ job'[j].pc = pc
          BY <1>1, <2>1, <4>1 DEF P!TypeOK, P!Handler
        <4>4. QED
          BY <4>2, <4>3
      <3>3. CASE Poll(j)
        BY <1>1, <3>3 DEF Poll, Prover!Poll, P!TypeOK
      <3>4. QED
        BY <1>4, <3>1, <3>2, <3>3
    <2>6. HandlersGoOn
      <3>1. \A k \in Job : job[k].pc \in {"proving", "sending", "sent", "ready"} =>
                job[k] = [job[k] EXCEPT !.pc = job[k].pc]
        BY HandlerType DEF P!Handler
      <3>2. QED
        BY <2>4, <2>5, <3>1 DEF HandlersGoOn
    <2>7. QED
      BY <1>2, <2>2, <2>3, <2>6, Unchanged, AboutStays DEF chainVars
  <1>5. QED
    BY <1>3, <1>4

\* A transaction that is mined tells the processes nothing yet.
LEMMA OtherAbout ==
    ASSUME Inv, [Next]_vars, About, Mine \/ UNCHANGED vars
    PROVE  About'
  <1>1. UNCHANGED <<pendingTablesToCreate, pendingRequests, tableCommitments, job,
                    tableCreated>>
    BY DEF Mine, proverVars, chainVars, vars, Contract!ExecRequest
  <1>2. QED
    BY <1>1, Unchanged, AboutStays

LEMMA NextAbout ==
    ASSUME ColumnsAreDistinct
    PROVE  Inv /\ About /\ [Next]_vars => About'
  <1> SUFFICES ASSUME Inv, About, [Next]_vars
               PROVE  About'
    OBVIOUS
  <1>1. QED
    BY UserAbout, StartAbout, HearAbout, CallAbout, HandlerAbout, OtherAbout DEF Next

LEMMA InitAbout == Init => About
  BY DEF Init, Contract!Init, Prover!Init, Prover!Unknown, Prover!NoCommitment, Prover!Idle,
     About, CreatedOfColumns, PendingWereCreated, RequestsWerePosted,
     CommitmentsWereHeld, MaybeHeld, ProvedFromHeld

LEMMA AlwaysAbout ==
    ASSUME ColumnsAreDistinct
    PROVE  Spec => [](Inv /\ About)
  BY InitAbout, NextAbout, AlwaysInv, PTL DEF Spec

\* A hash is not 0, so what passed the check was held or posted.
LEMMA AboutGives == Inv /\ About => ProofsAreAboutCommittedTables
  <1> SUFFICES ASSUME Inv, About, NEW j \in Job, job[j].pc \in {"sending", "sent", "ready"},
                      NEW t, t = job[j].query.table
               PROVE  Hash[t][job[j].read] \in Held(t) \cup PostedFor(t)
    BY DEF ProofsAreAboutCommittedTables
  <1>1. t \in Table /\ job[j].read \in Content
    BY HandlerType
  <1>2. Hash[t][job[j].read] # 0
    BY <1>1, FunctionsOfContents, ZeroIsNoCommitment
  <1>3. Hash[t][job[j].read] = job[j].commit /\ job[j].commit \in MaybeHeld(t)
    BY DEF About, ProvedFromHeld, Proved, P!Satisfied
  <1>4. QED
    BY <1>2, <1>3 DEF MaybeHeld

\* A process never proves about contents whose hash was not committed to for
\* their table, whichever way the commitment reached it: what it proves about
\* hashes to what the contract held, or to arguments posted for a write of the
\* table, which the controller takes for the commitment of the table
\* (engine.ts, fullProve; RequestController.ts:68).
THEOREM ProofsAreAboutTheirTables ==
    ASSUME ColumnsAreDistinct
    PROVE  Spec => []ProofsAreAboutCommittedTables
  BY AlwaysAbout, AboutGives, PTL

-----------------------------------------------------------------------------
\* Where a table is: in a database object of a process, or in the file.

Somewhere(t) ==
    \/ \E n \in Node : \E i \in 1 .. Len(heap[n]) : heap[n][i][t] # Absent
    \/ cache # NoFile /\ cache[t] # Absent

TablesAreCommitted == \A t \in Table : Somewhere(t) => chainCommitments[t] # 0

\* The file, when there is one, has only tables that are somewhere.
LEMMA FromFile ==
    ASSUME Inv, NEW t \in Table, Prover!FromCache[t] # Absent
    PROVE  Somewhere(t)
  BY DEF Prover!FromCache, Prover!NoTables, Somewhere

\* The current database of a process is one of its objects.
LEMMA InDb ==
    ASSUME Inv, NEW n \in Node, status[n] # "down", NEW t, Prover!db(n)[t] # Absent
    PROVE  Somewhere(t)
  <1>1. heap[n] \in Seq(P!Database) /\ Len(heap[n]) >= 1
    BY DEF Inv, P!WellFormed, P!TypeOK, P!RunningHasDatabase
  <1>2. Len(heap[n]) \in 1 .. Len(heap[n])
    BY <1>1
  <1>3. QED
    BY <1>2 DEF Prover!db, Somewhere

\* Changing the objects of one process to objects that have no other tables.
LEMMA HeapFrom ==
    ASSUME Inv, NEW n \in Node, NEW h, heap' = [heap EXCEPT ![n] = h], NEW t \in Table,
           \A i \in 1 .. Len(h) : h[i][t] # Absent => Somewhere(t),
           cache' # NoFile /\ cache'[t] # Absent => Somewhere(t)
    PROVE  Somewhere(t)' => Somewhere(t)
  <1>1. \A m \in Node : heap'[m] = IF m = n THEN h ELSE heap[m]
    BY DEF Inv, P!WellFormed, P!TypeOK
  <1>2. ASSUME NEW m \in Node, NEW i \in 1 .. Len(heap'[m]), heap'[m][i][t] # Absent
        PROVE  Somewhere(t)
    <2>1. CASE m = n
      BY <1>1, <1>2, <2>1
    <2>2. CASE m # n
      <3>1. heap'[m] = heap[m]
        BY <1>1, <2>2
      <3>2. QED
        BY <1>2, <3>1 DEF Somewhere
    <2>3. QED
      BY <2>1, <2>2
  <1>3. QED
    BY <1>2 DEF Somewhere

\* A process that starts, ends or reloads takes its tables from the file.
LEMMA StartFrom ==
    ASSUME Inv, NEW n \in Node, Prover!Boot(n) \/ Prover!Stop(n) \/ Prover!Refuse(n),
           NEW t \in Table
    PROVE  Somewhere(t)' => Somewhere(t)
  <1>1. heap[n] \in Seq(P!Database)
    BY DEF Inv, P!WellFormed, P!TypeOK
  <1>2. cache' = cache
    BY DEF Prover!Boot, Prover!Stop, Prover!Refuse
  <1>3. cache' # NoFile /\ cache'[t] # Absent => Somewhere(t)
    BY <1>2 DEF Somewhere
  <1>4. CASE Prover!Boot(n)
    <2>1. heap' = [heap EXCEPT ![n] = <<Prover!FromCache>>]
      BY <1>4 DEF Prover!Boot
    <2>2. \A i \in 1 .. Len(<<Prover!FromCache>>) :
            <<Prover!FromCache>>[i][t] # Absent => Somewhere(t)
      BY FromFile
    <2>3. QED
      BY <1>3, <2>1, <2>2, HeapFrom
  <1>5. CASE Prover!Stop(n)
    <2>1. heap' = [heap EXCEPT ![n] = <<>>]
      BY <1>5 DEF Prover!Stop
    <2>2. \A i \in 1 .. Len(<<>>) : <<>>[i][t] # Absent => Somewhere(t)
      OBVIOUS
    <2>3. QED
      BY <1>3, <2>1, <2>2, HeapFrom
  <1>6. CASE Prover!Refuse(n)
    <2> DEFINE h == Append(heap[n], Prover!FromCache)
    <2>1. heap' = [heap EXCEPT ![n] = h]
      BY <1>6 DEF Prover!Refuse
    <2>2. \A i \in 1 .. Len(h) : h[i] = Prover!FromCache \/ (i \in 1 .. Len(heap[n]) /\ h[i] = heap[n][i])
      BY <1>1
    <2>3. \A i \in 1 .. Len(h) : h[i][t] # Absent => Somewhere(t)
      BY <2>2, FromFile DEF Somewhere
    <2> HIDE DEF h
    <2>4. QED
      BY <1>3, <2>1, <2>3, HeapFrom
  <1>7. QED
    BY <1>4, <1>5, <1>6

\* Creating a table adds the one that was pending.
LEMMA CreateFrom ==
    ASSUME Inv, NEW n \in Node, NEW u \in Table, NEW c \in FirstContent,
           Prover!CreateTable(n, u, c), NEW t \in Table, t # u
    PROVE  Somewhere(t)' => Somewhere(t)
  <1> DEFINE made == [Prover!db(n) EXCEPT ![u] = c]
             h == [heap[n] EXCEPT ![Len(heap[n])] = made]
  <1>1. heap[n] \in Seq(P!Database) /\ Len(heap[n]) >= 1
    BY DEF Inv, P!WellFormed, P!TypeOK, P!RunningHasDatabase, Prover!CreateTable
  <1>2. Prover!db(n) \in P!Database
    <2>1. Len(heap[n]) \in 1 .. Len(heap[n])
      BY <1>1
    <2>2. QED
      BY <1>1, <2>1, EntryType DEF Prover!db
  <1>3. made[t] = Prover!db(n)[t]
    BY <1>2 DEF P!Database
  <1>4. made[t] # Absent => Somewhere(t)
    BY <1>3, InDb DEF Prover!CreateTable
  <1>5. heap' = [heap EXCEPT ![n] = h] /\ cache' = made
    BY DEF Prover!CreateTable, Prover!writeDB
  <1> HIDE DEF made
  <1>6. \A i \in 1 .. Len(h) : h[i] = made \/ (i \in 1 .. Len(heap[n]) /\ h[i] = heap[n][i])
    BY <1>1
  <1>7. \A i \in 1 .. Len(h) : h[i][t] # Absent => Somewhere(t)
    BY <1>4, <1>6 DEF Somewhere
  <1> HIDE DEF h
  <1>8. QED
    BY <1>4, <1>5, <1>7, HeapFrom

\* A statement runs on a table its handler found there.
LEMMA HandlerFrom ==
    ASSUME Inv, NEW j \in Job, Prover!ProveWrite(j) \/ Prover!Finish(j), NEW t \in Table
    PROVE  Somewhere(t)' => Somewhere(t)
  <1> DEFINE q == job[j].query
             n == job[j].node
             o == job[j].obj
  <1>1. n \in Node /\ q.table \in Table
    BY HandlerType DEF Prover!ProveWrite, Prover!Finish
  <1>2. /\ status[n] = "up" /\ o \in 1 .. Len(heap[n])
        /\ heap[n][o][q.table] # Absent
    BY DEF Inv, P!WellFormed, P!HandlersHoldTheirTable, P!Active, Prover!ProveWrite,
       Prover!Finish
  <1>3. heap[n] \in Seq(P!Database)
    BY <1>1 DEF Inv, P!WellFormed, P!TypeOK
  <1>4. CASE Prover!ProveWrite(j)
    <2> DEFINE made == [heap[n][o] EXCEPT ![q.table] = RunSql[q][heap[n][o][q.table]]]
               h == [heap[n] EXCEPT ![o] = made]
    <2>1. heap' = [heap EXCEPT ![n] = h] /\ cache' = cache
      BY <1>4 DEF Prover!ProveWrite
    <2>2. heap[n][o] \in P!Database
      BY <1>2, <1>3, EntryType
    <2>3. made[t] # Absent => heap[n][o][t] # Absent
      BY <1>2, <2>2 DEF P!Database
    <2> HIDE DEF made
    <2>4. \A i \in 1 .. Len(h) :
            \/ i \in 1 .. Len(heap[n]) /\ h[i] = heap[n][i]
            \/ i = o /\ h[i] = made
      BY <1>2, <1>3
    <2>5. \A i \in 1 .. Len(h) : h[i][t] # Absent => Somewhere(t)
      BY <1>1, <1>2, <2>3, <2>4 DEF Somewhere
    <2>6. cache' # NoFile /\ cache'[t] # Absent => Somewhere(t)
      BY <2>1 DEF Somewhere
    <2> HIDE DEF h
    <2>7. QED
      BY <1>1, <2>1, <2>5, <2>6, HeapFrom
  <1>5. CASE Prover!Finish(j)
    <2>1. heap' = heap /\ cache' = Prover!db(n)
      BY <1>5 DEF Prover!Finish, Prover!writeDB
    <2>2. cache'[t] # Absent => Somewhere(t)
      BY <1>1, <1>2, <2>1, InDb
    <2>3. QED
      BY <2>1, <2>2 DEF Somewhere
  <1>6. QED
    BY <1>4, <1>5

\* No table comes from nowhere: it was there, or it was waited for.
LEMMA TablesFrom ==
    ASSUME Inv, [Next]_vars, NEW t \in Table, Somewhere(t)'
    PROVE  Somewhere(t) \/ \E n \in Node : P!IsPending(n, t)
  <1>1. ASSUME UNCHANGED <<heap, cache>>
        PROVE  Somewhere(t)
    BY <1>1 DEF Somewhere
  <1>2. ASSUME NEW n \in Node, Boot(n) \/ BootFails(n) \/ Crash(n) \/ PostRefused(n)
        PROVE  Somewhere(t)
    BY <1>2, StartFrom DEF Boot, BootFails, Crash, PostRefused, Prover!BootFails,
       Prover!Crash
  <1>3. ASSUME NEW n \in Node, NEW u \in Table, PostCreate(n, u)
        PROVE  Somewhere(t) \/ P!IsPending(n, t)
    <2>1. PICK c \in FirstContent : Prover!CreateTable(n, u, c)
      BY <1>3 DEF PostCreate
    <2>2. P!IsPending(n, u)
      BY <2>1 DEF Prover!CreateTable, Prover!IsPending, P!IsPending, Prover!ColumnsCommit,
         P!ColumnsCommit
    <2>3. QED
      BY <2>1, <2>2, CreateFrom
  <1>4. ASSUME NEW j \in Job,
               \/ Prove(j) \/ Send(j) \/ SendReverts(j) \/ SendFails(j)
               \/ Finish(j) \/ Poll(j)
        PROVE  Somewhere(t)
    <2>1. CASE Prover!ProveWrite(j) \/ Prover!Finish(j)
      BY <2>1, HandlerFrom
    <2>2. CASE Prover!ProveSelect(j) \/ Prover!ProveFails(j) \/ Prover!SendOk(j)
                \/ Prover!SendThrows(j) \/ Prover!Poll(j)
      BY <1>1, <2>2 DEF Prover!ProveSelect, Prover!ProveFails, Prover!SendOk,
         Prover!SendThrows, Prover!Poll, Prover!nodeVars
    <2>3. QED
      BY <1>4, <2>1, <2>2 DEF Prove, Send, SendReverts, SendFails, Finish, Poll
  <1>5. CASE UNCHANGED vars
    BY <1>1, <1>5 DEF vars, proverVars
  <1>6. ASSUME NEW n \in Node, NEW j \in Job, NEW q \in Query, PostRequest(n, j, q)
        PROVE  Somewhere(t)
    BY <1>1, <1>6 DEF PostRequest, Prover!Start, Prover!StartFails, Prover!nodeVars
  <1>7. ASSUME NEW n \in Node, ListTables(n) \/ Listen(n) \/ (\E u \in Table : ReadCommitment(n, u))
        PROVE  Somewhere(t)
    BY <1>1, <1>7 DEF ListTables, Listen, ReadCommitment, Prover!ListTables, Prover!Listen,
       Prover!ReadCommitment
  <1>8. ASSUME NEW n \in Node,
               HearRequestPosted(n) \/ HearTableCreated(n) \/ HearTableUpdated(n)
        PROVE  Somewhere(t)
    BY <1>1, <1>8 DEF HearRequestPosted, HearTableCreated, HearTableUpdated,
       Prover!OnRequestPosted, Prover!OnTableCreated, Prover!OnTableUpdated
  <1>9. ASSUME \/ \E u \in Table : UserCreatesTable(u)
               \/ \E q \in Query : UserRequests(q)
               \/ Mine
        PROVE  Somewhere(t)
    BY <1>1, <1>9 DEF UserCreatesTable, UserRequests, Mine, proverVars
  <1>10. QED
    BY <1>2, <1>3, <1>4, <1>5, <1>6, <1>7, <1>8, <1>9 DEF Next

\* What was waited for has a commitment, and keeps it.
LEMMA NextCommitted ==
    ASSUME ColumnsAreDistinct
    PROVE  Inv /\ About /\ TablesAreCommitted /\ [Next]_vars => TablesAreCommitted'
  <1> SUFFICES ASSUME Inv, About, TablesAreCommitted, [Next]_vars,
                      NEW t \in Table, Somewhere(t)'
               PROVE  chainCommitments'[t] # 0
    BY DEF TablesAreCommitted
  <1>1. chainCommitments[t] # 0
    BY TablesFrom, PendingIsCreated DEF TablesAreCommitted, About
  <1>2. QED
    BY <1>1, NextStep, ContractKeeps DEF Inv, Step

LEMMA InitCommitted == Init => TablesAreCommitted
  BY DEF Init, Prover!Init, TablesAreCommitted, Somewhere

LEMMA CommittedGives == Inv /\ TablesAreCommitted => LocalTablesAreCommitted
  BY InDb DEF TablesAreCommitted, LocalTablesAreCommitted

\* No process serves a table that was not created on chain, although the
\* tables come over HTTP, and stay in a file the processes share and reload
\* (CreateTableController.ts, database.ts).
THEOREM ServedTablesAreCommitted ==
    ASSUME ColumnsAreDistinct
    PROVE  Spec => []LocalTablesAreCommitted
  <1>1. Spec => []TablesAreCommitted
    BY InitCommitted, NextCommitted, AlwaysAbout, PTL DEF Spec
  <1>2. QED
    BY <1>1, AlwaysInv, CommittedGives, PTL
=============================================================================
