----------------------------- MODULE ZkSQLProof -----------------------------
(***************************************************************************)
(* The invariants of the contract, for any tables, any circuits and any    *)
(* number of transactions.                                                 *)
(***************************************************************************)
EXTENDS ZkSQL, TLAPS

\* The table of a request that was never posted is the empty string.
RequestsArePosted ==
    \A a \in Args :
        requestsCommitments[a] # Unnamed =>
            \E m \in 1 .. Len(requestPosted) : requestPosted[m] = a

\* None of the conjuncts is inductive alone: an update starts where the log
\* left the table because the log replays, it was requested because the table
\* of what was not posted has no name, and a table is committed once because
\* a table whose creation set a commitment still has one.
IInv ==
    /\ TypeOK
    /\ LogReplays
    /\ CommittedOnce
    /\ UpdatesAreRequestedSteps
    /\ RequestsArePosted

\* What appending to a log keeps: every earlier entry, in its place.
LEMMA AppendKeeps ==
    ASSUME NEW S, NEW s \in Seq(S), NEW e \in S
    PROVE  /\ Append(s, e) \in Seq(S)
           /\ Len(Append(s, e)) = Len(s) + 1
           /\ Len(s) \in Nat
           /\ \A i \in 1 .. Len(s) : Append(s, e)[i] = s[i]
           /\ Append(s, e)[Len(s) + 1] = e
  OBVIOUS

\* Every entry of a log is an event.
LEMMA EntryType ==
    ASSUME NEW S, NEW s \in Seq(S), NEW i \in 1 .. Len(s)
    PROVE  s[i] \in S
  OBVIOUS

\* Where a table was found at does not change when the logs grow.
LEMMA FoundAtKeeps ==
    ASSUME NEW E, NEW C \in Seq(E), NEW C2 \in Seq(E),
           NEW F, NEW U \in Seq(F), NEW U2 \in Seq(F),
           Len(C) <= Len(C2), \A i \in 1 .. Len(C) : C2[i] = C[i],
           Len(U) <= Len(U2), \A i \in 1 .. Len(U) : U2[i] = U[i],
           NEW n \in 1 .. Len(U) + 1, NEW t, NEW c,
           FoundAt(C, U, n, t, c)
    PROVE  FoundAt(C2, U2, n, t, c)
  <1>1. \A i \in 1 .. n - 1 : i \in 1 .. Len(U) /\ U2[i] = U[i]
    OBVIOUS
  <1>2. CASE \E m \in 1 .. n - 1 :
                /\ U[m] = [table |-> t, commitment |-> c]
                /\ \A k \in m + 1 .. n - 1 : U[k].table # t
    <2>1. PICK m \in 1 .. n - 1 :
                /\ U[m] = [table |-> t, commitment |-> c]
                /\ \A k \in m + 1 .. n - 1 : U[k].table # t
      BY <1>2
    <2>2. \A k \in m + 1 .. n - 1 : U2[k].table # t
      BY <2>1, <1>1
    <2>3. QED
      BY <2>1, <2>2, <1>1 DEF FoundAt
  <1>3. CASE /\ \A k \in 1 .. n - 1 : U[k].table # t
             /\ \E m \in 1 .. Len(C) : C[m] = [table |-> t, commitment |-> c]
    <2>1. \A k \in 1 .. n - 1 : U2[k].table # t
      BY <1>3, <1>1
    <2>2. PICK m \in 1 .. Len(C) : C[m] = [table |-> t, commitment |-> c]
      BY <1>3
    <2>3. m \in 1 .. Len(C2) /\ C2[m] = [table |-> t, commitment |-> c]
      BY <2>2
    <2>4. QED
      BY <2>1, <2>3 DEF FoundAt
  <1>4. QED
    BY <1>2, <1>3 DEF FoundAt

LEMMA InitIInv == Init => IInv
  BY DEF Init, IInv, TypeOK, Name, LogReplays, CommittedOnce, UpdatesAreRequestedSteps,
         RequestsArePosted

LEMMA CreateTableIInv ==
    ASSUME IInv, NEW t \in Name, NEW c \in Commitment \cup {NoCommitment}, CreateTable(t, c)
    PROVE  IInv'
  <1> DEFINE e == [table |-> t, commitment |-> c]
             E == TableEvent(Commitment \cup {NoCommitment})
  <1>1. TypeOK
    BY DEF IInv
  <1>2. /\ Len(tableCreated) \in Nat /\ Len(tableUpdated) \in Nat
        /\ tableCreated' \in Seq(E)
        /\ Len(tableCreated') = Len(tableCreated) + 1
        /\ \A i \in 1 .. Len(tableCreated) : tableCreated'[i] = tableCreated[i]
        /\ tableCreated'[Len(tableCreated) + 1] = e
    <2>1. e \in E
      BY DEF TableEvent
    <2> HIDE DEF e, E
    <2>2. tableCreated \in Seq(E) /\ tableCreated' = Append(tableCreated, e)
      BY <1>1 DEF TypeOK, CreateTable, E, e
    <2>3. Len(tableUpdated) \in Nat
      BY <1>1 DEF TypeOK
    <2>4. QED
      BY <2>1, <2>2, <2>3, AppendKeeps
  <1>3. TypeOK'
    BY <1>1, <1>2 DEF TypeOK, CreateTable
  <1>4. /\ \A k \in 1 .. Len(tableUpdated) : tableUpdated[k].table # t
        /\ \A k \in 1 .. Len(tableCreated) :
                tableCreated[k].table = t => tableCreated[k].commitment = NoCommitment
    BY DEF IInv, LogReplays, CreateTable
  <1>5. ASSUME NEW n \in 1 .. Len(tableUpdated) + 1, NEW u, NEW d,
               FoundAt(tableCreated, tableUpdated, n, u, d)
        PROVE  FoundAt(tableCreated', tableUpdated, n, u, d)
    <2>1. tableCreated \in Seq(E) /\ tableUpdated \in Seq(TableEvent(Commitment))
      BY <1>1 DEF TypeOK
    <2>2. Len(tableCreated) <= Len(tableCreated') /\ Len(tableUpdated) <= Len(tableUpdated)
      BY <1>2
    <2> HIDE DEF E
    <2>3. QED
      BY <2>1, <2>2, <1>2, <1>5, FoundAtKeeps
  <1>6. LogReplays'
    <2> SUFFICES ASSUME NEW u \in Name
                 PROVE  IF tableCommitments'[u] # NoCommitment
                        THEN FoundAt(tableCreated', tableUpdated, Len(tableUpdated) + 1, u,
                                     tableCommitments'[u])
                        ELSE /\ \A k \in 1 .. Len(tableUpdated) : tableUpdated[k].table # u
                             /\ \A k \in 1 .. Len(tableCreated') :
                                    tableCreated'[k].table = u =>
                                        tableCreated'[k].commitment = NoCommitment
      BY DEF LogReplays, CreateTable
    <2>1. CASE u = t
      <3>1. tableCommitments'[t] = c
        BY <1>1 DEF CreateTable, TypeOK
      <3>2. Len(tableCreated) + 1 \in 1 .. Len(tableCreated')
        BY <1>2
      <3>3. \A k \in 1 .. (Len(tableUpdated) + 1) - 1 : tableUpdated[k].table # t
        BY <1>2, <1>4
      <3>4. FoundAt(tableCreated', tableUpdated, Len(tableUpdated) + 1, t, c)
        BY <1>2, <3>2, <3>3 DEF FoundAt
      <3>5. ASSUME c = NoCommitment, NEW k \in 1 .. Len(tableCreated'),
                   tableCreated'[k].table = t
            PROVE  tableCreated'[k].commitment = NoCommitment
        <4>1. CASE k = Len(tableCreated) + 1
          BY <4>1, <3>5, <1>2
        <4>2. CASE k # Len(tableCreated) + 1
          <5>1. k \in 1 .. Len(tableCreated)
            BY <4>2, <1>2
          <5>2. QED
            BY <5>1, <3>5, <1>2, <1>4
        <4>3. QED
          BY <4>1, <4>2
      <3>6. QED
        BY <2>1, <3>1, <3>4, <3>5, <1>4
    <2>2. CASE u # t
      <3>1. tableCommitments'[u] = tableCommitments[u]
        BY <2>2, <1>1 DEF CreateTable, TypeOK
      <3>2. CASE tableCommitments[u] # NoCommitment
        <4>1. FoundAt(tableCreated, tableUpdated, Len(tableUpdated) + 1, u, tableCommitments[u])
          BY <3>2 DEF IInv, LogReplays
        <4>2. QED
          BY <3>1, <3>2, <4>1, <1>2, <1>5
      <3>3. CASE tableCommitments[u] = NoCommitment
        <4>1. /\ \A k \in 1 .. Len(tableUpdated) : tableUpdated[k].table # u
              /\ \A k \in 1 .. Len(tableCreated) :
                    tableCreated[k].table = u => tableCreated[k].commitment = NoCommitment
          BY <3>3 DEF IInv, LogReplays
        <4>2. ASSUME NEW k \in 1 .. Len(tableCreated'), tableCreated'[k].table = u
              PROVE  tableCreated'[k].commitment = NoCommitment
          <5>1. k # Len(tableCreated) + 1
            BY <4>2, <2>2, <1>2
          <5>2. k \in 1 .. Len(tableCreated)
            BY <5>1, <1>2
          <5>3. QED
            BY <5>2, <4>1, <4>2, <1>2
        <4>3. QED
          BY <3>1, <3>3, <4>1, <4>2
      <3>4. QED
        BY <3>2, <3>3
    <2>3. QED
      BY <2>1, <2>2
  <1>7. CommittedOnce'
    <2> SUFFICES ASSUME NEW m \in 1 .. Len(tableCreated'), NEW n \in 1 .. Len(tableCreated'),
                        m < n, tableCreated'[m].table = tableCreated'[n].table
                 PROVE  tableCreated'[m].commitment = NoCommitment
      BY DEF CommittedOnce
    <2>1. m \in 1 .. Len(tableCreated) /\ tableCreated'[m] = tableCreated[m]
      BY <1>2
    <2>2. CASE n = Len(tableCreated) + 1
      BY <2>1, <2>2, <1>2, <1>4
    <2>3. CASE n # Len(tableCreated) + 1
      <3>1. n \in 1 .. Len(tableCreated) /\ tableCreated'[n] = tableCreated[n]
        BY <2>3, <1>2
      <3>2. QED
        BY <2>1, <3>1 DEF IInv, CommittedOnce
    <2>4. QED
      BY <2>2, <2>3
  <1>8. UpdatesAreRequestedSteps'
    <2> SUFFICES ASSUME NEW n \in 1 .. Len(tableUpdated)
                 PROVE  \E s \in Provable :
                            /\ s.new = tableUpdated[n].commitment
                            /\ FoundAt(tableCreated', tableUpdated, n,
                                       tableUpdated[n].table, s.old)
                            /\ tableUpdated[n].table # Unnamed =>
                                \E m \in 1 .. Len(requestPosted) : requestPosted[m] = s.args
      BY DEF UpdatesAreRequestedSteps, CreateTable
    <2>1. PICK s \in Provable :
            /\ s.new = tableUpdated[n].commitment
            /\ FoundAt(tableCreated, tableUpdated, n, tableUpdated[n].table, s.old)
            /\ tableUpdated[n].table # Unnamed =>
                \E m \in 1 .. Len(requestPosted) : requestPosted[m] = s.args
      BY DEF IInv, UpdatesAreRequestedSteps
    <2>2. n \in 1 .. Len(tableUpdated) + 1
      BY <1>2
    <2>3. FoundAt(tableCreated', tableUpdated, n, tableUpdated[n].table, s.old)
      BY <2>1, <2>2, <1>5
    <2>4. QED
      BY <2>1, <2>3
  <1>9. RequestsArePosted'
    BY DEF IInv, RequestsArePosted, CreateTable
  <1>10. QED
    BY <1>3, <1>6, <1>7, <1>8, <1>9 DEF IInv

LEMMA RequestIInv ==
    ASSUME IInv, NEW t \in Name, NEW a \in Args, Request(t, a)
    PROVE  IInv'
  <1>1. TypeOK
    BY DEF IInv
  <1>2. /\ requestPosted' \in Seq(Args)
        /\ Len(requestPosted') = Len(requestPosted) + 1
        /\ Len(requestPosted) \in Nat
        /\ \A i \in 1 .. Len(requestPosted) : requestPosted'[i] = requestPosted[i]
        /\ requestPosted'[Len(requestPosted) + 1] = a
    BY <1>1, AppendKeeps DEF TypeOK, Request
  <1>3. UNCHANGED <<tableCommitments, tableCreated, tableUpdated>>
    BY DEF Request
  <1>4. TypeOK'
    BY <1>1, <1>2, <1>3 DEF TypeOK, Request
  <1>5. LogReplays' /\ CommittedOnce'
    BY <1>3 DEF IInv, LogReplays, CommittedOnce
  <1>6. ASSUME NEW b, \E m \in 1 .. Len(requestPosted) : requestPosted[m] = b
        PROVE  \E m \in 1 .. Len(requestPosted') : requestPosted'[m] = b
    BY <1>2, <1>6
  <1>7. UpdatesAreRequestedSteps'
    BY <1>3, <1>6 DEF IInv, UpdatesAreRequestedSteps
  <1>8. RequestsArePosted'
    <2> SUFFICES ASSUME NEW b \in Args, requestsCommitments'[b] # Unnamed
                 PROVE  \E m \in 1 .. Len(requestPosted') : requestPosted'[m] = b
      BY DEF RequestsArePosted
    <2>1. CASE b = a
      BY <2>1, <1>2
    <2>2. CASE b # a
      <3>1. requestsCommitments[b] # Unnamed
        BY <2>2, <1>1 DEF Request, TypeOK
      <3>2. QED
        BY <3>1, <1>6 DEF IInv, RequestsArePosted
    <2>3. QED
      BY <2>1, <2>2
  <1>9. QED
    BY <1>4, <1>5, <1>7, <1>8 DEF IInv

LEMMA ExecRequestIInv ==
    ASSUME IInv, NEW s \in Provable, ExecRequest(s.op, s.args, s.new, s)
    PROVE  IInv'
  <1> DEFINE table == requestsCommitments[s.args]
             e == [table |-> table, commitment |-> s.new]
             E == TableEvent(Commitment \cup {NoCommitment})
             F == TableEvent(Commitment)
  <1>1. TypeOK
    BY DEF IInv
  <1>2. s \in Statement /\ s.new \in Commitment /\ s.old \in Commitment /\ s.args \in Args
    BY ProvableAreStatements DEF Statement
  <1>3. /\ s.old = tableCommitments[table]
        /\ tableCommitments' = [tableCommitments EXCEPT ![table] = s.new]
        /\ tableUpdated' = Append(tableUpdated, e)
        /\ UNCHANGED <<requestsCommitments, requestPosted, tableCreated>>
    BY <1>2 DEF ExecRequest, ExecSucceeds, VerifyProof, Statement
  <1>4. table \in Name /\ e \in F
    BY <1>1, <1>2 DEF TypeOK, TableEvent
  <1>5. /\ Len(tableUpdated) \in Nat
        /\ tableUpdated' \in Seq(F)
        /\ Len(tableUpdated') = Len(tableUpdated) + 1
        /\ \A i \in 1 .. Len(tableUpdated) : tableUpdated'[i] = tableUpdated[i]
        /\ tableUpdated'[Len(tableUpdated) + 1] = e
    <2>1. tableUpdated \in Seq(F)
      BY <1>1 DEF TypeOK
    <2> HIDE DEF F, e
    <2>2. QED
      BY <2>1, <1>3, <1>4, AppendKeeps
  <1>6. TypeOK'
    BY <1>1, <1>2, <1>3, <1>4, <1>5 DEF TypeOK
  <1>7. tableCommitments[table] # NoCommitment
    BY <1>2, <1>3, ZeroIsNoCommitment
  <1>8. FoundAt(tableCreated, tableUpdated, Len(tableUpdated) + 1, table, s.old)
    BY <1>3, <1>4, <1>7 DEF IInv, LogReplays
  <1>9. ASSUME NEW n \in 1 .. Len(tableUpdated) + 1, NEW u, NEW d,
                FoundAt(tableCreated, tableUpdated, n, u, d)
         PROVE  FoundAt(tableCreated', tableUpdated', n, u, d)
    <2>1. /\ tableCreated \in Seq(E) /\ tableUpdated \in Seq(F)
          /\ tableCreated' = tableCreated /\ Len(tableCreated) <= Len(tableCreated)
          /\ Len(tableUpdated) <= Len(tableUpdated')
      BY <1>1, <1>3, <1>5 DEF TypeOK
    <2> HIDE DEF E, F
    <2>2. QED
      BY <2>1, <1>5, <1>9, FoundAtKeeps
  <1>10. LogReplays'
    <2> SUFFICES ASSUME NEW u \in Name
                 PROVE  IF tableCommitments'[u] # NoCommitment
                        THEN FoundAt(tableCreated', tableUpdated', Len(tableUpdated') + 1, u,
                                     tableCommitments'[u])
                        ELSE /\ \A k \in 1 .. Len(tableUpdated') : tableUpdated'[k].table # u
                             /\ \A k \in 1 .. Len(tableCreated) :
                                    tableCreated[k].table = u =>
                                        tableCreated[k].commitment = NoCommitment
      BY <1>3 DEF LogReplays
    <2>1. CASE u = table
      <3>1. tableCommitments'[table] = s.new /\ s.new # NoCommitment
        BY <1>1, <1>2, <1>3, <1>4, ZeroIsNoCommitment DEF TypeOK
      <3>2. /\ Len(tableUpdated') \in 1 .. (Len(tableUpdated') + 1) - 1
            /\ tableUpdated'[Len(tableUpdated')] = [table |-> table, commitment |-> s.new]
            /\ \A k \in Len(tableUpdated') + 1 .. (Len(tableUpdated') + 1) - 1 :
                    tableUpdated'[k].table # table
        BY <1>5
      <3>3. QED
        BY <2>1, <3>1, <3>2 DEF FoundAt
    <2>2. CASE u # table
      <3>1. tableCommitments'[u] = tableCommitments[u]
        BY <2>2, <1>1, <1>3 DEF TypeOK
      <3>2. CASE tableCommitments[u] # NoCommitment
        <4> DEFINE n == Len(tableUpdated) + 1
        <4>1. FoundAt(tableCreated', tableUpdated', n, u, tableCommitments[u])
          <5>1. FoundAt(tableCreated, tableUpdated, n, u, tableCommitments[u])
            BY <3>2 DEF IInv, LogReplays
          <5>2. QED
            BY <5>1, <1>5, <1>9
        <4>2. n \in Nat /\ Len(tableUpdated') = n /\ tableUpdated'[n].table # u
          BY <2>2, <1>5
        <4> HIDE DEF n
        <4>3. FoundAt(tableCreated', tableUpdated', n + 1, u, tableCommitments[u])
          BY <4>1, <4>2 DEF FoundAt
        <4>4. QED
          BY <4>2, <4>3, <3>1, <3>2
      <3>3. CASE tableCommitments[u] = NoCommitment
        <4>1. /\ \A k \in 1 .. Len(tableUpdated) : tableUpdated[k].table # u
              /\ \A k \in 1 .. Len(tableCreated) :
                    tableCreated[k].table = u => tableCreated[k].commitment = NoCommitment
          BY <3>3 DEF IInv, LogReplays
        <4>2. ASSUME NEW k \in 1 .. Len(tableUpdated')
              PROVE  tableUpdated'[k].table # u
          <5>1. CASE k = Len(tableUpdated) + 1
            BY <5>1, <2>2, <1>5
          <5>2. CASE k # Len(tableUpdated) + 1
            BY <5>2, <4>1, <1>5
          <5>3. QED
            BY <5>1, <5>2
        <4>3. QED
          BY <3>1, <3>3, <4>1, <4>2
      <3>4. QED
        BY <3>2, <3>3
    <2>3. QED
      BY <2>1, <2>2
  <1>11. CommittedOnce'
    BY <1>3 DEF IInv, CommittedOnce
  <1>12. UpdatesAreRequestedSteps'
    <2> SUFFICES ASSUME NEW n \in 1 .. Len(tableUpdated')
                 PROVE  \E p \in Provable :
                            /\ p.new = tableUpdated'[n].commitment
                            /\ FoundAt(tableCreated', tableUpdated', n,
                                       tableUpdated'[n].table, p.old)
                            /\ tableUpdated'[n].table # Unnamed =>
                                \E m \in 1 .. Len(requestPosted) : requestPosted[m] = p.args
      BY <1>3 DEF UpdatesAreRequestedSteps
    <2>1. CASE n = Len(tableUpdated) + 1
      <3>1. FoundAt(tableCreated', tableUpdated', n, table, s.old)
        BY <2>1, <1>5, <1>8, <1>9
      <3>2. table # Unnamed => \E m \in 1 .. Len(requestPosted) : requestPosted[m] = s.args
        BY <1>2 DEF IInv, RequestsArePosted
      <3>3. QED
        BY <2>1, <3>1, <3>2, <1>5
    <2>2. CASE n # Len(tableUpdated) + 1
      <3>1. n \in 1 .. Len(tableUpdated) /\ n \in 1 .. Len(tableUpdated) + 1
        BY <2>2, <1>5
      <3>2. PICK p \in Provable :
              /\ p.new = tableUpdated[n].commitment
              /\ FoundAt(tableCreated, tableUpdated, n, tableUpdated[n].table, p.old)
              /\ tableUpdated[n].table # Unnamed =>
                    \E m \in 1 .. Len(requestPosted) : requestPosted[m] = p.args
        BY <3>1 DEF IInv, UpdatesAreRequestedSteps
      <3>3. FoundAt(tableCreated', tableUpdated', n, tableUpdated[n].table, p.old)
        BY <3>1, <3>2, <1>9
      <3>4. tableUpdated'[n] = tableUpdated[n]
        BY <3>1, <1>5
      <3>5. QED
        BY <3>2, <3>3, <3>4
    <2>3. QED
      BY <2>1, <2>2
  <1>13. RequestsArePosted'
    BY <1>3 DEF IInv, RequestsArePosted
  <1>14. QED
    BY <1>6, <1>10, <1>11, <1>12, <1>13 DEF IInv

LEMMA NextIInv == IInv /\ [Next]_vars => IInv'
  <1> SUFFICES ASSUME IInv, [Next]_vars
               PROVE  IInv'
    OBVIOUS
  <1>1. ASSUME NEW t \in Name, NEW c \in Commitment \cup {NoCommitment}, CreateTable(t, c)
        PROVE  IInv'
    BY <1>1, CreateTableIInv
  <1>2. ASSUME NEW t \in Name, NEW a \in Args, Request(t, a)
        PROVE  IInv'
    BY <1>2, RequestIInv
  <1>3. ASSUME NEW s \in Provable, ExecRequest(s.op, s.args, s.new, s)
        PROVE  IInv'
    BY <1>3, ExecRequestIInv
  <1>4. CASE UNCHANGED vars
    BY <1>4 DEF vars, IInv, TypeOK, LogReplays, CommittedOnce, UpdatesAreRequestedSteps,
                RequestsArePosted
  <1>5. QED
    BY <1>1, <1>2, <1>3, <1>4 DEF Next

LEMMA Invariance == Spec => []IInv
  BY InitIInv, NextIInv, PTL DEF Spec

\* The mappings and the logs of the contract keep their types.
THEOREM TypeCorrect == Spec => []TypeOK
  BY Invariance, PTL DEF IInv

\* A listener that has applied every event holds the commitments the contract
\* holds, however many transactions there were.
THEOREM LogsTellTheState == Spec => []LogReplays
  BY Invariance, PTL DEF IInv

\* createTable sets a commitment at most once for a table, and succeeds no
\* more after that.
THEOREM TablesAreCommittedOnce == Spec => []CommittedOnce
  BY Invariance, PTL DEF IInv

\* Every commitment execRequest stores is a proved step from the table's
\* previous one, for any names and numbers users create tables with.  For a
\* table with a name, it is on arguments that were posted, although the
\* contract does not check the request.
THEOREM UpdatesAreSteps == Spec => []UpdatesAreRequestedSteps
  BY Invariance, PTL DEF IInv

=============================================================================
