---------------------------- MODULE ZkSqlSystem ----------------------------
(***************************************************************************)
(* The prover processes and the contract, joined by the JSON-RPC node the  *)
(* processes use: it lists and reads, estimates and accepts transactions,  *)
(* mines them in the order of the nonces of the one wallet the processes   *)
(* share, and is polled for events.                                        *)
(*                                                                         *)
(* Each kind of event is a poll of its own, so a process sees the events   *)
(* of one kind in order and those of two kinds in any order.               *)
(***************************************************************************)
EXTENDS Naturals, Sequences, FiniteSets

CONSTANTS
    Node, Job, Table, Query, Content, NoRows, FirstContent, Commitment, Args,
    Hash, RunSql, Circuit, Absent, NoFile, Unnamed,
    MaxReloads, MaxCreations, MaxRequests, MaxUpdates,
    MaxWrites,      \* writes users let be in progress together
    MaxCrashes,     \* bound: ends of a process and failing calls of the RPC node
    WhenQuiet       \* what happens only while no write is in progress

\* What the two components assume.
ASSUME QueriesAreRecords ==
    \A q \in Query :
        /\ q.type \in {"select", "insert", "update", "delete"}
        /\ q.table \in Table /\ q.args \in Args
ASSUME ContentsAreNamed ==
    /\ NoRows \subseteq Content /\ NoRows # {}
    /\ FirstContent \subseteq Content
    /\ Absent \notin Content
ASSUME FunctionsOfContents ==
    /\ Hash \in [Table -> [Content -> Commitment]]
    /\ RunSql \in [Query -> [Content -> Content]]
    /\ Circuit \in [Query -> [Content -> Commitment]]
ASSUME CacheIsADatabase == NoFile \notin [Table -> Content \cup {Absent}]
ASSUME UnnamedIsNoTable == Unnamed \notin Table
ASSUME ZeroIsNoCommitment == 0 \notin Commitment

ASSUME DisturbancesAreNamed == WhenQuiet \subseteq {"crash", "refuse"}
ASSUME BoundsAreNaturals ==
    /\ {MaxReloads, MaxCreations, MaxRequests, MaxUpdates} \subseteq Nat
    /\ {MaxWrites, MaxCrashes} \subseteq Nat

VARIABLES
    status, heap, unread, tableCommitments, knownTables, pendingRequests,
    pendingTablesToCreate, job, cache,                  \* of ProverNode
    chainCommitments,                                   \* of ZkSQL
    requestsCommitments, requestPosted, tableCreated, tableUpdated,
    txpool,         \* transactions of the processes that are not mined yet
    seen,           \* how far each process has read the three logs
    crashes

Prover == INSTANCE ProverNode

\* The statements the circuits of the write queries accept.
Provable ==
    {[op |-> q.type, new |-> Circuit[q][c], old |-> Hash[q.table][c], args |-> q.args] :
        q \in {r \in Query : r.type # "select"}, c \in Content}

Contract == INSTANCE ZkSQL WITH tableCommitments <- chainCommitments

chainVars  == <<chainCommitments, requestsCommitments, requestPosted,
                tableCreated, tableUpdated>>
proverVars == <<status, heap, unread, tableCommitments, knownTables,
                pendingRequests, pendingTablesToCreate, job, cache>>
vars       == <<proverVars, chainVars, txpool, seen, crashes>>

TypeOK ==
    /\ Prover!TypeOK
    /\ Contract!TypeOK
    /\ txpool \in Seq(Provable)
    /\ seen \in [Node -> [posted : 0 .. Len(requestPosted), created : 0 .. Len(tableCreated),
                          updated : 0 .. Len(tableUpdated)]]
    /\ crashes \in 0 .. MaxCrashes

Init ==
    /\ Prover!Init
    /\ Contract!Init
    /\ txpool = <<>>
    /\ seen = [n \in Node |-> [posted |-> 0, created |-> 0, updated |-> 0]]
    /\ crashes = 0

-----------------------------------------------------------------------------
\* Users, whose transactions are mined when they are sent.

UserCreatesTable(t) ==
    /\ Contract!CreateTable(t, Prover!ColumnsCommit(t))
    /\ UNCHANGED <<proverVars, txpool, seen, crashes>>

UserRequests(q) ==
    /\ q.type # "select"
    /\ Contract!Request(q.table, q.args)
    /\ UNCHANGED <<proverVars, txpool, seen, crashes>>

-----------------------------------------------------------------------------
\* Starting and stopping processes.

ListTables(n) ==
    /\ Prover!ListTables(n, {tableCreated[i].table : i \in 1 .. Len(tableCreated)})
    /\ UNCHANGED <<chainVars, txpool, seen, crashes>>

ReadCommitment(n, t) ==
    /\ Prover!ReadCommitment(n, t, chainCommitments[t])
    /\ UNCHANGED <<chainVars, txpool, seen, crashes>>

\* The listeners start at the current block: earlier events never come.
ListenLate(n) ==                \* mutant: from the block after the current one
    /\ Prover!Listen(n)
    /\ seen' = [seen EXCEPT ![n] = [posted |-> Len(requestPosted) + 1,
                                    created |-> Len(tableCreated) + 1,
                                    updated |-> Len(tableUpdated) + 1]]
    /\ UNCHANGED <<chainVars, txpool, crashes>>

Listen(n) ==
    /\ Prover!Listen(n)
    /\ seen' = [seen EXCEPT ![n] = [posted |-> Len(requestPosted), created |-> Len(tableCreated),
                                    updated |-> Len(tableUpdated)]]
    /\ UNCHANGED <<chainVars, txpool, crashes>>

Boot(n) ==
    /\ Prover!Boot(n)
    /\ UNCHANGED <<chainVars, txpool, seen, crashes>>

BootFails(n) ==
    /\ Prover!BootFails(n)
    /\ UNCHANGED <<chainVars, txpool, seen, crashes>>

WriteJobs(pcs) == {j \in Job : job[j].pc \in pcs /\ job[j].query.type # "select"}

Quiet == txpool = <<>> /\ WriteJobs({"proving", "sending", "sent"}) = {}

Crash(n) ==
    /\ "crash" \in WhenQuiet => Quiet
    /\ crashes < MaxCrashes
    /\ crashes' = crashes + 1
    /\ Prover!Crash(n)
    /\ UNCHANGED <<chainVars, txpool, seen>>

-----------------------------------------------------------------------------
\* Polling for events.

HearRequestPosted(n) ==
    /\ seen[n].posted < Len(requestPosted)
    /\ seen' = [seen EXCEPT ![n].posted = @ + 1]
    /\ Prover!OnRequestPosted(n, requestPosted[seen[n].posted + 1])
    /\ UNCHANGED <<chainVars, txpool, crashes>>

HearTableCreated(n) ==
    /\ seen[n].created < Len(tableCreated)
    /\ seen' = [seen EXCEPT ![n].created = @ + 1]
    /\ Prover!OnTableCreated(n, tableCreated[seen[n].created + 1].commitment)
    /\ UNCHANGED <<chainVars, txpool, crashes>>

HearTableUpdated(n) ==
    /\ seen[n].updated < Len(tableUpdated)
    /\ seen' = [seen EXCEPT ![n].updated = @ + 1]
    /\ LET e == tableUpdated[seen[n].updated + 1]
       IN  Prover!OnTableUpdated(n, e.table, e.commitment)
    /\ UNCHANGED <<chainVars, txpool, crashes>>

-----------------------------------------------------------------------------
\* Serving.

PostCreate(n, t) ==
    /\ \E c \in FirstContent : Prover!CreateTable(n, t, c)
    /\ UNCHANGED <<chainVars, txpool, seen, crashes>>

PostRefused(n) ==
    /\ "refuse" \in WhenQuiet => Quiet
    /\ Prover!Refuse(n)
    /\ UNCHANGED <<chainVars, txpool, seen, crashes>>

InProgress == Cardinality(WriteJobs({"proving", "sending", "sent"})) + Len(txpool)

PostRequest(n, j, q) ==
    /\ q.type # "select" => InProgress < MaxWrites
    /\ Prover!Start(n, j, q) \/ Prover!StartFails(n, j, q)
    /\ UNCHANGED <<chainVars, txpool, seen, crashes>>

Prove(j) ==
    /\ Prover!ProveSelect(j) \/ Prover!ProveFails(j) \/ Prover!ProveWrite(j)
    /\ UNCHANGED <<chainVars, txpool, seen, crashes>>

Succeeds(s) == Contract!ExecSucceeds(s.op, s.args, s.new, s)

Send(j) ==
    /\ Prover!SendOk(j)
    /\ Succeeds(Prover!StatementOf(j))
    /\ txpool' = Append(txpool, Prover!StatementOf(j))
    /\ UNCHANGED <<chainVars, seen, crashes>>

\* The estimate reverts: there is no transaction.
SendReverts(j) ==
    /\ job[j].pc = "sending" /\ ~Succeeds(Prover!StatementOf(j))
    /\ Prover!SendThrows(j)
    /\ UNCHANGED <<chainVars, txpool, seen, crashes>>

\* The RPC node is away, or another process of the wallet took the nonce.
SendFails(j) ==
    /\ "crash" \in WhenQuiet => Quiet
    /\ crashes < MaxCrashes
    /\ crashes' = crashes + 1
    /\ Prover!SendThrows(j)
    /\ UNCHANGED <<chainVars, txpool, seen>>

Finish(j) ==
    /\ Prover!Finish(j)
    /\ UNCHANGED <<chainVars, txpool, seen, crashes>>

Poll(j) ==
    /\ Prover!Poll(j)
    /\ UNCHANGED <<chainVars, txpool, seen, crashes>>

\* The next transaction is mined; it may revert although its estimate did not.
Mine ==
    /\ txpool # <<>>
    /\ LET s == Head(txpool) IN
        \/ Contract!ExecRequest(s.op, s.args, s.new, s)
        \/ ~Succeeds(s) /\ UNCHANGED chainVars
    /\ txpool' = Tail(txpool)
    /\ UNCHANGED <<proverVars, seen, crashes>>

-----------------------------------------------------------------------------
Next ==
    \/ \E t \in Table : UserCreatesTable(t)
    \/ \E q \in Query : UserRequests(q)
    \/ \E n \in Node :
        \/ Boot(n) \/ ListTables(n) \/ Listen(n) \/ BootFails(n)
        \/ Crash(n) \/ PostRefused(n)
        \/ HearRequestPosted(n) \/ HearTableCreated(n) \/ HearTableUpdated(n)
        \/ \E t \in Table : ReadCommitment(n, t) \/ PostCreate(n, t)
        \/ \E j \in Job, q \in Query : PostRequest(n, j, q)
    \/ \E j \in Job :
        Prove(j) \/ Send(j) \/ SendReverts(j) \/ SendFails(j) \/ Finish(j) \/ Poll(j)
    \/ Mine

Spec == Init /\ [][Next]_vars

\* The runtime resumes every handler, pm2 restarts a process that ended, the
\* chain mines and is polled.  Users and crashes owe nothing.
Fairness ==
    /\ \A j \in Job : WF_vars(Prove(j) \/ Send(j) \/ SendReverts(j) \/ Finish(j))
    /\ \A n \in Node :
        /\ WF_vars(Boot(n) \/ ListTables(n) \/ Listen(n) \/ BootFails(n)
                    \/ \E t \in Table : ReadCommitment(n, t))
        /\ WF_vars(HearRequestPosted(n))
        /\ WF_vars(HearTableCreated(n))
        /\ WF_vars(HearTableUpdated(n))
    /\ WF_vars(Mine)

FairSpec == Spec /\ Fairness

-----------------------------------------------------------------------------
\* The commitments the contract has held for a table.
Held(t) ==
    {tableCreated[i].commitment : i \in {k \in 1 .. Len(tableCreated) : tableCreated[k].table = t}}
    \cup
    {tableUpdated[i].commitment : i \in {k \in 1 .. Len(tableUpdated) : tableUpdated[k].table = t}}

Posted == {requestPosted[i] : i \in 1 .. Len(requestPosted)}

\* The arguments posted for a write of a table: at the end of the write, the
\* controller stores their commitment as that of the table.
PostedFor(t) == {q.args : q \in {r \in Query : r.type # "select" /\ r.table = t}} \cap Posted

\* A proof is about the table it is asked about: whatever process made it and
\* whenever, the contents it was made from had a hash that the contract held
\* for that table, or one that a user posted for a write of it.  The
\* commitment reaches the proof through a boot, an event, a POST /create or
\* the end of another write.
ProofsAreAboutCommittedTables ==
    \A j \in Job : job[j].pc \in {"sending", "sent", "ready"} =>
        LET t == job[j].query.table
        IN  Hash[t][job[j].read] \in Held(t) \cup PostedFor(t)

\* The contract held it.  This does not hold: both commitments are hashes of
\* sums, and that of the arguments is stored before the write is mined.
ProofsAreAboutHeldTables ==
    \A j \in Job : job[j].pc \in {"sending", "sent", "ready"} =>
        Hash[job[j].query.table][job[j].read] \in Held(job[j].query.table)

\* With no write in progress, the contract holds the hash of the table the
\* process would run the next query on (tableCommit, src/README.md:13).
StoreMatchesChain ==
    Quiet => \A n \in Node, t \in Table :
        (/\ status[n] = "up"
         /\ Prover!db(n)[t] # Absent
         /\ chainCommitments[t] # 0)
        => Hash[t][Prover!db(n)[t]] = chainCommitments[t]

\* Once it has heard every update, the process proves from the commitment
\* the contract holds (test/ZkSqlContractTest.ts sets it after each write).
CommitmentsCatchUp ==
    Quiet => \A n \in Node, t \in Table :
        (/\ status[n] = "up"
         /\ t \in knownTables[n]
         /\ chainCommitments[t] # 0
         /\ seen[n].updated = Len(tableUpdated))
        => tableCommitments[n][t] = chainCommitments[t]

\* POST /create waits for the table to be committed to on chain (the error
\* of CreateTableController says so), so every table of a process is.
LocalTablesAreCommitted ==
    \A n \in Node, t \in Table :
        status[n] = "up" /\ Prover!db(n)[t] # Absent => chainCommitments[t] # 0

\* The contract behaves as a ledger of hashes on which requested queries run
\* one at a time, whatever the processes do meanwhile: prove from the same
\* contents or from others of the same hash, fail or crash around sending,
\* restart from an old file, send to a table that moved.
Ledger == INSTANCE TableLedger WITH
    Query  <- {q \in Query : q.type # "select"},
    NoHash <- 0,
    ledger <- [t \in Table |-> chainCommitments[t]],
    asked  <- {<<requestsCommitments[a], a>> : a \in
                {b \in Args : requestsCommitments[b] # Unnamed}}

IsALedger == Ledger!Spec

\* A handler never waits forever and never forgets its token: every query that
\* was accepted is answered, unless its process ends or its call of
\* execRequest throws, which nothing catches (RequestController.ts:67).
AcceptedIsAnswered ==
    \A j \in Job : (job[j].pc # "idle") ~>
        (job[j].pc \in {"ready", "failed", "taken", "lost", "thrown"})

\* Every accepted query is answered unless its process ends.  This does not
\* hold, for what throws.
OnlyEndsLoseQueries ==
    \A j \in Job : (job[j].pc # "idle") ~>
        (job[j].pc \in {"ready", "failed", "taken", "lost"})

\* Once POST /create has stored every table of the contract in the cache file,
\* a process that ends comes back and stays: discoverTables finds them all.
ProcessesComeBack ==
    <>[](\A t \in Table : chainCommitments[t] # 0 => Prover!Stored(t))
        => \A n \in Node : <>[](status[n] = "up")
=============================================================================
