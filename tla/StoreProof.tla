----------------------------- MODULE StoreProof -----------------------------
(***************************************************************************)
(* When the table that a process runs queries on is the one the contract   *)
(* holds the commitment of: under conditions that the code does not        *)
(* enforce, named below, for any tables and queries that meet them and any *)
(* number of restarts.                                                     *)
(***************************************************************************)
EXTENDS CommittedTablesProof, TableLedgerProof, FiniteSetTheorems

\* The conditions, with ColumnsAreDistinct and CircuitsAgree of the modules
\* this one extends.  The code gives none of them: two users may create tables
\* of the same columns, and a circuit differs from SQLite on some queries.

\* One process, one write at a time, and in the middle of it no end, no reload
\* and no call of the RPC node that fails.  Nothing queues the writes
\* (RequestController.ts).
OneByOne ==
    /\ P!OneProcess
    /\ MaxWrites <= 1
    /\ {"crash", "refuse"} \subseteq WhenQuiet

IsWrite(q) == q.type # "select"

\* No two writes of different tables have the same arguments: those of an
\* INSERT do not say its table, and those of an UPDATE are a sum (engine.ts).
ArgsNameTables ==
    \A q, r \in Query : IsWrite(q) /\ IsWrite(r) /\ q.args = r.args => q.table = r.table

\* A write that would leave a table without rows changes nothing: of a table
\* without rows the prover takes the commitment of its columns (engine.ts:300),
\* and the circuits that of the header (delete.circom).
WritesLeaveRows ==
    \A q \in Query, c \in Content :
        IsWrite(q) /\ RunSql[q][c] \in NoRows => RunSql[q][c] = c

\* POST /create makes tables that hash to their columns.
NewTablesAreEmpty ==
    \A t \in Table, c \in FirstContent : Hash[t][c] = P!ColumnsCommit(t)

-----------------------------------------------------------------------------
\* The inductive invariant.

Writing == {"proving", "sending", "sent"}
Busy    == WriteJobs(Writing)
Db(n)   == heap[n][Len(heap[n])]
Has(n, t) == status[n] # "down" /\ Db(n)[t] # Absent

Serial ==
    /\ \A j, k \in Busy : j = k
    /\ Len(txpool) <= 1
    /\ txpool # <<>> => WriteJobs({"proving", "sending"}) = {}

\* The last request for the arguments was for the table, as one of the queries.
AskedFor(a, t) ==
    /\ requestsCommitments[a] = t
    /\ \E q \in Query : IsWrite(q) /\ q.args = a /\ q.table = t
Asked(a) == \E t \in Table : AskedFor(a, t)

RequestsWereAsked ==
    /\ \A i \in 1 .. Len(requestPosted) : Asked(requestPosted[i])
    /\ \A n \in Node : \A a \in pendingRequests[n] : Asked(a)
    /\ \A j \in Busy : AskedFor(job[j].query.args, job[j].query.table)

BusyIsUp == ~Quiet => \A n \in Node : status[n] = "up"

\* A table that POST /create has not made is as it was created on chain.
FirstIsOfColumns ==
    \A t \in Table : ~P!Stored(t) => chainCommitments[t] \in {0, P!ColumnsCommit(t)}

\* The commitment of a table once the transaction in the pool is mined.
Due(t) ==
    IF txpool # <<>> /\ requestsCommitments[Head(txpool).args] = t THEN Head(txpool).new
    ELSE chainCommitments[t]

\* A table moves when its statement runs; its transaction is sent next.
DbIsDue ==
    \A n \in Node, t \in Table : Has(n, t) =>
        \/ Hash[t][Db(n)[t]] = Due(t)
        \/ \E j \in WriteJobs({"sending"}) : job[j].query.table = t

\* The table a handler proves about is the one its statement runs on.
HandlersAreInStep ==
    \A j \in WriteJobs({"proving", "sending"}) :
        LET q == job[j].query
            n == job[j].node
        IN  /\ job[j].obj = Len(heap[n])
            /\ job[j].pc = "proving" => Db(n)[q.table] = job[j].read
            /\ job[j].pc = "sending" =>
                /\ Db(n)[q.table] = RunSql[q][job[j].read]
                /\ Hash[q.table][job[j].read] = chainCommitments[q.table]

\* The transaction in the pool will not revert.
PoolIsNext ==
    txpool # <<>> =>
        \E t \in Table : /\ AskedFor(Head(txpool).args, t)
                         /\ Head(txpool).old = chainCommitments[t]
                         /\ P!Stored(t)

\* The file is written at the end of a handler.
FileIsDue ==
    \A t \in Table : P!Stored(t) =>
        Hash[t][cache[t]] = Due(t) \/ WriteJobs({"sending", "sent"}) # {}

Settled ==
    /\ Serial /\ RequestsWereAsked /\ BusyIsUp /\ FirstIsOfColumns
    /\ DbIsDue /\ HandlersAreInStep /\ PoolIsNext /\ FileIsDue

\* What is proved in the other modules.
Known == Inv /\ About /\ TablesAreCommitted /\ P!Durable

-----------------------------------------------------------------------------
\* What is known of the databases and of the handlers of writes.

LEMMA DbType ==
    ASSUME Inv, NEW n \in Node, status[n] # "down"
    PROVE  /\ heap[n] \in Seq(P!Database)
           /\ Len(heap[n]) \in 1 .. Len(heap[n])
           /\ Db(n) \in P!Database
  <1>1. heap[n] \in Seq(P!Database) /\ Len(heap[n]) >= 1
    BY DEF Inv, P!WellFormed, P!TypeOK, P!RunningHasDatabase
  <1>2. Len(heap[n]) \in 1 .. Len(heap[n])
    BY <1>1
  <1>3. QED
    BY <1>1, <1>2, EntryType DEF Db

LEMMA StoredIsThere ==
    ASSUME Known, NEW n \in Node, status[n] # "down", NEW t \in Table
    PROVE  Has(n, t) <=> P!Stored(t)
  BY DEF Known, P!Durable, P!InStep, P!db, Db, Has

LEMMA StoredStays ==
    ASSUME OneByOne, Known, [Next]_vars, NEW t \in Table, P!Stored(t)
    PROVE  P!Stored(t)'
  <1>1. [P!Next]_P!vars
    BY NextStep DEF Known, Step
  <1>2. QED
    BY <1>1, P!NextDurable, QueriesAreRecords, ContentsAreNamed, FunctionsOfContents,
       CacheIsADatabase, BoundsAreNaturals DEF OneByOne, Known, P!QueryType, P!Database

LEMMA StoredHasCommitment ==
    ASSUME Known, NEW t \in Table, P!Stored(t)
    PROVE  chainCommitments[t] # 0
  BY DEF Known, TablesAreCommitted, Somewhere, P!Stored

LEMMA WriteJobType ==
    ASSUME Inv, NEW j \in Busy
    PROVE  /\ j \in Job /\ job[j] \in P!Handler
           /\ job[j].node \in Node /\ job[j].query \in Query /\ IsWrite(job[j].query)
           /\ job[j].query.table \in Table /\ job[j].query.args \in Args
           /\ job[j].read \in Content
  <1>1. j \in Job /\ job[j].pc \in Writing /\ IsWrite(job[j].query)
    BY DEF Busy, WriteJobs, IsWrite
  <1>2. QED
    BY <1>1, HandlerType, QueriesAreRecords DEF Writing

\* A handler of a write runs in a process that is up, on a table it has.
LEMMA WriteJobHasTable ==
    ASSUME Known, Settled, NEW j \in WriteJobs({"proving", "sending"})
    PROVE  Has(job[j].node, job[j].query.table)
  <1>1. job[j].node \in Node /\ job[j].query.table \in Table
    BY WriteJobType DEF Known, WriteJobs, Busy, Writing
  <1>2. /\ status[job[j].node] = "up"
        /\ heap[job[j].node][job[j].obj][job[j].query.table] # Absent
    BY DEF Known, Inv, P!WellFormed, P!HandlersHoldTheirTable, P!Active, WriteJobs
  <1>3. QED
    BY <1>1, <1>2 DEF Settled, HandlersAreInStep, Has, Db

-----------------------------------------------------------------------------
\* Steps that take no part in a write.

\* Handlers of writes end before they run their statement, or go on waiting.
NoNewWrites ==
    /\ \A j \in Job : job'[j].pc \in Writing /\ IsWrite(job'[j].query) => job'[j] = job[j]
    /\ \A j \in Job : job[j].pc \in {"sending", "sent"} /\ IsWrite(job[j].query) =>
            job'[j] = job[j]

SamePool == UNCHANGED <<txpool, chainCommitments, requestsCommitments, requestPosted>>

\* A process only hears of requests that were posted.
HeardWasPosted ==
    \A n \in Node : \A a \in pendingRequests'[n] :
        a \in pendingRequests[n] \/ \E i \in 1 .. Len(requestPosted) : a = requestPosted[i]

LEMMA FewerWrites ==
    ASSUME NoNewWrites, NEW S \in SUBSET Writing
    PROVE  /\ WriteJobs(S)' \subseteq WriteJobs(S)
           /\ \A j \in WriteJobs(S)' : job'[j] = job[j]
           /\ S \subseteq {"sending", "sent"} => WriteJobs(S)' = WriteJobs(S)
  BY DEF NoNewWrites, WriteJobs, IsWrite

\* What is asked for stays so while the contract does.
LEMMA RequestsStay ==
    ASSUME Settled, NoNewWrites, SamePool, HeardWasPosted
    PROVE  RequestsWereAsked'
  <1>1. \A a : Asked(a) => Asked(a)'
    BY DEF SamePool, Asked, AskedFor
  <1>2. (\A i \in 1 .. Len(requestPosted) : Asked(requestPosted[i]))'
    BY DEF SamePool, Settled, RequestsWereAsked, Asked, AskedFor
  <1>3. (\A n \in Node : \A a \in pendingRequests[n] : Asked(a))'
    BY <1>1 DEF HeardWasPosted, Settled, RequestsWereAsked
  <1>4. (\A j \in Busy : AskedFor(job[j].query.args, job[j].query.table))'
    <2>1. \A j \in Busy' : j \in Busy /\ job'[j] = job[j]
      BY FewerWrites DEF Busy
    <2>2. QED
      BY <2>1 DEF Settled, RequestsWereAsked, SamePool, AskedFor
  <1>5. QED
    BY <1>2, <1>3, <1>4 DEF RequestsWereAsked

LEMMA SerialStays ==
    ASSUME Settled, NoNewWrites, SamePool
    PROVE  Serial' /\ (Quiet => Quiet')
  <1>1. Busy' \subseteq Busy /\ WriteJobs({"proving", "sending"})' \subseteq WriteJobs({"proving", "sending"})
    BY FewerWrites DEF Busy, Writing
  <1>2. txpool' = txpool
    BY DEF SamePool
  <1>3. QED
    BY <1>1, <1>2 DEF Settled, Serial, Quiet, Busy, Writing

\* What the contract holds and is about to hold.
LEMMA DueStays ==
    ASSUME Settled, SamePool, UNCHANGED cache
    PROVE  /\ FirstIsOfColumns' /\ PoolIsNext'
           /\ \A t \in Table : Due(t)' = Due(t)
  BY DEF Settled, SamePool, FirstIsOfColumns, PoolIsNext, Due, P!Stored, P!ColumnsCommit,
     AskedFor

\* Steps that leave the databases and the file alone.
LEMMA SettledStays ==
    ASSUME Settled, NoNewWrites, SamePool, HeardWasPosted, UNCHANGED <<heap, cache>>,
           \A n \in Node : status'[n] # "down" => status[n] # "down",
           \A n \in Node : status[n] = "up" => status'[n] = "up"
    PROVE  Settled'
  <1>1. RequestsWereAsked' /\ Serial' /\ (Quiet => Quiet')
    BY RequestsStay, SerialStays
  <1>2. FirstIsOfColumns' /\ PoolIsNext' /\ \A t \in Table : Due(t)' = Due(t)
    BY DueStays
  <1>3. BusyIsUp'
    BY <1>1 DEF Settled, BusyIsUp
  <1>4. WriteJobs({"sending"})' = WriteJobs({"sending"})
    BY FewerWrites DEF Writing
  <1>5. DbIsDue'
    <2> SUFFICES ASSUME NEW n \in Node, NEW t \in Table, Has(n, t)'
                 PROVE  \/ Hash[t][Db(n)'[t]] = Due(t)'
                        \/ \E j \in WriteJobs({"sending"})' : job'[j].query.table = t
      BY DEF DbIsDue
    <2>1. Has(n, t) /\ Db(n)' = Db(n)
      BY DEF Has, Db
    <2>2. \A j \in WriteJobs({"sending"})' : job'[j] = job[j]
      BY FewerWrites DEF Writing
    <2>3. QED
      BY <1>2, <1>4, <2>1, <2>2 DEF Settled, DbIsDue
  <1>6. HandlersAreInStep'
    <2>1. /\ WriteJobs({"proving", "sending"})' \subseteq WriteJobs({"proving", "sending"})
          /\ \A j \in WriteJobs({"proving", "sending"})' : job'[j] = job[j]
      BY FewerWrites DEF Writing
    <2>2. heap' = heap /\ chainCommitments' = chainCommitments
      BY DEF SamePool
    <2>3. HandlersAreInStep
      BY DEF Settled
    <2>4. QED
      BY <2>1, <2>2, <2>3 DEF HandlersAreInStep, Db
  <1>7. FileIsDue'
    <2>1. WriteJobs({"sending", "sent"})' = WriteJobs({"sending", "sent"})
      BY FewerWrites DEF Writing
    <2>2. QED
      BY <1>2, <2>1 DEF Settled, FileIsDue, P!Stored
  <1>8. QED
    BY <1>1, <1>2, <1>3, <1>5, <1>6, <1>7 DEF Settled

\* Steps while no write is in progress, after which a database has what it had
\* or what the file has.
LEMMA QuietSettled ==
    ASSUME Settled, Quiet, NoNewWrites, SamePool, HeardWasPosted, UNCHANGED cache,
           \A n \in Node, t \in Table : Has(n, t)' =>
                \/ P!Stored(t) /\ Db(n)'[t] = cache[t]
                \/ Has(n, t) /\ Db(n)'[t] = Db(n)[t]
    PROVE  Settled'
  <1>1. RequestsWereAsked' /\ Serial' /\ Quiet'
    BY RequestsStay, SerialStays
  <1>2. FirstIsOfColumns' /\ PoolIsNext' /\ \A t \in Table : Due(t)' = Due(t)
    BY DueStays
  <1>3. BusyIsUp' /\ HandlersAreInStep'
    BY <1>1 DEF BusyIsUp, HandlersAreInStep, Quiet, WriteJobs
  <1>4. WriteJobs({"sending"}) = {} /\ WriteJobs({"sending", "sent"}) = {}
    BY DEF Quiet, WriteJobs
  <1>5. \A t \in Table : P!Stored(t) => Hash[t][cache[t]] = Due(t)
    BY <1>4 DEF Settled, FileIsDue
  <1>6. \A n \in Node, t \in Table : Has(n, t) => Hash[t][Db(n)[t]] = Due(t)
    BY <1>4 DEF Settled, DbIsDue
  <1>7. DbIsDue'
    BY <1>2, <1>5, <1>6 DEF DbIsDue
  <1>8. FileIsDue'
    BY <1>2, <1>5 DEF FileIsDue, P!Stored
  <1>9. QED
    BY <1>1, <1>2, <1>3, <1>7, <1>8 DEF Settled

\* What a step leaves alone takes no part in a write.
LEMMA Idles ==
    /\ job' = job => NoNewWrites
    /\ UNCHANGED chainVars /\ txpool' = txpool => SamePool
    /\ pendingRequests' = pendingRequests => HeardWasPosted
  BY DEF NoNewWrites, SamePool, HeardWasPosted, chainVars

-----------------------------------------------------------------------------
\* Starting and stopping processes.

\* A process ends while no write is in progress.
LEMMA StopSettled ==
    ASSUME Known, Settled, Quiet, NEW n \in Node, Prover!Stop(n), UNCHANGED <<chainVars, txpool>>
    PROVE  Settled'
  <1>1. P!TypeOK
    BY DEF Known, Inv, P!WellFormed
  <1>2. NoNewWrites
    <2>1. \A j \in Job : job'[j].pc \in Writing => job'[j] = job[j]
      BY DEF Prover!Stop, Writing
    <2>2. \A j \in Job : job[j].pc \in {"sending", "sent"} /\ IsWrite(job[j].query) => FALSE
      BY DEF Quiet, WriteJobs, IsWrite
    <2>3. QED
      BY <2>1, <2>2 DEF NoNewWrites
  <1>3. SamePool /\ UNCHANGED cache
    BY Idles DEF Prover!Stop
  <1>4. HeardWasPosted
    BY <1>1 DEF Prover!Stop, P!TypeOK, HeardWasPosted
  <1>5. \A m \in Node, t \in Table : Has(m, t)' => Has(m, t) /\ Db(m)'[t] = Db(m)[t]
    BY <1>1 DEF Prover!Stop, P!TypeOK, Has, Db
  <1>6. QED
    BY <1>2, <1>3, <1>4, <1>5, QuietSettled

\* A database is read from the file.
LEMMA LoadSettled ==
    ASSUME Known, Settled, Quiet, NEW n \in Node, Boot(n) \/ PostRefused(n)
    PROVE  Settled'
  <1>1. P!TypeOK
    BY DEF Known, Inv, P!WellFormed
  <1>2. NoNewWrites /\ SamePool /\ HeardWasPosted /\ UNCHANGED cache
    BY Idles DEF Boot, PostRefused, Prover!Boot, Prover!Refuse
  <1>3. Db(n)' = Prover!FromCache
    <2>1. CASE Boot(n)
      <3>1. heap'[n] = <<Prover!FromCache>>
        BY <1>1, <2>1 DEF Boot, Prover!Boot, P!TypeOK
      <3>2. QED
        BY <3>1 DEF Db
    <2>2. CASE PostRefused(n)
      <3>1. heap[n] \in Seq(P!Database)
        BY <1>1 DEF P!TypeOK
      <3>2. heap'[n] = Append(heap[n], Prover!FromCache)
        BY <1>1, <2>2 DEF PostRefused, Prover!Refuse, P!TypeOK
      <3>3. QED
        BY <3>1, <3>2 DEF Db
    <2>3. QED
      BY <2>1, <2>2
  <1>4. \A m \in Node \ {n} : heap'[m] = heap[m] /\ status'[m] = status[m]
    BY <1>1 DEF Boot, PostRefused, Prover!Boot, Prover!Refuse, P!TypeOK
  <1>5. \A t \in Table : Prover!FromCache[t] # Absent =>
            P!Stored(t) /\ Prover!FromCache[t] = cache[t]
    BY DEF Prover!FromCache, Prover!NoTables, P!Stored
  <1>6. ASSUME NEW m \in Node, NEW t \in Table, Has(m, t)'
        PROVE  \/ P!Stored(t) /\ Db(m)'[t] = cache[t]
               \/ Has(m, t) /\ Db(m)'[t] = Db(m)[t]
    <2>1. CASE m = n
      BY <1>3, <1>5, <1>6, <2>1 DEF Has
    <2>2. CASE m # n
      BY <1>4, <1>6, <2>2 DEF Has, Db
    <2>3. QED
      BY <2>1, <2>2
  <1>7. QED
    BY <1>2, <1>6, QuietSettled

\* No process is starting while a write is in progress.
LEMMA StartSettled ==
    ASSUME OneByOne, Known, Settled, NEW n \in Node,
           \/ Boot(n) \/ ListTables(n) \/ Listen(n) \/ BootFails(n) \/ Crash(n)
           \/ \E t \in Table : ReadCommitment(n, t)
    PROVE  Settled'
  <1>1. P!TypeOK
    BY DEF Known, Inv, P!WellFormed
  <1>2. CASE Boot(n)
    <2>1. Quiet
      BY <1>2 DEF Boot, Prover!Boot, Settled, BusyIsUp
    <2>2. QED
      BY <1>2, <2>1, LoadSettled
  <1>3. CASE BootFails(n) \/ Crash(n)
    <2>1. Quiet
      BY <1>3 DEF BootFails, Prover!BootFails, Prover!AllRead, Crash, OneByOne, Settled,
         BusyIsUp
    <2>2. Prover!Stop(n) /\ UNCHANGED <<chainVars, txpool>>
      BY <1>3 DEF BootFails, Prover!BootFails, Crash, Prover!Crash
    <2>3. QED
      BY <2>1, <2>2, StopSettled
  <1>4. CASE ListTables(n) \/ Listen(n) \/ \E t \in Table : ReadCommitment(n, t)
    <2>1. /\ UNCHANGED <<chainVars, txpool, job, heap, cache, pendingRequests>>
          /\ status[n] \in {"loaded", "reading"}
      BY <1>4 DEF ListTables, Listen, ReadCommitment, Prover!ListTables, Prover!Listen,
         Prover!AllRead, Prover!ReadCommitment
    <2>2. \A m \in Node : m # n => status'[m] = status[m]
      BY <1>1, <1>4 DEF ListTables, Listen, ReadCommitment, Prover!ListTables, Prover!Listen,
         Prover!ReadCommitment, P!TypeOK
    <2>3. /\ \A m \in Node : status'[m] # "down" => status[m] # "down"
          /\ \A m \in Node : status[m] = "up" => status'[m] = "up"
      BY <2>1, <2>2
    <2>4. QED
      BY <2>1, <2>3, Idles, SettledStays
  <1>5. QED
    BY <1>2, <1>3, <1>4

\* An event is heard, or nothing happens.
LEMMA HearSettled ==
    ASSUME Known, Settled,
           \/ \E n \in Node : HearRequestPosted(n) \/ HearTableCreated(n) \/ HearTableUpdated(n)
           \/ UNCHANGED vars
    PROVE  Settled'
  <1>1. P!TypeOK
    BY DEF Known, Inv, P!WellFormed
  <1>2. UNCHANGED <<chainVars, txpool, job, status, heap, cache>>
    BY DEF HearRequestPosted, HearTableCreated, HearTableUpdated, Prover!OnRequestPosted,
       Prover!OnTableCreated, Prover!OnTableUpdated, vars, proverVars
  <1>3. HeardWasPosted
    <2>1. ASSUME NEW n \in Node, HearRequestPosted(n)
          PROVE  HeardWasPosted
      <3>1. requestPosted \in Seq(Args) /\ seen[n].posted \in Nat
        BY ContractTypes DEF Known, Inv, SeenIsLogged
      <3>2. seen[n].posted + 1 \in 1 .. Len(requestPosted)
        BY <2>1, <3>1 DEF HearRequestPosted
      <3>3. pendingRequests' = [pendingRequests EXCEPT
                ![n] = @ \cup {requestPosted[seen[n].posted + 1]}]
        BY <2>1 DEF HearRequestPosted, Prover!OnRequestPosted
      <3>4. QED
        BY <1>1, <3>2, <3>3 DEF P!TypeOK, HeardWasPosted
    <2>2. ASSUME NEW n \in Node, HearTableCreated(n) \/ HearTableUpdated(n)
          PROVE  HeardWasPosted
      BY <2>2, Idles DEF HearTableCreated, HearTableUpdated, Prover!OnTableCreated,
         Prover!OnTableUpdated
    <2>3. CASE UNCHANGED vars
      BY <2>3, Idles DEF vars, proverVars
    <2>4. QED
      BY <2>1, <2>2, <2>3
  <1>4. QED
    BY <1>2, <1>3, Idles, SettledStays

-----------------------------------------------------------------------------
\* Users.

\* The table of the transaction in the pool.
LEMMA PoolTable ==
    ASSUME Known, Settled, txpool # <<>>
    PROVE  \E t \in Table :
                /\ requestsCommitments[Head(txpool).args] = t
                /\ AskedFor(Head(txpool).args, t)
                /\ Head(txpool).old = chainCommitments[t]
                /\ P!Stored(t) /\ chainCommitments[t] # 0
                /\ \A u \in Table : Due(u) = IF u = t THEN Head(txpool).new ELSE chainCommitments[u]
  <1>1. PICK t \in Table : /\ AskedFor(Head(txpool).args, t)
                           /\ Head(txpool).old = chainCommitments[t]
                           /\ P!Stored(t)
    BY DEF Settled, PoolIsNext
  <1>2. QED
    BY <1>1, StoredHasCommitment DEF AskedFor, Due

\* A table that is new on chain is nowhere else.
LEMMA CreatesSettled ==
    ASSUME Known, Settled, NEW t \in Table, UserCreatesTable(t)
    PROVE  Settled'
  <1>1. /\ chainCommitments[t] = 0
        /\ chainCommitments' = [chainCommitments EXCEPT ![t] = P!ColumnsCommit(t)]
        /\ UNCHANGED <<status, heap, pendingRequests, job, cache, txpool,
                       requestsCommitments, requestPosted>>
    BY DEF UserCreatesTable, proverVars, Contract!CreateTable, Contract!NoCommitment,
       Prover!ColumnsCommit, P!ColumnsCommit
  <1>2. /\ chainCommitments'[t] = P!ColumnsCommit(t)
        /\ \A u \in Table : u # t => chainCommitments'[u] = chainCommitments[u]
    BY <1>1, ContractTypes DEF Known, Inv
  <1>3. ~P!Stored(t) /\ \A n \in Node : ~Has(n, t)
    BY <1>1, StoredHasCommitment, StoredIsThere DEF Has
  <1>4. \A u \in Table : u # t => Due(u)' = Due(u)
    BY <1>1, <1>2 DEF Due
  <1>5. Serial' /\ RequestsWereAsked' /\ BusyIsUp'
    BY <1>1 DEF Settled, Serial, RequestsWereAsked, BusyIsUp, Quiet, WriteJobs, Busy,
       Asked, AskedFor
  <1>6. FirstIsOfColumns'
    BY <1>1, <1>2 DEF Settled, FirstIsOfColumns, P!Stored, P!ColumnsCommit
  <1>7. DbIsDue'
    <2> SUFFICES ASSUME NEW n \in Node, NEW u \in Table, Has(n, u)'
                 PROVE  \/ Hash[u][Db(n)'[u]] = Due(u)'
                        \/ \E j \in WriteJobs({"sending"})' : job'[j].query.table = u
      BY DEF DbIsDue
    <2>1. Has(n, u) /\ Db(n)' = Db(n)
      BY <1>1 DEF Has, Db
    <2>2. u # t
      BY <1>3, <2>1
    <2>3. QED
      BY <1>1, <1>4, <2>1, <2>2 DEF Settled, DbIsDue, WriteJobs
  <1>8. HandlersAreInStep'
    <2>1. \A j \in WriteJobs({"proving", "sending"}) :
            job[j].query.table \in Table /\ job[j].query.table # t
      <3>1. \A j \in WriteJobs({"proving", "sending"}) : job[j].node \in Node /\ job[j].query.table \in Table
        BY WriteJobType DEF Known, WriteJobs, Busy, Writing
      <3>2. QED
        BY <1>3, <3>1, WriteJobHasTable
    <2>2. QED
      BY <1>1, <1>2, <2>1 DEF Settled, HandlersAreInStep, Db, WriteJobs
  <1>9. PoolIsNext'
    <2>1. ASSUME txpool # <<>>
          PROVE  \E u \in Table : /\ AskedFor(Head(txpool).args, u)
                                  /\ Head(txpool).old = chainCommitments'[u]
                                  /\ P!Stored(u)
      BY <1>1, <1>2, <2>1, PoolTable
    <2>2. QED
      BY <1>1, <2>1 DEF PoolIsNext, AskedFor, P!Stored
  <1>10. FileIsDue'
    BY <1>1, <1>3, <1>4 DEF Settled, FileIsDue, P!Stored, WriteJobs
  <1>11. QED
    BY <1>5, <1>6, <1>7, <1>8, <1>9, <1>10 DEF Settled

\* A request does not take what another query asked for away.
LEMMA RequestsSettled ==
    ASSUME ArgsNameTables, Known, Settled, NEW q \in Query, UserRequests(q)
    PROVE  Settled'
  <1>1. /\ IsWrite(q)
        /\ requestsCommitments' = [requestsCommitments EXCEPT ![q.args] = q.table]
        /\ requestPosted' = Append(requestPosted, q.args)
        /\ UNCHANGED <<status, heap, pendingRequests, job, cache, txpool, chainCommitments>>
    BY DEF UserRequests, proverVars, Contract!Request, IsWrite
  <1>2. /\ requestsCommitments \in [Args -> Table \cup {Unnamed}]
        /\ requestPosted \in Seq(Args)
        /\ q.args \in Args /\ q.table \in Table
    BY ContractTypes, QueriesAreRecords DEF Known, Inv
  <1>3. AskedFor(q.args, q.table)'
    BY <1>1, <1>2 DEF AskedFor
  <1>4. ASSUME NEW a, NEW t, AskedFor(a, t)
        PROVE  AskedFor(a, t)'
    <2>1. CASE a = q.args
      BY <1>1, <1>3, <1>4, <2>1 DEF AskedFor, ArgsNameTables
    <2>2. CASE a # q.args
      BY <1>1, <1>2, <1>4, <2>2 DEF AskedFor
    <2>3. QED
      BY <2>1, <2>2
  <1>5. RequestsWereAsked'
    <2>1. \A a : Asked(a) => Asked(a)'
      BY <1>4 DEF Asked
    <2>2. Asked(q.args)'
      BY <1>2, <1>3 DEF Asked
    <2>3. \A i \in 1 .. Len(requestPosted') : \E a :
            /\ a = requestPosted'[i]
            /\ a = q.args \/ \E k \in 1 .. Len(requestPosted) : a = requestPosted[k]
      BY <1>1, <1>2
    <2>4. (\A i \in 1 .. Len(requestPosted) : Asked(requestPosted[i]))'
      <3> SUFFICES ASSUME NEW i \in 1 .. Len(requestPosted')
                   PROVE  (Asked(requestPosted[i]))'
        OBVIOUS
      <3>1. PICK a : /\ a = requestPosted'[i]
                     /\ a = q.args \/ \E k \in 1 .. Len(requestPosted) : a = requestPosted[k]
        BY <2>3
      <3>2. Asked(a)'
        BY <2>1, <2>2, <3>1 DEF Settled, RequestsWereAsked
      <3>3. QED
        BY <3>1, <3>2 DEF Asked, AskedFor
    <2>5. (\A n \in Node : \A a \in pendingRequests[n] : Asked(a))'
      BY <1>1, <2>1 DEF Settled, RequestsWereAsked
    <2>6. (\A j \in Busy : AskedFor(job[j].query.args, job[j].query.table))'
      <3> SUFFICES ASSUME NEW j \in Busy
                   PROVE  AskedFor(job[j].query.args, job[j].query.table)'
        BY <1>1 DEF Busy, WriteJobs
      <3>1. PICK a, t : a = job[j].query.args /\ t = job[j].query.table
        OBVIOUS
      <3>2. AskedFor(a, t)'
        BY <1>4, <3>1 DEF Settled, RequestsWereAsked
      <3>3. QED
        BY <1>1, <3>1, <3>2 DEF AskedFor
    <2>7. QED
      BY <2>4, <2>5, <2>6 DEF RequestsWereAsked
  <1>6. Serial' /\ BusyIsUp' /\ FirstIsOfColumns' /\ HandlersAreInStep'
    <2>1. Serial' /\ BusyIsUp'
      BY <1>1 DEF Settled, Serial, BusyIsUp, Quiet, WriteJobs, Busy
    <2>2. FirstIsOfColumns'
      BY <1>1 DEF Settled, FirstIsOfColumns, P!Stored, P!ColumnsCommit
    <2>3. HandlersAreInStep'
      BY <1>1 DEF Settled, HandlersAreInStep, WriteJobs, Db
    <2>4. QED
      BY <2>1, <2>2, <2>3
  <1>7. PoolIsNext' /\ \A t \in Table : Due(t)' = Due(t)
    <2>1. CASE txpool = <<>>
      BY <1>1, <2>1 DEF PoolIsNext, Due
    <2>2. CASE txpool # <<>>
      <3>1. PICK t \in Table : \E a :
                /\ a = Head(txpool).args /\ requestsCommitments[a] = t
                /\ AskedFor(a, t) /\ Head(txpool).old = chainCommitments[t]
                /\ P!Stored(t)
        BY <2>2, PoolTable
      <3>2. PICK a : /\ a = Head(txpool).args /\ requestsCommitments[a] = t
                     /\ AskedFor(a, t) /\ AskedFor(a, t)'
        BY <1>4, <3>1
      <3>3. QED
        BY <1>1, <3>1, <3>2 DEF PoolIsNext, Due, AskedFor, P!Stored
    <2>3. QED
      BY <2>1, <2>2
  <1>8. DbIsDue' /\ FileIsDue'
    BY <1>1, <1>7 DEF Settled, DbIsDue, FileIsDue, Has, Db, WriteJobs, P!Stored
  <1>9. QED
    BY <1>5, <1>6, <1>7, <1>8 DEF Settled

-----------------------------------------------------------------------------
\* POST /create.

\* A new table is as its commitment on chain, which no transaction is about.
LEMMA CreateSettled ==
    ASSUME OneByOne, ColumnsAreDistinct, NewTablesAreEmpty, Known, Settled, [Next]_vars,
           NEW n \in Node, NEW t \in Table, PostCreate(n, t)
    PROVE  Settled'
  <1>1. PICK c \in FirstContent : Prover!CreateTable(n, t, c)
    BY DEF PostCreate
  <1> DEFINE made == [Db(n) EXCEPT ![t] = c]
  <1>2. /\ status[n] = "up" /\ P!IsPending(n, t) /\ Db(n)[t] = Absent
        /\ heap' = [heap EXCEPT ![n][Len(heap[n])] = made]
        /\ cache' = made
        /\ UNCHANGED <<status, pendingRequests, job>>
    BY <1>1 DEF Prover!CreateTable, Prover!IsPending, P!IsPending, Prover!ColumnsCommit,
       P!ColumnsCommit, Prover!db, Db, Prover!writeDB
  <1>3. /\ UNCHANGED <<chainVars, txpool>>
        /\ UNCHANGED <<chainCommitments, requestsCommitments, requestPosted>>
    BY DEF PostCreate, chainVars
  <1>4. /\ heap[n] \in Seq(P!Database) /\ Db(n) \in P!Database
        /\ Len(heap[n]) \in 1 .. Len(heap[n])
    BY <1>2, DbType DEF Known
  <1>5. made[t] = c /\ \A u \in Table : u # t => made[u] = Db(n)[u]
    BY <1>4 DEF P!Database
  <1> HIDE DEF made
  <1>6. heap \in [Node -> Seq(P!Database)]
    BY DEF Known, Inv, P!WellFormed, P!TypeOK
  <1>7. heap'[n] = [heap[n] EXCEPT ![Len(heap[n])] = made]
    BY <1>2, <1>6
  <1>8. Db(n)' = made /\ Len(heap'[n]) = Len(heap[n])
    BY <1>4, <1>7 DEF Db
  <1>9. \A m \in Node : m = n
    BY DEF OneByOne, P!OneProcess
  <1>10. ~P!Stored(t)
    BY <1>2, StoredIsThere DEF Has
  <1>11. chainCommitments[t] = Hash[t][c] /\ Due(t) = Hash[t][c]
    <2>1. chainCommitments[t] # 0
      BY <1>2, PendingIsCreated DEF Known, About
    <2>2. chainCommitments[t] = Hash[t][c]
      BY <1>10, <2>1 DEF Settled, FirstIsOfColumns, NewTablesAreEmpty
    <2>3. txpool # <<>> => requestsCommitments[Head(txpool).args] # t
      BY <1>10, PoolTable
    <2>4. QED
      BY <2>2, <2>3 DEF Due
  <1>12. /\ NoNewWrites /\ SamePool /\ HeardWasPosted
         /\ \A S \in SUBSET Writing : WriteJobs(S)' = WriteJobs(S)
    BY <1>2, <1>3, Idles DEF WriteJobs
  <1>13. RequestsWereAsked' /\ Serial' /\ (Quiet => Quiet')
    BY <1>12, RequestsStay, SerialStays
  <1>14. \A u \in Table : P!Stored(u) => P!Stored(u)'
    BY StoredStays
  <1>15. BusyIsUp' /\ FirstIsOfColumns' /\ PoolIsNext'
    BY <1>2, <1>3, <1>13, <1>14 DEF Settled, BusyIsUp, FirstIsOfColumns, PoolIsNext, AskedFor,
       P!ColumnsCommit
  <1>16. \A u \in Table : Due(u)' = Due(u)
    BY <1>3 DEF Due
  <1>17. /\ WriteJobs({"sending"})' = WriteJobs({"sending"})
         /\ WriteJobs({"sending", "sent"})' = WriteJobs({"sending", "sent"})
         /\ WriteJobs({"proving", "sending"})' = WriteJobs({"proving", "sending"})
    BY <1>12 DEF Writing
  <1>18. \A u \in Table : made[u] # Absent =>
            \/ Hash[u][made[u]] = Due(u)
            \/ \E j \in WriteJobs({"sending"}) : job[j].query.table = u
    BY <1>2, <1>5, <1>11 DEF Settled, DbIsDue, Has
  <1>19. DbIsDue'
    BY <1>2, <1>8, <1>9, <1>16, <1>17, <1>18 DEF DbIsDue, Has
  <1>20. FileIsDue'
    <2>1. \A u \in Table : P!Stored(u)' => made[u] # Absent
      BY <1>2 DEF P!Stored
    <2>2. WriteJobs({"sending"}) \subseteq WriteJobs({"sending", "sent"})
      BY DEF WriteJobs
    <2>3. QED
      BY <1>2, <1>16, <1>17, <1>18, <2>1, <2>2 DEF FileIsDue
  <1>21. HandlersAreInStep'
    <2> SUFFICES ASSUME NEW j \in WriteJobs({"proving", "sending"})
                 PROVE  /\ job[j].obj = Len(heap'[job[j].node])
                        /\ Db(job[j].node)'[job[j].query.table] = Db(job[j].node)[job[j].query.table]
      BY <1>2, <1>3, <1>17 DEF Settled, HandlersAreInStep, Db
    <2>1. job[j].node = n /\ job[j].query.table \in Table
      BY <1>9, WriteJobType DEF Known, WriteJobs, Busy, Writing
    <2>2. job[j].query.table # t
      BY <1>2, <2>1, WriteJobHasTable DEF Has
    <2>3. job[j].obj = Len(heap[n])
      BY <2>1 DEF Settled, HandlersAreInStep
    <2>4. QED
      BY <1>2, <1>5, <1>8, <2>1, <2>2, <2>3 DEF Db
  <1>22. QED
    BY <1>13, <1>15, <1>19, <1>20, <1>21 DEF Settled

-----------------------------------------------------------------------------
\* POST /request.

\* There is no write while one may begin.
LEMMA NoneInProgress ==
    ASSUME OneByOne, Known, Settled, InProgress < MaxWrites
    PROVE  Busy = {} /\ Quiet
  <1>1. Len(txpool) \in Nat /\ MaxWrites \in Nat
    BY BoundsAreNaturals DEF Known, Inv
  <1>2. \A j \in Busy : Busy = {j}
    BY DEF Settled, Serial
  <1>3. Cardinality(Busy) + Len(txpool) < 1
    <2>1. Busy = {} \/ \E j : Busy = {j}
      BY <1>2
    <2>2. Cardinality(Busy) \in Nat
      <3>1. CASE Busy = {}
        BY <3>1, FS_EmptySet
      <3>2. ASSUME NEW j, Busy = {j}
            PROVE  Cardinality(Busy) = 1
        BY <3>2, FS_Singleton
      <3>3. QED
        BY <2>1, <3>1, <3>2
    <2>3. Cardinality(Busy) + Len(txpool) < MaxWrites
      BY DEF InProgress, Busy, Writing
    <2>4. QED
      BY <1>1, <2>2, <2>3 DEF OneByOne
  <1>4. Busy = {}
    <2> SUFFICES ASSUME NEW j \in Busy
                 PROVE  FALSE
      OBVIOUS
    <2>1. Cardinality(Busy) = 1
      BY <1>2, FS_Singleton
    <2>2. QED
      BY <1>1, <1>3, <2>1
  <1>5. txpool = <<>>
    <2>1. Cardinality(Busy) = 0
      BY <1>4, FS_EmptySet
    <2>2. Len(txpool) = 0
      BY <1>1, <1>3, <2>1
    <2>3. QED
      BY <2>2 DEF Known, Inv
  <1>6. QED
    BY <1>4, <1>5 DEF Quiet, Busy, Writing

\* A write that begins is the only one, and proves about the current table.
LEMMA WriteBegins ==
    ASSUME OneByOne, ArgsNameTables, Known, Settled, NEW n \in Node, NEW j \in Job,
           NEW q \in Query, IsWrite(q), Busy = {}, Quiet, Prover!Start(n, j, q),
           UNCHANGED <<chainVars, txpool>>
    PROVE  Settled'
  <1>1. /\ status[n] = "up" /\ q.args \in pendingRequests[n]
        /\ UNCHANGED <<status, heap, pendingRequests, cache>>
    BY DEF Prover!Start, Prover!MayStart, Prover!nodeVars, IsWrite
  <1>2. UNCHANGED <<chainCommitments, requestsCommitments, requestPosted>>
    BY DEF chainVars
  <1> DEFINE h == [pc |-> "proving", node |-> n, query |-> q, obj |-> Len(heap[n]),
                   read |-> Db(n)[q.table], commit |-> tableCommitments[n][q.table]]
  <1>3. job'[j] = h /\ \A k \in Job : k # j => job'[k] = job[k]
    BY DEF Known, Inv, P!WellFormed, P!TypeOK, Prover!Start, Prover!db, Db
  <1>4. /\ h.pc = "proving" /\ h.node = n /\ h.query = q /\ h.obj = Len(heap[n])
        /\ h.read = Db(n)[q.table]
    OBVIOUS
  <1> HIDE DEF h
  <1>5. /\ WriteJobs({"sending"})' = {} /\ WriteJobs({"sending", "sent"})' = {}
        /\ Busy' \subseteq {j} /\ WriteJobs({"proving", "sending"})' \subseteq {j}
    BY <1>3, <1>4 DEF Busy, WriteJobs, Writing
  <1>6. WriteJobs({"sending"}) = {} /\ WriteJobs({"sending", "sent"}) = {} /\ txpool = <<>>
    BY DEF Quiet, WriteJobs
  <1>7. Serial' /\ PoolIsNext'
    BY <1>5, <1>6 DEF Serial, PoolIsNext
  <1>8. AskedFor(q.args, q.table)
    <2>1. \E t \in Table : AskedFor(q.args, t)
      BY <1>1 DEF Settled, RequestsWereAsked, Asked
    <2>2. QED
      BY <2>1 DEF AskedFor, ArgsNameTables
  <1>9. RequestsWereAsked'
    <2>1. \A a : Asked(a) => Asked(a)'
      BY <1>2 DEF Asked, AskedFor
    <2>2. (\A i \in 1 .. Len(requestPosted) : Asked(requestPosted[i]))'
      BY <1>2 DEF Settled, RequestsWereAsked, Asked, AskedFor
    <2>3. (\A m \in Node : \A a \in pendingRequests[m] : Asked(a))'
      BY <1>1, <2>1 DEF Settled, RequestsWereAsked
    <2>4. (\A k \in Busy : AskedFor(job[k].query.args, job[k].query.table))'
      BY <1>2, <1>3, <1>4, <1>5, <1>8 DEF AskedFor
    <2>5. QED
      BY <2>2, <2>3, <2>4 DEF RequestsWereAsked
  <1>10. BusyIsUp'
    BY <1>1 DEF BusyIsUp, OneByOne, P!OneProcess
  <1>11. FirstIsOfColumns' /\ \A t \in Table : Due(t)' = Due(t)
    BY <1>1, <1>2 DEF Settled, FirstIsOfColumns, P!Stored, P!ColumnsCommit, Due
  <1>12. DbIsDue' /\ FileIsDue'
    BY <1>1, <1>5, <1>6, <1>11 DEF Settled, DbIsDue, FileIsDue, Has, Db, P!Stored
  <1>13. HandlersAreInStep'
    BY <1>1, <1>3, <1>4, <1>5 DEF HandlersAreInStep, Db
  <1>14. QED
    BY <1>7, <1>9, <1>10, <1>11, <1>12, <1>13 DEF Settled

LEMMA CallSettled ==
    ASSUME OneByOne, ColumnsAreDistinct, ArgsNameTables, NewTablesAreEmpty,
           Known, Settled, [Next]_vars, NEW n \in Node,
           \/ \E t \in Table : PostCreate(n, t)
           \/ PostRefused(n)
           \/ \E j \in Job, q \in Query : PostRequest(n, j, q)
    PROVE  Settled'
  <1>1. CASE \E t \in Table : PostCreate(n, t)
    BY <1>1, CreateSettled
  <1>2. CASE PostRefused(n)
    <2>1. Quiet
      BY <1>2 DEF PostRefused, OneByOne
    <2>2. QED
      BY <1>2, <2>1, LoadSettled
  <1>3. ASSUME NEW j \in Job, NEW q \in Query, PostRequest(n, j, q)
        PROVE  Settled'
    <2>1. CASE IsWrite(q) /\ Prover!Start(n, j, q)
      BY <1>3, <2>1, NoneInProgress, WriteBegins DEF PostRequest, IsWrite
    <2>2. CASE (~IsWrite(q) /\ Prover!Start(n, j, q)) \/ Prover!StartFails(n, j, q)
      <3>1. /\ UNCHANGED <<status, heap, pendingRequests, cache>>
            /\ SamePool /\ HeardWasPosted
            /\ job[j] = Prover!Idle
        BY <1>3, <2>2, Idles DEF PostRequest, Prover!Start, Prover!StartFails, Prover!MayStart,
           Prover!nodeVars
      <3>2. PICK h : job' = [job EXCEPT ![j] = h] /\ (h.pc = "failed" \/ ~IsWrite(h.query))
        <4> DEFINE H(pc, read) ==
                      [pc |-> pc, node |-> n, query |-> q, obj |-> Len(heap[n]),
                       read |-> read, commit |-> tableCommitments[n][q.table]]
        <4>1. PICK pc, read : job' = [job EXCEPT ![j] = H(pc, read)] /\ (pc = "failed" \/ ~IsWrite(q))
          BY <2>2 DEF Prover!Start, Prover!StartFails
        <4>2. H(pc, read).pc = pc /\ H(pc, read).query = q
          OBVIOUS
        <4> HIDE DEF H
        <4>3. QED
          BY <4>1, <4>2
      <3>3. job'[j] = h /\ \A k \in Job : k # j => job'[k] = job[k]
        BY <3>2 DEF Known, Inv, P!WellFormed, P!TypeOK
      <3>4. NoNewWrites
        BY <3>1, <3>2, <3>3 DEF NoNewWrites, Prover!Idle, Writing
      <3>5. QED
        BY <3>1, <3>4, SettledStays
    <2>3. QED
      BY <1>3, <2>1, <2>2 DEF PostRequest
  <1>4. QED
    BY <1>1, <1>2, <1>3

-----------------------------------------------------------------------------
\* The handlers.

\* The handler of a write that is under way is the only one.
LEMMA OnlyWrite ==
    ASSUME Known, Settled, NEW j \in Job, IsWrite(job[j].query)
    PROVE  /\ job[j].pc \in Writing => Busy = {j}
           /\ job[j].pc \in {"proving", "sending"} =>
                WriteJobs({"proving", "sending"}) = {j} /\ txpool = <<>>
           /\ job[j].pc = "proving" =>
                WriteJobs({"sending"}) = {} /\ WriteJobs({"sending", "sent"}) = {}
           /\ job[j].pc = "sending" => WriteJobs({"sending"}) = {j}
           /\ job[j].pc = "sent" => WriteJobs({"proving", "sending"}) = {} /\ WriteJobs({"sending"}) = {}
  <1>1. job[j].pc \in Writing => Busy = {j}
    BY DEF Settled, Serial, Busy, WriteJobs, IsWrite
  <1>2. \A S \in SUBSET Writing : WriteJobs(S) = {k \in Busy : job[k].pc \in S}
    BY DEF Busy, WriteJobs, Writing
  <1>3. /\ WriteJobs({"proving", "sending"}) = {k \in Busy : job[k].pc \in {"proving", "sending"}}
        /\ WriteJobs({"sending"}) = {k \in Busy : job[k].pc \in {"sending"}}
        /\ WriteJobs({"sending", "sent"}) = {k \in Busy : job[k].pc \in {"sending", "sent"}}
    BY <1>2 DEF Writing
  <1>4. WriteJobs({"proving", "sending"}) # {} => txpool = <<>>
    BY DEF Settled, Serial
  <1>5. QED
    BY <1>1, <1>3, <1>4 DEF Writing

\* What a handler that answers becomes.
LEMMA Answered ==
    ASSUME Known, NEW j \in Job, job[j].pc \notin {"idle", "taken", "lost"}, NEW pc,
           Prover!Answer(j, pc)
    PROVE  /\ job'[j].pc = pc /\ job'[j].node = job[j].node /\ job'[j].query = job[j].query
           /\ job'[j].obj = job[j].obj /\ job'[j].read = job[j].read
           /\ \A k \in Job : k # j => job'[k] = job[k]
  BY HandlerType DEF Known, Inv, P!WellFormed, P!TypeOK, P!Handler, Prover!Answer

\* A handler that stops before its statement, or that has ended.
LEMMA EndsSettled ==
    ASSUME Known, Settled, NEW j \in Job, NEW pc \in {"ready", "failed"},
           job[j].pc = "proving", Prover!Answer(j, pc),
           UNCHANGED <<chainVars, txpool, status, heap, pendingRequests, cache>>
    PROVE  Settled'
  <1>1. job'[j].pc = pc /\ \A k \in Job : k # j => job'[k] = job[k]
    BY Answered
  <1>2. NoNewWrites
    BY <1>1 DEF NoNewWrites, Writing
  <1>3. QED
    BY <1>2, Idles, SettledStays

\* The statement of a write runs on the table the proof is about.
LEMMA ProveWriteSettled ==
    ASSUME OneByOne, WritesLeaveRows, Known, Settled, NEW j \in Job, Prover!ProveWrite(j),
           UNCHANGED <<chainVars, txpool>>
    PROVE  Settled'
  <1>1. /\ job[j].pc = "proving" /\ IsWrite(job[j].query)
        /\ j \in Busy /\ j \in WriteJobs({"proving", "sending"})
    BY DEF Prover!ProveWrite, IsWrite, Busy, WriteJobs, Writing
  <1>2. PICK n \in Node, q \in Query, t \in Table, read \in Content :
            /\ n = job[j].node /\ q = job[j].query /\ t = q.table /\ read = job[j].read
    BY <1>1, WriteJobType, QueriesAreRecords DEF Known
  <1> DEFINE new == RunSql[q][read]
             pc  == IF new \in NoRows THEN "failed" ELSE "sending"
  <1>3. /\ job[j].obj = Len(heap[n]) /\ Db(n)[t] = read /\ Has(n, t)
    BY <1>1, <1>2, WriteJobHasTable DEF Settled, HandlersAreInStep
  <1>4. /\ heap[n] \in Seq(P!Database) /\ Db(n) \in P!Database
        /\ Len(heap[n]) \in 1 .. Len(heap[n])
    BY <1>2, <1>3, DbType DEF Known, Has
  <1>5. /\ heap' = [heap EXCEPT ![n][Len(heap[n])][t] = new]
        /\ Prover!Answer(j, pc)
        /\ UNCHANGED <<status, pendingRequests, cache>>
    BY <1>2, <1>3 DEF Prover!ProveWrite, Db
  <1>6. UNCHANGED <<chainCommitments, requestsCommitments, requestPosted, txpool>>
    BY DEF chainVars
  <1>7. heap \in [Node -> Seq(P!Database)]
    BY DEF Known, Inv, P!WellFormed, P!TypeOK
  <1> DEFINE made == [Db(n) EXCEPT ![t] = new]
  <1>8. made[t] = new /\ \A u \in Table : u # t => made[u] = Db(n)[u]
    BY <1>2, <1>4 DEF P!Database
  <1>9. heap' = [heap EXCEPT ![n] = [heap[n] EXCEPT ![Len(heap[n])] = made]]
    BY <1>5 DEF Db
  <1>10. CASE new \in NoRows
    <2>1. new = read
      BY <1>1, <1>2, <1>10 DEF WritesLeaveRows
    <2>2. made = Db(n)
      BY <1>3, <1>4, <2>1 DEF P!Database
    <2>3. [heap[n] EXCEPT ![Len(heap[n])] = made] = heap[n]
      BY <1>4, <2>2 DEF Db
    <2>4. heap' = heap
      BY <1>7, <1>9, <2>3
    <2>5. QED
      BY <1>1, <1>5, <1>10, <2>4, EndsSettled
  <1>11. CASE new \notin NoRows
    <2>1. /\ job'[j].pc = "sending" /\ job'[j].node = n /\ job'[j].query = q
          /\ job'[j].obj = job[j].obj /\ job'[j].read = read
          /\ \A k \in Job : k # j => job'[k] = job[k]
      BY <1>1, <1>2, <1>5, <1>11, Answered
    <2>2. /\ Busy = {j} /\ txpool = <<>>
          /\ WriteJobs({"sending"}) = {} /\ WriteJobs({"sending", "sent"}) = {}
          /\ WriteJobs({"proving", "sending"}) = {j}
      BY <1>1, OnlyWrite DEF Writing
    <2>3. /\ Busy' = {j} /\ WriteJobs({"proving", "sending"})' = {j}
          /\ WriteJobs({"sending"})' = {j} /\ WriteJobs({"sending", "sent"})' = {j}
      BY <1>1, <1>2, <2>1, <2>2 DEF Busy, WriteJobs, Writing, IsWrite
    <2> HIDE DEF made, new, pc
    <2>4. heap'[n] = [heap[n] EXCEPT ![Len(heap[n])] = made]
      BY <1>2, <1>7, <1>9
    <2>5. Db(n)' = made /\ Len(heap'[n]) = Len(heap[n])
      BY <1>4, <2>4 DEF Db
    <2>6. \A m \in Node : m = n
      BY <1>2 DEF OneByOne, P!OneProcess
    <2>7. \A u \in Table : Due(u) = chainCommitments[u] /\ Due(u)' = chainCommitments[u]
      BY <1>6, <2>2 DEF Due
    <2>8. Hash[t][read] = chainCommitments[t]
      BY <1>2, <1>3, <2>2, <2>7 DEF Settled, DbIsDue
    <2>9. Serial' /\ PoolIsNext' /\ FileIsDue'
      BY <1>6, <2>2, <2>3 DEF Serial, PoolIsNext, FileIsDue
    <2>10. BusyIsUp'
      <3>1. ~Quiet
        BY <1>1 DEF Quiet, Busy, Writing
      <3>2. QED
        BY <1>5, <3>1 DEF Settled, BusyIsUp
    <2>11. FirstIsOfColumns'
      BY <1>5, <1>6 DEF Settled, FirstIsOfColumns, P!Stored, P!ColumnsCommit
    <2>12. RequestsWereAsked'
      <3>1. (\A i \in 1 .. Len(requestPosted) : Asked(requestPosted[i]))'
        BY <1>6 DEF Settled, RequestsWereAsked, Asked, AskedFor
      <3>2. (\A m \in Node : \A a \in pendingRequests[m] : Asked(a))'
        BY <1>5, <1>6 DEF Settled, RequestsWereAsked, Asked, AskedFor
      <3>3. (\A k \in Busy : AskedFor(job[k].query.args, job[k].query.table))'
        BY <1>1, <1>2, <1>6, <2>1, <2>3 DEF Settled, RequestsWereAsked, AskedFor
      <3>4. QED
        BY <3>1, <3>2, <3>3 DEF RequestsWereAsked
    <2>13. DbIsDue'
      <3> SUFFICES ASSUME NEW m \in Node, NEW u \in Table, Has(m, u)', u # t
                   PROVE  Hash[u][Db(m)'[u]] = Due(u)'
        BY <1>2, <2>1, <2>3 DEF DbIsDue
      <3>1. m = n /\ Db(m)'[u] = Db(n)[u] /\ Has(n, u)
        BY <1>5, <1>8, <2>5, <2>6 DEF Has
      <3>2. QED
        BY <2>2, <2>7, <3>1 DEF Settled, DbIsDue
    <2>14. HandlersAreInStep'
      <3> SUFFICES /\ job'[j].obj = Len(heap'[n])
                   /\ Db(n)'[t] = RunSql[q][read]
                   /\ Hash[t][read] = chainCommitments[t]
        BY <1>2, <1>6, <2>1, <2>3 DEF HandlersAreInStep, Db
      <3>1. QED
        BY <1>3, <1>8, <2>1, <2>5, <2>8 DEF new
    <2>15. QED
      BY <2>9, <2>10, <2>11, <2>12, <2>13, <2>14 DEF Settled
  <1>12. QED
    BY <1>10, <1>11

\* What is asked for stays so while no write begins and the contract is as it was.
LEMMA RequestsGoOn ==
    ASSUME Settled, UNCHANGED <<requestsCommitments, requestPosted, pendingRequests>>,
           \A k \in Busy' : k \in Busy /\ job'[k].query = job[k].query
    PROVE  RequestsWereAsked'
  <1>1. (\A i \in 1 .. Len(requestPosted) : Asked(requestPosted[i]))'
    BY DEF Settled, RequestsWereAsked, Asked, AskedFor
  <1>2. (\A m \in Node : \A a \in pendingRequests[m] : Asked(a))'
    BY DEF Settled, RequestsWereAsked, Asked, AskedFor
  <1>3. (\A k \in Busy : AskedFor(job[k].query.args, job[k].query.table))'
    BY DEF Settled, RequestsWereAsked, AskedFor
  <1>4. QED
    BY <1>1, <1>2, <1>3 DEF RequestsWereAsked

\* What the handler of a write sends is about the table it has changed.
LEMMA Sends ==
    ASSUME CircuitsAgree, Known, Settled, NEW j \in Job, job[j].pc = "sending"
    PROVE  \E q \in Query, n \in Node, t \in Table :
             /\ q = job[j].query /\ n = job[j].node /\ t = q.table /\ IsWrite(q)
             /\ Prover!StatementOf(j) \in Provable
             /\ Prover!StatementOf(j).args = q.args
             /\ Prover!StatementOf(j).old = chainCommitments[t]
             /\ Prover!StatementOf(j).new = Hash[t][Db(n)[t]]
             /\ AskedFor(q.args, t) /\ requestsCommitments[q.args] = t
             /\ Has(n, t) /\ P!Stored(t)
  <1>1. IsWrite(job[j].query) /\ P!Satisfied(j)
    BY DEF Known, Inv, SendingIsProved, IsWrite
  <1>2. j \in Busy /\ j \in WriteJobs({"proving", "sending"})
    BY <1>1 DEF Busy, WriteJobs, Writing, IsWrite
  <1>3. PICK q \in Query, n \in Node, t \in Table, read \in Content :
            /\ q = job[j].query /\ n = job[j].node /\ t = q.table /\ read = job[j].read
    BY <1>2, WriteJobType DEF Known
  <1>4. /\ Db(n)[t] = RunSql[q][read] /\ Hash[t][read] = chainCommitments[t]
    BY <1>2, <1>3 DEF Settled, HandlersAreInStep
  <1>5. Prover!StatementOf(j).old = chainCommitments[t]
    BY <1>1, <1>3, <1>4 DEF Prover!StatementOf, P!Satisfied
  <1>6. Prover!StatementOf(j).new = Hash[t][Db(n)[t]]
    BY <1>1, <1>3, <1>4 DEF Prover!StatementOf, CircuitsAgree, IsWrite
  <1>7. AskedFor(q.args, t)
    BY <1>2, <1>3 DEF Settled, RequestsWereAsked
  <1>8. Has(n, t) /\ P!Stored(t)
    BY <1>2, <1>3, WriteJobHasTable, StoredIsThere DEF Has
  <1>9. Prover!StatementOf(j).args = q.args /\ Prover!StatementOf(j) \in Provable
    BY <1>3, SentIsProvable DEF Known, Prover!StatementOf
  <1>10. QED
    BY <1>1, <1>3, <1>5, <1>6, <1>7, <1>8, <1>9 DEF AskedFor

\* So its transaction is estimated to succeed.
LEMMA NoneReverts ==
    ASSUME CircuitsAgree, Known, Settled, NEW j \in Job, SendReverts(j)
    PROVE  FALSE
  <1> DEFINE s == Prover!StatementOf(j)
  <1>1. /\ s \in Provable
        /\ chainCommitments[requestsCommitments[s.args]] = s.old
    BY Sends DEF SendReverts
  <1>2. s = [op |-> s.op, new |-> s.new, old |-> s.old, args |-> s.args]
    BY <1>1 DEF Provable
  <1> HIDE DEF s
  <1>3. Succeeds(s)
    BY <1>1, <1>2 DEF Succeeds, Contract!ExecSucceeds, Contract!VerifyProof
  <1>4. QED
    BY <1>3 DEF SendReverts, s

\* The call of the RPC node does not fail in the middle of a write.
LEMMA NoneFails ==
    ASSUME OneByOne, Known, NEW j \in Job, SendFails(j)
    PROVE  FALSE
  <1>1. job[j].pc = "sending" /\ Quiet
    BY DEF SendFails, Prover!SendThrows, OneByOne
  <1>2. IsWrite(job[j].query)
    BY <1>1 DEF Known, About, ProvedFromHeld, Proved, IsWrite
  <1>3. QED
    BY <1>1, <1>2 DEF Quiet, WriteJobs, IsWrite

\* The transaction is sent.
LEMMA SendSettled ==
    ASSUME OneByOne, CircuitsAgree, Known, Settled, NEW j \in Job, Send(j)
    PROVE  Settled'
  <1>1. /\ job[j].pc = "sending" /\ Prover!Answer(j, "sent")
        /\ UNCHANGED <<status, heap, pendingRequests, cache, chainCommitments,
                       requestsCommitments, requestPosted>>
        /\ txpool' = Append(txpool, Prover!StatementOf(j))
    BY DEF Send, Prover!SendOk, Prover!nodeVars, chainVars
  <1>2. PICK q \in Query, n \in Node, t \in Table, s \in Provable :
             /\ q = job[j].query /\ n = job[j].node /\ t = q.table /\ IsWrite(q)
             /\ s = Prover!StatementOf(j) /\ s.args = q.args
             /\ s.old = chainCommitments[t] /\ s.new = Hash[t][Db(n)[t]]
             /\ AskedFor(q.args, t) /\ requestsCommitments[q.args] = t
             /\ Has(n, t) /\ P!Stored(t)
    BY <1>1, Sends
  <1>3. Busy = {j} /\ WriteJobs({"sending"}) = {j} /\ txpool = <<>>
    BY <1>1, <1>2, OnlyWrite DEF Writing
  <1>4. /\ job'[j].pc = "sent" /\ job'[j].query = q
        /\ \A k \in Job : k # j => job'[k] = job[k]
    BY <1>1, <1>2, Answered
  <1>5. /\ Busy' = {j} /\ WriteJobs({"proving", "sending"})' = {}
        /\ WriteJobs({"sending"})' = {} /\ WriteJobs({"sending", "sent"})' = {j}
    <2>1. \A k \in Job : k # j => k \notin Busy
      BY <1>3
    <2>2. \A k \in Job : job'[k].pc \in Writing /\ IsWrite(job'[k].query) => k = j
      BY <1>4, <2>1 DEF Busy, WriteJobs, IsWrite
    <2>3. job'[j].pc = "sent" /\ IsWrite(job'[j].query)
      BY <1>2, <1>4
    <2>4. Busy' = {j}
      BY <2>2, <2>3 DEF Busy, WriteJobs, Writing, IsWrite
    <2>5. WriteJobs({"proving", "sending"})' = {} /\ WriteJobs({"sending"})' = {}
      BY <2>2, <2>3 DEF WriteJobs, Writing, IsWrite
    <2>6. WriteJobs({"sending", "sent"})' = {j}
      BY <2>2, <2>3 DEF WriteJobs, Writing, IsWrite
    <2>7. QED
      BY <2>4, <2>5, <2>6
  <1>6. txpool' = <<s>> /\ Len(txpool') = 1 /\ Head(txpool') = s
    BY <1>1, <1>2, <1>3
  <1>7. Serial' /\ HandlersAreInStep' /\ FileIsDue'
    BY <1>5, <1>6 DEF Serial, HandlersAreInStep, FileIsDue
  <1>8. RequestsWereAsked'
    BY <1>1, <1>2, <1>3, <1>4, <1>5, RequestsGoOn
  <1>9. BusyIsUp'
    <2>1. ~Quiet
      BY <1>3 DEF Quiet, Busy, Writing
    <2>2. QED
      BY <1>1, <2>1 DEF Settled, BusyIsUp
  <1>10. FirstIsOfColumns'
    BY <1>1 DEF Settled, FirstIsOfColumns, P!Stored, P!ColumnsCommit
  <1>11. PoolIsNext'
    BY <1>1, <1>2, <1>6 DEF PoolIsNext, AskedFor, P!Stored
  <1>12. DbIsDue'
    <2> SUFFICES ASSUME NEW m \in Node, NEW u \in Table, Has(m, u)'
                 PROVE  Hash[u][Db(m)'[u]] = Due(u)'
      BY DEF DbIsDue
    <2>1. Has(m, u) /\ Db(m)' = Db(m)
      BY <1>1 DEF Has, Db
    <2>2. /\ requestsCommitments'[Head(txpool').args] = t /\ txpool' # <<>>
          /\ Head(txpool').new = s.new
      BY <1>1, <1>2, <1>6
    <2>3. CASE u = t
      <3>1. Due(t)' = Hash[t][Db(n)[t]]
        BY <1>2, <2>2 DEF Due
      <3>2. Due(t)' = Hash[t][Db(m)[t]]
        BY <3>1 DEF OneByOne, P!OneProcess
      <3>3. QED
        BY <2>1, <2>3, <3>2
    <2>4. CASE u # t
      <3>1. Due(u)' = chainCommitments[u] /\ Due(u) = chainCommitments[u]
        BY <1>1, <1>3, <2>2, <2>4 DEF Due
      <3>2. Hash[u][Db(m)[u]] = Due(u)
        BY <1>2, <1>3, <2>1, <2>4 DEF Settled, DbIsDue
      <3>3. QED
        BY <2>1, <3>1, <3>2
    <2>5. QED
      BY <2>3, <2>4
  <1>13. QED
    BY <1>7, <1>8, <1>9, <1>10, <1>11, <1>12 DEF Settled

\* The end of a handler writes the file.
LEMMA FinishSettled ==
    ASSUME OneByOne, Known, Settled, [Next]_vars, NEW j \in Job, Finish(j)
    PROVE  Settled'
  <1>1. /\ job[j].pc = "sent" /\ Prover!Answer(j, "ready") /\ cache' = Db(job[j].node)
        /\ UNCHANGED <<status, heap, pendingRequests, txpool, chainCommitments,
                       requestsCommitments, requestPosted>>
    BY DEF Finish, Prover!Finish, Prover!writeDB, Prover!db, Db, chainVars
  <1>2. PICK n \in Node : n = job[j].node
    BY <1>1, HandlerType DEF Known
  <1>3. status[n] = "up"
    BY <1>1, <1>2 DEF Known, Inv, P!WellFormed, P!HandlersHoldTheirTable, P!Active
  <1>4. job'[j].pc = "ready" /\ \A k \in Job : k # j => job'[k] = job[k]
    BY <1>1, Answered
  <1>5. /\ \A S \in SUBSET Writing : WriteJobs(S)' = WriteJobs(S) \ {j}
        /\ Busy' \subseteq Busy /\ \A k \in Busy' : job'[k] = job[k]
    BY <1>4 DEF WriteJobs, Busy, Writing
  <1>6. /\ WriteJobs({"sending"})' = WriteJobs({"sending"})
        /\ WriteJobs({"proving", "sending"})' = WriteJobs({"proving", "sending"})
        /\ \A k \in WriteJobs({"proving", "sending"}) : job'[k] = job[k]
    BY <1>1, <1>4 DEF WriteJobs
  <1>7. Serial' /\ (Quiet => Quiet')
    <2>1. Busy' = {} <=> WriteJobs({"proving", "sending", "sent"})' = {}
      BY DEF Busy, Writing
    <2>2. QED
      BY <1>1, <1>5, <1>6, <2>1 DEF Settled, Serial, Quiet, Busy, Writing
  <1>8. BusyIsUp'
    BY <1>1, <1>7 DEF Settled, BusyIsUp
  <1>9. RequestsWereAsked'
    BY <1>1, <1>5, RequestsGoOn
  <1>10. \A u \in Table : P!Stored(u) => P!Stored(u)'
    BY StoredStays
  <1>11. FirstIsOfColumns' /\ PoolIsNext' /\ \A u \in Table : Due(u)' = Due(u)
    BY <1>1, <1>10 DEF Settled, FirstIsOfColumns, PoolIsNext, AskedFor, P!ColumnsCommit, Due
  <1>12. DbIsDue' /\ HandlersAreInStep'
    <2>1. DbIsDue'
      <3> SUFFICES ASSUME NEW m \in Node, NEW u \in Table, Has(m, u)'
                   PROVE  \/ Hash[u][Db(m)'[u]] = Due(u)'
                          \/ \E k \in WriteJobs({"sending"})' : job'[k].query.table = u
        BY DEF DbIsDue
      <3>1. Has(m, u) /\ Db(m)' = Db(m)
        BY <1>1 DEF Has, Db
      <3>2. \A k \in WriteJobs({"sending"}) : job'[k] = job[k]
        BY <1>6 DEF WriteJobs
      <3>3. QED
        BY <1>6, <1>11, <3>1, <3>2 DEF Settled, DbIsDue
    <2>2. HandlersAreInStep'
      <3>1. HandlersAreInStep /\ heap' = heap /\ chainCommitments' = chainCommitments
        BY <1>1 DEF Settled
      <3>2. QED
        BY <1>6, <3>1 DEF HandlersAreInStep, Db
    <2>3. QED
      BY <2>1, <2>2
  <1>13. FileIsDue'
    <2> SUFFICES ASSUME NEW u \in Table, P!Stored(u)'
                 PROVE  \/ Hash[u][Db(n)[u]] = Due(u)
                        \/ WriteJobs({"sending", "sent"})' # {}
      BY <1>1, <1>2, <1>11 DEF FileIsDue
    <2>1. Has(n, u)
      BY <1>1, <1>2, <1>3 DEF Has, P!Stored
    <2>2. WriteJobs({"sending"})' \subseteq WriteJobs({"sending", "sent"})'
      BY DEF WriteJobs
    <2>3. QED
      BY <1>6, <2>1, <2>2 DEF Settled, DbIsDue
  <1>14. QED
    BY <1>7, <1>8, <1>9, <1>11, <1>12, <1>13 DEF Settled

LEMMA HandlerSettled ==
    ASSUME OneByOne, CircuitsAgree, WritesLeaveRows, Known, Settled, [Next]_vars, NEW j \in Job,
           Prove(j) \/ Send(j) \/ SendReverts(j) \/ SendFails(j) \/ Finish(j) \/ Poll(j)
    PROVE  Settled'
  <1>1. CASE Prove(j)
    <2>1. UNCHANGED <<chainVars, txpool>>
      BY <1>1 DEF Prove
    <2>2. CASE Prover!ProveWrite(j)
      BY <2>1, <2>2, ProveWriteSettled
    <2>3. CASE Prover!ProveSelect(j) \/ Prover!ProveFails(j)
      <3>1. /\ job[j].pc = "proving" /\ \E pc \in {"ready", "failed"} : Prover!Answer(j, pc)
            /\ UNCHANGED <<status, heap, pendingRequests, cache>>
        BY <2>3 DEF Prover!ProveSelect, Prover!ProveFails, Prover!nodeVars
      <3>2. QED
        BY <2>1, <3>1, EndsSettled
    <2>4. QED
      BY <1>1, <2>2, <2>3 DEF Prove
  <1>2. CASE Send(j)
    BY <1>2, SendSettled
  <1>3. CASE SendReverts(j)
    BY <1>3, NoneReverts
  <1>4. CASE SendFails(j)
    BY <1>4, NoneFails
  <1>5. CASE Finish(j)
    BY <1>5, FinishSettled
  <1>6. CASE Poll(j)
    <2>1. /\ job[j].pc \in {"ready", "failed"}
          /\ job' = [job EXCEPT ![j] = [pc |-> "taken"]]
          /\ UNCHANGED <<chainVars, txpool, status, heap, pendingRequests, cache>>
      BY <1>6 DEF Poll, Prover!Poll, Prover!nodeVars
    <2>2. job'[j].pc = "taken" /\ \A k \in Job : k # j => job'[k] = job[k]
      BY <2>1 DEF Known, Inv, P!WellFormed, P!TypeOK
    <2>3. NoNewWrites
      BY <2>1, <2>2 DEF NoNewWrites, Writing
    <2>4. QED
      BY <2>1, <2>3, Idles, SettledStays
  <1>7. QED
    BY <1>1, <1>2, <1>3, <1>4, <1>5, <1>6

-----------------------------------------------------------------------------
\* The transaction in the pool is mined as it was estimated.

LEMMA MineSettled ==
    ASSUME Known, Settled, [Next]_vars, Mine
    PROVE  Settled'
  <1>1. PICK t \in Table, s \in Provable :
            /\ s = Head(txpool) /\ txpool # <<>>
            /\ requestsCommitments[s.args] = t /\ s.old = chainCommitments[t]
            /\ P!Stored(t)
            /\ \A u \in Table : Due(u) = IF u = t THEN s.new ELSE chainCommitments[u]
    <2>1. txpool # <<>> /\ Head(txpool) \in Provable
      BY DEF Mine, Known, Inv
    <2>2. QED
      BY <2>1, PoolTable
  <1>2. Succeeds(s)
    <2>1. s = [op |-> s.op, new |-> s.new, old |-> s.old, args |-> s.args]
      BY DEF Provable
    <2>2. QED
      BY <1>1, <2>1 DEF Succeeds, Contract!ExecSucceeds, Contract!VerifyProof
  <1>3. /\ chainCommitments' = [chainCommitments EXCEPT ![t] = s.new]
        /\ UNCHANGED <<requestsCommitments, requestPosted, status, heap, pendingRequests,
                       job, cache>>
        /\ txpool' = Tail(txpool)
    BY <1>1, <1>2 DEF Mine, Contract!ExecRequest, proverVars
  <1>4. chainCommitments'[t] = s.new /\ \A u \in Table : u # t => chainCommitments'[u] = chainCommitments[u]
    BY <1>3, ContractTypes DEF Known, Inv
  <1>5. txpool' = <<>>
    BY <1>1, <1>3 DEF Known, Inv, Settled, Serial
  <1>6. \A u \in Table : Due(u)' = Due(u)
    BY <1>1, <1>4, <1>5 DEF Due
  <1>7. \A S : WriteJobs(S)' = WriteJobs(S)
    BY <1>3 DEF WriteJobs
  <1>8. WriteJobs({"proving", "sending"})' = {}
    BY <1>1, <1>7 DEF Settled, Serial
  <1>9. Serial' /\ HandlersAreInStep' /\ PoolIsNext'
    BY <1>3, <1>5, <1>7, <1>8 DEF Settled, Serial, HandlersAreInStep, PoolIsNext, Busy
  <1>10. RequestsWereAsked'
    BY <1>3, <1>7, RequestsGoOn DEF Busy
  <1>11. BusyIsUp'
    BY <1>1, <1>3 DEF Settled, BusyIsUp, Quiet
  <1>12. FirstIsOfColumns'
    BY <1>1, <1>3, <1>4 DEF Settled, FirstIsOfColumns, P!Stored, P!ColumnsCommit
  <1>13. DbIsDue' /\ FileIsDue'
    BY <1>3, <1>6, <1>7 DEF Settled, DbIsDue, FileIsDue, Has, Db, P!Stored
  <1>14. QED
    BY <1>9, <1>10, <1>11, <1>12, <1>13 DEF Settled

-----------------------------------------------------------------------------
\* Every step.

LEMMA NextSettled ==
    ASSUME OneByOne, CircuitsAgree, ColumnsAreDistinct, ArgsNameTables, WritesLeaveRows,
           NewTablesAreEmpty
    PROVE  Known /\ Settled /\ [Next]_vars => Settled'
  <1> SUFFICES ASSUME Known, Settled, [Next]_vars
               PROVE  Settled'
    OBVIOUS
  <1>1. QED
    BY CreatesSettled, RequestsSettled, StartSettled, HearSettled, CallSettled, HandlerSettled,
       MineSettled DEF Next

LEMMA InitSettled == Init => Settled
  <1> SUFFICES ASSUME Init
               PROVE  Settled
    OBVIOUS
  <1>1. /\ txpool = <<>> /\ requestPosted = <<>> /\ cache = NoFile
        /\ \A t \in Table : chainCommitments[t] = 0
        /\ \A n \in Node : status[n] = "down" /\ pendingRequests[n] = {}
    BY DEF Init, Prover!Init, Contract!Init, Contract!Name, Contract!NoCommitment
  <1>2. \A S \in SUBSET Writing : WriteJobs(S) = {}
    BY DEF Init, Prover!Init, Prover!Idle, WriteJobs, Writing
  <1>3. /\ Busy = {} /\ WriteJobs({"proving", "sending"}) = {}
    BY <1>2 DEF Busy, Writing
  <1>4. Quiet
    BY <1>1, <1>3 DEF Quiet, Busy, Writing
  <1>5. QED
    BY <1>1, <1>3, <1>4 DEF Settled, Serial, RequestsWereAsked, BusyIsUp, FirstIsOfColumns,
       DbIsDue, HandlersAreInStep, PoolIsNext, FileIsDue, Has, P!Stored

LEMMA AlwaysKnown ==
    ASSUME P!OneProcess, ColumnsAreDistinct
    PROVE  Spec => []Known
  <1>1. Init => P!Durable
    BY SameInit, P!InitDurable, QueriesAreRecords, ContentsAreNamed, FunctionsOfContents,
       CacheIsADatabase, BoundsAreNaturals DEF P!QueryType, P!Database
  <1>2. Inv /\ P!Durable /\ [Next]_vars => P!Durable'
    BY NextStep, P!NextDurable, QueriesAreRecords, ContentsAreNamed, FunctionsOfContents,
       CacheIsADatabase, BoundsAreNaturals DEF Step, P!QueryType, P!Database
  <1>3. Spec => []P!Durable
    BY <1>1, <1>2, AlwaysInv, PTL DEF Spec
  <1>4. Spec => []TablesAreCommitted
    BY InitCommitted, NextCommitted, AlwaysAbout, PTL DEF Spec
  <1>5. QED
    BY <1>3, <1>4, AlwaysAbout, PTL DEF Known

LEMMA SettledGives == Settled => StoreMatchesChain
  <1> SUFFICES ASSUME Settled, Quiet, NEW n \in Node, NEW t \in Table,
                      status[n] = "up", Db(n)[t] # Absent
               PROVE  Hash[t][Db(n)[t]] = chainCommitments[t]
    BY DEF StoreMatchesChain, Prover!db, Db
  <1>1. txpool = <<>> /\ WriteJobs({"sending"}) = {}
    BY DEF Quiet, WriteJobs
  <1>2. QED
    BY <1>1 DEF Settled, DbIsDue, Has, Due

\* Under the conditions named at the top of this module, the table a process
\* would run the next query on is the one the contract holds the commitment
\* of: through creations, queries, restarts from the file and the nonce order
\* of the pool.  They are that writes come one at a time to the only process,
\* which neither ends, reloads nor loses the RPC node in the middle of one;
\* that the tables have different columns and are created without rows; and
\* that the arguments of a write name its table, no write empties a table, and
\* the circuits compute what SQLite computes (engine.ts, RequestController.ts,
\* database.ts).
THEOREM StoreFollowsChain ==
    ASSUME OneByOne, CircuitsAgree, ColumnsAreDistinct, ArgsNameTables, WritesLeaveRows,
           NewTablesAreEmpty
    PROVE  Spec => []StoreMatchesChain
  <1>1. Spec => []Known
    BY AlwaysKnown DEF OneByOne
  <1>2. QED
    BY <1>1, InitSettled, NextSettled, SettledGives, PTL DEF Spec
=============================================================================
