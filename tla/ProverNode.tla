----------------------------- MODULE ProverNode -----------------------------
(***************************************************************************)
(* The SQL prover processes (node/src with lib/engine): each keeps an      *)
(* in-memory sql.js database, a map of table commitments and the events it *)
(* has heard of, and serves POST /request, POST /create and GET /query.    *)
(* processes.config.js runs several of them over one cache file.           *)
(*                                                                         *)
(* JavaScript runs a handler without interruption up to its next await, so *)
(* an action is the code between two awaits: a query is Started, then      *)
(* Proved, then its transaction is Sent, and only then does its handler    *)
(* Finish; the other handlers and the listeners run in between.            *)
(*                                                                         *)
(* What comes from the chain is a parameter of the action.  Next leaves it *)
(* open; ZkSqlSystem composes these actions with the contract.             *)
(***************************************************************************)
EXTENDS Naturals, Sequences

CONSTANTS
    Node,           \* the processes
    Job,            \* the accepted POST /request calls
    Table,          \* table names
    Query,          \* SQL queries: records with at least type, table and args
    Content,        \* contents of a table: its rows and its next id
    NoRows,         \* the contents without rows
    FirstContent,   \* the contents POST /create asks for
    Commitment,     \* hashes of tables
    Args,           \* commitments of the arguments of queries
    Hash,           \* Hash[t][c]: hash of the rows of c the circuits get
    RunSql,         \* RunSql[q][c]: what SQLite makes of c under q
    Circuit,        \* Circuit[q][c]: the new hash the circuit of q computes
    Absent,         \* a table that is not in a database
    NoFile,         \* the cache file before its first write
    MaxReloads      \* bound: databases a process loads after its first

QueryType    == {"select", "insert", "update", "delete"}
NoCommitment == 0       \* the map has no commitment for the table
Database     == [Table -> Content \cup {Absent}]

ASSUME QueriesAreRecords ==
    \A q \in Query : q.type \in QueryType /\ q.table \in Table /\ q.args \in Args
ASSUME ContentsAreNamed ==
    /\ NoRows \subseteq Content /\ NoRows # {}
    /\ FirstContent \subseteq Content
    /\ Absent \notin Content
ASSUME FunctionsOfContents ==
    /\ Hash \in [Table -> [Content -> Commitment]]
    /\ RunSql \in [Query -> [Content -> Content]]
    /\ Circuit \in [Query -> [Content -> Commitment]]
ASSUME CacheIsADatabase == NoFile \notin Database
ASSUME ReloadsAreBounded == MaxReloads \in Nat

VARIABLES
    status,                 \* down; loaded, reading: starting; up: listening
    heap,                   \* database objects a process made; db is the last
    unread,                 \* listed tables whose commitment is still to read
    tableCommitments,
    knownTables,
    pendingRequests,
    pendingTablesToCreate,  \* keyed by commitment, as in the code
    job,                    \* the handlers of POST /request and their answers
    cache                   \* the file at DB_CACHE_PATH

nodeVars == <<status, heap, unread, tableCommitments, knownTables,
              pendingRequests, pendingTablesToCreate>>
vars == <<nodeVars, job, cache>>

Idle     == [pc |-> "idle"]
Ended    == [pc : {"taken", "lost"}]
Handler  == [pc : {"proving", "sending", "sent", "ready", "failed", "thrown"}, node : Node,
             query : Query, obj : Nat, read : Content,
             commit : Commitment \cup Args \cup {NoCommitment}]

TypeOK ==
    /\ status \in [Node -> {"down", "loaded", "reading", "up"}]
    /\ heap \in [Node -> Seq(Database)]
    /\ unread \in [Node -> SUBSET Table]
    /\ tableCommitments \in [Node -> [Table -> Commitment \cup Args \cup {NoCommitment}]]
    /\ knownTables \in [Node -> SUBSET Table]
    /\ pendingRequests \in [Node -> SUBSET Args]
    /\ pendingTablesToCreate \in [Node -> SUBSET Commitment]
    /\ job \in [Job -> {Idle} \cup Ended \cup Handler]
    /\ cache \in Database \cup {NoFile}

NoTables    == [t \in Table |-> Absent]
Unknown     == [t \in Table |-> NoCommitment]
db(n)       == heap[n][Len(heap[n])]
Unchecked   == cache                            \* mutant: no existsSync
FromCache   == IF cache = NoFile THEN NoTables ELSE cache
Active      == {j \in Job : job[j].pc \in {"proving", "sending", "sent"}}
JobsOf(n)   == {j \in Job : job[j].pc \notin {"idle", "taken", "lost"} /\ job[j].node = n}

Init ==
    /\ status = [n \in Node |-> "down"]
    /\ heap = [n \in Node |-> <<>>]
    /\ unread = [n \in Node |-> {}]
    /\ tableCommitments = [n \in Node |-> Unknown]
    /\ knownTables = [n \in Node |-> {}]
    /\ pendingRequests = [n \in Node |-> {}]
    /\ pendingTablesToCreate = [n \in Node |-> {}]
    /\ job = [j \in Job |-> Idle]
    /\ cache = NoFile

-----------------------------------------------------------------------------
(***************************************************************************)
(* Starting: initDB(true), then listenToChain.                             *)
(***************************************************************************)

Boot(n) ==
    /\ status[n] = "down"
    /\ status' = [status EXCEPT ![n] = "loaded"]
    /\ heap' = [heap EXCEPT ![n] = <<FromCache>>]
    /\ UNCHANGED <<unread, tableCommitments, knownTables, pendingRequests,
                   pendingTablesToCreate, job, cache>>

\* The answer of getLogs: the tables of all TableCreated events.
ListTables(n, tables) ==
    /\ status[n] = "loaded"
    /\ status' = [status EXCEPT ![n] = "reading"]
    /\ unread' = [unread EXCEPT ![n] = tables]
    /\ UNCHANGED <<heap, tableCommitments, knownTables, pendingRequests,
                   pendingTablesToCreate, job, cache>>

\* One call of tableCommitments(table) in the loop of requestAllTables.  The
\* order of the loop is left open.
ReadCommitment(n, t, c) ==
    /\ status[n] = "reading"
    /\ t \in unread[n]
    /\ unread' = [unread EXCEPT ![n] = @ \ {t}]
    /\ tableCommitments' = [tableCommitments EXCEPT ![n][t] = c]
    /\ UNCHANGED <<status, heap, knownTables, pendingRequests,
                   pendingTablesToCreate, job, cache>>

Listed(n) == {t \in Table : tableCommitments[n][t] # NoCommitment}
AllRead(n) == status[n] = "reading" /\ unread[n] = {}

\* discoverTables finds every table it was given; the three listeners are set
\* and the HTTP server starts.
Listen(n) ==
    /\ AllRead(n)
    /\ \A t \in Listed(n) : db(n)[t] # Absent
    /\ status' = [status EXCEPT ![n] = "up"]
    /\ knownTables' = [knownTables EXCEPT ![n] = Listed(n)]
    /\ UNCHANGED <<heap, unread, tableCommitments, pendingRequests,
                   pendingTablesToCreate, job, cache>>

\* What the end of a process takes with it, the answers nobody polled
\* included.  Only the cache file stays.
Stop(n) ==
    /\ status' = [status EXCEPT ![n] = "down"]
    /\ heap' = [heap EXCEPT ![n] = <<>>]
    /\ unread' = [unread EXCEPT ![n] = {}]
    /\ tableCommitments' = [tableCommitments EXCEPT ![n] = Unknown]
    /\ knownTables' = [knownTables EXCEPT ![n] = {}]
    /\ pendingRequests' = [pendingRequests EXCEPT ![n] = {}]
    /\ pendingTablesToCreate' = [pendingTablesToCreate EXCEPT ![n] = {}]
    /\ job' = [j \in Job |-> IF j \in JobsOf(n) THEN [pc |-> "lost"] ELSE job[j]]
    /\ UNCHANGED cache

\* discoverTables throws: PRAGMA table_info of a table that is not in the
\* database gives no result.  bootstrap logs the error and nothing is left to
\* keep the process alive.
BootFails(n) ==
    /\ AllRead(n)
    /\ \E t \in Listed(n) : db(n)[t] = Absent
    /\ Stop(n)

Crash(n) ==
    /\ status[n] # "down"
    /\ Stop(n)

-----------------------------------------------------------------------------
(***************************************************************************)
(* The listeners.                                                          *)
(***************************************************************************)

OnRequestPosted(n, a) ==
    /\ status[n] = "up"
    /\ pendingRequests' = [pendingRequests EXCEPT ![n] = @ \cup {a}]
    /\ UNCHANGED <<status, heap, unread, tableCommitments, knownTables,
                   pendingTablesToCreate, job, cache>>

OnTableUpdated(n, t, c) ==
    /\ status[n] = "up"
    /\ tableCommitments' = [tableCommitments EXCEPT ![n][t] = c]
    /\ UNCHANGED <<status, heap, unread, knownTables, pendingRequests,
                   pendingTablesToCreate, job, cache>>

OnTableCreated(n, c) ==
    /\ status[n] = "up"
    /\ pendingTablesToCreate' = [pendingTablesToCreate EXCEPT ![n] = @ \cup {c}]
    /\ UNCHANGED <<status, heap, unread, tableCommitments, knownTables,
                   pendingRequests, job, cache>>

-----------------------------------------------------------------------------
(***************************************************************************)
(* POST /create.  Waiting for the event changes nothing, so the call is    *)
(* one action at the attempt that finds it.  The commitment is the hash of *)
(* the columns; the rows that come with the table do not enter it.         *)
(***************************************************************************)
ColumnsCommit(t) == Hash[t][CHOOSE c \in NoRows : TRUE]

WriteNothing(database) == UNCHANGED cache           \* mutant: the call is missing
writeDB(database)      == cache' = database

NoCheck(n, t) == TRUE                               \* mutant: the call does not wait
IsPending(n, t) == ColumnsCommit(t) \in pendingTablesToCreate[n]

CreateTable(n, t, content) ==
    /\ status[n] = "up"
    /\ IsPending(n, t)
    /\ db(n)[t] = Absent                    \* CREATE TABLE throws otherwise
    /\ LET made == [db(n) EXCEPT ![t] = content] IN
        /\ heap' = [heap EXCEPT ![n][Len(heap[n])] = made]
        /\ writeDB(made)
    /\ knownTables' = [knownTables EXCEPT ![n] = @ \cup {t}]
    /\ tableCommitments' = [tableCommitments EXCEPT ![n][t] = ColumnsCommit(t)]
    /\ UNCHANGED <<status, unread, pendingRequests, pendingTablesToCreate, job>>

-----------------------------------------------------------------------------
(***************************************************************************)
(* POST /request.                                                          *)
(***************************************************************************)

\* The parser rejects the query, or ten attempts did not find its request
\* among the pending ones: the handler of the error reloads the database.
Refuse(n) ==
    /\ status[n] = "up"
    /\ Len(heap[n]) <= MaxReloads
    /\ heap' = [heap EXCEPT ![n] = Append(@, FromCache)]
    /\ UNCHANGED <<status, unread, tableCommitments, knownTables, pendingRequests,
                   pendingTablesToCreate, job, cache>>

\* A job is a call of POST /request, so it is accepted once.  Its token is
\* random and not compared with those in use; that two calls draw the same
\* one is not modelled.
MayStart(n, j, q) ==
    /\ status[n] = "up"
    /\ job[j] = Idle
    /\ q.type # "select" => q.args \in pendingRequests[n]

\* execQuery up to fullProve: it reads the table and its commitment now, and
\* keeps the database object it was called with.
Start(n, j, q) ==
    /\ MayStart(n, j, q)
    /\ db(n)[q.table] # Absent
    /\ job' = [job EXCEPT ![j] =
                [pc |-> "proving", node |-> n, query |-> q, obj |-> Len(heap[n]),
                 read |-> db(n)[q.table], commit |-> tableCommitments[n][q.table]]]
    /\ UNCHANGED <<nodeVars, cache>>

\* The witness exists: the circuit checks that the table hashes to the
\* commitment it is given.
NoConstraint(j) == TRUE                             \* mutant: no such check
Satisfied(j) == Hash[job[j].query.table][job[j].read] = job[j].commit

Answer(j, pc) == job' = [job EXCEPT ![j].pc = pc]

\* The proof of a select: the rows were selected when the proof was started.
ProveSelect(j) ==
    /\ job[j].pc = "proving"
    /\ job[j].query.type = "select"
    /\ Satisfied(j)
    /\ Answer(j, "ready")
    /\ UNCHANGED <<nodeVars, cache>>

\* Mutant: nothing catches the error, and the token is never answered.
ProveFailsUnseen(j) ==
    /\ job[j].pc = "proving"
    /\ ~Satisfied(j)
    /\ UNCHANGED vars

ProveFails(j) ==
    /\ job[j].pc = "proving"
    /\ ~Satisfied(j)
    /\ Answer(j, "failed")
    /\ UNCHANGED <<nodeVars, cache>>

\* The proof of a write: the statement runs on the table as it is now, not on
\* the table that was proved about.  selectTable then reads columns of a
\* result sql.js leaves out when there are no rows; the error is answered and
\* nothing is sent, but the statement has run.
ProveWrite(j) ==
    /\ job[j].pc = "proving"
    /\ job[j].query.type # "select"
    /\ Satisfied(j)
    /\ LET q   == job[j].query
           n   == job[j].node
           i   == job[j].obj
           new == RunSql[q][heap[n][i][q.table]]
       IN  /\ heap' = [heap EXCEPT ![n][i][q.table] = new]
           /\ Answer(j, IF new \in NoRows THEN "failed" ELSE "sending")
    /\ UNCHANGED <<status, unread, tableCommitments, knownTables, pendingRequests,
                   pendingTablesToCreate, cache>>

\* The call of execRequest the handler waits for, with its proof.
StatementOf(j) ==
    [op |-> job[j].query.type, new |-> Circuit[job[j].query][job[j].read],
     old |-> job[j].commit, args |-> job[j].query.args]

\* The RPC node accepted the transaction; nobody waits for it to be mined.
SendOk(j) ==
    /\ job[j].pc = "sending"
    /\ Answer(j, "sent")
    /\ UNCHANGED <<nodeVars, cache>>

\* The estimate reverts, the nonce is taken, the RPC node is away: nothing
\* catches the rejection.  pm2 logs it and the process goes on, but the
\* statement has run on the database, nothing is stored and the token is never
\* answered.  (Without pm2 the rejection ends the process, as Crash does.)
SendThrows(j) ==
    /\ job[j].pc = "sending"
    /\ Answer(j, "thrown")
    /\ UNCHANGED <<nodeVars, cache>>

\* The rest of the handler.  The commitment it stores is that of the
\* arguments, and the database it writes is the one that is current now.
Finish(j) ==
    /\ job[j].pc = "sent"
    /\ tableCommitments' = [tableCommitments EXCEPT
            ![job[j].node][job[j].query.table] = job[j].query.args]
    /\ writeDB(db(job[j].node))
    /\ Answer(j, "ready")
    /\ UNCHANGED <<status, heap, unread, knownTables, pendingRequests,
                   pendingTablesToCreate>>

\* GET /query of a token, at the process that has the answer: reading an
\* answer deletes it, whether or not the client is still there.
Poll(j) ==
    /\ job[j].pc \in {"ready", "failed"}
    /\ job' = [job EXCEPT ![j] = [pc |-> "taken"]]
    /\ UNCHANGED <<nodeVars, cache>>

\* execQuery throws before it proves: the table is not in the database, a cell
\* has no code (encode.ts:11) or a clause is not translated (parser.ts:293).
\* SqlExec says for which queries and tables; here it may be any.
StartFails(n, j, q) ==
    /\ MayStart(n, j, q)
    /\ job' = [job EXCEPT ![j] =
                [pc |-> "failed", node |-> n, query |-> q, obj |-> Len(heap[n]),
                 read |-> CHOOSE c \in Content : TRUE,
                 commit |-> tableCommitments[n][q.table]]]
    /\ UNCHANGED <<nodeVars, cache>>

-----------------------------------------------------------------------------
\* The steps of a process that need nothing from the chain.
LocalStep ==
    \/ \E n \in Node : Boot(n) \/ Listen(n) \/ BootFails(n) \/ Crash(n) \/ Refuse(n)
    \/ \E n \in Node, t \in Table, c \in FirstContent : CreateTable(n, t, c)
    \/ \E n \in Node, j \in Job, q \in Query : Start(n, j, q) \/ StartFails(n, j, q)
    \/ \E j \in Job : ProveSelect(j) \/ ProveFails(j) \/ ProveWrite(j) \/ Finish(j) \/ Poll(j)

\* The steps that follow something the chain says, whatever it says.
ChainStep ==
    \/ \E n \in Node, tables \in SUBSET Table : ListTables(n, tables)
    \/ \E n \in Node, t \in Table, c \in Commitment :
            ReadCommitment(n, t, c) \/ OnTableUpdated(n, t, c)
    \/ \E n \in Node, a \in Args : OnRequestPosted(n, a)
    \/ \E n \in Node, c \in Commitment : OnTableCreated(n, c)
    \/ \E j \in Job : SendOk(j) \/ SendThrows(j)

Next == LocalStep \/ ChainStep

Spec == Init /\ [][Next]_vars

-----------------------------------------------------------------------------
Stored(t) == cache # NoFile /\ cache[t] # Absent

\* A table GET /tables offers is in the database queries are run on, so that
\* a query about it never fails for want of the table: discoverTables and
\* createTable put both in step, and reloading from the cache keeps them so.
KnownTablesExist ==
    \A n \in Node : status[n] = "up" =>
        \A t \in knownTables[n] : db(n)[t] # Absent

\* A table that reached the cache file stays in it: every write of the file
\* comes from a database that was loaded from it.
StoredTablesStay == [][\A t \in Table : Stored(t) => Stored(t)']_vars
=============================================================================
