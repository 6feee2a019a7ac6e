# zk-SQL in TLA+

zk-SQL outsources SQL tables to a node. The node keeps the tables, runs the
queries and proves each of them with a PLONK circuit; a contract keeps one
commitment per table and moves it only when a proof verifies. This directory
models that protocol, checks it with TLC and proves the parts that hold for all
sizes with TLAPS.

## 1. The system

| Component | Code | State | Operations |
|---|---|---|---|
| Contract | `contracts/zkSQL.sol` | `tableCommitments`, `requestsCommitments`, the event logs | `createTable`, `request`, `execRequest` |
| Prover node | `node/src`, `lib/engine/chainListener.ts`, `lib/engine/database.ts` | the sql.js object `db`, `tableCommitments`, `knownTables`, `pendingRequests`, `pendingTablesToCreate`, the answers `requests`, the cache file | start, three listeners, `POST /create`, `POST /request`, `GET /query`, `GET /tables` |
| Engine | `lib/engine/engine.ts`, `parser.ts`, `encode.ts` | none of its own: it works on `db` and `tableCommitments` | `execQuery`, `commitToQuery`, encoding for the circuits |
| Circuits | `circuits/*.circom` | none | SELECT, INSERT, UPDATE, DELETE |
| Client library and routes | `lib/client/client.ts`, `ui/pages/api`, `ui/utils/verify.ts` | none: each call reads the commitment and asks the node anew | `commitToTable`, `postSqlRequest`, `getSqlRequest`, `genPublicSignals` |
| Page of a table | `ui/components/ui/TableView.tsx` | polling counter, rows, limit on rows, proof to download | `makeQuery`, `poll` |
| Page of tables | `ui/components/ui/TablesSelector.tsx` | the list of tables | create a table |
| Verifiers | `contracts/*Verifier.sol` | none | generated by snarkjs |

How they interact:

* A user commits to a table (`createTable`) or to the arguments of a write
  (`request`) in a transaction, then calls the node over HTTP. The node waits,
  with up to ten attempts, until its listener has heard the event.
* `POST /request` answers with a token at once. A detached promise then reads
  the table and its commitment, awaits the proof, runs the statement on `db`,
  awaits the acceptance of the `execRequest` transaction, stores a commitment,
  writes the cache file and leaves the answer under the token.
* The page polls for the answer every two seconds, through a route that gives up
  on the node after two seconds. Reading an answer deletes it. The route makes the
  public signals from the query it was given and the commitment it read before
  posting, and the page verifies the proof against them.
* The listeners change `tableCommitments`, `pendingRequests` and
  `pendingTablesToCreate` between any two of these steps.
* `processes.config.js` runs two processes in cluster mode behind one port. They
  share the cache file and the wallet and nothing else.

What is hard: everything between two awaits of that promise (another query, a
reload of the database, an event, the end of the process); transactions that
revert when mined although their estimate passed; restarts from an old file;
calls that fail after the statement has run; events that arrive late or never;
answers that are read and never arrive; submissions of one page that share its
state; tables and arguments that share their hashes, because both are Poseidon of a
sum; and the agreement of two implementations of SQL, SQLite's and the circuits',
and of two ways to hash the arguments of a write. `PROJECT.json` lists these hazards
at their lines.

What makes each component correct:

* Contract: its events tell its state; a table gets a first commitment once; each
  update is a step some circuit accepts, on arguments that were posted if the table
  has a name.
* Node: the tables it offers exist; a stored table stays stored; it proves only
  about contents whose hash was committed to for their table; its database and the
  contract agree when nothing is in progress; an accepted query is answered, unless
  the process ends or its transaction is refused.
* Contract and nodes: the contract is a ledger of hashes on which requested queries
  run one at a time, whatever the nodes do.
* Engine and circuits: what is proved is what is executed, and no query is refused
  for the state an earlier one left.
* Client: a proof that verifies is about the table as it was after the question,
  whatever the node sends; waiting ends.

## 2. Modules

| Module | Models |
|---|---|
| `ZkSQL` | the contract |
| `ZkSQLProof` | theorems about it |
| `ProverNode` | the processes of the node, with the chain as parameters of their actions |
| `ProverNodeProof` | theorems about them |
| `TableLedger` | what the system promises: an abstract ledger of the hashes of tables |
| `ZkSqlSystem` | `ProverNode` and `ZkSQL` composed; refines `TableLedger` |
| `ZkSqlSystemProof`, `CommittedTablesProof`, `TableLedgerProof`, `StoreProof` | theorems about it |
| `Answers` | what `Client` takes from a node: the places of the answer to a token |
| `Client` | the page of a table, its routes, the client library and the verification |
| `ClientProof` | theorems about them |
| `SqlCircuits` | the circuits, as operators |
| `SqlParser` | from the syntax tree of a query to the inputs of its circuit and the commitment of its arguments |
| `SqlExec` | `execQuery` on one table: the circuit and SQLite side by side |
| `SqlExecProof` | theorems about it |
| `MCZkSQL`, `MCProverNode`, `MCZkSqlSystem`, `MCClient`, `MCSqlExec` | instances for TLC |

`ZkSqlSystem` takes `ProverNode` and `ZkSQL` with `INSTANCE` and gives the
parameters of their actions: what `ListTables` and `ReadCommitment` answer, which
event a listener gets, whether an estimate reverts. `SqlExec` EXTENDS
`SqlParser`, which EXTENDS `SqlCircuits`. `Client` takes `Answers` as its node, and
leaves open what it answers. The constant `Circuit` of `ProverNode` stands for the
circuits; in the instances it agrees with SQLite, and `SqlExec` is about whether it
does.

### Contract (`ZkSQL`)

Each transaction is an action; a call that reverts changes nothing and is no
action. Anybody may send one, with any name and any number: the empty name
`Unnamed`, which is also the table of arguments nobody posted, and 0, which is also
the commitment of a table nobody created. The code refuses neither, and the check
that arguments were posted is commented out. A proof is represented by the statement
it proves, `[op, new, old, args]`, and `Provable` is the set of statements with a
proof: soundness and completeness of PLONK are assumed, and that no circuit puts out
or starts from 0, of which no Poseidon preimage is known.

### Node (`ProverNode`)

An action is the code between two awaits, which JavaScript does not interrupt.

| Code | Action |
|---|---|
| `initDB(true)` at start | `Boot` |
| `getLogs`, then each `tableCommitments(table)` | `ListTables`, `ReadCommitment` |
| `discoverTables`, the three `.on`, listen | `Listen`, or `BootFails` when it throws |
| the listeners | `OnRequestPosted`, `OnTableUpdated`, `OnTableCreated` |
| `POST /create` | `CreateTable` |
| `POST /request` that is refused: `initDB(true)` | `Refuse` |
| `execQuery` up to `fullProve` | `Start`, `StartFails` |
| `fullProve` to the end of `execQuery` | `ProveSelect`, `ProveWrite`, `ProveFails` |
| `execRequest(...)` accepted | `SendOk` |
| `execRequest(...)` rejected: nothing catches it, pm2 logs it and the process goes on | `SendThrows` |
| the rest of the handler | `Finish` |
| `GET /query/:id` | `Poll` |
| the process ends, pm2 restarts it | `Crash`, `Boot` |

`heap[n]` is the sequence of database objects a process has made. `db` is the
last; a handler keeps the one it was called with (`job[j].obj`), which is how a
reload separates a write from the file. `tableCommitments` holds what the code
puts there, including the commitment of arguments that `Finish` stores. A job is
one accepted `POST /request` and its own token; a job in the stage `thrown` is one
whose token nothing will ever answer. `StartFails` is any error of `execQuery` before
the proof: which queries have one is the business of `SqlExec`. Waiting in `backOff`
changes nothing and is the time before the action.

### System (`ZkSqlSystem`)

`txpool` holds the transactions of the nodes' wallet in nonce order; `seen` is how
far each process has read each of the three logs. Each kind of event is polled
separately. Users' transactions are mined when sent, and users call the contract as
the page does: with the name of a table and the hash of its columns. (What the
contract does for other callers is in `ZkSQL`.) `Listen` sets `seen` to the end of the
logs: earlier events are lost to that process. `SendReverts` is the refused estimate,
`SendFails` any other failure of the call.

Hashes of tables and of arguments are numbers of one kind, and a run may have tables
and arguments with the same hash, or two contents of one hash: in the code both are
Poseidon of a sum (`engine.ts:277-288`, `hashTable.circom:13-34`). `concurrent` and
`columns` are such runs.

Two constants restrict behaviours so that a run can ask a narrower question:
`MaxWrites` (writes in progress together) and `WhenQuiet` (whether crashes with
failing calls, and refused requests, happen only while no write is in progress). A
run that restricts them says so below.

### Client (`Answers`, `Client`)

`Answers` has one place per token: `none`, `working`, `answered`, `taken` or
`lost`. The node that fills it in `Client` may answer anything at any time, and end.

A submission is a use of the form, or the query of the first display. `pc` says
how far it is, `sql` what was typed:

| Code | Action |
|---|---|
| the limit on rows | `Submit`, `Refuse` |
| `makeQuery` up to the route; the transaction of a write | `PrepareSelect`, `PrepareWrite`, `WalletSends`, `GivesUp` |
| `postSqlRequest` reads the commitment, then posts | `ReadCommitment`, `Accepted`, `Refused`, `RequestThrows` |
| a poll that is not ready: the list of tables fails, there is no answer | `ConfigFails`, `NoAnswer` |
| a poll that takes the answer and does not bring it: the call fails, the route throws | `AnswerLost`, `RouteThrows` |
| a poll that brings an answer or an error, or throws | `AnswerArrives`, `ErrorArrives`, `PollThrows` |
| `genPublicSignals`, `verifyProof` and the rest of `poll` | `Verify` |

A function of the page keeps the variables of the rendering it belongs to.
`closure[s]` names the rendering a submission was made from and `reqMade` counts
per rendering, as `let reqMade` does; submissions of one rendering share it.
`dataLength` is the length of the rows as last rendered, which the limit is checked
against. `history` is the list of contents the contract was committed to; it grows
as it likes. `NodeAnswers` lets the node answer with any rows, any new commitment
and any proof of a true statement of the type of the query, of any content.

A statement is the public signals of a proof and its circuit. `Inputs[q]` are the
signals that say what is asked. Of a SELECT they are its columns and conditions, so
two SELECTs with the same signals put out the same (`SelectsArePublic`). Of a write
they are the hash of its arguments, which is that of a sum: different writes share it
(`verify.ts:33,38`), and the instance has two that do.

### Engine and circuits (`SqlCircuits`, `SqlParser`, `SqlExec`)

Tables are matrices padded with zeros, as in the circuits. A commitment is the
sum that Poseidon hashes, so two tables with the same sum have the same
commitment, as in the code.

Queries are the records node-sql-parser makes: a WHERE clause is a tree of AND, OR
and comparisons, an operand a literal or an expression over a column.
The constant `Clause` is the set of these trees and their parts, and `size` ranks
them: that a part is smaller is all `parseCondition` and the evaluation of a clause
by SQLite need to recur, and they are recursive functions on `Clause`, so there are
theorems about them. In the instances `Clause` is what the queries contain.
`parseCondition` accepts trees that lean to the left with OR above AND and throws
on the others; what is not a literal gets the code 0. `serialize` places the
conditions by column. `genArgsCommitment` is what the client commits to, and
`argsHash` what the circuit computes from its inputs.

`SqlExec` runs INSERT (with column lists and any number of rows), UPDATE and DELETE
on a partial function from ids to rows with the semantics of SQL: three-valued
comparison with NULL, conversion to the affinity of a column, expressions. It hands
the padded matrix to the circuit, and takes the commitment the circuit gives.
Waiting and transactions are left to `ProverNode`; a write on the last rows ends in
the error of `selectTable` here as there. There is no limit on rows but that of the
page, which is in `Client`.

## 3. Runs

Runs that pass:

| Run | Asks | Instance |
|---|---|---|
| `contract` | do the events tell the state, does a table get a first commitment once, are updates requested steps | 2 tables and the empty name, 3 commitments and 0, 2 arguments, 3 creations, 2 requests, 3 updates; a delete leads back to an earlier commitment, so logs repeat values |
| `prover` | do offered tables exist, do stored tables stay | 1 process, any answer and event from the chain, 2 tables of equal columns, 2 jobs, 1 reload, any number of crashes |
| `serial` | do the database and the contract agree when nothing is in progress | 1 process, 3 jobs, 3 updates, 1 crash, 1 reload; one write at a time, crash and refusal only in between, no failing call |
| `concurrent` | is the contract a ledger, are proofs about committed tables | 2 processes, 2 overlapping writes; two rows of the same sum and an UPDATE, so that contents share hashes and inserts share arguments; reverting estimates and reverting transactions |
| `columns` | are only committed tables served, is what is proved about committed or posted | 2 tables of different columns, an UPDATE whose arguments hash to the table it makes, 2 jobs, crash, failing call and reload at any time |
| `liveness` | is every query answered unless its process ends or its call throws, does a process come back | 1 process, 2 jobs, crash, failing call and reload at any time |
| `execution` | do circuits and SQLite do the same, is no query refused for what an earlier one left, do client and circuit hash the same arguments | 3 rows, 2 columns and 1 that pads, a number and a text, 2 ORs; INSERT of one row, UPDATE with `=`, DELETE and SELECT with `=` and `!=`, with every tree of up to three conditions for SELECT, an unknown column and a clause that does not fit |
| `client` | is what verifies true since it was asked, does waiting end | the first display and any of a SELECT, an INSERT and two UPDATEs of the same hash of arguments, sharing a counter; an empty and a full table, one change of it; calls that fail and routes that throw anywhere, a node that answers as it likes and ends at any time |

Runs that find a disagreement with what the repository says:

| Run | Shows |
|---|---|
| `overlap` | two overlapping writes on one process: both run on the database, the contract takes one |
| `stale_commitment` | the commitment of the arguments replaces that of the table (`RequestController.ts:68`) |
| `update_all` | UPDATE without WHERE changes no row in the circuit |
| `said_verified` | the page says "Proof verified!" after "Proof verification failed!" (`TableView.tsx:177`) |

In each of them the constants exclude the other causes: one write at a time, no
crash, no reload and one process unless the run is about it.

The passing runs show what they ask of their instances and no more. `serial` has none
of the causes listed below for `StoreMatchesChain`, `columns` no two tables of the
same columns, and `execution` none of the queries listed below; there the properties
are false of the code, and the configurations show it.

Further configurations reproduce other causes of the same violations, and
violations of properties no document states. They are run by hand, e.g.
`tlc -config MCReload.cfg MCZkSqlSystem`:

| Configuration | Violated | Cause |
|---|---|---|
| `MCReload` | `StoreMatchesChain` | a refused request replaces `db` under a write; `writeDB` exports the new one (`RequestController.ts:86`) |
| `MCCrash` | `StoreMatchesChain` | the process ends after sending and before writing the file (`RequestController.ts:67-69`) |
| `MCTwoNodes` | `StoreMatchesChain` | the other process keeps its table (`chainListener.ts:31`, `processes.config.js:14`) |
| `MCSameArgs` | `StoreMatchesChain` | a request names its arguments and not its table (`zkSQL.sol:38`, `RequestController.ts:40`) |
| `MCEmptied` | `StoreMatchesChain` | a DELETE of the last rows runs on the database and is answered with an error (`engine.ts:300`) |
| `MCSameColumns` | `LocalTablesAreCommitted` | `POST /create` accepts a table that was never created on chain (`CreateTableController.ts:23`) |
| `MCPosted` | `ProofsAreAboutHeldTables` | the arguments of an UPDATE hash to the contents it makes; the handler stores them before the write is mined, so a proof is about contents the contract does not hold (`RequestController.ts:68`) |
| `MCUnanswered` | `OnlyEndsLoseQueries` | `execRequest` rejects, nothing catches it, and the token is never answered although the process stays up (`RequestController.ts:67`) |
| `MCZkSQLUnposted` | `OnlyPostedRuns` | once somebody created the empty name, arguments nobody posted run on it (`zkSQL.sol:27,48`) |
| `MCClientOther` | `VerifiedIsOfTheQuery` | the proof of `SET a=1 WHERE b=2` verifies for `SET a=2 WHERE b=1` (`engine.ts:277-288`, `verify.ts:38`) |
| `MCSqlPadding` | `ProvedIsExecuted` | UPDATE with `!=` writes into padding rows (`update.circom:106`) |
| `MCSqlMany` | `ProvedIsExecuted` | INSERT of several rows is proved for the first (`parser.ts:136`) |
| `MCSqlIds` | `ProvedIsExecuted` | ids are not reused and rows are placed by id (`engine.ts:363`) |
| `MCSqlRange` | `SelectsAreProved` | `<` is commented out of `IsFiltered` (`utils.circom:176`) although a test uses it (`SqlCircuitsTest.ts:90`) |
| `MCSqlSameColumn` | `SelectsAreProved` | one condition per column is kept (`parser.ts:77`) |
| `MCSqlByName` | `ProvedIsExecuted` | the column list of an INSERT is not read (`parser.ts:136`) |
| `MCSqlNull` | `ProvedIsExecuted` | a NULL in the table cannot be encoded, so every later query fails (`encode.ts:11`) |
| `MCSqlExpression` | `ProvedIsExecuted` | `SET a = b` is proved as `SET a = 0` (`encode.ts:13`) |
| `MCSqlCompare` | `SelectsAreProved` | `WHERE a = b` is proved as `WHERE a = 0` (`encode.ts:13`) |
| `MCSqlAffinity` | `ProvedIsExecuted` | the text `'1'` is proved as text and stored as a number (`database.ts:42`) |
| `MCClientMixed` | `ShownIsProved` | two submissions: the rows of one with the proof of the other (`TableView.tsx:175`) |
| `MCClientStale` | `CurrentProofsVerify` | the table moves between the reading of the commitment and the proof (`client.ts:41`) |
| `MCClientStuck` | `LoadingEnds` | an error in the route of a request is not JSON, and nothing catches that (`request.ts:11`) |

### Bounds

Every bound is a constant: `MaxCreations`, `MaxRequests`, `MaxUpdates` (contract),
`MaxReloads` (node), `MaxCrashes` (ends of processes, and failing calls of the RPC
node), `MaxWrites` (system), `MaxId` (engine), `MaxMoves` (client).
The counters they bound only grow. `MaxTries` and `maxRows` are constants of the
code that the instances make smaller: 1 for the 20 polls after which the page
stops loading, where a poll within the limit, at it and beyond it still occur; 6
for the rows of the page, which its 5 placeholders and one insert reach. Two writes
are enough for every interleaving of a handler with another one; three updates let a
table move, move back and move again; three creations let a table be created with 0
and again; contents 0, 1, 2 let a delete leave rows; `MaxId = maxRows` in `execution` is the side
condition under which rows have a place, and `MCSqlIds` is what happens beyond it.
An insert into a table at the largest content leaves the content alone: the
circuits see no more rows either. The contents of `concurrent` are lists of up to two
rows, so that a process can hold other contents than the ones committed to, of the
same hash.
Runs that use symmetry (`serial`, `concurrent`, `columns`) permute jobs and
processes, and check no liveness.

Deadlock is not checked: a bounded run stops when its users have nothing more to
ask, and a node whose start fails waits for a restart.

### Fairness

`FairSpec` assumes: the steps of a handler (the runtime resumes settled promises,
`fullProve` and HTTP calls settle); the steps of starting (pm2 has `autorestart`);
polling for each kind of event (ethers polls for ever); mining. Nothing is assumed
of users, of `Poll`, of crashes, of `SendFails` or of refused requests.

`Client!FairSpec` assumes that a poll returns while the page is loading: the calls
of its route give up after two seconds and the next poll follows two seconds
later. How it returns is left open, so neither the node nor an answer is assumed;
a poll that throws ends the polling.

## 4. Proofs

Assumptions are the named ASSUMEs of `ZkSQL`, `ProverNode`, `ZkSqlSystem`, `Client`
and of the three modules of the engine, evaluated by TLC in the runs: in `ZkSQL`, that
the tables of users have names and that no circuit hashes to 0 (either may still be
given to `createTable`); in `ProverNode` and `Client`, the types of their
functions, and that a missing answer or an error is no reply; in `Client` also that
SELECTs with the same public signals put out the same; in `ZkSqlSystem`,
those of its two components; in `SqlCircuits`, `SqlParser` and `SqlExec`, that the
circuits have some size, that the names of columns differ, the types of the codes
and of what columns store, and the shape of trees and queries.

| Theorem | Property | Run |
|---|---|---|
| `ZkSQLProof!TypeCorrect` | `TypeOK` | `contract` |
| `ZkSQLProof!LogsTellTheState` | `LogReplays` | `contract` |
| `ZkSQLProof!TablesAreCommittedOnce` | `CommittedOnce` | `contract` |
| `ZkSQLProof!UpdatesAreSteps` | `UpdatesAreRequestedSteps` | `contract` |
| `ProverNodeProof!TypeCorrect` | `TypeOK` | `prover` |
| `ProverNodeProof!StatementsFindTheirTable` | `HandlersHoldTheirTable` | |
| `ProverNodeProof!KnownTablesAreThere` | `KnownTablesExist`, one process | `prover` |
| `ProverNodeProof!TablesAreDurable` | `StoredTablesStay`, one process | `prover` |
| `ClientProof!TypeCorrect` | `TypeOK` | `client` |
| `ClientProof!VerifiedResultsAreTrue` | `VerifiedIsTrueSinceAsked` | `client` |
| `ZkSqlSystemProof!TypeCorrect` | `TypeOK` | `serial` |
| `ZkSqlSystemProof!ComponentsRun` | `ProverNode!Spec` and `ZkSQL!Spec` | |
| `CommittedTablesProof!ProofsAreAboutTheirTables` | `ProofsAreAboutCommittedTables`, distinct columns | `concurrent`, `columns` |
| `CommittedTablesProof!ServedTablesAreCommitted` | `LocalTablesAreCommitted`, distinct columns | `columns` |
| `TableLedgerProof!ContractIsALedger` | `IsALedger`, circuits that agree | `concurrent` |
| `StoreProof!StoreFollowsChain` | `StoreMatchesChain`, six conditions (below) | `serial` |
| `SqlExecProof!TypeCorrect` | `TypeOK` | `execution` |
| `SqlExecProof!SelectsFollowTheirClauses` | `SelectsAreProved`, `ClausesAgree` | `execution` |
| `SqlExecProof!ProvedIsDone` | `ProvedIsExecuted`, `QueriesAgree` | `execution` |
| `SqlExecProof!WritesAreAccepted` | `WritesAreProved`, `QueriesAgree` | `execution` |

Contract. The invariant is the conjunction of the four properties and
`RequestsArePosted`: a request of arguments that names a table stands in the log. That
is what replaces the missing `require` for a table with a name: arguments nobody posted
lead to the empty name and nowhere else. Of the empty name itself nothing of the kind
holds (`MCZkSQLUnposted`). `CommittedOnce` needs `LogReplays`, because a table that was
created with a commitment must be known to have one still, and that updates never set
0; creations with 0 may repeat. `FoundAt` is stated on the logs alone so that appending
to them keeps it (`FoundAtKeeps`).

Node. `StatementsFindTheirTable` says the object a handler holds is one of its
process and has its table; it holds for any number of processes, because objects
are only added and tables in them only added. The two theorems about one process
rest on `Durable`: while the process is up, the cache file holds exactly the
tables `db` has, so a reload finds every offered table and a write of the file
drops none. With two processes this fails, as the last writer's tables replace the
other's, and the theorems assume one.

Client. `VerifiedIsTrueSinceAsked` is not inductive: it says nothing before a
verification. `Inv` adds where its parts come from: `AskedBefore`, that the time of
a submission is in the history; `CommitmentsAreRecent`, that a commitment that was
read is one of the history since then, which the growth of the history keeps; and
`VerifyingWhatWasTaken`, that the answer that is verified was taken, so that the
node cannot change it any more. Then a proof that verifies states the output, on some
content with that commitment, of some query with the same public signals, because
every proof states something true. For a SELECT the signals say which one; for a write
they leave any with the same hash of arguments, and the theorem claims no more.

System. `ComponentsRun` says that every behaviour of `ZkSqlSystem` is one of
`ProverNode` and one of `ZkSQL`, which open the steps of the other side; so the
theorems above hold of the system too. Its invariant `Inv` is that of the two
components and where they stand on each other: a process lists only tables that have
a commitment (`UnreadAreCommitted`), so what it reads is one; what a handler is about
to send was proved (`SendingIsProved`), so what is mined is a call the contract can
get; users name the tables they create (`UsersNameTables`); and no process has read an
event that was not logged (`SeenIsLogged`).

The theorems about tables have hypotheses, which the instances of their runs satisfy
and the code does not enforce. `ColumnsAreDistinct`: no two tables have the same
columns. `POST /create` takes a table for one of the contract's by the hash of its
columns, and without the hypothesis `LocalTablesAreCommitted` is false
(`MCSameColumns`). `CircuitsAgree`: the circuits compute what SQLite computes; `SqlExec`
is about where they do and where they do not. Nothing is assumed of the hashes:
contents may share theirs with other contents and with arguments.

`ProofsAreAboutTheirTables` follows a commitment from the contract to a proof. `About`
says for each place on the way (the log of creations, the tables that are waited for,
the requests that were heard, the map of a process, a handler) that it holds a
commitment the contract had for that table, or arguments posted for a write of it, or
0; the check of the circuit leaves the first two, because no contents hash to 0. That
the second must stay is what `MCPosted` shows.
`ServedTablesAreCommitted` follows a table: it is in an object of some process or in
the file (`Somewhere`), and no step brings one there that was not there or waited for
(`TablesFrom`). `ContractIsALedger` is a refinement: a proof that verifies was made from
contents with the hash the ledger has now, and the circuit gives the hash of what the
query makes of them; the arguments were asked for, for that table. Which of the contents
of one hash a process had does not enter it, nor do crashes, failing calls and
overlapping writes: only transactions move the ledger.

The store. `StoreFollowsChain` says that the database of the only process holds, of
every table, contents with the commitment the contract has, whenever no write is in
progress. It puts together all that was proved before: `Known` is the invariant of the
system, `About`, `TablesAreCommitted` and `Durable`. Its hypotheses are what `serial`
has, the code enforces none of them, and they are what keeping the store in step takes:
without any one of those listed TLC finds a database that is not the contract's, or one
of a table that was never created:

| Hypothesis | Without it |
|---|---|
| `OneByOne`: one process | `MCTwoNodes` |
| `OneByOne`: one write at a time | `MCOverlap` |
| `OneByOne`: no end of the process, and no failing call, in the middle of a write | `MCCrash` |
| `OneByOne`: no refused request, hence no reload, in the middle of a write | `MCReload` |
| `ColumnsAreDistinct` | `MCSameColumns` |
| `ArgsNameTables`: writes of different tables have different arguments, so the request a transaction redeems is the one for its table | `MCSameArgs` |
| `WritesLeaveRows`: `selectTable` throws on a table without rows after SQLite has changed it | `MCEmptied` |

`CircuitsAgree` is as above, and `NewTablesAreEmpty` says that a table `POST /create`
makes hashes to the columns it was created with.

`StoreMatchesChain` speaks only of quiet states, so its invariant `Settled` says where
the table is in the middle of a write, which is at one of four places. `Due` is the
commitment a table will have once the pool is mined. The database has it
(`DbIsDue`) except between the statement and the answer of the contract, when the
handler about to send holds it (`HandlersAreInStep`, from the contents it read, which
are those the statement runs on). The transaction in the pool finds its commitment and
its request (`PoolIsNext`, `RequestsWereAsked`), so it is not reverted. The file has
what is due except until the handler ends (`FileIsDue`), and as the process cannot end
before (`BusyIsUp`), a restart reads what is due. `Serial` counts: one write, one
transaction. A table that the process has not made yet may be created on chain, and
then still hashes to its columns (`FirstIsOfColumns`), whatever is posted for it.

The engine. The theorems of `SqlExecProof` hold for circuits of any size, for any
tables, values and codes, and for trees of any depth. They have hypotheses about the
queries, which `execution` has; each of the configurations on the right breaks that
one and no other, and TLC finds a query on which the circuit and SQLite differ:

| Hypothesis | Without it |
|---|---|
| `ClausesCompareValues`: no `<`, `>`, `<=`, `>=`, and literals on the right | `MCSqlRange`, `MCSqlCompare` |
| `ColumnsAreComparedOnce`: no AND has two conditions about one column | `MCSqlSameColumn` |
| `AffinityKeepsCodes`: what a column stores has the code of what it was given | `MCSqlAffinity` |
| `InsertsAreComplete`: an INSERT adds one row, with its values in the order of the columns | `MCSqlMany`, `MCSqlByName`, `MCSqlNull` |
| `UpdatesAreSelective`: an UPDATE sets literals, has a clause, and the clause is not true of a row of zeros | `MCSqlExpression`, `MCSqlUpdate`, `MCSqlPadding` |
| `IdsHavePlaces`: no id is larger than `maxRows`, that is, a table gets no more rows in its life than the matrix has | `MCSqlIds` |

`ClausesAgree` is the first three and `QueriesAgree` all of them.
`SelectsFollowTheirClauses` needs only `ClausesAgree`: whatever the writes did, if the
table can still be read, SELECT is right about it. `TypeCorrect` needs none.

The argument has four parts.

* Recursion. The prover has no induction over data, so what a recursive function
  computes is shown by a least counterexample (`LeastRank`, from the well-foundedness
  of `<`): first that the function exists at all (`RecursionExists`, used for
  `parseCondition`, for the evaluation of a clause, for sums and for `FlattenSeq`),
  then each fact about it.
* Sums. A commitment is a sum over a set, in an order nobody chose: `TotalOfElement`
  takes any element out first. From it follow that the sums of a list, of its parts
  and of a flattened list agree (`WeightOfTwo`, `WeightOfFlat`), hence that
  `genArgsCommitment` and the circuit add up the same arguments (`ArgumentsAgree`), and
  that the row INSERT appends as the last of `maxRows + 1` counts as much as at its id
  (`InsertIsHashed`).
* Clauses. `ParseAgrees`: the ORs of ANDs the parser returns hold of a row exactly
  when SQLite evaluates the tree to true; the classes it returns say how many ORs and
  ANDs there are (`Parsed`). `ClauseIsFiltered`: the matrix made of them filters the
  same rows, and has no condition in it exactly when there is no clause. Together,
  `WhereAgrees`.
* Queries. `SelectAgrees`, `DeleteAgrees` and `UpdateAgrees` say that the matrix of the
  circuit is, cell by cell, that of the table SQLite has then; after an INSERT it has
  the same rows in other places (`InsertHasRows`). `Executed` is what each write
  establishes, whatever was before it.

So `ProvedIsExecuted` follows from a single step, with the types. `WritesAreProved`
does not: it says nothing once a write on the last rows has failed, so its invariant
`Committed` says that unless that happened the table can be encoded and is the one
committed to. A table without rows whose next id is 1 has never had any, and there the
failed write has changed nothing.

Model-checked only: the liveness properties `AcceptedIsAnswered`, `ProcessesComeBack`
and `PollingSettles` (fairness is out of the provers' reach).

## 5. Not modelled

* The cryptography: Poseidon has no collisions (the sums it is applied to do) and no
  preimage of 0, and a proof is its statement.
* Two equal tokens: they are random, and the models give each call its own.
* A transaction that the RPC node accepted although its response was lost: to the
  handler the call failed, and the contract moves.
* Text: names are numbers, and the code of a value is a constant function, so the
  collisions of texts with numbers are those an instance gives it.
* The text of a query: node-sql-parser makes the tree, whose shape is modelled.
* Constraint errors of SQLite, rows given to `POST /create` other than through
  `FirstContent`.
* In the answer to a SELECT: the names of its columns, which the circuit does not
  prove, and rows whose ids have no place in the matrix, which are shown and not
  verified. `Placed` drops them, and `VerifiedIsTrueSinceAsked` speaks of the rest.
* The page of tables (`TablesSelector`) beyond the transaction and the call of
  `createTable`: its list, and that it commits to trimmed names of columns and sends
  them as typed.
* The copies of `witness_calculator.js` beside the circuits: generated by circom.
* Layout, wallet login, toasts other than the two verdicts, scripts, configuration,
  generated verifiers.
* Reorganisations of the chain.

## 6. Plan

1. Done: the contract and its theorems; the node and its theorems; the
   composition with its runs; the ledger of hashes; the circuits and the engine on one
   table, from the syntax tree on; the page of a table with its routes and its
   theorems; the theorems of the system, with the refinement of the ledger.
2. Done: the theorem about the store under the restrictions of `serial`, and those
   about the engine: every invariant and action property of a run has its theorem.
3. That `Circuit` of `ProverNode` can be taken from `SqlExec`: for the queries
   `QueriesAgree` allows, `CircuitsAgree` is what `ProvedIsDone` shows of one table.
4. A fault of the RPC node that accepts a transaction and loses its response.
