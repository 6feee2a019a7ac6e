-------------------------- MODULE ProverNodeProof --------------------------
(***************************************************************************)
(* The state of the prover processes is well formed whatever the chain     *)
(* says and however many there are; a process alone with its cache file    *)
(* never loses a table.                                                    *)
(***************************************************************************)
EXTENDS ProverNode, TLAPS

\* A process that runs has a database.
RunningHasDatabase == \A n \in Node : status[n] # "down" => Len(heap[n]) >= 1

\* The handler of a query runs in a process that is up, and the table it read
\* is still in the database object it holds: no statement drops a table.
HandlersHoldTheirTable ==
    \A j \in Active :
        /\ status[job[j].node] = "up"
        /\ job[j].obj \in 1 .. Len(heap[job[j].node])
        /\ heap[job[j].node][job[j].obj][job[j].query.table] # Absent

\* The types of the heaps rest on the other two parts: a statement runs on
\* the object the handler holds, which must be there and have the table.
WellFormed == TypeOK /\ RunningHasDatabase /\ HandlersHoldTheirTable

LEMMA AppendKeeps ==
    ASSUME NEW S, NEW s \in Seq(S), NEW e \in S
    PROVE  /\ Append(s, e) \in Seq(S)
           /\ Len(Append(s, e)) = Len(s) + 1
           /\ Len(s) \in Nat
           /\ \A i \in 1 .. Len(s) : Append(s, e)[i] = s[i]
           /\ Append(s, e)[Len(s) + 1] = e
  OBVIOUS

LEMMA ExceptKeeps ==
    ASSUME NEW S, NEW s \in Seq(S), NEW i \in 1 .. Len(s), NEW e \in S
    PROVE  /\ [s EXCEPT ![i] = e] \in Seq(S)
           /\ Len([s EXCEPT ![i] = e]) = Len(s)
           /\ \A k \in 1 .. Len(s) : [s EXCEPT ![i] = e][k] = IF k = i THEN e ELSE s[k]
  OBVIOUS

LEMMA EntryType ==
    ASSUME NEW S, NEW s \in Seq(S), NEW i \in 1 .. Len(s)
    PROVE  s[i] \in S
  OBVIOUS

\* What a handler that is not idle nor ended is.
LEMMA HandlerType ==
    ASSUME TypeOK, NEW j \in Job, job[j].pc \notin {"idle", "taken", "lost"}
    PROVE  job[j] \in Handler
  BY DEF TypeOK, Idle, Ended

LEMMA InitWellFormed == Init => WellFormed
  BY DEF Init, WellFormed, TypeOK, RunningHasDatabase, HandlersHoldTheirTable, Active,
         Idle, Unknown

\* The file, or the empty database, is a database.
LEMMA FromCacheType == TypeOK => FromCache \in Database
  BY DEF TypeOK, FromCache, NoTables, Database

\* Ending a process leaves the others as they are.
LEMMA StopWellFormed ==
    ASSUME WellFormed, NEW n \in Node, Stop(n)
    PROVE  WellFormed'
  <1>1. TypeOK
    BY DEF WellFormed
  <1>2. TypeOK'
    <2>1. heap' \in [Node -> Seq(Database)]
      BY <1>1 DEF TypeOK, Stop
    <2>2. job' \in [Job -> {Idle} \cup Ended \cup Handler]
      BY <1>1 DEF TypeOK, Stop, Ended
    <2>3. QED
      BY <1>1, <2>1, <2>2 DEF TypeOK, Stop, Unknown
  <1>3. RunningHasDatabase'
    BY <1>1 DEF WellFormed, RunningHasDatabase, TypeOK, Stop
  <1>4. HandlersHoldTheirTable'
    <2> SUFFICES ASSUME NEW j \in Active'
                 PROVE  /\ status'[job'[j].node] = "up"
                        /\ job'[j].obj \in 1 .. Len(heap'[job'[j].node])
                        /\ heap'[job'[j].node][job'[j].obj][job'[j].query.table] # Absent
      BY DEF HandlersHoldTheirTable
    <2>1. j \in Job /\ j \notin JobsOf(n) /\ job'[j] = job[j]
      BY DEF Active, Stop
    <2>2. j \in Active /\ job[j].node # n
      BY <2>1 DEF Active, JobsOf
    <2>3. job[j].node \in Node
      BY <2>2, <1>1, HandlerType DEF Active, Handler
    <2>4. status'[job[j].node] = status[job[j].node] /\ heap'[job[j].node] = heap[job[j].node]
      BY <2>2, <2>3, <1>1 DEF Stop, TypeOK
    <2>5. QED
      BY <2>1, <2>2, <2>4 DEF WellFormed, HandlersHoldTheirTable
  <1>5. QED
    BY <1>2, <1>3, <1>4 DEF WellFormed

\* Steps that touch neither a database nor a handler.
LEMMA KeepsWellFormed ==
    ASSUME WellFormed, TypeOK', heap' = heap, job' = job,
           \A n \in Node : status[n] \in {"up", "down"} => status'[n] = status[n]
    PROVE  WellFormed'
  <1>1. TypeOK
    BY DEF WellFormed
  <1>2. RunningHasDatabase'
    BY DEF WellFormed, RunningHasDatabase
  <1>3. HandlersHoldTheirTable'
    <2> SUFFICES ASSUME NEW j \in Active
                 PROVE  /\ status'[job[j].node] = "up"
                        /\ job[j].obj \in 1 .. Len(heap[job[j].node])
                        /\ heap[job[j].node][job[j].obj][job[j].query.table] # Absent
      BY DEF HandlersHoldTheirTable, Active
    <2>1. job[j].node \in Node
      BY <1>1, HandlerType DEF Active, Handler
    <2>2. QED
      BY <2>1 DEF WellFormed, HandlersHoldTheirTable
  <1>4. QED
    BY <1>2, <1>3 DEF WellFormed

LEMMA BootWellFormed ==
    ASSUME WellFormed, NEW n \in Node, Boot(n)
    PROVE  WellFormed'
  <1>1. TypeOK
    BY DEF WellFormed
  <1>2. <<FromCache>> \in Seq(Database) /\ Len(<<FromCache>>) = 1
    BY <1>1, FromCacheType
  <1>3. TypeOK'
    BY <1>1, <1>2 DEF TypeOK, Boot
  <1>4. RunningHasDatabase'
    BY <1>1, <1>2 DEF WellFormed, RunningHasDatabase, TypeOK, Boot
  <1>5. HandlersHoldTheirTable'
    <2> SUFFICES ASSUME NEW j \in Active
                 PROVE  /\ status'[job[j].node] = "up"
                        /\ job[j].obj \in 1 .. Len(heap'[job[j].node])
                        /\ heap'[job[j].node][job[j].obj][job[j].query.table] # Absent
      BY DEF HandlersHoldTheirTable, Active, Boot
    <2>1. job[j].node \in Node /\ job[j].node # n
      BY <1>1, HandlerType DEF Active, Handler, WellFormed, HandlersHoldTheirTable, Boot
    <2>2. status'[job[j].node] = status[job[j].node] /\ heap'[job[j].node] = heap[job[j].node]
      BY <2>1, <1>1 DEF Boot, TypeOK
    <2>3. QED
      BY <2>2 DEF WellFormed, HandlersHoldTheirTable
  <1>6. QED
    BY <1>3, <1>4, <1>5 DEF WellFormed

\* Steps that give a process other databases but keep the objects it has and
\* their tables.
LEMMA HeapGrowsWellFormed ==
    ASSUME WellFormed, TypeOK', status' = status, job' = job, NEW n \in Node,
           \A m \in Node \ {n} : heap'[m] = heap[m],
           Len(heap'[n]) >= Len(heap[n]),
           \A i \in 1 .. Len(heap[n]), t \in Table :
                heap[n][i][t] # Absent => heap'[n][i][t] # Absent
    PROVE  WellFormed'
  <1>1. TypeOK
    BY DEF WellFormed
  <1>2. \A m \in Node : Len(heap[m]) \in Nat /\ Len(heap'[m]) \in Nat
    BY <1>1 DEF TypeOK
  <1>3. RunningHasDatabase'
    BY <1>2 DEF WellFormed, RunningHasDatabase
  <1>4. HandlersHoldTheirTable'
    <2> SUFFICES ASSUME NEW j \in Active
                 PROVE  /\ status[job[j].node] = "up"
                        /\ job[j].obj \in 1 .. Len(heap'[job[j].node])
                        /\ heap'[job[j].node][job[j].obj][job[j].query.table] # Absent
      BY DEF HandlersHoldTheirTable, Active
    <2>1. job[j] \in Handler
      BY <1>1, HandlerType DEF Active
    <2>2. job[j].node \in Node /\ job[j].query.table \in Table /\ job[j].obj \in Nat
      BY <2>1, QueriesAreRecords DEF Handler
    <2>3. /\ status[job[j].node] = "up"
          /\ job[j].obj \in 1 .. Len(heap[job[j].node])
          /\ heap[job[j].node][job[j].obj][job[j].query.table] # Absent
      BY DEF WellFormed, HandlersHoldTheirTable
    <2>4. CASE job[j].node = n
      BY <2>2, <2>3, <2>4, <1>2
    <2>5. CASE job[j].node # n
      BY <2>2, <2>3, <2>5
    <2>6. QED
      BY <2>4, <2>5
  <1>5. QED
    BY <1>3, <1>4 DEF WellFormed

\* The database of a process that runs, as an entry of its heap.
LEMMA DbType ==
    ASSUME WellFormed, NEW n \in Node, status[n] # "down"
    PROVE  /\ Len(heap[n]) \in 1 .. Len(heap[n])
           /\ db(n) \in Database
  <1>1. heap[n] \in Seq(Database) /\ Len(heap[n]) >= 1
    BY DEF WellFormed, TypeOK, RunningHasDatabase
  <1>2. QED
    BY <1>1, EntryType DEF db

LEMMA CreateTableWellFormed ==
    ASSUME WellFormed, NEW n \in Node, NEW t \in Table, NEW c \in FirstContent,
           CreateTable(n, t, c)
    PROVE  WellFormed'
  <1> DEFINE made == [db(n) EXCEPT ![t] = c]
  <1>1. TypeOK
    BY DEF WellFormed
  <1>2. /\ heap[n] \in Seq(Database)
        /\ Len(heap[n]) \in 1 .. Len(heap[n])
        /\ db(n) \in Database
    BY <1>1, DbType DEF CreateTable, TypeOK
  <1>3. c \in Content /\ c # Absent
    BY ContentsAreNamed
  <1>4. made \in Database /\ \A u \in Table : db(n)[u] # Absent => made[u] # Absent
    BY <1>2, <1>3 DEF Database
  <1> HIDE DEF made
  <1>5. heap' = [heap EXCEPT ![n] = [heap[n] EXCEPT ![Len(heap[n])] = made]]
    BY DEF CreateTable, made
  <1>6. /\ [heap[n] EXCEPT ![Len(heap[n])] = made] \in Seq(Database)
        /\ Len([heap[n] EXCEPT ![Len(heap[n])] = made]) = Len(heap[n])
        /\ \A k \in 1 .. Len(heap[n]) : [heap[n] EXCEPT ![Len(heap[n])] = made][k]
                = IF k = Len(heap[n]) THEN made ELSE heap[n][k]
    BY <1>2, <1>4, ExceptKeeps
  <1>7. heap' \in [Node -> Seq(Database)]
    BY <1>1, <1>5, <1>6 DEF TypeOK
  <1>8. ColumnsCommit(t) \in Commitment
    BY <1>1 DEF TypeOK, CreateTable, IsPending
  <1>9. TypeOK'
    <2>1. tableCommitments' \in [Node -> [Table -> Commitment \cup Args \cup {NoCommitment}]]
      BY <1>1, <1>8 DEF TypeOK, CreateTable
    <2>2. cache' \in Database
      BY <1>4 DEF CreateTable, writeDB, made
    <2>3. QED
      BY <1>1, <1>7, <2>1, <2>2 DEF TypeOK, CreateTable
  <1>10. /\ \A m \in Node \ {n} : heap'[m] = heap[m]
         /\ Len(heap'[n]) >= Len(heap[n])
         /\ \A i \in 1 .. Len(heap[n]), u \in Table :
                heap[n][i][u] # Absent => heap'[n][i][u] # Absent
    <2>1. heap'[n] = [heap[n] EXCEPT ![Len(heap[n])] = made]
      BY <1>1, <1>5 DEF TypeOK
    <2>2. \A m \in Node \ {n} : heap'[m] = heap[m]
      BY <1>1, <1>5 DEF TypeOK
    <2>3. QED
      BY <2>1, <2>2, <1>2, <1>4, <1>6 DEF db
  <1>11. QED
    BY <1>9, <1>10, HeapGrowsWellFormed DEF CreateTable

LEMMA RefuseWellFormed ==
    ASSUME WellFormed, NEW n \in Node, Refuse(n)
    PROVE  WellFormed'
  <1>1. TypeOK
    BY DEF WellFormed
  <1>2. heap[n] \in Seq(Database) /\ FromCache \in Database
    BY <1>1, FromCacheType DEF TypeOK
  <1>3. /\ Append(heap[n], FromCache) \in Seq(Database)
        /\ Len(Append(heap[n], FromCache)) = Len(heap[n]) + 1
        /\ Len(heap[n]) \in Nat
        /\ \A i \in 1 .. Len(heap[n]) : Append(heap[n], FromCache)[i] = heap[n][i]
    BY <1>2, AppendKeeps
  <1>4. /\ heap'[n] = Append(heap[n], FromCache)
        /\ \A m \in Node \ {n} : heap'[m] = heap[m]
        /\ heap' \in [Node -> Seq(Database)]
    BY <1>1, <1>3 DEF Refuse, TypeOK
  <1>5. TypeOK'
    BY <1>1, <1>4 DEF TypeOK, Refuse
  <1>6. QED
    BY <1>3, <1>4, <1>5, HeapGrowsWellFormed DEF Refuse

\* Steps of one handler that change nothing but how far it is.
LEMMA AnswerWellFormed ==
    ASSUME WellFormed, NEW j \in Job, NEW pc, Answer(j, pc),
           job[j].pc \in {"proving", "sending", "sent"},
           pc \in {"sending", "sent", "ready", "failed", "thrown"},
           heap' = heap, status' = status, TypeOK'
    PROVE  WellFormed'
  <1>1. TypeOK
    BY DEF WellFormed
  <1>2. RunningHasDatabase'
    BY DEF WellFormed, RunningHasDatabase
  <1>3. HandlersHoldTheirTable'
    <2> SUFFICES ASSUME NEW k \in Active'
                 PROVE  /\ status[job'[k].node] = "up"
                        /\ job'[k].obj \in 1 .. Len(heap[job'[k].node])
                        /\ heap[job'[k].node][job'[k].obj][job'[k].query.table] # Absent
      BY DEF HandlersHoldTheirTable
    <2>1. job[j] \in Handler
      BY <1>1, HandlerType
    <2>2. k \in Active /\ job'[k].node = job[k].node /\ job'[k].obj = job[k].obj
                       /\ job'[k].query = job[k].query
      BY <1>1, <2>1 DEF Active, Answer, TypeOK, Handler
    <2>3. QED
      BY <2>2 DEF WellFormed, HandlersHoldTheirTable
  <1>4. QED
    BY <1>2, <1>3 DEF WellFormed

LEMMA AnswerType ==
    ASSUME TypeOK, NEW j \in Job, NEW pc, Answer(j, pc),
           job[j].pc \in {"proving", "sending", "sent"},
           pc \in {"sending", "sent", "ready", "failed", "thrown"}
    PROVE  job' \in [Job -> {Idle} \cup Ended \cup Handler]
  <1>1. job[j] \in Handler
    BY HandlerType
  <1>2. [job[j] EXCEPT !.pc = pc] \in Handler
    BY <1>1 DEF Handler
  <1>3. job' = [job EXCEPT ![j] = [job[j] EXCEPT !.pc = pc]]
    BY DEF Answer
  <1>4. QED
    BY <1>2, <1>3 DEF TypeOK

\* Steps that start a handler or take an answer away.
LEMMA StartWellFormed ==
    ASSUME WellFormed, NEW n \in Node, NEW j \in Job, NEW q \in Query,
           Start(n, j, q) \/ StartFails(n, j, q)
    PROVE  WellFormed'
  <1>1. TypeOK
    BY DEF WellFormed
  <1>2. status[n] = "up" /\ q.table \in Table
    BY QueriesAreRecords DEF Start, StartFails, MayStart
  <1>3. Len(heap[n]) \in 1 .. Len(heap[n]) /\ db(n) \in Database
    BY <1>2, DbType
  <1>4. tableCommitments[n][q.table] \in Commitment \cup Args \cup {NoCommitment}
    BY <1>1, <1>2 DEF TypeOK
  <1>5. UNCHANGED <<nodeVars, cache>>
    BY DEF Start, StartFails
  <1>6. PICK h : job' = [job EXCEPT ![j] = h] /\
                 \/ /\ h = [pc |-> "proving", node |-> n, query |-> q, obj |-> Len(heap[n]),
                            read |-> db(n)[q.table], commit |-> tableCommitments[n][q.table]]
                    /\ db(n)[q.table] # Absent
                 \/ h = [pc |-> "failed", node |-> n, query |-> q, obj |-> Len(heap[n]),
                         read |-> CHOOSE c \in Content : TRUE,
                         commit |-> tableCommitments[n][q.table]]
    BY DEF Start, StartFails
  <1>7. h \in Handler
    <2>1. db(n)[q.table] # Absent => db(n)[q.table] \in Content
      BY <1>2, <1>3 DEF Database
    <2>2. (CHOOSE c \in Content : TRUE) \in Content
      BY ContentsAreNamed
    <2>3. Len(heap[n]) \in Nat
      BY <1>3
    <2>4. QED
      BY <1>4, <1>6, <2>1, <2>2, <2>3 DEF Handler
  <1>8. TypeOK'
    BY <1>1, <1>5, <1>6, <1>7 DEF TypeOK, nodeVars
  <1>9. RunningHasDatabase'
    BY <1>5 DEF WellFormed, RunningHasDatabase, nodeVars
  <1>10. HandlersHoldTheirTable'
    <2> SUFFICES ASSUME NEW k \in Active'
                 PROVE  /\ status[job'[k].node] = "up"
                        /\ job'[k].obj \in 1 .. Len(heap[job'[k].node])
                        /\ heap[job'[k].node][job'[k].obj][job'[k].query.table] # Absent
      BY <1>5 DEF HandlersHoldTheirTable, nodeVars
    <2>1. CASE k = j
      <3>1. job'[k] = h
        BY <2>1, <1>1, <1>6 DEF TypeOK
      <3>2. QED
        BY <3>1, <1>2, <1>3, <1>6 DEF Active, db
    <2>2. CASE k # j
      <3>1. job'[k] = job[k] /\ k \in Active
        BY <2>2, <1>6 DEF Active
      <3>2. QED
        BY <3>1 DEF WellFormed, HandlersHoldTheirTable
    <2>3. QED
      BY <2>1, <2>2
  <1>11. QED
    BY <1>8, <1>9, <1>10 DEF WellFormed

LEMMA PollWellFormed ==
    ASSUME WellFormed, NEW j \in Job, Poll(j)
    PROVE  WellFormed'
  <1>1. TypeOK
    BY DEF WellFormed
  <1>2. TypeOK'
    BY <1>1 DEF TypeOK, Poll, nodeVars, Ended
  <1>3. RunningHasDatabase'
    BY DEF WellFormed, RunningHasDatabase, Poll, nodeVars
  <1>4. HandlersHoldTheirTable'
    <2> SUFFICES ASSUME NEW k \in Active'
                 PROVE  k \in Active /\ job'[k] = job[k]
      BY DEF WellFormed, HandlersHoldTheirTable, Poll, nodeVars
    <2>1. QED
      BY <1>1 DEF Active, Poll, TypeOK
  <1>5. QED
    BY <1>2, <1>3, <1>4 DEF WellFormed

LEMMA ProveWriteWellFormed ==
    ASSUME WellFormed, NEW j \in Job, ProveWrite(j)
    PROVE  WellFormed'
  <1> DEFINE q    == job[j].query
             n    == job[j].node
             i    == job[j].obj
             new  == RunSql[q][heap[n][i][q.table]]
             made == [heap[n][i] EXCEPT ![q.table] = new]
             pc   == IF new \in NoRows THEN "failed" ELSE "sending"
  <1>1. TypeOK
    BY DEF WellFormed
  <1>2. j \in Active /\ job[j].pc = "proving"
    BY DEF ProveWrite, Active
  <1>3. job[j] \in Handler
    BY <1>1, <1>2, HandlerType
  <1>4. n \in Node /\ q \in Query /\ q.table \in Table
    BY <1>3, QueriesAreRecords DEF Handler
  <1>5. heap[n] \in Seq(Database) /\ i \in 1 .. Len(heap[n]) /\ heap[n][i][q.table] # Absent
    BY <1>1, <1>2, <1>4 DEF WellFormed, HandlersHoldTheirTable, TypeOK
  <1>6. heap[n][i] \in Database
    <2> HIDE DEF q, n, i, new, made, pc
    <2>1. PICK s, k : s \in Seq(Database) /\ k \in 1 .. Len(s) /\ s = heap[n] /\ k = i
      BY <1>5
    <2>2. s[k] \in Database
      BY <2>1, EntryType
    <2>3. QED
      BY <2>1, <2>2
  <1>7. new \in Content
    <2> DEFINE read == heap[n][i][q.table]
    <2>1. read \in Content
      BY <1>4, <1>5, <1>6 DEF Database
    <2>2. RunSql[q] \in [Content -> Content]
      BY <1>4, FunctionsOfContents
    <2> HIDE DEF read
    <2>3. RunSql[q][read] \in Content
      BY <2>1, <2>2
    <2>4. QED
      BY <2>3 DEF read
  <1>8. made \in Database /\ \A u \in Table : heap[n][i][u] # Absent => made[u] # Absent
    BY <1>4, <1>6, <1>7, ContentsAreNamed DEF Database
  <1>9. heap' = [heap EXCEPT ![n] = [heap[n] EXCEPT ![i] = made]] /\ Answer(j, pc)
    BY DEF ProveWrite
  <1> HIDE DEF made, new
  <1>10. /\ [heap[n] EXCEPT ![i] = made] \in Seq(Database)
         /\ Len([heap[n] EXCEPT ![i] = made]) = Len(heap[n])
         /\ \A k \in 1 .. Len(heap[n]) :
                [heap[n] EXCEPT ![i] = made][k] = IF k = i THEN made ELSE heap[n][k]
    BY <1>5, <1>8, ExceptKeeps
  <1>11. heap' \in [Node -> Seq(Database)]
    BY <1>1, <1>9, <1>10 DEF TypeOK
  <1>12. job' \in [Job -> {Idle} \cup Ended \cup Handler]
    BY <1>1, <1>2, <1>9, AnswerType
  <1>13. TypeOK'
    BY <1>1, <1>11, <1>12 DEF TypeOK, ProveWrite
  <1>14. RunningHasDatabase'
    <2> SUFFICES ASSUME NEW m \in Node, status[m] # "down"
                 PROVE  Len(heap'[m]) >= 1
      BY DEF RunningHasDatabase, ProveWrite
    <2>1. Len(heap'[m]) = Len(heap[m])
      BY <1>1, <1>4, <1>9, <1>10 DEF TypeOK
    <2>2. QED
      BY <2>1 DEF WellFormed, RunningHasDatabase
  <1>15. HandlersHoldTheirTable'
    <2> SUFFICES ASSUME NEW k \in Active'
                 PROVE  /\ status[job'[k].node] = "up"
                        /\ job'[k].obj \in 1 .. Len(heap'[job'[k].node])
                        /\ heap'[job'[k].node][job'[k].obj][job'[k].query.table] # Absent
      BY DEF HandlersHoldTheirTable, ProveWrite
    <2>1. /\ k \in Active /\ job'[k].node = job[k].node
          /\ job'[k].obj = job[k].obj /\ job'[k].query = job[k].query
      BY <1>1, <1>2, <1>3, <1>9 DEF Active, Answer, TypeOK, Handler
    <2>2. job[k] \in Handler
      BY <1>1, <2>1, HandlerType DEF Active
    <2>3. job[k].node \in Node /\ job[k].query.table \in Table
      BY <2>2, QueriesAreRecords DEF Handler
    <2>4. /\ status[job[k].node] = "up"
          /\ job[k].obj \in 1 .. Len(heap[job[k].node])
          /\ heap[job[k].node][job[k].obj][job[k].query.table] # Absent
      BY <2>1 DEF WellFormed, HandlersHoldTheirTable
    <2>5. CASE job[k].node = n
      <3>1. heap'[n] = [heap[n] EXCEPT ![i] = made]
        BY <1>1, <1>4, <1>9 DEF TypeOK
      <3>2. job[k].obj \in 1 .. Len(heap[n]) /\ heap[n][job[k].obj][job[k].query.table] # Absent
        BY <2>4, <2>5
      <3>3. Len(heap'[n]) = Len(heap[n])
        BY <3>1, <1>10
      <3>4. heap'[n][job[k].obj] = IF job[k].obj = i THEN made ELSE heap[n][job[k].obj]
        BY <3>1, <3>2, <1>10
      <3>5. heap'[n][job[k].obj][job[k].query.table] # Absent
        <4>1. CASE job[k].obj = i
          <5>1. heap[n][i][job[k].query.table] # Absent
            BY <3>2, <4>1
          <5>2. made[job[k].query.table] # Absent
            BY <2>3, <5>1, <1>8
          <5>3. heap'[n][job[k].obj] = made
            BY <3>4, <4>1
          <5>4. QED
            BY <5>2, <5>3
        <4>2. CASE job[k].obj # i
          <5>1. heap'[n][job[k].obj] = heap[n][job[k].obj]
            BY <3>4, <4>2
          <5>2. QED
            BY <3>2, <5>1
        <4>3. QED
          BY <4>1, <4>2
      <3>6. QED
        BY <2>1, <2>4, <2>5, <3>2, <3>3, <3>5
    <2>6. CASE job[k].node # n
      <3>1. heap'[job[k].node] = heap[job[k].node]
        BY <1>1, <1>9, <2>3, <2>6 DEF TypeOK
      <3>2. QED
        BY <2>1, <2>4, <3>1
    <2>7. QED
      BY <2>5, <2>6
  <1>16. QED
    BY <1>13, <1>14, <1>15 DEF WellFormed

LEMMA FinishWellFormed ==
    ASSUME WellFormed, NEW j \in Job, Finish(j)
    PROVE  WellFormed'
  <1>1. TypeOK
    BY DEF WellFormed
  <1>2. job[j] \in Handler /\ j \in Active
    BY <1>1, HandlerType DEF Finish, Active
  <1>3. /\ job[j].node \in Node /\ job[j].query.table \in Table /\ job[j].query.args \in Args
        /\ status[job[j].node] = "up"
    BY <1>2, QueriesAreRecords DEF Handler, WellFormed, HandlersHoldTheirTable
  <1>4. db(job[j].node) \in Database
    BY <1>3, DbType
  <1>5. tableCommitments' \in [Node -> [Table -> Commitment \cup Args \cup {NoCommitment}]]
    BY <1>1, <1>3 DEF Finish, TypeOK
  <1>6. job' \in [Job -> {Idle} \cup Ended \cup Handler]
    BY <1>1, AnswerType DEF Finish
  <1>7. TypeOK'
    BY <1>1, <1>4, <1>5, <1>6 DEF TypeOK, Finish, writeDB
  <1>8. QED
    BY <1>7, AnswerWellFormed DEF Finish

LEMMA NextWellFormed == WellFormed /\ [Next]_vars => WellFormed'
  <1> SUFFICES ASSUME WellFormed, [Next]_vars
               PROVE  WellFormed'
    OBVIOUS
  <1> USE DEF vars, nodeVars
  <1>1. TypeOK
    BY DEF WellFormed
  <1>2. ASSUME NEW n \in Node, Boot(n)
        PROVE  WellFormed'
    BY <1>2, BootWellFormed
  <1>3. ASSUME NEW n \in Node, Listen(n)
        PROVE  WellFormed'
    <2>1. TypeOK'
      BY <1>1, <1>3 DEF TypeOK, Listen, Listed
    <2>2. QED
      BY <1>1, <1>3, <2>1, KeepsWellFormed DEF Listen, AllRead, TypeOK
  <1>4. ASSUME NEW n \in Node, BootFails(n) \/ Crash(n)
        PROVE  WellFormed'
    BY <1>4, StopWellFormed DEF BootFails, Crash
  <1>5. ASSUME NEW n \in Node, Refuse(n)
        PROVE  WellFormed'
    BY <1>5, RefuseWellFormed
  <1>6. ASSUME NEW n \in Node, NEW t \in Table, NEW c \in FirstContent, CreateTable(n, t, c)
        PROVE  WellFormed'
    BY <1>6, CreateTableWellFormed
  <1>7. ASSUME NEW n \in Node, NEW j \in Job, NEW q \in Query, Start(n, j, q) \/ StartFails(n, j, q)
        PROVE  WellFormed'
    BY <1>7, StartWellFormed
  <1>8. ASSUME NEW j \in Job, ProveSelect(j) \/ ProveFails(j) \/ SendOk(j) \/ SendThrows(j)
        PROVE  WellFormed'
    <2>1. PICK pc \in {"sent", "ready", "failed", "thrown"} : Answer(j, pc)
      <3>1. CASE ProveSelect(j)
        BY <3>1 DEF ProveSelect
      <3>2. CASE ProveFails(j)
        BY <3>2 DEF ProveFails
      <3>3. CASE SendOk(j)
        BY <3>3 DEF SendOk
      <3>4. CASE SendThrows(j)
        BY <3>4 DEF SendThrows
      <3>5. QED
        BY <1>8, <3>1, <3>2, <3>3, <3>4
    <2>2. job[j].pc \in {"proving", "sending"} /\ UNCHANGED <<nodeVars, cache>>
      BY <1>8 DEF ProveSelect, ProveFails, SendOk, SendThrows
    <2>3. job' \in [Job -> {Idle} \cup Ended \cup Handler]
      BY <1>1, <2>1, <2>2, AnswerType
    <2>4. TypeOK'
      BY <1>1, <2>2, <2>3 DEF TypeOK
    <2>5. QED
      BY <2>1, <2>2, <2>4, AnswerWellFormed
  <1>9. ASSUME NEW j \in Job, ProveWrite(j)
        PROVE  WellFormed'
    BY <1>9, ProveWriteWellFormed
  <1>10. ASSUME NEW j \in Job, Finish(j)
         PROVE  WellFormed'
    BY <1>10, FinishWellFormed
  <1>11. ASSUME NEW j \in Job, Poll(j)
         PROVE  WellFormed'
    BY <1>11, PollWellFormed
  <1>12. ASSUME NEW n \in Node, NEW tables \in SUBSET Table, ListTables(n, tables)
         PROVE  WellFormed'
    <2>1. TypeOK'
      BY <1>1, <1>12 DEF TypeOK, ListTables
    <2>2. QED
      BY <1>1, <1>12, <2>1, KeepsWellFormed DEF ListTables, TypeOK
  <1>13. ASSUME NEW n \in Node, NEW t \in Table, NEW c \in Commitment,
                ReadCommitment(n, t, c) \/ OnTableUpdated(n, t, c)
         PROVE  WellFormed'
    <2>1. TypeOK'
      <3>1. tableCommitments' = [tableCommitments EXCEPT ![n] =
                                    [tableCommitments[n] EXCEPT ![t] = c]]
        BY <1>13 DEF ReadCommitment, OnTableUpdated
      <3>2. tableCommitments' \in [Node -> [Table -> Commitment \cup Args \cup {NoCommitment}]]
        BY <1>1, <3>1 DEF TypeOK
      <3>3. unread' \in [Node -> SUBSET Table]
        <4>1. unread[n] \in SUBSET Table
          BY <1>1 DEF TypeOK
        <4>2. unread[n] \ {t} \in SUBSET Table
          BY <4>1
        <4>3. unread' = [unread EXCEPT ![n] = unread[n] \ {t}] \/ unread' = unread
          BY <1>13 DEF ReadCommitment, OnTableUpdated
        <4>4. unread \in [Node -> SUBSET Table]
          BY <1>1 DEF TypeOK
        <4>5. QED
          BY <4>2, <4>3, <4>4
      <3>4. UNCHANGED <<status, heap, knownTables, pendingRequests,
                        pendingTablesToCreate, job, cache>>
        BY <1>13 DEF ReadCommitment, OnTableUpdated
      <3>5. QED
        BY <1>1, <3>2, <3>3, <3>4 DEF TypeOK
    <2>2. QED
      BY <1>13, <2>1, KeepsWellFormed DEF ReadCommitment, OnTableUpdated
  <1>14. ASSUME NEW n \in Node, NEW a \in Args, OnRequestPosted(n, a)
         PROVE  WellFormed'
    <2>1. TypeOK'
      BY <1>1, <1>14 DEF TypeOK, OnRequestPosted
    <2>2. QED
      BY <1>14, <2>1, KeepsWellFormed DEF OnRequestPosted
  <1>15. ASSUME NEW n \in Node, NEW c \in Commitment, OnTableCreated(n, c)
         PROVE  WellFormed'
    <2>1. TypeOK'
      BY <1>1, <1>15 DEF TypeOK, OnTableCreated
    <2>2. QED
      BY <1>15, <2>1, KeepsWellFormed DEF OnTableCreated
  <1>16. CASE UNCHANGED vars
    <2>1. TypeOK'
      BY <1>1, <1>16 DEF TypeOK
    <2>2. QED
      BY <1>16, <2>1, KeepsWellFormed
  <1>17. QED
    BY <1>2, <1>3, <1>4, <1>5, <1>6, <1>7, <1>8, <1>9, <1>10, <1>11, <1>12, <1>13, <1>14,
       <1>15, <1>16 DEF Next, LocalStep, ChainStep

LEMMA AlwaysWellFormed == Spec => []WellFormed
  BY InitWellFormed, NextWellFormed, PTL DEF Spec

\* The state keeps its types whatever the chain answers.
THEOREM TypeCorrect == Spec => []TypeOK
  BY AlwaysWellFormed, PTL DEF WellFormed

\* However handlers interleave, reload and end, every statement runs on a
\* database object that is there and has its table.
THEOREM StatementsFindTheirTable == Spec => []HandlersHoldTheirTable
  BY AlwaysWellFormed, PTL DEF WellFormed

-----------------------------------------------------------------------------
\* One process has the cache file for itself (NB_INSTANCES is 1).
OneProcess == \A m, n \in Node : m = n

\* The tables of the database are those of the file: creating a table writes
\* the file, and nothing else changes which tables there are.
InStep ==
    \A n \in Node : status[n] # "down" => \A t \in Table : db(n)[t] # Absent <=> Stored(t)

\* KnownTablesExist needs InStep where the database is reloaded, and InStep
\* needs well-formed handlers where a statement runs.
Durable == WellFormed /\ InStep /\ KnownTablesExist

LEMMA InitDurable == Init => Durable
  BY InitWellFormed DEF Init, Durable, InStep, KnownTablesExist

\* Steps that leave the databases, the file and the known tables alone.
LEMMA KeepsDurable ==
    ASSUME Durable, heap' = heap, cache' = cache,
           \A n \in Node : status'[n] # "down" => status[n] # "down",
           \A n \in Node : status'[n] = "up" => status[n] = "up" /\ knownTables'[n] = knownTables[n]
    PROVE  InStep' /\ KnownTablesExist' /\ \A t \in Table : Stored(t) => Stored(t)'
  BY DEF Durable, InStep, KnownTablesExist, Stored, db

\* Steps of the only process n after which its database has the tables that
\* the file has, and all those it had before.
LEMMA StepsDurable ==
    ASSUME Durable, OneProcess, NEW n \in Node, status[n] # "down", status' = status,
           \A t \in Table : db(n)'[t] # Absent <=> Stored(t)',
           \A t \in Table : db(n)[t] # Absent => db(n)'[t] # Absent,
           \A t \in knownTables'[n] \ knownTables[n] : db(n)'[t] # Absent,
           knownTables[n] \in SUBSET Table
    PROVE  InStep' /\ KnownTablesExist' /\ \A t \in Table : Stored(t) => Stored(t)'
  <1>1. \A m \in Node : m = n
    BY DEF OneProcess
  <1>2. InStep'
    BY <1>1 DEF InStep
  <1>3. KnownTablesExist'
    BY <1>1 DEF Durable, KnownTablesExist
  <1>4. \A t \in Table : Stored(t) => Stored(t)'
    BY DEF Durable, InStep
  <1>5. QED
    BY <1>2, <1>3, <1>4

\* A file was read into a database, or a database written to the file.
LEMMA FileHolds ==
    ASSUME NEW d \in Database
    PROVE  /\ cache' = d => \A t \in Table : Stored(t)' <=> d[t] # Absent
           /\ d = FromCache => \A t \in Table : Stored(t) <=> d[t] # Absent
  <1>1. d # NoFile
    BY CacheIsADatabase
  <1>2. QED
    BY <1>1 DEF Stored, FromCache, NoTables

LEMMA BootDurable ==
    ASSUME Durable, OneProcess, NEW n \in Node, Boot(n)
    PROVE  InStep' /\ KnownTablesExist' /\ \A t \in Table : Stored(t) => Stored(t)'
  <1>1. TypeOK /\ \A m \in Node : m = n
    BY DEF Durable, WellFormed, OneProcess
  <1>2. heap'[n] = <<FromCache>> /\ status'[n] = "loaded" /\ cache' = cache
    BY <1>1 DEF Boot, TypeOK
  <1>3. db(n)' = FromCache
    BY <1>2 DEF db
  <1>4. \A t \in Table : db(n)'[t] # Absent <=> Stored(t)'
    BY <1>1, <1>2, <1>3, FromCacheType, FileHolds DEF Stored
  <1>5. InStep' /\ KnownTablesExist'
    BY <1>1, <1>2, <1>4 DEF InStep, KnownTablesExist
  <1>6. QED
    BY <1>2, <1>5 DEF Stored

LEMMA StopDurable ==
    ASSUME Durable, OneProcess, NEW n \in Node, Stop(n)
    PROVE  InStep' /\ KnownTablesExist' /\ \A t \in Table : Stored(t) => Stored(t)'
  <1>1. \A m \in Node : status'[m] = "down"
    BY DEF Durable, WellFormed, TypeOK, OneProcess, Stop
  <1>2. QED
    BY <1>1 DEF InStep, KnownTablesExist, Stored, Stop

LEMMA ListenDurable ==
    ASSUME Durable, OneProcess, NEW n \in Node, Listen(n)
    PROVE  InStep' /\ KnownTablesExist' /\ \A t \in Table : Stored(t) => Stored(t)'
  <1>1. \A m \in Node : m = n
    BY DEF OneProcess
  <1>2. /\ status[n] # "down" /\ heap' = heap /\ cache' = cache
        /\ knownTables'[n] = Listed(n)
        /\ \A t \in Listed(n) : db(n)[t] # Absent
    BY DEF Durable, WellFormed, TypeOK, Listen, AllRead
  <1>3. InStep'
    BY <1>1, <1>2 DEF Durable, InStep, Stored, db
  <1>4. KnownTablesExist'
    BY <1>1, <1>2 DEF KnownTablesExist, db
  <1>5. QED
    BY <1>2, <1>3, <1>4 DEF Stored

LEMMA CreateTableDurable ==
    ASSUME Durable, OneProcess, NEW n \in Node, NEW t \in Table, NEW c \in FirstContent,
           CreateTable(n, t, c)
    PROVE  InStep' /\ KnownTablesExist' /\ \A u \in Table : Stored(u) => Stored(u)'
  <1> DEFINE made == [db(n) EXCEPT ![t] = c]
  <1>1. WellFormed /\ TypeOK /\ status[n] # "down"
    BY DEF Durable, WellFormed, CreateTable
  <1>2. heap[n] \in Seq(Database) /\ Len(heap[n]) \in 1 .. Len(heap[n]) /\ db(n) \in Database
    BY <1>1, DbType DEF TypeOK
  <1>3. c \in Content /\ c # Absent
    BY ContentsAreNamed
  <1>4. made \in Database /\ made[t] # Absent
            /\ \A u \in Table : db(n)[u] # Absent => made[u] # Absent
    BY <1>2, <1>3 DEF Database
  <1>5. heap' = [heap EXCEPT ![n] = [heap[n] EXCEPT ![Len(heap[n])] = made]]
            /\ cache' = made /\ status' = status
    BY DEF CreateTable, writeDB
  <1> HIDE DEF made
  <1>6. db(n)' = made
    <2>1. heap'[n] = [heap[n] EXCEPT ![Len(heap[n])] = made]
      BY <1>1, <1>5 DEF TypeOK
    <2>2. QED
      BY <2>1, <1>2, <1>4, ExceptKeeps DEF db
  <1>7. knownTables'[n] = knownTables[n] \cup {t} /\ knownTables[n] \in SUBSET Table
    BY <1>1 DEF TypeOK, CreateTable
  <1>8. \A u \in Table : db(n)'[u] # Absent <=> Stored(u)'
    BY <1>4, <1>5, <1>6, FileHolds
  <1>9. QED
    BY <1>1, <1>4, <1>5, <1>6, <1>7, <1>8, StepsDurable

LEMMA RefuseDurable ==
    ASSUME Durable, OneProcess, NEW n \in Node, Refuse(n)
    PROVE  InStep' /\ KnownTablesExist' /\ \A t \in Table : Stored(t) => Stored(t)'
  <1>1. WellFormed /\ TypeOK /\ status[n] # "down"
    BY DEF Durable, WellFormed, Refuse
  <1>2. heap[n] \in Seq(Database) /\ FromCache \in Database
    BY <1>1, FromCacheType DEF TypeOK
  <1>3. heap'[n] = Append(heap[n], FromCache) /\ cache' = cache /\ status' = status
            /\ knownTables' = knownTables /\ knownTables[n] \in SUBSET Table
    BY <1>1 DEF TypeOK, Refuse
  <1>4. db(n)' = FromCache
    BY <1>2, <1>3, AppendKeeps DEF db
  <1>5. \A t \in Table : db(n)'[t] # Absent <=> Stored(t)
    BY <1>2, <1>4, FileHolds
  <1>6. \A t \in Table : Stored(t)' <=> Stored(t)
    BY <1>3 DEF Stored
  <1>7. \A t \in Table : db(n)[t] # Absent <=> Stored(t)
    BY <1>1 DEF Durable, InStep
  <1>8. QED
    BY <1>1, <1>3, <1>5, <1>6, <1>7, StepsDurable

LEMMA ProveWriteDurable ==
    ASSUME Durable, OneProcess, NEW j \in Job, ProveWrite(j),
           NEW n \in Node, n = job[j].node
    PROVE  InStep' /\ KnownTablesExist' /\ \A t \in Table : Stored(t) => Stored(t)'
  <1> DEFINE q    == job[j].query
             i    == job[j].obj
             new  == RunSql[q][heap[n][i][q.table]]
             made == [heap[n][i] EXCEPT ![q.table] = new]
  <1>1. WellFormed /\ TypeOK
    BY DEF Durable, WellFormed
  <1>2. j \in Active /\ job[j] \in Handler
    BY <1>1, HandlerType DEF ProveWrite, Active
  <1>3. n \in Node /\ q \in Query /\ q.table \in Table
    BY <1>2, QueriesAreRecords DEF Handler
  <1>4. /\ heap[n] \in Seq(Database) /\ i \in 1 .. Len(heap[n])
        /\ heap[n][i][q.table] # Absent /\ status[n] = "up"
    BY <1>1, <1>2, <1>3 DEF WellFormed, HandlersHoldTheirTable, TypeOK
  <1>5. heap[n][i] \in Database
    BY <1>4, EntryType
  <1>6. new \in Content
    <2>1. heap[n][i][q.table] \in Content
      BY <1>3, <1>4, <1>5 DEF Database
    <2>2. RunSql[q] \in [Content -> Content]
      BY <1>3, FunctionsOfContents
    <2>3. QED
      BY <2>1, <2>2
  <1>7. made \in Database /\ \A u \in Table : heap[n][i][u] # Absent <=> made[u] # Absent
    BY <1>3, <1>4, <1>5, <1>6, ContentsAreNamed DEF Database
  <1>8. heap' = [heap EXCEPT ![n] = [heap[n] EXCEPT ![i] = made]]
            /\ cache' = cache /\ status' = status /\ knownTables' = knownTables
    BY DEF ProveWrite
  <1> HIDE DEF made, new
  <1>9. /\ Len([heap[n] EXCEPT ![i] = made]) = Len(heap[n])
        /\ \A k \in 1 .. Len(heap[n]) :
                [heap[n] EXCEPT ![i] = made][k] = IF k = i THEN made ELSE heap[n][k]
    BY <1>4, <1>7, ExceptKeeps
  <1>10. heap'[n] = [heap[n] EXCEPT ![i] = made]
    BY <1>1, <1>3, <1>8 DEF TypeOK
  <1>11. Len(heap[n]) \in 1 .. Len(heap[n])
    BY <1>4
  <1>12. \A u \in Table : db(n)'[u] # Absent <=> db(n)[u] # Absent
    <2>1. Len(heap'[n]) = Len(heap[n])
      BY <1>9, <1>10
    <2>2. heap'[n][Len(heap[n])] = IF Len(heap[n]) = i THEN made ELSE heap[n][Len(heap[n])]
      BY <1>9, <1>10, <1>11
    <2>3. db(n)' = IF Len(heap[n]) = i THEN made ELSE db(n)
      BY <2>1, <2>2 DEF db
    <2>4. QED
      BY <2>3, <1>7 DEF db
  <1>13. \A u \in Table : Stored(u)' <=> db(n)[u] # Absent
    BY <1>3, <1>4, <1>8 DEF Durable, InStep, Stored
  <1>14. knownTables[n] \in SUBSET Table /\ knownTables'[n] = knownTables[n]
    BY <1>1, <1>3, <1>8 DEF TypeOK
  <1>15. QED
    BY <1>3, <1>4, <1>8, <1>12, <1>13, <1>14, StepsDurable

LEMMA FinishDurable ==
    ASSUME Durable, OneProcess, NEW j \in Job, Finish(j),
           NEW n \in Node, n = job[j].node
    PROVE  InStep' /\ KnownTablesExist' /\ \A t \in Table : Stored(t) => Stored(t)'
  <1>1. WellFormed /\ TypeOK
    BY DEF Durable, WellFormed
  <1>2. job[j] \in Handler /\ j \in Active
    BY <1>1, HandlerType DEF Finish, Active
  <1>3. n \in Node /\ status[n] = "up"
    BY <1>1, <1>2 DEF Handler, WellFormed, HandlersHoldTheirTable
  <1>4. cache' = db(n) /\ heap' = heap /\ status' = status /\ knownTables' = knownTables
    BY DEF Finish, writeDB
  <1>5. db(n) \in Database /\ knownTables[n] \in SUBSET Table
    BY <1>1, <1>3, DbType DEF TypeOK
  <1>6. \A t \in Table : Stored(t)' <=> db(n)[t] # Absent
    BY <1>4, <1>5, FileHolds
  <1>7. \A m \in Node : m = n
    BY <1>3 DEF OneProcess
  <1>8. InStep'
    BY <1>4, <1>6, <1>7 DEF InStep, db
  <1>9. KnownTablesExist'
    BY <1>4 DEF Durable, KnownTablesExist, db
  <1>10. \A t \in Table : Stored(t) => Stored(t)'
    BY <1>3, <1>6 DEF Durable, InStep
  <1>11. QED
    BY <1>8, <1>9, <1>10

LEMMA NextDurable ==
    OneProcess /\ Durable /\ [Next]_vars
        => Durable' /\ \A t \in Table : Stored(t) => Stored(t)'
  <1> SUFFICES ASSUME OneProcess, Durable, [Next]_vars
               PROVE  Durable' /\ \A t \in Table : Stored(t) => Stored(t)'
    OBVIOUS
  <1> USE DEF vars, nodeVars
  <1> DEFINE Goal == InStep' /\ KnownTablesExist' /\ \A t \in Table : Stored(t) => Stored(t)'
  <1>1. WellFormed'
    BY NextWellFormed DEF Durable
  <1>2. TypeOK
    BY DEF Durable, WellFormed
  <1>3. ASSUME NEW n \in Node,
               Boot(n) \/ Listen(n) \/ BootFails(n) \/ Crash(n) \/ Refuse(n)
        PROVE  Goal
    BY <1>3, BootDurable, ListenDurable, StopDurable, RefuseDurable DEF BootFails, Crash
  <1>4. ASSUME NEW n \in Node, NEW t \in Table, NEW c \in FirstContent, CreateTable(n, t, c)
        PROVE  Goal
    BY <1>4, CreateTableDurable
  <1>5. ASSUME NEW j \in Job, ProveWrite(j) \/ Finish(j)
        PROVE  Goal
    <2>1. job[j].node \in Node
      BY <1>2, <1>5, HandlerType DEF ProveWrite, Finish, Handler
    <2>2. QED
      BY <1>5, <2>1, ProveWriteDurable, FinishDurable
  <1>6. ASSUME NEW n \in Node, NEW tables \in SUBSET Table, ListTables(n, tables)
        PROVE  Goal
    <2>1. \A m \in Node : /\ status'[m] # "down" => status[m] # "down"
                          /\ status'[m] = "up" => status[m] = "up"
      BY <1>2, <1>6 DEF ListTables, TypeOK
    <2>2. QED
      BY <1>6, <2>1, KeepsDurable DEF ListTables
  <1>7. ASSUME UNCHANGED <<status, heap, knownTables, cache>>
        PROVE  Goal
    BY <1>7, KeepsDurable
  <1>8. ASSUME NEW j \in Job, ProveSelect(j) \/ ProveFails(j) \/ Poll(j) \/ SendOk(j) \/ SendThrows(j)
        PROVE  Goal
    BY <1>7, <1>8 DEF ProveSelect, ProveFails, Poll, SendOk, SendThrows, nodeVars
  <1>9. ASSUME NEW n \in Node, NEW j \in Job, NEW q \in Query, Start(n, j, q) \/ StartFails(n, j, q)
         PROVE  Goal
    BY <1>7, <1>9 DEF Start, StartFails, nodeVars
  <1>10. ASSUME NEW n \in Node, NEW t \in Table, NEW c \in Commitment,
                ReadCommitment(n, t, c) \/ OnTableUpdated(n, t, c)
         PROVE  Goal
    BY <1>7, <1>10 DEF ReadCommitment, OnTableUpdated
  <1>11. ASSUME NEW n \in Node, NEW a \in Args, OnRequestPosted(n, a)
         PROVE  Goal
    BY <1>7, <1>11 DEF OnRequestPosted
  <1>12. ASSUME NEW n \in Node, NEW c \in Commitment, OnTableCreated(n, c)
         PROVE  Goal
    BY <1>7, <1>12 DEF OnTableCreated
  <1>13. ASSUME UNCHANGED vars
         PROVE  Goal
    BY <1>13, KeepsDurable
  <1> HIDE DEF Goal
  <1>14. Goal
    <2>1. CASE LocalStep
      BY <2>1, <1>3, <1>4, <1>5, <1>8, <1>9 DEF LocalStep
    <2>2. CASE ChainStep
      BY <2>2, <1>6, <1>8, <1>10, <1>11, <1>12 DEF ChainStep
    <2>3. QED
      BY <2>1, <2>2, <1>13 DEF Next
  <1>15. QED
    BY <1>1, <1>14 DEF Durable, Goal

\* A process that has the cache file for itself offers no table it does not
\* have, across reloads, writes of the file, ends and restarts.
THEOREM KnownTablesAreThere ==
    ASSUME OneProcess
    PROVE  Spec => []KnownTablesExist
  <1>1. Durable /\ [Next]_vars => Durable'
    BY NextDurable
  <1>2. Durable => KnownTablesExist
    BY DEF Durable
  <1>3. QED
    BY InitDurable, <1>1, <1>2, PTL DEF Spec

\* And no table ever leaves its cache file.
THEOREM TablesAreDurable ==
    ASSUME OneProcess
    PROVE  Spec => StoredTablesStay
  <1>1. Durable /\ [Next]_vars => Durable'
    BY NextDurable
  <1>2. Durable /\ [Next]_vars => [\A t \in Table : Stored(t) => Stored(t)']_vars
    BY NextDurable
  <1>3. QED
    BY InitDurable, <1>1, <1>2, PTL DEF Spec, StoredTablesStay

=============================================================================
