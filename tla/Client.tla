------------------------------- MODULE Client -------------------------------
(***************************************************************************)
(* The page of one table (ui TableView) with the routes it calls           *)
(* (ui/pages/api) and the client library behind them (lib/client): a       *)
(* submission is prepared, requested from the node, polled for and         *)
(* verified.  Several submissions may be under way.                        *)
(*                                                                         *)
(* Around it, the table moves on chain as it likes, and the node answers   *)
(* as it likes: any rows and any proof that proves something.  A proof is  *)
(* the statement it proves: its circuit and its public signals, which for  *)
(* a write are a hash of the arguments that other queries share.           *)
(***************************************************************************)
EXTENDS Naturals, Sequences

CONSTANTS
    Submission,     \* uses of the form, and the query of the first display
    First,          \* the submission of the first display
    Query,          \* SQL queries: records with at least type
    Display,        \* the query of the first display
    Input,          \* public signals that say what is asked
    Inputs,         \* Inputs[q]: those of q (conditions, or hash of arguments)
    Closure,        \* renderings of the page, each with a counter of its own
    closure,        \* closure[s]: the rendering s was submitted from
    Content,        \* contents of the table
    Hash,           \* Hash[c]: the commitment of a content
    Output,         \* Output[q][c]: what the circuit of q puts out on c
    Signal,         \* matrices of results, commitments
    Rows,           \* lists of rows, as a node sends and the page shows them
    Placed,         \* Placed[r]: the matrix formatForCircuit makes of r
    RowCount,       \* RowCount[r]: the length of r
    NoRows,         \* the page before its first answer
    NoChange,       \* the changeCommit of a SELECT
    Failed,         \* the answer that is an error
    NoReply,        \* no answer yet
    NoProof,        \* no proof to download
    maxRows,        \* NEXT_PUBLIC_MAX_ROWS
    MaxTries,       \* 20 in the code
    MaxMoves        \* bound: changes of the table

Statement(q, old, out) == [type |-> q.type, asks |-> Inputs[q], old |-> old, out |-> out]
Provable  == {Statement(q, Hash[c], Output[q][c]) : q \in Query, c \in Content}
Reply     == [rows : Rows, changeCommit : Signal \cup {NoChange}, proof : Provable]

ASSUME SubmissionsAreQueries == First \in Submission /\ Display \in Query
ASSUME QueriesHaveInputs == Inputs \in [Query -> Input]
\* The columns and the conditions of a SELECT are public signals, all of them;
\* those of a write are not, and only their sum is hashed.
ASSUME SelectsArePublic ==
    \A q, r \in Query :
        q.type = "select" /\ r.type = "select" /\ Inputs[q] = Inputs[r] => Output[q] = Output[r]
ASSUME EachHasAClosure == closure \in [Submission -> Closure]
ASSUME CircuitsPutOutSignals ==
    /\ Output \in [Query -> [Content -> Signal]]
    /\ Placed \in [Rows -> Signal]
ASSUME RowsCount == NoRows \in Rows /\ RowCount \in [Rows -> Nat]
ASSUME Bounds == {maxRows, MaxTries, MaxMoves} \subseteq Nat
ASSUME SentinelsAreNoData ==
    Failed # NoReply /\ {Failed, NoReply} \cap Reply = {} /\ NoProof \notin Submission

VARIABLES
    history,        \* the contents the contract was committed to, in order
    box,            \* where the node's answer to a submission is
    reply,          \* what the answer is
    pc,             \* how far a submission is
    sql,            \* what is submitted
    asked,          \* the length of the history when it was submitted
    tableCommit,    \* the commitment the route read for it
    said,           \* the verdicts shown about a submission
    reqMade,        \* polls not ready, per closure
    isLoading, numRows, dataLength, values, proof   \* state of the page

chainVars == <<history>>
nodeVars  == <<box, reply>>
subVars   == <<pc, sql, asked, tableCommit, said>>
pageVars  == <<reqMade, isLoading, numRows, dataLength, values, proof>>
vars      == <<chainVars, nodeVars, subVars, pageVars>>

Node == INSTANCE Answers WITH Token <- Submission

Stage == {"unsent", "refused", "preparing", "wallet", "posting", "posted",
          "polling", "verifying", "done", "error", "stuck"}

TypeOK ==
    /\ history \in Seq(Content) /\ Len(history) >= 1
    /\ box \in [Submission -> {"none", "working", "answered", "taken", "lost"}]
    /\ reply \in [Submission -> Reply \cup {Failed, NoReply}]
    /\ pc \in [Submission -> Stage]
    /\ sql \in [Submission -> Query]
    /\ asked \in [Submission -> Nat]
    /\ tableCommit \in [Submission -> {Hash[c] : c \in Content}]
    /\ said \in [Submission -> SUBSET {"failed", "verified"}]
    /\ reqMade \in [Closure -> 0 .. MaxTries + 1]
    /\ isLoading \in BOOLEAN
    /\ numRows \in Nat /\ dataLength \in Nat
    /\ values \in Rows
    /\ proof \in Submission \cup {NoProof}

Unhashed == history[Len(history)]           \* mutant: the table for its commitment
Current == Hash[history[Len(history)]]

Init ==
    /\ \E c \in Content :
        /\ history = <<c>>
        /\ tableCommit = [s \in Submission |-> Hash[c]]
    /\ Node!Init
    /\ reply = [s \in Submission |-> NoReply]
    /\ pc = [s \in Submission |-> IF s = First THEN "preparing" ELSE "unsent"]
    /\ asked = [s \in Submission |-> 1]
    /\ sql = [s \in Submission |-> Display]
    /\ said = [s \in Submission |-> {}]
    /\ reqMade = [k \in Closure |-> 0]
    /\ isLoading = TRUE
    /\ numRows = 5 /\ dataLength = 5
    /\ values = NoRows
    /\ proof = NoProof

To(s, from, to) == pc[s] = from /\ pc' = [pc EXCEPT ![s] = to]

\* What a render makes of the placeholders and the rows; it is made again only
\* when isLoading or the rows change.
Data(loading, rows) == IF loading THEN numRows ELSE RowCount[rows]
SetLoading(b) ==
    /\ isLoading' = b
    /\ dataLength' = IF b = isLoading THEN dataLength ELSE Data(b, values)

-----------------------------------------------------------------------------
(***************************************************************************)
(* makeQuery.                                                              *)
(***************************************************************************)

LimitExceeded(q) == q.type = "insert" /\ dataLength >= maxRows

Submit(s, q) ==
    /\ ~LimitExceeded(q)
    /\ To(s, "unsent", "preparing")
    /\ sql' = [sql EXCEPT ![s] = q]
    /\ asked' = [asked EXCEPT ![s] = Len(history)]
    /\ numRows' = IF q.type = "insert" THEN numRows + 1 ELSE numRows
    /\ UNCHANGED <<chainVars, nodeVars, tableCommit, said, reqMade, isLoading,
                   dataLength, values, proof>>

Refuse(s, q) ==
    /\ LimitExceeded(q)
    /\ To(s, "unsent", "refused")
    /\ UNCHANGED <<chainVars, nodeVars, sql, asked, tableCommit, said, pageVars>>

\* The table is known and the query parses; a SELECT needs no transaction.
PrepareSelect(s) ==
    /\ sql[s].type = "select"
    /\ To(s, "preparing", "posting")
    /\ SetLoading(TRUE)
    /\ UNCHANGED <<chainVars, nodeVars, sql, asked, tableCommit, said, reqMade, numRows,
                   values, proof>>

PrepareWrite(s) ==
    /\ sql[s].type # "select"
    /\ To(s, "preparing", "wallet")
    /\ UNCHANGED <<chainVars, nodeVars, sql, asked, tableCommit, said, pageVars>>

\* The transaction of the request was sent; nobody waits until it is mined.
WalletSends(s) ==
    /\ To(s, "wallet", "posting")
    /\ SetLoading(TRUE)
    /\ UNCHANGED <<chainVars, nodeVars, sql, asked, tableCommit, said, reqMade, numRows,
                   values, proof>>

\* The query is not understood, or the user does not sign.
GivesUp(s) ==
    /\ To(s, "preparing", "error") \/ To(s, "wallet", "error")
    /\ UNCHANGED <<chainVars, nodeVars, sql, asked, tableCommit, said, pageVars>>

-----------------------------------------------------------------------------
(***************************************************************************)
(* /api/table/request: postSqlRequest.                                     *)
(***************************************************************************)

ReadCommitment(s) ==
    /\ To(s, "posting", "posted")
    /\ tableCommit' = [tableCommit EXCEPT ![s] = Current]
    /\ UNCHANGED <<chainVars, nodeVars, sql, asked, said, pageVars>>

Accepted(s) ==
    /\ To(s, "posted", "polling")
    /\ Node!Accept(s)
    /\ UNCHANGED <<chainVars, reply, sql, asked, tableCommit, said, pageVars>>

\* The node, or the HTTP status of its answer, says no.
Refused(s) ==
    /\ To(s, "posted", "error")
    /\ SetLoading(FALSE)
    /\ UNCHANGED <<chainVars, nodeVars, sql, asked, tableCommit, said, reqMade, numRows,
                   values, proof>>

\* Anything thrown in the route: its handler of errors throws again, or sends
\* a text the page cannot parse, and nobody catches that.  The node may have
\* accepted the query.
RequestThrows(s) ==
    /\ \/ To(s, "posting", "stuck") /\ UNCHANGED box
       \/ To(s, "posted", "stuck") /\ (UNCHANGED box \/ Node!Accept(s))
    /\ UNCHANGED <<chainVars, reply, sql, asked, tableCommit, said, pageVars>>

-----------------------------------------------------------------------------
(***************************************************************************)
(* poll and /api/table/query: getSqlRequest.                               *)
(***************************************************************************)

\* Mutant: the counter is that of one poll.
NotCounted(s) ==
    /\ SetLoading(IF reqMade[closure[s]] > MaxTries THEN FALSE ELSE isLoading)
    /\ UNCHANGED reqMade

\* The page stops loading after MaxTries such polls, and polls on.  Beyond
\* MaxTries + 1 the counter is not followed.
NotReady(s) ==
    /\ SetLoading(IF reqMade[closure[s]] > MaxTries THEN FALSE ELSE isLoading)
    /\ reqMade' = [reqMade EXCEPT ![closure[s]] = IF @ > MaxTries THEN @ ELSE @ + 1]

\* The tables of the node cannot be fetched within two seconds: the node is
\* not asked.
ConfigFails(s) ==
    /\ pc[s] = "polling"
    /\ NotReady(s)
    /\ UNCHANGED <<chainVars, nodeVars, subVars, numRows, values, proof>>

\* The node has no answer, another process of it was asked, or the call was
\* given up after two seconds before the node handled it.
NoAnswer(s) ==
    /\ pc[s] = "polling"
    /\ NotReady(s)
    /\ UNCHANGED <<chainVars, nodeVars, subVars, numRows, values, proof>>

\* Nobody has the answer any more.
TakeInVain(s) ==
    /\ Node!Take(s)
    /\ reply' = [reply EXCEPT ![s] = NoReply]

\* The call is given up, or its connection fails, after the node handled it.
AnswerLost(s) ==
    /\ pc[s] = "polling"
    /\ TakeInVain(s)
    /\ NotReady(s)
    /\ UNCHANGED <<chainVars, subVars, numRows, values, proof>>

\* With the answer in hand the route throws, as it does for a table it does not
\* know and for a SELECT answered without rows.  What it sends instead is not
\* ready to the page, and this answer is gone too.
RouteThrows(s) ==
    /\ pc[s] = "polling"
    /\ reply[s] \in Reply
    /\ TakeInVain(s)
    /\ NotReady(s)
    /\ UNCHANGED <<chainVars, subVars, numRows, values, proof>>

ErrorArrives(s) ==
    /\ reply[s] = Failed
    /\ To(s, "polling", "error")
    /\ Node!Take(s)
    /\ SetLoading(FALSE)
    /\ UNCHANGED <<chainVars, reply, sql, asked, tableCommit, said, reqMade, numRows,
                   values, proof>>

\* The rows are shown, or will be when nothing is loading, before the proof is
\* verified.
AnswerArrives(s) ==
    /\ reply[s] \in Reply
    /\ To(s, "polling", "verifying")
    /\ Node!Take(s)
    /\ values' = reply[s].rows
    /\ dataLength' = Data(isLoading, values')
    /\ numRows' = RowCount[values']
    /\ UNCHANGED <<chainVars, reply, sql, asked, tableCommit, said, reqMade, isLoading, proof>>

\* The page cannot reach its own routes: nobody catches that either.
PollThrows(s) ==
    /\ To(s, "polling", "stuck")
    /\ UNCHANGED nodeVars \/ TakeInVain(s)
    /\ UNCHANGED <<chainVars, sql, asked, tableCommit, said, pageVars>>

PollReturns(s) ==
    \/ ConfigFails(s) \/ NoAnswer(s) \/ AnswerLost(s) \/ RouteThrows(s)
    \/ ErrorArrives(s) \/ AnswerArrives(s)

PollStep(s) == PollReturns(s) \/ PollThrows(s)

-----------------------------------------------------------------------------
(***************************************************************************)
(* genPublicSignals and verifyProof.                                       *)
(***************************************************************************)

\* Mutant: what was read is not a public signal.
withoutData(s) == Statement(sql[s], tableCommit[s], reply[s].proof.out)

\* The page makes the signals itself, from the query, the commitment read and
\* what the node sent: for a SELECT the rows that have a place in the matrix.
\* Of a write they have the hash of its arguments.
genPublicSignals(s) ==
    Statement(sql[s], tableCommit[s],
              IF sql[s].type = "select" THEN Placed[reply[s].rows] ELSE reply[s].changeCommit)

\* The verification key is that of the circuit for the type of the query.
isVerified(s) == reply[s].proof = genPublicSignals(s)

\* There is no return after the failure is shown.
Verify(s) ==
    /\ To(s, "verifying", "done")
    /\ said' = [said EXCEPT ![s] = {"verified"} \cup IF isVerified(s) THEN {} ELSE {"failed"}]
    /\ proof' = s
    /\ SetLoading(FALSE)
    /\ UNCHANGED <<chainVars, nodeVars, sql, asked, tableCommit, reqMade, numRows, values>>

-----------------------------------------------------------------------------
(***************************************************************************)
(* The chain and the node.                                                 *)
(***************************************************************************)

TableMoves(c) ==
    /\ Len(history) <= MaxMoves
    /\ history' = Append(history, c)
    /\ UNCHANGED <<nodeVars, subVars, pageVars>>

\* Rows come with every answer, a new commitment with those to writes.  A
\* proof of another circuit would be a wrong proof like any other.
Fits(s, r) ==
    r \in Reply =>
        /\ r.proof.type = sql[s].type
        /\ r.changeCommit = NoChange <=> sql[s].type = "select"

NodeAnswers(s, r) ==
    /\ box[s] = "working"
    /\ Fits(s, r)
    /\ Node!Answer(s)
    /\ reply' = [reply EXCEPT ![s] = r]
    /\ UNCHANGED <<chainVars, subVars, pageVars>>

NodeEnds(S) ==
    /\ S # {}
    /\ Node!Lose(S)
    /\ reply' = [s \in Submission |-> IF s \in S THEN NoReply ELSE reply[s]]
    /\ UNCHANGED <<chainVars, subVars, pageVars>>

-----------------------------------------------------------------------------
PageStep(s) ==
    \/ \E q \in Query : Submit(s, q) \/ Refuse(s, q)
    \/ PrepareSelect(s) \/ PrepareWrite(s)
    \/ WalletSends(s) \/ GivesUp(s)
    \/ ReadCommitment(s) \/ Accepted(s) \/ Refused(s) \/ RequestThrows(s)
    \/ PollStep(s) \/ Verify(s)

Next ==
    \/ \E s \in Submission : PageStep(s)
    \/ \E c \in Content : TableMoves(c)
    \/ \E s \in Submission, r \in Reply \cup {Failed} : NodeAnswers(s, r)
    \/ \E S \in SUBSET Submission : NodeEnds(S)

Spec == Init /\ [][Next]_vars

\* A poll that was not ready is followed by another two seconds later, and the
\* route answers each: its calls give up after two seconds.  Nothing is assumed
\* of the node, the user or how a poll ends: while the page is loading, one that
\* is not ready changes the state too.
FairSpec == Spec /\ \A s \in Submission : WF_vars(isLoading /\ PollReturns(s))

-----------------------------------------------------------------------------
\* What a proof that verifies is worth (README.md:17): some content with a
\* hash that the contract was committed to between the submission and now
\* gives the rows that were answered (as far as they have a place) to the
\* SELECT that was asked, or the commitment that was answered to a write whose
\* arguments hash as those of the one that was asked.  So a result is never
\* older than its question, whatever the node sends and whichever other
\* queries are under way (client.ts:41, verify.ts:33,38).
VerifiedIsTrueSinceAsked ==
    \A s \in Submission : pc[s] = "done" /\ isVerified(s) =>
        \E i \in asked[s] .. Len(history), c \in Content, q \in Query :
            /\ Hash[c] = Hash[history[i]]
            /\ q.type = sql[s].type /\ Inputs[q] = Inputs[sql[s]]
            /\ IF q.type = "select" THEN q = sql[s] /\ Output[q][c] = Placed[reply[s].rows]
                                    ELSE Output[q][c] = reply[s].changeCommit

\* The query that was asked gives it.  This does not hold: of the parameters
\* of a write the signals have the hash of a sum (engine.ts:277-288).
VerifiedIsOfTheQuery ==
    \A s \in Submission : pc[s] = "done" /\ isVerified(s) /\ sql[s].type # "select" =>
        \E c \in Content : Output[sql[s]][c] = reply[s].changeCommit

\* A submission that polls without end does not keep the page loading for ever
\* (TableView.tsx:149): the poll ends, or the page stops loading, even when the
\* counter is shared and the answer is lost.  A poll that ended because the
\* page could not reach its routes has ended too (LoadingEnds).
PollingSettles ==
    \A s \in Submission : pc[s] = "polling" ~> (pc[s] # "polling" \/ ~isLoading)

\* What the page says of a proof is so: it says "Proof verified!" of those that
\* are, and not also of those of which it says "Proof verification failed!"
\* (TableView.tsx:180, 187).
SaidVerifiedIsVerified ==
    \A s \in Submission : "verified" \in said[s] => "failed" \notin said[s]

\* At rest the page shows the rows the proof it offers to download is about.
ShownIsProved ==
    proof # NoProof /\ (\A s \in Submission : pc[s] # "verifying") =>
        values = reply[proof].rows

\* A proof from a content the table has had since the submission verifies.
CurrentProofsVerify ==
    \A s \in Submission : pc[s] = "done" /\ sql[s].type = "select" =>
        \A i \in asked[s] .. Len(history) :
            /\ reply[s].proof =
                    Statement(sql[s], Hash[history[i]], Output[sql[s]][history[i]])
            /\ Placed[reply[s].rows] = Output[sql[s]][history[i]]
            => isVerified(s)

\* The page does not load for ever once nothing of a submission is under way.
LoadingEnds ==
    \A s \in Submission : pc[s] = "stuck" ~> ~isLoading
=============================================================================
