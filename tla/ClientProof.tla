---------------------------- MODULE ClientProof ----------------------------
(***************************************************************************)
(* For any number of submissions, renderings, contents and rows, and       *)
(* whatever queries share their public inputs and contents their hash: a   *)
(* proof that verifies is about a commitment of the contract that is no    *)
(* older than the question.                                                *)
(***************************************************************************)
EXTENDS Client, TLAPS

Box == {"none", "working", "answered", "taken", "lost"}

\* Every submission was made when the history was at most as long as now.
AskedBefore == \A s \in Submission : asked[s] \in 1 .. Len(history)

\* The commitment a route read is one the contract held since the submission.
CommitmentsAreRecent ==
    \A s \in Submission : pc[s] \in {"posted", "polling", "verifying", "done"} =>
        \E i \in asked[s] .. Len(history) : tableCommit[s] = Hash[history[i]]

\* What the page verifies is an answer it took, which the node cannot change.
VerifyingWhatWasTaken ==
    \A s \in Submission : pc[s] \in {"verifying", "done"} =>
        reply[s] \in Reply /\ box[s] = "taken"

\* The property is not inductive: it needs to know where the commitment came
\* from and that the answer stays.
Inv == TypeOK /\ AskedBefore /\ CommitmentsAreRecent /\ VerifyingWhatWasTaken

-----------------------------------------------------------------------------
LEMMA HashType == ASSUME TypeOK PROVE Current \in {Hash[c] : c \in Content}
  <1>1. Len(history) \in 1 .. Len(history) /\ history \in Seq(Content)
    BY DEF TypeOK
  <1>2. history[Len(history)] \in Content
    BY <1>1
  <1>3. QED
    BY <1>2 DEF Current

\* Moving a submission on keeps the type of pc.
LEMMA ToType ==
    ASSUME TypeOK, NEW s \in Submission, NEW from, NEW to \in Stage, To(s, from, to)
    PROVE  /\ pc' \in [Submission -> Stage]
           /\ pc'[s] = to
           /\ \A t \in Submission \ {s} : pc'[t] = pc[t]
  BY DEF TypeOK, To

LEMMA BoxType ==
    ASSUME TypeOK, NEW s \in Submission, Node!Accept(s) \/ Node!Answer(s) \/ Node!Take(s)
    PROVE  /\ box' \in [Submission -> Box]
           /\ \A t \in Submission \ {s} : box'[t] = box[t]
  BY DEF TypeOK, Node!Accept, Node!Answer, Node!Take, Node!Become, Box

\* An answer that is taken in vain is forgotten, and no other.
LEMMA VainType ==
    ASSUME TypeOK, NEW s \in Submission, TakeInVain(s)
    PROVE  /\ box' \in [Submission -> Box]
           /\ reply' \in [Submission -> Reply \cup {Failed, NoReply}]
           /\ \A t \in Submission \ {s} : box'[t] = box[t] /\ reply'[t] = reply[t]
  BY BoxType DEF TypeOK, TakeInVain

\* What a poll or a change of isLoading leaves of the types of the page.
LEMMA LoadingType ==
    ASSUME TypeOK, NEW b \in BOOLEAN, SetLoading(b)
    PROVE  isLoading' \in BOOLEAN /\ dataLength' \in Nat
  BY RowsCount DEF TypeOK, SetLoading, Data

LEMMA NotReadyType ==
    ASSUME TypeOK, NEW s \in Submission, NotReady(s)
    PROVE  /\ isLoading' \in BOOLEAN /\ dataLength' \in Nat
           /\ reqMade' \in [Closure -> 0 .. MaxTries + 1]
  <1>1. (IF reqMade[closure[s]] > MaxTries THEN FALSE ELSE isLoading) \in BOOLEAN
    BY DEF TypeOK
  <1>2. isLoading' \in BOOLEAN /\ dataLength' \in Nat
    BY <1>1, LoadingType DEF NotReady
  <1>3. closure[s] \in Closure /\ MaxTries \in Nat
    BY EachHasAClosure, Bounds
  <1>4. QED
    BY <1>2, <1>3 DEF NotReady, TypeOK

LEMMA InitInv == Init => Inv
  <1> SUFFICES ASSUME Init PROVE Inv
    OBVIOUS
  <1>1. PICK c \in Content : history = <<c>> /\ tableCommit = [s \in Submission |-> Hash[c]]
    BY DEF Init
  <1>2. TypeOK
    BY <1>1, RowsCount, Bounds, SubmissionsAreQueries DEF Init, TypeOK, Stage, Node!Init
  <1>3. AskedBefore /\ CommitmentsAreRecent /\ VerifyingWhatWasTaken
    BY <1>1 DEF Init, AskedBefore, CommitmentsAreRecent, VerifyingWhatWasTaken
  <1>4. QED
    BY <1>2, <1>3 DEF Inv

-----------------------------------------------------------------------------
LEMMA NextType == TypeOK /\ [Next]_vars => TypeOK'
  <1> SUFFICES ASSUME TypeOK, [Next]_vars PROVE TypeOK'
    OBVIOUS
  <1> USE DEF chainVars, nodeVars, subVars, pageVars
  <1>1. ASSUME NEW s \in Submission, NEW q \in Query, Submit(s, q) PROVE TypeOK'
    <2>1. pc' \in [Submission -> Stage]
      BY <1>1, ToType DEF Stage, Submit
    <2>2. numRows' \in Nat /\ asked' \in [Submission -> Nat] /\ sql' \in [Submission -> Query]
      BY <1>1 DEF Submit, TypeOK
    <2>3. QED
      BY <1>1, <2>1, <2>2 DEF Submit, TypeOK
  <1>2. ASSUME NEW s \in Submission,
               (\E q \in Query : Refuse(s, q)) \/ PrepareWrite(s) \/ GivesUp(s)
        PROVE  TypeOK'
    <2>1. pc' \in [Submission -> Stage]
      BY <1>2, ToType DEF Stage, Refuse, PrepareWrite, GivesUp
    <2>2. QED
      BY <1>2, <2>1 DEF Refuse, PrepareWrite, GivesUp, TypeOK
  <1>3. ASSUME NEW s \in Submission,
               PrepareSelect(s) \/ WalletSends(s) \/ Refused(s)
        PROVE  TypeOK'
    <2>1. pc' \in [Submission -> Stage]
      BY <1>3, ToType DEF Stage, PrepareSelect, WalletSends, Refused
    <2>2. isLoading' \in BOOLEAN /\ dataLength' \in Nat
      BY <1>3, LoadingType DEF PrepareSelect, WalletSends, Refused
    <2>3. QED
      BY <1>3, <2>1, <2>2 DEF PrepareSelect, WalletSends, Refused, TypeOK
  <1>4. ASSUME NEW s \in Submission, ReadCommitment(s) PROVE TypeOK'
    <2>1. pc' \in [Submission -> Stage]
      BY <1>4, ToType DEF Stage, ReadCommitment
    <2>2. tableCommit' \in [Submission -> {Hash[c] : c \in Content}]
      BY <1>4, HashType DEF ReadCommitment, TypeOK
    <2>3. QED
      BY <1>4, <2>1, <2>2 DEF ReadCommitment, TypeOK
  <1>5. ASSUME NEW s \in Submission, Accepted(s) \/ RequestThrows(s) \/ PollThrows(s)
        PROVE  TypeOK'
    <2>1. pc' \in [Submission -> Stage]
      BY <1>5, ToType DEF Stage, Accepted, RequestThrows, PollThrows
    <2>2. box' \in [Submission -> Box]
      BY <1>5, BoxType, VainType DEF Accepted, RequestThrows, PollThrows, TypeOK, Box
    <2>3. reply' \in [Submission -> Reply \cup {Failed, NoReply}]
      BY <1>5, VainType DEF Accepted, RequestThrows, PollThrows, TypeOK
    <2>4. QED
      BY <1>5, <2>1, <2>2, <2>3 DEF Accepted, RequestThrows, PollThrows, TypeOK, Box
  <1>6. ASSUME NEW s \in Submission, ConfigFails(s) \/ NoAnswer(s) PROVE TypeOK'
    <2>1. /\ isLoading' \in BOOLEAN /\ dataLength' \in Nat
          /\ reqMade' \in [Closure -> 0 .. MaxTries + 1]
      BY <1>6, NotReadyType DEF ConfigFails, NoAnswer
    <2>2. QED
      BY <1>6, <2>1 DEF ConfigFails, NoAnswer, TypeOK
  <1>7. ASSUME NEW s \in Submission, AnswerLost(s) \/ RouteThrows(s) PROVE TypeOK'
    <2>1. /\ isLoading' \in BOOLEAN /\ dataLength' \in Nat
          /\ reqMade' \in [Closure -> 0 .. MaxTries + 1]
      BY <1>7, NotReadyType DEF AnswerLost, RouteThrows
    <2>2. /\ box' \in [Submission -> Box]
          /\ reply' \in [Submission -> Reply \cup {Failed, NoReply}]
      BY <1>7, VainType DEF AnswerLost, RouteThrows
    <2>3. QED
      BY <1>7, <2>1, <2>2 DEF AnswerLost, RouteThrows, TypeOK, Box
  <1>8. ASSUME NEW s \in Submission, ErrorArrives(s) PROVE TypeOK'
    <2>1. pc' \in [Submission -> Stage]
      BY <1>8, ToType DEF Stage, ErrorArrives
    <2>2. isLoading' \in BOOLEAN /\ dataLength' \in Nat
      BY <1>8, LoadingType DEF ErrorArrives
    <2>3. box' \in [Submission -> Box]
      BY <1>8, BoxType DEF ErrorArrives
    <2>4. QED
      BY <1>8, <2>1, <2>2, <2>3 DEF ErrorArrives, TypeOK, Box
  <1>9. ASSUME NEW s \in Submission, AnswerArrives(s) PROVE TypeOK'
    <2>1. pc' \in [Submission -> Stage]
      BY <1>9, ToType DEF Stage, AnswerArrives
    <2>2. box' \in [Submission -> Box]
      BY <1>9, BoxType DEF AnswerArrives
    <2>3. values' \in Rows
      BY <1>9 DEF AnswerArrives, Reply
    <2>4. numRows' \in Nat /\ dataLength' \in Nat
      BY <1>9, <2>3, RowsCount DEF AnswerArrives, Data, TypeOK
    <2>5. QED
      BY <1>9, <2>1, <2>2, <2>3, <2>4 DEF AnswerArrives, TypeOK, Box
  <1>10. ASSUME NEW s \in Submission, Verify(s) PROVE TypeOK'
    <2>1. pc' \in [Submission -> Stage]
      BY <1>10, ToType DEF Stage, Verify
    <2>2. isLoading' \in BOOLEAN /\ dataLength' \in Nat
      BY <1>10, LoadingType DEF Verify
    <2>3. said' \in [Submission -> SUBSET {"failed", "verified"}]
      BY <1>10 DEF Verify, TypeOK
    <2>4. QED
      BY <1>10, <2>1, <2>2, <2>3 DEF Verify, TypeOK
  <1>11. ASSUME NEW c \in Content, TableMoves(c) PROVE TypeOK'
    <2>1. history' \in Seq(Content) /\ Len(history') >= 1
      BY <1>11 DEF TableMoves, TypeOK
    <2>2. QED
      BY <1>11, <2>1 DEF TableMoves, TypeOK
  <1>12. ASSUME NEW s \in Submission, NEW r \in Reply \cup {Failed}, NodeAnswers(s, r)
         PROVE  TypeOK'
    <2>1. box' \in [Submission -> Box]
      BY <1>12, BoxType DEF NodeAnswers
    <2>2. reply' \in [Submission -> Reply \cup {Failed, NoReply}]
      BY <1>12 DEF NodeAnswers, TypeOK
    <2>3. QED
      BY <1>12, <2>1, <2>2 DEF NodeAnswers, TypeOK, Box
  <1>13. ASSUME NEW S \in SUBSET Submission, NodeEnds(S) PROVE TypeOK'
    <2>1. /\ box' \in [Submission -> Box]
          /\ reply' \in [Submission -> Reply \cup {Failed, NoReply}]
      BY <1>13 DEF NodeEnds, Node!Lose, TypeOK, Box
    <2>2. QED
      BY <1>13, <2>1 DEF NodeEnds, TypeOK, Box
  <1>14. CASE UNCHANGED vars
    BY <1>14 DEF TypeOK, vars
  <1>15. QED
    BY <1>1, <1>2, <1>3, <1>4, <1>5, <1>6, <1>7, <1>8, <1>9, <1>10, <1>11, <1>12, <1>13,
       <1>14 DEF Next, PageStep, PollStep, PollReturns

-----------------------------------------------------------------------------
\* The history only grows, and no submission is set back to an earlier time.
LEMMA NextAsked == Inv /\ [Next]_vars => AskedBefore'
  <1> SUFFICES ASSUME Inv, [Next]_vars, NEW s \in Submission
               PROVE  asked'[s] \in 1 .. Len(history')
    BY DEF AskedBefore
  <1> USE DEF chainVars, nodeVars, subVars, pageVars
  <1>1. TypeOK /\ asked[s] \in 1 .. Len(history)
    BY DEF Inv, AskedBefore
  <1>2. ASSUME NEW t \in Submission, NEW q \in Query, Submit(t, q)
        PROVE  asked'[s] \in 1 .. Len(history')
    <2>1. history' = history /\ asked'[s] \in {asked[s], Len(history)}
      BY <1>1, <1>2 DEF Submit, TypeOK
    <2>2. Len(history) \in 1 .. Len(history)
      BY <1>1 DEF TypeOK
    <2>3. QED
      BY <1>1, <2>1, <2>2
  <1>3. ASSUME NEW c \in Content, TableMoves(c) PROVE asked'[s] \in 1 .. Len(history')
    <2>1. Len(history') = Len(history) + 1 /\ asked' = asked
      BY <1>1, <1>3 DEF TableMoves, TypeOK
    <2>2. Len(history) \in Nat
      BY <1>1 DEF TypeOK
    <2>3. QED
      BY <1>1, <2>1, <2>2
  <1>4. CASE asked' = asked /\ history' = history
    BY <1>1, <1>4
  <1>5. QED
    BY <1>2, <1>3, <1>4 DEF Next, PageStep, PollStep, PollReturns, vars, Refuse, PrepareSelect,
       PrepareWrite, WalletSends, GivesUp, ReadCommitment, Accepted, Refused, RequestThrows,
       ConfigFails, NoAnswer, AnswerLost, RouteThrows, PollThrows, ErrorArrives, AnswerArrives, Verify,
       NodeAnswers, NodeEnds

\* A submission past the reading of its commitment keeps it and its time; it
\* gets there by ReadCommitment, or from a stage that is past it already.
LEMMA NextRecent == Inv /\ [Next]_vars => CommitmentsAreRecent'
  <1> DEFINE Past == {"posted", "polling", "verifying", "done"}
  <1> SUFFICES ASSUME Inv, [Next]_vars, NEW s \in Submission, pc'[s] \in Past
               PROVE  \E i \in asked'[s] .. Len(history') :
                        tableCommit'[s] = Hash[history'[i]]
    BY DEF CommitmentsAreRecent
  <1> USE DEF chainVars, nodeVars, subVars, pageVars
  <1>1. /\ TypeOK
        /\ asked[s] \in 1 .. Len(history)
        /\ pc[s] \in Past =>
              \E i \in asked[s] .. Len(history) : tableCommit[s] = Hash[history[i]]
    BY DEF Inv, AskedBefore, CommitmentsAreRecent
  <1>2. ASSUME NEW t \in Submission, ReadCommitment(t), t = s
        PROVE  \E i \in asked'[s] .. Len(history') : tableCommit'[s] = Hash[history'[i]]
    <2>1. /\ tableCommit'[s] = Hash[history[Len(history)]]
          /\ asked' = asked /\ history' = history
      BY <1>1, <1>2 DEF ReadCommitment, TypeOK, Current
    <2>2. Len(history) \in asked[s] .. Len(history)
      BY <1>1
    <2>3. QED
      BY <2>1, <2>2
  <1>3. ASSUME NEW c \in Content, TableMoves(c)
        PROVE  \E i \in asked'[s] .. Len(history') : tableCommit'[s] = Hash[history'[i]]
    <2>1. /\ history' = Append(history, c) /\ asked' = asked
          /\ tableCommit' = tableCommit /\ pc' = pc
      BY <1>3 DEF TableMoves
    <2>2. PICK i \in asked[s] .. Len(history) : tableCommit[s] = Hash[history[i]]
      BY <1>1, <2>1
    <2>3. history'[i] = history[i] /\ i \in asked[s] .. Len(history')
      BY <1>1, <2>1, <2>2 DEF TypeOK
    <2>4. QED
      BY <2>1, <2>2, <2>3
  <1>4. CASE /\ asked'[s] = asked[s] /\ history' = history
             /\ tableCommit'[s] = tableCommit[s] /\ pc[s] \in Past
    BY <1>1, <1>4
  <1>5. ASSUME NEW t \in Submission, NEW q \in Query, Submit(t, q)
        PROVE  /\ asked'[s] = asked[s] /\ history' = history
               /\ tableCommit'[s] = tableCommit[s] /\ pc[s] \in Past
    BY <1>1, <1>5 DEF Submit, To, TypeOK
  <1>6. ASSUME NEW t \in Submission, ReadCommitment(t), t # s
        PROVE  /\ asked'[s] = asked[s] /\ history' = history
               /\ tableCommit'[s] = tableCommit[s] /\ pc[s] \in Past
    BY <1>1, <1>6 DEF ReadCommitment, To, TypeOK
  <1>7. ASSUME NEW t \in Submission,
               \/ \E q \in Query : Refuse(t, q)
               \/ PrepareSelect(t) \/ PrepareWrite(t) \/ WalletSends(t) \/ GivesUp(t) \/ Accepted(t) \/ Refused(t) \/ RequestThrows(t)
               \/ ErrorArrives(t) \/ AnswerArrives(t) \/ Verify(t) \/ PollThrows(t)
        PROVE  /\ asked'[s] = asked[s] /\ history' = history
               /\ tableCommit'[s] = tableCommit[s] /\ pc[s] \in Past
    <2>1. asked' = asked /\ history' = history /\ tableCommit' = tableCommit
      BY <1>7 DEF Refuse, PrepareSelect, PrepareWrite, WalletSends, GivesUp, Accepted,
         Refused, RequestThrows, ErrorArrives, AnswerArrives, Verify, PollThrows
    <2>2. pc[s] \in Past
      BY <1>1, <1>7 DEF Refuse, PrepareSelect, PrepareWrite, WalletSends, GivesUp, Accepted,
         Refused, RequestThrows, ErrorArrives, AnswerArrives, Verify, PollThrows, To, TypeOK
    <2>3. QED
      BY <2>1, <2>2
  <1>8. ASSUME \/ \E t \in Submission :
                    ConfigFails(t) \/ NoAnswer(t) \/ AnswerLost(t) \/ RouteThrows(t)
               \/ \E t \in Submission, r \in Reply \cup {Failed} : NodeAnswers(t, r)
               \/ \E S \in SUBSET Submission : NodeEnds(S)
               \/ UNCHANGED vars
        PROVE  /\ asked'[s] = asked[s] /\ history' = history
               /\ tableCommit'[s] = tableCommit[s] /\ pc[s] \in Past
    BY <1>8 DEF ConfigFails, NoAnswer, AnswerLost, RouteThrows, NodeAnswers, NodeEnds, vars
  <1>9. QED
    BY <1>2, <1>3, <1>4, <1>5, <1>6, <1>7, <1>8 DEF Next, PageStep, PollStep, PollReturns

\* A token that was taken stays taken, and its answer stays what it was.
LEMMA NextTaken == Inv /\ [Next]_vars => VerifyingWhatWasTaken'
  <1> SUFFICES ASSUME Inv, [Next]_vars, NEW s \in Submission,
                      pc'[s] \in {"verifying", "done"}
               PROVE  reply'[s] \in Reply /\ box'[s] = "taken"
    BY DEF VerifyingWhatWasTaken
  <1> USE DEF chainVars, nodeVars, subVars, pageVars
  <1>1. /\ TypeOK
        /\ pc[s] \in {"verifying", "done"} => reply[s] \in Reply /\ box[s] = "taken"
    BY DEF Inv, VerifyingWhatWasTaken
  <1>2. ASSUME NEW t \in Submission, AnswerArrives(t), t = s
        PROVE  reply'[s] \in Reply /\ box'[s] = "taken"
    BY <1>1, <1>2 DEF AnswerArrives, Node!Take, Node!Become, TypeOK
  <1>3. CASE /\ pc[s] \in {"verifying", "done"}
             /\ reply'[s] = reply[s] /\ box'[s] = box[s]
    BY <1>1, <1>3
  <1>4. ASSUME NEW t \in Submission,
               \/ \E q \in Query : Submit(t, q) \/ Refuse(t, q)
               \/ PrepareSelect(t) \/ PrepareWrite(t) \/ WalletSends(t) \/ GivesUp(t) \/ ReadCommitment(t) \/ Refused(t) \/ Verify(t)
        PROVE  /\ pc[s] \in {"verifying", "done"}
               /\ reply'[s] = reply[s] /\ box'[s] = box[s]
    <2>1. reply' = reply /\ box' = box
      BY <1>4 DEF Submit, Refuse, PrepareSelect, PrepareWrite, WalletSends, GivesUp,
         ReadCommitment, Refused, Verify
    <2>2. pc[s] \in {"verifying", "done"}
      BY <1>1, <1>4 DEF Submit, Refuse, PrepareSelect, PrepareWrite, WalletSends, GivesUp,
         ReadCommitment, Refused, Verify, To, TypeOK
    <2>3. QED
      BY <2>1, <2>2
  <1>5. ASSUME NEW t \in Submission,
               Accepted(t) \/ RequestThrows(t) \/ PollThrows(t) \/ ErrorArrives(t)
        PROVE  /\ pc[s] \in {"verifying", "done"}
               /\ reply'[s] = reply[s] /\ box'[s] = box[s]
    <2>1. t # s /\ pc'[s] = pc[s]
      BY <1>1, <1>5 DEF Accepted, RequestThrows, PollThrows, ErrorArrives, To, TypeOK
    <2>2. box'[s] = box[s] /\ reply'[s] = reply[s]
      BY <1>1, <1>5, <2>1, BoxType, VainType
         DEF Accepted, RequestThrows, PollThrows, ErrorArrives
    <2>3. QED
      BY <2>1, <2>2
  <1>6. ASSUME NEW t \in Submission, AnswerArrives(t), t # s
        PROVE  /\ pc[s] \in {"verifying", "done"}
               /\ reply'[s] = reply[s] /\ box'[s] = box[s]
    BY <1>1, <1>6, BoxType DEF AnswerArrives, To, TypeOK
  <1>7. ASSUME NEW t \in Submission, ConfigFails(t) \/ NoAnswer(t)
        PROVE  /\ pc[s] \in {"verifying", "done"}
               /\ reply'[s] = reply[s] /\ box'[s] = box[s]
    BY <1>7 DEF ConfigFails, NoAnswer
  <1>8. ASSUME NEW t \in Submission, AnswerLost(t) \/ RouteThrows(t)
        PROVE  /\ pc[s] \in {"verifying", "done"}
               /\ reply'[s] = reply[s] /\ box'[s] = box[s]
    <2>1. pc' = pc /\ pc[t] = "polling" /\ t # s
      BY <1>8 DEF AnswerLost, RouteThrows
    <2>2. QED
      BY <1>1, <1>8, <2>1, VainType DEF AnswerLost, RouteThrows
  <1>9. ASSUME NEW c \in Content, TableMoves(c)
        PROVE  /\ pc[s] \in {"verifying", "done"}
               /\ reply'[s] = reply[s] /\ box'[s] = box[s]
    BY <1>9 DEF TableMoves
  <1>10. ASSUME NEW t \in Submission, NEW r \in Reply \cup {Failed}, NodeAnswers(t, r)
         PROVE  /\ pc[s] \in {"verifying", "done"}
                /\ reply'[s] = reply[s] /\ box'[s] = box[s]
    <2>1. pc' = pc /\ box[t] = "working" /\ t # s
      BY <1>1, <1>10 DEF NodeAnswers
    <2>2. reply'[s] = reply[s] /\ box'[s] = box[s]
      BY <1>1, <1>10, <2>1, BoxType DEF NodeAnswers, TypeOK
    <2>3. QED
      BY <2>1, <2>2
  <1>11. ASSUME NEW S \in SUBSET Submission, NodeEnds(S)
         PROVE  /\ pc[s] \in {"verifying", "done"}
                /\ reply'[s] = reply[s] /\ box'[s] = box[s]
    <2>1. pc' = pc
      BY <1>11 DEF NodeEnds
    <2>2. box[s] = "taken"
      BY <1>1, <2>1
    <2>3. s \notin S /\ box'[s] = box[s] /\ reply'[s] = reply[s]
      BY <1>11, <2>2 DEF NodeEnds, Node!Lose
    <2>4. QED
      BY <2>1, <2>3
  <1>12. CASE UNCHANGED vars
    BY <1>3, <1>12 DEF vars
  <1>13. QED
    BY <1>2, <1>3, <1>4, <1>5, <1>6, <1>7, <1>8, <1>9, <1>10, <1>11, <1>12
       DEF Next, PageStep, PollStep, PollReturns

LEMMA AlwaysInv == Spec => []Inv
  <1>1. Inv /\ [Next]_vars => Inv'
    BY NextType, NextAsked, NextRecent, NextTaken DEF Inv
  <1>2. QED
    BY InitInv, <1>1, PTL DEF Spec

\* The state of the page, its routes and the tokens has its types, for any
\* number of submissions under way.
THEOREM TypeCorrect == Spec => []TypeOK
  BY AlwaysInv, PTL DEF Inv

-----------------------------------------------------------------------------
LEMMA InvGivesVerified == Inv => VerifiedIsTrueSinceAsked
  <1> SUFFICES ASSUME Inv, NEW s \in Submission, pc[s] = "done", isVerified(s)
               PROVE  \E i \in asked[s] .. Len(history), c \in Content, q \in Query :
                        /\ Hash[c] = Hash[history[i]]
                        /\ q.type = sql[s].type /\ Inputs[q] = Inputs[sql[s]]
                        /\ IF q.type = "select"
                           THEN q = sql[s] /\ Output[q][c] = Placed[reply[s].rows]
                           ELSE Output[q][c] = reply[s].changeCommit
    BY DEF VerifiedIsTrueSinceAsked
  <1> DEFINE shown == IF sql[s].type = "select" THEN Placed[reply[s].rows]
                                                ELSE reply[s].changeCommit
  <1>1. reply[s] \in Reply /\ sql[s] \in Query
    BY DEF Inv, VerifyingWhatWasTaken, TypeOK
  <1>2. PICK q \in Query, c \in Content :
            reply[s].proof = Statement(q, Hash[c], Output[q][c])
    BY <1>1 DEF Reply, Provable
  <1>3. PICK i \in asked[s] .. Len(history) : tableCommit[s] = Hash[history[i]]
    BY DEF Inv, CommitmentsAreRecent
  <1>4. Statement(q, Hash[c], Output[q][c]) = Statement(sql[s], tableCommit[s], shown)
    BY <1>2 DEF isVerified, genPublicSignals
  <1> HIDE DEF shown
  <1>5. /\ q.type = sql[s].type /\ Inputs[q] = Inputs[sql[s]]
        /\ Hash[c] = tableCommit[s] /\ Output[q][c] = shown
    BY <1>4 DEF Statement
  <1>6. CASE sql[s].type = "select"
    <2>1. Output[sql[s]] = Output[q]
      BY <1>1, <1>5, <1>6, SelectsArePublic
    <2>2. Output[sql[s]][c] = Placed[reply[s].rows]
      BY <1>5, <1>6, <2>1 DEF shown
    <2>3. QED
      BY <1>1, <1>3, <1>5, <1>6, <2>2
  <1>7. CASE sql[s].type # "select"
    BY <1>3, <1>5, <1>7 DEF shown
  <1>8. QED
    BY <1>6, <1>7

\* For any node: a proof that verifies is made from a content with a hash that
\* the contract was committed to after the question was asked.  The rows shown
\* are what the SELECT that was asked gives of it; the commitment shown is that
\* of some write of the same type and with the same hash of arguments, which
\* the UPDATE or DELETE that was asked shares with others.
THEOREM VerifiedResultsAreTrue == Spec => []VerifiedIsTrueSinceAsked
  BY AlwaysInv, InvGivesVerified, PTL
=============================================================================
