------------------------- MODULE SprintBoardProofs -------------------------
(***************************************************************************)
(* For every set of sprints, tickets and requests: types, free ticket      *)
(* numbers, what the end of a sprint may move, and that nothing but a race *)
(* of two starts makes a second sprint active or takes a sprint back.      *)
(***************************************************************************)
EXTENDS SprintBoard, TLAPS

(* The steps, by the request that makes them. *)
StartStep(r) ==
    (\E s \in Sprints : FindActive(r, s)) \/ LoadPlanned(r) \/ CommitStart(r)

CompleteStep(r) ==
    (\E s \in Sprints : LoadActive(r, s)) \/ MoveUnfinished(r) \/ CommitComplete(r)

PlanStep(r) ==
    \/ \E c \in Cards, status \in CardStatuses : SetStatus(r, c, status)
    \/ \E c \in Cards, s \in Sprints : DragIntoSprint(r, c, s)
    \/ \E c \in Cards : DragToBacklog(r, c)
    \/ \E c \in Cards, s \in Sprints : PutInSprint(r, c, s)

WriteStep(r) == CheckSprint(r) \/ CommitWrite(r)

CreateStep(r) ==
    \/ \E c \in Cards, s \in Sprints \cup {NoSprint}, n \in 1 .. MaxNumber : TakeNumber(r, c, s, n)
    \/ InsertCard(r)

DeleteStep(r) == (\E c \in Cards : LoadDeleted(r, c)) \/ DeleteCard(r)

\* Every step is one of these.
LEMMA StepsByRequest ==
    ASSUME BoardNext
    PROVE  \E r \in Callers :
              \/ StartStep(r) \/ CompleteStep(r) \/ PlanStep(r) \/ WriteStep(r)
              \/ CreateStep(r) \/ DeleteStep(r) \/ Abandon(r)
  BY DEF BoardNext, StartStep, CompleteStep, PlanStep, WriteStep, CreateStep, DeleteStep

-----------------------------------------------------------------------------
(* Types.                                                                  *)

CallRecords == {Free} \cup StartCall \cup CompleteCall \cup WriteCall \cup CreateCall \cup DeleteCall

\* A request's operation tells which record it carries.
LEMMA CallShape ==
    ASSUME NEW x \in CallRecords
    PROVE  /\ x.op = "start" => x \in StartCall
           /\ x.op = "complete" => x \in CompleteCall
           /\ x.op = "write" => x \in WriteCall
           /\ x.op = "create" => x \in CreateCall
           /\ x.op = "delete" => x \in DeleteCall
  BY DEF CallRecords, Free, StartCall, CompleteCall, WriteCall, CreateCall, DeleteCall

\* Where a request goes on, it stays of its kind.
LEMMA CallGoesOn ==
    ASSUME NEW x \in CallRecords, x.op \in {"start", "complete", "write"}
    PROVE  [x EXCEPT !.at = "commit"] \in CallRecords
  BY CallShape DEF CallRecords, StartCall, CompleteCall, WriteCall

\* A ticket that exists has a row, and a row with other columns is a row.
LEMMA RowOfCard ==
    ASSUME BoardTypeOK, NEW c \in Cards, Exists(c)
    PROVE  card[c] \in Row
  BY DEF BoardTypeOK, Exists, CardStatuses, Unborn, Gone

LEMMA RowWritten ==
    ASSUME NEW x \in Row, NEW status \in CardStatuses, NEW s \in Sprints \cup {NoSprint}
    PROVE  /\ [x EXCEPT !.status = status, !.sprint = s] \in Row
           /\ [x EXCEPT !.status = status, !.sprint = s].status = status
           /\ [x EXCEPT !.status = status, !.sprint = s].number = x.number
  BY DEF Row

(* The rows a completion moves are rows: without this it could bring back *)
(* a ticket that is gone.                                                 *)
MovesExist == \A r \in Callers : \A c \in moving[r] : Exists(c)

LEMMA BoardInitType == BoardInit => BoardTypeOK /\ MovesExist
  BY DEF BoardInit, BoardTypeOK, MovesExist, SprintStatuses

LEMMA StartStepType ==
    ASSUME BoardTypeOK, MovesExist, NEW r \in Callers, StartStep(r)
    PROVE  BoardTypeOK' /\ MovesExist'
<1>0. call \in [Callers -> CallRecords] /\ call[r] \in CallRecords
  BY DEF BoardTypeOK, CallRecords
<1>1. CASE \E s \in Sprints : FindActive(r, s)
  <2>1. PICK s \in Sprints : FindActive(r, s)
    BY <1>1
  <2>2. [op |-> "start", at |-> "load", sprint |-> s] \in CallRecords
    BY DEF CallRecords, StartCall
  <2>3. call' \in [Callers -> CallRecords]
    BY <1>0, <2>1, <2>2 DEF FindActive
  <2>4. QED BY <2>1, <2>3 DEF FindActive, BoardTypeOK, MovesExist, Exists, CallRecords
<1>2. CASE LoadPlanned(r)
  <2>1. call' \in [Callers -> CallRecords]
    BY <1>0, <1>2, CallGoesOn DEF LoadPlanned, Doing, EndCall, CallRecords
  <2>2. QED BY <1>2, <2>1 DEF LoadPlanned, BoardTypeOK, MovesExist, Exists, CallRecords
<1>3. CASE CommitStart(r)
  <2>1. call' \in [Callers -> CallRecords]
    BY <1>0, <1>3 DEF CommitStart, EndCall, CallRecords
  <2>2. sprintStatus' \in [Sprints -> SprintStatuses]
    BY <1>3 DEF CommitStart, BoardTypeOK, SprintStatuses
  <2>3. QED BY <1>3, <2>1, <2>2 DEF CommitStart, BoardTypeOK, MovesExist, Exists, CallRecords
<1>4. QED BY <1>1, <1>2, <1>3 DEF StartStep

LEMMA CompleteStepType ==
    ASSUME BoardTypeOK, MovesExist, NEW r \in Callers, CompleteStep(r)
    PROVE  BoardTypeOK' /\ MovesExist'
<1>0. call \in [Callers -> CallRecords] /\ call[r] \in CallRecords
  BY DEF BoardTypeOK, CallRecords
<1>1. CASE \E s \in Sprints : LoadActive(r, s)
  <2>1. PICK s \in Sprints : LoadActive(r, s)
    BY <1>1
  <2>2. [op |-> "complete", at |-> "move", sprint |-> s] \in CallRecords
    BY DEF CallRecords, CompleteCall
  <2>3. call' \in [Callers -> CallRecords]
    BY <1>0, <2>1, <2>2 DEF LoadActive
  <2>4. QED BY <2>1, <2>3 DEF LoadActive, BoardTypeOK, MovesExist, Exists, CallRecords
<1>2. CASE MoveUnfinished(r)
  <2>1. call' \in [Callers -> CallRecords]
    BY <1>0, <1>2, CallGoesOn DEF MoveUnfinished, Doing
  <2>2. moving' \in [Callers -> SUBSET Cards] /\ MovesExist'
    BY <1>2 DEF MoveUnfinished, Unfinished, BoardTypeOK, MovesExist, Exists
  <2>3. QED BY <1>2, <2>1, <2>2 DEF MoveUnfinished, BoardTypeOK, CallRecords
<1>3. CASE CommitComplete(r)
  <2>1. call' \in [Callers -> CallRecords]
    BY <1>0, <1>3 DEF CommitComplete, EndCall, CallRecords
  <2>2. sprintStatus' \in [Sprints -> SprintStatuses]
    BY <1>3 DEF CommitComplete, BoardTypeOK, SprintStatuses
  <2>3. moving' \in [Callers -> SUBSET Cards] /\ \A q \in Callers : moving'[q] \subseteq moving[q]
    BY <1>3 DEF CommitComplete, BoardTypeOK
  <2>4. ASSUME NEW c \in Cards
        PROVE  card'[c] \in Row \cup {Unborn, Gone} /\ (Exists(c) => Exists(c)')
    <3>1. CASE c \notin moving[r]
      BY <1>3, <3>1 DEF CommitComplete, BoardTypeOK, Exists
    <3>2. CASE c \in moving[r]
      <4>1. card[c] \in Row
        BY <3>2, RowOfCard DEF MovesExist
      <4>2. card'[c] = [card[c] EXCEPT !.status = "backlog", !.sprint = NoSprint]
        BY <1>3, <3>2 DEF CommitComplete
      <4>3. "backlog" \in CardStatuses
        BY DEF CardStatuses
      <4>4. card'[c] \in Row /\ card'[c].status = "backlog"
        BY <4>1, <4>2, <4>3 DEF Row
      <4>5. QED BY <4>3, <4>4 DEF Exists
    <3>3. QED BY <3>1, <3>2
  <2>5. card' \in [Cards -> Row \cup {Unborn, Gone}]
    BY <1>3, <2>4 DEF CommitComplete
  <2>6. MovesExist'
    BY <2>3, <2>4 DEF MovesExist, BoardTypeOK
  <2>7. QED BY <1>3, <2>1, <2>2, <2>3, <2>5, <2>6 DEF CommitComplete, BoardTypeOK, CallRecords
<1>4. QED BY <1>1, <1>2, <1>3 DEF CompleteStep

LEMMA PlanStepType ==
    ASSUME BoardTypeOK, MovesExist, NEW r \in Callers, PlanStep(r)
    PROVE  BoardTypeOK' /\ MovesExist'
<1>0. call \in [Callers -> CallRecords]
  BY DEF BoardTypeOK, CallRecords
<1>1. \E c \in Cards, at \in {"check", "commit"}, status \in CardStatuses, s \in Sprints \cup {NoSprint} :
         PlanWrite(r, c, at, status, s)
  <2>1. CASE \E c \in Cards, status \in CardStatuses : SetStatus(r, c, status)
    <3>1. PICK c \in Cards, status \in CardStatuses : SetStatus(r, c, status)
      BY <2>1
    <3>2. card[c].sprint \in Sprints \cup {NoSprint}
      BY <3>1, RowOfCard DEF SetStatus, Row
    <3>3. QED BY <3>1, <3>2 DEF SetStatus
  <2>2. CASE \E c \in Cards, s \in Sprints : DragIntoSprint(r, c, s)
    <3>1. PICK c \in Cards, s \in Sprints : DragIntoSprint(r, c, s)
      BY <2>2
    <3>2. (IF card[c].status = "backlog" THEN "todo" ELSE card[c].status) \in CardStatuses
      BY <3>1 DEF DragIntoSprint, Exists, CardStatuses
    <3>3. QED BY <3>1, <3>2 DEF DragIntoSprint
  <2>3. CASE \E c \in Cards : DragToBacklog(r, c)
    <3>1. PICK c \in Cards : DragToBacklog(r, c)
      BY <2>3
    <3>2. (IF card[c].status = "todo" THEN "backlog" ELSE card[c].status) \in CardStatuses
      BY <3>1 DEF DragToBacklog, Exists, CardStatuses
    <3>3. QED BY <3>1, <3>2 DEF DragToBacklog
  <2>4. CASE \E c \in Cards, s \in Sprints : PutInSprint(r, c, s)
    BY <2>4 DEF PutInSprint, Exists
  <2>5. QED BY <2>1, <2>2, <2>3, <2>4 DEF PlanStep
<1>2. PICK c \in Cards, at \in {"check", "commit"}, status \in CardStatuses, s \in Sprints \cup {NoSprint} :
         PlanWrite(r, c, at, status, s)
  BY <1>1
<1>3. [op |-> "write", at |-> at, card |-> c, status |-> Written(card[c].status, status),
       sprint |-> Written(card[c].sprint, s)] \in CallRecords
  BY DEF CallRecords, WriteCall, Written
<1>4. call' \in [Callers -> CallRecords]
  BY <1>0, <1>2, <1>3 DEF PlanWrite
<1>5. UNCHANGED <<sprintStatus, card, projectLock, moving, raced>>
  BY DEF PlanStep, SetStatus, DragIntoSprint, DragToBacklog, PutInSprint
<1>6. QED BY <1>4, <1>5 DEF BoardTypeOK, MovesExist, Exists, CallRecords

\* A held row is not written, what is written stays a row.
LEMMA WriteStepType ==
    ASSUME BoardTypeOK, MovesExist, NEW r \in Callers, WriteStep(r)
    PROVE  BoardTypeOK' /\ MovesExist'
<1>0. call \in [Callers -> CallRecords] /\ call[r] \in CallRecords
  BY DEF BoardTypeOK, CallRecords
<1>1. CASE CheckSprint(r)
  <2>1. call' \in [Callers -> CallRecords]
    BY <1>0, <1>1, CallGoesOn DEF CheckSprint, Doing, EndCall, CallRecords
  <2>2. QED BY <1>1, <2>1 DEF CheckSprint, BoardTypeOK, MovesExist, Exists, CallRecords
<1>2. CASE CommitWrite(r)
  <2>1. call' \in [Callers -> CallRecords]
    BY <1>0, <1>2 DEF CommitWrite, EndCall, CallRecords
  <2>2. call[r] \in WriteCall
    BY <1>0, <1>2, CallShape DEF CommitWrite, Doing
  <2>3. CASE ~Exists(call[r].card)
    BY <1>2, <2>1, <2>3 DEF CommitWrite, BoardTypeOK, MovesExist, Exists, CallRecords
  <2>4. CASE Exists(call[r].card)
    <3> DEFINE c == call[r].card
               status == Applied(call[r].status, card[c].status)
               s == Applied(call[r].sprint, card[c].sprint)
    <3>1. c \in Cards /\ card[c] \in Row
      BY <2>2, <2>4, RowOfCard DEF WriteCall
    <3>2. status \in CardStatuses /\ s \in Sprints \cup {NoSprint}
      BY <2>2, <3>1 DEF Applied, WriteCall, Row
    <3>3. card' = [card EXCEPT ![c] = [card[c] EXCEPT !.status = status, !.sprint = s]]
      BY <1>2, <2>4 DEF CommitWrite
    <3> HIDE DEF c, status, s
    <3>4. card' \in [Cards -> Row \cup {Unborn, Gone}]
      BY <3>1, <3>2, <3>3 DEF BoardTypeOK, Row
    <3>5. ASSUME NEW d \in Cards, Exists(d)
          PROVE  Exists(d)'
      <4>1. CASE d = c
        <5>1. card'[c].status = status
          BY <3>1, <3>3 DEF BoardTypeOK, Row
        <5>2. QED BY <3>2, <4>1, <5>1 DEF Exists
      <4>2. CASE d # c
        BY <3>3, <3>5, <4>2 DEF Exists, BoardTypeOK
      <4>3. QED BY <4>1, <4>2
    <3>6. MovesExist'
      BY <1>2, <3>5 DEF CommitWrite, MovesExist, BoardTypeOK
    <3>7. QED BY <1>2, <2>1, <3>4, <3>6 DEF CommitWrite, BoardTypeOK, CallRecords
  <2>5. QED BY <2>3, <2>4
<1>3. QED BY <1>1, <1>2 DEF WriteStep

LEMMA CreateStepType ==
    ASSUME BoardTypeOK, MovesExist, NEW r \in Callers, CreateStep(r)
    PROVE  BoardTypeOK' /\ MovesExist'
<1>0. call \in [Callers -> CallRecords] /\ call[r] \in CallRecords
  BY DEF BoardTypeOK, CallRecords
<1>1. CASE \E c \in Cards, s \in Sprints \cup {NoSprint}, n \in 1 .. MaxNumber : TakeNumber(r, c, s, n)
  <2>1. PICK c \in Cards, s \in Sprints \cup {NoSprint}, n \in 1 .. MaxNumber : TakeNumber(r, c, s, n)
    BY <1>1
  <2>2. [op |-> "create", card |-> c, sprint |-> s, number |-> n] \in CallRecords
    BY DEF CallRecords, CreateCall
  <2>3. call' \in [Callers -> CallRecords]
    BY <1>0, <2>1, <2>2 DEF TakeNumber
  <2>4. QED BY <2>1, <2>3 DEF TakeNumber, BoardTypeOK, MovesExist, Exists, CallRecords
<1>2. CASE InsertCard(r)
  <2>1. call' \in [Callers -> CallRecords]
    BY <1>0, <1>2 DEF InsertCard, EndCall, CallRecords
  <2>2. call[r] \in CreateCall
    BY <1>0, <1>2, CallShape DEF InsertCard, Doing
  <2> DEFINE row == [status |-> IF call[r].sprint = NoSprint THEN "backlog" ELSE "todo",
                     sprint |-> call[r].sprint, number |-> call[r].number]
  <2>3. row \in Row /\ row.status \in CardStatuses
    BY <2>2 DEF CreateCall, Row, CardStatuses
  <2>4. card' = card \/ card' = [card EXCEPT ![call[r].card] = row]
    BY <1>2 DEF InsertCard
  <2> HIDE DEF row
  <2>5. card' \in [Cards -> Row \cup {Unborn, Gone}]
    BY <2>3, <2>4 DEF BoardTypeOK
  <2>6. \A c \in Cards : Exists(c) => Exists(c)'
    BY <2>3, <2>4 DEF BoardTypeOK, Exists
  <2>7. MovesExist'
    BY <1>2, <2>6 DEF InsertCard, MovesExist, BoardTypeOK
  <2>8. QED BY <1>2, <2>1, <2>5, <2>7 DEF InsertCard, BoardTypeOK, CallRecords
<1>3. QED BY <1>1, <1>2 DEF CreateStep

LEMMA DeleteStepType ==
    ASSUME BoardTypeOK, MovesExist, NEW r \in Callers, DeleteStep(r)
    PROVE  BoardTypeOK' /\ MovesExist'
<1>0. call \in [Callers -> CallRecords] /\ call[r] \in CallRecords
  BY DEF BoardTypeOK, CallRecords
<1>1. CASE \E c \in Cards : LoadDeleted(r, c)
  <2>1. PICK c \in Cards : LoadDeleted(r, c)
    BY <1>1
  <2>2. [op |-> "delete", card |-> c] \in CallRecords
    BY DEF CallRecords, DeleteCall
  <2>3. call' \in [Callers -> CallRecords]
    BY <1>0, <2>1, <2>2 DEF LoadDeleted
  <2>4. QED BY <2>1, <2>3 DEF LoadDeleted, BoardTypeOK, MovesExist, Exists, CallRecords
<1>2. CASE DeleteCard(r)
  <2>1. call' \in [Callers -> CallRecords]
    BY <1>0, <1>2 DEF DeleteCard, EndCall, CallRecords
  <2>2. card' \in [Cards -> Row \cup {Unborn, Gone}]
    BY <1>2 DEF DeleteCard, BoardTypeOK
  <2>3. MovesExist'
    BY <1>2 DEF DeleteCard, Held, MovesExist, Exists, BoardTypeOK
  <2>4. QED BY <1>2, <2>1, <2>2, <2>3 DEF DeleteCard, BoardTypeOK, CallRecords
<1>3. QED BY <1>1, <1>2 DEF DeleteStep

LEMMA AbandonType ==
    ASSUME BoardTypeOK, MovesExist, NEW r \in Callers, Abandon(r)
    PROVE  BoardTypeOK' /\ MovesExist'
<1>1. call' \in [Callers -> CallRecords]
  BY DEF Abandon, EndCall, BoardTypeOK, CallRecords
<1>2. QED BY <1>1 DEF Abandon, BoardTypeOK, MovesExist, Exists, CallRecords

LEMMA BoardNextType ==
    BoardTypeOK /\ MovesExist /\ [BoardNext]_boardVars => BoardTypeOK' /\ MovesExist'
<1> SUFFICES ASSUME BoardTypeOK, MovesExist, [BoardNext]_boardVars
             PROVE  BoardTypeOK' /\ MovesExist'
  OBVIOUS
<1>1. CASE BoardNext
  BY <1>1, StepsByRequest, StartStepType, CompleteStepType, PlanStepType, WriteStepType,
     CreateStepType, DeleteStepType, AbandonType
<1>2. CASE UNCHANGED boardVars
  BY <1>2 DEF boardVars, BoardTypeOK, MovesExist, Exists, CallRecords
<1>3. QED BY <1>1, <1>2

(* Every variable of the board keeps its type: no interleaving of requests *)
(* writes half a row or brings back a deleted ticket.                      *)
THEOREM BoardTypeCorrect == BoardSpec => []BoardTypeOK
<1>1. BoardInit => BoardTypeOK /\ MovesExist
  BY BoardInitType
<1>2. BoardTypeOK /\ MovesExist /\ [BoardNext]_boardVars => BoardTypeOK' /\ MovesExist'
  BY BoardNextType
<1>3. QED BY <1>1, <1>2, PTL DEF BoardSpec

-----------------------------------------------------------------------------
\* A request that goes on keeps what it carries, the others keep all.
LEMMA OthersStay ==
    ASSUME BoardTypeOK, NEW r \in Callers, call[r].op \in {"start", "complete", "write"},
           call' = [call EXCEPT ![r].at = "commit"]
    PROVE  /\ call'[r].op = call[r].op /\ call'[r].at = "commit"
           /\ call'[r].sprint = call[r].sprint
           /\ \A q \in Callers : q # r => call'[q] = call[q]
<1>1. call \in [Callers -> CallRecords] /\ call[r] \in CallRecords
  BY DEF BoardTypeOK, CallRecords
<1>2. call'[r] = [call[r] EXCEPT !.at = "commit"] /\ \A q \in Callers : q # r => call'[q] = call[q]
  BY <1>1
<1>3. CASE call[r] \in StartCall
  BY <1>2, <1>3 DEF StartCall
<1>4. CASE call[r] \in CompleteCall
  BY <1>2, <1>4 DEF CompleteCall
<1>5. CASE call[r] \in WriteCall
  BY <1>2, <1>5 DEF WriteCall
<1>6. QED BY <1>1, <1>3, <1>4, <1>5, CallShape

-----------------------------------------------------------------------------
(* Ticket numbers.                                                         *)

(* A creation holds the project's lock, and a number above all others. *)
NumberInv ==
    \A r \in Callers : Doing(r, "create") =>
        projectLock = r /\ \A c \in Cards : card[c].number < call[r].number

LEMMA NumbersAreIntegers ==
    ASSUME BoardTypeOK
    PROVE  /\ \A c \in Cards : card[c].number \in Int
           /\ \A r \in Callers : Doing(r, "create") => call[r].number \in 1 .. MaxNumber
<1>1. ASSUME NEW c \in Cards PROVE card[c].number \in Int
  BY BoardAssumption DEF BoardTypeOK, Row, Unborn, Gone
<1>2. ASSUME NEW r \in Callers, Doing(r, "create") PROVE call[r].number \in 1 .. MaxNumber
  <2>1. call[r] \in CreateCall
    BY <1>2, CallShape DEF BoardTypeOK, CallRecords, Doing
  <2>2. QED BY <2>1 DEF CreateCall
<1>3. QED BY <1>1, <1>2

\* Other steps start no creation, take no lock from one and raise no number.
LEMMA NumbersStay ==
    ASSUME BoardTypeOK, MovesExist, NEW r \in Callers,
           \/ StartStep(r) \/ CompleteStep(r) \/ PlanStep(r) \/ WriteStep(r)
           \/ DeleteStep(r) \/ Abandon(r)
    PROVE  /\ \A q \in Callers : Doing(q, "create")' =>
                  Doing(q, "create") /\ call'[q] = call[q] /\ (projectLock = q => projectLock' = q)
           /\ \A c \in Cards : card'[c].number <= card[c].number
<1>0. call \in [Callers -> CallRecords] /\ \A c \in Cards : card[c].number \in Int
  BY NumbersAreIntegers DEF BoardTypeOK, CallRecords
<1>1. CASE StartStep(r)
  <2>1. UNCHANGED <<card, projectLock>>
    BY <1>1 DEF StartStep, FindActive, LoadPlanned, CommitStart
  <2>2. \A q \in Callers : Doing(q, "create")' => Doing(q, "create") /\ call'[q] = call[q]
    <3>1. CASE \E s \in Sprints : FindActive(r, s)
      BY <1>0, <3>1 DEF FindActive, Doing
    <3>2. CASE LoadPlanned(r)
      BY <1>0, <3>2, OthersStay DEF LoadPlanned, Doing, EndCall, Free
    <3>3. CASE CommitStart(r)
      BY <1>0, <3>3 DEF CommitStart, Doing, EndCall, Free
    <3>4. QED BY <1>1, <3>1, <3>2, <3>3 DEF StartStep
  <2>3. QED BY <1>0, <2>1, <2>2
<1>2. CASE CompleteStep(r)
  <2>1. CASE (\E s \in Sprints : LoadActive(r, s)) \/ MoveUnfinished(r)
    <3>1. UNCHANGED <<card, projectLock>>
      BY <2>1 DEF LoadActive, MoveUnfinished
    <3>2. CASE \E s \in Sprints : LoadActive(r, s)
      BY <1>0, <3>1, <3>2 DEF LoadActive, Doing
    <3>3. CASE MoveUnfinished(r)
      BY <1>0, <3>1, <3>3, OthersStay DEF MoveUnfinished, Doing
    <3>4. QED BY <2>1, <3>2, <3>3
  <2>2. CASE CommitComplete(r)
    <3>1. \A q \in Callers : Doing(q, "create")' =>
             Doing(q, "create") /\ call'[q] = call[q] /\ projectLock' = projectLock
      BY <1>0, <2>2 DEF CommitComplete, Doing, EndCall, Free
    <3>2. ASSUME NEW c \in Cards
          PROVE  card'[c].number <= card[c].number
      <4>1. CASE c \notin moving[r]
        <5>1. card'[c] = card[c]
          BY <2>2, <4>1 DEF CommitComplete
        <5>2. QED BY <1>0, <5>1
      <4>2. CASE c \in moving[r]
        <5>1. card[c] \in Row
          BY <4>2, RowOfCard DEF MovesExist
        <5>2. card'[c].number = card[c].number
          BY <2>2, <4>2, <5>1 DEF CommitComplete, Row
        <5>3. QED BY <1>0, <5>2
      <4>3. QED BY <4>1, <4>2
    <3>3. QED BY <3>1, <3>2
  <2>3. QED BY <1>2, <2>1, <2>2 DEF CompleteStep
<1>3. CASE PlanStep(r)
  <2>1. UNCHANGED <<card, projectLock>>
    BY <1>3 DEF PlanStep, SetStatus, DragIntoSprint, DragToBacklog, PutInSprint
  <2>2. \A q \in Callers : Doing(q, "create")' => Doing(q, "create") /\ call'[q] = call[q]
    BY <1>0, <1>3 DEF PlanStep, SetStatus, DragIntoSprint, DragToBacklog, PutInSprint, PlanWrite, Doing
  <2>3. QED BY <1>0, <2>1, <2>2
<1>4. CASE WriteStep(r)
  <2>1. CASE CheckSprint(r)
    <3>1. UNCHANGED <<card, projectLock>>
      BY <2>1 DEF CheckSprint
    <3>2. \A q \in Callers : Doing(q, "create")' => Doing(q, "create") /\ call'[q] = call[q]
      BY <1>0, <2>1, OthersStay DEF CheckSprint, Doing, EndCall, Free
    <3>3. QED BY <1>0, <3>1, <3>2
  <2>2. CASE CommitWrite(r)
    <3>1. \A q \in Callers : Doing(q, "create")' =>
             Doing(q, "create") /\ call'[q] = call[q] /\ projectLock' = projectLock
      BY <1>0, <2>2 DEF CommitWrite, Doing, EndCall, Free
    <3>2. CASE ~Exists(call[r].card)
      BY <1>0, <2>2, <3>1, <3>2 DEF CommitWrite
    <3>3. CASE Exists(call[r].card)
      <4>1. call[r] \in WriteCall
        BY <1>0, <2>2, CallShape DEF CommitWrite, Doing
      <4> DEFINE k == call[r].card
      <4>2. k \in Cards /\ card[k] \in Row
        BY <3>3, <4>1, RowOfCard DEF WriteCall
      <4>3. \A c \in Cards : card'[c].number = card[c].number
        BY <2>2, <3>3, <4>2 DEF CommitWrite, BoardTypeOK, Row
      <4>4. QED BY <1>0, <3>1, <4>3
    <3>4. QED BY <3>2, <3>3
  <2>3. QED BY <1>4, <2>1, <2>2 DEF WriteStep
<1>5. CASE DeleteStep(r)
  <2>1. CASE \E c \in Cards : LoadDeleted(r, c)
    BY <1>0, <2>1 DEF LoadDeleted, Doing
  <2>2. CASE DeleteCard(r)
    <3>1. \A c \in Cards : 0 <= card[c].number
      BY BoardAssumption DEF BoardTypeOK, Row, Unborn, Gone
    <3>2. \A c \in Cards : card'[c].number <= card[c].number
      BY <1>0, <2>2, <3>1 DEF DeleteCard, BoardTypeOK, Gone
    <3>3. QED BY <1>0, <2>2, <3>2 DEF DeleteCard, Doing, EndCall, Free
  <2>3. QED BY <1>5, <2>1, <2>2 DEF DeleteStep
<1>6. CASE Abandon(r)
  BY <1>0, <1>6 DEF Abandon, Doing, EndCall, Free
<1>7. QED BY <1>1, <1>2, <1>3, <1>4, <1>5, <1>6

\* A creation takes the lock from nobody, and gives it back with its number.
LEMMA NumbersTaken ==
    ASSUME BoardTypeOK, NumberInv, NEW r \in Callers, CreateStep(r)
    PROVE  NumberInv'
<1>0. call \in [Callers -> CallRecords]
  BY DEF BoardTypeOK, CallRecords
<1>1. CASE \E c \in Cards, s \in Sprints \cup {NoSprint}, n \in 1 .. MaxNumber : TakeNumber(r, c, s, n)
  BY <1>0, <1>1, BoardAssumption DEF TakeNumber, IsNextNumber, NumberInv, Doing
<1>2. CASE InsertCard(r)
  <2>1. \A q \in Callers : q # r => ~Doing(q, "create")
    BY <1>2 DEF InsertCard, NumberInv
  <2>2. \A q \in Callers : ~Doing(q, "create")'
    BY <1>0, <1>2, <2>1 DEF InsertCard, Doing, EndCall, Free
  <2>3. QED BY <2>2 DEF NumberInv, Doing
<1>3. QED BY <1>1, <1>2 DEF CreateStep

LEMMA NextNumberGives ==
    ASSUME BoardTypeOK, MovesExist, NumberInv, [BoardNext]_boardVars
    PROVE  NumberInv'
<1>1. ASSUME NEW r \in Callers,
             \/ StartStep(r) \/ CompleteStep(r) \/ PlanStep(r) \/ WriteStep(r)
             \/ DeleteStep(r) \/ Abandon(r)
      PROVE  NumberInv'
  <2> SUFFICES ASSUME NEW q \in Callers, Doing(q, "create")'
               PROVE  projectLock' = q /\ \A c \in Cards : card'[c].number < call'[q].number
    BY DEF NumberInv, Doing
  <2>1. Doing(q, "create") /\ call'[q] = call[q] /\ projectLock' = q
    BY <1>1, NumbersStay DEF NumberInv
  <2>2. ASSUME NEW c \in Cards PROVE card'[c].number < call'[q].number
    <3>0. BoardTypeOK'
      BY BoardNextType
    <3>1. card[c].number < call[q].number /\ card[c].number \in Int /\ call[q].number \in Int
      BY <2>1, NumbersAreIntegers, BoardAssumption DEF NumberInv
    <3>2. card'[c].number <= card[c].number
      BY <1>1, NumbersStay
    <3>3. card'[c].number \in Int
      BY <3>0, BoardAssumption DEF BoardTypeOK, Row, Unborn, Gone
    <3>4. QED BY <2>1, <3>1, <3>2, <3>3
  <2>3. QED BY <2>1, <2>2
<1>2. CASE BoardNext
  BY <1>1, <1>2, StepsByRequest, NumbersTaken
<1>3. CASE UNCHANGED boardVars
  BY <1>3 DEF boardVars, NumberInv, Doing
<1>4. QED BY <1>2, <1>3

(* A creation that holds a number is the only one, and its number lies     *)
(* above every ticket's, for any number of requests: the row lock of       *)
(* get_next_ticket_number is enough, the unique constraint never refuses.  *)
THEOREM NumbersAreFree == BoardSpec => []NumberFree
<1>1. BoardInit => BoardTypeOK /\ MovesExist /\ NumberInv
  BY BoardInitType DEF BoardInit, NumberInv, Doing, Free
<1>2. BoardTypeOK /\ MovesExist /\ NumberInv /\ [BoardNext]_boardVars
        => BoardTypeOK' /\ MovesExist' /\ NumberInv'
  BY BoardNextType, NextNumberGives
<1>3. NumberInv => NumberFree
  BY DEF NumberInv, NumberFree
<1>4. QED BY <1>1, <1>2, <1>3, PTL DEF BoardSpec

-----------------------------------------------------------------------------
(* What the end of a sprint moves.                                         *)

(* The rows a completion holds are still unfinished and in its sprint, no  *)
(* two completions hold the same, and a ticket that is being created is    *)
(* no row yet.                                                             *)
HoldInv ==
    /\ \A r \in Callers : moving[r] # {} =>
          Doing(r, "complete") /\ call[r].at = "commit" /\ moving[r] \subseteq Unfinished(call[r].sprint)
    /\ \A q, r \in Callers : q # r => moving[q] \cap moving[r] = {}
    /\ \A r \in Callers : Doing(r, "create") => ~Exists(call[r].card)

\* What a step of one request leaves alone, but for the UPDATE of a completion.
Alone(r) ==
    /\ \A q \in Callers : q # r => call'[q] = call[q] /\ moving'[q] = moving[q]
    /\ moving'[r] = {}
    /\ \A c \in Cards : card'[c] # card[c] => \A q \in Callers : q # r => c \notin moving[q]
    /\ \A c \in Cards : ~Exists(c) /\ Exists(c)' => Doing(r, "create") /\ c = call[r].card
    /\ Doing(r, "create")' => ~Exists(call[r].card)'

LEMMA HoldsNothingYet ==
    ASSUME HoldInv, NEW r \in Callers, ~(Doing(r, "complete") /\ call[r].at = "commit")
    PROVE  moving[r] = {}
  BY DEF HoldInv

\* A step that changes no ticket.
LEMMA AloneQuiet ==
    ASSUME BoardTypeOK, HoldInv, NEW r \in Callers,
           UNCHANGED <<card, moving>>, moving[r] = {},
           \A q \in Callers : q # r => call'[q] = call[q],
           ~Doing(r, "create")'
    PROVE  Alone(r)
  BY DEF Alone, Exists

LEMMA AloneStart ==
    ASSUME BoardTypeOK, HoldInv, NEW r \in Callers, StartStep(r)
    PROVE  Alone(r)
<1>0. call \in [Callers -> CallRecords]
  BY DEF BoardTypeOK, CallRecords
<1>1. moving[r] = {} /\ UNCHANGED <<card, moving>>
  BY HoldsNothingYet DEF StartStep, FindActive, LoadPlanned, CommitStart, Doing, Free
<1>2. (\A q \in Callers : q # r => call'[q] = call[q]) /\ ~Doing(r, "create")'
  <2>1. CASE \E s \in Sprints : FindActive(r, s)
    BY <1>0, <2>1 DEF FindActive, Doing
  <2>2. CASE LoadPlanned(r)
    BY <1>0, <2>2, OthersStay DEF LoadPlanned, Doing, EndCall, Free
  <2>3. CASE CommitStart(r)
    BY <1>0, <2>3 DEF CommitStart, Doing, EndCall, Free
  <2>4. QED BY <2>1, <2>2, <2>3 DEF StartStep
<1>3. QED BY <1>1, <1>2, AloneQuiet

LEMMA AlonePlan ==
    ASSUME BoardTypeOK, HoldInv, NEW r \in Callers, PlanStep(r)
    PROVE  Alone(r)
<1>0. call \in [Callers -> CallRecords]
  BY DEF BoardTypeOK, CallRecords
<1>1. moving[r] = {} /\ UNCHANGED <<card, moving>>
  BY HoldsNothingYet DEF PlanStep, SetStatus, DragIntoSprint, DragToBacklog, PutInSprint, Doing, Free
<1>2. (\A q \in Callers : q # r => call'[q] = call[q]) /\ ~Doing(r, "create")'
  BY <1>0 DEF PlanStep, SetStatus, DragIntoSprint, DragToBacklog, PutInSprint, PlanWrite, Doing
<1>3. QED BY <1>1, <1>2, AloneQuiet

LEMMA AloneWrite ==
    ASSUME BoardTypeOK, HoldInv, NEW r \in Callers, WriteStep(r)
    PROVE  Alone(r)
<1>0. call \in [Callers -> CallRecords]
  BY DEF BoardTypeOK, CallRecords
<1>1. moving[r] = {} /\ UNCHANGED moving
  BY HoldsNothingYet DEF WriteStep, CheckSprint, CommitWrite, Doing
<1>2. CASE CheckSprint(r)
  <2>1. (\A q \in Callers : q # r => call'[q] = call[q]) /\ ~Doing(r, "create")'
    BY <1>0, <1>2, OthersStay DEF CheckSprint, Doing, EndCall, Free
  <2>2. QED BY <1>1, <1>2, <2>1, AloneQuiet DEF CheckSprint
<1>3. CASE CommitWrite(r)
  <2>1. (\A q \in Callers : q # r => call'[q] = call[q]) /\ ~Doing(r, "create")'
    BY <1>0, <1>3 DEF CommitWrite, Doing, EndCall, Free
  <2>2. \A c \in Cards : card'[c] # card[c] => c = call[r].card /\ Exists(c) /\ ~Held(c)
    BY <1>3 DEF CommitWrite, BoardTypeOK
  <2>3. QED BY <1>1, <2>1, <2>2 DEF Alone, Held, Exists
<1>4. QED BY <1>2, <1>3 DEF WriteStep

LEMMA AloneCreate ==
    ASSUME BoardTypeOK, HoldInv, NEW r \in Callers, CreateStep(r)
    PROVE  Alone(r)
<1>0. call \in [Callers -> CallRecords]
  BY DEF BoardTypeOK, CallRecords
<1>1. moving[r] = {} /\ UNCHANGED moving
  BY HoldsNothingYet DEF CreateStep, TakeNumber, InsertCard, Doing, Free
<1>2. CASE \E c \in Cards, s \in Sprints \cup {NoSprint}, n \in 1 .. MaxNumber : TakeNumber(r, c, s, n)
  <2>1. PICK c \in Cards, s \in Sprints \cup {NoSprint}, n \in 1 .. MaxNumber : TakeNumber(r, c, s, n)
    BY <1>2
  <2>2. ~Exists(c)
    BY <2>1 DEF TakeNumber, Exists, Unborn, CardStatuses
  <2>3. QED BY <1>0, <1>1, <2>1, <2>2 DEF TakeNumber, Alone, Exists
<1>3. CASE InsertCard(r)
  <2>1. (\A q \in Callers : q # r => call'[q] = call[q]) /\ ~Doing(r, "create")'
    BY <1>0, <1>3 DEF InsertCard, Doing, EndCall, Free
  <2>2. \A c \in Cards : card'[c] # card[c] => c = call[r].card
    BY <1>3 DEF InsertCard, BoardTypeOK
  <2>3. ~Exists(call[r].card) /\ Doing(r, "create")
    BY <1>3 DEF InsertCard, HoldInv
  <2>4. \A q \in Callers : \A c \in moving[q] : Exists(c)
    BY DEF HoldInv, Unfinished
  <2>5. QED BY <1>1, <2>1, <2>2, <2>3, <2>4 DEF Alone, Exists
<1>4. QED BY <1>2, <1>3 DEF CreateStep

LEMMA AloneDelete ==
    ASSUME BoardTypeOK, HoldInv, NEW r \in Callers, DeleteStep(r) \/ Abandon(r)
    PROVE  Alone(r)
<1>0. call \in [Callers -> CallRecords]
  BY DEF BoardTypeOK, CallRecords
<1>1. CASE \E c \in Cards : LoadDeleted(r, c)
  <2>1. moving[r] = {} /\ UNCHANGED <<card, moving>>
    BY <1>1, HoldsNothingYet DEF LoadDeleted, Doing, Free
  <2>2. (\A q \in Callers : q # r => call'[q] = call[q]) /\ ~Doing(r, "create")'
    BY <1>0, <1>1 DEF LoadDeleted, Doing
  <2>3. QED BY <2>1, <2>2, AloneQuiet
<1>2. CASE DeleteCard(r)
  <2>1. moving[r] = {} /\ UNCHANGED moving
    BY <1>2, HoldsNothingYet DEF DeleteCard, Doing
  <2>2. (\A q \in Callers : q # r => call'[q] = call[q]) /\ ~Doing(r, "create")'
    BY <1>0, <1>2 DEF DeleteCard, Doing, EndCall, Free
  <2>3. \A c \in Cards : card'[c] # card[c] => c = call[r].card /\ ~Held(c) /\ card'[c] = Gone
    BY <1>2 DEF DeleteCard, BoardTypeOK
  <2>4. Gone.status \notin CardStatuses
    BY DEF Gone, CardStatuses
  <2>5. QED BY <2>1, <2>2, <2>3, <2>4 DEF Alone, Held, Exists
<1>3. CASE Abandon(r)
  <2>1. (\A q \in Callers : q # r => call'[q] = call[q] /\ moving'[q] = moving[q])
        /\ ~Doing(r, "create")' /\ moving'[r] = {} /\ card' = card
    BY <1>0, <1>3 DEF Abandon, Doing, EndCall, Free, BoardTypeOK
  <2>2. QED BY <2>1 DEF Alone, Exists
<1>4. QED BY <1>1, <1>2, <1>3 DEF DeleteStep

LEMMA AloneComplete ==
    ASSUME BoardTypeOK, HoldInv, NEW r \in Callers,
           (\E s \in Sprints : LoadActive(r, s)) \/ CommitComplete(r)
    PROVE  Alone(r)
<1>0. call \in [Callers -> CallRecords]
  BY DEF BoardTypeOK, CallRecords
<1>1. CASE \E s \in Sprints : LoadActive(r, s)
  <2>1. moving[r] = {} /\ UNCHANGED <<card, moving>>
    BY <1>1, HoldsNothingYet DEF LoadActive, Doing, Free
  <2>2. (\A q \in Callers : q # r => call'[q] = call[q]) /\ ~Doing(r, "create")'
    BY <1>0, <1>1 DEF LoadActive, Doing
  <2>3. QED BY <2>1, <2>2, AloneQuiet
<1>2. CASE CommitComplete(r)
  <2>1. (\A q \in Callers : q # r => call'[q] = call[q] /\ moving'[q] = moving[q])
        /\ ~Doing(r, "create")' /\ moving'[r] = {}
    BY <1>0, <1>2 DEF CommitComplete, Doing, EndCall, Free, BoardTypeOK
  <2>2. \A c \in Cards : card'[c] # card[c] => c \in moving[r]
    BY <1>2 DEF CommitComplete, BoardTypeOK
  <2>3. \A c \in moving[r] : Exists(c) /\ \A q \in Callers : q # r => c \notin moving[q]
    BY DEF HoldInv, Unfinished
  <2>4. QED BY <2>1, <2>2, <2>3 DEF Alone, Exists
<1>3. QED BY <1>1, <1>2

\* A request that works alone leaves what the others hold.
LEMMA HoldAlone ==
    ASSUME BoardTypeOK, NumberInv, HoldInv, NEW r \in Callers, Alone(r)
    PROVE  HoldInv'
<1>1. ASSUME NEW q \in Callers, moving'[q] # {}
      PROVE  /\ Doing(q, "complete")' /\ call'[q].at = "commit"
             /\ moving'[q] \subseteq Unfinished(call[q].sprint)'
  <2>1. q # r /\ call'[q] = call[q] /\ moving'[q] = moving[q]
    BY <1>1 DEF Alone
  <2>2. \A c \in moving[q] : c \in Cards /\ card'[c] = card[c]
    BY <2>1 DEF Alone, BoardTypeOK
  <2>3. Doing(q, "complete") /\ call[q].at = "commit" /\ moving[q] \subseteq Unfinished(call[q].sprint)
    BY <1>1, <2>1 DEF HoldInv
  <2>4. QED BY <2>1, <2>2, <2>3 DEF Doing, Unfinished, Exists
<1>2. \A p, q \in Callers : p # q => moving'[p] \cap moving'[q] = {}
  BY DEF Alone, HoldInv
<1>3. ASSUME NEW q \in Callers, Doing(q, "create")'
      PROVE  ~Exists(call[q].card)'
  <2>1. CASE q = r
    BY <1>3, <2>1 DEF Alone
  <2>2. CASE q # r
    <3>1. call'[q] = call[q] /\ Doing(q, "create") /\ ~Exists(call[q].card)
      BY <1>3, <2>2 DEF Alone, HoldInv, Doing
    <3>2. ~Doing(r, "create")
      BY <2>2, <3>1 DEF NumberInv
    <3>3. call[q].card \in Cards
      BY <3>1, CallShape DEF BoardTypeOK, CallRecords, CreateCall, Doing
    <3>4. QED BY <3>1, <3>2, <3>3 DEF Alone, Exists
  <2>3. QED BY <2>1, <2>2
<1>4. QED BY <1>1, <1>2, <1>3 DEF HoldInv

\* The UPDATE of a completion waits for what another holds.
LEMMA HoldMoves ==
    ASSUME BoardTypeOK, HoldInv, NEW r \in Callers, MoveUnfinished(r)
    PROVE  HoldInv'
<1>1. /\ call'[r].op = "complete" /\ call'[r].at = "commit" /\ call'[r].sprint = call[r].sprint
      /\ \A q \in Callers : q # r => call'[q] = call[q]
  BY OthersStay DEF MoveUnfinished, Doing
<1>2. /\ moving'[r] = Unfinished(call[r].sprint)
      /\ \A q \in Callers : q # r => moving'[q] = moving[q]
      /\ card' = card
  BY DEF MoveUnfinished, BoardTypeOK
<1>3. \A q \in Callers : moving[q] \cap Unfinished(call[r].sprint) = {}
  BY DEF MoveUnfinished, Held
<1>4. \A q, p \in Callers : q # p => moving'[q] \cap moving'[p] = {}
  BY <1>2, <1>3 DEF HoldInv
<1>5. ASSUME NEW q \in Callers, moving'[q] # {}
      PROVE  /\ Doing(q, "complete")' /\ call'[q].at = "commit"
             /\ moving'[q] \subseteq Unfinished(call[q].sprint)'
  <2>1. CASE q = r
    BY <1>1, <1>2, <2>1 DEF Doing, Unfinished, Exists
  <2>2. CASE q # r
    BY <1>1, <1>2, <1>5, <2>2 DEF HoldInv, Doing, Unfinished, Exists
  <2>3. QED BY <2>1, <2>2
<1>6. \A q \in Callers : Doing(q, "create")' => ~Exists(call[q].card)'
  BY <1>1, <1>2 DEF HoldInv, Doing, Exists
<1>7. QED BY <1>4, <1>5, <1>6 DEF HoldInv

LEMMA NextHold ==
    ASSUME BoardTypeOK, NumberInv, HoldInv, [BoardNext]_boardVars
    PROVE  HoldInv'
<1>1. CASE BoardNext
  <2>1. PICK r \in Callers :
           \/ StartStep(r) \/ CompleteStep(r) \/ PlanStep(r) \/ WriteStep(r)
           \/ CreateStep(r) \/ DeleteStep(r) \/ Abandon(r)
    BY <1>1, StepsByRequest
  <2>2. CASE MoveUnfinished(r)
    BY <2>2, HoldMoves
  <2>3. CASE ~MoveUnfinished(r)
    <3>1. Alone(r)
      BY <2>1, <2>3, AloneStart, AloneComplete, AlonePlan, AloneWrite, AloneCreate, AloneDelete
         DEF CompleteStep
    <3>2. QED BY <3>1, HoldAlone
  <2>4. QED BY <2>2, <2>3
<1>2. CASE UNCHANGED boardVars
  BY <1>2 DEF boardVars, HoldInv, Doing, Unfinished, Exists
<1>3. QED BY <1>1, <1>2

\* Only the commit of a completion ends a sprint.
LEMMA EndsByCompletion ==
    ASSUME BoardTypeOK, [BoardNext]_boardVars, NEW s \in Sprints,
           sprintStatus[s] # "completed", sprintStatus'[s] = "completed"
    PROVE  \E r \in Callers : CommitComplete(r) /\ s = call[r].sprint
<1>1. PICK r \in Callers :
         \/ StartStep(r) \/ CompleteStep(r) \/ PlanStep(r) \/ WriteStep(r)
         \/ CreateStep(r) \/ DeleteStep(r) \/ Abandon(r)
  BY StepsByRequest DEF boardVars
<1>2. ~StartStep(r)
  BY DEF StartStep, FindActive, LoadPlanned, CommitStart, BoardTypeOK
<1>3. ~PlanStep(r) /\ ~WriteStep(r)
  BY DEF PlanStep, SetStatus, DragIntoSprint, DragToBacklog, PutInSprint, WriteStep, CheckSprint,
     CommitWrite
<1>4. ~CreateStep(r) /\ ~DeleteStep(r) /\ ~Abandon(r)
  BY DEF CreateStep, TakeNumber, InsertCard, DeleteStep, LoadDeleted, DeleteCard, Abandon
<1>5. CommitComplete(r)
  BY <1>1, <1>2, <1>3, <1>4 DEF CompleteStep, LoadActive, MoveUnfinished
<1>6. QED BY <1>5 DEF CommitComplete, BoardTypeOK

(* The commit that completes a sprint moves only tickets that are at that  *)
(* moment unfinished and in it: the rows its UPDATE holds keep everybody   *)
(* else's writes out until then.                                           *)
THEOREM CompletionIsExact == BoardSpec => CompletionKeepsFinished
<1> DEFINE IInv == BoardTypeOK /\ MovesExist /\ NumberInv /\ HoldInv
<1>1. BoardInit => IInv
  BY BoardInitType DEF BoardInit, NumberInv, HoldInv, Doing, Free
<1>2. IInv /\ [BoardNext]_boardVars => IInv'
  BY BoardNextType, NextNumberGives, NextHold
<1>3. IInv /\ [BoardNext]_boardVars =>
        [\A s \in Sprints : sprintStatus[s] # "completed" /\ sprintStatus'[s] = "completed" =>
            \A c \in Cards : card'[c] # card[c] => c \in Unfinished(s)]_boardVars
  <2> SUFFICES ASSUME IInv, [BoardNext]_boardVars, NEW s \in Sprints,
                      sprintStatus[s] # "completed", sprintStatus'[s] = "completed",
                      NEW c \in Cards, card'[c] # card[c]
               PROVE  c \in Unfinished(s)
    OBVIOUS
  <2>1. PICK r \in Callers : CommitComplete(r) /\ s = call[r].sprint
    BY EndsByCompletion
  <2>2. c \in moving[r]
    BY <2>1 DEF CommitComplete, BoardTypeOK
  <2>3. QED BY <2>1, <2>2 DEF HoldInv
<1>4. QED BY <1>1, <1>2, <1>3, PTL DEF BoardSpec, CompletionKeepsFinished

-----------------------------------------------------------------------------
(* What a start finds, unless another start committed before it.           *)

(* While a start that is not raced is in flight no sprint is active and    *)
(* what it is about to commit is still planned; what completions work on   *)
(* has begun.                                                              *)
SprintInv ==
    /\ \A r \in Callers : Doing(r, "start") /\ r \notin raced =>
          Active = {} /\ (call[r].at = "commit" => sprintStatus[call[r].sprint] = "planning")
    /\ \A r \in Callers : Doing(r, "complete") => sprintStatus[call[r].sprint] \in {"active", "completed"}

\* A step that touches no sprint and starts neither a start nor a completion.
LEMMA SprintQuiet ==
    ASSUME BoardTypeOK, SprintInv, NEW r \in Callers, UNCHANGED <<sprintStatus, raced>>,
           \A q \in Callers : q # r => call'[q] = call[q],
           ~Doing(r, "start")', ~Doing(r, "complete")'
    PROVE  SprintInv'
  BY DEF SprintInv, Doing, Active

LEMMA SprintStarts ==
    ASSUME BoardTypeOK, SprintInv, NEW r \in Callers, StartStep(r)
    PROVE  SprintInv'
<1>0. call \in [Callers -> CallRecords] /\ sprintStatus \in [Sprints -> SprintStatuses]
  BY DEF BoardTypeOK, CallRecords
<1>1. CASE \E s \in Sprints : FindActive(r, s)
  BY <1>0, <1>1 DEF FindActive, SprintInv, Doing, Active
<1>2. CASE LoadPlanned(r)
  <2>1. CASE sprintStatus[call[r].sprint] = "planning"
    <3>1. /\ call'[r].op = "start" /\ call'[r].sprint = call[r].sprint
          /\ \A q \in Callers : q # r => call'[q] = call[q]
      BY <1>2, <2>1, OthersStay DEF LoadPlanned, Doing
    <3>2. UNCHANGED <<sprintStatus, raced>> /\ Doing(r, "start")
      BY <1>2 DEF LoadPlanned
    <3>3. QED BY <2>1, <3>1, <3>2 DEF SprintInv, Doing, Active
  <2>2. CASE sprintStatus[call[r].sprint] # "planning"
    BY <1>0, <1>2, <2>2, SprintQuiet DEF LoadPlanned, EndCall, Doing, Free
  <2>3. QED BY <2>1, <2>2
<1>3. CASE CommitStart(r)
  <2> DEFINE s == call[r].sprint
  <2>1. s \in Sprints
    BY <1>0, <1>3, CallShape DEF CommitStart, Doing, StartCall
  <2>2. sprintStatus'[s] = "active" /\ \A t \in Sprints : t # s => sprintStatus'[t] = sprintStatus[t]
    BY <1>0, <1>3, <2>1 DEF CommitStart
  <2>3. ~Doing(r, "complete")' /\ ~Doing(r, "start")' /\ \A q \in Callers : q # r => call'[q] = call[q]
    BY <1>0, <1>3 DEF CommitStart, EndCall, Doing, Free
  <2>4. \A q \in Callers : Doing(q, "start")' => q \in raced'
    BY <1>3, <2>3 DEF CommitStart, Doing
  <2>5. ASSUME NEW q \in Callers, Doing(q, "complete")'
        PROVE  sprintStatus'[call'[q].sprint] \in {"active", "completed"}
    <3>1. q # r /\ call'[q] = call[q] /\ Doing(q, "complete")
      BY <2>3, <2>5 DEF Doing
    <3>2. call[q].sprint \in Sprints /\ sprintStatus[call[q].sprint] \in {"active", "completed"}
      BY <1>0, <3>1, CallShape DEF SprintInv, Doing, CompleteCall
    <3>3. QED BY <2>2, <3>1, <3>2
  <2>6. QED BY <2>4, <2>5 DEF SprintInv
<1>4. QED BY <1>1, <1>2, <1>3 DEF StartStep

LEMMA SprintCompletes ==
    ASSUME BoardTypeOK, SprintInv, NEW r \in Callers, CompleteStep(r)
    PROVE  SprintInv'
<1>0. call \in [Callers -> CallRecords] /\ sprintStatus \in [Sprints -> SprintStatuses]
  BY DEF BoardTypeOK, CallRecords
<1>1. CASE \E s \in Sprints : LoadActive(r, s)
  BY <1>0, <1>1 DEF LoadActive, SprintInv, Doing, Active
<1>2. CASE MoveUnfinished(r)
  <2>1. /\ call'[r].op = "complete" /\ call'[r].sprint = call[r].sprint /\ Doing(r, "complete")
        /\ \A q \in Callers : q # r => call'[q] = call[q]
    BY <1>2, OthersStay DEF MoveUnfinished, Doing
  <2>2. QED BY <1>2, <2>1 DEF MoveUnfinished, SprintInv, Doing, Active
<1>3. CASE CommitComplete(r)
  <2> DEFINE s == call[r].sprint
  <2>1. s \in Sprints /\ sprintStatus[s] \in {"active", "completed"}
    <3>1. Doing(r, "complete")
      BY <1>3 DEF CommitComplete
    <3>2. call[r] \in CompleteCall
      BY <1>0, <3>1, CallShape DEF Doing
    <3>3. QED BY <3>1, <3>2 DEF SprintInv, CompleteCall
  <2>2. sprintStatus'[s] = "completed" /\ \A t \in Sprints : t # s => sprintStatus'[t] = sprintStatus[t]
    BY <1>0, <1>3, <2>1 DEF CommitComplete
  <2>3. raced' = raced /\ \A q \in Callers : q # r => call'[q] = call[q]
    BY <1>0, <1>3 DEF CommitComplete, EndCall
  <2>4. ~Doing(r, "complete")' /\ ~Doing(r, "start")'
    BY <1>0, <1>3 DEF CommitComplete, EndCall, Doing, Free
  <2>5. Active' \subseteq Active
    BY <2>2 DEF Active
  <2>6. ASSUME NEW q \in Callers, Doing(q, "complete")'
        PROVE  sprintStatus'[call'[q].sprint] \in {"active", "completed"}
    <3>1. call'[q] = call[q] /\ Doing(q, "complete")
      BY <2>3, <2>4, <2>6 DEF Doing
    <3>2. call[q].sprint \in Sprints /\ sprintStatus[call[q].sprint] \in {"active", "completed"}
      BY <1>0, <3>1, CallShape DEF SprintInv, Doing, CompleteCall
    <3>3. QED BY <2>2, <3>1, <3>2
  <2>7. ASSUME NEW q \in Callers, Doing(q, "start")', q \notin raced'
        PROVE  Active' = {} /\ (call'[q].at = "commit" => sprintStatus'[call'[q].sprint] = "planning")
    <3>1. call'[q] = call[q] /\ Doing(q, "start") /\ q \notin raced
      BY <2>3, <2>4, <2>7 DEF Doing
    <3>2. call[q].sprint \in Sprints
      BY <1>0, <3>1, CallShape DEF Doing, StartCall
    <3>3. QED BY <2>1, <2>2, <2>5, <3>1, <3>2 DEF SprintInv
  <2>8. QED BY <2>6, <2>7 DEF SprintInv
<1>4. QED BY <1>1, <1>2, <1>3 DEF CompleteStep

\* Neither a start nor a completion.
LEMMA SprintElsewhere ==
    ASSUME BoardTypeOK, SprintInv, NEW r \in Callers,
           PlanStep(r) \/ WriteStep(r) \/ CreateStep(r) \/ DeleteStep(r) \/ Abandon(r)
    PROVE  SprintInv'
<1>0. call \in [Callers -> CallRecords]
  BY DEF BoardTypeOK, CallRecords
<1>1. UNCHANGED <<sprintStatus, raced>>
  BY DEF PlanStep, SetStatus, DragIntoSprint, DragToBacklog, PutInSprint, WriteStep, CheckSprint,
     CommitWrite, CreateStep, TakeNumber, InsertCard, DeleteStep, LoadDeleted, DeleteCard, Abandon
<1>2. /\ \A q \in Callers : q # r => call'[q] = call[q]
      /\ ~Doing(r, "start")' /\ ~Doing(r, "complete")'
  <2>1. CASE PlanStep(r)
    BY <1>0, <2>1 DEF PlanStep, SetStatus, DragIntoSprint, DragToBacklog, PutInSprint, PlanWrite, Doing
  <2>2. CASE CheckSprint(r)
    BY <1>0, <2>2, OthersStay DEF CheckSprint, Doing, EndCall, Free
  <2>3. CASE CommitWrite(r) \/ InsertCard(r) \/ DeleteCard(r) \/ Abandon(r)
    BY <1>0, <2>3 DEF CommitWrite, InsertCard, DeleteCard, Abandon, Doing, EndCall, Free
  <2>4. CASE \E c \in Cards, s \in Sprints \cup {NoSprint}, n \in 1 .. MaxNumber : TakeNumber(r, c, s, n)
    BY <1>0, <2>4 DEF TakeNumber, Doing
  <2>5. CASE \E c \in Cards : LoadDeleted(r, c)
    BY <1>0, <2>5 DEF LoadDeleted, Doing
  <2>6. QED BY <2>1, <2>2, <2>3, <2>4, <2>5 DEF WriteStep, CreateStep, DeleteStep
<1>3. QED BY <1>1, <1>2, SprintQuiet

LEMMA NextSprint ==
    ASSUME BoardTypeOK, SprintInv, [BoardNext]_boardVars
    PROVE  SprintInv'
<1>1. CASE BoardNext
  BY <1>1, StepsByRequest, SprintStarts, SprintCompletes, SprintElsewhere
<1>2. CASE UNCHANGED boardVars
  BY <1>2 DEF boardVars, SprintInv, Doing, Active
<1>3. QED BY <1>1, <1>2

LEMMA InitSprint == BoardInit => SprintInv
  BY DEF BoardInit, SprintInv, Doing, Free

\* The status of a sprint changes at a commit of a start or of a completion.
LEMMA SprintChanges ==
    ASSUME BoardTypeOK, BoardNext, NEW s \in Sprints, sprintStatus'[s] # sprintStatus[s]
    PROVE  \E r \in Callers :
              /\ CommitStart(r) \/ CommitComplete(r)
              /\ s = call[r].sprint
<1>1. PICK r \in Callers :
         \/ StartStep(r) \/ CompleteStep(r) \/ PlanStep(r) \/ WriteStep(r)
         \/ CreateStep(r) \/ DeleteStep(r) \/ Abandon(r)
  BY StepsByRequest
<1>2. ~PlanStep(r) /\ ~WriteStep(r)
  BY DEF PlanStep, SetStatus, DragIntoSprint, DragToBacklog, PutInSprint, WriteStep, CheckSprint,
     CommitWrite
<1>3. ~CreateStep(r) /\ ~DeleteStep(r) /\ ~Abandon(r)
  BY DEF CreateStep, TakeNumber, InsertCard, DeleteStep, LoadDeleted, DeleteCard, Abandon
<1>4. CommitStart(r) \/ CommitComplete(r)
  BY <1>1, <1>2, <1>3 DEF StartStep, FindActive, LoadPlanned, CompleteStep, LoadActive, MoveUnfinished
<1>5. s = call[r].sprint
  BY <1>4 DEF CommitStart, CommitComplete, BoardTypeOK
<1>6. QED BY <1>4, <1>5

\* What a start makes active, and from what, unless another start raced it.
LEMMA StartCommits ==
    ASSUME BoardTypeOK, SprintInv, NEW r \in Callers, CommitStart(r),
           NEW s \in Sprints, s = call[r].sprint
    PROVE  /\ sprintStatus'[s] = "active"
           /\ r \in raced => RacedStart(s)
           /\ r \notin raced => Active = {} /\ sprintStatus[s] = "planning"
<1>1. sprintStatus'[s] = "active" /\ Doing(r, "start") /\ call[r].at = "commit" /\ call'[r] = Free
  BY DEF CommitStart, EndCall, BoardTypeOK
<1>2. QED BY <1>1 DEF RacedStart, SprintInv

(* For any number of sprints and requests, a start makes a sprint active   *)
(* only when none is, whatever completions, moves, creations and failures  *)
(* it overlaps with, unless another start committed in between.            *)
THEOREM StartsComeAlone == BoardSpec => ActiveOnlyAlone
<1> DEFINE IInv == BoardTypeOK /\ MovesExist /\ SprintInv
<1>1. BoardInit => IInv
  BY BoardInitType, InitSprint
<1>2. IInv /\ [BoardNext]_boardVars => IInv'
  BY BoardNextType, NextSprint
<1>3. IInv /\ [BoardNext]_boardVars =>
        [\A s \in Sprints : sprintStatus[s] # "active" /\ sprintStatus'[s] = "active" =>
            Active = {} \/ RacedStart(s)]_boardVars
  <2> SUFFICES ASSUME IInv, BoardNext, NEW s \in Sprints,
                      sprintStatus[s] # "active", sprintStatus'[s] = "active"
               PROVE  Active = {} \/ RacedStart(s)
    BY DEF boardVars
  <2>1. PICK r \in Callers : (CommitStart(r) \/ CommitComplete(r)) /\ s = call[r].sprint
    BY SprintChanges
  <2>2. ~CommitComplete(r)
    BY <2>1 DEF CommitComplete, BoardTypeOK
  <2>3. QED BY <2>1, <2>2, StartCommits
<1>4. QED BY <1>1, <1>2, <1>3, PTL DEF BoardSpec, ActiveOnlyAlone

(* And a sprint only advances: the start that commits found it planned,    *)
(* the completion found it active. Only a start that another start raced   *)
(* takes a completed sprint back.                                          *)
THEOREM SprintsAdvance == BoardSpec => SprintsOnlyAdvance
<1> DEFINE IInv == BoardTypeOK /\ MovesExist /\ SprintInv
<1>1. BoardInit => IInv
  BY BoardInitType, InitSprint
<1>2. IInv /\ [BoardNext]_boardVars => IInv'
  BY BoardNextType, NextSprint
<1>3. IInv /\ [BoardNext]_boardVars =>
        [\A s \in Sprints : sprintStatus'[s] # sprintStatus[s] =>
            \/ <<sprintStatus[s], sprintStatus'[s]>> \in
                  {<<"planning", "active">>, <<"active", "completed">>}
            \/ sprintStatus[s] = "completed" /\ sprintStatus'[s] = "active" /\ RacedStart(s)]_boardVars
  <2> SUFFICES ASSUME IInv, BoardNext, NEW s \in Sprints, sprintStatus'[s] # sprintStatus[s]
               PROVE  \/ <<sprintStatus[s], sprintStatus'[s]>> \in
                            {<<"planning", "active">>, <<"active", "completed">>}
                      \/ sprintStatus[s] = "completed" /\ sprintStatus'[s] = "active" /\ RacedStart(s)
    BY DEF boardVars
  <2>1. PICK r \in Callers : (CommitStart(r) \/ CommitComplete(r)) /\ s = call[r].sprint
    BY SprintChanges
  <2>2. sprintStatus[s] \in SprintStatuses
    BY DEF BoardTypeOK
  <2>3. CASE CommitStart(r)
    <3>1. sprintStatus'[s] = "active" /\ sprintStatus[s] \in {"planning", "completed"}
      BY <2>1, <2>2, <2>3, StartCommits DEF SprintStatuses
    <3>2. QED BY <2>1, <2>3, <3>1, StartCommits
  <2>4. CASE CommitComplete(r)
    <3>1. sprintStatus[s] \in {"active", "completed"}
      BY <2>1, <2>4 DEF CommitComplete, SprintInv
    <3>2. sprintStatus'[s] = "completed"
      BY <2>1, <2>4 DEF CommitComplete, BoardTypeOK
    <3>3. QED BY <3>1, <3>2
  <2>5. QED BY <2>1, <2>3, <2>4
<1>4. QED BY <1>1, <1>2, <1>3, PTL DEF BoardSpec, SprintsOnlyAdvance
=============================================================================
