---------------------------- MODULE SprintBoard ----------------------------
(***************************************************************************)
(* The sprints and the tickets of one project, as the requests of the      *)
(* dashboard, of REST and of MCP change them (services/sprint.py,          *)
(* services/tickets.py, services/ticket_numbering.py, dashboard/scrum.py). *)
(*                                                                         *)
(* A request is a database session at READ COMMITTED: each of its SELECTs  *)
(* sees what is committed at that moment, the rows it changed are written  *)
(* at its commit, and only the columns that differ from what it loaded.    *)
(* The project's row lock orders the creations of tickets. The UPDATE of a *)
(* sprint's completion holds the rows it moves until its commit.           *)
(***************************************************************************)
EXTENDS Integers, FiniteSets

CONSTANTS
    Sprints, Cards, Callers,   \* sprints, tickets, requests being served
    NoSprint,                  \* sprint_id NULL
    Nobody,                    \* no request holds the project's row
    Keep,                      \* a column the request does not write
    MaxNumber                  \* bound on the ticket numbers

ASSUME BoardAssumption ==
    /\ NoSprint \notin Sprints
    /\ Nobody \notin Callers
    /\ MaxNumber \in Nat

VARIABLES
    sprintStatus,    \* status of each sprint
    card,            \* row of each ticket
    projectLock,     \* the request that locked the project's row, or Nobody
    moving,          \* rows the uncommitted UPDATE of a completion holds
    call,            \* what each request is doing
    raced            \* history: starts another start committed before

boardVars == <<sprintStatus, card, projectLock, moving, call, raced>>

SprintStatuses == {"planning", "active", "completed"}

(* in_progress stands for in_review too: the code never tells them apart *)
CardStatuses == {"backlog", "todo", "in_progress", "done"}

(* A ticket that is not created yet, and one that was deleted. *)
Unborn == [status |-> "unborn", sprint |-> NoSprint, number |-> 0]
Gone   == [status |-> "gone", sprint |-> NoSprint, number |-> 0]

Row == [status: CardStatuses, sprint: Sprints \cup {NoSprint}, number: 1 .. MaxNumber]

Exists(c) == card[c].status \in CardStatuses

Free == [op |-> "free"]

StartCall    == [op: {"start"}, at: {"load", "commit"}, sprint: Sprints]
CompleteCall == [op: {"complete"}, at: {"move", "commit"}, sprint: Sprints]
WriteCall    == [op: {"write"}, at: {"check", "commit"}, card: Cards,
                 status: CardStatuses \cup {Keep}, sprint: Sprints \cup {NoSprint, Keep}]
CreateCall   == [op: {"create"}, card: Cards, sprint: Sprints \cup {NoSprint},
                 number: 1 .. MaxNumber]
DeleteCall   == [op: {"delete"}, card: Cards]

BoardTypeOK ==
    /\ sprintStatus \in [Sprints -> SprintStatuses]
    /\ card \in [Cards -> Row \cup {Unborn, Gone}]
    /\ projectLock \in Callers \cup {Nobody}
    /\ moving \in [Callers -> SUBSET Cards]
    /\ call \in [Callers -> {Free} \cup StartCall \cup CompleteCall \cup WriteCall
                                   \cup CreateCall \cup DeleteCall]
    /\ raced \in SUBSET Callers

BoardInit ==
    /\ sprintStatus = [s \in Sprints |-> "planning"]
    /\ card = [c \in Cards |-> Unborn]
    /\ projectLock = Nobody
    /\ moving = [r \in Callers |-> {}]
    /\ call = [r \in Callers |-> Free]
    /\ raced = {}

-----------------------------------------------------------------------------
Doing(r, op) == call[r].op = op

Active == {s \in Sprints : sprintStatus[s] = "active"}

(* A mutant: the completion does not hold the rows it moves. *)
HoldsNothing(c) == FALSE

(* A row another session's uncommitted UPDATE holds: a write of it waits. *)
Held(c) == \E r \in Callers : c \in moving[r]

Unfinished(s) == {c \in Cards : Exists(c) /\ card[c].sprint = s /\ card[c].status # "done"}

(* COALESCE(MAX(number), 0) + 1 over the project's tickets. *)
IsNextNumber(n) ==
    /\ \A c \in Cards : card[c].number < n
    /\ n = 1 \/ \E c \in Cards : card[c].number = n - 1

EndCall(r) == call' = [call EXCEPT ![r] = Free]

-----------------------------------------------------------------------------
(* start_sprint: one SELECT for an active sprint, one for the sprint, then *)
(* the commit.                                                             *)
(* A mutant: no look for an active sprint. *)
FindNothing(r, s) ==
    /\ call[r] = Free
    /\ call' = [call EXCEPT ![r] = [op |-> "start", at |-> "load", sprint |-> s]]
    /\ raced' = raced \ {r}
    /\ UNCHANGED <<sprintStatus, card, projectLock, moving>>

FindActive(r, s) ==
    /\ call[r] = Free
    /\ Active = {}
    /\ call' = [call EXCEPT ![r] = [op |-> "start", at |-> "load", sprint |-> s]]
    /\ raced' = raced \ {r}
    /\ UNCHANGED <<sprintStatus, card, projectLock, moving>>

(* A mutant: the status of the sprint is not looked at. *)
LoadAnySprint(r) ==
    /\ Doing(r, "start") /\ call[r].at = "load"
    /\ call' = [call EXCEPT ![r].at = "commit"]
    /\ UNCHANGED <<sprintStatus, card, projectLock, moving, raced>>

LoadPlanned(r) ==
    /\ Doing(r, "start") /\ call[r].at = "load"
    /\ IF sprintStatus[call[r].sprint] = "planning"
         THEN call' = [call EXCEPT ![r].at = "commit"]
         ELSE EndCall(r)
    /\ UNCHANGED <<sprintStatus, card, projectLock, moving, raced>>

CommitStart(r) ==
    /\ Doing(r, "start") /\ call[r].at = "commit"
    /\ sprintStatus' = [sprintStatus EXCEPT ![call[r].sprint] = "active"]
    /\ EndCall(r)
    /\ raced' = {q \in Callers \ {r} : q \in raced \/ Doing(q, "start")}
    /\ UNCHANGED <<card, projectLock, moving>>

(* complete_sprint: the sprint is loaded, one UPDATE takes its unfinished  *)
(* tickets (and holds their rows), the commit ends the sprint with it.     *)
LoadActive(r, s) ==
    /\ call[r] = Free
    /\ sprintStatus[s] = "active"
    /\ call' = [call EXCEPT ![r] = [op |-> "complete", at |-> "move", sprint |-> s]]
    /\ UNCHANGED <<sprintStatus, card, projectLock, moving, raced>>

MoveUnfinished(r) ==
    /\ Doing(r, "complete") /\ call[r].at = "move"
    /\ \A c \in Unfinished(call[r].sprint) : ~Held(c)
    /\ moving' = [moving EXCEPT ![r] = Unfinished(call[r].sprint)]
    /\ call' = [call EXCEPT ![r].at = "commit"]
    /\ UNCHANGED <<sprintStatus, card, projectLock, raced>>

CommitComplete(r) ==
    /\ Doing(r, "complete") /\ call[r].at = "commit"
    /\ sprintStatus' = [sprintStatus EXCEPT ![call[r].sprint] = "completed"]
    /\ card' = [c \in Cards |->
                  IF c \in moving[r]
                    THEN [card[c] EXCEPT !.status = "backlog", !.sprint = NoSprint]
                    ELSE card[c]]
    /\ moving' = [moving EXCEPT ![r] = {}]
    /\ EndCall(r)
    /\ UNCHANGED <<projectLock, raced>>

-----------------------------------------------------------------------------
(* A column is written when its new value differs from the loaded one. *)
Written(loaded, new) == IF new = loaded THEN Keep ELSE new

(* What the UPDATE leaves in a column. *)
Applied(planned, now) == IF planned = Keep THEN now ELSE planned

PlanWrite(r, c, at, status, sprint) ==
    call' = [call EXCEPT ![r] = [op |-> "write", at |-> at, card |-> c,
                                 status |-> Written(card[c].status, status),
                                 sprint |-> Written(card[c].sprint, sprint)]]

(* ticket_status_update, and update_ticket with a status alone *)
SetStatus(r, c, status) ==
    /\ call[r] = Free /\ Exists(c)
    /\ PlanWrite(r, c, "commit", status, card[c].sprint)
    /\ UNCHANGED <<sprintStatus, card, projectLock, moving, raced>>

(* ticket_sprint_update into a sprint: the ticket is loaded, the sprint is *)
(* checked by the next statement                                           *)
DragIntoSprint(r, c, s) ==
    /\ call[r] = Free /\ Exists(c)
    /\ PlanWrite(r, c, "check", IF card[c].status = "backlog" THEN "todo" ELSE card[c].status, s)
    /\ UNCHANGED <<sprintStatus, card, projectLock, moving, raced>>

(* ticket_sprint_update out of its sprint *)
DragToBacklog(r, c) ==
    /\ call[r] = Free /\ Exists(c)
    /\ PlanWrite(r, c, "commit", IF card[c].status = "todo" THEN "backlog" ELSE card[c].status, NoSprint)
    /\ UNCHANGED <<sprintStatus, card, projectLock, moving, raced>>

(* update_ticket with a sprint and no status: any sprint of the project *)
(* will do, a completed one too, and the status stays                     *)
PutInSprint(r, c, s) ==
    /\ call[r] = Free /\ Exists(c)
    /\ PlanWrite(r, c, "commit", card[c].status, s)
    /\ UNCHANGED <<sprintStatus, card, projectLock, moving, raced>>

CheckSprint(r) ==
    /\ Doing(r, "write") /\ call[r].at = "check"
    /\ LET s == call[r].sprint IN
       IF s # Keep /\ sprintStatus[s] = "completed"
         THEN EndCall(r)
         ELSE call' = [call EXCEPT ![r].at = "commit"]
    /\ UNCHANGED <<sprintStatus, card, projectLock, moving, raced>>

(* The UPDATE of one ticket and its commit. It waits for a held row, and   *)
(* fails when the ticket is gone.                                          *)
CommitWrite(r) ==
    /\ Doing(r, "write") /\ call[r].at = "commit"
    /\ LET w == call[r] IN
       /\ ~Held(w.card)
       /\ card' = IF Exists(w.card)
                    THEN [card EXCEPT ![w.card] =
                            [card[w.card] EXCEPT !.status = Applied(w.status, card[w.card].status),
                                                 !.sprint = Applied(w.sprint, card[w.card].sprint)]]
                    ELSE card
    /\ EndCall(r)
    /\ UNCHANGED <<sprintStatus, projectLock, moving, raced>>

-----------------------------------------------------------------------------
(* A mutant: the number is read without the project's lock. *)
TakeNumberUnlocked(r, c, s, n) ==
    /\ call[r] = Free
    /\ card[c] = Unborn
    /\ \A q \in Callers : ~(Doing(q, "create") /\ call[q].card = c)
    /\ IsNextNumber(n)
    /\ projectLock' = r
    /\ call' = [call EXCEPT ![r] = [op |-> "create", card |-> c, sprint |-> s, number |-> n]]
    /\ UNCHANGED <<sprintStatus, card, moving, raced>>

(* create_ticket: the project's row is locked, the next number is read,    *)
(* and the lock is kept until the row of the ticket is committed.          *)
TakeNumber(r, c, s, n) ==
    /\ call[r] = Free
    /\ card[c] = Unborn
    /\ \A q \in Callers : ~(Doing(q, "create") /\ call[q].card = c)
    /\ projectLock = Nobody
    /\ IsNextNumber(n)
    /\ projectLock' = r
    /\ call' = [call EXCEPT ![r] = [op |-> "create", card |-> c, sprint |-> s, number |-> n]]
    /\ UNCHANGED <<sprintStatus, card, moving, raced>>

InsertCard(r) ==
    /\ Doing(r, "create")
    /\ LET new == call[r] IN
       card' = IF \E c \in Cards : card[c].number = new.number   \* uq (project_id, number)
                 THEN card
                 ELSE [card EXCEPT ![new.card] =
                         [status |-> IF new.sprint = NoSprint THEN "backlog" ELSE "todo",
                          sprint |-> new.sprint, number |-> new.number]]
    /\ projectLock' = Nobody
    /\ EndCall(r)
    /\ UNCHANGED <<sprintStatus, moving, raced>>

(* delete_ticket: loaded, then deleted when its row is not held *)
LoadDeleted(r, c) ==
    /\ call[r] = Free /\ Exists(c)
    /\ call' = [call EXCEPT ![r] = [op |-> "delete", card |-> c]]
    /\ UNCHANGED <<sprintStatus, card, projectLock, moving, raced>>

DeleteCard(r) ==
    /\ Doing(r, "delete")
    /\ ~Held(call[r].card)
    /\ card' = [card EXCEPT ![call[r].card] = Gone]
    /\ EndCall(r)
    /\ UNCHANGED <<sprintStatus, projectLock, moving, raced>>

(* A request fails, or its client goes away: its transaction is rolled back. *)
Abandon(r) ==
    /\ call[r] # Free
    /\ EndCall(r)
    /\ moving' = [moving EXCEPT ![r] = {}]
    /\ projectLock' = IF projectLock = r THEN Nobody ELSE projectLock
    /\ UNCHANGED <<sprintStatus, card, raced>>

BoardNext ==
    \E r \in Callers :
        \/ \E s \in Sprints : FindActive(r, s)
        \/ LoadPlanned(r)
        \/ CommitStart(r)
        \/ \E s \in Sprints : LoadActive(r, s)
        \/ MoveUnfinished(r)
        \/ CommitComplete(r)
        \/ \E c \in Cards, status \in CardStatuses : SetStatus(r, c, status)
        \/ \E c \in Cards, s \in Sprints : DragIntoSprint(r, c, s)
        \/ \E c \in Cards : DragToBacklog(r, c)
        \/ \E c \in Cards, s \in Sprints : PutInSprint(r, c, s)
        \/ CheckSprint(r)
        \/ CommitWrite(r)
        \/ \E c \in Cards, s \in Sprints \cup {NoSprint}, n \in 1 .. MaxNumber : TakeNumber(r, c, s, n)
        \/ InsertCard(r)
        \/ \E c \in Cards : LoadDeleted(r, c)
        \/ DeleteCard(r)
        \/ Abandon(r)

BoardSpec == BoardInit /\ [][BoardNext]_boardVars

-----------------------------------------------------------------------------
(* A creation that holds a number never finds it taken when it inserts:    *)
(* the number lies above every ticket's, and no other creation holds one.  *)
(* get_next_ticket_number calls itself thread-safe for the row lock it     *)
(* takes on the project; a unique constraint would refuse the loser.       *)
NumberFree ==
    \A r \in Callers : Doing(r, "create") =>
        /\ \A c \in Cards : card[c].number < call[r].number
        /\ \A q \in Callers \ {r} : ~Doing(q, "create")

(* At most one sprint of the project is active, as a start is to make sure *)
(* (code of start_sprint). No lock backs it: two starts may overlap.       *)
AtMostOneActive == \A s, t \in Active : s = t

(* The commit of a start that another start committed before, since it     *)
(* looked for an active sprint.                                            *)
RacedStart(s) ==
    \E r \in raced : Doing(r, "start") /\ call[r].sprint = s /\ call'[r] = Free

(* A sprint becomes active only when no sprint is, whatever completions,   *)
(* moves and failures come between the look for an active sprint and the   *)
(* commit, unless another start committed in between: nothing but a race   *)
(* of two starts makes a second sprint active.                             *)
ActiveOnlyAlone ==
    [][\A s \in Sprints : sprintStatus[s] # "active" /\ sprintStatus'[s] = "active" =>
          Active = {} \/ RacedStart(s)]_boardVars

(* A sprint goes from planning to active to completed. It goes back in one *)
(* case only: of two starts of it that overlap, the second commits after   *)
(* the first one's sprint was completed already, and makes it active.      *)
SprintsOnlyAdvance ==
    [][\A s \in Sprints : sprintStatus'[s] # sprintStatus[s] =>
          \/ <<sprintStatus[s], sprintStatus'[s]>> \in
                {<<"planning", "active">>, <<"active", "completed">>}
          \/ sprintStatus[s] = "completed" /\ sprintStatus'[s] = "active" /\ RacedStart(s)]_boardVars

(* The commit that completes a sprint sends to the backlog only tickets    *)
(* that are, at that moment, unfinished and in this sprint: a ticket       *)
(* finished or dragged elsewhere while the completion was under way stays. *)
CompletionKeepsFinished ==
    [][\A s \in Sprints : sprintStatus[s] # "completed" /\ sprintStatus'[s] = "completed" =>
          \A c \in Cards : card'[c] # card[c] => c \in Unfinished(s)]_boardVars
=============================================================================
