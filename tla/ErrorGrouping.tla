--------------------------- MODULE ErrorGrouping ---------------------------
(***************************************************************************)
(* The events of one fingerprint and the issue they are grouped under      *)
(* (services/event_processor.py). Each event is processed in a session of  *)
(* its own: the issue is looked up, then either its counter is written     *)
(* from the loaded value or the issue is inserted, and the event is        *)
(* committed with it. uq_project_fingerprint refuses a second issue.       *)
(***************************************************************************)
EXTENDS Integers

CONSTANTS
    Reporters,   \* requests that deliver events
    MaxEvents    \* bound on the events stored

ASSUME ErrorAssumption == MaxEvents \in Nat \ {0}

VARIABLES
    eventCount,  \* event_count of the issue, 0 while there is no issue
    events,      \* event rows of the issue
    report,      \* what each request is doing
    outpaced,    \* history: requests another one has counted an event beside,
    missed       \* and whether one of them went on to count its own

errorVars == <<eventCount, events, report, outpaced, missed>>

Silent == [at |-> "rest"]
Report == [at: {"save"}, loaded: 0 .. MaxEvents]

ErrorsTypeOK ==
    /\ eventCount \in 0 .. MaxEvents
    /\ events \in 0 .. MaxEvents
    /\ report \in [Reporters -> Report \cup {Silent}]
    /\ outpaced \in SUBSET Reporters /\ missed \in BOOLEAN

ErrorsInit ==
    /\ eventCount = 0
    /\ events = 0
    /\ report = [r \in Reporters |-> Silent]
    /\ outpaced = {} /\ missed = FALSE

(* The requests in flight when r commits have read an older counter. *)
Outpace(r) == outpaced' = {q \in Reporters \ {r} : report[q] # Silent}

FindIssue(r) ==
    /\ report[r] = Silent
    /\ report' = [report EXCEPT ![r] = [at |-> "save", loaded |-> eventCount]]
    /\ UNCHANGED <<eventCount, events, outpaced, missed>>

(* A mutant: the counter is committed before the event is stored. *)
CountFirst(r) ==
    /\ report[r] # Silent /\ report[r].loaded > 0
    /\ events < MaxEvents
    /\ eventCount' = report[r].loaded + 1
    /\ Outpace(r) /\ missed' = (missed \/ r \in outpaced)
    /\ report' = [report EXCEPT ![r] = Silent]
    /\ UNCHANGED events

(* The issue was found: event_count := loaded + 1, whatever was committed  *)
(* in between.                                                             *)
CountEvent(r) ==
    /\ report[r] # Silent /\ report[r].loaded > 0
    /\ events < MaxEvents
    /\ eventCount' = report[r].loaded + 1
    /\ events' = events + 1
    /\ Outpace(r) /\ missed' = (missed \/ r \in outpaced)
    /\ report' = [report EXCEPT ![r] = Silent]

(* No issue was found: it is inserted with its first event, unless another *)
(* request has inserted it; then this event is lost.                       *)
OpenIssue(r) ==
    /\ report[r] # Silent /\ report[r].loaded = 0
    /\ events < MaxEvents
    /\ IF eventCount = 0
         THEN eventCount' = 1 /\ events' = events + 1 /\ Outpace(r)
         ELSE outpaced' = outpaced \ {r} /\ UNCHANGED <<eventCount, events>>
    /\ report' = [report EXCEPT ![r] = Silent]
    /\ UNCHANGED missed

LoseReport(r) ==
    /\ report[r] # Silent
    /\ report' = [report EXCEPT ![r] = Silent]
    /\ outpaced' = outpaced \ {r}
    /\ UNCHANGED <<eventCount, events, missed>>

ErrorsNext ==
    \E r \in Reporters :
        FindIssue(r) \/ CountEvent(r) \/ OpenIssue(r) \/ LoseReport(r)

ErrorsSpec == ErrorsInit /\ [][ErrorsNext]_errorVars

-----------------------------------------------------------------------------
(* However the loaded counters overwrite each other, an issue is never     *)
(* without an event, and its counter stands between one and the number of  *)
(* its events. It falls behind only when a request counts its event after  *)
(* another one was counted beside it: without such a race it is exact.     *)
CountWithinEvents ==
    /\ events > 0 <=> eventCount > 0
    /\ eventCount <= events
    /\ ~missed => eventCount = events
=============================================================================
