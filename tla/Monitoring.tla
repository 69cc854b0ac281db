----------------------------- MODULE Monitoring -----------------------------
(***************************************************************************)
(* Monitoring: the loop of services/monitor_loop.py, that any number of    *)
(* workers try to run, the alerts of one monitored URL, and one heartbeat  *)
(* a job outside pings. The loop checks the URL, alerts, and marks the     *)
(* heartbeat down; a person sends test alerts; workers stop and fail.      *)
(***************************************************************************)
EXTENDS Naturals

CONSTANTS
    Workers,        \* processes that start the loop: the worker, the application
    NoWorker,
    CleanHandover,  \* does PostgreSQL end the session of a dead worker at once
    MaxFailures     \* bound on stops, crashes, failed steps and lost sessions

ASSUME MonitoringAssumption ==
    /\ NoWorker \notin Workers
    /\ CleanHandover \in BOOLEAN
    /\ MaxFailures \in Nat

VARIABLES
    loop,       \* where each worker is
    advisory,   \* holder of the advisory lock
    severed,    \* workers whose session with the lock ended under them
    due,        \* has the interval passed since the last check
    site,       \* what a check would find
    stamp,      \* age of the monitor's last_alert_sent_at
    sent,       \* age of the last alert that was really sent
    repeats,    \* alerts sent within the debounce of another by a worker alone in the loop
    unstamped,  \* alerts whose sender failed before it stamped them
    failures,
    job,        \* does the job ping
    status,     \* the heartbeat's status
    overdue,    \* have period and grace passed since its last_ping_at
    ping        \* the status a ping in flight has loaded

monitorVars == <<due, site, stamp, sent, repeats, unstamped>>
heartbeatVars == <<job, status, overdue, ping>>
lockVars == <<advisory, severed>>
monitoringVars == <<loop, lockVars, failures, monitorVars, heartbeatVars>>

Ages == {"never", "recent", "old"}

Running == {"sleeping", "checking", "alerting", "stamping", "sweeping", "marking"}

MonitoringTypeOK ==
    /\ loop \in [Workers -> {"off", "starting", "spare"} \cup Running]
    /\ advisory \in Workers \cup {NoWorker} /\ severed \subseteq Workers
    /\ due \in BOOLEAN /\ site \in {"up", "down"}
    /\ stamp \in Ages /\ sent \in Ages
    /\ repeats \in Nat /\ unstamped \in 0 .. MaxFailures /\ failures \in 0 .. MaxFailures
    /\ job \in {"pings", "silent"} /\ overdue \in BOOLEAN
    /\ status \in {"pending", "up", "down"} /\ ping \in {"none", "pending", "up", "down"}

MonitoringInit ==
    /\ loop = [w \in Workers |-> "off"]
    /\ advisory = NoWorker /\ severed = {}
    /\ due = TRUE /\ site = "up"
    /\ stamp = "never" /\ sent = "never" /\ repeats = 0 /\ unstamped = 0
    /\ failures = 0
    /\ job = "silent" /\ status = "pending" /\ overdue = FALSE /\ ping = "none"

-----------------------------------------------------------------------------
(* A worker. *)

Move(w, from, to) == loop[w] = from /\ loop' = [loop EXCEPT ![w] = to]

Start(w) ==
    /\ Move(w, "off", "starting")
    /\ UNCHANGED <<lockVars, failures, monitorVars, heartbeatVars>>

(* pg_try_advisory_lock: who does not get it never asks again. The session *)
(* of a dead worker may or may not have ended.                             *)
TryAdvisoryLock(w) ==
    /\ loop[w] = "starting"
    /\ \/ /\ advisory \in {NoWorker} \cup {v \in Workers : loop[v] \notin Running}
          /\ advisory' = w
          /\ loop' = [loop EXCEPT ![w] = "sleeping"]
       \/ /\ advisory # NoWorker
          /\ loop' = [loop EXCEPT ![w] = "spare"]
          /\ UNCHANGED advisory
    /\ UNCHANGED <<severed, failures, monitorVars, heartbeatVars>>

(* run_monitor_checks: only what is due is checked. *)
Wake(w) ==
    /\ Move(w, "sleeping", IF due THEN "checking" ELSE "sweeping")
    /\ UNCHANGED <<lockVars, failures, monitorVars, heartbeatVars>>

(* The result is committed before the alert is thought of. *)
Check(w) ==
    /\ Move(w, "checking", IF site = "down" THEN "alerting" ELSE "sweeping")
    /\ due' = FALSE
    /\ UNCHANGED <<lockVars, failures, site, stamp, sent, repeats, unstamped, heartbeatVars>>

Alone(w) == \A v \in Workers \ {w} : loop[v] \notin Running

Alert(w) ==
    /\ loop[w] = "alerting" /\ stamp # "recent"
    /\ loop' = [loop EXCEPT ![w] = "stamping"]
    /\ sent' = "recent"
    /\ repeats' = IF sent = "recent" /\ Alone(w) THEN repeats + 1 ELSE repeats
    /\ UNCHANGED <<lockVars, failures, due, site, stamp, unstamped, heartbeatVars>>

Debounce(w) ==
    /\ stamp = "recent"
    /\ Move(w, "alerting", "sweeping")
    /\ UNCHANGED <<lockVars, failures, monitorVars, heartbeatVars>>

(* A mutant: the time of the alert is not committed. *)
ForgetStamp(w) ==
    /\ Move(w, "stamping", "sweeping")
    /\ UNCHANGED <<lockVars, failures, monitorVars, heartbeatVars>>

Stamp(w) ==
    /\ Move(w, "stamping", "sweeping")
    /\ stamp' = "recent"
    /\ UNCHANGED <<lockVars, failures, due, site, sent, repeats, unstamped, heartbeatVars>>

(* A mutant: the comparison with the deadline is turned round. *)
SweepInTime(w) ==
    /\ Move(w, "sweeping", IF status = "up" /\ ~overdue THEN "marking" ELSE "sleeping")
    /\ UNCHANGED <<lockVars, failures, monitorVars, heartbeatVars>>

(* check_heartbeat_statuses loads, then writes. *)
Sweep(w) ==
    /\ Move(w, "sweeping", IF status = "up" /\ overdue THEN "marking" ELSE "sleeping")
    /\ UNCHANGED <<lockVars, failures, monitorVars, heartbeatVars>>

MarkDown(w) ==
    /\ Move(w, "marking", "sleeping")
    /\ status' = "down"
    /\ UNCHANGED <<lockVars, failures, monitorVars, job, overdue, ping>>

Unstamped(w) ==
    /\ failures < MaxFailures /\ failures' = failures + 1
    /\ unstamped' = IF loop[w] = "stamping" THEN unstamped + 1 ELSE unstamped

(* A mutant: an exception ends the loop, and the process stays. *)
FailAndEnd(w) ==
    /\ loop[w] \in Running \ {"sleeping"} /\ Unstamped(w)
    /\ loop' = [loop EXCEPT ![w] = "spare"]
    /\ advisory' = NoWorker
    /\ UNCHANGED <<severed, due, site, stamp, sent, repeats, heartbeatVars>>

(* A failed alert is logged and the iteration goes on; any other failure *)
(* ends the iteration, not the loop.                                     *)
Fail(w) ==
    /\ loop[w] \in Running \ {"sleeping"} /\ Unstamped(w)
    /\ loop' = [loop EXCEPT ![w] = IF @ \in {"alerting", "stamping"} THEN "sweeping" ELSE "sleeping"]
    /\ UNCHANGED <<lockVars, due, site, stamp, sent, repeats, heartbeatVars>>

(* SIGTERM cancels the loop wherever it is; a crash does the same. *)
Stop(w) ==
    /\ loop[w] # "off" /\ Unstamped(w)
    /\ loop' = [loop EXCEPT ![w] = "off"]
    /\ advisory' \in IF advisory # w THEN {advisory}
                     ELSE IF CleanHandover THEN {NoWorker} ELSE {NoWorker, w}
    /\ severed' = severed \ {w}
    /\ UNCHANGED <<due, site, stamp, sent, repeats, heartbeatVars>>

(* The lock is on a connection nothing looks at again: when PostgreSQL is *)
(* restarted or the network cuts it, the lock is gone and the loop goes on. *)
LoseSession(w) ==
    /\ loop[w] \in Running /\ advisory = w
    /\ failures < MaxFailures /\ failures' = failures + 1
    /\ advisory' = NoWorker
    /\ severed' = severed \cup {w}
    /\ UNCHANGED <<loop, monitorVars, heartbeatVars>>

WorkerStep(w) ==
    \/ Start(w) \/ TryAdvisoryLock(w)
    \/ Wake(w) \/ Check(w) \/ Alert(w) \/ Debounce(w) \/ Stamp(w)
    \/ Sweep(w) \/ MarkDown(w)

-----------------------------------------------------------------------------
(* Time, the site, the people and the job. *)

Due ==
    /\ ~due /\ due' = TRUE
    /\ UNCHANGED <<loop, lockVars, failures, site, stamp, sent, repeats, unstamped, heartbeatVars>>

(* A stamp is never older than the alert it was written for. *)
Age ==
    /\ \/ sent = "recent" /\ sent' = "old" /\ UNCHANGED stamp
       \/ sent # "recent" /\ stamp = "recent" /\ stamp' = "old" /\ UNCHANGED sent
    /\ UNCHANGED <<loop, lockVars, failures, due, site, repeats, unstamped, heartbeatVars>>

SiteChanges ==
    /\ site' = IF site = "up" THEN "down" ELSE "up"
    /\ UNCHANGED <<loop, lockVars, failures, due, stamp, sent, repeats, unstamped, heartbeatVars>>

(* monitor_test_alert: not held back by the debounce, but it starts one. *)
TestAlert ==
    /\ failures < MaxFailures /\ failures' = failures + 1
    /\ stamp' = "recent"
    /\ UNCHANGED <<loop, lockVars, due, site, sent, repeats, unstamped, heartbeatVars>>

JobChanges ==
    /\ job' = IF job = "pings" THEN "silent" ELSE "pings"
    /\ UNCHANGED <<loop, lockVars, failures, monitorVars, status, overdue, ping>>

Overdue ==
    /\ status # "pending" /\ ~overdue /\ overdue' = TRUE
    /\ UNCHANGED <<loop, lockVars, failures, monitorVars, job, status, ping>>

StartPing ==
    /\ job = "pings" /\ ping = "none"
    /\ ping' = status
    /\ UNCHANGED <<loop, lockVars, failures, monitorVars, job, status, overdue>>

(* A mutant: a ping writes its time alone. *)
StampPing ==
    /\ ping # "none" /\ ping' = "none"
    /\ overdue' = FALSE
    /\ UNCHANGED <<loop, lockVars, failures, monitorVars, job, status>>

(* _handle_ping: the UPDATE writes the status only when it differs from *)
(* the one that was loaded, last_ping_at always.                        *)
CommitPing ==
    /\ ping # "none" /\ ping' = "none"
    /\ status' = IF ping # "up" THEN "up" ELSE status
    /\ overdue' = FALSE
    /\ UNCHANGED <<loop, lockVars, failures, monitorVars, job>>

MonitoringNext ==
    \/ \E w \in Workers : WorkerStep(w) \/ Fail(w) \/ Stop(w) \/ LoseSession(w)
    \/ Due \/ Age \/ SiteChanges \/ TestAlert
    \/ JobChanges \/ Overdue \/ StartPing \/ CommitPing

MonitoringSpec == MonitoringInit /\ [][MonitoringNext]_monitoringVars

-----------------------------------------------------------------------------
(* A worker alone in the loop alerts within the debounce of another alert  *)
(* only when the sender of that failed before it stamped it: not because   *)
(* workers took over from each other, because a second loop ran beside it  *)
(* for a while, or because a test alert stamped in between.                *)
RepeatsBounded == repeats <= unstamped

Alerting == \E w \in Workers : loop[w] = "stamping"
=============================================================================
