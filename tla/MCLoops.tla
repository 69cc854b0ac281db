------------------------------ MODULE MCLoops ------------------------------
(***************************************************************************)
(* Two components that run for ever and share no state, checked in one     *)
(* run: part says which of them runs, the other stays in its first state.  *)
(* Each is only as fair as its own module says.                            *)
(***************************************************************************)
EXTENDS MergeQueue, Monitoring

VARIABLE part

Init ==
    /\ part \in {"queue", "monitoring"}
    /\ QueueInit /\ MonitoringInit
    /\ part = "monitoring" =>
          queue = <<>> /\ ~forge[1].draft /\ target = [m \in MRs |-> Default]
    \* bounds: no second MR to the integration branch, a first draft has the other MR
    \* on it, and next to an item of the old track there is an MR to the default branch
    /\ target[2] # Integration
    /\ forge[1].draft => target[2] = 1
    /\ queue # <<>> => target[2] = Default

QueuePart == part = "queue" /\ QueueNext /\ UNCHANGED <<part, monitoringVars>>

MonitoringPart == part = "monitoring" /\ MonitoringNext /\ UNCHANGED <<part, queueVars>>

(* Ticks are started again and again, and run on; pipelines end; people   *)
(* approve, finish drafts, restart what needs a restart and lift a halt.   *)
QueueFairness ==
    /\ WF_queueVars(part = "queue" /\ TickStep)
    /\ \A m \in MRs :
          /\ WF_queueVars(part = "queue" /\ CIEnds(m))
          /\ WF_queueVars(part = "queue" /\ RetryCI(m))
          /\ WF_queueVars(part = "queue" /\ Approve(m))
          /\ WF_queueVars(part = "queue" /\ Undraft(m))
          /\ WF_queueVars(part = "queue" /\ \E result \in {"success", "failed"} : TargetEnds(m, result))
          /\ WF_queueVars(part = "queue" /\ TargetRestarts(m))
          /\ WF_queueVars(part = "queue" /\ LiftHalt(m))

(* Workers are restarted and go on, time passes, a job that pings does so *)
(* again and again, and requests end.                                      *)
MonitoringFairness ==
    /\ \A w \in Workers : WF_monitoringVars(part = "monitoring" /\ WorkerStep(w))
    /\ WF_monitoringVars(part = "monitoring" /\ Due)
    /\ WF_monitoringVars(part = "monitoring" /\ Age)
    /\ WF_monitoringVars(part = "monitoring" /\ StartPing)
    /\ WF_monitoringVars(part = "monitoring" /\ CommitPing)

Spec == Init /\ [][QueuePart \/ MonitoringPart]_<<part, queueVars, monitoringVars>> 
            /\ QueueFairness /\ MonitoringFairness

(* Every variable of both components keeps its type. *)
LoopsTypeOK == QueueTypeOK /\ MonitoringTypeOK

(* Pipelines end, people answer, ticks come again: the queue is empty in  *)
(* the end, whichever tick died and whatever was merged by hand.           *)
QueueDrains == <>[](part = "queue" => Drained)

(* A site that stays down is alerted of again and again. *)
OutageIsAlerted == <>[](part = "monitoring" /\ site = "down") => []<>Alerting

(* A job that has pinged and is silent is down in the end, and stays so. *)
SilenceIsNoticed == <>[](part = "monitoring" /\ overdue) => <>[](status = "down")

(* A job that pings in time is up in the end, and stays so, whatever the *)
(* sweeps had loaded before.                                             *)
AliveIsSeen ==
    <>[](part = "monitoring" /\ job = "pings" /\ ~overdue) => <>[](status = "up")
=============================================================================
