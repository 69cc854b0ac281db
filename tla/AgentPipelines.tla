--------------------------- MODULE AgentPipelines ---------------------------
(***************************************************************************)
(* One pipeline of agent work: its steps, the jobs the agents open in them *)
(* and the propagation of a job's status up to its step and its pipeline   *)
(* (services/pipelines.py). Every call loads what it decides on, in one    *)
(* SELECT per relationship, and writes at its commit the columns it        *)
(* changed; nothing is locked in between.                                  *)
(***************************************************************************)
EXTENDS Integers, FiniteSets

CONSTANTS
    Jobs, Steps,
    StepOf,          \* the step each job is opened in
    Agents,          \* calls being served
    Unchanged,       \* a column the call does not write
    Derived,         \* finish_pipeline without a status
    AskedStatuses,   \* statuses the agents give a job,
    ClosingStatuses  \* and a pipeline they finish

ASSUME PipelineAssumption ==
    /\ StepOf \in [Jobs -> Steps]
    /\ Unchanged \notin {"created", "pending", "running", "success", "failed", "skipped", "canceled"}
    /\ AskedStatuses \subseteq {"pending", "running", "success", "failed", "skipped", "canceled"}
    /\ ClosingStatuses \subseteq {"created", "running", "success", "failed", "canceled", Derived}

VARIABLES
    job,        \* status of each job, "none" before create_job
    step,       \* status of each step and whether finished_at is set
    pipeline,   \* status of the pipeline and whether finished_at is set
    agentCall,  \* what each call is doing
    outrun,     \* history: updates another update of their step committed before,
    late,       \* updates a finish committed before,
    stale       \* and steps the last judgement of which was an outrun one

pipelineVars == <<job, step, pipeline, agentCall, outrun, late, stale>>

(* created stands with pending: neither running nor terminal *)
JobTerminal == {"success", "failed", "skipped", "canceled"}
JobStatuses == {"pending", "running"} \cup JobTerminal
PipelineEnds == {"success", "failed", "canceled"}
PipelineStatuses == {"created", "running"} \cup PipelineEnds

NoCall == [op |-> "free"]

UpdateCall ==
    [op: {"update"}, at: {"siblings"}, job: Jobs, status: JobStatuses \cup {Unchanged},
     own: JobStatuses, loadedStep: JobStatuses, pipeline: {"running", Unchanged}]
    \cup
    [op: {"update"}, at: {"commit"}, job: Jobs, status: JobStatuses \cup {Unchanged},
     judges: BOOLEAN, step: JobStatuses \cup {Unchanged}, stamp: BOOLEAN,
     pipeline: {"running", Unchanged}]
FinishCall == [op: {"finish"}, pipeline: PipelineStatuses \cup {Unchanged}]

PipelinesTypeOK ==
    /\ job \in [Jobs -> JobStatuses \cup {"none"}]
    /\ step \in [Steps -> [status: JobStatuses, finished: BOOLEAN]]
    /\ pipeline \in [status: PipelineStatuses, finished: BOOLEAN]
    /\ agentCall \in [Agents -> {NoCall} \cup UpdateCall \cup FinishCall]
    /\ outrun \in SUBSET Agents /\ late \in SUBSET Agents /\ stale \in SUBSET Steps

(* create_pipeline commits the pipeline together with its pending steps. *)
PipelinesInit ==
    /\ job = [j \in Jobs |-> "none"]
    /\ step = [s \in Steps |-> [status |-> "pending", finished |-> FALSE]]
    /\ pipeline = [status |-> "created", finished |-> FALSE]
    /\ agentCall = [a \in Agents |-> NoCall]
    /\ outrun = {} /\ late = {} /\ stale = {}

-----------------------------------------------------------------------------
Opened(s) == {j \in Jobs : StepOf[j] = s /\ job[j] # "none"}
StatusesIn(s) == {job[j] : j \in Opened(s)}

(* _update_step_status: what a step becomes for the statuses of its jobs,  *)
(* given the status it has.                                                *)
Verdict(statuses, current) ==
    IF statuses \subseteq JobTerminal
      THEN IF "failed" \in statuses THEN "failed"
           ELSE IF "canceled" \in statuses /\ statuses \subseteq {"canceled", "skipped"}
                  THEN "canceled"
                  ELSE "success"
      ELSE IF "running" \in statuses THEN "running" ELSE current

(* An ORM column is written when it differs from what was loaded. *)
Changed(loaded, new) == IF new = loaded THEN Unchanged ELSE new
Apply(column, value) == IF value = Unchanged THEN column ELSE value

Updating(a) == agentCall[a].op = "update"
Closing(a)  == agentCall[a].op = "finish"
StepOfCall(a) == StepOf[agentCall[a].job]

CreateJob(j) ==
    /\ job[j] = "none"
    /\ job' = [job EXCEPT ![j] = "pending"]
    /\ UNCHANGED <<step, pipeline, agentCall, outrun, late, stale>>

(* A mutant: a running job sets its pipeline running whatever it was. *)
StartedAgain(status) == IF status = "running" THEN "running" ELSE Unchanged

(* What a job that gets this status makes of the pipeline as it is. *)
Started(status) ==
    IF status = "running" /\ pipeline.status = "created" THEN "running" ELSE Unchanged

(* update_job_by_id loads the job with its step and pipeline, then the     *)
(* other jobs of the step.                                                 *)
LoadJob(a, j, status) ==
    /\ agentCall[a] = NoCall
    /\ job[j] # "none"
    /\ agentCall' = [agentCall EXCEPT ![a] =
            [op |-> "update", at |-> "siblings", job |-> j,
             status |-> Changed(job[j], status), own |-> status,
             loadedStep |-> step[StepOf[j]].status, pipeline |-> Started(status)]]
    /\ UNCHANGED <<job, step, pipeline, outrun, late, stale>>

(* A mutant: the other jobs alone. *)
OtherStatuses(u) == {job[j] : j \in Opened(StepOf[u.job]) \ {u.job}}

(* The statuses of the step's jobs, with the one this call sets. *)
StatusesSeen(u) == {job[j] : j \in Opened(StepOf[u.job]) \ {u.job}} \cup {u.own}

Judged(u) ==
    IF u.own = "running" THEN "running"
    ELSE IF u.own \in JobTerminal THEN Verdict(StatusesSeen(u), u.loadedStep)
    ELSE u.loadedStep

(* What an update commits. *)
Planned(u) ==
    [op |-> "update", at |-> "commit", job |-> u.job, status |-> u.status, judges |-> u.own # "pending",
     step |-> Changed(u.loadedStep, Judged(u)),
     stamp |-> u.own \in JobTerminal /\ StatusesSeen(u) \subseteq JobTerminal,
     pipeline |-> u.pipeline]

LoadSiblings(a) ==
    /\ Updating(a) /\ agentCall[a].at = "siblings"
    /\ agentCall' = [agentCall EXCEPT ![a] = Planned(agentCall[a])]
    /\ UNCHANGED <<job, step, pipeline, outrun, late, stale>>

CommitUpdate(a) ==
    /\ Updating(a) /\ agentCall[a].at = "commit"
    /\ LET u == agentCall[a] IN
       /\ job' = [job EXCEPT ![u.job] = Apply(@, u.status)]
       /\ step' = [step EXCEPT ![StepOf[u.job]] =
                      [status |-> Apply(@.status, u.step), finished |-> @.finished \/ u.stamp]]
       /\ pipeline' = [pipeline EXCEPT !.status = Apply(@, u.pipeline)]
       /\ stale' = IF a \in outrun THEN stale \cup {StepOf[u.job]}
                   ELSE IF u.judges THEN stale \ {StepOf[u.job]} ELSE stale
    /\ agentCall' = [agentCall EXCEPT ![a] = NoCall]
    /\ outrun' = {b \in Agents \ {a} : b \in outrun \/ (Updating(b) /\ StepOfCall(b) = StepOfCall(a))}
    /\ late' = late \ {a}

(* A mutant: the status all steps share is taken over as it is. *)
SharedStatus ==
    LET statuses == {step[s].status : s \in Steps} IN
    IF Cardinality(statuses) = 1 THEN CHOOSE status \in statuses : TRUE
    ELSE IF "failed" \in statuses THEN "failed" ELSE "success"

(* finish_pipeline: the status given, or the one its steps add up to *)
DerivedStatus ==
    LET statuses == {step[s].status : s \in Steps} IN
    IF "failed" \in statuses THEN "failed"
    ELSE IF statuses # {} /\ statuses \subseteq {"canceled", "skipped"} THEN "canceled"
    ELSE "success"

LoadPipeline(a, status) ==
    /\ agentCall[a] = NoCall
    /\ agentCall' = [agentCall EXCEPT ![a] =
            [op |-> "finish",
             pipeline |-> Changed(pipeline.status, IF status = Derived THEN DerivedStatus ELSE status)]]
    /\ UNCHANGED <<job, step, pipeline, outrun, late, stale>>

CommitFinish(a) ==
    /\ Closing(a)
    /\ pipeline' = [status |-> Apply(pipeline.status, agentCall[a].pipeline), finished |-> TRUE]
    /\ agentCall' = [agentCall EXCEPT ![a] = NoCall]
    /\ late' = late \cup {b \in Agents : Updating(b)}
    /\ UNCHANGED <<job, step, outrun, stale>>

(* The agent's session ends before the commit. *)
AbandonCall(a) ==
    /\ agentCall[a] # NoCall
    /\ agentCall' = [agentCall EXCEPT ![a] = NoCall]
    /\ outrun' = outrun \ {a} /\ late' = late \ {a}
    /\ UNCHANGED <<job, step, pipeline, stale>>

PipelinesNext ==
    \/ \E j \in Jobs : CreateJob(j)
    \/ \E a \in Agents :
        \/ \E j \in Jobs, status \in AskedStatuses : LoadJob(a, j, status)
        \/ LoadSiblings(a)
        \/ CommitUpdate(a)
        \/ \E status \in ClosingStatuses : LoadPipeline(a, status)
        \/ CommitFinish(a)
        \/ AbandonCall(a)

PipelinesSpec == PipelinesInit /\ [][PipelinesNext]_pipelineVars

-----------------------------------------------------------------------------
(* A step follows its jobs: once all of them are terminal it carries their *)
(* verdict and its end is stamped, and it runs while one of them runs.     *)
(* Jobs are opened, restarted and put back at any time, in any order, by   *)
(* updates that overlap. A step stops following only when it is judged by  *)
(* an update that another update of the step outran, and the next update   *)
(* that is not outrun and judges it mends that.                            *)
StepFollowsJobs ==
    \A s \in Steps \ stale : Opened(s) # {} =>
        /\ StatusesIn(s) \subseteq JobTerminal =>
              step[s].status = Verdict(StatusesIn(s), "pending") /\ step[s].finished
        /\ "running" \in StatusesIn(s) => step[s].status = "running"

(* A pipeline that has ended is changed by finish_pipeline, or set running *)
(* again by an update of a job that was in flight when a finish committed: *)
(* an update that comes later does not bring it back, whatever it reports. *)
EndedStaysEnded ==
    [][pipeline.status \in PipelineEnds /\ pipeline'.status # pipeline.status =>
          \E a \in Agents :
              /\ agentCall'[a] = NoCall
              /\ Closing(a) \/ (a \in late /\ pipeline'.status = "running")]_pipelineVars

=============================================================================
