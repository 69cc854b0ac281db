--------------------------- MODULE ReportsProofs ----------------------------
(***************************************************************************)
(* What reports leave behind that arrive in any number and any order: the  *)
(* counter of an error's issue (ErrorGrouping), and the statuses of the    *)
(* steps and the pipeline of agent jobs (AgentPipelines).                  *)
(***************************************************************************)
EXTENDS ErrorGrouping, AgentPipelines, TLAPS

-----------------------------------------------------------------------------
(* The counter of an issue.                                                *)

(* A request in flight has read no more than there are events, and what    *)
(* the counter still is unless another one was counted beside it. Without  *)
(* this the counter it writes could pass the events, or fall behind them.  *)
LoadedInv ==
    \A r \in Reporters : report[r] # Silent =>
        /\ report[r].loaded <= events
        /\ r \notin outpaced => report[r].loaded = eventCount

ErrorInv == ErrorsTypeOK /\ CountWithinEvents /\ LoadedInv

\* A request in flight carries a counter it read.
LEMMA ReportInFlight ==
    ASSUME ErrorsTypeOK, NEW r \in Reporters, report[r] # Silent
    PROVE  report[r] \in Report /\ report[r].loaded \in 0 .. MaxEvents
  BY DEF ErrorsTypeOK, Report

LEMMA FindKeepsCount ==
    ASSUME ErrorInv, NEW r \in Reporters, FindIssue(r)
    PROVE  ErrorInv'
<1>1. [at |-> "save", loaded |-> eventCount] \in Report
  BY DEF ErrorInv, ErrorsTypeOK, Report
<1>2. ErrorsTypeOK'
  BY <1>1 DEF ErrorInv, ErrorsTypeOK, FindIssue
<1>3. LoadedInv'
  BY DEF ErrorInv, ErrorsTypeOK, FindIssue, LoadedInv, CountWithinEvents
<1>4. QED BY <1>2, <1>3 DEF ErrorInv, FindIssue, CountWithinEvents

LEMMA SaveKeepsCount ==
    ASSUME ErrorInv, NEW r \in Reporters, CountEvent(r) \/ OpenIssue(r) \/ LoseReport(r)
    PROVE  ErrorInv'
<1>1. /\ report[r] \in Report /\ report[r].loaded \in 0 .. MaxEvents /\ report[r].loaded <= events
      /\ r \notin outpaced => report[r].loaded = eventCount
  BY ReportInFlight DEF ErrorInv, LoadedInv, CountEvent, OpenIssue, LoseReport
<1>2. /\ eventCount' \in 0 .. MaxEvents /\ events' \in 0 .. MaxEvents
      /\ events' > 0 <=> eventCount' > 0
      /\ eventCount' <= events' /\ events <= events'
  BY <1>1, ErrorAssumption DEF ErrorInv, ErrorsTypeOK, CountWithinEvents, CountEvent, OpenIssue, LoseReport
<1>3. report' = [report EXCEPT ![r] = Silent]
  BY DEF CountEvent, OpenIssue, LoseReport
<1>4. outpaced' \in SUBSET Reporters /\ missed' \in BOOLEAN
  BY DEF CountEvent, OpenIssue, LoseReport, Outpace, ErrorInv, ErrorsTypeOK
<1>5. ErrorsTypeOK'
  BY <1>2, <1>3, <1>4 DEF ErrorInv, ErrorsTypeOK
<1>6. ~missed' => eventCount' = events'
  <2>1. CASE CountEvent(r)
    <3>1. ~missed' => ~missed /\ r \notin outpaced
      BY <2>1 DEF CountEvent
    <3>2. QED BY <1>1, <2>1, <3>1 DEF CountEvent, ErrorInv, ErrorsTypeOK, CountWithinEvents
  <2>2. CASE OpenIssue(r) \/ LoseReport(r)
    BY <2>2 DEF OpenIssue, LoseReport, ErrorInv, ErrorsTypeOK, CountWithinEvents
  <2>3. QED BY <2>1, <2>2
<1>7. ASSUME NEW q \in Reporters, report'[q] # Silent
      PROVE  report'[q].loaded <= events' /\ (q \notin outpaced' => report'[q].loaded = eventCount')
  <2>1. report'[q] = report[q] /\ q # r
    BY <1>3, <1>7 DEF ErrorInv, ErrorsTypeOK
  <2>2. /\ report[q].loaded \in Int /\ report[q].loaded <= events
        /\ q \notin outpaced => report[q].loaded = eventCount
    BY <1>7, <2>1, ReportInFlight DEF ErrorInv, LoadedInv
  <2>3. q \notin outpaced' => q \notin outpaced /\ eventCount' = eventCount
    BY <1>7, <2>1 DEF CountEvent, OpenIssue, LoseReport, Outpace
  <2>4. QED BY <1>2, <2>1, <2>2, <2>3 DEF ErrorInv, ErrorsTypeOK
<1>8. QED BY <1>2, <1>5, <1>6, <1>7 DEF ErrorInv, LoadedInv, CountWithinEvents

\* The counter's invariant holds at the start and is kept.
LEMMA ErrorInductive ==
    /\ ErrorsInit => ErrorInv
    /\ ErrorInv /\ [ErrorsNext]_errorVars => ErrorInv'
<1>1. ErrorsInit => ErrorInv
  <2>1. ErrorsInit => \A r \in Reporters : report[r] = Silent
    BY DEF ErrorsInit
  <2>2. ErrorsInit => eventCount \in 0 .. MaxEvents /\ events \in 0 .. MaxEvents /\ CountWithinEvents
    BY ErrorAssumption DEF ErrorsInit, CountWithinEvents
  <2>3. ErrorsInit => /\ report \in [Reporters -> Report \cup {Silent}]
                      /\ outpaced \in SUBSET Reporters /\ missed \in BOOLEAN
    BY DEF ErrorsInit
  <2>4. QED BY <2>1, <2>2, <2>3 DEF ErrorInv, LoadedInv, ErrorsTypeOK
<1>2. ErrorInv /\ ErrorsNext => ErrorInv'
  BY FindKeepsCount, SaveKeepsCount DEF ErrorsNext
<1>3. ErrorInv /\ UNCHANGED errorVars => ErrorInv'
  BY DEF errorVars, ErrorInv, ErrorsTypeOK, CountWithinEvents, LoadedInv
<1>4. QED BY <1>1, <1>2, <1>3

(* For any number of reporters and events, the counter of an issue stands  *)
(* between one and the number of its events, no issue is without one, and  *)
(* the counter is exact as long as no request counts its event after       *)
(* another one was counted beside it.                                      *)
THEOREM CountIsBounded == ErrorsSpec => [](ErrorsTypeOK /\ CountWithinEvents)
<1>1. ErrorInv => ErrorsTypeOK /\ CountWithinEvents
  BY DEF ErrorInv
<1>2. QED BY <1>1, ErrorInductive, PTL DEF ErrorsSpec

-----------------------------------------------------------------------------
(* Jobs, steps and the pipeline, under calls that overlap as they like.    *)

AgentCalls == {NoCall} \cup UpdateCall \cup FinishCall

\* A call's operation, and the place it has reached, tell its record.
LEMMA CallRecord ==
    ASSUME NEW x \in AgentCalls
    PROVE  /\ x.op = "update" => /\ x \in UpdateCall /\ x.at \in {"siblings", "commit"}
                                 /\ x.job \in Jobs /\ x.status \in JobStatuses \cup {Unchanged}
           /\ x.op = "update" /\ x.at = "siblings" =>
                x.own \in JobStatuses /\ x.loadedStep \in JobStatuses
           /\ x.op = "update" /\ x.at = "commit" =>
                /\ x.step \in JobStatuses \cup {Unchanged} /\ x.stamp \in BOOLEAN
                /\ x.judges \in BOOLEAN
           /\ x.op = "update" => x.pipeline \in {"running", Unchanged}
           /\ x.op = "finish" => x \in FinishCall /\ x.pipeline \in PipelineStatuses \cup {Unchanged}
           /\ x # NoCall => x.op \in {"update", "finish"}
  BY DEF AgentCalls, NoCall, UpdateCall, FinishCall

\* What columns become.
LEMMA Columns ==
    /\ \A column \in JobStatuses, new \in JobStatuses \cup {Unchanged} :
          Apply(column, new) \in JobStatuses
    /\ \A column \in PipelineStatuses, new \in PipelineStatuses \cup {Unchanged} :
          Apply(column, new) \in PipelineStatuses
    /\ \A loaded, new : Changed(loaded, new) \in {new, Unchanged}
    /\ \A loaded, new \in JobStatuses : Apply(loaded, Changed(loaded, new)) = new
    /\ Unchanged \notin JobStatuses /\ Unchanged \notin PipelineStatuses
  BY PipelineAssumption DEF Apply, Changed, JobStatuses, JobTerminal, PipelineStatuses, PipelineEnds

\* The verdict on a step is a status.
LEMMA Verdicts ==
    ASSUME NEW statuses, NEW current \in JobStatuses
    PROVE  /\ Verdict(statuses, current) \in JobStatuses
           /\ statuses \subseteq JobTerminal => Verdict(statuses, current) = Verdict(statuses, "pending")
           /\ ~(statuses \subseteq JobTerminal) /\ "running" \in statuses
                => Verdict(statuses, current) = "running"
  BY DEF Verdict, JobStatuses, JobTerminal

\* What a call makes of a step is a status.
LEMMA JudgedStatus ==
    ASSUME NEW u, u.own \in JobStatuses, u.loadedStep \in JobStatuses
    PROVE  Judged(u) \in JobStatuses
  BY Verdicts DEF Judged, JobStatuses

LEMMA CreateKeepsType ==
    ASSUME PipelinesTypeOK, NEW j \in Jobs, CreateJob(j)
    PROVE  PipelinesTypeOK'
  BY DEF PipelinesTypeOK, CreateJob, JobStatuses

LEMMA LoadKeepsType ==
    ASSUME PipelinesTypeOK, NEW a \in Agents,
           \/ \E j \in Jobs, status \in AskedStatuses : LoadJob(a, j, status)
           \/ LoadSiblings(a)
           \/ \E status \in ClosingStatuses : LoadPipeline(a, status)
    PROVE  PipelinesTypeOK'
<1>0. agentCall \in [Agents -> AgentCalls]
  BY DEF PipelinesTypeOK, AgentCalls
<1>1. ASSUME NEW j \in Jobs, NEW status \in AskedStatuses, LoadJob(a, j, status)
      PROVE  agentCall' \in [Agents -> AgentCalls]
  <2>1. StepOf[j] \in Steps /\ status \in JobStatuses
    BY PipelineAssumption DEF JobStatuses, JobTerminal
  <2>2. [op |-> "update", at |-> "siblings", job |-> j,
         status |-> Changed(job[j], status), own |-> status,
         loadedStep |-> step[StepOf[j]].status, pipeline |-> Started(status)] \in UpdateCall
    BY <2>1, Columns DEF PipelinesTypeOK, UpdateCall, Started
  <2>3. QED BY <1>0, <1>1, <2>2 DEF LoadJob, AgentCalls
<1>2. ASSUME LoadSiblings(a)
      PROVE  agentCall' \in [Agents -> AgentCalls]
  <2> DEFINE u == agentCall[a]
  <2>1. /\ u.op = "update" /\ u.at = "siblings" /\ u.job \in Jobs /\ u.own \in JobStatuses
        /\ u.status \in JobStatuses \cup {Unchanged}
        /\ u.loadedStep \in JobStatuses /\ u.pipeline \in {"running", Unchanged}
    BY <1>0, <1>2, CallRecord DEF LoadSiblings, Updating
  <2>2. Changed(u.loadedStep, Judged(u)) \in JobStatuses \cup {Unchanged}
    BY <2>1, Columns, JudgedStatus
  <2>3. Planned(u) \in UpdateCall
    BY <2>1, <2>2 DEF UpdateCall, Planned
  <2>4. QED BY <1>0, <1>2, <2>3 DEF LoadSiblings, AgentCalls
<1>3. ASSUME NEW status \in ClosingStatuses, LoadPipeline(a, status)
      PROVE  agentCall' \in [Agents -> AgentCalls]
  <2>1. (IF status = Derived THEN DerivedStatus ELSE status) \in PipelineStatuses
    BY PipelineAssumption DEF DerivedStatus, PipelineStatuses, PipelineEnds
  <2>2. [op |-> "finish",
         pipeline |-> Changed(pipeline.status, IF status = Derived THEN DerivedStatus ELSE status)]
           \in FinishCall
    BY <2>1, Columns DEF FinishCall
  <2>3. QED BY <1>0, <1>3, <2>2 DEF LoadPipeline, AgentCalls
<1>4. UNCHANGED <<job, step, pipeline, outrun, late, stale>>
  BY DEF LoadJob, LoadSiblings, LoadPipeline
<1>5. QED BY <1>1, <1>2, <1>3, <1>4 DEF PipelinesTypeOK, AgentCalls

LEMMA CommitKeepsType ==
    ASSUME PipelinesTypeOK, NEW a \in Agents, CommitUpdate(a) \/ CommitFinish(a) \/ AbandonCall(a)
    PROVE  PipelinesTypeOK'
<1>0. agentCall \in [Agents -> AgentCalls]
  BY DEF PipelinesTypeOK, AgentCalls
<1>1. agentCall' \in [Agents -> AgentCalls]
  BY <1>0 DEF CommitUpdate, CommitFinish, AbandonCall, AgentCalls
<1>2. CASE CommitUpdate(a)
  <2> DEFINE u == agentCall[a]
  <2>1. /\ u.job \in Jobs /\ u.status \in JobStatuses \cup {Unchanged}
        /\ u.step \in JobStatuses \cup {Unchanged} /\ u.stamp \in BOOLEAN
        /\ u.pipeline \in PipelineStatuses \cup {Unchanged}
    BY <1>0, <1>2, CallRecord DEF CommitUpdate, Updating, PipelineStatuses
  <2>2. StepOf[u.job] \in Steps
    BY <2>1, PipelineAssumption
  <2>3. Apply(job[u.job], u.status) \in JobStatuses \cup {"none"}
    BY <2>1 DEF PipelinesTypeOK, Apply
  <2>4. /\ Apply(step[StepOf[u.job]].status, u.step) \in JobStatuses
        /\ (step[StepOf[u.job]].finished \/ u.stamp) \in BOOLEAN
    BY <2>1, <2>2, Columns DEF PipelinesTypeOK
  <2>5. step' \in [Steps -> [status: JobStatuses, finished: BOOLEAN]]
    BY <1>2, <2>2, <2>4 DEF PipelinesTypeOK, CommitUpdate
  <2>6. job' \in [Jobs -> JobStatuses \cup {"none"}]
    BY <1>2, <2>1, <2>3 DEF PipelinesTypeOK, CommitUpdate
  <2>7. pipeline' \in [status: PipelineStatuses, finished: BOOLEAN]
    BY <1>2, <2>1, Columns DEF PipelinesTypeOK, CommitUpdate
  <2>8. outrun' \in SUBSET Agents /\ late' \in SUBSET Agents /\ stale' \in SUBSET Steps
    BY <1>2, <2>2 DEF PipelinesTypeOK, CommitUpdate
  <2>9. QED BY <1>1, <2>5, <2>6, <2>7, <2>8 DEF PipelinesTypeOK, AgentCalls
<1>3. CASE CommitFinish(a)
  <2>1. agentCall[a].pipeline \in PipelineStatuses \cup {Unchanged}
    BY <1>0, <1>3, CallRecord DEF CommitFinish, Closing
  <2>2. pipeline' \in [status: PipelineStatuses, finished: BOOLEAN]
    BY <1>3, <2>1, Columns DEF PipelinesTypeOK, CommitFinish
  <2>3. QED BY <1>1, <1>3, <2>2 DEF PipelinesTypeOK, CommitFinish, AgentCalls
<1>4. CASE AbandonCall(a)
  BY <1>1, <1>4 DEF PipelinesTypeOK, AbandonCall, AgentCalls
<1>5. QED BY <1>2, <1>3, <1>4

\* Types hold at the start and are kept.
LEMMA PipelinesTypeInductive ==
    /\ PipelinesInit => PipelinesTypeOK
    /\ PipelinesTypeOK /\ [PipelinesNext]_pipelineVars => PipelinesTypeOK'
<1>1. PipelinesInit => PipelinesTypeOK
  BY DEF PipelinesInit, PipelinesTypeOK, JobStatuses, PipelineStatuses
<1>2. PipelinesTypeOK /\ PipelinesNext => PipelinesTypeOK'
  BY CreateKeepsType, LoadKeepsType, CommitKeepsType DEF PipelinesNext
<1>3. PipelinesTypeOK /\ UNCHANGED pipelineVars => PipelinesTypeOK'
  BY DEF pipelineVars, PipelinesTypeOK
<1>4. QED BY <1>1, <1>2, <1>3

(* Types, for any number of agents, jobs and steps, racing or not.         *)
THEOREM PipelinesTypeCorrect == PipelinesSpec => []PipelinesTypeOK
  BY PipelinesTypeInductive, PTL DEF PipelinesSpec

-----------------------------------------------------------------------------
(* What the job of an update becomes, and the statuses of its step then. *)
Coming(a) == Apply(job[agentCall[a].job], agentCall[a].status)
Others(a) == {job[i] : i \in Opened(StepOfCall(a)) \ {agentCall[a].job}}
SeenThen(a) == Others(a) \cup {Coming(a)}
Becomes(a) == Apply(step[StepOfCall(a)].status, agentCall[a].step)

(* What an update has loaded is still so. *)
LoadedStill(a) ==
    /\ agentCall[a].own = Coming(a)
    /\ agentCall[a].loadedStep = step[StepOfCall(a)].status

(* The step an update is about to write follows the jobs there will be,    *)
(* or the update puts its job back and leaves the step as it is.           *)
PlannedWell(a) ==
    IF agentCall[a].judges
      THEN /\ SeenThen(a) \subseteq JobTerminal =>
                 /\ Becomes(a) = Verdict(SeenThen(a), "pending")
                 /\ agentCall[a].stamp \/ step[StepOfCall(a)].finished
           /\ "running" \in SeenThen(a) => Becomes(a) = "running"
      ELSE Coming(a) = "pending" /\ agentCall[a].step = Unchanged

(* So it is unless another update of the step has committed meanwhile.     *)
UpdateInv(a) ==
    /\ job[agentCall[a].job] # "none"
    /\ a \notin outrun =>
          /\ agentCall[a].at = "siblings" => LoadedStill(a)
          /\ agentCall[a].at = "commit" => PlannedWell(a)

UpdatesInv == \A a \in Agents : Updating(a) => UpdateInv(a)

(* An update that will set the pipeline running found it created, and no   *)
(* finish has committed since.                                             *)
StartsInv ==
    \A a \in Agents : Updating(a) /\ a \notin late /\ agentCall[a].pipeline = "running" =>
        pipeline.status \in {"created", "running"}

PipelinesInv == PipelinesTypeOK /\ UpdatesInv /\ StepFollowsJobs

-----------------------------------------------------------------------------
\* What is known of an update in flight.
LEMMA UpdateFacts ==
    ASSUME PipelinesTypeOK, NEW a \in Agents, Updating(a)
    PROVE  LET u == agentCall[a] IN
           /\ u \in UpdateCall /\ u.at \in {"siblings", "commit"}
           /\ u.job \in Jobs /\ u.status \in JobStatuses \cup {Unchanged}
           /\ StepOf[u.job] \in Steps
           /\ u.at = "siblings" => u.own \in JobStatuses /\ u.loadedStep \in JobStatuses
           /\ u.at = "commit" => u.step \in JobStatuses \cup {Unchanged} /\ u.stamp \in BOOLEAN
                                /\ u.judges \in BOOLEAN
           /\ u.pipeline \in {"running", Unchanged}
  BY CallRecord, PipelineAssumption DEF PipelinesTypeOK, AgentCalls, Updating

\* An update that turns to other columns is left in peace by the rest.
LEMMA UpdateUndisturbed ==
    ASSUME NEW a \in Agents, UpdateInv(a),
           agentCall'[a] = agentCall[a],
           job'[agentCall[a].job] = job[agentCall[a].job],
           step'[StepOfCall(a)] = step[StepOfCall(a)],
           Others(a)' = Others(a) \/ Others(a)' = Others(a) \cup {"pending"},
           a \in outrun => a \in outrun'
    PROVE  UpdateInv(a)'
<1>1. Coming(a)' = Coming(a) /\ StepOfCall(a)' = StepOfCall(a) /\ Becomes(a)' = Becomes(a)
  BY DEF Coming, StepOfCall, Becomes
<1>2. SeenThen(a)' = SeenThen(a) \/ SeenThen(a)' = SeenThen(a) \cup {"pending"}
  BY <1>1 DEF SeenThen
<1>3. LoadedStill(a) => LoadedStill(a)'
  BY <1>1 DEF LoadedStill
<1>4. SeenThen(a)' \subseteq JobTerminal => SeenThen(a)' = SeenThen(a)
  BY <1>2 DEF JobTerminal
<1>5. "running" \in SeenThen(a)' => "running" \in SeenThen(a)
  BY <1>2
<1>6. PlannedWell(a) => PlannedWell(a)'
  BY <1>1, <1>4, <1>5 DEF PlannedWell
<1>7. QED BY <1>3, <1>6 DEF UpdateInv

LEMMA CreateKeeps ==
    ASSUME PipelinesInv, NEW j \in Jobs, CreateJob(j)
    PROVE  PipelinesInv'
<1>1. PipelinesTypeOK /\ PipelinesTypeOK'
  BY CreateKeepsType DEF PipelinesInv
<1>2. /\ UNCHANGED <<step, pipeline, agentCall, outrun, late, stale>>
      /\ job[j] = "none" /\ job'[j] = "pending"
      /\ \A i \in Jobs : i # j => job'[i] = job[i]
  BY <1>1 DEF CreateJob, PipelinesTypeOK
<1>3. ASSUME NEW s
      PROVE  /\ Opened(s)' = IF StepOf[j] = s THEN Opened(s) \cup {j} ELSE Opened(s)
             /\ StatusesIn(s)' = IF StepOf[j] = s THEN StatusesIn(s) \cup {"pending"} ELSE StatusesIn(s)
             /\ j \notin Opened(s)
  <2>1. j \notin Opened(s)
    BY <1>2 DEF Opened
  <2>2. CASE StepOf[j] = s
    <3>1. Opened(s)' = Opened(s) \cup {j}
      BY <1>2, <2>2 DEF Opened
    <3>2. \A i \in Opened(s) : i \in Jobs /\ i # j /\ job'[i] = job[i]
      BY <1>2, <2>1 DEF Opened
    <3>3. StatusesIn(s)' = StatusesIn(s) \cup {"pending"}
      BY <1>2, <3>1, <3>2 DEF StatusesIn
    <3>4. QED BY <2>1, <2>2, <3>1, <3>3
  <2>3. CASE StepOf[j] # s
    <3>1. Opened(s)' = Opened(s)
      BY <1>2, <2>3 DEF Opened
    <3>2. \A i \in Opened(s) : i \in Jobs /\ i # j /\ job'[i] = job[i]
      BY <1>2, <2>1 DEF Opened
    <3>3. StatusesIn(s)' = StatusesIn(s)
      BY <1>2, <3>1, <3>2 DEF StatusesIn
    <3>4. QED BY <2>1, <2>3, <3>1, <3>3
  <2>4. QED BY <2>2, <2>3
<1>4. StepFollowsJobs'
  <2>1. SUFFICES ASSUME NEW s \in Steps \ stale', Opened(s)' # {}
                 PROVE  /\ StatusesIn(s)' \subseteq JobTerminal =>
                             step'[s].status = Verdict(StatusesIn(s)', "pending") /\ step'[s].finished
                        /\ "running" \in StatusesIn(s)' => step'[s].status = "running"
    BY DEF StepFollowsJobs, Verdict
  <2>2. CASE StepOf[j] = s
    <3>1. ~(StatusesIn(s)' \subseteq JobTerminal)
      BY <1>3, <2>2 DEF JobTerminal
    <3>2. "running" \in StatusesIn(s)' => "running" \in StatusesIn(s) /\ Opened(s) # {}
      BY <1>3, <2>2 DEF StatusesIn
    <3>3. QED BY <1>2, <2>1, <3>1, <3>2 DEF PipelinesInv, StepFollowsJobs
  <2>3. CASE StepOf[j] # s
    BY <1>2, <1>3, <2>1, <2>3 DEF PipelinesInv, StepFollowsJobs
  <2>4. QED BY <2>2, <2>3
<1>5. ASSUME NEW a \in Agents, Updating(a)
      PROVE  UpdateInv(a)'
  <2>1. agentCall[a].job \in Jobs /\ UpdateInv(a) /\ agentCall[a].job # j
    BY <1>1, <1>2, <1>5, UpdateFacts DEF PipelinesInv, UpdatesInv, UpdateInv
  <2>2. Others(a)' = Others(a) \/ Others(a)' = Others(a) \cup {"pending"}
    <3> DEFINE s == StepOfCall(a)
               k == agentCall[a].job
    <3>1. s' = s /\ k' = k /\ k # j
      BY <1>2, <2>1 DEF StepOfCall
    <3>2. \A i \in Opened(s) : i \in Jobs /\ i # j /\ job'[i] = job[i]
      BY <1>2, <1>3 DEF Opened
    <3>3. Opened(s)' = IF StepOf[j] = s THEN Opened(s) \cup {j} ELSE Opened(s)
      BY <1>2, <3>1 DEF Opened
    <3> HIDE DEF s, k
    <3>4. Others(a)' = {job'[i] : i \in Opened(s)' \ {k}} /\ Others(a) = {job[i] : i \in Opened(s) \ {k}}
      BY <3>1 DEF Others, s, k
    <3>5. QED BY <1>2, <3>1, <3>2, <3>3, <3>4
  <2>3. QED BY <1>2, <2>1, <2>2, UpdateUndisturbed
<1>6. UpdatesInv'
  BY <1>2, <1>5 DEF UpdatesInv, Updating
<1>7. QED BY <1>1, <1>4, <1>6 DEF PipelinesInv

\* Steps that write none of the columns.
LEMMA ReadsDisturbNone ==
    ASSUME PipelinesInv, NEW a \in Agents, UNCHANGED <<job, step, stale>>,
           outrun \ {a} \subseteq outrun',
           \A b \in Agents \ {a} : agentCall'[b] = agentCall[b]
    PROVE  /\ StepFollowsJobs'
           /\ \A b \in Agents \ {a} : Updating(b)' => UpdateInv(b)'
<1>1. StepFollowsJobs'
  <2>1. \A s : Opened(s)' = Opened(s) /\ StatusesIn(s)' = StatusesIn(s)
    BY DEF Opened, StatusesIn
  <2>2. QED BY <2>1 DEF PipelinesInv, StepFollowsJobs, Verdict
<1>2. ASSUME NEW b \in Agents \ {a}, Updating(b)'
      PROVE  UpdateInv(b)'
  <2>1. Updating(b) /\ UpdateInv(b)
    BY <1>2 DEF Updating, PipelinesInv, UpdatesInv
  <2>2. Others(b)' = Others(b)
    BY DEF Others, Opened, StepOfCall
  <2>3. QED BY <2>1, <2>2, UpdateUndisturbed DEF StepOfCall
<1>3. QED BY <1>1, <1>2

\* A call that starts has loaded what there is.
LEMMA LoadJobKeeps ==
    ASSUME PipelinesInv, NEW a \in Agents, NEW j \in Jobs,
           NEW status \in AskedStatuses, LoadJob(a, j, status)
    PROVE  PipelinesInv'
<1>1. PipelinesTypeOK /\ PipelinesTypeOK'
  BY LoadKeepsType DEF PipelinesInv
<1>2. /\ UNCHANGED <<job, step, outrun, stale>> /\ job[j] # "none"
      /\ \A b \in Agents \ {a} : agentCall'[b] = agentCall[b]
      /\ agentCall'[a] =
            [op |-> "update", at |-> "siblings", job |-> j,
             status |-> Changed(job[j], status), own |-> status,
             loadedStep |-> step[StepOf[j]].status, pipeline |-> Started(status)]
  BY <1>1 DEF LoadJob, PipelinesTypeOK
<1>3. UpdateInv(a)'
  <2>1. status \in JobStatuses /\ job[j] \in JobStatuses
    BY <1>1, <1>2, PipelineAssumption DEF JobStatuses, JobTerminal, PipelinesTypeOK
  <2>2. /\ Apply(job[j], Changed(job[j], status)) = status
        /\ agentCall'[a].job = j /\ agentCall'[a].at = "siblings" /\ agentCall'[a].own = status
        /\ agentCall'[a].status = Changed(job[j], status)
        /\ agentCall'[a].loadedStep = step[StepOf[j]].status
    BY <1>2, <2>1, Columns
  <2>3. QED BY <1>2, <2>2 DEF UpdateInv, LoadedStill, Coming, StepOfCall
<1>4. UpdatesInv'
  BY <1>2, <1>3, ReadsDisturbNone DEF UpdatesInv
<1>5. QED BY <1>1, <1>2, <1>4, ReadsDisturbNone DEF PipelinesInv

\* What an update plans, from what it loaded and found.
LEMMA LoadSiblingsKeeps ==
    ASSUME PipelinesInv, NEW a \in Agents, LoadSiblings(a)
    PROVE  PipelinesInv'
<1> DEFINE u == agentCall[a]
<1>1. PipelinesTypeOK /\ PipelinesTypeOK' /\ Updating(a) /\ u.at = "siblings"
  BY LoadKeepsType DEF PipelinesInv, LoadSiblings
<1>2. /\ UNCHANGED <<job, step, outrun, stale>>
      /\ \A b \in Agents \ {a} : agentCall'[b] = agentCall[b]
      /\ agentCall'[a] = Planned(u)
  BY <1>1 DEF LoadSiblings, PipelinesTypeOK
<1>3. /\ agentCall'[a].at = "commit" /\ agentCall'[a].job = u.job
      /\ agentCall'[a].status = u.status /\ agentCall'[a].judges = (u.own # "pending")
      /\ agentCall'[a].step = Changed(u.loadedStep, Judged(u))
      /\ agentCall'[a].stamp = (u.own \in JobTerminal /\ StatusesSeen(u) \subseteq JobTerminal)
  BY <1>2 DEF Planned
<1>4. /\ u.own \in JobStatuses /\ u.loadedStep \in JobStatuses /\ u.job \in Jobs
      /\ StepOf[u.job] \in Steps /\ job[u.job] # "none"
      /\ a \notin outrun => LoadedStill(a)
  BY <1>1, UpdateFacts DEF PipelinesInv, UpdatesInv, UpdateInv
<1>5. ASSUME a \notin outrun
      PROVE  PlannedWell(a)'
  <2>1. Coming(a)' = u.own /\ StepOfCall(a)' = StepOf[u.job]
    BY <1>2, <1>3, <1>4, <1>5 DEF Coming, StepOfCall, LoadedStill
  <2>2. SeenThen(a)' = StatusesSeen(u)
    BY <1>2, <1>3, <2>1 DEF SeenThen, Others, StatusesSeen, Opened
  <2>3. Judged(u) \in JobStatuses
    BY <1>4, JudgedStatus
  <2>4. Apply(u.loadedStep, Changed(u.loadedStep, Judged(u))) = Judged(u)
    BY <1>4, <2>3, Columns
  <2>5. Becomes(a)' = Judged(u)
    BY <1>2, <1>3, <1>4, <1>5, <2>1, <2>4 DEF Becomes, LoadedStill, StepOfCall
  <2>6. u.own \in StatusesSeen(u)
    BY DEF StatusesSeen
  <2>7. CASE u.own = "pending"
    <3>1. Judged(u) = u.loadedStep
      BY <2>7 DEF Judged, JobTerminal
    <3>2. QED BY <1>3, <2>1, <2>7, <3>1 DEF PlannedWell, Changed
  <2>8. CASE u.own = "running"
    <3>1. Judged(u) = "running" /\ ~(StatusesSeen(u) \subseteq JobTerminal)
      BY <2>6, <2>8 DEF Judged, JobTerminal
    <3>2. QED BY <1>3, <2>2, <2>5, <2>8, <3>1 DEF PlannedWell
  <2>9. CASE u.own \in JobTerminal
    <3>1. Judged(u) = Verdict(StatusesSeen(u), u.loadedStep) /\ u.own # "pending"
      BY <2>9 DEF Judged, JobTerminal
    <3>2. StatusesSeen(u) \subseteq JobTerminal =>
             Judged(u) = Verdict(StatusesSeen(u), "pending") /\ agentCall'[a].stamp
      BY <1>3, <1>4, <2>9, <3>1, Verdicts
    <3>3. "running" \in StatusesSeen(u) => Judged(u) = "running"
      <4>1. "running" \notin JobTerminal
        BY DEF JobTerminal
      <4>2. QED BY <1>4, <3>1, <4>1, Verdicts
    <3>4. QED BY <1>3, <2>2, <2>5, <3>1, <3>2, <3>3 DEF PlannedWell
  <2>10. QED BY <1>4, <2>7, <2>8, <2>9 DEF JobStatuses
<1>6. UpdateInv(a)'
  BY <1>2, <1>3, <1>4, <1>5 DEF UpdateInv
<1>7. QED BY <1>1, <1>2, <1>6, ReadsDisturbNone DEF PipelinesInv, UpdatesInv

\* The commit of an update: its step follows its jobs, unless the update was
\* outrun; the updates it outruns are noted, the others see nothing of it.
LEMMA CommitUpdateKeeps ==
    ASSUME PipelinesInv, NEW a \in Agents, CommitUpdate(a)
    PROVE  PipelinesInv'
<1>0. PICK u, k, t : u = agentCall[a] /\ k = agentCall[a].job /\ t = StepOf[agentCall[a].job]
  OBVIOUS
<1>1. /\ PipelinesTypeOK /\ PipelinesTypeOK' /\ Updating(a) /\ u.at = "commit"
      /\ a \notin outrun => PlannedWell(a)
      /\ k \in Jobs /\ t \in Steps /\ job[k] # "none"
      /\ u.status \in JobStatuses \cup {Unchanged} /\ u.judges \in BOOLEAN
  BY <1>0, CommitKeepsType, UpdateFacts DEF PipelinesInv, CommitUpdate, UpdatesInv, UpdateInv
<1>2. /\ job'[k] = Coming(a) /\ \A i \in Jobs \ {k} : job'[i] = job[i]
      /\ step'[t].status = Becomes(a) /\ step'[t].finished = (step[t].finished \/ u.stamp)
      /\ \A s \in Steps \ {t} : step'[s] = step[s]
      /\ agentCall'[a] = NoCall /\ \A b \in Agents \ {a} : agentCall'[b] = agentCall[b]
  BY <1>0, <1>1 DEF CommitUpdate, PipelinesTypeOK, Coming, Becomes, StepOfCall
<1>3. /\ a \in outrun => t \in stale'
      /\ \A s \in Steps \ stale' : s # t \/ ~u.judges => s \notin stale
      /\ \A b \in Agents \ {a} : b \in outrun \/ (Updating(b) /\ StepOfCall(b) = t) => b \in outrun'
  BY <1>0 DEF CommitUpdate, StepOfCall
<1>4. Coming(a) # "none"
  <2>1. job[k] \in JobStatuses
    BY <1>1 DEF PipelinesTypeOK
  <2>2. Coming(a) \in JobStatuses
    BY <1>0, <1>1, <2>1, Columns DEF Coming
  <2>3. QED BY <2>2 DEF JobStatuses, JobTerminal
<1>5. \A s : Opened(s)' = Opened(s)
  BY <1>1, <1>2, <1>4 DEF Opened
<1>6. /\ StatusesIn(t)' = SeenThen(a)
      /\ Others(a) \subseteq StatusesIn(t) /\ Opened(t) # {}
  <2>1. k \in Opened(t) /\ Opened(t) \subseteq Jobs
    BY <1>0, <1>1 DEF Opened
  <2>2. /\ SeenThen(a) = {job[i] : i \in Opened(t) \ {k}} \cup {Coming(a)}
        /\ Others(a) \subseteq StatusesIn(t)
    BY <1>0 DEF SeenThen, Others, StepOfCall, StatusesIn
  <2>3. StatusesIn(t)' = {job'[i] : i \in Opened(t)}
    BY <1>5 DEF StatusesIn
  <2>4. QED BY <1>2, <2>1, <2>2, <2>3
<1>7. ASSUME NEW s, s # t
      PROVE  StatusesIn(s)' = StatusesIn(s) /\ \A i \in Opened(s) : i \in Jobs /\ job'[i] = job[i]
  <2>1. \A i \in Opened(s) : i \in Jobs /\ i # k
    BY <1>0, <1>1, <1>7 DEF Opened
  <2>2. \A i \in Opened(s) : job'[i] = job[i]
    BY <1>2, <2>1
  <2>3. QED BY <1>5, <2>1, <2>2 DEF StatusesIn
<1>8. StepFollowsJobs'
  <2>1. SUFFICES ASSUME NEW s \in Steps \ stale', Opened(s)' # {}
                 PROVE  /\ StatusesIn(s)' \subseteq JobTerminal =>
                             step'[s].status = Verdict(StatusesIn(s)', "pending") /\ step'[s].finished
                        /\ "running" \in StatusesIn(s)' => step'[s].status = "running"
    BY DEF StepFollowsJobs, Verdict
  <2>2. CASE s = t /\ u.judges
    <3>1. a \notin outrun
      BY <1>3, <2>1, <2>2
    <3>2. /\ SeenThen(a) \subseteq JobTerminal =>
                Becomes(a) = Verdict(SeenThen(a), "pending") /\ (u.stamp \/ step[t].finished)
          /\ "running" \in SeenThen(a) => Becomes(a) = "running"
      BY <1>0, <1>1, <2>2, <3>1 DEF PlannedWell, StepOfCall
    <3>3. QED BY <1>2, <1>6, <2>2, <3>2 DEF Verdict
  <2>3. CASE s = t /\ ~u.judges
    <3>1. s \notin stale /\ a \notin outrun
      BY <1>3, <2>1, <2>3
    <3>2. Coming(a) = "pending" /\ Becomes(a) = step[t].status
      BY <1>0, <1>1, <2>3, <3>1 DEF PlannedWell, Becomes, StepOfCall, Apply
    <3>3. ~(StatusesIn(s)' \subseteq JobTerminal)
      BY <1>6, <2>3, <3>2 DEF SeenThen, JobTerminal
    <3>4. "running" \in StatusesIn(s)' => "running" \in StatusesIn(t)
      BY <1>6, <2>3, <3>2 DEF SeenThen
    <3>5. QED BY <1>2, <1>6, <2>1, <2>3, <3>1, <3>2, <3>3, <3>4 DEF PipelinesInv, StepFollowsJobs
  <2>4. CASE s # t
    <3>1. Opened(s) # {} /\ StatusesIn(s)' = StatusesIn(s) /\ step'[s] = step[s] /\ s \notin stale
      BY <1>2, <1>3, <1>5, <1>7, <2>1, <2>4
    <3>2. QED BY <2>1, <3>1 DEF PipelinesInv, StepFollowsJobs, Verdict
  <2>5. QED BY <2>2, <2>3, <2>4
<1>9. \A b \in Agents \ {a} : Updating(b)' = Updating(b) /\ StepOfCall(b)' = StepOfCall(b)
  BY <1>2 DEF Updating, StepOfCall
<1>10. ~Updating(a)'
  BY <1>2 DEF Updating, NoCall
<1>11. ASSUME NEW b \in Agents \ {a}, Updating(b)
       PROVE  UpdateInv(b)'
  <2> DEFINE r == StepOfCall(b)
             i == agentCall[b].job
  <2>1. /\ i \in Jobs /\ StepOf[i] = r /\ r \in Steps /\ UpdateInv(b) /\ job[i] # "none"
    BY <1>1, <1>11, UpdateFacts DEF PipelinesInv, UpdatesInv, UpdateInv, StepOfCall
  <2>2. i \in Opened(r)
    BY <2>1 DEF Opened
  <2>3. CASE r = t
    <3>1. b \in outrun'
      BY <1>3, <1>11, <2>3
    <3>2. job'[i] # "none"
      BY <1>2, <1>4, <2>1
    <3>3. QED BY <1>2, <3>1, <3>2 DEF UpdateInv
  <2>4. CASE r # t
    <3>1. job'[i] = job[i] /\ step'[r] = step[r]
      BY <1>2, <1>7, <2>1, <2>2, <2>4
    <3>2. Others(b)' = Others(b)
      <4>1. Others(b)' = {job'[m] : m \in Opened(r) \ {i}}
        BY <1>2, <1>5, <1>9 DEF Others
      <4>2. \A m \in Opened(r) : job'[m] = job[m]
        BY <1>7, <2>4
      <4>3. QED BY <4>1, <4>2 DEF Others
    <3>3. QED BY <1>2, <1>3, <2>1, <3>1, <3>2, UpdateUndisturbed
  <2>5. QED BY <2>3, <2>4
<1>12. UpdatesInv'
  BY <1>9, <1>10, <1>11 DEF UpdatesInv
<1>13. QED BY <1>1, <1>8, <1>12 DEF PipelinesInv

\* finish_pipeline writes nothing of a step, and a call given up leaves
\* nothing.
LEMMA FinishKeeps ==
    ASSUME PipelinesInv, NEW a \in Agents,
           \/ \E status \in ClosingStatuses : LoadPipeline(a, status)
           \/ CommitFinish(a) \/ AbandonCall(a)
    PROVE  PipelinesInv'
<1>1. PipelinesTypeOK /\ PipelinesTypeOK'
  BY LoadKeepsType, CommitKeepsType DEF PipelinesInv
<1>2. /\ UNCHANGED <<job, step, stale>> /\ outrun \ {a} \subseteq outrun'
      /\ \A b \in Agents \ {a} : agentCall'[b] = agentCall[b]
      /\ ~Updating(a)'
  BY <1>1 DEF LoadPipeline, CommitFinish, AbandonCall, PipelinesTypeOK, Updating, NoCall
<1>3. QED BY <1>1, <1>2, ReadsDisturbNone DEF PipelinesInv, UpdatesInv

\* The invariant holds at the start and is kept.
LEMMA PipelinesInductive ==
    /\ PipelinesInit => PipelinesInv
    /\ PipelinesInv /\ [PipelinesNext]_pipelineVars => PipelinesInv'
<1>1. PipelinesInit => PipelinesInv
  <2>1. SUFFICES ASSUME PipelinesInit PROVE PipelinesInv
    OBVIOUS
  <2>2. \A a \in Agents : ~Updating(a)
    BY <2>1 DEF PipelinesInit, Updating, NoCall
  <2>3. StepFollowsJobs
    BY <2>1 DEF PipelinesInit, StepFollowsJobs, Opened
  <2>4. QED BY <2>1, <2>2, <2>3, PipelinesTypeInductive DEF PipelinesInv, UpdatesInv
<1>2. PipelinesInv /\ PipelinesNext => PipelinesInv'
  BY CreateKeeps, LoadJobKeeps, LoadSiblingsKeeps, CommitUpdateKeeps, FinishKeeps DEF PipelinesNext
<1>3. ASSUME PipelinesInv, UNCHANGED pipelineVars PROVE PipelinesInv'
  <2>1. UNCHANGED <<job, step, pipeline, agentCall, outrun, late, stale>>
    BY <1>3 DEF pipelineVars
  <2>2. \A a \in Agents : Updating(a)' = Updating(a) /\ Others(a)' = Others(a)
    BY <2>1 DEF Updating, StepOfCall, Others, Opened
  <2>3. \A a \in Agents : Updating(a)' => UpdateInv(a)'
    BY <1>3, <2>1, <2>2, UpdateUndisturbed DEF PipelinesInv, UpdatesInv
  <2>4. \A s : Opened(s)' = Opened(s) /\ StatusesIn(s)' = StatusesIn(s)
    BY <2>1 DEF Opened, StatusesIn
  <2>5. StepFollowsJobs'
    BY <1>3, <2>1, <2>4 DEF PipelinesInv, StepFollowsJobs, Verdict
  <2>6. QED BY <1>3, <2>1, <2>3, <2>5 DEF PipelinesInv, PipelinesTypeOK, UpdatesInv
<1>4. QED BY <1>1, <1>2, <1>3

(* However jobs are opened, restarted, put back and finished, by any       *)
(* number of agents whose updates overlap: a step whose jobs are all       *)
(* terminal carries their verdict and is stamped, and one with a running   *)
(* job runs, unless the last update that judged the step was outrun by     *)
(* another update of it.                                                   *)
THEOREM StepsFollowTheirJobs == PipelinesSpec => []StepFollowsJobs
<1>1. PipelinesInv => StepFollowsJobs
  BY DEF PipelinesInv
<1>2. QED BY <1>1, PipelinesInductive, PTL DEF PipelinesSpec

-----------------------------------------------------------------------------
\* StartsInv holds at the start and is kept.
LEMMA StartsInductive ==
    /\ PipelinesInit => StartsInv
    /\ PipelinesTypeOK /\ StartsInv /\ [PipelinesNext]_pipelineVars => StartsInv'
<1>1. PipelinesInit => StartsInv
  BY DEF PipelinesInit, StartsInv, Updating, NoCall
<1> SUFFICES ASSUME PipelinesTypeOK, StartsInv, [PipelinesNext]_pipelineVars
               PROVE  StartsInv'
  BY <1>1
<1>2. CASE (\E j \in Jobs : CreateJob(j)) \/ UNCHANGED pipelineVars
  BY <1>2 DEF CreateJob, pipelineVars, StartsInv, Updating
<1>3. ASSUME NEW a \in Agents, NEW j \in Jobs, NEW status \in AskedStatuses, LoadJob(a, j, status)
      PROVE  StartsInv'
  <2>1. agentCall'[a].pipeline = Started(status)
    BY <1>3 DEF LoadJob, PipelinesTypeOK
  <2>2. agentCall'[a].pipeline = "running" => pipeline.status = "created"
    BY <2>1, PipelineAssumption DEF Started
  <2>3. QED BY <1>3, <2>2 DEF LoadJob, StartsInv, Updating, PipelinesTypeOK
<1>4. ASSUME NEW a \in Agents, LoadSiblings(a)
      PROVE  StartsInv'
  <2>1. agentCall'[a] = Planned(agentCall[a]) /\ Updating(a)
    BY <1>4 DEF LoadSiblings, PipelinesTypeOK
  <2>2. agentCall'[a].pipeline = agentCall[a].pipeline
    BY <2>1 DEF Planned
  <2>3. QED BY <1>4, <2>1, <2>2 DEF LoadSiblings, StartsInv, Updating, PipelinesTypeOK
<1>5. ASSUME NEW a \in Agents, CommitUpdate(a)
      PROVE  StartsInv'
  <2>1. ~Updating(a)' /\ \A b \in Agents \ {a} : agentCall'[b] = agentCall[b] /\ (b \in late <=> b \in late')
    BY <1>5 DEF CommitUpdate, PipelinesTypeOK, Updating, NoCall
  <2>2. agentCall[a].pipeline \in {"running", Unchanged}
    BY <1>5, UpdateFacts DEF CommitUpdate
  <2>3. pipeline.status \in {"created", "running"} => pipeline'.status \in {"created", "running"}
    BY <1>5, <2>2 DEF CommitUpdate, PipelinesTypeOK, Apply
  <2>4. QED BY <2>1, <2>3 DEF StartsInv, Updating
<1>6. ASSUME NEW a \in Agents,
             \/ \E status \in ClosingStatuses : LoadPipeline(a, status)
             \/ AbandonCall(a)
      PROVE  StartsInv'
  <2>1. /\ pipeline' = pipeline /\ ~Updating(a)'
        /\ \A b \in Agents \ {a} : agentCall'[b] = agentCall[b] /\ (b \in late <=> b \in late')
    BY <1>6 DEF LoadPipeline, AbandonCall, PipelinesTypeOK, Updating, NoCall
  <2>2. QED BY <2>1 DEF StartsInv, Updating
<1>7. ASSUME NEW a \in Agents, CommitFinish(a)
      PROVE  StartsInv'
  <2>1. ~Updating(a)' /\ \A b \in Agents \ {a} : agentCall'[b] = agentCall[b]
    BY <1>7 DEF CommitFinish, PipelinesTypeOK, Updating, NoCall
  <2>2. \A b \in Agents : Updating(b)' => b \in late'
    BY <1>7, <2>1 DEF CommitFinish, Updating
  <2>3. QED BY <2>2 DEF StartsInv
<1>8. QED BY <1>2, <1>3, <1>4, <1>5, <1>6, <1>7 DEF PipelinesNext

\* What changes the status of a pipeline that has ended.
LEMMA WhatChangesEnded ==
    ASSUME PipelinesTypeOK, StartsInv, [PipelinesNext]_pipelineVars,
           pipeline.status \in PipelineEnds, pipeline'.status # pipeline.status
    PROVE  \E a \in Agents :
              /\ agentCall'[a] = NoCall
              /\ Closing(a) \/ (a \in late /\ pipeline'.status = "running")
<1>1. PICK a \in Agents : CommitUpdate(a) \/ CommitFinish(a)
  BY DEF PipelinesNext, pipelineVars, CreateJob, LoadJob, LoadSiblings, LoadPipeline, AbandonCall
<1>2. agentCall'[a] = NoCall
  BY <1>1 DEF CommitUpdate, CommitFinish, PipelinesTypeOK
<1>3. CASE CommitUpdate(a)
  <2>1. Updating(a) /\ agentCall[a].pipeline \in {"running", Unchanged}
    BY <1>3, UpdateFacts DEF CommitUpdate
  <2>2. pipeline'.status = Apply(pipeline.status, agentCall[a].pipeline)
    BY <1>3 DEF CommitUpdate, PipelinesTypeOK
  <2>3. agentCall[a].pipeline = "running" /\ pipeline'.status = "running"
    BY <2>1, <2>2, PipelineAssumption DEF Apply
  <2>4. a \in late
    BY <2>1, <2>3 DEF StartsInv, PipelineEnds
  <2>5. QED BY <1>2, <2>3, <2>4
<1>4. CASE CommitFinish(a)
  BY <1>2, <1>4 DEF CommitFinish
<1>5. QED BY <1>1, <1>3, <1>4

(* An update of a job never brings an ended pipeline back to running, in   *)
(* any number of calls that overlap, unless it was in flight already when  *)
(* a finish committed.                                                     *)
THEOREM EndedPipelinesStay == PipelinesSpec => EndedStaysEnded
<1>1. PipelinesTypeOK /\ StartsInv /\ [PipelinesNext]_pipelineVars =>
        [pipeline.status \in PipelineEnds /\ pipeline'.status # pipeline.status =>
            \E a \in Agents :
                /\ agentCall'[a] = NoCall
                /\ Closing(a) \/ (a \in late /\ pipeline'.status = "running")]_pipelineVars
  BY WhatChangesEnded
<1>2. QED BY <1>1, PipelinesTypeInductive, StartsInductive, PTL DEF PipelinesSpec, EndedStaysEnded

=============================================================================
