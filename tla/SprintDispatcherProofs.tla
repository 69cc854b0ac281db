------------------------- MODULE SprintDispatcherProofs -------------------------
(***************************************************************************)
(* For every set of tickets, sessions and loops: types, and, when loops    *)
(* keep each other out, one session for each ticket, no killed work, no    *)
(* forgotten ticket, no process unaccounted for, and migrations alone.     *)
(***************************************************************************)
EXTENDS SprintDispatcher, FiniteSetTheorems, TLAPS

-----------------------------------------------------------------------------
(* Types.                                                                  *)

\* An entry keeps its session; only its state is read anew.
LEMMA RefreshedType ==
    ASSUME TypeOK, NEW e \in Entry \cup {None}
    PROVE  /\ Refreshed(e) \in Entry \cup {None}
           /\ e = None => Refreshed(e) = None
           /\ e # None => Refreshed(e) = [session |-> e.session,
                              state |-> IF agent[e.session] = None THEN "exited" ELSE "running"]
<1>1. CASE e = None
  BY <1>1 DEF Refreshed
<1>2. CASE e # None
  BY <1>2 DEF Refreshed, Entry
<1>3. QED BY <1>1, <1>2

\* Sorting gives every ticket a verdict, and "done" to no running session.
LEMMA ClassifyType ==
    ASSUME NEW st, NEW e \in Entry \cup {None}, NEW asks \in BOOLEAN
    PROVE  /\ Classify(st, e, asks) \in Verdict
           /\ Classify(st, e, asks) = "done" => e = None \/ e.state = "exited"
<1>1. CASE e # None /\ e.state = "running"
  BY <1>1 DEF Classify, Verdict
<1>2. CASE ~(e # None /\ e.state = "running")
  BY <1>2 DEF Classify, Verdict, Entry
<1>3. QED BY <1>1, <1>2

LEMMA InitType == Init => TypeOK
  BY LimitAssumption DEF Init, TypeOK, EmptyRegistry, NoVerdict, NoBoard, Registry, Verdict,
     Status, Step

\* A tick that ends leaves its variables well-typed.
LEMMA EndTickType ==
    ASSUME TypeOK, NEW k \in Dispatcher, EndTick(k)
    PROVE  /\ board' \in [Dispatcher -> [Ticket -> Status]]
           /\ mem' \in [Dispatcher -> Registry]
           /\ verdict' \in [Dispatcher -> [Ticket -> Verdict]]
           /\ left' \in [Dispatcher -> SUBSET Ticket]
           /\ target' \in [Dispatcher -> Ticket \cup {None}]
           /\ started' \in [Dispatcher -> SUBSET Ticket]
           /\ \A m \in Dispatcher : m # k => target'[m] = target[m]
<1>1. NoBoard \in [Ticket -> Status] /\ EmptyRegistry \in Registry /\ NoVerdict \in [Ticket -> Verdict]
  BY DEF NoBoard, Status, EmptyRegistry, Registry, NoVerdict, Verdict
<1>2. QED BY <1>1 DEF TypeOK, EndTick

\* Steps of the loop.
LEMMA LoopStepType ==
    ASSUME TypeOK, NEW k \in Dispatcher,
           \/ k \in Loop /\ (CheckPid(k) \/ WritePid(k) \/ LoopKilled(k))
           \/ SprintDone(k) \/ OnlyWaiting(k) \/ NextTick(k) \/ TickDies(k)
    PROVE  TypeOK'
<1> USE DEF TypeOK, world, files, tick, Goto, Step
<1>0. MaxErrors \in Nat \ {0} /\ 0 \in 0 .. MaxErrors - 1
  BY LimitAssumption
<1>1. CASE k \in Loop /\ CheckPid(k)
  BY <1>1 DEF CheckPid
<1>2. CASE k \in Loop /\ WritePid(k)
  BY <1>0, <1>2 DEF WritePid
<1>3. CASE k \in Loop /\ LoopKilled(k)
  BY <1>3, EndTickType DEF LoopKilled
<1>4. CASE SprintDone(k) \/ OnlyWaiting(k)
  BY <1>4, EndTickType DEF SprintDone, OnlyWaiting, Leave
<1>5. CASE NextTick(k)
  <2>1. pc' \in [Dispatcher -> Step] /\ pc'[k] \in {"off", "sleep"}
        /\ \A m \in Dispatcher : m # k => pc'[m] = pc[m]
    BY <1>5 DEF NextTick, Leave
  <2>2. pidFile' \in Loop \cup {None}
    BY <1>5 DEF NextTick, Leave
  <2>3. errors' \in [Dispatcher -> 0 .. MaxErrors - 1]
    BY <1>0, <1>5 DEF NextTick
  <2>4. EndTick(k) /\ UNCHANGED <<status, agent, asking, registry, resumed>>
    BY <1>5 DEF NextTick
  <2>5. QED BY <2>1, <2>2, <2>3, <2>4, EndTickType
<1>6. CASE TickDies(k)
  <2>1. CASE GivesUp(k)
    <3>1. errors' \in [Dispatcher -> 0 .. MaxErrors - 1]
      BY <1>0, <1>6, <2>1 DEF TickDies
    <3>2. QED BY ZenonT(30), <1>6, <2>1, <3>1, EndTickType DEF TickDies, Leave
  <2>2. CASE ~GivesUp(k)
    <3>1. errors[k] \in 0 .. MaxErrors - 1 /\ errors[k] + 1 # MaxErrors
      BY <2>2 DEF GivesUp
    <3>2. errors[k] + 1 \in 0 .. MaxErrors - 1
      <4>1. \A e \in 0 .. MaxErrors - 1 : e + 1 # MaxErrors => e + 1 \in 0 .. MaxErrors - 1
        BY LimitAssumption
      <4>2. QED BY <3>1, <4>1
    <3>3. QED BY ZenonT(30), <1>6, <2>2, <3>2, EndTickType DEF TickDies
  <2>3. QED BY <2>1, <2>2
<1>7. QED BY <1>1, <1>2, <1>3, <1>4, <1>5, <1>6

\* Reading the board and the registry.
LEMMA StateStepType ==
    ASSUME TypeOK, NEW k \in Dispatcher, ReadBoard(k) \/ LoadRegistry(k) \/ SaveRegistry(k)
    PROVE  TypeOK'
<1> USE DEF TypeOK, world, files, tick, Goto, Step
<1>1. CASE ReadBoard(k)
  BY <1>1 DEF ReadBoard
<1>2. CASE LoadRegistry(k)
  <2>1. [t \in Ticket |-> Refreshed(registry[t])] \in Registry
    BY RefreshedType DEF Registry
  <2>2. QED BY <1>2, <2>1 DEF LoadRegistry
<1>3. CASE SaveRegistry(k)
  <2> DEFINE v == [t \in Ticket |-> LET e == mem[k][t]
                      IN Classify(board[k][t], e, e # None /\ e.session \in asking)]
  <2>1. v \in [Ticket -> Verdict]
    BY ZenonT(30), ClassifyType DEF Registry
  <2>2. mem[k] \in Registry
    OBVIOUS
  <2> HIDE DEF v
  <2>3. verdict' = [verdict EXCEPT ![k] = v]
    BY <1>3 DEF SaveRegistry, v
  <2>4. QED BY <1>3, <2>1, <2>2, <2>3 DEF SaveRegistry
<1>4. QED BY <1>1, <1>2, <1>3

\* Sorted and starting sessions.
LEMMA WorkStepType ==
    ASSUME TypeOK, NEW k \in Dispatcher,
           \/ \E t \in Ticket : \/ CollectDone(k, t) \/ Resume(k, t) \/ LeaveToHuman(k, t)
                                \/ Dispatch(k, t) \/ Skip(k, t)
           \/ StopSession(k) \/ EndCollect(k) \/ EndDispatch(k) \/ FindSession(k)
           \/ StartRefused(k) \/ (\E s \in Session : Spawn(k, s)) \/ Register(k) \/ Comment(k)
    PROVE  TypeOK'
<1> USE DEF TypeOK, world, files, tick, Goto, Step
<1>1. ASSUME NEW t \in Ticket, CollectDone(k, t) \/ Resume(k, t) \/ LeaveToHuman(k, t)
                                 \/ Dispatch(k, t) \/ Skip(k, t)
      PROVE  TypeOK'
  <2>1. CASE CollectDone(k, t)
    BY <1>1, <2>1 DEF CollectDone, Take
  <2>2. CASE Resume(k, t)
    BY <1>1, <2>2 DEF Resume, Take
  <2>3. CASE LeaveToHuman(k, t)
    BY <1>1, <2>3 DEF LeaveToHuman, Take
  <2>4. CASE Dispatch(k, t)
    BY <1>1, <2>4 DEF Dispatch, Take
  <2>5. CASE Skip(k, t)
    BY <1>1, <2>5 DEF Skip, Take
  <2>6. QED BY <1>1, <2>1, <2>2, <2>3, <2>4, <2>5
<1>2. CASE StopSession(k)
  <2>1. agent' \in [Session -> Ticket \cup {None}] /\ asking' \in SUBSET Session
    BY <1>2 DEF StopSession
  <2>2. registry' \in Registry
    BY <1>2 DEF StopSession, Registry
  <2>3. QED BY <1>2, <2>1, <2>2 DEF StopSession
<1>3. CASE EndCollect(k)
  BY <1>3 DEF EndCollect, With
<1>4. CASE EndDispatch(k)
  BY <1>4 DEF EndDispatch
<1>5. CASE FindSession(k)
  BY <1>5 DEF FindSession, Back
<1>6. CASE StartRefused(k)
  BY <1>6 DEF StartRefused, Back
<1>7. ASSUME NEW s \in Session, Spawn(k, s)
      PROVE  TypeOK'
  <2>1. target[k] \in Ticket
    BY <1>7 DEF Spawn
  <2>2. [session |-> s, state |-> "running"] \in Entry
    BY DEF Entry
  <2>3. mem' \in [Dispatcher -> Registry]
    BY <1>7, <2>1, <2>2 DEF Spawn, Registry
  <2>4. QED BY <1>7, <2>1, <2>3 DEF Spawn
<1>8. CASE Register(k)
  BY <1>8 DEF Register, With
<1>9. CASE Comment(k)
  BY <1>9 DEF Comment
<1>10. QED BY <1>1, <1>2, <1>3, <1>4, <1>5, <1>6, <1>7, <1>8, <1>9

\* Sessions and people.
LEMMA OutsideStepType ==
    ASSUME TypeOK,
           \/ \E s \in Session : Work(s) \/ Ask(s) \/ Exit(s)
           \/ \E t \in Ticket : MoveTicket(t)
    PROVE  TypeOK'
<1> USE DEF TypeOK, files, tick, Status
<1>1. ASSUME NEW s \in Session, Work(s) PROVE TypeOK'
  BY <1>1 DEF Work
<1>2. ASSUME NEW s \in Session, Ask(s) PROVE TypeOK'
  BY <1>2 DEF Ask
<1>3. ASSUME NEW s \in Session, Exit(s) PROVE TypeOK'
  BY <1>3 DEF Exit
<1>4. ASSUME NEW t \in Ticket, MoveTicket(t) PROVE TypeOK'
  <2>1. PICK move \in HumanMoves : status' = [status EXCEPT ![t] = move[2]]
    BY <1>4 DEF MoveTicket
  <2>2. move[2] \in Status
    BY MovesAssumption
  <2>3. QED BY <1>4, <2>1, <2>2 DEF MoveTicket
<1>5. QED BY <1>1, <1>2, <1>3, <1>4

LEMMA StutterType == TypeOK /\ UNCHANGED vars => TypeOK'
  BY DEF TypeOK, vars, world, files, tick

LEMMA NextType == TypeOK /\ [Next]_vars => TypeOK'
<1> SUFFICES ASSUME TypeOK, [Next]_vars PROVE TypeOK'
  OBVIOUS
<1>1. CASE \E k \in Dispatcher : TickStep(k) \/ TickDies(k) \/ StartRefused(k)
  BY <1>1, StateStepType, WorkStepType, LoopStepType DEF TickStep
<1>2. CASE \E l \in Loop : CheckPid(l) \/ WritePid(l) \/ LoopKilled(l)
  BY <1>2, LoopStepType DEF Dispatcher
<1>3. CASE \/ \E s \in Session : Work(s) \/ Ask(s) \/ Exit(s)
           \/ \E t \in Ticket : MoveTicket(t)
  BY <1>3, OutsideStepType
<1>4. CASE UNCHANGED vars
  BY <1>4, StutterType
<1>5. QED BY <1>1, <1>2, <1>3, <1>4 DEF Next

\* Every tick, however it is cut off, leaves well-typed files and memory; no
\* tick starts, stops or comments on a session without a ticket.
THEOREM TypeCorrect == Spec => []TypeOK
<1>1. QED BY InitType, NextType, PTL DEF Spec

-----------------------------------------------------------------------------
(* The pid file.                                                           *)

LEMMA InitLoop == Init => LoopInv
  BY DEF Init, LoopInv, LoopLives, Dispatcher

\* A step of a started loop, or its end, keeps the others out.
LEMMA LoopGoesOn ==
    ASSUME Exclusive, TypeOK, LoopInv, NEW k \in Dispatcher, pc[k] \notin {"off", "check"},
           NEW x \in Step, x # "check", pc' = [pc EXCEPT ![k] = x],
           pidFile' = pidFile \/ (x = "off" /\ pidFile' = None)
    PROVE  LoopInv'
  BY DEF Exclusive, TypeOK, LoopInv, LoopLives, Dispatcher

\* A loop enters only when no other is past its first line.
LEMMA LoopEnters ==
    ASSUME Exclusive, TypeOK, LoopInv, NEW l \in Loop, CheckPid(l) \/ WritePid(l)
    PROVE  LoopInv'
<1>1. CASE CheckPid(l)
  <2>1. \A m \in Loop : ~LoopLives(m) /\ pc[m] # "check"
    BY <1>1 DEF CheckPid, Exclusive, LoopInv
  <2>2. \A m \in Dispatcher : pc[m] = "off"
    BY <2>1 DEF LoopLives, Exclusive, Dispatcher
  <2>3. QED BY <1>1, <2>2 DEF CheckPid, Goto, files, TypeOK, LoopInv, LoopLives, Dispatcher
<1>2. CASE WritePid(l)
  BY <1>2 DEF WritePid, Goto, TypeOK, LoopInv, LoopLives, Dispatcher
<1>3. QED BY <1>1, <1>2

LEMMA LoopTickStep ==
    ASSUME Exclusive, TypeOK, LoopInv, NEW k \in Dispatcher,
           TickStep(k) \/ TickDies(k) \/ StartRefused(k) \/ LoopKilled(k)
    PROVE  LoopInv'
<1> USE DEF Goto, Step, files, tick, world
<1>1. k \in Loop /\ pidFile \in Loop \cup {None}
  BY DEF Exclusive, Dispatcher, TypeOK
<1>2. CASE ReadBoard(k) \/ LoadRegistry(k) \/ SaveRegistry(k)
  BY <1>1, <1>2, LoopGoesOn DEF ReadBoard, LoadRegistry, SaveRegistry
<1>3. ASSUME NEW t \in Ticket, \/ CollectDone(k, t) \/ Resume(k, t) \/ LeaveToHuman(k, t)
                               \/ Dispatch(k, t) \/ Skip(k, t)
      PROVE  LoopInv'
  <2>1. CASE LeaveToHuman(k, t) \/ Skip(k, t)
    BY <2>1 DEF LeaveToHuman, Skip, LoopInv, LoopLives
  <2>2. CASE CollectDone(k, t)
    BY <2>2, LoopGoesOn DEF CollectDone
  <2>3. CASE Resume(k, t) \/ Dispatch(k, t)
    BY <2>3, LoopGoesOn DEF Resume, Dispatch
  <2>4. QED BY <1>3, <2>1, <2>2, <2>3
<1>4. CASE StopSession(k) \/ EndCollect(k) \/ EndDispatch(k) \/ Register(k) \/ Comment(k)
  BY <1>4, LoopGoesOn DEF StopSession, EndCollect, EndDispatch, Register, Comment
<1>5. CASE FindSession(k) \/ StartRefused(k)
  BY <1>5, LoopGoesOn DEF FindSession, StartRefused, Back
<1>6. CASE \E s \in Session : Spawn(k, s)
  BY <1>6, LoopGoesOn DEF Spawn
<1>7. CASE SprintDone(k) \/ OnlyWaiting(k) \/ NextTick(k)
  BY <1>1, <1>7, LoopGoesOn DEF SprintDone, OnlyWaiting, NextTick, Leave
<1>8. CASE TickDies(k) \/ LoopKilled(k)
  BY <1>1, <1>8, LoopGoesOn, CrashAssumption DEF TickDies, LoopKilled, Leave
<1>9. QED BY <1>2, <1>3, <1>4, <1>5, <1>6, <1>7, <1>8 DEF TickStep

LEMMA NextLoop == Exclusive /\ TypeOK /\ LoopInv /\ [Next]_vars => LoopInv'
<1> SUFFICES ASSUME Exclusive, TypeOK, LoopInv, [Next]_vars PROVE LoopInv'
  OBVIOUS
<1>1. CASE \E k \in Dispatcher : TickStep(k) \/ TickDies(k) \/ StartRefused(k)
  BY <1>1, LoopTickStep
<1>2. CASE \E l \in Loop : CheckPid(l) \/ WritePid(l) \/ LoopKilled(l)
  BY <1>2, LoopEnters, LoopTickStep DEF Dispatcher
<1>3. CASE \/ \E s \in Session : Work(s) \/ Ask(s) \/ Exit(s)
           \/ \E t \in Ticket : MoveTicket(t)
  BY <1>3 DEF Work, Ask, Exit, MoveTicket, files, LoopInv, LoopLives
<1>4. CASE UNCHANGED vars
  BY <1>4 DEF vars, files, LoopInv, LoopLives
<1>5. QED BY <1>1, <1>2, <1>3, <1>4 DEF Next

\* For any number of loops that look at the pid file before they start, at
\* most one runs at a time, and the file names it until it ends.
THEOREM OneLoop == ASSUME Exclusive PROVE Spec => []LoopInv
<1>1. Init => TypeOK /\ LoopInv
  BY InitType, InitLoop
<1>2. TypeOK /\ LoopInv /\ [Next]_vars => (TypeOK /\ LoopInv)'
  BY NextType, NextLoop
<1>3. QED BY <1>1, <1>2, PTL DEF Spec

-----------------------------------------------------------------------------
(* The registry.                                                           *)

LEMMA InitRegistry == Init => RegistryInv
  BY DEF Init, RegistryInv, Covers, Holding

\* While a loop is under way every other one is off.
LEMMA Alone ==
    ASSUME LoopInv, NEW k \in Dispatcher, pc[k] # "off"
    PROVE  \A m \in Dispatcher : pc[m] # "off" => m = k
  BY DEF LoopInv

\* What a lone dispatcher must show about its step to keep RegistryInv.
LEMMA RegistryStep ==
    ASSUME TypeOK, LoopInv, LoopInv', NEW k \in Dispatcher,
           NEW x \in Step, pc' = [pc EXCEPT ![k] = x], pc[k] # "off" \/ x # "off",
           x # "register" => Covers(registry)',
           x \in Holding => Covers(mem[k])',
           x = "spawn" => (mem[k][target[k]] = None \/ mem[k][target[k]].state = "exited")'
    PROVE  RegistryInv'
<1>1. \A m \in Dispatcher : m # k => pc'[m] = "off"
  BY Alone DEF TypeOK, LoopInv
<1>2. pc'[k] = x
  BY DEF TypeOK
<1>3. QED BY <1>1, <1>2 DEF RegistryInv, Holding

\* Steps that change neither the registry nor the processes.
LEMMA RegistryRead ==
    ASSUME TypeOK, LoopInv, LoopInv', RegistryInv, NEW k \in Dispatcher, pc[k] # "register",
           NEW x \in Step \ Holding, pc' = [pc EXCEPT ![k] = x], pc[k] # "off" \/ x # "off",
           UNCHANGED <<agent, registry>>
    PROVE  RegistryInv'
<1>1. \A m \in Dispatcher : pc[m] # "register"
  BY Alone DEF TypeOK, LoopInv
<1>2. Covers(registry)'
  BY <1>1 DEF RegistryInv, Covers
<1>3. QED BY <1>2, RegistryStep DEF Holding

\* A registry that knows every process still does when some of them end.
LEMMA CoversFewer ==
    ASSUME NEW r, NEW r1, Covers(r), r1 = r,
           \A s \in Session : agent'[s] = None \/ agent'[s] = agent[s]
    PROVE  \A s \in Session : agent'[s] # None =>
              r1[agent'[s]] = [session |-> s, state |-> "running"]
  BY DEF Covers

\* A live process is read as running: what a tick loads knows it too.
LEMMA CoversRefreshed ==
    ASSUME TypeOK, Covers(registry)
    PROVE  Covers([t \in Ticket |-> Refreshed(registry[t])])
<1> SUFFICES ASSUME NEW s \in Session, agent[s] # None
             PROVE  Refreshed(registry[agent[s]]) = [session |-> s, state |-> "running"]
  BY DEF Covers, TypeOK
<1>1. registry[agent[s]] = [session |-> s, state |-> "running"]
  BY DEF Covers
<1>2. registry[agent[s]] \in Entry
  BY <1>1 DEF Entry
<1>3. registry[agent[s]] # None
  BY <1>2, SetsAssumption DEF Entry
<1>4. QED BY <1>1, <1>2, <1>3, RefreshedType

LEMMA RegistryReads ==
    ASSUME Exclusive, TypeOK, LoopInv, LoopInv', RegistryInv, NEW k \in Dispatcher,
           \/ k \in Loop /\ (CheckPid(k) \/ WritePid(k) \/ LoopKilled(k))
           \/ ReadBoard(k) \/ EndCollect(k) \/ EndDispatch(k) \/ StartRefused(k) \/ Comment(k)
           \/ SprintDone(k) \/ OnlyWaiting(k) \/ NextTick(k) \/ TickDies(k)
           \/ \E t \in Ticket : \/ Resume(k, t) \/ LeaveToHuman(k, t)
                                \/ Dispatch(k, t) \/ Skip(k, t)
    PROVE  RegistryInv'
<1> USE DEF Goto, Step, Holding, files, world
<1>1. CASE k \in Loop /\ (CheckPid(k) \/ WritePid(k))
  BY <1>1, RegistryRead DEF CheckPid, WritePid
<1>2. CASE ReadBoard(k) \/ EndCollect(k) \/ EndDispatch(k) \/ Comment(k)
  BY <1>2, RegistryRead DEF ReadBoard, EndCollect, EndDispatch, Comment, Exclusive, Dispatcher
<1>3. CASE StartRefused(k)
  BY <1>3, RegistryRead DEF StartRefused, Back
<1>4. CASE SprintDone(k) \/ OnlyWaiting(k) \/ NextTick(k)
  BY <1>4, RegistryRead DEF SprintDone, OnlyWaiting, NextTick, Leave
<1>5. CASE (k \in Loop /\ LoopKilled(k)) \/ TickDies(k)
  BY <1>5, RegistryRead, CrashAssumption DEF LoopKilled, TickDies, Leave, Exclusive
<1>6. ASSUME NEW t \in Ticket, Resume(k, t) \/ Dispatch(k, t)
      PROVE  RegistryInv'
  BY <1>6, RegistryRead DEF Resume, Dispatch
<1>7. ASSUME NEW t \in Ticket, LeaveToHuman(k, t) \/ Skip(k, t)
      PROVE  RegistryInv'
  <2>1. pc' = [pc EXCEPT ![k] = pc[k]] /\ pc[k] \in Step \ Holding
        /\ pc[k] # "off" /\ pc[k] # "register" /\ UNCHANGED <<agent, registry>>
    BY <1>7 DEF LeaveToHuman, Skip, TypeOK
  <2>2. QED BY <2>1, RegistryRead
<1>8. QED BY <1>1, <1>2, <1>3, <1>4, <1>5, <1>6, <1>7

\* The steps that load or save the registry.
LEMMA RegistryWrites ==
    ASSUME Exclusive, TypeOK, LoopInv, LoopInv', RegistryInv, NEW k \in Dispatcher,
           \/ LoadRegistry(k) \/ SaveRegistry(k) \/ StopSession(k) \/ FindSession(k)
           \/ Register(k) \/ (\E t \in Ticket : CollectDone(k, t))
           \/ (\E s \in Session : Spawn(k, s))
    PROVE  RegistryInv'
<1> USE DEF Goto, Step, Holding, files, world
<1>0. pc[k] \notin {"off", "register"} => Covers(registry)
  BY Alone DEF RegistryInv
<1>1. CASE LoadRegistry(k)
  <2>1. Covers(registry)' /\ mem[k]' = [t \in Ticket |-> Refreshed(registry[t])]
    BY <1>0, <1>1 DEF LoadRegistry, Covers, TypeOK
  <2>2. Covers(mem[k])'
    BY <1>0, <1>1, <2>1, CoversRefreshed DEF LoadRegistry, Covers
  <2>3. QED BY <1>1, <2>1, <2>2, RegistryStep DEF LoadRegistry
<1>2. CASE SaveRegistry(k)
  <2>1. Covers(registry)'
    BY <1>2 DEF SaveRegistry, RegistryInv, Covers
  <2>2. QED BY <1>2, <2>1, RegistryStep DEF SaveRegistry
<1>3. CASE StopSession(k)
  <2> DEFINE e == mem[k][target[k]]
  <2>1. \A s \in Session : agent'[s] = None \/ agent'[s] = agent[s]
    BY <1>3 DEF StopSession, TypeOK
  <2>2. ASSUME NEW s \in Session, agent'[s] # None
        PROVE  registry'[agent'[s]] = [session |-> s, state |-> "running"]
    <3>1. agent'[s] = agent[s] /\ mem[k][agent[s]] = [session |-> s, state |-> "running"]
      BY <1>3, <2>1, <2>2 DEF StopSession, RegistryInv, Covers
    <3>2. agent[s] # target[k]
      BY <1>3, <2>2, <3>1 DEF StopSession, TypeOK
    <3>3. QED BY <1>3, <2>2, <3>1, <3>2 DEF StopSession, TypeOK, Registry
  <2>3. Covers(registry)'
    BY <2>2 DEF Covers
  <2>4. QED BY <1>3, <2>3, RegistryStep DEF StopSession
<1>4. CASE FindSession(k)
  <2>1. Covers(registry)' /\ Covers(mem[k])' /\ mem'[k] = registry
    BY <1>0, <1>4 DEF FindSession, Covers, TypeOK
  <2>2. target'[k] = target[k] /\ target[k] \in Ticket
    BY <1>4 DEF FindSession, TypeOK
  <2>3. registry[target[k]] \in Entry \cup {None}
    BY <2>2 DEF TypeOK, Registry
  <2>4. QED BY <1>4, <2>1, <2>2, <2>3, RegistryStep DEF FindSession, Back, Entry
<1>5. CASE Register(k)
  <2>1. Covers(registry)'
    BY <1>5 DEF Register, RegistryInv, Covers
  <2>2. QED BY <1>5, <2>1, RegistryStep DEF Register
<1>6. ASSUME NEW t \in Ticket, CollectDone(k, t)
      PROVE  RegistryInv'
  <2>1. Covers(registry)' /\ Covers(mem[k])'
    BY <1>0, <1>6 DEF CollectDone, Covers, TypeOK
  <2>2. QED BY <1>6, <2>1, RegistryStep DEF CollectDone
<1>7. ASSUME NEW s \in Session, Spawn(k, s)
      PROVE  RegistryInv'
  <2> DEFINE e == [session |-> s, state |-> "running"]
  <2>1. target[k] \in Ticket /\ mem[k] \in Registry
    BY <1>7 DEF Spawn, TypeOK
  <2>2. mem'[k] = [mem[k] EXCEPT ![target[k]] = e] /\ agent' = [agent EXCEPT ![s] = target[k]]
    BY <1>7 DEF Spawn, TypeOK
  <2>3. ASSUME NEW s2 \in Session, agent'[s2] # None
        PROVE  mem'[k][agent'[s2]] = [session |-> s2, state |-> "running"]
    <3>1. CASE s2 = s
      BY <2>1, <2>2, <3>1 DEF Registry, TypeOK
    <3>2. CASE s2 # s
      <4>1. agent'[s2] = agent[s2] /\ agent[s2] \in Ticket
        BY <2>2, <2>3, <3>2 DEF TypeOK
      <4>2. mem[k][agent[s2]] = [session |-> s2, state |-> "running"]
        BY <1>7, <2>3, <4>1 DEF Spawn, RegistryInv, Covers
      <4>3. agent[s2] # target[k]
        BY <1>7, <4>2, SetsAssumption DEF Spawn, RegistryInv
      <4>4. QED BY <2>1, <2>2, <4>1, <4>2, <4>3 DEF Registry
    <3>3. QED BY <3>1, <3>2
  <2>4. Covers(mem[k])'
    BY <2>3 DEF Covers
  <2>5. QED BY <1>7, <2>4, RegistryStep DEF Spawn
<1>8. QED BY <1>1, <1>2, <1>3, <1>4, <1>5, <1>6, <1>7

LEMMA RegistryOutside ==
    ASSUME TypeOK, RegistryInv,
           \/ \E s \in Session : Work(s) \/ Ask(s) \/ Exit(s)
           \/ \E t \in Ticket : MoveTicket(t)
           \/ UNCHANGED vars
    PROVE  RegistryInv'
<1>1. UNCHANGED <<registry, mem, pc, target>>
      /\ \A s \in Session : agent'[s] = None \/ agent'[s] = agent[s]
  BY DEF Work, Ask, Exit, MoveTicket, files, tick, vars, world, TypeOK
<1>2. Covers(registry) => Covers(registry)'
  BY <1>1, CoversFewer DEF Covers
<1>3. ASSUME NEW k \in Dispatcher, Covers(mem[k]) PROVE Covers(mem[k])'
  BY <1>1, <1>3, CoversFewer DEF Covers
<1>4. QED BY <1>1, <1>2, <1>3 DEF RegistryInv

LEMMA NextRegistry ==
    Exclusive /\ TypeOK /\ LoopInv /\ RegistryInv /\ [Next]_vars => RegistryInv'
<1> SUFFICES ASSUME Exclusive, TypeOK, LoopInv, RegistryInv, [Next]_vars PROVE RegistryInv'
  OBVIOUS
<1>0. LoopInv'
  BY NextLoop
<1>1. CASE \E k \in Dispatcher : TickStep(k) \/ TickDies(k) \/ StartRefused(k)
  BY <1>0, <1>1, RegistryReads, RegistryWrites DEF TickStep
<1>2. CASE \E l \in Loop : CheckPid(l) \/ WritePid(l) \/ LoopKilled(l)
  BY <1>0, <1>2, RegistryReads DEF Dispatcher
<1>3. CASE \/ \E s \in Session : Work(s) \/ Ask(s) \/ Exit(s)
           \/ \E t \in Ticket : MoveTicket(t)
           \/ UNCHANGED vars
  BY <1>3, RegistryOutside
<1>4. QED BY <1>1, <1>2, <1>3 DEF Next

\* When every process is the entry of its ticket, no ticket has two.
LEMMA CoversOne ==
    ASSUME NEW r, Covers(r) PROVE OneSessionPerTicket
<1> SUFFICES ASSUME NEW s1 \in Session, NEW s2 \in Session,
                    agent[s1] # None, agent[s1] = agent[s2]
             PROVE  s1 = s2
  BY DEF OneSessionPerTicket
<1>1. [session |-> s1, state |-> "running"] = [session |-> s2, state |-> "running"]
  BY DEF Covers
<1>2. QED BY <1>1

LEMMA OneSessionFollows == RegistryInv => OneSessionPerTicket
<1> SUFFICES ASSUME RegistryInv PROVE OneSessionPerTicket
  OBVIOUS
<1>1. CASE \A k \in Dispatcher : pc[k] # "register"
  BY <1>1, CoversOne DEF RegistryInv
<1>2. CASE \E k \in Dispatcher : pc[k] = "register"
  <2>1. PICK k \in Dispatcher : Covers(mem[k])
    BY <1>2 DEF RegistryInv, Holding
  <2>2. QED BY <2>1, CoversOne
<1>3. QED BY <1>1, <1>2

\* The registry knows every live process, whenever no tick has one to register.
THEOREM RegistryComplete == ASSUME Exclusive PROVE Spec => []RegistryInv
<1> DEFINE I == TypeOK /\ LoopInv /\ RegistryInv
<1>1. Init => I
  BY InitType, InitLoop, InitRegistry
<1>2. I /\ [Next]_vars => I'
  BY NextType, NextLoop, NextRegistry
<1>3. QED BY <1>1, <1>2, PTL DEF Spec

\* For any sprint and any number of loops under the pid file, a ticket never
\* has two live sessions: ticks that die, loops that are killed and tickets
\* that people move back cannot bring about a second one.
THEOREM OneSession == ASSUME Exclusive PROVE Spec => []OneSessionPerTicket
<1>1. QED BY RegistryComplete, OneSessionFollows, PTL

-----------------------------------------------------------------------------
(* Stopping.                                                               *)

LEMMA InitStop == Init => StopInv
  BY DEF Init, StopInv, Sorted

\* What a lone dispatcher must show about its step to keep StopInv.
LEMMA StopStep ==
    ASSUME TypeOK, LoopInv, LoopInv', NEW k \in Dispatcher,
           NEW x \in Step, pc' = [pc EXCEPT ![k] = x], pc[k] # "off" \/ x # "off",
           x \in Sorted => Finished(registry, DoneLeft(k))',
           x \in {"stop", "spawn", "register"} => Finished(mem[k], DoneLeft(k))',
           x \in {"find", "spawn"} => (target[k] \notin left[k])',
           x = "stop" => (mem[k][target[k]] # None /\ mem[k][target[k]].state = "exited")'
    PROVE  StopInv'
<1>1. \A m \in Dispatcher : m # k => pc'[m] = "off"
  BY Alone DEF TypeOK, LoopInv
<1>2. pc'[k] = x
  BY DEF TypeOK
<1>3. QED BY <1>1, <1>2 DEF StopInv, Sorted

\* Steps before the tickets are sorted, and the end of a tick.
LEMMA StopElsewhere ==
    ASSUME Exclusive, TypeOK, LoopInv, LoopInv', NEW k \in Dispatcher,
           \/ k \in Loop /\ (CheckPid(k) \/ WritePid(k) \/ LoopKilled(k))
           \/ ReadBoard(k) \/ LoadRegistry(k)
           \/ SprintDone(k) \/ OnlyWaiting(k) \/ NextTick(k) \/ TickDies(k)
    PROVE  StopInv'
<1> USE DEF Goto, Step, Sorted
<1>1. CASE k \in Loop /\ (CheckPid(k) \/ WritePid(k))
  BY <1>1, StopStep DEF CheckPid, WritePid
<1>2. CASE ReadBoard(k) \/ LoadRegistry(k)
  BY <1>2, StopStep DEF ReadBoard, LoadRegistry, Exclusive, Dispatcher
<1>3. CASE SprintDone(k) \/ OnlyWaiting(k) \/ NextTick(k)
  BY <1>3, StopStep DEF SprintDone, OnlyWaiting, NextTick, Leave
<1>4. CASE (k \in Loop /\ LoopKilled(k)) \/ TickDies(k)
  BY <1>4, StopStep, CrashAssumption DEF LoopKilled, TickDies, Leave
<1>5. QED BY <1>1, <1>2, <1>3, <1>4

\* A ticket sorted as done has no entry, or one whose process had ended.
LEMMA StopSaved ==
    ASSUME TypeOK, LoopInv, LoopInv', NEW k \in Dispatcher, SaveRegistry(k)
    PROVE  StopInv'
<1>1. \A t \in Ticket : verdict'[k][t] = "done" => mem[k][t] = None \/ mem[k][t].state = "exited"
  <2> SUFFICES ASSUME NEW t \in Ticket, verdict'[k][t] = "done"
               PROVE  mem[k][t] = None \/ mem[k][t].state = "exited"
    OBVIOUS
  <2> DEFINE e == mem[k][t]
             asks == e # None /\ e.session \in asking
  <2>1. e \in Entry \cup {None} /\ asks \in BOOLEAN
    BY DEF TypeOK, Registry
  <2>2. verdict'[k][t] = Classify(board[k][t], e, asks)
    BY DEF SaveRegistry, TypeOK
  <2> HIDE DEF e, asks
  <2>3. e = None \/ e.state = "exited"
    BY <2>1, <2>2, ClassifyType
  <2>4. QED BY <2>3 DEF e
<1>2. left'[k] \in SUBSET Ticket /\ registry' = mem[k]
  BY DEF SaveRegistry, TypeOK
<1>3. Finished(registry, DoneLeft(k))'
  BY <1>1, <1>2 DEF Finished, DoneLeft
<1>4. QED BY <1>3, StopStep DEF SaveRegistry, Goto, Step, Sorted

\* Steps that take a ticket from the list.
LEMMA StopTakes ==
    ASSUME TypeOK, LoopInv, LoopInv', StopInv, NEW k \in Dispatcher, NEW t \in Ticket,
           CollectDone(k, t) \/ Resume(k, t) \/ LeaveToHuman(k, t)
               \/ Dispatch(k, t) \/ Skip(k, t)
    PROVE  StopInv'
<1> USE DEF Goto, Step, Sorted, files
<1>1. /\ pc[k] \in {"collect", "dispatch"} /\ registry' = registry
      /\ t \in left[k] /\ left'[k] = left[k] \ {t} /\ target'[k] = t /\ verdict'[k] = verdict[k]
  BY DEF CollectDone, Resume, LeaveToHuman, Dispatch, Skip, Take, TypeOK
<1>2. Finished(registry, DoneLeft(k))
  BY <1>1 DEF StopInv
<1>3. Finished(registry, DoneLeft(k))'
  BY <1>1, <1>2 DEF Finished, DoneLeft
<1>4. CASE CollectDone(k, t)
  <2>1. mem'[k] = registry /\ t \in DoneLeft(k)
    BY <1>1, <1>4 DEF CollectDone, DoneLeft, TypeOK
  <2>2. Finished(mem[k], DoneLeft(k))'
    BY <1>1, <1>3, <2>1 DEF Finished, DoneLeft
  <2>3. registry[t] # None => registry[t].state = "exited"
    BY <1>2, <2>1 DEF Finished
  <2>4. CASE registry[t] = None
    BY <1>3, <1>4, <2>4, StopStep DEF CollectDone
  <2>5. CASE registry[t] # None
    <3>1. (mem[k][target[k]] # None /\ mem[k][target[k]].state = "exited")'
      BY <1>1, <2>1, <2>3, <2>5
    <3>2. QED BY <1>3, <1>4, <2>2, <2>5, <3>1, StopStep DEF CollectDone
  <2>6. QED BY <2>4, <2>5
<1>5. CASE Resume(k, t) \/ Dispatch(k, t)
  BY <1>1, <1>3, <1>5, StopStep DEF Resume, Dispatch
<1>6. CASE LeaveToHuman(k, t) \/ Skip(k, t)
  <2>1. pc' = [pc EXCEPT ![k] = pc[k]]
    BY <1>6 DEF LeaveToHuman, Skip, TypeOK
  <2>2. QED BY <1>1, <1>3, <2>1, StopStep
<1>7. QED BY <1>4, <1>5, <1>6

\* Steps that start, stop or resume a session.
LEMMA StopWorks ==
    ASSUME TypeOK, LoopInv, LoopInv', StopInv, NEW k \in Dispatcher,
           \/ StopSession(k) \/ EndCollect(k) \/ FindSession(k) \/ StartRefused(k)
           \/ (\E s \in Session : Spawn(k, s)) \/ Register(k) \/ Comment(k) \/ EndDispatch(k)
    PROVE  StopInv'
<1> USE DEF Goto, Step, Sorted, files, tick
<1>1. CASE StopSession(k)
  <2>1. /\ Finished(mem[k], DoneLeft(k)) /\ left' = left /\ verdict' = verdict
        /\ registry' = [mem[k] EXCEPT ![target[k]] = None]
    BY <1>1 DEF StopSession, StopInv
  <2>2. Finished(registry, DoneLeft(k))'
    BY <2>1 DEF Finished, DoneLeft, TypeOK, Registry
  <2>3. QED BY <1>1, <2>2, StopStep DEF StopSession
<1>2. CASE EndCollect(k)
  <2>1. DoneLeft(k)' = {}
    BY <1>2 DEF EndCollect, DoneLeft, With, TypeOK
  <2>2. QED BY <1>2, <2>1, StopStep DEF EndCollect, Finished
<1>3. CASE FindSession(k)
  <2>1. /\ Finished(registry, DoneLeft(k)) /\ UNCHANGED <<registry, left, verdict, target>>
        /\ mem'[k] = registry /\ target[k] \notin left[k]
    BY <1>3 DEF FindSession, StopInv, TypeOK
  <2>2. Finished(registry, DoneLeft(k))' /\ Finished(mem[k], DoneLeft(k))'
    BY <2>1 DEF Finished, DoneLeft
  <2>3. QED BY <1>3, <2>1, <2>2, StopStep DEF FindSession, Back
<1>4. CASE StartRefused(k)
  <2>1. Finished(registry, DoneLeft(k)) /\ UNCHANGED <<registry, left, verdict>>
    BY <1>4 DEF StartRefused, StopInv
  <2>2. Finished(registry, DoneLeft(k))'
    BY <2>1 DEF Finished, DoneLeft
  <2>3. QED BY <1>4, <2>2, StopStep DEF StartRefused, Back
<1>5. ASSUME NEW s \in Session, Spawn(k, s)
      PROVE  StopInv'
  <2>1. /\ Finished(registry, DoneLeft(k)) /\ Finished(mem[k], DoneLeft(k))
        /\ UNCHANGED <<registry, left, verdict>> /\ target[k] \notin left[k]
    BY <1>5 DEF Spawn, StopInv
  <2>2. \A t \in left[k] : mem'[k][t] = mem[k][t]
    BY <1>5, <2>1 DEF Spawn, TypeOK, Registry
  <2>3. Finished(registry, DoneLeft(k))' /\ Finished(mem[k], DoneLeft(k))'
    BY <2>1, <2>2 DEF Finished, DoneLeft
  <2>4. QED BY <1>5, <2>3, StopStep DEF Spawn
<1>6. CASE Register(k)
  <2>1. Finished(mem[k], DoneLeft(k)) /\ UNCHANGED <<left, verdict>> /\ registry' = mem[k]
    BY <1>6 DEF Register, StopInv
  <2>2. Finished(registry, DoneLeft(k))'
    BY <2>1 DEF Finished, DoneLeft
  <2>3. QED BY <1>6, <2>2, StopStep DEF Register
<1>7. CASE Comment(k)
  <2>1. Finished(registry, DoneLeft(k)) /\ UNCHANGED <<registry, left, verdict>>
    BY <1>7 DEF Comment, StopInv
  <2>2. Finished(registry, DoneLeft(k))'
    BY <2>1 DEF Finished, DoneLeft
  <2>3. QED BY <1>7, <2>2, StopStep DEF Comment
<1>8. CASE EndDispatch(k)
  <2>1. Finished(registry, DoneLeft(k)) /\ UNCHANGED <<registry, left, verdict>>
    BY <1>8 DEF EndDispatch, StopInv
  <2>2. Finished(registry, DoneLeft(k))'
    BY <2>1 DEF Finished, DoneLeft
  <2>3. QED BY <1>8, <2>2, StopStep DEF EndDispatch
<1>9. QED BY <1>1, <1>2, <1>3, <1>4, <1>5, <1>6, <1>7, <1>8

LEMMA StopOutside ==
    ASSUME StopInv,
           \/ \E s \in Session : Work(s) \/ Ask(s) \/ Exit(s)
           \/ \E t \in Ticket : MoveTicket(t)
           \/ UNCHANGED vars
    PROVE  StopInv'
<1>1. UNCHANGED <<files, pc, tick>>
  BY DEF Work, Ask, Exit, MoveTicket, vars
<1>2. QED BY <1>1 DEF StopInv, Finished, DoneLeft, files, tick

LEMMA NextStop ==
    Exclusive /\ TypeOK /\ LoopInv /\ StopInv /\ [Next]_vars => StopInv'
<1> SUFFICES ASSUME Exclusive, TypeOK, LoopInv, StopInv, [Next]_vars PROVE StopInv'
  OBVIOUS
<1>0. LoopInv'
  BY NextLoop
<1>1. CASE \E k \in Dispatcher : TickStep(k) \/ TickDies(k) \/ StartRefused(k)
  BY <1>0, <1>1, StopElsewhere, StopSaved, StopTakes, StopWorks DEF TickStep
<1>2. CASE \E l \in Loop : CheckPid(l) \/ WritePid(l) \/ LoopKilled(l)
  BY <1>0, <1>2, StopElsewhere DEF Dispatcher
<1>3. CASE \/ \E s \in Session : Work(s) \/ Ask(s) \/ Exit(s)
           \/ \E t \in Ticket : MoveTicket(t)
           \/ UNCHANGED vars
  BY <1>3, StopOutside
<1>4. QED BY <1>1, <1>2, <1>3 DEF Next

\* Clearing finished tickets never sends SIGTERM to a working process: what a
\* tick still has to stop had ended when the tick sorted it, and no other
\* dispatcher changes the registry in between.
THEOREM StopIsHarmless == ASSUME Exclusive PROVE Spec => StopKillsNobody
<1> DEFINE I == TypeOK /\ LoopInv /\ StopInv
           Harmless == \A k \in Dispatcher : StopSession(k) => agent' = agent
<1>1. Init => I
  BY InitType, InitLoop, InitStop
<1>2. I /\ [Next]_vars => I'
  BY NextType, NextLoop, NextStop
<1>3. I /\ [Next]_vars => [Harmless]_vars
  BY DEF StopInv, StopSession
<1>4. QED BY <1>1, <1>2, <1>3, PTL DEF Spec, StopKillsNobody

-----------------------------------------------------------------------------
(* The counts of the status line.                                          *)

LEMMA InitCount == Init => CountInv
  BY DEF Init, CountInv, Sorted

\* What a lone dispatcher must show about its step to keep CountInv.
LEMMA CountStep ==
    ASSUME TypeOK, LoopInv, LoopInv', CountInv, NEW k \in Dispatcher,
           NEW x \in Step, pc' = [pc EXCEPT ![k] = x], pc[k] # "off" \/ x # "off",
           \A m \in Dispatcher : m # k => started'[m] = started[m],
           x \in Sorted => (/\ Known(k, registry)
                            /\ started[k] \subseteq With(k, "free")
                            /\ \A t \in With(k, "done") : board[k][t] # "todo")',
           x \notin Sorted => started'[k] = {},
           x \in {"stop", "spawn", "register"} => Known(k, mem[k])',
           x = "stop" => (target[k] \in With(k, "done"))',
           x = "register" => (mem[k][target[k]] # None)'
    PROVE  CountInv'
<1>1. \A m \in Dispatcher : m # k => pc'[m] = "off"
  BY Alone DEF TypeOK, LoopInv
<1>2. ASSUME NEW m \in Dispatcher, m # k PROVE started'[m] = {}
  BY <1>1, <1>2, Alone DEF TypeOK, LoopInv, CountInv, Sorted
<1>3. pc'[k] = x
  BY DEF TypeOK
<1>4. QED BY <1>1, <1>2, <1>3 DEF CountInv, Sorted

\* Steps outside the sorted part of a tick: nothing was started.
LEMMA CountElsewhere ==
    ASSUME Exclusive, TypeOK, LoopInv, LoopInv', CountInv, NEW k \in Dispatcher,
           \/ k \in Loop /\ (CheckPid(k) \/ WritePid(k) \/ LoopKilled(k))
           \/ ReadBoard(k) \/ LoadRegistry(k)
           \/ SprintDone(k) \/ OnlyWaiting(k) \/ NextTick(k) \/ TickDies(k)
    PROVE  CountInv'
<1> USE DEF Goto, Step, Sorted, files, tick
<1>1. CASE k \in Loop /\ (CheckPid(k) \/ WritePid(k))
  BY <1>1, CountStep DEF CheckPid, WritePid, CountInv
<1>2. CASE ReadBoard(k) \/ LoadRegistry(k)
  BY <1>2, CountStep DEF ReadBoard, LoadRegistry, Exclusive, Dispatcher, CountInv
<1>3. ASSUME EndTick(k)
      PROVE  started'[k] = {} /\ \A m \in Dispatcher : m # k => started'[m] = started[m]
  BY <1>3 DEF EndTick, TypeOK
<1>4. CASE SprintDone(k) \/ OnlyWaiting(k) \/ NextTick(k)
  BY <1>3, <1>4, CountStep DEF SprintDone, OnlyWaiting, NextTick, Leave
<1>5. CASE (k \in Loop /\ LoopKilled(k)) \/ TickDies(k)
  BY <1>3, <1>5, CountStep, CrashAssumption DEF LoopKilled, TickDies, Leave
<1>6. QED BY <1>1, <1>2, <1>4, <1>5

\* A ticket read as todo is free exactly when it has no entry, and never done.
LEMMA CountSaved ==
    ASSUME TypeOK, LoopInv, LoopInv', CountInv, NEW k \in Dispatcher, SaveRegistry(k)
    PROVE  CountInv'
<1>1. ASSUME NEW t \in Ticket, board[k][t] = "todo"
      PROVE  /\ verdict'[k][t] = "done" => FALSE
             /\ verdict'[k][t] # "free" => mem[k][t] # None
  <2> DEFINE e == mem[k][t]
             asks == e # None /\ e.session \in asking
  <2>1. verdict'[k][t] = Classify("todo", e, asks)
    BY <1>1 DEF SaveRegistry, TypeOK
  <2> HIDE DEF e, asks
  <2>2. Classify("todo", e, asks) # "done" /\ (e = None => Classify("todo", e, asks) = "free")
    BY DEF Classify, Closed
  <2>3. QED BY <2>1, <2>2 DEF e
<1>2. registry' = mem[k] /\ UNCHANGED <<board, started>> /\ started[k] = {}
  BY DEF SaveRegistry, CountInv, Sorted
<1>3. Known(k, registry)' /\ \A t \in With(k, "done")' : board'[k][t] # "todo"
  BY <1>1, <1>2 DEF Known, With
<1>4. QED BY <1>2, <1>3, CountStep DEF SaveRegistry, Goto, Step, Sorted

\* Steps that take a ticket from the list, or load the registry again.
LEMMA CountTakes ==
    ASSUME TypeOK, LoopInv, LoopInv', CountInv, NEW k \in Dispatcher,
           \/ \E t \in Ticket : \/ CollectDone(k, t) \/ Resume(k, t) \/ LeaveToHuman(k, t)
                                \/ Dispatch(k, t) \/ Skip(k, t)
           \/ FindSession(k) \/ StartRefused(k) \/ EndCollect(k) \/ EndDispatch(k) \/ Comment(k)
    PROVE  CountInv'
<1> USE DEF Goto, Step, Sorted, files, tick
<1>1. /\ pc[k] \in {"collect", "dispatch", "find", "comment"}
      /\ UNCHANGED <<registry, board, verdict, started>>
  BY DEF CollectDone, Resume, LeaveToHuman, Dispatch, Skip, FindSession, StartRefused,
         EndCollect, EndDispatch, Comment
<1>2. (/\ Known(k, registry)
       /\ started[k] \subseteq With(k, "free")
       /\ \A t \in With(k, "done") : board[k][t] # "todo")'
  BY <1>1 DEF CountInv, Known, With
<1>3. ASSUME NEW t \in Ticket, CollectDone(k, t)
      PROVE  CountInv'
  <2>1. mem'[k] = registry /\ target'[k] = t /\ verdict[k][t] = "done"
    BY <1>3 DEF CollectDone, Take, TypeOK
  <2>2. Known(k, mem[k])' /\ (target[k] \in With(k, "done"))'
    BY <1>1, <1>2, <2>1 DEF Known, With
  <2>3. QED BY <1>1, <1>2, <1>3, <2>2, CountStep DEF CollectDone
<1>4. ASSUME NEW t \in Ticket, Resume(k, t) \/ Dispatch(k, t)
      PROVE  CountInv'
  BY <1>1, <1>2, <1>4, CountStep DEF Resume, Dispatch
<1>5. ASSUME NEW t \in Ticket, LeaveToHuman(k, t) \/ Skip(k, t)
      PROVE  CountInv'
  <2>1. pc' = [pc EXCEPT ![k] = pc[k]]
    BY <1>5 DEF LeaveToHuman, Skip, TypeOK
  <2>2. QED BY <1>1, <1>2, <1>5, <2>1, CountStep DEF LeaveToHuman, Skip
<1>6. CASE FindSession(k)
  <2>1. mem'[k] = registry
    BY <1>6 DEF FindSession, TypeOK
  <2>2. Known(k, mem[k])'
    BY <1>1, <1>2, <2>1 DEF Known
  <2>3. QED BY <1>1, <1>2, <1>6, <2>2, CountStep DEF FindSession, Back
<1>7. CASE StartRefused(k) \/ EndCollect(k) \/ EndDispatch(k) \/ Comment(k)
  BY <1>1, <1>2, <1>7, CountStep DEF StartRefused, EndCollect, EndDispatch, Comment, Back
<1>8. QED BY <1>3, <1>4, <1>5, <1>6, <1>7

\* Steps that change the registry or what is to be saved in it.
LEMMA CountWrites ==
    ASSUME TypeOK, LoopInv, LoopInv', CountInv, NEW k \in Dispatcher,
           StopSession(k) \/ Register(k) \/ \E s \in Session : Spawn(k, s)
    PROVE  CountInv'
<1> USE DEF Goto, Step, Sorted, files, tick
<1>1. /\ pc[k] \in {"stop", "spawn", "register"} /\ UNCHANGED <<board, verdict>>
      /\ started[k] \subseteq With(k, "free") /\ target[k] \in Ticket
      /\ \A t \in With(k, "done") : board[k][t] # "todo"
      /\ Known(k, registry) /\ Known(k, mem[k])
  BY DEF StopSession, Register, Spawn, CountInv, TypeOK
<1>2. CASE StopSession(k)
  <2>1. board[k][target[k]] # "todo" /\ registry' = [mem[k] EXCEPT ![target[k]] = None]
    BY <1>1, <1>2 DEF StopSession, CountInv
  <2>2. Known(k, registry)'
    BY <1>1, <1>2, <2>1 DEF StopSession, Known, TypeOK, Registry
  <2>3. /\ (started[k] \subseteq With(k, "free"))'
        /\ (\A t \in With(k, "done") : board[k][t] # "todo")'
    BY <1>1, <1>2 DEF StopSession, With
  <2>4. QED BY <1>2, <2>2, <2>3, CountStep DEF StopSession
<1>3. CASE Register(k)
  <2>1. /\ registry' = mem[k] /\ mem[k][target[k]] # None
        /\ started'[k] = started[k] \cup ({target[k]} \cap With(k, "free"))
        /\ \A m \in Dispatcher : m # k => started'[m] = started[m]
    BY <1>3 DEF Register, CountInv, TypeOK
  <2>2. Known(k, registry)'
    BY <1>1, <2>1 DEF Known
  <2>3. (started[k] \subseteq With(k, "free"))'
        /\ (\A t \in With(k, "done") : board[k][t] # "todo")'
    BY <1>1, <2>1 DEF With
  <2>4. QED BY <1>3, <2>1, <2>2, <2>3, CountStep DEF Register
<1>4. ASSUME NEW s \in Session, Spawn(k, s)
      PROVE  CountInv'
  <2> DEFINE e == [session |-> s, state |-> "running"]
  <2>1. mem'[k] = [mem[k] EXCEPT ![target[k]] = e] /\ e # None
    BY <1>1, <1>4, SetsAssumption DEF Spawn, TypeOK
  <2> HIDE DEF e
  <2>2. (mem[k][target[k]] # None)' /\ Known(k, mem[k])' /\ Known(k, registry)'
    BY <1>1, <1>4, <2>1 DEF Spawn, Known, TypeOK, Registry
  <2>3. /\ (started[k] \subseteq With(k, "free"))'
        /\ (\A t \in With(k, "done") : board[k][t] # "todo")'
    BY <1>1, <1>4 DEF Spawn, With
  <2>4. QED BY <1>4, <2>2, <2>3, CountStep DEF Spawn
<1>5. QED BY <1>2, <1>3, <1>4

LEMMA CountOutside ==
    ASSUME CountInv,
           \/ \E s \in Session : Work(s) \/ Ask(s) \/ Exit(s)
           \/ \E t \in Ticket : MoveTicket(t)
           \/ UNCHANGED vars
    PROVE  CountInv'
<1>1. UNCHANGED <<files, pc, tick>>
  BY DEF Work, Ask, Exit, MoveTicket, vars
<1>2. QED BY <1>1 DEF CountInv, Known, With, files, tick

LEMMA NextCount ==
    Exclusive /\ TypeOK /\ LoopInv /\ CountInv /\ [Next]_vars => CountInv'
<1> SUFFICES ASSUME Exclusive, TypeOK, LoopInv, CountInv, [Next]_vars PROVE CountInv'
  OBVIOUS
<1>0. LoopInv'
  BY NextLoop
<1>1. CASE \E k \in Dispatcher : TickStep(k) \/ TickDies(k) \/ StartRefused(k)
  BY <1>0, <1>1, CountElsewhere, CountSaved, CountTakes, CountWrites DEF TickStep
<1>2. CASE \E l \in Loop : CheckPid(l) \/ WritePid(l) \/ LoopKilled(l)
  BY <1>0, <1>2, CountElsewhere DEF Dispatcher
<1>3. CASE \/ \E s \in Session : Work(s) \/ Ask(s) \/ Exit(s)
           \/ \E t \in Ticket : MoveTicket(t)
           \/ UNCHANGED vars
  BY <1>3, CountOutside
<1>4. QED BY <1>1, <1>2, <1>3 DEF Next

\* As many started as free tickets, when the started ones are free: all are.
LEMMA AllStarted ==
    ASSUME TypeOK, NEW k \in Dispatcher, started[k] \subseteq With(k, "free"), Remaining(k) = 0
    PROVE  started[k] = With(k, "free")
<1>1. IsFiniteSet(With(k, "free"))
  BY TicketAssumption, FS_Subset DEF With
<1>2. IsFiniteSet(started[k]) /\ Cardinality(started[k]) \in Nat
      /\ Cardinality(With(k, "free")) \in Nat
  BY <1>1, FS_Subset, FS_CardinalityType
<1>3. Cardinality(started[k]) = Cardinality(With(k, "free"))
  BY <1>2 DEF Remaining
<1>4. QED BY <1>1, <1>3, FS_Subset

\* A loop that reports the sprint done has given every ticket it read as todo
\* a session, for any board and any limits: the counts of its status line can
\* reach zero in no other way.
THEOREM NothingForgotten == ASSUME Exclusive PROVE Spec => DoneForgetsNoTicket
<1> DEFINE I == TypeOK /\ LoopInv /\ CountInv
           Complete == \A l \in Loop : SprintDone(l) =>
                          \A t \in Ticket : board[l][t] = "todo" => registry[t] # None
<1>1. Init => I
  BY InitType, InitLoop, InitCount
<1>2. I /\ [Next]_vars => I'
  BY NextType, NextLoop, NextCount
<1>3. I /\ [Next]_vars => [Complete]_vars
  <2> SUFFICES ASSUME I, NEW l \in Loop, SprintDone(l), NEW t \in Ticket, board[l][t] = "todo"
               PROVE  registry[t] # None
    OBVIOUS
  <2>1. l \in Dispatcher /\ Remaining(l) = 0 /\ pc[l] \in Sorted
    BY DEF Dispatcher, SprintDone, NothingToDo, Sorted
  <2>2. Known(l, registry) /\ started[l] \subseteq With(l, "free")
    BY <2>1 DEF CountInv
  <2>3. started[l] = With(l, "free")
    BY <2>1, <2>2, AllStarted
  <2>4. QED BY <2>2, <2>3 DEF Known, With
<1>4. QED BY <1>1, <1>2, <1>3, PTL DEF Spec, DoneForgetsNoTicket

-----------------------------------------------------------------------------
(* The processes a tick accounts for.                                      *)

LEMMA InitAccount == Init => AccountInv
  BY DEF Init, AccountInv, Sorted, Starting

\* What a lone dispatcher must show about its step to keep AccountInv.
LEMMA AccountStep ==
    ASSUME TypeOK, LoopInv, LoopInv', NEW k \in Dispatcher,
           NEW x \in Step, pc' = [pc EXCEPT ![k] = x], pc[k] # "off" \/ x # "off",
           x \in Sorted => (\A s \in Session : agent[s] # None => agent[s] \in Expected(k))',
           x \in Starting => (target[k] \in With(k, "free") \cup With(k, "needs_human"))',
           x = "dispatch" \/ (x \in Starting /\ (target[k] \in With(k, "free"))') =>
              (left[k] \subseteq With(k, "free"))',
           x \in {"find", "spawn"} /\ (target[k] \in Migration \cap With(k, "free"))' =>
              (With(k, "running") = {} /\ started[k] = {})'
    PROVE  AccountInv'
<1>1. \A m \in Dispatcher : m # k => pc'[m] = "off"
  BY Alone DEF TypeOK, LoopInv
<1>2. pc'[k] = x
  BY DEF TypeOK
<1>3. ASSUME NEW m \in Dispatcher PROVE AccountInv!(m)'
  <2>1. CASE m = k
    BY <1>2, <2>1
  <2>2. CASE m # k
    BY <1>1, <2>2 DEF Sorted, Starting
  <2>3. QED BY <2>1, <2>2
<1>4. QED BY <1>3 DEF AccountInv

\* Steps outside the sorted part of a tick: nobody is accounted for yet.
LEMMA AccountElsewhere ==
    ASSUME Exclusive, TypeOK, LoopInv, LoopInv', NEW k \in Dispatcher,
           \/ k \in Loop /\ (CheckPid(k) \/ WritePid(k) \/ LoopKilled(k))
           \/ ReadBoard(k) \/ LoadRegistry(k)
           \/ SprintDone(k) \/ OnlyWaiting(k) \/ NextTick(k) \/ TickDies(k)
    PROVE  AccountInv'
<1> USE DEF Goto, Step, Sorted, Starting
<1>1. CASE k \in Loop /\ (CheckPid(k) \/ WritePid(k))
  BY <1>1, AccountStep DEF CheckPid, WritePid
<1>2. CASE ReadBoard(k) \/ LoadRegistry(k)
  BY <1>2, AccountStep DEF ReadBoard, LoadRegistry, Exclusive, Dispatcher
<1>3. CASE SprintDone(k) \/ OnlyWaiting(k) \/ NextTick(k)
  BY <1>3, AccountStep DEF SprintDone, OnlyWaiting, NextTick, Leave
<1>4. CASE (k \in Loop /\ LoopKilled(k)) \/ TickDies(k)
  BY <1>4, AccountStep, CrashAssumption DEF LoopKilled, TickDies, Leave
<1>5. QED BY <1>1, <1>2, <1>3, <1>4

\* The registry a tick sorts by knows every live process, so each of them is
\* found running or waiting.
LEMMA AccountSaved ==
    ASSUME TypeOK, LoopInv, LoopInv', RegistryInv, NEW k \in Dispatcher, SaveRegistry(k)
    PROVE  AccountInv'
<1>1. ASSUME NEW s \in Session, agent[s] # None
      PROVE  verdict'[k][agent[s]] \in {"running", "waiting"}
  <2> DEFINE e == mem[k][agent[s]]
             asks == e # None /\ e.session \in asking
  <2>1. e = [session |-> s, state |-> "running"]
    BY <1>1 DEF SaveRegistry, RegistryInv, Holding, Covers
  <2>2. e # None
    BY <2>1, SetsAssumption
  <2>3. verdict'[k][agent[s]] = Classify(board[k][agent[s]], e, asks)
    BY <1>1 DEF SaveRegistry, TypeOK
  <2>4. e.state = "running"
    BY <2>1
  <2> HIDE DEF e, asks
  <2>5. QED BY <2>2, <2>3, <2>4 DEF Classify
<1>2. \A s \in Session : agent'[s] = agent[s] /\ agent[s] \in Ticket \cup {None}
  BY DEF SaveRegistry, world, TypeOK
<1>3. (\A s \in Session : agent[s] # None => agent[s] \in Expected(k))'
  BY <1>1, <1>2 DEF Expected, With
<1>4. QED BY <1>3, AccountStep DEF SaveRegistry, Goto, Step, Sorted, Starting

\* Steps that only take a ticket from the list, or go on to the next part.
LEMMA AccountTakes ==
    ASSUME TypeOK, LoopInv, LoopInv', AccountInv, NEW k \in Dispatcher,
           \/ \E t \in Ticket : \/ CollectDone(k, t) \/ Resume(k, t) \/ LeaveToHuman(k, t)
                                \/ Dispatch(k, t) \/ Skip(k, t)
           \/ FindSession(k) \/ StartRefused(k) \/ EndCollect(k) \/ EndDispatch(k) \/ Comment(k)
    PROVE  AccountInv'
<1> USE DEF Goto, Step, Sorted, Starting, world, files, tick
<1>1. /\ pc[k] \in {"collect", "dispatch", "find", "comment"}
      /\ UNCHANGED <<agent, verdict, started>>
  BY DEF CollectDone, Resume, LeaveToHuman, Dispatch, Skip, FindSession, StartRefused,
         EndCollect, EndDispatch, Comment
<1>2. (\A s \in Session : agent[s] # None => agent[s] \in Expected(k))'
  BY <1>1 DEF AccountInv, Expected, With
<1>3. \A v \in Verdict : With(k, v)' = With(k, v)
  BY <1>1 DEF With
<1>4. /\ With(k, "free")' = With(k, "free") /\ With(k, "running")' = With(k, "running")
      /\ With(k, "needs_human")' = With(k, "needs_human")
  BY <1>3 DEF Verdict
<1>5. ASSUME NEW t \in Ticket, CollectDone(k, t)
      PROVE  AccountInv'
  BY <1>2, <1>5, AccountStep DEF CollectDone
<1>6. ASSUME NEW t \in Ticket, Resume(k, t)
      PROVE  AccountInv'
  <2>1. target'[k] = t /\ t \in With(k, "needs_human") /\ t \notin With(k, "free")
    BY <1>6 DEF Resume, Take, TypeOK, With
  <2>2. QED BY <1>2, <1>4, <1>6, <2>1, AccountStep DEF Resume
<1>7. ASSUME NEW t \in Ticket, LeaveToHuman(k, t)
      PROVE  AccountInv'
  <2>1. pc' = [pc EXCEPT ![k] = "collect"]
    BY <1>7 DEF LeaveToHuman, TypeOK
  <2>2. QED BY <1>2, <1>7, <2>1, AccountStep DEF LeaveToHuman
<1>8. ASSUME NEW t \in Ticket, Dispatch(k, t) \/ Skip(k, t)
      PROVE  /\ target'[k] = t /\ t \in With(k, "free") /\ left'[k] \subseteq With(k, "free")
             /\ pc[k] = "dispatch"
  BY <1>8 DEF Dispatch, Skip, Take, TypeOK, AccountInv
<1>9. ASSUME NEW t \in Ticket, Dispatch(k, t)
      PROVE  AccountInv'
  <2>1. t \in Migration => With(k, "running") = {} /\ started[k] = {}
    BY <1>9 DEF Dispatch, Eligible
  <2>2. (target[k] \in With(k, "free") /\ left[k] \subseteq With(k, "free"))'
    BY <1>4, <1>8, <1>9
  <2>3. (target[k] \in Migration \cap With(k, "free") =>
           With(k, "running") = {} /\ started[k] = {})'
    BY <1>1, <1>4, <1>8, <1>9, <2>1
  <2>4. QED BY <1>2, <1>9, <2>2, <2>3, AccountStep DEF Dispatch
<1>10. ASSUME NEW t \in Ticket, Skip(k, t)
       PROVE  AccountInv'
  <2>1. pc' = [pc EXCEPT ![k] = "dispatch"]
    BY <1>10 DEF Skip, TypeOK
  <2>2. (left[k] \subseteq With(k, "free"))' /\ pc[k] = "dispatch"
    BY <1>4, <1>8, <1>10
  <2>3. QED BY <1>2, <2>1, <2>2, AccountStep
<1>11. CASE FindSession(k) \/ StartRefused(k)
  <2>1. /\ pc[k] = "find" /\ UNCHANGED <<left, target>>
        /\ target[k] \in Ticket
        /\ \E x \in {Back(k), "spawn"} : pc' = [pc EXCEPT ![k] = x]
    BY <1>11 DEF FindSession, StartRefused, TypeOK
  <2>2. PICK x \in {Back(k), "spawn"} : pc' = [pc EXCEPT ![k] = x]
    BY <2>1
  <2>3. x \in {"dispatch", "collect", "spawn"} /\ (x = "dispatch" => target[k] \in With(k, "free"))
    BY <2>1, <2>2 DEF Back, With
  <2>4. /\ target[k] \in With(k, "free") \cup With(k, "needs_human")
        /\ target[k] \in With(k, "free") => left[k] \subseteq With(k, "free")
        /\ target[k] \in Migration \cap With(k, "free") =>
              With(k, "running") = {} /\ started[k] = {}
    BY <2>1 DEF AccountInv
  <2>5. /\ (target[k] \in With(k, "free") \cup With(k, "needs_human"))'
        /\ (target[k] \in With(k, "free") => left[k] \subseteq With(k, "free"))'
        /\ (target[k] \in Migration \cap With(k, "free") =>
              With(k, "running") = {} /\ started[k] = {})'
    BY <1>1, <1>4, <2>1, <2>4
  <2>6. x = "dispatch" => (left[k] \subseteq With(k, "free"))'
    BY <1>4, <2>1, <2>3, <2>4
  <2>7. x \in Step /\ pc[k] # "off"
    BY <2>1, <2>3
  <2>8. QED BY <1>2, <2>2, <2>5, <2>6, <2>7, AccountStep
<1>12. CASE EndCollect(k)
  <2>1. left'[k] = With(k, "free")
    BY <1>12 DEF EndCollect, TypeOK
  <2>2. QED BY <1>2, <1>4, <1>12, <2>1, AccountStep DEF EndCollect
<1>13. CASE EndDispatch(k) \/ Comment(k)
  BY <1>2, <1>13, AccountStep DEF EndDispatch, Comment
<1>14. QED BY <1>5, <1>6, <1>7, <1>9, <1>10, <1>11, <1>12, <1>13

\* Steps that start, register or stop a process.
LEMMA AccountWrites ==
    ASSUME TypeOK, LoopInv, LoopInv', AccountInv, NEW k \in Dispatcher,
           StopSession(k) \/ Register(k) \/ \E s \in Session : Spawn(k, s)
    PROVE  AccountInv'
<1> USE DEF Goto, Step, Sorted, Starting, files, tick
<1>1. /\ pc[k] \in {"stop", "spawn", "register"} /\ UNCHANGED <<verdict, left, target>>
      /\ target[k] \in Ticket
      /\ \A s \in Session : agent[s] # None => agent[s] \in Expected(k)
  BY DEF StopSession, Register, Spawn, AccountInv, TypeOK
<1>2. \A v \in Verdict : With(k, v)' = With(k, v)
  BY <1>1 DEF With
<1>3. /\ With(k, "free")' = With(k, "free") /\ With(k, "running")' = With(k, "running")
      /\ With(k, "needs_human")' = With(k, "needs_human")
      /\ With(k, "waiting")' = With(k, "waiting")
  BY <1>2 DEF Verdict
<1>4. CASE StopSession(k)
  <2>1. /\ \A s \in Session : agent'[s] = None \/ agent'[s] = agent[s]
        /\ started' = started /\ pc[k] = "stop"
    BY <1>4 DEF StopSession, TypeOK
  <2>2. (\A s \in Session : agent[s] # None => agent[s] \in Expected(k))'
    BY <1>1, <1>3, <2>1 DEF Expected
  <2>3. QED BY <1>4, <2>2, AccountStep DEF StopSession
<1>5. CASE Register(k)
  <2>1. /\ started'[k] = started[k] \cup ({target[k]} \cap With(k, "free"))
        /\ agent' = agent /\ pc[k] = "register"
    BY <1>5 DEF Register, world, TypeOK
  <2>2. /\ target[k] \in With(k, "free") \cup With(k, "needs_human")
        /\ target[k] \in With(k, "free") => left[k] \subseteq With(k, "free")
    BY <2>1 DEF AccountInv
  <2>3. (\A s \in Session : agent[s] # None => agent[s] \in Expected(k))'
    BY <1>1, <1>3, <2>1, <2>2 DEF Expected
  <2>4. PICK x \in {"dispatch", "comment"} :
           pc' = [pc EXCEPT ![k] = x] /\ (x = "dispatch" => target[k] \in With(k, "free"))
    BY <1>1, <1>5 DEF Register, With
  <2>5. x = "dispatch" => (left[k] \subseteq With(k, "free"))'
    BY <1>1, <1>3, <2>2, <2>4
  <2>6. x \in Step \ Starting /\ pc[k] # "off"
    BY <2>1
  <2>7. QED BY <2>3, <2>4, <2>5, <2>6, AccountStep
<1>6. ASSUME NEW s \in Session, Spawn(k, s)
      PROVE  AccountInv'
  <2>1. /\ pc[k] = "spawn" /\ pc' = [pc EXCEPT ![k] = "register"] /\ pc'[k] = "register"
        /\ agent'[s] = target[k] /\ started' = started
        /\ \A s2 \in Session : s2 # s => agent'[s2] = agent[s2]
    BY <1>6 DEF Spawn, TypeOK
  <2>2. /\ target[k] \in With(k, "free") \cup With(k, "needs_human")
        /\ target[k] \in With(k, "free") => left[k] \subseteq With(k, "free")
    BY <2>1 DEF AccountInv
  <2>3. (\A s2 \in Session : agent[s2] # None => agent[s2] \in Expected(k))'
    BY <1>1, <1>3, <2>1 DEF Expected
  <2>4. /\ (target[k] \in With(k, "free") \cup With(k, "needs_human"))'
        /\ (target[k] \in With(k, "free") => left[k] \subseteq With(k, "free"))'
    BY <1>1, <1>3, <2>2
  <2>5. QED BY <2>1, <2>3, <2>4, AccountStep
<1>7. QED BY <1>4, <1>5, <1>6

LEMMA AccountOutside ==
    ASSUME TypeOK, AccountInv,
           \/ \E s \in Session : Work(s) \/ Ask(s) \/ Exit(s)
           \/ \E t \in Ticket : MoveTicket(t)
           \/ UNCHANGED vars
    PROVE  AccountInv'
<1>1. UNCHANGED <<pc, tick>> /\ \A s \in Session : agent'[s] = None \/ agent'[s] = agent[s]
  BY DEF Work, Ask, Exit, MoveTicket, vars, world, TypeOK
<1>2. QED BY <1>1 DEF AccountInv, Expected, With, tick

LEMMA NextAccount ==
    Exclusive /\ TypeOK /\ LoopInv /\ RegistryInv /\ AccountInv /\ [Next]_vars => AccountInv'
<1> SUFFICES ASSUME Exclusive, TypeOK, LoopInv, RegistryInv, AccountInv, [Next]_vars
             PROVE  AccountInv'
  OBVIOUS
<1>0. LoopInv'
  BY NextLoop
<1>1. CASE \E k \in Dispatcher : TickStep(k) \/ TickDies(k) \/ StartRefused(k)
  BY <1>0, <1>1, AccountElsewhere, AccountSaved, AccountTakes, AccountWrites DEF TickStep
<1>2. CASE \E l \in Loop : CheckPid(l) \/ WritePid(l) \/ LoopKilled(l)
  BY <1>0, <1>2, AccountElsewhere DEF Dispatcher
<1>3. CASE \/ \E s \in Session : Work(s) \/ Ask(s) \/ Exit(s)
           \/ \E t \in Ticket : MoveTicket(t)
           \/ UNCHANGED vars
  BY <1>3, AccountOutside
<1>4. QED BY <1>1, <1>2, <1>3 DEF Next

\* Every tick accounts for every live process, however many loops there are
\* and wherever ticks die.
THEOREM ProcessesAccounted ==
    ASSUME Exclusive PROVE Spec => [](TypeOK /\ LoopInv /\ RegistryInv /\ AccountInv)
<1> DEFINE I == TypeOK /\ LoopInv /\ RegistryInv /\ AccountInv
<1>1. Init => I
  BY InitType, InitLoop, InitRegistry, InitAccount
<1>2. I /\ [Next]_vars => I'
  BY NextType, NextLoop, NextRegistry, NextAccount
<1>3. QED BY <1>1, <1>2, PTL DEF Spec

\* Counts of finite sets that add up to nothing are counts of empty sets.
LEMMA NothingCounted ==
    ASSUME TypeOK, NEW k \in Dispatcher, NothingToDo(k), Waiting(k) = 0
    PROVE  With(k, "running") = {} /\ With(k, "waiting") = {} /\ started[k] = {}
<1>1. /\ IsFiniteSet(With(k, "running")) /\ IsFiniteSet(With(k, "waiting"))
      /\ IsFiniteSet(started[k])
  BY TicketAssumption, FS_Subset DEF With, TypeOK
<1>2. Cardinality(With(k, "running")) \in Nat /\ Cardinality(started[k]) \in Nat
  BY <1>1, FS_CardinalityType
<1>3. /\ Cardinality(With(k, "running")) = 0 /\ Cardinality(started[k]) = 0
      /\ Cardinality(With(k, "waiting")) = 0
  BY <1>2 DEF NothingToDo, Running, Waiting
<1>4. QED BY <1>1, <1>3, FS_EmptySet

\* A loop that reports the sprint done leaves no process its last tick found
\* running or waiting, or started: what still runs, that tick resumed.
THEOREM OnlyResumedLeft == ASSUME Exclusive PROVE Spec => DoneLeavesOnlyResumed
<1> DEFINE Alive == \A l \in Loop : SprintDone(l) =>
                       \A s \in Session : agent[s] # None => verdict[l][agent[s]] = "needs_human"
<1>1. TypeOK /\ AccountInv /\ [Next]_vars => [Alive]_vars
  <2> SUFFICES ASSUME TypeOK, AccountInv, NEW l \in Loop, SprintDone(l),
                      NEW s \in Session, agent[s] # None
               PROVE  verdict[l][agent[s]] = "needs_human"
    OBVIOUS
  <2>1. l \in Dispatcher /\ pc[l] = "report" /\ NothingToDo(l) /\ Waiting(l) = 0
    BY DEF Dispatcher, SprintDone
  <2>2. agent[s] \in Expected(l)
    BY <2>1 DEF AccountInv, Sorted
  <2>3. With(l, "running") = {} /\ With(l, "waiting") = {} /\ started[l] = {}
    BY <2>1, NothingCounted
  <2>4. agent[s] \in With(l, "needs_human")
    BY <2>1, <2>2, <2>3 DEF Expected
  <2>5. QED BY <2>4 DEF With
<1>2. QED BY <1>1, ProcessesAccounted, PTL DEF Spec, DoneLeavesOnlyResumed

\* A migration's first session meets no process that works: the others wait
\* for people, or were left to them or resumed by the same tick.
THEOREM MigrationsAlone == ASSUME Exclusive PROVE Spec => MigrationStartsAlone
<1> DEFINE Lonely == \A k \in Dispatcher, s \in Session :
                        Spawn(k, s) /\ target[k] \in Migration \cap With(k, "free") =>
                           \A s2 \in Session : agent[s2] # None =>
                              verdict[k][agent[s2]] \in {"waiting", "needs_human"}
<1>1. TypeOK /\ AccountInv /\ [Next]_vars => [Lonely]_vars
  <2> SUFFICES ASSUME TypeOK, AccountInv, NEW k \in Dispatcher, NEW s \in Session, Spawn(k, s),
                      target[k] \in Migration \cap With(k, "free"),
                      NEW s2 \in Session, agent[s2] # None
               PROVE  verdict[k][agent[s2]] \in {"waiting", "needs_human"}
    OBVIOUS
  <2>1. pc[k] = "spawn"
    BY DEF Spawn
  <2>2. agent[s2] \in Expected(k) /\ With(k, "running") = {} /\ started[k] = {}
    BY <2>1 DEF AccountInv, Sorted
  <2>3. agent[s2] \in With(k, "waiting") \cup With(k, "needs_human")
    BY <2>1, <2>2 DEF Expected
  <2>4. QED BY <2>3 DEF With
<1>2. QED BY <1>1, ProcessesAccounted, PTL DEF Spec, MigrationStartsAlone
=============================================================================
