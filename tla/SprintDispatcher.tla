---------------------------- MODULE SprintDispatcher ----------------------------
(***************************************************************************)
(* The dispatcher of a sprint (plugin/scripts/sprint_run.sh, the scripts   *)
(* sprint_run_*.py and the skill sprint-run) with Codex sessions: a loop   *)
(* starts ticks; a tick reads the board and the registry of sessions,      *)
(* sorts the tickets, clears finished sessions, resumes a failed one once, *)
(* starts sessions of free tickets and prints the status line on which its *)
(* loop decides.                                                           *)
(*                                                                         *)
(*   agent[s]     the ticket the live process s works on, None when dead   *)
(*   asking       sessions whose log ends with a question                  *)
(*   registry[t]  the entry of ticket t in sessions.json                   *)
(*   mem[k]       the registry dispatcher k has loaded and not saved yet   *)
(*   resumed      tickets that carry the auto-resume comment               *)
(*                                                                         *)
(* success and failure of a session are one state, "exited": sorting does  *)
(* not tell them apart. A pid is not given to a second process.            *)
(***************************************************************************)
EXTENDS Naturals, FiniteSets

CONSTANTS
    Ticket, None,
    Session,        \* runtime ids; one that nothing refers to is used again
    Loop,           \* runs of sprint_run.sh
    Manual,         \* people who run single ticks by hand
    blockers,       \* open relation of each ticket
    rank,           \* order of candidates: priority, then key
    Migration,      \* tickets that must start alone
    NeedsLocal,     \* tickets never started in the background
    Slots, MaxWaiting, MaxErrors,
    HumanMoves,     \* <<from, to>>: how people move tickets on the board
    CrashAt,        \* steps a tick may die in
    PreflightFails, \* TRUE if Codex may be out of reach when a session starts
    RacingStarts    \* TRUE if two loops may be started at the same moment

ASSUME SetsAssumption ==
    /\ None \notin Ticket \cup Loop \cup [session : Session, state : {"running", "exited"}]
    /\ Loop \cap Manual = {}
ASSUME TicketAssumption ==
    /\ IsFiniteSet(Ticket) /\ blockers \in [Ticket -> SUBSET Ticket]
    /\ rank \in [Ticket -> Nat] /\ \A t, u \in Ticket : rank[t] = rank[u] => t = u
ASSUME LimitAssumption == {Slots, MaxWaiting, MaxErrors} \subseteq Nat \ {0}

VARIABLES
    status, agent, asking,              \* the board and the processes
    registry, resumed, pidFile,         \* what ticks leave behind
    pc, errors, board, mem, verdict, left, target, started

world == <<status, agent, asking>>
files == <<registry, resumed, pidFile>>
tick  == <<board, mem, verdict, left, target, started>>
vars  == <<world, files, pc, errors, tick>>

Dispatcher == Loop \cup Manual
Status     == {"todo", "in_progress", "in_review", "done"}
Closed     == {"in_review", "done"}
Entry      == [session : Session, state : {"running", "exited"}]
Verdict    == {"free", "running", "waiting", "done", "needs_human"}
Registry   == [Ticket -> Entry \cup {None}]
Step       == {"off", "check", "sleep", "state", "save", "collect", "stop", "find",
               "spawn", "register", "comment", "dispatch", "report"}

ASSUME MovesAssumption == HumanMoves \subseteq Status \X Status
ASSUME CrashAssumption == CrashAt \subseteq Step \ {"off", "check", "sleep"}

TypeOK ==
    /\ status \in [Ticket -> Status]
    /\ agent \in [Session -> Ticket \cup {None}]
    /\ asking \in SUBSET Session
    /\ registry \in Registry
    /\ resumed \in SUBSET Ticket
    /\ pidFile \in Loop \cup {None}
    /\ pc \in [Dispatcher -> Step]
    /\ errors \in [Dispatcher -> 0 .. MaxErrors - 1]
    /\ board \in [Dispatcher -> [Ticket -> Status]]
    /\ mem \in [Dispatcher -> Registry]
    /\ verdict \in [Dispatcher -> [Ticket -> Verdict]]
    /\ left \in [Dispatcher -> SUBSET Ticket]
    /\ target \in [Dispatcher -> Ticket \cup {None}]
    /\ started \in [Dispatcher -> SUBSET Ticket]
    /\ \A k \in Dispatcher : pc[k] \in {"stop", "find", "spawn", "register", "comment"} =>
                                target[k] \in Ticket

-----------------------------------------------------------------------------
(* Sorting tickets.                                                        *)

\* status(): the entry with its state as the process table has it now.
Refreshed(e) ==
    IF e = None THEN None
    ELSE [e EXCEPT !.state = IF agent[e.session] = None THEN "exited" ELSE "running"]

\* (Bug to detect: the ticket's status decides before the session's state.)
ClassifyByTicket(st, e, asks) ==
    CASE st \in Closed -> "done"
      [] st \notin Closed /\ e = None -> IF st = "todo" THEN "free" ELSE "needs_human"
      [] st \notin Closed /\ e # None ->
            IF e.state = "exited" THEN "needs_human" ELSE IF asks THEN "waiting" ELSE "running"

Classify(st, e, asks) ==
    IF e # None /\ e.state = "running"
      THEN IF asks THEN "waiting" ELSE "running"
      ELSE CASE st \in Closed -> "done"
             [] st = "todo" /\ e = None -> "free"
             [] OTHER -> "needs_human"

With(k, v) == {t \in Ticket : verdict[k][t] = v}

\* dispatch_capacity: a waiting session takes no slot, too many of them stop
\* the dispatch; a migration goes alone.
Room(k) ==
    /\ Cardinality(With(k, "waiting")) < MaxWaiting
    /\ Cardinality(With(k, "running")) + Cardinality(started[k]) < Slots
    /\ started[k] \cap Migration = {}

Eligible(k, t) ==
    /\ t \notin NeedsLocal
    /\ \A b \in blockers[t] : status[b] = "done"
    /\ t \in Migration => With(k, "running") = {} /\ started[k] = {}

-----------------------------------------------------------------------------
EmptyRegistry == [t \in Ticket |-> None]
NoVerdict     == [t \in Ticket |-> "done"]
NoBoard       == [t \in Ticket |-> "done"]

Init ==
    /\ status \in [Ticket -> Status]
    /\ agent = [s \in Session |-> None]
    /\ asking = {}
    /\ registry = EmptyRegistry
    /\ resumed = {}
    /\ pidFile = None
    /\ pc = [k \in Dispatcher |-> "off"]
    /\ errors = [k \in Dispatcher |-> 0]
    /\ board = [k \in Dispatcher |-> NoBoard]
    /\ mem = [k \in Dispatcher |-> EmptyRegistry]
    /\ verdict = [k \in Dispatcher |-> NoVerdict]
    /\ left = [k \in Dispatcher |-> {}]
    /\ target = [k \in Dispatcher |-> None]
    /\ started = [k \in Dispatcher |-> {}]

Goto(k, step) == pc' = [pc EXCEPT ![k] = step]

\* The process of the tick is gone, and with it what it had in memory.
EndTick(k) ==
    /\ board' = [board EXCEPT ![k] = NoBoard]
    /\ mem' = [mem EXCEPT ![k] = EmptyRegistry]
    /\ verdict' = [verdict EXCEPT ![k] = NoVerdict]
    /\ left' = [left EXCEPT ![k] = {}]
    /\ target' = [target EXCEPT ![k] = None]
    /\ started' = [started EXCEPT ![k] = {}]

-----------------------------------------------------------------------------
(* sprint_run.sh.                                                          *)

LoopLives(l) == l \in Loop /\ pc[l] \notin {"off", "check"}

\* (Bug to detect: the loop trusts a pid file nobody looks at.)
StartUnchecked(l) ==
    /\ pc[l] = "off"
    /\ Goto(l, "check")
    /\ UNCHANGED <<world, files, errors, tick>>

\* kill -0 of the pid in the file; the file is written in a later step.
CheckPid(l) ==
    /\ pc[l] = "off"
    /\ ~LoopLives(pidFile)
    /\ RacingStarts \/ \A m \in Loop : pc[m] # "check"
    /\ Goto(l, "check")
    /\ UNCHANGED <<world, files, errors, tick>>

WritePid(l) ==
    /\ pc[l] = "check"
    /\ pidFile' = l
    /\ errors' = [errors EXCEPT ![l] = 0]
    /\ Goto(l, "sleep")
    /\ UNCHANGED <<world, registry, resumed, tick>>

\* A loop that ends removes the pid file, whoever wrote it (trap cleanup).
Leave(k) == Goto(k, "off") /\ pidFile' = IF k \in Loop THEN None ELSE pidFile

\* (Bug to detect: tickets that wait for a blocker are not work that remains.)
RemainingEligible(k) == Cardinality({t \in With(k, "free") \ started[k] : Eligible(k, t)})

\* (Bug to detect: sessions started by this tick are not counted.)
RunningBeforeDispatch(k) == Cardinality(With(k, "running"))

\* The status line: the summary of the state, corrected by what was started.
Remaining(k) == Cardinality(With(k, "free")) - Cardinality(started[k])
Running(k)   == Cardinality(With(k, "running")) + Cardinality(started[k])
Waiting(k)   == Cardinality(With(k, "waiting"))

NothingToDo(k) == Remaining(k) = 0 /\ Running(k) = 0

\* "sprint wykonany".
SprintDone(l) ==
    /\ l \in Loop
    /\ pc[l] = "report"
    /\ NothingToDo(l) /\ Waiting(l) = 0
    /\ Leave(l)
    /\ EndTick(l)
    /\ UNCHANGED <<world, registry, resumed, errors>>

\* Exit 4: only sessions that wait for people are left.
OnlyWaiting(l) ==
    /\ l \in Loop
    /\ pc[l] = "report"
    /\ NothingToDo(l) /\ Waiting(l) > 0
    /\ Leave(l)
    /\ EndTick(l)
    /\ UNCHANGED <<world, registry, resumed, errors>>

\* The loop sleeps until its next tick, or ends (--once, --max-ticks); a tick
\* run by hand ends whatever it reports.
NextTick(k) ==
    /\ pc[k] = "report"
    /\ k \in Loop => ~NothingToDo(k)
    /\ errors' = [errors EXCEPT ![k] = 0]
    /\ \/ k \in Loop /\ Goto(k, "sleep") /\ UNCHANGED pidFile
       \/ Leave(k)
    /\ EndTick(k)
    /\ UNCHANGED <<world, registry, resumed>>

\* (Bug to detect: the third failure in a row is not the last.)
GivesUpLate(k) == k \in Manual \/ errors[k] = MaxErrors

GivesUp(k) == k \in Manual \/ errors[k] + 1 = MaxErrors

\* The tick dies, or gives up, without a status line: three in a row end the loop.
TickDies(k) ==
    /\ pc[k] \in CrashAt
    /\ IF GivesUp(k)
         THEN errors' = [errors EXCEPT ![k] = 0] /\ Leave(k)
         ELSE /\ errors' = [errors EXCEPT ![k] = @ + 1]
              /\ Goto(k, "sleep")
              /\ UNCHANGED pidFile
    /\ EndTick(k)
    /\ UNCHANGED <<world, registry, resumed>>

\* Loop and tick are killed at once: no trap runs, the pid file stays.
LoopKilled(l) ==
    /\ l \in Loop
    /\ pc[l] \in CrashAt \cup {"sleep"}
    /\ Goto(l, "off")
    /\ EndTick(l)
    /\ UNCHANGED <<world, files, errors>>

-----------------------------------------------------------------------------
(* A tick: the board and the registry.                                     *)

ReadBoard(k) ==
    /\ pc[k] = IF k \in Loop THEN "sleep" ELSE "off"
    /\ board' = [board EXCEPT ![k] = status]
    /\ Goto(k, "state")
    /\ UNCHANGED <<world, files, errors, mem, verdict, left, target, started>>

\* (Bug to detect: entries keep the state they were saved with.)
LoadStale(k) ==
    /\ pc[k] = "state"
    /\ mem' = [mem EXCEPT ![k] = registry]
    /\ Goto(k, "save")
    /\ UNCHANGED <<world, files, errors, board, verdict, left, target, started>>

LoadRegistry(k) ==
    /\ pc[k] = "state"
    /\ mem' = [mem EXCEPT ![k] = [t \in Ticket |-> Refreshed(registry[t])]]
    /\ Goto(k, "save")
    /\ UNCHANGED <<world, files, errors, board, verdict, left, target, started>>

SaveRegistry(k) ==
    /\ pc[k] = "save"
    /\ registry' = mem[k]
    /\ verdict' = [verdict EXCEPT ![k] = [t \in Ticket |->
                     LET e == mem[k][t]
                     IN Classify(board[k][t], e, e # None /\ e.session \in asking)]]
    /\ left' = [left EXCEPT ![k] = {t \in Ticket : verdict'[k][t] \in {"done", "needs_human"}}]
    /\ Goto(k, "collect")
    /\ UNCHANGED <<world, resumed, pidFile, errors, board, mem, target, started>>

-----------------------------------------------------------------------------
(* Collecting what has ended.                                              *)

Take(k, t) ==
    /\ t \in left[k]
    /\ left' = [left EXCEPT ![k] = @ \ {t}]
    /\ target' = [target EXCEPT ![k] = t]

\* stop: the registry is loaded and the entry looked up.
CollectDone(k, t) ==
    /\ pc[k] = "collect"
    /\ verdict[k][t] = "done"
    /\ Take(k, t)
    /\ mem' = [mem EXCEPT ![k] = registry]
    /\ Goto(k, IF registry[t] = None THEN "collect" ELSE "stop")
    /\ UNCHANGED <<world, files, errors, board, verdict, started>>

\* The entry is removed; SIGTERM goes to a process the registry calls alive.
StopSession(k) ==
    /\ pc[k] = "stop"
    /\ LET e == mem[k][target[k]]
       IN /\ registry' = [mem[k] EXCEPT ![target[k]] = None]
          /\ IF e.state = "running"
               THEN /\ agent' = [agent EXCEPT ![e.session] = None]
                    /\ asking' = asking \ {e.session}
               ELSE UNCHANGED <<agent, asking>>
    /\ Goto(k, "collect")
    /\ UNCHANGED <<status, resumed, pidFile, errors, tick>>

\* A session that failed is started again, once for each ticket.
Resume(k, t) ==
    /\ pc[k] = "collect"
    /\ verdict[k][t] = "needs_human"
    /\ t \notin resumed
    /\ Take(k, t)
    /\ Goto(k, "find")
    /\ UNCHANGED <<world, files, errors, board, mem, verdict, started>>

LeaveToHuman(k, t) ==
    /\ pc[k] = "collect"
    /\ verdict[k][t] = "needs_human"
    /\ t \in resumed
    /\ Take(k, t)
    /\ UNCHANGED <<world, files, pc, errors, board, mem, verdict, started>>

EndCollect(k) ==
    /\ pc[k] = "collect"
    /\ left[k] = {}
    /\ left' = [left EXCEPT ![k] = With(k, "free")]
    /\ Goto(k, "dispatch")
    /\ UNCHANGED <<world, files, errors, board, mem, verdict, target, started>>

-----------------------------------------------------------------------------
(* Starting sessions.                                                      *)

IsNext(k, t) == t \in left[k] /\ \A u \in left[k] : rank[t] <= rank[u]

Dispatch(k, t) ==
    /\ pc[k] = "dispatch"
    /\ IsNext(k, t) /\ Room(k) /\ Eligible(k, t)
    /\ Take(k, t)
    /\ Goto(k, "find")
    /\ UNCHANGED <<world, files, errors, board, mem, verdict, started>>

\* Waits for a blocker, for people, or for the other sessions to end.
Skip(k, t) ==
    /\ pc[k] = "dispatch"
    /\ IsNext(k, t) /\ Room(k) /\ ~Eligible(k, t)
    /\ Take(k, t)
    /\ UNCHANGED <<world, files, pc, errors, board, mem, verdict, started>>

EndDispatch(k) ==
    /\ pc[k] = "dispatch"
    /\ left[k] = {} \/ ~Room(k)
    /\ Goto(k, "report")
    /\ UNCHANGED <<world, files, errors, tick>>

\* Where the tick goes on after a start.
Back(k) == IF verdict[k][target[k]] = "free" THEN "dispatch" ELSE "collect"

\* find_active_session: the saved state of the entry is trusted.
FindSession(k) ==
    /\ pc[k] = "find"
    /\ mem' = [mem EXCEPT ![k] = registry]
    /\ LET e == registry[target[k]]
       IN Goto(k, IF e # None /\ e.state = "running" THEN Back(k) ELSE "spawn")
    /\ UNCHANGED <<world, files, errors, board, verdict, left, target, started>>

\* The preflight of start fails: nothing was started or written.
StartRefused(k) ==
    /\ PreflightFails
    /\ pc[k] = "find"
    /\ Goto(k, Back(k))
    /\ UNCHANGED <<world, files, errors, tick>>

Refers(r, s) == \E t \in Ticket : r[t] # None /\ r[t].session = s

Spawn(k, s) ==
    /\ pc[k] = "spawn"
    /\ agent[s] = None
    /\ ~Refers(registry, s) /\ \A m \in Dispatcher : ~Refers(mem[m], s)
    /\ agent' = [agent EXCEPT ![s] = target[k]]
    /\ mem' = [mem EXCEPT ![k][target[k]] = [session |-> s, state |-> "running"]]
    /\ Goto(k, "register")
    /\ UNCHANGED <<status, asking, files, errors, board, verdict, left, target, started>>

\* (Bug to detect: the new entry replaces the whole registry.)
RegisterOnly(k) ==
    /\ pc[k] = "register"
    /\ registry' = [EmptyRegistry EXCEPT ![target[k]] = mem[k][target[k]]]
    /\ started' = [started EXCEPT ![k] = @ \cup ({target[k]} \cap With(k, "free"))]
    /\ Goto(k, IF verdict[k][target[k]] = "free" THEN "dispatch" ELSE "comment")
    /\ UNCHANGED <<world, resumed, pidFile, errors, board, mem, verdict, left, target>>

\* The registry loaded before the spawn is saved with the new entry.
Register(k) ==
    /\ pc[k] = "register"
    /\ registry' = mem[k]
    /\ started' = [started EXCEPT ![k] = @ \cup ({target[k]} \cap With(k, "free"))]
    /\ Goto(k, IF verdict[k][target[k]] = "free" THEN "dispatch" ELSE "comment")
    /\ UNCHANGED <<world, resumed, pidFile, errors, board, mem, verdict, left, target>>

Comment(k) ==
    /\ pc[k] = "comment"
    /\ resumed' = resumed \cup {target[k]}
    /\ Goto(k, "collect")
    /\ UNCHANGED <<world, registry, pidFile, errors, tick>>

-----------------------------------------------------------------------------
(* Sessions and people.                                                    *)

\* /monolynx:work moves its ticket.
Work(s) ==
    /\ agent[s] # None
    /\ \/ status[agent[s]] = "todo" /\ status' = [status EXCEPT ![agent[s]] = "in_progress"]
       \/ status[agent[s]] = "in_progress" /\ status' = [status EXCEPT ![agent[s]] = "in_review"]
    /\ UNCHANGED <<agent, asking, files, pc, errors, tick>>

Ask(s) ==
    /\ agent[s] # None
    /\ asking' = IF s \in asking THEN asking \ {s} ELSE asking \cup {s}
    /\ UNCHANGED <<status, agent, files, pc, errors, tick>>

\* The process ends, with its turn completed or without.
Exit(s) ==
    /\ agent[s] # None
    /\ agent' = [agent EXCEPT ![s] = None]
    /\ asking' = asking \ {s}
    /\ UNCHANGED <<status, files, pc, errors, tick>>

MoveTicket(t) ==
    /\ \E move \in HumanMoves : status[t] = move[1] /\ status' = [status EXCEPT ![t] = move[2]]
    /\ UNCHANGED <<agent, asking, files, pc, errors, tick>>

TickStep(k) ==
    \/ ReadBoard(k) \/ LoadRegistry(k) \/ SaveRegistry(k)
    \/ \E t \in Ticket : CollectDone(k, t) \/ Resume(k, t) \/ LeaveToHuman(k, t)
    \/ StopSession(k) \/ EndCollect(k)
    \/ \E t \in Ticket : Dispatch(k, t) \/ Skip(k, t)
    \/ EndDispatch(k) \/ FindSession(k)
    \/ \E s \in Session : Spawn(k, s)
    \/ Register(k) \/ Comment(k)
    \/ SprintDone(k) \/ OnlyWaiting(k) \/ NextTick(k)

Next ==
    \/ \E k \in Dispatcher : TickStep(k) \/ TickDies(k) \/ StartRefused(k)
    \/ \E l \in Loop : CheckPid(l) \/ WritePid(l) \/ LoopKilled(l)
    \/ \E s \in Session : Work(s) \/ Ask(s) \/ Exit(s)
    \/ \E t \in Ticket : MoveTicket(t)

Spec == Init /\ [][Next]_vars

-----------------------------------------------------------------------------
(* Properties.                                                             *)

\* Rules 2 and 7 of the skill: one live session for each ticket, whatever the
\* order in which sessions end, ticks die, loops restart and people move tickets.
OneSessionPerTicket ==
    \A s1, s2 \in Session : agent[s1] # None /\ agent[s1] = agent[s2] => s1 = s2

\* Cleaning up after a finished ticket (stop) never ends a working process.
StopKillsNobody == [][\A k \in Dispatcher : StopSession(k) => agent' = agent]_vars

\* When a loop reports the sprint done, it leaves no process behind, except
\* those its last tick resumed.
DoneLeavesOnlyResumed ==
    [][\A l \in Loop : SprintDone(l) =>
          \A s \in Session : agent[s] # None => verdict[l][agent[s]] = "needs_human"]_vars

\* When a loop reports the sprint done, every ticket its last tick read as
\* todo has been given a session: blocked and local tickets keep it running.
DoneForgetsNoTicket ==
    [][\A l \in Loop : SprintDone(l) =>
          \A t \in Ticket : board[l][t] = "todo" => registry[t] # None]_vars

\* When a migration ticket gets its first session, every other process works
\* on a ticket this tick found waiting for people, or resumed.
MigrationStartsAlone ==
    [][\A k \in Dispatcher, s \in Session :
          Spawn(k, s) /\ target[k] \in Migration \cap With(k, "free") =>
             \A s2 \in Session : agent[s2] # None =>
                verdict[k][agent[s2]] \in {"waiting", "needs_human"}]_vars

\* sprint-run/SKILL.md:622: a sprint is not reported done while sessions the
\* last tick started still run without anyone to watch them.
DoneLeavesNobody ==
    [][\A l \in Loop : SprintDone(l) => \A s \in Session : agent[s] = None]_vars

\* Fairness: a started loop goes on, a process comes to its end.
FairSpec ==
    /\ Spec
    /\ \A l \in Loop : WF_vars(WritePid(l)) /\ WF_vars(TickStep(l))
    /\ \A s \in Session : WF_vars(Exit(s))

Startable(t) ==
    /\ status[t] = "todo" /\ registry[t] = None
    /\ t \notin NeedsLocal \cup Migration
    /\ \A b \in blockers[t] : status[b] = "done"

\* A ticket that can start gets its session, or its loop ends: waiting and
\* running sessions hold their limits only for a while.
FreeTicketStarts ==
    \A t \in Ticket : Startable(t) ~> ~Startable(t) \/ \A l \in Loop : pc[l] = "off"

-----------------------------------------------------------------------------
(* Inductive invariants: loops under the pid file, no ticks by hand, and   *)
(* no tick that dies between the spawn of a session and its registration.  *)

Exclusive == Manual = {} /\ ~RacingStarts /\ "register" \notin CrashAt

\* At most one loop is past its first line; a started one owns the pid file.
LoopInv ==
    /\ \A l, m \in Dispatcher : pc[l] # "off" /\ pc[m] # "off" => l = m
    /\ \A l \in Loop : LoopLives(l) => pidFile = l

\* Every live process is its ticket's entry in r, and called running there.
Covers(r) == \A s \in Session : agent[s] # None =>
                 r[agent[s]] = [session |-> s, state |-> "running"]

Holding == {"save", "stop", "spawn", "register"}

\* The registry knows every live process, except while a tick has one to
\* register; so does what a tick holds and is about to save.
RegistryInv ==
    /\ (\A k \in Dispatcher : pc[k] # "register") => Covers(registry)
    /\ \A k \in Dispatcher : pc[k] \in Holding => Covers(mem[k])
    /\ \A k \in Dispatcher : pc[k] = "spawn" => mem[k][target[k]] = None
                                          \/ mem[k][target[k]].state = "exited"

Finished(r, T) == \A t \in T : r[t] = None \/ r[t].state = "exited"

\* The steps of a tick that has sorted its tickets.
Sorted == {"collect", "stop", "find", "spawn", "register", "comment", "dispatch", "report"}

DoneLeft(k) == {t \in left[k] : verdict[k][t] = "done"}

\* The entries a tick still has to stop are those of processes that ended.
StopInv ==
    \A k \in Dispatcher :
        /\ pc[k] \in Sorted => Finished(registry, DoneLeft(k))
        /\ pc[k] \in {"stop", "spawn", "register"} => Finished(mem[k], DoneLeft(k))
        /\ pc[k] \in {"find", "spawn"} => target[k] \notin left[k]
        /\ pc[k] = "stop" => /\ mem[k][target[k]] # None
                             /\ mem[k][target[k]].state = "exited"

\* A ticket read as todo has an entry in r, unless it is free and not started.
Known(k, r) ==
    \A t \in Ticket : /\ board[k][t] = "todo"
                      /\ verdict[k][t] = "free" => t \in started[k]
                      => r[t] # None

\* The counts of the status line stand for tickets the registry has.
CountInv ==
    \A k \in Dispatcher :
        /\ pc[k] \in Sorted => /\ Known(k, registry)
                              /\ started[k] \subseteq With(k, "free")
                              /\ \A t \in With(k, "done") : board[k][t] # "todo"
        /\ pc[k] \notin Sorted => started[k] = {}
        /\ pc[k] \in {"stop", "spawn", "register"} => Known(k, mem[k])
        /\ pc[k] = "stop" => target[k] \in With(k, "done")
        /\ pc[k] = "register" => mem[k][target[k]] # None

\* Where a tick that has sorted its tickets places a live process: found
\* running, waiting or left to people, started by the tick, or just spawned.
Expected(k) ==
    With(k, "running") \cup With(k, "waiting") \cup With(k, "needs_human") \cup started[k]
        \cup {t \in {target[k]} : pc[k] = "register"}

Starting == {"find", "spawn", "register"}

\* A tick accounts for every live process, starts what was free or resumes
\* what needed people, and starts a migration in an empty house.
AccountInv ==
    \A k \in Dispatcher :
        /\ pc[k] \in Sorted => \A s \in Session : agent[s] # None => agent[s] \in Expected(k)
        /\ pc[k] \in Starting => target[k] \in With(k, "free") \cup With(k, "needs_human")
        /\ pc[k] = "dispatch" \/ (pc[k] \in Starting /\ target[k] \in With(k, "free")) =>
              left[k] \subseteq With(k, "free")
        /\ pc[k] \in {"find", "spawn"} /\ target[k] \in Migration \cap With(k, "free") =>
              With(k, "running") = {} /\ started[k] = {}
=============================================================================
