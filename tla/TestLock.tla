------------------------------ MODULE TestLock ------------------------------
(***************************************************************************)
(* The lock that queues the test runs of one repository's worktrees        *)
(* (plugin/scripts/test_lock.py). A wrapper takes an exclusive flock,      *)
(* leaves a note saying who it is, runs its command and lets go. The lock  *)
(* goes with the wrapper's descriptor, which the command does not inherit. *)
(* Signals reach the command through the wrapper's handlers, and the       *)
(* wrapper itself where no handler is installed.                           *)
(***************************************************************************)
CONSTANTS
    Wrappers,     \* processes of test_lock.py
    NoWrapper     \* the lock is free, the note is empty

ASSUME WrapperAssumption == NoWrapper \notin Wrappers

VARIABLES
    flock,        \* the wrapper whose descriptor holds the lock
    note,         \* content of the lock file
    wrapper,      \* where each wrapper is
    command,      \* its command
    hit           \* wrappers a signal reached outside the forwarding handlers

lockVars == <<flock, note, wrapper, command, hit>>

Places == {"start", "refused", "waiting", "granted", "locked", "truncated", "noted", "spawned",
           "running", "reaped", "closing", "ended"}

LockTypeOK ==
    /\ flock \in Wrappers \cup {NoWrapper}
    /\ note \in Wrappers \cup {NoWrapper}
    /\ wrapper \in [Wrappers -> Places]
    /\ command \in [Wrappers -> {"none", "running", "over"}]
    /\ hit \subseteq Wrappers

LockInit ==
    /\ flock = NoWrapper /\ note = NoWrapper
    /\ wrapper = [w \in Wrappers |-> "start"]
    /\ command = [w \in Wrappers |-> "none"]
    /\ hit = {}

Step(w, from, to) == wrapper[w] = from /\ wrapper' = [wrapper EXCEPT ![w] = to]

Take(w) == flock = NoWrapper /\ flock' = w

-----------------------------------------------------------------------------
(* LOCK_NB: one attempt. *)
TryLock(w) ==
    /\ \/ Step(w, "start", "locked") /\ Take(w)
       \/ Step(w, "start", "refused") /\ flock # NoWrapper /\ UNCHANGED flock
    /\ UNCHANGED <<note, command, hit>>

(* After a refusal: --timeout 0 gives up, any other value waits. *)
Queue(w) ==
    /\ Step(w, "refused", "waiting") \/ Step(w, "refused", "closing")
    /\ UNCHANGED <<flock, note, command, hit>>

(* The kernel grants the lock to some waiter. *)
Grant(w) ==
    /\ Step(w, "waiting", "granted") /\ Take(w)
    /\ UNCHANGED <<note, command, hit>>

(* SIGALRM: while waiting, or after the grant and before setitimer(0). *)
Alarm(w) ==
    /\ Step(w, "waiting", "closing") \/ Step(w, "granted", "closing")
    /\ UNCHANGED <<flock, note, command, hit>>

Disarm(w) ==
    /\ Step(w, "granted", "locked")
    /\ UNCHANGED <<flock, note, command, hit>>

Truncate(w) ==
    /\ Step(w, "locked", "truncated")
    /\ note' = NoWrapper
    /\ UNCHANGED <<flock, command, hit>>

WriteNote(w) ==
    /\ Step(w, "truncated", "noted")
    /\ note' = w
    /\ UNCHANGED <<flock, command, hit>>

-----------------------------------------------------------------------------
(* Popen: the command runs, or cannot be run. *)
Spawn(w) ==
    /\ \/ Step(w, "noted", "spawned") /\ command' = [command EXCEPT ![w] = "running"]
       \/ Step(w, "noted", "reaped") /\ UNCHANGED command
    /\ UNCHANGED <<flock, note, hit>>

InstallHandlers(w) ==
    /\ Step(w, "spawned", "running")
    /\ UNCHANGED <<flock, note, command, hit>>

(* The command exits, by itself or killed by a forwarded signal. *)
CommandEnds(w) ==
    /\ command[w] = "running"
    /\ command' = [command EXCEPT ![w] = "over"]
    /\ UNCHANGED <<flock, note, wrapper, hit>>

(* A mutant: the wrapper does not wait for its command. *)
ReapAtOnce(w) ==
    /\ Step(w, "running", "reaped")
    /\ UNCHANGED <<flock, note, command, hit>>

(* child.wait, then the handlers are put back. *)
Reap(w) ==
    /\ Step(w, "running", "reaped")
    /\ command[w] = "over"
    /\ UNCHANGED <<flock, note, command, hit>>

(* A mutant: the note is left to the next holder. *)
KeepNote(w) ==
    /\ Step(w, "reaped", "closing")
    /\ UNCHANGED <<flock, note, command, hit>>

ClearNote(w) ==
    /\ Step(w, "reaped", "closing")
    /\ note' = NoWrapper
    /\ UNCHANGED <<flock, command, hit>>

Release(w) == flock' = IF flock = w THEN NoWrapper ELSE flock

Close(w) ==
    /\ Step(w, "closing", "ended")
    /\ Release(w)
    /\ UNCHANGED <<note, command, hit>>

(* The worktree runs its tests again; a wrapper that was hit does not, for *)
(* its old command and its old note may still be there.                    *)
RunAgain(w) ==
    /\ w \notin hit
    /\ Step(w, "ended", "start")
    /\ command' = [command EXCEPT ![w] = "none"]
    /\ UNCHANGED <<flock, note, hit>>

-----------------------------------------------------------------------------
(* KeyboardInterrupt where the forwarding handlers are not installed: the  *)
(* finally blocks the wrapper is in still run.                             *)
Interrupt(w) ==
    /\ \/ \E place \in {"start", "refused", "waiting", "granted", "locked", "truncated", "noted",
                       "reaped"} :
            Step(w, place, "closing")
       \/ Step(w, "spawned", "reaped")
    /\ hit' = hit \cup {w}
    /\ UNCHANGED <<flock, note, command>>

(* SIGKILL anywhere, SIGTERM or SIGHUP outside the handlers: the kernel *)
(* closes the descriptor and the command runs on.                       *)
Kill(w) ==
    /\ wrapper[w] # "ended"
    /\ wrapper' = [wrapper EXCEPT ![w] = "ended"]
    /\ Release(w)
    /\ hit' = hit \cup {w}
    /\ UNCHANGED <<note, command>>

LockNext ==
    \E w \in Wrappers :
        \/ TryLock(w) \/ Queue(w) \/ Grant(w) \/ Alarm(w) \/ Disarm(w)
        \/ Truncate(w) \/ WriteNote(w)
        \/ Spawn(w) \/ InstallHandlers(w) \/ CommandEnds(w) \/ Reap(w)
        \/ ClearNote(w) \/ Close(w) \/ RunAgain(w)
        \/ Interrupt(w) \/ Kill(w)

LockSpec == LockInit /\ [][LockNext]_lockVars

-----------------------------------------------------------------------------
(* Two test runs share the database only when a signal reached one of      *)
(* their wrappers outside its handlers: timeouts, late alarms, signals     *)
(* passed on to the command and commands that cannot start never let a     *)
(* second one in.                                                          *)
CommandsExclusive ==
    \A v, w \in Wrappers \ hit :
        command[v] = "running" /\ command[w] = "running" => v = w

(* A waiter that reads the note is told of the wrapper that holds the lock *)
(* now, or of one a signal stopped: never of one that finished.            *)
NoteNamesHolder == note # NoWrapper => note = flock \/ note \in hit
=============================================================================
