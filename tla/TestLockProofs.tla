--------------------------- MODULE TestLockProofs ---------------------------
(***************************************************************************)
(* For any set of wrappers: types, commands that exclude each other, and a *)
(* note that names the holder, as long as no signal reaches a wrapper      *)
(* outside its handlers.                                                   *)
(***************************************************************************)
EXTENDS TestLock, TLAPS

(* From the grant to the end of the command the descriptor holds the lock. *)
Holding == {"granted", "locked", "truncated", "noted", "spawned", "running", "reaped"}

HolderInv == \A w \in Wrappers : wrapper[w] \in Holding => flock = w

(* Neither commands nor notes outlive the wrapper's part of the program    *)
(* that looks after them, signals outside the handlers excepted: only      *)
(* these make the two properties inductive.                                *)
CommandInv ==
    \A w \in Wrappers \ hit : command[w] = "running" => wrapper[w] \in {"spawned", "running"}

NoteInv ==
    \A w \in Wrappers \ hit : note = w => wrapper[w] \in {"noted", "spawned", "running", "reaped"}

LockInv == LockTypeOK /\ HolderInv /\ CommandInv /\ NoteInv

-----------------------------------------------------------------------------
(* The steps, by what they touch. *)
LockStep(w)  == TryLock(w) \/ Queue(w) \/ Grant(w) \/ Alarm(w) \/ Disarm(w) \/ Close(w)
NoteStep(w)  == Truncate(w) \/ WriteNote(w) \/ ClearNote(w)
ChildStep(w) == Spawn(w) \/ InstallHandlers(w) \/ CommandEnds(w) \/ Reap(w) \/ RunAgain(w)
SignalStep(w) == Interrupt(w) \/ Kill(w)

\* Taking, awaiting and leaving the lock.
LEMMA LockStepKeeps ==
    ASSUME LockInv, NEW w \in Wrappers, LockStep(w)
    PROVE  LockInv'
<1> USE WrapperAssumption DEF LockInv, LockTypeOK, HolderInv, CommandInv, NoteInv, Holding, Places, Step
<1>1. CASE TryLock(w)
  BY <1>1 DEF TryLock, Take
<1>2. CASE Queue(w)
  BY <1>2 DEF Queue
<1>3. CASE Grant(w)
  BY <1>3 DEF Grant, Take
<1>4. CASE Alarm(w)
  BY <1>4 DEF Alarm
<1>5. CASE Disarm(w)
  BY <1>5 DEF Disarm
<1>6. CASE Close(w)
  BY <1>6 DEF Close, Release
<1>7. QED BY <1>1, <1>2, <1>3, <1>4, <1>5, <1>6 DEF LockStep

\* The note.
LEMMA NoteStepKeeps ==
    ASSUME LockInv, NEW w \in Wrappers, NoteStep(w)
    PROVE  LockInv'
<1> USE WrapperAssumption DEF LockInv, LockTypeOK, HolderInv, CommandInv, NoteInv, Holding, Places, Step
<1>1. CASE Truncate(w)
  BY <1>1 DEF Truncate
<1>2. CASE WriteNote(w)
  BY <1>2 DEF WriteNote
<1>3. CASE ClearNote(w)
  BY <1>3 DEF ClearNote
<1>4. QED BY <1>1, <1>2, <1>3 DEF NoteStep

\* The command.
LEMMA ChildStepKeeps ==
    ASSUME LockInv, NEW w \in Wrappers, ChildStep(w)
    PROVE  LockInv'
<1> USE WrapperAssumption DEF LockInv, LockTypeOK, HolderInv, CommandInv, NoteInv, Holding, Places, Step
<1>1. CASE Spawn(w)
  BY <1>1 DEF Spawn
<1>2. CASE InstallHandlers(w)
  BY <1>2 DEF InstallHandlers
<1>3. CASE CommandEnds(w)
  BY <1>3 DEF CommandEnds
<1>4. CASE Reap(w)
  BY <1>4 DEF Reap
<1>5. CASE RunAgain(w)
  BY <1>5 DEF RunAgain
<1>6. QED BY <1>1, <1>2, <1>3, <1>4, <1>5 DEF ChildStep

\* Signals outside the handlers.
LEMMA SignalStepKeeps ==
    ASSUME LockInv, NEW w \in Wrappers, SignalStep(w)
    PROVE  LockInv'
<1> USE WrapperAssumption DEF LockInv, LockTypeOK, HolderInv, CommandInv, NoteInv, Holding, Places, Step
<1>1. CASE Interrupt(w)
  BY <1>1 DEF Interrupt
<1>2. CASE Kill(w)
  BY <1>2 DEF Kill, Release
<1>3. QED BY <1>1, <1>2 DEF SignalStep

\* The invariant holds at the start and is kept.
LEMMA LockInductive ==
    /\ LockInit => LockInv
    /\ LockInv /\ [LockNext]_lockVars => LockInv'
<1>1. LockInit => LockInv
  BY WrapperAssumption
     DEF LockInit, LockInv, LockTypeOK, HolderInv, CommandInv, NoteInv, Holding, Places
<1>2. LockInv /\ LockNext => LockInv'
  BY LockStepKeeps, NoteStepKeeps, ChildStepKeeps, SignalStepKeeps
     DEF LockNext, LockStep, NoteStep, ChildStep, SignalStep
<1>3. LockInv /\ UNCHANGED lockVars => LockInv'
  BY DEF lockVars, LockInv, LockTypeOK, HolderInv, CommandInv, NoteInv
<1>4. QED BY <1>1, <1>2, <1>3

-----------------------------------------------------------------------------
(* Every variable keeps its type. *)
THEOREM LockTypeCorrect == LockSpec => []LockTypeOK
<1>1. LockInv => LockTypeOK
  BY DEF LockInv
<1>2. QED BY <1>1, LockInductive, PTL DEF LockSpec

(* The commands of two wrappers that no signal reached outside their       *)
(* handlers never run at once, however many wrappers there are: a running  *)
(* command has a wrapper that waits for it and holds the lock meanwhile.   *)
THEOREM CommandsExclude == LockSpec => []CommandsExclusive
<1>1. LockInv => CommandsExclusive
  BY DEF LockInv, HolderInv, CommandInv, CommandsExclusive, Holding
<1>2. QED BY <1>1, LockInductive, PTL DEF LockSpec

(* The note names the holder of the lock or a wrapper that was hit: who    *)
(* wrote it clears it before it lets go.                                   *)
THEOREM NoteIsTrue == LockSpec => []NoteNamesHolder
<1>1. LockInv => NoteNamesHolder
  BY DEF LockInv, LockTypeOK, HolderInv, NoteInv, NoteNamesHolder, Holding
<1>2. QED BY <1>1, LockInductive, PTL DEF LockSpec
=============================================================================
