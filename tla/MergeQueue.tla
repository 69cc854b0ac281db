----------------------------- MODULE MergeQueue -----------------------------
(***************************************************************************)
(* The merge request queue: plugin/scripts/mr_queue_state.py keeps a file  *)
(* of items and judges what the forge says. A tick of the mr-queue skill   *)
(* calls it and does one thing to the first item. People push, approve,    *)
(* merge, close and cancel whenever they like, a tick may die anywhere.    *)
(*                                                                         *)
(* Ticks run one at a time. Left out are the forge's "still computing"     *)
(* answers and its own rules for a merge, both of which make a tick wait.  *)
(***************************************************************************)
EXTENDS Integers, Sequences, FiniteSets, SequencesExt

CONSTANTS
    LastMR,        \* merge requests are 1 .. LastMR, the oldest first
    FixLimit,      \* fixes a tick may try on one MR (2 in the skill)
    MaxTroubles,   \* bound on ticks that die and on what people push, cancel,
                   \* merge, close, reorder and restart
    FreeOrders     \* may people order when a merge awaits its CI, and restart an
                   \* item that goes before what a tick is at

ASSUME QueueAssumption ==
    /\ LastMR \in Nat \ {0}
    /\ FixLimit \in Nat /\ MaxTroubles \in Nat
    /\ FreeOrders \in BOOLEAN

MRs == 1 .. LastMR

VARIABLES
    target,       \* where each MR merges to: the default branch, an integration
                  \* branch, or the branch of an older MR
    forge,        \* what the forge knows of each MR
    targetCI,     \* CI of its merge commit on the default branch
    ticket,       \* has a tick set its ticket done, or tried to
    queue,        \* the queue file
    tick,         \* what the running tick is doing
    byTick,       \* MRs a tick merged
    byHand,       \* MRs whose item a person set done
    fixes,        \* pushes of ticks to each MR since its item came into the queue
    crashes, meddling

queueVars == <<target, forge, targetCI, ticket, queue, tick, byTick, byHand, fixes,
               crashes, meddling>>

NoMR == 0

(* Branches that are no MR's. *)
Default == 0
Integration == -1

Blank == [state |-> "unopened", sha |-> 1, draft |-> FALSE, merge |-> "clear",
          ci |-> "running", approved |-> FALSE]

Item(m, status) == [ref |-> m, status |-> status, rounds |-> 0, approved |-> 0]

Idle == [at |-> "idle", ref |-> NoMR, verdict |-> "none", sha |-> 0, then |-> "end"]
Again == [Idle EXCEPT !.at = "pick"]
On(m, place) == [Idle EXCEPT !.at = place, !.ref = m]

(* "halted" is status stopped with stop_reason target_ci_failed *)
Statuses == {"pending", "merging", "verifying", "done", "closed", "stopped", "halted"}

Requests == [state: {"unopened", "open", "merged", "closed"}, sha: Nat, draft: BOOLEAN,
             merge: {"clear", "behind", "conflict"},
             ci: {"running", "success", "failed", "human"}, approved: BOOLEAN]
Items == [ref: MRs, status: Statuses, rounds: 0 .. FixLimit, approved: Nat]
Verdicts == {"none", "merged", "closed", "needs_human", "conflict", "ci_failed", "wait",
             "needs_approval", "ready"}
Places == {"idle", "pick", "target", "act", "push", "count", "merged", "ticket", "close"}
Ticks == [at: Places, ref: MRs \cup {NoMR}, verdict: Verdicts, sha: Nat, then: {"end", "pick"}]

QueueTypeOK ==
    /\ target \in [MRs -> {Default, Integration} \cup MRs]
    /\ forge \in [MRs -> Requests]
    /\ targetCI \in [MRs -> {"none", "running", "success", "failed"}]
    /\ ticket \in [MRs -> {"open", "seen"}]
    /\ queue \in Seq(Items)
    /\ tick \in Ticks
    /\ byTick \subseteq MRs /\ byHand \subseteq MRs
    /\ fixes \in [MRs -> Nat]
    /\ crashes \in Nat /\ meddling \in Nat /\ crashes + meddling <= MaxTroubles

(* A queue file may still hold an item of the 1.22.0 track, about an MR *)
(* that was merged to an integration branch.                            *)
QueueInit ==
    /\ target \in {t \in [MRs -> {Default, Integration} \cup MRs] :
                      \A m \in MRs : t[m] \in MRs => t[m] < m}
    /\ \E draft \in BOOLEAN, old \in {"none", "verifying", "halted"} :
          /\ forge = [m \in MRs |-> IF m = 1 /\ old # "none" THEN [Blank EXCEPT !.state = "merged"]
                                    ELSE IF m = 1 THEN [Blank EXCEPT !.state = "open", !.draft = draft]
                                    ELSE Blank]
          /\ queue = IF old = "none" THEN <<>> ELSE <<Item(1, old)>>
          /\ old # "none" => target[1] = Integration
    /\ targetCI = [m \in MRs |-> "none"]
    /\ ticket = [m \in MRs |-> "open"]
    /\ tick = Idle
    /\ byTick = {} /\ byHand = {}
    /\ fixes = [m \in MRs |-> 0]
    /\ crashes = 0 /\ meddling = 0

-----------------------------------------------------------------------------
(* The queue file. *)

RefsOf(q) == {q[k].ref : k \in 1 .. Len(q)}
PlaceOf(q, m) == CHOOSE k \in 1 .. Len(q) : q[k].ref = m
ItemOf(q, m) == q[PlaceOf(q, m)]
Where(q, statuses) == {k \in 1 .. Len(q) : q[k].status \in statuses}
Halted(q) == Where(q, {"halted"}) # {}

(* The MR of the first item at the places K. *)
FirstOf(q, K) == q[CHOOSE k \in K : \A j \in K : k <= j].ref

(* A mutant: what is pending goes first. *)
PendingFirst(q) ==
    IF Halted(q) \/ Where(q, {"pending", "merging"}) = {} THEN NoMR
    ELSE IF Where(q, {"pending"}) # {} THEN FirstOf(q, Where(q, {"pending"}))
    ELSE FirstOf(q, Where(q, {"merging"}))

(* _with_next: a merge that awaits its CI goes before everything pending. *)
NextRef(q) ==
    IF Halted(q) \/ Where(q, {"pending", "merging"}) = {} THEN NoMR
    ELSE IF Where(q, {"merging"}) # {} THEN FirstOf(q, Where(q, {"merging"}))
    ELSE FirstOf(q, Where(q, {"pending"}))

(* The elements of S in the order R, a set of pairs, and the elements of q *)
(* at the places K. Neither SelectSeq nor a recursive operator, of which   *)
(* nothing can be proved.                                                  *)
Rank(S, R, x) == Cardinality({y \in S : y = x \/ <<y, x>> \in R})
InOrder(S, R) == [i \in 1 .. Cardinality(S) |-> CHOOSE x \in S : Rank(S, R, x) = i]

Ascending(K) == {p \in K \X K : p[1] < p[2]}
Only(q, K) == [i \in 1 .. Cardinality(K) |-> q[InOrder(K, Ascending(K))[i]]]

(* A mutant: items named again start from nothing. *)
QueueSetAnew(q, refs) == [k \in 1 .. Len(refs) |-> Item(refs[k], "pending")]

(* queue_set: the items named keep what was known of them, of the others *)
(* only the 1.22.0 ones survive.                                         *)
QueueSet(q, refs) ==
    Only(q, {k \in Where(q, {"verifying", "halted"}) : q[k].ref \notin ToSet(refs)})
    \o [k \in 1 .. Len(refs) |-> IF refs[k] \in RefsOf(q) THEN ItemOf(q, refs[k])
                                  ELSE Item(refs[k], "pending")]

QueueAppend(q, order) ==
    q \o LET missing == Only(order, {k \in 1 .. Len(order) : order[k] \notin RefsOf(q)})
         IN  [k \in 1 .. Len(missing) |-> Item(missing[k], "pending")]

Updated(m, Change(_)) ==
    queue' = [k \in 1 .. Len(queue) |-> IF queue[k].ref = m THEN Change(queue[k]) ELSE queue[k]]

SetStatus(m, status) == Updated(m, LAMBDA item : [item EXCEPT !.status = status])

Listed == {m \in MRs : forge[m].state = "open"}

(* m, the open MR it is based on, and so on down. *)
Above(m) ==
    {a \in Listed : \A A \in SUBSET Listed :
        (m \in A /\ \A b \in A : target[b] \in Listed => target[b] \in A) => a \in A}

(* A draft, and what is based on it, waits. *)
Proposed == {m \in Listed : \A a \in Above(m) : ~forge[a].draft}

(* queue_propose: the oldest first, and after an MR the ones based on it. *)
(* Where two trails part, the smaller number goes first: that of an older *)
(* MR, or of the end of a trail.                                          *)
Trail(m) == {2 * a : a \in Above(m)} \cup {2 * m + 1}

Before(m, n) ==
    LET M == Trail(m)
        N == Trail(n)
    IN  \E d \in M \ N : \A e \in N \ M : d < e

DepthFirst == {p \in Proposed \X Proposed : Before(p[1], p[2])}
Propose == InOrder(Proposed, DepthFirst)

-----------------------------------------------------------------------------
(* classify: state, draft, conflict, CI, approval. *)
Verdict(mr, approvedSha) ==
    IF mr.state \in {"merged", "closed"} THEN mr.state
    ELSE IF mr.draft THEN "needs_human"
    ELSE IF mr.merge = "conflict" THEN "conflict"
    ELSE IF mr.ci = "failed" THEN "ci_failed"
    ELSE IF mr.ci = "running" THEN "wait"
    ELSE IF mr.ci = "human" THEN "needs_human"
    ELSE IF mr.merge = "behind" THEN "conflict"
    ELSE IF ~mr.approved /\ approvedSha # mr.sha THEN "needs_approval"
    ELSE "ready"

(* post_merge *)
ClosesAtOnce(m) == target[m] # Default

(* A push: another head, its CI starts. The forge keeps its approval. *)
Pushed(mr, merge) == [mr EXCEPT !.sha = @ + 1, !.ci = "running", !.merge = merge]

(* Nothing is asked any more of an MR that was merged. *)
Left == [Blank EXCEPT !.state = "merged"]

(* A merge moves the branch of the others under them. *)
MergedInto(m, drift) ==
    [n \in MRs |-> IF n = m THEN Left
                   ELSE IF forge[n].state = "open" /\ target[n] = target[m] /\ forge[n].merge = "clear"
                     THEN [forge[n] EXCEPT !.merge = drift]
                   ELSE forge[n]]

-----------------------------------------------------------------------------
(* The tick. *)

At(place) == tick.at = place
Go(place) == tick' = [tick EXCEPT !.at = place]
End == tick' = Idle
Ref == tick.ref
NotForge == UNCHANGED <<target, forge, targetCI, byTick, byHand, fixes, crashes, meddling>>
OnlyTick == NotForge /\ UNCHANGED <<ticket, queue>>

IsOpen(m) == forge[m].state = "open"

(* The pushes to an MR that was not in the queue count no more. *)
CountAfresh == fixes' = [m \in MRs |-> IF m \in RefsOf(queue) THEN fixes[m] ELSE 0]

(* Without arguments a tick appends what is new to a queue that has work *)
(* left, and builds another one when it has none.                        *)
StartTick ==
    /\ At("idle")
    /\ tick' = Again
    /\ \E order \in {Propose} :
          queue' = IF Halted(queue) THEN queue
                   ELSE IF NextRef(queue) # NoMR THEN QueueAppend(queue, order)
                   ELSE IF order = <<>> THEN queue
                   ELSE QueueSet(queue, order)
    /\ CountAfresh
    /\ UNCHANGED <<target, forge, targetCI, ticket, byTick, byHand, crashes, meddling>>

Awaited(m) == m \in byTick /\ target[m] = Default /\ targetCI[m] \in {"none", "running"}

(* FreeOrders = FALSE: an order comes when nothing awaits its CI, and no *)
(* item is restarted that stands before the one a tick is at, or before  *)
(* one that a tick merged and did not record.                            *)
Unrecorded(m) == Awaited(m) /\ ItemOf(queue, m).status # "merging"

JumpsQueue(m) ==
    \E n \in RefsOf(queue) : /\ PlaceOf(queue, m) < PlaceOf(queue, n)
                             /\ Unrecorded(n) \/ Ref = n

(* With arguments the order is the user's: queue_set forgets the items it *)
(* does not name, with a merge that awaits its CI and with fix rounds.    *)
OrderedTick(refs) ==
    /\ At("idle")
    /\ crashes + meddling < MaxTroubles /\ meddling' = meddling + 1
    /\ FreeOrders \/ \A m \in MRs : ~Awaited(m)
    /\ queue' = QueueSet(queue, refs)
    /\ CountAfresh
    /\ Go("pick")
    /\ UNCHANGED <<target, forge, targetCI, ticket, byTick, byHand, crashes>>

(* The verdict holds for the head that was read with it. *)
Judged(m) == [On(m, "act") EXCEPT !.sha = forge[m].sha,
                                  !.verdict = Verdict(forge[m], ItemOf(queue, m).approved)]

Closing(m, then) == [On(m, "ticket") EXCEPT !.then = then]

(* 3.0 and 3: the items of the 1.22.0 track are closed first, then comes *)
(* the next one.                                                         *)
Pick ==
    /\ At("pick")
    /\ LET old == Where(queue, {"verifying"})
           next == NextRef(queue)
       IN  tick' = IF old # {} THEN Closing(FirstOf(queue, old), "pick")
                   ELSE IF next = NoMR THEN Idle
                   ELSE IF ItemOf(queue, next).status = "merging" THEN On(next, "target")
                   ELSE Judged(next)
    /\ OnlyTick

(* A mutant: a failed pipeline is waited for. *)
WaitForTarget ==
    /\ At("target")
    /\ tick' = IF targetCI[Ref] = "success" THEN Closing(Ref, "pick") ELSE Idle
    /\ OnlyTick

(* 3a: the CI of the merge commit. *)
ReadTarget ==
    /\ At("target")
    /\ tick' = IF targetCI[Ref] = "success" THEN Closing(Ref, "pick") ELSE Idle
    /\ IF targetCI[Ref] = "failed" THEN SetStatus(Ref, "stopped") ELSE UNCHANGED queue
    /\ NotForge /\ UNCHANGED ticket

Acts(verdicts) == At("act") /\ tick.verdict \in verdicts

Wait == Acts({"wait", "needs_human"}) /\ End /\ OnlyTick

DropClosed ==
    /\ Acts({"closed"})
    /\ SetStatus(Ref, "closed")
    /\ tick' = Again
    /\ NotForge /\ UNCHANGED ticket

(* 4c: merged by somebody else, or by a tick that died. *)
TakeMerged ==
    /\ Acts({"merged"})
    /\ IF ClosesAtOnce(Ref)
         THEN tick' = Closing(Ref, "pick") /\ UNCHANGED queue
         ELSE tick' = Again /\ SetStatus(Ref, "merging")
    /\ NotForge /\ UNCHANGED ticket

(* 4a: an approval in the chat is bound to the head that was judged. *)
Ask ==
    /\ Acts({"needs_approval"})
    /\ \/ Updated(Ref, LAMBDA item : [item EXCEPT !.approved = tick.sha]) /\ tick' = Again
       \/ End /\ UNCHANGED queue
    /\ NotForge /\ UNCHANGED ticket

RoundsLeft(m) == ItemOf(queue, m).rounds < FixLimit

GiveUp ==
    /\ Acts({"ci_failed", "conflict"}) /\ ~RoundsLeft(Ref)
    /\ SetStatus(Ref, "stopped")
    /\ End
    /\ NotForge /\ UNCHANGED ticket

(* Steps 5 and 6: a running pipeline of a conflicting head is cancelled, *)
(* the head is fetched, and a fix is made on it.                         *)
StartFix ==
    /\ Acts({"ci_failed", "conflict"}) /\ RoundsLeft(Ref)
    /\ forge' = IF tick.verdict = "conflict" /\ forge[Ref].ci = "running" /\ forge[Ref].sha = tick.sha
                  THEN [forge EXCEPT ![Ref].ci = "human"] ELSE forge
    /\ tick' = [tick EXCEPT !.at = "push", !.sha = forge[Ref].sha]
    /\ UNCHANGED <<target, targetCI, ticket, queue, byTick, byHand, fixes, crashes, meddling>>

(* The two sides cannot be reconciled. *)
Unresolvable ==
    /\ At("push") /\ tick.verdict = "conflict"
    /\ SetStatus(Ref, "stopped")
    /\ End
    /\ NotForge /\ UNCHANGED ticket

(* The push is refused when the branch went on. *)
Push ==
    /\ At("push")
    /\ IF forge[Ref].state = "open" /\ forge[Ref].sha = tick.sha
         THEN /\ \E merge \in {"clear", forge[Ref].merge} :
                    forge' = [forge EXCEPT ![Ref] = Pushed(@, merge)]
              /\ fixes' = [fixes EXCEPT ![Ref] = @ + 1]
              /\ tick' = On(Ref, "count")
         ELSE End /\ UNCHANGED <<forge, fixes>>
    /\ UNCHANGED <<target, targetCI, ticket, queue, byTick, byHand, crashes, meddling>>

(* A mutant: a fix is counted twice. *)
CountTwice ==
    /\ At("count")
    /\ Updated(Ref, LAMBDA item : [item EXCEPT !.rounds = @ + 2])
    /\ End
    /\ NotForge /\ UNCHANGED ticket

CountRound ==
    /\ At("count")
    /\ Updated(Ref, LAMBDA item : [item EXCEPT !.rounds = @ + 1])
    /\ End
    /\ NotForge /\ UNCHANGED ticket

(* A mutant: the merge is not bound to the head. *)
AnyHead == forge[Ref].state = "open" /\ ~forge[Ref].draft /\ forge[Ref].merge # "conflict"

(* What the forge asks of --sha and --match-head-commit. *)
HeadAsJudged ==
    /\ forge[Ref].state = "open" /\ ~forge[Ref].draft /\ forge[Ref].merge # "conflict"
    /\ forge[Ref].sha = tick.sha

(* 4b *)
Merge ==
    /\ Acts({"ready"})
    /\ IF HeadAsJudged
         THEN /\ \E drift \in {"clear", "behind", "conflict"} : forge' = MergedInto(Ref, drift)
              /\ \E ci \in IF target[Ref] = Default THEN {"none", "running"} ELSE {"none"} :
                    targetCI' = [targetCI EXCEPT ![Ref] = ci]
              /\ byTick' = byTick \cup {Ref}
              /\ tick' = On(Ref, "merged")
         ELSE End /\ UNCHANGED <<forge, targetCI, byTick>>
    /\ UNCHANGED <<target, ticket, queue, byHand, fixes, crashes, meddling>>

(* A mutant: the item is closed before its ticket. *)
RecordDone ==
    /\ At("merged")
    /\ IF ClosesAtOnce(Ref)
         THEN tick' = Closing(Ref, "end") /\ SetStatus(Ref, "done")
         ELSE End /\ SetStatus(Ref, "merging")
    /\ NotForge /\ UNCHANGED ticket

RecordMerge ==
    /\ At("merged")
    /\ IF ClosesAtOnce(Ref)
         THEN tick' = Closing(Ref, "end") /\ UNCHANGED queue
         ELSE End /\ SetStatus(Ref, "merging")
    /\ NotForge /\ UNCHANGED ticket

(* Closing: the ticket first, its failure stops nothing, then the item. *)
SetTicketDone ==
    /\ At("ticket")
    /\ ticket' = [ticket EXCEPT ![Ref] = "seen"]
    /\ Go("close")
    /\ NotForge /\ UNCHANGED queue

CloseItem ==
    /\ At("close")
    /\ SetStatus(Ref, "done")
    /\ tick' = IF tick.then = "end" THEN Idle ELSE Again
    /\ NotForge /\ UNCHANGED ticket

Crash ==
    /\ ~At("idle") /\ crashes + meddling < MaxTroubles
    /\ crashes' = crashes + 1
    /\ End
    /\ UNCHANGED <<target, forge, targetCI, ticket, queue, byTick, byHand, fixes, meddling>>

TickStep ==
    \/ StartTick \/ Pick \/ ReadTarget
    \/ Wait \/ DropClosed \/ TakeMerged \/ Ask
    \/ GiveUp \/ StartFix \/ Unresolvable \/ Push \/ CountRound
    \/ Merge \/ RecordMerge \/ SetTicketDone \/ CloseItem

-----------------------------------------------------------------------------
(* The forge and the people. *)

Meddle == crashes + meddling < MaxTroubles /\ meddling' = meddling + 1
Aside == UNCHANGED <<target, ticket, tick, byTick, fixes, crashes>>
OnForge(m, mr) == forge' = [forge EXCEPT ![m] = mr] /\ Aside /\ UNCHANGED <<queue, byHand>>

Open(m) ==
    /\ forge[m].state = "unopened"
    /\ m = 1 \/ forge[m - 1].state # "unopened"
    /\ OnForge(m, [forge[m] EXCEPT !.state = "open"])
    /\ UNCHANGED <<targetCI, meddling>>

PushByHand(m, merge) ==
    /\ IsOpen(m) /\ Meddle
    /\ OnForge(m, Pushed(forge[m], merge))
    /\ UNCHANGED targetCI

CIEnds(m) ==
    /\ IsOpen(m) /\ forge[m].ci = "running"
    /\ \E result \in {"success", "failed"} :
          OnForge(m, [forge[m] EXCEPT !.ci = result])
    /\ UNCHANGED <<targetCI, meddling>>

CancelCI(m) ==
    /\ IsOpen(m) /\ forge[m].ci = "running" /\ Meddle
    /\ OnForge(m, [forge[m] EXCEPT !.ci = "human"])
    /\ UNCHANGED targetCI

RetryCI(m) ==
    /\ IsOpen(m) /\ forge[m].ci = "human"
    /\ OnForge(m, [forge[m] EXCEPT !.ci = "running"])
    /\ UNCHANGED <<targetCI, meddling>>

Approve(m) ==
    /\ IsOpen(m) /\ ~forge[m].approved
    /\ OnForge(m, [forge[m] EXCEPT !.approved = TRUE])
    /\ UNCHANGED <<targetCI, meddling>>

Undraft(m) ==
    /\ IsOpen(m) /\ forge[m].draft
    /\ OnForge(m, [forge[m] EXCEPT !.draft = FALSE])
    /\ UNCHANGED <<targetCI, meddling>>

Redraft(m) ==
    /\ IsOpen(m) /\ ~forge[m].draft /\ Meddle
    /\ OnForge(m, [forge[m] EXCEPT !.draft = TRUE])
    /\ UNCHANGED targetCI

CloseByHand(m) ==
    /\ IsOpen(m) /\ Meddle
    /\ OnForge(m, [forge[m] EXCEPT !.state = "closed"])
    /\ UNCHANGED targetCI

(* What it is to be merged to may have moved meanwhile. *)
Reopen(m, drift) ==
    /\ forge[m].state = "closed"
    /\ OnForge(m, [forge[m] EXCEPT !.state = "open",
                                   !.merge = IF @ = "clear" THEN drift ELSE @])
    /\ UNCHANGED <<targetCI, meddling>>

MergeByHand(m, drift) ==
    /\ IsOpen(m) /\ forge[m].merge # "conflict" /\ ~forge[m].draft /\ Meddle
    /\ forge' = MergedInto(m, drift)
    /\ targetCI' = [targetCI EXCEPT ![m] = IF target[m] = Default THEN "running" ELSE @]
    /\ Aside /\ UNCHANGED <<queue, byHand>>

TargetEnds(m, result) ==
    /\ targetCI[m] = "running"
    /\ targetCI' = [targetCI EXCEPT ![m] = result]
    /\ Aside /\ UNCHANGED <<forge, queue, byHand, meddling>>

(* Somebody starts the pipeline that is missing. *)
TargetRestarts(m) ==
    /\ forge[m].state = "merged" /\ target[m] = Default /\ targetCI[m] = "none"
    /\ targetCI' = [targetCI EXCEPT ![m] = "running"]
    /\ Aside /\ UNCHANGED <<forge, queue, byHand, meddling>>

(* What follows is queue-update --status by a person. A stopped item, or  *)
(* that of an MR that was closed for a while, is judged again.           *)
RestartItem(m) ==
    /\ IsOpen(m) /\ m \in RefsOf(queue)
    /\ \/ ItemOf(queue, m).status = "stopped" /\ Meddle
       \/ ItemOf(queue, m).status = "closed" /\ UNCHANGED meddling
    /\ FreeOrders \/ ~JumpsQueue(m)
    /\ SetStatus(m, "pending")
    /\ Aside /\ UNCHANGED <<forge, targetCI, byHand>>

(* After a failed CI of its merge commit an item is set done: whether its *)
(* ticket was is nobody's question any more.                              *)
MarkDone(m) ==
    /\ forge[m].state = "merged" /\ m \in RefsOf(queue) /\ ItemOf(queue, m).status = "stopped"
    /\ SetStatus(m, "done")
    /\ byHand' = byHand \cup {m}
    /\ Aside /\ UNCHANGED <<forge, targetCI, meddling>>

(* The forge does not say which commit a merge made, a person does. *)
RecordByHand(m) ==
    /\ forge[m].state = "merged" /\ m \in RefsOf(queue) /\ ItemOf(queue, m).status = "pending"
    /\ ~ClosesAtOnce(m)
    /\ SetStatus(m, "merging")
    /\ Aside /\ UNCHANGED <<forge, targetCI, byHand, meddling>>

LiftHalt(m) ==
    /\ m \in RefsOf(queue) /\ ItemOf(queue, m).status = "halted"
    /\ SetStatus(m, "closed")
    /\ Aside /\ UNCHANGED <<forge, targetCI, byHand, meddling>>

Orders == {refs \in UNION {[1 .. n -> MRs] : n \in 1 .. LastMR} :
              IsInjective(refs) /\ \A m \in ToSet(refs) : forge[m].state # "unopened"}

People(m) ==
    \/ Open(m)
    \/ \E merge \in {"clear", "conflict"} : PushByHand(m, merge)
    \/ CIEnds(m) \/ CancelCI(m) \/ RetryCI(m)
    \/ Approve(m) \/ Undraft(m) \/ Redraft(m) \/ CloseByHand(m)
    \/ \E drift \in {"clear", "behind", "conflict"} : MergeByHand(m, drift) \/ Reopen(m, drift)
    \/ \E result \in {"success", "failed"} : TargetEnds(m, result)
    \/ TargetRestarts(m)
    \/ RestartItem(m) \/ MarkDone(m) \/ RecordByHand(m) \/ LiftHalt(m)

QueueNext ==
    \/ TickStep
    \/ Crash
    \/ \E refs \in Orders : OrderedTick(refs)
    \/ \E m \in MRs : People(m)

-----------------------------------------------------------------------------
(* A tick merges to the default branch only when the CI of everything a    *)
(* tick merged there before has ended, though ticks die between a merge    *)
(* and its record, and people merge, close and restart around them.        *)
MergesAreSpaced ==
    [][\A m \in byTick' \ byTick : target[m] = Default => \A n \in MRs : ~Awaited(n)]_queueVars

(* What a tick merges is a head whose CI was green: a push between the *)
(* verdict and the merge is not merged unjudged.                       *)
MergesWhatWasGreen == [][\A m \in byTick' \ byTick : forge[m].ci = "success"]_queueVars

(* As long as the queue has an item of an MR, ticks push no more fixes to   *)
(* it than the limit, and one for each tick that died before it counted its *)
(* push: stopping, closing, restarting and reordering items, and queues     *)
(* built anew, forget no rounds of the items they keep. An item that is not *)
(* kept, that of a draft or of an MR an order leaves out, takes its rounds  *)
(* with it.                                                                 *)
FixesBounded == \A m \in MRs : fixes[m] <= FixLimit + crashes

(* A done item is merged, and its ticket was seen to before, unless it was *)
(* a person who set it done, as they do after a failed CI of the merge.    *)
DoneMeansSeenTo ==
    \A m \in RefsOf(queue) : ItemOf(queue, m).status = "done" =>
        forge[m].state = "merged" /\ (ticket[m] = "seen" \/ m \in byHand)

QueueSpec == QueueInit /\ [][QueueNext]_queueVars

(* In the end every MR is merged, closed or stopped, and nothing waits in  *)
(* the queue.                                                              *)
Drained ==
    /\ \A k \in 1 .. Len(queue) : queue[k].status \in {"done", "closed", "stopped"}
    /\ \A m \in MRs : IsOpen(m) => m \in RefsOf(queue)
=============================================================================
