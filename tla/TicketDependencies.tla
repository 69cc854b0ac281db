--------------------------- MODULE TicketDependencies ---------------------------
(***************************************************************************)
(* The blocker relation between tickets, as concurrent database            *)
(* transactions read, check and rewrite it (services/ticket_dependencies,  *)
(* its callers in services/tickets and dashboard/scrum, and the backfill   *)
(* command).                                                               *)
(*                                                                         *)
(* A row <<t, b>> of "deps" says that ticket b blocks ticket t.  tickets   *)
(* and deps are the committed tables (READ COMMITTED).  Each element of    *)
(* Txn is a database session serving one request at a time: it goes        *)
(* through the awaits of set_blockers one step at a time, and what it has  *)
(* written so far (repl, ins, pend) is seen by nobody else until Commit.   *)
(*                                                                         *)
(*   repl[x]  tickets whose rows x has deleted in the open transaction     *)
(*   ins[x]   rows x has inserted                                          *)
(*   pend[x]  rows added to the ORM session and not flushed yet            *)
(*   lock[p]  holder of the advisory lock of project p                     *)
(*   row[t]   holder of the row lock an UPDATE of ticket t takes           *)
(***************************************************************************)
EXTENDS Reachability

CONSTANTS
    Ticket,         \* ids a ticket may have
    Project,
    Txn,            \* database sessions
    None,           \* nobody holds the lock
    projectOf,      \* the project of each ticket (it never changes)
    declared,       \* keys each ticket's prose declares as its blockers
    BlockerLists,   \* lists of blockers a caller may send, as sets
    Scopes          \* sets of tickets a backfill may consider

ASSUME ProjectAssumption  == projectOf \in [Ticket -> Project]
ASSUME DeclaredAssumption == declared \in [Ticket -> SUBSET Ticket]
ASSUME ListsAssumption    == BlockerLists \subseteq SUBSET Ticket
ASSUME ScopesAssumption   == Scopes \subseteq SUBSET Ticket
ASSUME NoneAssumption     == None \notin Txn

VARIABLES
    tickets, deps, lock, row,           \* the database
    pc, req, checked, repl, ins, pend,  \* each session's request
    known, seen, todo, refused          \* each session's backfill

dbVars   == <<tickets, deps>>
workVars == <<checked, repl, ins, pend>>
backfill == <<known, seen, todo, refused>>
vars     == <<dbVars, lock, row, pc, req, workVars, backfill>>

Edges   == Ticket \X Ticket
Updates == {"service", "labels", "dashboard"}
Request == [kind : Updates \cup {"create", "backfill"}, ticket : Ticket, blockers : SUBSET Ticket]
\* An idle session, and a backfill between two tickets.
NoRequest == [kind |-> "none"]
Step    == {"idle", "row", "lock", "flush", "exists", "cycle", "write", "commit", "scan"}

TypeOK ==
    /\ tickets \in SUBSET Ticket
    /\ deps \in SUBSET Edges
    /\ lock \in [Project -> Txn \cup {None}]
    /\ row \in [Ticket -> Txn \cup {None}]
    /\ pc \in [Txn -> Step]
    /\ req \in [Txn -> Request \cup {NoRequest}]
    /\ \A x \in Txn : pc[x] \notin {"idle", "scan"} => req[x] \in Request
    /\ checked \in [Txn -> SUBSET Ticket]
    /\ repl \in [Txn -> SUBSET Ticket]
    /\ ins \in [Txn -> SUBSET Edges]
    /\ pend \in [Txn -> SUBSET Edges]
    /\ known \in [Txn -> SUBSET Ticket]
    /\ seen \in [Txn -> SUBSET Edges]
    /\ todo \in [Txn -> SUBSET Ticket]
    /\ refused \in [Txn -> SUBSET Ticket]

-----------------------------------------------------------------------------
(* What a transaction sees, and what its commit would leave.               *)

RowsOf(t, B) == {t} \X B

\* The rows a statement of x reads: committed ones x has not replaced, and
\* the ones x has flushed.
View(x) == {e \in deps : e[1] \notin repl[x]} \cup ins[x]

\* The committed rows if x committed now.
Final(x) == View(x) \cup pend[x]

\* The ticket x has inserted and not committed.
Born(x) == IF pc[x] # "idle" /\ req[x].kind = "create" THEN {req[x].ticket} ELSE {}

SeenTickets(x) == tickets \cup Born(x)

\* (Bug to detect: blocker_id without a foreign key.)
NoKeyOnBlocker(x) == \A e \in pend[x] : e[1] \in SeenTickets(x)

\* A flush of x's pending rows satisfies both foreign keys.
ForeignKeysHold(x) == \A e \in pend[x] : {e[1], e[2]} \subseteq SeenTickets(x)

\* An UPDATE of the ticket row of x's request can be written.
RowIsFree(x) == row[req[x].ticket] \in {None, x}

-----------------------------------------------------------------------------
\* Tables with tickets and no blockers yet; every session idle.
Init ==
    /\ tickets \in SUBSET Ticket
    /\ deps = {}
    /\ lock = [p \in Project |-> None]
    /\ row = [t \in Ticket |-> None]
    /\ pc = [x \in Txn |-> "idle"]
    /\ req = [x \in Txn |-> NoRequest]
    /\ checked = [x \in Txn |-> {}]
    /\ repl = [x \in Txn |-> {}]
    /\ ins = [x \in Txn |-> {}]
    /\ pend = [x \in Txn |-> {}]
    /\ known = [x \in Txn |-> {}]
    /\ seen = [x \in Txn |-> {}]
    /\ todo = [x \in Txn |-> {}]
    /\ refused = [x \in Txn |-> {}]

Goto(x, step) == pc' = [pc EXCEPT ![x] = step]

\* (Bug to detect: an advisory lock of the session, kept after the commit.)
KeepAdvisoryLock(x) ==
    /\ row' = [t \in Ticket |-> IF row[t] = x THEN None ELSE row[t]]
    /\ UNCHANGED lock

\* PostgreSQL drops row locks and advisory locks with the transaction.
ReleaseLocks(x) ==
    /\ lock' = [p \in Project |-> IF lock[p] = x THEN None ELSE lock[p]]
    /\ row' = [t \in Ticket |-> IF row[t] = x THEN None ELSE row[t]]

\* The end of x's transaction, committed or rolled back: the session forgets
\* what it wrote.
EndTransaction(x) ==
    /\ ReleaseLocks(x)
    /\ pc' = [pc EXCEPT ![x] = "idle"]
    /\ req' = [req EXCEPT ![x] = NoRequest]
    /\ checked' = [checked EXCEPT ![x] = {}]
    /\ repl' = [repl EXCEPT ![x] = {}]
    /\ ins' = [ins EXCEPT ![x] = {}]
    /\ pend' = [pend EXCEPT ![x] = {}]
    /\ known' = [known EXCEPT ![x] = {}]
    /\ seen' = [seen EXCEPT ![x] = {}]
    /\ todo' = [todo EXCEPT ![x] = {}]
    /\ refused' = [refused EXCEPT ![x] = {}]

Rollback(x) == EndTransaction(x) /\ UNCHANGED dbVars

-----------------------------------------------------------------------------
(* Requests.                                                               *)

\* (Bug to detect: the request is not recorded with its step.)
StartUpdateBlindly(x, kind, t, B) ==
    /\ pc[x] = "idle"
    /\ t \in tickets
    /\ Goto(x, IF kind = "labels" THEN "row" ELSE "lock")
    /\ UNCHANGED <<dbVars, workVars, lock, row, req, backfill>>

\* update_ticket ("labels" when the call also replaces labels, whose DELETE
\* flushes the changed ticket before the advisory lock is asked for) and the
\* dashboard's edit form.
StartUpdate(x, kind, t, B) ==
    /\ pc[x] = "idle"
    /\ t \in tickets
    /\ req' = [req EXCEPT ![x] = [kind |-> kind, ticket |-> t, blockers |-> B]]
    /\ Goto(x, IF kind = "labels" THEN "row" ELSE "lock")
    /\ UNCHANGED <<dbVars, workVars, lock, row, backfill>>

\* A new id: no table row has it and no open request names it.
Fresh(t) ==
    /\ t \notin tickets
    /\ \A y \in Txn : /\ req[y] # NoRequest => t \notin {req[y].ticket} \cup req[y].blockers
                      /\ \A e \in ins[y] \cup pend[y] : t \notin {e[1], e[2]}

\* create_ticket inserts the ticket, then sets its blockers in the same
\* transaction; the service skips the call for an empty list.
StartCreate(x, t, B) ==
    /\ pc[x] = "idle"
    /\ Fresh(t)
    /\ t \notin B
    /\ req' = [req EXCEPT ![x] = [kind |-> "create", ticket |-> t, blockers |-> B]]
    /\ \/ Goto(x, "lock")
       \/ B = {} /\ Goto(x, "commit")
    /\ UNCHANGED <<dbVars, workVars, lock, row, backfill>>

\* The flush of the changed ticket row that precedes the DELETE of labels.
LockRow(x) ==
    /\ pc[x] = "row"
    /\ RowIsFree(x)
    /\ req[x].ticket \in tickets
    /\ row' = [row EXCEPT ![req[x].ticket] = x]
    /\ Goto(x, "lock")
    /\ UNCHANGED <<dbVars, workVars, lock, req, backfill>>

-----------------------------------------------------------------------------
(* set_blockers.                                                           *)

\* (Bug to detect: the check runs without the project's lock.)
AcquireNothing(x) ==
    /\ pc[x] = "lock"
    /\ Goto(x, "flush")
    /\ UNCHANGED <<dbVars, workVars, lock, row, req, backfill>>

\* pg_advisory_xact_lock: waits until the project's lock is free; a session
\* that holds it takes it again at once.
AcquireLock(x) ==
    /\ pc[x] = "lock"
    /\ LET p == projectOf[req[x].ticket]
       IN /\ lock[p] \in {None, x}
          /\ lock' = [lock EXCEPT ![p] = x]
    /\ Goto(x, "flush")
    /\ UNCHANGED <<dbVars, workVars, row, req, backfill>>

\* (Bug to detect: the old rows are deleted before the new list is checked.)
RefuseAfterDelete(x) ==
    \/ /\ req[x].kind # "backfill"
       /\ Rollback(x)
    \/ /\ req[x].kind = "backfill"
       /\ refused' = [refused EXCEPT ![x] = @ \cup {req[x].ticket}]
       /\ repl' = [repl EXCEPT ![x] = @ \cup {req[x].ticket}]
       /\ checked' = [checked EXCEPT ![x] = {}]
       /\ Goto(x, "scan")
       /\ UNCHANGED <<dbVars, lock, row, req, ins, pend, known, seen, todo>>

\* A ValueError: a single request is rolled back by its caller, the backfill
\* notes the error and goes on in the same transaction.
Refuse(x) ==
    \/ /\ req[x].kind # "backfill"
       /\ Rollback(x)
    \/ /\ req[x].kind = "backfill"
       /\ refused' = [refused EXCEPT ![x] = @ \cup {req[x].ticket}]
       /\ checked' = [checked EXCEPT ![x] = {}]
       /\ Goto(x, "scan")
       /\ UNCHANGED <<dbVars, lock, row, req, repl, ins, pend, known, seen, todo>>

RefuseSelf(x) ==
    /\ pc[x] = "flush"
    /\ req[x].ticket \in req[x].blockers
    /\ Refuse(x)

\* The autoflush in front of an ORM statement.  update_ticket has changed the
\* ticket's own columns by now, so its flush locks the row; the edit form
\* assigns them after set_blockers.
FlushTicket(x) ==
    IF req[x].kind \in {"service", "labels"}
      THEN /\ RowIsFree(x)
           /\ req[x].ticket \in tickets
           /\ row' = [row EXCEPT ![req[x].ticket] = x]
      ELSE UNCHANGED row

\* An empty list has no SELECT of the blockers.
FlushPending(x) ==
    /\ pc[x] = "flush"
    /\ req[x].ticket \notin req[x].blockers
    /\ \/ /\ req[x].blockers = {}
          /\ Goto(x, "write")
          /\ UNCHANGED <<row, ins, pend>>
       \/ /\ req[x].blockers # {}
          /\ ForeignKeysHold(x)
          /\ FlushTicket(x)
          /\ ins' = [ins EXCEPT ![x] = @ \cup pend[x]]
          /\ pend' = [pend EXCEPT ![x] = {}]
          /\ Goto(x, "exists")
    /\ UNCHANGED <<dbVars, lock, req, checked, repl, backfill>>

\* (Bug to detect: blockers of any project are accepted.)
AnyProject(x) == req[x].blockers \subseteq SeenTickets(x)

BlockersExist(x) ==
    \A b \in req[x].blockers : b \in SeenTickets(x) /\ projectOf[b] = projectOf[req[x].ticket]

CheckExists(x) ==
    /\ pc[x] = "exists"
    /\ \/ /\ ~BlockersExist(x)
          /\ Refuse(x)
       \/ /\ BlockersExist(x)
          /\ Goto(x, "cycle")
          /\ UNCHANGED <<dbVars, workVars, lock, row, req, backfill>>

\* (Bug to detect: the query does not see the rows of its own transaction.)
CheckCommitted(x, b) ==
    /\ pc[x] = "cycle"
    /\ b \in req[x].blockers \ checked[x]
    /\ \/ /\ req[x].ticket \in Reach(Ticket, deps, b)
          /\ Refuse(x)
       \/ /\ req[x].ticket \notin Reach(Ticket, deps, b)
          /\ checked' = [checked EXCEPT ![x] = @ \cup {b}]
          /\ Goto(x, IF checked'[x] = req[x].blockers THEN "write" ELSE "cycle")
          /\ UNCHANGED <<dbVars, lock, row, req, repl, ins, pend, backfill>>

\* The recursive query of _find_cycle_path, one blocker at a time, each on the
\* rows committed when it runs.
CheckBlocker(x, b) ==
    /\ pc[x] = "cycle"
    /\ b \in req[x].blockers \ checked[x]
    /\ \/ /\ req[x].ticket \in Reach(Ticket, View(x), b)
          /\ Refuse(x)
       \/ /\ req[x].ticket \notin Reach(Ticket, View(x), b)
          /\ checked' = [checked EXCEPT ![x] = @ \cup {b}]
          /\ Goto(x, IF checked'[x] = req[x].blockers THEN "write" ELSE "cycle")
          /\ UNCHANGED <<dbVars, lock, row, req, repl, ins, pend, backfill>>

\* DELETE of all rows of the ticket, behind its own autoflush; the new rows
\* wait in the session.
ReplaceRows(x) ==
    /\ pc[x] = "write"
    /\ FlushTicket(x)
    /\ ForeignKeysHold(x)
    /\ LET t == req[x].ticket
       IN /\ repl' = [repl EXCEPT ![x] = @ \cup {t}]
          /\ ins' = [ins EXCEPT ![x] = {e \in @ \cup pend[x] : e[1] # t}]
          /\ pend' = [pend EXCEPT ![x] = RowsOf(t, req[x].blockers)]
    /\ checked' = [checked EXCEPT ![x] = {}]
    /\ Goto(x, IF req[x].kind = "backfill" THEN "scan" ELSE "commit")
    /\ UNCHANGED <<dbVars, lock, req, backfill>>

Publish(x) ==
    /\ ForeignKeysHold(x)
    /\ tickets' = SeenTickets(x)
    /\ deps' = Final(x)
    /\ EndTransaction(x)

\* The caller's commit: its flush writes the changed ticket and the new rows.
Commit(x) ==
    /\ pc[x] = "commit"
    /\ req[x].kind \in Updates => RowIsFree(x) /\ req[x].ticket \in tickets
    /\ Publish(x)

-----------------------------------------------------------------------------
(* backfill_dependencies(apply=True).                                      *)

\* union_ids: the blockers loaded with the ticket and the declared ones.
Declared(T, t) == {b \in declared[t] \cap T : b # t /\ projectOf[b] = projectOf[t]}
Loaded(D, t)   == {b \in Ticket : <<t, b>> \in D}
Union(T, D, t) == Loaded(D, t) \cup Declared(T, t)

\* Tickets with something to propose; those outside "scope" are done or belong
\* to another project than the one asked for.
StartBackfill(x, scope) ==
    /\ pc[x] = "idle"
    /\ \E T \in {{t \in scope \cap tickets : ~(Declared(tickets, t) \subseteq Loaded(deps, t))}} :
          /\ T # {}
          /\ todo' = [todo EXCEPT ![x] = T]
    /\ known' = [known EXCEPT ![x] = tickets]
    /\ seen' = [seen EXCEPT ![x] = deps]
    /\ Goto(x, "scan")
    /\ UNCHANGED <<dbVars, workVars, lock, row, req, refused>>

CycleFound(x, t, B) == \E b \in B : t \in Reach(Ticket, View(x), b)

\* The check of the dry run comes first, without the lock and before pending
\* rows are flushed; then set_blockers.
NextTicket(x, t) ==
    /\ pc[x] = "scan"
    /\ t \in todo[x]
    /\ todo' = [todo EXCEPT ![x] = @ \ {t}]
    /\ LET B == Union(known[x], seen[x], t)
       IN \/ /\ CycleFound(x, t, B)
             /\ refused' = [refused EXCEPT ![x] = @ \cup {t}]
             /\ UNCHANGED <<pc, req>>
          \/ /\ ~CycleFound(x, t, B)
             /\ req' = [req EXCEPT ![x] = [kind |-> "backfill", ticket |-> t, blockers |-> B]]
             /\ Goto(x, "lock")
             /\ UNCHANGED refused
    /\ UNCHANGED <<dbVars, workVars, lock, row, known, seen>>

FinishBackfill(x) ==
    /\ pc[x] = "scan"
    /\ todo[x] = {}
    /\ Publish(x)

-----------------------------------------------------------------------------
(* The rest of the world.                                                  *)

\* A row of the open transaction x refers to t, or x has deleted one that
\* does: x holds a lock the DELETE of t waits for.
HoldsTicket(x, t) ==
    \/ row[t] = x
    \/ \E e \in ins[x] : t \in {e[1], e[2]}
    \/ \E e \in deps : e[1] \in repl[x] /\ t \in {e[1], e[2]}

\* delete_ticket: the foreign keys cascade to the rows of the ticket.
DeleteTicket(t) ==
    /\ t \in tickets
    /\ \A x \in Txn : ~HoldsTicket(x, t)
    /\ tickets' = tickets \ {t}
    /\ deps' = {e \in deps : t \notin {e[1], e[2]}}
    /\ UNCHANGED <<lock, row, pc, req, workVars, backfill>>

\* An IntegrityError or StaleDataError of a flush: a row x writes refers to a
\* ticket that was deleted meanwhile.
FlushFails(x) ==
    /\ \/ pc[x] \in {"flush", "write", "commit", "scan"} /\ ~ForeignKeysHold(x)
       \/ /\ pc[x] \in {"row", "flush", "write", "commit"}
          /\ req[x].kind \in Updates
          /\ req[x].ticket \notin tickets
    /\ Rollback(x)

\* The session x waits for.
WaitEdges ==
    {e \in Txn \X Txn : e[1] # e[2] /\
        \/ pc[e[1]] = "lock" /\ lock[projectOf[req[e[1]].ticket]] = e[2]
        \/ /\ \/ pc[e[1]] \in {"row", "commit"} /\ req[e[1]].kind \in Updates
              \/ pc[e[1]] \in {"flush", "write"} /\ req[e[1]].kind \in {"service", "labels"}
           /\ row[req[e[1]].ticket] = e[2]}

\* PostgreSQL aborts one of the transactions that wait for each other.
DeadlockVictim(x) ==
    /\ \E e \in WaitEdges : e[1] = x /\ x \in Reach(Txn, WaitEdges, e[2])
    /\ Rollback(x)

\* The worker dies or the client's connection drops.
Crash(x) ==
    /\ pc[x] # "idle"
    /\ Rollback(x)

\* The next step of the request x is serving.
Advance(x) ==
    \/ LockRow(x) \/ AcquireLock(x) \/ RefuseSelf(x) \/ FlushPending(x) \/ CheckExists(x)
    \/ \E b \in Ticket : CheckBlocker(x, b)
    \/ ReplaceRows(x) \/ Commit(x)
    \/ \E t \in Ticket : NextTicket(x, t)
    \/ FinishBackfill(x) \/ FlushFails(x) \/ DeadlockVictim(x)

Next ==
    \/ \E x \in Txn :
          \/ \E t \in Ticket, B \in BlockerLists :
                \/ \E kind \in Updates : StartUpdate(x, kind, t, B)
                \/ StartCreate(x, t, B)
          \/ \E scope \in Scopes : StartBackfill(x, scope)
          \/ Advance(x)
          \/ Crash(x)
    \/ \E t \in Ticket : DeleteTicket(t)

Spec == Init /\ [][Next]_vars

-----------------------------------------------------------------------------
(* Properties.                                                             *)

\* No ticket blocks itself through any chain of blockers: the cycle check of
\* each call and the per-project lock together, whatever the interleaving.
NoDependencyCycle == NoCycle(Ticket, deps)

\* Every row joins two existing tickets of one project, although the project
\* of the blockers is checked long before the rows are written and tickets
\* are deleted meanwhile.
RowsJoinProjectTickets ==
    \A e \in deps : {e[1], e[2]} \subseteq tickets /\ projectOf[e[1]] = projectOf[e[2]]

\* Every commit is one atomic replacement of one ticket's list that is valid
\* against the rows committed at that moment, not only against the older ones
\* its checks read; a backfill's commit is one valid rewrite of several.
Store == INSTANCE DependencyStore WITH Batches <- Scopes # {}
ImplementsStore == Store!Spec

\* A ticket whose proposal the backfill refused keeps its rows, while the
\* other proposals of the same transaction are saved.
RefusedTicketKeepsItsRows ==
    [][\A x \in Txn : FinishBackfill(x) =>
          \A t \in refused[x] :
             {e \in deps' : e[1] = t} = {e \in deps : e[1] = t}]_vars

\* What the dry run reports for a ticket on the rows the backfill loaded.
DryRunRefuses(x, t) ==
    \E b \in Union(known[x], seen[x], t) : t \in Reach(Ticket, seen[x], b)

\* The comment at ticket_dependencies.py:277-279: on the same data --apply
\* refuses no proposal that the dry run shows as good.
DryRunForetellsApply ==
    \A x \in Txn : known[x] = tickets /\ seen[x] = deps =>
                        \A t \in refused[x] : DryRunRefuses(x, t)

\* The backfill joins what prose declares to the blockers set by hand: its
\* commit removes no row (test_apply_unions_with_existing_manual_blocker).
BackfillOnlyAdds ==
    [][\A x \in Txn : FinishBackfill(x) => deps \subseteq deps']_vars

\* Fairness: a request that can take its next statement does.  It is strong,
\* because PostgreSQL serves the waiters of a lock in turn.
FairSpec == Spec /\ \A x \in Txn : SF_vars(Advance(x))

\* Every request ends, committed, refused or aborted, also when two of them
\* take the advisory lock and a ticket's row lock in opposite orders.
RequestEnds == \A x \in Txn : pc[x] # "idle" ~> pc[x] = "idle"

-----------------------------------------------------------------------------
(* The inductive invariants behind NoDependencyCycle,                      *)
(* RowsJoinProjectTickets, ImplementsStore and RefusedTicketKeepsItsRows.  *)

\* What a session writes, it writes under its project's lock.
LockInv ==
    \A x \in Txn :
       /\ pc[x] = "idle" => req[x] = NoRequest /\ repl[x] = {} /\ ins[x] = {} /\ pend[x] = {}
       /\ pc[x] = "scan" => req[x] = NoRequest \/ req[x].kind = "backfill"
       /\ pc[x] \in {"flush", "exists", "cycle", "write"} => lock[projectOf[req[x].ticket]] = x
       /\ \A t \in repl[x] : lock[projectOf[t]] = x
       /\ \A e \in ins[x] \cup pend[x] : e[1] \in repl[x]

\* Rows, committed or not, stay inside a project and name existing tickets.
RowInv ==
    /\ RowsJoinProjectTickets
    /\ \A x \in Txn :
          /\ \A e \in ins[x] \cup pend[x] : projectOf[e[1]] = projectOf[e[2]]
          /\ \A e \in ins[x] : {e[1], e[2]} \subseteq SeenTickets(x)
          /\ pc[x] \in {"cycle", "write"} =>
                \A b \in req[x].blockers : projectOf[b] = projectOf[req[x].ticket]
          /\ pc[x] \in {"exists", "cycle"} => pend[x] = {}
          /\ pc[x] = "write" /\ req[x].blockers # {} => pend[x] = {}

\* What the cycle check found about a blocker still holds when rows are
\* written: nobody else changes the project's rows, except to delete some.
CheckInv ==
    \A x \in Txn :
       /\ pc[x] \notin {"cycle", "write"} => checked[x] = {}
       /\ pc[x] \in {"cycle", "write"} => checked[x] \subseteq req[x].blockers
       /\ \A b \in checked[x] : req[x].ticket \notin Reach(Ticket, View(x), b)
       /\ pc[x] = "write" => req[x].blockers \subseteq checked[x]

\* The committed rows, and what each session would commit, have no cycle.
AcyclicInv ==
    /\ WellFounded(Ticket, deps)
    /\ \A x \in Txn : WellFounded(Ticket, Final(x))

\* A session serves a single request, not one ticket of a backfill.
Single(x) == pc[x] \notin {"idle", "scan"} /\ req[x].kind # "backfill"

\* Until it commits, a session that serves a single request has written
\* nothing; at its commit it replaces the rows of its own ticket.  The ticket
\* a session creates is in no table, and no other session creates it.
CommitInv ==
    \A x \in Txn :
       /\ Single(x) /\ pc[x] # "commit" => repl[x] = {} /\ ins[x] = {} /\ pend[x] = {}
       /\ pc[x] = "commit" =>
             /\ req[x].kind # "backfill" /\ ins[x] = {}
             /\ pend[x] = RowsOf(req[x].ticket, req[x].blockers)
             /\ repl[x] \subseteq {req[x].ticket}
             /\ req[x].kind \in Updates => repl[x] = {req[x].ticket}
       /\ pc[x] = "scan" \/ req[x].kind = "backfill" => Scopes # {}
       /\ req[x].kind = "create" =>
             /\ req[x].ticket \notin tickets \cup req[x].blockers
             /\ \A y \in Txn \ {x} : req[y].kind = "create" => req[y].ticket # req[x].ticket

\* A backfill writes the rows of no ticket it has refused, and tries no ticket
\* twice.
TriedInv ==
    \A x \in Txn :
       /\ refused[x] \cap repl[x] = {}
       /\ todo[x] \cap (refused[x] \cup repl[x]) = {}
       /\ pc[x] = "idle" \/ Single(x) => todo[x] = {} /\ refused[x] = {}
       /\ pc[x] \notin {"idle", "scan"} /\ req[x].kind = "backfill" =>
             req[x].ticket \notin todo[x] \cup refused[x] \cup repl[x]
=============================================================================
