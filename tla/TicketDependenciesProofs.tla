------------------------ MODULE TicketDependenciesProofs ------------------------
(***************************************************************************)
(* The blocker relation stays acyclic and inside its project for every     *)
(* set of tickets, projects, sessions and requests, and its transactions   *)
(* implement the store of DependencyStore.                                 *)
(***************************************************************************)
EXTENDS TicketDependencies, TLAPS

-----------------------------------------------------------------------------
(* Facts about graphs.                                                     *)

\* Reach(N, E, a) holds a, is closed under E, and is the least such set.
LEMMA ReachFacts ==
    ASSUME NEW N, NEW E \in SUBSET (N \X N), NEW a \in N
    PROVE  /\ a \in Reach(N, E, a)
           /\ ClosedUnder(E, Reach(N, E, a))
           /\ \A S \in SUBSET N : a \in S /\ ClosedUnder(E, S) => Reach(N, E, a) \subseteq S
  BY DEF Reach, ClosedUnder

\* With fewer edges among the nodes P, which no edge leaves, fewer nodes of P
\* are reached.
LEMMA ReachShrinks ==
    ASSUME NEW N, NEW E \in SUBSET (N \X N), NEW F \in SUBSET (N \X N),
           NEW P \in SUBSET N, NEW a \in P,
           \A e \in F : e[1] \in P => e \in E /\ e[2] \in P
    PROVE  Reach(N, F, a) \subseteq Reach(N, E, a)
<1> DEFINE S == Reach(N, E, a) \cap P
<1>1. a \in S /\ S \in SUBSET N
  BY ReachFacts DEF Reach
<1>2. ClosedUnder(F, S)
  BY ReachFacts DEF ClosedUnder
<1>3. Reach(N, F, a) \subseteq S
  BY <1>1, <1>2, ReachFacts
<1>4. QED BY <1>3

\* A graph with fewer edges stays well-founded.
LEMMA WellFoundedSubset ==
    ASSUME NEW N, NEW E, NEW F, F \subseteq E, WellFounded(N, E)
    PROVE  WellFounded(N, F)
  BY DEF WellFounded

\* Giving t a new list of successors, none of which leads back to t, keeps a
\* well-founded graph well-founded.
LEMMA ReplaceKeepsWellFounded ==
    ASSUME NEW N, NEW E \in SUBSET (N \X N), NEW F \in SUBSET (N \X N),
           NEW t \in N, NEW B \in SUBSET {b \in N : t \notin Reach(N, E, b)},
           WellFounded(N, E),
           F \subseteq {e \in E : e[1] # t} \cup ({t} \X B)
    PROVE  WellFounded(N, F)
<1> SUFFICES ASSUME NEW S \in SUBSET N, S # {}
             PROVE  \E m \in S : \A n \in S : <<m, n>> \notin F
  BY DEF WellFounded
<1> DEFINE R == {x \in N : \E b \in B : x \in Reach(N, E, b)}
<1>1. t \notin R /\ B \subseteq R
  BY ReachFacts
<1>2. \A e \in E : e[1] \in R => e[2] \in R
  BY ReachFacts DEF ClosedUnder
<1>3. CASE S \cap R # {}
  <2>1. PICK m \in S \cap R : \A n \in S \cap R : <<m, n>> \notin E
    BY <1>3 DEF WellFounded
  <2>2. ASSUME NEW n \in S, <<m, n>> \in F
        PROVE  FALSE
    <3>1. m # t
      BY <1>1, <2>1
    <3>2. <<m, n>> \in E
      BY <2>2, <3>1
    <3>3. n \in R
      BY <1>2, <2>1, <3>2
    <3>4. QED BY <2>1, <3>2, <3>3
  <2>3. QED BY <2>1, <2>2
<1>4. CASE S \cap R = {} /\ t \in S
  <2>1. ASSUME NEW n \in S, <<t, n>> \in F
        PROVE  FALSE
    BY <1>1, <1>4, <2>1
  <2>2. QED BY <1>4, <2>1
<1>5. CASE S \cap R = {} /\ t \notin S
  <2>1. PICK m \in S : \A n \in S : <<m, n>> \notin E
    BY DEF WellFounded
  <2>2. ASSUME NEW n \in S, <<m, n>> \in F
        PROVE  FALSE
    BY <1>5, <2>1, <2>2
  <2>3. QED BY <2>2
<1>6. QED BY <1>3, <1>4, <1>5

\* A well-founded graph has no cycle.
LEMMA WellFoundedNoCycle ==
    ASSUME NEW N, NEW E \in SUBSET (N \X N), WellFounded(N, E)
    PROVE  NoCycle(N, E)
<1> SUFFICES ASSUME NEW e \in E, e[1] \in Reach(N, E, e[2])
             PROVE  FALSE
  BY DEF NoCycle
<1> DEFINE S == {x \in Reach(N, E, e[2]) : e[1] \in Reach(N, E, x)}
<1>1. e[2] \in S /\ S \in SUBSET N /\ e[1] \in N /\ e[2] \in N
  BY ReachFacts DEF Reach
<1>2. PICK m \in S : \A n \in S : <<m, n>> \notin E
  BY <1>1 DEF WellFounded
<1>3. m # e[1]
  <2>1. SUFFICES ASSUME m = e[1] PROVE FALSE
    OBVIOUS
  <2>2. e = <<m, e[2]>>
    BY <2>1
  <2>3. QED BY <1>1, <1>2, <2>2
<1>4. ASSUME \A n \in N : <<m, n>> \in E => e[1] \notin Reach(N, E, n)
      PROVE  FALSE
  <2> DEFINE T == {x \in N : x = m \/ (\E n \in N : <<m, n>> \in E /\ x \in Reach(N, E, n))}
  <2>1. m \in T /\ T \in SUBSET N
    BY <1>1
  <2>2. ClosedUnder(E, T)
    <3> SUFFICES ASSUME NEW f \in E, f[1] \in T PROVE f[2] \in T
      BY DEF ClosedUnder
    <3>0. f = <<f[1], f[2]>> /\ f[1] \in N /\ f[2] \in N
      OBVIOUS
    <3>1. CASE f[1] = m
      BY <3>0, <3>1, ReachFacts
    <3>2. CASE f[1] # m
      <4>1. PICK n \in N : <<m, n>> \in E /\ f[1] \in Reach(N, E, n)
        BY <3>2
      <4>2. f[2] \in Reach(N, E, n)
        BY <4>1, ReachFacts DEF ClosedUnder
      <4>3. QED BY <3>0, <4>1, <4>2
    <3>3. QED BY <3>1, <3>2
  <2>3. Reach(N, E, m) \subseteq T
    BY <1>1, <2>1, <2>2, ReachFacts
  <2>4. e[1] \in T
    BY <1>2, <2>3
  <2>5. QED BY <1>3, <1>4, <2>4
<1>5. PICK n \in N : <<m, n>> \in E /\ e[1] \in Reach(N, E, n)
  BY <1>4
<1>6. n \in Reach(N, E, e[2])
  BY <1>1, <1>2, <1>5, ReachFacts DEF ClosedUnder
<1>7. n \in S
  BY <1>5, <1>6
<1>8. QED BY <1>2, <1>5, <1>7

-----------------------------------------------------------------------------
(* Types.                                                                  *)

USE DEF dbVars, workVars, backfill

\* A rollback or a commit leaves every session variable well typed.
LEMMA EndTransactionType ==
    ASSUME TypeOK, NEW x \in Txn, EndTransaction(x),
           tickets' \in SUBSET Ticket, deps' \in SUBSET Edges
    PROVE  TypeOK'
  BY NoneAssumption DEF TypeOK, EndTransaction, ReleaseLocks, Step

\* The variables keep their types in every state, whatever the constants.
THEOREM TypeCorrect == Spec => []TypeOK
<1>1. Init => TypeOK
  BY DEF Init, TypeOK, Step, Edges
<1>2. TypeOK /\ [Next]_vars => TypeOK'
  <2> SUFFICES ASSUME TypeOK, [Next]_vars PROVE TypeOK'
    OBVIOUS
  <2> USE ProjectAssumption, DeclaredAssumption, ListsAssumption, ScopesAssumption
  <2>0. ASSUME NEW x \in Txn, pc[x] \notin {"idle", "scan"}, Refuse(x) PROVE TypeOK'
    <3>1. CASE Rollback(x)
      BY <3>1, EndTransactionType DEF Rollback, TypeOK
    <3>2. CASE ~Rollback(x)
      <4>1. req[x] \in Request
        BY <2>0 DEF TypeOK
      <4>2. refused' \in [Txn -> SUBSET Ticket] /\ pc' \in [Txn -> Step]
        BY SMTT(30), <2>0, <3>2, <4>1 DEF Refuse, TypeOK, Goto, Step, Request
      <4>3. \A y \in Txn : pc'[y] \notin {"idle", "scan"} => pc'[y] = pc[y]
        BY <2>0, <3>2 DEF Refuse, TypeOK, Goto, Step
      <4>4. QED BY <2>0, <3>2, <4>2, <4>3 DEF Refuse, TypeOK
    <3>3. QED BY <3>1, <3>2
  <2>1. ASSUME NEW x \in Txn, NEW t \in Ticket, NEW B \in BlockerLists, NEW kind \in Updates,
               StartUpdate(x, kind, t, B)
        PROVE TypeOK'
    BY <2>1 DEF StartUpdate, TypeOK, Goto, Step, Request
  <2>2. ASSUME NEW x \in Txn, NEW t \in Ticket, NEW B \in BlockerLists, StartCreate(x, t, B)
        PROVE TypeOK'
    BY <2>2 DEF StartCreate, TypeOK, Goto, Step, Request
  <2>3. ASSUME NEW x \in Txn, NEW scope \in Scopes, StartBackfill(x, scope)
        PROVE TypeOK'
    BY <2>3 DEF StartBackfill, TypeOK, Goto, Step, Edges
  <2>4. ASSUME NEW x \in Txn, LockRow(x) PROVE TypeOK'
    BY <2>4 DEF LockRow, TypeOK, Goto, Step
  <2>5. ASSUME NEW x \in Txn, AcquireLock(x) PROVE TypeOK'
    BY <2>5 DEF AcquireLock, TypeOK, Goto, Step
  <2>6. ASSUME NEW x \in Txn, RefuseSelf(x) PROVE TypeOK'
    BY <2>0, <2>6 DEF RefuseSelf, TypeOK
  <2>7. ASSUME NEW x \in Txn, FlushPending(x) PROVE TypeOK'
    <3>1. req[x] \in Request /\ req[x].ticket \in Ticket
      BY <2>7 DEF FlushPending, TypeOK, Request
    <3>2. row' \in [Ticket -> Txn \cup {None}]
      BY SMTT(30), <2>7, <3>1 DEF FlushPending, FlushTicket, TypeOK
    <3>3. ins' \in [Txn -> SUBSET Edges] /\ pend' \in [Txn -> SUBSET Edges]
      <4>1. CASE UNCHANGED <<ins, pend>>
        BY <4>1 DEF TypeOK
      <4>2. CASE /\ ins' = [ins EXCEPT ![x] = @ \cup pend[x]]
                 /\ pend' = [pend EXCEPT ![x] = {}]
        BY <4>2 DEF TypeOK
      <4>3. QED BY <2>7, <4>1, <4>2 DEF FlushPending
    <3>4. pc' \in [Txn -> Step] /\ \A y \in Txn : y # x => pc'[y] = pc[y]
      BY <2>7 DEF FlushPending, TypeOK, Goto, Step
    <3>5. UNCHANGED <<dbVars, lock, req, checked, repl, backfill>>
      BY <2>7 DEF FlushPending
    <3>6. \A y \in Txn : pc'[y] \notin {"idle", "scan"} => req'[y] \in Request
      BY <3>1, <3>4, <3>5 DEF TypeOK
    <3>7. QED BY <3>2, <3>3, <3>4, <3>5, <3>6 DEF TypeOK
  <2>8. ASSUME NEW x \in Txn, CheckExists(x) PROVE TypeOK'
    <3>1. CASE Refuse(x)
      BY <2>0, <2>8, <3>1 DEF CheckExists
    <3>2. CASE ~Refuse(x)
      BY <2>8, <3>2 DEF CheckExists, TypeOK, Goto, Step
    <3>3. QED BY <3>1, <3>2
  <2>9. ASSUME NEW x \in Txn, NEW b \in Ticket, CheckBlocker(x, b) PROVE TypeOK'
    <3>1. CASE Refuse(x)
      BY <2>0, <2>9, <3>1 DEF CheckBlocker
    <3>2. CASE ~Refuse(x)
      BY <2>9, <3>2 DEF CheckBlocker, TypeOK, Goto, Step
    <3>3. QED BY <3>1, <3>2
  <2>10. ASSUME NEW x \in Txn, ReplaceRows(x) PROVE TypeOK'
    <3>1. req[x] \in Request
      BY <2>10 DEF ReplaceRows, TypeOK
    <3>2. RowsOf(req[x].ticket, req[x].blockers) \in SUBSET Edges
      BY <3>1 DEF RowsOf, Edges, Request
    <3>3. QED
      BY <2>10, <3>1, <3>2 DEF ReplaceRows, FlushTicket, TypeOK, Goto, Step, Request
  <2>11. ASSUME NEW x \in Txn, Publish(x) PROVE TypeOK'
    <3>1. tickets' \in SUBSET Ticket /\ deps' \in SUBSET Edges
      BY <2>11 DEF Publish, SeenTickets, Born, Final, View, TypeOK, Request, NoRequest
    <3>2. QED BY <2>11, <3>1, EndTransactionType DEF Publish
  <2>12. ASSUME NEW x \in Txn, NEW t \in Ticket, NextTicket(x, t) PROVE TypeOK'
    <3>1. Union(known[x], seen[x], t) \in SUBSET Ticket
      BY DEF Union, Loaded, Declared
    <3>2. QED BY SMTT(30), <2>12, <3>1 DEF NextTicket, TypeOK, Goto, Step, Request
  <2>13. ASSUME NEW x \in Txn, Rollback(x) PROVE TypeOK'
    BY <2>13, EndTransactionType DEF Rollback, TypeOK
  <2>14. ASSUME NEW t \in Ticket, DeleteTicket(t) PROVE TypeOK'
    BY <2>14 DEF DeleteTicket, TypeOK
  <2>15. CASE UNCHANGED vars
    BY <2>15 DEF vars, TypeOK
  <2>16. QED
    BY <2>1, <2>2, <2>3, <2>4, <2>5, <2>6, <2>7, <2>8, <2>9, <2>10, <2>11, <2>12, <2>13, <2>14, <2>15
    DEF Next, Advance, Commit, FinishBackfill, FlushFails, DeadlockVictim, Crash
<1>3. QED BY <1>1, <1>2, PTL DEF Spec

-----------------------------------------------------------------------------
(* Locks.                                                                  *)

\* A transaction that ends gives up its locks and nothing of the others'.
LEMMA EndTransactionLocks ==
    ASSUME TypeOK, LockInv, NEW x \in Txn, EndTransaction(x)
    PROVE  LockInv'
<1>1. /\ pc'[x] = "idle" /\ req'[x] = NoRequest
      /\ repl'[x] = {} /\ ins'[x] = {} /\ pend'[x] = {}
  BY DEF EndTransaction, ReleaseLocks, TypeOK
<1>2. ASSUME NEW y \in Txn, y # x
      PROVE  /\ pc'[y] = pc[y] /\ req'[y] = req[y] /\ repl'[y] = repl[y]
             /\ ins'[y] = ins[y] /\ pend'[y] = pend[y]
             /\ \A p \in Project : lock[p] = y => lock'[p] = y
  BY <1>2 DEF EndTransaction, ReleaseLocks, TypeOK
<1>3. \A y \in Txn : pc[y] \in {"flush", "exists", "cycle", "write"} =>
         projectOf[req[y].ticket] \in Project
  BY ProjectAssumption DEF TypeOK, Request
<1>4. \A t \in Ticket : projectOf[t] \in Project
  BY ProjectAssumption
<1>5. \A y \in Txn : repl[y] \subseteq Ticket
  BY DEF TypeOK
<1>6. ASSUME NEW y \in Txn
      PROVE  LockInv!(y)'
  <2>1. CASE y = x
    BY <1>1, <2>1
  <2>2. CASE y # x
    BY <1>2, <1>3, <1>4, <1>5, <2>2 DEF LockInv
  <2>3. QED BY <2>1, <2>2
<1>7. QED BY <1>6 DEF LockInv

\* Whatever a session has written, and whatever it is checking, it holds the
\* advisory lock of the project until its transaction ends.
THEOREM LocksHeld == Spec => []LockInv
<1>1. Init => LockInv
  BY DEF Init, LockInv
<1>2. TypeOK /\ TypeOK' /\ LockInv /\ [Next]_vars => LockInv'
  <2> SUFFICES ASSUME TypeOK, TypeOK', LockInv, [Next]_vars PROVE LockInv'
    OBVIOUS
  <2> USE ProjectAssumption
  <2>0. ASSUME NEW x \in Txn, pc[x] \notin {"idle", "scan"}, Refuse(x) PROVE LockInv'
    <3>1. CASE Rollback(x)
      BY <3>1, EndTransactionLocks DEF Rollback
    <3>2. CASE ~Rollback(x)
      BY <2>0, <3>2 DEF Refuse, LockInv, TypeOK, Goto
    <3>3. QED BY <3>1, <3>2
  <2>1. ASSUME NEW x \in Txn, NEW t \in Ticket, NEW B \in BlockerLists, NEW kind \in Updates,
               StartUpdate(x, kind, t, B)
        PROVE LockInv'
    BY <2>1 DEF StartUpdate, LockInv, TypeOK, Goto
  <2>2. ASSUME NEW x \in Txn, NEW t \in Ticket, NEW B \in BlockerLists, StartCreate(x, t, B)
        PROVE LockInv'
    BY <2>2 DEF StartCreate, LockInv, TypeOK, Goto
  <2>3. ASSUME NEW x \in Txn, NEW scope \in Scopes, StartBackfill(x, scope)
        PROVE LockInv'
    BY <2>3 DEF StartBackfill, LockInv, TypeOK, Goto
  <2>4. ASSUME NEW x \in Txn, LockRow(x) PROVE LockInv'
    BY <2>4 DEF LockRow, LockInv, TypeOK, Goto
  <2>5. ASSUME NEW x \in Txn, AcquireLock(x) PROVE LockInv'
    BY <2>5, NoneAssumption DEF AcquireLock, LockInv, TypeOK, Goto, Request
  <2>6. ASSUME NEW x \in Txn, RefuseSelf(x) PROVE LockInv'
    BY <2>0, <2>6 DEF RefuseSelf
  <2>7. ASSUME NEW x \in Txn, FlushPending(x) PROVE LockInv'
    BY <2>7 DEF FlushPending, LockInv, TypeOK, Goto
  <2>8. ASSUME NEW x \in Txn, CheckExists(x) PROVE LockInv'
    <3>1. CASE Refuse(x)
      BY <2>0, <2>8, <3>1 DEF CheckExists
    <3>2. CASE ~Refuse(x)
      BY <2>8, <3>2 DEF CheckExists, LockInv, TypeOK, Goto
    <3>3. QED BY <3>1, <3>2
  <2>9. ASSUME NEW x \in Txn, NEW b \in Ticket, CheckBlocker(x, b) PROVE LockInv'
    <3>1. CASE Refuse(x)
      BY <2>0, <2>9, <3>1 DEF CheckBlocker
    <3>2. CASE ~Refuse(x)
      BY <2>9, <3>2 DEF CheckBlocker, LockInv, TypeOK, Goto
    <3>3. QED BY <3>1, <3>2
  <2>10. ASSUME NEW x \in Txn, ReplaceRows(x) PROVE LockInv'
    BY <2>10 DEF ReplaceRows, LockInv, TypeOK, Goto, RowsOf
  <2>11. ASSUME NEW x \in Txn, Publish(x) PROVE LockInv'
    BY <2>11, EndTransactionLocks DEF Publish
  <2>12. ASSUME NEW x \in Txn, NEW t \in Ticket, NextTicket(x, t) PROVE LockInv'
    BY <2>12 DEF NextTicket, LockInv, TypeOK, Goto
  <2>13. ASSUME NEW x \in Txn, Rollback(x) PROVE LockInv'
    BY <2>13, EndTransactionLocks DEF Rollback
  <2>14. ASSUME NEW t \in Ticket, DeleteTicket(t) PROVE LockInv'
    BY <2>14 DEF DeleteTicket, LockInv
  <2>15. CASE UNCHANGED vars
    BY <2>15 DEF vars, LockInv
  <2>16. QED
    BY <2>1, <2>2, <2>3, <2>4, <2>5, <2>6, <2>7, <2>8, <2>9, <2>10, <2>11, <2>12, <2>13, <2>14, <2>15
    DEF Next, Advance, Commit, FinishBackfill, FlushFails, DeadlockVictim, Crash
<1>3. QED BY <1>1, <1>2, TypeCorrect, PTL DEF Spec

-----------------------------------------------------------------------------
(* Rows.                                                                   *)

\* A session other than x sees no change when x's transaction ends.
LEMMA EndTransactionOthers ==
    ASSUME TypeOK, NEW x \in Txn, EndTransaction(x)
    PROVE  /\ pc'[x] = "idle" /\ req'[x] = NoRequest /\ checked'[x] = {}
           /\ repl'[x] = {} /\ ins'[x] = {} /\ pend'[x] = {}
           /\ \A y \in Txn : y # x =>
                 /\ pc'[y] = pc[y] /\ req'[y] = req[y] /\ checked'[y] = checked[y]
                 /\ repl'[y] = repl[y] /\ ins'[y] = ins[y] /\ pend'[y] = pend[y]
  BY DEF EndTransaction, ReleaseLocks, TypeOK

\* A transaction that ends keeps RowInv if the tables still satisfy it and no
\* ticket is lost.
LEMMA EndTransactionRows ==
    ASSUME TypeOK, RowInv, NEW x \in Txn, EndTransaction(x),
           RowsJoinProjectTickets', tickets \subseteq tickets'
    PROVE  RowInv'
<1>1. ASSUME NEW y \in Txn, y # x, NEW e \in ins'[y]
      PROVE  {e[1], e[2]} \subseteq SeenTickets(y)'
  BY <1>1, EndTransactionOthers DEF RowInv, SeenTickets, Born
<1>2. \A e \in ins'[x] : {e[1], e[2]} \subseteq SeenTickets(x)'
  BY EndTransactionOthers
<1>3. QED BY <1>1, <1>2, EndTransactionOthers DEF RowInv

\* Every committed row joins two existing tickets of one project.
THEOREM RowsValid == Spec => []RowInv
<1>1. Init => RowInv
  BY DEF Init, RowInv, RowsJoinProjectTickets
<1>2. TypeOK /\ TypeOK' /\ LockInv /\ RowInv /\ [Next]_vars => RowInv'
  <2> SUFFICES ASSUME TypeOK, TypeOK', LockInv, RowInv, [Next]_vars PROVE RowInv'
    OBVIOUS
  <2> USE DEF RowsJoinProjectTickets
  <2>0. ASSUME NEW x \in Txn, pc[x] \notin {"idle", "scan"}, Refuse(x) PROVE RowInv'
    <3>1. CASE Rollback(x)
      BY <3>1, EndTransactionRows DEF Rollback, RowInv
    <3>2. CASE ~Rollback(x)
      BY <2>0, <3>2 DEF Refuse, RowInv, TypeOK, Goto, SeenTickets, Born
    <3>3. QED BY <3>1, <3>2
  <2>1. ASSUME NEW x \in Txn, NEW t \in Ticket, NEW B \in BlockerLists, NEW kind \in Updates,
               StartUpdate(x, kind, t, B)
        PROVE RowInv'
    BY <2>1 DEF StartUpdate, RowInv, LockInv, TypeOK, Goto, SeenTickets, Born, Updates
  <2>2. ASSUME NEW x \in Txn, NEW t \in Ticket, NEW B \in BlockerLists, StartCreate(x, t, B)
        PROVE RowInv'
    BY SMTT(30), <2>2 DEF StartCreate, RowInv, LockInv, TypeOK, Goto, SeenTickets, Born
  <2>3. ASSUME NEW x \in Txn, NEW scope \in Scopes, StartBackfill(x, scope)
        PROVE RowInv'
    BY <2>3 DEF StartBackfill, RowInv, LockInv, TypeOK, Goto, SeenTickets, Born
  <2>4. ASSUME NEW x \in Txn, LockRow(x) PROVE RowInv'
    BY <2>4 DEF LockRow, RowInv, TypeOK, Goto, SeenTickets, Born
  <2>5. ASSUME NEW x \in Txn, AcquireLock(x) PROVE RowInv'
    BY <2>5 DEF AcquireLock, RowInv, TypeOK, Goto, SeenTickets, Born
  <2>6. ASSUME NEW x \in Txn, RefuseSelf(x) PROVE RowInv'
    BY <2>0, <2>6 DEF RefuseSelf
  <2>7. ASSUME NEW x \in Txn, FlushPending(x) PROVE RowInv'
    BY <2>7 DEF FlushPending, RowInv, TypeOK, Goto, SeenTickets, Born, ForeignKeysHold
  <2>8. ASSUME NEW x \in Txn, CheckExists(x) PROVE RowInv'
    <3>1. CASE Refuse(x)
      BY <2>0, <2>8, <3>1 DEF CheckExists
    <3>2. CASE ~Refuse(x)
      BY <2>8, <3>2 DEF CheckExists, BlockersExist, RowInv, TypeOK, Goto, SeenTickets, Born
    <3>3. QED BY <3>1, <3>2
  <2>9. ASSUME NEW x \in Txn, NEW b \in Ticket, CheckBlocker(x, b) PROVE RowInv'
    <3>1. CASE Refuse(x)
      BY <2>0, <2>9, <3>1 DEF CheckBlocker
    <3>2. CASE ~Refuse(x)
      BY <2>9, <3>2 DEF CheckBlocker, RowInv, TypeOK, Goto, SeenTickets, Born
    <3>3. QED BY <3>1, <3>2
  <2>10. ASSUME NEW x \in Txn, ReplaceRows(x) PROVE RowInv'
    <3>1. \A e \in RowsOf(req[x].ticket, req[x].blockers) : projectOf[e[1]] = projectOf[e[2]]
      BY <2>10 DEF ReplaceRows, RowInv, RowsOf
    <3>2. QED
      BY <2>10, <3>1 DEF ReplaceRows, RowInv, TypeOK, Goto, SeenTickets, Born, ForeignKeysHold
  <2>11. ASSUME NEW x \in Txn, Publish(x) PROVE RowInv'
    <3>1. RowsJoinProjectTickets' /\ tickets \subseteq tickets'
      BY <2>11 DEF Publish, RowInv, SeenTickets, ForeignKeysHold, Final, View
    <3>2. QED BY <2>11, <3>1, EndTransactionRows DEF Publish
  <2>12. ASSUME NEW x \in Txn, NEW t \in Ticket, NextTicket(x, t) PROVE RowInv'
    BY SMTT(30), <2>12 DEF NextTicket, RowInv, LockInv, TypeOK, Goto, SeenTickets, Born, NoRequest
  <2>13. ASSUME NEW x \in Txn, Rollback(x) PROVE RowInv'
    BY <2>13, EndTransactionRows DEF Rollback, RowInv
  <2>14. ASSUME NEW t \in Ticket, DeleteTicket(t) PROVE RowInv'
    BY <2>14 DEF DeleteTicket, HoldsTicket, RowInv, SeenTickets, Born
  <2>15. CASE UNCHANGED vars
    BY <2>15 DEF vars, RowInv, SeenTickets, Born
  <2>16. QED
    BY <2>1, <2>2, <2>3, <2>4, <2>5, <2>6, <2>7, <2>8, <2>9, <2>10, <2>11, <2>12, <2>13, <2>14, <2>15
    DEF Next, Advance, Commit, FinishBackfill, FlushFails, DeadlockVictim, Crash
<1>3. QED BY <1>1, <1>2, TypeCorrect, LocksHeld, PTL DEF Spec

-----------------------------------------------------------------------------
(* Checks.                                                                 *)

\* The rows of a session's view stay inside their projects.
LEMMA ViewRows ==
    ASSUME TypeOK, RowInv, NEW y \in Txn
    PROVE  /\ View(y) \in SUBSET (Ticket \X Ticket)
           /\ Final(y) \in SUBSET (Ticket \X Ticket)
           /\ \A e \in Final(y) : projectOf[e[1]] = projectOf[e[2]]
  BY DEF View, Final, TypeOK, RowInv, RowsJoinProjectTickets, Edges

\* What y found about a blocker still holds if y's view of the project has at
\* most lost rows.
LEMMA CheckStillHolds ==
    ASSUME TypeOK, TypeOK', RowInv, RowInv', CheckInv, NEW y \in Txn,
           pc[y] \in {"cycle", "write"}, NEW b \in checked[y],
           \A e \in View(y)' : projectOf[e[1]] = projectOf[req[y].ticket] => e \in View(y)
    PROVE  req[y].ticket \notin Reach(Ticket, View(y)', b)
<1> DEFINE P == {t \in Ticket : projectOf[t] = projectOf[req[y].ticket]}
<1>1. b \in P /\ P \in SUBSET Ticket
  BY DEF CheckInv, RowInv, TypeOK
<1>2. View(y) \in SUBSET (Ticket \X Ticket)
  BY ViewRows
<1>3. /\ View(y)' \in SUBSET (Ticket \X Ticket)
      /\ \A e \in View(y)' : projectOf[e[1]] = projectOf[e[2]]
  BY DEF View, TypeOK, RowInv, RowsJoinProjectTickets, Edges
<1>4. \A e \in View(y)' : e[1] \in P => e \in View(y) /\ e[2] \in P
  BY <1>3
<1>5. Reach(Ticket, View(y)', b) \subseteq Reach(Ticket, View(y), b)
  <2> HIDE DEF P
  <2> QED BY <1>1, <1>2, <1>3, <1>4, ReachShrinks
<1>6. QED BY <1>5 DEF CheckInv

\* The rows x would publish in a project whose lock another session holds are
\* committed already.
LEMMA LockedProject ==
    ASSUME TypeOK, LockInv, NEW x \in Txn, NEW y \in Txn, x # y,
           NEW e \in Final(x), lock[projectOf[e[1]]] = y
    PROVE  e \in deps
  BY DEF LockInv, Final, View

\* A check a session has made stays valid until the session writes the rows.
THEOREM ChecksHold == Spec => []CheckInv
<1>1. Init => CheckInv
  BY DEF Init, CheckInv
<1>2. TypeOK /\ TypeOK' /\ LockInv /\ RowInv /\ RowInv' /\ CheckInv /\ [Next]_vars => CheckInv'
  <2> SUFFICES ASSUME TypeOK, TypeOK', LockInv, RowInv, RowInv', CheckInv, [Next]_vars
               PROVE  CheckInv'
    OBVIOUS
  <2>a. ASSUME NEW x \in Txn, EndTransaction(x), UNCHANGED deps \/ deps' = Final(x)
        PROVE  CheckInv'
    <3>1. ASSUME NEW y \in Txn, y # x, pc[y] \in {"cycle", "write"}, NEW b \in checked[y]
          PROVE  req[y].ticket \notin Reach(Ticket, View(y)', b)
      <4>1. repl'[y] = repl[y] /\ ins'[y] = ins[y]
        BY <2>a, <3>1, EndTransactionOthers
      <4>2. lock[projectOf[req[y].ticket]] = y
        BY <3>1 DEF LockInv
      <4>3. ASSUME NEW e \in View(y)', projectOf[e[1]] = projectOf[req[y].ticket]
            PROVE  e \in View(y)
        <5>1. CASE e \in ins[y]
          BY <5>1 DEF View
        <5>2. CASE e \in deps' /\ e[1] \notin repl[y]
          BY <2>a, <3>1, <4>2, <4>3, <5>2, LockedProject DEF View
        <5>3. QED BY <4>1, <5>1, <5>2 DEF View
      <4>4. QED BY <3>1, <4>3, CheckStillHolds
    <3>2. ASSUME NEW y \in Txn PROVE CheckInv!(y)'
      <4>1. CASE y = x
        BY <2>a, <4>1, EndTransactionOthers
      <4>2. CASE y # x
        BY <2>a, <3>1, <4>2, EndTransactionOthers DEF CheckInv
      <4>3. QED BY <4>1, <4>2
    <3>3. QED BY <3>2 DEF CheckInv
  <2>0. ASSUME NEW x \in Txn, pc[x] \notin {"idle", "scan"}, Refuse(x) PROVE CheckInv'
    <3>1. CASE Rollback(x)
      BY <2>a, <3>1 DEF Rollback
    <3>2. CASE ~Rollback(x)
      BY <2>0, <3>2 DEF Refuse, CheckInv, TypeOK, Goto, View
    <3>3. QED BY <3>1, <3>2
  <2>1. ASSUME NEW x \in Txn, NEW t \in Ticket, NEW B \in BlockerLists, NEW kind \in Updates,
               StartUpdate(x, kind, t, B)
        PROVE CheckInv'
    BY <2>1 DEF StartUpdate, CheckInv, TypeOK, Goto, View
  <2>2. ASSUME NEW x \in Txn, NEW t \in Ticket, NEW B \in BlockerLists, StartCreate(x, t, B)
        PROVE CheckInv'
    BY <2>2 DEF StartCreate, CheckInv, TypeOK, Goto, View
  <2>3. ASSUME NEW x \in Txn, NEW scope \in Scopes, StartBackfill(x, scope)
        PROVE CheckInv'
    BY <2>3 DEF StartBackfill, CheckInv, TypeOK, Goto, View
  <2>4. ASSUME NEW x \in Txn, LockRow(x) PROVE CheckInv'
    BY <2>4 DEF LockRow, CheckInv, TypeOK, Goto, View
  <2>5. ASSUME NEW x \in Txn, AcquireLock(x) PROVE CheckInv'
    BY <2>5 DEF AcquireLock, CheckInv, TypeOK, Goto, View
  <2>6. ASSUME NEW x \in Txn, RefuseSelf(x) PROVE CheckInv'
    BY <2>0, <2>6 DEF RefuseSelf
  <2>7. ASSUME NEW x \in Txn, FlushPending(x) PROVE CheckInv'
    BY <2>7 DEF FlushPending, CheckInv, TypeOK, Goto, View
  <2>8. ASSUME NEW x \in Txn, CheckExists(x) PROVE CheckInv'
    <3>1. CASE Refuse(x)
      BY <2>0, <2>8, <3>1 DEF CheckExists
    <3>2. CASE ~Refuse(x)
      BY <2>8, <3>2 DEF CheckExists, CheckInv, TypeOK, Goto, View
    <3>3. QED BY <3>1, <3>2
  <2>9. ASSUME NEW x \in Txn, NEW b \in Ticket, CheckBlocker(x, b) PROVE CheckInv'
    <3>1. CASE Refuse(x)
      BY <2>0, <2>9, <3>1 DEF CheckBlocker
    <3>2. CASE ~Refuse(x)
      <4>1. /\ pc[x] = "cycle" /\ b \in req[x].blockers
            /\ req[x].ticket \notin Reach(Ticket, View(x), b)
            /\ checked'[x] = checked[x] \cup {b}
            /\ pc'[x] = IF checked'[x] = req[x].blockers THEN "write" ELSE "cycle"
            /\ req' = req
            /\ \A y \in Txn : y # x => pc'[y] = pc[y] /\ checked'[y] = checked[y]
        BY <2>9, <3>2 DEF CheckBlocker, TypeOK, Goto
      <4>2. \A y \in Txn : View(y)' = View(y)
        BY <2>9, <3>2 DEF CheckBlocker, View
      <4>3. ASSUME NEW y \in Txn PROVE CheckInv!(y)'
        <5>1. CASE y = x
          BY <4>1, <4>2, <5>1 DEF CheckInv
        <5>2. CASE y # x
          BY <4>1, <4>2, <5>2 DEF CheckInv
        <5>3. QED BY <5>1, <5>2
      <4>4. QED BY <4>3 DEF CheckInv
    <3>3. QED BY <3>1, <3>2
  <2>10. ASSUME NEW x \in Txn, ReplaceRows(x) PROVE CheckInv'
    BY <2>10 DEF ReplaceRows, CheckInv, TypeOK, Goto, View
  <2>11. ASSUME NEW x \in Txn, Publish(x) PROVE CheckInv'
    BY <2>a, <2>11 DEF Publish
  <2>12. ASSUME NEW x \in Txn, NEW t \in Ticket, NextTicket(x, t) PROVE CheckInv'
    BY <2>12 DEF NextTicket, CheckInv, TypeOK, Goto, View
  <2>13. ASSUME NEW x \in Txn, Rollback(x) PROVE CheckInv'
    BY <2>a, <2>13 DEF Rollback
  <2>14. ASSUME NEW t \in Ticket, DeleteTicket(t) PROVE CheckInv'
    <3>1. \A y \in Txn : View(y)' \subseteq View(y)
      BY <2>14 DEF DeleteTicket, View
    <3>2. ASSUME NEW y \in Txn, NEW b \in checked[y]
          PROVE  req[y].ticket \notin Reach(Ticket, View(y)', b)
      BY <3>1, <3>2, CheckStillHolds DEF CheckInv
    <3>3. QED BY <2>14, <3>2 DEF DeleteTicket, CheckInv
  <2>15. CASE UNCHANGED vars
    BY <2>15 DEF vars, CheckInv, View
  <2>16. QED
    BY <2>1, <2>2, <2>3, <2>4, <2>5, <2>6, <2>7, <2>8, <2>9, <2>10, <2>11, <2>12, <2>13, <2>14, <2>15
    DEF Next, Advance, Commit, FinishBackfill, FlushFails, DeadlockVictim, Crash
<1>3. QED BY <1>1, <1>2, TypeCorrect, LocksHeld, RowsValid, PTL DEF Spec

-----------------------------------------------------------------------------
(* Cycles.                                                                 *)

\* A graph whose edges stay inside projects, and agree in each project with
\* one of two well-founded graphs, is well-founded.
LEMMA ProjectWise ==
    ASSUME NEW E \in SUBSET (Ticket \X Ticket), NEW F \in SUBSET (Ticket \X Ticket),
           NEW G \in SUBSET (Ticket \X Ticket),
           WellFounded(Ticket, E), WellFounded(Ticket, F),
           \A e \in G : projectOf[e[1]] = projectOf[e[2]],
           \A p \in Project : \/ \A e \in G : projectOf[e[1]] = p => e \in E
                              \/ \A e \in G : projectOf[e[1]] = p => e \in F
    PROVE  WellFounded(Ticket, G)
<1> SUFFICES ASSUME NEW S \in SUBSET Ticket, NEW s \in S
             PROVE  \E m \in S : \A n \in S : <<m, n>> \notin G
  BY DEF WellFounded
<1> DEFINE p == projectOf[s]
           R == {t \in S : projectOf[t] = p}
<1>1. p \in Project /\ s \in R /\ R \in SUBSET Ticket
  BY ProjectAssumption
<1>2. PICK H \in {E, F} : WellFounded(Ticket, H) /\ \A e \in G : projectOf[e[1]] = p => e \in H
  BY <1>1
<1>3. PICK m \in R : \A n \in R : <<m, n>> \notin H
  BY <1>1, <1>2 DEF WellFounded
<1>4. ASSUME NEW n \in S, <<m, n>> \in G PROVE FALSE
  BY <1>2, <1>3, <1>4
<1>5. QED BY <1>3, <1>4

\* A transaction that commits leaves no cycle, also in what the others would
\* commit after it.
LEMMA PublishAcyclic ==
    ASSUME TypeOK, TypeOK', LockInv, RowInv, RowInv', AcyclicInv, NEW x \in Txn, Publish(x)
    PROVE  AcyclicInv'
<1>1. WellFounded(Ticket, deps')
  BY DEF Publish, AcyclicInv
<1>2. ASSUME NEW y \in Txn, y # x PROVE WellFounded(Ticket, Final(y)')
  <2>1. /\ repl'[y] = repl[y] /\ ins'[y] = ins[y] /\ pend'[y] = pend[y]
        /\ deps' = Final(x)
    BY <1>2, EndTransactionOthers DEF Publish
  <2>2. Final(y)' = {e \in Final(x) : e[1] \notin repl[y]} \cup ins[y] \cup pend[y]
    BY <2>1 DEF Final, View
  <2>3. ASSUME NEW p \in Project, lock[p] = y, NEW e \in Final(y)', projectOf[e[1]] = p
        PROVE  e \in Final(y)
    BY <1>2, <2>2, <2>3, LockedProject DEF Final, View
  <2>4. ASSUME NEW p \in Project, lock[p] # y, NEW e \in Final(y)', projectOf[e[1]] = p
        PROVE  e \in Final(x)
    BY <2>2, <2>4 DEF LockInv
  <2>5. /\ Final(y)' \in SUBSET (Ticket \X Ticket)
        /\ \A e \in Final(y)' : projectOf[e[1]] = projectOf[e[2]]
    BY DEF Final, View, TypeOK, RowInv, RowsJoinProjectTickets, Edges
  <2>6. WellFounded(Ticket, Final(x)) /\ WellFounded(Ticket, Final(y))
    BY DEF AcyclicInv
  <2>7. /\ Final(x) \in SUBSET (Ticket \X Ticket)
        /\ Final(y) \in SUBSET (Ticket \X Ticket)
    BY ViewRows
  <2>8. \A p \in Project : \/ \A e \in Final(y)' : projectOf[e[1]] = p => e \in Final(y)
                           \/ \A e \in Final(y)' : projectOf[e[1]] = p => e \in Final(x)
    BY <2>3, <2>4
  <2>9. QED BY <2>5, <2>6, <2>7, <2>8, ProjectWise
<1>3. Final(x)' = deps'
  BY EndTransactionOthers DEF Publish, Final, View
<1>4. QED BY <1>1, <1>2, <1>3 DEF AcyclicInv

\* Replacing the rows of a ticket that no new blocker depends on closes no
\* cycle in what the session would commit.
LEMMA ReplaceRowsAcyclic ==
    ASSUME TypeOK, TypeOK', RowInv, CheckInv, AcyclicInv, NEW x \in Txn, ReplaceRows(x)
    PROVE  AcyclicInv'
<1> DEFINE t == req[x].ticket
           B == req[x].blockers
<1>1. /\ pc[x] = "write" /\ t \in Ticket /\ B \in SUBSET Ticket
      /\ repl'[x] = repl[x] \cup {t}
      /\ ins'[x] = {e \in ins[x] \cup pend[x] : e[1] # t}
      /\ pend'[x] = RowsOf(t, B)
      /\ deps' = deps
      /\ \A y \in Txn : y # x => repl'[y] = repl[y] /\ ins'[y] = ins[y] /\ pend'[y] = pend[y]
  BY DEF ReplaceRows, TypeOK, Request
<1>2. \A y \in Txn : y # x => Final(y)' = Final(y)
  BY <1>1 DEF Final, View
<1>3. \A b \in B : t \notin Reach(Ticket, Final(x), b)
  <2>1. ASSUME NEW b \in B PROVE View(x) = Final(x)
    BY <1>1, <2>1 DEF RowInv, Final
  <2>2. QED BY <1>1, <2>1 DEF CheckInv
<1>4. Final(x)' \subseteq {e \in Final(x) : e[1] # t} \cup ({t} \X B)
  BY <1>1 DEF Final, View, RowsOf
<1>5. WellFounded(Ticket, Final(x)')
  <2> DEFINE E == Final(x)
             F == Final(x)'
  <2>1. F \in SUBSET (Ticket \X Ticket)
    BY DEF Final, View, TypeOK, Edges
  <2>2. WellFounded(Ticket, E) /\ E \in SUBSET (Ticket \X Ticket)
    BY ViewRows DEF AcyclicInv
  <2>3. F \subseteq {e \in E : e[1] # t} \cup ({t} \X B)
    BY <1>4
  <2>4. t \in Ticket /\ B \in SUBSET {b \in Ticket : t \notin Reach(Ticket, E, b)}
    BY <1>1, <1>3
  <2> HIDE DEF t, B, E, F
  <2>5. WellFounded(Ticket, F)
    BY <2>1, <2>2, <2>3, <2>4, ReplaceKeepsWellFounded
  <2>6. QED BY <2>5 DEF F
<1>6. QED BY <1>1, <1>2, <1>5 DEF AcyclicInv

\* The committed rows, and what any session would commit, have no cycle.
THEOREM Acyclic == Spec => []AcyclicInv
<1>1. Init => AcyclicInv
  BY DEF Init, AcyclicInv, WellFounded, Final, View
<1>2. /\ TypeOK /\ TypeOK' /\ LockInv /\ RowInv /\ RowInv' /\ CheckInv
      /\ AcyclicInv /\ [Next]_vars
      => AcyclicInv'
  <2> SUFFICES ASSUME TypeOK, TypeOK', LockInv, RowInv, RowInv', CheckInv, AcyclicInv, [Next]_vars
               PROVE  AcyclicInv'
    OBVIOUS
  <2>a. ASSUME UNCHANGED <<deps, repl, ins, pend>> PROVE AcyclicInv'
    BY <2>a DEF AcyclicInv, Final, View
  <2>b. ASSUME NEW x \in Txn, Rollback(x) PROVE AcyclicInv'
    <3>1. Final(x)' = deps' /\ deps' = deps
      BY <2>b, EndTransactionOthers DEF Rollback, Final, View
    <3>2. \A y \in Txn : y # x => Final(y)' = Final(y)
      BY <2>b, EndTransactionOthers DEF Rollback, Final, View
    <3>3. QED BY <3>1, <3>2 DEF AcyclicInv
  <2>c. ASSUME NEW x \in Txn, Refuse(x) PROVE AcyclicInv'
    BY <2>a, <2>b, <2>c DEF Refuse
  <2>1. ASSUME NEW x \in Txn, FlushPending(x) PROVE AcyclicInv'
    <3>1. \A y \in Txn : Final(y)' = Final(y)
      BY <2>1 DEF FlushPending, Final, View, TypeOK
    <3>2. QED BY <2>1, <3>1 DEF FlushPending, AcyclicInv
  <2>2. ASSUME NEW x \in Txn, NEW b \in Ticket, CheckBlocker(x, b) PROVE AcyclicInv'
    BY <2>2, <2>a, <2>c DEF CheckBlocker
  <2>3. ASSUME NEW x \in Txn, ReplaceRows(x) PROVE AcyclicInv'
    BY <2>3, ReplaceRowsAcyclic
  <2>4. ASSUME NEW x \in Txn, Publish(x) PROVE AcyclicInv'
    BY <2>4, PublishAcyclic
  <2>5. ASSUME NEW t \in Ticket, DeleteTicket(t) PROVE AcyclicInv'
    <3>1. deps' \subseteq deps /\ \A y \in Txn : Final(y)' \subseteq Final(y)
      BY <2>5 DEF DeleteTicket, Final, View
    <3>2. QED BY <3>1, WellFoundedSubset DEF AcyclicInv
  <2>6. ASSUME NEW x \in Txn, NEW t \in Ticket, NEW B \in BlockerLists, NEW kind \in Updates,
               StartUpdate(x, kind, t, B) \/ StartCreate(x, t, B)
        PROVE AcyclicInv'
    BY <2>6, <2>a DEF StartUpdate, StartCreate
  <2>7. ASSUME NEW x \in Txn,
               RefuseSelf(x) \/ CheckExists(x) \/ LockRow(x) \/ AcquireLock(x)
        PROVE AcyclicInv'
    BY <2>7, <2>a, <2>c DEF CheckExists, RefuseSelf, LockRow, AcquireLock
  <2>8. ASSUME NEW x \in Txn, NEW t \in Ticket, NextTicket(x, t) PROVE AcyclicInv'
    BY <2>8, <2>a DEF NextTicket
  <2>9. ASSUME NEW x \in Txn, NEW scope \in Scopes, StartBackfill(x, scope) PROVE AcyclicInv'
    BY <2>9, <2>a DEF StartBackfill
  <2>10. ASSUME NEW x \in Txn, Advance(x) PROVE AcyclicInv'
    BY <2>b, <2>1, <2>2, <2>3, <2>4, <2>7, <2>8, <2>10
    DEF Advance, Commit, FinishBackfill, FlushFails, DeadlockVictim
  <2>11. CASE UNCHANGED vars
    BY <2>11, <2>a DEF vars
  <2>12. QED
    BY <2>b, <2>5, <2>6, <2>9, <2>10, <2>11 DEF Next, Crash, Updates
<1>3. QED BY <1>1, <1>2, TypeCorrect, LocksHeld, RowsValid, ChecksHold, PTL DEF Spec

\* No interleaving of requests, backfills and deletions ever leaves a ticket
\* that blocks itself through a chain of blockers.
THEOREM DependenciesAcyclic == Spec => []NoDependencyCycle
<1>1. TypeOK /\ AcyclicInv => NoDependencyCycle
  BY WellFoundedNoCycle DEF TypeOK, AcyclicInv, NoDependencyCycle, Edges
<1>2. QED BY <1>1, TypeCorrect, Acyclic, PTL

\* Every committed row joins two existing tickets of one project.
THEOREM DependenciesInProject == Spec => []RowsJoinProjectTickets
<1>1. RowInv => RowsJoinProjectTickets
  BY DEF RowInv
<1>2. QED BY <1>1, RowsValid, PTL
-----------------------------------------------------------------------------
(* What a commit publishes.                                                *)

\* A transaction that ends keeps CommitInv if the tickets it leaves are
\* committed ones or the one it has created itself.
LEMMA EndTransactionCommits ==
    ASSUME TypeOK, LockInv, CommitInv, NEW x \in Txn, EndTransaction(x),
           tickets' \subseteq SeenTickets(x)
    PROVE  CommitInv'
<1>1. pc'[x] = "idle" /\ req'[x].kind = "none"
  BY EndTransactionOthers DEF NoRequest
<1>2. ASSUME NEW y \in Txn, y # x, req[y].kind = "create"
      PROVE  req[y].ticket \notin tickets'
  BY <1>2 DEF CommitInv, SeenTickets, Born
<1>3. ASSUME NEW y \in Txn PROVE CommitInv!(y)'
  <2>1. CASE y = x
    BY <1>1, <2>1 DEF Single
  <2>2. CASE y # x
    <3>1. /\ pc'[y] = pc[y] /\ req'[y] = req[y]
          /\ repl'[y] = repl[y] /\ ins'[y] = ins[y] /\ pend'[y] = pend[y]
      BY <2>2, EndTransactionOthers
    <3>2. req'[y].kind = "create" =>
             /\ req'[y].ticket \notin tickets' \cup req'[y].blockers
             /\ \A z \in Txn \ {y} : req'[z].kind = "create" => req'[z].ticket # req'[y].ticket
      BY <1>1, <1>2, <2>2, <3>1, EndTransactionOthers DEF CommitInv
    <3>3. QED BY <3>1, <3>2 DEF CommitInv, Single
  <2>3. QED BY <2>1, <2>2
<1>4. QED BY <1>3 DEF CommitInv

\* What each commit publishes is what its one request asked for.
THEOREM CommitsOneRequest == Spec => []CommitInv
<1>1. Init => CommitInv
  BY DEF Init, CommitInv, NoRequest, Single
<1>2. TypeOK /\ TypeOK' /\ LockInv /\ CommitInv /\ [Next]_vars => CommitInv'
  <2> SUFFICES ASSUME TypeOK, TypeOK', LockInv, CommitInv, [Next]_vars PROVE CommitInv'
    OBVIOUS
  <2>a. ASSUME NEW x \in Txn, EndTransaction(x), UNCHANGED tickets PROVE CommitInv'
    BY <2>a, EndTransactionCommits DEF SeenTickets
  <2>0. ASSUME NEW x \in Txn, pc[x] \notin {"idle", "scan"}, Refuse(x) PROVE CommitInv'
    <3>1. CASE Rollback(x)
      BY <3>1, <2>a DEF Rollback
    <3>2. CASE ~Rollback(x)
      BY <2>0, <3>2 DEF Refuse, CommitInv, Single, TypeOK, Goto
    <3>3. QED BY <3>1, <3>2
  <2>1. ASSUME NEW x \in Txn, NEW t \in Ticket, NEW B \in BlockerLists, NEW kind \in Updates,
               StartUpdate(x, kind, t, B)
        PROVE CommitInv'
    BY <2>1 DEF StartUpdate, CommitInv, Single, LockInv, TypeOK, Goto, Updates
  <2>2. ASSUME NEW x \in Txn, NEW t \in Ticket, NEW B \in BlockerLists, StartCreate(x, t, B)
        PROVE CommitInv'
    <3>1. /\ pc[x] = "idle" /\ t \notin tickets /\ t \notin B /\ tickets' = tickets
          /\ repl' = repl /\ ins' = ins /\ pend' = pend
          /\ req' = [req EXCEPT ![x] = [kind |-> "create", ticket |-> t, blockers |-> B]]
          /\ \A y \in Txn : y # x => pc'[y] = pc[y]
          /\ pc'[x] = "lock" \/ (B = {} /\ pc'[x] = "commit")
      BY <2>2 DEF StartCreate, Fresh, TypeOK, Goto
    <3>2. /\ req'[x] = [kind |-> "create", ticket |-> t, blockers |-> B]
          /\ \A y \in Txn : y # x => req'[y] = req[y]
      BY <3>1 DEF TypeOK
    <3>3. repl[x] = {} /\ ins[x] = {} /\ pend[x] = {}
      BY <3>1 DEF LockInv
    <3>4. \A y \in Txn : req[y].kind = "create" => req[y].ticket # t
      BY <2>2 DEF StartCreate, Fresh, NoRequest
    <3>5. ASSUME NEW y \in Txn PROVE CommitInv!(y)'
      <4>1. CASE y = x
        BY <3>1, <3>2, <3>3, <3>4, <4>1 DEF Single, RowsOf, Updates
      <4>2. CASE y # x
        BY <3>1, <3>2, <3>4, <4>2 DEF CommitInv, Single
      <4>3. QED BY <4>1, <4>2
    <3>6. QED BY <3>5 DEF CommitInv
  <2>3. ASSUME NEW x \in Txn, NEW scope \in Scopes, StartBackfill(x, scope)
        PROVE CommitInv'
    BY <2>3 DEF StartBackfill, CommitInv, Single, LockInv, TypeOK, Goto
  <2>4. ASSUME NEW x \in Txn, LockRow(x) PROVE CommitInv'
    BY <2>4 DEF LockRow, CommitInv, Single, TypeOK, Goto
  <2>5. ASSUME NEW x \in Txn, AcquireLock(x) PROVE CommitInv'
    BY <2>5 DEF AcquireLock, CommitInv, Single, TypeOK, Goto
  <2>6. ASSUME NEW x \in Txn, RefuseSelf(x) PROVE CommitInv'
    BY <2>0, <2>6 DEF RefuseSelf
  <2>7. ASSUME NEW x \in Txn, FlushPending(x) PROVE CommitInv'
    <3>1. pc[x] = "flush" /\ UNCHANGED <<tickets, req, repl>>
      BY <2>7 DEF FlushPending
    <3>2. \A y \in Txn : y # x => pc'[y] = pc[y] /\ ins'[y] = ins[y] /\ pend'[y] = pend[y]
      BY <2>7 DEF FlushPending, TypeOK, Goto
    <3>3. pc'[x] \notin {"flush", "commit", "idle", "scan"}
      BY <2>7 DEF FlushPending, TypeOK, Goto
    <3>4. Single(x) => pend[x] = {} /\ ins[x] = {}
      BY <3>1 DEF CommitInv
    <3>5. Single(x) => pend'[x] = {} /\ ins'[x] = {}
      BY <2>7, <3>4 DEF FlushPending, TypeOK
    <3>6. QED BY <3>1, <3>2, <3>3, <3>5 DEF CommitInv, Single
  <2>8. ASSUME NEW x \in Txn, CheckExists(x) PROVE CommitInv'
    <3>1. CASE Refuse(x)
      BY <2>0, <2>8, <3>1 DEF CheckExists
    <3>2. CASE ~Refuse(x)
      BY <2>8, <3>2 DEF CheckExists, CommitInv, Single, TypeOK, Goto
    <3>3. QED BY <3>1, <3>2
  <2>9. ASSUME NEW x \in Txn, NEW b \in Ticket, CheckBlocker(x, b) PROVE CommitInv'
    <3>1. CASE Refuse(x)
      BY <2>0, <2>9, <3>1 DEF CheckBlocker
    <3>2. CASE ~Refuse(x)
      BY <2>9, <3>2 DEF CheckBlocker, CommitInv, Single, TypeOK, Goto
    <3>3. QED BY <3>1, <3>2
  <2>10. ASSUME NEW x \in Txn, ReplaceRows(x) PROVE CommitInv'
    BY <2>10 DEF ReplaceRows, CommitInv, Single, TypeOK, Goto
  <2>11. ASSUME NEW x \in Txn, Publish(x) PROVE CommitInv'
    BY <2>11, EndTransactionCommits DEF Publish
  <2>12. ASSUME NEW x \in Txn, NEW t \in Ticket, NextTicket(x, t) PROVE CommitInv'
    BY <2>12 DEF NextTicket, CommitInv, Single, TypeOK, Goto
  <2>13. ASSUME NEW x \in Txn, Rollback(x) PROVE CommitInv'
    BY <2>13, <2>a DEF Rollback
  <2>14. ASSUME NEW t \in Ticket, DeleteTicket(t) PROVE CommitInv'
    BY <2>14 DEF DeleteTicket, CommitInv, Single
  <2>15. CASE UNCHANGED vars
    BY <2>15 DEF vars, CommitInv, Single
  <2>16. QED
    BY <2>1, <2>2, <2>3, <2>4, <2>5, <2>6, <2>7, <2>8, <2>9, <2>10, <2>11, <2>12, <2>13, <2>14, <2>15
    DEF Next, Advance, Commit, FinishBackfill, FlushFails, DeadlockVictim, Crash
<1>3. QED BY <1>1, <1>2, TypeCorrect, LocksHeld, PTL DEF Spec

\* The backfill leaves alone what it refused.
THEOREM RefusedIsNotWritten == Spec => []TriedInv
<1>1. Init => TriedInv
  BY DEF Init, TriedInv, NoRequest, Single
<1>2. TypeOK /\ TypeOK' /\ LockInv /\ TriedInv /\ [Next]_vars => TriedInv'
  <2> SUFFICES ASSUME TypeOK, TypeOK', LockInv, TriedInv, [Next]_vars PROVE TriedInv'
    OBVIOUS
  <2>a. ASSUME NEW x \in Txn, EndTransaction(x) PROVE TriedInv'
    <3>1. pc'[x] = "idle" /\ repl'[x] = {} /\ todo'[x] = {} /\ refused'[x] = {}
      BY <2>a DEF EndTransaction, TypeOK
    <3>2. \A y \in Txn : y # x =>
             /\ pc'[y] = pc[y] /\ req'[y] = req[y] /\ repl'[y] = repl[y]
             /\ todo'[y] = todo[y] /\ refused'[y] = refused[y]
      BY <2>a DEF EndTransaction, TypeOK
    <3>3. QED BY <3>1, <3>2 DEF TriedInv, Single
  <2>0. ASSUME NEW x \in Txn, pc[x] \notin {"idle", "scan"}, Refuse(x) PROVE TriedInv'
    <3>1. CASE Rollback(x)
      BY <3>1, <2>a DEF Rollback
    <3>2. CASE ~Rollback(x)
      BY <2>0, <3>2 DEF Refuse, TriedInv, Single, TypeOK, Goto
    <3>3. QED BY <3>1, <3>2
  <2>1. ASSUME NEW x \in Txn, NEW t \in Ticket, NEW B \in BlockerLists, NEW kind \in Updates,
               StartUpdate(x, kind, t, B)
        PROVE TriedInv'
    BY <2>1 DEF StartUpdate, TriedInv, Single, TypeOK, Goto, Updates
  <2>2. ASSUME NEW x \in Txn, NEW t \in Ticket, NEW B \in BlockerLists, StartCreate(x, t, B)
        PROVE TriedInv'
    BY <2>2 DEF StartCreate, TriedInv, Single, TypeOK, Goto
  <2>3. ASSUME NEW x \in Txn, NEW scope \in Scopes, StartBackfill(x, scope)
        PROVE TriedInv'
    BY <2>3 DEF StartBackfill, TriedInv, Single, LockInv, TypeOK, Goto
  <2>4. ASSUME NEW x \in Txn, LockRow(x) PROVE TriedInv'
    BY <2>4 DEF LockRow, TriedInv, Single, TypeOK, Goto
  <2>5. ASSUME NEW x \in Txn, AcquireLock(x) PROVE TriedInv'
    BY <2>5 DEF AcquireLock, TriedInv, Single, TypeOK, Goto
  <2>6. ASSUME NEW x \in Txn, RefuseSelf(x) PROVE TriedInv'
    BY <2>0, <2>6 DEF RefuseSelf
  <2>7. ASSUME NEW x \in Txn, FlushPending(x) PROVE TriedInv'
    BY <2>7 DEF FlushPending, TriedInv, Single, TypeOK, Goto
  <2>8. ASSUME NEW x \in Txn, CheckExists(x) PROVE TriedInv'
    <3>1. CASE Refuse(x)
      BY <2>0, <2>8, <3>1 DEF CheckExists
    <3>2. CASE ~Refuse(x)
      BY <2>8, <3>2 DEF CheckExists, TriedInv, Single, TypeOK, Goto
    <3>3. QED BY <3>1, <3>2
  <2>9. ASSUME NEW x \in Txn, NEW b \in Ticket, CheckBlocker(x, b) PROVE TriedInv'
    <3>1. CASE Refuse(x)
      BY <2>0, <2>9, <3>1 DEF CheckBlocker
    <3>2. CASE ~Refuse(x)
      BY <2>9, <3>2 DEF CheckBlocker, TriedInv, Single, TypeOK, Goto
    <3>3. QED BY <3>1, <3>2
  <2>10. ASSUME NEW x \in Txn, ReplaceRows(x) PROVE TriedInv'
    <3>1. /\ pc[x] = "write" /\ repl'[x] = repl[x] \cup {req[x].ticket}
          /\ pc'[x] = IF req[x].kind = "backfill" THEN "scan" ELSE "commit"
          /\ req' = req /\ todo' = todo /\ refused' = refused
          /\ \A y \in Txn : y # x => pc'[y] = pc[y] /\ repl'[y] = repl[y]
      BY <2>10 DEF ReplaceRows, TypeOK, Goto
    <3>2. QED BY <3>1 DEF TriedInv, Single
  <2>11. ASSUME NEW x \in Txn, NEW t \in Ticket, NextTicket(x, t) PROVE TriedInv'
    <3>1. CASE req' = req
      BY <2>11, <3>1 DEF NextTicket, TriedInv, Single, TypeOK, Goto
    <3>2. CASE req' # req
      BY <2>11, <3>2 DEF NextTicket, TriedInv, Single, TypeOK, Goto
    <3>3. QED BY <3>1, <3>2
  <2>12. ASSUME NEW t \in Ticket, DeleteTicket(t) PROVE TriedInv'
    BY <2>12 DEF DeleteTicket, TriedInv, Single
  <2>13. CASE UNCHANGED vars
    BY <2>13 DEF vars, TriedInv, Single
  <2>14. QED
    BY <2>a, <2>1, <2>2, <2>3, <2>4, <2>5, <2>6, <2>7, <2>8, <2>9, <2>10, <2>11, <2>12, <2>13
    DEF Next, Advance, Commit, FinishBackfill, FlushFails, DeadlockVictim, Crash, Publish, Rollback
<1>3. QED BY <1>1, <1>2, TypeCorrect, LocksHeld, PTL DEF Spec

\* A backfill that commits leaves the rows of the tickets it refused as they
\* are, while the others' are rewritten.
THEOREM RefusedKeepTheirRows == Spec => RefusedTicketKeepsItsRows
<1>1. LockInv /\ TriedInv /\ [Next]_vars =>
         [\A x \in Txn : FinishBackfill(x) =>
             \A t \in refused[x] :
                {e \in deps' : e[1] = t} = {e \in deps : e[1] = t}]_vars
  <2> SUFFICES ASSUME LockInv, TriedInv, NEW x \in Txn, FinishBackfill(x), NEW t \in refused[x]
               PROVE  {e \in deps' : e[1] = t} = {e \in deps : e[1] = t}
    OBVIOUS
  <2>1. deps' = {e \in deps : e[1] \notin repl[x]} \cup ins[x] \cup pend[x]
    BY DEF FinishBackfill, Publish, Final, View
  <2>2. t \notin repl[x] /\ \A e \in ins[x] \cup pend[x] : e[1] \in repl[x]
    BY DEF LockInv, TriedInv
  <2>3. QED BY <2>1, <2>2
<1>2. QED BY <1>1, LocksHeld, RefusedIsNotWritten, PTL DEF Spec, RefusedTicketKeepsItsRows

-----------------------------------------------------------------------------
(* Refinement.                                                             *)

\* If b does not lead back to t once t's own rows are set aside, it does not
\* with the rows either.
LEMMA ReachWithoutOwnRows ==
    ASSUME NEW N, NEW E \in SUBSET (N \X N), NEW F \in SUBSET (N \X N), NEW t \in N, NEW b \in N,
           {e \in E : e[1] # t} \subseteq F,
           t \notin Reach(N, F, b)
    PROVE  t \notin Reach(N, E, b)
<1> DEFINE S == Reach(N, F, b)
<1>1. b \in S /\ ClosedUnder(F, S)
  BY ReachFacts
<1>2. S \in SUBSET N
  BY DEF Reach
<1>3. ClosedUnder(E, S)
  BY <1>1 DEF ClosedUnder
<1>4. Reach(N, E, b) \subseteq S
  BY <1>1, <1>2, <1>3, ReachFacts
<1>5. QED BY <1>4

\* The commit of an update replaces the list of its ticket, and the list is
\* valid on the rows committed at that moment.
LEMMA UpdateReplaces ==
    ASSUME TypeOK, TypeOK', RowInv, CommitInv, AcyclicInv, NEW x \in Txn,
           Commit(x), req[x].kind \in Updates
    PROVE  \E t \in Ticket : t \in tickets /\ Store!Replace(t)
<1> DEFINE t == req[x].ticket
           B == req[x].blockers
<1>1. t \in Ticket /\ t \in tickets /\ B \in SUBSET Ticket
  BY DEF Commit, TypeOK, Request
<1>2. pend[x] = {t} \X B /\ ins[x] = {} /\ repl[x] = {t}
  BY DEF Commit, CommitInv, RowsOf
<1>3. tickets' = tickets
  BY DEF Commit, Publish, SeenTickets, Born, Updates
<1>4. deps' = {e \in deps : e[1] # t} \cup ({t} \X B)
  BY <1>2 DEF Commit, Publish, Final, View
<1>5. Store!Blockers(deps', t) = B
  BY <1>1, <1>4 DEF Store!Blockers
<1>6. B \subseteq {b \in tickets : projectOf[b] = projectOf[t]}
  <2>1. ASSUME NEW b \in B PROVE b \in tickets /\ projectOf[b] = projectOf[t]
    <3>1. <<t, b>> \in pend[x]
      BY <1>2
    <3>2. b \in SeenTickets(x)
      BY <3>1 DEF Commit, Publish, ForeignKeysHold
    <3>3. projectOf[t] = projectOf[b]
      BY <3>1 DEF RowInv
    <3>4. QED BY <3>2, <3>3 DEF SeenTickets, Born, Updates
  <2>2. QED BY <2>1
<1>7. ASSUME NEW b \in B PROVE t \notin Reach(Ticket, deps, b)
  <2>1. deps' \in SUBSET (Ticket \X Ticket) /\ deps \in SUBSET (Ticket \X Ticket)
    BY DEF TypeOK, Edges
  <2>2. WellFounded(Ticket, deps')
    BY DEF AcyclicInv, Commit, Publish
  <2>3. NoCycle(Ticket, deps')
    BY <2>1, <2>2, WellFoundedNoCycle
  <2>4. <<t, b>> \in deps'
    BY <1>4
  <2>5. t \notin Reach(Ticket, deps', b)
    BY <2>3, <2>4 DEF NoCycle
  <2>6. {e \in deps : e[1] # t} \subseteq deps' /\ b \in Ticket
    BY <1>1, <1>4
  <2> HIDE DEF t, B
  <2>7. QED BY <1>1, <2>1, <2>5, <2>6, ReachWithoutOwnRows
<1>8. \A b \in B : t \notin Store!Reach(Ticket, deps, b)
  BY <1>7 DEF Reach, ClosedUnder, Store!Reach, Store!ClosedUnder
<1>9. Store!Replace(t)
  BY <1>3, <1>4, <1>5, <1>6, <1>8 DEF Store!Replace
<1>10. QED BY <1>1, <1>9

\* The commit of a creation adds one ticket with its blockers.
LEMMA CreateAdds ==
    ASSUME TypeOK, RowInv, CommitInv, NEW x \in Txn, Commit(x), req[x].kind = "create"
    PROVE  \E t \in Ticket : Store!Add(t)
<1> DEFINE t == req[x].ticket
           B == req[x].blockers
<1>1. t \in Ticket /\ B \in SUBSET Ticket /\ t \notin tickets /\ t \notin B
  BY DEF Commit, TypeOK, Request, CommitInv
<1>2. pend[x] = {t} \X B /\ ins[x] = {} /\ repl[x] \subseteq {t}
  BY DEF Commit, CommitInv, RowsOf
<1>3. tickets' = tickets \cup {t} /\ SeenTickets(x) = tickets \cup {t}
  BY DEF Commit, Publish, SeenTickets, Born
<1>4. \A e \in deps : e[1] # t
  BY <1>1 DEF RowInv, RowsJoinProjectTickets
<1>5. deps' = deps \cup ({t} \X B)
  BY <1>2, <1>4 DEF Commit, Publish, Final, View
<1>6. Store!Blockers(deps', t) = B
  BY <1>1, <1>4, <1>5 DEF Store!Blockers
<1>7. B \subseteq {b \in tickets : projectOf[b] = projectOf[t]}
  <2>1. ASSUME NEW b \in B PROVE b \in tickets /\ projectOf[b] = projectOf[t]
    <3>1. <<t, b>> \in pend[x]
      BY <1>2
    <3>2. b \in SeenTickets(x)
      BY <3>1 DEF Commit, Publish, ForeignKeysHold
    <3>3. projectOf[t] = projectOf[b]
      BY <3>1 DEF RowInv
    <3>4. QED BY <1>1, <1>3, <3>2, <3>3
  <2>2. QED BY <2>1
<1>8. Store!Add(t)
  BY <1>1, <1>3, <1>5, <1>6, <1>7 DEF Store!Add
<1>9. QED BY <1>1, <1>8

\* The commit of a backfill rewrites several lists at once and leaves a valid
\* table.
LEMMA BackfillBatches ==
    ASSUME TypeOK', LockInv, RowInv', CommitInv, AcyclicInv', NEW x \in Txn, FinishBackfill(x)
    PROVE  Store!Batch
<1>1. tickets' = tickets
  BY DEF FinishBackfill, Publish, SeenTickets, Born, LockInv, NoRequest
<1>2. \A e \in deps' : {e[1], e[2]} \subseteq tickets /\ projectOf[e[1]] = projectOf[e[2]]
  BY <1>1 DEF RowInv, RowsJoinProjectTickets
<1>3. NoCycle(Ticket, deps')
  BY WellFoundedNoCycle DEF TypeOK, Edges, AcyclicInv
<1>4. Store!NoCycle(Ticket, deps')
  BY <1>3 DEF NoCycle, Reach, ClosedUnder, Store!NoCycle, Store!Reach, Store!ClosedUnder
<1>5. Scopes # {}
  BY DEF FinishBackfill, CommitInv
<1>6. QED BY <1>1, <1>2, <1>4, <1>5 DEF Store!Batch, Store!Valid

\* Transactions of several statements, with their locks, their checks on older
\* rows, their crashes and deadlocks, implement a store that changes in single
\* steps, each judged on the table it meets.
THEOREM StoreImplemented == Spec => ImplementsStore
<1>1. Init => Store!Init
  BY DEF Init, Store!Init
<1>2. /\ TypeOK /\ TypeOK' /\ LockInv /\ RowInv /\ RowInv' /\ CommitInv
      /\ AcyclicInv /\ AcyclicInv' /\ [Next]_vars
      => [Store!Next]_<<tickets, deps>>
  <2> SUFFICES ASSUME TypeOK, TypeOK', LockInv, RowInv, RowInv', CommitInv,
                      AcyclicInv, AcyclicInv', [Next]_vars
               PROVE  Store!Next \/ UNCHANGED <<tickets, deps>>
    OBVIOUS
  <2>1. ASSUME NEW x \in Txn, Commit(x) PROVE Store!Next
    <3>1. req[x].kind \in Updates \cup {"create"}
      <4>1. req[x] \in Request /\ req[x].kind # "backfill"
        BY <2>1 DEF Commit, CommitInv, TypeOK
      <4>2. QED BY <4>1 DEF Request
    <3>2. CASE req[x].kind \in Updates
      BY <2>1, <3>2, UpdateReplaces DEF Store!Next
    <3>3. CASE req[x].kind = "create"
      BY <2>1, <3>3, CreateAdds DEF Store!Next
    <3>4. QED BY <3>1, <3>2, <3>3
  <2>2. ASSUME NEW x \in Txn, FinishBackfill(x) PROVE Store!Next
    BY <2>2, BackfillBatches DEF Store!Next
  <2>3. ASSUME NEW t \in Ticket, DeleteTicket(t) PROVE Store!Next
    BY <2>3 DEF DeleteTicket, Store!Remove, Store!Next
  <2>4. ASSUME NEW x \in Txn, Rollback(x) PROVE UNCHANGED <<tickets, deps>>
    BY <2>4 DEF Rollback
  <2>5. ASSUME NEW x \in Txn, Refuse(x) PROVE UNCHANGED <<tickets, deps>>
    BY <2>5 DEF Refuse, Rollback
  <2>6. ASSUME NEW x \in Txn, NEW t \in Ticket, NEW B \in BlockerLists, NEW kind \in Updates,
               StartUpdate(x, kind, t, B) \/ StartCreate(x, t, B)
        PROVE UNCHANGED <<tickets, deps>>
    BY <2>6 DEF StartUpdate, StartCreate
  <2>7. ASSUME NEW x \in Txn, NEW scope \in Scopes, StartBackfill(x, scope)
        PROVE UNCHANGED <<tickets, deps>>
    BY <2>7 DEF StartBackfill
  <2>8. ASSUME NEW x \in Txn,
               LockRow(x) \/ AcquireLock(x) \/ RefuseSelf(x) \/ FlushPending(x) \/ CheckExists(x)
        PROVE UNCHANGED <<tickets, deps>>
    BY <2>5, <2>8 DEF LockRow, AcquireLock, RefuseSelf, FlushPending, CheckExists
  <2>9. ASSUME NEW x \in Txn, NEW b \in Ticket, CheckBlocker(x, b) \/ NextTicket(x, b)
        PROVE UNCHANGED <<tickets, deps>>
    BY <2>5, <2>9 DEF CheckBlocker, NextTicket
  <2>10. ASSUME NEW x \in Txn, ReplaceRows(x) PROVE UNCHANGED <<tickets, deps>>
    BY <2>10 DEF ReplaceRows
  <2>11. ASSUME NEW x \in Txn, Advance(x)
         PROVE Store!Next \/ UNCHANGED <<tickets, deps>>
    BY <2>1, <2>2, <2>4, <2>8, <2>9, <2>10, <2>11 DEF Advance, FlushFails, DeadlockVictim
  <2>12. CASE UNCHANGED vars
    BY <2>12 DEF vars
  <2>13. QED
    BY <2>3, <2>4, <2>6, <2>7, <2>11, <2>12 DEF Next, Crash, Updates
<1>3. QED
  BY <1>1, <1>2, TypeCorrect, LocksHeld, RowsValid, CommitsOneRequest, Acyclic, PTL
  DEF Spec, ImplementsStore, Store!Spec
=============================================================================
