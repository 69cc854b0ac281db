----------------------------- MODULE LoopsProofs -----------------------------
(***************************************************************************)
(* For any set of workers, and whether or not PostgreSQL ends the session  *)
(* of a dead worker at once: the types of the monitoring, one worker in    *)
(* the loop of those that have their session, and alerts repeated by it    *)
(* only after a failure.                                                   *)
(*                                                                         *)
(* For any number of MRs, limit of fixes and number of troubles: the types *)
(* of the merge request queue, what is done was merged and seen to, what a *)
(* tick merges was green, the fixes are bounded and, when people do not    *)
(* order during a pending CI, merges are spaced. Then the types of both.   *)
(***************************************************************************)
EXTENDS MCLoops, FiniteSetTheorems, TLAPS

(* Who is in the loop holds the advisory lock or has lost it unawares. *)
HolderRuns == \A w \in Workers : loop[w] \in Running => advisory = w \/ w \in severed

(* An alert nobody remembers: its stamp was lost, and no worker is about  *)
(* to write it.                                                           *)
Forgotten == sent = "recent" /\ stamp # "recent" /\ ~Alerting

(* RepeatsBounded alone is not inductive: the failure of the stamp must be *)
(* counted before the alert it lets through.                               *)
CountInv ==
    /\ unstamped <= failures
    /\ repeats <= unstamped
    /\ Forgotten => repeats < unstamped

MonitoringInv == MonitoringTypeOK /\ HolderRuns /\ CountInv

-----------------------------------------------------------------------------
(* The steps, by what they touch. *)
LockStep(w)  == Start(w) \/ TryAdvisoryLock(w)
CheckStep(w) == Wake(w) \/ Check(w) \/ Alert(w) \/ Debounce(w) \/ Stamp(w)
SweepStep(w) == Sweep(w) \/ MarkDown(w)
EndStep(w)   == Fail(w) \/ Stop(w)
WorldStep    == Due \/ Age \/ SiteChanges \/ TestAlert
                \/ JobChanges \/ Overdue \/ StartPing \/ CommitPing

\* Whoever is at work with its session is the only one.
LEMMA OneRuns ==
    ASSUME HolderRuns, NEW v \in Workers \ severed, NEW w \in Workers \ severed,
           loop[v] \in Running, loop[w] \in Running
    PROVE  v = w
  BY DEF HolderRuns

\* Starting and taking the lock.
LEMMA LockStepKeeps ==
    ASSUME MonitoringInv, NEW w \in Workers, LockStep(w)
    PROVE  MonitoringInv'
<1> USE MonitoringAssumption DEF MonitoringInv, Running, lockVars, monitorVars, heartbeatVars
<1>1. CASE Start(w)
  <2>1. MonitoringTypeOK' /\ HolderRuns'
    BY <1>1 DEF Start, Move, MonitoringTypeOK, HolderRuns
  <2>2. Alerting' = Alerting
    BY <1>1 DEF Start, Move, Alerting, MonitoringTypeOK
  <2>3. CountInv'
    BY <1>1, <2>2 DEF Start, CountInv, Forgotten
  <2>4. QED BY <2>1, <2>3
<1>2. CASE TryAdvisoryLock(w)
  <2>1. MonitoringTypeOK' /\ HolderRuns'
    BY <1>2 DEF TryAdvisoryLock, MonitoringTypeOK, HolderRuns
  <2>2. Alerting' = Alerting
    BY <1>2 DEF TryAdvisoryLock, Alerting, MonitoringTypeOK
  <2>3. CountInv'
    BY <1>2, <2>2 DEF TryAdvisoryLock, CountInv, Forgotten
  <2>4. QED BY <2>1, <2>3
<1>3. QED BY <1>1, <1>2 DEF LockStep

\* The checks and the alerts.
LEMMA CheckStepKeeps ==
    ASSUME MonitoringInv, NEW w \in Workers, CheckStep(w)
    PROVE  MonitoringInv'
<1> USE MonitoringAssumption DEF MonitoringInv, Running, lockVars, monitorVars, heartbeatVars
<1>1. CASE Wake(w) \/ Check(w) \/ Debounce(w)
  <2>1. MonitoringTypeOK' /\ HolderRuns'
    BY ZenonT(30), <1>1 DEF Wake, Check, Debounce, Move, MonitoringTypeOK, HolderRuns
  <2>2. Alerting' = Alerting
    BY <1>1 DEF Wake, Check, Debounce, Move, Alerting, MonitoringTypeOK
  <2>3. CountInv'
    BY <1>1, <2>2 DEF Wake, Check, Debounce, CountInv, Forgotten
  <2>4. QED BY <2>1, <2>3
<1>2. CASE Alert(w)
  <2>1. MonitoringTypeOK' /\ HolderRuns'
    BY <1>2 DEF Alert, MonitoringTypeOK, HolderRuns, Ages
  <2>2. Alerting'
    BY <1>2 DEF Alert, Alerting, MonitoringTypeOK
  <2>3. CASE Alone(w)
    <3>1. ~Alerting
      BY <1>2, <2>3 DEF Alert, Alone, Alerting
    <3>2. CountInv'
      BY <1>2, <2>2, <3>1 DEF Alert, CountInv, Forgotten, MonitoringTypeOK
    <3>3. QED BY <2>1, <3>2
  <2>4. CASE ~Alone(w)
    <3>1. CountInv'
      BY <1>2, <2>2, <2>4 DEF Alert, CountInv, Forgotten
    <3>2. QED BY <2>1, <3>1
  <2>5. QED BY <2>3, <2>4
<1>3. CASE Stamp(w)
  <2>1. MonitoringTypeOK' /\ HolderRuns'
    BY <1>3 DEF Stamp, Move, MonitoringTypeOK, HolderRuns, Ages
  <2>2. CountInv'
    BY <1>3 DEF Stamp, CountInv, Forgotten
  <2>3. QED BY <2>1, <2>2
<1>4. QED BY <1>1, <1>2, <1>3 DEF CheckStep

\* The heartbeats.
LEMMA SweepStepKeeps ==
    ASSUME MonitoringInv, NEW w \in Workers, SweepStep(w)
    PROVE  MonitoringInv'
<1> USE MonitoringAssumption DEF MonitoringInv, Running, lockVars, monitorVars, heartbeatVars
<1>1. MonitoringTypeOK' /\ HolderRuns'
  BY DEF SweepStep, Sweep, MarkDown, Move, MonitoringTypeOK, HolderRuns
<1>2. Alerting' = Alerting
  BY DEF SweepStep, Sweep, MarkDown, Move, Alerting, MonitoringTypeOK
<1>3. CountInv'
  <2>1. UNCHANGED <<failures, monitorVars>>
    BY DEF SweepStep, Sweep, MarkDown
  <2>2. QED BY <1>2, <2>1 DEF CountInv, Forgotten
<1>4. QED BY <1>1, <1>3

\* A failure and a stop: what is forgotten then has been counted.
LEMMA EndStepKeeps ==
    ASSUME MonitoringInv, NEW w \in Workers, EndStep(w)
    PROVE  MonitoringInv'
<1> USE MonitoringAssumption DEF MonitoringInv, Running, lockVars, monitorVars, heartbeatVars
<1>1. MonitoringTypeOK' /\ HolderRuns'
  <2>1. unstamped' \in 0 .. MaxFailures /\ failures' \in 0 .. MaxFailures
    BY DEF EndStep, Fail, Stop, Unstamped, MonitoringTypeOK, CountInv
  <2>2. CASE Fail(w)
    BY <2>1, <2>2 DEF Fail, MonitoringTypeOK, HolderRuns
  <2>3. CASE Stop(w)
    BY <2>1, <2>3 DEF Stop, MonitoringTypeOK, HolderRuns
  <2>4. QED BY <2>2, <2>3 DEF EndStep
<1>2. CASE loop[w] = "stamping"
  <2>1. unstamped' = unstamped + 1 /\ failures' = failures + 1 /\ repeats' = repeats
    BY <1>2 DEF EndStep, Fail, Stop, Unstamped
  <2>2. CountInv'
    BY <2>1 DEF CountInv, MonitoringTypeOK
  <2>3. QED BY <1>1, <2>2
<1>3. CASE loop[w] # "stamping"
  <2>1. Alerting' = Alerting
    BY <1>3 DEF EndStep, Fail, Stop, Alerting, MonitoringTypeOK
  <2>2. CountInv'
    BY <1>3, <2>1 DEF EndStep, Fail, Stop, Unstamped, CountInv, Forgotten, MonitoringTypeOK
  <2>3. QED BY <1>1, <2>2
<1>4. QED BY <1>1, <1>2, <1>3

\* A session that ends: the loop it was for goes on.
LEMMA LossKeeps ==
    ASSUME MonitoringInv, NEW w \in Workers, LoseSession(w)
    PROVE  MonitoringInv'
<1> USE MonitoringAssumption DEF MonitoringInv, monitorVars, heartbeatVars
<1>1. MonitoringTypeOK'
  BY DEF LoseSession, MonitoringTypeOK
<1>2. HolderRuns'
  BY DEF LoseSession, HolderRuns
<1>3. CountInv'
  <2>1. Alerting' = Alerting
    BY DEF LoseSession, Alerting
  <2>2. QED BY <2>1 DEF LoseSession, CountInv, Forgotten, MonitoringTypeOK
<1>4. QED BY <1>1, <1>2, <1>3

\* Time, the site, the people and the job.
LEMMA WorldStepKeeps ==
    ASSUME MonitoringInv, WorldStep
    PROVE  MonitoringInv'
<1> USE MonitoringAssumption DEF MonitoringInv, lockVars, monitorVars, heartbeatVars
<1>1. MonitoringTypeOK'
  <2>1. CASE Due \/ Age \/ SiteChanges
    <3>1. due' \in BOOLEAN /\ site' \in {"up", "down"} /\ stamp' \in Ages /\ sent' \in Ages
      BY <2>1 DEF Due, Age, SiteChanges, MonitoringTypeOK, Ages
    <3>2. UNCHANGED <<loop, lockVars, failures, repeats, unstamped, heartbeatVars>>
      BY <2>1 DEF Due, Age, SiteChanges
    <3>3. QED BY <3>1, <3>2 DEF MonitoringTypeOK
  <2>2. CASE TestAlert
    BY <2>2 DEF TestAlert, MonitoringTypeOK, Ages
  <2>3. CASE JobChanges \/ Overdue \/ StartPing \/ CommitPing
    BY <2>3 DEF JobChanges, Overdue, StartPing, CommitPing, MonitoringTypeOK
  <2>4. QED BY <2>1, <2>2, <2>3 DEF WorldStep
<1>2. HolderRuns' /\ Alerting' = Alerting
  BY DEF WorldStep, Due, Age, SiteChanges, TestAlert, JobChanges, Overdue, StartPing, CommitPing,
         HolderRuns, Alerting
<1>3. CountInv'
  <2>1. CASE Age
    BY <1>2, <2>1 DEF Age, CountInv, Forgotten
  <2>2. CASE TestAlert
    <3>1. failures' = failures + 1 /\ stamp' = "recent" /\ UNCHANGED <<repeats, unstamped>>
      BY <2>2 DEF TestAlert
    <3>2. QED BY <3>1 DEF CountInv, Forgotten, MonitoringTypeOK
  <2>3. CASE ~Age /\ ~TestAlert
    <3>1. UNCHANGED <<failures, stamp, sent, repeats, unstamped>>
      BY <2>3 DEF WorldStep, Due, SiteChanges, JobChanges, Overdue, StartPing, CommitPing
    <3>2. QED BY <1>2, <3>1 DEF CountInv, Forgotten
  <2>4. QED BY <2>1, <2>2, <2>3
<1>4. QED BY <1>1, <1>2, <1>3

\* The invariant holds at the start and is kept.
LEMMA MonitoringInductive ==
    /\ MonitoringInit => MonitoringInv
    /\ MonitoringInv /\ [MonitoringNext]_monitoringVars => MonitoringInv'
<1>1. MonitoringInit => MonitoringInv
  <2> SUFFICES ASSUME MonitoringInit PROVE MonitoringInv
    OBVIOUS
  <2>1. MonitoringTypeOK
    <3>1. loop \in [Workers -> {"off", "starting", "spare"} \cup Running]
      BY DEF MonitoringInit
    <3>2. unstamped \in 0 .. MaxFailures /\ failures \in 0 .. MaxFailures
      BY MonitoringAssumption DEF MonitoringInit
    <3>3. QED BY <3>1, <3>2 DEF MonitoringInit, MonitoringTypeOK, Ages
  <2>2. HolderRuns
    BY DEF MonitoringInit, HolderRuns, Running
  <2>3. CountInv
    BY DEF MonitoringInit, CountInv, Forgotten
  <2>4. QED BY <2>1, <2>2, <2>3 DEF MonitoringInv
<1>2. MonitoringInv /\ MonitoringNext => MonitoringInv'
  BY LockStepKeeps, CheckStepKeeps, SweepStepKeeps, EndStepKeeps, LossKeeps, WorldStepKeeps
     DEF MonitoringNext, WorkerStep, LockStep, CheckStep, SweepStep, EndStep, WorldStep
<1>3. MonitoringInv /\ UNCHANGED monitoringVars => MonitoringInv'
  BY DEF monitoringVars, lockVars, monitorVars, heartbeatVars, MonitoringInv, MonitoringTypeOK,
         HolderRuns, CountInv, Forgotten, Alerting
<1>4. QED BY <1>1, <1>2, <1>3

-----------------------------------------------------------------------------
(* Every variable of the monitoring keeps its type. *)
THEOREM MonitoringTypeCorrect == MonitoringSpec => []MonitoringTypeOK
<1>1. MonitoringInv => MonitoringTypeOK
  BY DEF MonitoringInv
<1>2. QED BY <1>1, MonitoringInductive, PTL DEF MonitoringSpec

(* Of two workers in the loop one has lost its session with the lock: a  *)
(* second one never gets in beside it, however many start and stop, and  *)
(* even when a dead worker's session has not ended yet.                  *)
THEOREM OneIntactLoop ==
    MonitoringSpec => [](\A v, w \in Workers \ severed :
                            loop[v] \in Running /\ loop[w] \in Running => v = w)
<1>1. MonitoringInv => \A v, w \in Workers \ severed :
                           loop[v] \in Running /\ loop[w] \in Running => v = w
  BY OneRuns DEF MonitoringInv
<1>2. QED BY <1>1, MonitoringInductive, PTL DEF MonitoringSpec

(* Workers alone in the loop repeat alerts within the debounce no more     *)
(* often than senders have failed before they stamped: hand-overs, lost    *)
(* sessions and test alerts never add one.                                 *)
THEOREM RepeatsAreCounted == MonitoringSpec => []RepeatsBounded
<1>1. MonitoringInv => RepeatsBounded
  BY DEF MonitoringInv, CountInv, RepeatsBounded
<1>2. QED BY <1>1, MonitoringInductive, PTL DEF MonitoringSpec

-----------------------------------------------------------------------------
(* The operators on the queue file. *)

(* R orders S: no element comes before itself, and of two one comes first. *)
IsOrder(S, R) ==
    /\ \A x \in S : <<x, x>> \notin R
    /\ \A x, y, z \in S : <<x, y>> \in R /\ <<y, z>> \in R => <<x, z>> \in R
    /\ \A x, y \in S : x # y => <<x, y>> \in R \/ <<y, x>> \in R

\* Every element of a finite ordered set has a rank of its own, and every
\* number up to the size of the set is a rank.
LEMMA RanksAreOnto ==
    ASSUME NEW S, IsFiniteSet(S), NEW R, IsOrder(S, R)
    PROVE  /\ Cardinality(S) \in Nat
           /\ \A x \in S : Rank(S, R, x) \in 1 .. Cardinality(S)
           /\ \A x, y \in S : Rank(S, R, x) = Rank(S, R, y) => x = y
           /\ \A i \in 1 .. Cardinality(S) : \E x \in S : Rank(S, R, x) = i
<1> DEFINE down(x) == {y \in S : y = x \/ <<y, x>> \in R}
           rank(x) == Rank(S, R, x)
           n == Cardinality(S)
<1>0. n \in Nat /\ \A x \in S : rank(x) = Cardinality(down(x))
  BY FS_CardinalityType DEF Rank
<1> HIDE DEF rank
<1>1. \A x \in S : IsFiniteSet(down(x)) /\ rank(x) \in 1 .. n
  <2> SUFFICES ASSUME NEW x \in S PROVE IsFiniteSet(down(x)) /\ rank(x) \in 1 .. n
    OBVIOUS
  <2>1. down(x) \in SUBSET S /\ x \in down(x)
    OBVIOUS
  <2> HIDE DEF down
  <2>2. IsFiniteSet(down(x)) /\ Cardinality(down(x)) <= n
    BY <2>1, FS_Subset
  <2>3. Cardinality(down(x)) \in Nat /\ Cardinality(down(x)) # 0
    BY <2>1, <2>2, FS_CardinalityType, FS_EmptySet
  <2>4. QED BY <1>0, <2>2, <2>3
<1>2. \A x, y \in S : <<x, y>> \in R => rank(x) # rank(y)
  <2> SUFFICES ASSUME NEW x \in S, NEW y \in S, <<x, y>> \in R PROVE rank(x) # rank(y)
    OBVIOUS
  <2>1. down(x) \in SUBSET down(y)
    BY DEF IsOrder
  <2>2. y \in down(y) /\ y \notin down(x)
    BY DEF IsOrder
  <2> HIDE DEF down
  <2>3. QED BY <1>0, <1>1, <2>1, <2>2, FS_Subset
<1>3. \A x, y \in S : rank(x) = rank(y) => x = y
  BY <1>2 DEF IsOrder
<1>4. \A i \in 1 .. n : \E x \in S : rank(x) = i
  <2> DEFINE f == [x \in S |-> rank(x)]
  <2>1. f \in Injection(S, 1 .. n)
    BY <1>1, <1>3 DEF Injection, IsInjective
  <2>2. IsFiniteSet(1 .. n) /\ Cardinality(1 .. n) = n
    BY <1>0, FS_Interval
  <2>3. f \in Surjection(S, 1 .. n)
    BY <2>1, <2>2, FS_Injection
  <2>4. QED BY <2>3 DEF Surjection
<1>5. QED BY <1>0, <1>1, <1>3, <1>4 DEF rank

\* InOrder lists every element of the set once.
LEMMA InOrderLists ==
    ASSUME NEW S, IsFiniteSet(S), NEW R, IsOrder(S, R)
    PROVE  /\ Cardinality(S) \in Nat
           /\ InOrder(S, R) \in [1 .. Cardinality(S) -> S]
           /\ \A i, j \in 1 .. Cardinality(S) : InOrder(S, R)[i] = InOrder(S, R)[j] => i = j
           /\ \A x \in S : \E i \in 1 .. Cardinality(S) : InOrder(S, R)[i] = x
<1> DEFINE n == Cardinality(S)
<1>1. /\ n \in Nat
      /\ \A x \in S : Rank(S, R, x) \in 1 .. n
      /\ \A x, y \in S : Rank(S, R, x) = Rank(S, R, y) => x = y
      /\ \A i \in 1 .. n : \E x \in S : Rank(S, R, x) = i
  BY RanksAreOnto
<1>2. InOrder(S, R) = [i \in 1 .. n |-> CHOOSE x \in S : Rank(S, R, x) = i]
  BY DEF InOrder
<1>3. \A i \in 1 .. n : InOrder(S, R)[i] \in S /\ Rank(S, R, InOrder(S, R)[i]) = i
  BY <1>1, <1>2
<1>4. InOrder(S, R) \in [1 .. n -> S]
  BY <1>2, <1>3
<1>5. QED BY <1>1, <1>3, <1>4

\* Numbers are ordered by size.
LEMMA NumbersOrdered ==
    ASSUME NEW K \in SUBSET Int
    PROVE  IsOrder(K, Ascending(K))
<1>1. \A x, y \in K : <<x, y>> \in Ascending(K) <=> x < y
  BY DEF Ascending
<1>2. QED BY <1>1 DEF IsOrder

\* The places of a sequence are finitely many.
LEMMA PlacesFinite ==
    ASSUME NEW T, NEW q \in Seq(T), NEW K \in SUBSET (1 .. Len(q))
    PROVE  IsFiniteSet(K)
<1>1. Len(q) \in Int
  OBVIOUS
<1>2. IsFiniteSet(1 .. Len(q))
  BY <1>1, FS_Interval
<1>3. QED BY <1>2, FS_Subset

\* Only takes the elements at the places K, each once.
LEMMA OnlyPicks ==
    ASSUME NEW T, NEW q \in Seq(T), NEW K \in SUBSET (1 .. Len(q))
    PROVE  /\ Only(q, K) \in Seq(T)
           /\ \E p \in [1 .. Len(Only(q, K)) -> K] :
                 /\ \A i \in 1 .. Len(Only(q, K)) : Only(q, K)[i] = q[p[i]]
                 /\ \A i, j \in 1 .. Len(Only(q, K)) : p[i] = p[j] => i = j
                 /\ \A k \in K : \E i \in 1 .. Len(Only(q, K)) : p[i] = k
<1> DEFINE n == Cardinality(K)
           places == InOrder(K, Ascending(K))
<1>1. IsFiniteSet(K)
  BY PlacesFinite
<1>2. IsOrder(K, Ascending(K))
  BY NumbersOrdered
<1>3. /\ n \in Nat
      /\ places \in [1 .. n -> K]
      /\ \A i, j \in 1 .. n : places[i] = places[j] => i = j
      /\ \A k \in K : \E i \in 1 .. n : places[i] = k
  BY <1>1, <1>2, InOrderLists
<1>4. Only(q, K) = [i \in 1 .. n |-> q[places[i]]]
  BY DEF Only
<1> HIDE DEF n, places
<1>5. \A k \in K : q[k] \in T
  OBVIOUS
<1>6. Only(q, K) \in Seq(T) /\ Len(Only(q, K)) = n
  <2>1. \A i \in 1 .. n : q[places[i]] \in T
    BY <1>3, <1>5
  <2>2. Only(q, K) \in [1 .. n -> T]
    BY <1>4, <2>1
  <2>3. QED BY <1>3, <2>2
<1>7. QED BY <1>3, <1>4, <1>6

\* A set of numbers that is not empty has a least one.
LEMMA LeastExists ==
    ASSUME NEW K \in SUBSET Int, IsFiniteSet(K), K # {}
    PROVE  \E k \in K : \A j \in K : k <= j
<1> DEFINE down(k) == {y \in K : y = k \/ <<y, k>> \in Ascending(K)}
<1>1. Cardinality(K) \in Nat /\ Cardinality(K) # 0
  BY FS_CardinalityType, FS_EmptySet
<1>2. PICK k \in K : Rank(K, Ascending(K), k) = 1
  BY <1>1, NumbersOrdered, RanksAreOnto
<1>3. SUFFICES ASSUME NEW j \in K, j < k PROVE FALSE
  OBVIOUS
<1>4. down(k) \in SUBSET K /\ Cardinality(down(k)) = 1
  BY <1>2 DEF Rank
<1>5. j \in down(k) /\ k \in down(k)
  BY <1>3 DEF Ascending
<1> HIDE DEF down
<1>6. PICK z : down(k) = {z}
  BY <1>4, FS_Subset, FS_Singleton
<1>7. j = k
  BY <1>5, <1>6
<1>8. QED BY <1>3, <1>7

\* FirstOf is the MR of the first of the places.
LEMMA FirstOfFinds ==
    ASSUME NEW q \in Seq(Items), NEW K \in SUBSET (1 .. Len(q)), K # {}
    PROVE  \E k \in K : FirstOf(q, K) = q[k].ref /\ \A j \in K : k <= j
<1>1. IsFiniteSet(K)
  BY PlacesFinite
<1>2. \E k \in K : \A j \in K : k <= j
  BY <1>1, LeastExists
<1>3. QED BY <1>2 DEF FirstOf

(* An MR has one item in the queue. *)
RefsDiffer(q) == \A j, k \in 1 .. Len(q) : q[j].ref = q[k].ref => j = k

\* The item of an MR in the queue.
LEMMA ItemOfFinds ==
    ASSUME NEW q \in Seq(Items), NEW m \in RefsOf(q)
    PROVE  /\ PlaceOf(q, m) \in 1 .. Len(q)
           /\ ItemOf(q, m) = q[PlaceOf(q, m)] /\ ItemOf(q, m) \in Items /\ ItemOf(q, m).ref = m
           /\ RefsDiffer(q) => \A k \in 1 .. Len(q) : q[k].ref = m => PlaceOf(q, m) = k
<1>1. \E k \in 1 .. Len(q) : q[k].ref = m
  BY DEF RefsOf
<1>2. PlaceOf(q, m) \in 1 .. Len(q) /\ q[PlaceOf(q, m)].ref = m
  BY <1>1 DEF PlaceOf
<1>3. QED BY <1>2 DEF ItemOf, RefsDiffer

\* NextRef names the first merging item, or else the first pending one.
LEMMA NextRefFinds ==
    ASSUME NEW q \in Seq(Items), NextRef(q) # NoMR
    PROVE  /\ ~Halted(q)
           /\ \E k \in 1 .. Len(q) :
                 /\ NextRef(q) = q[k].ref
                 /\ \/ q[k].status = "merging"
                    \/ /\ q[k].status = "pending"
                       /\ \A j \in 1 .. Len(q) : q[j].status # "merging"
                       /\ \A j \in 1 .. k - 1 : q[j].status # "pending"
<1>1. ~Halted(q) /\ Where(q, {"pending", "merging"}) # {}
  BY DEF NextRef
<1>2. CASE Where(q, {"merging"}) # {}
  <2>1. NextRef(q) = FirstOf(q, Where(q, {"merging"}))
    BY <1>1, <1>2 DEF NextRef
  <2>2. PICK k \in Where(q, {"merging"}) : NextRef(q) = q[k].ref
    BY ZenonT(60), <1>2, <2>1, FirstOfFinds DEF Where
  <2>3. k \in 1 .. Len(q) /\ q[k].status = "merging"
    BY <2>2 DEF Where
  <2>4. QED BY <1>1, <2>2, <2>3
<1>3. CASE Where(q, {"merging"}) = {}
  <2>1. NextRef(q) = FirstOf(q, Where(q, {"pending"})) /\ Where(q, {"pending"}) # {}
    BY <1>1, <1>3 DEF NextRef, Where
  <2>2. PICK k \in Where(q, {"pending"}) : NextRef(q) = q[k].ref /\ \A j \in Where(q, {"pending"}) : k <= j
    BY <2>1, FirstOfFinds DEF Where
  <2>3. \A j \in 1 .. Len(q) : q[j].status # "merging"
    BY <1>3 DEF Where
  <2>4. \A j \in 1 .. k - 1 : q[j].status # "pending"
    BY <2>2 DEF Where
  <2>5. QED BY <1>1, <2>2, <2>3, <2>4 DEF Where
<1>4. QED BY <1>2, <1>3

\* Trails are bounded sets of numbers, and no two MRs have the same.
LEMMA TrailsDiffer ==
    ASSUME NEW m \in MRs, NEW n \in MRs
    PROVE  /\ Trail(m) \in SUBSET Nat /\ IsFiniteSet(Trail(m))
           /\ Trail(m) = Trail(n) => m = n
<1>1. \A a \in Listed : a \in Nat /\ a <= LastMR
  BY QueueAssumption DEF Listed, MRs
<1>2. Above(m) \subseteq Listed /\ Above(n) \subseteq Listed
  BY DEF Above
<1>3. m \in Nat /\ m <= LastMR /\ n \in Nat /\ LastMR \in Nat
  BY QueueAssumption DEF MRs
<1>4. Trail(m) \in SUBSET Nat /\ \A d \in Trail(m) : d <= 2 * LastMR + 1
  BY <1>1, <1>2, <1>3 DEF Trail
<1>5. IsFiniteSet(Trail(m))
  <2>1. PICK n0 \in Nat : n0 = 2 * LastMR + 1
    BY <1>3
  <2>2. \A d \in Trail(m) : d <= n0
    BY <1>4, <2>1
  <2>3. QED BY <1>4, <2>2, FS_BoundedSetOfNaturals
<1>6. ASSUME Trail(m) = Trail(n) PROVE m = n
  <2>1. 2 * m + 1 \in Trail(n)
    BY <1>6 DEF Trail
  <2>2. \A a \in Above(n) : 2 * a # 2 * m + 1
    BY <1>1, <1>2, <1>3
  <2>3. 2 * m + 1 = 2 * n + 1
    BY <2>1, <2>2 DEF Trail
  <2>4. QED BY <1>3, <2>3
<1>7. QED BY <1>4, <1>5, <1>6

\* Before orders the MRs.
LEMMA BeforeOrders ==
    /\ \A m \in MRs : ~Before(m, m)
    /\ \A l, m, n \in MRs : Before(l, m) /\ Before(m, n) => Before(l, n)
    /\ \A m, n \in MRs : m # n => Before(m, n) \/ Before(n, m)
<1>1. \A m \in MRs : ~Before(m, m)
  BY DEF Before
<1>2. ASSUME NEW l \in MRs, NEW m \in MRs, NEW n \in MRs, Before(l, m), Before(m, n)
      PROVE  Before(l, n)
  <2> DEFINE L == Trail(l)
             M == Trail(m)
             N == Trail(n)
  <2>1. PICK d \in L \ M : \A e \in M \ L : d < e
    BY <1>2 DEF Before
  <2>2. PICK f \in M \ N : \A e \in N \ M : f < e
    BY <1>2 DEF Before
  <2>3. L \subseteq Nat /\ M \subseteq Nat /\ N \subseteq Nat
    BY TrailsDiffer
  <2>4. Before(l, n) <=> \E g \in L \ N : \A e \in N \ L : g < e
    BY DEF Before
  <2> HIDE DEF L, M, N
  <2>5. CASE d < f
    <3>1. d \in L \ N
      BY <2>1, <2>2, <2>3, <2>5
    <3>2. \A e \in N \ L : d < e
      BY <2>1, <2>2, <2>3, <2>5
    <3>3. QED BY <2>4, <3>1, <3>2
  <2>6. CASE f < d
    <3>1. f \in L \ N
      BY <2>1, <2>2, <2>3, <2>6
    <3>2. \A e \in N \ L : f < e
      BY <2>1, <2>2, <2>3, <2>6
    <3>3. QED BY <2>4, <3>1, <3>2
  <2>7. QED BY <2>1, <2>2, <2>3, <2>5, <2>6
<1>3. ASSUME NEW m \in MRs, NEW n \in MRs, m # n
      PROVE  Before(m, n) \/ Before(n, m)
  <2> DEFINE M == Trail(m)
             N == Trail(n)
             D == (M \ N) \cup (N \ M)
  <2>1. M \in SUBSET Nat /\ N \in SUBSET Nat /\ IsFiniteSet(M) /\ IsFiniteSet(N) /\ M # N
    BY <1>3, TrailsDiffer
  <2>2. /\ Before(m, n) <=> \E g \in M \ N : \A e \in N \ M : g < e
        /\ Before(n, m) <=> \E g \in N \ M : \A e \in M \ N : g < e
    BY DEF Before
  <2> HIDE DEF M, N
  <2>3. D \in SUBSET Int /\ D # {} /\ D \in SUBSET (M \cup N)
    BY <2>1
  <2>4. IsFiniteSet(D)
    BY <2>1, <2>3, FS_Union, FS_Subset
  <2>5. PICK d \in D : \A e \in D : d <= e
    BY <2>3, <2>4, LeastExists
  <2>6. QED BY <2>1, <2>2, <2>5
<1>4. QED BY <1>1, <1>2, <1>3

\* Propose lists what is proposed, each MR once.
LEMMA ProposeLists ==
    /\ Propose \in Seq(MRs)
    /\ \A i, j \in 1 .. Len(Propose) : Propose[i] = Propose[j] => i = j
    /\ \A i \in 1 .. Len(Propose) : Propose[i] \in Proposed
    /\ \A m \in Proposed : \E i \in 1 .. Len(Propose) : Propose[i] = m
<1>1. Proposed \in SUBSET MRs
  BY DEF Proposed, Listed
<1>2. IsFiniteSet(Proposed)
  <2>1. LastMR \in Int
    BY QueueAssumption
  <2>2. IsFiniteSet(MRs)
    BY <2>1, FS_Interval DEF MRs
  <2>3. QED BY <1>1, <2>2, FS_Subset
<1>3. IsOrder(Proposed, DepthFirst)
  <2>1. \A x, y \in Proposed : <<x, y>> \in DepthFirst <=> Before(x, y)
    BY DEF DepthFirst
  <2>2. QED BY <1>1, <2>1, BeforeOrders DEF IsOrder
<1> DEFINE n == Cardinality(Proposed)
<1>4. /\ n \in Nat
      /\ Propose \in [1 .. n -> Proposed]
      /\ \A i, j \in 1 .. n : Propose[i] = Propose[j] => i = j
      /\ \A m \in Proposed : \E i \in 1 .. n : Propose[i] = m
  BY <1>2, <1>3, InOrderLists DEF Propose
<1> HIDE DEF n
<1>5. Propose \in Seq(MRs) /\ Len(Propose) = n
  <2>1. Propose \in [1 .. n -> MRs]
    BY <1>1, <1>4
  <2>2. QED BY <1>4, <2>1
<1>6. QED BY <1>4, <1>5

\* queue_set: what is in the queue then was in it, or is new and pending.
LEMMA QueueSetGives ==
    ASSUME NEW q \in Seq(Items), RefsDiffer(q),
           NEW refs \in Seq(MRs), \A i, j \in 1 .. Len(refs) : refs[i] = refs[j] => i = j
    PROVE  LET new == QueueSet(q, refs) IN
           /\ new \in Seq(Items) /\ RefsDiffer(new)
           /\ \A k \in 1 .. Len(new) :
                 \/ \E i \in 1 .. Len(refs) : refs[i] \notin RefsOf(q) /\ new[k] = Item(refs[i], "pending")
                 \/ \E j \in 1 .. Len(q) : /\ new[k] = q[j]
                                           /\ q[j].ref \in ToSet(refs) \/ q[j].status \in {"verifying", "halted"}
           /\ ToSet(refs) \subseteq RefsOf(new)
<1> DEFINE K == {k \in Where(q, {"verifying", "halted"}) : q[k].ref \notin ToSet(refs)}
           old == Only(q, K)
           named == [k \in 1 .. Len(refs) |-> IF refs[k] \in RefsOf(q) THEN ItemOf(q, refs[k])
                                              ELSE Item(refs[k], "pending")]
           new == QueueSet(q, refs)
<1>1. K \in SUBSET (1 .. Len(q))
  BY DEF Where
<1> HIDE DEF K
<1>2. old \in Seq(Items) /\ Len(old) \in Nat
  BY <1>1, OnlyPicks
<1>10. PICK p \in [1 .. Len(old) -> K] :
            /\ \A i \in 1 .. Len(old) : old[i] = q[p[i]]
            /\ \A i, j \in 1 .. Len(old) : p[i] = p[j] => i = j
  BY SMTT(30), <1>1, OnlyPicks
<1>3. new = old \o named
  BY DEF QueueSet, K
<1>4. \A k \in K : k \in 1 .. Len(q) /\ q[k].ref \notin ToSet(refs) /\ q[k].status \in {"verifying", "halted"}
  BY DEF Where, K
<1>5. \A k \in 1 .. Len(refs) :
         /\ named[k].ref = refs[k] /\ named[k] \in Items
         /\ \/ refs[k] \notin RefsOf(q) /\ named[k] = Item(refs[k], "pending")
            \/ \E j \in 1 .. Len(q) : named[k] = q[j] /\ q[j].ref = refs[k]
  <2> SUFFICES ASSUME NEW k \in 1 .. Len(refs)
               PROVE  /\ named[k].ref = refs[k] /\ named[k] \in Items
                      /\ \/ refs[k] \notin RefsOf(q) /\ named[k] = Item(refs[k], "pending")
                         \/ \E j \in 1 .. Len(q) : named[k] = q[j] /\ q[j].ref = refs[k]
    OBVIOUS
  <2>1. refs[k] \in MRs
    OBVIOUS
  <2>2. CASE refs[k] \in RefsOf(q)
    <3>1. named[k] = ItemOf(q, refs[k])
      BY <2>2
    <3>2. QED BY <2>2, <3>1, ItemOfFinds
  <2>3. CASE refs[k] \notin RefsOf(q)
    <3>1. named[k] = Item(refs[k], "pending")
      BY <2>3
    <3>2. QED BY <2>1, <2>3, <3>1, QueueAssumption DEF Item, Items, Statuses
  <2>4. QED BY <2>2, <2>3
<1>6. named \in Seq(Items) /\ Len(named) = Len(refs)
  <2>1. named \in [1 .. Len(refs) -> Items]
    BY <1>5
  <2>2. QED BY <2>1
<1>7. ToSet(refs) = {refs[i] : i \in 1 .. Len(refs)}
  BY DEF ToSet
<1> HIDE DEF old, named, new
<1>8. new \in Seq(Items) /\ Len(new) = Len(old) + Len(refs)
  <2>1. Len(old \o named) = Len(old) + Len(named) /\ old \o named \in Seq(Items)
    BY <1>2, <1>6
  <2>2. QED BY <1>3, <1>6, <2>1
<1>9. /\ \A k \in 1 .. Len(old) : k \in 1 .. Len(new) /\ new[k] = old[k]
      /\ \A k \in 1 .. Len(new) :
            k \notin 1 .. Len(old) => /\ k - Len(old) \in 1 .. Len(refs)
                                     /\ new[k] = named[k - Len(old)]
  BY <1>2, <1>3, <1>6, <1>8
<1>11. RefsDiffer(new)
  <2> SUFFICES ASSUME NEW j \in 1 .. Len(new), NEW k \in 1 .. Len(new), new[j].ref = new[k].ref
               PROVE  j = k
    BY DEF RefsDiffer
  <2>1. CASE j \in 1 .. Len(old) /\ k \in 1 .. Len(old)
    <3>1. new[j] = q[p[j]] /\ new[k] = q[p[k]]
      BY <1>9, <1>10, <2>1
    <3>2. p[j] \in 1 .. Len(q) /\ p[k] \in 1 .. Len(q)
      BY <1>1, <2>1
    <3>3. QED BY <1>10, <2>1, <3>1, <3>2 DEF RefsDiffer
  <2>2. CASE j \notin 1 .. Len(old) /\ k \notin 1 .. Len(old)
    <3>1. /\ j - Len(old) \in 1 .. Len(refs) /\ new[j] = named[j - Len(old)]
          /\ k - Len(old) \in 1 .. Len(refs) /\ new[k] = named[k - Len(old)]
      BY <1>9, <2>2
    <3>2. refs[j - Len(old)] = refs[k - Len(old)]
      BY <1>5, <3>1
    <3>3. j - Len(old) = k - Len(old)
      BY <3>1, <3>2
    <3>4. Len(old) \in Nat
      BY <1>2
    <3>5. QED BY <3>3, <3>4
  <2>3. \A a, b \in 1 .. Len(new) : a \in 1 .. Len(old) /\ b \notin 1 .. Len(old) => new[a].ref # new[b].ref
    <3> SUFFICES ASSUME NEW a \in 1 .. Len(old), NEW b \in 1 .. Len(new), b \notin 1 .. Len(old)
                 PROVE  (IF a \in 1 .. Len(new) THEN new[a].ref # new[b].ref ELSE TRUE)
      OBVIOUS
    <3>1. new[a] = q[p[a]] /\ p[a] \in K
      BY <1>9, <1>10
    <3>2. b - Len(old) \in 1 .. Len(refs) /\ new[b].ref = refs[b - Len(old)]
      BY <1>5, <1>9
    <3>3. QED BY <1>4, <1>7, <3>1, <3>2
  <2>4. QED BY <2>1, <2>2, <2>3
<1>12. \A k \in 1 .. Len(new) :
          \/ \E i \in 1 .. Len(refs) : refs[i] \notin RefsOf(q) /\ new[k] = Item(refs[i], "pending")
          \/ \E j \in 1 .. Len(q) : /\ new[k] = q[j]
                                    /\ q[j].ref \in ToSet(refs) \/ q[j].status \in {"verifying", "halted"}
  <2> SUFFICES ASSUME NEW k \in 1 .. Len(new)
               PROVE  \/ \E i \in 1 .. Len(refs) : refs[i] \notin RefsOf(q) /\ new[k] = Item(refs[i], "pending")
                      \/ \E j \in 1 .. Len(q) : /\ new[k] = q[j]
                                                /\ q[j].ref \in ToSet(refs) \/ q[j].status \in {"verifying", "halted"}
    OBVIOUS
  <2>1. CASE k \in 1 .. Len(old) /\ new[k] = old[k]
    <3>1. new[k] = q[p[k]] /\ p[k] \in K
      BY <1>10, <2>1
    <3>2. QED BY <1>4, <3>1
  <2>2. CASE k - Len(old) \in 1 .. Len(refs) /\ new[k] = named[k - Len(old)]
    <3>1. PICK i \in 1 .. Len(refs) : new[k] = named[i]
      BY <2>2
    <3>2. refs[i] \in ToSet(refs)
      BY <1>7
    <3>3. QED BY <1>5, <3>1, <3>2
  <2>3. QED BY <1>9, <2>1, <2>2
<1>13. ToSet(refs) \subseteq RefsOf(new)
  <2> SUFFICES ASSUME NEW i \in 1 .. Len(refs) PROVE refs[i] \in RefsOf(new)
    BY <1>7
  <2>1. Len(old) + i \in 1 .. Len(new) /\ new[Len(old) + i] = named[i]
    BY <1>2, <1>3, <1>6, <1>8
  <2>2. new[Len(old) + i].ref = refs[i]
    BY <1>5, <2>1
  <2>3. QED BY <2>1, <2>2 DEF RefsOf
<1>14. QED BY <1>8, <1>11, <1>12, <1>13 DEF new

\* Two sequences one after the other.
LEMMA ConcatGives ==
    ASSUME NEW T, NEW a \in Seq(T), NEW b \in Seq(T)
    PROVE  /\ a \o b \in Seq(T) /\ Len(a \o b) = Len(a) + Len(b)
           /\ Len(a) \in Nat /\ Len(b) \in Nat
           /\ \A k \in 1 .. Len(a) : k \in 1 .. Len(a \o b) /\ (a \o b)[k] = a[k]
           /\ \A k \in 1 .. Len(a \o b) :
                 k \notin 1 .. Len(a) => /\ k > Len(a) /\ k - Len(a) \in 1 .. Len(b)
                                         /\ (a \o b)[k] = b[k - Len(a)]
  OBVIOUS

\* queue_append: what was in the queue stays, and what is new comes after it.
LEMMA QueueAppendGives ==
    ASSUME NEW q \in Seq(Items), RefsDiffer(q),
           NEW order \in Seq(MRs), \A i, j \in 1 .. Len(order) : order[i] = order[j] => i = j
    PROVE  LET new == QueueAppend(q, order) IN
           /\ new \in Seq(Items) /\ RefsDiffer(new)
           /\ \A k \in 1 .. Len(q) : k \in 1 .. Len(new) /\ new[k] = q[k]
           /\ \A k \in 1 .. Len(new) :
                 k \notin 1 .. Len(q) => /\ k > Len(q)
                                         /\ \E i \in 1 .. Len(order) : /\ order[i] \notin RefsOf(q)
                                                                       /\ new[k] = Item(order[i], "pending")
<1> DEFINE K == {k \in 1 .. Len(order) : order[k] \notin RefsOf(q)}
           missing == Only(order, K)
           added == [k \in 1 .. Len(missing) |-> Item(missing[k], "pending")]
           new == QueueAppend(q, order)
<1>1. K \in SUBSET (1 .. Len(order)) /\ \A k \in K : order[k] \notin RefsOf(q)
  OBVIOUS
<1>2. new = q \o added
  BY DEF QueueAppend
<1> HIDE DEF K
<1>3. missing \in Seq(MRs) /\ Len(missing) \in Nat
  BY <1>1, OnlyPicks
<1>4. PICK p \in [1 .. Len(missing) -> K] :
            /\ \A i \in 1 .. Len(missing) : missing[i] = order[p[i]]
            /\ \A i, j \in 1 .. Len(missing) : p[i] = p[j] => i = j
  BY SMTT(30), <1>1, OnlyPicks
<1> HIDE DEF missing
<1>5. \A i \in 1 .. Len(missing) : /\ missing[i] \in MRs /\ missing[i] \notin RefsOf(q)
                                   /\ p[i] \in 1 .. Len(order) /\ missing[i] = order[p[i]]
  <2> SUFFICES ASSUME NEW i \in 1 .. Len(missing)
               PROVE  /\ missing[i] \in MRs /\ missing[i] \notin RefsOf(q)
                      /\ p[i] \in 1 .. Len(order) /\ missing[i] = order[p[i]]
    OBVIOUS
  <2>1. p[i] \in K /\ missing[i] = order[p[i]]
    BY <1>4
  <2>2. p[i] \in 1 .. Len(order) /\ order[p[i]] \notin RefsOf(q)
    BY <1>1, <2>1
  <2>3. QED BY <1>3, <2>1, <2>2
<1>6. \A i, j \in 1 .. Len(missing) : missing[i] = missing[j] => i = j
  <2> SUFFICES ASSUME NEW i \in 1 .. Len(missing), NEW j \in 1 .. Len(missing), missing[i] = missing[j]
               PROVE  i = j
    OBVIOUS
  <2>1. p[i] \in 1 .. Len(order) /\ p[j] \in 1 .. Len(order) /\ order[p[i]] = order[p[j]]
    BY <1>5
  <2>2. p[i] = p[j]
    BY <2>1
  <2>3. QED BY <1>4, <2>2
<1>7. \A i \in 1 .. Len(missing) : /\ added[i] = Item(missing[i], "pending")
                                   /\ added[i] \in Items /\ added[i].ref = missing[i]
  BY <1>5, QueueAssumption DEF Item, Items, Statuses
<1>8. added \in Seq(Items) /\ Len(added) = Len(missing)
  <2>1. added \in [1 .. Len(missing) -> Items]
    BY <1>7
  <2>2. QED BY SMTT(30), <1>3, <2>1
<1> HIDE DEF added, new
<1>9. new \in Seq(Items) /\ Len(new) = Len(q) + Len(missing)
  <2>1. q \o added \in Seq(Items) /\ Len(q \o added) = Len(q) + Len(added)
    BY <1>8, ConcatGives
  <2>2. QED BY <1>2, <1>8, <2>1
<1>10. /\ \A k \in 1 .. Len(q) : k \in 1 .. Len(new) /\ new[k] = q[k]
       /\ \A k \in 1 .. Len(new) :
             k \notin 1 .. Len(q) => /\ k > Len(q)
                                     /\ k - Len(q) \in 1 .. Len(missing)
                                     /\ new[k] = added[k - Len(q)]
  BY <1>2, <1>8, ConcatGives
<1>11. RefsDiffer(new)
  <2> SUFFICES ASSUME NEW j \in 1 .. Len(new), NEW k \in 1 .. Len(new), new[j].ref = new[k].ref
               PROVE  j = k
    BY DEF RefsDiffer
  <2>1. CASE j \in 1 .. Len(q) /\ k \in 1 .. Len(q)
    BY <1>10, <2>1 DEF RefsDiffer
  <2>2. CASE j \notin 1 .. Len(q) /\ k \notin 1 .. Len(q)
    <3>1. /\ j - Len(q) \in 1 .. Len(missing) /\ new[j].ref = missing[j - Len(q)]
          /\ k - Len(q) \in 1 .. Len(missing) /\ new[k].ref = missing[k - Len(q)]
      BY <1>7, <1>10, <2>2
    <3>2. j - Len(q) = k - Len(q)
      BY <1>6, <3>1
    <3>3. Len(q) \in Nat
      OBVIOUS
    <3>4. QED BY <3>2, <3>3
  <2>3. \A a \in 1 .. Len(q), b \in 1 .. Len(new) : b \notin 1 .. Len(q) => new[a].ref # new[b].ref
    <3> SUFFICES ASSUME NEW a \in 1 .. Len(q), NEW b \in 1 .. Len(new), b \notin 1 .. Len(q)
                 PROVE  new[a].ref # new[b].ref
      OBVIOUS
    <3>1. new[a].ref \in RefsOf(q)
      BY <1>10 DEF RefsOf
    <3>2. new[b].ref = missing[b - Len(q)] /\ b - Len(q) \in 1 .. Len(missing)
      BY <1>7, <1>10
    <3>3. QED BY <1>5, <3>1, <3>2
  <2>4. QED BY <2>1, <2>2, <2>3
<1>12. \A k \in 1 .. Len(new) :
          k \notin 1 .. Len(q) => \E i \in 1 .. Len(order) : /\ order[i] \notin RefsOf(q)
                                                             /\ new[k] = Item(order[i], "pending")
  <2> SUFFICES ASSUME NEW k \in 1 .. Len(new), k \notin 1 .. Len(q)
               PROVE  \E i \in 1 .. Len(order) : order[i] \notin RefsOf(q) /\ new[k] = Item(order[i], "pending")
    OBVIOUS
  <2>1. k - Len(q) \in 1 .. Len(missing) /\ new[k] = Item(missing[k - Len(q)], "pending")
    BY <1>7, <1>10
  <2>2. p[k - Len(q)] \in 1 .. Len(order) /\ missing[k - Len(q)] = order[p[k - Len(q)]]
        /\ missing[k - Len(q)] \notin RefsOf(q)
    BY <1>5, <2>1
  <2>3. QED BY <2>1, <2>2
<1>13. QED BY <1>9, <1>10, <1>11, <1>12 DEF new

\* queue_update changes one item, and leaves its MR.
LEMMA SetStatusGives ==
    ASSUME queue \in Seq(Items), NEW m, NEW value \in Statuses, SetStatus(m, value)
    PROVE  /\ queue' \in Seq(Items) /\ Len(queue') = Len(queue)
           /\ \A k \in 1 .. Len(queue) :
                 /\ queue'[k].ref = queue[k].ref /\ queue'[k].rounds = queue[k].rounds
                 /\ queue'[k].approved = queue[k].approved
                 /\ queue'[k].status = IF queue[k].ref = m THEN value ELSE queue[k].status
           /\ RefsOf(queue') = RefsOf(queue)
           /\ RefsDiffer(queue) => RefsDiffer(queue')
           /\ \A n : ItemOf(queue', n) = queue'[PlaceOf(queue, n)]
<1>1. queue' = [k \in 1 .. Len(queue) |->
                  IF queue[k].ref = m THEN [queue[k] EXCEPT !.status = value] ELSE queue[k]]
  BY DEF SetStatus, Updated
<1>2. \A k \in 1 .. Len(queue) : queue[k] \in Items
  OBVIOUS
<1>3. queue' \in [1 .. Len(queue) -> Items]
  BY <1>1, <1>2 DEF Items
<1>4. queue' \in Seq(Items) /\ Len(queue') = Len(queue)
  BY <1>3
<1>5. \A k \in 1 .. Len(queue) :
                 /\ queue'[k].ref = queue[k].ref /\ queue'[k].rounds = queue[k].rounds
                 /\ queue'[k].approved = queue[k].approved
                 /\ queue'[k].status = IF queue[k].ref = m THEN value ELSE queue[k].status
  BY <1>1, <1>2 DEF Items
<1>6. RefsOf(queue') = RefsOf(queue) /\ (RefsDiffer(queue) => RefsDiffer(queue'))
  BY <1>4, <1>5 DEF RefsOf, RefsDiffer
<1>7. \A n : PlaceOf(queue', n) = PlaceOf(queue, n)
  BY <1>4, <1>5 DEF PlaceOf
<1>8. QED BY <1>4, <1>5, <1>6, <1>7 DEF ItemOf

\* An approval and a counted fix change nothing else of an item.
LEMMA NoteGives ==
    ASSUME queue \in Seq(Items), NEW m, NEW sha \in Nat,
           Updated(m, LAMBDA item : [item EXCEPT !.approved = sha])
    PROVE  /\ queue' \in Seq(Items) /\ Len(queue') = Len(queue)
           /\ \A k \in 1 .. Len(queue) :
                 /\ queue'[k].ref = queue[k].ref /\ queue'[k].rounds = queue[k].rounds
                 /\ queue'[k].status = queue[k].status
           /\ RefsOf(queue') = RefsOf(queue)
           /\ RefsDiffer(queue) => RefsDiffer(queue')
           /\ \A n : ItemOf(queue', n) = queue'[PlaceOf(queue, n)]
<1>1. queue' = [k \in 1 .. Len(queue) |->
                  IF queue[k].ref = m THEN [queue[k] EXCEPT !.approved = sha] ELSE queue[k]]
  BY DEF Updated
<1>2. \A k \in 1 .. Len(queue) : queue[k] \in Items
  OBVIOUS
<1>3. queue' \in [1 .. Len(queue) -> Items]
  BY <1>1, <1>2 DEF Items
<1>4. queue' \in Seq(Items) /\ Len(queue') = Len(queue)
  BY <1>3
<1>5. \A k \in 1 .. Len(queue) :
                 /\ queue'[k].ref = queue[k].ref /\ queue'[k].rounds = queue[k].rounds
                 /\ queue'[k].status = queue[k].status
  BY <1>1, <1>2 DEF Items
<1>6. RefsOf(queue') = RefsOf(queue) /\ (RefsDiffer(queue) => RefsDiffer(queue'))
  BY <1>4, <1>5 DEF RefsOf, RefsDiffer
<1>7. \A n : PlaceOf(queue', n) = PlaceOf(queue, n)
  BY <1>4, <1>5 DEF PlaceOf
<1>8. QED BY <1>4, <1>5, <1>6, <1>7 DEF ItemOf

\* A fix that is counted changes nothing else of an item.
LEMMA CountGives ==
    ASSUME queue \in Seq(Items), RefsDiffer(queue), NEW m \in RefsOf(queue), RoundsLeft(m),
           Updated(m, LAMBDA item : [item EXCEPT !.rounds = @ + 1])
    PROVE  /\ queue' \in Seq(Items) /\ Len(queue') = Len(queue)
           /\ \A k \in 1 .. Len(queue) :
                 /\ queue'[k].ref = queue[k].ref /\ queue'[k].status = queue[k].status
                 /\ queue'[k].rounds = IF queue[k].ref = m THEN queue[k].rounds + 1 ELSE queue[k].rounds
           /\ RefsOf(queue') = RefsOf(queue)
           /\ RefsDiffer(queue')
           /\ \A n : ItemOf(queue', n) = queue'[PlaceOf(queue, n)]
<1>1. queue' = [k \in 1 .. Len(queue) |->
                  IF queue[k].ref = m THEN [queue[k] EXCEPT !.rounds = @ + 1] ELSE queue[k]]
  BY DEF Updated
<1>2. \A k \in 1 .. Len(queue) : queue[k] \in Items
  OBVIOUS
<1>3. \A k \in 1 .. Len(queue) : queue[k].ref = m => queue[k].rounds < FixLimit
  BY ItemOfFinds DEF RoundsLeft
<1>4. queue' \in [1 .. Len(queue) -> Items]
  <2> SUFFICES ASSUME NEW k \in 1 .. Len(queue) PROVE queue'[k] \in Items
    BY <1>1
  <2>1. CASE queue[k].ref # m
    BY <1>1, <1>2, <2>1
  <2>2. CASE queue[k].ref = m
    <3>1. queue[k].rounds + 1 \in 0 .. FixLimit
      BY <1>2, <1>3, <2>2, QueueAssumption DEF Items
    <3>2. QED BY <1>1, <1>2, <2>2, <3>1 DEF Items
  <2>3. QED BY <2>1, <2>2
<1>5. queue' \in Seq(Items) /\ Len(queue') = Len(queue)
  BY <1>4
<1>6. \A k \in 1 .. Len(queue) :
                 /\ queue'[k].ref = queue[k].ref /\ queue'[k].status = queue[k].status
                 /\ queue'[k].rounds = IF queue[k].ref = m THEN queue[k].rounds + 1 ELSE queue[k].rounds
  BY <1>1, <1>2 DEF Items
<1>7. RefsOf(queue') = RefsOf(queue) /\ RefsDiffer(queue')
  <2>1. \A k \in 1 .. Len(queue) : queue'[k].ref = queue[k].ref
    BY <1>6
  <2>2. RefsOf(queue') = RefsOf(queue)
    BY <1>5, <2>1 DEF RefsOf
  <2>3. RefsDiffer(queue')
    BY <1>5, <2>1 DEF RefsDiffer
  <2>4. QED BY <2>2, <2>3
<1>8. \A n : PlaceOf(queue', n) = PlaceOf(queue, n)
  BY <1>5, <1>6 DEF PlaceOf
<1>9. QED BY <1>5, <1>6, <1>7, <1>8 DEF ItemOf

-----------------------------------------------------------------------------
(* The merge request queue. *)

(* A tick that works on an MR has its item in the queue. *)
RefKnown == tick.at \notin {"idle", "pick"} => Ref \in RefsOf(queue)

(* A fix is made only when a round is left for it. *)
RoundKept == tick.at \in {"push", "count"} => RoundsLeft(Ref)

(* What a tick takes for merged is merged, by the item's status, by the *)
(* verdict or by where the tick is, and who merged it does not matter.   *)
MergedInv ==
    /\ \A m \in byTick : forge[m].state = "merged"
    /\ \A k \in 1 .. Len(queue) :
          queue[k].status \in {"merging", "verifying", "halted", "done"} => forge[queue[k].ref].state = "merged"
    /\ \A k \in 1 .. Len(queue) :
          queue[k].status = "done" => ticket[queue[k].ref] = "seen" \/ queue[k].ref \in byHand
    /\ tick.at \in {"target", "merged", "ticket", "close"} => forge[Ref].state = "merged"
    /\ At("act") /\ tick.verdict = "merged" => forge[Ref].state = "merged"
    /\ At("close") => ticket[Ref] = "seen"

(* A head that was ready stays green as long as it is the head. *)
GreenInv ==
    At("act") /\ tick.verdict = "ready" =>
        \/ forge[Ref].state = "merged"
        \/ /\ forge[Ref].sha >= tick.sha
           /\ forge[Ref].sha = tick.sha => forge[Ref].ci = "success"

FileInv == QueueTypeOK /\ RefsDiffer(queue) /\ RefKnown /\ RoundKept
QueueInv == FileInv /\ MergedInv /\ GreenInv

(* What is merged stays merged, a head only moves on, and a green head stays *)
(* green. What a person said of an item is not taken back.                   *)
ForgeMovesOn ==
    /\ target' = target /\ byHand \subseteq byHand'
    /\ \A m \in MRs :
          /\ forge[m].state # "unopened" => forge'[m].state # "unopened"
          /\ forge[m].state = "merged" => forge'[m].state = "merged"
          /\ \/ forge'[m].state = "merged"
             \/ /\ forge'[m].sha >= forge[m].sha
                /\ forge'[m].sha = forge[m].sha /\ forge[m].ci = "success" => forge'[m].ci = "success"
          /\ ticket[m] = "seen" => ticket'[m] = "seen"

(* The steps, by what they touch. *)
ForgeStep(m) ==
    \/ Open(m)
    \/ \E merge \in {"clear", "conflict"} : PushByHand(m, merge)
    \/ CIEnds(m) \/ CancelCI(m) \/ RetryCI(m)
    \/ Approve(m) \/ Undraft(m) \/ Redraft(m) \/ CloseByHand(m)
    \/ \E drift \in {"clear", "behind", "conflict"} : MergeByHand(m, drift) \/ Reopen(m, drift)
TargetStep(m) ==
    (\E result \in {"success", "failed"} : TargetEnds(m, result)) \/ TargetRestarts(m)
OrderStep == StartTick \/ \E refs \in Orders : OrderedTick(refs)

(* mr may take the place of what the forge knows of m. *)
Succeeds(m, mr) ==
    /\ mr \in Requests
    /\ forge[m].state # "merged" /\ mr.state # "unopened"
    /\ \/ mr.state = "merged"
       \/ /\ mr.sha >= forge[m].sha
          /\ mr.sha = forge[m].sha /\ forge[m].ci = "success" => mr.ci = "success"

\* A push gives another head.
LEMMA PushedGives ==
    ASSUME NEW mr \in Requests, NEW merge \in {"clear", "behind", "conflict"}
    PROVE  /\ Pushed(mr, merge) \in Requests
           /\ Pushed(mr, merge).sha = mr.sha + 1
           /\ Pushed(mr, merge).state = mr.state /\ Pushed(mr, merge).draft = mr.draft
<1>1. mr.sha + 1 \in Nat
  BY DEF Requests
<1>2. Pushed(mr, merge) \in Requests
  BY <1>1, Zenon DEF Requests, Pushed
<1>3. QED BY <1>2 DEF Requests, Pushed

\* A merge changes the requests that have the same target.
LEMMA MergedIntoGives ==
    ASSUME forge \in [MRs -> Requests], NEW m \in MRs, forge[m].state = "open",
           NEW drift \in {"clear", "behind", "conflict"}, forge' = MergedInto(m, drift)
    PROVE  /\ forge' \in [MRs -> Requests]
           /\ forge'[m].state = "merged" /\ ~forge'[m].draft
           /\ \A n \in MRs \ {m} : forge'[n] = forge[n] \/ forge'[n] = [forge[n] EXCEPT !.merge = drift]
<1>1. Left \in Requests /\ Left.state = "merged" /\ ~Left.draft
  BY DEF Left, Blank, Requests
<1>2. \A n \in MRs : [forge[n] EXCEPT !.merge = drift] \in Requests
  BY DEF Requests
<1>3. /\ forge'[m] = Left
      /\ \A n \in MRs \ {m} : forge'[n] = forge[n] \/ forge'[n] = [forge[n] EXCEPT !.merge = drift]
  BY DEF MergedInto
<1>4. forge' = [n \in MRs |-> forge'[n]]
  BY DEF MergedInto
<1>5. ASSUME NEW n \in MRs PROVE forge'[n] \in Requests
  <2>1. CASE n = m
    BY <1>1, <1>3, <2>1
  <2>2. CASE n # m
    <3>1. forge'[n] = forge[n] \/ forge'[n] = [forge[n] EXCEPT !.merge = drift]
      BY <1>3, <2>2
    <3>2. QED BY <1>2, <3>1
  <2>3. QED BY <2>1, <2>2
<1>6. QED BY <1>1, <1>3, <1>4, <1>5

\* What one person does to the forge.
LEMMA ForgeStepMoves ==
    ASSUME QueueTypeOK, NEW m \in MRs, ForgeStep(m)
    PROVE  /\ forge' \in [MRs -> Requests]
           /\ targetCI' \in [MRs -> {"none", "running", "success", "failed"}]
           /\ ForgeMovesOn
           /\ UNCHANGED <<target, ticket, queue, tick, byTick, byHand, fixes, crashes>>
           /\ meddling' \in Nat /\ crashes + meddling' <= MaxTroubles
           /\ \A n \in MRs : targetCI'[n] # targetCI[n] => forge[n].state = "open"
<1>1. /\ forge \in [MRs -> Requests] /\ meddling \in Nat /\ crashes \in Nat /\ crashes + meddling <= MaxTroubles
      /\ targetCI \in [MRs -> {"none", "running", "success", "failed"}]
      /\ forge[m] \in Requests
  BY DEF QueueTypeOK
<1>2. UNCHANGED <<target, ticket, queue, tick, byTick, byHand, fixes, crashes>>
  BY DEF ForgeStep, Open, PushByHand, CIEnds, CancelCI, RetryCI, Approve, Undraft, Redraft, CloseByHand,
     Reopen, MergeByHand, OnForge, Aside
<1>3. meddling' \in Nat /\ crashes + meddling' <= MaxTroubles
  BY <1>1, QueueAssumption DEF ForgeStep, Open, PushByHand, CIEnds, CancelCI, RetryCI, Approve, Undraft,
     Redraft, CloseByHand, Reopen,
     MergeByHand, OnForge, Aside, Meddle
<1>4. CASE \E drift \in {"clear", "behind", "conflict"} : MergeByHand(m, drift)
  <2>1. PICK drift \in {"clear", "behind", "conflict"} : MergeByHand(m, drift)
    BY <1>4
  <2>2. forge[m].state = "open" /\ forge' = MergedInto(m, drift)
    BY <2>1 DEF MergeByHand, IsOpen
  <2>3. /\ forge' \in [MRs -> Requests]
        /\ forge'[m].state = "merged" /\ ~forge'[m].draft
        /\ \A n \in MRs \ {m} : forge'[n] = forge[n] \/ forge'[n] = [forge[n] EXCEPT !.merge = drift]
    BY <1>1, <2>2, MergedIntoGives
  <2>4. ForgeMovesOn
    <3> SUFFICES ASSUME NEW n \in MRs
                 PROVE  /\ forge[n].state # "unopened" => forge'[n].state # "unopened"
                        /\ forge[n].state = "merged" => forge'[n].state = "merged"
                        /\ \/ forge'[n].state = "merged"
                           \/ /\ forge'[n].sha >= forge[n].sha
                              /\ forge'[n].sha = forge[n].sha /\ forge[n].ci = "success" => forge'[n].ci = "success"
                        /\ ticket[n] = "seen" => ticket'[n] = "seen"
      BY <1>2 DEF ForgeMovesOn
    <3>1. forge[n] \in Requests
      BY <1>1
    <3>2. QED BY <1>2, <2>2, <2>3, <3>1 DEF Requests
  <2>5. /\ targetCI' \in [MRs -> {"none", "running", "success", "failed"}]
        /\ \A n \in MRs : targetCI'[n] # targetCI[n] => forge[n].state = "open"
    BY <1>1, <2>1, <2>2 DEF MergeByHand
  <2>6. QED BY <1>2, <1>3, <2>3, <2>4, <2>5
<1>5. CASE \/ Open(m)
           \/ \E merge \in {"clear", "conflict"} : PushByHand(m, merge)
           \/ CIEnds(m) \/ CancelCI(m) \/ RetryCI(m)
           \/ Approve(m) \/ Undraft(m) \/ Redraft(m) \/ CloseByHand(m)
           \/ \E drift \in {"clear", "behind", "conflict"} : Reopen(m, drift)
  <2>1. targetCI' = targetCI
    BY <1>5 DEF Open, PushByHand, CIEnds, CancelCI, RetryCI, Approve, Undraft, Redraft, CloseByHand, Reopen
  <2>2. \E mr : Succeeds(m, mr) /\ forge' = [forge EXCEPT ![m] = mr]
    <3>1. CASE Open(m)
      <4>1. Succeeds(m, [forge[m] EXCEPT !.state = "open"])
        BY <1>1, <3>1 DEF Succeeds, Requests, Open, OnForge, Aside
      <4>2. forge' = [forge EXCEPT ![m] = [forge[m] EXCEPT !.state = "open"]]
        BY <3>1 DEF Open, OnForge, Aside
      <4>3. QED BY <4>1, <4>2
    <3>2. CASE \E merge \in {"clear", "conflict"} : PushByHand(m, merge)
      <4>1. PICK merge \in {"clear", "conflict"} : PushByHand(m, merge)
        BY <3>2 DEF PushByHand, OnForge, Aside
      <4>2. Succeeds(m, Pushed(forge[m], merge))
        <5>1. forge[m].state = "open" /\ forge[m].sha \in Nat
          BY <1>1, <4>1 DEF Requests, PushByHand, IsOpen
        <5>2. QED BY <1>1, <5>1, PushedGives DEF Succeeds
      <4>3. forge' = [forge EXCEPT ![m] = Pushed(forge[m], merge)]
        BY <3>2, <4>1 DEF PushByHand, OnForge, Aside
      <4>4. QED BY <4>2, <4>3
    <3>3. CASE CIEnds(m)
      <4>1. PICK result \in {"success", "failed"} : forge' = [forge EXCEPT ![m] = [forge[m] EXCEPT !.ci = result]]
        BY <3>3 DEF CIEnds, OnForge, Aside
      <4>2. Succeeds(m, [forge[m] EXCEPT !.ci = result])
        BY <1>1, <3>3, <4>1 DEF Succeeds, Requests, CIEnds, OnForge, Aside, IsOpen
      <4>3. forge' = [forge EXCEPT ![m] = [forge[m] EXCEPT !.ci = result]]
        BY <3>3, <4>1 DEF CIEnds, OnForge, Aside
      <4>4. QED BY <4>2, <4>3
    <3>4. CASE CancelCI(m)
      <4>1. Succeeds(m, [forge[m] EXCEPT !.ci = "human"])
        BY <1>1, <3>4 DEF Succeeds, Requests, CancelCI, OnForge, Aside, IsOpen
      <4>2. forge' = [forge EXCEPT ![m] = [forge[m] EXCEPT !.ci = "human"]]
        BY <3>4 DEF CancelCI, OnForge, Aside
      <4>3. QED BY <4>1, <4>2
    <3>5. CASE RetryCI(m)
      <4>1. Succeeds(m, [forge[m] EXCEPT !.ci = "running"])
        BY <1>1, <3>5 DEF Succeeds, Requests, RetryCI, OnForge, Aside, IsOpen
      <4>2. forge' = [forge EXCEPT ![m] = [forge[m] EXCEPT !.ci = "running"]]
        BY <3>5 DEF RetryCI, OnForge, Aside
      <4>3. QED BY <4>1, <4>2
    <3>6. CASE Approve(m)
      <4>1. Succeeds(m, [forge[m] EXCEPT !.approved = TRUE])
        <5>1. [forge[m] EXCEPT !.approved = TRUE] \in Requests
          BY <1>1 DEF Requests
        <5>2. /\ [forge[m] EXCEPT !.approved = TRUE].state = "open"
              /\ [forge[m] EXCEPT !.approved = TRUE].sha = forge[m].sha
              /\ [forge[m] EXCEPT !.approved = TRUE].ci = forge[m].ci
              /\ [forge[m] EXCEPT !.approved = TRUE].draft = forge[m].draft
          BY <1>1, <3>6 DEF Requests, Approve, OnForge, Aside, IsOpen
        <5>3. forge[m].state = "open" /\ forge[m].sha \in Nat
          BY <1>1, <3>6 DEF Requests, Approve, OnForge, Aside, IsOpen
        <5>4. QED BY <5>1, <5>2, <5>3 DEF Succeeds
      <4>2. forge' = [forge EXCEPT ![m] = [forge[m] EXCEPT !.approved = TRUE]]
        BY <3>6 DEF Approve, OnForge, Aside
      <4>3. QED BY <4>1, <4>2
    <3>7. CASE Undraft(m)
      <4>1. Succeeds(m, [forge[m] EXCEPT !.draft = FALSE])
        <5>1. [forge[m] EXCEPT !.draft = FALSE] \in Requests
          BY <1>1 DEF Requests
        <5>2. /\ [forge[m] EXCEPT !.draft = FALSE].state = "open"
              /\ [forge[m] EXCEPT !.draft = FALSE].sha = forge[m].sha
              /\ [forge[m] EXCEPT !.draft = FALSE].ci = forge[m].ci
              /\ ~[forge[m] EXCEPT !.draft = FALSE].draft
          BY <1>1, <3>7 DEF Requests, Undraft, OnForge, Aside, IsOpen
        <5>3. forge[m].state = "open" /\ forge[m].sha \in Nat
          BY <1>1, <3>7 DEF Requests, Undraft, OnForge, Aside, IsOpen
        <5>4. QED BY <5>1, <5>2, <5>3 DEF Succeeds
      <4>2. forge' = [forge EXCEPT ![m] = [forge[m] EXCEPT !.draft = FALSE]]
        BY <3>7 DEF Undraft, OnForge, Aside
      <4>3. QED BY <4>1, <4>2
    <3>8. CASE Redraft(m)
      <4>1. Succeeds(m, [forge[m] EXCEPT !.draft = TRUE])
        <5>1. [forge[m] EXCEPT !.draft = TRUE] \in Requests
          BY <1>1 DEF Requests
        <5>2. /\ [forge[m] EXCEPT !.draft = TRUE].state = "open"
              /\ [forge[m] EXCEPT !.draft = TRUE].sha = forge[m].sha /\ [forge[m] EXCEPT !.draft = TRUE].ci = forge[m].ci
          BY <1>1, <3>8 DEF Requests, Redraft, OnForge, IsOpen
        <5>3. forge[m].state = "open" /\ forge[m].sha \in Nat
          BY <1>1, <3>8 DEF Requests, Redraft, OnForge, IsOpen
        <5>4. QED BY <5>1, <5>2, <5>3 DEF Succeeds
      <4>2. forge' = [forge EXCEPT ![m] = [forge[m] EXCEPT !.draft = TRUE]]
        BY <3>8 DEF Redraft, OnForge
      <4>3. QED BY <4>1, <4>2
    <3>9. CASE CloseByHand(m)
      <4>1. Succeeds(m, [forge[m] EXCEPT !.state = "closed"])
        <5>1. [forge[m] EXCEPT !.state = "closed"] \in Requests
          BY <1>1 DEF Requests
        <5>2. /\ [forge[m] EXCEPT !.state = "closed"].state = "closed"
              /\ [forge[m] EXCEPT !.state = "closed"].sha = forge[m].sha
              /\ [forge[m] EXCEPT !.state = "closed"].ci = forge[m].ci
          BY <1>1, <3>9 DEF Requests, CloseByHand, OnForge, IsOpen
        <5>3. forge[m].state = "open" /\ forge[m].sha \in Nat
          BY <1>1, <3>9 DEF Requests, CloseByHand, OnForge, IsOpen
        <5>4. QED BY <5>1, <5>2, <5>3 DEF Succeeds
      <4>2. forge' = [forge EXCEPT ![m] = [forge[m] EXCEPT !.state = "closed"]]
        BY <3>9 DEF CloseByHand, OnForge
      <4>3. QED BY <4>1, <4>2
    <3>10. CASE \E drift \in {"clear", "behind", "conflict"} : Reopen(m, drift)
      <4> DEFINE mr(drift) == [forge[m] EXCEPT !.state = "open", !.merge = IF @ = "clear" THEN drift ELSE @]
      <4>1. PICK drift \in {"clear", "behind", "conflict"} :
               forge[m].state = "closed" /\ forge' = [forge EXCEPT ![m] = mr(drift)]
        BY <3>10 DEF Reopen, OnForge
      <4>2. /\ mr(drift) \in Requests
            /\ mr(drift).state = "open" /\ mr(drift).sha = forge[m].sha /\ mr(drift).ci = forge[m].ci
        BY <1>1 DEF Requests
      <4> HIDE DEF mr
      <4>3. forge[m].sha \in Nat
        BY <1>1 DEF Requests
      <4>4. Succeeds(m, mr(drift))
        BY <4>1, <4>2, <4>3 DEF Succeeds
      <4>5. QED BY <4>1, <4>4
    <3>11. QED BY <1>5, <3>1, <3>2, <3>3, <3>4, <3>5, <3>6, <3>7, <3>8, <3>9, <3>10
  <2>3. forge' \in [MRs -> Requests]
    BY <1>1, <2>2 DEF Succeeds
  <2>4. ForgeMovesOn
    <3> SUFFICES ASSUME NEW n \in MRs
                 PROVE  /\ forge[n].state # "unopened" => forge'[n].state # "unopened"
                        /\ forge[n].state = "merged" => forge'[n].state = "merged"
                        /\ \/ forge'[n].state = "merged"
                           \/ /\ forge'[n].sha >= forge[n].sha
                              /\ forge'[n].sha = forge[n].sha /\ forge[n].ci = "success" => forge'[n].ci = "success"
                        /\ ticket[n] = "seen" => ticket'[n] = "seen"
      BY <1>2 DEF ForgeMovesOn
    <3>1. forge[n] \in Requests /\ (n # m => forge'[n] = forge[n])
      BY <1>1, <2>2
    <3>2. CASE n = m
      BY <1>1, <1>2, <2>2, <3>2 DEF Succeeds
    <3>3. CASE n # m
      BY <1>2, <3>1, <3>3 DEF Requests
    <3>4. QED BY <3>2, <3>3
  <2>5. QED BY <1>1, <1>2, <1>3, <2>1, <2>3, <2>4
<1>6. QED BY <1>4, <1>5 DEF ForgeStep

\* What a tick or a person does to the forge.
LEMMA ForgeMoves ==
    ASSUME QueueInv, QueueNext
    PROVE  ForgeMovesOn /\ forge' \in [MRs -> Requests]
<1>1. /\ QueueTypeOK /\ forge \in [MRs -> Requests] /\ ticket \in [MRs -> {"open", "seen"}]
      /\ \A m \in MRs : forge[m] \in Requests
      /\ tick.at \notin {"idle", "pick"} => Ref \in MRs
  <2>1. RefsOf(queue) \subseteq MRs
    <3>1. queue \in Seq(Items)
      BY DEF QueueInv, FileInv, QueueTypeOK
    <3>2. \A k \in 1 .. Len(queue) : queue[k] \in Items
      BY <3>1
    <3>3. QED BY <3>2 DEF RefsOf, Items
  <2>2. QED BY <2>1 DEF QueueInv, FileInv, QueueTypeOK, RefKnown
<1>2. CASE \E m \in MRs : ForgeStep(m)
  BY <1>1, <1>2, ForgeStepMoves
<1>3. CASE StartFix
  <2>1. Ref \in MRs /\ target' = target /\ ticket' = ticket /\ byHand' = byHand
    BY <1>1, <1>3 DEF StartFix, Acts, At
  <2>2. forge' = forge \/ (forge[Ref].ci = "running" /\ forge' = [forge EXCEPT ![Ref].ci = "human"])
    BY <1>3 DEF StartFix
  <2>3. forge' \in [MRs -> Requests]
    BY <1>1, <2>1, <2>2 DEF Requests
  <2>4. ForgeMovesOn
    BY <1>1, <2>1, <2>2 DEF ForgeMovesOn, Requests
  <2>5. QED BY <2>3, <2>4
<1>4. CASE Push
  <2>1. Ref \in MRs /\ target' = target /\ ticket' = ticket /\ byHand' = byHand
    BY <1>1, <1>4 DEF Push, At
  <2>2. \/ forge' = forge
        \/ \E merge \in {"clear", forge[Ref].merge} : /\ forge[Ref].state = "open"
                                                      /\ forge' = [forge EXCEPT ![Ref] = Pushed(@, merge)]
    BY <1>4 DEF Push
  <2>3. \A merge \in {"clear", forge[Ref].merge} :
           /\ Pushed(forge[Ref], merge) \in Requests
           /\ Pushed(forge[Ref], merge).sha = forge[Ref].sha + 1
           /\ Pushed(forge[Ref], merge).state = forge[Ref].state /\ Pushed(forge[Ref], merge).draft = forge[Ref].draft
    <3>1. forge[Ref] \in Requests /\ forge[Ref].merge \in {"clear", "behind", "conflict"}
      BY <1>1, <2>1 DEF Requests
    <3>2. QED BY <3>1, PushedGives
  <2>4. forge' \in [MRs -> Requests]
    BY <1>1, <2>1, <2>2, <2>3
  <2>5. ForgeMovesOn
    BY <1>1, <2>1, <2>2, <2>3 DEF ForgeMovesOn, Requests
  <2>6. QED BY <2>4, <2>5
<1>5. CASE Merge
  <2>1. Ref \in MRs /\ target' = target /\ ticket' = ticket /\ byHand' = byHand
    BY <1>1, <1>5 DEF Merge, Acts, At
  <2>2. CASE forge' = forge
    BY <1>1, <2>1, <2>2 DEF ForgeMovesOn, Requests
  <2>3. CASE \E drift \in {"clear", "behind", "conflict"} : forge' = MergedInto(Ref, drift) /\ forge[Ref].state = "open"
    <3>1. PICK drift \in {"clear", "behind", "conflict"} : forge' = MergedInto(Ref, drift) /\ forge[Ref].state = "open"
      BY <2>3
    <3>2. /\ forge' \in [MRs -> Requests]
          /\ forge'[Ref].state = "merged" /\ ~forge'[Ref].draft
          /\ \A n \in MRs \ {Ref} : forge'[n] = forge[n] \/ forge'[n] = [forge[n] EXCEPT !.merge = drift]
      BY <1>1, <2>1, <3>1, MergedIntoGives
    <3>3. ForgeMovesOn
      BY <1>1, <2>1, <3>1, <3>2 DEF ForgeMovesOn, Requests
    <3>4. QED BY <3>2, <3>3
  <2>4. QED BY <1>5, <2>2, <2>3 DEF Merge, HeadAsJudged
<1>6. CASE /\ UNCHANGED <<target, forge>> /\ byHand \subseteq byHand'
           /\ ticket' = ticket \/ ticket' = [ticket EXCEPT ![Ref] = "seen"]
  BY <1>1, <1>6 DEF ForgeMovesOn, Requests
<1>7. QED
  BY <1>2, <1>3, <1>4, <1>5, <1>6 DEF QueueNext, TickStep, People, ForgeStep,
     StartTick, OrderedTick, Pick, ReadTarget, Wait, DropClosed, TakeMerged, Ask, GiveUp, Unresolvable, CountRound,
     RecordMerge, SetTicketDone, CloseItem, Crash, TargetEnds, Aside, TargetRestarts, RestartItem, MarkDone,
     RecordByHand, LiftHalt, NotForge, OnlyTick

(* A step that leaves the items where they are. *)
ItemsStay ==
    /\ queue' \in Seq(Items) /\ Len(queue') = Len(queue)
    /\ \A k \in 1 .. Len(queue) : queue'[k].ref = queue[k].ref
    /\ RefsOf(queue') = RefsOf(queue) /\ RefsDiffer(queue')
    /\ \A n : ItemOf(queue', n) = queue'[PlaceOf(queue, n)]

\* What the types say of the MR of the tick and of its item.
LEMMA RefOfTick ==
    ASSUME FileInv, tick.at \notin {"idle", "pick"}
    PROVE  /\ Ref \in RefsOf(queue) /\ Ref \in MRs /\ forge[Ref] \in Requests /\ tick \in Ticks
           /\ queue \in Seq(Items)
<1>1. queue \in Seq(Items) /\ tick \in Ticks /\ forge \in [MRs -> Requests] /\ Ref \in RefsOf(queue)
  BY DEF FileInv, QueueTypeOK, RefKnown, Ticks
<1>2. \A k \in 1 .. Len(queue) : queue[k] \in Items
  BY <1>1
<1>3. Ref \in MRs
  BY <1>1, <1>2 DEF RefsOf, Items
<1>4. QED BY <1>1, <1>3

\* Only an order moves items.
LEMMA ItemsStayOtherwise ==
    ASSUME FileInv, QueueNext
    PROVE  OrderStep \/ ItemsStay
<1>1. queue \in Seq(Items) /\ RefsDiffer(queue) /\ tick \in Ticks /\ tick.sha \in Nat
  BY DEF FileInv, QueueTypeOK, Ticks
<1>2. CASE queue' = queue
  BY <1>1, <1>2 DEF ItemsStay, ItemOf
<1>3. CASE \E m, value : value \in Statuses /\ SetStatus(m, value)
  <2>1. PICK m, value : value \in Statuses /\ SetStatus(m, value)
    BY <1>3
  <2>2. QED BY <1>1, <2>1, SetStatusGives DEF ItemsStay
<1>4. CASE Updated(Ref, LAMBDA item : [item EXCEPT !.approved = tick.sha])
  BY <1>1, <1>4, NoteGives DEF ItemsStay
<1>5. CASE CountRound
  <2>1. Updated(Ref, LAMBDA item : [item EXCEPT !.rounds = @ + 1])
    BY <1>5 DEF CountRound
  <2>2. Ref \in RefsOf(queue)
    BY <1>5, RefOfTick DEF CountRound, At
  <2>3. RoundsLeft(Ref)
    BY <1>5 DEF CountRound, At, FileInv, RoundKept
  <2>4. QED BY <1>1, <2>1, <2>2, <2>3, CountGives DEF ItemsStay
<1>6. CASE \/ Pick \/ ReadTarget \/ Wait \/ DropClosed \/ TakeMerged \/ Ask \/ GiveUp \/ StartFix
           \/ Unresolvable \/ Push \/ Merge \/ RecordMerge \/ SetTicketDone \/ CloseItem \/ Crash
  BY <1>2, <1>3, <1>4, <1>6 DEF Pick, ReadTarget, Wait, DropClosed, TakeMerged, Ask, GiveUp, StartFix, Unresolvable,
     Push, Merge, RecordMerge, SetTicketDone, CloseItem, Crash, NotForge, OnlyTick, Statuses
<1>7. CASE \E m \in MRs : People(m)
  <2>1. PICK m \in MRs : People(m)
    BY <1>7
  <2>2. CASE RestartItem(m) \/ MarkDone(m) \/ RecordByHand(m) \/ LiftHalt(m)
    BY <1>3, <2>2 DEF RestartItem, Aside, MarkDone, RecordByHand, LiftHalt, Statuses
  <2>3. CASE ~(RestartItem(m) \/ MarkDone(m) \/ RecordByHand(m) \/ LiftHalt(m))
    <3>1. queue' = queue
      BY <2>1, <2>3 DEF People, Open, PushByHand, CIEnds, CancelCI, RetryCI, Approve, Undraft, Redraft,
         CloseByHand, Reopen, MergeByHand,
         OnForge, Aside, TargetEnds, TargetRestarts
    <3>2. QED BY <1>2, <3>1
  <2>4. QED BY <2>2, <2>3
<1>8. QED BY <1>5, <1>6, <1>7 DEF QueueNext, TickStep, OrderStep

\* The ticks that are not in the middle of a verdict.
LEMMA TickValues ==
    /\ Idle \in Ticks /\ Idle.at = "idle"
    /\ Again \in Ticks /\ Again.at = "pick"
    /\ \A m \in MRs, then \in {"end", "pick"} :
          /\ Closing(m, then) \in Ticks /\ Closing(m, then).at = "ticket" /\ Closing(m, then).ref = m
    /\ \A m \in MRs, place \in Places :
          /\ On(m, place) \in Ticks /\ On(m, place).at = place /\ On(m, place).ref = m
  BY ZenonT(60) DEF Idle, Again, On, Closing, Ticks, Places, Verdicts

\* A verdict is one of the ten.
LEMMA VerdictGives ==
    ASSUME NEW mr \in Requests, NEW sha
    PROVE  /\ Verdict(mr, sha) \in Verdicts
           /\ Verdict(mr, sha) = "merged" <=> mr.state = "merged"
           /\ Verdict(mr, sha) = "closed" <=> mr.state = "closed"
           /\ Verdict(mr, sha) = "ready" => mr.ci = "success"
<1>1. mr.state \in {"unopened", "open", "merged", "closed"} /\ mr.ci \in {"running", "success", "failed", "human"}
  BY DEF Requests
<1>2. QED BY <1>1 DEF Verdict, Verdicts

\* What Pick does: an item of the old track is closed, or else the first item
\* is looked at.
LEMMA PickGives ==
    ASSUME FileInv, Pick
    PROVE  \/ tick' = Idle
           \/ \E k \in 1 .. Len(queue) :
                 /\ queue[k].ref \in MRs
                 /\ \/ tick' = Closing(queue[k].ref, "pick") /\ queue[k].status = "verifying"
                    \/ tick' = On(queue[k].ref, "target") /\ queue[k].status = "merging"
                    \/ /\ tick' = Judged(queue[k].ref)
                       /\ queue[k].status = "pending"
                       /\ \A j \in 1 .. Len(queue) : queue[j].status # "merging"
                       /\ \A j \in 1 .. k - 1 : queue[j].status # "pending"
<1> DEFINE old == Where(queue, {"verifying"})
           next == NextRef(queue)
<1>1. queue \in Seq(Items) /\ RefsDiffer(queue)
  BY DEF FileInv, QueueTypeOK
<1>2. \A k \in 1 .. Len(queue) : queue[k] \in Items
  BY <1>1
<1>3. \A k \in 1 .. Len(queue) : queue[k].ref \in MRs
  BY <1>2 DEF Items
<1>4. tick' = IF old # {} THEN Closing(FirstOf(queue, old), "pick")
              ELSE IF next = NoMR THEN Idle
              ELSE IF ItemOf(queue, next).status = "merging" THEN On(next, "target")
              ELSE Judged(next)
  BY DEF Pick
<1>5. CASE old # {}
  <2>1. old \in SUBSET (1 .. Len(queue)) /\ \A k \in old : queue[k].status = "verifying"
    BY DEF Where
  <2> HIDE DEF old
  <2>2. PICK k \in old : FirstOf(queue, old) = queue[k].ref
    BY <1>1, <1>5, <2>1, FirstOfFinds
  <2>3. tick' = Closing(queue[k].ref, "pick")
    BY <1>4, <1>5, <2>2
  <2>4. QED BY <1>3, <2>1, <2>2, <2>3
<1>6. CASE old = {} /\ next = NoMR
  BY <1>4, <1>6
<1>7. CASE old = {} /\ next # NoMR
  <2>1. PICK k \in 1 .. Len(queue) :
                 /\ next = queue[k].ref
                 /\ \/ queue[k].status = "merging"
                    \/ /\ queue[k].status = "pending"
                       /\ \A j \in 1 .. Len(queue) : queue[j].status # "merging"
                       /\ \A j \in 1 .. k - 1 : queue[j].status # "pending"
    BY <1>1, <1>7, NextRefFinds
  <2>2. ItemOf(queue, next) = queue[k]
    <3>1. queue[k].ref \in RefsOf(queue)
      BY DEF RefsOf
    <3>2. QED BY <1>1, <2>1, <3>1, ItemOfFinds
  <2>3. tick' = IF queue[k].status = "merging" THEN On(queue[k].ref, "target")
                ELSE Judged(queue[k].ref)
    BY <1>4, <1>7, <2>1, <2>2
  <2> HIDE DEF next
  <2>4. CASE queue[k].status = "merging"
    BY <1>3, <2>3, <2>4
  <2>5. CASE queue[k].status # "merging"
    <3>1. tick' = Judged(queue[k].ref)
      BY <2>3, <2>5
    <3>2. QED BY <1>3, <2>1, <2>5, <3>1
  <2>6. QED BY <2>4, <2>5
<1>8. QED BY <1>5, <1>6, <1>7

\* The judgement of an MR.
LEMMA JudgedGives ==
    ASSUME FileInv, NEW m \in MRs
    PROVE  /\ Judged(m) \in Ticks
           /\ Judged(m).at = "act" /\ Judged(m).ref = m /\ Judged(m).sha = forge[m].sha
           /\ Judged(m).verdict = Verdict(forge[m], ItemOf(queue, m).approved)
<1>1. forge[m] \in Requests
  BY DEF FileInv, QueueTypeOK
<1>2. forge[m].sha \in Nat /\ Verdict(forge[m], ItemOf(queue, m).approved) \in Verdicts
  BY <1>1, VerdictGives DEF Requests
<1>3. QED BY <1>2 DEF Judged, On, Idle, Ticks, Places

\* The tick stays a tick, and works on an MR of the queue.
LEMMA TickKeepsType ==
    ASSUME FileInv, QueueNext
    PROVE  /\ tick' \in Ticks
           /\ tick'.at \in {"idle", "pick"} \/ tick'.ref \in RefsOf(queue)
<1>1. /\ tick \in Ticks /\ forge \in [MRs -> Requests] /\ queue \in Seq(Items)
      /\ tick.at \notin {"idle", "pick"} => Ref \in RefsOf(queue) /\ Ref \in MRs /\ forge[Ref] \in Requests
  <2>1. /\ tick \in Ticks /\ forge \in [MRs -> Requests] /\ queue \in Seq(Items)
    BY DEF FileInv, QueueTypeOK, Ticks
  <2>2. QED BY <2>1, RefOfTick
<1>2. Idle \in Ticks /\ Again \in Ticks /\ Idle.at = "idle" /\ Again.at = "pick"
  BY TickValues
<1>3. /\ \A m \in MRs, then \in {"end", "pick"} : Closing(m, then) \in Ticks /\ Closing(m, then).ref = m
      /\ \A m \in MRs, place \in Places : On(m, place) \in Ticks /\ On(m, place).ref = m
  BY TickValues
<1>4. CASE OrderStep
  <2>1. tick' = Again \/ tick' = [tick EXCEPT !.at = "pick"]
    BY <1>4 DEF OrderStep, StartTick, OrderedTick, Go
  <2>2. [tick EXCEPT !.at = "pick"] \in Ticks /\ [tick EXCEPT !.at = "pick"].at = "pick"
    BY <1>1 DEF Ticks, Places
  <2>3. QED BY <1>2, <2>1, <2>2
<1>5. CASE Pick
  <2>1. CASE tick' = Idle
    BY <1>2, <2>1
  <2>2. CASE tick' # Idle
    <3>1. PICK k \in 1 .. Len(queue) :
             /\ queue[k].ref \in MRs
             /\ \/ tick' = Closing(queue[k].ref, "pick")
                \/ tick' = On(queue[k].ref, "target")
                \/ tick' = Judged(queue[k].ref)
      BY <1>5, <2>2, PickGives
    <3>2. On(queue[k].ref, "target") \in Ticks
          /\ On(queue[k].ref, "target").ref = queue[k].ref
      BY <1>3, <3>1 DEF Places
    <3>3. tick' \in Ticks /\ tick'.ref = queue[k].ref
      BY <1>3, <3>1, <3>2, JudgedGives
    <3>4. queue[k].ref \in RefsOf(queue)
      BY DEF RefsOf
    <3>5. QED BY <3>3, <3>4
  <2>3. QED BY <2>1, <2>2
<1>6. CASE StartFix
  <2>1. tick' = [tick EXCEPT !.at = "push", !.sha = forge[Ref].sha] /\ tick.at = "act"
    BY <1>6 DEF StartFix, Acts, At
  <2>2. forge[Ref].sha \in Nat
    BY <1>1, <2>1 DEF Requests
  <2>3. tick' \in Ticks /\ tick'.ref = Ref
    BY <1>1, <2>1, <2>2 DEF Ref, Ticks, Places
  <2>4. QED BY <1>1, <2>1, <2>3
<1>7. CASE SetTicketDone
  <2>1. tick' = [tick EXCEPT !.at = "close"] /\ tick.at = "ticket"
    BY <1>7 DEF SetTicketDone, At, Go
  <2>2. tick' \in Ticks /\ tick'.ref = Ref
    BY <1>1, <2>1 DEF Ref, Ticks, Places
  <2>3. QED BY <1>1, <2>1, <2>2
<1>8. CASE Push \/ Merge
  <2>1. tick.at \notin {"idle", "pick"}
    BY <1>8 DEF Push, Merge, Acts, At
  <2>2. \/ tick' = Idle
        \/ tick' = On(Ref, "count")
        \/ tick' = On(Ref, "merged")
    BY <1>8 DEF Push, Merge, End
  <2>3. QED BY <1>1, <1>2, <1>3, <2>1, <2>2 DEF Places
<1>9. CASE CloseItem
  <2>1. tick' = Idle \/ tick' = Again
    BY <1>1, <1>9 DEF CloseItem, Ticks
  <2>2. QED BY <1>2, <2>1
<1>10. CASE ReadTarget \/ TakeMerged \/ RecordMerge
  <2>1. tick.at \notin {"idle", "pick"}
    BY <1>10 DEF ReadTarget, TakeMerged, RecordMerge, Acts, At
  <2>2. \/ tick' = Idle \/ tick' = Again
        \/ \E then \in {"end", "pick"} : tick' = Closing(Ref, then)
    BY <1>10 DEF ReadTarget, TakeMerged, RecordMerge, End
  <2>3. QED BY <1>1, <1>2, <1>3, <2>1, <2>2
<1>11. CASE Wait \/ DropClosed \/ Ask \/ GiveUp \/ Unresolvable \/ CountRound \/ Crash
  <2>1. tick' = Idle \/ tick' = Again
    BY <1>11 DEF Wait, DropClosed, Ask, GiveUp, Unresolvable, CountRound, Crash, End
  <2>2. QED BY <1>2, <2>1
<1>12. CASE \E m \in MRs : People(m)
  <2>1. tick' = tick
    BY <1>12 DEF People, Open, PushByHand, CIEnds, CancelCI, RetryCI, Approve, Undraft, Redraft, CloseByHand,
       Reopen, MergeByHand,
       OnForge, Aside, TargetEnds, TargetRestarts, RestartItem, MarkDone, RecordByHand, LiftHalt, NotForge
  <2>2. QED BY <1>1, <2>1 DEF Ref
<1>13. QED BY <1>4, <1>5, <1>6, <1>7, <1>8, <1>9, <1>10, <1>11, <1>12 DEF QueueNext, TickStep, OrderStep

\* An order of the user's names MRs of the forge, each once.
LEMMA OrdersAreLists ==
    ASSUME NEW refs \in Orders
    PROVE  /\ refs \in Seq(MRs)
           /\ \A i, j \in 1 .. Len(refs) : refs[i] = refs[j] => i = j
           /\ \A i \in 1 .. Len(refs) : forge[refs[i]].state # "unopened"
           /\ ToSet(refs) = {refs[i] : i \in 1 .. Len(refs)}
<1>1. PICK n \in 1 .. LastMR : refs \in [1 .. n -> MRs]
  BY DEF Orders
<1>2. n \in Nat
  BY QueueAssumption
<1>3. refs \in Seq(MRs) /\ Len(refs) = n /\ DOMAIN refs = 1 .. n
  BY <1>1, <1>2
<1>4. IsInjective(refs) /\ \A m \in ToSet(refs) : forge[m].state # "unopened"
  BY DEF Orders
<1>5. ToSet(refs) = {refs[i] : i \in 1 .. Len(refs)}
  BY <1>3 DEF ToSet
<1>6. QED BY <1>3, <1>4, <1>5 DEF IsInjective

\* What an order does: what is in the queue then was in it, or is a pending
\* item of an MR of the forge.
LEMMA OrderGives ==
    ASSUME FileInv, OrderStep
    PROVE  /\ queue' \in Seq(Items) /\ RefsDiffer(queue')
           /\ \A k \in 1 .. Len(queue') :
                 \/ \E j \in 1 .. Len(queue) : queue'[k] = queue[j]
                 \/ \E m \in MRs : /\ queue'[k] = Item(m, "pending") /\ m \notin RefsOf(queue)
                                   /\ forge[m].state # "unopened"
           /\ UNCHANGED <<target, forge, targetCI, ticket, byTick, byHand, crashes>>
           /\ tick'.at = "pick"
<1>1. queue \in Seq(Items) /\ RefsDiffer(queue) /\ tick \in Ticks
  BY DEF FileInv, QueueTypeOK, Ticks
<1>2. UNCHANGED <<target, forge, targetCI, ticket, byTick, byHand, crashes>>
  BY DEF OrderStep, StartTick, OrderedTick, NotForge
<1>3. tick'.at = "pick"
  <2>1. tick' = Again \/ tick' = [tick EXCEPT !.at = "pick"]
    BY DEF OrderStep, StartTick, OrderedTick, Go
  <2>2. QED BY <1>1, <2>1, TickValues DEF Ticks
<1>4. CASE queue' = queue
  BY <1>1, <1>2, <1>3, <1>4
<1>5. CASE \E refs : /\ refs \in Seq(MRs)
                     /\ \A i, j \in 1 .. Len(refs) : refs[i] = refs[j] => i = j
                     /\ \A i \in 1 .. Len(refs) : forge[refs[i]].state # "unopened"
                     /\ queue' = QueueSet(queue, refs) \/ queue' = QueueAppend(queue, refs)
  <2>1. PICK refs : /\ refs \in Seq(MRs)
                    /\ \A i, j \in 1 .. Len(refs) : refs[i] = refs[j] => i = j
                    /\ \A i \in 1 .. Len(refs) : forge[refs[i]].state # "unopened"
                    /\ queue' = QueueSet(queue, refs) \/ queue' = QueueAppend(queue, refs)
    BY <1>5
  <2>2. \A i \in 1 .. Len(refs) : refs[i] \in MRs
    BY <2>1
  <2>3. CASE queue' = QueueSet(queue, refs)
    <3>1. /\ queue' \in Seq(Items) /\ RefsDiffer(queue')
          /\ \A k \in 1 .. Len(queue') :
                 \/ \E i \in 1 .. Len(refs) : refs[i] \notin RefsOf(queue) /\ queue'[k] = Item(refs[i], "pending")
                 \/ \E j \in 1 .. Len(queue) : queue'[k] = queue[j]
      BY <1>1, <2>1, <2>3, QueueSetGives
    <3>2. QED BY <1>2, <1>3, <2>1, <2>2, <3>1
  <2>4. CASE queue' = QueueAppend(queue, refs)
    <3> DEFINE new == QueueAppend(queue, refs)
    <3>3. /\ new \in Seq(Items) /\ RefsDiffer(new)
          /\ \A k \in 1 .. Len(queue) : k \in 1 .. Len(new) /\ new[k] = queue[k]
          /\ \A k \in 1 .. Len(new) :
                 k \notin 1 .. Len(queue) => /\ k > Len(queue)
                                             /\ \E i \in 1 .. Len(refs) : /\ refs[i] \notin RefsOf(queue)
                                                                          /\ new[k] = Item(refs[i], "pending")
      BY <1>1, <2>1, QueueAppendGives
    <3>4. queue' = new
      BY <2>4
    <3> HIDE DEF new
    <3>1. /\ queue' \in Seq(Items) /\ RefsDiffer(queue')
          /\ \A k \in 1 .. Len(queue) : queue'[k] = queue[k]
          /\ \A k \in 1 .. Len(queue') :
                 k \notin 1 .. Len(queue) => \E i \in 1 .. Len(refs) : /\ refs[i] \notin RefsOf(queue)
                                                                       /\ queue'[k] = Item(refs[i], "pending")
      BY <3>3, <3>4
    <3>2. QED BY <1>2, <1>3, <2>1, <2>2, <3>1
  <2>5. QED BY <2>1, <2>3, <2>4
<1>6. CASE \E refs \in Orders : OrderedTick(refs)
  <2>1. PICK refs \in Orders : queue' = QueueSet(queue, refs)
    BY <1>6 DEF OrderedTick
  <2>2. QED BY <1>5, <2>1, OrdersAreLists
<1>7. CASE StartTick
  <2>1. queue' = queue \/ queue' = QueueAppend(queue, Propose) \/ queue' = QueueSet(queue, Propose)
    BY <1>7 DEF StartTick
  <2>2. \A i \in 1 .. Len(Propose) : forge[Propose[i]].state # "unopened"
    BY ProposeLists DEF Proposed, Listed
  <2>3. QED BY <1>4, <1>5, <2>1, <2>2, ProposeLists
<1>8. QED BY <1>6, <1>7 DEF OrderStep

\* The counters and the sets of a step that is no person's on the forge.
LEMMA CountersKeepType ==
    ASSUME FileInv, QueueNext
    PROVE  /\ targetCI' \in [MRs -> {"none", "running", "success", "failed"}]
           /\ ticket' \in [MRs -> {"open", "seen"}]
           /\ byTick' \subseteq MRs /\ byHand' \subseteq MRs /\ fixes' \in [MRs -> Nat]
           /\ crashes' \in Nat /\ meddling' \in Nat /\ crashes' + meddling' <= MaxTroubles
<1>1. /\ targetCI \in [MRs -> {"none", "running", "success", "failed"}]
      /\ ticket \in [MRs -> {"open", "seen"}] /\ byTick \subseteq MRs /\ byHand \subseteq MRs /\ fixes \in [MRs -> Nat]
      /\ crashes \in Nat /\ meddling \in Nat /\ crashes + meddling <= MaxTroubles /\ MaxTroubles \in Nat
  BY QueueAssumption DEF FileInv, QueueTypeOK
<1>2. CASE \E m \in MRs : ForgeStep(m)
  <2>1. QueueTypeOK
    BY DEF FileInv
  <2>2. QED BY <1>1, <1>2, <2>1, ForgeStepMoves
<1>3. CASE \E m \in MRs : TargetStep(m)
  BY <1>1, <1>3 DEF TargetStep, TargetEnds, TargetRestarts, Aside
<1>4. CASE \E m \in MRs : RestartItem(m) \/ MarkDone(m) \/ RecordByHand(m) \/ LiftHalt(m)
  BY <1>1, <1>4 DEF RestartItem, MarkDone, RecordByHand, LiftHalt, Meddle, Aside
<1>5. CASE \E refs \in Orders : OrderedTick(refs)
  BY <1>1, <1>5 DEF OrderedTick, CountAfresh
<1>6. CASE Crash
  BY <1>1, <1>6 DEF Crash
<1>7. CASE Push
  <2>1. Ref \in MRs
    BY <1>7, RefOfTick DEF Push, At
  <2>2. fixes[Ref] + 1 \in Nat
    BY <1>1, <2>1
  <2>3. fixes' \in [MRs -> Nat]
    BY <1>1, <1>7, <2>2 DEF Push
  <2>4. QED BY <1>1, <1>7, <2>3 DEF Push
<1>8. CASE Merge
  <2>1. Ref \in MRs
    BY <1>8, RefOfTick DEF Merge, Acts, At
  <2>2. /\ targetCI' = targetCI \/ \E ci \in {"none", "running"} : targetCI' = [targetCI EXCEPT ![Ref] = ci]
        /\ byTick' = byTick \/ byTick' = byTick \cup {Ref}
        /\ UNCHANGED <<ticket, byHand, fixes, crashes, meddling>>
    BY <1>8 DEF Merge
  <2>3. QED BY <1>1, <2>1, <2>2
<1>9. CASE SetTicketDone
  BY <1>1, <1>9 DEF SetTicketDone, NotForge
<1>10. CASE StartTick
  BY <1>1, <1>10 DEF StartTick, CountAfresh
<1>11. CASE \/ Pick \/ ReadTarget \/ Wait \/ DropClosed \/ TakeMerged \/ Ask \/ GiveUp
            \/ StartFix \/ Unresolvable \/ CountRound \/ RecordMerge \/ CloseItem
  BY <1>1, <1>11 DEF Pick, ReadTarget, Wait, DropClosed, TakeMerged, Ask, GiveUp, StartFix, Unresolvable,
     CountRound, RecordMerge, CloseItem, NotForge, OnlyTick
<1>12. QED BY <1>2, <1>3, <1>4, <1>5, <1>6, <1>7, <1>8, <1>9, <1>10, <1>11
       DEF QueueNext, TickStep, People, ForgeStep, TargetStep

\* A round stays left until the fix is counted.
LEMMA RoundKeeps ==
    ASSUME FileInv, QueueNext
    PROVE  RoundKept'
<1>1. /\ queue \in Seq(Items) /\ tick \in Ticks
      /\ tick.at \in {"push", "count"} => Ref \in RefsOf(queue) /\ RoundsLeft(Ref)
  BY DEF FileInv, QueueTypeOK, Ticks, RefKnown, RoundKept
<1>2. CASE tick'.at \notin {"push", "count"}
  BY <1>2 DEF RoundKept
<1>3. CASE StartFix
  <2>1. queue' = queue /\ tick' = [tick EXCEPT !.at = "push", !.sha = forge[Ref].sha] /\ RoundsLeft(Ref)
    BY <1>3 DEF StartFix
  <2>2. tick'.ref = tick.ref
    BY <1>1, <2>1 DEF Ticks
  <2>3. QED BY <2>1, <2>2 DEF RoundKept, RoundsLeft, Ref
<1>4. CASE Push
  <2>1. queue' = queue /\ RoundsLeft(Ref)
    BY <1>1, <1>4 DEF Push, At
  <2>2. tick' = Idle \/ tick' = On(Ref, "count")
    BY <1>4 DEF Push, End
  <2>3. tick'.at = "idle" \/ tick'.ref = Ref
    BY <1>4, <2>2, TickValues, RefOfTick DEF Push, At, Places
  <2>4. QED BY <2>1, <2>3 DEF RoundKept, RoundsLeft, Ref
<1>5. CASE \E m \in MRs : RestartItem(m) \/ MarkDone(m) \/ RecordByHand(m) \/ LiftHalt(m)
  <2>1. PICK m \in MRs, said \in Statuses : tick' = tick /\ SetStatus(m, said)
    BY <1>5 DEF RestartItem, MarkDone, RecordByHand, LiftHalt, Aside, Statuses
  <2>2. SUFFICES ASSUME tick.at \in {"push", "count"} PROVE RoundsLeft(Ref)'
    BY <2>1 DEF RoundKept
  <2>3. /\ \A k \in 1 .. Len(queue) : queue'[k].rounds = queue[k].rounds
        /\ \A n : ItemOf(queue', n) = queue'[PlaceOf(queue, n)]
    BY <1>1, <2>1, SetStatusGives DEF Statuses
  <2>4. PlaceOf(queue, Ref) \in 1 .. Len(queue) /\ ItemOf(queue, Ref) = queue[PlaceOf(queue, Ref)]
    BY <1>1, <2>2, ItemOfFinds
  <2>5. Ref' = Ref
    BY <2>1 DEF Ref
  <2>6. ItemOf(queue', Ref).rounds = ItemOf(queue, Ref).rounds
    BY <2>3, <2>4
  <2>7. QED BY <1>1, <2>2, <2>5, <2>6 DEF RoundsLeft
<1>6. CASE \E m \in MRs : ForgeStep(m) \/ TargetStep(m)
  <2>1. tick' = tick /\ queue' = queue
    BY <1>6 DEF ForgeStep, Open, PushByHand, CIEnds, CancelCI, RetryCI, Approve, Undraft, Redraft,
       CloseByHand, Reopen, MergeByHand,
       OnForge, Aside, TargetStep, TargetEnds, TargetRestarts
  <2>2. QED BY <1>1, <2>1 DEF RoundKept, RoundsLeft, Ref
<1>7. CASE OrderStep
  BY <1>7, OrderGives DEF RoundKept
<1>8. CASE Pick
  <2>1. tick'.at \in {"idle", "ticket", "target", "act"}
    <3>1. CASE tick' = Idle
      BY <3>1, TickValues
    <3>2. CASE \E m \in MRs : \/ tick' = Closing(m, "pick") \/ tick' = Judged(m)
                             \/ tick' = On(m, "target")
      BY <3>2, TickValues, JudgedGives DEF Places
    <3>3. QED BY <1>8, <3>1, <3>2, PickGives
  <2>2. QED BY <1>2, <2>1
<1>9. CASE \/ ReadTarget \/ Wait \/ DropClosed \/ TakeMerged \/ Ask \/ GiveUp \/ Unresolvable \/ CountRound
           \/ Merge \/ RecordMerge \/ Crash
  <2>1. \/ tick' = Idle \/ tick' = Again \/ tick' = On(Ref, "merged")
        \/ \E then \in {"end", "pick"} : tick' = Closing(Ref, then)
    BY <1>9 DEF ReadTarget, Wait, DropClosed, TakeMerged, Ask, GiveUp, Unresolvable, CountRound, Merge, RecordMerge,
       Crash, End
  <2>2. Ref \in MRs \/ tick' = Idle \/ tick' = Again
    BY <1>9, RefOfTick DEF ReadTarget, Wait, DropClosed, TakeMerged, Ask, GiveUp, Unresolvable, CountRound, Merge,
       RecordMerge, Crash, Acts, At, End
  <2>3. tick'.at \notin {"push", "count"}
    BY <2>1, <2>2, TickValues DEF Places
  <2>4. QED BY <1>2, <2>3
<1>10. CASE SetTicketDone \/ CloseItem
  <2>1. tick' = [tick EXCEPT !.at = "close"] \/ tick' = Idle \/ tick' = Again
    BY <1>1, <1>10 DEF SetTicketDone, CloseItem, Go, Ticks
  <2>2. tick'.at \notin {"push", "count"}
    BY <1>1, <2>1, TickValues DEF Ticks
  <2>3. QED BY <1>2, <2>2
<1>11. QED BY <1>3, <1>4, <1>5, <1>6, <1>7, <1>8, <1>9, <1>10
       DEF QueueNext, TickStep, OrderStep, People, ForgeStep, TargetStep

\* The file keeps its form: types, one item for an MR, the tick's MR in it.
LEMMA FileKeeps ==
    ASSUME QueueInv, QueueNext
    PROVE  FileInv'
<1>1. FileInv /\ target' = target /\ forge' \in [MRs -> Requests]
  BY ForgeMoves DEF QueueInv, ForgeMovesOn
<1>2. tick' \in Ticks /\ (tick'.at \in {"idle", "pick"} \/ tick'.ref \in RefsOf(queue))
  BY <1>1, TickKeepsType
<1>3. queue' \in Seq(Items) /\ RefsDiffer(queue') /\ RefKnown'
  <2>1. CASE OrderStep
    BY <1>1, <2>1, OrderGives DEF RefKnown
  <2>2. CASE ItemsStay
    BY <1>2, <2>2 DEF ItemsStay, RefKnown, Ref
  <2>3. QED BY <1>1, <2>1, <2>2, ItemsStayOtherwise
<1>4. RoundKept'
  BY <1>1, RoundKeeps
<1>5. /\ targetCI' \in [MRs -> {"none", "running", "success", "failed"}]
      /\ ticket' \in [MRs -> {"open", "seen"}]
      /\ byTick' \subseteq MRs /\ byHand' \subseteq MRs /\ fixes' \in [MRs -> Nat]
      /\ crashes' \in Nat /\ meddling' \in Nat /\ crashes' + meddling' <= MaxTroubles
  BY <1>1, CountersKeepType
<1>6. target' \in [MRs -> {Default, Integration} \cup MRs]
  BY <1>1 DEF FileInv, QueueTypeOK
<1>7. QueueTypeOK'
  BY <1>1, <1>2, <1>3, <1>5, <1>6 DEF QueueTypeOK
<1>8. QED BY <1>3, <1>4, <1>7 DEF FileInv

\* What a step does to a status: the order steps keep it, the others set the
\* one of the tick's MR, or a person sets one.
LEMMA StatusMoves ==
    ASSUME FileInv, QueueNext, ~OrderStep,
           NEW k \in 1 .. Len(queue), queue'[k].status # queue[k].status
    PROVE  /\ queue'[k].ref = queue[k].ref
           /\ \/ queue'[k].status = "stopped" /\ queue[k].ref = Ref /\ (ReadTarget \/ GiveUp \/ Unresolvable)
              \/ queue'[k].status = "closed" /\ queue[k].ref = Ref /\ DropClosed
              \/ queue'[k].status = "merging" /\ queue[k].ref = Ref /\ (TakeMerged \/ RecordMerge)
              \/ queue'[k].status = "done" /\ queue[k].ref = Ref /\ CloseItem
              \/ /\ queue'[k].status = "pending" /\ queue[k].status \in {"stopped", "closed"}
                 /\ RestartItem(queue[k].ref) /\ queue[k].ref \in MRs
              \/ /\ queue'[k].status = "done" /\ queue[k].status = "stopped"
                 /\ MarkDone(queue[k].ref) /\ queue[k].ref \in MRs
              \/ /\ queue'[k].status = "merging" /\ queue[k].status = "pending"
                 /\ RecordByHand(queue[k].ref) /\ queue[k].ref \in MRs
              \/ /\ queue'[k].status = "closed" /\ queue[k].status = "halted"
                 /\ LiftHalt(queue[k].ref) /\ queue[k].ref \in MRs
<1>1. queue \in Seq(Items) /\ RefsDiffer(queue) /\ tick \in Ticks /\ tick.sha \in Nat /\ queue[k] \in Items
  BY DEF FileInv, QueueTypeOK, Ticks
<1>2. \A m, value : value \in Statuses /\ SetStatus(m, value) =>
         queue'[k].ref = queue[k].ref /\ queue'[k].status = value /\ queue[k].ref = m
  <2> SUFFICES ASSUME NEW m, NEW value \in Statuses, SetStatus(m, value)
               PROVE  queue'[k].ref = queue[k].ref /\ queue'[k].status = value /\ queue[k].ref = m
    OBVIOUS
  <2>1. /\ queue'[k].ref = queue[k].ref
        /\ queue'[k].status = IF queue[k].ref = m THEN value ELSE queue[k].status
    BY <1>1, SetStatusGives
  <2>2. QED BY <2>1
<1>3. queue' # queue
  OBVIOUS
<1>4. ~Updated(Ref, LAMBDA item : [item EXCEPT !.approved = tick.sha])
  BY <1>1, NoteGives
<1>5. ~CountRound
  <2> SUFFICES ASSUME CountRound PROVE FALSE
    OBVIOUS
  <2>1. Updated(Ref, LAMBDA item : [item EXCEPT !.rounds = @ + 1])
    BY DEF CountRound
  <2>2. Ref \in RefsOf(queue) /\ RoundsLeft(Ref)
    BY RefOfTick DEF CountRound, At, FileInv, RoundKept
  <2>3. QED BY <1>1, <2>1, <2>2, CountGives
<1>6. CASE ReadTarget \/ GiveUp \/ Unresolvable
  <2>1. SetStatus(Ref, "stopped")
    BY <1>3, <1>6 DEF ReadTarget, GiveUp, Unresolvable
  <2>2. QED BY <1>2, <1>6, <2>1 DEF Statuses
<1>7. CASE DropClosed
  <2>1. SetStatus(Ref, "closed")
    BY <1>7 DEF DropClosed
  <2>2. QED BY <1>2, <1>7, <2>1 DEF Statuses
<1>8. CASE TakeMerged \/ RecordMerge
  <2>1. SetStatus(Ref, "merging")
    BY <1>3, <1>8 DEF TakeMerged, RecordMerge
  <2>2. QED BY <1>2, <1>8, <2>1 DEF Statuses
<1>9. CASE CloseItem
  <2>1. SetStatus(Ref, "done")
    BY <1>9 DEF CloseItem
  <2>2. QED BY <1>2, <1>9, <2>1 DEF Statuses
<1>10. CASE \E m \in MRs : RestartItem(m)
  <2>1. PICK m \in MRs : RestartItem(m)
    BY <1>10
  <2>2. SetStatus(m, "pending") /\ m \in RefsOf(queue) /\ ItemOf(queue, m).status \in {"stopped", "closed"}
    BY <2>1 DEF RestartItem, Aside
  <2>3. queue'[k].ref = queue[k].ref /\ queue'[k].status = "pending" /\ queue[k].ref = m
    BY <1>2, <2>2 DEF Statuses
  <2>4. ItemOf(queue, m) = queue[k]
    BY <1>1, <2>2, <2>3, ItemOfFinds
  <2>5. QED BY <2>1, <2>2, <2>3, <2>4
<1>11. CASE \E m \in MRs : LiftHalt(m)
  <2>1. PICK m \in MRs : LiftHalt(m)
    BY <1>11
  <2>2. SetStatus(m, "closed") /\ m \in RefsOf(queue) /\ ItemOf(queue, m).status = "halted"
    BY <2>1 DEF LiftHalt
  <2>3. queue'[k].ref = queue[k].ref /\ queue'[k].status = "closed" /\ queue[k].ref = m
    BY <1>2, <2>2 DEF Statuses
  <2>4. ItemOf(queue, m) = queue[k]
    BY <1>1, <2>2, <2>3, ItemOfFinds
  <2>5. QED BY <2>1, <2>2, <2>3, <2>4
<1>12. CASE Pick \/ Wait \/ Ask \/ StartFix \/ Push \/ Merge \/ SetTicketDone \/ Crash
  BY <1>3, <1>4, <1>12 DEF Pick, Wait, Ask, StartFix, Push, Merge, SetTicketDone, Crash, OnlyTick, NotForge
<1>13. CASE \E m \in MRs : ForgeStep(m) \/ TargetStep(m)
  BY <1>3, <1>13 DEF ForgeStep, Open, PushByHand, CIEnds, CancelCI, RetryCI, Approve, Undraft, Redraft,
     CloseByHand, Reopen,
     MergeByHand, OnForge, Aside, TargetStep, TargetEnds, TargetRestarts
<1>14. CASE \E m \in MRs : MarkDone(m)
  <2>1. PICK m \in MRs : MarkDone(m)
    BY <1>14
  <2>2. SetStatus(m, "done") /\ m \in RefsOf(queue) /\ ItemOf(queue, m).status = "stopped"
    BY <2>1 DEF MarkDone
  <2>3. queue'[k].ref = queue[k].ref /\ queue'[k].status = "done" /\ queue[k].ref = m
    BY <1>2, <2>2 DEF Statuses
  <2>4. ItemOf(queue, m) = queue[k]
    BY <1>1, <2>2, <2>3, ItemOfFinds
  <2>5. QED BY <2>1, <2>2, <2>3, <2>4
<1>15. CASE \E m \in MRs : RecordByHand(m)
  <2>1. PICK m \in MRs : RecordByHand(m)
    BY <1>15
  <2>2. SetStatus(m, "merging") /\ m \in RefsOf(queue) /\ ItemOf(queue, m).status = "pending"
    BY <2>1 DEF RecordByHand
  <2>3. queue'[k].ref = queue[k].ref /\ queue'[k].status = "merging" /\ queue[k].ref = m
    BY <1>2, <2>2 DEF Statuses
  <2>4. ItemOf(queue, m) = queue[k]
    BY <1>1, <2>2, <2>3, ItemOfFinds
  <2>5. QED BY <2>1, <2>2, <2>3, <2>4
<1>16. QED BY <1>5, <1>6, <1>7, <1>8, <1>9, <1>10, <1>11, <1>12, <1>13, <1>14, <1>15
       DEF QueueNext, TickStep, OrderStep, People, ForgeStep, TargetStep

\* Where a tick may be after a step, and by which step it came there.
LEMMA TickMoves ==
    ASSUME FileInv, QueueNext
    PROVE  \/ tick' = tick /\ \E m \in MRs : People(m)
           \/ tick'.at \in {"idle", "pick"}
           \/ /\ Pick /\ Ref' \in MRs
              /\ \E k \in 1 .. Len(queue) :
                    /\ queue[k].ref = Ref'
                    /\ \/ tick'.at = "ticket" /\ queue[k].status = "verifying"
                       \/ tick'.at = "target" /\ queue[k].status = "merging"
                       \/ /\ tick' = Judged(Ref')
                          /\ queue[k].status = "pending"
                          /\ \A j \in 1 .. Len(queue) : queue[j].status # "merging"
                          /\ \A j \in 1 .. k - 1 : queue[j].status # "pending"
           \/ /\ tick'.at = "ticket" /\ Ref' = Ref
              /\ \/ ReadTarget /\ targetCI[Ref] = "success"
                 \/ TakeMerged /\ ClosesAtOnce(Ref)
                 \/ RecordMerge /\ ClosesAtOnce(Ref)
           \/ tick'.at = "push" /\ Ref' = Ref /\ StartFix
           \/ tick'.at = "count" /\ Ref' = Ref /\ Push /\ forge[Ref].state = "open"
           \/ tick'.at = "merged" /\ Ref' = Ref /\ Merge /\ HeadAsJudged
           \/ tick'.at = "close" /\ Ref' = Ref /\ SetTicketDone
<1>1. /\ tick \in Ticks
      /\ tick.at \notin {"idle", "pick"} => Ref \in MRs
  BY RefOfTick DEF FileInv, QueueTypeOK
<1>2. tick'.ref = Ref'
  BY DEF Ref
<1>3. CASE tick' = Idle \/ tick' = Again
  BY <1>3, TickValues
<1>4. CASE OrderStep
  BY <1>4, OrderGives
<1>5. CASE Pick
  <2>1. SUFFICES ASSUME tick' # Idle
                 PROVE  /\ Ref' \in MRs
                        /\ \E k \in 1 .. Len(queue) :
                              /\ queue[k].ref = Ref'
                              /\ \/ tick'.at = "ticket" /\ queue[k].status = "verifying"
                                 \/ tick'.at = "target" /\ queue[k].status = "merging"
                                 \/ /\ tick' = Judged(Ref')
                                    /\ queue[k].status = "pending"
                                    /\ \A j \in 1 .. Len(queue) : queue[j].status # "merging"
                                    /\ \A j \in 1 .. k - 1 : queue[j].status # "pending"
    BY <1>3, <1>5
  <2>2. PICK k \in 1 .. Len(queue) :
                 /\ queue[k].ref \in MRs
                 /\ \/ tick' = Closing(queue[k].ref, "pick") /\ queue[k].status = "verifying"
                    \/ tick' = On(queue[k].ref, "target") /\ queue[k].status = "merging"
                    \/ /\ tick' = Judged(queue[k].ref)
                       /\ queue[k].status = "pending"
                       /\ \A j \in 1 .. Len(queue) : queue[j].status # "merging"
                       /\ \A j \in 1 .. k - 1 : queue[j].status # "pending"
    BY <1>5, <2>1, PickGives
  <2>3. CASE tick' = Closing(queue[k].ref, "pick") /\ queue[k].status = "verifying"
    BY <1>2, <2>2, <2>3, TickValues
  <2>4. CASE tick' = On(queue[k].ref, "target") /\ queue[k].status = "merging"
    <3>1. tick'.at = "target" /\ tick'.ref = queue[k].ref
      BY <2>2, <2>4, TickValues DEF Places
    <3>2. QED BY <1>2, <2>2, <2>4, <3>1
  <2>5. CASE /\ tick' = Judged(queue[k].ref)
             /\ queue[k].status = "pending"
             /\ \A j \in 1 .. Len(queue) : queue[j].status # "merging"
             /\ \A j \in 1 .. k - 1 : queue[j].status # "pending"
    <3>1. tick'.ref = queue[k].ref
      BY <2>2, <2>5, JudgedGives
    <3>2. QED BY <1>2, <2>2, <2>5, <3>1
  <2>6. QED BY <2>2, <2>3, <2>4, <2>5
<1>6. ASSUME NEW then \in {"end", "pick"}, tick' = Closing(Ref, then), Ref \in MRs
      PROVE  tick'.at = "ticket" /\ Ref' = Ref
  BY <1>2, <1>6, TickValues
<1>7. CASE ReadTarget \/ TakeMerged \/ RecordMerge
  <2>1. Ref \in MRs
    BY <1>1, <1>7 DEF ReadTarget, TakeMerged, RecordMerge, Acts, At
  <2>2. \/ tick' = Idle \/ tick' = Again
        \/ /\ \E then \in {"end", "pick"} : tick' = Closing(Ref, then)
           /\ \/ ReadTarget /\ targetCI[Ref] = "success"
              \/ TakeMerged /\ ClosesAtOnce(Ref)
              \/ RecordMerge /\ ClosesAtOnce(Ref)
    BY <1>7 DEF ReadTarget, TakeMerged, RecordMerge, End
  <2>3. CASE \E then \in {"end", "pick"} : tick' = Closing(Ref, then)
    BY <1>3, <1>6, <2>1, <2>2, <2>3
  <2>4. QED BY <1>3, <2>2, <2>3
<1>8. CASE StartFix
  BY <1>1, <1>8 DEF StartFix, Ticks, Ref
<1>9. CASE Push \/ Merge
  <2>1. Ref \in MRs
    BY <1>1, <1>9 DEF Push, Merge, Acts, At
  <2>2. \/ tick' = Idle
        \/ Push /\ tick' = On(Ref, "count") /\ forge[Ref].state = "open"
        \/ Merge /\ tick' = On(Ref, "merged") /\ HeadAsJudged
    BY <1>9 DEF Push, Merge, End
  <2>3. \A place \in Places : On(Ref, place).at = place /\ On(Ref, place).ref = Ref
    BY <2>1, TickValues
  <2>4. QED BY <1>2, <1>3, <2>2, <2>3 DEF Places
<1>10. CASE SetTicketDone
  BY <1>1, <1>10 DEF SetTicketDone, Go, Ticks, Ref
<1>11. CASE Wait \/ DropClosed \/ Ask \/ GiveUp \/ Unresolvable \/ CountRound \/ Crash \/ CloseItem
  <2>1. tick' = Idle \/ tick' = Again
    BY <1>11 DEF Wait, DropClosed, Ask, GiveUp, Unresolvable, CountRound, Crash, CloseItem, End
  <2>2. QED BY <1>3, <2>1
<1>12. CASE \E m \in MRs : People(m)
  <2>1. tick' = tick
    BY <1>12 DEF People, Open, PushByHand, CIEnds, CancelCI, RetryCI, Approve, Undraft, Redraft, CloseByHand,
       Reopen, MergeByHand,
       OnForge, Aside, TargetEnds, TargetRestarts, RestartItem, MarkDone, RecordByHand, LiftHalt, NotForge
  <2>2. QED BY <1>12, <2>1
<1>13. QED BY <1>4, <1>5, <1>7, <1>8, <1>9, <1>10, <1>11, <1>12 DEF QueueNext, TickStep, OrderStep

Taken == {"merging", "verifying", "halted", "done"}

\* A merge is what puts an MR among those a tick merged.
LEMMA ByTickMoves ==
    ASSUME FileInv, QueueNext, NEW m \in byTick' \ byTick
    PROVE  Merge /\ HeadAsJudged /\ m = Ref /\ tick.at = "act" /\ tick.verdict = "ready"
<1>1. CASE Merge
  BY <1>1 DEF Merge, Acts, At
<1>2. CASE ~Merge
  <2>1. byTick' = byTick
    BY <1>2 DEF QueueNext, TickStep, StartTick, Pick, ReadTarget, Wait, DropClosed, TakeMerged, Ask, GiveUp, StartFix,
       Unresolvable, Push, CountRound, RecordMerge, SetTicketDone, CloseItem, Crash, NotForge, OnlyTick, OrderedTick,
       People, Open, PushByHand, CIEnds, CancelCI, RetryCI, Approve, Undraft, Redraft, CloseByHand, Reopen,
       MergeByHand, OnForge, Aside,
       TargetEnds, TargetRestarts, RestartItem, MarkDone, RecordByHand, LiftHalt
  <2>2. QED BY <2>1
<1>3. QED BY <1>1, <1>2

\* What is taken for merged is merged.
LEMMA MergedKeeps ==
    ASSUME QueueInv, QueueNext
    PROVE  MergedInv'
<1>1. /\ FileInv /\ MergedInv /\ FileInv' /\ ForgeMovesOn
      /\ queue \in Seq(Items) /\ queue' \in Seq(Items) /\ byTick \subseteq MRs /\ byTick' \subseteq MRs
      /\ forge \in [MRs -> Requests] /\ forge' \in [MRs -> Requests]
      /\ \A k \in 1 .. Len(queue) : queue[k] \in Items
  BY FileKeeps, ForgeMoves DEF QueueInv, FileInv, QueueTypeOK
<1>2. /\ \A m \in MRs : /\ forge[m].state = "merged" => forge'[m].state = "merged"
                        /\ ticket[m] = "seen" => ticket'[m] = "seen"
      /\ byHand \subseteq byHand'
  BY <1>1 DEF ForgeMovesOn
<1>3. \A k \in 1 .. Len(queue) : queue[k].ref \in MRs
  BY <1>1 DEF Items
<1>4. tick.at \notin {"idle", "pick"} => Ref \in MRs
  BY <1>1, RefOfTick
<1>5. \A m \in byTick' : forge'[m].state = "merged"
  <2> SUFFICES ASSUME NEW m \in byTick' PROVE forge'[m].state = "merged"
    OBVIOUS
  <2>1. CASE m \in byTick
    BY <1>1, <1>2, <2>1 DEF MergedInv
  <2>2. CASE m \notin byTick
    <3>1. Merge /\ HeadAsJudged /\ m = Ref
      BY <1>1, <2>2, ByTickMoves
    <3>2. PICK drift \in {"clear", "behind", "conflict"} : forge' = MergedInto(Ref, drift)
      BY <3>1 DEF Merge
    <3>3. forge[Ref].state = "open" /\ Ref \in MRs
      BY <1>1, <3>1 DEF HeadAsJudged
    <3>4. forge'[Ref].state = "merged"
      BY <1>1, <3>2, <3>3, MergedIntoGives
    <3>5. QED BY <3>1, <3>4
  <2>3. QED BY <2>1, <2>2
<1>6. ASSUME NEW k \in 1 .. Len(queue')
      PROVE  /\ queue'[k].status \in Taken => forge'[queue'[k].ref].state = "merged"
             /\ queue'[k].status = "done" => ticket'[queue'[k].ref] = "seen" \/ queue'[k].ref \in byHand'
  <2>1. CASE \E j \in 1 .. Len(queue) : queue'[k].ref = queue[j].ref /\ queue'[k].status = queue[j].status
    <3>1. PICK j \in 1 .. Len(queue) : queue'[k].ref = queue[j].ref /\ queue'[k].status = queue[j].status
      BY <2>1
    <3>2. /\ queue[j].status \in Taken => forge[queue[j].ref].state = "merged"
          /\ queue[j].status = "done" => ticket[queue[j].ref] = "seen" \/ queue[j].ref \in byHand
      BY <1>1 DEF MergedInv, Taken
    <3>3. QED BY <1>2, <1>3, <3>1, <3>2
  <2>2. CASE OrderStep
    <3>1. \/ \E j \in 1 .. Len(queue) : queue'[k] = queue[j]
          \/ \E m \in MRs : queue'[k] = Item(m, "pending")
      BY <1>1, <2>2, OrderGives
    <3>2. CASE \E j \in 1 .. Len(queue) : queue'[k] = queue[j]
      BY <2>1, <3>2
    <3>3. CASE \E m \in MRs : queue'[k] = Item(m, "pending")
      BY <3>3 DEF Item, Taken
    <3>4. QED BY <3>1, <3>2, <3>3
  <2>3. CASE ~OrderStep /\ queue'[k].status # queue[k].status
    <3>1. k \in 1 .. Len(queue)
      BY <1>1, <2>3, ItemsStayOtherwise DEF ItemsStay
    <3>2. queue'[k].ref = queue[k].ref
      BY <1>1, <2>3, <3>1, StatusMoves
    <3>3. CASE queue'[k].status \notin {"merging", "done"}
      <4>1. queue'[k].status \notin Taken
        BY <1>1, <2>3, <3>1, <3>3, StatusMoves DEF Taken
      <4>2. QED BY <4>1 DEF Taken
    <3>4. CASE queue'[k].status = "merging"
      <4>1. \/ queue[k].ref = Ref /\ (TakeMerged \/ RecordMerge)
            \/ RecordByHand(queue[k].ref)
        BY <1>1, <2>3, <3>1, <3>4, StatusMoves
      <4>2. forge[queue[k].ref].state = "merged"
        BY <1>1, <4>1 DEF MergedInv, TakeMerged, RecordMerge, RecordByHand, Acts, At
      <4>3. QED BY <1>2, <1>3, <3>1, <3>2, <3>4, <4>2
    <3>5. CASE queue'[k].status = "done"
      <4>1. (queue[k].ref = Ref /\ CloseItem) \/ MarkDone(queue[k].ref)
        BY <1>1, <2>3, <3>1, <3>5, StatusMoves
      <4>2. /\ forge[queue[k].ref].state = "merged"
            /\ ticket[queue[k].ref] = "seen" \/ queue[k].ref \in byHand'
        BY <1>1, <4>1 DEF MergedInv, CloseItem, MarkDone, At
      <4>3. QED BY <1>2, <1>3, <3>1, <3>2, <4>2
    <3>6. QED BY <3>3, <3>4, <3>5
  <2>4. CASE ~OrderStep /\ queue'[k].status = queue[k].status
    <3>1. k \in 1 .. Len(queue) /\ queue'[k].ref = queue[k].ref
      BY <1>1, <2>4, ItemsStayOtherwise DEF ItemsStay
    <3>2. QED BY <2>1, <2>4, <3>1
  <2>5. QED BY <2>2, <2>3, <2>4
<1>7. /\ tick'.at \in {"target", "merged", "ticket", "close"} => forge'[Ref'].state = "merged"
      /\ tick'.at = "act" /\ tick'.verdict = "merged" => forge'[Ref'].state = "merged"
      /\ tick'.at = "close" => ticket'[Ref'] = "seen"
  <2>1. CASE tick' = tick
    BY <1>1, <1>2, <1>4, <2>1 DEF MergedInv, At, Ref
  <2>2. CASE tick'.at \in {"idle", "pick"}
    BY <2>2
  <2>3. ASSUME Pick, Ref' \in MRs, NEW k \in 1 .. Len(queue), queue[k].ref = Ref',
               \/ tick'.at = "ticket" /\ queue[k].status = "verifying"
               \/ tick'.at = "target" /\ queue[k].status = "merging"
               \/ tick' = Judged(Ref')
        PROVE  /\ tick'.at \in {"target", "merged", "ticket", "close"} => forge'[Ref'].state = "merged"
               /\ tick'.at = "act" /\ tick'.verdict = "merged" => forge'[Ref'].state = "merged"
               /\ tick'.at = "close" => ticket'[Ref'] = "seen"
    <3>1. forge' = forge
      BY <2>3 DEF Pick, OnlyTick, NotForge
    <3>2. CASE queue[k].status \in {"verifying", "merging"} /\ tick'.at \in {"ticket", "target"}
      BY <1>1, <2>3, <3>1, <3>2 DEF MergedInv
    <3>3. CASE tick' = Judged(Ref')
      <4>1. PICK m \in MRs : m = Ref'
        BY <2>3
      <4>2. tick'.at = "act" /\ tick'.verdict = Verdict(forge[m], ItemOf(queue, m).approved) /\ forge[m] \in Requests
        BY <1>1, <3>3, <4>1, JudgedGives
      <4>3. QED BY <3>1, <4>1, <4>2, VerdictGives
    <3>4. QED BY <2>3, <3>2, <3>3
  <2>4. CASE tick'.at = "ticket" /\ Ref' = Ref /\ (ReadTarget \/ TakeMerged \/ RecordMerge)
    BY <1>1, <1>2, <1>4, <2>4 DEF MergedInv, ReadTarget, TakeMerged, RecordMerge, Acts, At
  <2>5. CASE tick'.at \in {"push", "count"}
    BY <2>5
  <2>6. CASE tick'.at = "merged" /\ Ref' = Ref /\ Merge /\ HeadAsJudged
    <3>1. Ref \in byTick'
      BY <2>6 DEF Merge
    <3>2. QED BY <1>5, <2>6, <3>1
  <2>7. CASE tick'.at = "close" /\ Ref' = Ref /\ SetTicketDone
    <3>1. forge[Ref].state = "merged" /\ Ref \in MRs /\ ticket' = [ticket EXCEPT ![Ref] = "seen"]
      BY <1>1, <1>4, <2>7 DEF MergedInv, SetTicketDone, At
    <3>2. ticket'[Ref] = "seen"
      BY <1>1, <3>1 DEF FileInv, QueueTypeOK
    <3>3. QED BY <1>2, <2>7, <3>1, <3>2
  <2>8. QED BY <1>1, <2>1, <2>2, <2>3, <2>4, <2>5, <2>6, <2>7, TickMoves
<1>8. QED BY <1>5, <1>6, <1>7 DEF MergedInv, At, Taken

\* A head that was ready stays green.
LEMMA GreenKeeps ==
    ASSUME QueueInv, QueueNext
    PROVE  GreenInv'
<1>1. /\ FileInv /\ GreenInv /\ ForgeMovesOn
      /\ forge \in [MRs -> Requests] /\ forge' \in [MRs -> Requests] /\ tick \in Ticks
  BY ForgeMoves DEF QueueInv, FileInv, QueueTypeOK
<1>2. SUFFICES ASSUME tick'.at = "act", tick'.verdict = "ready"
               PROVE  \/ forge'[Ref'].state = "merged"
                      \/ /\ forge'[Ref'].sha >= tick'.sha
                         /\ forge'[Ref'].sha = tick'.sha => forge'[Ref'].ci = "success"
  BY DEF GreenInv, At
<1>3. CASE tick' = tick
  <2>1. Ref \in MRs /\ Ref' = Ref
    BY <1>1, <1>2, <1>3, RefOfTick DEF Ref
  <2>2. forge[Ref].sha \in Nat /\ forge'[Ref].sha \in Nat /\ tick.sha \in Nat
    BY <1>1, <2>1 DEF Requests, Ticks
  <2>3. QED BY <1>1, <1>2, <1>3, <2>1, <2>2 DEF GreenInv, At, ForgeMovesOn
<1>4. CASE Pick /\ Ref' \in MRs /\ tick' = Judged(Ref')
  <2>1. PICK m \in MRs : m = Ref'
    BY <1>4
  <2>2. tick'.sha = forge[m].sha /\ tick'.verdict = Verdict(forge[m], ItemOf(queue, m).approved) /\ forge[m] \in Requests
    BY <1>1, <1>4, <2>1, JudgedGives
  <2>3. forge[m].ci = "success" /\ forge[m].sha \in Nat
    BY <1>2, <2>2, VerdictGives DEF Requests
  <2>4. forge' = forge
    BY <1>4 DEF Pick, OnlyTick, NotForge
  <2>5. QED BY <2>1, <2>2, <2>3, <2>4
<1>5. tick' = tick \/ (Pick /\ Ref' \in MRs /\ tick' = Judged(Ref'))
  BY <1>1, <1>2, TickMoves
<1>6. QED BY <1>3, <1>4, <1>5

\* QueueInv holds in the beginning, and every step keeps it.
LEMMA QueueInductive ==
    /\ QueueInit => QueueInv
    /\ QueueInv /\ [QueueNext]_queueVars => QueueInv'
<1>1. ASSUME QueueInit PROVE QueueInv
  <2>1. /\ target \in [MRs -> {Default, Integration} \cup MRs]
        /\ targetCI = [m \in MRs |-> "none"] /\ ticket = [m \in MRs |-> "open"] /\ tick = Idle
        /\ byTick = {} /\ byHand = {} /\ fixes = [m \in MRs |-> 0] /\ crashes = 0 /\ meddling = 0
    BY <1>1 DEF QueueInit
  <2>2. PICK draft \in BOOLEAN, old \in {"none", "verifying", "halted"} :
          /\ forge = [m \in MRs |-> IF m = 1 /\ old # "none" THEN [Blank EXCEPT !.state = "merged"]
                                    ELSE IF m = 1 THEN [Blank EXCEPT !.state = "open", !.draft = draft]
                                    ELSE Blank]
          /\ queue = IF old = "none" THEN <<>> ELSE <<Item(1, old)>>
    BY <1>1 DEF QueueInit
  <2>3. 1 \in MRs
    BY QueueAssumption DEF MRs
  <2>4. forge \in [MRs -> Requests]
    <3>1. /\ Blank \in Requests /\ [Blank EXCEPT !.state = "merged"] \in Requests
          /\ [Blank EXCEPT !.state = "open", !.draft = draft] \in Requests
      BY DEF Blank, Requests
    <3>2. QED BY <2>2, <3>1
  <2>5. /\ queue \in Seq(Items) /\ RefsDiffer(queue)
        /\ \A k \in 1 .. Len(queue) : /\ queue[k].status \in {"verifying", "halted"}
                                      /\ forge[queue[k].ref].state = "merged"
    <3>1. CASE old = "none"
      BY <2>2, <3>1 DEF RefsDiffer
    <3>2. CASE old # "none"
      <4>1. Item(1, old) \in Items /\ Item(1, old).ref = 1 /\ Item(1, old).status = old
        BY <2>3, <3>2, QueueAssumption DEF Item, Items, Statuses
      <4>2. queue = <<Item(1, old)>>
        BY <2>2, <3>2
      <4>3. queue \in Seq(Items) /\ Len(queue) = 1 /\ queue[1] = Item(1, old)
        BY <4>1, <4>2
      <4>4. forge[1].state = "merged"
        BY <2>2, <2>3, <3>2 DEF Blank
      <4>5. QED BY <3>2, <4>1, <4>3, <4>4 DEF RefsDiffer
    <3>3. QED BY <3>1, <3>2
  <2>6. QueueTypeOK
    BY <2>1, <2>4, <2>5, TickValues, QueueAssumption DEF QueueTypeOK
  <2>7. FileInv
    BY <2>1, <2>5, <2>6, TickValues DEF FileInv, RefKnown, RoundKept
  <2>8. MergedInv /\ GreenInv
    BY <2>1, <2>5, TickValues DEF MergedInv, GreenInv, At
  <2>9. QED BY <2>7, <2>8 DEF QueueInv
<1>2. ASSUME QueueInv, QueueNext PROVE QueueInv'
  BY <1>2, FileKeeps, MergedKeeps, GreenKeeps DEF QueueInv
<1>3. ASSUME QueueInv, UNCHANGED queueVars PROVE QueueInv'
  <2>1. FileInv'
    BY <1>3 DEF queueVars, QueueInv, FileInv, QueueTypeOK, RefsDiffer, RefKnown, RoundKept, RoundsLeft, Ref
  <2>2. MergedInv' /\ GreenInv'
    BY <1>3 DEF queueVars, QueueInv, MergedInv, GreenInv, At, Ref
  <2>3. QED BY <2>1, <2>2 DEF QueueInv
<1>4. QED BY <1>1, <1>2, <1>3

(* The queue, the tick and the forge keep their types: a fix round is never *)
(* counted past the limit, and a tick only works on an MR of the queue.     *)
THEOREM QueueTypeCorrect == QueueSpec => [](QueueTypeOK /\ RefsDiffer(queue) /\ RefKnown)
<1>1. QueueInv => QueueTypeOK /\ RefsDiffer(queue) /\ RefKnown
  BY DEF QueueInv, FileInv
<1>2. QED BY <1>1, QueueInductive, PTL DEF QueueSpec

(* A done item is merged and its ticket was seen to, or a person set it    *)
(* done: however people order, restart, record and merge, and wherever     *)
(* ticks die.                                                              *)
THEOREM DoneWasSeenTo == QueueSpec => []DoneMeansSeenTo
<1>1. QueueInv => DoneMeansSeenTo
  <2> SUFFICES ASSUME QueueInv, NEW m \in RefsOf(queue), ItemOf(queue, m).status = "done"
               PROVE  forge[m].state = "merged" /\ (ticket[m] = "seen" \/ m \in byHand)
    BY DEF DoneMeansSeenTo
  <2>1. PICK k \in 1 .. Len(queue) : queue[k].ref = m /\ ItemOf(queue, m) = queue[k]
    BY ItemOfFinds DEF QueueInv, FileInv, QueueTypeOK
  <2>2. QED BY <2>1 DEF QueueInv, MergedInv
<1>2. QED BY <1>1, QueueInductive, PTL DEF QueueSpec

(* A tick merges no head whose CI is not green: what was pushed after the *)
(* verdict is refused by the head the merge names.                        *)
THEOREM MergedWasGreen == QueueSpec => MergesWhatWasGreen
<1>1. QueueInv /\ [QueueNext]_queueVars => [\A m \in byTick' \ byTick : forge[m].ci = "success"]_queueVars
  <2> SUFFICES ASSUME QueueInv, QueueNext, NEW m \in byTick' \ byTick PROVE forge[m].ci = "success"
    BY DEF queueVars
  <2>1. HeadAsJudged /\ m = Ref /\ tick.at = "act" /\ tick.verdict = "ready"
    BY ByTickMoves DEF QueueInv
  <2>2. forge[Ref].state = "open" /\ forge[Ref].sha = tick.sha
    BY <2>1 DEF HeadAsJudged
  <2>3. QED BY <2>1, <2>2 DEF QueueInv, GreenInv, At
<1>2. QED BY <1>1, QueueInductive, PTL DEF QueueSpec, MergesWhatWasGreen

-----------------------------------------------------------------------------
(* A fix that was pushed and is not counted yet. *)
Uncounted(m) == IF At("count") /\ Ref = m THEN 1 ELSE 0

(* FixesBounded needs more to be inductive: the rounds of an item and the *)
(* crashes cover the fixes its MR got since it has one.                    *)
FixInv ==
    /\ FixesBounded
    /\ \A k \in 1 .. Len(queue), r \in MRs :
          queue[k].ref = r => fixes[r] <= queue[k].rounds + crashes + Uncounted(r)

\* What the steps do to the fixes, the crashes and the rounds.
LEMMA FixesMove ==
    ASSUME FileInv, QueueNext
    PROVE  /\ \/ fixes' = fixes
              \/ OrderStep /\ fixes' = [m \in MRs |-> IF m \in RefsOf(queue) THEN fixes[m] ELSE 0]
              \/ /\ Push /\ forge[Ref].state = "open" /\ tick'.at = "count" /\ Ref' = Ref
                 /\ fixes' = [fixes EXCEPT ![Ref] = @ + 1]
           /\ OrderStep => fixes' = [m \in MRs |-> IF m \in RefsOf(queue) THEN fixes[m] ELSE 0]
           /\ crashes' = crashes \/ (Crash /\ crashes' = crashes + 1 /\ tick'.at = "idle")
           /\ ~OrderStep => \A k \in 1 .. Len(queue) :
                 queue'[k].rounds = IF CountRound /\ queue[k].ref = Ref THEN queue[k].rounds + 1 ELSE queue[k].rounds
<1>1. /\ queue \in Seq(Items) /\ RefsDiffer(queue) /\ tick \in Ticks /\ tick.sha \in Nat
      /\ \A k \in 1 .. Len(queue) : queue[k] \in Items
      /\ tick.at \notin {"idle", "pick"} => Ref \in MRs
  BY RefOfTick DEF FileInv, QueueTypeOK, Ticks
<1>2. \/ fixes' = fixes
      \/ OrderStep
      \/ /\ Push /\ forge[Ref].state = "open" /\ tick'.at = "count" /\ Ref' = Ref
         /\ fixes' = [fixes EXCEPT ![Ref] = @ + 1]
  <2>1. CASE Push /\ fixes' # fixes
    <3>1. forge[Ref].state = "open" /\ tick' = On(Ref, "count") /\ fixes' = [fixes EXCEPT ![Ref] = @ + 1]
      BY <2>1 DEF Push
    <3>2. Ref \in MRs
      BY <1>1, <2>1 DEF Push, At
    <3>3. tick'.at = "count" /\ tick'.ref = Ref
      BY <3>1, <3>2, TickValues DEF Places
    <3>4. Ref' = tick'.ref
      BY DEF Ref
    <3>5. QED BY <2>1, <3>1, <3>3, <3>4
  <2>2. CASE ~Push /\ ~OrderStep
    BY ZenonT(60), <2>2 DEF QueueNext, TickStep, OrderStep, Pick, ReadTarget, Wait, DropClosed, TakeMerged, Ask, GiveUp, StartFix,
       Unresolvable, CountRound, Merge, RecordMerge, SetTicketDone, CloseItem, Crash, NotForge, OnlyTick,
       People, Open, PushByHand, CIEnds, CancelCI, RetryCI, Approve, Undraft, Redraft, CloseByHand, Reopen,
       MergeByHand, OnForge, Aside,
       TargetEnds, TargetRestarts, RestartItem, MarkDone, RecordByHand, LiftHalt
  <2>3. QED BY <2>1, <2>2
<1>3. crashes' = crashes \/ (Crash /\ crashes' = crashes + 1 /\ tick'.at = "idle")
  <2>1. CASE Crash
    BY <2>1, TickValues DEF Crash, End
  <2>2. CASE ~Crash
    BY <2>2 DEF QueueNext, TickStep, StartTick, Pick, ReadTarget, Wait, DropClosed, TakeMerged, Ask, GiveUp, StartFix,
       Unresolvable, Push, CountRound, Merge, RecordMerge, SetTicketDone, CloseItem, NotForge, OnlyTick, OrderedTick,
       People, Open, PushByHand, CIEnds, CancelCI, RetryCI, Approve, Undraft, Redraft, CloseByHand, Reopen,
       MergeByHand, OnForge, Aside,
       TargetEnds, TargetRestarts, RestartItem, MarkDone, RecordByHand, LiftHalt
  <2>3. QED BY <2>1, <2>2
<1>4. ASSUME ~OrderStep, NEW k \in 1 .. Len(queue)
      PROVE  queue'[k].rounds = IF CountRound /\ queue[k].ref = Ref THEN queue[k].rounds + 1 ELSE queue[k].rounds
  <2>1. CASE CountRound
    <3>1. Updated(Ref, LAMBDA item : [item EXCEPT !.rounds = @ + 1])
      BY <2>1 DEF CountRound
    <3>2. Ref \in RefsOf(queue) /\ RoundsLeft(Ref)
      BY <2>1, RefOfTick DEF CountRound, At, FileInv, RoundKept
    <3>3. QED BY <1>1, <2>1, <3>1, <3>2, CountGives
  <2>2. CASE ~CountRound
    <3>1. \/ queue' = queue
          \/ \E m, value : value \in Statuses /\ SetStatus(m, value)
          \/ Updated(Ref, LAMBDA item : [item EXCEPT !.approved = tick.sha])
      BY <1>4, <2>2 DEF QueueNext, TickStep, OrderStep, Pick, ReadTarget, Wait, DropClosed, TakeMerged, Ask,
         GiveUp, StartFix,
         Unresolvable, Push, Merge, RecordMerge, SetTicketDone, CloseItem, Crash, NotForge, OnlyTick,
         People, Open, PushByHand, CIEnds, CancelCI, RetryCI, Approve, Undraft, Redraft, CloseByHand, Reopen,
         MergeByHand, OnForge, Aside,
         TargetEnds, TargetRestarts, RestartItem, MarkDone, RecordByHand, LiftHalt, Statuses
    <3>2. queue'[k].rounds = queue[k].rounds
      BY <1>1, <3>1, SetStatusGives, NoteGives
    <3>3. QED BY <2>2, <3>2
  <2>3. QED BY <2>1, <2>2
<1>5. OrderStep => fixes' = [m \in MRs |-> IF m \in RefsOf(queue) THEN fixes[m] ELSE 0]
  BY DEF OrderStep, StartTick, OrderedTick, CountAfresh
<1>6. QED BY <1>2, <1>3, <1>4, <1>5

\* The rounds keep up with the fixes.
LEMMA FixKeeps ==
    ASSUME QueueInv, FixInv, QueueNext
    PROVE  FixInv'
<1>1. /\ FileInv /\ FileInv' /\ queue \in Seq(Items) /\ queue' \in Seq(Items) /\ RefsDiffer(queue)
      /\ fixes \in [MRs -> Nat] /\ fixes' \in [MRs -> Nat]
      /\ crashes \in Nat /\ crashes' \in Nat /\ FixLimit \in Nat
      /\ \A k \in 1 .. Len(queue) : queue[k] \in Items
  BY FileKeeps, QueueAssumption DEF QueueInv, FileInv, QueueTypeOK
<1>2. \A k \in 1 .. Len(queue) : queue[k].ref \in MRs /\ queue[k].rounds \in 0 .. FixLimit
  BY <1>1 DEF Items
<1>3. /\ \/ fixes' = fixes
         \/ OrderStep /\ fixes' = [m \in MRs |-> IF m \in RefsOf(queue) THEN fixes[m] ELSE 0]
         \/ /\ Push /\ forge[Ref].state = "open" /\ tick'.at = "count" /\ Ref' = Ref
            /\ fixes' = [fixes EXCEPT ![Ref] = @ + 1]
      /\ OrderStep => fixes' = [m \in MRs |-> IF m \in RefsOf(queue) THEN fixes[m] ELSE 0]
      /\ crashes' = crashes \/ (Crash /\ crashes' = crashes + 1 /\ tick'.at = "idle")
      /\ ~OrderStep => \A k \in 1 .. Len(queue) :
            queue'[k].rounds = IF CountRound /\ queue[k].ref = Ref THEN queue[k].rounds + 1 ELSE queue[k].rounds
  BY <1>1, FixesMove
<1>4. crashes' >= crashes
  BY <1>1, <1>3
<1>5. CASE OrderStep
  <2>1. /\ tick.at = "idle" /\ crashes' = crashes
        /\ \A k \in 1 .. Len(queue') :
              \/ \E j \in 1 .. Len(queue) : queue'[k] = queue[j]
              \/ \E m \in MRs : queue'[k] = Item(m, "pending") /\ m \notin RefsOf(queue)
    BY <1>1, <1>5, OrderGives DEF OrderStep, StartTick, OrderedTick, At
  <2>2. \A m \in MRs : fixes'[m] = IF m \in RefsOf(queue) THEN fixes[m] ELSE 0
    BY <1>3, <1>5
  <2>3. FixesBounded'
    <3>1. FixLimit \in Nat /\ crashes \in Nat
      BY <1>1, QueueAssumption
    <3>2. \A m \in MRs : fixes'[m] <= FixLimit + crashes'
      BY <1>1, <2>1, <2>2, <3>1 DEF FixInv, FixesBounded
    <3>3. QED BY <3>2 DEF FixesBounded
  <2>4. ASSUME NEW k \in 1 .. Len(queue'), NEW r \in MRs, queue'[k].ref = r
        PROVE  fixes'[r] <= queue'[k].rounds + crashes' + Uncounted(r)'
    <3>1. queue'[k].rounds \in Nat /\ Uncounted(r)' \in {0, 1}
      <4>1. queue'[k] \in Items
        BY <1>1
      <4>2. queue'[k].rounds \in Nat
        BY ONLY <4>1 DEF Items
      <4>3. Uncounted(r)' \in {0, 1}
        BY ONLY DEF Uncounted
      <4>4. QED BY ONLY <4>2, <4>3
    <3>2. CASE \E j \in 1 .. Len(queue) : queue'[k] = queue[j]
      <4>1. PICK j \in 1 .. Len(queue) : queue'[k] = queue[j]
        BY <3>2
      <4>2. Uncounted(r) = 0 /\ queue[j].ref = r
        BY <2>1, <2>4, <4>1 DEF Uncounted, At
      <4>3. fixes[r] <= queue[j].rounds + crashes + Uncounted(r)
        BY <4>2 DEF FixInv
      <4>4. r \in RefsOf(queue) /\ fixes[r] \in Nat
        BY <1>1, <1>2, <4>2 DEF RefsOf
      <4>5. fixes'[r] = fixes[r]
        BY <2>2, <4>4
      <4>6. QED BY <1>1, <2>1, <3>1, <4>1, <4>2, <4>3, <4>4, <4>5
    <3>3. CASE \E m \in MRs : queue'[k] = Item(m, "pending") /\ m \notin RefsOf(queue)
      <4>1. fixes'[r] = 0
        BY <2>2, <2>4, <3>3 DEF Item
      <4>2. QED BY <1>1, <3>1, <4>1
    <3>4. QED BY <2>1, <3>2, <3>3
  <2>5. QED BY <2>3, <2>4 DEF FixInv
<1>6. CASE ~OrderStep
  <2>1. /\ Len(queue') = Len(queue)
        /\ \A k \in 1 .. Len(queue) : queue'[k].ref = queue[k].ref
    BY <1>1, <1>6, ItemsStayOtherwise DEF ItemsStay
  <2>2. ASSUME NEW k \in 1 .. Len(queue), NEW r \in MRs, r = queue[k].ref
        PROVE  fixes'[r] <= queue'[k].rounds + crashes' + Uncounted(r)'
    <3>1. fixes[r] <= queue[k].rounds + crashes + Uncounted(r)
      BY <2>2 DEF FixInv
    <3>2. queue'[k].rounds = IF CountRound /\ r = Ref THEN queue[k].rounds + 1 ELSE queue[k].rounds
      BY <1>3, <1>6, <2>2
    <3>3. Uncounted(r) \in {0, 1} /\ Uncounted(r)' \in {0, 1} /\ queue[k].rounds \in Nat /\ fixes[r] \in Nat
      BY <1>1, <1>2 DEF Uncounted
    <3>4. CASE fixes' = fixes
      <4>1. \/ Uncounted(r) = 0
            \/ Uncounted(r)' = 1
            \/ CountRound /\ r = Ref
            \/ crashes' = crashes + 1
        <5>1. SUFFICES ASSUME tick.at = "count", Ref = r, ~CountRound, ~Crash PROVE Uncounted(r)' = 1
          BY DEF Uncounted, At, Crash
        <5>2. tick' = tick
          BY ZenonT(60), <1>6, <5>1 DEF QueueNext, TickStep, OrderStep, Pick, ReadTarget, Wait, DropClosed, TakeMerged,
             Ask, GiveUp,
             StartFix, Unresolvable, Push, Merge, RecordMerge, SetTicketDone, CloseItem, Acts, At, NotForge,
             People, Open, PushByHand, CIEnds, CancelCI, RetryCI, Approve, Undraft, Redraft, CloseByHand,
             Reopen, MergeByHand,
             OnForge, Aside, TargetEnds, TargetRestarts, RestartItem, MarkDone, RecordByHand, LiftHalt
        <5>3. QED BY <5>1, <5>2 DEF Uncounted, At, Ref
      <4> DEFINE f == fixes[r]
                 n1 == queue[k].rounds
                 n2 == queue'[k].rounds
                 u1 == Uncounted(r)
                 u2 == Uncounted(r)'
      <4>2. f \in Nat /\ n1 \in Nat /\ u1 \in {0, 1} /\ u2 \in {0, 1} /\ f <= n1 + crashes + u1
        BY <3>1, <3>3
      <4>3. (CountRound /\ r = Ref /\ n2 = n1 + 1) \/ (~(CountRound /\ r = Ref) /\ n2 = n1)
        BY <3>2
      <4>4. crashes \in Nat /\ crashes' \in Nat /\ crashes' >= crashes
        BY <1>1, <1>4
      <4>5. u1 = 0 \/ u2 = 1 \/ (CountRound /\ r = Ref) \/ crashes' = crashes + 1
        BY <4>1
      <4> HIDE DEF f, n1, n2, u1, u2
      <4>6. u1 = 0 \/ u2 = 1 \/ n2 = n1 + 1 \/ crashes' = crashes + 1
        BY <4>3, <4>5
      <4>7. n2 = n1 \/ n2 = n1 + 1
        BY <4>3
      <4>8. f <= n2 + crashes' + u2
        BY <4>2, <4>4, <4>6, <4>7
      <4>9. QED BY <3>4, <4>8 DEF f, n2, u2
    <3>5. CASE Push /\ tick'.at = "count" /\ Ref' = Ref /\ fixes' = [fixes EXCEPT ![Ref] = @ + 1]
      <4>1. /\ queue' = queue /\ crashes' = crashes
            /\ Uncounted(r) = 0 /\ Uncounted(r)' = IF r = Ref THEN 1 ELSE 0
        BY <3>5 DEF Push, Uncounted, At
      <4>2. fixes'[r] = IF r = Ref THEN fixes[r] + 1 ELSE fixes[r]
        BY <1>1, <3>5
      <4>3. QED BY <1>1, <3>1, <3>3, <4>1, <4>2
    <3>6. QED BY <1>3, <1>6, <3>4, <3>5
  <2>3. FixesBounded'
    <3>1. CASE fixes' = fixes
      BY <1>1, <1>4, <3>1 DEF FixInv, FixesBounded
    <3>2. CASE Push /\ forge[Ref].state = "open" /\ fixes' = [fixes EXCEPT ![Ref] = @ + 1]
      <4>1. Ref \in RefsOf(queue) /\ Ref \in MRs /\ RoundsLeft(Ref) /\ tick.at = "push" /\ crashes' = crashes
        BY <1>1, <3>2, RefOfTick DEF FileInv, RoundKept, Push, At
      <4> DEFINE k == PlaceOf(queue, Ref)
      <4>2. k \in 1 .. Len(queue) /\ queue[k].ref = Ref /\ queue[k].rounds < FixLimit
        BY <1>1, <4>1, ItemOfFinds DEF RoundsLeft, ItemOf
      <4> HIDE DEF k
      <4>3. fixes[Ref] <= queue[k].rounds + crashes /\ queue[k].rounds \in Nat
        <5>1. Uncounted(Ref) = 0
          BY <4>1 DEF Uncounted, At
        <5>2. fixes[Ref] <= queue[k].rounds + crashes + Uncounted(Ref)
          BY <4>1, <4>2 DEF FixInv
        <5>3. queue[k].rounds \in Nat /\ crashes \in Nat
          BY <1>1, <1>2, <4>2
        <5>4. QED BY <5>1, <5>2, <5>3
      <4>4. fixes'[Ref] = fixes[Ref] + 1 /\ \A m \in MRs \ {Ref} : fixes'[m] = fixes[m]
        BY <1>1, <3>2, <4>1
      <4>5. fixes'[Ref] <= FixLimit + crashes'
        BY <1>1, <4>1, <4>2, <4>3, <4>4
      <4>6. QED BY <4>1, <4>4, <4>5 DEF FixInv, FixesBounded
    <3>3. QED BY <1>3, <1>6, <3>1, <3>2
  <2>4. \A k \in 1 .. Len(queue'), r \in MRs :
           queue'[k].ref = r => fixes'[r] <= queue'[k].rounds + crashes' + Uncounted(r)'
    BY <2>1, <2>2
  <2>5. QED BY <2>3, <2>4 DEF FixInv
<1>7. QED BY <1>5, <1>6

\* FixInv holds in the beginning, and every step keeps it.
LEMMA FixInductive ==
    /\ QueueInit => FixInv
    /\ QueueInv /\ FixInv /\ [QueueNext]_queueVars => FixInv'
<1>1. ASSUME QueueInit PROVE FixInv
  <2>1. fixes = [m \in MRs |-> 0] /\ crashes = 0 /\ FixLimit \in Nat /\ tick.at = "idle"
        /\ queue \in Seq(Items)
    BY <1>1, QueueInductive, TickValues, QueueAssumption DEF QueueInit, QueueInv, FileInv, QueueTypeOK
  <2>2. \A k \in 1 .. Len(queue) : queue[k] \in Items
    BY <2>1
  <2>3. \A k \in 1 .. Len(queue) : queue[k].ref \in MRs /\ queue[k].rounds \in Nat
    BY <2>1, <2>2 DEF Items
  <2>4. QED BY <2>1, <2>3 DEF FixInv, FixesBounded, Uncounted, At
<1>2. ASSUME FixInv, UNCHANGED queueVars PROVE FixInv'
  BY <1>2 DEF queueVars, FixInv, FixesBounded, Uncounted, At, Ref
<1>3. QED BY <1>1, <1>2, FixKeeps

(* As long as the queue has an item of an MR, ticks push no more fixes to   *)
(* it than the limit and one for each crash: no step that keeps the item    *)
(* forgets its rounds, however people order, restart, close and reopen.     *)
THEOREM FixesAreBounded == QueueSpec => []FixesBounded
<1>1. FixInv => FixesBounded
  BY DEF FixInv
<1>2. QED BY <1>1, FixInductive, QueueInductive, PTL DEF QueueSpec

-----------------------------------------------------------------------------
(* What follows needs people whose orders and restarts heed what is awaited: *)
(* FreeOrders = FALSE.                                                       *)

(* An item that awaits its CI, or the first of those that await a merge. *)
Foremost(k) ==
    \/ queue[k].status = "merging"
    \/ queue[k].status = "pending" /\ \A j \in 1 .. k - 1 : queue[j].status # "pending"

(* MergesAreSpaced needs more to be inductive: an MR that is awaited is a   *)
(* foremost one of the queue, also when the tick that merged it died before *)
(* it said so, and what a tick merges is a foremost one.                    *)
SpaceInv ==
    /\ \A n \in MRs : Awaited(n) => \E k \in 1 .. Len(queue) : queue[k].ref = n /\ Foremost(k)
    /\ tick.at \in {"act", "merged"} =>
          \E k \in 1 .. Len(queue) : queue[k].ref = Ref /\ Foremost(k)
    /\ At("act") => \A n \in MRs : Awaited(n) => n = Ref /\ tick.verdict = "merged"
    /\ tick.at \in {"push", "count"} => \A n \in MRs : ~Awaited(n)
    /\ tick.at \in {"ticket", "close"} => ~Awaited(Ref)

\* The first item of all is the only foremost one when none is merging.
LEMMA ForemostIsOne ==
    ASSUME FileInv, NEW j \in 1 .. Len(queue), NEW k \in 1 .. Len(queue), Foremost(j), Foremost(k),
           \A i \in 1 .. Len(queue) : queue[i].status # "merging"
    PROVE  j = k
<1>1. Len(queue) \in Nat
  BY DEF FileInv, QueueTypeOK
<1>2. SUFFICES ASSUME j # k PROVE FALSE
  OBVIOUS
<1>3. /\ queue[j].status = "pending" /\ \A i \in 1 .. j - 1 : queue[i].status # "pending"
      /\ queue[k].status = "pending" /\ \A i \in 1 .. k - 1 : queue[i].status # "pending"
  BY DEF Foremost
<1>4. j \in Nat /\ k \in Nat /\ (j \in 1 .. k - 1 \/ k \in 1 .. j - 1)
  BY <1>1, <1>2
<1>5. QED BY <1>3, <1>4

\* Nothing comes to be awaited but by a merge of a tick's.
LEMMA AwaitedMoves ==
    ASSUME QueueInv, QueueNext, NEW n \in MRs, Awaited(n)'
    PROVE  Awaited(n) \/ (Merge /\ HeadAsJudged /\ n = Ref)
<1>1. /\ target' = target /\ targetCI \in [MRs -> {"none", "running", "success", "failed"}]
      /\ \A m \in byTick : forge[m].state = "merged"
  BY ForgeMoves DEF QueueInv, FileInv, QueueTypeOK, MergedInv, ForgeMovesOn
<1>2. n \in byTick' /\ target[n] = Default /\ targetCI'[n] \in {"none", "running"}
  BY <1>1 DEF Awaited
<1>3. CASE n \notin byTick
  BY <1>2, <1>3, ByTickMoves DEF QueueInv
<1>4. CASE n \in byTick /\ targetCI'[n] # targetCI[n]
  <2>1. forge[n].state = "merged" /\ targetCI' # targetCI
    BY <1>1, <1>4
  <2>2. CASE Merge
    <3>1. Ref \in MRs /\ \E ci : targetCI' = [targetCI EXCEPT ![Ref] = ci]
      BY <2>1, <2>2, RefOfTick DEF Merge, QueueInv, Acts, At
    <3>2. n = Ref
      BY <1>1, <1>4, <3>1
    <3>3. HeadAsJudged
      BY <2>1, <2>2 DEF Merge
    <3>4. QED BY <2>1, <3>2, <3>3 DEF HeadAsJudged
  <2>3. CASE \E m \in MRs, drift \in {"clear", "behind", "conflict"} : MergeByHand(m, drift)
    <3>1. PICK m \in MRs : forge[m].state = "open" /\ \E ci : targetCI' = [targetCI EXCEPT ![m] = ci]
      BY <2>3 DEF MergeByHand, IsOpen
    <3>2. n = m
      BY <1>1, <1>4, <3>1
    <3>3. QED BY <2>1, <3>1, <3>2
  <2>4. CASE \E m \in MRs : TargetStep(m)
    <3>1. PICK m \in MRs : targetCI[m] \in {"none", "running"} /\ \E ci : targetCI' = [targetCI EXCEPT ![m] = ci]
      BY <2>4 DEF TargetStep, TargetEnds, Aside, TargetRestarts
    <3>2. n = m
      BY <1>1, <1>4, <3>1
    <3>3. QED BY <1>2, <1>4, <3>1, <3>2 DEF Awaited
  <2>5. QED
    BY <2>1, <2>2, <2>3, <2>4 DEF QueueNext, TickStep, StartTick, Pick, ReadTarget, Wait, DropClosed, TakeMerged, Ask,
       GiveUp, StartFix, Unresolvable, Push, CountRound, RecordMerge, SetTicketDone, CloseItem, Crash, NotForge, OnlyTick,
       OrderedTick, People, Open, PushByHand, CIEnds, CancelCI, RetryCI, Approve, Undraft, Redraft,
       CloseByHand, Reopen, OnForge, Aside,
       TargetStep, RestartItem, MarkDone, RecordByHand, LiftHalt
<1>5. CASE n \in byTick /\ targetCI'[n] = targetCI[n]
  BY <1>2, <1>5 DEF Awaited
<1>6. QED BY <1>3, <1>4, <1>5

\* An item stays the foremost one.
LEMMA ForemostStays ==
    ASSUME QueueInv, QueueNext, ItemsStay, NEW k \in 1 .. Len(queue), Foremost(k),
           queue'[k].status \in {queue[k].status, "merging"},
           \A j \in 1 .. Len(queue) : j # k =>
              \/ queue'[j].status = queue[j].status \/ queue'[j].status # "pending"
              \/ queue'[k].status = "merging" \/ j > k
    PROVE  Foremost(k)'
<1>1. Len(queue') = Len(queue) /\ Len(queue) \in Nat
  BY DEF ItemsStay, QueueInv, FileInv, QueueTypeOK
<1>2. CASE queue'[k].status = "merging"
  BY <1>2 DEF Foremost
<1>3. CASE queue'[k].status # "merging"
  <2>1. queue'[k].status = queue[k].status /\ queue[k].status = "pending"
        /\ \A j \in 1 .. k - 1 : queue[j].status # "pending"
    BY <1>3 DEF Foremost
  <2>2. ASSUME NEW j \in 1 .. k - 1 PROVE queue'[j].status # "pending"
    <3>1. j \in 1 .. Len(queue) /\ j # k /\ ~(j > k)
      BY <1>1
    <3>2. QED BY <1>3, <2>1, <3>1
  <2>3. QED BY <2>1, <2>2 DEF Foremost
<1>4. QED BY <1>2, <1>3

\* What an order does to what is awaited: nothing.
LEMMA OrderKeepsForemost ==
    ASSUME ~FreeOrders, QueueInv, SpaceInv, OrderStep, NEW n \in MRs, Awaited(n)
    PROVE  \E k \in 1 .. Len(queue') : queue'[k].ref = n /\ Foremost(k)'
<1>1. queue \in Seq(Items) /\ RefsDiffer(queue)
  BY DEF QueueInv, FileInv, QueueTypeOK
<1>2. PICK k \in 1 .. Len(queue) : queue[k].ref = n /\ Foremost(k)
  BY DEF SpaceInv
<1>3. StartTick
  BY DEF OrderStep, OrderedTick
<1>4. NextRef(queue) # NoMR \/ Halted(queue)
  <2> SUFFICES ASSUME ~Halted(queue) PROVE NextRef(queue) # NoMR
    OBVIOUS
  <2>1. k \in Where(queue, {"pending", "merging"})
    BY <1>2 DEF Where, Foremost
  <2>2. NextRef(queue) \in RefsOf(queue)
    <3>1. \A statuses : Where(queue, statuses) \in SUBSET (1 .. Len(queue))
      BY DEF Where
    <3>2. CASE Where(queue, {"merging"}) # {}
      <4>1. PICK i \in Where(queue, {"merging"}) : FirstOf(queue, Where(queue, {"merging"})) = queue[i].ref
        BY <1>1, <3>1, <3>2, FirstOfFinds
      <4>2. QED BY <2>1, <3>1, <3>2, <4>1 DEF NextRef, RefsOf
    <3>3. CASE Where(queue, {"merging"}) = {}
      <4>1. Where(queue, {"pending"}) # {}
        BY <2>1, <3>3 DEF Where
      <4>2. PICK i \in Where(queue, {"pending"}) : FirstOf(queue, Where(queue, {"pending"})) = queue[i].ref
        BY <1>1, <3>1, <4>1, FirstOfFinds
      <4>3. QED BY <2>1, <3>1, <3>3, <4>2 DEF NextRef, RefsOf
    <3>4. QED BY <3>2, <3>3
  <2>3. NoMR \notin RefsOf(queue)
    <3>1. \A i \in 1 .. Len(queue) : queue[i] \in Items
      BY <1>1
    <3>2. NoMR \notin MRs
      BY QueueAssumption DEF NoMR, MRs
    <3>3. QED BY <3>1, <3>2 DEF RefsOf, Items
  <2>4. QED BY <2>2, <2>3
<1>5. CASE queue' = queue
  BY <1>2, <1>5 DEF Foremost
<1>6. CASE queue' = QueueAppend(queue, Propose)
  <2> DEFINE new == QueueAppend(queue, Propose)
  <2>1. /\ new \in Seq(Items)
        /\ \A i \in 1 .. Len(queue) : i \in 1 .. Len(new) /\ new[i] = queue[i]
        /\ \A i \in 1 .. Len(new) :
              i \notin 1 .. Len(queue) => /\ i > Len(queue)
                                          /\ \E j \in 1 .. Len(Propose) : /\ Propose[j] \notin RefsOf(queue)
                                                                          /\ new[i] = Item(Propose[j], "pending")
    BY <1>1, ProposeLists, QueueAppendGives
  <2>2. new = queue'
    BY <1>6
  <2> HIDE DEF new
  <2>3. /\ \A i \in 1 .. Len(queue) : i \in 1 .. Len(queue') /\ queue'[i] = queue[i]
        /\ \A i \in 1 .. Len(queue') : i \notin 1 .. Len(queue) => queue'[i].status = "pending"
    <3>1. \A m : Item(m, "pending").status = "pending"
      BY DEF Item
    <3>2. QED BY <2>1, <2>2, <3>1
  <2>4. \A j \in 1 .. k - 1 : j \in 1 .. Len(queue)
    BY <1>1
  <2>5. queue'[k] = queue[k] /\ k \in 1 .. Len(queue')
    BY <1>2, <2>3
  <2>6. Foremost(k)'
    BY <1>2, <2>3, <2>4, <2>5 DEF Foremost
  <2>7. QED BY <1>2, <2>5, <2>6
<1>7. QED BY <1>3, <1>4, <1>5, <1>6 DEF StartTick

\* Who is at work while an MR is awaited, and what that does to a status.
LEMMA AwaitedStays ==
    ASSUME ~FreeOrders, QueueInv, SpaceInv, QueueNext, ~OrderStep, ItemsStay, NEW n \in MRs, Awaited(n), Awaited(n)'
    PROVE  \E k \in 1 .. Len(queue') : queue'[k].ref = n /\ Foremost(k)'
<1>1. queue \in Seq(Items) /\ RefsDiffer(queue) /\ FileInv /\ Len(queue) \in Nat
  BY DEF QueueInv, FileInv, QueueTypeOK
<1>2. PICK k \in 1 .. Len(queue) : queue[k].ref = n /\ Foremost(k)
  BY DEF SpaceInv
<1>3. /\ At("act") => n = Ref /\ tick.verdict = "merged"
      /\ tick.at \notin {"push", "count"}
      /\ tick.at \in {"ticket", "close"} => n # Ref
  BY DEF SpaceInv
<1>4. ~DropClosed /\ ~GiveUp /\ ~Unresolvable
  BY <1>3 DEF DropClosed, GiveUp, Unresolvable, Acts, At
<1>5. ASSUME NEW j \in 1 .. Len(queue), queue'[j].status # queue[j].status
      PROVE  /\ j = k => queue'[j].status = "merging"
             /\ j # k => queue'[j].status # "pending" \/ queue'[k].status = "merging" \/ j > k
  <2>1. \/ queue'[j].status = "stopped" /\ queue[j].ref = Ref /\ ReadTarget
        \/ queue'[j].status = "merging" /\ queue[j].ref = Ref /\ (TakeMerged \/ RecordMerge)
        \/ queue'[j].status = "done" /\ queue[j].ref = Ref /\ CloseItem
        \/ /\ queue'[j].status = "pending" /\ queue[j].status \in {"stopped", "closed"}
           /\ RestartItem(queue[j].ref) /\ queue[j].ref \in MRs
        \/ queue'[j].status = "done" /\ queue[j].status = "stopped"
        \/ queue'[j].status = "merging" /\ queue[j].status = "pending"
        \/ queue'[j].status = "closed" /\ queue[j].status = "halted"
    BY <1>1, <1>4, <1>5, StatusMoves
  <2>2. CASE queue'[j].status = "stopped" /\ queue[j].ref = Ref /\ ReadTarget
    <3>1. targetCI[Ref] = "failed"
      BY <1>5, <2>2 DEF ReadTarget
    <3>2. Ref # n
      BY <3>1 DEF Awaited
    <3>3. QED BY <1>2, <2>2, <3>2
  <2>3. CASE queue'[j].status = "merging"
    BY <2>3
  <2>4. CASE queue'[j].status = "done" /\ queue[j].ref = Ref /\ CloseItem
    BY <1>2, <1>3, <2>4 DEF CloseItem, At
  <2>5. CASE /\ queue'[j].status = "pending" /\ queue[j].status \in {"stopped", "closed"}
             /\ RestartItem(queue[j].ref) /\ queue[j].ref \in MRs
    <3>1. j # k
      BY <1>2, <2>5 DEF Foremost
    <3>2. SUFFICES ASSUME queue'[k].status # "merging" PROVE j > k
      BY <2>5, <3>1
    <3>3. queue[k].ref \in RefsOf(queue) /\ queue[j].ref \in RefsOf(queue)
      BY DEF RefsOf
    <3>4. PlaceOf(queue, n) = k /\ PlaceOf(queue, queue[j].ref) = j /\ ItemOf(queue, n) = queue[k]
      BY <1>1, <1>2, <3>3, ItemOfFinds
    <3>5. SetStatus(queue[j].ref, "pending") /\ ~JumpsQueue(queue[j].ref)
      BY <2>5 DEF RestartItem, Aside
    <3>6. queue'[k].status = queue[k].status
      <4>1. queue[k].ref # queue[j].ref
        BY <1>1, <3>1 DEF RefsDiffer
      <4>2. QED BY <1>1, <3>5, <4>1, SetStatusGives DEF Statuses
    <3>7. Unrecorded(n)
      BY <3>2, <3>4, <3>6 DEF Unrecorded
    <3>8. ~(j < k)
      BY <1>2, <3>3, <3>4, <3>5, <3>7 DEF JumpsQueue
    <3>9. QED BY <1>1, <3>1, <3>8
  <2>6. CASE \/ queue'[j].status = "closed" /\ queue[j].status = "halted"
             \/ queue'[j].status = "done" /\ queue[j].status = "stopped"
    BY <1>2, <2>6 DEF Foremost
  <2>7. QED BY <2>1, <2>2, <2>3, <2>4, <2>5, <2>6
<1>6. queue'[k].status \in {queue[k].status, "merging"}
  BY <1>5
<1>7. \A j \in 1 .. Len(queue) : j # k =>
              \/ queue'[j].status = queue[j].status \/ queue'[j].status # "pending"
              \/ queue'[k].status = "merging" \/ j > k
  BY <1>5
<1>8. Foremost(k)'
  BY <1>2, <1>6, <1>7, ForemostStays
<1>9. k \in 1 .. Len(queue') /\ queue'[k].ref = n
  BY <1>2 DEF ItemsStay
<1>10. QED BY <1>8, <1>9

\* Where the tick is after a step that moved it, with respect to what is awaited.
LEMMA TickKeepsSpace ==
    ASSUME ~FreeOrders, QueueInv, SpaceInv, QueueNext, ~OrderStep, ItemsStay, tick' # tick
    PROVE  /\ tick'.at \in {"act", "merged"} =>
                 \E k \in 1 .. Len(queue') : queue'[k].ref = Ref' /\ Foremost(k)'
           /\ At("act")' => \A n \in MRs : Awaited(n)' => n = Ref' /\ tick'.verdict = "merged"
           /\ tick'.at \in {"push", "count"} => \A n \in MRs : ~Awaited(n)'
           /\ tick'.at \in {"ticket", "close"} => ~Awaited(Ref)'
<1>1. queue \in Seq(Items) /\ RefsDiffer(queue) /\ FileInv /\ target' = target
  BY ForgeMoves DEF QueueInv, FileInv, QueueTypeOK, ForgeMovesOn
<1>2. tick'.at \notin {"idle", "pick"} => Ref' \in MRs
  <2>1. tick'.at \in {"idle", "pick"} \/ tick'.ref \in RefsOf(queue)
    BY <1>1, TickKeepsType
  <2>2. \A k \in 1 .. Len(queue) : queue[k] \in Items
    BY <1>1
  <2>3. QED BY <2>1, <2>2 DEF RefsOf, Items, Ref
<1>3. ASSUME ~Merge, NEW n \in MRs, Awaited(n)' PROVE Awaited(n)
  BY <1>3, AwaitedMoves
<1>4. CASE tick'.at \in {"idle", "pick"}
  BY <1>4 DEF At
<1>5. CASE Pick
  <2>1. queue' = queue /\ tick.at = "pick" /\ ~Merge /\ Len(queue') = Len(queue)
    BY <1>5 DEF Pick, OnlyTick, NotForge, Merge, Acts, At
  <2>2. SUFFICES ASSUME tick'.at \notin {"idle", "pick"}
        PROVE  /\ tick'.at \in {"act", "merged"} =>
                     \E k \in 1 .. Len(queue') : queue'[k].ref = Ref' /\ Foremost(k)'
               /\ At("act")' => \A n \in MRs : Awaited(n)' => n = Ref' /\ tick'.verdict = "merged"
               /\ tick'.at \in {"push", "count"} => \A n \in MRs : ~Awaited(n)'
               /\ tick'.at \in {"ticket", "close"} => ~Awaited(Ref)'
    BY <1>4
  <2>3. PICK m \in MRs : m = Ref'
    BY <1>2, <2>2
  <2>4. PICK k \in 1 .. Len(queue) :
                    /\ queue[k].ref = Ref'
                    /\ \/ tick'.at = "ticket" /\ queue[k].status = "verifying"
                       \/ tick'.at = "target" /\ queue[k].status = "merging"
                       \/ /\ tick' = Judged(Ref')
                          /\ queue[k].status = "pending"
                          /\ \A j \in 1 .. Len(queue) : queue[j].status # "merging"
                          /\ \A j \in 1 .. k - 1 : queue[j].status # "pending"
    BY <1>1, <1>5, <2>1, <2>2, TickMoves DEF ReadTarget, TakeMerged, RecordMerge, StartFix, Push, Merge,
       SetTicketDone, Acts, At, People
  <2>5. CASE tick'.at = "ticket" /\ queue[k].status = "verifying"
    <3>1. ~Awaited(m)
      <4>1. SUFFICES ASSUME Awaited(m) PROVE FALSE
        OBVIOUS
      <4>2. PICK i \in 1 .. Len(queue) : queue[i].ref = m /\ Foremost(i)
        BY <4>1 DEF SpaceInv
      <4>3. i = k
        BY <1>1, <2>3, <2>4, <4>2 DEF RefsDiffer
      <4>4. QED BY <2>5, <4>2, <4>3 DEF Foremost
    <3>2. ~Awaited(m)'
      BY <1>3, <2>1, <3>1
    <3>3. ~Awaited(Ref)'
      BY <2>3, <3>2 DEF Awaited
    <3>4. QED BY <2>5, <3>3 DEF At
  <2>6. CASE tick'.at = "target"
    BY <2>6 DEF At
  <2>7. CASE /\ tick' = Judged(Ref')
             /\ queue[k].status = "pending"
             /\ \A j \in 1 .. Len(queue) : queue[j].status # "merging"
             /\ \A j \in 1 .. k - 1 : queue[j].status # "pending"
    <3>1. tick'.at = "act" /\ tick'.verdict = Verdict(forge[m], ItemOf(queue, m).approved)
      BY <1>1, <2>3, <2>7, JudgedGives
    <3>2. Foremost(k) /\ Foremost(k)'
      BY <2>1, <2>7 DEF Foremost
    <3>3. ASSUME NEW n \in MRs, Awaited(n)' PROVE n = Ref' /\ tick'.verdict = "merged"
      <4>1. Awaited(n)
        BY <1>3, <2>1, <3>3
      <4>2. PICK i \in 1 .. Len(queue) : queue[i].ref = n /\ Foremost(i)
        BY <4>1 DEF SpaceInv
      <4>3. i = k
        BY <1>1, <2>7, <3>2, <4>2, ForemostIsOne
      <4>4. n = m
        BY <2>3, <2>4, <4>2, <4>3
      <4>5. forge[m].state = "merged" /\ forge[m] \in Requests
        BY <4>1, <4>4 DEF Awaited, QueueInv, MergedInv, FileInv, QueueTypeOK
      <4>6. QED BY <2>3, <3>1, <4>4, <4>5, VerdictGives
    <3>4. QED BY <2>1, <2>4, <2>7, <3>1, <3>2, <3>3 DEF At
  <2>8. QED BY <2>4, <2>5, <2>6, <2>7
<1>6. CASE Merge /\ HeadAsJudged /\ tick'.at = "merged" /\ Ref' = Ref
  <2>1. queue' = queue /\ tick.at = "act"
    BY <1>6 DEF Merge, Acts, At
  <2>2. PICK k \in 1 .. Len(queue) : queue[k].ref = Ref /\ Foremost(k)
    BY <2>1 DEF SpaceInv
  <2>3. Foremost(k)'
    BY <2>1, <2>2 DEF Foremost
  <2>4. QED BY <1>6, <2>1, <2>2, <2>3 DEF At
<1>7. CASE tick'.at = "push" /\ StartFix
  <2>1. \A n \in MRs : ~Awaited(n)
    BY <1>7 DEF SpaceInv, StartFix, Acts, At
  <2>2. ~Merge
    BY <1>7 DEF StartFix, Merge, Acts
  <2>3. QED BY <1>3, <1>7, <2>1, <2>2 DEF At
<1>8. CASE tick'.at = "count" /\ Push
  <2>1. \A n \in MRs : ~Awaited(n)
    BY <1>8 DEF SpaceInv, Push, At
  <2>2. ~Merge
    BY <1>8 DEF Push, Merge, Acts, At
  <2>3. QED BY <1>3, <1>8, <2>1, <2>2 DEF At
<1>9. CASE /\ tick'.at = "ticket" /\ Ref' = Ref
           /\ \/ ReadTarget /\ targetCI[Ref] = "success"
              \/ TakeMerged /\ ClosesAtOnce(Ref)
              \/ RecordMerge /\ ClosesAtOnce(Ref)
  <2>1. PICK m \in MRs : m = Ref'
    BY <1>2, <1>9
  <2>2. ~Awaited(m)
    BY <1>9, <2>1 DEF Awaited, ClosesAtOnce
  <2>3. ~Merge
    BY <1>9 DEF ReadTarget, TakeMerged, RecordMerge, Merge, Acts, At
  <2>4. ~Awaited(m)'
    BY <1>3, <2>2, <2>3
  <2>5. ~Awaited(Ref)'
    BY <2>1, <2>4 DEF Awaited
  <2>6. QED BY <1>9, <2>5 DEF At
<1>10. CASE tick'.at = "close" /\ Ref' = Ref /\ SetTicketDone
  <2>1. PICK m \in MRs : m = Ref'
    BY <1>2, <1>10
  <2>2. ~Awaited(m) /\ ~Merge
    BY <1>10, <2>1 DEF SpaceInv, SetTicketDone, Merge, Acts, At
  <2>3. ~Awaited(m)'
    BY <1>3, <2>2
  <2>4. ~Awaited(Ref)'
    BY <2>1, <2>3 DEF Awaited
  <2>5. QED BY <1>10, <2>4 DEF At
<1>11. QED BY <1>1, <1>4, <1>5, <1>6, <1>7, <1>8, <1>9, <1>10, TickMoves

\* What is awaited stays the foremost, whoever moves.
LEMMA SpaceKeeps ==
    ASSUME ~FreeOrders, QueueInv, SpaceInv, QueueNext
    PROVE  SpaceInv'
<1>1. queue \in Seq(Items) /\ RefsDiffer(queue) /\ FileInv /\ target' = target /\ Len(queue) \in Nat
  BY ForgeMoves DEF QueueInv, FileInv, QueueTypeOK, ForgeMovesOn
<1>2. CASE OrderStep
  <2>1. UNCHANGED <<target, targetCI, byTick>> /\ tick'.at = "pick"
    BY <1>1, <1>2, OrderGives
  <2>2. ASSUME NEW n \in MRs, Awaited(n)' PROVE \E k \in 1 .. Len(queue') : queue'[k].ref = n /\ Foremost(k)'
    <3>1. Awaited(n)
      BY <2>1, <2>2 DEF Awaited
    <3>2. QED BY <1>2, <3>1, OrderKeepsForemost
  <2>3. QED BY <2>1, <2>2 DEF SpaceInv, At
<1>3. CASE ~OrderStep
  <2>1. ItemsStay
    BY <1>1, <1>3, ItemsStayOtherwise
  <2>2. ASSUME NEW n \in MRs, Awaited(n)' PROVE \E k \in 1 .. Len(queue') : queue'[k].ref = n /\ Foremost(k)'
    <3>1. CASE Awaited(n)
      BY <1>3, <2>1, <2>2, <3>1, AwaitedStays
    <3>2. CASE ~Awaited(n)
      <4>1. Merge /\ n = Ref /\ tick.at = "act" /\ queue' = queue
        BY <2>2, <3>2, AwaitedMoves DEF Merge, Acts, At
      <4>2. PICK k \in 1 .. Len(queue) : queue[k].ref = n /\ Foremost(k)
        BY <4>1 DEF SpaceInv
      <4>3. Foremost(k)'
        BY <4>1, <4>2 DEF Foremost
      <4>4. QED BY <4>1, <4>2, <4>3
    <3>3. QED BY <3>1, <3>2
  <2>3. CASE tick' # tick
    <3>1. /\ tick'.at \in {"act", "merged"} =>
                \E k \in 1 .. Len(queue') : queue'[k].ref = Ref' /\ Foremost(k)'
          /\ At("act")' => \A n \in MRs : Awaited(n)' => n = Ref' /\ tick'.verdict = "merged"
          /\ tick'.at \in {"push", "count"} => \A n \in MRs : ~Awaited(n)'
          /\ tick'.at \in {"ticket", "close"} => ~Awaited(Ref)'
      BY <1>3, <2>1, <2>3, TickKeepsSpace
    <3>2. QED BY <2>2, <3>1 DEF SpaceInv
  <2>4. CASE tick' = tick
    <3>1. Ref' = Ref /\ tick'.at = tick.at /\ (At("act")' <=> At("act"))
      BY <2>4 DEF Ref, At
    <3>2. tick.at \notin {"idle", "pick"} => Ref \in MRs
      BY <1>1, RefOfTick
    <3>3. ~Merge
      BY <2>4, TickValues, <3>2 DEF Merge, Acts, At, End, Places
    <3>4. \A n \in MRs : Awaited(n)' => Awaited(n)
      BY <3>3, AwaitedMoves
    <3>5. tick.at \in {"ticket", "close"} => ~Awaited(Ref)'
      <4>1. SUFFICES ASSUME tick.at \in {"ticket", "close"} PROVE ~Awaited(Ref)'
        OBVIOUS
      <4>2. PICK m \in MRs : m = Ref
        BY <3>2, <4>1
      <4>3. ~Awaited(m)'
        BY <3>4, <4>1, <4>2 DEF SpaceInv
      <4>4. QED BY <3>1, <4>2, <4>3 DEF Awaited
    <3>6. ASSUME tick.at \in {"act", "merged"}
          PROVE  \E k \in 1 .. Len(queue') : queue'[k].ref = Ref /\ Foremost(k)'
      <4>1. PICK k \in 1 .. Len(queue) : queue[k].ref = Ref /\ Foremost(k)
        BY <3>6 DEF SpaceInv
      <4>2. ASSUME NEW j \in 1 .. Len(queue), queue'[j].status # queue[j].status
            PROVE  /\ j = k => queue'[j].status = "merging"
                   /\ j # k => queue'[j].status # "pending" \/ j > k
        <5>1. \/ /\ queue'[j].status = "pending" /\ queue[j].status \in {"stopped", "closed"}
                 /\ RestartItem(queue[j].ref)
              \/ queue'[j].status = "closed" /\ queue[j].status = "halted"
              \/ queue'[j].status = "done" /\ queue[j].status = "stopped"
              \/ queue'[j].status = "merging" /\ queue[j].status = "pending"
          <6>1. ~ReadTarget /\ ~CloseItem
            BY <3>6 DEF ReadTarget, CloseItem, At
          <6>2. ~GiveUp /\ ~Unresolvable /\ ~DropClosed /\ ~TakeMerged /\ ~RecordMerge
            BY <2>4, <3>2, <3>6, TickValues DEF GiveUp, Unresolvable, DropClosed, TakeMerged, RecordMerge,
               Acts, At, End
          <6>3. QED BY <1>1, <1>3, <4>2, <6>1, <6>2, StatusMoves
        <5>2. CASE queue'[j].status = "merging"
          BY <5>2
        <5>3. CASE queue'[j].status \in {"closed", "done"} /\ queue[j].status \in {"halted", "stopped"}
          BY <4>1, <5>3 DEF Foremost
        <5>4. CASE /\ queue'[j].status = "pending" /\ queue[j].status \in {"stopped", "closed"}
                   /\ RestartItem(queue[j].ref)
          <6>1. queue[k].ref \in RefsOf(queue) /\ queue[j].ref \in RefsOf(queue)
            BY DEF RefsOf
          <6>2. PlaceOf(queue, queue[k].ref) = k /\ PlaceOf(queue, queue[j].ref) = j
            BY <1>1, <6>1, ItemOfFinds
          <6>3. ~JumpsQueue(queue[j].ref)
            BY <5>4 DEF RestartItem, Aside
          <6>4. ~(j < k)
            BY <4>1, <6>1, <6>2, <6>3 DEF JumpsQueue
          <6>5. j # k
            BY <4>1, <5>4 DEF Foremost
          <6>6. QED BY <1>1, <6>4, <6>5
        <5>5. QED BY <5>1, <5>2, <5>3, <5>4
      <4>3. queue'[k].status \in {queue[k].status, "merging"}
        BY <4>2
      <4>4. \A j \in 1 .. Len(queue) : j # k =>
                \/ queue'[j].status = queue[j].status \/ queue'[j].status # "pending"
                \/ queue'[k].status = "merging" \/ j > k
        BY <4>2
      <4>5. Foremost(k)'
        BY <2>1, <4>1, <4>3, <4>4, ForemostStays
      <4>6. k \in 1 .. Len(queue') /\ queue'[k].ref = Ref
        BY <2>1, <4>1 DEF ItemsStay
      <4>7. QED BY <4>5, <4>6
    <3>7. At("act") => \A n \in MRs : Awaited(n) => n = Ref /\ tick.verdict = "merged"
      BY DEF SpaceInv
    <3>8. tick.at \in {"push", "count"} => \A n \in MRs : ~Awaited(n)
      BY DEF SpaceInv
    <3>9. QED BY <2>2, <2>4, <3>1, <3>4, <3>5, <3>6, <3>7, <3>8 DEF SpaceInv
  <2>5. QED BY <2>3, <2>4
<1>4. QED BY <1>2, <1>3

(* A tick merges to the default branch only when the CI of all it merged   *)
(* there before has ended, when people heed the queue: what is awaited is  *)
(* the item a tick looks at first, recorded or not, and the verdict on it  *)
(* is that it is merged.                                                   *)
THEOREM SpacesMerges ==
    ASSUME ~FreeOrders
    PROVE  QueueSpec => MergesAreSpaced
<1>1. QueueInit => SpaceInv
  <2> SUFFICES ASSUME QueueInit PROVE SpaceInv
    OBVIOUS
  <2>1. byTick = {} /\ tick.at = "idle"
    BY TickValues DEF QueueInit
  <2>2. QED BY <2>1 DEF SpaceInv, Awaited, At
<1>2. QueueInv /\ SpaceInv /\ [QueueNext]_queueVars => SpaceInv'
  <2>1. ASSUME SpaceInv, UNCHANGED queueVars PROVE SpaceInv'
    BY <2>1 DEF queueVars, SpaceInv, Awaited, Foremost, At, Ref
  <2>2. QED BY <2>1, SpaceKeeps
<1>3. QueueInv /\ SpaceInv /\ [QueueNext]_queueVars
        => [\A m \in byTick' \ byTick : target[m] = Default => \A n \in MRs : ~Awaited(n)]_queueVars
  <2> SUFFICES ASSUME QueueInv, SpaceInv, QueueNext, NEW m \in byTick' \ byTick, NEW n \in MRs PROVE ~Awaited(n)
    BY DEF queueVars
  <2>1. tick.at = "act" /\ tick.verdict = "ready"
    BY ByTickMoves DEF QueueInv
  <2>2. QED BY <2>1 DEF SpaceInv, At
<1>4. QED BY <1>1, <1>2, <1>3, QueueInductive, PTL DEF QueueSpec, MergesAreSpaced

-----------------------------------------------------------------------------
(* Both. *)

\* Side by side each component does as its own specification says.
LEMMA EachByItself == Spec => QueueSpec /\ MonitoringSpec
<1>1. Init => QueueInit /\ MonitoringInit
  BY DEF Init
<1>2. [QueuePart \/ MonitoringPart]_<<part, queueVars, monitoringVars>> => [QueueNext]_queueVars
  BY DEF QueuePart, MonitoringPart
<1>3. [QueuePart \/ MonitoringPart]_<<part, queueVars, monitoringVars>> => [MonitoringNext]_monitoringVars
  BY DEF QueuePart, MonitoringPart
<1>4. QED BY <1>1, <1>2, <1>3, PTL DEF Spec, QueueSpec, MonitoringSpec

(* Both components keep their types side by side. *)
THEOREM LoopsTypeCorrect == Spec => []LoopsTypeOK
<1>1. LoopsTypeOK <=> QueueTypeOK /\ MonitoringTypeOK
  BY DEF LoopsTypeOK
<1>2. QueueSpec => []QueueTypeOK
  BY QueueTypeCorrect, PTL
<1>3. MonitoringSpec => []MonitoringTypeOK
  BY MonitoringTypeCorrect, PTL
<1>4. QED BY <1>1, <1>2, <1>3, EachByItself, PTL
=============================================================================
