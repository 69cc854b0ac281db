------------------------------ MODULE Reachability ------------------------------
(***************************************************************************)
(* Paths in a directed graph given as a set of edges <<a, b>>, stated      *)
(* without recursion so that TLC can evaluate it and TLAPS can prove about *)
(* it.  Reach(N, E, a) is the least set of nodes of N that holds a and is  *)
(* closed under E: what the recursive query of the ticket dependency check *)
(* enumerates.                                                             *)
(***************************************************************************)

\* S is closed under E: an edge that starts in S ends in S.
ClosedUnder(E, S) == \A e \in E : e[1] \in S => e[2] \in S

\* The nodes of N that a path of E leads to from a, a itself included.
Reach(N, E, a) ==
    {x \in N : \A S \in SUBSET N : (a \in S /\ ClosedUnder(E, S)) => x \in S}

\* Every non-empty set of nodes has a node that depends on no node of the set.
WellFounded(N, E) ==
    \A S \in SUBSET N : S # {} => \E m \in S : \A n \in S : <<m, n>> \notin E

\* No edge of E closes a cycle.
NoCycle(N, E) == \A e \in E : e[1] \notin Reach(N, E, e[2])
=============================================================================
