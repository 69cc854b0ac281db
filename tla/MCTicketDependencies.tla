-------------------------- MODULE MCTicketDependencies --------------------------
(* Three tickets of one project and one of another; prose that declares    *)
(* each of the first two tickets a blocker of the other.                   *)
EXTENDS TicketDependencies, TLC

CONSTANTS t1, t2, t3, u1, p1, p2

MCProjectOf == [t \in Ticket |-> IF t = u1 THEN p2 ELSE p1]
MCDeclared  == [t \in Ticket |-> CASE t = t1 -> {t2} [] t = t2 -> {t1}
                                   [] t = t3 -> {t1, u1} \cap Ticket [] OTHER -> {}]
MCLists     == {{}, {t1}, {t2}, {t3}, {t2, u1}}
OneOrNone   == {{}, {t1}, {t2}}
Symmetry    == Permutations(Txn)
=============================================================================
