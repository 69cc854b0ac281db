--------------------------- MODULE MCSprintDispatcher ---------------------------
(* Two or three tickets, the second blocked by the first.                  *)
EXTENDS SprintDispatcher, TLC

CONSTANTS a, b, c

\* Every step of a tick but the save of a session that was just spawned.
Tick        == {"state", "save", "collect", "stop", "find", "spawn", "comment", "dispatch", "report"}
Dispatching == {"dispatch"}
MCBlockers == [t \in Ticket |-> IF t = b THEN {a} ELSE {}]
NoBlockers == [t \in Ticket |-> {}]
MCRank  == [t \in Ticket |-> CASE t = a -> 1 [] t = b -> 2 [] t = c -> 3]
Forward == {<<"in_review", "done">>}
Rework  == {<<"in_review", "done">>, <<"in_review", "todo">>, <<"in_progress", "todo">>}
Symmetry == Permutations(Session) \cup Permutations(Loop)
=============================================================================
