----------------------------- MODULE DependencyStore -----------------------------
(***************************************************************************)
(* What callers of the blocker relation are promised: a table of tickets   *)
(* and an acyclic table of blockers that change in single, atomic steps.   *)
(* There are no sessions and no locks here; TicketDependencies implements  *)
(* this with transactions of several statements.                           *)
(***************************************************************************)
EXTENDS Reachability

CONSTANTS Ticket, projectOf,
          Batches               \* TRUE if one commit may rewrite several tickets

VARIABLES tickets, deps

Blockers(D, t) == {b \in Ticket : <<t, b>> \in D}

Valid(T, D) ==
    /\ \A e \in D : {e[1], e[2]} \subseteq T /\ projectOf[e[1]] = projectOf[e[2]]
    /\ NoCycle(Ticket, D)

Init == tickets \in SUBSET Ticket /\ deps = {}

\* The whole list of one ticket is replaced; judged on the table as it is at
\* that very moment, no new blocker depends on the ticket.
Replace(t) ==
    /\ tickets' = tickets
    /\ \E B \in {Blockers(deps', t)} :
          /\ B \subseteq {b \in tickets : projectOf[b] = projectOf[t]}
          /\ \A b \in B : t \notin Reach(Ticket, deps, b)
          /\ deps' = {e \in deps : e[1] # t} \cup ({t} \X B)

\* A new ticket, with its blockers.
Add(t) ==
    /\ t \notin tickets
    /\ tickets' = tickets \cup {t}
    /\ \E B \in {Blockers(deps', t)} :
          /\ B \subseteq {b \in tickets : projectOf[b] = projectOf[t]}
          /\ deps' = deps \cup ({t} \X B)

\* A ticket goes with every row that names it.
Remove(t) ==
    /\ tickets' = tickets \ {t}
    /\ deps' = {e \in deps : t \notin {e[1], e[2]}}

\* Several tickets rewritten at once; what is left is valid.
Batch == Batches /\ tickets' = tickets /\ Valid(tickets, deps')

Next == Batch \/ \E t \in Ticket : (t \in tickets /\ (Replace(t) \/ Remove(t))) \/ Add(t)

Spec == Init /\ [][Next]_<<tickets, deps>>
=============================================================================
