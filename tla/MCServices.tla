----------------------------- MODULE MCServices -----------------------------
(***************************************************************************)
(* Seven components that share no state, checked in one run: part says which *)
(* of them runs, and the others stay in their first state. The settlements *)
(* run twice, once with their tickets and once with their attachments,     *)
(* which meet only in the settlement's row.                                *)
(***************************************************************************)
EXTENDS SprintBoard, AgentPipelines, Settlements, SettlementNumbers,
        ErrorGrouping, TestLock, WikiPages, TLC

CONSTANTS u1, u2, i1, i2, u3, g1, g2, first, second

VARIABLE part

MCStepOf == [j \in Jobs |-> IF j = u3 THEN second ELSE first]

(* The components share these names too, to keep the symmetry group small. *)
Symmetry == Permutations({u1, u2}) \cup Permutations({i1, i2}) \cup Permutations({g1, g2})

Init ==
    /\ part \in {"board", "pipelines", "settlements", "papers", "numbers", "errors", "lock",
                "wiki"}
    /\ BoardInit /\ PipelinesInit /\ SettlementsInit /\ NumbersInit /\ ErrorsInit
    /\ LockInit /\ WikiInit
    /\ part # "wiki" => home = [p \in Pages |-> first]

(* Bounds: one request at a time writes the columns of a ticket, no        *)
(* request works on a ticket beside the start of a sprint, which touches   *)
(* none, and one ticket at most is otherwise than a creation can leave it. *)
OneWrite == \A q, r \in Callers :
    Doing(q, "write") /\ call[r].op \in {"write", "start"} => q = r
Apart == \A q, r \in Callers : ~(Doing(q, "start") /\ call[r].op \in {"create", "delete"})
AsCreated(c) ==
    \/ card[c] = Unborn
    \/ card[c].status = "backlog" /\ card[c].sprint = NoSprint
    \/ card[c].status = "todo" /\ card[c].sprint # NoSprint
OneChanged == \A c, d \in Cards : ~AsCreated(c) /\ ~AsCreated(d) => c = d

BoardPart ==
    /\ part = "board" /\ BoardNext /\ OneWrite' /\ Apart' /\ OneChanged'
    /\ UNCHANGED <<part, pipelineVars, settlementVars, numberVars, errorVars, lockVars,
                   wikiVars>>

(* A bound: once the pipeline has ended, the calls begun after that take   *)
(* turns, among themselves and with a second finish. Jobs and steps do not *)
(* depend on the pipeline, and race before it ends.                        *)
OneMore ==
    pipeline.finished =>
        \A a, b \in Agents \ late : agentCall[a] # NoCall /\ agentCall[b] # NoCall => a = b

PipelinesPart ==
    /\ part = "pipelines" /\ PipelinesNext /\ OneMore'
    /\ UNCHANGED <<part, boardVars, settlementVars, numberVars, errorVars, lockVars,
                   wikiVars>>

(* Bounds: two settlements with a ticket, without their terms and their    *)
(* attachments, at most one of them deleted or crossed; or one settlement  *)
(* with its terms and its attachments, without tickets.                    *)
Odd(b) == b \in crossed \/ ~bill[b].active
Touched(b) ==
    \/ bill[b].status # "draft" \/ bill[b].terms # "first" \/ ~bill[b].active
    \/ \E k \in Clerks : Is(k, "status") /\ clerk[k].bill = b

SettlementsPart ==
    /\ SettlementsNext
    /\ \/ /\ part = "settlements"
          /\ \A k \in Clerks : clerk'[k].op \notin {"edit", "upload"}
          /\ \A b, c \in Bills : Odd(b)' /\ Odd(c)' => b = c
       \/ /\ part = "papers"
          /\ \A k \in Clerks : clerk'[k].op \notin {"link", "unlink", "reword", "discard", "form"}
          /\ \A b, c \in Bills : Touched(b)' /\ Touched(c)' => b = c
    /\ UNCHANGED <<part, boardVars, pipelineVars, numberVars, errorVars, lockVars,
                   wikiVars>>

NumbersPart ==
    /\ part = "numbers" /\ NumbersNext
    /\ UNCHANGED <<part, boardVars, pipelineVars, settlementVars, errorVars, lockVars,
                   wikiVars>>

ErrorsPart ==
    /\ part = "errors" /\ ErrorsNext
    /\ UNCHANGED <<part, boardVars, pipelineVars, settlementVars, numberVars, lockVars,
                   wikiVars>>

LockPart ==
    /\ part = "lock" /\ LockNext
    /\ UNCHANGED <<part, boardVars, pipelineVars, settlementVars, numberVars, errorVars,
                   wikiVars>>

WikiPart ==
    /\ part = "wiki" /\ WikiNext
    /\ UNCHANGED <<part, boardVars, pipelineVars, settlementVars, numberVars, errorVars,
                   lockVars>>

Next == BoardPart \/ PipelinesPart \/ SettlementsPart \/ NumbersPart \/ ErrorsPart \/ LockPart
            \/ WikiPart

Spec == Init /\ [][Next]_<<part, boardVars, pipelineVars, settlementVars, numberVars, errorVars,
                          lockVars, wikiVars>>

(* Every variable of the component that runs keeps its type. *)
ServicesTypeOK ==
    CASE part = "board"       -> BoardTypeOK
      [] part = "pipelines"   -> PipelinesTypeOK
      [] part \in {"settlements", "papers"} -> SettlementsTypeOK
      [] part = "numbers"     -> NumbersTypeOK
      [] part = "errors"      -> ErrorsTypeOK
      [] part = "lock"        -> LockTypeOK
      [] part = "wiki"        -> WikiTypeOK
=============================================================================
