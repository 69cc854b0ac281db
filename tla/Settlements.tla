---------------------------- MODULE Settlements ----------------------------
(***************************************************************************)
(* Settlements (invoices sent and paid), the tickets linked to them, and   *)
(* their attachments, whose rows are in the database and whose files are   *)
(* in the object store (services/settlements.py, dashboard/settlements.py, *)
(* the frozen-ticket checks of services/tickets.py).                       *)
(*                                                                         *)
(* Every request loads what it decides on and commits later; nothing is    *)
(* locked in between, and only the columns that differ from the loaded     *)
(* ones are written.                                                       *)
(***************************************************************************)
EXTENDS Integers, FiniteSets

CONSTANTS
    Bills, Works, Papers, Clerks,   \* settlements, tickets, attachments, requests
    NoBill                          \* an attachment without a row

ASSUME SettlementAssumption == NoBill \notin Bills

VARIABLES
    bill,     \* row of each settlement
    links,    \* rows of settlement_tickets
    work,     \* what each ticket says: title, description, priority, story
              \* points, assignee, due date
    row,      \* the settlement the row of an attachment belongs to
    file,     \* the file of each attachment in the object store
    clerk,    \* what each request is doing
    overtaken, \* requests in flight since before something was sealed
    outdated,  \* changes of a status in flight since before another one of
               \* the same settlement
    crossed    \* settlements whose status was changed by an outdated one,
               \* and that have not gone back to draft since
\* The last three are history: no action reads them.

settlementVars ==
    <<bill, links, work, row, file, clerk, overtaken, outdated, crossed>>

BillStatuses == {"draft", "sent", "paid"}
Wordings == {"first", "second"}          \* two contents, told apart
Stamps == {"null", "set"}
Loaded == "loaded"                       \* a column the request does not write
Idle == [op |-> "free"]

Bill == [status: BillStatuses, sentAt: Stamps, paidAt: Stamps,
         active: BOOLEAN, terms: Wordings]
Calls ==
    [op: {"status"}, bill: Bills, status: BillStatuses,
     sentAt: Stamps \cup {Loaded}, paidAt: Stamps \cup {Loaded}]
    \cup [op: {"edit", "delete"}, bill: Bills]
    \cup [op: {"link", "unlink"}, bill: Bills, work: Works]
    \cup [op: {"reword", "discard"}, work: Works]
    \cup [op: {"form", "save"}, work: Works, old: SUBSET Bills, new: SUBSET Bills]
    \cup [op: {"upload"}, bill: Bills, paper: Papers, stored: BOOLEAN]
    \cup [op: {"remove"}, bill: Bills, paper: Papers, stored: BOOLEAN]

SettlementsTypeOK ==
    /\ bill \in [Bills -> Bill]
    /\ links \subseteq Bills \X Works
    /\ work \in [Works -> Wordings \cup {"gone"}]
    /\ row \in [Papers -> Bills \cup {NoBill}]
    /\ file \in [Papers -> {"none", "stored", "removed"}]
    /\ clerk \in [Clerks -> Calls \cup {Idle}]
    /\ overtaken \subseteq Clerks
    /\ outdated \subseteq Clerks
    /\ crossed \subseteq Bills

(* The settlements have been created, with nothing in them. *)
SettlementsInit ==
    /\ bill = [b \in Bills |-> [status |-> "draft", sentAt |-> "null", paidAt |-> "null",
                                active |-> TRUE, terms |-> "first"]]
    /\ links = {}
    /\ work = [w \in Works |-> "first"]
    /\ row = [p \in Papers |-> NoBill]
    /\ file = [p \in Papers |-> "none"]
    /\ clerk = [k \in Clerks |-> Idle]
    /\ overtaken = {}
    /\ outdated = {}
    /\ crossed = {}

-----------------------------------------------------------------------------
(* ALLOWED_SETTLEMENT_TRANSITIONS *)
Allowed(status) ==
    CASE status = "draft" -> {"sent"}
      [] status = "sent"  -> {"paid", "draft"}
      [] status = "paid"  -> {"sent"}

Sealed(b) == bill[b].status \in {"sent", "paid"}
Draft(b) == bill[b].active /\ ~Sealed(b)
Linked(b) == {w \in Works : <<b, w>> \in links}

(* A mutant: a paid settlement no longer freezes its tickets. *)
FrozenWhenSent(w) ==
    \E b \in Bills : w \in Linked(b) /\ bill[b].status = "sent" /\ bill[b].active

(* is_ticket_frozen *)
Frozen(w) == \E b \in Bills : w \in Linked(b) /\ Sealed(b) /\ bill[b].active

Busy == {k \in Clerks : clerk[k] # Idle}
Is(k, op) == clerk[k].op = op
Begin(k, request) ==
    /\ clerk[k] = Idle
    /\ clerk' = [clerk EXCEPT ![k] = request]
    /\ UNCHANGED <<bill, links, work, row, file, overtaken, outdated, crossed>>
Finish(k) ==
    /\ clerk' = [clerk EXCEPT ![k] = Idle]
    /\ overtaken' = overtaken \ {k}
FinishSealing(k) ==
    /\ clerk' = [clerk EXCEPT ![k] = Idle]
    /\ overtaken' = Busy \ {k}

Reworded(text) == IF text = "first" THEN "second" ELSE "first"

(* A mutant: a stamp is never cleared. *)
Kept(loaded) == Loaded

Cleared(loaded) == IF loaded = "null" THEN Loaded ELSE "null"
Stamped(column, value) == IF value = Loaded THEN column ELSE value

-----------------------------------------------------------------------------
(* change_settlement_status: sent_at is set by the sending and cleared by  *)
(* the way back to draft, paid_at set by the payment and cleared by        *)
(* leaving sent or paid otherwise; the sending leaves paid_at alone.       *)
LoadStatus(k, b, status) ==
    /\ bill[b].active
    /\ status \in Allowed(bill[b].status)
    /\ LET old == bill[b]
           sentAt == IF old.status = "draft" THEN "set"
                     ELSE IF status = "draft" THEN Cleared(old.sentAt) ELSE Loaded
           paidAt == IF status = "paid" THEN "set"
                     ELSE IF old.status = "draft" THEN Loaded ELSE Cleared(old.paidAt)
       IN Begin(k, [op |-> "status", bill |-> b, status |-> status,
                    sentAt |-> sentAt, paidAt |-> paidAt])

CommitStatus(k) ==
    /\ Is(k, "status")
    /\ LET c == clerk[k] IN
       /\ bill' = [bill EXCEPT ![c.bill].status = c.status,
                               ![c.bill].sentAt = Stamped(@, c.sentAt),
                               ![c.bill].paidAt = Stamped(@, c.paidAt)]
       /\ IF c.status # "draft" /\ ~Sealed(c.bill) THEN FinishSealing(k) ELSE Finish(k)
       /\ outdated' = {q \in Clerks \ {k} :
                          q \in outdated \/ (Is(q, "status") /\ clerk[q].bill = c.bill)}
       /\ crossed' = IF k \in outdated THEN crossed \cup {c.bill}
                     ELSE IF c.status = "draft" THEN crossed \ {c.bill} ELSE crossed
    /\ UNCHANGED <<links, work, row, file>>

(* update_settlement and delete_settlement *)
LoadForEdit(k, b) == Draft(b) /\ Begin(k, [op |-> "edit", bill |-> b])

CommitEdit(k) ==
    /\ Is(k, "edit")
    /\ bill' = [bill EXCEPT ![clerk[k].bill].terms = Reworded(@)]
    /\ Finish(k)
    /\ UNCHANGED <<links, work, row, file, outdated, crossed>>

LoadForDelete(k, b) == Draft(b) /\ Begin(k, [op |-> "delete", bill |-> b])

CommitDelete(k) ==
    /\ Is(k, "delete")
    /\ bill' = [bill EXCEPT ![clerk[k].bill].active = FALSE]
    /\ Finish(k)
    /\ UNCHANGED <<links, work, row, file, outdated, crossed>>

(* settlement_link_ticket and settlement_unlink_ticket. A link to a ticket *)
(* that is gone by then violates its foreign key and is rolled back.       *)
LoadForLink(k, b, w) ==
    /\ Draft(b) /\ work[w] # "gone" /\ w \notin Linked(b)
    /\ Begin(k, [op |-> "link", bill |-> b, work |-> w])

CommitLink(k) ==
    /\ Is(k, "link")
    /\ LET c == clerk[k] IN
       /\ links' = IF work[c.work] = "gone" THEN links ELSE links \cup {<<c.bill, c.work>>}
       /\ IF Sealed(c.bill) THEN FinishSealing(k) ELSE Finish(k)
    /\ UNCHANGED <<bill, work, row, file, outdated, crossed>>

LoadForUnlink(k, b, w) ==
    /\ Draft(b) /\ w \in Linked(b)
    /\ Begin(k, [op |-> "unlink", bill |-> b, work |-> w])

CommitUnlink(k) ==
    /\ Is(k, "unlink")
    /\ links' = links \ {<<clerk[k].bill, clerk[k].work>>}
    /\ Finish(k)
    /\ UNCHANGED <<bill, work, row, file, outdated, crossed>>

(* update_ticket and the bulk update of anything in "work", and the two    *)
(* ways to delete a ticket                                                 *)
LoadForReword(k, w) ==
    /\ work[w] # "gone" /\ ~Frozen(w)
    /\ Begin(k, [op |-> "reword", work |-> w])

CommitReword(k) ==
    /\ Is(k, "reword")
    /\ LET w == clerk[k].work IN
       work' = [work EXCEPT ![w] = IF @ = "gone" THEN @ ELSE Reworded(@)]
    /\ Finish(k)
    /\ UNCHANGED <<bill, links, row, file, outdated, crossed>>

LoadForDiscard(k, w) ==
    /\ work[w] # "gone" /\ ~Frozen(w)
    /\ Begin(k, [op |-> "discard", work |-> w])

CommitDiscard(k) ==
    /\ Is(k, "discard")
    /\ LET w == clerk[k].work IN
       /\ work' = [work EXCEPT ![w] = "gone"]
       /\ links' = links \ (Bills \X {w})            \* ON DELETE CASCADE
    /\ Finish(k)
    /\ UNCHANGED <<bill, row, file, outdated, crossed>>

(* ticket_edit, the form of the dashboard: the ticket is loaded with its    *)
(* settlements and checked; then each settlement ticked is looked up again *)
(* (its status is the loaded one when the ticket had it), unless the user  *)
(* may not write settlements; the commit writes the ticket and the rows of *)
(* the links that differ.                                                  *)
LoadForForm(k, w) ==
    /\ work[w] # "gone" /\ ~Frozen(w)
    /\ LET held == {b \in Bills : w \in Linked(b)} IN
       Begin(k, [op |-> "form", work |-> w, old |-> held, new |-> held])

PickBills(k, new) ==
    /\ Is(k, "form")
    /\ \/ new = clerk[k].old
       \/ \A b \in new : bill[b].active /\ (b \in clerk[k].old \/ ~Sealed(b))
    /\ clerk' = [clerk EXCEPT ![k] =
                    [op |-> "save", work |-> clerk[k].work, old |-> clerk[k].old, new |-> new]]
    /\ UNCHANGED <<bill, links, work, row, file, overtaken, outdated, crossed>>

(* A ticket that is gone, or a link somebody else has made, fails it.      *)
CommitForm(k) ==
    /\ Is(k, "save")
    /\ LET c == clerk[k]
           added == c.new \ c.old
           fails == work[c.work] = "gone" \/ \E b \in added : c.work \in Linked(b)
       IN /\ work' = IF fails THEN work ELSE [work EXCEPT ![c.work] = Reworded(@)]
          /\ links' = IF fails THEN links
                      ELSE (links \ ((c.old \ c.new) \X {c.work})) \cup (added \X {c.work})
          /\ IF ~fails /\ \E b \in added : Sealed(b) THEN FinishSealing(k) ELSE Finish(k)
    /\ UNCHANGED <<bill, row, file, outdated, crossed>>

-----------------------------------------------------------------------------
(* upload_settlement_attachment: the file goes to the store under a path   *)
(* nobody else has, then its row is committed.                             *)
LoadForUpload(k, b, p) ==
    /\ Draft(b)
    /\ file[p] = "none"
    /\ \A q \in Clerks : ~(Is(q, "upload") /\ clerk[q].paper = p)
    /\ Begin(k, [op |-> "upload", bill |-> b, paper |-> p, stored |-> FALSE])

StoreFile(k) ==
    /\ Is(k, "upload") /\ ~clerk[k].stored
    /\ file' = [file EXCEPT ![clerk[k].paper] = "stored"]
    /\ clerk' = [clerk EXCEPT ![k].stored = TRUE]
    /\ UNCHANGED <<bill, links, work, row, overtaken, outdated, crossed>>

(* A mutant: the row does not wait for the file. *)
CommitRowFirst(k) ==
    /\ Is(k, "upload")
    /\ row' = [row EXCEPT ![clerk[k].paper] = clerk[k].bill]
    /\ Finish(k)
    /\ UNCHANGED <<bill, links, work, file, outdated, crossed>>

CommitRow(k) ==
    /\ Is(k, "upload") /\ clerk[k].stored
    /\ row' = [row EXCEPT ![clerk[k].paper] = clerk[k].bill]
    /\ Finish(k)
    /\ UNCHANGED <<bill, links, work, file, outdated, crossed>>

(* delete_settlement_attachment: the file first, and the row also when the *)
(* store refused                                                           *)
LoadForRemove(k, p) ==
    /\ row[p] # NoBill /\ Draft(row[p])
    /\ Begin(k, [op |-> "remove", bill |-> row[p], paper |-> p, stored |-> TRUE])

RemoveFile(k) ==
    /\ Is(k, "remove") /\ clerk[k].stored
    /\ \E gone \in {"removed", file[clerk[k].paper]} :
          file' = [file EXCEPT ![clerk[k].paper] = gone]
    /\ clerk' = [clerk EXCEPT ![k].stored = FALSE]
    /\ UNCHANGED <<bill, links, work, row, overtaken, outdated, crossed>>

DeleteRow(k) ==
    /\ Is(k, "remove") /\ ~clerk[k].stored
    /\ row' = [row EXCEPT ![clerk[k].paper] = NoBill]
    /\ Finish(k)
    /\ UNCHANGED <<bill, links, work, file, outdated, crossed>>

(* The request fails or its process dies before the commit. *)
AbandonRequest(k) ==
    /\ clerk[k] # Idle
    /\ Finish(k)
    /\ outdated' = outdated \ {k}
    /\ UNCHANGED <<bill, links, work, row, file, crossed>>

SettlementsNext ==
    \E k \in Clerks :
        \/ \E b \in Bills, status \in BillStatuses : LoadStatus(k, b, status)
        \/ CommitStatus(k)
        \/ \E b \in Bills : LoadForEdit(k, b)
        \/ CommitEdit(k)
        \/ \E b \in Bills : LoadForDelete(k, b)
        \/ CommitDelete(k)
        \/ \E b \in Bills, w \in Works : LoadForLink(k, b, w)
        \/ CommitLink(k)
        \/ \E b \in Bills, w \in Works : LoadForUnlink(k, b, w)
        \/ CommitUnlink(k)
        \/ \E w \in Works : LoadForReword(k, w)
        \/ CommitReword(k)
        \/ \E w \in Works : LoadForDiscard(k, w)
        \/ CommitDiscard(k)
        \/ \E w \in Works : LoadForForm(k, w)
        \/ \E new \in SUBSET Bills : PickBills(k, new)
        \/ CommitForm(k)
        \/ \E b \in Bills, p \in Papers : LoadForUpload(k, b, p)
        \/ StoreFile(k)
        \/ CommitRow(k)
        \/ \E p \in Papers : LoadForRemove(k, p)
        \/ RemoveFile(k)
        \/ DeleteRow(k)
        \/ AbandonRequest(k)

SettlementsSpec == SettlementsInit /\ [][SettlementsNext]_settlementVars

-----------------------------------------------------------------------------
(* The status and its two timestamps agree, whatever else of the settlement *)
(* is edited, linked, deleted or given up meanwhile: a draft carries no     *)
(* stamp, what was sent has sent_at, and only what is paid has paid_at. Two *)
(* overlapping changes of one settlement's status can part them (the second *)
(* leaves the columns alone that it loaded); only such a pair does, and the *)
(* next way back to draft mends it.                                         *)
StampsAgree ==
    \A b \in Bills \ crossed :
        /\ bill[b].sentAt = "set" <=> Sealed(b)
        /\ bill[b].paidAt = "set" <=> bill[b].status = "paid"

(* A settlement somebody received: sent or paid, and not deleted. *)
Stands(b) == Sealed(b) /\ bill[b].active

(* What was sent stays as it was sent: the terms, the tickets and the      *)
(* attachments of a sent or paid settlement, and the content of every      *)
(* ticket linked to one, change only by a request that was already under   *)
(* way when the settlement, or the link, came under the seal. The content  *)
(* is what work says; status, sprint, blockers, criteria, files and hours  *)
(* of a frozen ticket are written by requests that never ask.              *)
SealHolds ==
    [][/\ \A b \in Bills :
            Stands(b) /\ \/ bill'[b].terms # bill[b].terms
                         \/ ~bill'[b].active
                         \/ {w \in Works : <<b, w>> \in links'} # Linked(b)
                         \/ {p \in Papers : row'[p] = b} # {p \in Papers : row[p] = b}
            => \E k \in overtaken : clerk'[k] = Idle
       /\ \A w \in Works :
            work'[w] # work[w] /\ (\E b \in Bills : Stands(b) /\ w \in Linked(b))
            => \E k \in overtaken : clerk'[k] = Idle
      ]_settlementVars

(* A row of an attachment always has its file in the store, wherever a     *)
(* request is cut off, unless somebody began to delete that attachment:    *)
(* no settlement lists an attachment that was never stored.                *)
RowHasFile == \A p \in Papers : row[p] # NoBill => file[p] # "none"
=============================================================================
