------------------------- MODULE SettlementsProofs --------------------------
(***************************************************************************)
(* For any settlements, tickets, attachments and requests: the stamps of a *)
(* settlement agree with its status, what was sent is sealed, no           *)
(* attachment is listed that was never stored (Settlements), and the       *)
(* numbers are consecutive (SettlementNumbers).                            *)
(***************************************************************************)
EXTENDS Settlements, SettlementNumbers, FiniteSetTheorems, TLAPS

-----------------------------------------------------------------------------
(* The steps of a request, by what they touch.                             *)
LoadStep(k) ==
    \/ \E b \in Bills, status \in BillStatuses : LoadStatus(k, b, status)
    \/ \E b \in Bills : LoadForEdit(k, b) \/ LoadForDelete(k, b)
    \/ \E b \in Bills, w \in Works : LoadForLink(k, b, w) \/ LoadForUnlink(k, b, w)
    \/ \E w \in Works : LoadForReword(k, w) \/ LoadForDiscard(k, w) \/ LoadForForm(k, w)
    \/ \E b \in Bills, p \in Papers : LoadForUpload(k, b, p)
    \/ \E p \in Papers : LoadForRemove(k, p)
BillStep(k)  == CommitStatus(k) \/ CommitEdit(k) \/ CommitDelete(k)
LinkStep(k)  == CommitLink(k) \/ CommitUnlink(k)
WorkStep(k)  == CommitReword(k) \/ CommitDiscard(k) \/ CommitForm(k)
PickStep(k)  == \E new \in SUBSET Bills : PickBills(k, new)
PaperStep(k) == StoreFile(k) \/ CommitRow(k) \/ RemoveFile(k) \/ DeleteRow(k)
ClerkStep(k) ==
    LoadStep(k) \/ BillStep(k) \/ LinkStep(k) \/ WorkStep(k) \/ PickStep(k) \/ PaperStep(k)
        \/ AbandonRequest(k)

LEMMA StepsByKind == SettlementsNext <=> \E k \in Clerks : ClerkStep(k)
  BY Zenon DEF SettlementsNext, ClerkStep, LoadStep, BillStep, LinkStep, WorkStep, PickStep, PaperStep

\* A request's operation tells its record.
LEMMA RequestRecord ==
    ASSUME NEW x \in Calls \cup {Idle}
    PROVE  /\ x.op \in {"status", "edit", "delete", "link", "unlink", "upload", "remove"} => x.bill \in Bills
           /\ x.op = "status" => /\ x.status \in BillStatuses /\ x.sentAt \in Stamps \cup {Loaded}
                                 /\ x.paidAt \in Stamps \cup {Loaded}
           /\ x.op \in {"link", "unlink", "reword", "discard", "form", "save"} => x.work \in Works
           /\ x.op \in {"form", "save"} => /\ x.old \subseteq Bills /\ x.new \subseteq Bills
           /\ x.op \in {"upload", "remove"} => /\ x.paper \in Papers /\ x.stored \in BOOLEAN
                                               /\ x = [op |-> x.op, bill |-> x.bill, paper |-> x.paper,
                                                       stored |-> x.stored]
           /\ x # Idle => x.op # "free"
  BY DEF Calls, Idle

-----------------------------------------------------------------------------
(* Types.                                                                  *)

\* A request that begins.
LEMMA BeginKeepsTypes ==
    ASSUME SettlementsTypeOK, NEW k \in Clerks, NEW request \in Calls, Begin(k, request)
    PROVE  SettlementsTypeOK'
  BY DEF SettlementsTypeOK, Begin

\* A request that ends.
LEMMA EndKeepsTypes ==
    ASSUME SettlementsTypeOK, NEW k \in Clerks, Finish(k) \/ FinishSealing(k)
    PROVE  /\ clerk' \in [Clerks -> Calls \cup {Idle}] /\ overtaken' \subseteq Clerks
           /\ clerk'[k] = Idle /\ \A q \in Clerks \ {k} : clerk'[q] = clerk[q]
           /\ k \notin overtaken'
  BY DEF SettlementsTypeOK, Finish, FinishSealing, Busy

LEMMA LoadKeepsTypes ==
    ASSUME SettlementsTypeOK, NEW k \in Clerks, LoadStep(k)
    PROVE  SettlementsTypeOK' /\ \E request \in Calls : Begin(k, request)
<1>1. ASSUME NEW b \in Bills, NEW status \in BillStatuses, LoadStatus(k, b, status)
      PROVE  \E request \in Calls : Begin(k, request)
  <2> DEFINE sentAt == IF bill[b].status = "draft" THEN "set"
                       ELSE IF status = "draft" THEN Cleared(bill[b].sentAt) ELSE Loaded
             paidAt == IF status = "paid" THEN "set"
                       ELSE IF bill[b].status = "draft" THEN Loaded ELSE Cleared(bill[b].paidAt)
             request == [op |-> "status", bill |-> b, status |-> status,
                         sentAt |-> sentAt, paidAt |-> paidAt]
  <2>1. \A loaded : Cleared(loaded) \in Stamps \cup {Loaded}
    BY DEF Cleared, Stamps
  <2>2. sentAt \in Stamps \cup {Loaded} /\ paidAt \in Stamps \cup {Loaded}
    BY <2>1 DEF Stamps
  <2>3. Begin(k, request)
    BY <1>1, Zenon DEF LoadStatus
  <2> HIDE DEF sentAt, paidAt
  <2>4. request \in Calls
    BY <2>2 DEF Calls
  <2>5. QED BY <2>3, <2>4
<1>2. ASSUME NEW b \in Bills, LoadForEdit(k, b) \/ LoadForDelete(k, b)
      PROVE  \E request \in Calls : Begin(k, request)
  BY <1>2 DEF LoadForEdit, LoadForDelete, Calls
<1>3. ASSUME NEW b \in Bills, NEW w \in Works, LoadForLink(k, b, w) \/ LoadForUnlink(k, b, w)
      PROVE  \E request \in Calls : Begin(k, request)
  BY <1>3 DEF LoadForLink, LoadForUnlink, Calls
<1>4. ASSUME NEW w \in Works, LoadForReword(k, w) \/ LoadForDiscard(k, w) \/ LoadForForm(k, w)
      PROVE  \E request \in Calls : Begin(k, request)
  BY <1>4 DEF LoadForReword, LoadForDiscard, LoadForForm, Calls
<1>5. ASSUME NEW b \in Bills, NEW p \in Papers, LoadForUpload(k, b, p)
      PROVE  \E request \in Calls : Begin(k, request)
  BY <1>5 DEF LoadForUpload, Calls
<1>6. ASSUME NEW p \in Papers, LoadForRemove(k, p)
      PROVE  \E request \in Calls : Begin(k, request)
  BY <1>6 DEF LoadForRemove, Calls, SettlementsTypeOK
<1>7. \E request \in Calls : Begin(k, request)
  BY <1>1, <1>2, <1>3, <1>4, <1>5, <1>6 DEF LoadStep
<1>8. QED BY <1>7, BeginKeepsTypes

\* The rows of settlements, links and tickets.
LEMMA CommitKeepsTypes ==
    ASSUME SettlementsTypeOK, NEW k \in Clerks, BillStep(k) \/ LinkStep(k) \/ WorkStep(k)
    PROVE  SettlementsTypeOK' /\ (Finish(k) \/ FinishSealing(k))
<1>0. clerk[k] \in Calls \cup {Idle}
  BY DEF SettlementsTypeOK
<1>1. CASE CommitStatus(k)
  <2>1. /\ clerk[k].bill \in Bills /\ clerk[k].status \in BillStatuses
        /\ clerk[k].sentAt \in Stamps \cup {Loaded} /\ clerk[k].paidAt \in Stamps \cup {Loaded}
    BY <1>0, <1>1, RequestRecord DEF CommitStatus, Is
  <2>2. \A column \in Stamps, value \in Stamps \cup {Loaded} : Stamped(column, value) \in Stamps
    BY DEF Stamped
  <2>3. bill' \in [Bills -> Bill]
    BY <1>1, <2>1, <2>2 DEF CommitStatus, SettlementsTypeOK, Bill
  <2>4. outdated' \subseteq Clerks /\ crossed' \subseteq Bills
    BY <1>1, <2>1 DEF CommitStatus, SettlementsTypeOK
  <2>5. QED BY <1>1, <2>3, <2>4, EndKeepsTypes DEF CommitStatus, SettlementsTypeOK
<1>2. CASE CommitEdit(k) \/ CommitDelete(k)
  <2>1. clerk[k].bill \in Bills
    BY <1>0, <1>2, RequestRecord DEF CommitEdit, CommitDelete, Is
  <2>2. bill' \in [Bills -> Bill]
    <3>1. /\ bill[clerk[k].bill] \in Bill
          /\ \A text \in Wordings : Reworded(text) \in Wordings
      BY <2>1 DEF SettlementsTypeOK, Reworded, Wordings
    <3>2. /\ [bill[clerk[k].bill] EXCEPT !.terms = Reworded(@)] \in Bill
          /\ [bill[clerk[k].bill] EXCEPT !.active = FALSE] \in Bill
      BY <3>1 DEF Bill
    <3>3. \/ bill' = [bill EXCEPT ![clerk[k].bill] = [bill[clerk[k].bill] EXCEPT !.terms = Reworded(@)]]
          \/ bill' = [bill EXCEPT ![clerk[k].bill] = [bill[clerk[k].bill] EXCEPT !.active = FALSE]]
      BY <1>2, Zenon DEF CommitEdit, CommitDelete
    <3>4. PICK changed \in Bill : bill' = [bill EXCEPT ![clerk[k].bill] = changed]
      BY <3>2, <3>3, Zenon
    <3>5. QED BY <2>1, <3>4 DEF SettlementsTypeOK
  <2>3. QED BY <1>2, <2>2, EndKeepsTypes DEF CommitEdit, CommitDelete, SettlementsTypeOK
<1>3. CASE LinkStep(k)
  <2>1. clerk[k].bill \in Bills /\ clerk[k].work \in Works
    BY <1>0, <1>3, RequestRecord DEF LinkStep, CommitLink, CommitUnlink, Is
  <2>2. links' \subseteq Bills \X Works
    BY <1>3, <2>1 DEF LinkStep, CommitLink, CommitUnlink, SettlementsTypeOK
  <2>3. QED BY <1>3, <2>2, EndKeepsTypes DEF LinkStep, CommitLink, CommitUnlink, SettlementsTypeOK
<1>4. CASE WorkStep(k)
  <2>1. clerk[k].work \in Works
    BY <1>0, <1>4, RequestRecord DEF WorkStep, CommitReword, CommitDiscard, CommitForm, Is
  <2>2. work' \in [Works -> Wordings \cup {"gone"}]
    BY <1>4, <2>1 DEF WorkStep, CommitReword, CommitDiscard, CommitForm, SettlementsTypeOK,
                      Reworded, Wordings
  <2>3. CASE CommitReword(k) \/ CommitDiscard(k)
    BY <2>2, <2>3, EndKeepsTypes DEF CommitReword, CommitDiscard, SettlementsTypeOK
  <2>4. CASE CommitForm(k)
    <3>1. clerk[k].old \subseteq Bills /\ clerk[k].new \subseteq Bills
      BY <1>0, <2>4, RequestRecord DEF CommitForm, Is
    <3>2. links' \subseteq links \cup ((clerk[k].new \ clerk[k].old) \X {clerk[k].work})
      BY <2>4 DEF CommitForm
    <3>3. links' \subseteq Bills \X Works
      BY <2>1, <3>1, <3>2 DEF SettlementsTypeOK
    <3>4. QED BY <2>2, <2>4, <3>3, EndKeepsTypes DEF CommitForm, SettlementsTypeOK
  <2>5. QED BY <1>4, <2>3, <2>4 DEF WorkStep
<1>5. QED BY <1>1, <1>2, <1>3, <1>4 DEF BillStep

\* Attachments, and a request given up.
LEMMA PaperKeepsTypes ==
    ASSUME SettlementsTypeOK, NEW k \in Clerks, PaperStep(k) \/ AbandonRequest(k)
    PROVE  /\ SettlementsTypeOK'
           /\ \A q \in Clerks \ {k} : clerk'[q] = clerk[q]
<1>0. clerk[k] \in Calls \cup {Idle}
  BY DEF SettlementsTypeOK
<1>1. CASE StoreFile(k) \/ RemoveFile(k)
  <2>1. /\ clerk[k].paper \in Papers /\ clerk[k].bill \in Bills /\ clerk[k].op \in {"upload", "remove"}
        /\ clerk[k] = [op |-> clerk[k].op, bill |-> clerk[k].bill, paper |-> clerk[k].paper,
                       stored |-> clerk[k].stored]
    BY <1>0, <1>1, RequestRecord DEF StoreFile, RemoveFile, Is
  <2>2. \A stored \in BOOLEAN : [clerk[k] EXCEPT !.stored = stored] \in Calls
    BY <2>1 DEF Calls
  <2>3. PICK stored \in BOOLEAN : clerk' = [clerk EXCEPT ![k] = [clerk[k] EXCEPT !.stored = stored]]
    BY <1>1 DEF StoreFile, RemoveFile, SettlementsTypeOK
  <2>4. clerk' \in [Clerks -> Calls \cup {Idle}] /\ \A q \in Clerks \ {k} : clerk'[q] = clerk[q]
    BY <2>2, <2>3 DEF SettlementsTypeOK
  <2>5. file' \in [Papers -> {"none", "stored", "removed"}]
    BY <1>1, <2>1 DEF StoreFile, RemoveFile, SettlementsTypeOK
  <2>6. QED BY <1>1, <2>4, <2>5 DEF StoreFile, RemoveFile, SettlementsTypeOK
<1>2. CASE CommitRow(k) \/ DeleteRow(k)
  <2>1. clerk[k].paper \in Papers /\ clerk[k].bill \in Bills
    BY <1>0, <1>2, RequestRecord DEF CommitRow, DeleteRow, Is
  <2>2. row' \in [Papers -> Bills \cup {NoBill}]
    BY <1>2, <2>1 DEF CommitRow, DeleteRow, SettlementsTypeOK
  <2>3. QED BY <1>2, <2>2, EndKeepsTypes DEF CommitRow, DeleteRow, SettlementsTypeOK
<1>3. CASE AbandonRequest(k)
  BY <1>3, EndKeepsTypes DEF AbandonRequest, SettlementsTypeOK
<1>4. QED BY <1>1, <1>2, <1>3 DEF PaperStep

\* The settlements picked in the form.
LEMMA PickKeepsTypes ==
    ASSUME SettlementsTypeOK, NEW k \in Clerks, PickStep(k)
    PROVE  /\ SettlementsTypeOK'
           /\ \A q \in Clerks \ {k} : clerk'[q] = clerk[q]
           /\ clerk[k].op = "form" /\ clerk'[k].op = "save"
           /\ clerk'[k].work = clerk[k].work /\ clerk'[k].old = clerk[k].old
           /\ clerk'[k].old \subseteq Bills /\ clerk'[k].new \subseteq Bills
           /\ \A b \in clerk'[k].new : b \in clerk[k].old \cup clerk[k].new \/ ~Sealed(b)
<1>1. PICK new \in SUBSET Bills : PickBills(k, new)
  BY DEF PickStep
<1>2. clerk[k].op = "form" /\ clerk[k] \in Calls \cup {Idle}
  BY <1>1 DEF PickBills, Is, SettlementsTypeOK
<1>3. clerk[k].work \in Works /\ clerk[k].old \subseteq Bills
  BY <1>2, RequestRecord
<1> DEFINE save == [op |-> "save", work |-> clerk[k].work, old |-> clerk[k].old, new |-> new]
<1>4. clerk' = [clerk EXCEPT ![k] = save]
  BY <1>1 DEF PickBills
<1>5. save \in Calls
  BY <1>3 DEF Calls
<1>6. clerk'[k] = save /\ \A q \in Clerks \ {k} : clerk'[q] = clerk[q]
  BY <1>4 DEF SettlementsTypeOK
<1>7. SettlementsTypeOK'
  BY <1>1, <1>4, <1>5 DEF PickBills, SettlementsTypeOK
<1>8. \A b \in new : b \in clerk[k].old \cup clerk[k].new \/ ~Sealed(b)
  BY <1>1 DEF PickBills
<1>9. QED BY <1>2, <1>3, <1>6, <1>7, <1>8

\* Types hold at the start and are kept, and a step is one request's.
LEMMA SettlementTypes ==
    /\ SettlementsInit => SettlementsTypeOK
    /\ SettlementsTypeOK /\ [SettlementsNext]_settlementVars => SettlementsTypeOK'
    /\ \A k \in Clerks : SettlementsTypeOK /\ ClerkStep(k) =>
          \A q \in Clerks \ {k} : clerk'[q] = clerk[q]
<1>1. SettlementsInit => SettlementsTypeOK
  BY DEF SettlementsInit, SettlementsTypeOK, Bill, BillStatuses, Stamps, Wordings, Calls
<1>2. ASSUME SettlementsTypeOK, NEW k \in Clerks, ClerkStep(k)
      PROVE  SettlementsTypeOK' /\ \A q \in Clerks \ {k} : clerk'[q] = clerk[q]
  <2>1. CASE LoadStep(k)
    BY <1>2, <2>1, LoadKeepsTypes DEF Begin, SettlementsTypeOK
  <2>2. CASE BillStep(k) \/ LinkStep(k) \/ WorkStep(k)
    BY <1>2, <2>2, CommitKeepsTypes, EndKeepsTypes
  <2>3. CASE PaperStep(k) \/ AbandonRequest(k)
    BY <1>2, <2>3, PaperKeepsTypes
  <2>4. CASE PickStep(k)
    BY <1>2, <2>4, PickKeepsTypes
  <2>5. QED BY <1>2, <2>1, <2>2, <2>3, <2>4 DEF ClerkStep
<1>3. SettlementsTypeOK /\ UNCHANGED settlementVars => SettlementsTypeOK'
  BY DEF SettlementsTypeOK, settlementVars
<1>4. QED BY <1>1, <1>2, <1>3, StepsByKind

(* Types, for any settlements, tickets, attachments and requests.          *)
THEOREM SettlementsTypeCorrect == SettlementsSpec => []SettlementsTypeOK
  BY SettlementTypes, PTL DEF SettlementsSpec

-----------------------------------------------------------------------------
(* Attachments. An upload is alone on its attachment, which has no row     *)
(* yet; a removal knows the settlement the row belongs to, and follows the *)
(* upload.                                                                 *)
UploadInv ==
    \A k \in Clerks : Is(k, "upload") =>
        /\ row[clerk[k].paper] = NoBill
        /\ clerk[k].stored => file[clerk[k].paper] # "none"
        /\ \A q \in Clerks \ {k} :
              clerk[q].op \in {"upload", "remove"} => clerk[q].paper # clerk[k].paper

RemoveInv ==
    \A k \in Clerks : Is(k, "remove") =>
        /\ row[clerk[k].paper] \in {clerk[k].bill, NoBill}
        /\ file[clerk[k].paper] # "none"

PapersInv == SettlementsTypeOK /\ RowHasFile /\ UploadInv /\ RemoveInv

\* Requests about anything but attachments.
LEMMA OtherStepsKeepPapers ==
    ASSUME PapersInv, NEW k \in Clerks, UNCHANGED <<row, file>>, SettlementsTypeOK',
           \A q \in Clerks \ {k} : clerk'[q] = clerk[q],
           clerk'[k].op \notin {"upload", "remove"}
    PROVE  PapersInv'
  BY DEF PapersInv, RowHasFile, UploadInv, RemoveInv, Is

LEMMA LoadKeepsPapers ==
    ASSUME PapersInv, NEW k \in Clerks, LoadStep(k)
    PROVE  PapersInv'
<1>1. SettlementsTypeOK /\ SettlementsTypeOK' /\ UNCHANGED <<row, file>>
      /\ \A q \in Clerks \ {k} : clerk'[q] = clerk[q]
  BY LoadKeepsTypes DEF PapersInv, Begin, SettlementsTypeOK
<1>2. ASSUME NEW b \in Bills, NEW p \in Papers, LoadForUpload(k, b, p)
      PROVE  PapersInv'
  <2>1. /\ clerk'[k].op = "upload" /\ clerk'[k].paper = p /\ ~clerk'[k].stored
        /\ file[p] = "none" /\ \A q \in Clerks : ~(Is(q, "upload") /\ clerk[q].paper = p)
    BY <1>1, <1>2 DEF LoadForUpload, Begin, SettlementsTypeOK
  <2>2. row[p] = NoBill /\ \A q \in Clerks : ~(Is(q, "remove") /\ clerk[q].paper = p)
    BY <1>2, <2>1 DEF PapersInv, RowHasFile, RemoveInv
  <2>3. QED BY <1>1, <2>1, <2>2 DEF PapersInv, RowHasFile, UploadInv, RemoveInv, Is
<1>3. ASSUME NEW p \in Papers, LoadForRemove(k, p)
      PROVE  PapersInv'
  <2>1. clerk'[k].op = "remove" /\ clerk'[k].paper = p /\ clerk'[k].bill = row[p] /\ row[p] # NoBill
    BY <1>1, <1>3 DEF LoadForRemove, Begin, SettlementsTypeOK
  <2>2. file[p] # "none" /\ \A q \in Clerks : ~(Is(q, "upload") /\ clerk[q].paper = p)
    BY <1>3, <2>1 DEF PapersInv, RowHasFile, UploadInv
  <2>3. QED BY <1>1, <2>1, <2>2 DEF PapersInv, RowHasFile, UploadInv, RemoveInv, Is
<1>4. ASSUME ~(\E b \in Bills, p \in Papers : LoadForUpload(k, b, p)),
             ~(\E p \in Papers : LoadForRemove(k, p))
      PROVE  clerk'[k].op \notin {"upload", "remove"}
  BY <1>1, <1>4 DEF LoadStep, LoadStatus, LoadForEdit, LoadForDelete, LoadForLink, LoadForUnlink,
                    LoadForReword, LoadForDiscard, LoadForForm, Begin, SettlementsTypeOK
<1>5. QED BY <1>1, <1>2, <1>3, <1>4, OtherStepsKeepPapers

LEMMA PaperStepKeepsPapers ==
    ASSUME PapersInv, NEW k \in Clerks, PaperStep(k)
    PROVE  PapersInv'
<1> USE DEF PapersInv, RowHasFile, UploadInv, RemoveInv, Is
<1>1. SettlementsTypeOK /\ SettlementsTypeOK' /\ \A q \in Clerks \ {k} : clerk'[q] = clerk[q]
  BY PaperKeepsTypes
<1>2. clerk[k] \in Calls \cup {Idle} /\ clerk[k].paper \in Papers /\ clerk[k].bill \in Bills
  BY <1>1, RequestRecord DEF SettlementsTypeOK, PaperStep, StoreFile, CommitRow, RemoveFile, DeleteRow
<1>3. \A q \in Clerks : clerk[q].op \in {"upload", "remove"} => clerk[q].paper \in Papers
  BY <1>1, RequestRecord DEF SettlementsTypeOK
<1>4. CASE StoreFile(k)
  <2>1. /\ UNCHANGED row /\ file' = [file EXCEPT ![clerk[k].paper] = "stored"]
        /\ clerk'[k].op = "upload" /\ clerk'[k].paper = clerk[k].paper /\ clerk[k].op = "upload"
    BY <1>1, <1>4 DEF StoreFile, SettlementsTypeOK
  <2>2. file'[clerk[k].paper] = "stored" /\ \A p \in Papers \ {clerk[k].paper} : file'[p] = file[p]
    BY <1>1, <1>2, <2>1 DEF SettlementsTypeOK
  <2>3. QED BY <1>1, <2>1, <2>2
<1>5. CASE CommitRow(k)
  <2>1. /\ UNCHANGED file /\ clerk'[k] = Idle /\ row' = [row EXCEPT ![clerk[k].paper] = clerk[k].bill]
        /\ clerk[k].op = "upload" /\ clerk[k].stored
    BY <1>1, <1>5 DEF CommitRow, Finish, SettlementsTypeOK
  <2>2. row'[clerk[k].paper] = clerk[k].bill /\ \A p \in Papers \ {clerk[k].paper} : row'[p] = row[p]
    BY <1>1, <1>2, <2>1 DEF SettlementsTypeOK
  <2>3. \A q \in Clerks \ {k} : clerk[q].op \in {"upload", "remove"} => clerk[q].paper # clerk[k].paper
    BY <2>1
  <2>4. QED BY <1>1, <2>1, <2>2, <2>3 DEF Idle
<1>6. CASE RemoveFile(k)
  <2>1. /\ UNCHANGED row /\ clerk[k].op = "remove"
        /\ clerk'[k].op = "remove" /\ clerk'[k].paper = clerk[k].paper /\ clerk'[k].bill = clerk[k].bill
        /\ \A p \in Papers : file'[p] = file[p] \/ file'[p] = "removed"
    BY <1>1, <1>2, <1>6 DEF RemoveFile, SettlementsTypeOK
  <2>2. QED BY <1>1, <1>3, <2>1
<1>7. CASE DeleteRow(k)
  <2>1. /\ UNCHANGED file /\ clerk'[k] = Idle
        /\ \A p \in Papers : row'[p] = row[p] \/ row'[p] = NoBill
    BY <1>1, <1>2, <1>7 DEF DeleteRow, Finish, SettlementsTypeOK
  <2>2. QED BY <1>1, <1>3, <2>1 DEF Idle
<1>8. QED BY <1>4, <1>5, <1>6, <1>7 DEF PaperStep

\* The invariant of the attachments holds at the start and is kept.
LEMMA PapersInductive ==
    /\ SettlementsInit => PapersInv
    /\ PapersInv /\ [SettlementsNext]_settlementVars => PapersInv'
<1>1. SettlementsInit => PapersInv
  BY SettlementTypes DEF SettlementsInit, PapersInv, RowHasFile, UploadInv, RemoveInv, Is, Idle
<1>2. ASSUME PapersInv, NEW k \in Clerks, ClerkStep(k)
      PROVE  PapersInv'
  <2>1. CASE BillStep(k) \/ LinkStep(k) \/ WorkStep(k) \/ AbandonRequest(k)
    <3>1. UNCHANGED <<row, file>> /\ (Finish(k) \/ FinishSealing(k)) /\ SettlementsTypeOK'
      BY <1>2, <2>1, CommitKeepsTypes, PaperKeepsTypes
      DEF PapersInv, BillStep, LinkStep, WorkStep, CommitStatus, CommitEdit, CommitDelete, CommitLink,
          CommitUnlink, CommitReword, CommitDiscard, CommitForm, AbandonRequest
    <3>2. clerk'[k] = Idle /\ \A q \in Clerks \ {k} : clerk'[q] = clerk[q]
      BY <1>2, <3>1, EndKeepsTypes DEF PapersInv
    <3>3. QED BY <1>2, <3>1, <3>2, OtherStepsKeepPapers DEF Idle
  <2>2. CASE PickStep(k)
    <3>1. UNCHANGED <<row, file>>
      BY <2>2 DEF PickStep, PickBills
    <3>2. QED BY <1>2, <2>2, <3>1, PickKeepsTypes, OtherStepsKeepPapers DEF PapersInv
  <2>3. QED BY <1>2, <2>1, <2>2, LoadKeepsPapers, PaperStepKeepsPapers DEF ClerkStep
<1>3. PapersInv /\ UNCHANGED settlementVars => PapersInv'
  BY DEF PapersInv, SettlementsTypeOK, RowHasFile, UploadInv, RemoveInv, Is, settlementVars
<1>4. QED BY <1>1, <1>2, <1>3, StepsByKind

(* Wherever any number of uploads and removals are cut off, whatever the   *)
(* object store refuses: a row of an attachment has its file in the store  *)
(* unless somebody began to delete the attachment.                         *)
THEOREM RowsHaveFiles == SettlementsSpec => []RowHasFile
<1>1. PapersInv => RowHasFile
  BY DEF PapersInv
<1>2. QED BY <1>1, PapersInductive, PTL DEF SettlementsSpec

-----------------------------------------------------------------------------
(* The stamps. Until a change of status commits that is not outdated, its  *)
(* transition stays allowed and the columns it leaves alone are those it   *)
(* has loaded: they agree with its status unless the settlement is crossed *)
(* and stays so.                                                           *)
ChangeInv ==
    \A k \in Clerks \ outdated : Is(k, "status") =>
        LET c == clerk[k]  old == bill[clerk[k].bill] IN
        /\ c.status \in Allowed(old.status)
        /\ c.bill \notin crossed \/ c.status = "draft" =>
              /\ Stamped(old.sentAt, c.sentAt) = "set" <=> c.status \in {"sent", "paid"}
              /\ Stamped(old.paidAt, c.paidAt) = "set" <=> c.status = "paid"

StampsInv == SettlementsTypeOK /\ ChangeInv /\ StampsAgree

\* Steps that leave the status and the stamps of every settlement alone and
\* start no change of a status.
LEMMA OtherStepsKeepStamps ==
    ASSUME StampsInv, SettlementsTypeOK', NEW k \in Clerks,
           \A q \in Clerks \ {k} : clerk'[q] = clerk[q],
           clerk'[k].op # "status",
           crossed' = crossed, outdated \ {k} \subseteq outdated',
           \A b \in Bills : /\ bill'[b].status = bill[b].status
                            /\ bill'[b].sentAt = bill[b].sentAt
                            /\ bill'[b].paidAt = bill[b].paidAt
    PROVE  StampsInv'
<1>1. \A q \in Clerks : Is(q, "status") => clerk[q].bill \in Bills
  BY RequestRecord DEF StampsInv, SettlementsTypeOK, Is
<1>2. StampsAgree'
  BY DEF StampsInv, StampsAgree, Sealed
<1>3. ChangeInv'
  BY <1>1 DEF StampsInv, ChangeInv, Is
<1>4. QED BY <1>2, <1>3 DEF StampsInv

LEMMA LoadStatusKeepsStamps ==
    ASSUME StampsInv, NEW k \in Clerks, NEW b \in Bills,
           NEW status \in BillStatuses, LoadStatus(k, b, status), LoadStep(k)
    PROVE  StampsInv'
<1> DEFINE old == bill[b]
           sentAt == IF old.status = "draft" THEN "set"
                     ELSE IF status = "draft" THEN Cleared(old.sentAt) ELSE Loaded
           paidAt == IF status = "paid" THEN "set"
                     ELSE IF old.status = "draft" THEN Loaded ELSE Cleared(old.paidAt)
<1>1. SettlementsTypeOK /\ SettlementsTypeOK'
  BY LoadKeepsTypes DEF StampsInv
<1>2. Begin(k, [op |-> "status", bill |-> b, status |-> status,
                sentAt |-> sentAt, paidAt |-> paidAt])
  BY Zenon DEF LoadStatus
<1>3. /\ UNCHANGED <<bill, outdated, crossed>> /\ \A q \in Clerks \ {k} : clerk'[q] = clerk[q]
      /\ clerk'[k].op = "status" /\ clerk'[k].bill = b /\ clerk'[k].status = status
      /\ clerk'[k].sentAt = sentAt /\ clerk'[k].paidAt = paidAt
  BY <1>1, <1>2 DEF Begin, SettlementsTypeOK
<1>4. /\ old.status \in BillStatuses /\ old.sentAt \in Stamps /\ old.paidAt \in Stamps
      /\ status \in Allowed(old.status)
  BY <1>1 DEF SettlementsTypeOK, Bill, LoadStatus
<1>5. ASSUME b \notin crossed
      PROVE  /\ old.sentAt = "set" <=> old.status \in {"sent", "paid"}
             /\ old.paidAt = "set" <=> old.status = "paid"
  BY <1>5 DEF StampsInv, StampsAgree, Sealed
<1>6. \A column \in Stamps : /\ Stamped(column, Cleared(column)) = "null"
                            /\ Stamped(column, "set") = "set" /\ Stamped(column, Loaded) = column
  BY DEF Stamps, Cleared, Stamped, Loaded
<1>7. ASSUME b \notin crossed \/ status = "draft"
      PROVE  /\ Stamped(old.sentAt, sentAt) = "set" <=> status \in {"sent", "paid"}
             /\ Stamped(old.paidAt, paidAt) = "set" <=> status = "paid"
  BY <1>4, <1>5, <1>6, <1>7 DEF BillStatuses, Allowed
<1> HIDE DEF sentAt, paidAt
<1>8. ChangeInv'
  BY <1>3, <1>4, <1>7 DEF StampsInv, ChangeInv, Is
<1>9. StampsAgree'
  BY <1>3 DEF StampsInv, StampsAgree, Sealed
<1>10. QED BY <1>1, <1>8, <1>9 DEF StampsInv

LEMMA CommitStatusKeepsStamps ==
    ASSUME StampsInv, NEW k \in Clerks, CommitStatus(k)
    PROVE  StampsInv'
<1>0. PICK c : c = clerk[k]
  OBVIOUS
<1>1. /\ SettlementsTypeOK /\ SettlementsTypeOK' /\ clerk'[k] = Idle
      /\ \A q \in Clerks \ {k} : clerk'[q] = clerk[q]
  BY CommitKeepsTypes, EndKeepsTypes DEF BillStep, StampsInv
<1>2. Is(k, "status") /\ c.bill \in Bills /\ c.status \in BillStatuses
  BY <1>0, <1>1, RequestRecord DEF CommitStatus, Is, SettlementsTypeOK
<1>3. /\ bill'[c.bill].status = c.status
      /\ bill'[c.bill].sentAt = Stamped(bill[c.bill].sentAt, c.sentAt)
      /\ bill'[c.bill].paidAt = Stamped(bill[c.bill].paidAt, c.paidAt)
      /\ \A b \in Bills \ {c.bill} : bill'[b] = bill[b]
  BY <1>0, <1>1, <1>2 DEF CommitStatus, SettlementsTypeOK, Bill
<1>4. /\ crossed \ {c.bill} \subseteq crossed' /\ crossed' \subseteq crossed \cup {c.bill}
      /\ c.bill \notin crossed' => k \notin outdated /\ (c.bill \notin crossed \/ c.status = "draft")
  BY <1>0 DEF CommitStatus
<1>5. ASSUME c.bill \notin crossed'
      PROVE  /\ Stamped(bill[c.bill].sentAt, c.sentAt) = "set" <=> c.status \in {"sent", "paid"}
             /\ Stamped(bill[c.bill].paidAt, c.paidAt) = "set" <=> c.status = "paid"
  BY <1>0, <1>2, <1>4, <1>5 DEF StampsInv, ChangeInv
<1>6. StampsAgree'
  BY <1>2, <1>3, <1>4, <1>5 DEF StampsInv, StampsAgree, Sealed
<1>7. ASSUME NEW q \in Clerks \ outdated', Is(q, "status")'
      PROVE  /\ q # k /\ q \notin outdated /\ clerk'[q] = clerk[q] /\ Is(q, "status")
             /\ clerk[q].bill \in Bills \ {c.bill}
  BY <1>0, <1>1, <1>7, RequestRecord DEF CommitStatus, Is, Idle, SettlementsTypeOK
<1>8. ChangeInv'
  BY <1>3, <1>4, <1>7 DEF StampsInv, ChangeInv
<1>9. QED BY <1>1, <1>6, <1>8 DEF StampsInv

\* The invariant of the stamps holds at the start and is kept.
LEMMA StampsInductive ==
    /\ SettlementsInit => StampsInv
    /\ StampsInv /\ [SettlementsNext]_settlementVars => StampsInv'
<1>1. SettlementsInit => StampsInv
  BY SettlementTypes DEF SettlementsInit, StampsInv, ChangeInv, StampsAgree, Sealed, Is, Idle
<1>2. ASSUME StampsInv, NEW k \in Clerks, ClerkStep(k)
      PROVE  StampsInv'
  <2>1. /\ SettlementsTypeOK /\ SettlementsTypeOK' /\ \A q \in Clerks \ {k} : clerk'[q] = clerk[q]
    BY <1>2, SettlementTypes, StepsByKind DEF StampsInv
  <2>2. CASE LoadStep(k)
    <3>1. CASE \E b \in Bills, status \in BillStatuses : LoadStatus(k, b, status)
      BY <1>2, <2>2, <3>1, LoadStatusKeepsStamps
    <3>2. CASE ~(\E b \in Bills, status \in BillStatuses : LoadStatus(k, b, status))
      <4>1. UNCHANGED <<bill, outdated, crossed>> /\ clerk'[k].op # "status"
        BY <2>1, <2>2, <3>2 DEF LoadStep, LoadForEdit, LoadForDelete, LoadForLink, LoadForUnlink,
           LoadForReword, LoadForDiscard, LoadForForm, LoadForUpload, LoadForRemove, Begin,
           SettlementsTypeOK
      <4>2. QED BY <1>2, <2>1, <4>1, OtherStepsKeepStamps
    <3>3. QED BY <3>1, <3>2
  <2>3. CASE CommitStatus(k)
    BY <1>2, <2>3, CommitStatusKeepsStamps
  <2>4. CASE CommitEdit(k) \/ CommitDelete(k)
    <3>1. clerk[k].bill \in Bills /\ clerk'[k] = Idle
      BY <2>1, <2>4, RequestRecord, EndKeepsTypes DEF CommitEdit, CommitDelete, Is, SettlementsTypeOK
    <3>2. \A b \in Bills : /\ bill'[b].status = bill[b].status
                            /\ bill'[b].sentAt = bill[b].sentAt
                            /\ bill'[b].paidAt = bill[b].paidAt
      <4>1. CASE CommitEdit(k)
        BY <2>1, <3>1, <4>1 DEF CommitEdit, SettlementsTypeOK, Bill
      <4>2. CASE CommitDelete(k)
        BY <2>1, <3>1, <4>2 DEF CommitDelete, SettlementsTypeOK, Bill
      <4>3. QED BY <2>4, <4>1, <4>2
    <3>3. UNCHANGED <<outdated, crossed>>
      BY <2>4 DEF CommitEdit, CommitDelete
    <3>4. QED BY <1>2, <2>1, <3>1, <3>2, <3>3, OtherStepsKeepStamps DEF Idle
  <2>5. CASE LinkStep(k) \/ WorkStep(k) \/ AbandonRequest(k)
    <3>1. UNCHANGED <<bill, crossed>> /\ clerk'[k] = Idle /\ outdated \ {k} \subseteq outdated'
      BY <2>1, <2>5, EndKeepsTypes DEF LinkStep, WorkStep, CommitLink, CommitUnlink, CommitReword,
         CommitDiscard, CommitForm, AbandonRequest
    <3>2. QED BY <1>2, <2>1, <3>1, OtherStepsKeepStamps DEF Idle
  <2>6. CASE PaperStep(k)
    <3>1. UNCHANGED <<bill, outdated, crossed>> /\ clerk'[k].op # "status"
      <4>1. CASE StoreFile(k)
        BY <2>1, <4>1 DEF StoreFile, Is, SettlementsTypeOK
      <4>2. CASE RemoveFile(k)
        BY <2>1, <4>2 DEF RemoveFile, Is, SettlementsTypeOK
      <4>3. CASE CommitRow(k) \/ DeleteRow(k)
        BY <2>1, <4>3, EndKeepsTypes DEF CommitRow, DeleteRow, Idle
      <4>4. QED BY <2>6, <4>1, <4>2, <4>3 DEF PaperStep
    <3>2. QED BY <1>2, <2>1, <3>1, OtherStepsKeepStamps
  <2>7. CASE PickStep(k)
    <3>1. UNCHANGED <<bill, outdated, crossed>>
      BY <2>7 DEF PickStep, PickBills
    <3>2. QED BY <1>2, <2>1, <2>7, <3>1, PickKeepsTypes, OtherStepsKeepStamps
  <2>8. QED BY <1>2, <2>2, <2>3, <2>4, <2>5, <2>6, <2>7 DEF ClerkStep, BillStep
<1>3. StampsInv /\ UNCHANGED settlementVars => StampsInv'
  BY DEF StampsInv, SettlementsTypeOK, ChangeInv, StampsAgree, Sealed, Is, settlementVars
<1>4. QED BY <1>1, <1>2, <1>3, StepsByKind

(* Whatever requests overlap, change the status of one settlement at once, *)
(* or are given up: the status and the timestamps of a settlement part     *)
(* only by a change of its status that another one has overtaken, and      *)
(* agree again when it goes back to draft.                                 *)
THEOREM StampsFollowStatus == SettlementsSpec => []StampsAgree
<1>1. StampsInv => StampsAgree
  BY DEF StampsInv
<1>2. /\ SettlementsInit => StampsInv
      /\ StampsInv /\ [SettlementsNext]_settlementVars => StampsInv'
  BY StampsInductive
<1>3. QED BY <1>1, <1>2, PTL DEF SettlementsSpec

-----------------------------------------------------------------------------
(* The seal. A request that is not overtaken would touch no settlement     *)
(* that stands and no ticket of one: this is what makes the action         *)
(* property hold. And whoever is counted as overtaken is under way.        *)
Aims(k) == clerk[k].op \in {"edit", "delete", "link", "unlink", "upload", "remove"}
Writes(k) == clerk[k].op \in {"reword", "discard", "form", "save"}
Picks(k) == clerk[k].op \in {"form", "save"}

SealInvOf(k) ==
    /\ Aims(k) => ~Stands(clerk[k].bill)
    /\ Writes(k) => ~Frozen(clerk[k].work)
    /\ Picks(k) => \A b \in clerk[k].old \cup clerk[k].new : ~Stands(b)

SealInv == overtaken \subseteq Busy /\ \A k \in Clerks \ overtaken : SealInvOf(k)

BillsInv == PapersInv /\ SealInv

\* A step that brings nothing new under the seal, or that notes everybody
\* else under way as overtaken, disturbs nobody else.
LEMMA OthersStayOutside ==
    ASSUME SealInv, NEW k \in Clerks, \A q \in Clerks \ {k} : clerk'[q] = clerk[q],
           \/ overtaken' = Busy \ {k}
           \/ /\ overtaken \ {k} \subseteq overtaken' /\ overtaken' \subseteq overtaken
              /\ \A b \in Bills : Stands(b)' => Stands(b)
              /\ \A w \in Works : Frozen(w)' => Frozen(w)
              /\ SettlementsTypeOK
    PROVE  /\ overtaken' \ {k} \subseteq Busy'
           /\ \A q \in Clerks \ (overtaken' \cup {k}) : SealInvOf(q)'
<1>1. CASE overtaken' = Busy \ {k}
  <2>1. ASSUME NEW q \in Clerks \ (overtaken' \cup {k}) PROVE ~Aims(q)' /\ ~Writes(q)' /\ ~Picks(q)'
    BY <1>1, <2>1 DEF Busy, Aims, Writes, Picks, Idle
  <2>2. QED BY <1>1, <2>1 DEF Busy, SealInvOf
<1>2. CASE /\ overtaken \ {k} \subseteq overtaken' /\ overtaken' \subseteq overtaken
           /\ \A b \in Bills : Stands(b)' => Stands(b)
           /\ \A w \in Works : Frozen(w)' => Frozen(w)
           /\ SettlementsTypeOK
  <2>1. ASSUME NEW q \in Clerks \ (overtaken' \cup {k}) PROVE SealInvOf(q)'
    <3>1. /\ clerk'[q] = clerk[q] /\ q \in Clerks \ overtaken /\ SealInvOf(q)
          /\ clerk[q] \in Calls \cup {Idle}
      BY <1>2, <2>1 DEF SealInv, SettlementsTypeOK
    <3>2. Aims(q)' => Aims(q) /\ clerk[q].bill \in Bills
      BY <3>1, RequestRecord DEF Aims
    <3>3. Writes(q)' => Writes(q) /\ clerk[q].work \in Works
      BY <3>1, RequestRecord DEF Writes
    <3>4. PICK b, w : b = clerk[q].bill /\ w = clerk[q].work
      OBVIOUS
    <3>5. Aims(q)' => ~Stands(b)'
      BY <1>2, <3>1, <3>2, <3>4 DEF SealInvOf
    <3>6. Writes(q)' => ~Frozen(w)'
      BY <1>2, <3>1, <3>3, <3>4 DEF SealInvOf
    <3>7. b = clerk'[q].bill /\ w = clerk'[q].work
      BY <3>1, <3>4
    <3>8. Picks(q)' => /\ Picks(q) /\ clerk[q].old \subseteq Bills /\ clerk[q].new \subseteq Bills
                       /\ clerk'[q].old = clerk[q].old /\ clerk'[q].new = clerk[q].new
      BY <3>1, RequestRecord DEF Picks
    <3>9. Picks(q)' => \A s \in clerk'[q].old \cup clerk'[q].new : ~Stands(s)'
      BY <1>2, <3>1, <3>8 DEF SealInvOf
    <3>10. QED BY <3>5, <3>6, <3>7, <3>9 DEF SealInvOf, Stands, Sealed, Frozen, Linked
  <2>2. overtaken' \ {k} \subseteq Busy'
    BY <1>2 DEF SealInv, Busy
  <2>3. QED BY <2>1, <2>2
<1>3. QED BY <1>1, <1>2

\* A request that begins found its settlement a draft, or its ticket free.
LEMMA LoadKeepsSeal ==
    ASSUME BillsInv, NEW k \in Clerks, LoadStep(k)
    PROVE  SealInv'
<1>1. /\ SettlementsTypeOK /\ clerk[k] = Idle /\ UNCHANGED <<bill, links, overtaken>>
      /\ \A q \in Clerks \ {k} : clerk'[q] = clerk[q]
  BY LoadKeepsTypes DEF BillsInv, PapersInv, Begin, SettlementsTypeOK
<1>2. k \notin overtaken'
  BY <1>1 DEF BillsInv, SealInv, Busy
<1>3. (\A b : Stands(b)' = Stands(b)) /\ (\A w : Frozen(w)' = Frozen(w))
  BY <1>1 DEF Stands, Sealed, Frozen, Linked
<1>4. SealInvOf(k)'
  <2>1. ASSUME NEW b \in Bills, NEW status \in BillStatuses, LoadStatus(k, b, status)
        PROVE  ~Aims(k)' /\ ~Writes(k)' /\ ~Picks(k)'
    BY <1>1, <2>1 DEF LoadStatus, Begin, Aims, Writes, Picks, SettlementsTypeOK
  <2>2. ASSUME NEW b \in Bills,
               \/ LoadForEdit(k, b) \/ LoadForDelete(k, b)
               \/ \E w \in Works : LoadForLink(k, b, w) \/ LoadForUnlink(k, b, w)
               \/ \E p \in Papers : LoadForUpload(k, b, p)
               \/ \E p \in Papers : LoadForRemove(k, p) /\ b = row[p]
        PROVE  ~Writes(k)' /\ ~Picks(k)' /\ clerk'[k].bill = b /\ ~Stands(b)
    BY <1>1, <2>2 DEF LoadForEdit, LoadForDelete, LoadForLink, LoadForUnlink, LoadForUpload,
       LoadForRemove, Begin, Writes, Picks, Draft, Stands, SettlementsTypeOK
  <2>3. ASSUME NEW w \in Works, LoadForReword(k, w) \/ LoadForDiscard(k, w)
        PROVE  ~Aims(k)' /\ ~Picks(k)' /\ clerk'[k].work = w /\ ~Frozen(w)
    BY <1>1, <2>3 DEF LoadForReword, LoadForDiscard, Begin, Aims, Picks, SettlementsTypeOK
  <2>4. ASSUME NEW p \in Papers, LoadForRemove(k, p) PROVE row[p] \in Bills
    BY <1>1, <2>4 DEF LoadForRemove, SettlementsTypeOK
  <2>5. ASSUME NEW b \in Bills, ~Writes(k)', ~Picks(k)', clerk'[k].bill = b, ~Stands(b)
        PROVE  SealInvOf(k)'
    <3>1. ~Stands(clerk[k].bill)'
      BY <1>1, <2>5 DEF Stands, Sealed
    <3>2. QED BY <2>5, <3>1 DEF SealInvOf
  <2>6. ASSUME NEW w \in Works, ~Aims(k)', clerk'[k].work = w, ~Frozen(w),
               Picks(k)' => \A b \in clerk'[k].old \cup clerk'[k].new : ~Stands(b)
        PROVE  SealInvOf(k)'
    <3>1. ~Frozen(clerk[k].work)'
      BY <1>1, <2>6 DEF Frozen, Linked, Sealed
    <3>2. Picks(k)' => \A b \in clerk'[k].old \cup clerk'[k].new : ~Stands(b)'
      BY <1>3, <2>6
    <3>3. QED BY <2>6, <3>1, <3>2 DEF SealInvOf
  <2>7. ASSUME NEW w \in Works, LoadForForm(k, w)
        PROVE  /\ ~Aims(k)' /\ clerk'[k].work = w /\ ~Frozen(w)
               /\ \A b \in clerk'[k].old \cup clerk'[k].new : ~Stands(b)
    <3> DEFINE held == {b \in Bills : w \in Linked(b)}
    <3>1. /\ Begin(k, [op |-> "form", work |-> w, old |-> held, new |-> held])
          /\ ~Frozen(w)
      BY <2>7 DEF LoadForForm
    <3>2. \A b \in held : ~Stands(b)
      BY <3>1 DEF Frozen, Stands
    <3> HIDE DEF held
    <3>3. /\ clerk'[k].op = "form" /\ clerk'[k].work = w
          /\ clerk'[k].old = held /\ clerk'[k].new = held
      BY <1>1, <3>1 DEF Begin, SettlementsTypeOK
    <3>4. QED BY <3>1, <3>2, <3>3 DEF Aims
  <2>8. ~Aims(k)' /\ ~Writes(k)' /\ ~Picks(k)' => SealInvOf(k)'
    BY DEF SealInvOf
  <2>9. QED BY <2>1, <2>2, <2>3, <2>4, <2>5, <2>6, <2>7, <2>8 DEF LoadStep
<1>5. SealInv
  BY DEF BillsInv
<1>6. /\ overtaken' \ {k} \subseteq Busy'
      /\ \A q \in Clerks \ (overtaken' \cup {k}) : SealInvOf(q)'
  BY <1>1, <1>3, <1>5, OthersStayOutside
<1>7. QED BY <1>2, <1>4, <1>6 DEF SealInv

\* A request that ends counts no longer, and everything that comes under the
\* seal is noted by the request that brings it there.
LEMMA EndKeepsSeal ==
    ASSUME BillsInv, NEW k \in Clerks, clerk'[k] = Idle, k \notin overtaken',
           \A q \in Clerks \ {k} : clerk'[q] = clerk[q],
           \/ FinishSealing(k)
           \/ /\ Finish(k)
              /\ \A b \in Bills : Stands(b)' => Stands(b)
              /\ \A w \in Works : Frozen(w)' => Frozen(w)
    PROVE  SealInv'
<1>1. SealInvOf(k)'
  BY DEF SealInvOf, Aims, Writes, Picks, Idle
<1>2. SealInv /\ SettlementsTypeOK
  BY DEF BillsInv, PapersInv
<1>3. /\ overtaken' \ {k} \subseteq Busy'
      /\ \A q \in Clerks \ (overtaken' \cup {k}) : SealInvOf(q)'
  <2>1. CASE FinishSealing(k)
    BY <1>2, <2>1, OthersStayOutside DEF FinishSealing
  <2>2. CASE /\ Finish(k)
             /\ \A b \in Bills : Stands(b)' => Stands(b)
             /\ \A w \in Works : Frozen(w)' => Frozen(w)
    <3>1. overtaken \ {k} \subseteq overtaken' /\ overtaken' \subseteq overtaken
      BY <2>2 DEF Finish
    <3>2. QED BY <1>2, <2>2, <3>1, OthersStayOutside
  <2>3. QED BY <2>1, <2>2
<1>4. QED BY <1>1, <1>3 DEF SealInv

\* What the columns that stay the same do to the seal.
LEMMA SealOfColumns ==
    ASSUME SettlementsTypeOK, links' \subseteq links,
           \A b \in Bills : (Sealed(b)' => Sealed(b)) /\ (bill'[b].active => bill[b].active)
    PROVE  /\ \A b \in Bills : Stands(b)' => Stands(b)
           /\ \A w \in Works : Frozen(w)' => Frozen(w)
  BY DEF Stands, Frozen, Linked

LEMMA CommitKeepsSeal ==
    ASSUME BillsInv, NEW k \in Clerks,
           BillStep(k) \/ LinkStep(k) \/ WorkStep(k) \/ AbandonRequest(k)
    PROVE  SealInv'
<1>1. /\ SettlementsTypeOK /\ (Finish(k) \/ FinishSealing(k))
      /\ clerk[k] \in Calls \cup {Idle}
  BY CommitKeepsTypes DEF BillsInv, PapersInv, AbandonRequest, SettlementsTypeOK
<1>2. /\ clerk'[k] = Idle /\ k \notin overtaken'
      /\ \A q \in Clerks \ {k} : clerk'[q] = clerk[q]
  BY <1>1, EndKeepsTypes
<1>3. PICK c : c = clerk[k]
  OBVIOUS
<1>4. CASE CommitStatus(k)
  <2>1. c.bill \in Bills /\ c.status \in BillStatuses /\ links' = links
    BY <1>1, <1>3, <1>4, RequestRecord DEF CommitStatus, Is
  <2>2. /\ bill'[c.bill].status = c.status /\ bill'[c.bill].active = bill[c.bill].active
        /\ \A b \in Bills \ {c.bill} : bill'[b] = bill[b]
        /\ bill[c.bill].status \in BillStatuses
    BY <1>1, <1>3, <1>4, <2>1 DEF CommitStatus, SettlementsTypeOK, Bill
  <2>3. CASE c.status # "draft" /\ ~Sealed(c.bill)
    BY <1>2, <1>3, <1>4, <2>3, EndKeepsSeal DEF CommitStatus
  <2>4. CASE ~(c.status # "draft" /\ ~Sealed(c.bill))
    <3>1. Sealed(c.bill)' => Sealed(c.bill)
      BY <2>1, <2>2, <2>4 DEF Sealed
    <3>2. \A b \in Bills : (Sealed(b)' => Sealed(b)) /\ (bill'[b].active => bill[b].active)
      BY <2>2, <3>1 DEF Sealed
    <3>3. Finish(k)
      BY <1>3, <1>4, <2>4 DEF CommitStatus
    <3>4. QED BY <1>1, <1>2, <2>1, <3>2, <3>3, SealOfColumns, EndKeepsSeal
  <2>5. QED BY <2>3, <2>4
<1>5. CASE CommitEdit(k) \/ CommitDelete(k)
  <2>1. clerk[k].bill \in Bills /\ Finish(k) /\ links' = links
    BY <1>1, <1>5, RequestRecord DEF CommitEdit, CommitDelete, Is
  <2>2. \A b \in Bills : bill'[b].status = bill[b].status /\ (bill'[b].active => bill[b].active)
    <3>1. CASE CommitEdit(k)
      BY <1>1, <2>1, <3>1 DEF CommitEdit, SettlementsTypeOK, Bill
    <3>2. CASE CommitDelete(k)
      BY <1>1, <2>1, <3>2 DEF CommitDelete, SettlementsTypeOK, Bill
    <3>3. QED BY <1>5, <3>1, <3>2
  <2>3. QED BY <1>1, <1>2, <2>1, <2>2, SealOfColumns, EndKeepsSeal DEF Sealed
<1>6. CASE CommitLink(k)
  <2>1. /\ c.bill \in Bills /\ bill' = bill /\ links' \subseteq links \cup {<<c.bill, c.work>>}
    BY <1>1, <1>3, <1>6, RequestRecord DEF CommitLink, Is
  <2>2. CASE Sealed(c.bill)
    BY <1>2, <1>3, <1>6, <2>2, EndKeepsSeal DEF CommitLink
  <2>3. CASE ~Sealed(c.bill)
    <3>1. /\ \A b \in Bills : Stands(b)' => Stands(b)
          /\ \A w \in Works : Frozen(w)' => Frozen(w)
      BY <2>1, <2>3 DEF Stands, Sealed, Frozen, Linked
    <3>2. Finish(k)
      BY <1>3, <1>6, <2>3 DEF CommitLink
    <3>3. QED BY <1>2, <3>1, <3>2, EndKeepsSeal
  <2>4. QED BY <2>2, <2>3
<1>7. CASE CommitUnlink(k) \/ CommitReword(k) \/ CommitDiscard(k) \/ AbandonRequest(k)
  <2>1. Finish(k) /\ bill' = bill /\ links' \subseteq links
    BY <1>7 DEF CommitUnlink, CommitReword, CommitDiscard, AbandonRequest
  <2>2. QED BY <1>1, <1>2, <2>1, SealOfColumns, EndKeepsSeal DEF Sealed
<1>8. CASE CommitForm(k)
  <2>1. bill' = bill
    BY <1>8 DEF CommitForm
  <2>2. CASE FinishSealing(k)
    BY <1>2, <2>2, EndKeepsSeal
  <2>3. CASE ~FinishSealing(k)
    <3>1. /\ Finish(k)
          /\ links' \subseteq links \cup {<<b, c.work>> : b \in {b \in Bills : ~Sealed(b)}}
      <4>1. c.new \subseteq Bills
        BY <1>1, <1>3, <1>8, RequestRecord DEF CommitForm, Is
      <4>2. CASE links' = links
        BY <1>3, <1>8, <2>3, <4>2 DEF CommitForm
      <4>3. CASE links' # links
        <5>1. /\ Finish(k) /\ \A b \in c.new \ c.old : ~Sealed(b)
              /\ links' \subseteq links \cup ((c.new \ c.old) \X {c.work})
          BY <1>3, <1>8, <2>3, <4>3 DEF CommitForm
        <5>2. QED BY <4>1, <5>1
      <4>4. QED BY <4>2, <4>3
    <3>2. /\ \A b \in Bills : Stands(b)' => Stands(b)
          /\ \A w \in Works : Frozen(w)' => Frozen(w)
      BY <2>1, <3>1 DEF Stands, Sealed, Frozen, Linked
    <3>3. QED BY <1>2, <3>1, <3>2, EndKeepsSeal
  <2>4. QED BY <2>2, <2>3
<1>9. QED BY <1>4, <1>5, <1>6, <1>7, <1>8 DEF BillStep, LinkStep, WorkStep

LEMMA PickKeepsSeal ==
    ASSUME BillsInv, NEW k \in Clerks, PickStep(k)
    PROVE  SealInv'
<1>1. /\ SettlementsTypeOK /\ SealInv /\ clerk[k].op = "form" /\ clerk'[k].op = "save"
      /\ clerk'[k].work = clerk[k].work /\ clerk'[k].old = clerk[k].old
      /\ clerk[k].work \in Works
      /\ \A b \in clerk'[k].new : b \in clerk[k].old \cup clerk[k].new \/ ~Sealed(b)
      /\ \A q \in Clerks \ {k} : clerk'[q] = clerk[q]
  BY PickKeepsTypes, RequestRecord DEF BillsInv, PapersInv, SettlementsTypeOK
<1>2. UNCHANGED <<bill, links, overtaken>>
  BY DEF PickStep, PickBills
<1>3. (\A b : Stands(b)' = Stands(b)) /\ (\A w : Frozen(w)' = Frozen(w))
  BY <1>2 DEF Stands, Sealed, Frozen, Linked
<1>4. /\ overtaken' \ {k} \subseteq Busy'
      /\ \A q \in Clerks \ (overtaken' \cup {k}) : SealInvOf(q)'
  BY <1>1, <1>2, <1>3, OthersStayOutside
<1>5. ASSUME k \notin overtaken' PROVE SealInvOf(k)'
  <2>1. ~Frozen(clerk[k].work) /\ \A b \in clerk[k].old \cup clerk[k].new : ~Stands(b)
    BY <1>1, <1>2, <1>5 DEF SealInv, SealInvOf, Writes, Picks
  <2>2. \A b \in clerk'[k].old \cup clerk'[k].new : ~Stands(b)'
    BY <1>1, <1>3, <2>1 DEF Stands
  <2>3. ~Frozen(clerk[k].work)'
    BY <1>1, <1>2, <2>1 DEF Frozen, Linked, Sealed
  <2>4. QED BY <1>1, <2>2, <2>3 DEF SealInvOf, Aims
<1>6. k \in Busy'
  BY <1>1 DEF Busy, Idle
<1>7. QED BY <1>4, <1>5, <1>6 DEF SealInv

LEMMA PaperKeepsSeal ==
    ASSUME BillsInv, NEW k \in Clerks, PaperStep(k)
    PROVE  SealInv'
<1>1. /\ SettlementsTypeOK /\ UNCHANGED <<bill, links>>
      /\ \A q \in Clerks \ {k} : clerk'[q] = clerk[q]
  BY PaperKeepsTypes DEF BillsInv, PapersInv, PaperStep, StoreFile, CommitRow, RemoveFile, DeleteRow
<1>2. /\ \A b \in Bills : Stands(b)' => Stands(b)
      /\ \A w \in Works : Frozen(w)' => Frozen(w)
  BY <1>1 DEF Stands, Sealed, Frozen, Linked
<1>3. CASE CommitRow(k) \/ DeleteRow(k)
  <2>1. Finish(k)
    BY <1>3 DEF CommitRow, DeleteRow
  <2>2. clerk'[k] = Idle /\ k \notin overtaken'
    BY <1>1, <2>1, EndKeepsTypes
  <2>3. QED BY <1>1, <1>2, <2>1, <2>2, EndKeepsSeal
<1>4. CASE StoreFile(k) \/ RemoveFile(k)
  <2>1. UNCHANGED overtaken /\ clerk'[k].op = clerk[k].op /\ clerk'[k].bill = clerk[k].bill
        /\ clerk[k].op \in {"upload", "remove"}
    <3>1. CASE StoreFile(k)
      BY <1>1, <3>1 DEF StoreFile, Is, SettlementsTypeOK
    <3>2. CASE RemoveFile(k)
      BY <1>1, <3>2 DEF RemoveFile, Is, SettlementsTypeOK
    <3>3. QED BY <1>4, <3>1, <3>2
  <2>2. k \notin overtaken' => SealInvOf(k)'
    BY <1>1, <2>1 DEF BillsInv, SealInv, SealInvOf, Aims, Writes, Picks, Stands, Sealed
  <2>3. k \in Busy'
    BY <2>1 DEF Busy, Idle
  <2>4. SealInv
    BY DEF BillsInv
  <2>5. /\ overtaken' \ {k} \subseteq Busy'
        /\ \A q \in Clerks \ (overtaken' \cup {k}) : SealInvOf(q)'
    BY <1>1, <1>2, <2>1, <2>4, OthersStayOutside
  <2>6. QED BY <2>2, <2>3, <2>5 DEF SealInv
<1>5. QED BY <1>3, <1>4 DEF PaperStep

\* All of it holds at the start and is kept.
LEMMA BillsInductive ==
    /\ SettlementsInit => BillsInv
    /\ BillsInv /\ [SettlementsNext]_settlementVars => BillsInv'
<1>1. SettlementsInit => BillsInv
  BY PapersInductive
  DEF SettlementsInit, BillsInv, SealInv, SealInvOf, Aims, Writes, Picks, Idle
<1>2. BillsInv /\ SettlementsNext => SealInv'
  BY StepsByKind, LoadKeepsSeal, CommitKeepsSeal, PickKeepsSeal, PaperKeepsSeal DEF ClerkStep
<1>3. ASSUME BillsInv, UNCHANGED settlementVars PROVE SealInv'
  <2>1. SealInv /\ UNCHANGED <<bill, links, clerk, overtaken>>
    BY <1>3 DEF BillsInv, settlementVars
  <2>2. QED BY <2>1 DEF SealInv, SealInvOf, Busy, Aims, Writes, Picks, Stands, Sealed, Frozen,
       Linked
<1>4. QED BY <1>1, <1>2, <1>3, PapersInductive DEF BillsInv

(* What a step does to a settlement somebody received, and to a ticket     *)
(* linked to one: the two halves of SealHolds.                             *)
Breaks(b) ==
    \/ bill'[b].terms # bill[b].terms
    \/ ~bill'[b].active
    \/ {w \in Works : <<b, w>> \in links'} # Linked(b)
    \/ {p \in Papers : row'[p] = b} # {p \in Papers : row[p] = b}

\* Only a request that aims at a settlement, or has it among those of its
\* form, touches its terms, its links and its attachments; the tickets linked
\* to it go with themselves.
LEMMA BreakersAim ==
    ASSUME BillsInv, NEW k \in Clerks, ClerkStep(k), NEW b \in Bills, Stands(b), Breaks(b)
    PROVE  /\ clerk'[k] = Idle
           /\ \/ Aims(k) /\ clerk[k].bill = b
              \/ Picks(k) /\ b \in clerk[k].old \cup clerk[k].new
              \/ Writes(k) /\ Frozen(clerk[k].work)
<1>1. SettlementsTypeOK /\ clerk[k] \in Calls \cup {Idle} /\ bill[b].active
  BY DEF BillsInv, PapersInv, SettlementsTypeOK, Stands
<1>2. CASE LoadStep(k) \/ PickStep(k) \/ AbandonRequest(k) \/ StoreFile(k) \/ RemoveFile(k)
              \/ CommitReword(k)
  <2>1. UNCHANGED <<bill, links, row>>
    BY <1>1, <1>2, LoadKeepsTypes DEF Begin, PickStep, PickBills, AbandonRequest, StoreFile,
                                      RemoveFile, CommitReword
  <2>2. QED BY <1>1, <2>1 DEF Breaks, Linked
<1>3. CASE CommitStatus(k)
  <2>1. clerk[k].bill \in Bills /\ UNCHANGED <<links, row>>
    BY <1>1, <1>3, RequestRecord DEF CommitStatus, Is
  <2>2. bill'[b].terms = bill[b].terms /\ bill'[b].active = bill[b].active
    BY ZenonT(30), <1>1, <1>3, <2>1 DEF CommitStatus, SettlementsTypeOK, Bill
  <2>3. QED BY <1>1, <2>1, <2>2 DEF Breaks, Linked
<1>4. CASE CommitEdit(k) \/ CommitDelete(k)
  <2>1. clerk[k].bill \in Bills /\ UNCHANGED <<links, row>> /\ clerk'[k] = Idle /\ Aims(k)
    BY <1>1, <1>4, RequestRecord, EndKeepsTypes DEF CommitEdit, CommitDelete, Is, Aims
  <2>2. b # clerk[k].bill => bill'[b] = bill[b]
    BY <1>1, <1>4, <2>1 DEF CommitEdit, CommitDelete, SettlementsTypeOK
  <2>3. QED BY <1>1, <2>1, <2>2 DEF Breaks, Linked
<1>5. CASE LinkStep(k)
  <2>1. /\ clerk[k].bill \in Bills /\ UNCHANGED <<bill, row>> /\ clerk'[k] = Idle /\ Aims(k)
    BY <1>1, <1>5, RequestRecord, EndKeepsTypes DEF LinkStep, CommitLink, CommitUnlink, Is, Aims
  <2>2. ASSUME b # clerk[k].bill, NEW w \in Works PROVE <<b, w>> \in links' <=> <<b, w>> \in links
    BY <1>5, <2>2 DEF LinkStep, CommitLink, CommitUnlink
  <2>3. QED BY <1>1, <2>1, <2>2 DEF Breaks, Linked
<1>6. CASE CommitDiscard(k)
  <2>1. /\ UNCHANGED <<bill, row>> /\ clerk'[k] = Idle /\ Writes(k)
        /\ links' = links \ (Bills \X {clerk[k].work}) /\ clerk[k].work \in Works
    BY <1>1, <1>6, RequestRecord, EndKeepsTypes DEF CommitDiscard, Is, Writes
  <2>2. PICK w \in Works : ~(<<b, w>> \in links' <=> <<b, w>> \in links)
    BY <1>1, <2>1 DEF Breaks, Linked
  <2>3. w = clerk[k].work /\ <<b, w>> \in links
    BY <2>1, <2>2
  <2>4. QED BY <2>1, <2>3 DEF Frozen, Linked, Stands
<1>7. CASE CommitRow(k)
  <2>1. /\ UNCHANGED <<bill, links>> /\ clerk'[k] = Idle /\ Aims(k)
        /\ clerk[k].bill \in Bills /\ clerk[k].paper \in Papers
        /\ row[clerk[k].paper] = NoBill
    BY <1>1, <1>7, RequestRecord, EndKeepsTypes
    DEF CommitRow, Is, Aims, BillsInv, PapersInv, UploadInv
  <2>2. ASSUME b # clerk[k].bill, NEW p \in Papers PROVE row'[p] = b <=> row[p] = b
    BY <1>1, <1>7, <2>1, <2>2, SettlementAssumption DEF CommitRow, SettlementsTypeOK
  <2>3. QED BY <1>1, <2>1, <2>2 DEF Breaks, Linked
<1>8. CASE DeleteRow(k)
  <2>1. /\ UNCHANGED <<bill, links>> /\ clerk'[k] = Idle /\ Aims(k)
        /\ clerk[k].bill \in Bills /\ clerk[k].paper \in Papers
        /\ row[clerk[k].paper] \in {clerk[k].bill, NoBill}
    BY <1>1, <1>8, RequestRecord, EndKeepsTypes
    DEF DeleteRow, Is, Aims, BillsInv, PapersInv, RemoveInv
  <2>2. ASSUME b # clerk[k].bill, NEW p \in Papers PROVE row'[p] = b <=> row[p] = b
    BY <1>1, <1>8, <2>1, <2>2, SettlementAssumption DEF DeleteRow, SettlementsTypeOK
  <2>3. QED BY <1>1, <2>1, <2>2 DEF Breaks, Linked
<1>9. CASE CommitForm(k)
  <2>1. UNCHANGED <<bill, row>> /\ clerk'[k] = Idle /\ Picks(k)
    BY <1>1, <1>9, EndKeepsTypes DEF CommitForm, Is, Picks
  <2>2. PICK w \in Works : ~(<<b, w>> \in links' <=> <<b, w>> \in links)
    BY <1>1, <2>1 DEF Breaks, Linked
  <2>3. b \in clerk[k].old \cup clerk[k].new
    BY <1>9, <2>2 DEF CommitForm
  <2>4. QED BY <2>1, <2>3
<1>10. QED BY <1>2, <1>3, <1>4, <1>5, <1>6, <1>7, <1>8, <1>9
          DEF ClerkStep, BillStep, WorkStep, PaperStep

\* Only reword, discard and the form change what a ticket says.
LEMMA WritersWrite ==
    ASSUME BillsInv, NEW k \in Clerks, ClerkStep(k), NEW w \in Works, work'[w] # work[w]
    PROVE  clerk'[k] = Idle /\ Writes(k) /\ clerk[k].work = w
<1>1. SettlementsTypeOK /\ clerk[k] \in Calls \cup {Idle}
  BY DEF BillsInv, PapersInv, SettlementsTypeOK
<1>2. CASE WorkStep(k)
  <2>1. clerk[k].work \in Works /\ clerk'[k] = Idle /\ Writes(k)
    BY <1>1, <1>2, RequestRecord, EndKeepsTypes
    DEF WorkStep, CommitReword, CommitDiscard, CommitForm, Is, Writes
  <2>2. QED BY <1>1, <1>2, <2>1 DEF WorkStep, CommitReword, CommitDiscard, CommitForm,
                                    SettlementsTypeOK
<1>3. CASE LoadStep(k)
  BY <1>1, <1>3, LoadKeepsTypes DEF Begin
<1>4. CASE BillStep(k) \/ LinkStep(k) \/ PickStep(k) \/ PaperStep(k) \/ AbandonRequest(k)
  BY <1>4 DEF BillStep, LinkStep, PickStep, PickBills, PaperStep, CommitStatus, CommitEdit, CommitDelete, CommitLink,
     CommitUnlink, StoreFile, CommitRow, RemoveFile, DeleteRow, AbandonRequest
<1>5. QED BY <1>2, <1>3, <1>4 DEF ClerkStep

(* What was sent stays as it was sent, for any number of requests in any   *)
(* order, whatever changes of a status cross: terms, tickets and           *)
(* attachments of a settlement that is sent or paid, and what its tickets  *)
(* say, change only by a request that was under way when the seal, or the  *)
(* link, came. And whoever is counted as overtaken is under way: no other  *)
(* request is excused.                                                     *)
THEOREM WhatWasSentStays == SettlementsSpec => SealHolds /\ [](overtaken \subseteq Busy)
<1> DEFINE Overtaken == \E q \in overtaken : clerk'[q] = Idle
           Holds == /\ \A b \in Bills : Stands(b) /\ Breaks(b) => Overtaken
                    /\ \A w \in Works : work'[w] # work[w] /\ (\E b \in Bills : Stands(b) /\ w \in Linked(b))
                                         => Overtaken
<1>1. /\ SettlementsInit => BillsInv
      /\ BillsInv /\ [SettlementsNext]_settlementVars => BillsInv'
  BY BillsInductive
<1>2. ASSUME BillsInv, SettlementsNext
      PROVE  Holds
  <2>1. PICK k \in Clerks : ClerkStep(k)
    BY <1>2, StepsByKind
  <2>2. ASSUME k \notin overtaken
        PROVE  /\ (Aims(k) => ~Stands(clerk[k].bill)) /\ (Writes(k) => ~Frozen(clerk[k].work))
               /\ Picks(k) => \A b \in clerk[k].old \cup clerk[k].new : ~Stands(b)
    BY <1>2, <2>2 DEF BillsInv, SealInv, SealInvOf
  <2>3. ASSUME NEW b \in Bills, Stands(b), Breaks(b) PROVE Overtaken
    BY <1>2, <2>1, <2>2, <2>3, BreakersAim
  <2>4. ASSUME NEW w \in Works, work'[w] # work[w], \E b \in Bills : Stands(b) /\ w \in Linked(b)
        PROVE  Overtaken
    <3>1. Frozen(w)
      BY <2>4 DEF Frozen, Stands
    <3>2. QED BY <1>2, <2>1, <2>2, <2>4, <3>1, WritersWrite
  <2>5. QED BY <2>3, <2>4
<1>3. BillsInv /\ [SettlementsNext]_settlementVars => [Holds]_settlementVars
  BY <1>2
<1>4. [Holds]_settlementVars =>
        [/\ \A b \in Bills :
              Stands(b) /\ \/ bill'[b].terms # bill[b].terms
                           \/ ~bill'[b].active
                           \/ {w \in Works : <<b, w>> \in links'} # Linked(b)
                           \/ {p \in Papers : row'[p] = b} # {p \in Papers : row[p] = b}
              => \E k \in overtaken : clerk'[k] = Idle
         /\ \A w \in Works :
              work'[w] # work[w] /\ (\E b \in Bills : Stands(b) /\ w \in Linked(b))
              => \E k \in overtaken : clerk'[k] = Idle
        ]_settlementVars
  BY Zenon DEF Breaks
<1>5. BillsInv => overtaken \subseteq Busy
  BY DEF BillsInv, SealInv
<1> HIDE DEF Holds
<1>6. QED BY <1>1, <1>3, <1>4, <1>5, PTL DEF SettlementsSpec, SealHolds

-----------------------------------------------------------------------------
(* The numbers. Those taken are consecutive; every attempt lost has cost   *)
(* the commit of another settlement; the number of an INSERT that goes     *)
(* through is the next one, and nobody else has it.                        *)
Count == Cardinality(numbers)

IssuingInv(i) ==
    LET c == issuing[i] IN
    /\ c.at \in {"read", "flush", "commit"} => Count - c.known >= c.attempt - 1
    /\ c.at = "flush" =>
          /\ c.number \in 1 .. MaxBills /\ c.number <= Count + 1
          /\ c.number <= Count => Count - c.known >= c.attempt
    /\ c.at = "commit" => c.number \in 1 .. MaxBills /\ c.number = Count + 1
    /\ c.at = "raise" => Count - c.known >= Attempts

NumbersInv ==
    /\ NumbersTypeOK
    /\ Count \in 0 .. MaxBills /\ numbers = 1 .. Count
    /\ \A i \in Issuers : IssuingInv(i)
    /\ \A i, j \in Issuers : At(i, "commit") /\ At(j, "commit") => i = j

\* How many numbers there are from one to n.
LEMMA CountOfInterval ==
    ASSUME NEW n \in Nat
    PROVE  Cardinality(1 .. n) = n /\ IsFiniteSet(1 .. n)
  BY FS_Interval

\* A creation under way is a record.
LEMMA CreationRecord ==
    ASSUME NumbersTypeOK, NEW i \in Issuers, issuing[i] # Resting
    PROVE  /\ issuing[i] \in Creation /\ issuing[i].at \in {"read", "flush", "commit", "raise"}
           /\ issuing[i].attempt \in 1 .. Attempts /\ issuing[i].number \in 0 .. MaxBills + 1
           /\ issuing[i].known \in 0 .. MaxBills
  BY DEF NumbersTypeOK, Creation

\* The number offered is the one after the last.
LEMMA NextIsOneMore ==
    ASSUME NumbersInv
    PROVE  NextNumber = Count + 1
<1> DEFINE Good(n) == (\A m \in numbers : m < n) /\ (n = 1 \/ n - 1 \in numbers)
<1>1. Count \in Nat /\ Count <= MaxBills /\ numbers = 1 .. Count /\ MaxBills \in Nat
  BY NumberAssumption DEF NumbersInv
<1>2. Count + 1 \in 1 .. MaxBills + 1 /\ Good(Count + 1)
  BY <1>1
<1>3. \A n \in 1 .. MaxBills + 1 : Good(n) => n = Count + 1
  BY <1>1
<1>4. QED BY <1>2, <1>3 DEF NextNumber

\* Steps of a creation that commit nothing.
LEMMA KeepsNumbers ==
    ASSUME NumbersInv, NEW i \in Issuers, UNCHANGED numbers,
           NEW c \in Creation \cup {Resting}, issuing' = [issuing EXCEPT ![i] = c],
           IssuingInv(i)',
           c.at = "commit" => ~\E j \in Issuers \ {i} : At(j, "commit")
    PROVE  NumbersInv'
<1>1. NumbersTypeOK' /\ issuing'[i] = c /\ \A j \in Issuers \ {i} : issuing'[j] = issuing[j]
  BY DEF NumbersInv, NumbersTypeOK
<1>2. Count' = Count
  BY DEF Count
<1>3. \A j \in Issuers \ {i} : IssuingInv(j)'
  BY <1>1, <1>2 DEF NumbersInv, IssuingInv
<1>4. QED BY <1>1, <1>2, <1>3 DEF NumbersInv, At

LEMMA BeginKeepsNumbers ==
    ASSUME NumbersInv, NEW i \in Issuers, BeginCreation(i) \/ ReadNumber(i) \/ EndCreation(i)
    PROVE  NumbersInv'
<1>0. Count' = Count /\ Count \in 0 .. MaxBills /\ MaxBills \in Nat /\ NumbersTypeOK
  BY NumberAssumption DEF BeginCreation, ReadNumber, EndCreation, Count, NumbersInv
<1>1. CASE BeginCreation(i)
  <2> DEFINE c == [at |-> "read", attempt |-> 1, number |-> 0, known |-> Count]
  <2>1. c \in Creation
    BY <1>0 DEF Creation, Attempts
  <2>2. issuing' = [issuing EXCEPT ![i] = c] /\ UNCHANGED numbers
    BY <1>1 DEF BeginCreation, Count
  <2>3. issuing'[i] = c
    BY <1>0, <2>2 DEF NumbersTypeOK
  <2>4. IssuingInv(i)'
    BY <1>0, <2>3 DEF IssuingInv
  <2>5. QED BY <2>1, <2>2, <2>4, KeepsNumbers
<1>2. CASE ReadNumber(i)
  <2> DEFINE old == issuing[i]
             c == [issuing[i] EXCEPT !.at = "flush", !.number = Count + 1]
  <2>1. /\ old \in Creation /\ old.at = "read" /\ Count + 1 <= MaxBills
        /\ old.attempt \in 1 .. Attempts /\ old.known \in 0 .. MaxBills
        /\ Count - old.known >= old.attempt - 1
    BY <1>0, <1>2, CreationRecord, NextIsOneMore DEF ReadNumber, At, Resting, NumbersInv, IssuingInv
  <2>2. c \in Creation
    <3>1. Count + 1 \in 0 .. MaxBills + 1
      BY <1>0
    <3>2. QED BY <2>1, <3>1 DEF Creation
  <2>3. issuing' = [issuing EXCEPT ![i] = c] /\ UNCHANGED numbers
    BY <1>0, <1>2, NextIsOneMore DEF ReadNumber, NumbersTypeOK
  <2>4. issuing'[i] = c
    BY <1>0, <2>3 DEF NumbersTypeOK
  <2>5. IssuingInv(i)'
    BY <1>0, <2>1, <2>4 DEF IssuingInv, Creation, Attempts
  <2>6. QED BY <2>1, <2>2, <2>3, <2>5, KeepsNumbers DEF Creation
<1>3. CASE EndCreation(i)
  <2>1. issuing' = [issuing EXCEPT ![i] = Resting] /\ UNCHANGED numbers
    BY <1>3 DEF EndCreation
  <2>2. issuing'[i] = Resting
    BY <1>0, <2>1 DEF NumbersTypeOK
  <2>3. IssuingInv(i)'
    BY <2>2 DEF IssuingInv, Resting
  <2>4. QED BY <2>1, <2>3, KeepsNumbers DEF Resting
<1>4. QED BY <1>1, <1>2, <1>3

LEMMA FlushKeepsNumbers ==
    ASSUME NumbersInv, NEW i \in Issuers, FlushNumber(i)
    PROVE  NumbersInv'
<1> DEFINE old == issuing[i]
<1>1. /\ Count' = Count /\ Count \in 0 .. MaxBills /\ MaxBills \in Nat /\ NumbersTypeOK
      /\ numbers = 1 .. Count
  BY NumberAssumption DEF FlushNumber, Count, NumbersInv
<1>2. /\ old \in Creation /\ old.at = "flush" /\ old.attempt \in 1 .. Attempts
      /\ old.known \in 0 .. MaxBills /\ old.number \in 1 .. MaxBills /\ old.number <= Count + 1
      /\ Count - old.known >= old.attempt - 1
      /\ old.number <= Count => Count - old.known >= old.attempt
  <2>1. old.at = "flush" /\ old # Resting
    BY DEF FlushNumber, At, Resting
  <2>2. IssuingInv(i)
    BY DEF NumbersInv
  <2>3. /\ old \in Creation /\ old.attempt \in 1 .. Attempts /\ old.known \in 0 .. MaxBills
    BY <1>1, <2>1, CreationRecord
  <2>4. /\ old.number \in 1 .. MaxBills /\ old.number <= Count + 1
        /\ Count - old.known >= old.attempt - 1
        /\ old.number <= Count => Count - old.known >= old.attempt
    BY <2>1, <2>2 DEF IssuingInv
  <2>5. QED BY <2>1, <2>3, <2>4
<1>3. CASE old.number \notin numbers
  <2> DEFINE c == [issuing[i] EXCEPT !.at = "commit"]
  <2>1. c \in Creation
    BY <1>2 DEF Creation
  <2>2. issuing' = [issuing EXCEPT ![i] = c] /\ UNCHANGED numbers
    BY <1>1, <1>3 DEF FlushNumber, NumbersTypeOK
  <2>3. issuing'[i] = c
    BY <1>1, <2>2 DEF NumbersTypeOK
  <2>4. old.number = Count + 1
    BY <1>1, <1>2, <1>3
  <2>5. IssuingInv(i)'
    BY <1>1, <1>2, <2>3, <2>4 DEF IssuingInv, Creation
  <2>6. ~\E j \in Issuers \ {i} : At(j, "commit")
    BY <2>4 DEF FlushNumber, Inserted, At, NumbersInv, IssuingInv
  <2>7. QED BY <2>1, <2>2, <2>5, <2>6, KeepsNumbers
<1>4. CASE old.number \in numbers /\ old.attempt = Attempts
  <2> DEFINE c == [issuing[i] EXCEPT !.at = "raise"]
  <2>1. c \in Creation
    BY <1>2 DEF Creation
  <2>2. issuing' = [issuing EXCEPT ![i] = c] /\ UNCHANGED numbers
    BY <1>1, <1>4 DEF FlushNumber, NumbersTypeOK
  <2>3. issuing'[i] = c
    BY <1>1, <2>2 DEF NumbersTypeOK
  <2>4. IssuingInv(i)'
    BY <1>1, <1>2, <1>4, <2>3 DEF IssuingInv, Creation
  <2>5. QED BY <1>2, <2>1, <2>2, <2>4, KeepsNumbers DEF Creation
<1>5. CASE old.number \in numbers /\ old.attempt # Attempts
  <2> DEFINE c == [issuing[i] EXCEPT !.at = "read", !.attempt = issuing[i].attempt + 1]
  <2>1. old.attempt + 1 \in 1 .. Attempts
    BY <1>2, <1>5 DEF Attempts
  <2>2. c \in Creation
    BY <1>2, <2>1 DEF Creation
  <2>3. issuing' = [issuing EXCEPT ![i] = c] /\ UNCHANGED numbers
    BY <1>1, <1>5 DEF FlushNumber, NumbersTypeOK
  <2>4. issuing'[i] = c
    BY <1>1, <2>3 DEF NumbersTypeOK
  <2>5. IssuingInv(i)'
    BY <1>1, <1>2, <1>5, <2>4 DEF IssuingInv, Creation
  <2>6. QED BY <1>2, <2>2, <2>3, <2>5, KeepsNumbers DEF Creation
<1>6. QED BY <1>3, <1>4, <1>5

LEMMA CommitKeepsNumbers ==
    ASSUME NumbersInv, NEW i \in Issuers, CommitNumber(i)
    PROVE  NumbersInv'
<1>1. /\ Count \in 0 .. MaxBills /\ MaxBills \in Nat /\ NumbersTypeOK /\ numbers = 1 .. Count
      /\ issuing[i].number = Count + 1 /\ Count + 1 \in 1 .. MaxBills
  BY NumberAssumption DEF CommitNumber, At, NumbersInv, IssuingInv
<1>2. numbers' = 1 .. Count + 1
  BY <1>1 DEF CommitNumber
<1>3. Count' = Count + 1
  BY <1>1, <1>2, CountOfInterval DEF Count
<1>4. issuing' = [issuing EXCEPT ![i] = Resting]
  BY DEF CommitNumber
<1>5. NumbersTypeOK'
  BY <1>1, <1>2, <1>4 DEF NumbersTypeOK
<1>6. issuing'[i] = Resting /\ \A j \in Issuers \ {i} : issuing'[j] = issuing[j]
  BY <1>1, <1>4 DEF NumbersTypeOK
<1>7. ASSUME NEW j \in Issuers PROVE IssuingInv(j)' /\ ~At(j, "commit")'
  <2>1. CASE issuing'[j] = Resting
    BY <2>1 DEF IssuingInv, Resting, At
  <2>2. CASE issuing'[j] # Resting
    <3>1. /\ j # i /\ issuing'[j] = issuing[j] /\ IssuingInv(j) /\ issuing[j].at # "commit"
          /\ issuing[j].at \in {"read", "flush", "commit", "raise"}
          /\ issuing[j].attempt \in 1 .. Attempts /\ issuing[j].known \in 0 .. MaxBills
          /\ issuing[j].number \in 0 .. MaxBills + 1
      BY <1>1, <1>6, <2>2, CreationRecord DEF NumbersInv, CommitNumber, At
    <3>2. QED BY SMTT(30), <1>1, <1>3, <3>1 DEF IssuingInv, At, Attempts
  <2>3. QED BY <2>1, <2>2
<1>8. QED BY <1>1, <1>2, <1>3, <1>5, <1>7 DEF NumbersInv

\* The invariant of the numbers holds at the start and is kept.
LEMMA NumbersInductive ==
    /\ NumbersInit => NumbersInv
    /\ NumbersInv /\ [NumbersNext]_numberVars => NumbersInv'
<1>1. ASSUME NumbersInit PROVE NumbersInv
  <2>1. numbers = 1 .. 0 /\ Count = 0
    BY <1>1, CountOfInterval DEF NumbersInit, Count
  <2>2. QED BY <1>1, <2>1, NumberAssumption DEF NumbersInit, NumbersInv, NumbersTypeOK, IssuingInv, At, Resting
<1>2. NumbersInv /\ NumbersNext => NumbersInv'
  BY BeginKeepsNumbers, FlushKeepsNumbers, CommitKeepsNumbers DEF NumbersNext
<1>3. ASSUME NumbersInv, UNCHANGED numberVars PROVE NumbersInv'
  <2>1. UNCHANGED <<numbers, issuing, Count>>
    BY <1>3 DEF numberVars, Count
  <2>2. QED BY <1>3, <2>1 DEF NumbersInv, NumbersTypeOK, IssuingInv, At
<1>4. QED BY <1>1, <1>2, <1>3

(* For any number of requests and settlements: a creation fails on its     *)
(* number only when three other settlements were committed while it ran.   *)
THEOREM RefusalsCostThree == NumbersSpec => []RefusedOnlyByThree
<1>1. NumbersInv => RefusedOnlyByThree
  BY DEF NumbersInv, RefusedOnlyByThree, IssuingInv, At, Count, Attempts
<1>2. QED BY <1>1, NumbersInductive, PTL DEF NumbersSpec

(* The numbers of the settlements are 1, 2, 3, ... without a gap, and two  *)
(* transactions never have the same number inserted at once.               *)
THEOREM NumbersConsecutive ==
    NumbersSpec => [](/\ NumbersTypeOK
                      /\ numbers = 1 .. Cardinality(numbers)
                      /\ \A i, j \in Issuers : At(i, "commit") /\ At(j, "commit") => i = j)
<1>1. NumbersInv => /\ NumbersTypeOK
                    /\ numbers = 1 .. Cardinality(numbers)
                    /\ \A i, j \in Issuers : At(i, "commit") /\ At(j, "commit") => i = j
  BY DEF NumbersInv, Count
<1>2. QED BY <1>1, NumbersInductive, PTL DEF NumbersSpec

=============================================================================
