--------------------------- MODULE ServicesProofs ---------------------------
(***************************************************************************)
(* Proofs about the wiki, and about the run of seven components side by    *)
(* side: each of them behaves as its own specification says, so what is    *)
(* proved of one holds in the run.                                         *)
(***************************************************************************)
EXTENDS MCServices, SprintBoardProofs, ReportsProofs, SettlementsProofs, TestLockProofs,
        FiniteSetTheorems, WellFoundedInduction, TLAPS

-----------------------------------------------------------------------------
(* The wiki. *)

(* The steps, by what they do to the request of k. *)
Begins(k) ==
    \/ \E p \in Pages, title \in Titles, parent \in Pages \cup {NoPage}, public \in BOOLEAN :
          StartCreation(k, p, title, parent, public)
    \/ \E p \in Pages, title \in Titles \cup {Same}, public, writes \in BOOLEAN :
          StartEdit(k, p, title, public, writes)
    \/ \E p \in Pages : StartDeletion(k, p)
GoesOn(k) == FindSlug(k) \/ Flush(k) \/ Store(k) \/ RemoveTexts(k)
Finishes(k) == Commit(k) \/ Refuse(k) \/ CommitDeletion(k) \/ CutOff(k)

\* Every step is one request's.
LEMMA StepsOfEditors == WikiNext <=> \E k \in Editors : Begins(k) \/ GoesOn(k) \/ Finishes(k)
  BY DEF WikiNext, Begins, GoesOn, Finishes

\* What the types say of a request.
LEMMA RequestByOp ==
    ASSUME WikiTypeOK, NEW k \in Editors
    PROVE  /\ Op(k, "create") => editor[k] \in Creations
           /\ Op(k, "edit") => editor[k] \in Edits
           /\ Op(k, "delete") => editor[k] \in Deletions
           /\ editor[k] = Unused \/ Op(k, "create") \/ Op(k, "edit") \/ Op(k, "delete")
           /\ editor[k] = Unused => ~Op(k, "create") /\ ~Op(k, "edit") /\ ~Op(k, "delete")
<1>1. editor[k] \in Creations \cup Edits \cup Deletions \cup {Unused}
  BY DEF WikiTypeOK
<1>2. /\ \A r \in Creations : r.op = "create"
      /\ \A r \in Edits : r.op = "edit"
      /\ \A r \in Deletions : r.op = "delete"
      /\ Unused.op = "none"
  BY DEF Creations, Edits, Deletions, Unused
<1>3. QED BY <1>1, <1>2 DEF Op

\* What the types say of a row.
LEMMA RowByState ==
    ASSUME WikiTypeOK, NEW p \in Pages
    PROVE  /\ page[p] \in PageRow \cup {Unwritten, Deleted}
           /\ Live(p) <=> page[p] \in PageRow
           /\ ~Live(p) <=> page[p] \in {Unwritten, Deleted}
<1>1. page[p] \in PageRow \cup {Unwritten, Deleted}
  BY DEF WikiTypeOK
<1>2. Unwritten.state = "unborn" /\ Deleted.state = "gone" /\ \A r \in PageRow : r.state = "live"
  BY DEF Unwritten, Deleted, PageRow
<1>3. QED BY <1>1, <1>2 DEF Live

\* A set of numbers has a least one.
LEMMA LeastNumber ==
    ASSUME NEW K \in SUBSET Nat, K # {}
    PROVE  \E n \in K : \A i \in K : n <= i
<1>1. PICK n \in K : \A i \in K : ~(<<i, n>> \in OpToRel(<, Nat))
  BY NatLessThanWellFounded, WFMin
<1>2. \A i \in K : ~(i < n)
  BY <1>1 DEF OpToRel
<1>3. QED BY <1>2

\* A free slug exists: a project has fewer other pages than there are suffixes.
LEMMA FreeSlugGives ==
    ASSUME WikiTypeOK, NEW p \in Pages, NEW title \in Titles
    PROVE  /\ FreeSlug(p, title) \in Slugs
           /\ \A q \in Neighbours(p) : Live(q) => page[q].slug # FreeSlug(p, title)
<1> DEFINE N == Cardinality(Pages)
           Known == {page[q].slug : q \in {r \in Neighbours(p) : Live(r)}}
           Gaps == {n \in 0 .. N : <<title, n>> \notin Known}
<1>1. N \in Nat /\ IsFiniteSet(Pages)
  BY FS_CardinalityType, WikiAssumption
<1>2. Gaps # {}
  <2>1. SUFFICES ASSUME Gaps = {} PROVE FALSE
    OBVIOUS
  <2>2. \A n \in 0 .. N : \E q \in Pages : page[q].slug = <<title, n>>
    BY <2>1 DEF Neighbours
  <2> DEFINE f == [n \in 0 .. N |-> CHOOSE q \in Pages : page[q].slug = <<title, n>>]
  <2>3. \A n \in 0 .. N : f[n] \in Pages /\ page[f[n]].slug = <<title, n>>
    BY <2>2
  <2>4. f \in [0 .. N -> Pages]
    BY <2>3
  <2>5. IsFiniteSet(0 .. N) /\ Cardinality(0 .. N) = N + 1
    BY <1>1, FS_Interval
  <2> HIDE DEF f
  <2>6. PICK m \in 0 .. N, n \in 0 .. N : m # n /\ f[m] = f[n]
    BY <1>1, <2>4, <2>5, FS_PigeonHole
  <2>7. QED BY <2>3, <2>6
<1>3. PICK n \in Gaps : \A i \in Gaps : n <= i
  <2>1. Gaps \in SUBSET Nat
    BY <1>1
  <2>2. QED BY <1>2, <2>1, LeastNumber
<1>4. FreeSlug(p, title) = <<title, CHOOSE m \in Gaps : \A i \in Gaps : m <= i>>
  BY DEF FreeSlug
<1>5. (CHOOSE m \in Gaps : \A i \in Gaps : m <= i) \in Gaps
  BY <1>3
<1>6. PICK m \in Gaps : FreeSlug(p, title) = <<title, m>>
  BY <1>4, <1>5
<1>7. m \in 0 .. N /\ <<title, m>> \notin Known
  OBVIOUS
<1>8. QED BY <1>6, <1>7 DEF Slugs

\* What is below a page: itself, and pages that are there.
LEMMA DescendantsGive ==
    ASSUME NEW p \in Pages
    PROVE  /\ Descendants(p) \in SUBSET Pages
           /\ \A q \in Descendants(p) : q = p \/ Live(q)
<1> DEFINE E == {<<page[q].parent, q>> : q \in {r \in Pages : Live(r)}}
           S == {p} \cup {q \in Pages : Live(q)}
<1>1. Descendants(p) = Reach(Pages, E, p)
  BY DEF Descendants
<1>2. \A e \in E : e[2] \in S
  OBVIOUS
<1>3. S \in SUBSET Pages /\ p \in S /\ ClosedUnder(E, S)
  BY <1>2 DEF ClosedUnder
<1> HIDE DEF E
<1>4. \A x \in Reach(Pages, E, p) : x \in Pages /\ x \in S
  BY <1>3 DEF Reach
<1>5. QED BY <1>1, <1>4

\* The row and the address a save writes.
LEMMA SaveGives ==
    ASSUME WikiTypeOK, NEW k \in Editors, Saving(k), Op(k, "edit") => Live(editor[k].page)
    PROVE  /\ RowOf(k) \in PageRow
           /\ PostOf(k) \in Slugs \cup {NoSlug}
           /\ editor[k].page \in Pages
<1>1. PostOf(k) \in Slugs \cup {NoSlug} /\ editor[k].page \in Pages
  <2>1. editor[k].slug \in Slugs /\ editor[k].page \in Pages
    BY RequestByOp DEF Saving, Creations, Edits
  <2>2. post[editor[k].page] \in Slugs \cup {NoSlug}
    BY <2>1 DEF WikiTypeOK
  <2>3. QED BY <2>1, <2>2 DEF PostOf
<1>2. CASE Op(k, "create")
  <2>1. editor[k] \in Creations
    BY <1>2, RequestByOp
  <2>2. RowOf(k) = [state |-> "live", slug |-> editor[k].slug, public |-> editor[k].public, parent |-> editor[k].parent]
    BY <1>2 DEF RowOf, Op
  <2>3. QED BY <1>1, <2>1, <2>2 DEF Creations, PageRow
<1>3. CASE Op(k, "edit")
  <2>1. editor[k] \in Edits /\ page[editor[k].page] \in PageRow
    BY <1>1, <1>3, RequestByOp, RowByState
  <2>2. RowOf(k) = [page[editor[k].page] EXCEPT !.slug = IF NewSlug(k) THEN editor[k].slug ELSE @,
                                                !.public = IF editor[k].toggles THEN editor[k].public ELSE @]
    BY <1>3 DEF RowOf, Op
  <2>3. RowOf(k) \in PageRow
    BY <2>1, <2>2 DEF Edits, PageRow
  <2>4. QED BY <1>1, <2>3
<1>4. QED BY <1>2, <1>3 DEF Saving

\* The requests stay requests when one of them changes to r.
LEMMA EditorsStay ==
    ASSUME WikiTypeOK, NEW k \in Editors, NEW r, editor' = [editor EXCEPT ![k] = r],
           r \in Creations \cup Edits \cup Deletions \cup {Unused}
    PROVE  /\ editor' \in [Editors -> Creations \cup Edits \cup Deletions \cup {Unused}]
           /\ editor'[k] = r
           /\ \A j \in Editors \ {k} : editor'[j] = editor[j]
  BY DEF WikiTypeOK

\* What a request is that begins.
LEMMA BeginsGives ==
    ASSUME WikiTypeOK, NEW k \in Editors, Begins(k)
    PROVE  /\ editor[k] = Unused /\ UNCHANGED <<home, page, text, post>>
           /\ editor' \in [Editors -> Creations \cup Edits \cup Deletions \cup {Unused}]
           /\ \A j \in Editors \ {k} : editor'[j] = editor[j]
           /\ requests' \in 0 .. MaxRequests
           /\ \/ /\ editor'[k] \in Creations /\ editor'[k].at = "named"
                 /\ page[editor'[k].page] = Unwritten
                 /\ \A j \in Editors : ~(Op(j, "create") /\ editor[j].page = editor'[k].page)
                 /\ \A q \in Neighbours(editor'[k].page) : Live(q) => page[q].slug # editor'[k].slug
                 /\ RacingRenames \/ TakesTurns(k, editor'[k].page, editor'[k].slug, FALSE)
              \/ /\ editor'[k] \in Edits /\ editor'[k].at = "loaded"
                 /\ Live(editor'[k].page)
                 /\ editor'[k].toggles = (editor'[k].public # page[editor'[k].page].public)
                 /\ RacingRenames \/ ~Overlaps(editor'[k].page, editor'[k].title, editor'[k].public)
              \/ editor'[k] \in Deletions
<1>1. ASSUME NEW r, Receive(k, r), r \in Creations \cup Edits \cup Deletions
      PROVE  /\ editor[k] = Unused /\ UNCHANGED <<home, page, text, post>>
             /\ editor' \in [Editors -> Creations \cup Edits \cup Deletions \cup {Unused}]
             /\ editor'[k] = r
             /\ \A j \in Editors \ {k} : editor'[j] = editor[j]
             /\ requests' \in 0 .. MaxRequests
  <2>1. requests' \in 0 .. MaxRequests
    <3>1. requests \in 0 .. MaxRequests /\ requests < MaxRequests /\ requests' = requests + 1
      BY <1>1 DEF Receive, WikiTypeOK
    <3>2. MaxRequests \in Nat
      BY WikiAssumption
    <3>3. QED BY <3>1, <3>2
  <2>2. editor' = [editor EXCEPT ![k] = r]
    BY <1>1 DEF Receive
  <2>3. QED BY <1>1, <2>1, <2>2, EditorsStay DEF Receive
<1>2. CASE \E p \in Pages, title \in Titles, parent \in Pages \cup {NoPage}, public \in BOOLEAN :
              StartCreation(k, p, title, parent, public)
  <2>1. PICK p \in Pages, title \in Titles, parent \in Pages \cup {NoPage}, public \in BOOLEAN :
              StartCreation(k, p, title, parent, public)
    BY <1>2
  <2> DEFINE r == [op |-> "create", page |-> p, parent |-> parent,
                   slug |-> FreeSlug(p, title), public |-> public, at |-> "named"]
  <2>2. r \in Creations
    BY FreeSlugGives DEF Creations
  <2>3. /\ r.page = p /\ r.slug = FreeSlug(p, title) /\ r.at = "named"
    OBVIOUS
  <2>4. /\ Receive(k, r) /\ page[p] = Unwritten
        /\ \A j \in Editors : ~(Op(j, "create") /\ editor[j].page = p)
        /\ RacingRenames \/ TakesTurns(k, p, FreeSlug(p, title), FALSE)
    BY <2>1 DEF StartCreation
  <2> HIDE DEF r
  <2>5. editor'[k] = r
    BY <1>1, <2>2, <2>4
  <2>6. \A q \in Neighbours(p) : Live(q) => page[q].slug # FreeSlug(p, title)
    BY FreeSlugGives
  <2>7. QED BY ZenonT(30), <1>1, <2>2, <2>3, <2>4, <2>5, <2>6
<1>3. CASE \E p \in Pages, title \in Titles \cup {Same}, public, writes \in BOOLEAN :
              StartEdit(k, p, title, public, writes)
  <2>1. PICK p \in Pages, title \in Titles \cup {Same}, public \in BOOLEAN, writes \in BOOLEAN :
              StartEdit(k, p, title, public, writes)
    BY <1>3
  <2> DEFINE r == [op |-> "edit", page |-> p, title |-> title, slug |-> page[p].slug,
                   public |-> public, toggles |-> public # page[p].public, writes |-> writes, at |-> "loaded"]
  <2>2. Live(p) /\ Receive(k, r) /\ (RacingRenames \/ ~Overlaps(p, title, public))
    BY <2>1 DEF StartEdit
  <2>3. r \in Edits
    <3>1. page[p] \in PageRow
      BY <2>2, RowByState
    <3>2. QED BY <3>1 DEF PageRow, Edits
  <2>4. /\ r.page = p /\ r.title = title /\ r.public = public /\ r.at = "loaded"
        /\ r.toggles = (public # page[p].public)
    OBVIOUS
  <2> HIDE DEF r
  <2>5. editor'[k] = r
    BY <1>1, <2>2, <2>3
  <2>6. QED BY <1>1, <2>2, <2>3, <2>4, <2>5
<1>4. CASE \E p \in Pages : StartDeletion(k, p)
  <2>1. PICK p \in Pages : StartDeletion(k, p)
    BY <1>4
  <2> DEFINE r == [op |-> "delete", page |-> p, doomed |-> Descendants(p), at |-> "collected"]
  <2>2. r \in Deletions /\ Receive(k, r)
    BY <2>1, DescendantsGive DEF Deletions, StartDeletion
  <2> HIDE DEF r
  <2>3. QED BY <1>1, <2>2
<1>5. QED BY <1>2, <1>3, <1>4 DEF Begins

\* How a request goes on.
LEMMA GoesOnGives ==
    ASSUME WikiTypeOK, NEW k \in Editors, GoesOn(k)
    PROVE  /\ UNCHANGED <<home, page, post, requests>>
           /\ editor' \in [Editors -> Creations \cup Edits \cup Deletions \cup {Unused}]
           /\ \A j \in Editors \ {k} : editor'[j] = editor[j]
           /\ editor'[k].op = editor[k].op /\ editor'[k].page = editor[k].page
           /\ Saving(k) => editor'[k].public = editor[k].public
           /\ Op(k, "edit") => /\ editor'[k].title = editor[k].title /\ editor'[k].toggles = editor[k].toggles
                               /\ editor'[k].writes = editor[k].writes
           /\ \/ /\ FindSlug(k) /\ editor'[k].at = "named" /\ text' = text /\ Op(k, "edit")
                 /\ editor'[k].slug = FreeSlug(editor[k].page, editor[k].title) /\ editor[k].title \in Titles
              \/ /\ Flush(k) /\ editor'[k].at = "flushed" /\ text' = text /\ editor'[k].slug = editor[k].slug
                 /\ Saving(k)
              \/ /\ Store(k) /\ editor'[k].at = "stored" /\ text' = [text EXCEPT ![editor[k].page] = k]
                 /\ editor'[k].slug = editor[k].slug /\ Saving(k)
              \/ /\ RemoveTexts(k) /\ Op(k, "delete")
                 /\ \A p \in Pages : text'[p] \in {text[p], "removed"}
                 /\ text' \in [Pages -> Fates \cup Editors]
<1>1. ASSUME NEW stage, Goto(k, stage), [editor[k] EXCEPT !.at = stage] \in Creations \cup Edits \cup Deletions
      PROVE  /\ editor' \in [Editors -> Creations \cup Edits \cup Deletions \cup {Unused}]
             /\ editor'[k] = [editor[k] EXCEPT !.at = stage]
             /\ \A j \in Editors \ {k} : editor'[j] = editor[j]
  <2>1. editor' = [editor EXCEPT ![k] = [editor[k] EXCEPT !.at = stage]]
    BY <1>1 DEF Goto
  <2>2. QED BY <1>1, <2>1, EditorsStay
<1>2. CASE FindSlug(k)
  <2> DEFINE r == [editor[k] EXCEPT !.slug = FreeSlug(editor[k].page, editor[k].title), !.at = "named"]
  <2>1. editor[k] \in Edits /\ editor[k].title \in Titles /\ editor[k].page \in Pages /\ Op(k, "edit")
    BY <1>2, RequestByOp DEF FindSlug, Renames, Edits
  <2>2. /\ r \in Edits
        /\ r.op = editor[k].op /\ r.page = editor[k].page /\ r.public = editor[k].public /\ r.title = editor[k].title
        /\ r.toggles = editor[k].toggles /\ r.writes = editor[k].writes
        /\ r.at = "named" /\ r.slug = FreeSlug(editor[k].page, editor[k].title)
    BY <2>1, FreeSlugGives DEF Edits
  <2>3. editor' = [editor EXCEPT ![k] = r]
    BY <1>2 DEF FindSlug
  <2>4. UNCHANGED <<home, page, text, post, requests>>
    BY <1>2 DEF FindSlug
  <2> HIDE DEF r
  <2>5. QED BY <1>2, <2>1, <2>2, <2>3, <2>4, EditorsStay
<1>3. ASSUME NEW stage \in {"flushed", "stored"}, Goto(k, stage), Saving(k)
      PROVE  /\ editor' \in [Editors -> Creations \cup Edits \cup Deletions \cup {Unused}]
             /\ \A j \in Editors \ {k} : editor'[j] = editor[j]
             /\ editor'[k].op = editor[k].op /\ editor'[k].page = editor[k].page
             /\ editor'[k].public = editor[k].public
             /\ Op(k, "edit") => /\ editor'[k].title = editor[k].title /\ editor'[k].toggles = editor[k].toggles
                                 /\ editor'[k].writes = editor[k].writes
             /\ editor'[k].at = stage /\ editor'[k].slug = editor[k].slug
  <2>1. CASE Op(k, "create")
    <3>1. editor[k] \in Creations /\ ~Op(k, "edit")
      BY <2>1, RequestByOp DEF Op
    <3>2. [editor[k] EXCEPT !.at = stage] \in Creations
      BY <3>1 DEF Creations
    <3>3. QED BY <1>1, <1>3, <3>1, <3>2 DEF Creations
  <2>2. CASE Op(k, "edit")
    <3>1. editor[k] \in Edits
      BY <2>2, RequestByOp
    <3>2. [editor[k] EXCEPT !.at = stage] \in Edits
      BY <3>1 DEF Edits
    <3>3. QED BY <1>1, <1>3, <3>1, <3>2 DEF Edits
  <2>3. QED BY <1>3, <2>1, <2>2 DEF Saving
<1>4. CASE Flush(k)
  BY <1>3, <1>4 DEF Flush
<1>5. CASE Store(k)
  <2>1. Saving(k)
    BY <1>5 DEF Store, Saving
  <2>2. QED BY <1>3, <1>5, <2>1 DEF Store
<1>6. CASE RemoveTexts(k)
  <2>1. editor[k] \in Deletions /\ Op(k, "delete") /\ ~Saving(k) /\ ~Op(k, "edit")
    BY <1>6, RequestByOp DEF RemoveTexts, Saving, Op
  <2>2. [editor[k] EXCEPT !.at = "removed"] \in Deletions
    BY <2>1 DEF Deletions
  <2>3. /\ editor' \in [Editors -> Creations \cup Edits \cup Deletions \cup {Unused}]
        /\ \A j \in Editors \ {k} : editor'[j] = editor[j]
        /\ editor'[k].op = editor[k].op /\ editor'[k].page = editor[k].page
    BY <1>1, <1>6, <2>1, <2>2 DEF RemoveTexts, Deletions
  <2>4. \A p \in Pages : text'[p] \in {text[p], "removed"}
    BY <1>6 DEF RemoveTexts
  <2>5. text' \in [Pages -> Fates \cup Editors]
    BY <1>6 DEF RemoveTexts, WikiTypeOK, Fates
  <2>6. QED BY <1>6, <2>1, <2>3, <2>4, <2>5 DEF RemoveTexts
<1>7. QED BY <1>2, <1>4, <1>5, <1>6 DEF GoesOn

\* How a request ends.
LEMMA FinishesGives ==
    ASSUME WikiTypeOK, NEW k \in Editors, Finishes(k)
    PROVE  /\ UNCHANGED <<home, requests>>
           /\ editor' \in [Editors -> Creations \cup Edits \cup Deletions \cup {Unused}]
           /\ editor'[k] = Unused
           /\ \A j \in Editors \ {k} : editor'[j] = editor[j]
           /\ \/ /\ Commit(k) /\ Saving(k) /\ Ready(k) /\ ~Orphan(k) /\ ~Waits(k) /\ ~Clashes(k)
                 /\ page' = [page EXCEPT ![editor[k].page] = RowOf(k)]
                 /\ post' = [post EXCEPT ![editor[k].page] = PostOf(k)]
                 /\ \A p \in Pages : text'[p] = IF text[p] = k THEN "saved" ELSE text[p]
              \/ /\ Refuse(k) /\ Saving(k) /\ UNCHANGED <<page, post>>
                 /\ \A p \in Pages :
                       text'[p] = IF text[p] = k THEN (IF Op(k, "create") THEN "missing" ELSE "refused") ELSE text[p]
              \/ /\ CommitDeletion(k) /\ Op(k, "delete") /\ text' = text
                 /\ \E Lost \in SUBSET Pages :
                       /\ \A p \in Lost : Live(p) /\ \A j \in Editors : ~Locks(j, p) /\ ~KeepsParent(j, p)
                       /\ page' = [p \in Pages |-> IF p \in Lost THEN Deleted ELSE page[p]]
                       /\ post' = [p \in Pages |-> IF p \in Lost THEN NoSlug ELSE post[p]]
              \/ /\ CutOff(k) /\ UNCHANGED <<page, post>>
                 /\ \A p \in Pages : text'[p] = IF text[p] = k THEN "cut off" ELSE text[p]
           /\ text' \in [Pages -> Fates \cup Editors]
<1>1. ASSUME NEW fate \in Fates, End(k, fate)
      PROVE  /\ text' \in [Pages -> Fates \cup Editors]
             /\ \A p \in Pages : text'[p] = IF text[p] = k THEN fate ELSE text[p]
  BY <1>1 DEF End, WikiTypeOK
<1>2. editor' = [editor EXCEPT ![k] = Unused]
  BY DEF Finishes, Commit, Refuse, CommitDeletion, CutOff, End
<1>3. /\ editor' \in [Editors -> Creations \cup Edits \cup Deletions \cup {Unused}]
      /\ editor'[k] = Unused
      /\ \A j \in Editors \ {k} : editor'[j] = editor[j]
  BY <1>2, EditorsStay
<1>4. CASE Commit(k)
  BY <1>1, <1>3, <1>4 DEF Commit, Fates
<1>5. CASE Refuse(k)
  BY <1>1, <1>3, <1>5 DEF Refuse, Refused, Fates
<1>6. CASE CommitDeletion(k)
  <2> DEFINE Doomed == IF Live(editor[k].page) THEN Descendants(editor[k].page) ELSE {}
  <2>1. Op(k, "delete") /\ editor[k].page \in Pages
    BY <1>6, RequestByOp DEF CommitDeletion, Deletions
  <2>2. Doomed \in SUBSET Pages /\ \A p \in Doomed : Live(p)
    BY <2>1, DescendantsGive
  <2>3. /\ \A j \in Editors, p \in Doomed : ~Locks(j, p) /\ ~KeepsParent(j, p)
        /\ page' = [p \in Pages |-> IF p \in Doomed THEN Deleted ELSE page[p]]
        /\ post' = [p \in Pages |-> IF p \in Doomed THEN NoSlug ELSE post[p]]
        /\ UNCHANGED <<home, text, requests>>
    BY <1>6 DEF CommitDeletion
  <2> HIDE DEF Doomed
  <2>4. text' \in [Pages -> Fates \cup Editors]
    BY <2>3 DEF WikiTypeOK
  <2>5. QED BY <1>3, <1>6, <2>1, <2>2, <2>3, <2>4
<1>7. CASE CutOff(k)
  BY <1>1, <1>3, <1>7 DEF CutOff, Fates
<1>8. QED BY <1>4, <1>5, <1>6, <1>7 DEF Finishes

\* Types are kept.
LEMMA WikiTypes ==
    ASSUME WikiTypeOK, WikiNext
    PROVE  WikiTypeOK'
<1>1. PICK k \in Editors : Begins(k) \/ GoesOn(k) \/ Finishes(k)
  BY StepsOfEditors
<1>2. CASE Begins(k)
  BY <1>2, BeginsGives DEF WikiTypeOK
<1>3. CASE GoesOn(k)
  <2>1. text' \in [Pages -> Fates \cup Editors]
    BY <1>3, GoesOnGives DEF WikiTypeOK
  <2>2. QED BY <1>3, <2>1, GoesOnGives DEF WikiTypeOK
<1>4. CASE Finishes(k)
  <2>1. page' \in [Pages -> PageRow \cup {Unwritten, Deleted}] /\ post' \in [Pages -> Slugs \cup {NoSlug}]
    <3>1. CASE Commit(k) /\ Saving(k) /\ ~Orphan(k)
      <4>1. Op(k, "edit") => Live(editor[k].page)
        BY <3>1 DEF Orphan
      <4>2. RowOf(k) \in PageRow /\ PostOf(k) \in Slugs \cup {NoSlug}
        BY <3>1, <4>1, SaveGives
      <4>3. page' = [page EXCEPT ![editor[k].page] = RowOf(k)] /\ post' = [post EXCEPT ![editor[k].page] = PostOf(k)]
        BY <3>1 DEF Commit
      <4>4. QED BY <4>2, <4>3 DEF WikiTypeOK
    <3>2. CASE \E Lost \in SUBSET Pages :
                       /\ page' = [p \in Pages |-> IF p \in Lost THEN Deleted ELSE page[p]]
                       /\ post' = [p \in Pages |-> IF p \in Lost THEN NoSlug ELSE post[p]]
      BY <3>2 DEF WikiTypeOK
    <3>3. CASE UNCHANGED <<page, post>>
      BY <3>3 DEF WikiTypeOK
    <3>4. QED BY <1>4, <3>1, <3>2, <3>3, FinishesGives
  <2>2. /\ home' = home /\ requests' = requests /\ text' \in [Pages -> Fates \cup Editors]
        /\ editor' \in [Editors -> Creations \cup Edits \cup Deletions \cup {Unused}]
    BY <1>4, FinishesGives
  <2>3. QED BY <2>1, <2>2 DEF WikiTypeOK
<1>5. QED BY <1>1, <1>2, <1>3, <1>4
-----------------------------------------------------------------------------
(* The invariant of the wiki. *)

(* A creation has its page to itself, and no edit is of an unwritten one. *)
BirthsApart ==
    \A k \in Editors :
        /\ Op(k, "create") => /\ page[editor[k].page] = Unwritten
                              /\ \A j \in Editors \ {k} : ~(Op(j, "create") /\ editor[j].page = editor[k].page)
        /\ Op(k, "edit") => page[editor[k].page] # Unwritten

(* The texts of requests that are not done, and that of a new page. *)
Wrote(k, p) ==
    /\ editor[k].page = p
    /\ \/ Op(k, "create") /\ (Reached(k, "stored") \/ Reached(k, "flushed"))
       \/ Op(k, "edit") /\ Reached(k, "stored")

TextsHaveWriters ==
    /\ \A p \in Pages, k \in Editors : text[p] = k => Wrote(k, p)
    /\ \A k \in Editors : Op(k, "create") /\ ~Reached(k, "named") => text[editor[k].page] \in {k, "removed"}

NoAddressYet == \A p \in Pages : page[p] = Unwritten => post[p] = NoSlug

(* uq_wiki_page_project_slug and uq_wiki_public_slug hold of the rows. *)
SlugsDiffer == \A p, q \in Pages : Live(p) /\ Live(q) => ~SameSlug(p, page[p], q, page[q])

(* What was sent stays free of conflicts: who would make one waits. *)
SentFits == \A k \in Editors : Flushed(k) => ~Clashes(k)

(* The slug of a private page that is renamed is nobody else's. *)
Takes(j, p, slug) == (Op(j, "create") \/ NewSlug(j)) /\ editor[j].page \in Neighbours(p) /\ editor[j].slug = slug
RenamesFit ==
    \A k \in Editors : PrivateRename(k) =>
        /\ \A q \in Neighbours(editor[k].page) : Live(q) => page[q].slug # editor[k].slug
        /\ \A j \in Editors \ {k} : ~Takes(j, editor[k].page, editor[k].slug)

(* Nobody publishes a page that is renamed as a private one. *)
RenamesStayPrivate ==
    \A k \in Editors : Renames(k) /\ ~editor[k].public =>
        /\ \A j \in Editors : ~Publishes(j, editor[k].page)
        /\ ~editor[k].toggles /\ Live(editor[k].page) => ~page[editor[k].page].public

WikiInv ==
    /\ WikiTypeOK /\ BirthsApart /\ TextsHaveWriters /\ NoAddressYet /\ SlugsDiffer
    /\ SentFits /\ RenamesFit /\ RenamesStayPrivate /\ ShowsWhatWasSaved

\* A request that does not change is what it was.
LEMMA RequestStays ==
    ASSUME NEW j \in Editors, editor'[j] = editor[j]
    PROVE  /\ Op(j, "create")' <=> Op(j, "create")
           /\ Op(j, "edit")' <=> Op(j, "edit")
           /\ Renames(j)' <=> Renames(j)
           /\ NewSlug(j)' <=> NewSlug(j)
           /\ Flushed(j)' <=> Flushed(j)
           /\ PrivateRename(j)' <=> PrivateRename(j)
           /\ \A p : Wrote(j, p)' <=> Wrote(j, p)
           /\ \A p : Publishes(j, p)' <=> Publishes(j, p)
  BY DEF Op, Renames, NewSlug, Flushed, PrivateRename, Wrote, Publishes, Reached, Saving

\* The row and the address it will write stay too, if those of its page do.
LEMMA SaveStays ==
    ASSUME NEW j \in Editors, editor'[j] = editor[j],
           page'[editor[j].page] = page[editor[j].page], post'[editor[j].page] = post[editor[j].page]
    PROVE  RowOf(j)' = RowOf(j) /\ PostOf(j)' = PostOf(j)
<1>1. NewSlug(j)' <=> NewSlug(j)
  BY RequestStays
<1>2. RowOf(j)' = RowOf(j)
  BY <1>1 DEF RowOf
<1>3. PostOf(j)' = PostOf(j)
  BY DEF PostOf
<1>4. QED BY <1>2, <1>3

\* Whether it clashes depends on the rows and the addresses alone.
LEMMA ClashesStay ==
    ASSUME NEW j \in Editors, UNCHANGED <<home, page, post>>, editor'[j].page = editor[j].page,
           editor'[j].public = editor[j].public, RowOf(j)' = RowOf(j), PostOf(j)' = PostOf(j)
    PROVE  Clashes(j)' <=> Clashes(j)
<1>1. ASSUME NEW q \in Pages
      PROVE  /\ Live(q)' <=> Live(q)
             /\ SameSlug(editor[j].page, RowOf(j), q, page[q])' <=> SameSlug(editor[j].page, RowOf(j), q, page[q])
             /\ SameAddress(j, q, post[q])' <=> SameAddress(j, q, post[q])
  BY DEF Live, SameSlug, SameAddress
<1>2. QED BY <1>1 DEF Clashes

\* Nothing but requests that save has a slug, a row or a text to come.
LEMMA OthersDoNotSave ==
    ASSUME NEW k \in Editors, ~Op(k, "create"), ~Op(k, "edit")
    PROVE  /\ ~Renames(k) /\ ~NewSlug(k) /\ ~Flushed(k) /\ ~PrivateRename(k)
           /\ \A p : ~Wrote(k, p) /\ ~Publishes(k, p)
  BY DEF Renames, NewSlug, Flushed, PrivateRename, Wrote, Publishes, Saving

\* A project's other pages, seen from either side.
LEMMA NeighboursAgree ==
    ASSUME NEW p \in Pages, NEW q \in Pages
    PROVE  q \in Neighbours(p) <=> p \in Neighbours(q)
  BY DEF Neighbours

\* The beginning of a request keeps the invariant.
LEMMA BeginsKeeps ==
    ASSUME ~RacingRenames, WikiInv, NEW k \in Editors, Begins(k)
    PROVE  WikiInv'
<1>1. /\ WikiTypeOK /\ BirthsApart /\ TextsHaveWriters /\ NoAddressYet /\ SlugsDiffer
      /\ SentFits /\ RenamesFit /\ RenamesStayPrivate /\ ShowsWhatWasSaved
  BY DEF WikiInv
<1>2. /\ editor[k] = Unused /\ UNCHANGED <<home, page, text, post>>
      /\ \A j \in Editors \ {k} : editor'[j] = editor[j]
  BY <1>1, BeginsGives
<1>3. WikiTypeOK'
  BY <1>1, StepsOfEditors, WikiTypes
<1>4. ~Op(k, "create") /\ ~Op(k, "edit")
  BY <1>1, <1>2, RequestByOp
<1> DEFINE create == /\ Op(k, "create")' /\ ~Op(k, "edit")' /\ editor'[k].at = "named" /\ editor'[k].page \in Pages
                     /\ page[editor'[k].page] = Unwritten
                     /\ \A j \in Editors : ~(Op(j, "create") /\ editor[j].page = editor'[k].page)
                     /\ TakesTurns(k, editor'[k].page, editor'[k].slug, FALSE)
           edit == /\ Op(k, "edit")' /\ ~Op(k, "create")' /\ editor'[k].at = "loaded" /\ editor'[k].page \in Pages
                   /\ Live(editor'[k].page)
                   /\ editor'[k].toggles = (editor'[k].public # page[editor'[k].page].public)
                   /\ ~Overlaps(editor'[k].page, editor'[k].title, editor'[k].public)
           delete == ~Op(k, "create")' /\ ~Op(k, "edit")'
<1>5. create \/ edit \/ delete
  <2>1. /\ \A r \in Creations : r.op = "create" /\ r.page \in Pages
        /\ \A r \in Edits : r.op = "edit" /\ r.page \in Pages
        /\ \A r \in Deletions : r.op = "delete"
    BY DEF Creations, Edits, Deletions
  <2>2. Op(k, "create")' <=> editor'[k].op = "create"
    BY DEF Op
  <2>3. Op(k, "edit")' <=> editor'[k].op = "edit"
    BY DEF Op
  <2>4. QED BY <1>1, <2>1, <2>2, <2>3, BeginsGives
<1>6. ~Flushed(k)' /\ ~NewSlug(k)' /\ ~PrivateRename(k)' /\ \A p : ~Wrote(k, p)'
  <2>1. CASE create
    BY <2>1 DEF Flushed, NewSlug, PrivateRename, Wrote, Renames, Reached
  <2>2. CASE edit
    BY <2>2 DEF Flushed, NewSlug, PrivateRename, Wrote, Renames, Reached
  <2>3. CASE delete
    BY <2>3 DEF Flushed, NewSlug, PrivateRename, Wrote, Renames, Saving
  <2>4. QED BY <1>5, <2>1, <2>2, <2>3
<1>7. BirthsApart'
  <2>1. \A p \in Pages : Live(p) => page[p] # Unwritten
    BY <1>1, RowByState DEF PageRow, Unwritten, Live
  <2>2. \A j \in Editors \ {k} : /\ Op(j, "create")' <=> Op(j, "create")
                                 /\ Op(j, "edit")' <=> Op(j, "edit")
                                 /\ editor'[j] = editor[j]
    BY <1>2, RequestStays
  <2>3. CASE create
    BY <1>1, <1>2, <2>2, <2>3 DEF BirthsApart
  <2>4. CASE edit
    BY <1>1, <1>2, <2>1, <2>2, <2>4 DEF BirthsApart
  <2>5. CASE delete
    BY <1>1, <1>2, <2>2, <2>5 DEF BirthsApart
  <2>6. QED BY <1>5, <2>3, <2>4, <2>5
<1>8. TextsHaveWriters'
  <2>1. ASSUME NEW p \in Pages, NEW j \in Editors, text[p] = j PROVE Wrote(j, p)'
    <3>1. Wrote(j, p) /\ j # k
      BY <1>1, <1>4, <2>1, OthersDoNotSave DEF TextsHaveWriters
    <3>2. QED BY <1>2, <3>1, RequestStays
  <2>2. ASSUME NEW j \in Editors, Op(j, "create")', ~Reached(j, "named")'
        PROVE  text[editor'[j].page] \in {j, "removed"}
    <3>1. j # k
      BY <1>5, <2>2 DEF Reached
    <3>2. Op(j, "create") /\ ~Reached(j, "named") /\ editor'[j] = editor[j]
      BY <1>2, <2>2, <3>1, RequestStays DEF Reached
    <3>3. QED BY <1>1, <3>2 DEF TextsHaveWriters
  <2>3. QED BY <1>2, <2>1, <2>2 DEF TextsHaveWriters
<1>9. NoAddressYet' /\ ShowsWhatWasSaved' /\ SlugsDiffer'
  BY <1>1, <1>2 DEF NoAddressYet, ShowsWhatWasSaved, SlugsDiffer, Live, SameSlug
<1>10. SentFits'
  <2> SUFFICES ASSUME NEW j \in Editors, Flushed(j)' PROVE ~Clashes(j)'
    BY DEF SentFits
  <2>1. j # k /\ editor'[j] = editor[j]
    BY <1>2, <1>6
  <2>2. Flushed(j) /\ RowOf(j)' = RowOf(j) /\ PostOf(j)' = PostOf(j)
    BY <1>2, <2>1, RequestStays, SaveStays
  <2>3. QED BY <1>1, <1>2, <2>1, <2>2, ClashesStay DEF SentFits
<1>11. RenamesFit'
  <2> SUFFICES ASSUME NEW i \in Editors, PrivateRename(i)'
               PROVE  /\ \A q \in Neighbours(editor[i].page)' : Live(q)' => page'[q].slug # editor'[i].slug
                      /\ \A j \in Editors \ {i} : ~Takes(j, editor[i].page, editor[i].slug)'
    BY DEF RenamesFit
  <2>1. i # k /\ editor'[i] = editor[i]
    BY <1>2, <1>6
  <2>2. PrivateRename(i) /\ Op(i, "edit") /\ NewSlug(i)
    BY <2>1, RequestStays DEF PrivateRename, NewSlug, Renames
  <2>3. \A p : Neighbours(p)' = Neighbours(p)
    BY <1>2 DEF Neighbours
  <2>4. \A q \in Neighbours(editor[i].page)' : Live(q)' => page'[q].slug # editor'[i].slug
    BY <1>1, <1>2, <2>1, <2>2, <2>3 DEF RenamesFit, Live
  <2>5. ASSUME NEW j \in Editors \ {i, k}, Takes(j, editor[i].page, editor[i].slug)' PROVE FALSE
    <3>1. Takes(j, editor[i].page, editor[i].slug)
      BY <1>2, <2>1, <2>3, <2>5, RequestStays DEF Takes
    <3>2. QED BY <1>1, <2>2, <3>1 DEF RenamesFit
  <2>6. ASSUME Takes(k, editor[i].page, editor[i].slug)' PROVE FALSE
    <3>1. Op(k, "create")' /\ editor'[k].page \in Neighbours(editor[i].page) /\ editor'[k].slug = editor[i].slug
      BY <1>6, <2>1, <2>3, <2>6 DEF Takes
    <3>2. TakesTurns(k, editor'[k].page, editor'[k].slug, FALSE) /\ editor'[k].page \in Pages
      BY <1>5, <3>1
    <3>3. editor[i].page \in Pages
      BY <1>1, <2>2, RequestByOp DEF Edits
    <3>4. editor[i].page \in Neighbours(editor'[k].page)
      BY <3>1, <3>2, <3>3, NeighboursAgree
    <3>5. QED BY <2>1, <2>2, <3>1, <3>2, <3>4 DEF TakesTurns
  <2>7. QED BY <2>4, <2>5, <2>6
<1>12. RenamesStayPrivate'
  <2> SUFFICES ASSUME NEW i \in Editors, Renames(i)', ~editor'[i].public
               PROVE  /\ \A j \in Editors : ~Publishes(j, editor[i].page)'
                      /\ ~editor'[i].toggles /\ Live(editor[i].page)' => ~page'[editor'[i].page].public
    BY DEF RenamesStayPrivate
  <2>1. CASE i = k
    <3>1. edit /\ editor'[k].title # Same
      BY <1>5, <2>1 DEF Renames
    <3>2. \A j \in Editors \ {k} : ~Publishes(j, editor[i].page)'
      BY <1>2, <2>1, <3>1, RequestStays DEF Overlaps, Publishes
    <3>3. ~Publishes(k, editor[i].page)'
      BY <2>1 DEF Publishes
    <3>4. ~editor'[i].toggles => ~page'[editor'[i].page].public
      BY <1>2, <2>1, <3>1
    <3>5. QED BY <3>2, <3>3, <3>4
  <2>2. CASE i # k
    <3>1. editor'[i] = editor[i] /\ Renames(i)
      BY <1>2, <2>2, RequestStays
    <3>2. \A j \in Editors \ {k} : ~Publishes(j, editor[i].page)'
      BY <1>1, <1>2, <3>1, RequestStays DEF RenamesStayPrivate, Publishes
    <3>3. ASSUME Publishes(k, editor[i].page)' PROVE FALSE
      <4>1. edit /\ editor'[k].page = editor[i].page /\ editor'[k].public /\ editor'[k].toggles
        BY <1>5, <3>1, <3>3 DEF Publishes
      <4>2. ~page[editor'[k].page].public
        BY <4>1
      <4>3. QED BY <3>1, <4>1, <4>2 DEF Overlaps
    <3>4. ~editor'[i].toggles /\ Live(editor[i].page)' => ~page'[editor'[i].page].public
      BY <1>1, <1>2, <3>1 DEF RenamesStayPrivate, Live
    <3>5. QED BY <3>2, <3>3, <3>4
  <2>3. QED BY <2>1, <2>2
<1>13. QED BY <1>3, <1>7, <1>8, <1>9, <1>10, <1>11, <1>12 DEF WikiInv

\* What each of these steps does.
LEMMA MiddleGives ==
    ASSUME WikiTypeOK, NEW k \in Editors
    PROVE  /\ FindSlug(k) => editor'[k].at = "named" /\ text' = text /\ Op(k, "edit") /\ Reached(k, "loaded")
                             /\ editor'[k].slug = FreeSlug(editor[k].page, editor[k].title)
                             /\ editor[k].title \in Titles
           /\ Flush(k) => editor'[k].at = "flushed" /\ text' = text /\ Saving(k) /\ editor'[k].slug = editor[k].slug
           /\ Store(k) => editor'[k].at = "stored" /\ text' = [text EXCEPT ![editor[k].page] = k] /\ Saving(k)
                          /\ editor'[k].slug = editor[k].slug
           /\ RemoveTexts(k) => /\ Op(k, "delete") /\ ~Op(k, "create") /\ ~Op(k, "edit")
                                /\ \A p \in Pages : text'[p] \in {text[p], "removed"}
<1>1. FindSlug(k) => editor'[k].at = "named" /\ text' = text /\ Op(k, "edit") /\ Reached(k, "loaded")
                     /\ editor'[k].slug = FreeSlug(editor[k].page, editor[k].title)
                     /\ editor[k].title \in Titles
  BY RequestByOp DEF FindSlug, WikiTypeOK, Renames, Edits
<1>2. Flush(k) => editor'[k].at = "flushed" /\ text' = text /\ Saving(k)
  BY RequestByOp DEF Flush, Goto, WikiTypeOK, Creations, Edits, Saving
<1>3. Store(k) => editor'[k].at = "stored" /\ text' = [text EXCEPT ![editor[k].page] = k] /\ Saving(k)
  BY RequestByOp DEF Store, Goto, WikiTypeOK, Creations, Edits, Saving
<1>4. RemoveTexts(k) => /\ Op(k, "delete") /\ ~Op(k, "create") /\ ~Op(k, "edit")
                        /\ \A p \in Pages : text'[p] \in {text[p], "removed"}
  BY DEF RemoveTexts, Op
<1>5. (Flush(k) \/ Store(k)) /\ Saving(k) => editor'[k].slug = editor[k].slug
  BY RequestByOp DEF Flush, Store, Goto, WikiTypeOK, Creations, Edits, Saving
<1>6. QED BY <1>1, <1>2, <1>3, <1>4, <1>5

\* A save that was named keeps what it will write.
LEMMA GoingOnWrites ==
    ASSUME WikiTypeOK, NEW k \in Editors, Flush(k) \/ Store(k)
    PROVE  /\ NewSlug(k)' <=> NewSlug(k)
           /\ PrivateRename(k)' <=> PrivateRename(k)
           /\ RowOf(k)' = RowOf(k) /\ PostOf(k)' = PostOf(k)
<1>1. /\ UNCHANGED <<home, page, post>>
      /\ editor'[k].op = editor[k].op /\ editor'[k].page = editor[k].page
      /\ editor'[k].slug = editor[k].slug
      /\ editor'[k].at \in {"flushed", "stored"}
  BY GoesOnGives, MiddleGives DEF GoesOn
<1>2. Saving(k)
  BY DEF Flush, Store, Saving
<1>3. /\ editor'[k].public = editor[k].public
      /\ Op(k, "edit") => editor'[k].title = editor[k].title /\ editor'[k].toggles = editor[k].toggles
  BY <1>2, GoesOnGives DEF GoesOn
<1>4. CASE Op(k, "create")
  <2>1. editor[k] \in Creations /\ editor[k].op = "create"
    BY <1>4, RequestByOp DEF Op
  <2>2. ~NewSlug(k) /\ ~NewSlug(k)'
    BY <1>1, <2>1 DEF NewSlug, Renames, Op
  <2>3. editor'[k].parent = editor[k].parent
    <3>1. \E stage : editor' = [editor EXCEPT ![k].at = stage]
      BY DEF Flush, Store, Goto
    <3>2. QED BY <2>1, <3>1 DEF Creations, WikiTypeOK
  <2>4. RowOf(k)' = RowOf(k)
    BY <1>1, <1>3, <2>1, <2>3 DEF RowOf
  <2>5. QED BY <1>1, <1>3, <2>2, <2>4 DEF PrivateRename, PostOf
<1>5. CASE Op(k, "edit")
  <2>1. editor[k].op = "edit"
    BY <1>5 DEF Op
  <2>2. Renames(k)' <=> Renames(k)
    BY <1>1, <1>3, <1>5 DEF Renames, Op
  <2>3. Renames(k) => ~Reached(k, "loaded")
    BY <1>5, <2>1 DEF Flush, Flushes, Store, Named, Reached, Op
  <2>4. NewSlug(k)' <=> NewSlug(k)
    BY <1>1, <2>2, <2>3 DEF NewSlug, Reached
  <2>5. RowOf(k)' = RowOf(k)
    BY <1>1, <1>3, <1>5, <2>1, <2>4 DEF RowOf
  <2>6. QED BY <1>1, <1>3, <2>4, <2>5 DEF PrivateRename, PostOf
<1>6. QED BY <1>2, <1>4, <1>5 DEF Saving

\* The names of requests are no marks of a text.
LEMMA EditorsAreNoFates == \A k \in Editors : k \notin Fates
  BY WikiAssumption DEF Fates

\* A step in the middle of a request keeps the invariant.
LEMMA GoesOnKeeps ==
    ASSUME ~RacingRenames, WikiInv, NEW k \in Editors, GoesOn(k)
    PROVE  WikiInv'
<1>1. /\ WikiTypeOK /\ BirthsApart /\ TextsHaveWriters /\ NoAddressYet /\ SlugsDiffer
      /\ SentFits /\ RenamesFit /\ RenamesStayPrivate /\ ShowsWhatWasSaved
  BY DEF WikiInv
<1>2. /\ UNCHANGED <<home, page, post>>
      /\ \A j \in Editors \ {k} : editor'[j] = editor[j]
      /\ editor'[k].op = editor[k].op /\ editor'[k].page = editor[k].page
  BY <1>1, GoesOnGives
<1>3. WikiTypeOK'
  BY <1>1, StepsOfEditors, WikiTypes
<1>4. /\ Saving(k) => editor'[k].public = editor[k].public
      /\ Op(k, "edit") => editor'[k].title = editor[k].title /\ editor'[k].toggles = editor[k].toggles
  BY <1>1, GoesOnGives
<1>5. /\ FindSlug(k) => editor'[k].at = "named" /\ text' = text /\ Op(k, "edit") /\ Reached(k, "loaded")
                        /\ editor'[k].slug = FreeSlug(editor[k].page, editor[k].title)
                        /\ editor[k].title \in Titles
      /\ Flush(k) => editor'[k].at = "flushed" /\ text' = text /\ Saving(k) /\ editor'[k].slug = editor[k].slug
      /\ Store(k) => editor'[k].at = "stored" /\ text' = [text EXCEPT ![editor[k].page] = k] /\ Saving(k)
                     /\ editor'[k].slug = editor[k].slug
      /\ RemoveTexts(k) => /\ Op(k, "delete") /\ ~Op(k, "create") /\ ~Op(k, "edit")
                           /\ \A p \in Pages : text'[p] \in {text[p], "removed"}
  BY <1>1, MiddleGives
<1>6. /\ Op(k, "create")' <=> Op(k, "create")
      /\ Op(k, "edit")' <=> Op(k, "edit")
      /\ Op(k, "create") => ~Op(k, "edit")
      /\ Saving(k) => Renames(k)' = Renames(k)
      /\ Saving(k) => editor[k].page \in Pages
  BY <1>1, <1>2, <1>4, RequestByOp DEF Op, Renames, Saving, Creations, Edits
<1>7. BirthsApart'
  <2>1. \A j \in Editors : /\ Op(j, "create")' <=> Op(j, "create")
                           /\ Op(j, "edit")' <=> Op(j, "edit")
                           /\ editor'[j].page = editor[j].page
    BY <1>2, <1>6, RequestStays
  <2>2. QED BY <1>1, <1>2, <2>1 DEF BirthsApart
<1>8. TextsHaveWriters'
  <2>1. ASSUME NEW p \in Pages, NEW j \in Editors, text'[p] = j PROVE Wrote(j, p)'
    <3>2. CASE Store(k) /\ p = editor[k].page
      <4>1. j = k
        BY <1>1, <1>5, <2>1, <3>2 DEF WikiTypeOK
      <4>2. Wrote(k, p)'
        BY <1>2, <1>5, <1>6, <3>2 DEF Wrote, Reached, Saving
      <4>3. QED BY <4>1, <4>2
    <3>3. CASE ~(Store(k) /\ p = editor[k].page)
      <4>1. text[p] = j
        <5>1. j # "removed"
          BY EditorsAreNoFates DEF Fates
        <5>2. QED BY <1>1, <1>5, <2>1, <3>3, <5>1 DEF WikiTypeOK, GoesOn
      <4>2. Wrote(j, p)
        BY <1>1, <4>1 DEF TextsHaveWriters
      <4>3. CASE j # k
        BY <1>2, <4>2, <4>3, RequestStays
      <4>4. CASE j = k
        <5>1. editor[k].page = p /\ (Op(k, "create") \/ (Op(k, "edit") /\ Reached(k, "stored"))) /\ ~Reached(k, "named")
          BY <4>2, <4>4 DEF Wrote, Reached
        <5>2. Flush(k)
          BY <1>5, <1>6, <3>3, <5>1 DEF GoesOn, Reached
        <5>3. Op(k, "create")
          BY <5>1, <5>2 DEF Flush, Flushes, Named, Reached
        <5>4. Wrote(k, p)'
          BY <1>2, <1>5, <1>6, <5>1, <5>2, <5>3 DEF Wrote, Reached
        <5>5. QED BY <4>4, <5>4
      <4>5. QED BY <4>3, <4>4
    <3>4. QED BY <3>2, <3>3
  <2>2. ASSUME NEW j \in Editors, Op(j, "create")', ~Reached(j, "named")'
        PROVE  text'[editor'[j].page] \in {j, "removed"}
    <3>1. CASE j = k
      <4>1. Op(k, "create") /\ editor[k].page \in Pages
        BY <1>6, <2>2, <3>1 DEF Saving
      <4>2. CASE Flush(k)
        <5>1. ~Reached(k, "named")
          BY <1>6, <4>1, <4>2 DEF Flush, Flushes, Reached
        <5>2. QED BY <1>1, <1>2, <1>5, <3>1, <4>1, <4>2, <5>1 DEF TextsHaveWriters
      <4>3. CASE Store(k)
        BY <1>1, <1>2, <1>5, <3>1, <4>1, <4>3 DEF WikiTypeOK
      <4>4. QED BY <1>5, <1>6, <4>1, <4>2, <4>3 DEF GoesOn
    <3>2. CASE j # k
      <4>1. editor'[j] = editor[j] /\ Op(j, "create") /\ ~Reached(j, "named") /\ editor[j].page \in Pages
        BY <1>1, <1>2, <2>2, <3>2, RequestStays, RequestByOp DEF Reached, Creations
      <4>2. text[editor[j].page] \in {j, "removed"}
        BY <1>1, <4>1 DEF TextsHaveWriters
      <4>3. Saving(k) => editor[k].page # editor[j].page
        BY <1>1, <3>2, <4>1 DEF BirthsApart, Saving
      <4>4. QED BY <1>1, <1>5, <4>1, <4>2, <4>3 DEF WikiTypeOK, GoesOn
    <3>3. QED BY <3>1, <3>2
  <2>3. QED BY <2>1, <2>2 DEF TextsHaveWriters
<1>9. NoAddressYet' /\ SlugsDiffer'
  BY <1>1, <1>2 DEF NoAddressYet, SlugsDiffer, Live, SameSlug
<1>10. SentFits'
  <2> SUFFICES ASSUME NEW j \in Editors, Flushed(j)' PROVE ~Clashes(j)'
    BY DEF SentFits
  <2>1. CASE j # k
    <3>1. Flushed(j) /\ RowOf(j)' = RowOf(j) /\ PostOf(j)' = PostOf(j) /\ editor'[j] = editor[j]
      BY <1>2, <2>1, RequestStays, SaveStays
    <3>2. QED BY <1>1, <1>2, <3>1, ClashesStay DEF SentFits
  <2>2. CASE j = k
    <3>1. Flush(k) \/ Store(k)
      BY <1>5, <1>6, <2>2 DEF Flushed, Saving, Reached, GoesOn
    <3>2. ~Clashes(k)
      <4>1. CASE Flush(k)
        BY <4>1 DEF Flush
      <4>2. CASE Store(k)
        <5>1. editor'[k].at = "stored" /\ editor'[k].public /\ Op(k, "edit")
          BY <1>5, <1>6, <2>2, <4>2 DEF Flushed, Reached, Saving
        <5>2. editor[k].public /\ Saving(k)
          BY <1>4, <5>1 DEF Saving
        <5>3. Reached(k, "flushed")
          BY <1>6, <4>2, <5>1, <5>2 DEF Store
        <5>4. Flushed(k)
          BY <5>1, <5>2, <5>3 DEF Flushed
        <5>5. QED BY <1>1, <5>4 DEF SentFits
      <4>3. QED BY <3>1, <4>1, <4>2
    <3>3. QED BY <1>1, <1>2, <1>4, <1>5, <2>2, <3>1, <3>2, GoingOnWrites, ClashesStay
  <2>3. QED BY <2>1, <2>2
<1>11. RenamesFit'
  <2> SUFFICES ASSUME NEW i \in Editors, PrivateRename(i)'
               PROVE  /\ \A q \in Neighbours(editor[i].page)' : Live(q)' => page'[q].slug # editor'[i].slug
                      /\ \A j \in Editors \ {i} : ~Takes(j, editor[i].page, editor[i].slug)'
    BY DEF RenamesFit
  <2>1. \A p : Neighbours(p)' = Neighbours(p)
    BY <1>2 DEF Neighbours
  <2>2. CASE FindSlug(k)
    <3>1. /\ TakesTurns(k, editor[k].page, editor'[k].slug, ~editor[k].public)
          /\ editor[k].page \in Pages /\ NewSlug(k)'
      BY <1>5, <1>6, <2>2 DEF FindSlug, Saving, NewSlug, Reached
    <3>2. CASE i = k
      <4>1. ~editor[k].public
        BY <1>4, <1>5, <2>2, <3>2 DEF PrivateRename, Saving
      <4>2. \A q \in Neighbours(editor[k].page) : Live(q) => page[q].slug # editor'[k].slug
        BY <1>1, <1>5, <2>2, <3>1, FreeSlugGives
      <4>3. ASSUME NEW j \in Editors \ {k}, Takes(j, editor[k].page, editor[k].slug)' PROVE FALSE
        <5>1. Takes(j, editor[k].page, editor'[k].slug)
          BY <1>2, <2>1, <4>3, RequestStays DEF Takes
        <5>2. QED BY <3>1, <4>1, <5>1 DEF Takes, TakesTurns
      <4>4. QED BY <1>2, <2>1, <3>2, <4>2, <4>3 DEF Live
    <3>3. CASE i # k
      <4>1. editor'[i] = editor[i] /\ PrivateRename(i) /\ NewSlug(i) /\ editor[i].page \in Pages
        BY <1>1, <1>2, <3>3, RequestStays, RequestByOp DEF PrivateRename, NewSlug, Renames, Edits
      <4>2. \A q \in Neighbours(editor[i].page) : Live(q) => page[q].slug # editor[i].slug
        BY <1>1, <4>1 DEF RenamesFit
      <4>3. ASSUME NEW j \in Editors \ {i, k}, Takes(j, editor[i].page, editor[i].slug)' PROVE FALSE
        <5>1. Takes(j, editor[i].page, editor[i].slug)
          BY <1>2, <2>1, <4>1, <4>3, RequestStays DEF Takes
        <5>2. QED BY <1>1, <4>1, <5>1 DEF RenamesFit
      <4>4. ASSUME Takes(k, editor[i].page, editor[i].slug)' PROVE FALSE
        <5>1. editor[k].page \in Neighbours(editor[i].page) /\ editor'[k].slug = editor[i].slug
          BY <1>2, <2>1, <4>1, <4>4 DEF Takes
        <5>2. editor[i].page \in Neighbours(editor[k].page)
          BY <3>1, <4>1, <5>1, NeighboursAgree
        <5>3. QED BY <3>1, <3>3, <4>1, <5>1, <5>2 DEF TakesTurns
      <4>5. QED BY <1>2, <2>1, <4>1, <4>2, <4>3, <4>4 DEF Live
    <3>4. QED BY <3>2, <3>3
  <2>3. CASE Flush(k) \/ Store(k) \/ RemoveTexts(k)
    <3>1. /\ NewSlug(k)' <=> NewSlug(k)
          /\ PrivateRename(k)' <=> PrivateRename(k)
          /\ NewSlug(k) \/ Op(k, "create") => editor'[k].slug = editor[k].slug
      <4>1. CASE Flush(k) \/ Store(k)
        BY <1>1, <1>5, <4>1, GoingOnWrites
      <4>2. CASE RemoveTexts(k)
        BY <1>5, <1>6, <4>2 DEF PrivateRename, NewSlug, Renames
      <4>3. QED BY <2>3, <4>1, <4>2
    <3>2. PrivateRename(i) /\ editor'[i].slug = editor[i].slug /\ editor'[i].page = editor[i].page
      BY <1>2, <3>1, RequestStays DEF PrivateRename
    <3>3. ASSUME NEW j \in Editors, Takes(j, editor[i].page, editor[i].slug)'
          PROVE  Takes(j, editor[i].page, editor[i].slug)
      <4>1. CASE j = k
        BY <1>2, <1>6, <2>1, <3>1, <3>2, <3>3, <4>1 DEF Takes
      <4>2. CASE j # k
        BY <1>2, <2>1, <3>2, <3>3, <4>2, RequestStays DEF Takes
      <4>3. QED BY <4>1, <4>2
    <3>4. QED BY <1>1, <1>2, <2>1, <3>2, <3>3 DEF RenamesFit, Live
  <2>4. QED BY <2>2, <2>3 DEF GoesOn
<1>12. RenamesStayPrivate'
  <2> SUFFICES ASSUME NEW i \in Editors, Renames(i)', ~editor'[i].public
               PROVE  /\ \A j \in Editors : ~Publishes(j, editor[i].page)'
                      /\ ~editor'[i].toggles /\ Live(editor[i].page)' => ~page'[editor'[i].page].public
    BY DEF RenamesStayPrivate
  <2>1. \A j \in Editors : Op(j, "edit")' => Op(j, "edit") /\ editor'[j].page = editor[j].page
                                             /\ editor'[j].public = editor[j].public
                                             /\ editor'[j].toggles = editor[j].toggles
                                             /\ editor'[j].title = editor[j].title
    BY <1>2, <1>4, <1>6, RequestStays DEF Saving
  <2>2. Renames(i) /\ ~editor[i].public /\ editor'[i].page = editor[i].page /\ editor'[i].toggles = editor[i].toggles
    BY <2>1 DEF Renames
  <2>3. \A j \in Editors : Publishes(j, editor[i].page)' => Publishes(j, editor[i].page)
    BY <2>1, <2>2 DEF Publishes
  <2>4. QED BY <1>1, <1>2, <2>2, <2>3 DEF RenamesStayPrivate, Live
<1>13. ShowsWhatWasSaved'
  <2> SUFFICES ASSUME NEW p \in Pages, Live(p)' PROVE text'[p] \notin {"missing", "refused"}
    BY DEF ShowsWhatWasSaved
  <2>1. text[p] \notin {"missing", "refused"}
    BY <1>1, <1>2 DEF ShowsWhatWasSaved, Live
  <2>2. text'[p] \in {text[p], k, "removed"}
    BY <1>1, <1>5 DEF GoesOn, WikiTypeOK
  <2>3. k \notin {"missing", "refused"}
    BY EditorsAreNoFates DEF Fates
  <2>4. QED BY <2>1, <2>2, <2>3
<1>14. QED BY <1>3, <1>7, <1>8, <1>9, <1>10, <1>11, <1>12, <1>13 DEF WikiInv

\* An edit that stored its text cannot be refused any more, but for its page.
LEMMA StoredEditFits ==
    ASSUME WikiInv, NEW k \in Editors, Op(k, "edit"), Reached(k, "stored"), Live(editor[k].page)
    PROVE  ~Clashes(k)
<1>1. /\ WikiTypeOK /\ SlugsDiffer /\ SentFits /\ RenamesFit /\ RenamesStayPrivate
  BY DEF WikiInv
<1>2. /\ editor[k] \in Edits /\ editor[k].op = "edit" /\ editor[k].page \in Pages
      /\ page[editor[k].page] \in PageRow
  BY <1>1, RequestByOp, RowByState DEF Op, Edits
<1>3. CASE editor[k].public
  BY <1>1, <1>3 DEF SentFits, Flushed, Saving
<1>4. CASE ~editor[k].public
  <2> SUFFICES ASSUME NEW q \in Pages, Live(q), SameSlug(editor[k].page, RowOf(k), q, page[q]) PROVE FALSE
    BY <1>4 DEF Clashes, SameAddress
  <2>1. /\ RowOf(k).slug = IF NewSlug(k) THEN editor[k].slug ELSE page[editor[k].page].slug
        /\ RowOf(k).public = IF editor[k].toggles THEN FALSE ELSE page[editor[k].page].public
    BY <1>2, <1>4 DEF RowOf, PageRow, Edits
  <2>2. CASE ~NewSlug(k)
    <3>1. SameSlug(editor[k].page, page[editor[k].page], q, page[q])
      BY <2>1, <2>2 DEF SameSlug
    <3>2. QED BY <1>1, <1>2, <3>1 DEF SlugsDiffer
  <2>3. CASE NewSlug(k)
    <3>1. ~RowOf(k).public
      BY <1>1, <1>4, <2>1, <2>3 DEF RenamesStayPrivate, NewSlug
    <3>2. q \in Neighbours(editor[k].page) /\ page[q].slug = editor[k].slug
      BY <2>1, <2>3, <3>1 DEF SameSlug, Neighbours
    <3>3. QED BY <1>1, <1>4, <2>3, <3>2 DEF RenamesFit, PrivateRename
  <2>4. QED BY <2>2, <2>3
<1>5. QED BY <1>3, <1>4

\* What the end of a request makes of a page.
LEMMA FinishedPages ==
    ASSUME WikiTypeOK, NEW k \in Editors, Finishes(k), NEW p \in Pages
    PROVE  \/ page'[p] = page[p] /\ post'[p] = post[p]
           \/ /\ Commit(k) /\ Saving(k) /\ Ready(k) /\ ~Orphan(k) /\ ~Waits(k) /\ ~Clashes(k)
              /\ p = editor[k].page /\ page'[p] = RowOf(k) /\ post'[p] = PostOf(k)
           \/ /\ CommitDeletion(k) /\ Live(p) /\ page'[p] = Deleted
              /\ \A j \in Editors : ~Locks(j, p)
<1>1. CASE UNCHANGED <<page, post>>
  BY <1>1
<1>2. CASE /\ Commit(k) /\ Saving(k) /\ Ready(k) /\ ~Orphan(k) /\ ~Waits(k) /\ ~Clashes(k)
           /\ page' = [page EXCEPT ![editor[k].page] = RowOf(k)]
           /\ post' = [post EXCEPT ![editor[k].page] = PostOf(k)]
  BY <1>2 DEF WikiTypeOK
<1>3. CASE /\ CommitDeletion(k)
           /\ \E Lost \in SUBSET Pages :
                 /\ \A q \in Lost : Live(q) /\ \A j \in Editors : ~Locks(j, q) /\ ~KeepsParent(j, q)
                 /\ page' = [q \in Pages |-> IF q \in Lost THEN Deleted ELSE page[q]]
                 /\ post' = [q \in Pages |-> IF q \in Lost THEN NoSlug ELSE post[q]]
  BY <1>3
<1>4. QED BY <1>1, <1>2, <1>3, FinishesGives

\* What a save that is not waiting leaves to the others.
LEMMA NotWaiting ==
    ASSUME NEW k \in Editors, ~Waits(k), NEW j \in Editors \ {k}, Flushed(j)
    PROVE  /\ ~Locks(j, editor[k].page)
           /\ ~SameSlug(editor[k].page, RowOf(k), editor[j].page, RowOf(j))
           /\ ~SameAddress(k, editor[j].page, PostOf(j))
  BY DEF Waits

\* The slug of a saved row.
LEMMA SavedRow ==
    ASSUME WikiTypeOK, NEW k \in Editors, Saving(k), ~Orphan(k)
    PROVE  /\ RowOf(k) \in PageRow /\ RowOf(k) # Unwritten /\ RowOf(k).state = "live"
           /\ Op(k, "create") \/ NewSlug(k) => RowOf(k).slug = editor[k].slug
           /\ ~Op(k, "create") => Live(editor[k].page) /\ Op(k, "edit")
           /\ Op(k, "edit") =>
                 /\ ~NewSlug(k) => RowOf(k).slug = page[editor[k].page].slug
                 /\ RowOf(k).public = IF editor[k].toggles THEN editor[k].public ELSE page[editor[k].page].public
           /\ editor[k].page \in Pages
<1>1. ~Op(k, "create") => Live(editor[k].page) /\ Op(k, "edit")
  BY DEF Saving, Orphan
<1>2. Op(k, "edit") => Live(editor[k].page)
  BY DEF Orphan
<1>3. RowOf(k) \in PageRow /\ editor[k].page \in Pages
  BY <1>2, SaveGives
<1>4. RowOf(k) # Unwritten /\ RowOf(k).state = "live"
  BY <1>3 DEF PageRow, Unwritten
<1>5. Op(k, "create") => RowOf(k).slug = editor[k].slug
  BY DEF RowOf, Op
<1>6. CASE Op(k, "edit")
  <2>1. /\ editor[k].op = "edit" /\ page[editor[k].page] \in PageRow
    BY <1>2, <1>3, <1>6, RowByState DEF Op
  <2>2. /\ RowOf(k).slug = IF NewSlug(k) THEN editor[k].slug ELSE page[editor[k].page].slug
        /\ RowOf(k).public = IF editor[k].toggles THEN editor[k].public ELSE page[editor[k].page].public
    BY <2>1 DEF RowOf, PageRow
  <2>3. QED BY <1>1, <1>3, <1>4, <1>5, <2>2
<1>7. CASE ~Op(k, "edit")
  BY <1>1, <1>3, <1>4, <1>5, <1>7 DEF NewSlug, Renames
<1>8. QED BY <1>6, <1>7

\* Two requests save different pages, unless both edit.
LEMMA SavesApart ==
    ASSUME WikiTypeOK, BirthsApart, NEW k \in Editors, NEW j \in Editors \ {k}, Saving(k), Saving(j),
           editor[k].page = editor[j].page
    PROVE  Op(k, "edit") /\ Op(j, "edit")
  BY DEF BirthsApart, Saving

\* What was sent still fits when another request ends.
LEMMA FinishesFitting ==
    ASSUME WikiInv, NEW k \in Editors, Finishes(k), NEW j \in Editors \ {k}, Flushed(j)
    PROVE  ~Clashes(j)'
<1>1. WikiTypeOK /\ BirthsApart /\ NoAddressYet /\ SentFits
  BY DEF WikiInv
<1>2. /\ UNCHANGED home /\ editor'[j] = editor[j]
  BY <1>1, FinishesGives
<1>3. Saving(j) /\ editor[j].page \in Pages /\ ~Clashes(j) /\ editor[j].public
  BY <1>1, RequestByOp DEF Flushed, SentFits, Saving, Creations, Edits
<1>4. Op(j, "edit") => Locks(j, editor[j].page)
  BY DEF Locks
<1>5. Op(j, "create") => ~Live(editor[j].page)
  BY <1>1 DEF BirthsApart, Live, Unwritten
<1>6. page'[editor[j].page] = page[editor[j].page] /\ post'[editor[j].page] = post[editor[j].page]
  <2>1. ASSUME Saving(k), ~Waits(k), editor[j].page = editor[k].page PROVE FALSE
    <3>1. Op(j, "edit")
      BY <1>1, <1>3, <2>1, SavesApart
    <3>2. QED BY <1>4, <2>1, <3>1, NotWaiting
  <2>2. ASSUME Live(editor[j].page), \A i \in Editors : ~Locks(i, editor[j].page) PROVE FALSE
    BY <1>3, <1>4, <1>5, <2>2 DEF Saving
  <2>3. QED BY <1>1, <1>3, <2>1, <2>2, FinishedPages
<1>7. RowOf(j)' = RowOf(j) /\ PostOf(j)' = PostOf(j)
  BY <1>2, <1>6, SaveStays
<1> SUFFICES ASSUME NEW q \in Pages, Live(q)',
                    \/ SameSlug(editor[j].page, RowOf(j), q, page[q])'
                    \/ SameAddress(j, q, post[q])'
             PROVE  FALSE
  BY DEF Clashes
<1>8. \/ SameSlug(editor[j].page, RowOf(j), q, page'[q])
      \/ SameAddress(j, q, post'[q])
  BY <1>2, <1>7 DEF SameSlug, SameAddress
<1>9. CASE page'[q] = page[q] /\ post'[q] = post[q]
  BY <1>3, <1>8, <1>9 DEF Clashes, Live
<1>10. CASE page'[q] = Deleted
  BY <1>10 DEF Live, Deleted
<1>11. CASE /\ Saving(k) /\ ~Orphan(k) /\ ~Waits(k)
            /\ q = editor[k].page /\ page'[q] = RowOf(k) /\ post'[q] = PostOf(k)
  <2>1. ~SameSlug(editor[j].page, RowOf(j), q, RowOf(k))
    BY <1>11, NotWaiting DEF SameSlug
  <2>2. SameAddress(j, q, PostOf(k))
    BY <1>8, <1>11, <2>1
  <2>3. CASE editor[k].public
    <3>1. SameAddress(k, editor[j].page, PostOf(j))
      BY <1>11, <2>2, <2>3 DEF SameAddress
    <3>2. QED BY <1>11, <3>1, NotWaiting
  <2>4. CASE ~editor[k].public
    <3>1. PostOf(k) = post[q]
      BY <1>11, <2>4 DEF PostOf
    <3>2. ~Live(q)
      BY <1>3, <2>2, <3>1 DEF Clashes
    <3>3. Op(k, "create")
      BY <1>1, <1>11, <3>2, SavedRow
    <3>4. post[q] = NoSlug
      BY <1>1, <1>11, <3>3 DEF BirthsApart, NoAddressYet
    <3>5. QED BY <2>2, <3>1, <3>4 DEF SameAddress
  <2>5. QED BY <2>3, <2>4
<1>12. QED BY <1>1, <1>9, <1>10, <1>11, FinishedPages

\* The end of a request keeps the invariant.
LEMMA FinishesKeeps ==
    ASSUME WikiInv, NEW k \in Editors, Finishes(k)
    PROVE  WikiInv'
<1>1. /\ WikiTypeOK /\ BirthsApart /\ TextsHaveWriters /\ NoAddressYet /\ SlugsDiffer
      /\ SentFits /\ RenamesFit /\ RenamesStayPrivate /\ ShowsWhatWasSaved
  BY DEF WikiInv
<1>2. /\ UNCHANGED home /\ editor'[k] = Unused
      /\ \A j \in Editors \ {k} : editor'[j] = editor[j]
  BY <1>1, FinishesGives
<1>3. WikiTypeOK'
  BY <1>1, StepsOfEditors, WikiTypes
<1>4. ~Op(k, "create")' /\ ~Op(k, "edit")'
  BY <1>2 DEF Op, Unused
<1>5. ~Flushed(k)' /\ ~NewSlug(k)' /\ ~PrivateRename(k)' /\ ~Renames(k)' /\ \A p : ~Wrote(k, p)' /\ ~Publishes(k, p)'
  BY <1>4 DEF Flushed, NewSlug, PrivateRename, Wrote, Renames, Saving, Publishes
<1>6. Unwritten.state = "unborn" /\ Deleted.state = "gone" /\ Deleted # Unwritten
  BY DEF Unwritten, Deleted
<1>7. \A p \in Pages : page'[p] = Unwritten => page[p] = Unwritten /\ post'[p] = post[p]
  BY <1>1, <1>6, FinishedPages, SavedRow
<1>8. BirthsApart'
  <2> SUFFICES ASSUME NEW j \in Editors
               PROVE  /\ Op(j, "create")' => /\ page'[editor'[j].page] = Unwritten
                                             /\ \A i \in Editors \ {j} : ~(Op(i, "create") /\ editor[i].page = editor[j].page)'
                      /\ Op(j, "edit")' => page'[editor'[j].page] # Unwritten
    BY DEF BirthsApart
  <2>1. CASE j = k
    BY <1>4, <2>1
  <2>2. CASE j # k /\ Op(j, "create")
    <3>1. editor'[j] = editor[j] /\ editor[j].page \in Pages /\ page[editor[j].page] = Unwritten /\ ~Op(j, "edit")
      BY <1>1, <1>2, <2>2, RequestByOp DEF BirthsApart, Creations, Op
    <3>2. Saving(k) => editor[k].page # editor[j].page
      BY <1>1, <2>2, <3>1, SavesApart DEF Saving
    <3>3. page'[editor[j].page] = Unwritten
      BY <1>1, <1>6, <3>1, <3>2, FinishedPages DEF Live
    <3>4. \A i \in Editors \ {j} : ~(Op(i, "create") /\ editor[i].page = editor[j].page)'
      BY <1>1, <1>2, <1>4, <2>2, <3>1, RequestStays DEF BirthsApart
    <3>5. QED BY <2>2, <3>1, <3>3, <3>4, RequestStays
  <2>3. CASE j # k /\ ~Op(j, "create")
    <3>1. editor'[j] = editor[j] /\ ~Op(j, "create")'
      BY <1>2, <2>3, RequestStays
    <3>2. ASSUME Op(j, "edit") PROVE page'[editor[j].page] # Unwritten
      <4>1. editor[j].page \in Pages /\ page[editor[j].page] # Unwritten
        BY <1>1, <3>2, RequestByOp DEF BirthsApart, Edits
      <4>2. QED BY <1>7, <4>1
    <3>3. QED BY <3>1, <3>2, RequestStays
  <2>4. QED BY <2>1, <2>2, <2>3
<1>9. \A p \in Pages : \/ text'[p] = text[p] /\ text[p] # k
                       \/ text'[p] \in Fates /\ text[p] = k
                       \/ CommitDeletion(k) /\ text'[p] = text[p]
  BY <1>1, FinishesGives DEF Fates
<1>10. \A p \in Pages : CommitDeletion(k) => text[p] # k
  BY <1>1, RequestByOp DEF CommitDeletion, TextsHaveWriters, Wrote, Op
<1>11. TextsHaveWriters'
  <2>1. ASSUME NEW p \in Pages, NEW j \in Editors, text'[p] = j PROVE Wrote(j, p)'
    <3>1. text[p] = j /\ j # k
      BY <1>9, <1>10, <2>1, EditorsAreNoFates
    <3>2. QED BY <1>1, <1>2, <3>1, RequestStays DEF TextsHaveWriters
  <2>2. ASSUME NEW j \in Editors, Op(j, "create")', ~Reached(j, "named")'
        PROVE  text'[editor'[j].page] \in {j, "removed"}
    <3>1. j # k /\ editor'[j] = editor[j] /\ Op(j, "create") /\ ~Reached(j, "named")
      BY <1>2, <1>4, <2>2, RequestStays DEF Reached
    <3>2. text[editor[j].page] \in {j, "removed"} /\ editor[j].page \in Pages
      BY <1>1, <3>1, RequestByOp DEF TextsHaveWriters, Creations
    <3>3. "removed" # k
      BY EditorsAreNoFates DEF Fates
    <3>4. QED BY <1>9, <1>10, <3>1, <3>2, <3>3
  <2>3. QED BY <2>1, <2>2 DEF TextsHaveWriters
<1>12. NoAddressYet'
  BY <1>1, <1>7 DEF NoAddressYet
<1>13. SlugsDiffer'
  <2> SUFFICES ASSUME NEW p \in Pages, NEW q \in Pages, Live(p)', Live(q)', SameSlug(p, page[p], q, page[q])'
               PROVE  FALSE
    BY DEF SlugsDiffer
  <2>1. SameSlug(p, page'[p], q, page'[q]) /\ p # q
    BY <1>2 DEF SameSlug
  <2>2. page'[p] # Deleted /\ page'[q] # Deleted
    BY <1>6 DEF Live
  <2>3. CASE page'[p] = page[p] /\ page'[q] = page[q]
    BY <1>1, <2>1, <2>3 DEF SlugsDiffer, Live
  <2>4. CASE p = editor[k].page /\ page'[p] = RowOf(k) /\ ~Clashes(k)
    <3>1. page'[q] = page[q]
      BY <1>1, <2>1, <2>2, <2>4, FinishedPages
    <3>2. QED BY <2>1, <2>4, <3>1 DEF Clashes, Live
  <2>5. CASE q = editor[k].page /\ page'[q] = RowOf(k) /\ ~Clashes(k)
    <3>1. page'[p] = page[p]
      BY <1>1, <2>1, <2>2, <2>5, FinishedPages
    <3>2. SameSlug(q, RowOf(k), p, page[p])
      BY <2>1, <2>5, <3>1 DEF SameSlug
    <3>3. QED BY <2>5, <3>1, <3>2 DEF Clashes, Live
  <2>6. QED BY <1>1, <2>2, <2>3, <2>4, <2>5, FinishedPages
<1>14. SentFits'
  <2> SUFFICES ASSUME NEW j \in Editors, Flushed(j)' PROVE ~Clashes(j)'
    BY DEF SentFits
  <2>1. j # k /\ Flushed(j)
    BY <1>2, <1>5, RequestStays
  <2>2. QED BY <2>1, FinishesFitting
<1>15. RenamesFit'
  <2> SUFFICES ASSUME NEW i \in Editors, PrivateRename(i)'
               PROVE  /\ \A q \in Neighbours(editor[i].page)' : Live(q)' => page'[q].slug # editor'[i].slug
                      /\ \A j \in Editors \ {i} : ~Takes(j, editor[i].page, editor[i].slug)'
    BY DEF RenamesFit
  <2>1. \A p : Neighbours(p)' = Neighbours(p)
    BY <1>2 DEF Neighbours
  <2>2. i # k /\ editor'[i] = editor[i] /\ PrivateRename(i)
    BY <1>2, <1>5, RequestStays
  <2>3. ASSUME NEW j \in Editors \ {i}, Takes(j, editor[i].page, editor[i].slug)' PROVE FALSE
    <3>1. j # k /\ Takes(j, editor[i].page, editor[i].slug)
      BY <1>2, <1>4, <1>5, <2>1, <2>2, <2>3, RequestStays DEF Takes
    <3>2. QED BY <1>1, <2>2, <3>1 DEF RenamesFit
  <2>4. ASSUME NEW q \in Neighbours(editor[i].page), Live(q)' PROVE page'[q].slug # editor[i].slug
    <3>1. q \in Pages /\ page'[q] # Deleted
      BY <1>6, <2>4 DEF Neighbours, Live
    <3>2. CASE page'[q] = page[q]
      BY <1>1, <2>2, <2>4, <3>2 DEF RenamesFit, Live
    <3>3. CASE Saving(k) /\ ~Orphan(k) /\ q = editor[k].page /\ page'[q] = RowOf(k)
      <4>1. CASE Op(k, "create") \/ NewSlug(k)
        <5>1. RowOf(k).slug = editor[k].slug
          BY <1>1, <3>3, <4>1, SavedRow
        <5>2. ~Takes(k, editor[i].page, editor[i].slug)
          BY <1>1, <2>2 DEF RenamesFit
        <5>3. QED BY <2>4, <3>3, <4>1, <5>1, <5>2 DEF Takes
      <4>2. CASE ~Op(k, "create") /\ ~NewSlug(k)
        <5>1. RowOf(k).slug = page[q].slug /\ Live(q)
          BY <1>1, <3>3, <4>2, SavedRow
        <5>2. QED BY <1>1, <2>2, <2>4, <3>3, <5>1 DEF RenamesFit
      <4>3. QED BY <4>1, <4>2
    <3>4. QED BY <1>1, <3>1, <3>2, <3>3, FinishedPages
  <2>5. QED BY <2>1, <2>2, <2>3, <2>4
<1>16. RenamesStayPrivate'
  <2> SUFFICES ASSUME NEW i \in Editors, Renames(i)', ~editor'[i].public
               PROVE  /\ \A j \in Editors : ~Publishes(j, editor[i].page)'
                      /\ ~editor'[i].toggles /\ Live(editor[i].page)' => ~page'[editor'[i].page].public
    BY DEF RenamesStayPrivate
  <2>1. i # k /\ editor'[i] = editor[i] /\ Renames(i) /\ Op(i, "edit") /\ editor[i].page \in Pages
    BY <1>1, <1>2, <1>5, RequestStays, RequestByOp DEF Renames, Edits
  <2>2. \A j \in Editors : ~Publishes(j, editor[i].page)
    BY <1>1, <2>1 DEF RenamesStayPrivate
  <2>3. \A j \in Editors : ~Publishes(j, editor[i].page)'
    BY <1>2, <1>5, <2>1, <2>2, RequestStays DEF Publishes
  <2>4. ASSUME ~editor[i].toggles, Live(editor[i].page)' PROVE ~page'[editor[i].page].public
    <3>1. page'[editor[i].page] # Deleted
      BY <1>6, <2>1, <2>4 DEF Live
    <3>2. Live(editor[i].page) => ~page[editor[i].page].public
      BY <1>1, <2>1, <2>4 DEF RenamesStayPrivate
    <3>3. CASE page'[editor[i].page] = page[editor[i].page]
      BY <2>1, <2>4, <3>2, <3>3 DEF Live
    <3>4. CASE Saving(k) /\ ~Orphan(k) /\ editor[i].page = editor[k].page /\ page'[editor[i].page] = RowOf(k)
      <4>1. Op(k, "edit") /\ Live(editor[k].page)
        BY <1>1, <2>1, <3>4, SavesApart DEF Saving, Orphan
      <4>2. RowOf(k).public = IF editor[k].toggles THEN editor[k].public ELSE page[editor[k].page].public
        BY <1>1, <3>4, <4>1, SavedRow
      <4>3. ~(editor[k].toggles /\ editor[k].public)
        BY <2>2, <3>4, <4>1 DEF Publishes
      <4>4. QED BY <3>2, <3>4, <4>1, <4>2, <4>3
    <3>5. QED BY <1>1, <2>1, <3>1, <3>3, <3>4, FinishedPages
  <2>5. QED BY <2>1, <2>3, <2>4
<1>17. ShowsWhatWasSaved'
  <2> SUFFICES ASSUME NEW p \in Pages, Live(p)' PROVE text'[p] \notin {"missing", "refused"}
    BY DEF ShowsWhatWasSaved
  <2>1. page'[p] # Deleted
    BY <1>6 DEF Live
  <2>2. Live(p) => text[p] \notin {"missing", "refused"}
    BY <1>1 DEF ShowsWhatWasSaved
  <2>3. CASE page'[p] = page[p] /\ ~Refuse(k)
    <3>1. text'[p] \in {text[p], "saved", "cut off"}
      BY <1>1, <2>3, FinishesGives
    <3>2. QED BY <2>2, <2>3, <3>1 DEF Live
  <2>4. CASE page'[p] = page[p] /\ Refuse(k)
    <3>1. Live(p)
      BY <2>4 DEF Live
    <3>2. text[p] # k
      <4>1. SUFFICES ASSUME text[p] = k PROVE FALSE
        OBVIOUS
      <4>2. Wrote(k, p)
        BY <1>1, <4>1 DEF TextsHaveWriters
      <4>3. editor[k].page = p /\ Op(k, "edit") /\ Reached(k, "stored")
        BY <1>1, <1>6, <3>1, <4>2 DEF Wrote, BirthsApart, Live
      <4>4. ~Orphan(k) /\ ~Clashes(k)
        BY <3>1, <4>3, StoredEditFits DEF Orphan
      <4>5. QED BY <2>4, <4>4 DEF Refuse, Refused
    <3>3. text'[p] = text[p]
      BY <2>4, <3>2, EditorsAreNoFates DEF Refuse, End
    <3>4. QED BY <2>2, <3>1, <3>3
  <2>5. CASE Commit(k) /\ Saving(k) /\ Ready(k) /\ ~Orphan(k) /\ p = editor[k].page
    <3>1. text'[p] = IF text[p] = k THEN "saved" ELSE text[p]
      BY <2>5 DEF Commit, End
    <3>2. CASE Op(k, "create")
      <4>1. ~Reached(k, "named")
        BY <2>5, <3>2 DEF Ready, Reached, Op
      <4>2. QED BY <1>1, <2>5, <3>1, <3>2, <4>1 DEF TextsHaveWriters
    <3>3. CASE ~Op(k, "create")
      BY <1>1, <2>2, <2>5, <3>1, <3>3, SavedRow
    <3>4. QED BY <3>2, <3>3
  <2>6. QED BY <1>1, <2>1, <2>3, <2>4, <2>5, FinishedPages
<1>18. QED BY <1>3, <1>8, <1>11, <1>12, <1>13, <1>14, <1>15, <1>16, <1>17 DEF WikiInv

\* The invariant holds in the beginning.
LEMMA WikiStarts ==
    ASSUME WikiInit
    PROVE  WikiTypeOK /\ WikiInv
<1>1. /\ \A p \in Pages : page[p] = Unwritten /\ text[p] = "missing" /\ post[p] = NoSlug
      /\ \A k \in Editors : editor[k] = Unused
  BY DEF WikiInit
<1>2. WikiTypeOK
  <2>1. requests \in 0 .. MaxRequests
    <3>1. MaxRequests \in Nat
      BY WikiAssumption
    <3>2. QED BY <3>1 DEF WikiInit
  <2>2. /\ home \in [Pages -> Projects] /\ page \in [Pages -> PageRow \cup {Unwritten, Deleted}]
        /\ text \in [Pages -> Fates \cup Editors] /\ post \in [Pages -> Slugs \cup {NoSlug}]
        /\ editor \in [Editors -> Creations \cup Edits \cup Deletions \cup {Unused}]
    BY DEF WikiInit, Fates
  <2>3. QED BY <2>1, <2>2 DEF WikiTypeOK
<1>3. \A p \in Pages : ~Live(p)
  BY <1>1 DEF Live, Unwritten
<1>4. \A k \in Editors : ~Op(k, "create") /\ ~Op(k, "edit")
  BY <1>1 DEF Op, Unused
<1>5. \A k \in Editors : ~Renames(k) /\ ~Flushed(k) /\ ~PrivateRename(k)
  BY <1>4, OthersDoNotSave
<1>6. \A k \in Editors : k # "missing"
  BY EditorsAreNoFates DEF Fates
<1>7. BirthsApart /\ TextsHaveWriters /\ NoAddressYet
  BY <1>1, <1>4, <1>6 DEF BirthsApart, TextsHaveWriters, NoAddressYet
<1>8. SlugsDiffer /\ SentFits /\ RenamesFit /\ RenamesStayPrivate /\ ShowsWhatWasSaved
  BY <1>3, <1>5 DEF SlugsDiffer, SentFits, RenamesFit, RenamesStayPrivate, ShowsWhatWasSaved
<1>9. QED BY <1>2, <1>7, <1>8 DEF WikiInv

\* The types need no assumption about renames.
LEMMA WikiTypesInductive == WikiTypeOK /\ [WikiNext]_wikiVars => WikiTypeOK'
<1>1. ASSUME WikiTypeOK, UNCHANGED wikiVars PROVE WikiTypeOK'
  BY <1>1 DEF WikiTypeOK, wikiVars
<1>2. QED BY <1>1, WikiTypes

(* Rows, texts, posts and requests of the wiki keep their types             *)
(* (services/wiki.py); a free suffix for a slug always exists, and only     *)
(* pages that are there are deleted with the page above them.               *)
THEOREM WikiTypeCorrect == WikiSpec => []WikiTypeOK
<1>1. WikiInit => WikiTypeOK
  BY WikiStarts
<1>2. QED BY <1>1, WikiTypesInductive, PTL DEF WikiSpec

(* Whoever opens a page reads a text whose save was accepted, for any       *)
(* number of pages, projects, titles and requests, as long as no two        *)
(* requests race for the slug of a private page (update_wiki_page).         *)
THEOREM SavedTextIsShown ==
    ASSUME ~RacingRenames
    PROVE  WikiSpec => []ShowsWhatWasSaved
<1>1. WikiInit => WikiInv
  BY WikiStarts
<1>2. WikiInv /\ [WikiNext]_wikiVars => WikiInv'
  <2>1. ASSUME WikiInv, WikiNext PROVE WikiInv'
    BY <2>1, StepsOfEditors, BeginsKeeps, GoesOnKeeps, FinishesKeeps
  <2>2. ASSUME WikiInv, UNCHANGED wikiVars PROVE WikiInv'
    <3>1. WikiTypeOK'
      BY <2>2, WikiTypesInductive DEF WikiInv
    <3>2. \A j \in Editors : editor'[j] = editor[j] /\ RowOf(j)' = RowOf(j) /\ PostOf(j)' = PostOf(j)
      BY <2>2, SaveStays DEF wikiVars
    <3>3. SentFits'
      <4> SUFFICES ASSUME NEW j \in Editors, Flushed(j)' PROVE ~Clashes(j)'
        BY DEF SentFits
      <4>1. Flushed(j) /\ (Clashes(j)' <=> Clashes(j))
        BY <2>2, <3>2, RequestStays, ClashesStay DEF wikiVars
      <4>2. QED BY <2>2, <4>1 DEF WikiInv, SentFits
    <3>4. BirthsApart' /\ TextsHaveWriters' /\ NoAddressYet'
      BY <2>2, RequestStays DEF WikiInv, wikiVars, BirthsApart, TextsHaveWriters, NoAddressYet, Op, Wrote, Reached
    <3>5. SlugsDiffer' /\ ShowsWhatWasSaved' /\ RenamesStayPrivate'
      BY <2>2 DEF WikiInv, wikiVars, SlugsDiffer, SameSlug, Live, ShowsWhatWasSaved, RenamesStayPrivate, Renames, Op,
         Publishes
    <3>6. RenamesFit'
      BY <2>2 DEF WikiInv, wikiVars, RenamesFit, PrivateRename, NewSlug, Renames, Op, Reached, Neighbours, Live, Takes
    <3>7. QED BY <3>1, <3>3, <3>4, <3>5, <3>6 DEF WikiInv
  <2>3. QED BY <2>1, <2>2
<1>3. WikiInv => ShowsWhatWasSaved
  BY DEF WikiInv
<1>4. QED BY <1>1, <1>2, <1>3, PTL DEF WikiSpec

-----------------------------------------------------------------------------
(* Side by side. *)

allVars == <<part, boardVars, pipelineVars, settlementVars, numberVars, errorVars, lockVars, wikiVars>>

\* Side by side each component does as its own specification says.
LEMMA EachByItself ==
    Spec => /\ BoardSpec /\ PipelinesSpec /\ SettlementsSpec /\ NumbersSpec
            /\ ErrorsSpec /\ LockSpec /\ WikiSpec
<1>1. Init => /\ BoardInit /\ PipelinesInit /\ SettlementsInit /\ NumbersInit
              /\ ErrorsInit /\ LockInit /\ WikiInit
  BY DEF Init
<1>2. [Next]_allVars => [BoardNext]_boardVars
  BY DEF Next, allVars, BoardPart, PipelinesPart, SettlementsPart, NumbersPart, ErrorsPart, LockPart, WikiPart
<1>3. [Next]_allVars => [PipelinesNext]_pipelineVars
  BY DEF Next, allVars, BoardPart, PipelinesPart, SettlementsPart, NumbersPart, ErrorsPart, LockPart, WikiPart
<1>4. [Next]_allVars => [SettlementsNext]_settlementVars
  BY DEF Next, allVars, BoardPart, PipelinesPart, SettlementsPart, NumbersPart, ErrorsPart, LockPart, WikiPart
<1>5. [Next]_allVars => [NumbersNext]_numberVars
  BY DEF Next, allVars, BoardPart, PipelinesPart, SettlementsPart, NumbersPart, ErrorsPart, LockPart, WikiPart
<1>6. [Next]_allVars => [ErrorsNext]_errorVars
  BY DEF Next, allVars, BoardPart, PipelinesPart, SettlementsPart, NumbersPart, ErrorsPart, LockPart, WikiPart
<1>7. [Next]_allVars => [LockNext]_lockVars
  BY DEF Next, allVars, BoardPart, PipelinesPart, SettlementsPart, NumbersPart, ErrorsPart, LockPart, WikiPart
<1>8. [Next]_allVars => [WikiNext]_wikiVars
  BY DEF Next, allVars, BoardPart, PipelinesPart, SettlementsPart, NumbersPart, ErrorsPart, LockPart, WikiPart
<1>9. QED
  BY <1>1, <1>2, <1>3, <1>4, <1>5, <1>6, <1>7, <1>8, PTL
  DEF Spec, allVars, BoardSpec, PipelinesSpec, SettlementsSpec, NumbersSpec, ErrorsSpec, LockSpec, WikiSpec

\* The run of a component stays that component's.
LEMMA PartStays ==
    Spec => [](part \in {"board", "pipelines", "settlements", "papers", "numbers", "errors", "lock",
                       "wiki"})
<1> DEFINE named == part \in {"board", "pipelines", "settlements", "papers", "numbers", "errors",
                               "lock", "wiki"}
<1>1. Init => named
  BY DEF Init
<1>2. named /\ [Next]_allVars => named'
  BY DEF Next, allVars, BoardPart, PipelinesPart, SettlementsPart, NumbersPart, ErrorsPart, LockPart, WikiPart
<1>3. QED BY <1>1, <1>2, PTL DEF Spec, allVars

(* Whichever of the seven components runs keeps its types. *)
THEOREM ServicesTypeCorrect == Spec => []ServicesTypeOK
<1> DEFINE named == part \in {"board", "pipelines", "settlements", "papers", "numbers", "errors",
                               "lock", "wiki"}
<1>1. /\ named /\ BoardTypeOK /\ PipelinesTypeOK /\ SettlementsTypeOK /\ NumbersTypeOK
      /\ ErrorsTypeOK /\ LockTypeOK /\ WikiTypeOK
      => ServicesTypeOK
  BY DEF ServicesTypeOK
<1>2. NumbersSpec => []NumbersTypeOK
  BY NumbersConsecutive, PTL
<1>3. ErrorsSpec => []ErrorsTypeOK
  BY CountIsBounded, PTL
<1>4. QED
  BY <1>1, <1>2, <1>3, EachByItself, PartStays, BoardTypeCorrect, PipelinesTypeCorrect,
     SettlementsTypeCorrect, LockTypeCorrect, WikiTypeCorrect, PTL
=============================================================================
