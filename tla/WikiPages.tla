------------------------------ MODULE WikiPages ------------------------------
(***************************************************************************)
(* Wiki pages: the row is in the database, the text in the object store    *)
(* under a key made of the page's id (services/wiki.py). A public page has *)
(* a blog post too, whose address is unique among all projects             *)
(* (ensure_post of services/blog.py).                                      *)
(*                                                                         *)
(* A text is known here by the request that wrote it, and by what became   *)
(* of that request. Permissions, positions, embeddings and backlinks are   *)
(* left out.                                                               *)
(***************************************************************************)
EXTENDS Naturals, FiniteSets, Reachability

CONSTANTS
    Pages, Projects, Titles, Editors,   \* page ids, projects, titles, requests
    NoPage,                             \* the parent of a top page
    NoSlug,                             \* a page without a post
    Same,                               \* a title that is not edited
    MaxRequests,                        \* bound on the requests
    RacingRenames                       \* may a private page be given a slug
                                        \* that another request is about to take

ASSUME WikiAssumption ==
    /\ IsFiniteSet(Pages) /\ NoPage \notin Pages
    /\ NoSlug \notin Titles \X Nat /\ Same \notin Titles
    /\ Editors \cap {"missing", "removed", "saved", "refused", "cut off"} = {}
    /\ MaxRequests \in Nat
    /\ RacingRenames \in BOOLEAN

VARIABLES
    home,     \* the project each page id belongs to
    page,     \* row of each page
    text,     \* the text under the key of each page
    post,     \* address of each page's blog post
    editor,   \* what each request is doing
    requests  \* how many there were

wikiVars == <<home, page, text, post, editor, requests>>

Slugs == Titles \X (0 .. Cardinality(Pages))    \* title, title-1, title-2, ...
Unwritten == [state |-> "unborn"]
Deleted == [state |-> "gone"]
PageRow == [state: {"live"}, slug: Slugs, public: BOOLEAN, parent: Pages \cup {NoPage}]
Unused == [op |-> "none"]

(* missing: never written, or removed again by the creation that wrote it *)
Fates == {"missing", "removed", "saved", "refused", "cut off"}

Creations ==
    [op: {"create"}, page: Pages, parent: Pages \cup {NoPage}, slug: Slugs, public: BOOLEAN,
     at: {"named", "stored", "flushed"}]
Edits ==
    [op: {"edit"}, page: Pages, title: Titles \cup {Same}, slug: Slugs,
     public: BOOLEAN, toggles: BOOLEAN, writes: BOOLEAN,
     at: {"loaded", "named", "flushed", "stored"}]
Deletions == [op: {"delete"}, page: Pages, doomed: SUBSET Pages, at: {"collected", "removed"}]

WikiTypeOK ==
    /\ home \in [Pages -> Projects]
    /\ page \in [Pages -> PageRow \cup {Unwritten, Deleted}]
    /\ text \in [Pages -> Fates \cup Editors]
    /\ post \in [Pages -> Slugs \cup {NoSlug}]
    /\ editor \in [Editors -> Creations \cup Edits \cup Deletions \cup {Unused}]
    /\ requests \in 0 .. MaxRequests

WikiInit ==
    /\ home \in [Pages -> Projects]
    /\ page = [p \in Pages |-> Unwritten]
    /\ text = [p \in Pages |-> "missing"]
    /\ post = [p \in Pages |-> NoSlug]
    /\ editor = [k \in Editors |-> Unused]
    /\ requests = 0

-----------------------------------------------------------------------------
Live(p) == page[p].state = "live"
Neighbours(p) == {q \in Pages \ {p} : home[q] = home[p]}

(* _ensure_unique_slug: the first suffix no other page of the project has. *)
FreeSlug(p, title) ==
    LET Taken == {page[q].slug : q \in {r \in Neighbours(p) : Live(r)}}
        Open == {n \in 0 .. Cardinality(Pages) : <<title, n>> \notin Taken}
    IN <<title, CHOOSE n \in Open : \A i \in Open : n <= i>>

(* _collect_descendants *)
Descendants(p) == Reach(Pages, {<<page[q].parent, q>> : q \in {r \in Pages : Live(r)}}, p)

Op(k, op) == editor[k].op = op
Reached(k, stage) == editor[k].at = stage
Saving(k) == Op(k, "create") \/ Op(k, "edit")
Renames(k) == Op(k, "edit") /\ editor[k].title # Same

NewSlug(k) == Renames(k) /\ ~Reached(k, "loaded")

(* The row as the UPDATE or INSERT of k makes it: what k does not write    *)
(* is what is there now.                                                   *)
RowOf(k) ==
    LET e == editor[k] IN
    IF e.op = "create"
    THEN [state |-> "live", slug |-> e.slug, public |-> e.public, parent |-> e.parent]
    ELSE [page[e.page] EXCEPT !.slug = IF NewSlug(k) THEN e.slug ELSE @,
                              !.public = IF e.toggles THEN e.public ELSE @]

(* ensure_post: a post gets its address once, from the slug the request sees. *)
PostOf(k) ==
    IF editor[k].public /\ post[editor[k].page] = NoSlug THEN editor[k].slug
    ELSE post[editor[k].page]

(* uq_wiki_page_project_slug and uq_wiki_public_slug *)
SameSlug(p, row, q, other) ==
    p # q /\ row.slug = other.slug /\ (home[p] = home[q] \/ (row.public /\ other.public))

SameAddress(k, q, address) ==
    editor[k].public /\ q # editor[k].page /\ PostOf(k) # NoSlug /\ PostOf(k) = address

Clashes(k) ==
    \E q \in Pages : /\ Live(q)
                     /\ \/ SameSlug(editor[k].page, RowOf(k), q, page[q])
                        \/ SameAddress(k, q, post[q])

(* Sent, and not committed: a second writer of the same slug waits. *)
Flushed(k) ==
    /\ Saving(k) /\ editor[k].public
    /\ Reached(k, "flushed") \/ (Op(k, "edit") /\ Reached(k, "stored"))

(* The UPDATE that autoflush sends before the look-up of a slug, and the   *)
(* one before that of a post, lock the row until the transaction ends.     *)
Locks(k, p) ==
    /\ Op(k, "edit") /\ editor[k].page = p
    /\ Flushed(k) \/ NewSlug(k)

(* A flushed INSERT holds its parent's key. *)
KeepsParent(k, p) == Op(k, "create") /\ Flushed(k) /\ editor[k].parent = p

Waits(k) ==
    \E j \in Editors \ {k} :
        \/ Locks(j, editor[k].page)
        \/ Flushed(j) /\ \/ SameSlug(editor[k].page, RowOf(k), editor[j].page, RowOf(j))
                         \/ SameAddress(k, editor[j].page, PostOf(j))

Receive(k, request) ==
    /\ editor[k] = Unused
    /\ editor' = [editor EXCEPT ![k] = request]
    /\ UNCHANGED <<home, page, text, post>>
    /\ requests < MaxRequests /\ requests' = requests + 1
Goto(k, stage) == editor' = [editor EXCEPT ![k].at = stage]
End(k, fate) ==
    /\ editor' = [editor EXCEPT ![k] = Unused]
    /\ text' = [p \in Pages |-> IF text[p] = k THEN fate ELSE text[p]]

(* RacingRenames = FALSE: nobody else of the project is about to take the  *)
(* slug, and nobody publishes a page while it is renamed as a private one. *)
PrivateRename(k) == NewSlug(k) /\ ~editor[k].public
TakesTurns(k, p, slug, private) ==
    \A j \in Editors \ {k} :
        (/\ Op(j, "create") \/ NewSlug(j)
         /\ editor[j].page \in Neighbours(p) /\ editor[j].slug = slug)
        => ~private /\ ~PrivateRename(j)

Publishes(k, p) == Op(k, "edit") /\ editor[k].page = p /\ editor[k].public /\ editor[k].toggles
Overlaps(p, title, public) ==
    \E j \in Editors :
        \/ title # Same /\ ~public /\ Publishes(j, p)
        \/ public /\ ~page[p].public /\ Renames(j) /\ editor[j].page = p /\ ~editor[j].public

-----------------------------------------------------------------------------
(* create_wiki_page: the slug, then the text, then the row. An id whose *)
(* creation failed is used again.                                       *)
StartCreation(k, p, title, parent, public) ==
    /\ page[p] = Unwritten
    /\ \A j \in Editors : ~(Op(j, "create") /\ editor[j].page = p)
    /\ parent # NoPage => Live(parent) /\ parent \in Neighbours(p)
    /\ RacingRenames \/ TakesTurns(k, p, FreeSlug(p, title), FALSE)
    /\ Receive(k, [op |-> "create", page |-> p, parent |-> parent,
                   slug |-> FreeSlug(p, title), public |-> public, at |-> "named"])

(* update_wiki_page: the row is loaded, the title and is_public compared. *)
StartEdit(k, p, title, public, writes) ==
    /\ Live(p)
    /\ title # page[p].slug[1]
    /\ title # Same \/ writes \/ public # page[p].public
    /\ RacingRenames \/ ~Overlaps(p, title, public)
    /\ Receive(k, [op |-> "edit", page |-> p, title |-> title, slug |-> page[p].slug,
                   public |-> public, toggles |-> public # page[p].public, writes |-> writes, at |-> "loaded"])

FindSlug(k) ==
    /\ Renames(k) /\ Reached(k, "loaded")
    /\ LET p == editor[k].page
           slug == FreeSlug(p, editor[k].title)
       IN /\ Live(p)
          /\ ~\E j \in Editors \ {k} : Locks(j, p)
          /\ RacingRenames \/ TakesTurns(k, p, slug, ~editor[k].public)
          /\ editor' = [editor EXCEPT ![k].slug = slug, ![k].at = "named"]
    /\ UNCHANGED <<home, page, text, post, requests>>

Named(k) == Reached(k, "named") \/ (Reached(k, "loaded") /\ ~Renames(k))
Flushes(k) == editor[k].public /\ IF Op(k, "edit") THEN Named(k) ELSE Reached(k, "stored")

(* The page of an edit is gone, or the parent of a creation. *)
Orphan(k) ==
    IF Op(k, "edit") THEN ~Live(editor[k].page)
    ELSE editor[k].parent # NoPage /\ ~Live(editor[k].parent)

(* ensure_post, before the text of an edit and after that of a creation *)
Flush(k) ==
    /\ Saving(k) /\ Flushes(k)
    /\ ~Orphan(k) /\ ~Waits(k) /\ ~Clashes(k)
    /\ Goto(k, "flushed")
    /\ UNCHANGED <<home, page, text, post, requests>>

Store(k) ==
    /\ \/ Op(k, "create") /\ Reached(k, "named")
       \/ Op(k, "edit") /\ editor[k].writes
            /\ IF editor[k].public THEN Reached(k, "flushed") ELSE Named(k)
    /\ text' = [text EXCEPT ![editor[k].page] = k]
    /\ Goto(k, "stored")
    /\ UNCHANGED <<home, page, post, requests>>

(* All is done but the commit, which sends what was not sent before. *)
Ready(k) ==
    IF Op(k, "edit") /\ editor[k].writes THEN Reached(k, "stored")
    ELSE IF editor[k].public THEN Reached(k, "flushed")
    ELSE IF Op(k, "create") THEN Reached(k, "stored") ELSE Named(k)

Commit(k) ==
    /\ Saving(k) /\ Ready(k)
    /\ ~Orphan(k) /\ ~Waits(k) /\ ~Clashes(k)
    /\ page' = [page EXCEPT ![editor[k].page] = RowOf(k)]
    /\ post' = [post EXCEPT ![editor[k].page] = PostOf(k)]
    /\ End(k, "saved")
    /\ UNCHANGED <<home, requests>>

(* The next statement fails: IntegrityError, ValueError of ensure_post, or   *)
(* no row to write to.                                                       *)
Refused(k) ==
    /\ Saving(k)
    /\ \/ Orphan(k) /\ (Ready(k) \/ Flushes(k) \/ Reached(k, "loaded"))
       \/ ~Orphan(k) /\ (Ready(k) \/ Flushes(k)) /\ ~Waits(k) /\ Clashes(k)

(* A mutant: a refused edit is cleaned up like a refused creation. *)
RefuseAndDiscard(k) ==
    /\ Refused(k)
    /\ editor' = [editor EXCEPT ![k] = Unused]
    /\ text' = [text EXCEPT ![editor[k].page] = "missing"]
    /\ UNCHANGED <<home, page, post, requests>>

(* All is rolled back, and a creation removes its text. *)
Refuse(k) ==
    /\ Refused(k)
    /\ End(k, IF Op(k, "create") THEN "missing" ELSE "refused")
    /\ UNCHANGED <<home, page, post, requests>>

(* delete_wiki_page: the texts of the page and of what is below it first;  *)
(* a store that refuses is only logged.                                    *)
StartDeletion(k, p) ==
    /\ Live(p)
    /\ Receive(k, [op |-> "delete", page |-> p, doomed |-> Descendants(p), at |-> "collected"])

RemoveTexts(k) ==
    /\ Op(k, "delete") /\ Reached(k, "collected")
    /\ \E removed \in SUBSET editor[k].doomed :
          text' = [p \in Pages |-> IF p \in removed THEN "removed" ELSE text[p]]
    /\ Goto(k, "removed")
    /\ UNCHANGED <<home, page, post, requests>>

CommitDeletion(k) ==
    /\ Op(k, "delete") /\ Reached(k, "removed")
    /\ LET Lost == IF Live(editor[k].page) THEN Descendants(editor[k].page) ELSE {}
       IN /\ \A j \in Editors, p \in Lost : ~Locks(j, p) /\ ~KeepsParent(j, p)
          /\ page' = [p \in Pages |-> IF p \in Lost THEN Deleted ELSE page[p]]
          /\ post' = [p \in Pages |-> IF p \in Lost THEN NoSlug ELSE post[p]]
    /\ editor' = [editor EXCEPT ![k] = Unused]
    /\ UNCHANGED <<home, text, requests>>

(* The process dies or its connection is lost before the commit. *)
CutOff(k) ==
    /\ editor[k] # Unused
    /\ End(k, "cut off")
    /\ UNCHANGED <<home, page, post, requests>>

WikiNext ==
    \E k \in Editors :
        \/ \E p \in Pages, title \in Titles, parent \in Pages \cup {NoPage}, public \in BOOLEAN :
              StartCreation(k, p, title, parent, public)
        \/ \E p \in Pages, title \in Titles \cup {Same}, public, writes \in BOOLEAN :
              StartEdit(k, p, title, public, writes)
        \/ FindSlug(k) \/ Flush(k) \/ Store(k) \/ Commit(k) \/ Refuse(k)
        \/ \E p \in Pages : StartDeletion(k, p)
        \/ RemoveTexts(k) \/ CommitDeletion(k)
        \/ CutOff(k)

WikiSpec == WikiInit /\ [][WikiNext]_wikiVars

-----------------------------------------------------------------------------
(* Whoever opens a page reads a text whose save was accepted: a save that  *)
(* is refused, by a title taken meanwhile or by an address another project *)
(* has, leaves the text of the page as it was. Excepted are saves that are *)
(* under way or were cut off, and pages whose deletion was begun.          *)
(* A private page renamed at the moment when its slug is taken breaks it   *)
(* (RacingRenames): its text is stored before the row is refused.          *)
ShowsWhatWasSaved == \A p \in Pages : Live(p) => text[p] \notin {"missing", "refused"}
=============================================================================
