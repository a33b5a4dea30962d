--------------------------- MODULE CollectionPage ---------------------------
(* The collection page in the browser, CollectionPage.tsx: a list that is read  *)
(* again whenever the member looks elsewhere or has changed something, changes of  *)
(* one card, and the removal of a selection card by card.                       *)
(*                                                                             *)
(* Every change names the revision of the card it was decided on, and the server  *)
(* refuses one that is no longer the card's. A request is served, and its answer  *)
(* comes, at any later time. Filters, order and pages are abstracted to a list of  *)
(* any of the member's cards; the summary and the messages are left out.        *)
EXTENDS Integers, FiniteSets

CONSTANTS Items,       \* cards of the collection
          NoItem, NoLoad, NoDeck,
          MaxRevision, \* bound: revisions of a card
          MaxCalls     \* bound: changes of single cards in flight

ASSUME ListAssumption ==
  /\ NoItem \notin Items
  /\ MaxRevision \in Nat \ {0} /\ MaxCalls \in Nat

VARIABLES
  revision,      \* the server's revision of each card, 0 for one that is gone
  collection,    \* the list shown: revisions, 0 for a card that is not on it
  load,          \* the list awaited whose generation is the page's
  loadDue,       \* the effect that loads the list will run
  selectionMode,
  selected,      \* the cards selected, as they were when selected or last seen
  staleSelectedIds,  \* refused because they had changed, and not seen since
  removals,      \* the removals of a selection, all sent at once
  quickDeck,     \* the deck being made of a selection
  quickDeckOpen, \* its form
  changes,       \* changes of single cards in flight
  busyId, expandedId, editId,
  rejected,      \* history: the revisions that the page knows are stale
  refusedSingly   \* history: the revisions refused to changes of single cards

listVars == <<revision, collection, load, loadDue, selectionMode, selected, staleSelectedIds, removals,
              quickDeck, quickDeckOpen, changes, busyId, expandedId, editId, rejected, refusedSingly>>

Rows == [Items -> 0..MaxRevision]
Nowhere == [i \in Items |-> 0]
Named(rows) == {i \in Items : rows[i] # 0}
Answers == {"none", "done", "stale", "failed"}
Removal == [id : Items, rev : 1..MaxRevision, answer : Answers]

ListTypeOK ==
  /\ {revision, collection, selected} \subseteq Rows
  /\ load = NoLoad \/ (load.read \in BOOLEAN /\ load.rows \in Rows)
  /\ {loadDue, selectionMode, quickDeckOpen} \subseteq BOOLEAN
  /\ staleSelectedIds \subseteq Items
  /\ removals \subseteq Removal
  /\ quickDeck = NoDeck \/ quickDeck.todo \cup quickDeck.failed \subseteq Items
  /\ \A c \in changes : c.kind \in {"update", "remove"} /\ c.id \in Items
  /\ {busyId, expandedId, editId} \subseteq Items \cup {NoItem}
  /\ rejected \cup refusedSingly \subseteq Items \X (1..MaxRevision)

bulkBusy == removals # {} \/ quickDeck # NoDeck
hasSelectedStale == staleSelectedIds \cap Named(selected) # {}

-----------------------------------------------------------------------------
(* The server.                                                             *)

\* What becomes of a change decided on a revision: gone is not stale.
Outcome(id, rev) == IF revision[id] = rev THEN "done" ELSE IF revision[id] = 0 THEN "failed" ELSE "stale"

\* Another tab changes or removes a card.
OthersChange(id, rev) ==
  /\ revision[id] # 0 /\ rev \in {0, revision[id] + 1} /\ rev <= MaxRevision
  /\ revision' = [revision EXCEPT ![id] = rev]
  /\ UNCHANGED <<collection, load, loadDue, selectionMode, selected, staleSelectedIds, removals, quickDeck,
                 quickDeckOpen, changes, busyId, expandedId, editId, rejected, refusedSingly>>

ServeRemoval(r) ==
  /\ r.answer = "none"
  /\ LET outcome == Outcome(r.id, r.rev) IN
       /\ removals' = (removals \ {r}) \cup {[r EXCEPT !.answer = outcome]}
       /\ revision' = IF outcome = "done" THEN [revision EXCEPT ![r.id] = 0] ELSE revision
  /\ UNCHANGED <<collection, load, loadDue, selectionMode, selected, staleSelectedIds, quickDeck, quickDeckOpen,
                 changes, busyId, expandedId, editId, rejected, refusedSingly>>

ServeChange(c) ==
  /\ c.answer = "none" /\ (c.kind = "update" => revision[c.id] < MaxRevision)
  /\ LET outcome == Outcome(c.id, c.rev) IN
       /\ changes' = (changes \ {c}) \cup {[c EXCEPT !.answer = outcome]}
       /\ revision' = IF outcome # "done" THEN revision
                      ELSE [revision EXCEPT ![c.id] = IF c.kind = "update" THEN @ + 1 ELSE 0]
  /\ UNCHANGED <<collection, load, loadDue, selectionMode, selected, staleSelectedIds, removals, quickDeck,
                 quickDeckOpen, busyId, expandedId, editId, rejected, refusedSingly>>

-----------------------------------------------------------------------------
(* The list.                                                               *)

otherThanList == <<revision, selectionMode, removals, quickDeck, quickDeckOpen, changes, busyId, expandedId,
                   editId, refusedSingly>>

\* A filter, the order or the page: the effect runs after the page is drawn.
LookElsewhere ==
  /\ loadDue' = TRUE
  /\ UNCHANGED <<otherThanList, collection, load, selected, staleSelectedIds, rejected>>

\* The list before is aborted, and its generation is over.
StartLoad ==
  /\ loadDue /\ loadDue' = FALSE
  /\ load' = [read |-> FALSE, rows |-> Nowhere]
  /\ UNCHANGED <<otherThanList, collection, selected, staleSelectedIds, rejected>>

ReadList(on) ==
  /\ load # NoLoad /\ ~load.read
  /\ on \subseteq Named(revision)
  /\ load' = [read |-> TRUE, rows |-> [i \in Items |-> IF i \in on THEN revision[i] ELSE 0]]
  /\ UNCHANGED <<otherThanList, collection, loadDue, selected, staleSelectedIds, rejected>>

\* The list: what is selected is as the list has it, and known not to be stale. A page
\* beyond the last leads to the last. A revision that was refused to a change of one card
\* is known to be stale when the card is listed with a later one.
ListShown(beyond) ==
  /\ load # NoLoad /\ load.read
  /\ beyond => Named(load.rows) = {}
  /\ collection' = load.rows
  /\ selected' = [i \in Items |-> IF selected[i] # 0 /\ load.rows[i] # 0 THEN load.rows[i] ELSE selected[i]]
  /\ staleSelectedIds' = staleSelectedIds \ Named(load.rows)
  /\ rejected' = rejected \cup {refused \in refusedSingly : load.rows[refused[1]] > refused[2]}
  /\ load' = NoLoad /\ loadDue' = (loadDue \/ beyond)
  /\ UNCHANGED otherThanList

ListLost ==
  /\ load # NoLoad /\ load' = NoLoad
  /\ UNCHANGED <<otherThanList, collection, loadDue, selected, staleSelectedIds, rejected>>

-----------------------------------------------------------------------------
(* Changes of single cards.                                                *)

otherThanChanges == <<revision, collection, load, selectionMode, selected, staleSelectedIds, removals, quickDeck,
                      quickDeckOpen, rejected>>

ToggleDetails(id) ==
  /\ id \in Named(collection) /\ ~selectionMode /\ ~bulkBusy
  /\ expandedId' = IF expandedId = id THEN NoItem ELSE id
  /\ editId' = NoItem
  /\ UNCHANGED <<otherThanChanges, loadDue, changes, busyId, refusedSingly>>

EditCard(id) ==
  /\ id \in Named(collection) /\ expandedId = id /\ editId # id
  /\ editId' = id
  /\ UNCHANGED <<otherThanChanges, loadDue, changes, busyId, expandedId, refusedSingly>>

\* "+1" and "Remove" where the card is not edited, "Save" where it is. The card may have
\* been removed or changed elsewhere since it was listed.
ChangeCard(id, kind) ==
  /\ id \in Named(collection) /\ expandedId = id /\ busyId # id
  /\ kind = "remove" => editId # id
  /\ Cardinality(changes) < MaxCalls
  /\ changes' = changes \cup {[id |-> id, rev |-> collection[id], kind |-> kind, answer |-> "none"]}
  /\ busyId' = id
  /\ UNCHANGED <<otherThanChanges, loadDue, expandedId, editId, refusedSingly>>

\* mutate and remove: whichever card's answer it is, nothing is busy any more and the
\* form is closed by an update. A request that was not answered changed nothing here. A
\* refusal has the list loaded again; until a list has answered, the card is on the page,
\* and can be selected, as it was.
ChangeAnswered(c) ==
  /\ c.answer # "none"
  /\ changes' = changes \ {c} /\ busyId' = NoItem
  /\ editId' = IF c.kind = "update" /\ c.answer = "done" THEN NoItem ELSE editId
  /\ loadDue' = (loadDue \/ c.answer \in {"done", "stale"})
  /\ refusedSingly' = IF c.answer = "stale" THEN refusedSingly \cup {<<c.id, c.rev>>} ELSE refusedSingly
  /\ UNCHANGED <<otherThanChanges, expandedId>>

ChangeLost(c) ==
  /\ changes' = changes \ {c} /\ busyId' = NoItem
  /\ UNCHANGED <<otherThanChanges, loadDue, expandedId, editId, refusedSingly>>

-----------------------------------------------------------------------------
(* Selecting.                                                              *)

otherThanSelected == <<revision, collection, load, loadDue, staleSelectedIds, removals, quickDeck, changes, busyId,
                       rejected, refusedSingly>>

ToggleSelectionMode ==
  /\ ~bulkBusy /\ busyId = NoItem
  /\ selectionMode' = ~selectionMode
  /\ IF selectionMode
     THEN selected' = Nowhere /\ quickDeckOpen' = FALSE /\ UNCHANGED <<expandedId, editId>>
     ELSE expandedId' = NoItem /\ editId' = NoItem /\ UNCHANGED <<selected, quickDeckOpen>>
  /\ UNCHANGED otherThanSelected

\* A check box, "Select page", "Clear selection".
Select(ids, checked) ==
  /\ selectionMode /\ ~bulkBusy /\ ids # {}
  /\ selected' = [i \in Items |-> IF i \notin ids THEN selected[i] ELSE IF checked THEN collection[i] ELSE 0]
  /\ UNCHANGED <<otherThanSelected, selectionMode, quickDeckOpen, expandedId, editId>>

SetItemSelected(id) == id \in Named(collection) /\ Select({id}, selected[id] = 0)
SelectPage == Select(Named(collection), TRUE)
ClearSelection == Select(Named(selected), FALSE)

ToggleQuickDeck ==
  /\ selectionMode /\ ~bulkBusy /\ (quickDeckOpen \/ Named(selected) # {})
  /\ quickDeckOpen' = ~quickDeckOpen
  /\ UNCHANGED <<otherThanSelected, selectionMode, selected, expandedId, editId>>

-----------------------------------------------------------------------------
(* What is done with a selection.                                          *)

otherThanBulk == <<revision, collection, selectionMode, changes, busyId, expandedId, editId, refusedSingly>>

\* Mutant: the cards of the page are removed, selected or not.
RemoveSelectedPage ==
  /\ selectionMode /\ ~bulkBusy /\ Named(selected) # {} /\ ~hasSelectedStale
  /\ removals' = {[id |-> i, rev |-> selected[i], answer |-> "none"] : i \in Named(collection)}
  /\ quickDeckOpen' = FALSE
  /\ UNCHANGED <<otherThanBulk, load, loadDue, selected, staleSelectedIds, quickDeck, rejected>>

RemoveSelected ==
  /\ selectionMode /\ ~bulkBusy /\ Named(selected) # {} /\ ~hasSelectedStale
  /\ removals' = {[id |-> i, rev |-> selected[i], answer |-> "none"] : i \in Named(selected)}
  /\ quickDeckOpen' = FALSE
  /\ UNCHANGED <<otherThanBulk, load, loadDue, selected, staleSelectedIds, quickDeck, rejected>>

RemovalLost(r) ==
  /\ r.answer # "failed"
  /\ removals' = (removals \ {r}) \cup {[r EXCEPT !.answer = "failed"]}
  /\ UNCHANGED <<otherThanBulk, load, loadDue, selected, staleSelectedIds, quickDeck, quickDeckOpen, rejected>>

Keep(ids) == [i \in Items |-> IF i \in ids THEN selected[i] ELSE 0]

\* Mutant: a list that was read before the refusals is still shown.
RemovalsSettledReading ==
  /\ removals # {} /\ \A r \in removals : r.answer # "none"
  /\ LET stale == {r \in removals : r.answer = "stale"} IN
       /\ load' = load
       /\ selected' = Keep({r.id : r \in {r \in removals : r.answer # "done"}})
       /\ staleSelectedIds' = staleSelectedIds \cup {r.id : r \in stale}
       /\ rejected' = rejected \cup {<<r.id, r.rev>> : r \in stale}
  /\ removals' = {} /\ loadDue' = TRUE
  /\ UNCHANGED <<otherThanBulk, quickDeck, quickDeckOpen>>

\* All have been answered: the refused stay selected, and a list that is under way is
\* not waited for when one of them had changed.
RemovalsSettled ==
  /\ removals # {} /\ \A r \in removals : r.answer # "none"
  /\ LET stale == {r \in removals : r.answer = "stale"} IN
       /\ load' = IF stale = {} THEN load ELSE NoLoad
       /\ selected' = Keep({r.id : r \in {r \in removals : r.answer # "done"}})
       /\ staleSelectedIds' = staleSelectedIds \cup {r.id : r \in stale}
       /\ rejected' = rejected \cup {<<r.id, r.rev>> : r \in stale}
  /\ removals' = {} /\ loadDue' = TRUE
  /\ UNCHANGED <<otherThanBulk, quickDeck, quickDeckOpen>>

\* createQuickDeck: the deck is made, then each card is put into it, one after another.
CreateQuickDeck ==
  /\ selectionMode /\ quickDeckOpen /\ ~bulkBusy /\ Named(selected) # {}
  /\ quickDeck' = [made |-> FALSE, todo |-> Named(selected), failed |-> {}]
  /\ UNCHANGED <<otherThanBulk, load, loadDue, selected, staleSelectedIds, removals, quickDeckOpen, rejected>>

DeckAnswered(id, done) ==
  /\ quickDeck # NoDeck
  /\ IF ~quickDeck.made
     THEN quickDeck' = IF done THEN [quickDeck EXCEPT !.made = TRUE] ELSE NoDeck
     ELSE /\ id \in quickDeck.todo
          /\ quickDeck' = [quickDeck EXCEPT !.todo = @ \ {id}, !.failed = IF done THEN @ ELSE @ \cup {id}]
  /\ UNCHANGED <<otherThanBulk, load, loadDue, selected, staleSelectedIds, removals, quickDeckOpen, rejected>>

\* The cards that could not be put into it stay selected.
QuickDeckDone ==
  /\ quickDeck # NoDeck /\ quickDeck.made /\ quickDeck.todo = {}
  /\ selected' = Keep(quickDeck.failed)
  /\ quickDeck' = NoDeck /\ quickDeckOpen' = FALSE
  /\ UNCHANGED <<otherThanBulk, load, loadDue, staleSelectedIds, removals, rejected>>

-----------------------------------------------------------------------------
ListInit ==
  /\ revision = [i \in Items |-> 1] /\ collection = Nowhere
  /\ load = NoLoad /\ loadDue = TRUE
  /\ selectionMode = FALSE /\ selected = Nowhere /\ staleSelectedIds = {}
  /\ removals = {} /\ quickDeck = NoDeck /\ quickDeckOpen = FALSE
  /\ changes = {} /\ busyId = NoItem /\ expandedId = NoItem /\ editId = NoItem
  /\ rejected = {} /\ refusedSingly = {}

OneCard(id) ==
  \/ ToggleDetails(id) \/ EditCard(id) \/ SetItemSelected(id)
  \/ \E kind \in {"update", "remove"} : ChangeCard(id, kind)
  \/ \E rev \in 0..MaxRevision : OthersChange(id, rev)
  \/ \E done \in BOOLEAN : DeckAnswered(id, done)

ListNext ==
  \/ LookElsewhere \/ StartLoad \/ ListLost
  \/ (\E on \in SUBSET Items : ReadList(on)) \/ (\E beyond \in BOOLEAN : ListShown(beyond))
  \/ \E id \in Items : OneCard(id)
  \/ \E c \in changes : ServeChange(c) \/ ChangeAnswered(c) \/ ChangeLost(c)
  \/ ToggleSelectionMode \/ SelectPage \/ ClearSelection \/ ToggleQuickDeck
  \/ RemoveSelected \/ (\E r \in removals : ServeRemoval(r) \/ RemovalLost(r)) \/ RemovalsSettled
  \/ CreateQuickDeck \/ QuickDeckDone

ListSpec == ListInit /\ [][ListNext]_listVars

-----------------------------------------------------------------------------
(* Properties.                                                             *)

\* A revision that the server refused is not sent again once the page knows it: it is
\* selected only while "Remove selected" is blocked for it, whatever lists were under way
\* and however the card is selected again. A removal of the selection that is refused
\* tells the page at once. A refused change of one card only has the list loaded again:
\* until a list shows a later revision of the card, which may not come, the card can be
\* selected and removed with the refused one. And a selected card that is on the list is
\* selected as the list has it.
RejectedNotResent ==
  \A i \in Named(selected) :
    /\ <<i, selected[i]>> \in rejected => i \in staleSelectedIds
    /\ collection[i] # 0 => selected[i] = collection[i]
=============================================================================
