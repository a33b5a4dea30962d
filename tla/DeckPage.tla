------------------------------ MODULE DeckPage ------------------------------
(* The page of one deck, DeckDetailPage.tsx: the deck is loaded for the route,  *)
(* changed one request at a time, and read again after each change; the route   *)
(* may lead to another deck at any moment, with the page kept.                  *)
(*                                                                             *)
(* Loads, searches and changes have a generation each. A load or a search that   *)
(* is given up leaves no trace; a change that is given up is still served.        *)
EXTENDS Integers, FiniteSets

CONSTANTS Decks, NoDeckId, NoDeckLoad,
          MaxDeckRevision,  \* bound: revisions of a deck
          MaxDeckChanges    \* bound: changes in flight, those given up included

ASSUME DeckPageAssumption ==
  /\ NoDeckId \notin Decks
  /\ MaxDeckRevision \in Nat \ {0} /\ MaxDeckChanges \in Nat

VARIABLES
  deckRevision,    \* the server's
  deckRoute,       \* the deck of the route, NoDeckId once the page is left
  deck,            \* the deck shown and its revision, rev 0 for none
  deckLoad,        \* the load that will be heard
  loadFailed,      \* the error of a load
  refreshFailed,   \* the error of the refresh after a change that was stale
  mutations,       \* changes in flight
  mutationActive,  \* the lock
  busy,            \* the buttons are disabled
  searching, searchAwaited,  \* the message, and the search that will be heard
  acknowledged,    \* history: the revision this page's own last change of the deck led to
  overtaken        \* history: a load was shown that had been read before such a change

deckVars == <<deckRevision, deckRoute, deck, deckLoad, loadFailed, refreshFailed, mutations, mutationActive, busy,
              searching, searchAwaited, acknowledged, overtaken>>

\* A card is added; the details or a card are edited, or a card removed, which takes the
\* revision it was decided on along. The forms are left out.
MutationKinds == {"add", "change"}
NotShown == [id |-> NoDeckId, rev |-> 0]

\* `rev` is the revision the change was decided on, then the one it led to.
DeckPageTypeOK ==
  /\ deckRevision \in [Decks -> 1..MaxDeckRevision]
  /\ deckRoute \in Decks \cup {NoDeckId}
  /\ deck.id \in Decks \cup {NoDeckId} /\ deck.rev \in 0..MaxDeckRevision
  /\ deckLoad = NoDeckLoad \/ deckLoad.rev \in 0..MaxDeckRevision
  /\ \A m \in mutations : m.kind \in MutationKinds /\ m.id \in Decks
                          /\ m.step \in {"sent", "done", "stale", "failed", "reading", "refreshing"}
  /\ {loadFailed, refreshFailed, mutationActive, busy, searching, searchAwaited, overtaken} \subseteq BOOLEAN
  /\ acknowledged \in 0..MaxDeckRevision

LoadOf(id) == [id |-> id, rev |-> 0]
GivenUp == {[m EXCEPT !.current = FALSE] : m \in mutations}

-----------------------------------------------------------------------------
(* Coming to a deck, and leaving.                                          *)

\* Mutant: a change of the deck left behind keeps the lock.
OpenDeckLocked(id) ==
  /\ deckRoute # id
  /\ deckRoute' = id /\ deck' = NotShown /\ deckLoad' = LoadOf(id)
  /\ mutations' = GivenUp
  /\ mutationActive' = mutationActive /\ busy' = FALSE
  /\ searching' = FALSE /\ searchAwaited' = FALSE /\ refreshFailed' = FALSE
  /\ loadFailed' = FALSE /\ acknowledged' = 0 /\ overtaken' = FALSE
  /\ UNCHANGED deckRevision

\* The page is opened, or a link leads to another deck: all that belongs to the one
\* before is given up.
OpenDeck(id) ==
  /\ deckRoute # id
  /\ deckRoute' = id /\ deck' = NotShown /\ deckLoad' = LoadOf(id)
  /\ mutations' = GivenUp
  /\ mutationActive' = FALSE /\ busy' = FALSE
  /\ searching' = FALSE /\ searchAwaited' = FALSE /\ refreshFailed' = FALSE
  /\ loadFailed' = FALSE /\ acknowledged' = 0 /\ overtaken' = FALSE
  /\ UNCHANGED deckRevision

CloseDeck ==
  /\ deckRoute # NoDeckId /\ deckRoute' = NoDeckId
  /\ mutations' = GivenUp /\ mutationActive' = FALSE /\ searchAwaited' = FALSE /\ deckLoad' = NoDeckLoad
  /\ UNCHANGED <<deckRevision, deck, loadFailed, refreshFailed, busy, searching, acknowledged, overtaken>>

otherThanLoad == <<deckRevision, deckRoute, mutations, mutationActive, busy, searching, searchAwaited,
                   acknowledged>>

\* "Retry", also offered with a deck on the page once its refresh has failed.
RetryLoad ==
  /\ deckRoute # NoDeckId /\ (loadFailed \/ refreshFailed)
  /\ deckLoad' = LoadOf(deckRoute) /\ loadFailed' = FALSE
  /\ UNCHANGED <<otherThanLoad, deck, refreshFailed, overtaken>>

ReadDeck ==
  /\ deckLoad # NoDeckLoad /\ deckLoad.rev = 0
  /\ deckLoad' = [deckLoad EXCEPT !.rev = deckRevision[deckLoad.id]]
  /\ UNCHANGED <<otherThanLoad, deck, loadFailed, refreshFailed, overtaken>>

DeckLoaded ==
  /\ deckLoad # NoDeckLoad /\ deckLoad.rev # 0
  /\ deck' = deckLoad /\ deckLoad' = NoDeckLoad /\ refreshFailed' = FALSE
  /\ overtaken' = (overtaken \/ deckLoad.rev < acknowledged)
  /\ UNCHANGED <<otherThanLoad, loadFailed>>

LoadLost ==
  /\ deckLoad # NoDeckLoad /\ deckLoad' = NoDeckLoad /\ loadFailed' = TRUE
  /\ UNCHANGED <<otherThanLoad, deck, refreshFailed, overtaken>>

-----------------------------------------------------------------------------
(* Changes.                                                                *)

Shown == deckRoute # NoDeckId /\ deck.rev # 0

otherThanChanging == <<deckRoute, deckLoad, searching, searchAwaited>>

\* beginMutation takes the lock, or nothing happens.
BeginMutation(kind) ==
  /\ Shown /\ ~busy /\ ~mutationActive /\ Cardinality(mutations) < MaxDeckChanges
  /\ mutationActive' = TRUE /\ busy' = TRUE /\ refreshFailed' = FALSE
  /\ mutations' = mutations \cup
       {[kind |-> kind, id |-> deckRoute, rev |-> deck.rev, step |-> "sent", current |-> TRUE]}
  /\ UNCHANGED <<otherThanChanging, deckRevision, deck, loadFailed, acknowledged, overtaken>>

\* The server refuses a change that was decided on another revision; an added card is
\* added to any. It fails where the deck is gone, or the change not valid.
ServeMutation(m, done) ==
  /\ m.step = "sent"
  /\ LET accepted == done /\ (m.kind = "add" \/ m.rev = deckRevision[m.id]) IN
       /\ accepted => deckRevision[m.id] < MaxDeckRevision
       /\ deckRevision' = IF accepted THEN [deckRevision EXCEPT ![m.id] = @ + 1] ELSE deckRevision
       /\ mutations' = (mutations \ {m}) \cup
            {IF accepted THEN [m EXCEPT !.step = "done", !.rev = deckRevision[m.id] + 1]
             ELSE [m EXCEPT !.step = IF done THEN "stale" ELSE "failed"]}
  /\ UNCHANGED <<otherThanChanging, deck, loadFailed, refreshFailed, mutationActive, busy, acknowledged,
                 overtaken>>

\* Another tab, or somebody who shares the account.
OthersChangeDeck(id) ==
  /\ deckRevision[id] < MaxDeckRevision
  /\ deckRevision' = [deckRevision EXCEPT ![id] = @ + 1]
  /\ UNCHANGED <<otherThanChanging, deck, loadFailed, refreshFailed, mutations, mutationActive, busy, acknowledged,
                 overtaken>>

\* Done, or stale: the deck is read again.
MutationAnswered(m) ==
  /\ m.step \in {"done", "stale"}
  /\ mutations' = (mutations \ {m}) \cup
       (IF m.current THEN {[m EXCEPT !.step = IF m.step = "done" THEN "reading" ELSE "refreshing"]} ELSE {})
  /\ UNCHANGED <<otherThanChanging, deckRevision, deck, loadFailed, refreshFailed, mutationActive, busy,
                 acknowledged, overtaken>>

\* finishMutation.
Finish(m) ==
  /\ mutations' = mutations \ {m}
  /\ IF m.current THEN mutationActive' = FALSE /\ busy' = FALSE ELSE UNCHANGED <<mutationActive, busy>>

\* applyDetail, if the change is still the page's.
DetailApplied(m) ==
  /\ m.step \in {"reading", "refreshing"}
  /\ Finish(m)
  /\ IF m.current
     THEN /\ deck' = [id |-> m.id, rev |-> deckRevision[m.id]]
          /\ acknowledged' = IF m.step = "reading" THEN m.rev ELSE acknowledged
          /\ overtaken' = FALSE /\ refreshFailed' = FALSE
     ELSE UNCHANGED <<deck, acknowledged, overtaken, refreshFailed>>
  /\ UNCHANGED <<otherThanChanging, deckRevision, loadFailed>>

\* The change is refused or not answered; or it was made, and the deck is not read: the
\* page then shows an error and the deck as it was.
MutationFailed(m) ==
  /\ m.step # "stale" /\ Finish(m)
  /\ refreshFailed' = (refreshFailed \/ (m.current /\ m.step = "refreshing"))
  /\ UNCHANGED <<otherThanChanging, deckRevision, deck, loadFailed, acknowledged, overtaken>>

-----------------------------------------------------------------------------
(* Searching.                                                              *)

otherThanSearch == <<deckRevision, deckRoute, deck, deckLoad, loadFailed, refreshFailed, mutations,
                     mutationActive, busy, acknowledged, overtaken>>

\* A search, or a page of one: the search before is given up.
RunSearch == Shown /\ searching' = TRUE /\ searchAwaited' = TRUE /\ UNCHANGED otherThanSearch

SearchAnswered == searchAwaited /\ searching' = FALSE /\ searchAwaited' = FALSE /\ UNCHANGED otherThanSearch

-----------------------------------------------------------------------------
DeckPageInit ==
  /\ deckRevision = [d \in Decks |-> 1]
  /\ deckRoute = NoDeckId /\ deck = NotShown /\ deckLoad = NoDeckLoad
  /\ loadFailed = FALSE /\ mutations = {} /\ mutationActive = FALSE /\ busy = FALSE
  /\ searching = FALSE /\ searchAwaited = FALSE /\ refreshFailed = FALSE
  /\ acknowledged = 0 /\ overtaken = FALSE

DeckPageNext ==
  \/ \E d \in Decks : OpenDeck(d) \/ OthersChangeDeck(d)
  \/ CloseDeck \/ RetryLoad \/ ReadDeck \/ DeckLoaded \/ LoadLost
  \/ \E kind \in MutationKinds : BeginMutation(kind)
  \/ \E m \in mutations : \/ (\E done \in BOOLEAN : ServeMutation(m, done))
                          \/ MutationAnswered(m) \/ DetailApplied(m) \/ MutationFailed(m)
  \/ RunSearch \/ SearchAnswered

DeckPageSpec == DeckPageInit /\ [][DeckPageNext]_deckVars

-----------------------------------------------------------------------------
(* Properties.                                                             *)

\* The page is about the deck of its route: it shows no other, its buttons and its lock
\* are taken exactly while a change of that deck is awaited, whatever was under way when
\* the route changed, and it shows its own acknowledged changes unless a load that was
\* read before one of them was shown afterwards.
OnlyThisDeck ==
  deckRoute # NoDeckId =>
    /\ deck.id \in {deckRoute, NoDeckId}
    /\ busy = mutationActive /\ searching = searchAwaited
    /\ mutationActive <=> \E m \in mutations : m.current
    /\ \A m, n \in mutations : m.current /\ n.current => m = n /\ m.id = deckRoute
    /\ deck.rev >= acknowledged \/ overtaken
=============================================================================
