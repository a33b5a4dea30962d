----------------------------- MODULE ScanSession -----------------------------
(* A multi-card scanning session in the browser: MultiScanSession.tsx over the *)
(* pure session of multi-scan-session.ts.                                      *)
(*                                                                             *)
(* Photographs arrive, wait in a queue, and are recognized one at a time while *)
(* the member corrects, confirms, retakes and removes cards, and a save pass    *)
(* posts the confirmed ones. Nothing stops these from overlapping: a pass works *)
(* on the cards as they were when it began, a recognition on the photograph it  *)
(* was started with.                                                           *)
EXTENDS Integers, SequencesExt

CONSTANTS Photos,         \* object URLs; a capture takes a fresh one
          Printings, Searches,  \* printings, and the sets of them that a search can offer
          NoPrinting, NoPhoto, NoJob, NoPass,
          MaximumItems,   \* 250 in the code
          MaxQueue,       \* bound: recognitions waiting
          MaxLost         \* bound: answers about one card lost after the server has added it

ASSUME SessionAssumption ==
  /\ NoPrinting \notin Printings /\ NoPhoto \notin Photos /\ Searches \subseteq SUBSET Printings
  /\ NoJob \notin [id : Photos, photo : Photos, current : BOOLEAN]
  /\ MaximumItems \in Nat \ {0} /\ MaxQueue \in Nat /\ MaxLost \in Nat

VARIABLES
  items,      \* the session's cards, in order of capture
  retakeId,   \* the card whose replacement is awaited
  asked,      \* history: the cards whose replacement has ever been awaited
  queue,      \* recognitions to come: the promise chain
  running,    \* the recognition under way
  pass,       \* the save pass: what is left to post, the first being in flight, by
              \* its position in the session as it was when the pass began
  itemUrls,       \* object URLs not revoked
  used,       \* photographs taken
  added,      \* how often the server has added the card
  lost,       \* how often such an addition was not answered
  open        \* the component is mounted

sessionVars == <<items, retakeId, asked, queue, running, pass, itemUrls, used, added, lost, open>>

Statuses == {"queued", "recognizing", "review", "ready", "saving", "error"}
\* `agreed`, `failed` and `of` are history: the printing, finish, condition and
\* quantity are those the member last confirmed; a save has failed since; and which
\* photograph the candidates are of. The finish, condition and quantity themselves
\* are told apart only by `agreed`.
Item == [id : Photos, photo : Photos, status : Statuses, candidates : SUBSET Printings,
         printing : Printings \cup {NoPrinting}, confirmed : BOOLEAN,
         agreed : BOOLEAN, failed : BOOLEAN,
         of : Photos \cup {NoPhoto}]

\* A recognition: `current` is its generation still being the card's.
Recognition == [id : Photos, photo : Photos, current : BOOLEAN]

SessionTypeOK ==
  /\ items \in Seq(Item) /\ Len(items) <= MaximumItems
  /\ retakeId \in Photos \cup {NoPhoto} /\ asked \subseteq Photos
  /\ queue \in Seq([id : Photos, photo : Photos]) /\ Len(queue) <= MaxQueue
  /\ running \in Recognition \cup {NoJob}
  /\ pass = NoPass \/ (pass.saved \in BOOLEAN /\ DOMAIN pass.todo \subseteq 1..MaximumItems)
  /\ itemUrls \subseteq used /\ used \subseteq Photos
  /\ added \in [Photos -> 0..MaxLost + 1] /\ lost \in [Photos -> 0..MaxLost]
  /\ open \in BOOLEAN

-----------------------------------------------------------------------------
(* The session as a value.                                                 *)

Captured(p) ==
  [id |-> p, photo |-> p, status |-> "queued", candidates |-> {}, printing |-> NoPrinting,
   confirmed |-> FALSE, agreed |-> FALSE, failed |-> FALSE, of |-> NoPhoto]

Position(id) == {n \in DOMAIN items : items[n].id = id}
InSession(id) == Position(id) # {}
Card(id) == items[CHOOSE n \in Position(id) : TRUE]

\* updateSessionItem: a card that is no longer in the session is left alone.
Updated(s, id, Change(_)) == [n \in DOMAIN s |-> IF s[n].id = id THEN Change(s[n]) ELSE s[n]]

\* removeSessionItem: no other card has its id.
Without(s, id) ==
  LET gone == {n \in DOMAIN s : s[n].id = id}
  IN IF gone = {} THEN s ELSE RemoveAt(s, CHOOSE n \in gone : TRUE)

CanConfirm(i) == i.status # "saving" /\ i.printing # NoPrinting

Confirmed(i) ==
  [i EXCEPT !.confirmed = TRUE, !.status = "ready", !.agreed = TRUE, !.failed = FALSE]
Unconfirmed(i) == [i EXCEPT !.confirmed = FALSE, !.agreed = FALSE]

Replaced(i, p) ==
  [Unconfirmed(i) EXCEPT !.photo = p, !.status = "queued", !.candidates = {}, !.printing = NoPrinting,
                         !.of = NoPhoto]

Recognizing(i) ==
  [Unconfirmed(i) EXCEPT !.status = "recognizing", !.candidates = {}, !.printing = NoPrinting,
                         !.of = NoPhoto]

-----------------------------------------------------------------------------
(* Capturing and the recognition queue.                                    *)

Enqueue(id, p) ==
  /\ Len(queue) < MaxQueue
  /\ queue' = Append(queue, [id |-> id, photo |-> p])

\* receiveScan, with the card whose replacement was awaited when the reading of the
\* photograph began: the page may have been drawn again since, awaiting another or none.
Replacing == asked \cup {NoPhoto}

\* A photograph of a new card.
ReceiveScan(p) ==
  /\ open /\ p \notin used
  /\ Len(items) < MaximumItems
  /\ items' = Append(items, Captured(p))
  /\ itemUrls' = itemUrls \cup {p} /\ used' = used \cup {p}
  /\ Enqueue(p, p)
  /\ UNCHANGED <<retakeId, asked, running, pass, added, lost, open>>

\* Mutant: the replacement is not recognized.
ReceiveRetakeUnread(p, replacing) ==
  /\ open /\ p \notin used /\ replacing \in asked /\ InSession(replacing)
  /\ items' = Updated(items, replacing, LAMBDA i : Replaced(i, p))
  /\ itemUrls' = (itemUrls \cup {p}) \ {Card(replacing).photo} /\ used' = used \cup {p}
  /\ retakeId' = NoPhoto
  /\ UNCHANGED <<asked, queue, running, pass, added, lost, open>>

\* A photograph for the card to be retaken; its recognition under way goes on.
ReceiveRetake(p, replacing) ==
  /\ open /\ p \notin used /\ replacing \in asked /\ InSession(replacing)
  /\ items' = Updated(items, replacing, LAMBDA i : Replaced(i, p))
  /\ itemUrls' = (itemUrls \cup {p}) \ {Card(replacing).photo} /\ used' = used \cup {p}
  /\ retakeId' = NoPhoto
  /\ Enqueue(replacing, p)
  /\ UNCHANGED <<asked, running, pass, added, lost, open>>

\* The card to be retaken is gone, or the session is full: the photograph is dropped.
DropScan(p, replacing) ==
  /\ open /\ p \notin used
  /\ \/ replacing = NoPhoto /\ Len(items) >= MaximumItems /\ retakeId' = retakeId
     \/ replacing \in asked /\ ~InSession(replacing) /\ retakeId' = NoPhoto
  /\ used' = used \cup {p}
  /\ UNCHANGED <<items, asked, queue, running, pass, itemUrls, added, lost, open>>

\* "Retry recognition" and "Search this title" queue the selected card again.
RetryRecognition(id) ==
  /\ open /\ InSession(id)
  /\ Enqueue(id, Card(id).photo)
  /\ UNCHANGED <<items, retakeId, asked, running, pass, itemUrls, used, added, lost, open>>

StartRecognition ==
  /\ running = NoJob /\ queue # <<>>
  /\ running' = [id |-> Head(queue).id, photo |-> Head(queue).photo, current |-> TRUE]
  /\ queue' = Tail(queue)
  /\ items' = Updated(items, Head(queue).id, Recognizing)
  /\ UNCHANGED <<retakeId, asked, pass, itemUrls, used, added, lost, open>>

\* The readings and searches end: with candidates, one of them preselected when
\* the hints name it, or with none. A superseded recognition says nothing.
FinishRecognition(found, printing) ==
  /\ running # NoJob
  /\ printing \in found \cup {NoPrinting}
  /\ items' = IF running.current
              THEN Updated(items, running.id,
                     LAMBDA i : [i EXCEPT !.candidates = found, !.printing = printing,
                                          !.of = running.photo, !.status = "review"])
              ELSE items
  /\ running' = NoJob
  /\ UNCHANGED <<retakeId, asked, queue, pass, itemUrls, used, added, lost, open>>

\* Mutant: a failure leaves the card as it is.
FailRecognitionSilently ==
  /\ running # NoJob /\ running' = NoJob
  /\ UNCHANGED <<items, retakeId, asked, queue, pass, itemUrls, used, added, lost, open>>

\* A service fails, or the ninety seconds are over.
FailRecognition ==
  /\ running # NoJob
  /\ items' = IF running.current
              THEN Updated(items, running.id, LAMBDA i : [i EXCEPT !.status = "error"]) ELSE items
  /\ running' = NoJob
  /\ UNCHANGED <<retakeId, asked, queue, pass, itemUrls, used, added, lost, open>>

-----------------------------------------------------------------------------
(* The member at the editor.                                               *)

Edit(id, Change(_)) ==
  /\ open /\ InSession(id)
  /\ items' = Updated(items, id, Change)
  /\ UNCHANGED <<retakeId, asked, queue, running, pass, itemUrls, used, added, lost, open>>

RetakeSelected(id) ==
  /\ open /\ InSession(id)
  /\ retakeId' = id /\ asked' = asked \cup {id}
  /\ UNCHANGED <<items, queue, running, pass, itemUrls, used, added, lost, open>>

RemoveSelected(id) ==
  /\ open /\ InSession(id)
  /\ items' = Without(items, id)
  /\ itemUrls' = itemUrls \ {Card(id).photo}
  /\ running' = IF running # NoJob /\ running.id = id THEN NoJob ELSE running
  /\ UNCHANGED <<retakeId, asked, queue, pass, used, added, lost, open>>

\* The title, or a filter of the candidates, is edited: a filter drops the choice.
EditTitle(id) == Edit(id, Unconfirmed)
EditFilter(id) ==
  /\ InSession(id) /\ Card(id).candidates # {}
  /\ Edit(id, LAMBDA i : [Unconfirmed(i) EXCEPT !.printing = NoPrinting])

ChooseCandidate(id, printing) ==
  /\ InSession(id) /\ printing \in Card(id).candidates
  /\ Edit(id, LAMBDA i : [Unconfirmed(i) EXCEPT !.printing = printing, !.status = "review"])

\* The confirmation fieldset is there only for a selected printing.
FieldsetShown(id) == InSession(id) /\ Card(id).printing \in Card(id).candidates

\* Mutant: the confirmation stands when the details change.
EditDetailsConfirmed(id) == FieldsetShown(id) /\ Edit(id, LAMBDA i : [i EXCEPT !.agreed = FALSE])

\* Finish, condition or quantity.
EditDetails(id) == FieldsetShown(id) /\ Edit(id, Unconfirmed)

ToReview(i) == [Unconfirmed(i) EXCEPT !.status = "review"]

ConfirmSelected(id) == FieldsetShown(id) /\ ~Card(id).confirmed /\ Edit(id, Confirmed)
UnconfirmSelected(id) == FieldsetShown(id) /\ Card(id).confirmed /\ Edit(id, ToReview)

\* "Confirm all scanned cards": a box that is checked when all of them are.
ConfirmAll ==
  LET confirmable == {n \in DOMAIN items : CanConfirm(items[n])}
      all == \A n \in confirmable : items[n].confirmed
  IN
  /\ open /\ \E id \in Photos : FieldsetShown(id)
  /\ confirmable # {}
  /\ items' = [n \in DOMAIN items |-> IF n \notin confirmable THEN items[n]
                                     ELSE IF all THEN ToReview(items[n]) ELSE Confirmed(items[n])]
  /\ UNCHANGED <<retakeId, asked, queue, running, pass, itemUrls, used, added, lost, open>>

-----------------------------------------------------------------------------
(* The save pass.                                                          *)

Ready(i) == i.confirmed /\ i.status = "ready"
\* What a pass keeps of a card: it posts this, whatever becomes of the card.
ToPost(i) == [id |-> i.id, photo |-> i.photo, printing |-> i.printing,
              agreed |-> i.agreed, failed |-> i.failed]

\* The card in flight is the first of those left; the rest follow.
InFlight(todo) == {todo[n] : n \in {n \in DOMAIN todo : \A m \in DOMAIN todo : n <= m}}
Rest(todo) == [n \in {n \in DOMAIN todo : \E m \in DOMAIN todo : m < n} |-> todo[n]]

Sending(s, todo) ==
  [n \in DOMAIN s |-> IF \E card \in InFlight(todo) : card.id = s[n].id
                      THEN [s[n] EXCEPT !.status = "saving"] ELSE s[n]]

SaveConfirmed ==
  /\ open /\ pass = NoPass /\ \E id \in Photos : FieldsetShown(id)
  /\ LET ready == {n \in DOMAIN items : Ready(items[n])}
         todo == [n \in ready |-> ToPost(items[n])]
     IN
     /\ ready # {}
     /\ pass' = [todo |-> todo, saved |-> FALSE]
     /\ items' = Sending(items, todo)
  /\ UNCHANGED <<retakeId, asked, queue, running, itemUrls, used, added, lost, open>>

\* Mutant: a saved card stays in the session.
PostSavedKeeps ==
  /\ pass # NoPass
  /\ \E card \in InFlight(pass.todo) :
       /\ card.printing # NoPrinting
       /\ items' = Sending(items, Rest(pass.todo))
       /\ added' = [added EXCEPT ![card.id] = @ + 1]
  /\ pass' = [todo |-> Rest(pass.todo), saved |-> TRUE]
  /\ UNCHANGED <<retakeId, asked, queue, running, itemUrls, used, lost, open>>

\* The server has added the card and says so: the card leaves the session.
PostSaved ==
  /\ pass # NoPass
  /\ \E card \in InFlight(pass.todo) :
       /\ card.printing # NoPrinting
       /\ items' = Sending(Without(items, card.id), Rest(pass.todo))
       /\ itemUrls' = itemUrls \ {card.photo}
       /\ running' = IF running # NoJob /\ running.id = card.id
                     THEN [running EXCEPT !.current = FALSE] ELSE running
       /\ added' = [added EXCEPT ![card.id] = @ + 1]
  /\ pass' = [todo |-> Rest(pass.todo), saved |-> TRUE]
  /\ UNCHANGED <<retakeId, asked, queue, used, lost, open>>

\* The request fails: refused, or never answered though the card was added.
PostFailed(unanswered) ==
  /\ pass # NoPass
  /\ \E card \in InFlight(pass.todo) :
       /\ unanswered => card.printing # NoPrinting /\ lost[card.id] < MaxLost
       /\ items' = Sending(Updated(items, card.id, LAMBDA i :
                             [i EXCEPT !.status = "ready", !.confirmed = TRUE, !.failed = TRUE]),
                           Rest(pass.todo))
       /\ lost' = IF unanswered THEN [lost EXCEPT ![card.id] = @ + 1] ELSE lost
       /\ added' = IF unanswered THEN [added EXCEPT ![card.id] = @ + 1] ELSE added
  /\ pass' = [todo |-> Rest(pass.todo), saved |-> pass.saved]
  /\ UNCHANGED <<retakeId, asked, queue, running, itemUrls, used, open>>

\* The summary, when something was saved, and the end of the pass.
FinishPass ==
  /\ pass # NoPass /\ DOMAIN pass.todo = {}
  /\ pass' = NoPass
  /\ UNCHANGED <<items, retakeId, asked, queue, running, itemUrls, used, added, lost, open>>

\* Leaving: requests are aborted and photographs freed; a pass goes on to its end.
LeaveSession ==
  /\ open
  /\ open' = FALSE
  /\ items' = <<>> /\ retakeId' = NoPhoto
  /\ queue' = <<>> /\ running' = NoJob
  /\ itemUrls' = itemUrls \ {items[n].photo : n \in DOMAIN items}
  /\ UNCHANGED <<asked, pass, used, added, lost>>

-----------------------------------------------------------------------------
SessionInit ==
  /\ items = <<>> /\ retakeId = NoPhoto /\ asked = {}
  /\ queue = <<>> /\ running = NoJob /\ pass = NoPass
  /\ itemUrls = {} /\ used = {}
  /\ added = [p \in Photos |-> 0] /\ lost = [p \in Photos |-> 0]
  /\ open = TRUE

Recognize ==
  \/ \E found \in Searches : \E p \in found \cup {NoPrinting} : FinishRecognition(found, p)
  \/ FailRecognition

Editing ==
  \/ \E id \in Photos :
       \/ EditTitle(id) \/ EditFilter(id) \/ RetryRecognition(id) \/ RetakeSelected(id) \/ RemoveSelected(id)
       \/ \E p \in Printings : ChooseCandidate(id, p)
       \/ EditDetails(id) \/ ConfirmSelected(id) \/ UnconfirmSelected(id)
  \/ ConfirmAll

Saving == SaveConfirmed \/ PostSaved \/ (\E u \in BOOLEAN : PostFailed(u)) \/ FinishPass

SessionNext ==
  \/ \E p \in Photos : \/ ReceiveScan(p)
                      \/ \E replacing \in Replacing : ReceiveRetake(p, replacing) \/ DropScan(p, replacing)
  \/ StartRecognition \/ Recognize
  \/ Editing
  \/ Saving
  \/ LeaveSession

SessionSpec == SessionInit /\ [][SessionNext]_sessionVars

-----------------------------------------------------------------------------
(* Properties.                                                             *)

\* A card in the state that "Add confirmed cards" posts, and a card being posted,
\* is the very printing in the very quantity the member confirmed, unless an
\* earlier attempt to save it failed.
ConfirmedAsShown ==
  LET ready == {i \in Range(items) : Ready(i)}
      posted == IF pass = NoPass THEN {} ELSE Range(pass.todo)
  IN \A i \in ready \cup posted : i.agreed \/ i.failed

\* A captured card is added to the collection once, plus once for every answer
\* that was lost.
AddedOnce == \A p \in Photos : added[p] <= lost[p] + 1

\* The candidates beside a photograph are those of that photograph, unless it has
\* just been retaken and its own recognition is still to come.
CandidatesOfPhoto ==
  \A n \in DOMAIN items :
    items[n].candidates # {} =>
      \/ items[n].of = items[n].photo
      \/ \E m \in DOMAIN queue : queue[m] = [id |-> items[n].id, photo |-> items[n].photo]

\* A card that waits for recognition will get it: a recognition of it is queued, or
\* is running and still current.
NeverStranded ==
  \A i \in Range(items) :
    i.status \in {"queued", "recognizing"} =>
      \/ running # NoJob /\ running.id = i.id /\ running.current
      \/ \E n \in DOMAIN queue : queue[n].id = i.id
=============================================================================
