-------------------------- MODULE WebScannerProofs --------------------------
(* Theorems of the scanner's parts: the scanning session, the simulated feeder, *)
(* the automatic capture and the page of a single scan, for any photographs,    *)
(* printings and settings; and of the page that shows them.                     *)
EXTENDS MCWebScanner, CardScannerProofs, SequenceTheorems

-----------------------------------------------------------------------------
(* The scanning session.                                                   *)

Waiting == {"queued", "recognizing"}
Scan == [id : Photos, photo : Photos]

\* A recognition of the card is under way and still current.
Runs(id) == running # NoJob /\ running.id = id /\ running.current
\* A recognition of the card's photograph is queued, at m or later.
Queued(i, m) == \E k \in DOMAIN queue : k >= m /\ queue[k] = [id |-> i.id, photo |-> i.photo]

\* What is known of a card: what the session shows of it is the member's or will be
\* recognized, and a recognition of an older photograph is followed by another.
CardSound(i) ==
  /\ i.id \in used
  /\ Ready(i) => i.agreed \/ i.failed
  /\ i.candidates # {} => i.of = i.photo \/ Queued(i, 1)
  /\ i.status \in Waiting => Runs(i.id) \/ \E m \in DOMAIN queue : queue[m].id = i.id
  /\ \A m \in DOMAIN queue : queue[m].id = i.id => queue[m].photo = i.photo \/ Queued(i, m + 1)
  /\ running # NoJob /\ running.id = i.id => running.photo = i.photo \/ Queued(i, 1)

CardsInv ==
  /\ items \in Seq(Item) /\ used \subseteq Photos
  /\ queue \in Seq(Scan) /\ running \in Recognition \cup {NoJob}
  /\ \A m, n \in DOMAIN items : items[m].id = items[n].id => m = n
  /\ \A n \in DOMAIN items : CardSound(items[n])

Post == [id : Photos, photo : Photos, printing : Printings \cup {NoPrinting}, agreed : BOOLEAN, failed : BOOLEAN]

\* What a pass has left to post: cards of their own, as the member confirmed them.
PassInv ==
  pass # NoPass =>
    /\ DOMAIN pass.todo \subseteq Nat
    /\ \A n \in DOMAIN pass.todo : /\ pass.todo[n] \in Post /\ pass.todo[n].id \in used
                                   /\ pass.todo[n].agreed \/ pass.todo[n].failed
    /\ \A m, n \in DOMAIN pass.todo : pass.todo[m].id = pass.todo[n].id => m = n

\* The card may still be posted: it is in the session or left to the pass.
Postable(p) == \/ \E n \in DOMAIN items : items[n].id = p
               \/ pass # NoPass /\ \E n \in DOMAIN pass.todo : pass.todo[n].id = p

\* A card that may still be posted, or was not captured yet, has not been added but for
\* the answers that were lost.
AddedInv ==
  /\ added \in [Photos -> Nat] /\ lost \in [Photos -> Nat]
  /\ \A p \in Photos : /\ added[p] <= lost[p] + 1
                       /\ Postable(p) \/ p \notin used => added[p] <= lost[p]

SessionInv == CardsInv /\ PassInv /\ AddedInv

-----------------------------------------------------------------------------
(* Cards.                                                                  *)

\* A card that is changed but for its photograph, and not made to wait.
Kept(i, j) ==
  /\ j \in Item /\ j.id = i.id /\ j.photo = i.photo
  /\ j.candidates = {} \/ (j.candidates = i.candidates /\ j.of = i.of)
  /\ Ready(j) => j.agreed \/ j.failed
  /\ j.status \in Waiting => i.status \in Waiting

\* Such a card remains sound while its recognitions go on.
LEMMA KeptIsSound ==
  ASSUME NEW i, NEW j, CardSound(i), Kept(i, j), used \subseteq used', queue' = queue,
         running' # NoJob => running # NoJob /\ running'.id = running.id /\ running'.photo = running.photo,
         j.status \in Waiting /\ Runs(j.id) => Runs(j.id)'
  PROVE  CardSound(j)'
BY DEF CardSound, Kept, Queued, Ready

\* The changes a member or a pass makes to a card.
LEMMA ChangesKeep ==
  ASSUME NEW i \in Item, Ready(i) => i.agreed \/ i.failed
  PROVE  /\ Kept(i, i) /\ Kept(i, Unconfirmed(i)) /\ Kept(i, Confirmed(i)) /\ Kept(i, ToReview(i))
         /\ Kept(i, [Unconfirmed(i) EXCEPT !.printing = NoPrinting])
         /\ \A p \in Printings : Kept(i, [Unconfirmed(i) EXCEPT !.printing = p, !.status = "review"])
         /\ Kept(i, [i EXCEPT !.status = "saving"])
         /\ Kept(i, [i EXCEPT !.status = "error"])
         /\ Kept(i, [i EXCEPT !.status = "ready", !.confirmed = TRUE, !.failed = TRUE])
<1>1. Kept(i, i)
  BY DEF Kept
<1>2. Kept(i, Unconfirmed(i))
  BY DEF Kept, Unconfirmed, Item, Ready
<1>3. Kept(i, Confirmed(i))
  BY DEF Kept, Confirmed, Item, Ready, Statuses, Waiting
<1>4. Kept(i, ToReview(i))
  BY DEF Kept, ToReview, Unconfirmed, Item, Ready, Statuses, Waiting
<1>5. Kept(i, [Unconfirmed(i) EXCEPT !.printing = NoPrinting])
  BY DEF Kept, Unconfirmed, Item, Ready
<1>6. ASSUME NEW p \in Printings PROVE Kept(i, [Unconfirmed(i) EXCEPT !.printing = p, !.status = "review"])
  BY DEF Kept, Unconfirmed, Item, Ready, Statuses, Waiting
<1>7. Kept(i, [i EXCEPT !.status = "saving"]) /\ Kept(i, [i EXCEPT !.status = "error"])
  BY DEF Kept, Item, Ready, Statuses, Waiting
<1>8. Kept(i, [i EXCEPT !.status = "ready", !.confirmed = TRUE, !.failed = TRUE])
  BY DEF Kept, Item, Ready, Statuses, Waiting
<1>9. QED
  BY <1>1, <1>2, <1>3, <1>4, <1>5, <1>6, <1>7, <1>8

\* The cards of s, which are of the session, are changed one by one.
LEMMA PointwiseKeeps ==
  ASSUME CardsInv, NEW s \in Seq(Item), \A m, n \in DOMAIN s : s[m].id = s[n].id => m = n,
         \A n \in DOMAIN s : \E m \in DOMAIN items : s[n] = items[m],
         items' = [n \in DOMAIN s |-> items'[n]], \A n \in DOMAIN s : Kept(s[n], items'[n]),
         used' = used, queue' = queue, running' \in Recognition \cup {NoJob},
         running' # NoJob => running # NoJob /\ running'.id = running.id /\ running'.photo = running.photo,
         \A n \in DOMAIN s : items'[n].status \in Waiting /\ Runs(s[n].id) => Runs(s[n].id)'
  PROVE  CardsInv'
<1>1. items' \in Seq(Item)
  BY DEF Kept
<1>2. DOMAIN items' = DOMAIN s /\ \A n \in DOMAIN s : items'[n].id = s[n].id
  BY DEF Kept
<1>3. ASSUME NEW n \in DOMAIN s PROVE CardSound(items[n])'
  <2>1. CardSound(s[n]) /\ Kept(s[n], items'[n])
    BY <1>3 DEF CardsInv
  <2>2. PICK j : j = items'[n]
    OBVIOUS
  <2>3. j.id = s[n].id
    BY <1>2, <2>2
  <2>4. CardSound(j)'
    BY <1>3, <2>1, <2>2, <2>3, KeptIsSound
  <2>5. QED
    BY <2>2, <2>4 DEF CardSound, Ready, Runs, Queued
<1>4. QED
  BY <1>1, <1>2, <1>3 DEF CardsInv

\* removeSessionItem takes the one card out, and only that.
LEMMA WithoutOne ==
  ASSUME CardsInv, NEW id
  PROVE  LET s == Without(items, id) IN
         /\ s \in Seq(Item)
         /\ \A m, n \in DOMAIN s : s[m].id = s[n].id => m = n
         /\ \A n \in DOMAIN s : s[n].id # id /\ \E m \in DOMAIN items : s[n] = items[m]
<1> DEFINE gone == {n \in DOMAIN items : items[n].id = id}
<1>1. items \in Seq(Item) /\ \A m, n \in DOMAIN items : items[m].id = items[n].id => m = n
  BY DEF CardsInv
<1>2. CASE gone = {}
  BY <1>1, <1>2 DEF Without
<1>3. CASE gone # {}
  <2>1. PICK k : k = CHOOSE n \in gone : TRUE
    OBVIOUS
  <2>2. k \in 1..Len(items) /\ items[k].id = id
    BY <1>1, <1>3, <2>1
  <2>3. PICK s : s = RemoveAt(items, k)
    OBVIOUS
  <2>4. PICK a, b : a = SubSeq(items, 1, k - 1) /\ b = SubSeq(items, k + 1, Len(items))
    OBVIOUS
  <2>5. /\ a \in Seq(Item) /\ Len(a) = k - 1 /\ \A n \in 1..k - 1 : a[n] = items[n]
        /\ b \in Seq(Item) /\ Len(b) = Len(items) - k /\ \A n \in 1..Len(items) - k : b[n] = items[k + n]
    <3>1. \A n \in 1..Len(items) : items[n] \in Item
      BY <1>1
    <3>2. /\ a \in Seq(Item) /\ Len(a) = IF 1 <= k - 1 THEN k - 1 - 1 + 1 ELSE 0
          /\ \A n \in 1..k - 1 - 1 + 1 : a[n] = items[1 + n - 1]
      BY <2>2, <2>4, <3>1, SubSeqProperties
    <3>3. /\ b \in Seq(Item)
          /\ Len(b) = IF k + 1 <= Len(items) THEN Len(items) - (k + 1) + 1 ELSE 0
          /\ \A n \in 1..Len(items) - (k + 1) + 1 : b[n] = items[k + 1 + n - 1]
      BY <1>1, <2>2, <2>4, <3>1, SubSeqProperties
    <3>4. k \in Int /\ Len(items) \in Int /\ 1 <= k /\ k <= Len(items)
      BY <1>1, <2>2
    <3>5. Len(a) = k - 1 /\ \A n \in 1..k - 1 : a[n] = items[n]
      BY <3>2, <3>4
    <3>6. Len(b) = Len(items) - k /\ \A n \in 1..Len(items) - k : b[n] = items[k + n]
      BY <3>3, <3>4
    <3>7. QED
      BY <3>2, <3>3, <3>5, <3>6
  <2>6. s = a \o b
    BY <2>3, <2>4 DEF RemoveAt
  <2>7. /\ s \in Seq(Item) /\ Len(s) = Len(items) - 1
        /\ \A n \in 1..Len(s) : s[n] = IF n < k THEN items[n] ELSE items[n + 1]
    <3>1. k \in Int /\ Len(items) \in Int /\ 1 <= k /\ k <= Len(items)
      BY <1>1, <2>2
    <3>2. /\ s \in Seq(Item) /\ Len(s) = Len(a) + Len(b)
          /\ \A n \in 1..Len(a) + Len(b) : s[n] = IF n <= Len(a) THEN a[n] ELSE b[n - Len(a)]
      BY <2>5, <2>6, ConcatProperties
    <3>3. Len(s) = Len(items) - 1
      BY <2>5, <3>1, <3>2
    <3>4. ASSUME NEW n \in 1..Len(s) PROVE s[n] = IF n < k THEN items[n] ELSE items[n + 1]
      <4>1. CASE n < k
        BY <2>5, <3>1, <3>2, <4>1
      <4>2. CASE ~(n < k)
        <5>1. s[n] = b[n - Len(a)] /\ n - Len(a) \in 1..Len(items) - k
          BY <2>5, <3>1, <3>2, <3>3, <4>2
        <5>2. QED
          BY <2>5, <3>1, <4>2, <5>1
      <4>3. QED
        BY <4>1, <4>2
    <3>5. QED
      BY <3>2, <3>3, <3>4
  <2> DEFINE From(n) == IF n < k THEN n ELSE n + 1
  <2>8. ASSUME NEW n \in DOMAIN s PROVE From(n) \in DOMAIN items /\ From(n) # k /\ s[n] = items[From(n)]
    <3>1. n \in 1..Len(s) /\ DOMAIN items = 1..Len(items) /\ Len(items) \in Nat
      BY <1>1, <2>7, LenProperties
    <3>2. s[n] = items[From(n)]
      BY <2>7, <3>1
    <3>3. From(n) \in 1..Len(items) /\ From(n) # k
      BY <2>2, <2>7, <3>1
    <3>4. QED
      BY <3>1, <3>2, <3>3
  <2>9. ASSUME NEW m \in DOMAIN s, NEW n \in DOMAIN s, s[m].id = s[n].id PROVE m = n
    <3>1. From(m) = From(n)
      BY <1>1, <2>8, <2>9
    <3>2. m \in Int /\ n \in Int /\ k \in Int
      BY <2>2, <2>7, LenProperties
    <3>3. QED
      BY <3>1, <3>2
  <2>10. Without(items, id) = s
    BY <1>3, <2>1, <2>3 DEF Without
  <2>11. \A n \in DOMAIN s : s[n].id # id /\ \E m \in DOMAIN items : s[n] = items[m]
    BY <1>1, <2>2, <2>8
  <2>12. QED
    BY <2>7, <2>9, <2>10, <2>11
<1>4. QED
  BY <1>2, <1>3

-----------------------------------------------------------------------------
(* Cards, passes and additions together.                                   *)

\* Nothing is posted, and no card may be posted that could not be before.
LEMMA NothingAdded ==
  ASSUME AddedInv, added' = added, lost' = lost, used \subseteq used',
         \A p \in Photos : Postable(p)' => Postable(p) \/ p \notin used
  PROVE  AddedInv'
BY DEF AddedInv

\* A pass that goes on, or is over.
LEMMA PassKept ==
  ASSUME PassInv, pass' = pass, used \subseteq used'
  PROVE  PassInv'
BY DEF PassInv

\* Cards are changed one by one, and nothing else is but the text around them.
LEMMA EditKeeps ==
  ASSUME SessionInv, items' = [n \in DOMAIN items |-> items'[n]],
         \A n \in DOMAIN items : Kept(items[n], items'[n]),
         UNCHANGED <<queue, running, pass, used, added, lost>>
  PROVE  SessionInv'
<1>1. CardsInv /\ PassInv /\ AddedInv
  BY DEF SessionInv
<1>2. /\ items \in Seq(Item) /\ \A m, n \in DOMAIN items : items[m].id = items[n].id => m = n
      /\ running \in Recognition \cup {NoJob}
  BY <1>1 DEF CardsInv
<1>3. \A n \in DOMAIN items : Runs(items[n].id) => Runs(items[n].id)'
  BY DEF Runs, Kept
<1>4. CardsInv'
  <2>1. PICK s : s = items
    OBVIOUS
  <2>2. \A n \in DOMAIN s : items'[n].status \in Waiting /\ Runs(s[n].id) => Runs(s[n].id)'
    BY <2>1 DEF Runs
  <2>3. QED
    BY <1>1, <1>2, <2>1, <2>2, PointwiseKeeps
<1>5. \A p \in Photos : Postable(p)' => Postable(p)
  BY DEF Postable, Kept
<1>6. QED
  BY <1>1, <1>4, <1>5, NothingAdded, PassKept DEF SessionInv

\* A recognition of a card's photograph, or of another card's, is queued.
LEMMA QueueGrows ==
  ASSUME NEW i, CardSound(i), queue \in Seq(Scan), NEW e \in Scan, queue' = Append(queue, e),
         e.id = i.id => e.photo = i.photo, used \subseteq used', running' = running
  PROVE  CardSound(i)'
<1>1. /\ DOMAIN queue' = 1..Len(queue) + 1 /\ DOMAIN queue = 1..Len(queue) /\ Len(queue) \in Nat
      /\ \A k \in DOMAIN queue : queue'[k] = queue[k] /\ queue'[Len(queue) + 1] = e
  OBVIOUS
<1>2. \A m \in Int : Queued(i, m) => Queued(i, m)'
  BY <1>1 DEF Queued
<1>3. ASSUME NEW m \in DOMAIN queue', queue'[m].id = i.id
      PROVE  queue'[m].photo = i.photo \/ Queued(i, m + 1)'
  <2>1. CASE m \in DOMAIN queue
    BY <1>1, <1>2, <1>3, <2>1 DEF CardSound
  <2>2. CASE m = Len(queue) + 1
    BY <1>1, <1>3, <2>2
  <2>3. QED
    BY <1>1, <2>1, <2>2
<1>4. \A m \in DOMAIN queue : m \in DOMAIN queue' /\ queue'[m].id = queue[m].id
  BY <1>1
<1>5. QED
  BY <1>2, <1>3, <1>4 DEF CardSound, Ready, Runs

\* A card whose photograph is new waits for the recognition that is queued with it.
LEMMA QueuedWithPhoto ==
  ASSUME NEW j, j.id \in used', ~Ready(j), j.candidates = {}, queue \in Seq(Scan),
         NEW e \in Scan, e = [id |-> j.id, photo |-> j.photo], queue' = Append(queue, e)
  PROVE  CardSound(j)'
<1>1. /\ DOMAIN queue' = 1..Len(queue) + 1 /\ Len(queue) \in Nat
      /\ queue'[Len(queue) + 1] = e
  OBVIOUS
<1>2. \A m \in 1..Len(queue) + 1 : Queued(j, m)'
  BY <1>1 DEF Queued
<1>3. \A m \in DOMAIN queue' : queue'[m].id = j.id => queue'[m].photo = j.photo \/ Queued(j, m + 1)'
  BY <1>1, <1>2
<1>4. Queued(j, 1)' /\ \E m \in DOMAIN queue' : queue'[m].id = j.id
  BY <1>1, <1>2
<1>5. QED
  BY <1>3, <1>4 DEF CardSound, Ready, Runs

\* "Retry recognition" and "Search this title".
LEMMA RetryKeeps ==
  ASSUME SessionInv, NEW id \in Photos, RetryRecognition(id)
  PROVE  SessionInv'
<1>1. CardsInv /\ PassInv /\ AddedInv
  BY DEF SessionInv
<1>2. PICK k \in DOMAIN items : items[k].id = id /\ Card(id) = items[k]
  BY DEF RetryRecognition, InSession, Position, Card
<1>3. PICK e : e = [id |-> id, photo |-> items[k].photo]
  OBVIOUS
<1>4. /\ queue' = Append(queue, e)
      /\ UNCHANGED <<items, retakeId, running, pass, itemUrls, used, added, lost, open>>
  BY <1>2, <1>3 DEF RetryRecognition, Enqueue
<1>5. e \in Scan /\ queue \in Seq(Scan)
  <2>1. items[k] \in Item
    BY <1>1, <1>2 DEF CardsInv
  <2>2. items[k].photo \in Photos
    BY <2>1 DEF Item
  <2>3. QED
    BY <1>1, <1>3, <2>2 DEF CardsInv, Scan
<1>6. ASSUME NEW n \in DOMAIN items PROVE CardSound(items[n])'
  <2>1. PICK i : i = items[n]
    OBVIOUS
  <2>2. e.id = i.id => e.photo = i.photo
    BY <1>1, <1>2, <1>3, <1>6, <2>1 DEF CardsInv
  <2>3. CardSound(i)
    BY <1>1, <1>6, <2>1 DEF CardsInv
  <2>4. CardSound(i)'
    BY <1>4, <1>5, <2>2, <2>3, QueueGrows
  <2>5. QED
    BY <1>4, <2>1, <2>4 DEF CardSound, Ready, Runs, Queued
<1>7. CardsInv'
  BY <1>1, <1>4, <1>5, <1>6 DEF CardsInv
<1>8. \A p \in Photos : Postable(p)' => Postable(p)
  BY <1>4 DEF Postable
<1>9. QED
  BY <1>1, <1>4, <1>7, <1>8, NothingAdded, PassKept DEF SessionInv

\* A removed card is recognized no more.
LEMMA RemoveKeeps ==
  ASSUME SessionInv, NEW id \in Photos, RemoveSelected(id)
  PROVE  SessionInv'
<1>1. CardsInv /\ PassInv /\ AddedInv
  BY DEF SessionInv
<1>2. PICK s : s = Without(items, id)
  OBVIOUS
<1>3. /\ s \in Seq(Item) /\ \A m, n \in DOMAIN s : s[m].id = s[n].id => m = n
      /\ \A n \in DOMAIN s : s[n].id # id /\ \E m \in DOMAIN items : s[n] = items[m]
  BY <1>1, <1>2, WithoutOne
<1>4. /\ items' = s /\ running' = IF running # NoJob /\ running.id = id THEN NoJob ELSE running
      /\ UNCHANGED <<retakeId, queue, pass, used, added, lost, open>>
  BY <1>2 DEF RemoveSelected
<1>5. CardsInv'
  <2>1. \A n \in DOMAIN s : Kept(s[n], items'[n])
    <3>1. \A m \in DOMAIN items : items[m] \in Item /\ (Ready(items[m]) => items[m].agreed \/ items[m].failed)
      BY <1>1 DEF CardsInv, CardSound
    <3>2. \A m \in DOMAIN items : Kept(items[m], items[m])
      BY <3>1, ChangesKeep
    <3>3. QED
      BY <1>3, <1>4, <3>2
  <2>2. \A n \in DOMAIN s : Runs(s[n].id) => Runs(s[n].id)'
    BY <1>3, <1>4 DEF Runs
  <2>3. items' = [n \in DOMAIN s |-> items'[n]]
    BY <1>3, <1>4
  <2>4. running' \in Recognition \cup {NoJob}
    BY <1>1, <1>4 DEF CardsInv
  <2>5. QED
    BY <1>1, <1>3, <1>4, <2>1, <2>2, <2>3, <2>4, PointwiseKeeps
<1>6. \A p \in Photos : Postable(p)' => Postable(p)
  BY <1>3, <1>4 DEF Postable
<1>7. QED
  BY <1>1, <1>4, <1>5, <1>6, NothingAdded, PassKept DEF SessionInv

\* What the member does at the editor.
LEMMA EditingKeeps ==
  ASSUME SessionInv, Editing
  PROVE  SessionInv'
<1> DEFINE Same == UNCHANGED <<queue, running, pass, used, added, lost>>
<1>1. \A n \in DOMAIN items : items[n] \in Item /\ (Ready(items[n]) => items[n].agreed \/ items[n].failed)
  BY DEF SessionInv, CardsInv, CardSound
<1>2. ASSUME NEW id \in Photos, EditTitle(id) \/ EditDetails(id) PROVE SessionInv'
  <2>1. items' = [n \in DOMAIN items |-> IF items[n].id = id THEN Unconfirmed(items[n]) ELSE items[n]] /\ Same
    BY <1>2 DEF EditTitle, EditDetails, Edit, Updated
  <2>2. \A n \in DOMAIN items : Kept(items[n], items'[n])
    BY <1>1, <2>1, ChangesKeep
  <2>3. QED
    BY <2>1, <2>2, EditKeeps
<1>3. ASSUME NEW id \in Photos, EditFilter(id) PROVE SessionInv'
  <2>1. /\ items' = [n \in DOMAIN items |-> IF items[n].id = id
                                            THEN [Unconfirmed(items[n]) EXCEPT !.printing = NoPrinting]
                                            ELSE items[n]]
        /\ Same
    BY <1>3 DEF EditFilter, Edit, Updated
  <2>2. \A n \in DOMAIN items : Kept(items[n], items'[n])
    BY <1>1, <2>1, ChangesKeep
  <2>3. QED
    BY <2>1, <2>2, EditKeeps
<1>4. ASSUME NEW id \in Photos, NEW printing \in Printings, ChooseCandidate(id, printing) PROVE SessionInv'
  <2>1. items' = [n \in DOMAIN items |-> IF items[n].id = id THEN
                                                 [Unconfirmed(items[n]) EXCEPT !.printing = printing, !.status = "review"]
                              ELSE items[n]] /\ Same
    BY <1>4 DEF ChooseCandidate, Edit, Updated
  <2>2. \A n \in DOMAIN items : Kept(items[n], items'[n])
    BY <1>1, <2>1, ChangesKeep
  <2>3. QED
    BY <2>1, <2>2, EditKeeps
<1>5. ASSUME NEW id \in Photos, ConfirmSelected(id) PROVE SessionInv'
  <2>1. items' = [n \in DOMAIN items |-> IF items[n].id = id THEN Confirmed(items[n]) ELSE items[n]] /\ Same
    BY <1>5 DEF ConfirmSelected, Edit, Updated
  <2>2. \A n \in DOMAIN items : Kept(items[n], items'[n])
    BY <1>1, <2>1, ChangesKeep
  <2>3. QED
    BY <2>1, <2>2, EditKeeps
<1>6. ASSUME NEW id \in Photos, UnconfirmSelected(id) PROVE SessionInv'
  <2>1. items' = [n \in DOMAIN items |-> IF items[n].id = id THEN ToReview(items[n]) ELSE items[n]] /\ Same
    BY <1>6 DEF UnconfirmSelected, Edit, Updated
  <2>2. \A n \in DOMAIN items : Kept(items[n], items'[n])
    BY <1>1, <2>1, ChangesKeep
  <2>3. QED
    BY <2>1, <2>2, EditKeeps
<1>7. CASE ConfirmAll
  <2>1. PICK confirmable, all :
          /\ items' = [n \in DOMAIN items |-> IF n \notin confirmable THEN items[n]
                                              ELSE IF all THEN ToReview(items[n]) ELSE Confirmed(items[n])]
          /\ Same
    BY <1>7 DEF ConfirmAll
  <2>2. \A n \in DOMAIN items : Kept(items[n], items'[n])
    BY <1>1, <2>1, ChangesKeep
  <2>3. QED
    BY <2>1, <2>2, EditKeeps
<1>8. ASSUME NEW id \in Photos, RetakeSelected(id) PROVE SessionInv'
  BY <1>8 DEF RetakeSelected, SessionInv, CardsInv, CardSound, Runs, Queued, PassInv, AddedInv, Postable
<1>9. QED
  BY <1>2, <1>3, <1>4, <1>5, <1>6, <1>7, <1>8, RetryKeeps, RemoveKeeps DEF Editing

-----------------------------------------------------------------------------
(* Recognition.                                                            *)

\* The next recognition begins, with the photograph it was queued with.
LEMMA StartKeeps ==
  ASSUME SessionInv, StartRecognition
  PROVE  SessionInv'
<1>1. CardsInv /\ PassInv /\ AddedInv
  BY DEF SessionInv
<1>2. /\ items \in Seq(Item) /\ queue \in Seq(Scan) /\ queue # <<>> /\ running = NoJob
      /\ \A m, n \in DOMAIN items : items[m].id = items[n].id => m = n
      /\ \A n \in DOMAIN items : CardSound(items[n])
  BY <1>1 DEF CardsInv, StartRecognition
<1>3. PICK e \in Scan : e = queue[1] /\ e = Head(queue)
  BY <1>2
<1>4. /\ running' = [id |-> e.id, photo |-> e.photo, current |-> TRUE] /\ queue' = Tail(queue)
      /\ items' = [n \in DOMAIN items |-> IF items[n].id = e.id THEN Recognizing(items[n]) ELSE items[n]]
      /\ UNCHANGED <<retakeId, pass, itemUrls, used, added, lost, open>>
  BY <1>3 DEF StartRecognition, Updated
<1>5. running' \in Recognition
  BY <1>3, <1>4 DEF Scan, Recognition
<1>6. ASSUME NEW i \in Item
      PROVE  /\ Recognizing(i) \in Item /\ Recognizing(i).id = i.id /\ Recognizing(i).photo = i.photo
             /\ Recognizing(i).candidates = {} /\ ~Ready(Recognizing(i))
  BY DEF Recognizing, Unconfirmed, Item, Statuses, Ready
<1>7. /\ queue' \in Seq(Scan) /\ Len(queue) \in Nat /\ DOMAIN queue = 1..Len(queue)
      /\ DOMAIN queue' = 1..Len(queue) - 1 /\ \A m \in DOMAIN queue' : queue'[m] = queue[m + 1]
  BY <1>2, <1>4
<1>8. ASSUME NEW i, NEW j, j.id = i.id, j.photo = i.photo, NEW m \in Nat, Queued(i, m),
             m > 1 \/ i.id # e.id
      PROVE  Queued(j, m - 1)'
  <2>1. PICK k \in DOMAIN queue : k >= m /\ queue[k] = [id |-> i.id, photo |-> i.photo]
    BY <1>8 DEF Queued
  <2>2. k # 1
    BY <1>3, <1>8, <2>1
  <2>3. k - 1 \in DOMAIN queue' /\ queue'[k - 1] = queue[k]
    BY <1>7, <2>1, <2>2
  <2>4. QED
    BY <1>7, <1>8, <2>1, <2>3 DEF Queued
<1>9. ASSUME NEW i, CardSound(i), NEW j, j.id = i.id, j.photo = i.photo
      PROVE  \A m \in DOMAIN queue' : queue'[m].id = j.id => queue'[m].photo = j.photo \/ Queued(j, m + 1)'
  <2>1. ASSUME NEW m \in DOMAIN queue', queue'[m].id = j.id PROVE queue'[m].photo = j.photo \/ Queued(j, m + 1)'
    <3>1. m \in Nat /\ m >= 1 /\ m + 1 \in DOMAIN queue /\ queue[m + 1].id = i.id
      BY <1>7, <1>9, <2>1
    <3>2. queue[m + 1].photo = i.photo \/ Queued(i, m + 1 + 1)
      BY <1>9, <3>1 DEF CardSound
    <3>3. CASE Queued(i, m + 1 + 1)
      <4>1. PICK l \in Nat : l = m + 1 + 1 /\ l > 1 /\ l - 1 = m + 1
        BY <3>1
      <4>2. Queued(j, l - 1)'
        BY <1>8, <1>9, <3>3, <4>1
      <4>3. QED
        BY <4>1, <4>2
    <3>4. QED
      BY <1>7, <1>9, <2>1, <3>2, <3>3
  <2>2. QED
    BY <2>1

<1>10. ASSUME NEW i \in Item, CardSound(i), i.id = e.id PROVE CardSound(Recognizing(i))'
  <2>1. PICK j : /\ j = Recognizing(i) /\ j \in Item /\ j.id = i.id /\ j.photo = i.photo
                 /\ j.candidates = {} /\ ~Ready(j)
    BY <1>6
  <2>2. \A m \in DOMAIN queue' : queue'[m].id = j.id => queue'[m].photo = j.photo \/ Queued(j, m + 1)'
    BY <1>9, <1>10, <2>1
  <2>3. running'.photo = j.photo \/ Queued(j, 1)'
    <3>1. 1 \in DOMAIN queue /\ queue[1].id = i.id
      BY <1>2, <1>3, <1>7, <1>10
    <3>2. e.photo = i.photo \/ Queued(i, 1 + 1)
      BY <1>3, <1>10, <3>1 DEF CardSound
    <3>3. PICK l \in Nat : l = 1 + 1 /\ l > 1 /\ l - 1 = 1
      OBVIOUS
    <3>4. CASE Queued(i, l)
      <4>1. Queued(j, l - 1)'
        BY <1>8, <2>1, <3>3, <3>4
      <4>2. QED
        BY <3>3, <4>1
    <3>5. QED
      BY <1>4, <2>1, <3>2, <3>3, <3>4
  <2>4. j.id \in used'
    BY <1>4, <1>10, <2>1 DEF CardSound
  <2>5. Runs(j.id)'
    BY <1>4, <1>5, <1>10, <2>1, SessionAssumption DEF Runs, Recognition
  <2>6. CardSound(j)'
    BY <2>1, <2>2, <2>3, <2>4, <2>5 DEF CardSound, Ready
  <2>7. QED
    BY <2>1, <2>6
<1>11. ASSUME NEW i \in Item, CardSound(i), i.id # e.id PROVE CardSound(i)'
  <2>1. \A m \in DOMAIN queue' : queue'[m].id = i.id => queue'[m].photo = i.photo \/ Queued(i, m + 1)'
    BY <1>9, <1>11
  <2>2. Queued(i, 1) => Queued(i, 1)'
    <3>1. PICK l \in Nat : l = 1
      OBVIOUS
    <3>2. Queued(i, l) => Queued(i, l - 1)'
      BY <1>8, <1>11
    <3>3. Queued(i, l - 1)' => Queued(i, l)'
      BY <1>7, <3>1 DEF Queued
    <3>4. QED
      BY <3>1, <3>2, <3>3
  <2>3. i.status \in Waiting => \E m \in DOMAIN queue' : queue'[m].id = i.id
    <3>1. ASSUME i.status \in Waiting PROVE \E m \in DOMAIN queue' : queue'[m].id = i.id
      <4>1. PICK m \in DOMAIN queue : queue[m].id = i.id
        BY <1>2, <1>11, <3>1 DEF CardSound, Runs
      <4>2. m # 1
        BY <1>3, <1>11, <4>1
      <4>3. m - 1 \in DOMAIN queue' /\ queue'[m - 1] = queue[m]
        BY <1>7, <4>1, <4>2
      <4>4. QED
        BY <4>1, <4>3
    <3>2. QED
      BY <3>1
  <2>4. running'.id # i.id
    BY <1>4, <1>11
  <2>5. QED
    BY <1>4, <1>11, <2>1, <2>2, <2>3, <2>4 DEF CardSound, Ready
<1>12. CardsInv'
  <2>1. /\ items' \in Seq(Item) /\ DOMAIN items' = DOMAIN items
        /\ \A n \in DOMAIN items : items'[n].id = items[n].id
    BY <1>2, <1>4, <1>6
  <2>2. ASSUME NEW n \in DOMAIN items PROVE CardSound(items[n])'
    <3>1. PICK i \in Item : i = items[n]
      BY <1>2
    <3>2. PICK j : j = items'[n]
      OBVIOUS
    <3>3. CardSound(j)'
      <4>1. CASE i.id = e.id
        BY <1>2, <1>4, <1>10, <3>1, <3>2, <4>1
      <4>2. CASE i.id # e.id
        BY <1>2, <1>4, <1>11, <3>1, <3>2, <4>2
      <4>3. QED
        BY <4>1, <4>2
    <3>4. QED
      BY <3>2, <3>3 DEF CardSound, Ready, Runs, Queued
  <2>3. QED
    BY <1>1, <1>2, <1>4, <1>5, <1>7, <2>1, <2>2 DEF CardsInv
<1>13. \A p \in Photos : Postable(p)' => Postable(p)
  BY <1>2, <1>4, <1>6 DEF Postable
<1>14. QED
  BY <1>1, <1>4, <1>12, <1>13, NothingAdded, PassKept DEF SessionInv

\* The recognition under way ends, with candidates, without, or with a failure. What it
\* says of a card is of the photograph it was started with.
LEMMA RecognizeKeeps ==
  ASSUME SessionInv, Recognize
  PROVE  SessionInv'
<1>1. CardsInv /\ PassInv /\ AddedInv
  BY DEF SessionInv
<1>2. /\ items \in Seq(Item) /\ running \in Recognition /\ running # NoJob
      /\ \A m, n \in DOMAIN items : items[m].id = items[n].id => m = n
      /\ \A n \in DOMAIN items : items[n] \in Item /\ CardSound(items[n])
  <2>1. running # NoJob
    BY DEF Recognize, FinishRecognition, FailRecognition
  <2>2. QED
    BY <1>1, <2>1 DEF CardsInv
<1>3. /\ running' = NoJob
      /\ UNCHANGED <<retakeId, queue, pass, itemUrls, used, added, lost, open>>
  BY DEF Recognize, FinishRecognition, FailRecognition
<1>4. PICK offered \in SUBSET Printings, p \in Printings \cup {NoPrinting} :
        FinishRecognition(offered, p) \/ FailRecognition
  <2>1. CASE FailRecognition
    BY <2>1
  <2>2. CASE ~FailRecognition
    BY <2>2, SessionAssumption DEF Recognize
  <2>3. QED
    BY <2>1, <2>2
<1>5. PICK photo, id : photo = running.photo /\ id = running.id
  OBVIOUS
<1> DEFINE Found(i) == [i EXCEPT !.candidates = offered, !.printing = p, !.of = photo, !.status = "review"]
           Failed(i) == [i EXCEPT !.status = "error"]
<1>6. running.current =>
        \/ items' = [n \in DOMAIN items |-> IF items[n].id = id THEN Found(items[n]) ELSE items[n]]
        \/ items' = [n \in DOMAIN items |-> IF items[n].id = id THEN Failed(items[n]) ELSE items[n]]
  BY <1>4, <1>5 DEF FinishRecognition, FailRecognition, Updated
<1>7. ~running.current => items' = items
  BY <1>4 DEF FinishRecognition, FailRecognition
<1> HIDE DEF Found, Failed
<1>8. /\ items' = [n \in DOMAIN items |-> items'[n]] /\ DOMAIN items' = DOMAIN items
      /\ \A n \in DOMAIN items :
           /\ running.current /\ items[n].id = id => items'[n] \in {Found(items[n]), Failed(items[n])}
           /\ ~(running.current /\ items[n].id = id) => items'[n] = items[n]
  <2>1. CASE running.current
    BY <1>6, <2>1
  <2>2. CASE ~running.current
    BY <1>2, <1>7, <2>2
  <2>3. QED
    BY <2>1, <2>2
<1>9. ASSUME NEW i \in Item, CardSound(i), i.id = id
      PROVE  Found(i) \in Item /\ Found(i).id = i.id /\ CardSound(Found(i))'
  <2>1. photo \in Photos
    BY <1>2, <1>5 DEF Recognition
  <2>2. PICK j : j = Found(i)
    OBVIOUS
  <2>3. /\ j \in Item /\ j.id = i.id /\ j.photo = i.photo /\ j.of = photo /\ j.status = "review"
    BY <1>9, <2>1, <2>2 DEF Found, Item, Statuses
  <2>4. photo = i.photo \/ Queued(i, 1)
    BY <1>2, <1>9, <1>5 DEF CardSound
  <2>5. CardSound(j)'
    BY <1>3, <1>9, <2>3, <2>4 DEF CardSound, Ready, Queued, Waiting
  <2>6. QED
    BY <2>2, <2>3, <2>5
<1>10. ASSUME NEW i \in Item, CardSound(i), i.id = id
      PROVE  Failed(i) \in Item /\ Failed(i).id = i.id /\ CardSound(Failed(i))'
  <2>1. PICK j : j = Failed(i)
    OBVIOUS
  <2>2. Kept(i, j) /\ j.status = "error"
    BY <1>10, <2>1, ChangesKeep DEF CardSound, Item, Failed
  <2>3. CardSound(j)'
    BY <1>3, <1>10, <2>2, KeptIsSound DEF Waiting
  <2>4. QED
    BY <2>1, <2>2, <2>3 DEF Kept
<1>11. ASSUME NEW i \in Item, CardSound(i), ~(running.current /\ i.id = id) PROVE CardSound(i)'
  BY <1>3, <1>11, <1>5 DEF CardSound, Ready, Queued, Runs
<1>12. CardsInv'
  <2>1. ASSUME NEW n \in DOMAIN items
        PROVE  items'[n] \in Item /\ items'[n].id = items[n].id /\ CardSound(items[n])'
    <3>1. PICK i, j : i \in Item /\ i = items[n] /\ j = items'[n] /\ CardSound(i)
      BY <1>2
    <3>2. CASE running.current /\ i.id = id
      <4>1. CASE j = Found(i)
        BY <1>9, <3>1, <3>2, <4>1 DEF CardSound, Ready, Runs, Queued
      <4>2. CASE j = Failed(i)
        BY <1>10, <3>1, <3>2, <4>2 DEF CardSound, Ready, Runs, Queued
      <4>3. QED
        BY <1>8, <3>1, <3>2, <4>1, <4>2
    <3>3. CASE ~(running.current /\ i.id = id)
      <4>1. j = i
        BY <1>8, <3>1, <3>3
      <4>2. CardSound(i)'
        BY <1>11, <3>1, <3>3
      <4>3. QED
        BY <3>1, <4>1, <4>2 DEF CardSound, Ready, Runs, Queued
    <3>4. QED
      BY <3>2, <3>3
  <2>2. items' \in Seq(Item)
    BY <1>2, <1>8, <2>1
  <2>3. QED
    BY <1>1, <1>2, <1>3, <1>8, <2>1, <2>2 DEF CardsInv
<1>13. \A q \in Photos : Postable(q)' => Postable(q)
  <2>1. \A n \in DOMAIN items : items'[n].id = items[n].id
    BY <1>2, <1>8, <1>9, <1>10
  <2>2. QED
    BY <1>3, <1>8, <2>1 DEF Postable
<1>14. QED
  BY <1>1, <1>3, <1>12, <1>13, NothingAdded, PassKept DEF SessionInv

-----------------------------------------------------------------------------
(* Captures.                                                               *)

\* A photograph of a new card, whose number no card had.
LEMMA ReceiveScanKeeps ==
  ASSUME SessionInv, NEW p \in Photos, ReceiveScan(p)
  PROVE  SessionInv'
<1>1. CardsInv /\ PassInv /\ AddedInv
  BY DEF SessionInv
<1>2. PICK e, c : e = [id |-> p, photo |-> p] /\ c = Captured(p)
  OBVIOUS
<1>3. /\ p \notin used /\ items' = Append(items, c) /\ used' = used \cup {p} /\ queue' = Append(queue, e)
      /\ UNCHANGED <<retakeId, running, pass, added, lost, open>>
  BY <1>2 DEF ReceiveScan, Enqueue
<1>4. e \in Scan /\ queue \in Seq(Scan) /\ items \in Seq(Item) /\ used \subseteq Photos
  BY <1>1, <1>2 DEF CardsInv, Scan
<1>5. c \in Item /\ c.id = p /\ c.photo = p /\ c.candidates = {} /\ ~Ready(c)
  BY <1>2 DEF Captured, Item, Statuses, Ready
<1>6. CardSound(c)'
  BY <1>2, <1>3, <1>4, <1>5, QueuedWithPhoto
<1>7. \A n \in DOMAIN items : items[n].id \in used /\ CardSound(items[n])
  BY <1>1 DEF CardsInv, CardSound
<1>8. /\ items' \in Seq(Item) /\ DOMAIN items' = 1..Len(items) + 1 /\ DOMAIN items = 1..Len(items) /\ Len(items) \in Nat
      /\ \A n \in DOMAIN items : items'[n] = items[n]
      /\ items'[Len(items) + 1] = c
  BY <1>3, <1>4, <1>5
<1>9. ASSUME NEW n \in DOMAIN items' PROVE CardSound(items[n])'
  <2>1. PICK i : i = items'[n]
    OBVIOUS
  <2>2. CASE n = Len(items) + 1
    BY <1>6, <1>8, <2>1, <2>2 DEF CardSound, Ready, Runs, Queued
  <2>3. CASE n # Len(items) + 1
    <3>1. n \in DOMAIN items /\ i = items[n]
      BY <1>8, <1>9, <2>1, <2>3
    <3>2. CardSound(i) /\ e.id # i.id
      BY <1>2, <1>3, <1>7, <3>1
    <3>3. CardSound(i)'
      BY <1>3, <1>4, <3>2, QueueGrows
    <3>4. QED
      BY <2>1, <3>3 DEF CardSound, Ready, Runs, Queued
  <2>4. QED
    BY <2>2, <2>3
<1>10. \A m, n \in DOMAIN items' : items'[m].id = items'[n].id => m = n
  <2>1. \A m, n \in DOMAIN items : items[m].id = items[n].id => m = n
    BY <1>1 DEF CardsInv
  <2>2. QED
    BY <1>3, <1>5, <1>7, <1>8, <2>1
<1>11. CardsInv'
  BY <1>1, <1>3, <1>4, <1>8, <1>9, <1>10 DEF CardsInv
<1>12. ASSUME NEW q \in Photos, Postable(q)' PROVE Postable(q) \/ q \notin used
  <2>1. CASE \E n \in DOMAIN items' : items'[n].id = q
    BY <1>3, <1>5, <1>8, <2>1 DEF Postable
  <2>2. CASE ~\E n \in DOMAIN items' : items'[n].id = q
    BY <1>3, <1>12, <2>2 DEF Postable
  <2>3. QED
    BY <2>1, <2>2
<1>13. QED
  BY <1>1, <1>3, <1>11, <1>12, NothingAdded, PassKept DEF SessionInv

\* A photograph for the card to be retaken: what was read of the one before is dropped.
LEMMA ReceiveRetakeKeeps ==
  ASSUME SessionInv, NEW p \in Photos, NEW replacing \in Replacing, ReceiveRetake(p, replacing)
  PROVE  SessionInv'
<1>1. CardsInv /\ PassInv /\ AddedInv
  BY DEF SessionInv
<1>2. PICK id, e : id = replacing /\ e = [id |-> replacing, photo |-> p]
  OBVIOUS
<1>3. /\ items' = [n \in DOMAIN items |-> IF items[n].id = id THEN Replaced(items[n], p) ELSE items[n]]
      /\ used' = used \cup {p} /\ queue' = Append(queue, e)
      /\ UNCHANGED <<running, pass, added, lost, open>>
  BY <1>2 DEF ReceiveRetake, Enqueue, Updated
<1>4. /\ queue \in Seq(Scan) /\ items \in Seq(Item) /\ used \subseteq Photos
      /\ \A m, n \in DOMAIN items : items[m].id = items[n].id => m = n
      /\ \A n \in DOMAIN items : items[n] \in Item /\ CardSound(items[n])
  BY <1>1 DEF CardsInv
<1>5. e \in Scan /\ e.id = id /\ e.photo = p
  <2>1. PICK n \in DOMAIN items : items[n].id = id
    BY <1>2 DEF ReceiveRetake, InSession, Position
  <2>2. id \in Photos
    BY <1>4, <2>1 DEF Item
  <2>3. QED
    BY <1>2, <2>2 DEF Scan
<1>6. ASSUME NEW i \in Item
      PROVE  /\ Replaced(i, p) \in Item /\ Replaced(i, p).id = i.id /\ Replaced(i, p).photo = p
             /\ Replaced(i, p).candidates = {} /\ ~Ready(Replaced(i, p))
  BY DEF Replaced, Unconfirmed, Item, Statuses, Ready
<1>7. /\ items' \in Seq(Item) /\ DOMAIN items' = DOMAIN items
      /\ \A n \in DOMAIN items : items'[n].id = items[n].id
  BY <1>3, <1>4, <1>6
<1>8. ASSUME NEW n \in DOMAIN items PROVE CardSound(items[n])'
  <2>1. PICK i, j : i \in Item /\ i = items[n] /\ j = items'[n] /\ CardSound(i)
    BY <1>4
  <2>2. CASE i.id = id
    <3>1. j = Replaced(i, p)
      BY <1>3, <2>1, <2>2
    <3>2. j.id = id /\ j.photo = p /\ j.candidates = {} /\ ~Ready(j) /\ j.id \in used'
      BY <1>3, <1>6, <2>1, <2>2, <3>1 DEF CardSound
    <3>3. CardSound(j)'
      BY <1>2, <1>3, <1>4, <1>5, <3>2, QueuedWithPhoto
    <3>4. QED
      BY <2>1, <3>3 DEF CardSound, Ready, Runs, Queued
  <2>3. CASE i.id # id
    <3>1. j = i
      BY <1>3, <2>1, <2>3
    <3>2. CardSound(i)'
      BY <1>3, <1>4, <1>5, <2>1, <2>3, QueueGrows
    <3>3. QED
      BY <2>1, <3>1, <3>2 DEF CardSound, Ready, Runs, Queued
  <2>4. QED
    BY <2>2, <2>3
<1>9. CardsInv'
  BY <1>1, <1>3, <1>4, <1>5, <1>7, <1>8 DEF CardsInv
<1>10. \A q \in Photos : Postable(q)' => Postable(q)
  BY <1>3, <1>7 DEF Postable
<1>11. QED
  BY <1>1, <1>3, <1>9, <1>10, NothingAdded, PassKept DEF SessionInv

\* A photograph is dropped, or the session is left: a pass goes on.
LEMMA DropAndLeaveKeep ==
  ASSUME SessionInv, LeaveSession \/ \E p \in Photos, replacing \in Replacing : DropScan(p, replacing)
  PROVE  SessionInv'
<1>1. CardsInv /\ PassInv /\ AddedInv
  BY DEF SessionInv
<1>2. CASE LeaveSession
  <2>1. /\ items' = <<>> /\ queue' = <<>> /\ running' = NoJob
        /\ UNCHANGED <<pass, used, added, lost>>
    BY <1>2 DEF LeaveSession
  <2>2. CardsInv'
    BY <1>1, <2>1 DEF CardsInv
  <2>3. \A q \in Photos : Postable(q)' => Postable(q)
    BY <2>1 DEF Postable
  <2>4. QED
    BY <1>1, <2>1, <2>2, <2>3, NothingAdded, PassKept DEF SessionInv
<1>3. ASSUME NEW p \in Photos, NEW replacing \in Replacing, DropScan(p, replacing) PROVE SessionInv'
  <2>1. /\ used' = used \cup {p}
        /\ UNCHANGED <<items, queue, running, pass, itemUrls, added, lost, open>>
    BY <1>3 DEF DropScan
  <2>2. CardsInv'
    BY <1>1, <2>1 DEF CardsInv, CardSound, Ready, Runs, Queued
  <2>3. \A q \in Photos : Postable(q)' => Postable(q)
    BY <2>1 DEF Postable
  <2>4. QED
    BY <1>1, <2>1, <2>2, <2>3, NothingAdded, PassKept DEF SessionInv
<1>4. QED
  BY <1>2, <1>3

-----------------------------------------------------------------------------
(* The save pass.                                                          *)

\* A card may be kept through several changes.
LEMMA KeptTwice ==
  ASSUME NEW i, NEW j, NEW k, Kept(i, j), Kept(j, k)
  PROVE  Kept(i, k)
BY DEF Kept

\* Marking the card in flight keeps it.
LEMMA SendingKeeps ==
  ASSUME NEW s \in Seq(Item), NEW todo, \A n \in DOMAIN s : Kept(s[n], s[n])
  PROVE  /\ Sending(s, todo) = [n \in DOMAIN s |-> Sending(s, todo)[n]]
         /\ \A n \in DOMAIN s : Kept(s[n], Sending(s, todo)[n])
<1>1. ASSUME NEW n \in DOMAIN s PROVE Kept(s[n], Sending(s, todo)[n])
  <2>1. PICK i \in Item : i = s[n]
    OBVIOUS
  <2>2. Ready(i) => i.agreed \/ i.failed
    BY <2>1 DEF Kept
  <2>3. Kept(i, i) /\ Kept(i, [i EXCEPT !.status = "saving"])
    BY <2>2, ChangesKeep
  <2>4. Sending(s, todo)[n] = i \/ Sending(s, todo)[n] = [i EXCEPT !.status = "saving"]
    BY <2>1 DEF Sending
  <2>5. QED
    BY <2>1, <2>3, <2>4
<1>2. QED
  BY <1>1 DEF Sending

\* The card in flight is one of those left, and is not left afterwards.
LEMMA FlightAndRest ==
  ASSUME PassInv, pass # NoPass, NEW card \in InFlight(pass.todo)
  PROVE  /\ card \in Post /\ card.id \in used /\ \E n \in DOMAIN pass.todo : pass.todo[n] = card
         /\ DOMAIN Rest(pass.todo) \subseteq DOMAIN pass.todo
         /\ \A n \in DOMAIN Rest(pass.todo) : Rest(pass.todo)[n] = pass.todo[n] /\ pass.todo[n].id # card.id
<1>1. PICK k \in DOMAIN pass.todo : card = pass.todo[k] /\ \A m \in DOMAIN pass.todo : k <= m
  BY DEF InFlight
<1>2. DOMAIN pass.todo \subseteq Nat /\ \A m, n \in DOMAIN pass.todo : pass.todo[m].id = pass.todo[n].id => m = n
  BY DEF PassInv
<1>3. DOMAIN Rest(pass.todo) = {n \in DOMAIN pass.todo : \E m \in DOMAIN pass.todo : m < n}
  BY DEF Rest
<1>4. \A n \in DOMAIN Rest(pass.todo) : Rest(pass.todo)[n] = pass.todo[n]
  BY DEF Rest
<1>5. \A n \in DOMAIN Rest(pass.todo) : n # k
  BY <1>1, <1>2, <1>3
<1>6. \A n \in DOMAIN Rest(pass.todo) : pass.todo[n].id # card.id
  BY <1>1, <1>2, <1>3, <1>5
<1>7. QED
  BY <1>1, <1>3, <1>4, <1>6 DEF PassInv

\* What a pass has left remains sound when the card in flight has been answered.
LEMMA RestIsSound ==
  ASSUME PassInv, pass # NoPass, NEW card \in InFlight(pass.todo), pass'.todo = Rest(pass.todo), used' = used
  PROVE  PassInv'
<1>1. PICK d, r : /\ d = DOMAIN Rest(pass.todo) /\ r = Rest(pass.todo)
  OBVIOUS
<1>2. d \subseteq DOMAIN pass.todo /\ \A n \in d : r[n] = pass.todo[n]
  BY <1>1, FlightAndRest
<1>3. DOMAIN pass'.todo = d /\ pass'.todo = r
  BY <1>1
<1>4. QED
  BY <1>2, <1>3 DEF PassInv

\* A new pass posts cards that were confirmed, each at its place in the session.
LEMMA SaveKeeps ==
  ASSUME SessionInv, SaveConfirmed
  PROVE  SessionInv'
<1>1. CardsInv /\ PassInv /\ AddedInv
  BY DEF SessionInv
<1>2. /\ items \in Seq(Item) /\ running \in Recognition \cup {NoJob}
      /\ \A m, n \in DOMAIN items : items[m].id = items[n].id => m = n
      /\ \A n \in DOMAIN items : /\ items[n] \in Item /\ items[n].id \in used
                                 /\ Ready(items[n]) => items[n].agreed \/ items[n].failed
  BY <1>1 DEF CardsInv, CardSound
<1>3. PICK ready, todo : /\ ready = {n \in DOMAIN items : Ready(items[n])}
                         /\ todo = [n \in ready |-> ToPost(items[n])]
  OBVIOUS
<1>4. /\ pass'.todo = todo /\ items' = Sending(items, todo)
      /\ UNCHANGED <<retakeId, queue, running, itemUrls, used, added, lost, open>>
  BY <1>3 DEF SaveConfirmed
<1>5. \A n \in DOMAIN items : Kept(items[n], items[n])
  BY <1>2, ChangesKeep
<1>6. CardsInv'
  <2>1. PICK s : s = items
    OBVIOUS
  <2>2. items' = [n \in DOMAIN s |-> items'[n]] /\ \A n \in DOMAIN s : Kept(s[n], items'[n])
    BY <1>2, <1>4, <1>5, <2>1, SendingKeeps
  <2>3. \A n \in DOMAIN s : Runs(s[n].id) => Runs(s[n].id)'
    BY <1>4, <2>1 DEF Runs
  <2>4. QED
    BY <1>1, <1>2, <1>4, <2>1, <2>2, <2>3, PointwiseKeeps
<1>7. PassInv'
  <2>1. ASSUME NEW n \in ready
        PROVE  todo[n] \in Post /\ todo[n].id = items[n].id /\ todo[n].id \in used /\ (todo[n].agreed \/ todo[n].failed)
    BY <1>2, <1>3 DEF ToPost, Post, Item
  <2>2. DOMAIN todo = ready /\ ready \subseteq DOMAIN items /\ DOMAIN items \subseteq Nat
    BY <1>2, <1>3
  <2>3. \A m, n \in DOMAIN todo : todo[m].id = todo[n].id => m = n
    BY <1>2, <2>1, <2>2
  <2>4. QED
    BY <1>4, <2>1, <2>2, <2>3 DEF PassInv
<1>8. ASSUME NEW q \in Photos, Postable(q)' PROVE Postable(q)
  <2>1. \A n \in DOMAIN items : items'[n].id = items[n].id
    BY <1>2, <1>4, <1>5, SendingKeeps DEF Kept
  <2>2. DOMAIN items' = DOMAIN items
    BY <1>4 DEF Sending
  <2>3. \A n \in DOMAIN todo : n \in DOMAIN items /\ todo[n].id = items[n].id
    BY <1>3 DEF ToPost
  <2>4. QED
    BY <1>4, <1>8, <2>1, <2>2, <2>3 DEF Postable
<1>9. QED
  BY <1>1, <1>4, <1>6, <1>7, <1>8, NothingAdded DEF SessionInv

\* The card that was added is in the session no more, nor left to the pass.
LEMMA SavedKeeps ==
  ASSUME SessionInv, PostSaved
  PROVE  SessionInv'
<1>1. CardsInv /\ PassInv /\ AddedInv
  BY DEF SessionInv
<1>2. PICK card \in InFlight(pass.todo) :
        /\ items' = Sending(Without(items, card.id), Rest(pass.todo))
        /\ running' = IF running # NoJob /\ running.id = card.id
                      THEN [running EXCEPT !.current = FALSE] ELSE running
        /\ added' = [added EXCEPT ![card.id] = @ + 1]
        /\ pass # NoPass /\ pass' = [todo |-> Rest(pass.todo), saved |-> TRUE]
        /\ UNCHANGED <<retakeId, queue, used, lost, open>>
  BY DEF PostSaved
<1>3. /\ card \in Post /\ card.id \in used /\ \E n \in DOMAIN pass.todo : pass.todo[n] = card
      /\ DOMAIN Rest(pass.todo) \subseteq DOMAIN pass.todo
      /\ \A n \in DOMAIN Rest(pass.todo) : Rest(pass.todo)[n] = pass.todo[n] /\ pass.todo[n].id # card.id
  BY <1>1, <1>2, FlightAndRest
<1>4. PICK id, s, todo : id = card.id /\ s = Without(items, id) /\ todo = Rest(pass.todo)
  OBVIOUS
<1>5. /\ s \in Seq(Item) /\ \A m, n \in DOMAIN s : s[m].id = s[n].id => m = n
      /\ \A n \in DOMAIN s : s[n].id # id /\ \E m \in DOMAIN items : s[n] = items[m]
  BY <1>1, <1>4, WithoutOne
<1>6. \A n \in DOMAIN s : Kept(s[n], s[n])
  <2>1. \A m \in DOMAIN items : items[m] \in Item /\ (Ready(items[m]) => items[m].agreed \/ items[m].failed)
    BY <1>1 DEF CardsInv, CardSound
  <2>2. \A m \in DOMAIN items : Kept(items[m], items[m])
    BY <2>1, ChangesKeep
  <2>3. QED
    BY <1>5, <2>2
<1>7. /\ items' = [n \in DOMAIN s |-> items'[n]] /\ \A n \in DOMAIN s : Kept(s[n], items'[n])
      /\ DOMAIN items' = DOMAIN s
  <2>1. items' = Sending(s, todo)
    BY <1>2, <1>4
  <2>2. items' = [n \in DOMAIN s |-> items'[n]] /\ \A n \in DOMAIN s : Kept(s[n], items'[n])
    BY <1>5, <1>6, <2>1, SendingKeeps
  <2>3. DOMAIN items' = DOMAIN s
    BY <2>1 DEF Sending
  <2>4. QED
    BY <2>2, <2>3
<1>8. CardsInv'
  <2>1. running \in Recognition \cup {NoJob}
    BY <1>1 DEF CardsInv
  <2>2. /\ running' \in Recognition \cup {NoJob}
        /\ running' # NoJob => running # NoJob /\ running'.id = running.id /\ running'.photo = running.photo
    <3>1. CASE running # NoJob /\ running.id = card.id
      <4>1. running' = [running EXCEPT !.current = FALSE] /\ running \in Recognition
        BY <1>2, <2>1, <3>1
      <4>2. QED
        BY <3>1, <4>1 DEF Recognition
    <3>2. CASE ~(running # NoJob /\ running.id = card.id)
      BY <1>2, <2>1, <3>2
    <3>3. QED
      BY <3>1, <3>2
  <2>3. \A n \in DOMAIN s : Runs(s[n].id) => Runs(s[n].id)'
    BY <1>2, <1>4, <1>5 DEF Runs
  <2>4. QED
    BY <1>1, <1>2, <1>5, <1>7, <2>2, <2>3, PointwiseKeeps
<1>9. PassInv'
  BY <1>1, <1>2, RestIsSound
<1>10. \A n \in DOMAIN items' : items'[n].id # id /\ \E m \in DOMAIN items : items'[n].id = items[m].id
  BY <1>5, <1>7 DEF Kept
<1>11. ASSUME NEW q \in Photos, Postable(q)' PROVE Postable(q) /\ q # id
  <2>1. CASE \E n \in DOMAIN items' : items'[n].id = q
    BY <1>10, <2>1 DEF Postable
  <2>2. CASE \E n \in DOMAIN todo : todo[n].id = q
    BY <1>2, <1>3, <1>4, <2>2 DEF Postable
  <2>3. QED
    BY <1>2, <1>4, <1>11, <2>1, <2>2 DEF Postable
<1>12. AddedInv'
  <2>1. id \in Photos /\ Postable(id) /\ id \in used
    BY <1>2, <1>3, <1>4 DEF Postable, Post
  <2>2. added \in [Photos -> Nat] /\ lost \in [Photos -> Nat] /\ added[id] <= lost[id]
    BY <1>1, <2>1 DEF AddedInv
  <2>3. added' = [added EXCEPT ![id] = added[id] + 1] /\ lost' = lost /\ used' = used
    BY <1>2, <1>4
  <2>4. added' \in [Photos -> Nat] /\ added'[id] = added[id] + 1 /\ \A q \in Photos : q # id => added'[q] = added[q]
    BY <2>1, <2>2, <2>3
  <2>5. ASSUME NEW q \in Photos
        PROVE  added'[q] <= lost'[q] + 1 /\ (Postable(q)' \/ q \notin used' => added'[q] <= lost'[q])
    <3>1. CASE q = id
      BY <1>11, <2>1, <2>2, <2>3, <2>4, <3>1
    <3>2. CASE q # id
      BY <1>1, <1>11, <2>3, <2>4, <3>2 DEF AddedInv
    <3>3. QED
      BY <3>1, <3>2
  <2>6. QED
    BY <2>2, <2>3, <2>4, <2>5 DEF AddedInv
<1>13. QED
  BY <1>8, <1>9, <1>12 DEF SessionInv

\* A card whose addition failed is as it was confirmed; when it was added all the same,
\* an answer was lost.
LEMMA FailedKeeps ==
  ASSUME SessionInv, NEW unanswered \in BOOLEAN, PostFailed(unanswered)
  PROVE  SessionInv'
<1>1. CardsInv /\ PassInv /\ AddedInv
  BY DEF SessionInv
<1> DEFINE Undone(i) == [i EXCEPT !.status = "ready", !.confirmed = TRUE, !.failed = TRUE]
<1>2. PICK card \in InFlight(pass.todo) :
        /\ items' = Sending([n \in DOMAIN items |-> IF items[n].id = card.id THEN Undone(items[n]) ELSE items[n]],
                            Rest(pass.todo))
        /\ lost' = IF unanswered THEN [lost EXCEPT ![card.id] = @ + 1] ELSE lost
        /\ added' = IF unanswered THEN [added EXCEPT ![card.id] = @ + 1] ELSE added
        /\ pass # NoPass /\ pass' = [todo |-> Rest(pass.todo), saved |-> pass.saved]
        /\ UNCHANGED <<retakeId, queue, running, itemUrls, used, open>>
  BY DEF PostFailed, Updated
<1>3. /\ card \in Post /\ card.id \in used /\ \E n \in DOMAIN pass.todo : pass.todo[n] = card
      /\ DOMAIN Rest(pass.todo) \subseteq DOMAIN pass.todo
      /\ \A n \in DOMAIN Rest(pass.todo) : Rest(pass.todo)[n] = pass.todo[n] /\ pass.todo[n].id # card.id
  BY <1>1, <1>2, FlightAndRest
<1>4. PICK u : u = [n \in DOMAIN items |-> IF items[n].id = card.id THEN Undone(items[n]) ELSE items[n]]
  OBVIOUS
<1>5. /\ items \in Seq(Item) /\ running \in Recognition \cup {NoJob}
      /\ \A m, n \in DOMAIN items : items[m].id = items[n].id => m = n
      /\ \A n \in DOMAIN items : items[n] \in Item /\ (Ready(items[n]) => items[n].agreed \/ items[n].failed)
  BY <1>1 DEF CardsInv, CardSound
<1>6. ASSUME NEW n \in DOMAIN items PROVE Kept(items[n], u[n]) /\ Kept(u[n], u[n])
  <2>1. Kept(items[n], u[n])
    BY <1>4, <1>5, ChangesKeep
  <2>2. u[n] \in Item /\ (Ready(u[n]) => u[n].agreed \/ u[n].failed)
    BY <2>1 DEF Kept
  <2>3. QED
    BY <2>1, <2>2, ChangesKeep
<1>7. u \in Seq(Item) /\ DOMAIN u = DOMAIN items
  <2>1. \A n \in DOMAIN items : u[n] \in Item
    BY <1>6 DEF Kept
  <2>2. DOMAIN u = DOMAIN items
    BY <1>4
  <2>3. u = [n \in DOMAIN u |-> u[n]]
    BY <1>4
  <2>4. DOMAIN items = 1..Len(items) /\ Len(items) \in Nat
    BY <1>5, LenProperties
  <2> HIDE DEF Undone
  <2>5. u \in Seq(Item)
    BY <2>1, <2>2, <2>3, <2>4
  <2>6. QED
    BY <2>2, <2>5
<1>8. /\ items' = [n \in DOMAIN items |-> items'[n]] /\ \A n \in DOMAIN items : Kept(items[n], items'[n])
      /\ DOMAIN items' = DOMAIN items
  <2>1. items' = Sending(u, Rest(pass.todo))
    BY <1>2, <1>4
  <2>2. items' = [n \in DOMAIN u |-> items'[n]] /\ \A n \in DOMAIN u : Kept(u[n], items'[n])
    BY <1>6, <1>7, <2>1, SendingKeeps
  <2>3. DOMAIN items' = DOMAIN u
    BY <2>1 DEF Sending
  <2>4. QED
    BY <1>6, <1>7, <2>2, <2>3, KeptTwice
<1>9. CardsInv'
  <2>1. PICK s : s = items
    OBVIOUS
  <2>2. \A n \in DOMAIN s : Runs(s[n].id) => Runs(s[n].id)'
    BY <1>2, <2>1 DEF Runs
  <2>3. QED
    BY <1>1, <1>2, <1>5, <1>8, <2>1, <2>2, PointwiseKeeps

<1>10. PassInv'
  BY <1>1, <1>2, RestIsSound
<1>11. \A n \in DOMAIN items' : n \in DOMAIN items /\ items'[n].id = items[n].id
  BY <1>8 DEF Kept
<1>12. ASSUME NEW q \in Photos, Postable(q)' PROVE Postable(q)
  <2>1. CASE \E n \in DOMAIN items' : items'[n].id = q
    BY <1>11, <2>1 DEF Postable
  <2>2. CASE \E n \in DOMAIN Rest(pass.todo) : Rest(pass.todo)[n].id = q
    BY <1>2, <1>3, <2>2 DEF Postable
  <2>3. QED
    BY <1>2, <1>12, <2>1, <2>2 DEF Postable
<1>13. AddedInv'
  <2>1. CASE ~unanswered
    BY <1>1, <1>2, <1>12, <2>1, NothingAdded
  <2>2. CASE unanswered
    <3>1. PICK id \in Photos : id = card.id
      BY <1>3 DEF Post
    <3>2. added \in [Photos -> Nat] /\ lost \in [Photos -> Nat] /\ Postable(id) /\ added[id] <= lost[id]
      BY <1>1, <1>2, <1>3, <3>1 DEF AddedInv, Postable
    <3>3. /\ added' = [added EXCEPT ![id] = added[id] + 1] /\ lost' = [lost EXCEPT ![id] = lost[id] + 1]
          /\ used' = used
      BY <1>2, <2>2, <3>1
    <3>4. /\ added' \in [Photos -> Nat] /\ lost' \in [Photos -> Nat]
          /\ added'[id] = added[id] + 1 /\ lost'[id] = lost[id] + 1
          /\ \A q \in Photos : q # id => added'[q] = added[q] /\ lost'[q] = lost[q]
      BY <3>2, <3>3
    <3>5. ASSUME NEW q \in Photos
          PROVE  added'[q] <= lost'[q] + 1 /\ (Postable(q)' \/ q \notin used' => added'[q] <= lost'[q])
      <4>1. CASE q = id
        BY <3>2, <3>4, <4>1
      <4>2. CASE q # id
        BY <1>1, <1>12, <3>3, <3>4, <4>2 DEF AddedInv
      <4>3. QED
        BY <4>1, <4>2
    <3>6. QED
      BY <3>4, <3>5 DEF AddedInv
  <2>3. QED
    BY <2>1, <2>2
<1>14. QED
  BY <1>9, <1>10, <1>13 DEF SessionInv

-----------------------------------------------------------------------------
(* Theorems.                                                               *)

\* Cards, passes and additions keep their invariant however captures, recognitions,
\* edits and a save pass overlap.
THEOREM InvariantOfSession == SessionSpec => []SessionInv
<1>1. SessionInit => SessionInv
  <2> SUFFICES ASSUME SessionInit PROVE SessionInv
    OBVIOUS
  <2>1. CardsInv /\ PassInv
    BY DEF SessionInit, CardsInv, PassInv
  <2>2. AddedInv
    BY DEF SessionInit, AddedInv
  <2>3. QED
    BY <2>1, <2>2 DEF SessionInv
<1>2. SessionInv /\ [SessionNext]_sessionVars => SessionInv'
  <2> SUFFICES ASSUME SessionInv, [SessionNext]_sessionVars PROVE SessionInv'
    OBVIOUS
  <2>1. CASE FinishPass
    <3>1. pass' = NoPass /\ UNCHANGED <<items, retakeId, queue, running, itemUrls, used, added, lost, open>>
      BY <2>1 DEF FinishPass
    <3>2. CardsInv'
      BY <3>1 DEF SessionInv, CardsInv, CardSound, Ready, Runs, Queued
    <3>3. PassInv' /\ \A q \in Photos : Postable(q)' => Postable(q)
      BY <3>1 DEF PassInv, Postable
    <3>4. QED
      BY <3>1, <3>2, <3>3, NothingAdded DEF SessionInv
  <2>2. CASE UNCHANGED sessionVars
    <3>1. UNCHANGED <<items, retakeId, queue, running, pass, itemUrls, used, added, lost, open>>
      BY <2>2 DEF sessionVars
    <3>2. CardsInv'
      BY <3>1 DEF SessionInv, CardsInv, CardSound, Ready, Runs, Queued
    <3>3. PassInv' /\ AddedInv'
      BY <3>1 DEF SessionInv, PassInv, AddedInv, Postable
    <3>4. QED
      BY <3>2, <3>3 DEF SessionInv
  <2>3. CASE Saving
    BY <2>1, <2>3, SaveKeeps, SavedKeeps, FailedKeeps DEF Saving
  <2>4. QED
    BY <2>2, <2>3, ReceiveScanKeeps, ReceiveRetakeKeeps, DropAndLeaveKeep, StartKeeps, RecognizeKeeps, EditingKeeps
       DEF SessionNext
<1>3. QED
  BY <1>1, <1>2, PTL DEF SessionSpec

\* What "Add confirmed cards" posts of a card, and what it is posting, is what the
\* member last confirmed of it, unless a save of it has failed since (saveConfirmed).
THEOREM ConfirmedIsPosted == SessionSpec => []ConfirmedAsShown
<1>1. SessionInv => ConfirmedAsShown
  <2> SUFFICES ASSUME SessionInv,
                      NEW i \in {i \in Range(items) : Ready(i)} \cup (IF pass = NoPass THEN {} ELSE Range(pass.todo))
               PROVE  i.agreed \/ i.failed
    BY DEF ConfirmedAsShown
  <2>1. CASE i \in Range(items) /\ Ready(i)
    BY <2>1 DEF SessionInv, CardsInv, CardSound, Range
  <2>2. CASE pass # NoPass /\ i \in Range(pass.todo)
    BY <2>2 DEF SessionInv, PassInv, Range
  <2>3. QED
    BY <2>1, <2>2
<1>2. QED
  BY <1>1, InvariantOfSession, PTL

\* A captured card is added to the collection once, and once more for each answer that
\* was lost: a saved card leaves the session before another pass can begin.
THEOREM EveryCardIsAddedOnce == SessionSpec => []AddedOnce
<1>1. SessionInv => AddedOnce
  BY DEF SessionInv, AddedInv, AddedOnce
<1>2. QED
  BY <1>1, InvariantOfSession, PTL

\* The candidates beside a photograph are of it, unless its own recognition is still
\* queued (recognizeItem's generations, replaceSessionCapture).
THEOREM CandidatesAreOfThePhoto == SessionSpec => []CandidatesOfPhoto
<1>1. SessionInv => CandidatesOfPhoto
  BY DEF SessionInv, CardsInv, CardSound, Queued, CandidatesOfPhoto
<1>2. QED
  BY <1>1, InvariantOfSession, PTL

\* A card that waits for recognition is queued for it, or being recognized.
THEOREM NoCardIsStranded == SessionSpec => []NeverStranded
<1>1. SessionInv => NeverStranded
  BY DEF SessionInv, CardsInv, CardSound, Runs, Waiting, NeverStranded, Range
<1>2. QED
  BY <1>1, InvariantOfSession, PTL

-----------------------------------------------------------------------------
(* The feeder.                                                             *)

\* On the page, a card is announced, or about to be, only when the feeder is at rest;
\* a movement belongs to a moving feeder, and a countdown to a ready one.
OnPage ==
  /\ ~disposed
  /\ notice => state = "ready" /\ timer = 0 /\ advancing # "current"
  /\ settling => state = "ready" /\ timer = 0 /\ advancing # "current"
  /\ pending # "none" => state = "moving"
  /\ advancing = "current" => pending = "advance"
  /\ timer > 0 => state = "ready"

FeederInv == FeederTypeOK /\ (panel => OnPage)

\* The type of the feeder, for one step.
LEMMA FeederTypeStep == FeederTypeOK /\ [FeederNext]_feederVars => FeederTypeOK'
<1> SUFFICES ASSUME FeederTypeOK, [FeederNext]_feederVars PROVE FeederTypeOK'
  OBVIOUS
<1>1. settling \in BOOLEAN /\ notice \in BOOLEAN /\ panel \in BOOLEAN /\ disposed \in BOOLEAN
  BY DEF FeederTypeOK
<1>2. settling' \in BOOLEAN /\ notice' \in BOOLEAN /\ panel' \in BOOLEAN /\ disposed' \in BOOLEAN
  BY <1>1, Zenon DEF FeederNext, feederVars, Connect, Disconnect, EmergencyStop, Home, AdvanceCard, CountdownTick,
    MovementEnds, Settled, CaptureAccepted, LeaveWorkspace, DisposeController, CancelAdvance
<1>3. /\ state' \in {"disconnected", "ready", "moving", "stopped"}
      /\ pending' \in {"none", "home", "advance"} /\ timer' \in 0 .. CountdownSeconds
      /\ advancing' \in {"none", "current", "given_up"}
  BY FeederAssumption DEF FeederTypeOK, FeederNext, feederVars, Connect, Disconnect, EmergencyStop, Home, AdvanceCard,
    CountdownTick, MovementEnds, Settled, CaptureAccepted, LeaveWorkspace, DisposeController, CancelAdvance,
    SettlePending, GiveUp
<1>4. QED
  BY <1>2, <1>3 DEF FeederTypeOK

\* One step keeps what holds on the page.
LEMMA FeederStep == FeederInv /\ [FeederNext]_feederVars => FeederInv'
<1> SUFFICES ASSUME FeederInv, [FeederNext]_feederVars PROVE FeederInv'
  OBVIOUS
<1>1. FeederTypeOK'
  BY FeederTypeStep DEF FeederInv
<1> SUFFICES ASSUME panel' PROVE OnPage'
  BY <1>1 DEF FeederInv
<1>2. panel /\ ~LeaveWorkspace /\ ~DisposeController
  BY Zenon DEF FeederNext, feederVars, Connect, Disconnect, EmergencyStop, Home, AdvanceCard, CountdownTick,
    MovementEnds, Settled, CaptureAccepted, LeaveWorkspace, DisposeController
<1>3. OnPage /\ timer \in Nat
  BY <1>2, FeederAssumption DEF FeederInv, FeederTypeOK
<1> HIDE DEF FeederInv
<1>4. CASE Connect
  BY <1>4, <1>3 DEF OnPage, Connect, CancelAdvance, SettlePending, GiveUp, AtRest
<1>5. CASE Disconnect
  BY <1>5, <1>3 DEF OnPage, Disconnect, CancelAdvance, SettlePending, GiveUp, AtRest
<1>6. CASE EmergencyStop
  BY <1>6, <1>3 DEF OnPage, EmergencyStop, CancelAdvance, SettlePending, GiveUp, AtRest
<1>7. CASE Home
  BY <1>7, <1>3 DEF OnPage, Home, CancelAdvance, SettlePending, GiveUp, AtRest
<1>8. CASE AdvanceCard
  BY <1>8, <1>3 DEF OnPage, AdvanceCard, CancelAdvance, SettlePending, GiveUp, AtRest
<1>9. CASE CountdownTick
  BY <1>9, <1>3 DEF OnPage, CountdownTick, CancelAdvance, SettlePending, GiveUp, AtRest
<1>10. CASE MovementEnds
  BY <1>10, <1>3 DEF OnPage, MovementEnds, CancelAdvance, SettlePending, GiveUp, AtRest
<1>11. CASE Settled
  BY <1>11, <1>3 DEF OnPage, Settled, CancelAdvance, SettlePending, GiveUp, AtRest
<1>12. CASE CaptureAccepted
  BY <1>12, <1>3 DEF OnPage, CaptureAccepted, CancelAdvance, SettlePending, GiveUp, AtRest
<1>13. CASE UNCHANGED feederVars
  BY <1>13, <1>3 DEF OnPage, feederVars
<1>14. QED
  BY <1>2, <1>4, <1>5, <1>6, <1>7, <1>8, <1>9, <1>10, <1>11, <1>12, <1>13 DEF FeederNext

\* The member is told to capture only in front of a card at rest, and after a stop
\* nothing moves, for any countdown.
THEOREM AnnouncesCardsAtRest == FeederSpec => []NoticeAtRest
<1>1. FeederInit => FeederInv
  <2> SUFFICES ASSUME FeederInit PROVE FeederInv
    OBVIOUS
  <2>1. {settling, notice, panel, disposed} \subseteq BOOLEAN
    BY Zenon DEF FeederInit
  <2>2. QED
    BY <2>1, FeederAssumption DEF FeederInit, FeederInv, FeederTypeOK, OnPage
<1>2. FeederInv => NoticeAtRest
  BY FeederAssumption DEF FeederInv, FeederTypeOK, OnPage, NoticeAtRest
<1>3. QED
  BY <1>1, FeederStep, <1>2, PTL DEF FeederSpec

-----------------------------------------------------------------------------
(* The automatic capture.                                                  *)

DetectorState ==
  [phase : {"waiting", "stabilizing", "awaiting_change"}, stableCount : Nat,
   previous : Frames \cup {NoFrame}, captured : Frames \cup {NoFrame}, shouldCapture : BOOLEAN]

\* After an automatic reading, and until a frame of another card has been seen, the
\* detector waits for a change of that card and no countdown runs.
CaptureInv ==
  /\ detector \in DetectorState /\ frame \in Frames /\ lastRead \in Frames \cup {NoFrame}
  /\ lastRead # NoFrame /\ ~changed =>
       detector.phase = "awaiting_change" /\ detector.captured = lastRead /\ countdown = 0

\* The detector's next state is one of its states.
LEMMA AdvanceType ==
  ASSUME NEW d \in DetectorState, NEW f \in Frames
  PROVE  Advance(d, f) \in DetectorState
<1> DEFINE still == d.previous # NoFrame /\ Distance(d.previous, f) <= StableThreshold
<1>1. PICK count : count = IF still THEN d.stableCount + 1 ELSE 1
  OBVIOUS
<1>2. count \in Nat
  BY <1>1 DEF DetectorState
<1>3. PICK steady : steady = (count >= StableSamples) /\ steady \in BOOLEAN
  <2>1. (count >= StableSamples) \in BOOLEAN
    BY <1>2, DetectorAssumption, SMT
  <2>2. QED
    BY <2>1, Zenon
<1>4. [phase |-> IF steady THEN "awaiting_change" ELSE "stabilizing", stableCount |-> count,
       previous |-> f, captured |-> IF steady THEN f ELSE d.captured, shouldCapture |-> steady] \in DetectorState
  BY <1>2, <1>3 DEF DetectorState
<1>5. [phase |-> "stabilizing", stableCount |-> 1, previous |-> f, captured |-> NoFrame,
       shouldCapture |-> FALSE] \in DetectorState
  BY DEF DetectorState
<1>6. [d EXCEPT !.previous = f, !.shouldCapture = FALSE] \in DetectorState
  BY DEF DetectorState
<1>7. QED
  BY <1>1, <1>3, <1>4, <1>5, <1>6 DEF Advance

\* A detector that waits for a change of a card stays there until it sees another.
LEMMA AdvanceWaits ==
  ASSUME NEW d \in DetectorState, NEW f \in Frames, d.phase = "awaiting_change",
         ~(Distance(d.captured, f) >= ChangeThreshold)
  PROVE  /\ Advance(d, f).phase = "awaiting_change" /\ Advance(d, f).captured = d.captured
         /\ ~Advance(d, f).shouldCapture
<1>1. Advance(d, f) = [d EXCEPT !.previous = f, !.shouldCapture = FALSE]
  BY DEF Advance
<1>2. QED
  BY <1>1 DEF DetectorState

\* Every frame, pause and completion keeps what is known of the card before the camera.
LEMMA CaptureStep == CaptureInv /\ [CaptureNext]_captureVars => CaptureInv'
<1> SUFFICES ASSUME CaptureInv, [CaptureNext]_captureVars PROVE CaptureInv'
  OBVIOUS
<1> DEFINE Waits == lastRead # NoFrame /\ ~changed
           next == Advance(detector, frame)
<1>1. next \in DetectorState
  BY AdvanceType DEF CaptureInv
<1>2. ASSUME Look, lastRead' = lastRead, Waits'
      PROVE  /\ next.phase = "awaiting_change" /\ next.captured = lastRead /\ ~next.shouldCapture
             /\ countdown = 0
  <2>1. Waits /\ ~(Distance(lastRead, frame) >= ChangeThreshold)
    BY <1>2 DEF Look
  <2>2. detector.phase = "awaiting_change" /\ detector.captured = lastRead /\ countdown = 0
    BY <2>1 DEF CaptureInv
  <2>3. detector \in DetectorState /\ frame \in Frames
    BY DEF CaptureInv
  <2>4. QED
    BY <2>1, <2>2, <2>3, AdvanceWaits
<1> HIDE DEF next
<1>3. ASSUME Sample PROVE CaptureInv'
  <2>1. /\ detector' = next /\ frame' = frame /\ lastRead' = lastRead /\ Look
        /\ countdown' = IF next.shouldCapture THEN Countdown ELSE 0
    BY <1>3 DEF Sample, next
  <2>2. Waits' => detector'.phase = "awaiting_change" /\ detector'.captured = lastRead' /\ countdown' = 0
    BY <2>1, <1>2
  <2>3. QED
    BY <1>1, <2>1, <2>2 DEF CaptureInv
<1>4. ASSUME NEW sharp \in BOOLEAN, Tick(sharp) PROVE CaptureInv'
  <2>1. countdown # 0 /\ frame' = frame
    BY <1>4 DEF Tick
  <2>2. CASE reading
    BY <1>4, <2>1, <2>2 DEF Tick, CaptureInv
  <2>3. CASE ~reading /\ Look /\ lastRead' = lastRead
    <3>1. detector' = next
      BY <1>4, <2>3 DEF Tick, next
    <3>2. ~Waits'
      BY <1>2, <2>1, <2>3
    <3>3. QED
      BY <1>1, <2>1, <2>3, <3>1, <3>2 DEF CaptureInv
  <2>4. CASE /\ ~reading /\ detector' = next /\ next.phase = "awaiting_change"
             /\ countdown' = 0 /\ lastRead' = next.captured
    BY <1>1, <2>1, <2>4 DEF CaptureInv, DetectorState
  <2>5. QED
    BY <1>4, <2>2, <2>3, <2>4 DEF Tick, next
<1>5. ASSUME NEW f \in Frames, CaptureNow(f) PROVE CaptureInv'
  <2>1. /\ lastRead' = NoFrame /\ frame' = f
        /\ detector' = [phase |-> "awaiting_change", stableCount |-> 3, previous |-> f, captured |-> f,
                        shouldCapture |-> FALSE]
    BY <1>5 DEF CaptureNow
  <2>2. QED
    BY <2>1 DEF CaptureInv, DetectorState
<1>6. ASSUME CameraStarts PROVE CaptureInv'
  BY <1>6 DEF CameraStarts, CreateDetector, CaptureInv, DetectorState
<1>7. ASSUME UNCHANGED <<detector, lastRead, changed>>, frame' \in Frames, countdown' \in {0, countdown}
      PROVE  CaptureInv'
  BY <1>7 DEF CaptureInv
<1>8. frame \in Frames
  BY DEF CaptureInv
<1>9. QED
  BY <1>3, <1>4, <1>5, <1>6, <1>7, <1>8
     DEF CaptureNext, captureVars, TickFails, ReadingEnds, CameraStops, LimitChanges, PhotoChosen, Move

\* One card that stays in view is never read twice by the automatic capture, whatever
\* the frames, the thresholds and the countdown.
THEOREM CardsAreReadOnce == CaptureSpec => NoCardReadTwice
<1>1. CaptureInit => CaptureInv
  BY DEF CaptureInit, CaptureInv, CreateDetector, DetectorState
<1>2. CaptureInv /\ [CaptureNext]_captureVars =>
        [~reading /\ reading' /\ countdown' # countdown /\ lastRead # NoFrame /\ lastRead' # NoFrame
           => changed]_captureVars
  <2> SUFFICES ASSUME CaptureInv, CaptureNext, ~reading, reading', countdown' # countdown,
                      lastRead # NoFrame, lastRead' # NoFrame
               PROVE  changed
    BY DEF captureVars
  <2>1. PICK sharp \in BOOLEAN : Tick(sharp)
    BY DEF CaptureNext, Sample, TickFails, ReadingEnds, CameraStops, CameraStarts, LimitChanges, PhotoChosen,
      Move, CaptureNow
  <2>2. countdown # 0
    BY <2>1 DEF Tick
  <2>3. QED
    BY <2>2 DEF CaptureInv
<1>3. QED
  BY <1>1, CaptureStep, <1>2, PTL DEF CaptureSpec, NoCardReadTwice

-----------------------------------------------------------------------------
(* A single scan.                                                          *)

\* One search at most is current; it, its candidates and the current addition are of the
\* photograph on the page.
SingleInv ==
  /\ SingleTypeOK
  /\ searching <=> \E j \in searches : j.current
  /\ \A i, j \in searches : i.current /\ j.current => i = j
  /\ \A j \in searches : j.current => j.scan = scan
  /\ \A s \in saves : s.current => s.scan = scan
  /\ found # {} => foundFor = scan
  /\ success # 0 /\ success # scan => left
  /\ saving => searchedOver \/ \E s \in saves : s.current

\* Every step of the page keeps its photograph and its answers together.
LEMMA SingleStep == SingleInv /\ [SingleNext]_singleVars => SingleInv'
<1> SUFFICES ASSUME SingleInv, [SingleNext]_singleVars PROVE SingleInv'
  OBVIOUS
<1> DEFINE Search == [scan : 1..MaxScans, current : BOOLEAN]
           Save == [scan : 1..MaxScans, printing : Matches, step : {"adding", "summary"}, current : BOOLEAN]
<1>1. /\ scan \in 0..MaxScans /\ scans \in 0..MaxScans /\ success \in 0..MaxScans /\ foundFor \in 0..MaxScans
      /\ searches \subseteq Search /\ saves \subseteq Save
      /\ searching \in BOOLEAN /\ confirmed \in BOOLEAN /\ saving \in BOOLEAN /\ left \in BOOLEAN
      /\ searchedOver \in BOOLEAN
      /\ found \subseteq Matches /\ selected \in Matches \cup {NoMatch}
      /\ mode \in {"single", "multiple", "automatic"}
  BY DEF SingleInv, SingleTypeOK
<1>2. \A j \in Superseded(searches) : j \in Search /\ ~j.current
  BY <1>1 DEF Superseded
<1>3. \A s \in Superseded(saves) : s \in Save /\ ~s.current
  BY <1>1 DEF Superseded
\* a search
<1>4. ASSUME NEW card \in 1..MaxScans, StartSearch(card), scan' = card, scans' \in 0..MaxScans,
             UNCHANGED <<mode, saving, foundFor, left>>
      PROVE  SingleInv'
  <2>1. PICK j : j = [scan |-> card, current |-> TRUE]
    OBVIOUS
  <2>2. j \in Search /\ j.current /\ j.scan = card
    BY <2>1
  <2>3. /\ searches' = Superseded(searches) \cup {j} /\ searching' = TRUE /\ saves' = Superseded(saves)
        /\ searchedOver' = (searchedOver \/ saving)
        /\ found' = {} /\ selected' = NoMatch /\ confirmed' = FALSE /\ success' = 0
    BY <1>4, <2>1 DEF StartSearch
  <2>4. searchedOver' \in BOOLEAN
    BY <1>1, <2>3, Zenon
  <2>5. {searching, confirmed, saving, left, searchedOver}' \subseteq BOOLEAN
    BY <1>1, <1>4, <2>3, <2>4, Zenon
  <2>6. SingleTypeOK'
    BY <1>1, <1>2, <1>3, <1>4, <2>2, <2>3, <2>5, SingleAssumption DEF SingleTypeOK
  <2>7. searching' <=> \E i \in searches' : i.current
    BY <2>2, <2>3
  <2>8. saving' => searchedOver'
    BY <1>1, <1>4, <2>3, Zenon
  <2>9. QED
    BY <1>2, <1>3, <1>4, <2>2, <2>3, <2>6, <2>7, <2>8 DEF SingleInv
<1>5. ASSUME ReceiveResult PROVE SingleInv'
  BY <1>1, <1>4, <1>5, SingleAssumption DEF ReceiveResult
<1>6. ASSUME SearchTitle PROVE SingleInv'
  <2>1. scan \in 1..MaxScans
    BY <1>1, <1>6, SingleAssumption DEF SearchTitle
  <2>2. QED
    BY <1>1, <1>4, <1>6, <2>1 DEF SearchTitle
<1>7. ASSUME NEW j \in searches, NEW c \in SUBSET Matches, NEW d \in c \cup {NoMatch}, SearchEnds(j, c, d)
      PROVE  SingleInv'
  <2>1. /\ searches' = searches \ {j} /\ searching' = (searching /\ ~j.current)
        /\ UNCHANGED <<mode, scan, scans, saves, saving, left, searchedOver>>
        /\ \/ found' = c /\ foundFor' = j.scan /\ selected' = d /\ j.current
              /\ confirmed' = (confirmed /\ d = NoMatch) /\ success' \in {success, 0}
           \/ UNCHANGED <<found, foundFor, selected, confirmed, success>>
    BY <1>7 DEF SearchEnds
  <2>2. j \in Search /\ j.current \in BOOLEAN
    BY <1>1
  <2>3. searching' \in BOOLEAN /\ confirmed' \in BOOLEAN
    BY <1>1, <2>1, <2>2, Zenon
  <2>4. {searching, confirmed, saving, left, searchedOver}' \subseteq BOOLEAN
    BY <1>1, <2>1, <2>3, Zenon
  <2>5. SingleTypeOK'
    <3>1. success' \in 0..MaxScans /\ foundFor' \in 0..MaxScans
      BY <1>1, <2>1, <2>2, SingleAssumption
    <3>2. found' \subseteq Matches /\ selected' \in Matches \cup {NoMatch}
      BY <1>1, <2>1
    <3>3. QED
      BY <1>1, <2>1, <2>4, <3>1, <3>2 DEF SingleTypeOK
  <2>6. searching' <=> \E i \in searches' : i.current
    <3>1. searching <=> \E i \in searches : i.current
      BY DEF SingleInv
    <3>2. \A i \in searches : i.current /\ j.current => i = j
      BY DEF SingleInv
    <3>3. QED
      BY <2>1, <3>1, <3>2
  <2>7. /\ \A i \in searches' : i.current => i.scan = scan'
        /\ found' # {} => foundFor' = scan'
    BY <2>1 DEF SingleInv
  <2>8. success' # 0 /\ success' # scan' => left'
    BY <2>1 DEF SingleInv
  <2>9. QED
    BY <2>1, <2>5, <2>6, <2>7, <2>8 DEF SingleInv
\* the candidates
<1>8. ASSUME UNCHANGED <<mode, scan, scans, searches, searching, found, saves, saving, foundFor, left, searchedOver>>,
             selected' \in Matches \cup {NoMatch}, confirmed' \in BOOLEAN, success' \in {success, 0}
      PROVE  SingleInv'
  <2>1. {searching, confirmed, saving, left, searchedOver}' \subseteq BOOLEAN
    BY <1>1, <1>8, Zenon
  <2>2. SingleTypeOK'
    BY <1>1, <1>8, <2>1, SingleAssumption DEF SingleTypeOK
  <2>3. QED
    BY <1>8, <2>2 DEF SingleInv
<1>9. ASSUME NEW p \in Matches, SelectCandidate(p) PROVE SingleInv'
  BY <1>8, <1>9 DEF SelectCandidate
<1>10. ASSUME FilterCandidates PROVE SingleInv'
  BY <1>8, <1>10 DEF FilterCandidates
<1>11. ASSUME NEW yes \in BOOLEAN, ConfirmPrinting(yes) PROVE SingleInv'
  BY <1>1, <1>8, <1>11 DEF ConfirmPrinting
\* an addition
<1>12. ASSUME AddCard PROVE SingleInv'
  <2>1. PICK s : s = [scan |-> scan, printing |-> selected, step |-> "adding", current |-> TRUE]
    OBVIOUS
  <2>2. /\ saves' = saves \cup {s} /\ saving' = TRUE /\ success' = 0
        /\ UNCHANGED <<mode, scan, scans, searches, searching, found, selected, confirmed, foundFor, left,
                       searchedOver>>
    BY <1>12, <2>1 DEF AddCard
  <2>3. s \in Save /\ s.current /\ s.scan = scan
    BY <1>1, <1>12, <2>1, SingleAssumption DEF AddCard, Review
  <2>4. {searching, confirmed, saving, left, searchedOver}' \subseteq BOOLEAN
    BY <1>1, <2>2, Zenon
  <2>5. SingleTypeOK'
    BY <1>1, <2>2, <2>3, <2>4, SingleAssumption DEF SingleTypeOK
  <2>6. QED
    BY <2>2, <2>3, <2>5 DEF SingleInv
<1>13. ASSUME NEW s \in saves, CardAdded(s) PROVE SingleInv'
  <2>1. PICK e : e = [s EXCEPT !.step = "summary"]
    OBVIOUS
  <2>2. e \in Save /\ e.current = s.current /\ e.scan = s.scan
    BY <1>1, <2>1
  <2>3. /\ saves' = (saves \ {s}) \cup (IF s.current THEN {e} ELSE {})
        /\ UNCHANGED <<mode, scan, scans, searches, searching, found, selected, confirmed, saving, success,
                       foundFor, left, searchedOver>>
    BY <1>13, <2>1 DEF CardAdded
  <2>4. {searching, confirmed, saving, left, searchedOver}' \subseteq BOOLEAN
    BY <1>1, <2>3, Zenon
  <2>5. SingleTypeOK'
    BY <1>1, <2>2, <2>3, <2>4 DEF SingleTypeOK
  <2>6. \A r \in saves' : r.current => r.scan = scan'
    BY <2>2, <2>3 DEF SingleInv
  <2>7. saving' => searchedOver' \/ \E r \in saves' : r.current
    BY <2>2, <2>3 DEF SingleInv
  <2>8. QED
    BY <2>3, <2>5, <2>6, <2>7 DEF SingleInv
<1>14. ASSUME NEW s \in saves, saves' = saves \ {s}, saving' = (saving /\ ~s.current),
              UNCHANGED <<mode, scan, scans, searches, searching, found, selected, foundFor, searchedOver>>,
              confirmed' \in BOOLEAN,
              \/ UNCHANGED <<success, left>>
              \/ success' = s.scan /\ left' = (left \/ ~s.current)
       PROVE  SingleInv'
  <2>1. s \in Save /\ s.current \in BOOLEAN
    BY <1>1
  <2>2. saving' \in BOOLEAN /\ left' \in BOOLEAN
    BY <1>1, <1>14, <2>1, Zenon
  <2>3. {searching, confirmed, saving, left, searchedOver}' \subseteq BOOLEAN
    BY <1>1, <1>14, <2>2, Zenon
  <2>4. SingleTypeOK'
    BY <1>1, <1>14, <2>1, <2>3 DEF SingleTypeOK
  <2>5. success' # 0 /\ success' # scan' => left'
    <3>1. success # 0 /\ success # scan => left
      BY DEF SingleInv
    <3>2. s.current => s.scan = scan
      BY DEF SingleInv
    <3>3. left' = left \/ left' = (left \/ ~s.current)
      BY <1>14
    <3>4. left => left'
      BY <1>1, <3>3, <1>14, Zenon
    <3>5. QED
      BY <1>14, <3>1, <3>2, <3>4
  <2>6. saving' => searchedOver' \/ \E r \in saves' : r.current
    BY <1>14 DEF SingleInv
  <2>7. QED
    BY <1>14, <2>4, <2>5, <2>6 DEF SingleInv
<1>15. ASSUME NEW s \in saves, CardRefused(s) \/ SummaryEnds(s) PROVE SingleInv'
  BY <1>1, <1>14, <1>15 DEF CardRefused, SummaryEnds
\* the page moves on
<1>16. ASSUME ResetScan PROVE SingleInv'
  <2>1. /\ scan' = 0 /\ searches' = Superseded(searches) /\ saves' = Superseded(saves)
        /\ found' = {} /\ selected' = NoMatch /\ confirmed' = FALSE
        /\ searching' = FALSE /\ saving' = FALSE /\ success' = 0 /\ searchedOver' = FALSE
        /\ UNCHANGED <<mode, scans, foundFor, left>>
    BY <1>16 DEF ResetScan
  <2>2. {searching, confirmed, saving, left, searchedOver}' \subseteq BOOLEAN
    BY <1>1, <2>1, Zenon
  <2>3. SingleTypeOK'
    BY <1>1, <1>2, <1>3, <2>1, <2>2, SingleAssumption DEF SingleTypeOK
  <2>4. QED
    BY <1>2, <1>3, <2>1, <2>3 DEF SingleInv
<1>17. ASSUME mode' \in {"single", "multiple", "automatic"},
              UNCHANGED <<scan, scans, searches, searching, found, selected, confirmed, saves, saving, success,
                          foundFor, left, searchedOver>>
       PROVE  SingleInv'
  <2>1. {searching, confirmed, saving, left, searchedOver}' \subseteq BOOLEAN
    BY <1>1, <1>17, Zenon
  <2>2. SingleTypeOK'
    BY <1>1, <1>17, <2>1 DEF SingleTypeOK
  <2>3. QED
    BY <1>17, <2>2 DEF SingleInv
<1>18. ASSUME NEW m \in {"single", "multiple", "automatic"}, SetMode(m) PROVE SingleInv'
  BY <1>17, <1>18 DEF SetMode
<1>19. CASE UNCHANGED singleVars
  BY <1>1, <1>17, <1>19 DEF singleVars
<1>20. QED
  BY <1>5, <1>6, <1>7, <1>9, <1>10, <1>11, <1>12, <1>13, <1>15, <1>16, <1>18, <1>19 DEF SingleNext

\* The page begins with nothing.
LEMMA SingleInitially == SingleInit => SingleInv
<1> SUFFICES ASSUME SingleInit PROVE SingleInv
  OBVIOUS
<1>1. {searching, confirmed, saving, left, searchedOver} \subseteq BOOLEAN
  BY Zenon DEF SingleInit
<1>2. QED
  BY <1>1, SingleAssumption DEF SingleInit, SingleInv, SingleTypeOK

\* What the page says is about the photograph it shows, for any printings and however
\* many photographs are taken.
THEOREM PageIsOfItsScan == SingleSpec => []PageOfThisScan
<1>1. SingleInit => SingleInv
  BY SingleInitially
<1>2. SingleInv => PageOfThisScan
  BY DEF SingleInv, PageOfThisScan
<1>3. QED
  BY <1>1, SingleStep, <1>2, PTL DEF SingleSpec

-----------------------------------------------------------------------------
(* The types.                                                              *)

\* The detector counts to the samples it needs; "Capture now" has it count three.
DetectorCounts(d) ==
  /\ d.stableCount \in 0 .. StableSamples \cup {3}
  /\ d.phase # "awaiting_change" => d.stableCount < StableSamples

CaptureTyped ==
  /\ DetectorCounts(detector)
  /\ countdown \in 0 .. Countdown /\ retries \in 0 .. 2
  /\ {viewing, limit, reading, changed} \subseteq BOOLEAN

LEMMA AdvanceCounts ==
  ASSUME NEW d \in DetectorState, NEW f \in Frames, DetectorCounts(d)
  PROVE  DetectorCounts(Advance(d, f))
<1> DEFINE still == d.previous # NoFrame /\ Distance(d.previous, f) <= StableThreshold
<1>1. CASE d.phase = "awaiting_change" /\ Distance(d.captured, f) >= ChangeThreshold
  <2>1. Advance(d, f).stableCount = 1
    BY <1>1 DEF Advance
  <2>2. QED
    BY <2>1, DetectorAssumption DEF DetectorCounts
<1>2. CASE d.phase = "awaiting_change" /\ ~(Distance(d.captured, f) >= ChangeThreshold)
  <2>1. Advance(d, f) = [d EXCEPT !.previous = f, !.shouldCapture = FALSE]
    BY <1>2 DEF Advance
  <2>2. Advance(d, f).stableCount = d.stableCount /\ Advance(d, f).phase = "awaiting_change"
    BY <1>2, <2>1 DEF DetectorState
  <2>3. QED
    BY <2>2 DEF DetectorCounts
<1>3. CASE d.phase # "awaiting_change"
  <2>1. PICK count : count = IF still THEN d.stableCount + 1 ELSE 1
    OBVIOUS
  <2>2. d.stableCount \in Nat /\ d.stableCount < StableSamples
    BY <1>3 DEF DetectorCounts, DetectorState
  <2>3. count \in 0 .. StableSamples
    BY <2>1, <2>2, DetectorAssumption
  <2>4. /\ Advance(d, f).stableCount = count
        /\ Advance(d, f).phase = IF count >= StableSamples THEN "awaiting_change" ELSE "stabilizing"
    BY <1>3, <2>1 DEF Advance
  <2>5. Advance(d, f).phase # "awaiting_change" => ~(count >= StableSamples)
    BY <2>4
  <2>6. QED
    BY <2>3, <2>4, <2>5, DetectorAssumption DEF DetectorCounts
<1>4. QED
  BY <1>1, <1>2, <1>3

\* The countdown and its retries stay within their bounds.
LEMMA CaptureTypedStep == CaptureInv /\ CaptureTyped /\ [CaptureNext]_captureVars => CaptureTyped'
<1> SUFFICES ASSUME CaptureInv, CaptureTyped, [CaptureNext]_captureVars PROVE CaptureTyped'
  OBVIOUS
<1>1. detector' = Advance(detector, frame) => DetectorCounts(detector')
  BY AdvanceCounts DEF CaptureInv, CaptureTyped
<1>2. DetectorCounts(CreateDetector)
  BY DetectorAssumption DEF DetectorCounts, CreateDetector
<1>3. ASSUME NEW f \in Frames, CaptureNow(f) PROVE DetectorCounts(detector')
  BY <1>3 DEF CaptureNow, DetectorCounts
<1>4. DetectorCounts(detector')
  <2>1. \/ detector' \in {detector, Advance(detector, frame), CreateDetector}
        \/ \E f \in Frames : CaptureNow(f)
    BY Zenon DEF CaptureNext, captureVars, Sample, TickFails, ReadingEnds, CameraStops, CameraStarts, LimitChanges,
      PhotoChosen, Tick, Move
  <2>2. QED
    BY <1>1, <1>2, <1>3, <2>1 DEF CaptureTyped
<1>5. countdown' \in 0 .. Countdown /\ retries' \in 0 .. 2
  <2>1. \/ countdown' = countdown /\ retries' = retries
        \/ countdown' \in {0, Countdown} /\ retries' \in {0, retries}
        \/ countdown > 1 /\ countdown' = countdown - 1 /\ retries' = retries
        \/ retries < 2 /\ countdown' = 2 /\ retries' = retries + 1
    BY DEF CaptureNext, captureVars, Sample, TickFails, ReadingEnds, CameraStops, CameraStarts, LimitChanges,
      PhotoChosen, Tick, Move, CaptureNow
  <2>2. countdown \in 0 .. Countdown /\ retries \in 0 .. 2
    BY DEF CaptureTyped
  <2>3. QED
    BY <2>1, <2>2, DetectorAssumption
<1>6. {viewing, limit, reading, changed}' \subseteq BOOLEAN
  <2>1. viewing \in BOOLEAN /\ limit \in BOOLEAN /\ reading \in BOOLEAN /\ changed \in BOOLEAN
    BY DEF CaptureTyped
  <2>2. Look => changed' \in BOOLEAN
    BY <2>1, Zenon DEF Look
  <2>3. viewing' \in BOOLEAN /\ limit' \in BOOLEAN /\ reading' \in BOOLEAN /\ changed' \in BOOLEAN
    BY <2>1, <2>2, Zenon DEF CaptureNext, captureVars, Sample, TickFails, ReadingEnds, CameraStops, CameraStarts,
      LimitChanges, PhotoChosen, Tick, Move, CaptureNow
  <2>4. QED
    BY <2>3
<1>7. QED
  BY <1>4, <1>5, <1>6 DEF CaptureTyped

LEMMA CaptureIsTyped == CaptureSpec => []CaptureTypeOK
<1>1. CaptureInit => CaptureInv /\ CaptureTyped
  <2> SUFFICES ASSUME CaptureInit PROVE CaptureInv /\ CaptureTyped
    OBVIOUS
  <2>1. CaptureInv
    BY DEF CaptureInit, CaptureInv, CreateDetector, DetectorState
  <2>2. DetectorCounts(detector)
    BY DetectorAssumption DEF CaptureInit, DetectorCounts, CreateDetector
  <2>3. {viewing, limit, reading, changed} \subseteq BOOLEAN
    BY Zenon DEF CaptureInit
  <2>4. countdown \in 0 .. Countdown /\ retries \in 0 .. 2
    BY DetectorAssumption DEF CaptureInit
  <2>5. QED
    BY <2>1, <2>2, <2>3, <2>4 DEF CaptureTyped
<1>2. CaptureInv /\ CaptureTyped => CaptureTypeOK
  BY DEF CaptureInv, CaptureTyped, CaptureTypeOK, DetectorState, DetectorCounts
<1>3. QED
  BY <1>1, <1>2, CaptureStep, CaptureTypedStep, PTL DEF CaptureSpec

\* What the session's own invariant does not say of its type.
SessionTyped ==
  /\ Len(items) <= MaximumItems /\ Len(queue) <= MaxQueue
  /\ retakeId \in Photos \cup {NoPhoto} /\ asked \subseteq Photos
  /\ pass = NoPass \/ (pass.saved \in BOOLEAN /\ DOMAIN pass.todo \subseteq 1..MaximumItems)
  /\ itemUrls \subseteq used
  /\ \A p \in Photos : lost[p] <= MaxLost
  /\ open \in BOOLEAN

\* The cards of a session, and the recognitions queued, stay within their limits.
LEMMA LengthsStep ==
  ASSUME SessionInv, SessionTyped, SessionNext, SessionInv'
  PROVE  Len(items') <= MaximumItems /\ Len(queue') <= MaxQueue
<1>1. items \in Seq(Item) /\ items' \in Seq(Item) /\ queue \in Seq(Scan) /\ queue' \in Seq(Scan)
  BY DEF SessionInv, CardsInv
<1>2. Len(items) <= MaximumItems /\ Len(queue) <= MaxQueue
  BY DEF SessionTyped
<1>3. \A id : Without(items, id) \in Seq(Item) /\ Len(Without(items, id)) <= Len(items)
  <2> SUFFICES ASSUME NEW id PROVE Without(items, id) \in Seq(Item) /\ Len(Without(items, id)) <= Len(items)
    OBVIOUS
  <2>1. Without(items, id) \in Seq(Item)
    BY WithoutOne DEF SessionInv
  <2> DEFINE gone == {n \in DOMAIN items : items[n].id = id}
  <2>2. CASE gone = {}
    BY <1>1, <2>1, <2>2 DEF Without
  <2>3. CASE gone # {}
    <3>1. PICK k : k = CHOOSE n \in gone : TRUE
      OBVIOUS
    <3>2. k \in 1..Len(items) /\ Without(items, id) = RemoveAt(items, k)
      BY <1>1, <2>3, <3>1 DEF Without
    <3>3. SubSeq(items, 1, k - 1) \in Seq(Item) /\ Len(SubSeq(items, 1, k - 1)) = k - 1
      BY <1>1, <3>2, SubSeqProperties
    <3>4. /\ SubSeq(items, k + 1, Len(items)) \in Seq(Item)
          /\ Len(SubSeq(items, k + 1, Len(items))) = Len(items) - k
      BY <1>1, <3>2, SubSeqProperties
    <3>5. Len(RemoveAt(items, k)) = (k - 1) + (Len(items) - k)
      BY <3>3, <3>4, ConcatProperties DEF RemoveAt
    <3>6. QED
      BY <1>1, <2>1, <3>2, <3>5
  <2>4. QED
    BY <2>2, <2>3
<1>4. \/ DOMAIN items' = DOMAIN items
      \/ Len(items) < MaximumItems /\ \E p \in Photos : items' = Append(items, Captured(p))
      \/ \E id : DOMAIN items' = DOMAIN Without(items, id)
      \/ items' = <<>>
  <2>1. ASSUME NEW p \in Photos,
               ReceiveScan(p) \/ \E id \in Replacing : ReceiveRetake(p, id) \/ DropScan(p, id)
        PROVE  \/ DOMAIN items' = DOMAIN items
               \/ Len(items) < MaximumItems /\ items' = Append(items, Captured(p))
    BY <2>1 DEF ReceiveScan, ReceiveRetake, DropScan, Updated
  <2>2. CASE StartRecognition \/ Recognize
    BY <2>2 DEF StartRecognition, Recognize, FinishRecognition, FailRecognition, Updated
  <2>3. CASE Editing
    BY <2>3 DEF Editing, EditTitle, EditFilter, RetryRecognition, RetakeSelected, RemoveSelected, ChooseCandidate,
      EditDetails, ConfirmSelected, UnconfirmSelected, ConfirmAll, Edit, Updated
  <2>4. CASE Saving
    BY <2>4 DEF Saving, SaveConfirmed, PostSaved, PostFailed, FinishPass, Sending, Updated
  <2>5. CASE LeaveSession
    BY <2>5 DEF LeaveSession
  <2>6. QED
    BY <2>1, <2>2, <2>3, <2>4, <2>5 DEF SessionNext
<1>5. Len(items') <= MaximumItems
  <2>1. \A s \in Seq(Item) : DOMAIN items' = DOMAIN s => Len(items') = Len(s)
    BY <1>1
  <2>2. CASE DOMAIN items' = DOMAIN items
    BY <1>1, <1>2, <2>1, <2>2
  <2>3. CASE Len(items) < MaximumItems /\ \E p \in Photos : items' = Append(items, Captured(p))
    BY <1>1, <2>3, SessionAssumption
  <2>4. CASE \E id : DOMAIN items' = DOMAIN Without(items, id)
    BY <1>1, <1>2, <1>3, <2>1, <2>4, SessionAssumption
  <2>5. CASE items' = <<>>
    BY <2>5, SessionAssumption
  <2>6. QED
    BY <1>4, <2>2, <2>3, <2>4, <2>5
<1>6. \/ queue' = queue \/ queue' = <<>> \/ (queue # <<>> /\ queue' = Tail(queue))
      \/ Len(queue) < MaxQueue /\ \E s : queue' = Append(queue, s)
  <2>1. \A id, p : Enqueue(id, p) => Len(queue) < MaxQueue /\ \E s : queue' = Append(queue, s)
    BY DEF Enqueue
  <2>2. ASSUME NEW p \in Photos,
               ReceiveScan(p) \/ \E id \in Replacing : ReceiveRetake(p, id) \/ DropScan(p, id)
        PROVE  queue' = queue \/ \E id, q : Enqueue(id, q)
    BY <2>2 DEF ReceiveScan, ReceiveRetake, DropScan
  <2>3. CASE StartRecognition \/ Recognize
    BY <2>3 DEF StartRecognition, Recognize, FinishRecognition, FailRecognition
  <2>4. CASE Editing
    <3>1. queue' = queue \/ \E id, q : Enqueue(id, q)
      BY <2>4 DEF Editing, EditTitle, EditFilter, RetryRecognition, RetakeSelected, RemoveSelected, ChooseCandidate,
        EditDetails, ConfirmSelected, UnconfirmSelected, ConfirmAll, Edit
    <3>2. QED
      BY <2>1, <3>1
  <2>5. CASE Saving \/ LeaveSession
    BY <2>5 DEF Saving, SaveConfirmed, PostSaved, PostFailed, FinishPass, LeaveSession
  <2>6. QED
    BY <2>1, <2>2, <2>3, <2>4, <2>5 DEF SessionNext
<1>7. Len(queue') <= MaxQueue
  <2>1. CASE queue' = queue \/ queue' = <<>> \/ (queue # <<>> /\ queue' = Tail(queue))
    BY <1>1, <1>2, <2>1, SessionAssumption
  <2>2. CASE Len(queue) < MaxQueue /\ \E s : queue' = Append(queue, s)
    <3>1. PICK s : queue' = Append(queue, s)
      BY <2>2
    <3>2. Len(queue') = Len(queue) + 1
      BY <1>1, <3>1
    <3>3. QED
      BY <1>1, <2>2, <3>2, SessionAssumption
  <2>3. QED
    BY <1>6, <2>1, <2>2
<1>8. QED
  BY <1>5, <1>7

\* The rest of the session's type.
LEMMA SessionTypedStep == SessionInv /\ SessionTyped /\ [SessionNext]_sessionVars /\ SessionInv' => SessionTyped'
<1> SUFFICES ASSUME SessionInv, SessionTyped, [SessionNext]_sessionVars, SessionInv' PROVE SessionTyped'
  OBVIOUS
<1>1. CASE UNCHANGED sessionVars
  BY <1>1 DEF sessionVars, SessionTyped
<1>2. CASE SessionNext
  <2>1. Len(items') <= MaximumItems /\ Len(queue') <= MaxQueue
    BY <1>2, LengthsStep
  <2>2. retakeId' \in {retakeId, NoPhoto} \cup Photos /\ (asked' = asked \/ \E id \in Photos : asked' = asked \cup {id})
    BY <1>2, Zenon DEF SessionNext, ReceiveScan, ReceiveRetake, DropScan, StartRecognition, Recognize,
      FinishRecognition, FailRecognition, Editing, EditTitle, EditFilter, RetryRecognition, RetakeSelected,
      RemoveSelected, ChooseCandidate, EditDetails, ConfirmSelected, UnconfirmSelected, ConfirmAll, Edit,
      Saving, SaveConfirmed, PostSaved, PostFailed, FinishPass, LeaveSession
  <2>3. open' \in {open, FALSE}
    BY <1>2, Zenon DEF SessionNext, ReceiveScan, ReceiveRetake, DropScan, StartRecognition, Recognize,
      FinishRecognition, FailRecognition, Editing, EditTitle, EditFilter, RetryRecognition, RetakeSelected,
      RemoveSelected, ChooseCandidate, EditDetails, ConfirmSelected, UnconfirmSelected, ConfirmAll, Edit,
      Saving, SaveConfirmed, PostSaved, PostFailed, FinishPass, LeaveSession
  <2>4. pass' = NoPass \/ (pass'.saved \in BOOLEAN /\ DOMAIN pass'.todo \subseteq 1..MaximumItems)
    <3>1. CASE pass' = pass
      BY <3>1 DEF SessionTyped
    <3>2. CASE SaveConfirmed
      <4>1. PICK ready, todo : /\ ready \subseteq DOMAIN items /\ todo = [n \in ready |-> ToPost(items[n])]
                               /\ pass' = [todo |-> todo, saved |-> FALSE]
        BY <3>2 DEF SaveConfirmed
      <4>2. DOMAIN items \subseteq 1..MaximumItems
        BY SessionAssumption DEF SessionInv, CardsInv, SessionTyped
      <4>3. QED
        BY <4>1, <4>2
    <3>3. ASSUME NEW b \in BOOLEAN, pass # NoPass, pass' = [todo |-> Rest(pass.todo), saved |-> b] PROVE  DOMAIN pass'.todo \subseteq 1..MaximumItems /\ pass'.saved \in BOOLEAN
      BY <3>3 DEF SessionTyped, Rest
    <3>4. PostSaved => pass # NoPass /\ pass' = [todo |-> Rest(pass.todo), saved |-> TRUE]
      BY DEF PostSaved
    <3>5. \A u \in BOOLEAN : PostFailed(u) => pass # NoPass /\ pass' = [todo |-> Rest(pass.todo), saved |-> pass.saved]
      BY DEF PostFailed
    <3>6. pass # NoPass => pass.saved \in BOOLEAN
      BY DEF SessionTyped
    <3>7. \/ pass' \in {pass, NoPass} \/ SaveConfirmed \/ PostSaved \/ \E u \in BOOLEAN : PostFailed(u)
      BY <1>2, Zenon DEF SessionNext, ReceiveScan, ReceiveRetake, DropScan, StartRecognition, Recognize,
        FinishRecognition, FailRecognition, Editing, EditTitle, EditFilter, RetryRecognition, RetakeSelected,
        RemoveSelected, ChooseCandidate, EditDetails, ConfirmSelected, UnconfirmSelected, ConfirmAll, Edit,
        Saving, FinishPass, LeaveSession
    <3>8. QED
      BY <3>1, <3>2, <3>3, <3>4, <3>5, <3>6, <3>7
  <2>5. itemUrls' \subseteq used'
    <3>1. \/ itemUrls' \subseteq itemUrls /\ used \subseteq used'
          \/ \E p \in Photos : itemUrls' \subseteq itemUrls \cup {p} /\ used' = used \cup {p}
      <4>1. ASSUME NEW p \in Photos,
                   ReceiveScan(p) \/ \E id \in Replacing : ReceiveRetake(p, id) \/ DropScan(p, id)
            PROVE  itemUrls' \subseteq itemUrls \cup {p} /\ used' = used \cup {p}
        BY <4>1 DEF ReceiveScan, ReceiveRetake, DropScan
      <4>2. CASE StartRecognition \/ Recognize
        BY <4>2 DEF StartRecognition, Recognize, FinishRecognition, FailRecognition
      <4>3. CASE Editing
        BY <4>3 DEF Editing, EditTitle, EditFilter, RetryRecognition, RetakeSelected, RemoveSelected, ChooseCandidate,
          EditDetails, ConfirmSelected, UnconfirmSelected, ConfirmAll, Edit
      <4>4. CASE Saving
        BY <4>4 DEF Saving, SaveConfirmed, PostSaved, PostFailed, FinishPass
      <4>5. CASE LeaveSession
        BY <4>5 DEF LeaveSession
      <4>6. QED
        BY <1>2, <4>1, <4>2, <4>3, <4>4, <4>5 DEF SessionNext
    <3>2. QED
      BY <3>1 DEF SessionTyped
  <2>6. \A p \in Photos : lost'[p] <= MaxLost
    <3>1. CASE lost' = lost
      BY <3>1 DEF SessionTyped
    <3>2. ASSUME NEW u \in BOOLEAN, PostFailed(u), lost' # lost PROVE \A p \in Photos : lost'[p] <= MaxLost
      <4>1. PICK id : lost[id] < MaxLost /\ lost' = [lost EXCEPT ![id] = @ + 1]
        BY <3>2 DEF PostFailed
      <4>2. lost \in [Photos -> Nat] /\ \A p \in Photos : lost[p] <= MaxLost
        BY DEF SessionInv, AddedInv, SessionTyped
      <4>3. QED
        BY <4>1, <4>2, SessionAssumption
    <3>3. lost' = lost \/ \E u \in BOOLEAN : PostFailed(u)
      BY <1>2, Zenon DEF SessionNext, ReceiveScan, ReceiveRetake, DropScan, StartRecognition, Recognize,
        FinishRecognition, FailRecognition, Editing, EditTitle, EditFilter, RetryRecognition, RetakeSelected,
        RemoveSelected, ChooseCandidate, EditDetails, ConfirmSelected, UnconfirmSelected, ConfirmAll, Edit,
        Saving, SaveConfirmed, PostSaved, FinishPass, LeaveSession
    <3>4. QED
      BY <3>1, <3>2, <3>3
  <2>7. QED
    BY <2>1, <2>2, <2>3, <2>4, <2>5, <2>6 DEF SessionTyped
<1>3. QED
  BY <1>1, <1>2

LEMMA SessionIsTyped == SessionSpec => []SessionTypeOK
<1>1. SessionInit => SessionTyped
  BY SessionAssumption DEF SessionInit, SessionTyped
<1>2. SessionInv /\ SessionTyped => SessionTypeOK
  <2> SUFFICES ASSUME SessionInv, SessionTyped PROVE SessionTypeOK
    OBVIOUS
  <2>1. added \in [Photos -> 0..MaxLost + 1] /\ lost \in [Photos -> 0..MaxLost]
    <3>1. /\ added \in [Photos -> Nat] /\ lost \in [Photos -> Nat]
          /\ \A p \in Photos : added[p] <= lost[p] + 1 /\ lost[p] <= MaxLost
      BY DEF SessionInv, AddedInv, SessionTyped
    <3>2. \A p \in Photos : added[p] \in 0..MaxLost + 1 /\ lost[p] \in 0..MaxLost
      BY <3>1, SessionAssumption
    <3>3. QED
      BY <3>1, <3>2
  <2>2. /\ items \in Seq(Item) /\ queue \in Seq(Scan) /\ running \in Recognition \cup {NoJob} /\ used \subseteq Photos
    BY DEF SessionInv, CardsInv
  <2>3. QED
    BY <2>1, <2>2 DEF SessionTyped, SessionTypeOK, Scan
<1>3. QED
  BY <1>1, <1>2, InvariantOfSession, SessionTypedStep, PTL DEF SessionSpec

\* What the camera's invariant does not say of its type.
CameraTyped ==
  /\ consent \in {"unset", "allow", "deny"}
  /\ {choosing, camera, switching, overtaken, behind} \subseteq BOOLEAN
  /\ devices \subseteq Devices /\ controls \in Devices \cup {NoDevice}
  /\ lists \subseteq [stream : Stream, switch : BOOLEAN]
  /\ adjusting = NoCall \/ adjusting \in [stream : Stream, previous : Devices \cup {NoDevice}]

ReadingTyped ==
  /\ {continuous, busy, stale, late} \subseteq BOOLEAN
  /\ worker \in Photo \cup {None} /\ preview \in Photo \cup {None} /\ handed \subseteq Photo

ScannerTyped == CameraTyped /\ ReadingTyped /\ {mounted, resetting, full} \subseteq BOOLEAN

\* Every answer of the browser is about cameras there are.
LEMMA AnswersTyped ==
  ASSUME CameraInv, CameraTyped, NEW shown \in BOOLEAN, CameraAnswers(shown)
  PROVE  CameraTyped'
<1>1. /\ choosing \in BOOLEAN /\ camera \in BOOLEAN /\ switching \in BOOLEAN
      /\ overtaken \in BOOLEAN /\ behind \in BOOLEAN
  BY DEF CameraTyped
<1>2. /\ calls \subseteq Call /\ plugged \subseteq Devices /\ devices \subseteq Devices
      /\ lists \subseteq [stream : Stream, switch : BOOLEAN]
      /\ controls \in Devices \cup {NoDevice}
  BY DEF CameraInv, CallsInv, CameraTyped
<1>3. consent' = consent /\ choosing' = choosing
  BY Zenon DEF CameraAnswers, OpenAnswered, OpenUnavailable, OpenFailed, SwitchAnswered, SwitchFailed, ListFailed,
    ListAnswered, ControlAnswered
<1>4. camera' \in BOOLEAN /\ switching' \in BOOLEAN
  BY <1>1, Zenon DEF CameraAnswers, OpenAnswered, OpenUnavailable, OpenFailed, SwitchAnswered, SwitchFailed, ListFailed,
    ListAnswered, ControlAnswered
<1>5. overtaken' \in BOOLEAN /\ behind' \in BOOLEAN
  BY <1>1, Zenon DEF CameraAnswers, OpenAnswered, OpenUnavailable, OpenFailed, SwitchAnswered, SwitchFailed, ListFailed,
    ListAnswered, ControlAnswered
<1>6. devices' \subseteq Devices
  <2>1. devices' \in {devices, {}, plugged}
    BY Zenon DEF CameraAnswers, OpenAnswered, OpenUnavailable, OpenFailed, SwitchAnswered, SwitchFailed, ListFailed,
      ListAnswered, ControlAnswered
  <2>2. QED
    BY <1>2, <2>1
<1>7. ASSUME NEW c \in calls, NEW device \in Devices, NEW stopped, Hold(c, device, stopped)
      PROVE  controls' \in Devices \cup {NoDevice} /\ lists' \subseteq [stream : Stream, switch : BOOLEAN]
  <2>1. c \in Call /\ [id |-> c.id, device |-> device] \in Stream
    BY <1>2 DEF Call, Stream
  <2>2. controls' = device
        /\ lists' = lists \cup {[stream |-> [id |-> c.id, device |-> device], switch |-> c.kind = "switch"]}
    BY <1>7 DEF Hold
  <2>3. (c.kind = "switch") \in BOOLEAN
    BY Zenon
  <2>4. \A s \in Stream, b \in BOOLEAN : [stream |-> s, switch |-> b] \in [stream : Stream, switch : BOOLEAN]
    OBVIOUS
  <2>5. [stream |-> [id |-> c.id, device |-> device], switch |-> c.kind = "switch"]
          \in [stream : Stream, switch : BOOLEAN]
    BY <2>1, <2>3, <2>4, Zenon
  <2>6. lists' \subseteq [stream : Stream, switch : BOOLEAN]
    BY <1>2, <2>2, <2>5, Zenon
  <2>7. QED
    BY <2>2, <2>6
<1>8. adjusting' \in {adjusting, NoCall}
  BY Zenon DEF CameraAnswers, OpenAnswered, OpenUnavailable, OpenFailed, SwitchAnswered, SwitchFailed, ListFailed,
    ListAnswered, ControlAnswered
<1>9. controls' \in Devices \cup {NoDevice} /\ lists' \subseteq [stream : Stream, switch : BOOLEAN]
  <2>1. \/ \E c \in calls, device \in Devices, stopped \in SUBSET (Stream \cup {NoStream}) : Hold(c, device, stopped)
        \/ controls' = controls /\ lists' \subseteq lists
        \/ lists' = lists /\ adjusting # NoCall /\ controls' \in {adjusting.stream.device, adjusting.previous}
    <3>1. \A c \in calls : c.previous \in Stream \cup {NoStream}
      BY <1>2 DEF Call
    <3>2. \A c \in calls, d \in Devices : OpenAnswered(c, d, shown) => Hold(c, d, {})
      BY DEF OpenAnswered
    <3>3. \A c \in calls : SwitchAnswered(c, shown) => c.device \in Devices /\ Hold(c, c.device, {c.previous})
      BY <1>2 DEF SwitchAnswered
    <3>4. \A c \in calls :
            OpenUnavailable(c) \/ OpenFailed(c) \/ SwitchFailed(c) => controls' = controls /\ lists' \subseteq lists
      BY DEF OpenUnavailable, OpenFailed, SwitchFailed
    <3>5. \A l \in lists : ListFailed(l) => controls' = controls /\ lists' \subseteq lists
      BY DEF ListFailed
    <3>6. \A l \in lists : \A d : ListAnswered(l, d) => controls' = controls /\ lists' \subseteq lists
      BY DEF ListAnswered
    <3>7. ControlAnswered =>
            lists' = lists /\ adjusting # NoCall /\ controls' \in {adjusting.stream.device, adjusting.previous}
      BY DEF ControlAnswered
    <3>8. QED
      BY <3>1, <3>2, <3>3, <3>4, <3>5, <3>6, <3>7 DEF CameraAnswers
  <2>2. adjusting # NoCall => {adjusting.stream.device, adjusting.previous} \subseteq Devices \cup {NoDevice}
    BY DEF CameraTyped, Stream
  <2>3. QED
    BY <1>2, <1>7, <2>1, <2>2
<1>10. QED
  BY <1>3, <1>4, <1>5, <1>6, <1>8, <1>9 DEF CameraTyped

\* Whatever else touches the camera.
LEMMA CameraTypedStep ==
  ASSUME CameraInv, ScannerTyped, [ScannerNext]_scannerVars
  PROVE  CameraTyped'
<1>1. /\ choosing \in BOOLEAN /\ camera \in BOOLEAN /\ switching \in BOOLEAN
      /\ overtaken \in BOOLEAN /\ behind \in BOOLEAN /\ mounted \in BOOLEAN
  BY DEF ScannerTyped, CameraTyped
<1>2. CASE CameraAnswer
  BY <1>1, <1>2, AnswersTyped DEF CameraAnswer, ScannerTyped
<1>3. CASE ~CameraAnswer
  <2>1. consent' \in {consent, "unset", "allow", "deny"}
    BY <1>3, Zenon DEF ScannerNext, scannerVars, cameraVars, StartCamera, UseCamera, ChangeControl, SwitchCamera,
      PlugCamera, DeviceChange, AnswerConsent, ChooseConsent, Capture, HideViewfinder, FocusWaited, AutomaticCapture,
      ReadingAnswer, Retake, NextCard, ChoosePhoto, ResetConsent, ConsentCleared, Leave, SessionCounts, cameraRest
  <2>2. choosing' \in BOOLEAN /\ camera' \in BOOLEAN /\ switching' \in BOOLEAN
    BY <1>1, <1>3, Zenon DEF ScannerNext, scannerVars, cameraVars, StartCamera, RequestCamera, UseCamera, ChangeControl,
      SwitchCamera, PlugCamera, DeviceChange, AnswerConsent, ChooseConsent, Capture, HideViewfinder, FocusWaited,
      AutomaticCapture, ReadingAnswer, Retake, ResumeCamera, NextCard, ChoosePhoto, StopCamera, ResetConsent,
      ConsentCleared, Leave, SessionCounts, cameraRest
  <2>3. UNCHANGED <<overtaken, behind, devices>>
    BY <1>3, Zenon DEF ScannerNext, scannerVars, cameraVars, StartCamera, UseCamera, ChangeControl,
      SwitchCamera, PlugCamera, DeviceChange, AnswerConsent, ChooseConsent, Capture, HideViewfinder, FocusWaited,
      AutomaticCapture, ReadingAnswer, Retake, NextCard, ChoosePhoto, ResetConsent,
      ConsentCleared, Leave, SessionCounts, cameraRest
  <2>4. controls' \in {controls, NoDevice}
    BY <1>3, Zenon DEF ScannerNext, scannerVars, cameraVars, StartCamera, UseCamera, ChangeControl,
      SwitchCamera, PlugCamera, DeviceChange, AnswerConsent, ChooseConsent, Capture, HideViewfinder, FocusWaited,
      AutomaticCapture, ReadingAnswer, Retake, NextCard, ChoosePhoto, StopCamera, ResetConsent,
      ConsentCleared, Leave, SessionCounts, cameraRest
  <2>5. lists' = lists \/ (stream # NoStream /\ lists' = lists \cup {[stream |-> stream, switch |-> FALSE]})
    BY <1>3, Zenon DEF ScannerNext, scannerVars, cameraVars, StartCamera, UseCamera, ChangeControl,
      SwitchCamera, PlugCamera, DeviceChange, AnswerConsent, ChooseConsent, Capture, HideViewfinder, FocusWaited,
      AutomaticCapture, ReadingAnswer, Retake, NextCard, ChoosePhoto, ResetConsent,
      ConsentCleared, Leave, SessionCounts, cameraRest
  <2>6. adjusting' = adjusting \/ (stream # NoStream /\ adjusting' = [stream |-> stream, previous |-> controls])
    BY <1>3, Zenon DEF ScannerNext, scannerVars, cameraVars, StartCamera, UseCamera, ChangeControl,
      SwitchCamera, PlugCamera, DeviceChange, AnswerConsent, ChooseConsent, Capture, HideViewfinder, FocusWaited,
      AutomaticCapture, ReadingAnswer, Retake, NextCard, ChoosePhoto, ResetConsent,
      ConsentCleared, Leave, SessionCounts, cameraRest
  <2>7. /\ consent \in {"unset", "allow", "deny"} /\ devices \subseteq Devices
        /\ controls \in Devices \cup {NoDevice} /\ (stream # NoStream => stream \in Stream)
        /\ lists \subseteq [stream : Stream, switch : BOOLEAN]
        /\ adjusting = NoCall \/ adjusting \in [stream : Stream, previous : Devices \cup {NoDevice}]
    BY DEF CameraInv, ScannerTyped, CameraTyped
  <2>8. lists' \subseteq [stream : Stream, switch : BOOLEAN]
    <3>1. stream \in Stream => [stream |-> stream, switch |-> FALSE] \in [stream : Stream, switch : BOOLEAN]
      OBVIOUS
    <3>2. QED
      BY <2>5, <2>7, <3>1, Zenon
  <2>9. adjusting' = NoCall \/ adjusting' \in [stream : Stream, previous : Devices \cup {NoDevice}]
    BY <2>6, <2>7
  <2>10. QED
    BY <1>1, <2>1, <2>2, <2>3, <2>4, <2>7, <2>8, <2>9 DEF CameraTyped
<1>4. QED
  BY <1>2, <1>3

\* The readings, and whether the scanner is there at all.
LEMMA ReadingTypedStep ==
  ASSUME ReadingInv, ScannerTyped, [ScannerNext]_scannerVars
  PROVE  ReadingTyped' /\ {mounted, resetting, full}' \subseteq BOOLEAN
<1>1. /\ continuous \in BOOLEAN /\ busy \in BOOLEAN /\ stale \in BOOLEAN /\ late \in BOOLEAN
      /\ mounted \in BOOLEAN /\ resetting \in BOOLEAN /\ full \in BOOLEAN
  BY DEF ScannerTyped, ReadingTyped
<1>2. \A j \in jobs : j.photo \in Photo /\ j.current \in BOOLEAN
  BY DEF ReadingInv, JobsInv, Reading
<1>3. mounted' \in BOOLEAN /\ resetting' \in BOOLEAN /\ full' \in BOOLEAN /\ continuous' \in BOOLEAN
  <2>1. mounted' \in BOOLEAN /\ resetting' \in BOOLEAN
    BY <1>1, Zenon DEF ScannerNext, scannerVars, StartCamera, UseCamera, PlugCamera, CameraAnswer, AnswerConsent,
      Capture, HideViewfinder, FocusWaited, AutomaticCapture, ReadingAnswer, Retake, NextCard, ChoosePhoto,
      ResetConsent, ConsentCleared, Leave, SessionCounts
  <2>2. full' \in BOOLEAN
    BY <1>1, Zenon DEF ScannerNext, scannerVars, StartCamera, UseCamera, PlugCamera, CameraAnswer, AnswerConsent,
      Capture, HideViewfinder, FocusWaited, AutomaticCapture, ReadingAnswer, Retake, NextCard, ChoosePhoto,
      ResetConsent, ConsentCleared, Leave, SessionCounts
  <2>3. continuous' = continuous
    BY Zenon DEF ScannerNext, scannerVars, readingVars, StartCamera, UseCamera, PlugCamera, CameraAnswer, AnswerConsent,
      Capture, FocusWaited, AutomaticCapture, ReadingAnswer, ReadingAnswers, Retake, NextCard, ChoosePhoto,
      ResetConsent, ConsentCleared, Leave, SessionCounts, TakeFrame, WaitForFocus, ReadingFailed, PreviewMade,
      WorkerLoaded, TextRead, PhotoPrepared, PhotoUnreadable
  <2>4. QED
    BY <1>1, <2>1, <2>2, <2>3
<1>4. busy' \in BOOLEAN /\ late' \in BOOLEAN /\ stale' \in BOOLEAN
  <2>1. CASE ReadingAnswer
    BY <1>1, <2>1, Zenon DEF ReadingAnswer, ReadingAnswers, ReadingFailed, PreviewMade, WorkerLoaded, TextRead,
      PhotoPrepared, PhotoUnreadable, Drop
  <2>2. CASE ~ReadingAnswer
    <3>1. busy' \in BOOLEAN
      BY <1>1, <2>2, Zenon DEF ScannerNext, scannerVars, readingVars, StartCamera, UseCamera, PlugCamera, CameraAnswer,
        AnswerConsent, Capture, FocusWaited, AutomaticCapture, Retake, NextCard, ChoosePhoto, ResetConsent,
        ConsentCleared, Leave, SessionCounts, StopReading, ClearReading, TakeFrame, WaitForFocus
    <3>2. late' = late
      BY <2>2, Zenon DEF ScannerNext, scannerVars, readingVars, StartCamera, UseCamera, PlugCamera, CameraAnswer,
        AnswerConsent, Capture, FocusWaited, AutomaticCapture, Retake, NextCard, ChoosePhoto, ResetConsent,
        ConsentCleared, Leave, SessionCounts, StopReading, ClearReading, TakeFrame, WaitForFocus
    <3>3. stale' \in BOOLEAN
      BY <1>1, <2>2, Zenon DEF ScannerNext, scannerVars, readingVars, StartCamera, UseCamera, PlugCamera, CameraAnswer,
        AnswerConsent, Capture, FocusWaited, AutomaticCapture, Retake, NextCard, ChoosePhoto, ResetConsent,
        ConsentCleared, Leave, SessionCounts, StopReading, ClearReading, TakeFrame, WaitForFocus
    <3>4. QED
      BY <1>1, <3>1, <3>2, <3>3
  <2>3. QED
    BY <2>1, <2>2
<1>5. /\ worker' \in {worker, None} \cup {j.photo : j \in jobs}
      /\ preview' \in {preview, None} \cup {j.photo : j \in jobs}
      /\ handed' \subseteq handed \cup {j.photo : j \in jobs}
  <2>1. ASSUME NEW j \in jobs,
               ReadingFailed(j) \/ PreviewMade(j) \/ WorkerLoaded(j) \/ TextRead(j) \/ PhotoPrepared(j, mounted)
               \/ PhotoUnreadable(j)
        PROVE  /\ worker' \in {worker, j.photo} /\ preview' \in {preview, j.photo} /\ handed' \subseteq handed \cup {j.photo}
    BY <2>1 DEF ReadingFailed, PreviewMade, WorkerLoaded, TextRead, PhotoPrepared, PhotoUnreadable, Drop
  <2>2. CASE ReadingAnswer
    BY <2>1, <2>2 DEF ReadingAnswer, ReadingAnswers
  <2>3. CASE ~ReadingAnswer
    <3>1. worker' \in {worker, None} /\ preview' \in {preview, None} /\ handed' = handed
      BY <2>3, Zenon DEF ScannerNext, scannerVars, readingVars, StartCamera, UseCamera, PlugCamera, CameraAnswer,
        AnswerConsent, Capture, FocusWaited, AutomaticCapture, Retake, NextCard, ChoosePhoto, ResetConsent,
        ConsentCleared, Leave, SessionCounts, StopReading, ClearReading, ClearPreview, TakeFrame, WaitForFocus
    <3>2. QED
      BY <3>1
  <2>4. QED
    BY <2>2, <2>3
<1>6. worker' \in Photo \cup {None} /\ preview' \in Photo \cup {None} /\ handed' \subseteq Photo
  BY <1>2, <1>5 DEF ScannerTyped, ReadingTyped
<1>7. QED
  BY <1>3, <1>4, <1>6 DEF ReadingTyped

LEMMA ScannerStaysTyped == ScannerSpec => []ScannerTypeOK
<1>1. ScannerInit => ScannerTyped
  <2> SUFFICES ASSUME ScannerInit PROVE ScannerTyped
    OBVIOUS
  <2>1. {choosing, camera, switching, overtaken, behind} \subseteq BOOLEAN
    BY Zenon DEF ScannerInit, CameraInit
  <2>2. {continuous, busy, stale, late} \subseteq BOOLEAN
    <3>1. continuous \in BOOLEAN /\ busy \in BOOLEAN /\ stale \in BOOLEAN /\ late \in BOOLEAN
      BY Zenon DEF ScannerInit, ReadingInit
    <3>2. QED
      BY <3>1
  <2>3. {mounted, resetting, full} \subseteq BOOLEAN
    BY Zenon DEF ScannerInit
  <2>4. CameraTyped
    BY <2>1 DEF ScannerInit, CameraInit, CameraTyped
  <2>5. ReadingTyped
    BY <2>2 DEF ScannerInit, ReadingInit, ReadingTyped
  <2>6. QED
    BY <2>3, <2>4, <2>5 DEF ScannerTyped
<1>2. ScannerInv /\ ScannerTyped /\ [ScannerNext]_scannerVars => ScannerTyped'
  BY CameraTypedStep, ReadingTypedStep DEF ScannerInv, ScannerTyped
<1>3. ScannerInv /\ ScannerTyped => ScannerTypeOK
  <2> SUFFICES ASSUME ScannerInv, ScannerTyped PROVE ScannerTypeOK
    OBVIOUS
  <2>1. CameraTypeOK
    <3>1. /\ stream \in Stream \cup {NoStream} /\ plugged \subseteq Devices
          /\ remembered \in Devices \cup {NoDevice} /\ selectedDevice \in Devices \cup {NoDevice}
          /\ live \subseteq Stream /\ calls \subseteq Call /\ starts \in 0..MaxStarts
      BY DEF ScannerInv, CameraInv, CallsInv
    <3>2. QED
      BY <3>1 DEF ScannerTyped, CameraTyped, CameraTypeOK
  <2>2. ReadingTypeOK
    <3>1. /\ jobs \subseteq Reading /\ taken \in 0..MaxPhotos /\ page \in 0..taken /\ photoUrls \subseteq 1..taken
          /\ workers = IF worker = None THEN {} ELSE {worker}
      BY DEF ScannerInv, ReadingInv, JobsInv
    <3>2. page \in Photo \cup {None} /\ photoUrls \subseteq Photo
      BY <3>1, ReadingAssumption DEF Photo, None
    <3>3. worker \in Photo \cup {None} /\ workers \subseteq Photo
      BY <3>1 DEF ScannerTyped, ReadingTyped
    <3>4. QED
      BY <3>1, <3>2, <3>3 DEF ScannerTyped, ReadingTyped, ReadingTypeOK
  <2>3. QED
    BY <2>1, <2>2 DEF ScannerTyped, ScannerTypeOK
<1>4. QED
  BY <1>1, <1>2, <1>3, InvariantOfScanner, PTL DEF ScannerSpec

-----------------------------------------------------------------------------
(* The page.                                                               *)

\* A step of the page is a step of the part it shows; the others stay as they are.
LEMMA PartsStepAlone ==
  ASSUME [WebScannerNext]_webVars
  PROVE  /\ [ScannerNext]_scannerVars /\ [SessionNext]_sessionVars /\ [CaptureNext]_captureVars
         /\ [FeederNext]_feederVars /\ [SingleNext]_singleVars
<1>1. CASE UNCHANGED webVars
  BY <1>1 DEF webVars
<1>2. CASE WebScannerNext
  BY <1>2 DEF WebScannerNext
<1>3. QED
  BY <1>1, <1>2

\* Each part of the scanner behaves on the page as its own module says: what is proved of
\* a part holds of the page.
THEOREM ScannerPartsActAlone ==
  WebScannerSpec => ScannerSpec /\ SessionSpec /\ CaptureSpec /\ FeederSpec /\ SingleSpec
<1>1. WebScannerInit => ScannerInit /\ SessionInit /\ CaptureInit /\ FeederInit /\ SingleInit
  BY DEF WebScannerInit
<1>2. [WebScannerNext]_webVars =>
        /\ [ScannerNext]_scannerVars /\ [SessionNext]_sessionVars /\ [CaptureNext]_captureVars
        /\ [FeederNext]_feederVars /\ [SingleNext]_singleVars
  BY PartsStepAlone
<1>3. QED
  BY <1>1, <1>2, PTL DEF WebScannerSpec, ScannerSpec, SessionSpec, CaptureSpec, FeederSpec, SingleSpec

\* Every part of the scanner stays well typed: in particular a session never has more
\* cards than it takes, and the countdown, the retries and the detector's count end.
THEOREM ScannerIsTyped == WebScannerSpec => []WebScannerTypeOK
<1>1. ScannerTypeOK /\ SessionTypeOK /\ CaptureTypeOK /\ FeederTypeOK /\ SingleTypeOK => WebScannerTypeOK
  BY DEF WebScannerTypeOK
<1>2. FeederSpec => []FeederTypeOK
  <2>1. FeederInit => FeederTypeOK
    <3> SUFFICES ASSUME FeederInit PROVE FeederTypeOK
      OBVIOUS
    <3>1. {settling, notice, panel, disposed} \subseteq BOOLEAN
      BY Zenon DEF FeederInit
    <3>2. QED
      BY <3>1, FeederAssumption DEF FeederInit, FeederTypeOK
  <2>2. QED
    BY <2>1, FeederTypeStep, PTL DEF FeederSpec
<1>3. SingleSpec => []SingleTypeOK
  <2>1. SingleInit => SingleInv
    BY SingleInitially
  <2>2. SingleInv => SingleTypeOK
    BY DEF SingleInv
  <2>3. QED
    BY <2>1, <2>2, SingleStep, PTL DEF SingleSpec
<1>4. QED
  BY <1>1, <1>2, <1>3, ScannerPartsActAlone, ScannerStaysTyped, SessionIsTyped, CaptureIsTyped, PTL

\* On the page the scanner keeps all its promises: those of its camera and readings, of
\* a session, of the automatic capture, of the feeder and of a single scan.
THEOREM ScannerKeepsItsPromises ==
  WebScannerSpec =>
    /\ [](CameraHeld /\ BusyWhileReading /\ PagePhotoLive /\ NothingLeftBehind) /\ NothingGivenUpArrives
    /\ [](ConfirmedAsShown /\ AddedOnce /\ CandidatesOfPhoto /\ NeverStranded)
    /\ NoCardReadTwice /\ []NoticeAtRest /\ []PageOfThisScan
<1>1. ScannerSpec => [](CameraHeld /\ BusyWhileReading /\ PagePhotoLive /\ NothingLeftBehind)
  BY CameraIsHeld, LockIsOfOneReading, PagePhotoIsLive, HoldsNothingOnceGone, PTL
<1>2. SessionSpec => [](ConfirmedAsShown /\ AddedOnce /\ CandidatesOfPhoto /\ NeverStranded)
  BY ConfirmedIsPosted, EveryCardIsAddedOnce, CandidatesAreOfThePhoto, NoCardIsStranded, PTL
<1>3. QED
  BY <1>1, <1>2, ScannerPartsActAlone, GivenUpForGood, CardsAreReadOnce, AnnouncesCardsAtRest, PageIsOfItsScan, PTL

=============================================================================
