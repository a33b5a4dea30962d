# CardVault: a verification project

TLA+ models of CardVault. Of the server (`src/api/app`): what its handlers promise
when they commit, how PostgreSQL interleaves them, and that the interleaved
handlers keep the promises. Of the web application (`src/web/src`): the card
scanner and the pages, where answers come late, are lost or are overtaken while
the member goes on. The safety properties are proved for every number of
members, items, requests, photographs and tabs. CardVault is a self-hosted card
collection: members keep a collection, import it from CSV, offer cards for
trade, build decks and show pulls on a stream; operators moderate trading,
manage accounts and refresh the card catalog.

The server is FastAPI over SQLAlchemy and PostgreSQL. Every request has one
database session (`database.py`), transactions are READ COMMITTED, and whatever
mutual exclusion there is comes from `SELECT ... FOR UPDATE`, from `LOCK TABLE`,
from unique constraints and from the `revision` a client must quote with an
edit. There is no other shared memory, so the hard part of the system is what
concurrent transactions do to each other's rows.

The browser's application is React. JavaScript runs one handler at a time, so
nothing is interrupted; but between a request and its answer everything else may
run, and the answer acts on the state of then, often with values of the time of
the request. The code defends itself with generation counters, abort signals,
refs that act as locks, and disabled buttons. What is hard is whether each
`await` is covered by one of them.

## 1. Inventory

| Component (source) | State | Operations | Meets |
|---|---|---|---|
| Private trading (`routers/trades.py`) | `trading_accounts` (status, strike counter), `trade_listings`, `trade_reports`, `trade_strikes`, `want_listings`, events | create, edit, remove an offer; report it; uphold or dismiss a report; void a strike; moderate a listing; suspend or restore a member | collection items (row locks, cascades), users (foreign keys) |
| Collection items (`routers/collection.py`) | `collection_items` with revision | create or increment, update, set a price, delete | listings, imports, value history |
| CSV imports (`collection_imports.py`) | `collection_import_previews` | preview, confirm, cancel, expiry after an hour | collection items (table locks, digest), catalog |
| Value history (`collection_value.py`) | `collection_value_snapshots`, one per minute | capture after every change, after a catalog refresh | collection, catalog prices |
| Sessions, roles, passwords (`routers/auth.py`, `account.py`, `admin.py`, `dependencies.py`) | `users`, `user_sessions`, `account_deletion_requests` | log in and out, revoke, change password or role, ask for, cancel, approve or reject deletion | everything, by foreign keys |
| Two-step verification (`mfa_service.py`) | credentials, login challenges, recovery codes, trusted devices | enroll, confirm, challenge, recover, reset | sessions |
| Setup, invitations, registration | `users`, `account_invitations`, the owner slot | set up, invite, redeem, revoke, register | sessions |
| Email links, Google sign-in | action tokens, linked identities | issue, redeem, link, unlink | users |
| Catalog refresh (`catalog/importer.py`) and schedule (`catalog/scheduler.py`) | `catalog_imports`, the active catalog, one schedule row | refresh under an advisory lock, promote, claim a due run | collection (printings), value history |
| Decks (`routers/decks.py`) | decks and cards, each with a revision | create, edit, delete | catalog, collection |
| Streamer presentation (`routers/presentation.py`) | one JSON document per member | events with ids, settings, overlay link and polling | scanner |
| Card scanner (`components/CardScanner.tsx`, `scanner/`) | consent, the stream held, camera menu and controls; the reading lock, a generation, the text reader, previews; the frame detector | start, switch, cancel, capture, choose a photo, retake, unmount | session, single scan |
| Scanning session (`components/MultiScanSession.tsx`) | the cards with their status, recognition queue, save pass | receive, recognize, edit, confirm, retake, remove, add | scanner, collection API |
| Feeder (`components/AutoScannerControllerPanel.tsx`, `scanner/auto-scanner-controller.ts`) | controller state, two timers, an operation number | connect, home, advance, stop | session |
| Single scan (`pages/ScannerPage.tsx`) | scan, candidates, selection, a generation | search, choose, confirm, add, reset | scanner, collection API |
| Sign-in and routes (`app/auth.tsx`, `components/ProtectedRoute.tsx`) | the context: status and user | refresh, sign in, enter a code, change password, sign out, redirect | auth API, every page |
| Pages (`pages/*.tsx`): collection, import, deck, administration, trades, account | what was loaded, what is selected, locked or awaited | load, change, review, confirm, remove | their APIs; local storage, shared by tabs |
| Providers, prices, queries, branding, deployment | none that other parts rely on | HTTP, conversion, shell | |

What makes each of them correct, and what is hard:

* **Trading.** An offer never exceeds the collection, although the two tables
  are written by different handlers; the cached strike counter agrees with the
  strike rows; a suspension keeps the member's cards off the market; a client
  overwrites only what it has seen. Hard: five kinds of rows locked in various
  orders, a cascade, checks before writes, refusals half way.
* **Collection.** One row per printing, finish and condition, although inserts
  race, retries re-insert and edits change the key; no edit is lost.
* **Imports.** A confirmation applies exactly what the member reviewed, once.
  Hard: time passes between the two requests, and rows that do not exist yet
  cannot be locked.
* **Identity.** A revoked session stays revoked, single-use links and
  invitations are used once, deletion and its cancellation do not cross.
* **Catalog.** A failed or interrupted refresh leaves the previous catalog
  active, one refresh runs at a time, a due run happens once.
* **Decks, presentation.** Revisions, deduplication of repeated events.
* **Scanner.** No camera stays on that nobody holds, one reading at a time, nothing
  given up arrives, a card is added as it was confirmed and once, the member is
  told to capture only in front of a card at rest. Hard: every answer may come
  after a cancel, a retake, another start or the end of the page.
* **Pages.** The page shows whom the cookie signs in, its own changes, the deck of
  its route and the file that was chosen; it does not send again what was refused;
  tabs agree on what they share. Hard: loads and changes overtake each other.

`PROJECT.json` lists the components with what is modelled of each, and every
hazard of the code with the properties that would catch it. Where none does, a note
says why: the module is still planned, or the code lets the thing happen and the
property names it as an exception.

## 2. Modules

| Module | What it is |
|---|---|
| `Trading` | the rules: every trading handler, and every collection handler that touches a listed item, as one atomic step |
| `TradingTxn` | the same handlers lock by lock, with refusals, crashes and the deadlock detector; implements `Trading` |
| `TradingProofs`, `TradingTxnProofs` | the theorems about `Trading`, and about `TradingTxn` with the refinement |
| `Collection` | the rules of one member's collection and of CSV imports |
| `CollectionTxn` | the same handlers statement by statement, with row and table locks, unique indexes, the retry; implements `Collection` |
| `CollectionProofs`, `CollectionTxnProofs` | the theorems about `Collection`, and about `CollectionTxn` with the refinement |
| `MCTrading`, `MCTradingTxn`, `MCCollection`, `MCCollectionTxn` | the small instances for TLC |
| `CardCamera`, `CardReading` | the two halves of the card scanner: its camera, and its readings |
| `CardScanner` | their composition, with the handlers that touch both |
| `AutoCapture` | the frame detector with the two timers that feed it |
| `ScanSession` | a session of many cards: queue, corrections, retakes, save pass |
| `AutoScanner` | the simulated feeder, its panel and the notice to capture |
| `SingleScan` | the page of a single scan |
| `MCWebScanner` | the parts of the scanner, one at a time |
| `CardScannerProofs`, `WebScannerProofs` | the theorems about the card scanner; those about a session, the automatic capture, the feeder and the single scan, and about all parts together |
| `WebAuth` | the sign-in context, the pages that change it, the routes |
| `CollectionPage`, `ImportPage`, `DeckPage`, `TradingPage` | the page of that name with the part of the server it talks to |
| `AdminAccounts`, `AdminCatalog`, `Invitations` | the administration page |
| `Preferences` | what the tabs of a browser keep in local storage |
| `MCWebPages` | the pages, one at a time |
| `WebPagesProofs` | the theorems about sign-in, collection, import and deck page and preferences |
| `OwnChangesProofs` | those about the administration and trading pages, and about all pages together |

`Trading` and `Collection` both speak of `collection_items`. `Trading` needs of an
item that it exists and how many copies it has; `Collection` needs its variant
and revision and does not know listings. They meet in `update_collection_item`
and `delete_collection_item`, which both model in full for their own rows.

### Correspondence with the code

*Trading.* `account[m]` is the row of `trading_accounts`; a member without a row
gets a fresh one from the first handler that asks (`_account`), so absence and a
fresh row are one state. A listing is unique per item and a report per reporter
and listing, so `listing` is indexed by item, `report` and `strike` by
`<<reporter, item>>`. A deleted item never returns; the same card gets a new id.
Left out: `trading_enabled` is taken as on, an operator's role belongs to the
identity component, notes and events are wording, want listings touch none of
these rows.

*TradingTxn.* A transaction holds a request, the rows its handler has locked so
far, and what it read of account, item and listing when it locked them. Its
writes use what it read, not the row as it is: a missing lock shows. Revisions
only grow, so the comparison with the expected revision is the flag `fresh`:
whoever changes a row clears it for every request that quoted the row before.
Foreign keys of an inserted row take a key-share lock on the users it names,
which only `set_trading_status` (a `FOR UPDATE` of the user) excludes; the operator's
own row is named too, but `set_trading_status` gives up at once on a user who is no
member, so nobody holds it for longer than a statement. Every member's account row is there from the start: the race
of two first requests to insert it (`trades.py:76`) is left out. Tables are written at
the commit only, as the session of a refused request is closed uncommitted (`database.py:29`). The
update of an item also locks its siblings of the same printing; that is in
`CollectionTxn`.

*Collection.* `row` and `preview` are the two tables of one member, `used` the ids
given out (a uuid is never given out twice). A finish and a condition together
are a variant. The digest, a SHA-256 over the rows with quantity and revision,
is the snapshot itself; a document is its SHA-256 with the copies per tuple,
which the parser guarantees to be distinct. The catalog decides only whether a
row of the preview is an error, and whether a request is refused. A confirmed
preview is never compared again, so its digest and rows are dropped from the
state. `AddToRow` and `AddRow` are the two ends of `create_collection_item`.

*CollectionTxn.* Each handler is its list of locking statements (`Plan`), taken
one row at a time in the order of ids where the code says `order_by`. A row
locked after a wait is matched again as it is now, which is what READ COMMITTED
does: a row deleted meanwhile is skipped, a changed one no longer matches. A
first write to a table takes its ROW EXCLUSIVE lock, which the
`SHARE ROW EXCLUSIVE` of an import excludes; nothing else is waited for after
that, so the writes and the commit are one step. The unique index refuses an
insert of a tuple that is there: `Retry` is the handler's second attempt, any
other refusal is `Abandon`, which is also a lost worker. Expiry is compared
with the time the request started, so a confirmation may commit after the hour.

*Refinement.* `TradingTxn` and `CollectionTxn` hold `Rules == INSTANCE ... WITH`
their tables for the variables of the rules; a request in flight changes none
of them, so every step maps to one step of the rules or to a stutter. The property is
`Rules!Spec`; it is written with an implication, which TLC decides faster.

*The web modules.* A call to the browser or the server is a record in a set
(`calls`, `jobs`, `asked`, ...) with what it captured when it was made; an action
answers it, in any order, or fails it. Where the code compares a generation
after a wait, the record has the flag `current`, which every handler that moves
the generation clears: `Crossed`, `GivenUp` and their like. Reading at the server and
the arrival of the answer are two actions wherever a load may be overtaken. A
state update scheduled in one handler is applied in the same step: React
batches them and renders before the next event. What the code does not do is
modelled as not done: a start of the camera is not told that the scan was
cancelled, a review is aborted but still served.

History variables (`overtaken`, `behind`, `amiss`, `lost`, `unasked`, `refusedSingly`,
`resetHeard`, ...) record
why a guarantee may be lost, so that a property can say "unless" precisely: the
camera is held *unless* an answer came about a stream that was not. They guard
no action.

*CardCamera, CardReading, CardScanner.* A stream is the number of its start with
its device; `live` are those whose tracks run. `Crossed` marks the calls that were
under way when the stream changed hands. `behind` records that a failed change of
camera has put back a choice that was not of the stream held. `busy` is `busyRef`, the lock; `jobs` are the
readings between their waits; `preview` and `page` are what this component and its
parent show. A photograph is its number. A chosen photograph that the member has given up
while it was being decoded is read all the same (`CardScanner.tsx:919` looks at nothing after the
wait): such a reading is `unasked`.

*ScanSession.* A card is a record as in `multi-scan-session.ts`. Its title search, set
filter and quantities are abstracted to the printing chosen and to whether the
member has agreed to the card as it is (`agreed`). A pass holds the cards it
began with, by their position in the session of then: `InFlight` is the first
of those left. A lost answer is an addition that the server made and the page
takes for failed; `lost` counts them per card. A capture reports to the session as it was
rendered when the capture began, so it replaces any card whose retake has ever been
awaited, or none (`asked`, `Replacing`).

*AutoCapture.* A frame is a brightness, and distances are differences; the two
thresholds are constants. `Sample` is the interval, `Tick` the second of the
countdown with its retries for focus and light.

*AutoScanner, SingleScan.* Timers are counters that their own action ends;
operations and generations are flags as above.

*WebAuth.* `session` is the cookie, `context` what `useAuth` gives, `wants` what an
account is asked for first. An answer to `/auth/me` is read, then applied. The
routes are an operator, `Redirect`: a member who is signed in is sent on by the login page to
the workspace and by the page of the second step to the destination it was given, any of three.

*CollectionPage.* `rejected` are the revisions the page knows to be stale: those that a
bulk removal was refused, and those that a single change was refused (`refusedSingly`) once a list
has shown a later one.

*Preferences.* Layout and design are saved and followed together and are one look; the background,
which no other part reads, is left out. Where no display is stored, the collection page
goes by the layout (`CollectionPage.tsx:113`): `Followed`.

*Pages.* Each module keeps the rows of the server that its page shows, as
revisions or as sets of the page's own changes: enough to tell what a list was
read before. Filters, order, paging, messages and the forms' fields are left out
unless a guard reads them.

## 3. Runs

| Run | Instance | What it shows |
|---|---|---|
| `trading_rules` | one seller, two items, two reporters, limit 3, quantities to 2 | the invariants of the rules and that no step puts a suspended member's card on offer |
| `trading_txn` | two concurrent requests of all thirteen handlers, one item, two reporters, limit 2 | what a request has read under its locks is current (`TxnInv`); the interleaved handlers implement the rules; no update is lost |
| `trading_deadlock` | three concurrent requests, one item | a deadlock needs one of the three handlers that leave the lock order |
| `trading_answers` | two concurrent requests of nine handlers | every request is answered |
| `trading_limit_removes_listings` | as `trading_rules` | violated: see below |
| `trading_standing_strikes` | as `trading_rules` | violated: see below |
| `collection_rules` | one printing in two variants, two items, two previews, two documents, quantities to 2, revisions to 3 | cards are never split over rows, one open preview per document, and what was reviewed is what is applied |
| `collection_txn` | two concurrent requests, imports, cancellations, additions and edits of two items | the interleaved handlers implement the rules, racing inserts and the retry included; no edit is lost |
| `collection_locks` | two concurrent edits or imports, two documents of the same two cards | what a request has read and checked still holds when it writes (`TxnInv`); deadlocks only around a table lock, or crosswise over the two tables |
| `web_scanner` | two cameras, two photographs, three starts, a session of two cards, four brightnesses of a frame, three single scans | the thirteen properties of the scanner |
| `web_pages` | two of everything a page tells apart, one managed account | what each page shows, locks and sends |
| `first_sign_in` | one account | violated: see below |

*Sum of parts.* The parts of the scanner, and the pages, share no state: what
they pass on is an input of the next (a capture, a result), and the pages meet
at the server only, whose changes by others are actions of each page's module.
`MCWebScanner` and `MCWebPages` therefore pick one part initially and run it, which
explores the sum and not the product of their states. `CardScanner` is a real
composition: its camera and its readings run together.

*Bounds.* Four reports are one more than the limit of 3, so the counter is capped
and voided below the cap. Two items are enough for every pair that meets in a
lock order, since a handler locks at most the items of one printing; two
variants let an edit run into the other item. `MaxQuantity` 2 has room for
growth, shrinking and the limit. Two previews and two documents allow an upload
to replace one and leave the other. `MaxRevision` bounds the edits of one row: an
import and an edit on top of a creation. Two documents let a preview of one meet a
confirmation of the other over the two tables. A deadlock of the trading handlers can
need three parties (account, listing, user), hence three transactions there; for
the collection two requests show both ways to a deadlock, and the theorem covers
any number. Every conflict on a value needs two. Identifiers of items are not symmetric in
`CollectionTxn` because rows are locked in their order.

In the scanner two starts let one overtake the other, a list answered for one
stream arrive with the next, and a remembered camera be missing; a third is what
a failed change after a change needs. Two photographs let a reading end after the
next has begun. `MaxEffort` keeps two starts from being combined with two
photographs or a removed camera, and allows the third only while a single card
has not been photographed. The frames 0, 1, 2, 4 with
thresholds 1 and 3 have a pair that is the same card at rest, one in between and
one that is another card; drifting takes several steps. One lost answer is enough to add a card
twice; `MCWebScanner` loses answers about one card of a session at most. On the pages two of a kind are needed for one to be overtaken by another; no
module compares more than two. `Two` gives all of them the same two model values, so that one
symmetry serves every page. Changes, edits and events are bounded by
two or three: the change, the one that overtakes it, and one after.

*Deadlock checking* is off in every run: the systems really may stop, when the
ids or the bounded revisions are used up and no client sends a request.

*Fairness.* `EveryRequestAnswered` assumes `SF(Answer(t))` per transaction. Row
locks are granted by PostgreSQL in the order of a queue, so a request that can
proceed again and again is not passed over for ever, and the deadlock detector
aborts a cycle after its timeout; weak fairness would not do, because a lock is
taken and released by others while a waiter waits. Sending a request (`Begin`)
and losing a worker (`Crash`) are not fair. Nothing else assumes fairness.

### Where a document or test and the code part

* *The third strike and the listings.* `test_trade_api.py:119` says that three
  upheld reports remove the active listings. `moderate_report` does so only when
  the third strike is also what suspends the member (`trades.py:685`): a member
  suspended by hand beforehand keeps every active listing, which counts
  again for matches once trading is restored. Run `trading_limit_removes_listings`.
* *Standing strikes.* Restoring trading is refused with "Void a strike before
  restoring trading." while three strikes stand. The counter is capped at 3
  (`trades.py:683`) while strike rows go on, so after a fourth upheld report one
  void brings the counter to 2 with three strikes active, and the moderation
  panel shows "2 of 3 active strikes". Run `trading_standing_strikes`.

* *The first sign-in of an administrator.* The owner creates one with a temporary
  password and a second step to set up (`admin.py:412-413`), and is told "They must
  replace the temporary password and finish MFA setup." `ProtectedRoute.tsx:55-62`
  sends such an account to `/change-password`, from there to `/account`, whose route
  alone has `allowMfaSetup`, and from there back. Each demand alone settles.
  Run `first_sign_in`.

The web properties that hold do so with the exceptions their history variables name;
each is a path of the code and not of the model: a camera started before a
cancel stays on until the page goes (`CardScanner.tsx:392`), a change of camera that
fails puts back a menu that had not caught up with the stream
(`CardScanner.tsx:435`), a chosen photograph that was given up while it was being
decoded is read and delivered (`CardScanner.tsx:919`), a lost answer lets a
card be added twice (`MultiScanSession.tsx:374`), a card whose addition failed may be
posted as edited since, a copied link takes a newer one with
it (`AdminPage.tsx:916`), edits of the schedule during its save are overwritten
(`AdminPage.tsx:439`), a revision refused to a change of one card can be sent again in bulk
until a list shows a later one (`CollectionPage.tsx:206`), a collection page that
hears of a reset of the display shows the default and not what the layout says, as a tab opened later
does (`CollectionPage.tsx:173`), a refusal on the trades page is wiped by an older load
(`TradingPage.tsx:76`), and a title searched during a save leaves the page saying
that it is adding (`ScannerPage.tsx:351`).

## 4. Proofs

The theorems hold for any sets of members, items, reporters, requests, printings,
documents, cameras, photographs, cards, files, decks and tabs, and for any limits
that satisfy the named assumptions. Every inductive invariant below was first
checked by TLC on a small instance. `Spec => []Inv` is proved throughout in the
same way: the initial states satisfy the invariant, every action keeps it (one
lemma per action or group of actions), and the property follows from it.

### The rules

*Trading* (assumptions: an item has an owner, reporters and items are finite,
the limits are positive).

* `TypeCorrect`: the type invariant is inductive by itself. It contains the CHECK
  constraints of the tables.
* `NeverOversold`: `TypeOK /\ ListedWithinOwned` is inductive. The work is in
  `UpdateItem`, which caps the listing, and in `CreateTrade` and `UpdateTrade`,
  which compare with the item.
* `LimitAlwaysSuspends`: inductive with the type.
* `SuspensionHolds`: an action property, from the type invariant.
* `CounterNeverAhead`: not inductive alone. A strike must exist exactly when its
  report is upheld (`StrikeIffUpheld`), or upholding an open report could count a
  strike that was there before. The counting itself is in `UpholdCounts` and
  `VoidCounts`.

*Collection* (assumptions: positive limits, requested amounts are quantities,
the rows of a document are quantities of tuples, ids of items and previews are
different).

* `TypeCorrect`: inductive; the case of a confirmation rests on `AppliedType`.
* `RowsStayUnique`: inductive with the type. For an import it is `AppliedUnique`:
  new ids are fresh and injective, and only tuples without a row get one.
* `OnePreviewStaysOpen`: inductive by itself.
* `PreviewStaysExact`: not inductive as it stands, because the rows change under a
  preview. What stays true is that a preview is exact for the collection of its own
  digest (`PreviewsExact`); `EntryExact` says so of the classification, and a
  matching digest brings it to the rows of now.
* `ConfirmsWhatWasReviewed`: an action property, from the type, the uniqueness of
  rows (the quantity owned of a card is that of its one row) and `PreviewsExact`.
  `AppliedOwned` is the arithmetic of an import.

### The transactions

A handler writes what it read, so its commit is a step of the rules only if what it
read is still in the tables. That is the invariant, `TxnInv`, in both modules, and
it cannot be had for one request at a time: it rests on what *all* others may write.

*TradingTxn.* `TxnInv` says that no row is locked twice, that a request holds an
initial part of its handler's lock list, and that what it has read of a row that it
holds is what the table has. It is kept because of the *footprint* of a commit
(`Footprint`): every row it changes is one it holds, or one it inserts under the
locks that exclude the same insert. `LocksProtectReads` is the invariant. With it `TxnsImplementRules` shows each commit to
be the handler's action of `Trading` and each other step a stutter, so
`TxnsKeepGuarantees` carries the theorems of the rules over to the interleaved
handlers. `UpdatesAreNotLost` comes from the same footprints: a changed row is among
those whose readers lose `fresh`.
`DeadlocksNeedInversion` is an argument about order, for any number of requests: the
rows that a handler outside the three named ones may still wait for come later
(`Later`) than one it holds, and following the waits of a closed set would have to
come back to a kind of row it has left behind.

*CollectionTxn* (assumption added: ids are numbers, as rows are locked in their
order). Here a row may be locked that was not there when the handler first looked,
the unique index rather than a lock decides between two inserts, and an import
relies on a table lock for rows that do not exist. `TxnInv` therefore also says, for
each handler, what it has checked so far: the rows an edit has found in its way, that
an import which holds its table has read all of it, that locks are taken upwards. `ReadsStayCurrent` is the
invariant; `TxnsImplementRules`, `TxnsKeepGuarantees`, `EditsAreNotLost` as above.
`EditsDoNotDeadlock`: requests on rows alone wait upwards in the order of ids, so a
cycle has a request that holds a whole table and waits for a row, or two that hold
the two tables crosswise. The second case exists with two documents only: a preview
of one and a confirmation of the other.

### The scanner

*CardScanner* (assumptions: no camera is "none", and no stream). `ScannerInv` is the
invariant of camera, readings and lock together.

* `CameraIsHeld` needs `CameraInv`: starts are numbered, no stream is of a call still
  under way, and a call that was not crossed began with the stream held now. Unless an
  answer came about another stream, no other is live. The menu is the one place where
  this fails by itself: a failed change puts back the choice it found, which need not
  be that of the stream; two starts do not show it, three do, and `behind` names it.
* `LockIsOfOneReading`, `PagePhotoIsLive`: from `ReadingInv`, which says of every reading
  at each of its waits which photograph, preview and text reader it still has, that no
  two have the same photograph, and that one at most is current.
* `HoldsNothingOnceGone`: from the two and from what holds off the page (`Gone`,
  `GoneReading`).
* `GivenUpForGood`: an action property; a reading that was given up is not current, but
  for a photograph that was still being decoded and has become current since (`unasked`).

*ScanSession* (assumptions: a search offers printings; no value stands for a
recognition that is none). `SessionInv` has three parts. `CardSound`: a card that waits has
a recognition queued or running, and every queued or running recognition of an older
photograph is followed by one of the card's own. `PassInv`: what a pass has left are
cards of different ids, as they were confirmed. `AddedInv`: a card that may still be
posted has been added only as often as answers about it were lost. `ConfirmedIsPosted`,
`EveryCardIsAddedOnce`, `CandidatesAreOfThePhoto` and `NoCardIsStranded` follow. That a
card is added once more for *each* lost answer is part of the statement: a second pass
that loses its answer too adds it a third time.

*The other parts.* `AnnouncesCardsAtRest` (a settling timer, a movement and a countdown
exclude one another), `CardsAreReadOnce` (after an automatic reading the detector waits
for a change of that very card, whatever the thresholds) and `PageIsOfItsScan` (one
search at most is current, and what is current is of the photograph shown).

*The page.* `ScannerPartsActAlone`: a step of the composition (`WebScannerSpec`, the one TLC
runs) is a step of one part and leaves the others, so the composition implements each
part's own specification; `ScannerKeepsItsPromises` carries every property of the run
over to it. `ScannerIsTyped` is its type invariant. It does not follow from the invariants
above, which say nothing of limits: a session has at most the cards and a queue at most the
entries it takes (`LengthsStep`), a countdown and its retries stay within their bounds, and the
detector counts no further than the samples it needs (`AdvanceCounts`) or the three that
"Capture now" writes whatever that number is (`CardScanner.tsx:528`). The type first said the
former only; the attempt to prove it for any number of samples showed that it was false for two.

### The pages

(Assumptions: bounds on revisions are positive, values for "none" are not members of
their sets.) Each property is proved together with the type of its module.

* `ShownAccountIsSignedIn`: `AuthInv` says that a context which is not right is being
  asked for again, unless one of the named events came between.
* `RefusedRemovalsAreNotResent`: `ListInv` relates lists, selection and requests to the
  revisions of the server: nothing is ahead of a card, what was refused is past for
  good, and what the list shows of it is known to be stale. A revision refused to a single change
  counts from the list that shows a later one.
* `ImportReviewsWhatWasChosen`: `ImportInv` says that the page waits for one answer at
  most, of the operation it is busy with, and that the preview made by a review
  under way is nobody else's.
* `PageIsOfItsDeck`: `DeckInv`: the load and the change that will be heard are of the
  route's deck, and nothing the page was told of is newer than the deck.
* `AccountsStayCurrent`, `CatalogStaysCurrent`, `TradesStayCurrent` (assumptions: the values for
  "no load" and "no refresh" are none of their loads and refreshes). A load that was begun
  before the page was told of a change is given up, or followed by another, so the invariant is about
  the load that is still heard: once the server has been read for it, it has every change the page
  was told of (`ListsAreRecent`, `StatusIsRecent`, `TradesInv`). For the accounts this is said of the
  list and of the deletion requests, which are loaded apart; a row is disabled for one
  change at a time (`RowsAreBusy`). For the schedule, the form has what was last written into
  it. For the trades, a refusal is the last message as long as no load was under way.
* `LinkIsKept`: the list of invitations is not given up when one is made, so `InviteInv` follows
  the link itself: it is shown until it is copied or a copy of an earlier link, still under way
  when it came, takes it off (`linkCrossed`); and its invitation is missing in the list only when
  a list read earlier came later (`listCrossed`), never in one read since.
* `TabsComeToAgree`: what a tab shows and applies is what is stored, unless a notice of a
  change waits for it, the change was one it cannot hear of, or passed it. Where nothing is stored
  an open collection page follows the look it last went by (`Follows`), unless it has heard the reset.
* `PagesActAlone`: the composition (`WebPagesSpec`, the one TLC runs) implements each page's own
  specification. With it `PagesShowTheirChanges` is `OwnChangesShown`, `PagesAreTyped` the type
  invariant, and `PagesKeepTheirPromises` all invariants of the run at once.

### Only model-checked

Every invariant and every action property that a passing run checks is proved. Liveness
(`EveryRequestAnswered`) stays with TLC: fairness and `ENABLED` are out of the prover's reach. What
the theorems about deadlocks say of it is the safety half: nobody waits in a circle but for the
handlers they name. The three runs that are violated show a trace each, and need no proof.

## 5. Plan

1. *Done:* trading and the collection with its imports, as rules and as
   transactions; the scanner and the pages of the web application.
2. `Identity`: users, sessions, roles, deletion requests, two-step verification,
   invitations and links. As rules first (a revoked session is never accepted,
   single use, a deletion is decided once), then as transactions, with the stale
   identity map of `require_auth` (`mfa_service.py:86`), the unlocked read of
   `cancel_deletion` (`account.py:134`), the opposite lock orders of asking for and
   approving a deletion (`admin.py:312`), the strike that keeps an operator
   from being deleted (`models.py:976`), and two role managers who change each
   other (`admin.py:457`).
3. `CatalogRefresh`: the advisory lock, the import states, promotion, the
   schedule with its claims, late finishes and crashes (`scheduler.py:88`, `:103`,
   `importer.py:534`); abstract: the active catalog changes only from one complete
   import to another.
4. `Presentation`: events with ids, the window of 400, sessions and overlay
   polling (`presentation.py:272`). Then the server's decks (`decks.py:187`) and the
   value history (`collection_value.py:104`).
5. Proofs. *Done:* the rules, the two refinements with their lock invariants, the
   scanner and the session, the pages, and the two compositions. Each module to come
   gets its theorems with it, on the same lines: types and rules first, then the locks.

### Not modelled

HTTP clients and conversions (no state), read-only queries, rendering, shell
scripts, and anything whose only behaviour is wording. Of the web application:
pages that load one resource and show it, setup and e-mail links, the
scanner's stored preferences, moderation and settings panels, streamer
overlay and studio. Image processing and text recognition are free choices.
