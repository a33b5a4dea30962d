-------------------------- MODULE OwnChangesProofs --------------------------
(* Theorems of the pages that load again what they have changed: the accounts,  *)
(* the catalog with its schedule and the invitations of the administration page, *)
(* and the page of trades, for any number of changes; and of all pages together. *)
(*                                                                             *)
(* A load of accounts, status or trades that was read before the page was told  *)
(* of a change is given up when it is told: one that was read, and is still      *)
(* heard, has every change the page knows of. A list of invitations is not       *)
(* given up; there the argument follows the one link and its copies.            *)
EXTENDS MCWebPages, WebPagesProofs, FiniteSetTheorems

-----------------------------------------------------------------------------
(* The accounts.                                                           *)

\* A change in flight.
AdminCall ==
  [n : Change, kind : {"update", "delete", "create", "approve", "reject"}, account : Managed, row : BOOLEAN,
   step : {"sent", "made", "reloading"}]

AccountsTyped ==
  /\ changesMade \subseteq Change /\ told \subseteq changesMade
  /\ members \subseteq Managed /\ wished \subseteq Managed /\ hidden \subseteq Managed /\ requests \subseteq Managed
  /\ administrators \in Listing
  /\ accountLoad \in AccountLoad \cup {NoAccounts} /\ requestLoad \in RequestLoad \cup {NoRequests}
  /\ usersError \in BOOLEAN /\ submitting \in BOOLEAN /\ requestsLost \in BOOLEAN
  /\ adminCalls \subseteq AdminCall
  /\ changesAsked \in 0 .. MaxAdminChanges

\* A change that was answered was made, and an account asks for its deletion once: what
\* was decided is not asked for again.
AnswersAreTrue ==
  /\ wishes \subseteq wished /\ decided \subseteq wished \ wishes
  /\ \A c \in adminCalls :
       c.step = "made" => /\ c.n \in changesMade
                          /\ c.kind \in {"approve", "reject"} => c.account \in wished \ wishes

\* What is known to be done is in a list that was read and in the list shown, and what is
\* known to be decided in neither of the requests.
ListsAreRecent ==
  /\ accountLoad # NoAccounts => (accountLoad.read => told \subseteq accountLoad.list.changes)
  /\ accountLoad = NoAccounts /\ ~usersError =>
       /\ told \subseteq administrators.changes
       /\ requestLoad # NoRequests => (requestLoad.read => requestLoad.list \cap decided = {})
       /\ requestLoad = NoRequests /\ ~requestsLost => requests \cap decided = {}

\* A row is busy with one change.
RowsAreBusy ==
  /\ rowBusy = {c.account : c \in {c \in adminCalls : c.row}}
  /\ \A c, d \in adminCalls : c.row /\ d.row /\ c.account = d.account => c = d

AccountsInv == AccountsTyped /\ AnswersAreTrue /\ ListsAreRecent /\ RowsAreBusy

\* The first list and the first requests are being loaded.
LEMMA LoadsAreTyped ==
  /\ \A n \in 0 .. MaxAdminChanges : LoadBy(n) \in AccountLoad /\ LoadBy(n) # NoAccounts /\ ~LoadBy(n).read
  /\ NoAccounts \notin AccountLoad /\ NoRequests \notin RequestLoad
<1>1. NoAccounts \notin AccountLoad /\ NoRequests \notin RequestLoad
  BY AdminAssumption
<1>2. ASSUME NEW n \in 0 .. MaxAdminChanges PROVE LoadBy(n) \in AccountLoad /\ ~LoadBy(n).read
  BY DEF LoadBy, AccountLoad, Listing
<1>3. QED
  BY <1>1, <1>2

\* Rows that are left out take what they are busy with with them; nothing else changes of a
\* change in flight.
LEMMA RowsGoKeeps ==
  ASSUME AccountsInv, NEW staying,
         rowBusy' = rowBusy \cap staying,
         \A c \in adminCalls : [c EXCEPT !.row = c.row /\ c.account \in staying] \in adminCalls',
         \A d \in adminCalls' : \E c \in adminCalls : d = [c EXCEPT !.row = c.row /\ c.account \in staying]
  PROVE  /\ RowsAreBusy' /\ adminCalls' \subseteq AdminCall
         /\ \A d \in adminCalls' : \E c \in adminCalls : d.n = c.n /\ d.kind = c.kind /\ d.account = c.account /\ d.step = c.step
<1> DEFINE Kept(c) == [c EXCEPT !.row = c.row /\ c.account \in staying]
<1>1. adminCalls \subseteq AdminCall /\ RowsAreBusy
  BY DEF AccountsInv, AccountsTyped
<1>2. ASSUME NEW c \in adminCalls
      PROVE  /\ Kept(c) \in AdminCall /\ Kept(c) \in adminCalls'
             /\ Kept(c).n = c.n /\ Kept(c).kind = c.kind /\ Kept(c).account = c.account /\ Kept(c).step = c.step
             /\ Kept(c).row = (c.row /\ c.account \in staying)
             /\ Kept(c).row => Kept(c) = c
  BY <1>1 DEF AdminCall
<1>3. ASSUME NEW d \in adminCalls' PROVE \E c \in adminCalls : d = Kept(c)
  OBVIOUS
<1> HIDE DEF Kept
<1>4. adminCalls' \subseteq AdminCall
  BY <1>2, <1>3
<1>5. rowBusy' \subseteq {c.account : c \in {c \in adminCalls' : c.row}}
  <2> SUFFICES ASSUME NEW a \in rowBusy' PROVE \E c \in adminCalls' : c.row /\ c.account = a
    OBVIOUS
  <2>1. PICK c \in adminCalls : c.row /\ c.account = a
    BY <1>1 DEF RowsAreBusy
  <2>2. QED
    BY <1>2, <2>1
<1>6. {c.account : c \in {c \in adminCalls' : c.row}} \subseteq rowBusy'
  <2> SUFFICES ASSUME NEW d \in adminCalls', d.row PROVE d.account \in rowBusy'
    OBVIOUS
  <2>1. PICK c \in adminCalls : d = Kept(c)
    BY <1>3
  <2>2. c.row /\ c.account \in staying /\ d.account = c.account
    BY <1>2, <2>1
  <2>3. QED
    BY <1>1, <2>2 DEF RowsAreBusy
<1>7. ASSUME NEW d \in adminCalls', NEW e \in adminCalls', d.row, e.row, d.account = e.account PROVE d = e
  <2>1. d \in adminCalls /\ e \in adminCalls
    BY <1>2, <1>3, <1>7
  <2>2. QED
    BY <1>1, <1>7, <2>1 DEF RowsAreBusy
<1>8. RowsAreBusy'
  BY <1>5, <1>6, <1>7 DEF RowsAreBusy
<1>9. QED
  BY <1>2, <1>3, <1>4, <1>8

\* A list or the requests are read, shown or not heard of, and rows are filtered.
LEMMA AccountLoadsKeep ==
  ASSUME AccountsInv,
         \/ ReadAccounts \/ AccountsShown \/ AccountsLost \/ \E away \in SUBSET Managed : Filter(away)
  PROVE  AccountsInv'
<1>1. AccountsTyped /\ AnswersAreTrue /\ ListsAreRecent /\ RowsAreBusy
  BY DEF AccountsInv
<1>2. [changes |-> changesMade, accounts |-> members] \in Listing
  BY <1>1 DEF AccountsTyped, Listing
<1>3. CASE ReadAccounts
  <2>1. UNCHANGED <<otherThanAccounts, administrators, usersError, rowBusy, requestLoad, adminCalls>>
    BY <1>3 DEF ReadAccounts
  <2>2. /\ accountLoad # NoAccounts /\ accountLoad \in AccountLoad
        /\ accountLoad' = [accountLoad EXCEPT !.read = TRUE, !.list = [changes |-> changesMade, accounts |-> members]]
    BY <1>1, <1>3 DEF ReadAccounts, AccountsTyped, Listed
  <2>3. accountLoad' \in AccountLoad /\ accountLoad'.list.changes = changesMade
    BY <1>2, <2>2 DEF AccountLoad
  <2>4. AccountsTyped' /\ ListsAreRecent'
    BY <1>1, <2>1, <2>3, LoadsAreTyped DEF AccountsTyped, ListsAreRecent, otherThanAccounts
  <2>5. AnswersAreTrue' /\ RowsAreBusy'
    BY <1>1, <2>1 DEF AnswersAreTrue, RowsAreBusy, otherThanAccounts
  <2>6. QED
    BY <2>4, <2>5 DEF AccountsInv
<1>4. CASE AccountsShown
  <2>1. /\ accountLoad # NoAccounts /\ accountLoad.read /\ administrators' = accountLoad.list
        /\ accountLoad' = NoAccounts /\ requestLoad' = [read |-> FALSE, list |-> {}]
        /\ usersError' = FALSE /\ UNCHANGED otherThanAccounts
    BY <1>4 DEF AccountsShown
  <2>2. accountLoad \in AccountLoad /\ administrators' \in Listing /\ told \subseteq administrators'.changes
    BY <1>1, <2>1 DEF AccountsTyped, ListsAreRecent, AccountLoad
  <2>3. requestLoad' \in RequestLoad /\ requestLoad' # NoRequests /\ ~requestLoad'.read
    <3>1. requestLoad' \in RequestLoad /\ ~requestLoad'.read
      BY <2>1 DEF RequestLoad
    <3>2. QED
      BY <3>1, LoadsAreTyped
  <2>4. /\ RowsAreBusy' /\ adminCalls' \subseteq AdminCall
        /\ \A d \in adminCalls' : \E c \in adminCalls : /\ d.n = c.n /\ d.kind = c.kind
                                                        /\ d.account = c.account /\ d.step = c.step
    <3>1. adminCalls' = {[c EXCEPT !.row = @ /\ c.account \in accountLoad.list.accounts] : c \in adminCalls}
      BY <1>4 DEF AccountsShown
    <3>2. /\ rowBusy' = rowBusy \cap accountLoad.list.accounts
          /\ \A c \in adminCalls : [c EXCEPT !.row = c.row /\ c.account \in accountLoad.list.accounts] \in adminCalls'
          /\ \A d \in adminCalls' :
               \E c \in adminCalls : d = [c EXCEPT !.row = c.row /\ c.account \in accountLoad.list.accounts]
      BY <1>4, <3>1 DEF AccountsShown
    <3>3. QED
      BY <3>2, RowsGoKeeps
  <2>5. AccountsTyped' /\ ListsAreRecent'
    BY <1>1, <2>1, <2>2, <2>3, <2>4 DEF AccountsTyped, ListsAreRecent, otherThanAccounts
  <2>6. AnswersAreTrue'
    BY <1>1, <2>1, <2>4 DEF AnswersAreTrue, otherThanAccounts
  <2>7. QED
    BY <2>4, <2>5, <2>6 DEF AccountsInv
<1>5. CASE AccountsLost
  <2>1. /\ accountLoad' = NoAccounts /\ usersError' = TRUE
        /\ UNCHANGED <<otherThanAccounts, administrators, rowBusy, requestLoad, adminCalls>>
    BY <1>5 DEF AccountsLost
  <2>2. AccountsTyped' /\ ListsAreRecent'
    BY <1>1, <2>1 DEF AccountsTyped, ListsAreRecent, otherThanAccounts
  <2>3. AnswersAreTrue' /\ RowsAreBusy'
    BY <1>1, <2>1 DEF AnswersAreTrue, RowsAreBusy, otherThanAccounts
  <2>4. QED
    BY <2>2, <2>3 DEF AccountsInv
<1>6. ASSUME NEW away \in SUBSET Managed, Filter(away) PROVE AccountsInv'
  <2>1. /\ hidden' = away /\ rowBusy' = rowBusy \ away
        /\ UNCHANGED <<changesMade, members, wishes, wished, administrators, accountLoad, usersError, submitting,
                       requests, requestLoad, changesAsked, told, decided, requestsLost>>
    BY <1>6 DEF Filter
  <2>2. \A c \in adminCalls : c.account \in Managed
    BY <1>1 DEF AccountsTyped, AdminCall
  <2>3. rowBusy \subseteq Managed
    BY <1>1, <2>2 DEF RowsAreBusy
  <2>4. rowBusy' = rowBusy \cap (Managed \ away)
    BY <2>1, <2>3
  <2>5. /\ \A c \in adminCalls : [c EXCEPT !.row = c.row /\ c.account \in Managed \ away] \in adminCalls'
        /\ \A d \in adminCalls' : \E c \in adminCalls : d = [c EXCEPT !.row = c.row /\ c.account \in Managed \ away]
    <3>1. adminCalls' = {[c EXCEPT !.row = @ /\ c.account \notin away] : c \in adminCalls}
      BY <1>6 DEF Filter
    <3>2. ASSUME NEW c \in adminCalls
          PROVE  [c EXCEPT !.row = @ /\ c.account \notin away] = [c EXCEPT !.row = c.row /\ c.account \in Managed \ away]
      BY <2>2
    <3>3. QED
      BY <3>1, <3>2
  <2>6. /\ RowsAreBusy' /\ adminCalls' \subseteq AdminCall
        /\ \A d \in adminCalls' : \E c \in adminCalls : /\ d.n = c.n /\ d.kind = c.kind
                                                        /\ d.account = c.account /\ d.step = c.step
    BY <2>4, <2>5, RowsGoKeeps
  <2>7. AccountsTyped' /\ ListsAreRecent'
    BY <1>1, <2>1, <2>6 DEF AccountsTyped, ListsAreRecent
  <2>8. AnswersAreTrue'
    BY <1>1, <2>1, <2>6 DEF AnswersAreTrue
  <2>9. QED
    BY <2>6, <2>7, <2>8 DEF AccountsInv
<1>7. QED
  BY <1>3, <1>4, <1>5, <1>6

\* Requests for deletion are made, read, shown or not heard of.
LEMMA RequestsKept ==
  ASSUME AccountsInv,
         ReadRequests \/ RequestsShown \/ RequestsLost \/ \E a \in Managed : AskDeletion(a)
  PROVE  AccountsInv'
<1>1. AccountsTyped /\ AnswersAreTrue /\ ListsAreRecent /\ RowsAreBusy
  BY DEF AccountsInv
<1>2. UNCHANGED <<changesMade, members, administrators, accountLoad, usersError, hidden, rowBusy, submitting, adminCalls,
                  changesAsked, told, decided>>
  BY DEF ReadRequests, RequestsShown, RequestsLost, AskDeletion, otherThanRequests
<1>3. RowsAreBusy'
  BY <1>1, <1>2 DEF RowsAreBusy
<1>4. wishes \subseteq Managed
  BY <1>1 DEF AccountsTyped, AnswersAreTrue
<1>5. CASE ReadRequests
  <2>1. /\ requestLoad' = [read |-> TRUE, list |-> wishes] /\ requestLoad # NoRequests
        /\ UNCHANGED <<wishes, wished, requests, requestsLost>>
    BY <1>5 DEF ReadRequests
  <2>2. requestLoad' \in RequestLoad
    BY <1>4, <2>1 DEF RequestLoad
  <2>3. AccountsTyped' /\ AnswersAreTrue'
    BY <1>1, <1>2, <2>1, <2>2 DEF AccountsTyped, AnswersAreTrue
  <2>4. ListsAreRecent'
    BY <1>1, <1>2, <2>1, <2>2, LoadsAreTyped DEF ListsAreRecent, AnswersAreTrue
  <2>5. QED
    BY <1>3, <2>3, <2>4 DEF AccountsInv
<1>6. CASE RequestsShown
  <2>1. /\ requestLoad # NoRequests /\ requestLoad.read /\ requests' = requestLoad.list
        /\ requestLoad' = NoRequests /\ requestsLost' = FALSE /\ UNCHANGED <<wishes, wished>>
    BY <1>6 DEF RequestsShown
  <2>2. requests' \subseteq Managed
    BY <1>1, <2>1 DEF AccountsTyped, RequestLoad
  <2>3. AccountsTyped' /\ AnswersAreTrue' /\ ListsAreRecent'
    BY <1>1, <1>2, <2>1, <2>2 DEF AccountsTyped, AnswersAreTrue, ListsAreRecent
  <2>4. QED
    BY <1>3, <2>3 DEF AccountsInv
<1>7. CASE RequestsLost
  <2>1. requestLoad' = NoRequests /\ requestsLost' = TRUE /\ UNCHANGED <<wishes, wished, requests>>
    BY <1>7 DEF RequestsLost
  <2>2. AccountsTyped' /\ AnswersAreTrue' /\ ListsAreRecent'
    BY <1>1, <1>2, <2>1 DEF AccountsTyped, AnswersAreTrue, ListsAreRecent
  <2>3. QED
    BY <1>3, <2>2 DEF AccountsInv
<1>8. ASSUME NEW a \in Managed, AskDeletion(a) PROVE AccountsInv'
  <2>1. /\ a \notin wished /\ wishes' = wishes \cup {a} /\ wished' = wished \cup {a}
        /\ UNCHANGED <<requests, requestLoad, requestsLost>>
    BY <1>8 DEF AskDeletion
  <2>2. AccountsTyped' /\ AnswersAreTrue' /\ ListsAreRecent'
    BY <1>1, <1>2, <2>1 DEF AccountsTyped, AnswersAreTrue, ListsAreRecent
  <2>3. QED
    BY <1>3, <2>2 DEF AccountsInv
<1>9. QED
  BY <1>5, <1>6, <1>7, <1>8

\* A change is asked for, by a row that is not busy or by the form.
LEMMA ChangesAskedKeep ==
  ASSUME AccountsInv, NEW a \in Managed,
         \/ CreateAccount(a)
         \/ \E kind \in {"update", "delete"} : ChangeAccount(a, kind)
         \/ \E kind \in {"approve", "reject"} : Decide(a, kind)
  PROVE  AccountsInv'
<1>1. AccountsTyped /\ AnswersAreTrue /\ ListsAreRecent /\ RowsAreBusy
  BY DEF AccountsInv
<1>2. PICK kind \in {"update", "delete", "create", "approve", "reject"} : \E row \in BOOLEAN :
        /\ AskChange(kind, a, row) /\ submitting' \in BOOLEAN
        /\ row => a \notin rowBusy
        /\ rowBusy' = IF row THEN rowBusy \cup {a} ELSE rowBusy
  BY <1>1, Zenon DEF CreateAccount, ChangeAccount, Decide, AccountsTyped
<1>3. PICK row \in BOOLEAN :
        /\ AskChange(kind, a, row) /\ submitting' \in BOOLEAN
        /\ row => a \notin rowBusy
        /\ rowBusy' = IF row THEN rowBusy \cup {a} ELSE rowBusy
  BY <1>2
<1> DEFINE new == [n |-> changesAsked + 1, kind |-> kind, account |-> a, row |-> row, step |-> "sent"]
<1>4. /\ changesAsked < MaxAdminChanges /\ changesAsked' = changesAsked + 1
      /\ adminCalls' = adminCalls \cup {new}
      /\ UNCHANGED <<changesMade, members, wishes, wished, administrators, accountLoad, usersError, hidden, requests,
                     requestLoad, told, decided, requestsLost>>
  BY <1>3 DEF AskChange
<1>5. new \in AdminCall /\ changesAsked' \in 0 .. MaxAdminChanges
  BY <1>1, <1>4, AdminAssumption DEF AccountsTyped, AdminCall, Change
<1>6. new.row = row /\ new.account = a /\ new.step = "sent"
  OBVIOUS
<1> HIDE DEF new
<1>7. AccountsTyped' /\ ListsAreRecent'
  BY <1>1, <1>3, <1>4, <1>5 DEF AccountsTyped, ListsAreRecent
<1>8. AnswersAreTrue'
  BY <1>1, <1>4, <1>6 DEF AnswersAreTrue
<1>9. RowsAreBusy'
  <2>1. rowBusy' = {c.account : c \in {c \in adminCalls' : c.row}}
    BY <1>1, <1>3, <1>4, <1>6 DEF RowsAreBusy
  <2>2. ASSUME NEW c \in adminCalls', NEW d \in adminCalls', c.row, d.row, c.account = d.account PROVE c = d
    <3>1. ASSUME NEW e \in adminCalls, e.row, row PROVE e.account # a
      BY <1>1, <1>3, <3>1 DEF RowsAreBusy
    <3>2. QED
      BY <1>1, <1>4, <1>6, <2>2, <3>1 DEF RowsAreBusy
  <2>3. QED
    BY <2>1, <2>2 DEF RowsAreBusy
<1>10. QED
  BY <1>7, <1>8, <1>9 DEF AccountsInv

\* A change goes on to another step: its row is as busy as before.
LEMMA GoingOnIsBusy ==
  ASSUME AccountsInv, NEW c \in adminCalls, NEW step \in {"made", "reloading"},
         adminCalls' = (adminCalls \ {c}) \cup {[c EXCEPT !.step = step]}, rowBusy' = rowBusy
  PROVE  RowsAreBusy' /\ adminCalls' \subseteq AdminCall
<1> DEFINE next == [c EXCEPT !.step = step]
<1>1. adminCalls \subseteq AdminCall /\ RowsAreBusy
  BY DEF AccountsInv, AccountsTyped
<1>2. next \in AdminCall /\ next.row = c.row /\ next.account = c.account /\ next \in adminCalls'
  BY <1>1 DEF AdminCall
<1>3. adminCalls' = (adminCalls \ {c}) \cup {next}
  OBVIOUS
<1> HIDE DEF next
<1>4. rowBusy' = {d.account : d \in {d \in adminCalls' : d.row}}
  BY <1>1, <1>2, <1>3 DEF RowsAreBusy
<1>5. ASSUME NEW d \in adminCalls', NEW e \in adminCalls', d.row, e.row, d.account = e.account PROVE d = e
  BY <1>1, <1>2, <1>3, <1>5 DEF RowsAreBusy
<1>6. QED
  BY <1>1, <1>2, <1>3, <1>4, <1>5 DEF RowsAreBusy

\* The server makes a change.
LEMMA MakeKeeps ==
  ASSUME AccountsInv, NEW c \in adminCalls, Make(c)
  PROVE  AccountsInv'
<1>1. AccountsTyped /\ AnswersAreTrue /\ ListsAreRecent
  BY DEF AccountsInv
<1>2. c \in AdminCall
  BY <1>1 DEF AccountsTyped
<1> DEFINE next == [c EXCEPT !.step = "made"]
<1>3. /\ c.kind \in {"approve", "reject"} => c.account \in wishes
      /\ changesMade' = changesMade \cup {c.n} /\ members' \subseteq members
      /\ wishes' = IF c.kind \in {"delete", "approve", "reject"} THEN wishes \ {c.account} ELSE wishes
      /\ adminCalls' = (adminCalls \ {c}) \cup {next}
      /\ UNCHANGED <<wished, administrators, accountLoad, usersError, hidden, rowBusy, submitting, requests,
                     requestLoad, changesAsked, told, decided, requestsLost>>
  BY DEF Make
<1>4. next.n = c.n /\ next.kind = c.kind /\ next.account = c.account /\ c.n \in Change
  BY <1>2 DEF AdminCall
<1>5. RowsAreBusy' /\ adminCalls' \subseteq AdminCall
  BY <1>3, GoingOnIsBusy
<1> HIDE DEF next
<1>6. AccountsTyped' /\ ListsAreRecent'
  BY <1>1, <1>3, <1>4, <1>5 DEF AccountsTyped, ListsAreRecent
<1>7. AnswersAreTrue'
  <2>1. wishes' \subseteq wishes /\ c.n \in changesMade' /\ changesMade \subseteq changesMade'
    BY <1>3
  <2>2. next.kind \in {"approve", "reject"} => next.account \in wished \ wishes'
    BY <1>1, <1>3, <1>4 DEF AnswersAreTrue
  <2>3. QED
    BY <1>1, <1>3, <1>4, <2>1, <2>2 DEF AnswersAreTrue
<1>8. QED
  BY <1>5, <1>6, <1>7 DEF AccountsInv

\* The page is told of a change: a load begins, and one that was read before is given up.
LEMMA ChangeMadeKeeps ==
  ASSUME AccountsInv, NEW c \in adminCalls, ChangeMade(c)
  PROVE  AccountsInv'
<1>1. AccountsTyped /\ AnswersAreTrue /\ ListsAreRecent
  BY DEF AccountsInv
<1>2. c \in AdminCall /\ c.n \in Change /\ c.n \in 0 .. MaxAdminChanges
  BY <1>1 DEF AccountsTyped, AdminCall, Change
<1> DEFINE next == [c EXCEPT !.step = "reloading"]
<1>3. /\ c.step = "made" /\ told' = told \cup {c.n} /\ accountLoad' = LoadBy(c.n)
      /\ requests' \subseteq requests
      /\ decided' = IF c.kind \in {"approve", "reject"} THEN decided \cup {c.account} ELSE decided
      /\ adminCalls' = (adminCalls \ {c}) \cup {next}
      /\ UNCHANGED <<changesMade, members, wishes, wished, administrators, usersError, hidden, rowBusy, submitting,
                     requestLoad, changesAsked, requestsLost>>
  BY DEF ChangeMade
<1>4. next.step = "reloading"
  BY <1>2 DEF AdminCall
<1>5. RowsAreBusy' /\ adminCalls' \subseteq AdminCall
  BY <1>3, GoingOnIsBusy
<1> HIDE DEF next
<1>6. accountLoad' \in AccountLoad /\ accountLoad' # NoAccounts /\ ~accountLoad'.read
  BY <1>2, <1>3, LoadsAreTyped
<1>7. c.n \in changesMade /\ c.kind \in {"approve", "reject"} => c.account \in wished \ wishes
  BY <1>1, <1>3 DEF AnswersAreTrue
<1>8. AccountsTyped' /\ ListsAreRecent'
  BY <1>1, <1>3, <1>5, <1>6, <1>7 DEF AccountsTyped, AnswersAreTrue, ListsAreRecent
<1>9. AnswersAreTrue'
  BY <1>1, <1>3, <1>4, <1>7 DEF AnswersAreTrue
<1>10. QED
  BY <1>5, <1>8, <1>9 DEF AccountsInv

\* A change is refused, not answered, or over: its row is free.
LEMMA ChangeEndsKeeps ==
  ASSUME AccountsInv, NEW c \in adminCalls, ChangeEnds(c)
  PROVE  AccountsInv'
<1>1. AccountsTyped /\ AnswersAreTrue /\ ListsAreRecent /\ RowsAreBusy
  BY DEF AccountsInv
<1>2. /\ adminCalls' = adminCalls \ {c}
      /\ rowBusy' = IF c.row THEN rowBusy \ {c.account} ELSE rowBusy
      /\ UNCHANGED <<changesMade, members, wishes, wished, administrators, accountLoad, usersError, hidden, requests,
                     requestLoad, changesAsked, told, decided, requestsLost>>
  BY DEF ChangeEnds
<1>3. submitting' \in BOOLEAN
  BY DEF ChangeEnds
<1>4. AccountsTyped' /\ ListsAreRecent'
  BY <1>1, <1>2, <1>3 DEF AccountsTyped, ListsAreRecent
<1>5. AnswersAreTrue' /\ RowsAreBusy'
  BY <1>1, <1>2 DEF AnswersAreTrue, RowsAreBusy
<1>6. QED
  BY <1>4, <1>5 DEF AccountsInv

\* Every step of the accounts keeps the invariant.
LEMMA AccountsInvInductive ==
  ASSUME AccountsInv, [AdminNext]_adminVars
  PROVE  AccountsInv'
<1>1. CASE UNCHANGED adminVars
  BY <1>1 DEF adminVars, AccountsInv, AccountsTyped, AnswersAreTrue, ListsAreRecent, RowsAreBusy
<1>2. CASE AdminNext
  BY <1>2, AccountLoadsKeep, RequestsKept, ChangesAskedKeep, MakeKeeps, ChangeMadeKeeps, ChangeEndsKeeps DEF AdminNext
<1>3. QED
  BY <1>1, <1>2

\* However many changes overlap, the list at rest has every change the page was told of,
\* no request it knows to be decided is offered again, and a row is busy exactly while a
\* change of its own is under way (loadAdministrators, AdministratorRow, decide).
THEOREM AccountsStayCurrent == AdminSpec => [](AdminTypeOK /\ AccountsCurrent)
<1>1. AdminInit => AccountsInv
  <2> SUFFICES ASSUME AdminInit PROVE AccountsInv
    OBVIOUS
  <2>1. accountLoad \in AccountLoad /\ accountLoad # NoAccounts /\ ~accountLoad.read
    BY LoadsAreTyped, AdminAssumption DEF AdminInit
  <2>2. requestLoad \in RequestLoad /\ administrators \in Listing
    BY DEF AdminInit, RequestLoad, Listing
  <2>3. AnswersAreTrue
    BY DEF AdminInit, AnswersAreTrue
  <2>6. AccountsTyped
    <3>1. changesAsked \in 0 .. MaxAdminChanges
      BY AdminAssumption DEF AdminInit
    <3>2. QED
      BY <2>1, <2>2, <3>1 DEF AdminInit, AccountsTyped
  <2>4. ListsAreRecent /\ RowsAreBusy
    BY <2>1 DEF AdminInit, ListsAreRecent, RowsAreBusy
  <2>5. QED
    BY <2>3, <2>4, <2>6 DEF AccountsInv
<1>2. AccountsInv => AdminTypeOK
  <2> SUFFICES ASSUME AccountsInv PROVE AdminTypeOK
    OBVIOUS
  <2>1. AccountsTyped /\ wishes \subseteq wished /\ decided \subseteq wished /\ RowsAreBusy
    BY DEF AccountsInv, AnswersAreTrue
  <2>2. \A c \in adminCalls : /\ c.n \in Change /\ c.account \in Managed /\ c.row \in BOOLEAN
                              /\ c.kind \in {"update", "delete", "create", "approve", "reject"}
                              /\ c.step \in {"sent", "made", "reloading"}
    BY <2>1 DEF AccountsTyped, AdminCall
  <2>3. rowBusy \subseteq Managed
    BY <2>1, <2>2 DEF RowsAreBusy
  <2>4. QED
    BY <2>1, <2>2, <2>3 DEF AccountsTyped, AdminTypeOK
<1>3. AccountsInv => AccountsCurrent
  BY DEF AccountsInv, ListsAreRecent, RowsAreBusy, AccountsCurrent
<1>4. QED
  BY <1>1, <1>2, <1>3, AccountsInvInductive, PTL DEF AdminSpec

-----------------------------------------------------------------------------
(* The catalog and its schedule.                                           *)

CatalogTyped ==
  /\ attempts \subseteq RefreshNumber /\ finished \subseteq attempts
  /\ failing \subseteq Games /\ retryGames \subseteq Games /\ failedGames \subseteq Games
  /\ catalog \in Status /\ catalogError \in BOOLEAN
  /\ statusLoad \in StatusLoad \cup {NoStatusLoad}
  /\ refresh \in CatalogRefresh \cup {NoRefresh}

\* A refresh that was answered was made.
RefreshIsTrue ==
  refresh # NoRefresh =>
    /\ refresh.failed \subseteq refresh.games
    /\ refresh.step = "answered" /\ refresh.outcome \in {"complete", "partial"} => refresh.n \in attempts

\* The retries left are those of the refresh under way, and within the bound.
RetriesLeft ==
  /\ refresh = NoRefresh => retryGames = {}
  /\ refreshesAsked \in Nat /\ refreshesAsked + Cardinality(retryGames) <= MaxRefreshes

\* Refreshes known to be finished are in a status that was read and in the one shown.
StatusIsRecent ==
  /\ statusLoad # NoStatusLoad => (statusLoad.read => finished \subseteq statusLoad.status.attempts)
  /\ statusLoad = NoStatusLoad /\ ~catalogError => finished \subseteq catalog.attempts

CatalogInv == CatalogTyped /\ RefreshIsTrue /\ RetriesLeft /\ StatusIsRecent

ScheduleInv ==
  /\ savedSchedule \in Schedule /\ schedule \in Schedule \cup {NoSchedule} /\ written \in Schedule \cup {NoSchedule}
  /\ edits \in Schedule /\ editedMeanwhile \in BOOLEAN
  /\ scheduleSave # NoSave => scheduleSave.schedule \in Schedule
  /\ ~editedMeanwhile => schedule = written

\* A new status load, and a new refresh within the bound.
LEMMA CatalogLoadsTyped ==
  /\ \A n \in 0 .. MaxRefreshes : LoadStatus(n) \in StatusLoad /\ LoadStatus(n) # NoStatusLoad /\ ~LoadStatus(n).read
  /\ [LoadStatus(0) EXCEPT !.polled = TRUE] \in StatusLoad /\ ~[LoadStatus(0) EXCEPT !.polled = TRUE].read
  /\ NoStatusLoad \notin StatusLoad /\ NoRefresh \notin CatalogRefresh
<1>1. NoStatusLoad \notin StatusLoad /\ NoRefresh \notin CatalogRefresh
  BY CatalogAssumption
<1>2. ASSUME NEW n \in 0 .. MaxRefreshes PROVE LoadStatus(n) \in StatusLoad /\ ~LoadStatus(n).read
  BY DEF LoadStatus, StatusLoad, Status
<1>3. [LoadStatus(0) EXCEPT !.polled = TRUE] \in StatusLoad /\ ~[LoadStatus(0) EXCEPT !.polled = TRUE].read
  <2>1. LoadStatus(0) \in StatusLoad /\ ~LoadStatus(0).read
    BY <1>2, CatalogAssumption
  <2>2. QED
    BY <2>1 DEF StatusLoad
<1>4. QED
  BY <1>1, <1>2, <1>3

LEMMA NewRefreshTyped ==
  ASSUME NEW games \in SUBSET Games, refreshesAsked \in Nat, refreshesAsked < MaxRefreshes
  PROVE  /\ NewRefresh(games) \in CatalogRefresh /\ NewRefresh(games) # NoRefresh
         /\ NewRefresh(games).step = "sent" /\ NewRefresh(games).failed \subseteq NewRefresh(games).games
<1>1. refreshesAsked + 1 \in RefreshNumber
  BY CatalogAssumption DEF RefreshNumber
<1>2. NewRefresh(games) \in CatalogRefresh
  BY <1>1 DEF NewRefresh, CatalogRefresh
<1>3. QED
  BY <1>2, CatalogLoadsTyped DEF NewRefresh

\* A new timer changes nothing of what was read.
LEMMA NewTimerKeeps ==
  ASSUME CatalogInv, NewTimer, UNCHANGED <<catalog, catalogError, finished>>
  PROVE  statusLoad' \in StatusLoad \cup {NoStatusLoad} /\ StatusIsRecent'
<1>1. CASE statusLoad = NoStatusLoad
  BY <1>1 DEF CatalogInv, NewTimer, StatusIsRecent
<1>2. CASE statusLoad # NoStatusLoad
  <2>1. statusLoad \in StatusLoad /\ statusLoad' = [statusLoad EXCEPT !.polled = FALSE]
    BY <1>2 DEF CatalogInv, CatalogTyped, NewTimer
  <2>2. statusLoad' \in StatusLoad /\ statusLoad'.read = statusLoad.read /\ statusLoad'.status = statusLoad.status
    BY <2>1 DEF StatusLoad
  <2>3. QED
    BY <1>2, <2>2, CatalogLoadsTyped DEF CatalogInv, StatusIsRecent
<1>3. QED
  BY <1>1, <1>2

\* The status is polled, read, shown or not heard of.
LEMMA StatusKeeps ==
  ASSUME CatalogInv, Poll \/ ReadStatus \/ StatusShown \/ StatusLost
  PROVE  CatalogInv'
<1>1. CatalogTyped /\ RefreshIsTrue /\ RetriesLeft /\ StatusIsRecent
  BY DEF CatalogInv
<1>2. UNCHANGED <<attempts, failing, refresh, retryGames, failedGames, refreshesAsked, finished>>
  BY DEF Poll, ReadStatus, StatusShown, StatusLost
<1>3. RefreshIsTrue' /\ RetriesLeft'
  BY <1>1, <1>2 DEF RefreshIsTrue, RetriesLeft
<1> SUFFICES catalog' \in Status /\ catalogError' \in BOOLEAN /\ statusLoad' \in StatusLoad \cup {NoStatusLoad}
             /\ StatusIsRecent'
  BY <1>1, <1>2, <1>3 DEF CatalogInv, CatalogTyped
<1>4. CASE Poll
  <2>1. statusLoad' \in StatusLoad /\ ~statusLoad'.read /\ UNCHANGED <<catalog, catalogError>>
    BY <1>4, CatalogLoadsTyped DEF Poll
  <2>2. QED
    BY <1>1, <2>1, CatalogLoadsTyped DEF CatalogTyped, StatusIsRecent
<1>5. CASE ReadStatus
  <2>1. /\ statusLoad \in StatusLoad /\ UNCHANGED <<catalog, catalogError>>
        /\ statusLoad' = [statusLoad EXCEPT !.read = TRUE, !.status = [attempts |-> attempts, failing |-> failing]]
    BY <1>1, <1>5 DEF ReadStatus, CatalogTyped
  <2>2. statusLoad' \in StatusLoad /\ statusLoad'.status.attempts = attempts
    BY <1>1, <2>1 DEF StatusLoad, Status, CatalogTyped
  <2>3. QED
    BY <1>1, <1>2, <2>1, <2>2, CatalogLoadsTyped DEF CatalogTyped, StatusIsRecent
<1>6. CASE StatusShown
  <2>1. /\ statusLoad # NoStatusLoad /\ statusLoad.read /\ catalog' = statusLoad.status
        /\ catalogError' = FALSE /\ statusLoad' = NoStatusLoad
    BY <1>6 DEF StatusShown
  <2>2. catalog' \in Status
    BY <1>1, <2>1 DEF CatalogTyped, StatusLoad
  <2>3. QED
    BY <1>1, <1>2, <2>1, <2>2 DEF StatusIsRecent
<1>7. CASE StatusLost
  BY <1>1, <1>7 DEF StatusLost, CatalogTyped, StatusIsRecent
<1>8. QED
  BY <1>4, <1>5, <1>6, <1>7

\* A refresh is asked for, or the retry of those that failed.
LEMMA RefreshesAskedKeep ==
  ASSUME CatalogInv,
         (\E games \in SUBSET Games : AskRefresh(games)) \/ (\E game \in Games : RetryFailed(game))
  PROVE  CatalogInv'
<1>1. CatalogTyped /\ RefreshIsTrue /\ RetriesLeft /\ StatusIsRecent
  BY DEF CatalogInv
<1>2. NewTimer /\ refresh = NoRefresh /\ UNCHANGED <<attempts, failing, catalog, catalogError, failedGames, finished>>
  BY DEF AskRefresh, RetryFailed
<1>3. statusLoad' \in StatusLoad \cup {NoStatusLoad} /\ StatusIsRecent'
  BY <1>2, NewTimerKeeps
<1> SUFFICES /\ retryGames' \subseteq Games /\ RetriesLeft'
             /\ \E games \in SUBSET Games : refreshesAsked < MaxRefreshes /\ refresh' = NewRefresh(games)
  <2>1. refreshesAsked \in Nat
    BY <1>1 DEF RetriesLeft
  <2>2. refresh' \in CatalogRefresh /\ refresh' # NoRefresh /\ refresh'.step = "sent"
        /\ refresh'.failed \subseteq refresh'.games
    BY <2>1, NewRefreshTyped
  <2>3. CatalogTyped' /\ RefreshIsTrue'
    BY <1>1, <1>2, <1>3, <2>2 DEF CatalogTyped, RefreshIsTrue
  <2>4. QED
    BY <1>3, <2>3 DEF CatalogInv
<1>4. ASSUME NEW games \in SUBSET Games, AskRefresh(games)
      PROVE  /\ retryGames' \subseteq Games /\ RetriesLeft'
             /\ refreshesAsked < MaxRefreshes /\ refresh' = NewRefresh(games)
  <2>1. /\ refreshesAsked < MaxRefreshes /\ refresh' = NewRefresh(games)
        /\ refreshesAsked' = refreshesAsked + 1 /\ retryGames' = retryGames
    BY <1>4 DEF AskRefresh
  <2>2. retryGames = {} /\ Cardinality(retryGames) = 0 /\ refreshesAsked \in Nat
    BY <1>1, <1>2, FS_EmptySet DEF RetriesLeft
  <2>3. refresh' # NoRefresh
    BY <2>1, <2>2, NewRefreshTyped
  <2>4. QED
    BY <2>1, <2>2, <2>3, CatalogAssumption DEF RetriesLeft
<1>5. ASSUME NEW game \in Games, RetryFailed(game)
      PROVE  /\ retryGames' \subseteq Games /\ RetriesLeft'
             /\ refreshesAsked < MaxRefreshes /\ refresh' = NewRefresh({game})
  <2>1. /\ game \in FailedTargets /\ refreshesAsked + Cardinality(FailedTargets) <= MaxRefreshes
        /\ refresh' = NewRefresh({game}) /\ refreshesAsked' = refreshesAsked + 1
        /\ retryGames' = FailedTargets \ {game}
    BY <1>5 DEF RetryFailed
  <2>2. FailedTargets \subseteq Games
    BY <1>1 DEF CatalogTyped, Status, FailedTargets
  <2>3. IsFiniteSet(FailedTargets)
    BY <2>2, FS_Subset, CatalogAssumption
  <2>4. Cardinality(FailedTargets) \in Nat /\ Cardinality(retryGames') = Cardinality(FailedTargets) - 1
        /\ Cardinality(retryGames') \in Nat
    BY <2>1, <2>3, FS_RemoveElement, FS_CardinalityType
  <2>5. refreshesAsked \in Nat /\ refreshesAsked < MaxRefreshes
    BY <1>1, <2>1, <2>4, CatalogAssumption DEF RetriesLeft
  <2>6. refresh' # NoRefresh
    BY <2>1, <2>5, NewRefreshTyped
  <2>7. QED
    BY <2>1, <2>2, <2>4, <2>5, <2>6, CatalogAssumption DEF RetriesLeft
<1>6. QED
  BY <1>4, <1>5

\* The server refreshes, for this page or another administrator.
LEMMA RefreshingKeeps ==
  ASSUME CatalogInv,
         \/ \E outcome \in {"complete", "partial", "busy", "error"}, failed \in SUBSET Games : ServeRefresh(outcome, failed)
         \/ \E games \in SUBSET Games : RefreshedElsewhere(games)
  PROVE  CatalogInv'
<1>1. CatalogTyped /\ RefreshIsTrue /\ RetriesLeft /\ StatusIsRecent
  BY DEF CatalogInv
<1>2. ASSUME NEW outcome \in {"complete", "partial", "busy", "error"}, NEW failed \in SUBSET Games,
             ServeRefresh(outcome, failed)
      PROVE  CatalogInv'
  <2>1. /\ refresh # NoRefresh /\ failed \subseteq refresh.games
        /\ refresh' = [refresh EXCEPT !.step = "answered", !.outcome = outcome, !.failed = failed]
        /\ attempts' = IF outcome \in {"complete", "partial"} THEN attempts \cup {refresh.n} ELSE attempts
        /\ UNCHANGED <<catalog, statusLoad, catalogError, retryGames, failedGames, refreshesAsked, finished>>
    BY <1>2 DEF ServeRefresh
  <2>2. refresh \in CatalogRefresh
    BY <1>1, <2>1 DEF CatalogTyped
  <2>3. /\ refresh' \in CatalogRefresh /\ refresh'.n = refresh.n /\ refresh.n \in RefreshNumber
        /\ refresh'.outcome = outcome /\ refresh'.failed \subseteq refresh'.games /\ refresh.games \subseteq Games
    BY <2>1, <2>2 DEF CatalogRefresh
  <2>4. failing' \subseteq Games
    <3>1. \/ failing' = failing
          \/ failing' = failing \cup refresh.games
          \/ failing' = (failing \ refresh.games) \cup failed
      BY <1>2 DEF ServeRefresh
    <3>2. QED
      BY <1>1, <2>3, <3>1 DEF CatalogTyped
  <2>5. CatalogTyped' /\ RefreshIsTrue'
    BY <1>1, <2>1, <2>3, <2>4 DEF CatalogTyped, RefreshIsTrue
  <2>6. RetriesLeft' /\ StatusIsRecent'
    BY <1>1, <2>1, <2>3, CatalogLoadsTyped DEF RetriesLeft, StatusIsRecent
  <2>7. QED
    BY <2>5, <2>6 DEF CatalogInv
<1>3. ASSUME NEW games \in SUBSET Games, RefreshedElsewhere(games) PROVE CatalogInv'
  <2>1. failing' = games /\ UNCHANGED <<attempts, catalog, statusLoad, catalogError, refresh, retryGames, failedGames,
                                        refreshesAsked, finished>>
    BY <1>3 DEF RefreshedElsewhere
  <2>2. QED
    BY <1>1, <2>1 DEF CatalogInv, CatalogTyped, RefreshIsTrue, RetriesLeft, StatusIsRecent
<1>4. QED
  BY <1>2, <1>3

\* The answer to a refresh: the status is loaded again, and one that was read before is
\* given up.
LEMMA RefreshAnsweredKeeps ==
  ASSUME CatalogInv, NEW outcome \in {"complete", "partial", "busy", "error"}, RefreshAnswered(outcome)
  PROVE  CatalogInv'
<1>1. CatalogTyped /\ RefreshIsTrue /\ RetriesLeft /\ StatusIsRecent
  BY DEF CatalogInv
<1>2. /\ refresh # NoRefresh /\ refresh.step # "reloading"
      /\ outcome # "error" => refresh.step = "answered" /\ outcome = refresh.outcome
      /\ finished' = IF outcome \in {"complete", "partial"} THEN finished \cup {refresh.n} ELSE finished
      /\ statusLoad' = LoadStatus(refresh.n) /\ refresh' = [refresh EXCEPT !.step = "reloading"]
      /\ UNCHANGED <<attempts, failing, catalog, catalogError, retryGames, refreshesAsked>>
  BY DEF RefreshAnswered
<1>3. refresh \in CatalogRefresh
  BY <1>1, <1>2 DEF CatalogTyped
<1>4. /\ refresh' \in CatalogRefresh /\ refresh'.step = "reloading" /\ refresh.n \in 0 .. MaxRefreshes
      /\ refresh'.failed = refresh.failed /\ refresh'.games = refresh.games /\ refresh.games \subseteq Games
      /\ refresh.failed \subseteq Games
  BY <1>2, <1>3 DEF CatalogRefresh, RefreshNumber
<1>5. failedGames' \subseteq Games
  <2>1. \/ failedGames' = (failedGames \ refresh.games) \cup refresh.failed
        \/ failedGames' = failedGames \cup refresh.games
        \/ failedGames' = failedGames
    BY DEF RefreshAnswered
  <2>2. QED
    BY <1>1, <1>4, <2>1 DEF CatalogTyped
<1>6. statusLoad' \in StatusLoad /\ statusLoad' # NoStatusLoad /\ ~statusLoad'.read
  BY <1>2, <1>4, CatalogLoadsTyped
<1>7. finished' \subseteq attempts
  BY <1>1, <1>2 DEF CatalogTyped, RefreshIsTrue
<1>8. CatalogTyped' /\ RefreshIsTrue'
  BY <1>1, <1>2, <1>4, <1>5, <1>6, <1>7 DEF CatalogTyped, RefreshIsTrue
<1>9. RetriesLeft' /\ StatusIsRecent'
  BY <1>1, <1>2, <1>4, <1>6, CatalogLoadsTyped DEF RetriesLeft, StatusIsRecent
<1>10. QED
  BY <1>8, <1>9 DEF CatalogInv

\* A refresh is over; the next of the retries begins, or the form is open again.
LEMMA RefreshEndsKeeps ==
  ASSUME CatalogInv, RefreshEnds
  PROVE  CatalogInv'
<1>1. CatalogTyped /\ RefreshIsTrue /\ RetriesLeft /\ StatusIsRecent
  BY DEF CatalogInv
<1>2. UNCHANGED <<attempts, failing, catalog, catalogError, failedGames, finished>>
  BY DEF RefreshEnds
<1>3. CASE retryGames = {}
  <2>1. refresh' = NoRefresh /\ NewTimer /\ UNCHANGED <<retryGames, refreshesAsked>>
    BY <1>3 DEF RefreshEnds
  <2>2. statusLoad' \in StatusLoad \cup {NoStatusLoad} /\ StatusIsRecent'
    BY <1>2, <2>1, NewTimerKeeps
  <2>3. CatalogTyped' /\ RefreshIsTrue' /\ RetriesLeft'
    BY <1>1, <1>2, <1>3, <2>1, <2>2 DEF CatalogTyped, RefreshIsTrue, RetriesLeft
  <2>4. QED
    BY <2>2, <2>3 DEF CatalogInv
<1>4. CASE retryGames # {}
  <2>1. PICK game \in retryGames : /\ refresh' = NewRefresh({game}) /\ refreshesAsked' = refreshesAsked + 1
                                   /\ retryGames' = retryGames \ {game} /\ UNCHANGED statusLoad
    BY <1>4 DEF RefreshEnds
  <2>2. IsFiniteSet(retryGames)
    BY <1>1, FS_Subset, CatalogAssumption DEF CatalogTyped
  <2>3. Cardinality(retryGames) \in Nat /\ Cardinality(retryGames') = Cardinality(retryGames) - 1
        /\ Cardinality(retryGames') \in Nat
    BY <2>1, <2>2, FS_RemoveElement, FS_CardinalityType
  <2>4. refreshesAsked \in Nat /\ refreshesAsked < MaxRefreshes /\ {game} \in SUBSET Games
    BY <1>1, <2>3, CatalogAssumption DEF CatalogTyped, RetriesLeft
  <2>5. refresh' \in CatalogRefresh /\ refresh' # NoRefresh /\ refresh'.step = "sent"
        /\ refresh'.failed \subseteq refresh'.games
    BY <2>1, <2>4, NewRefreshTyped
  <2>6. CatalogTyped' /\ RefreshIsTrue'
    BY <1>1, <1>2, <2>1, <2>5 DEF CatalogTyped, RefreshIsTrue
  <2>7. RetriesLeft' /\ StatusIsRecent'
    BY <1>1, <1>2, <2>1, <2>3, <2>4, <2>5, CatalogAssumption DEF RetriesLeft, StatusIsRecent
  <2>8. QED
    BY <2>6, <2>7 DEF CatalogInv
<1>5. QED
  BY <1>3, <1>4

\* Every step of the catalog keeps the invariant.
LEMMA CatalogInvInductive ==
  ASSUME CatalogInv, [CatalogNext]_catalogVars
  PROVE  CatalogInv'
<1>1. CASE UNCHANGED catalogVars
  BY <1>1 DEF catalogVars, CatalogInv, CatalogTyped, RefreshIsTrue, RetriesLeft, StatusIsRecent
<1>2. CASE CatalogNext
  BY <1>2, StatusKeeps, RefreshesAskedKeep, RefreshingKeeps, RefreshAnsweredKeeps, RefreshEndsKeeps DEF CatalogNext
<1>3. QED
  BY <1>1, <1>2

\* Every step of the schedule's form keeps its invariant.
LEMMA ScheduleInvInductive ==
  ASSUME ScheduleInv, [ScheduleNext]_scheduleVars
  PROVE  ScheduleInv'
<1>1. CASE EditSchedule
  <2>1. edits' \in Schedule
    BY <1>1, CatalogAssumption DEF ScheduleInv, EditSchedule, Schedule
  <2>2. QED
    BY <1>1, <2>1 DEF ScheduleInv, EditSchedule
<1>2. CASE SaveSchedule
  BY <1>2 DEF ScheduleInv, SaveSchedule
<1>3. CASE ServeSchedule
  BY <1>3 DEF ScheduleInv, ServeSchedule
<1>4. CASE ScheduleSaved
  <2>1. schedule' = scheduleSave.schedule /\ schedule' \in Schedule /\ scheduleSave' = NoSave
        /\ editedMeanwhile' = (editedMeanwhile \/ schedule' # schedule)
        /\ UNCHANGED <<savedSchedule, edits, written>>
    BY <1>4 DEF ScheduleInv, ScheduleSaved
  <2>2. QED
    BY <2>1 DEF ScheduleInv
<1>5. CASE ScheduleNotSaved
  BY <1>5 DEF ScheduleInv, ScheduleNotSaved
<1>6. ASSUME NEW shown \in BOOLEAN, ScheduleLoads(shown) PROVE ScheduleInv'
  BY <1>6 DEF ScheduleInv, ScheduleLoads
<1>7. CASE UNCHANGED scheduleVars
  BY <1>7 DEF ScheduleInv, scheduleVars
<1>8. QED
  BY <1>1, <1>2, <1>3, <1>4, <1>5, <1>6, <1>7 DEF ScheduleNext

\* What a load shows of the catalog, or of the schedule, is as recent as the page knows it to
\* be, however polls, refreshes, retries and saves overlap (loadCatalog, refreshCatalog,
\* retryFailed, saveCatalogSchedule).
THEOREM CatalogStaysCurrent == CatalogSpec /\ ScheduleSpec => [](CatalogTypeOK /\ CatalogCurrent)
<1>1. CatalogInit => CatalogInv
  <2> SUFFICES ASSUME CatalogInit PROVE CatalogInv
    OBVIOUS
  <2>1. statusLoad \in StatusLoad /\ statusLoad # NoStatusLoad /\ ~statusLoad.read
    BY CatalogLoadsTyped, CatalogAssumption DEF CatalogInit
  <2>2. catalog \in Status
    BY DEF CatalogInit, Status
  <2>3. CatalogTyped
    BY <2>1, <2>2 DEF CatalogInit, CatalogTyped
  <2>4. RefreshIsTrue /\ StatusIsRecent
    BY <2>1 DEF CatalogInit, RefreshIsTrue, StatusIsRecent
  <2>5. RetriesLeft
    BY FS_EmptySet, CatalogAssumption DEF CatalogInit, RetriesLeft
  <2>6. QED
    BY <2>3, <2>4, <2>5 DEF CatalogInv
<1>2. ScheduleInit => ScheduleInv
  <2>1. 0 \in Schedule
    BY CatalogAssumption DEF Schedule
  <2>2. QED
    BY <2>1 DEF ScheduleInit, ScheduleInv
<1>3. CatalogInv /\ ScheduleInv => CatalogTypeOK
  <2> SUFFICES ASSUME CatalogInv, ScheduleInv PROVE CatalogTypeOK
    OBVIOUS
  <2>1. refreshesAsked \in 0 .. MaxRefreshes
    <3>1. IsFiniteSet(retryGames)
      BY FS_Subset, CatalogAssumption DEF CatalogInv, CatalogTyped
    <3>2. QED
      BY <3>1, FS_CardinalityType, CatalogAssumption DEF CatalogInv, RetriesLeft
  <2>2. QED
    BY <2>1 DEF CatalogInv, CatalogTyped, RefreshIsTrue, ScheduleInv, CatalogTypeOK
<1>4. CatalogInv /\ ScheduleInv => CatalogCurrent
  BY DEF CatalogInv, StatusIsRecent, ScheduleInv, CatalogCurrent
<1>5. QED
  BY <1>1, <1>2, <1>3, <1>4, CatalogInvInductive, ScheduleInvInductive, PTL DEF CatalogSpec, ScheduleSpec

-----------------------------------------------------------------------------
(* The invitations.                                                        *)

\* What is under way.
InviteCall == [kind : {"create", "revoke"}, id : InviteId, step : {"sent", "made", "reloading"}]

\* A copy under way is of the link that is shown, unless one of an earlier link crossed
\* its making; an invitation that the list lacks is in any list read since.
InviteInv ==
  /\ invited \in [InviteId -> Statuses] /\ invitations \in [InviteId -> Statuses]
  /\ inviteLoad # NoInviteLoad => inviteLoad.list \in [InviteId -> Statuses]
  /\ inviteError \in {"", "list", "create", "copy", "revoke"}
  /\ inviteCall # NoInviteCall =>
       /\ inviteCall \in InviteCall
       /\ inviteCall.step = "made" => invited[inviteCall.id] # "none"
  /\ oneTimeLink \in {created, NoLink} /\ created \in InviteId \cup {NoLink}
  /\ copying \subseteq InviteId /\ copied \subseteq InviteId
  /\ linkCrossed \in BOOLEAN /\ listCrossed \in BOOLEAN
  /\ created # NoLink =>
       /\ oneTimeLink = created \/ created \in copied \/ linkCrossed
       /\ linkCrossed \/ copying \subseteq {created}
       /\ invited[created] # "none"
       /\ invitations[created] = "none" =>
            /\ listCrossed
            /\ inviteLoad # NoInviteLoad => (inviteLoad.read => inviteLoad.list[created] # "none")

\* A list is read, shown or not heard of.
LEMMA InviteLoadsKeep ==
  ASSUME InviteInv, ReadInvitations \/ InvitationsShown \/ InvitationsLost
  PROVE  InviteInv'
<1>1. UNCHANGED <<invited, inviteCall, oneTimeLink, copying, created, copied, linkCrossed>>
  BY DEF ReadInvitations, InvitationsShown, InvitationsLost
<1>2. CASE ReadInvitations
  <2>1. inviteLoad' = [read |-> TRUE, list |-> invited] /\ UNCHANGED <<invitations, inviteError, listCrossed>>
    BY <1>2 DEF ReadInvitations
  <2>2. inviteLoad'.list = invited
    BY <2>1
  <2>3. QED
    BY <1>1, <2>1, <2>2 DEF InviteInv
<1>3. CASE InvitationsShown
  <2>1. /\ inviteLoad # NoInviteLoad /\ inviteLoad.read /\ invitations' = inviteLoad.list
        /\ inviteError' = "" /\ inviteLoad' = NoInviteLoad
        /\ listCrossed' = \E i \in InviteId : invitations[i] # "none" /\ inviteLoad.list[i] = "none"
    BY <1>3 DEF InvitationsShown
  <2>2. listCrossed' \in BOOLEAN
    BY <2>1
  <2>3. ASSUME created # NoLink, invitations'[created] = "none" PROVE listCrossed'
    BY <2>1, <2>3 DEF InviteInv
  <2>4. QED
    BY <1>1, <2>1, <2>2, <2>3 DEF InviteInv
<1>4. CASE InvitationsLost
  <2>1. inviteLoad' = NoInviteLoad /\ inviteError' = "list" /\ UNCHANGED <<invitations, listCrossed>>
    BY <1>4 DEF InvitationsLost
  <2>2. QED
    BY <1>1, <2>1 DEF InviteInv
<1>5. QED
  BY <1>2, <1>3, <1>4

\* A link is asked for, and made: it is the one shown, and its invitation is listed.
LEMMA LinksKeep ==
  ASSUME InviteInv, CreateLink \/ LinkCreated
  PROVE  InviteInv'
<1>1. CASE CreateLink
  <2>1. /\ Made # InviteId
        /\ inviteCall' = [kind |-> "create", id |-> CHOOSE i \in InviteId \ Made : TRUE, step |-> "sent"]
        /\ inviteError' = "" /\ oneTimeLink' = NoLink /\ created' = NoLink
        /\ UNCHANGED <<invited, invitations, inviteLoad, copying, copied, linkCrossed, listCrossed>>
    BY <1>1 DEF CreateLink
  <2>2. \E i \in InviteId \ Made : TRUE
    BY <2>1 DEF Made
  <2>3. inviteCall' \in InviteCall
        /\ inviteCall'.step = "sent"
    BY <2>1, <2>2 DEF InviteCall
  <2>4. QED
    BY <2>1, <2>3 DEF InviteInv
<1>2. CASE LinkCreated
  <2>1. /\ inviteCall # NoInviteCall /\ inviteCall.step = "made"
        /\ invitations' = [invitations EXCEPT ![inviteCall.id] = "active"]
        /\ oneTimeLink' = inviteCall.id /\ created' = inviteCall.id /\ linkCrossed' = (copying # {})
        /\ inviteCall' = NoInviteCall
        /\ UNCHANGED <<invited, inviteLoad, inviteError, copying, copied, listCrossed>>
    BY <1>2 DEF LinkCreated
  <2>2. inviteCall.id \in InviteId /\ invited[inviteCall.id] # "none"
    BY <2>1 DEF InviteInv, InviteCall
  <2>3. invitations' \in [InviteId -> Statuses] /\ invitations'[created'] # "none"
    BY <2>1, <2>2 DEF InviteInv, Statuses
  <2>4. linkCrossed' \in BOOLEAN /\ (linkCrossed' \/ copying' \subseteq {created'})
    BY <2>1
  <2>5. QED
    BY <2>1, <2>2, <2>3, <2>4 DEF InviteInv
<1>3. QED
  BY <1>1, <1>2

\* An invitation is revoked, used, or expires, here or at the server.
LEMMA RevocationsKeep ==
  ASSUME InviteInv,
         Revoked \/ ServeInvitation \/ \E i \in InviteId : Revoke(i) \/ InvitationOver(i)
  PROVE  InviteInv'
<1>1. UNCHANGED <<inviteLoad, oneTimeLink, copying, created, copied, linkCrossed, listCrossed>>
  BY DEF Revoked, ServeInvitation, Revoke, InvitationOver
<1>2. CASE Revoked
  <2>1. /\ inviteCall # NoInviteCall
        /\ invitations' = [invitations EXCEPT ![inviteCall.id] = IF @ = "none" THEN @ ELSE "revoked"]
        /\ inviteCall' = NoInviteCall /\ UNCHANGED <<invited, inviteError>>
    BY <1>2 DEF Revoked
  <2>2. inviteCall.id \in InviteId /\ invitations \in [InviteId -> Statuses]
    BY <2>1 DEF InviteInv, InviteCall
  <2>3. /\ invitations' \in [InviteId -> Statuses]
        /\ \A i \in InviteId : invitations'[i] = "none" => invitations[i] = "none"
    BY <2>1, <2>2 DEF Statuses
  <2>4. QED
    BY <1>1, <2>1, <2>3 DEF InviteInv
<1>3. CASE ServeInvitation
  <2>1. /\ inviteCall # NoInviteCall
        /\ invited' = [invited EXCEPT ![inviteCall.id] = IF inviteCall.kind = "create" THEN "active" ELSE "revoked"]
        /\ inviteCall' = [inviteCall EXCEPT !.step = "made"] /\ UNCHANGED <<invitations, inviteError>>
    BY <1>3 DEF ServeInvitation
  <2>2. inviteCall \in InviteCall /\ inviteCall.id \in InviteId /\ invited \in [InviteId -> Statuses]
    BY <2>1 DEF InviteInv, InviteCall
  <2>3. inviteCall' \in InviteCall /\ inviteCall'.id = inviteCall.id
    BY <2>1, <2>2 DEF InviteCall
  <2>4. /\ invited' \in [InviteId -> Statuses] /\ invited'[inviteCall.id] # "none"
        /\ \A i \in InviteId : invited'[i] = "none" => invited[i] = "none"
    BY <2>1, <2>2 DEF Statuses
  <2>5. QED
    BY <1>1, <2>1, <2>2, <2>3, <2>4 DEF InviteInv
<1>4. ASSUME NEW i \in InviteId, Revoke(i) PROVE InviteInv'
  <2>1. /\ inviteCall' = [kind |-> "revoke", id |-> i, step |-> "sent"] /\ inviteError' = ""
        /\ UNCHANGED <<invited, invitations>>
    BY <1>4 DEF Revoke
  <2>2. inviteCall' \in InviteCall /\ inviteCall'.step = "sent"
    BY <2>1 DEF InviteCall
  <2>3. QED
    BY <1>1, <2>1, <2>2 DEF InviteInv
<1>5. ASSUME NEW i \in InviteId, InvitationOver(i) PROVE InviteInv'
  <2>1. invited' = [invited EXCEPT ![i] = "over"] /\ UNCHANGED <<invitations, inviteError, inviteCall>>
    BY <1>5 DEF InvitationOver
  <2>2. invited \in [InviteId -> Statuses]
    BY DEF InviteInv
  <2>3. /\ invited' \in [InviteId -> Statuses]
        /\ \A j \in InviteId : invited'[j] = "none" => invited[j] = "none"
    BY <2>1, <2>2 DEF Statuses
  <2>4. inviteCall # NoInviteCall => inviteCall.id \in InviteId
    BY DEF InviteInv, InviteCall
  <2>5. QED
    BY <1>1, <2>1, <2>3, <2>4 DEF InviteInv
<1>6. QED
  BY <1>2, <1>3, <1>4, <1>5

\* A call fails, or a reload is over.
LEMMA InviteCallsEndKeep ==
  ASSUME InviteInv, InviteFails \/ ReloadEnds
  PROVE  InviteInv'
<1>1. UNCHANGED <<invited, invitations, oneTimeLink, copying, created, copied, linkCrossed, listCrossed>>
  BY DEF InviteFails, ReloadEnds
<1>2. CASE InviteFails
  <2>1. /\ inviteCall # NoInviteCall /\ inviteError' = inviteCall.kind
        /\ \/ inviteLoad' = NewInviteLoad /\ inviteCall' = [inviteCall EXCEPT !.step = "reloading"]
           \/ inviteCall' = NoInviteCall /\ UNCHANGED inviteLoad
    BY <1>2 DEF InviteFails
  <2>2. inviteCall \in InviteCall
    BY <2>1 DEF InviteInv
  <2>3. inviteError' \in {"create", "revoke"}
    BY <2>1, <2>2 DEF InviteCall
  <2>4. NewInviteLoad.list \in [InviteId -> Statuses] /\ ~NewInviteLoad.read
    BY DEF NewInviteLoad, NoInvitations, Statuses
  <2>5. CASE inviteLoad' = NewInviteLoad /\ inviteCall' = [inviteCall EXCEPT !.step = "reloading"]
    <3>1. inviteCall' \in InviteCall
          /\ inviteCall'.step = "reloading"
      BY <2>2, <2>5 DEF InviteCall
    <3>2. QED
      BY <1>1, <2>3, <2>4, <2>5, <3>1 DEF InviteInv
  <2>6. CASE inviteCall' = NoInviteCall /\ UNCHANGED inviteLoad
    BY <1>1, <2>3, <2>6 DEF InviteInv
  <2>7. QED
    BY <2>1, <2>5, <2>6
<1>3. CASE ReloadEnds
  <2>1. inviteCall' = NoInviteCall /\ UNCHANGED <<inviteLoad, inviteError>>
    BY <1>3 DEF ReloadEnds
  <2>2. QED
    BY <1>1, <2>1 DEF InviteInv
<1>4. QED
  BY <1>2, <1>3

\* A link goes to the clipboard, and is there, or is not.
LEMMA CopiesKeep ==
  ASSUME InviteInv, CopyLink \/ \E i \in InviteId : LinkCopied(i) \/ CopyFails(i)
  PROVE  InviteInv'
<1>1. UNCHANGED <<invited, invitations, inviteLoad, inviteCall, created, linkCrossed, listCrossed>>
  BY DEF CopyLink, LinkCopied, CopyFails
<1>2. CASE CopyLink
  <2>1. oneTimeLink # NoLink /\ copying' = copying \cup {oneTimeLink}
        /\ UNCHANGED <<oneTimeLink, copied, inviteError>>
    BY <1>2 DEF CopyLink
  <2>2. oneTimeLink = created /\ created # NoLink /\ created \in InviteId
    BY <2>1 DEF InviteInv
  <2>3. QED
    BY <1>1, <2>1, <2>2 DEF InviteInv
<1>3. ASSUME NEW i \in InviteId, LinkCopied(i) PROVE InviteInv'
  <2>1. i \in copying /\ copying' = copying \ {i} /\ copied' = copied \cup {i} /\ oneTimeLink' = NoLink
        /\ UNCHANGED inviteError
    BY <1>3 DEF LinkCopied
  <2>2. ASSUME created # NoLink PROVE created \in copied' \/ linkCrossed
    BY <2>1, <2>2 DEF InviteInv
  <2>3. QED
    BY <1>1, <2>1, <2>2 DEF InviteInv
<1>4. ASSUME NEW i \in InviteId, CopyFails(i) PROVE InviteInv'
  <2>1. copying' = copying \ {i} /\ inviteError' = "copy" /\ UNCHANGED <<oneTimeLink, copied>>
    BY <1>4 DEF CopyFails
  <2>2. QED
    BY <1>1, <2>1 DEF InviteInv
<1>5. QED
  BY <1>2, <1>3, <1>4

\* Every step of the invitations keeps the invariant.
LEMMA InviteInvInductive ==
  ASSUME InviteInv, [InviteNext]_inviteVars
  PROVE  InviteInv'
<1>1. CASE UNCHANGED inviteVars
  BY <1>1 DEF InviteInv, inviteVars
<1>2. CASE InviteNext
  BY <1>2, InviteLoadsKeep, LinksKeep, RevocationsKeep, InviteCallsEndKeep, CopiesKeep DEF InviteNext
<1>3. QED
  BY <1>1, <1>2

\* The link that is shown once stays until it is copied, whatever lists, revocations and
\* copies of other links are under way, but for the crossings LinkKept names (createLink,
\* copyLink, load).
THEOREM LinkIsKept == InviteSpec => [](InviteTypeOK /\ LinkKept)
<1>1. InviteInit => InviteInv
  <2> SUFFICES ASSUME InviteInit PROVE InviteInv
    OBVIOUS
  <2>1. NoInvitations \in [InviteId -> Statuses] /\ \A s \in {"none", "active"} : [NoInvitations EXCEPT ![1] = s] \in [InviteId -> Statuses]
    BY DEF NoInvitations, Statuses
  <2>2. NewInviteLoad.list \in [InviteId -> Statuses]
    BY <2>1 DEF NewInviteLoad
  <2>3. QED
    BY <2>1, <2>2 DEF InviteInit, InviteInv
<1>2. InviteInv => InviteTypeOK
  BY DEF InviteInv, InviteCall, InviteTypeOK
<1>3. InviteInv => LinkKept
  BY DEF InviteInv, LinkKept
<1>4. QED
  BY <1>1, <1>2, <1>3, InviteInvInductive, PTL DEF InviteSpec

-----------------------------------------------------------------------------
(* The trades.                                                             *)

\* What is under way.
TradesCall == [n : TradeChange, kind : {"change", "search"}, step : {"sent", "made", "reloading"}]

\* The message of a refusal is the last that was set.
TradesInv ==
  /\ tradesMade \subseteq TradeChange /\ confirmed \subseteq tradesMade /\ trades \subseteq TradeChange
  /\ tradesAsked \in 0 .. MaxTradeChanges
  /\ barred \in BOOLEAN /\ suspended \in BOOLEAN /\ candidates \in BOOLEAN /\ reporting \in BOOLEAN
  /\ feedback \in BOOLEAN /\ unloaded \in BOOLEAN /\ refusedAlone \in BOOLEAN
  /\ tradesLoad \in TradesLoad \cup {NoTradesLoad}
  /\ tradesError \in {"", "load", "change", "search"}
  /\ tradesCall # NoTradesCall =>
       /\ tradesCall \in TradesCall
       /\ tradesCall.step = "made" => tradesCall.n \in tradesMade
  /\ tradesLoad # NoTradesLoad => ("lists" \in tradesLoad.read => confirmed \subseteq tradesLoad.lists)
  /\ tradesLoad = NoTradesLoad /\ ~unloaded => confirmed \subseteq trades
  /\ refusedAlone => tradesLoad = NoTradesLoad /\ tradesCall = NoTradesCall /\ tradesError # ""

LEMMA NewTradesLoadTyped == NewTradesLoad \in TradesLoad /\ NewTradesLoad # NoTradesLoad /\ NewTradesLoad.read = {}
<1>1. NewTradesLoad \in TradesLoad /\ NewTradesLoad.read = {}
  BY DEF NewTradesLoad, TradesLoad
<1>2. QED
  BY <1>1, TradingPageAssumption

\* A load is read, shown or not heard of.
LEMMA TradesLoadsKeep ==
  ASSUME TradesInv, ReadAccount \/ ReadLists \/ TradesShown \/ TradesLost
  PROVE  TradesInv'
<1>1. UNCHANGED <<tradesMade, barred, tradesCall, candidates, reporting, feedback, tradesAsked, confirmed, refusedAlone>>
      /\ tradesLoad # NoTradesLoad /\ ~refusedAlone
  BY DEF TradesInv, ReadAccount, ReadLists, TradesShown, TradesLost
<1>2. tradesLoad \in TradesLoad /\ NoTradesLoad \notin TradesLoad
  BY <1>1, TradingPageAssumption DEF TradesInv
<1>3. ASSUME ReadAccount \/ ReadLists PROVE TradesInv'
  <2>1. UNCHANGED <<trades, suspended, tradesError, unloaded>>
    BY <1>3 DEF ReadAccount, ReadLists
  <2>2. tradesLoad' \in TradesLoad /\ ("lists" \in tradesLoad'.read => confirmed \subseteq tradesLoad'.lists)
    <3>1. CASE ReadAccount
      <4>1. tradesLoad' = [tradesLoad EXCEPT !.read = @ \cup {"account"}, !.suspended = barred]
        BY <3>1 DEF ReadAccount
      <4>2. QED
        BY <1>1, <1>2, <4>1 DEF TradesInv, TradesLoad
    <3>2. CASE ReadLists
      <4>1. tradesLoad' = [tradesLoad EXCEPT !.read = @ \cup {"lists"}, !.lists = tradesMade]
        BY <3>2 DEF ReadLists
      <4>2. QED
        BY <1>2, <4>1 DEF TradesInv, TradesLoad
    <3>3. QED
      BY <1>3, <3>1, <3>2
  <2>3. QED
    BY <1>1, <1>2, <2>1, <2>2, ZenonT(30) DEF TradesInv
<1>4. CASE TradesShown
  <2>1. /\ tradesLoad.read = {"account", "lists"} /\ trades' = tradesLoad.lists /\ suspended' = tradesLoad.suspended
        /\ tradesError' = "" /\ tradesLoad' = NoTradesLoad /\ unloaded' = FALSE
    BY <1>4 DEF TradesShown
  <2>2. trades' \subseteq TradeChange /\ suspended' \in BOOLEAN /\ confirmed \subseteq trades'
    BY <1>1, <1>2, <2>1 DEF TradesInv, TradesLoad
  <2>3. QED
    BY <1>1, <2>1, <2>2, ZenonT(30) DEF TradesInv
<1>5. CASE TradesLost
  <2>1. tradesError' = "load" /\ tradesLoad' = NoTradesLoad /\ unloaded' = TRUE /\ UNCHANGED <<trades, suspended>>
    BY <1>5 DEF TradesLost
  <2>2. QED
    BY <1>1, <2>1, ZenonT(30) DEF TradesInv
<1>6. QED
  BY <1>3, <1>4, <1>5

\* A change or a search is asked for, and the form of a report opens and closes.
LEMMA TradesAskedKeep ==
  ASSUME TradesInv,
         ChangeTrades \/ AddWant \/ OpenReport \/ CancelReport \/ SubmitReport \/ FindWanted \/ Moderate
  PROVE  TradesInv'
<1>1. ASSUME NEW kind \in {"change", "search"}, AskTrades(kind), feedback' \in BOOLEAN, reporting' \in BOOLEAN
      PROVE  TradesInv'
  <2>1. /\ tradesAsked < MaxTradeChanges /\ tradesAsked' = tradesAsked + 1
        /\ tradesCall' = [n |-> tradesAsked + 1, kind |-> kind, step |-> "sent"]
        /\ tradesError' = "" /\ refusedAlone' = FALSE
        /\ UNCHANGED <<tradesMade, barred, trades, suspended, tradesLoad, candidates, confirmed, unloaded>>
    BY <1>1 DEF AskTrades
  <2>2. tradesAsked' \in 0 .. MaxTradeChanges /\ tradesAsked' \in TradeChange
    <3>1. tradesAsked \in 0 .. MaxTradeChanges
      BY DEF TradesInv
    <3>2. MaxTradeChanges \in Nat
      BY TradingPageAssumption
    <3>3. tradesAsked' = tradesAsked + 1 /\ tradesAsked < MaxTradeChanges
      BY <2>1
    <3>4. QED
      BY <3>1, <3>2, <3>3 DEF TradeChange
  <2>3. tradesCall' \in TradesCall /\ tradesCall'.step = "sent"
    BY <2>1, <2>2 DEF TradesCall
  <2>4. QED
    BY <1>1, <2>1, <2>2, <2>3, ZenonT(30) DEF TradesInv
<1>2. feedback \in BOOLEAN /\ reporting \in BOOLEAN
  BY DEF TradesInv
<1>3. CASE ChangeTrades \/ AddWant \/ SubmitReport
  BY <1>1, <1>2, <1>3 DEF ChangeTrades, AddWant, SubmitReport
<1>4. CASE FindWanted
  BY <1>1, <1>2, <1>4 DEF FindWanted
<1>5. CASE OpenReport \/ CancelReport
  <2>1. reporting' \in BOOLEAN
        /\ UNCHANGED <<tradesMade, barred, trades, suspended, tradesLoad, tradesCall, candidates, tradesError, feedback,
                       tradesAsked, confirmed, unloaded, refusedAlone>>
    BY <1>5 DEF OpenReport, CancelReport
  <2>2. QED
    BY <2>1, ZenonT(30) DEF TradesInv
<1>6. CASE Moderate
  <2>1. barred' \in BOOLEAN
        /\ UNCHANGED <<tradesMade, trades, suspended, tradesLoad, tradesCall, candidates, reporting, tradesError, feedback,
                       tradesAsked, confirmed, unloaded, refusedAlone>>
    BY <1>6 DEF Moderate
  <2>2. QED
    BY <2>1, ZenonT(30) DEF TradesInv
<1>7. QED
  BY <1>3, <1>4, <1>5, <1>6

\* A change is made, and the page is told: a load begins, and one that was read before is
\* given up.
LEMMA TradesMadeKeeps ==
  ASSUME TradesInv, ServeTrades \/ TradesMade
  PROVE  TradesInv'
<1>1. UNCHANGED <<barred, trades, suspended, candidates, reporting, tradesError, tradesAsked, unloaded, refusedAlone>>
      /\ tradesCall # NoTradesCall
  BY DEF ServeTrades, TradesMade
<1>2. tradesCall \in TradesCall /\ ~refusedAlone
  BY <1>1 DEF TradesInv
<1>3. CASE ServeTrades
  <2>1. tradesMade' = tradesMade \cup {tradesCall.n} /\ tradesCall' = [tradesCall EXCEPT !.step = "made"]
        /\ UNCHANGED <<tradesLoad, feedback, confirmed>>
    BY <1>3 DEF ServeTrades
  <2>2. tradesCall' \in TradesCall /\ tradesCall'.n = tradesCall.n /\ tradesCall.n \in TradeChange
    BY <1>2, <2>1 DEF TradesCall
  <2>3. tradesMade' \subseteq TradeChange /\ confirmed \subseteq tradesMade' /\ tradesCall.n \in tradesMade'
    BY <2>1, <2>2, ZenonT(30) DEF TradesInv
  <2>4. QED
    BY <1>1, <1>2, <2>1, <2>2, <2>3, ZenonT(30) DEF TradesInv
<1>4. CASE TradesMade
  <2>1. /\ tradesCall.step = "made" /\ confirmed' = confirmed \cup {tradesCall.n} /\ feedback' = TRUE
        /\ tradesLoad' = NewTradesLoad /\ tradesCall' = [tradesCall EXCEPT !.step = "reloading"]
        /\ UNCHANGED tradesMade
    BY <1>4 DEF TradesMade
  <2>2. tradesCall' \in TradesCall /\ tradesCall'.step = "reloading"
    BY <1>2, <2>1 DEF TradesCall
  <2>3. confirmed' \subseteq tradesMade
    BY <1>1, <2>1, ZenonT(30) DEF TradesInv
  <2>4. QED
    BY <1>1, <1>2, <2>1, <2>2, <2>3, NewTradesLoadTyped, ZenonT(30) DEF TradesInv
<1>5. QED
  BY <1>3, <1>4

\* What is under way ends, or is left behind with the page.
LEMMA TradesEndKeeps ==
  ASSUME TradesInv, TradesRefused \/ TradesReloaded \/ LeaveTrades \/ \E some \in BOOLEAN : SearchDone(some)
  PROVE  TradesInv'
<1>1. tradesCall # NoTradesCall => tradesCall \in TradesCall
  BY DEF TradesInv
<1>2. CASE TradesRefused
  <2>1. /\ tradesCall # NoTradesCall /\ tradesError' = tradesCall.kind /\ tradesCall' = NoTradesCall
        /\ refusedAlone' = (tradesLoad = NoTradesLoad)
        /\ UNCHANGED <<tradesMade, barred, trades, suspended, tradesLoad, candidates, reporting, feedback, tradesAsked,
                       confirmed, unloaded>>
    BY <1>2 DEF TradesRefused
  <2>2. tradesError' \in {"change", "search"} /\ refusedAlone' \in BOOLEAN
    BY <1>1, <2>1 DEF TradesCall
  <2>3. QED
    BY <2>1, <2>2, ZenonT(30) DEF TradesInv
<1>3. CASE TradesReloaded
  <2>1. tradesCall' = NoTradesCall
        /\ UNCHANGED <<tradesMade, barred, trades, suspended, tradesLoad, candidates, reporting, tradesError, feedback,
                       tradesAsked, confirmed, unloaded, refusedAlone>>
    BY <1>3 DEF TradesReloaded
  <2>2. tradesCall' # NoTradesCall => FALSE
    BY <2>1
  <2>3. QED
    BY <2>1, <2>2, ZenonT(30) DEF TradesInv
<1>4. ASSUME NEW some \in BOOLEAN, SearchDone(some) PROVE TradesInv'
  <2>1. /\ tradesCall # NoTradesCall /\ candidates' = some /\ tradesCall' = NoTradesCall
        /\ tradesError' = IF some THEN tradesError ELSE "search"
        /\ UNCHANGED <<tradesMade, barred, trades, suspended, tradesLoad, reporting, feedback, tradesAsked, confirmed,
                       unloaded, refusedAlone>>
    BY <1>4 DEF SearchDone
  <2>2. candidates' \in BOOLEAN /\ tradesError' \in {"", "load", "change", "search"}
    BY <1>4, <2>1, ZenonT(30) DEF TradesInv
  <2>3. QED
    BY <2>1, <2>2, ZenonT(30) DEF TradesInv
<1>5. CASE LeaveTrades
  <2>1. /\ tradesCall' = NoTradesCall /\ trades' = {} /\ suspended' = FALSE /\ tradesLoad' = NewTradesLoad
        /\ candidates' = FALSE /\ reporting' = FALSE /\ tradesError' = "" /\ feedback' = FALSE
        /\ unloaded' = FALSE /\ refusedAlone' = FALSE /\ UNCHANGED <<barred, tradesAsked, confirmed>>
    BY <1>5 DEF LeaveTrades
  <2>2. \/ tradesMade' = tradesMade
        \/ tradesCall # NoTradesCall /\ tradesMade' = tradesMade \cup {tradesCall.n}
    BY <1>5 DEF LeaveTrades
  <2>3. tradesMade' \subseteq TradeChange /\ tradesMade \subseteq tradesMade'
    BY <1>1, <2>2 DEF TradesInv, TradesCall
  <2>4. /\ tradesMade' \subseteq TradeChange /\ confirmed' \subseteq tradesMade' /\ trades' \subseteq TradeChange
        /\ tradesAsked' \in 0 .. MaxTradeChanges /\ tradesLoad' \in TradesLoad \cup {NoTradesLoad}
    BY <2>1, <2>3, NewTradesLoadTyped, ZenonT(30) DEF TradesInv
  <2>5. tradesLoad' # NoTradesLoad /\ tradesLoad'.read = {}
    BY <2>1, NewTradesLoadTyped
  <2>6. QED
    BY <2>1, <2>4, <2>5, ZenonT(30) DEF TradesInv
<1>6. QED
  BY <1>2, <1>3, <1>4, <1>5

\* Every step of the page of trades keeps the invariant.
LEMMA TradesInvInductive ==
  ASSUME TradesInv, [TradingPageNext]_tradesVars
  PROVE  TradesInv'
<1>1. CASE UNCHANGED tradesVars
  <2>1. UNCHANGED <<tradesMade, barred, trades, suspended, tradesLoad, tradesCall, candidates, reporting, tradesError,
                    feedback, tradesAsked, confirmed, unloaded, refusedAlone>>
    BY <1>1, Zenon DEF tradesVars
  <2>2. QED
    BY <2>1, ZenonT(30) DEF TradesInv
<1>2. CASE TradingPageNext
  BY <1>2, TradesLoadsKeep, TradesAskedKeep, TradesMadeKeeps, TradesEndKeeps DEF TradingPageNext
<1>3. QED
  BY <1>1, <1>2

\* At rest the lists have every change the page was told of, and the message of a refusal
\* that came alone is not wiped off (load, mutate).
THEOREM TradesStayCurrent == TradingPageSpec => [](TradingPageTypeOK /\ TradesCurrent)
<1>1. TradingPageInit => TradesInv
  <2> SUFFICES ASSUME TradingPageInit PROVE TradesInv
    OBVIOUS
  <2>1. 0 \in 0 .. MaxTradeChanges
    BY TradingPageAssumption
  <2>2. QED
    BY <2>1, NewTradesLoadTyped DEF TradingPageInit, TradesInv
<1>2. TradesInv => TradingPageTypeOK
  BY DEF TradesInv, TradesCall, TradingPageTypeOK
<1>3. TradesInv => TradesCurrent
  BY DEF TradesInv, TradesCurrent
<1>4. QED
  BY <1>1, <1>2, <1>3, TradesInvInductive, PTL DEF TradingPageSpec

-----------------------------------------------------------------------------
(* All pages.                                                              *)

\* A step of all pages is a step of one, in which the others stay as they are: each page
\* behaves as its own module says.
LEMMA PagesStepAlone ==
  ASSUME [WebPagesNext]_pageVars
  PROVE  /\ [AuthNext]_authVars /\ [ListNext]_listVars /\ [ImportPageNext]_importVars /\ [DeckPageNext]_deckVars
         /\ [AdminNext]_adminVars /\ [CatalogNext]_catalogVars /\ [ScheduleNext]_scheduleVars /\ [InviteNext]_inviteVars
         /\ [TradingPageNext]_tradesVars /\ [PreferencesNext]_preferenceVars
<1>1. CASE UNCHANGED pageVars
  BY <1>1 DEF pageVars
<1>2. CASE WebPagesNext
  BY <1>2 DEF WebPagesNext, StaysAuth, StaysList, StaysImport, StaysDeck, StaysAdmin, StaysOther
<1>3. QED
  BY <1>1, <1>2

THEOREM PagesActAlone ==
  WebPagesSpec => /\ AuthSpec /\ ListSpec /\ ImportPageSpec /\ DeckPageSpec
                  /\ AdminSpec /\ CatalogSpec /\ ScheduleSpec /\ InviteSpec
                  /\ TradingPageSpec /\ PreferencesSpec
<1>1. WebPagesInit => /\ AuthInit /\ ListInit /\ ImportPageInit /\ DeckPageInit
                      /\ AdminInit /\ CatalogInit /\ ScheduleInit /\ InviteInit
                      /\ TradingPageInit /\ PreferencesInit
  BY DEF WebPagesInit
<1>2. [WebPagesNext]_pageVars =>
        /\ [AuthNext]_authVars /\ [ListNext]_listVars /\ [ImportPageNext]_importVars /\ [DeckPageNext]_deckVars
        /\ [AdminNext]_adminVars /\ [CatalogNext]_catalogVars /\ [ScheduleNext]_scheduleVars /\ [InviteNext]_inviteVars
        /\ [TradingPageNext]_tradesVars /\ [PreferencesNext]_preferenceVars
  BY PagesStepAlone
<1>3. QED
  BY <1>1, <1>2, PTL DEF WebPagesSpec, AuthSpec, ListSpec, ImportPageSpec, DeckPageSpec, AdminSpec, CatalogSpec,
     ScheduleSpec, InviteSpec, TradingPageSpec, PreferencesSpec

\* Whatever the page was told is done, of accounts, catalog, invitations and trades, it
\* shows once it is at rest.
THEOREM PagesShowTheirChanges == WebPagesSpec => []OwnChangesShown
<1>1. AccountsCurrent /\ CatalogCurrent /\ LinkKept /\ TradesCurrent => OwnChangesShown
  BY DEF OwnChangesShown
<1>2. QED
  BY <1>1, PagesActAlone, AccountsStayCurrent, CatalogStaysCurrent, LinkIsKept, TradesStayCurrent, PTL

\* Every page stays well typed.
THEOREM PagesAreTyped == WebPagesSpec => []WebPagesTypeOK
<1>1. /\ AuthTypeOK /\ ListTypeOK /\ ImportPageTypeOK /\ DeckPageTypeOK
      /\ AdminTypeOK /\ CatalogTypeOK /\ InviteTypeOK /\ TradingPageTypeOK /\ PreferencesTypeOK
      => WebPagesTypeOK
  BY DEF WebPagesTypeOK
<1>2. QED
  BY <1>1, PagesActAlone, ShownAccountIsSignedIn, RefusedRemovalsAreNotResent, ImportReviewsWhatWasChosen, PageIsOfItsDeck,
     AccountsStayCurrent, CatalogStaysCurrent, LinkIsKept, TradesStayCurrent, TabsComeToAgree, PTL

\* Together the pages keep the promises that each makes alone.
THEOREM PagesKeepTheirPromises ==
  WebPagesSpec => [](ShownIsSignedIn /\ RejectedNotResent /\ ReviewedIsChosen /\ OnlyThisDeck /\ OwnChangesShown /\ TabsAgree)
<1>1. QED
  BY PagesActAlone, ShownAccountIsSignedIn, RefusedRemovalsAreNotResent, ImportReviewsWhatWasChosen, PageIsOfItsDeck,
     PagesShowTheirChanges, TabsComeToAgree, PTL

=============================================================================
