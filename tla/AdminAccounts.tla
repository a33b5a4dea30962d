---------------------------- MODULE AdminAccounts ----------------------------
(* The accounts of the administration page, AdminPage.tsx, as an owner sees     *)
(* them: the list, the row of each account, the form that creates one and the     *)
(* requests for deletion. A row is a component of its own: one that is filtered    *)
(* away is forgotten, with what it is busy with, and what it awaits goes on.       *)
(*                                                                              *)
(* What an account is is abstracted to the changes it has gone through: the page's  *)
(* own are numbered, and a list is the set of those it was read after.             *)
EXTENDS Integers, FiniteSets

CONSTANTS Managed,          \* accounts
          NoAccounts, NoRequests,  \* no load
          MaxAdminChanges   \* bound: changes this page asks for

VARIABLES
  changesMade,    \* the server: the changes it has made
  members,        \* the accounts there are
  wishes,         \* accounts whose deletion is asked for, and not decided
  wished,         \* bound: an account asks once
  administrators, \* the list shown
  accountLoad,    \* the list that will be heard
  usersError,     \* it could not be loaded
  hidden,         \* accounts the filters leave out
  rowBusy,        \* rows whose buttons are disabled
  submitting,     \* so are those of the form that creates one
  requests,       \* the requests shown
  requestLoad,    \* those that will be heard
  adminCalls,     \* changes in flight
  changesAsked,   \* bound
  told,           \* history: the changes the page knows to be made
  decided,        \* history: the requests it knows to be decided
  requestsLost    \* history: the last requests could not be loaded, of which nothing is said

adminVars == <<changesMade, members, wishes, wished, administrators, accountLoad, usersError, hidden, rowBusy,
               submitting, requests, requestLoad, adminCalls, changesAsked, told, decided, requestsLost>>

Change == 1..MaxAdminChanges
Listing == [changes : SUBSET Change, accounts : SUBSET Managed]
Listed == [changes |-> changesMade, accounts |-> members]

\* `by` is the change that has the list loaded again, 0 for the first load.
AccountLoad == [by : 0..MaxAdminChanges, read : BOOLEAN, list : Listing]
RequestLoad == [read : BOOLEAN, list : SUBSET Managed]

ASSUME AdminAssumption ==
  MaxAdminChanges \in Nat /\ NoAccounts \notin AccountLoad /\ NoRequests \notin RequestLoad

\* `row` tells that the row which made the call is still the one on the page.
AdminTypeOK ==
  /\ {changesMade, told} \subseteq SUBSET Change
  /\ {members, wishes, wished, hidden, rowBusy, requests, decided} \subseteq SUBSET Managed
  /\ administrators \in Listing
  /\ accountLoad \in AccountLoad \cup {NoAccounts} /\ requestLoad \in RequestLoad \cup {NoRequests}
  /\ \A c \in adminCalls : c.n \in Change /\ c.account \in Managed /\ c.row \in BOOLEAN
                           /\ c.kind \in {"update", "delete", "create", "approve", "reject"}
                           /\ c.step \in {"sent", "made", "reloading"}
  /\ {usersError, submitting, requestsLost} \subseteq BOOLEAN
  /\ changesAsked \in 0..MaxAdminChanges

-----------------------------------------------------------------------------
(* The list.                                                               *)

LoadBy(n) == [by |-> n, read |-> FALSE, list |-> [changes |-> {}, accounts |-> {}]]

otherThanAccounts == <<changesMade, members, wishes, wished, hidden, submitting, requests, changesAsked, told,
                       decided, requestsLost>>

ReadAccounts ==
  /\ accountLoad # NoAccounts /\ ~accountLoad.read
  /\ accountLoad' = [accountLoad EXCEPT !.read = TRUE, !.list = Listed]
  /\ UNCHANGED <<otherThanAccounts, administrators, usersError, rowBusy, requestLoad, adminCalls>>

\* The rows of accounts that are gone go with them; the requests are read again.
AccountsShown ==
  /\ accountLoad # NoAccounts /\ accountLoad.read
  /\ administrators' = accountLoad.list /\ accountLoad' = NoAccounts /\ usersError' = FALSE
  /\ rowBusy' = rowBusy \cap accountLoad.list.accounts
  /\ adminCalls' = {[c EXCEPT !.row = @ /\ c.account \in accountLoad.list.accounts] : c \in adminCalls}
  /\ requestLoad' = [read |-> FALSE, list |-> {}]
  /\ UNCHANGED otherThanAccounts

AccountsLost ==
  /\ accountLoad # NoAccounts /\ accountLoad' = NoAccounts /\ usersError' = TRUE
  /\ UNCHANGED <<otherThanAccounts, administrators, rowBusy, requestLoad, adminCalls>>

\* The filters: a row that comes back is a new one.
Filter(away) ==
  /\ away # hidden /\ hidden' = away
  /\ rowBusy' = rowBusy \ away
  /\ adminCalls' = {[c EXCEPT !.row = @ /\ c.account \notin away] : c \in adminCalls}
  /\ UNCHANGED <<changesMade, members, wishes, wished, administrators, accountLoad, usersError, submitting, requests,
                 requestLoad, changesAsked, told, decided, requestsLost>>

-----------------------------------------------------------------------------
(* Requests for deletion.                                                  *)

otherThanRequests == <<changesMade, members, administrators, accountLoad, usersError, hidden, rowBusy, submitting,
                       adminCalls, changesAsked, told, decided>>

\* A member asks for it.
AskDeletion(a) ==
  /\ a \in members \ wished
  /\ wishes' = wishes \cup {a} /\ wished' = wished \cup {a}
  /\ UNCHANGED <<otherThanRequests, requests, requestLoad, requestsLost>>

ReadRequests ==
  /\ requestLoad # NoRequests /\ ~requestLoad.read
  /\ requestLoad' = [read |-> TRUE, list |-> wishes]
  /\ UNCHANGED <<otherThanRequests, wishes, wished, requests, requestsLost>>

RequestsShown ==
  /\ requestLoad # NoRequests /\ requestLoad.read
  /\ requests' = requestLoad.list /\ requestLoad' = NoRequests /\ requestsLost' = FALSE
  /\ UNCHANGED <<otherThanRequests, wishes, wished>>

RequestsLost ==
  /\ requestLoad # NoRequests /\ requestLoad' = NoRequests /\ requestsLost' = TRUE
  /\ UNCHANGED <<otherThanRequests, wishes, wished, requests>>

-----------------------------------------------------------------------------
(* Changes.                                                                *)

Row(a) == a \in administrators.accounts \ hidden

AskChange(kind, a, row) ==
  /\ changesAsked < MaxAdminChanges /\ changesAsked' = changesAsked + 1
  /\ adminCalls' = adminCalls \cup
       {[n |-> changesAsked + 1, kind |-> kind, account |-> a, row |-> row, step |-> "sent"]}
  /\ UNCHANGED <<changesMade, members, wishes, wished, administrators, accountLoad, usersError, hidden, requests,
                 requestLoad, told, decided, requestsLost>>

\* Status, password, role or second step; and deletion: confirmed in the row.
ChangeAccount(a, kind) ==
  /\ kind \in {"update", "delete"} /\ Row(a) /\ a \notin rowBusy
  /\ rowBusy' = rowBusy \cup {a}
  /\ AskChange(kind, a, TRUE) /\ UNCHANGED submitting

CreateAccount(a) ==
  /\ ~submitting /\ submitting' = TRUE
  /\ AskChange("create", a, FALSE) /\ UNCHANGED rowBusy

\* Nothing keeps a decision from being asked for twice.
Decide(a, kind) ==
  /\ kind \in {"approve", "reject"} /\ a \in requests
  /\ submitting' = TRUE
  /\ AskChange(kind, a, FALSE) /\ UNCHANGED rowBusy

Make(c) ==
  /\ c.step = "sent"
  /\ c.kind \in {"update", "delete"} => c.account \in members
  /\ c.kind \in {"approve", "reject"} => c.account \in wishes
  /\ changesMade' = changesMade \cup {c.n}
  /\ members' = IF c.kind \in {"delete", "approve"} THEN members \ {c.account} ELSE members
  /\ wishes' = IF c.kind \in {"delete", "approve", "reject"} THEN wishes \ {c.account} ELSE wishes
  /\ adminCalls' = (adminCalls \ {c}) \cup {[c EXCEPT !.step = "made"]}
  /\ UNCHANGED <<wished, administrators, accountLoad, usersError, hidden, rowBusy, submitting, requests,
                 requestLoad, changesAsked, told, decided, requestsLost>>

\* Mutant: the list that is under way is waited for.
ChangeMadeOnce(c) ==
  /\ c.step = "made"
  /\ told' = told \cup {c.n}
  /\ accountLoad' = IF accountLoad = NoAccounts THEN LoadBy(c.n) ELSE accountLoad
  /\ requests' = IF c.kind \in {"approve", "reject"} THEN requests \ {c.account} ELSE requests
  /\ decided' = IF c.kind \in {"approve", "reject"} THEN decided \cup {c.account} ELSE decided
  /\ adminCalls' = (adminCalls \ {c}) \cup {[c EXCEPT !.step = "reloading"]}
  /\ UNCHANGED <<changesMade, members, wishes, wished, administrators, usersError, hidden, rowBusy, submitting,
                 requestLoad, changesAsked, requestsLost>>

\* The page is told, and loads the list again; one under way is given up.
ChangeMade(c) ==
  /\ c.step = "made"
  /\ told' = told \cup {c.n}
  /\ accountLoad' = LoadBy(c.n)
  /\ requests' = IF c.kind \in {"approve", "reject"} THEN requests \ {c.account} ELSE requests
  /\ decided' = IF c.kind \in {"approve", "reject"} THEN decided \cup {c.account} ELSE decided
  /\ adminCalls' = (adminCalls \ {c}) \cup {[c EXCEPT !.step = "reloading"]}
  /\ UNCHANGED <<changesMade, members, wishes, wished, administrators, usersError, hidden, rowBusy, submitting,
                 requestLoad, changesAsked, requestsLost>>

\* The list is loaded for the change with this number, and not for a later one.
ReloadingFor(n) == IF accountLoad = NoAccounts THEN FALSE ELSE accountLoad.by = n

\* Refused, or not answered: the change may have been made. And the end of the reload,
\* whatever came of it: the row, or the form, is free again.
ChangeEnds(c) ==
  /\ c.step = "reloading" => ~ReloadingFor(c.n)
  /\ adminCalls' = adminCalls \ {c}
  /\ rowBusy' = IF c.row THEN rowBusy \ {c.account} ELSE rowBusy
  /\ submitting' = (submitting /\ c.kind \notin {"create", "approve", "reject"})
  /\ UNCHANGED <<changesMade, members, wishes, wished, administrators, accountLoad, usersError, hidden, requests,
                 requestLoad, changesAsked, told, decided, requestsLost>>

-----------------------------------------------------------------------------
AdminInit ==
  /\ changesMade = {} /\ members = Managed /\ wishes = {} /\ wished = {}
  /\ administrators = [changes |-> {}, accounts |-> {}] /\ accountLoad = LoadBy(0) /\ usersError = FALSE
  /\ hidden = {} /\ rowBusy = {} /\ submitting = FALSE
  /\ requests = {} /\ requestLoad = [read |-> FALSE, list |-> {}]
  /\ adminCalls = {} /\ changesAsked = 0 /\ told = {} /\ decided = {} /\ requestsLost = FALSE

AdminNext ==
  \/ ReadAccounts \/ AccountsShown \/ AccountsLost \/ (\E away \in SUBSET Managed : Filter(away))
  \/ ReadRequests \/ RequestsShown \/ RequestsLost
  \/ \E a \in Managed : \/ AskDeletion(a) \/ CreateAccount(a)
                        \/ \E kind \in {"update", "delete"} : ChangeAccount(a, kind)
                        \/ \E kind \in {"approve", "reject"} : Decide(a, kind)
  \/ \E c \in adminCalls : Make(c) \/ ChangeMade(c) \/ ChangeEnds(c)

AdminSpec == AdminInit /\ [][AdminNext]_adminVars

-----------------------------------------------------------------------------
(* Properties.                                                             *)

\* What the page was told is done it shows once it is at rest: the list includes each
\* such change, and no request it knows to be decided is offered again, unless a load
\* failed; and a row is disabled exactly while a change that row asked for is under way.
AccountsCurrent ==
  /\ accountLoad = NoAccounts /\ ~usersError =>
       /\ told \subseteq administrators.changes
       /\ requestLoad = NoRequests /\ ~requestsLost => requests \cap decided = {}
  /\ rowBusy = {c.account : c \in {c \in adminCalls : c.row}}
  /\ \A c, d \in adminCalls : c.row /\ d.row /\ c.account = d.account => c = d
=============================================================================
