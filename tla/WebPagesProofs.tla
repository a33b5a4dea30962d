--------------------------- MODULE WebPagesProofs ---------------------------
(* Theorems of the pages in the browser, for any accounts, cards, files, decks and  *)
(* tabs. Each page has an inductive invariant: what its requests in flight are      *)
(* about, what the page knows of them and what it shows.                           *)
EXTENDS WebAuth, CollectionPage, ImportPage, DeckPage, Preferences, TLAPS, SequenceTheorems

-----------------------------------------------------------------------------
(* Who is signed in.                                                       *)

\* A request in flight.
AuthCall == [kind : Refreshes \cup {"login", "code", "logout", "password"}, who : Accounts \cup {NoAccount},
             answer : [status : {"none", "authenticated", "unauthenticated"}, user : User]]

\* A password is given for an account; /auth/me answers with somebody, or says nobody is
\* signed in.
AnswerSound(c) ==
  /\ c.kind = "login" => c.who \in Accounts
  /\ c.answer # NoAnswer => /\ c.kind \in Refreshes /\ c.answer.status # "none"
                            /\ c.answer.status = "authenticated" <=> c.answer.user.who # NoAccount

ContextRight == (SignedIn <=> session # NoAccount) /\ context.user.who = session

\* A context that is not right is being asked for again.
AskedIfWrong ==
  amiss = {} /\ challenge = NoAccount /\ context.status # "unavailable" =>
    ContextRight \/ \E c \in asked : c.kind \in Refreshes

AuthInv ==
  /\ session \in Accounts \cup {NoAccount} /\ challenge \in Accounts \cup {NoAccount}
  /\ wants \in [Accounts -> SUBSET Demands]
  /\ context \in [status : {"loading", "authenticated", "unauthenticated", "unavailable"}, user : User]
  /\ at \in Routes /\ admitted \in BOOLEAN
  /\ asked \subseteq AuthCall
  /\ \A c \in asked : AnswerSound(c)
  /\ events \in 0 .. MaxEvents /\ amiss \subseteq {"ended", "lost", "overtaken"}
  /\ AskedIfWrong

\* A redirection leads to a route.
LEMMA RedirectIsRoute ==
  ASSUME NEW r \in Routes, NEW goal \in Destinations
  PROVE  Redirect(r, goal) \in Routes
<1>1. {"login", "workspace", "change", "account"} \subseteq Routes /\ goal \in Routes
  BY DEF Routes, Destinations
<1>2. QED
  BY <1>1 DEF Redirect

\* Nobody is a user too.
LEMMA NobodyIsAUser == NoUser \in User /\ NoUser.who = NoAccount /\ NoAnswer.user = NoUser
  BY DEF NoUser, User, NoAnswer, Demands

\* A request that was just made is sound.
LEMMA CallIsSound ==
  ASSUME NEW kind \in Refreshes \cup {"login", "code", "logout", "password"},
         NEW who \in Accounts \cup {NoAccount}, kind = "login" => who \in Accounts,
         NEW c, c = Call(kind, who)
  PROVE  c \in AuthCall /\ AnswerSound(c) /\ c.kind = kind
<1>1. NoAnswer \in [status : {"none", "authenticated", "unauthenticated"}, user : User]
  BY NobodyIsAUser DEF NoAnswer
<1>2. QED
  BY <1>1 DEF Call, AuthCall, AnswerSound

\* Going from route to route.
LEMMA RoutingKeeps ==
  ASSUME AuthInv, Navigate \/ Admit \/ \E r \in Routes : Visit(r)
  PROVE  AuthInv'
<1>1. /\ UNCHANGED <<session, challenge, wants, context, asked, events, amiss>>
      /\ at' \in Routes /\ admitted' \in BOOLEAN
  <2>1. at \in Routes
    BY DEF AuthInv
  <2>2. QED
    BY <2>1, RedirectIsRoute DEF Navigate, Admit, Visit
<1>2. QED
  BY <1>1 DEF AuthInv, AskedIfWrong, ContextRight, SignedIn, AnswerSound

\* Loading the application anew asks who is signed in, so nothing is taken to be known.
LEMMA ReloadKeeps ==
  ASSUME AuthInv, Reload
  PROVE  AuthInv'
<1>1. PICK c : c = Call("start", NoAccount)
  OBVIOUS
<1>2. c \in AuthCall /\ AnswerSound(c) /\ c.kind = "start"
  BY <1>1, CallIsSound DEF Refreshes
<1>3. /\ context' = [status |-> "loading", user |-> NoUser] /\ asked' = {c} /\ amiss' = {} /\ admitted' = FALSE
      /\ UNCHANGED <<session, challenge, wants, at, events>>
  BY <1>1 DEF Reload
<1>4. AskedIfWrong'
  BY <1>2, <1>3 DEF AskedIfWrong, Refreshes
<1>5. \A d \in asked' : AnswerSound(d)'
  BY <1>2, <1>3 DEF AnswerSound
<1>6. context' \in [status : {"loading", "authenticated", "unauthenticated", "unavailable"}, user : User]
  BY <1>3, NobodyIsAUser
<1>7. QED
  BY <1>2, <1>3, <1>4, <1>5, <1>6 DEF AuthInv

\* Whatever is asked, what was asked before is still to come.
LEMMA AskingKeeps ==
  ASSUME AuthInv, NEW kind \in Refreshes \cup {"login", "code", "logout", "password"},
         NEW who \in Accounts \cup {NoAccount}, kind = "login" => who \in Accounts,
         asked' = asked \cup {Call(kind, who)}, wants' \in [Accounts -> SUBSET Demands],
         UNCHANGED <<session, challenge, context, at, admitted, events, amiss>>
  PROVE  AuthInv'
<1>1. PICK c : c = Call(kind, who)
  OBVIOUS
<1>2. c \in AuthCall /\ AnswerSound(c)
  BY <1>1, CallIsSound
<1>3. asked' = asked \cup {c}
  BY <1>1
<1>4. \A d \in asked' : AnswerSound(d)'
  BY <1>2, <1>3 DEF AuthInv, AnswerSound
<1>5. AskedIfWrong'
  BY <1>3 DEF AuthInv, AskedIfWrong, ContextRight, SignedIn
<1>6. QED
  BY <1>2, <1>3, <1>4, <1>5 DEF AuthInv

\* Signing in and out, a code, a new password and enrolling are requests.
LEMMA RequestsKeep ==
  ASSUME AuthInv,
         (\E a \in Accounts : SignIn(a)) \/ EnterCode \/ SignOut \/ ChangePassword \/ Enroll
  PROVE  AuthInv'
<1>1. wants \in [Accounts -> SUBSET Demands]
  BY DEF AuthInv
<1>2. ASSUME NEW a \in Accounts, SignIn(a) PROVE AuthInv'
  BY <1>1, <1>2, AskingKeeps DEF SignIn, Ask
<1>3. CASE EnterCode
  BY <1>1, <1>3, AskingKeeps DEF EnterCode, Ask
<1>4. CASE SignOut
  BY <1>1, <1>4, AskingKeeps DEF SignOut, Ask
<1>5. CASE ChangePassword
  BY <1>1, <1>5, AskingKeeps DEF ChangePassword, Ask
<1>6. CASE Enroll
  <2>1. /\ wants' = [wants EXCEPT ![session] = @ \ {"mfa"}]
        /\ asked' = asked \cup {Call("again", NoAccount)}
        /\ UNCHANGED <<session, challenge, context, at, admitted, events, amiss>>
    BY <1>6 DEF Enroll
  <2>2. wants' \in [Accounts -> SUBSET Demands]
    BY <1>1, <2>1
  <2>3. "again" \in Refreshes
    BY DEF Refreshes
  <2>4. QED
    BY <2>1, <2>2, <2>3, AskingKeeps
<1>7. QED
  BY <1>2, <1>3, <1>4, <1>5, <1>6

\* Somebody is, or nobody is, as the server had it at that moment.
LEMMA SnapshotIsUser ==
  ASSUME AuthInv
  PROVE  Snapshot \in User /\ Snapshot.who = session
  BY DEF AuthInv, Snapshot, User

\* /auth/me is answered with the session of the moment.
LEMMA ReadMeKeeps ==
  ASSUME AuthInv, NEW c \in asked, ReadMe(c)
  PROVE  AuthInv'
<1>1. PICK s : s = IF session = NoAccount THEN "unauthenticated" ELSE "authenticated"
  OBVIOUS
<1>2. PICK u : u = Snapshot
  OBVIOUS
<1>3. u \in User /\ u.who = session
  BY <1>2, SnapshotIsUser
<1>4. PICK answer : answer = [status |-> s, user |-> u]
  OBVIOUS
<1>5. PICK d : d = [c EXCEPT !.answer = answer]
  OBVIOUS
<1>6. /\ asked' = (asked \ {c}) \cup {d} /\ c.kind \in Refreshes
      /\ UNCHANGED <<session, challenge, wants, context, at, admitted, events, amiss>>
  BY <1>1, <1>2, <1>4, <1>5 DEF ReadMe
<1>7. answer \in [status : {"none", "authenticated", "unauthenticated"}, user : User]
      /\ answer.status = s /\ answer.user = u
  BY <1>1, <1>3, <1>4
<1>8. c \in AuthCall
  BY DEF AuthInv
<1>9. d \in AuthCall /\ d.kind = c.kind /\ d.who = c.who /\ d.answer = answer
  BY <1>5, <1>7, <1>8 DEF AuthCall
<1>10. AnswerSound(d)
  <2>1. d.kind # "login" /\ d.kind \in Refreshes
    BY <1>6, <1>9 DEF Refreshes
  <2>2. d.answer.status = s /\ d.answer.user.who = session
    BY <1>3, <1>7, <1>9
  <2>3. s # "none" /\ (s = "authenticated" <=> session # NoAccount)
    BY <1>1
  <2>4. QED
    BY <2>1, <2>2, <2>3 DEF AnswerSound
<1>11. \A e \in asked' : AnswerSound(e)'
  BY <1>6, <1>10 DEF AuthInv, AnswerSound
<1>12. AskedIfWrong'
  BY <1>6, <1>9 DEF AuthInv, AskedIfWrong, ContextRight, SignedIn
<1>13. QED
  BY <1>6, <1>9, <1>11, <1>12 DEF AuthInv

\* The answer is applied: it is right, or known to be overtaken.
LEMMA RefreshKeeps ==
  ASSUME AuthInv, NEW c \in asked, Refresh(c)
  PROVE  AuthInv'
<1>1. PICK answer : answer = c.answer
  OBVIOUS
<1>2. /\ context' = answer /\ answer # NoAnswer /\ asked' = asked \ {c} /\ at' \in AfterRefresh(c)
      /\ amiss' = IF answer.user = Snapshot THEN {} ELSE amiss \cup {"overtaken"}
      /\ UNCHANGED <<session, challenge, wants, admitted, events>>
  BY <1>1 DEF Refresh
<1>3. c \in AuthCall /\ AnswerSound(c)
  BY DEF AuthInv
<1>4. answer \in [status : {"none", "authenticated", "unauthenticated"}, user : User]
      /\ answer.status # "none" /\ (answer.status = "authenticated" <=> answer.user.who # NoAccount)
  BY <1>1, <1>2, <1>3 DEF AuthCall, AnswerSound
<1>5. context' \in [status : {"loading", "authenticated", "unauthenticated", "unavailable"}, user : User]
  BY <1>2, <1>4
<1>6. at' \in Routes
  BY <1>2 DEF AuthInv, AfterRefresh, Destinations, Routes
<1>7. amiss' = {} => ContextRight'
  <2>1. SUFFICES ASSUME amiss' = {} PROVE ContextRight'
    OBVIOUS
  <2>2. answer.user = Snapshot
    BY <1>2, <2>1
  <2>3. answer.user.who = session
    BY <2>2, SnapshotIsUser
  <2>4. SignedIn' <=> answer.status = "authenticated"
    BY <1>2 DEF SignedIn
  <2>5. QED
    BY <1>2, <1>4, <2>3, <2>4 DEF ContextRight
<1>8. \A e \in asked' : AnswerSound(e)'
  BY <1>2 DEF AuthInv, AnswerSound
<1>9. amiss' \subseteq {"ended", "lost", "overtaken"}
  BY <1>2 DEF AuthInv
<1>10. AskedIfWrong'
  BY <1>7 DEF AskedIfWrong
<1>11. QED
  BY <1>2, <1>5, <1>6, <1>8, <1>9, <1>10 DEF AuthInv

\* An answer that fails leaves the context unavailable, which claims nothing.
LEMMA RefreshFailsKeeps ==
  ASSUME AuthInv, NEW c \in asked, RefreshFails(c)
  PROVE  AuthInv'
<1>1. /\ context' = [context EXCEPT !.status = "unavailable"] /\ asked' = asked \ {c} /\ at' \in AfterRefresh(c)
      /\ UNCHANGED <<session, challenge, wants, admitted, events, amiss>>
  BY DEF RefreshFails
<1>2. context' \in [status : {"loading", "authenticated", "unauthenticated", "unavailable"}, user : User]
      /\ context'.status = "unavailable"
  BY <1>1 DEF AuthInv
<1>3. at' \in Routes
  BY <1>1 DEF AuthInv, AfterRefresh, Destinations, Routes
<1>4. \A e \in asked' : AnswerSound(e)'
  BY <1>1 DEF AuthInv, AnswerSound
<1>5. AskedIfWrong'
  BY <1>2 DEF AskedIfWrong
<1>6. QED
  BY <1>1, <1>2, <1>3, <1>4, <1>5 DEF AuthInv

\* The password was enough: the context has who the session is of.
LEMMA LoggedInKeeps ==
  ASSUME AuthInv, NEW c \in asked, LoggedIn(c)
  PROVE  AuthInv'
<1>1. PICK u : u = [who |-> c.who, wants |-> wants[c.who]]
  OBVIOUS
<1>2. /\ session' = c.who /\ context' = [status |-> "authenticated", user |-> u]
      /\ at' \in Destinations /\ amiss' = {} /\ asked' = asked \ {c}
      /\ UNCHANGED <<challenge, wants, admitted, events>>
  BY <1>1 DEF LoggedIn
<1>3. c.who \in Accounts /\ wants \in [Accounts -> SUBSET Demands]
  BY DEF AuthInv, AnswerSound, LoggedIn
<1>4. u \in User /\ u.who = c.who
  BY <1>1, <1>3 DEF User
<1>5. context' \in [status : {"loading", "authenticated", "unauthenticated", "unavailable"}, user : User]
      /\ context'.status = "authenticated" /\ context'.user.who = c.who
  BY <1>2, <1>4
<1>6. c.who # NoAccount
  BY <1>3, AuthAssumption
<1>7. ContextRight'
  BY <1>2, <1>5, <1>6 DEF ContextRight, SignedIn
<1>8. at' \in Routes
  BY <1>2 DEF Destinations, Routes
<1>9. \A e \in asked' : AnswerSound(e)'
  BY <1>2 DEF AuthInv, AnswerSound
<1>10. QED
  BY <1>2, <1>3, <1>5, <1>7, <1>8, <1>9 DEF AuthInv, AskedIfWrong

\* A second step is owed: the context is the code's business.
LEMMA ChallengedKeeps ==
  ASSUME AuthInv, NEW c \in asked, Challenged(c)
  PROVE  AuthInv'
<1>1. /\ session' = NoAccount /\ challenge' = c.who /\ at' = "challenge" /\ asked' = asked \ {c}
      /\ UNCHANGED <<wants, context, admitted, events, amiss>>
  BY DEF Challenged
<1>2. c.who \in Accounts
  BY DEF AuthInv, AnswerSound, Challenged
<1>3. challenge' # NoAccount
  BY <1>1, <1>2, AuthAssumption
<1>4. \A e \in asked' : AnswerSound(e)'
  BY <1>1 DEF AuthInv, AnswerSound
<1>5. AskedIfWrong'
  BY <1>3 DEF AskedIfWrong
<1>6. QED
  BY <1>1, <1>2, <1>4, <1>5 DEF AuthInv, Routes

\* The code changes the session, and the page asks who is signed in.
LEMMA CodeAcceptedKeeps ==
  ASSUME AuthInv, NEW c \in asked, CodeAccepted(c)
  PROVE  AuthInv'
<1>1. PICK d : d = Call("again", NoAccount)
  OBVIOUS
<1>2. d \in AuthCall /\ AnswerSound(d) /\ d.kind = "again" /\ "again" \in Refreshes
  BY <1>1, CallIsSound DEF Refreshes
<1>3. /\ session' = challenge /\ challenge' = NoAccount /\ asked' = (asked \ {c}) \cup {d}
      /\ UNCHANGED <<wants, context, at, admitted, events, amiss>>
  BY <1>1 DEF CodeAccepted
<1>4. AskedIfWrong'
  BY <1>2, <1>3 DEF AskedIfWrong
<1>5. \A e \in asked' : AnswerSound(e)'
  BY <1>2, <1>3 DEF AuthInv, AnswerSound
<1>6. QED
  BY <1>2, <1>3, <1>4, <1>5 DEF AuthInv

\* Signing out, or changing the password, leaves nobody signed in on both sides.
LEMMA SignedOutKeeps ==
  ASSUME AuthInv, NEW c \in asked, LoggedOut(c) \/ PasswordChanged(c)
  PROVE  AuthInv'
<1>1. /\ session' = NoAccount /\ context' = [status |-> "unauthenticated", user |-> NoUser]
      /\ at' \in {"home", "login"} /\ admitted' = FALSE /\ amiss' = {} /\ asked' = asked \ {c}
      /\ UNCHANGED <<challenge, events>>
  BY DEF LoggedOut, PasswordChanged, SignedOutAs
<1>2. wants' \in [Accounts -> SUBSET Demands]
  BY DEF AuthInv, LoggedOut, PasswordChanged
<1>3. context' \in [status : {"loading", "authenticated", "unauthenticated", "unavailable"}, user : User]
      /\ context'.status = "unauthenticated" /\ context'.user.who = NoAccount
  BY <1>1, NobodyIsAUser
<1>4. ContextRight'
  BY <1>1, <1>3 DEF ContextRight, SignedIn
<1>5. \A e \in asked' : AnswerSound(e)'
  BY <1>1 DEF AuthInv, AnswerSound
<1>6. QED
  BY <1>1, <1>2, <1>3, <1>4, <1>5 DEF AuthInv, AskedIfWrong, Routes

\* What was not heard of, and what happened elsewhere.
LEMMA NotHeardKeeps ==
  ASSUME AuthInv,
         \/ \E c \in asked : AnswerLost(c)
         \/ \E a \in Accounts \cup {NoAccount} : EndedElsewhere(a)
  PROVE  AuthInv'
<1>1. /\ session' \in Accounts \cup {NoAccount} /\ wants' \in [Accounts -> SUBSET Demands]
      /\ UNCHANGED <<challenge, context, at, admitted>> /\ asked' \subseteq asked
      /\ events < MaxEvents /\ events' = events + 1
      /\ amiss' # {} /\ amiss' \subseteq {"ended", "lost", "overtaken"}
  <2>1. CASE \E c \in asked : AnswerLost(c)
    BY <2>1 DEF AuthInv, AnswerLost
  <2>2. CASE \E a \in Accounts \cup {NoAccount} : EndedElsewhere(a)
    BY <2>2 DEF AuthInv, EndedElsewhere
  <2>3. QED
    BY <2>1, <2>2
<1>2. events' \in 0 .. MaxEvents
  BY <1>1, AuthAssumption DEF AuthInv
<1>3. \A e \in asked' : AnswerSound(e)'
  BY <1>1 DEF AuthInv, AnswerSound
<1>4. QED
  BY <1>1, <1>2, <1>3 DEF AuthInv, AskedIfWrong

\* A refusal changes neither the session nor what is being asked of it.
LEMMA RefusedKeeps ==
  ASSUME AuthInv, NEW c \in asked, Refused(c)
  PROVE  AuthInv'
<1>1. /\ asked' = asked \ {c} /\ c.kind \notin Refreshes
      /\ UNCHANGED <<session, challenge, wants, context, at, admitted, events, amiss>>
  BY DEF Refused
<1>2. AskedIfWrong'
  BY <1>1 DEF AuthInv, AskedIfWrong, ContextRight, SignedIn
<1>3. \A e \in asked' : AnswerSound(e)'
  BY <1>1 DEF AuthInv, AnswerSound
<1>4. QED
  BY <1>1, <1>2, <1>3 DEF AuthInv

\* Every step of the application keeps the invariant.
LEMMA AuthInvInductive ==
  ASSUME AuthInv, [AuthNext]_authVars
  PROVE  AuthInv'
<1>1. CASE UNCHANGED authVars
  BY <1>1 DEF AuthInv, authVars, AskedIfWrong, ContextRight, SignedIn, AnswerSound
<1>2. CASE AuthNext
  BY <1>2, RoutingKeeps, ReloadKeeps, RequestsKeep, ReadMeKeeps, RefreshKeeps, RefreshFailsKeeps, LoggedInKeeps,
     ChallengedKeeps, CodeAcceptedKeeps, SignedOutKeeps, NotHeardKeeps, RefusedKeeps DEF AuthNext, Answered
<1>3. QED
  BY <1>1, <1>2

\* Once nothing is in flight the application shows the account its cookie signs in,
\* whichever answers passed one another; the exceptions are those ShownIsSignedIn names.
THEOREM ShownAccountIsSignedIn == AuthSpec => [](AuthTypeOK /\ ShownIsSignedIn)
<1>1. AuthInit => AuthInv
  <2> SUFFICES ASSUME AuthInit PROVE AuthInv
    OBVIOUS
  <2>1. PICK c : c = Call("start", NoAccount)
    OBVIOUS
  <2>2. c \in AuthCall /\ AnswerSound(c) /\ c.kind = "start" /\ asked = {c}
    BY <2>1, CallIsSound DEF Refreshes, AuthInit
  <2>3. context \in [status : {"loading", "authenticated", "unauthenticated", "unavailable"}, user : User]
    BY NobodyIsAUser DEF AuthInit
  <2>4. AskedIfWrong
    BY <2>2 DEF AskedIfWrong, Refreshes
  <2>5. 0 \in 0 .. MaxEvents
    BY AuthAssumption
  <2>6. QED
    BY <2>2, <2>3, <2>4, <2>5 DEF AuthInit, AuthInv, Routes
<1>2. AuthInv => AuthTypeOK
  BY DEF AuthInv, AuthTypeOK, AuthCall
<1>3. AuthInv => ShownIsSignedIn
  BY DEF AuthInv, AskedIfWrong, ShownIsSignedIn, ContextRight
<1>4. QED
  BY <1>1, <1>2, <1>3, AuthInvInductive, PTL DEF AuthSpec

-----------------------------------------------------------------------------
(* The collection page.                                                    *)

\* A change of one card, in flight.
CardChange == [id : Items, rev : 1 .. MaxRevision, kind : {"update", "remove"}, answer : Answers]
QuickDeck == [made : BOOLEAN, todo : SUBSET Items, failed : SUBSET Items]

\* A card that has been at a revision is there or later, or gone; at none before.
NotAhead(id, rev) == revision[id] = 0 \/ rev <= revision[id]
Overtaken(id, rev) == revision[id] = 0 \/ rev < revision[id]

\* No list, selection or request has a revision that the card is yet to reach, and what
\* was refused is past for good.
NothingAhead ==
  /\ \A i \in Items : NotAhead(i, collection[i]) /\ NotAhead(i, selected[i])
  /\ load # NoLoad => \A i \in Items : NotAhead(i, load.rows[i])
  /\ \A r \in removals : NotAhead(r.id, r.rev) /\ (r.answer = "stale" => Overtaken(r.id, r.rev))
  /\ \A p \in rejected : Overtaken(p[1], p[2])

\* The list awaited has nothing that was refused, and what the list shown has of it is
\* among the cards known to be stale.
RefusalsKnown ==
  /\ load # NoLoad => \A i \in Items : <<i, load.rows[i]>> \notin rejected
  /\ \A i \in Items : /\ <<i, collection[i]>> \in rejected => i \in staleSelectedIds
                      /\ <<i, selected[i]>> \in rejected => i \in staleSelectedIds
                      /\ collection[i] # 0 /\ selected[i] # 0 => selected[i] = collection[i]

ListInv ==
  /\ {revision, collection, selected} \subseteq Rows
  /\ load # NoLoad => load \in [read : BOOLEAN, rows : Rows]
  /\ {loadDue, selectionMode, quickDeckOpen} \subseteq BOOLEAN
  /\ staleSelectedIds \subseteq Items
  /\ removals \subseteq Removal
  /\ quickDeck # NoDeck => quickDeck \in QuickDeck
  /\ changes \subseteq CardChange
  /\ {busyId, expandedId, editId} \subseteq Items \cup {NoItem}
  /\ rejected \cup refusedSingly \subseteq Items \X (1 .. MaxRevision)
  /\ NothingAhead
  /\ RefusalsKnown

\* A card moves on, or is gone: what was past is past, and what was not ahead is not.
LEMMA RevisionMovesOn ==
  ASSUME revision \in Rows, revision' \in Rows, NEW i \in Items, NEW rev \in 0 .. MaxRevision,
         revision'[i] = 0 \/ (revision[i] # 0 /\ revision[i] <= revision'[i])
  PROVE  /\ NotAhead(i, rev) => NotAhead(i, rev)'
         /\ Overtaken(i, rev) => Overtaken(i, rev)'
<1>1. revision[i] \in Nat /\ revision'[i] \in Nat /\ rev \in Nat
  BY ListAssumption DEF Rows
<1>2. QED
  BY <1>1 DEF NotAhead, Overtaken

\* The server changes a card, for a request or for somebody else.
LEMMA ServedListKeeps ==
  ASSUME ListInv, revision' \in Rows,
         \A i \in Items : revision'[i] = 0 \/ (revision[i] # 0 /\ revision[i] <= revision'[i]),
         removals' \subseteq Removal, changes' \subseteq CardChange,
         \A r \in removals' : NotAhead(r.id, r.rev)' /\ (r.answer = "stale" => Overtaken(r.id, r.rev)'),
         UNCHANGED <<collection, load, loadDue, selectionMode, selected, staleSelectedIds, quickDeck, quickDeckOpen,
                     busyId, expandedId, editId, rejected, refusedSingly>>
  PROVE  ListInv'
<1>1. \A i \in Items : \A rev \in 0 .. MaxRevision :
        (NotAhead(i, rev) => NotAhead(i, rev)') /\ (Overtaken(i, rev) => Overtaken(i, rev)')
  BY RevisionMovesOn DEF ListInv
<1>2. /\ \A i \in Items : collection[i] \in 0 .. MaxRevision /\ selected[i] \in 0 .. MaxRevision
      /\ load # NoLoad => \A i \in Items : load.rows[i] \in 0 .. MaxRevision
  BY DEF ListInv, Rows
<1>3. \A p \in rejected : p[1] \in Items /\ p[2] \in 0 .. MaxRevision
  BY ListAssumption DEF ListInv
<1>4. NothingAhead /\ RefusalsKnown
  BY DEF ListInv
<1>5. \A i \in Items : NotAhead(i, collection[i])' /\ NotAhead(i, selected[i])'
  BY <1>1, <1>2, <1>4 DEF NothingAhead, NotAhead
<1>6. load # NoLoad => \A i \in Items : NotAhead(i, load.rows[i])'
  BY <1>1, <1>2, <1>4 DEF NothingAhead, NotAhead
<1>7. \A p \in rejected : Overtaken(p[1], p[2])'
  BY <1>1, <1>3, <1>4 DEF NothingAhead
<1>8. NothingAhead'
  BY <1>5, <1>6, <1>7 DEF NothingAhead, NotAhead, Overtaken
<1>9. RefusalsKnown'
  BY <1>4 DEF RefusalsKnown
<1>10. QED
  BY <1>8, <1>9 DEF ListInv

\* Somebody else changes or removes a card.
LEMMA OthersChangeKeeps ==
  ASSUME ListInv, NEW id \in Items, NEW rev \in 0 .. MaxRevision, OthersChange(id, rev)
  PROVE  ListInv'
<1>1. /\ revision[id] # 0 /\ (rev = 0 \/ rev = revision[id] + 1)
      /\ revision' = [revision EXCEPT ![id] = rev]
      /\ UNCHANGED <<collection, load, loadDue, selectionMode, selected, staleSelectedIds, removals, quickDeck,
                     quickDeckOpen, changes, busyId, expandedId, editId, rejected, refusedSingly>>
  BY DEF OthersChange
<1>2. revision \in [Items -> 0 .. MaxRevision]
  BY DEF ListInv, Rows
<1>3. /\ revision' \in Rows
      /\ \A i \in Items : revision'[i] = 0 \/ (revision[i] # 0 /\ revision[i] <= revision'[i])
  <2>1. \A i \in Items : revision[i] \in Nat
    BY <1>2, ListAssumption
  <2>2. revision' \in Rows
    BY <1>1, <1>2 DEF Rows
  <2>3. \A i \in Items : i # id => revision'[i] = revision[i]
    BY <1>1, <1>2
  <2>4. revision'[id] = rev
    BY <1>1, <1>2
  <2>5. QED
    BY <1>1, <2>1, <2>2, <2>3, <2>4
<1>4. \A r \in removals' : NotAhead(r.id, r.rev)' /\ (r.answer = "stale" => Overtaken(r.id, r.rev)')
  <2>1. ASSUME NEW r \in removals
        PROVE NotAhead(r.id, r.rev)' /\ (r.answer = "stale" => Overtaken(r.id, r.rev)')
    <3>1. r.id \in Items /\ r.rev \in 0 .. MaxRevision
      BY ListAssumption DEF ListInv, Removal
    <3>2. NotAhead(r.id, r.rev) /\ (r.answer = "stale" => Overtaken(r.id, r.rev))
      BY DEF ListInv, NothingAhead
    <3>3. QED
      BY <1>2, <1>3, <3>1, <3>2, RevisionMovesOn DEF Rows
  <2>2. QED
    BY <1>1, <2>1
<1>5. removals' \subseteq Removal /\ changes' \subseteq CardChange
  BY <1>1 DEF ListInv
<1>6. QED
  BY <1>1, <1>3, <1>4, <1>5, ServedListKeeps

\* A removal is refused as stale only where the card has moved on since it was selected.
LEMMA ServeRemovalKeeps ==
  ASSUME ListInv, NEW r \in removals, ServeRemoval(r)
  PROVE  ListInv'
<1>1. PICK o : o = Outcome(r.id, r.rev)
  OBVIOUS
<1>2. PICK s : s = [r EXCEPT !.answer = o]
  OBVIOUS
<1>3. /\ removals' = (removals \ {r}) \cup {s}
      /\ revision' = IF o = "done" THEN [revision EXCEPT ![r.id] = 0] ELSE revision
      /\ UNCHANGED <<collection, load, loadDue, selectionMode, selected, staleSelectedIds, quickDeck, quickDeckOpen,
                     changes, busyId, expandedId, editId, rejected, refusedSingly>>
  BY <1>1, <1>2 DEF ServeRemoval
<1>4. r \in Removal /\ removals \subseteq Removal /\ changes \subseteq CardChange
      /\ revision \in [Items -> 0 .. MaxRevision]
  BY DEF ListInv, Rows
<1>5. o \in Answers /\ (o = "stale" => revision[r.id] # r.rev /\ revision[r.id] # 0)
      /\ (o = "done" => revision[r.id] = r.rev)
  BY <1>1 DEF Outcome, Answers
<1>6. s \in Removal /\ s.id = r.id /\ s.rev = r.rev /\ s.answer = o
  BY <1>2, <1>4, <1>5 DEF Removal
<1>7. r.id \in Items /\ r.rev \in 1 .. MaxRevision /\ r.rev # 0 /\ 0 \in 0 .. MaxRevision
  BY <1>4, ListAssumption DEF Removal
<1>8. /\ revision' \in Rows
      /\ \A i \in Items : revision'[i] = 0 \/ (revision[i] # 0 /\ revision[i] <= revision'[i])
  <2>1. \A i \in Items : revision[i] \in Nat
    BY <1>4, ListAssumption
  <2>2. CASE o = "done"
    <3>1. revision' = [revision EXCEPT ![r.id] = 0]
      BY <1>3, <2>2
    <3>2. revision' \in Rows
      BY <1>4, <1>7, <3>1 DEF Rows
    <3>3. QED
      BY <1>4, <1>7, <2>1, <3>1, <3>2
  <2>3. CASE o # "done"
    BY <1>3, <1>4, <2>1, <2>3 DEF Rows
  <2>4. QED
    BY <2>2, <2>3
<1>9. \A k \in Removal :
        /\ NotAhead(k.id, k.rev) => NotAhead(k.id, k.rev)'
        /\ Overtaken(k.id, k.rev) => Overtaken(k.id, k.rev)'
  <2>1. ASSUME NEW k \in Removal
        PROVE  /\ NotAhead(k.id, k.rev) => NotAhead(k.id, k.rev)'
               /\ Overtaken(k.id, k.rev) => Overtaken(k.id, k.rev)'
    <3>1. k.id \in Items /\ k.rev \in 0 .. MaxRevision
      BY ListAssumption DEF Removal
    <3>2. QED
      BY <1>4, <1>8, <3>1, RevisionMovesOn DEF Rows
  <2>2. QED
    BY <2>1
<1>10. \A k \in removals : NotAhead(k.id, k.rev) /\ (k.answer = "stale" => Overtaken(k.id, k.rev))
  BY DEF ListInv, NothingAhead
<1>11. \A k \in removals : NotAhead(k.id, k.rev)' /\ (k.answer = "stale" => Overtaken(k.id, k.rev)')
  BY <1>4, <1>9, <1>10
<1>12. NotAhead(s.id, s.rev)' /\ (s.answer = "stale" => Overtaken(s.id, s.rev)')
  <2>1. NotAhead(r.id, r.rev)' /\ NotAhead(r.id, r.rev)
    BY <1>10, <1>11
  <2>2. o = "stale" => Overtaken(r.id, r.rev)
    <3>1. revision[r.id] \in Nat /\ r.rev \in Nat
      BY <1>4, <1>7, ListAssumption
    <3>2. QED
      BY <1>5, <2>1, <3>1 DEF NotAhead, Overtaken
  <2>3. o = "stale" => Overtaken(r.id, r.rev)'
    BY <1>4, <1>9, <2>2
  <2>4. QED
    BY <1>6, <2>1, <2>3
<1>13. \A k \in removals' : NotAhead(k.id, k.rev)' /\ (k.answer = "stale" => Overtaken(k.id, k.rev)')
  BY <1>3, <1>11, <1>12
<1>14. removals' \subseteq Removal /\ changes' \subseteq CardChange
  BY <1>3, <1>4, <1>6
<1>15. QED
  BY <1>3, <1>8, <1>13, <1>14, ServedListKeeps

\* A change of one card is served.
LEMMA ServeChangeKeeps ==
  ASSUME ListInv, NEW c \in changes, ServeChange(c)
  PROVE  ListInv'
<1>1. PICK o : o = Outcome(c.id, c.rev)
  OBVIOUS
<1>2. PICK s : s = [c EXCEPT !.answer = o]
  OBVIOUS
<1>3. /\ changes' = (changes \ {c}) \cup {s}
      /\ revision' = IF o # "done" THEN revision
                     ELSE [revision EXCEPT ![c.id] = IF c.kind = "update" THEN @ + 1 ELSE 0]
      /\ c.kind = "update" => revision[c.id] < MaxRevision
      /\ UNCHANGED <<collection, load, loadDue, selectionMode, selected, staleSelectedIds, removals, quickDeck,
                     quickDeckOpen, busyId, expandedId, editId, rejected, refusedSingly>>
  BY <1>1, <1>2 DEF ServeChange
<1>4. c \in CardChange /\ removals \subseteq Removal /\ changes \subseteq CardChange
      /\ revision \in [Items -> 0 .. MaxRevision]
  BY DEF ListInv, Rows
<1>5. o \in Answers /\ (o = "done" => revision[c.id] = c.rev)
  BY <1>1 DEF Outcome, Answers
<1>6. s \in CardChange
  BY <1>2, <1>4, <1>5 DEF CardChange
<1>7. c.id \in Items /\ 0 \in 0 .. MaxRevision /\ c.rev # 0
  BY <1>4, ListAssumption DEF CardChange
<1>8. /\ revision' \in Rows
      /\ \A i \in Items : revision'[i] = 0 \/ (revision[i] # 0 /\ revision[i] <= revision'[i])
  <2>1. \A i \in Items : revision[i] \in Nat
    BY <1>4, ListAssumption
  <2>2. CASE o = "done" /\ c.kind = "update"
    <3>1. revision' = [revision EXCEPT ![c.id] = @ + 1]
      BY <1>3, <2>2
    <3>2. revision[c.id] + 1 \in 0 .. MaxRevision
      BY <1>3, <1>7, <2>1, <2>2, ListAssumption
    <3>3. revision' \in Rows
      BY <1>4, <1>7, <3>1, <3>2 DEF Rows
    <3>4. revision[c.id] # 0
      BY <1>4, <1>5, <1>7, <2>2
    <3>5. QED
      BY <1>4, <1>7, <2>1, <3>1, <3>3, <3>4
  <2>3. CASE o = "done" /\ c.kind # "update"
    <3>1. revision' = [revision EXCEPT ![c.id] = 0]
      BY <1>3, <2>3
    <3>2. revision' \in Rows
      BY <1>4, <1>7, <3>1 DEF Rows
    <3>3. QED
      BY <1>4, <1>7, <2>1, <3>1, <3>2
  <2>4. CASE o # "done"
    BY <1>3, <1>4, <2>1, <2>4 DEF Rows
  <2>5. QED
    BY <2>2, <2>3, <2>4
<1>9. \A k \in removals : NotAhead(k.id, k.rev)' /\ (k.answer = "stale" => Overtaken(k.id, k.rev)')
  <2>1. ASSUME NEW k \in removals
        PROVE  NotAhead(k.id, k.rev)' /\ (k.answer = "stale" => Overtaken(k.id, k.rev)')
    <3>1. k.id \in Items /\ k.rev \in 0 .. MaxRevision
      BY <1>4, ListAssumption DEF Removal
    <3>2. NotAhead(k.id, k.rev) /\ (k.answer = "stale" => Overtaken(k.id, k.rev))
      BY DEF ListInv, NothingAhead
    <3>3. QED
      BY <1>4, <1>8, <3>1, <3>2, RevisionMovesOn DEF Rows
  <2>2. QED
    BY <2>1
<1>10. removals' = removals /\ changes' \subseteq CardChange
  BY <1>3, <1>4, <1>6
<1>11. \A k \in removals' : NotAhead(k.id, k.rev)' /\ (k.answer = "stale" => Overtaken(k.id, k.rev)')
  BY <1>9, <1>10
<1>12. QED
  BY <1>3, <1>4, <1>8, <1>10, <1>11, ServedListKeeps

\* A list is read at the revisions of the moment, none of which was refused.
LEMMA ReadingListKeeps ==
  ASSUME ListInv,
         \/ LookElsewhere \/ StartLoad \/ ListLost
         \/ \E on \in SUBSET Items : ReadList(on)
  PROVE  ListInv'
<1>1. UNCHANGED <<revision, collection, selectionMode, selected, staleSelectedIds, removals, quickDeck,
                  quickDeckOpen, changes, busyId, expandedId, editId, rejected, refusedSingly>>
  BY DEF LookElsewhere, StartLoad, ListLost, ReadList, otherThanList
<1>2. loadDue' \in BOOLEAN
  BY DEF LookElsewhere, StartLoad, ListLost, ReadList, ListInv
<1>3. revision \in [Items -> 0 .. MaxRevision] /\ rejected \subseteq Items \X (1 .. MaxRevision)
      /\ NothingAhead /\ RefusalsKnown
  BY DEF ListInv, Rows
<1>4. load' # NoLoad =>
        /\ load' \in [read : BOOLEAN, rows : Rows]
        /\ \A i \in Items : NotAhead(i, load'.rows[i]) /\ <<i, load'.rows[i]>> \notin rejected
  <2>1. CASE UNCHANGED load
    BY <1>3, <2>1 DEF ListInv, NothingAhead, RefusalsKnown
  <2>2. CASE load' = NoLoad
    BY <2>2
  <2>3. CASE load' = [read |-> FALSE, rows |-> Nowhere]
    <3>1. Nowhere \in Rows /\ 0 \in 0 .. MaxRevision
      BY ListAssumption DEF Nowhere, Rows
    <3>2. \A i \in Items : load'.rows[i] = 0
      BY <2>3 DEF Nowhere
    <3>3. \A i \in Items : revision[i] \in Nat
      BY <1>3, ListAssumption
    <3>4. \A i \in Items : <<i, 0>> \notin rejected
      BY <1>3
    <3>5. \A i \in Items : NotAhead(i, 0)
      BY <3>3 DEF NotAhead
    <3>6. QED
      BY <2>3, <3>1, <3>2, <3>4, <3>5
  <2>4. ASSUME NEW on \in SUBSET Items, ReadList(on)
        PROVE  /\ load' \in [read : BOOLEAN, rows : Rows]
               /\ \A i \in Items : NotAhead(i, load'.rows[i]) /\ <<i, load'.rows[i]>> \notin rejected
    <3>1. PICK rows : rows = [i \in Items |-> IF i \in on THEN revision[i] ELSE 0]
      OBVIOUS
    <3>2. load' = [read |-> TRUE, rows |-> rows]
      BY <2>4, <3>1 DEF ReadList
    <3>3. rows \in Rows /\ \A i \in Items : rows[i] = revision[i] \/ rows[i] = 0
      BY <1>3, <3>1, ListAssumption DEF Rows
    <3>4. \A i \in Items : NotAhead(i, rows[i])
      BY <1>3, <3>3, ListAssumption DEF NotAhead
    <3>5. \A i \in Items : <<i, rows[i]>> \notin rejected
      <4>1. SUFFICES ASSUME NEW i \in Items, <<i, rows[i]>> \in rejected PROVE FALSE
        OBVIOUS
      <4>2. rows[i] # 0 /\ rows[i] \in Nat
        BY <1>3, <4>1, ListAssumption
      <4>3. rows[i] = revision[i]
        BY <3>3, <4>2
      <4>4. PICK p \in rejected : p = <<i, rows[i]>>
        BY <4>1
      <4>5. Overtaken(p[1], p[2]) /\ p[1] = i /\ p[2] = rows[i]
        BY <1>3, <4>4 DEF NothingAhead
      <4>6. revision[i] = 0 \/ rows[i] < revision[i]
        BY <4>5 DEF Overtaken
      <4>7. QED
        BY <4>2, <4>3, <4>6
    <3>6. QED
      BY <3>2, <3>3, <3>4, <3>5
  <2>5. QED
    BY <2>1, <2>2, <2>3, <2>4 DEF LookElsewhere, StartLoad, ListLost
<1>5. NothingAhead'
  BY <1>1, <1>3, <1>4 DEF NothingAhead, NotAhead, Overtaken
<1>6. RefusalsKnown'
  BY <1>1, <1>3, <1>4 DEF RefusalsKnown
<1>7. QED
  BY <1>1, <1>2, <1>4, <1>5, <1>6 DEF ListInv

\* The list shown replaces what was selected, and clears only what it shows anew.
LEMMA ListShownKeeps ==
  ASSUME ListInv, NEW beyond \in BOOLEAN, ListShown(beyond)
  PROVE  ListInv'
<1>1. PICK rows : rows = load.rows
  OBVIOUS
<1>2. /\ load # NoLoad /\ collection' = rows
      /\ selected' = [i \in Items |-> IF selected[i] # 0 /\ rows[i] # 0 THEN rows[i] ELSE selected[i]]
      /\ staleSelectedIds' = staleSelectedIds \ Named(rows)
      /\ load' = NoLoad /\ loadDue' = (loadDue \/ beyond)
      /\ UNCHANGED <<revision, selectionMode, removals, quickDeck, quickDeckOpen, changes, busyId, expandedId,
                     editId, refusedSingly>>
  BY <1>1 DEF ListShown, otherThanList
<1>3. /\ rows \in Rows /\ selected \in Rows /\ revision \in Rows /\ staleSelectedIds \subseteq Items
      /\ rejected \cup refusedSingly \subseteq Items \X (1 .. MaxRevision)
      /\ NothingAhead /\ RefusalsKnown
  BY <1>1, <1>2 DEF ListInv
<1>4. selected' \in Rows
  BY <1>2, <1>3 DEF Rows
<1>5. \A i \in Items : selected'[i] = IF selected[i] # 0 /\ rows[i] # 0 THEN rows[i] ELSE selected[i]
  BY <1>2
<1>6. \A i \in Items : NotAhead(i, rows[i]) /\ <<i, rows[i]>> \notin rejected /\ NotAhead(i, selected[i])
  BY <1>1, <1>2, <1>3 DEF NothingAhead, RefusalsKnown
<1>7. /\ rejected' \subseteq Items \X (1 .. MaxRevision)
       /\ \A refused \in rejected' : refused \in rejected \/ rows[refused[1]] > refused[2]
  <2>1. rejected' = rejected \cup {refused \in refusedSingly : rows[refused[1]] > refused[2]}
    BY <1>1 DEF ListShown
  <2>2. QED
    BY <1>3, <2>1
<1>8. \A refused \in rejected' : Overtaken(refused[1], refused[2])
  <2>1. SUFFICES ASSUME NEW refused \in rejected' PROVE Overtaken(refused[1], refused[2])
    OBVIOUS
  <2>2. CASE refused \in rejected
    BY <1>3, <2>2 DEF NothingAhead
  <2>3. CASE rows[refused[1]] > refused[2]
    <3>1. PICK i, rev : i = refused[1] /\ rev = refused[2]
      OBVIOUS
    <3>2. i \in Items /\ rev \in Nat
      BY <1>7, <3>1, ListAssumption
    <3>3. rows[i] \in Nat /\ revision[i] \in Nat /\ rows[i] > rev
      BY <1>3, <2>3, <3>1, <3>2, ListAssumption DEF Rows
    <3>4. revision[i] = 0 \/ rows[i] <= revision[i]
      BY <1>6, <3>2 DEF NotAhead
    <3>5. revision[i] = 0 \/ rev < revision[i]
      BY <3>2, <3>3, <3>4
    <3>6. QED
      BY <3>1, <3>5 DEF Overtaken
  <2>4. QED
    BY <1>7, <2>2, <2>3
<1>9. NothingAhead'
  BY <1>2, <1>3, <1>5, <1>6, <1>8 DEF NothingAhead, NotAhead, Overtaken
<1>10. \A i \in Items : \A rev : <<i, rev>> \in rejected' /\ <<i, rev>> \notin rejected =>
                          rows[i] > rev /\ rev \in Nat /\ rows[i] \in Nat /\ rows[i] # 0
  <2>1. SUFFICES ASSUME NEW i \in Items, NEW rev, <<i, rev>> \in rejected', <<i, rev>> \notin rejected
                 PROVE  rows[i] > rev /\ rev \in Nat /\ rows[i] \in Nat /\ rows[i] # 0
    OBVIOUS
  <2>2. rev \in 1 .. MaxRevision /\ rows[i] > rev
    BY <1>7, <2>1
  <2>3. rows[i] \in Nat
    BY <1>3, ListAssumption DEF Rows
  <2>4. QED
    BY <2>2, <2>3, ListAssumption
<1>11. \A i \in Items : <<i, rows[i]>> \notin rejected'
  <2>1. SUFFICES ASSUME NEW i \in Items, <<i, rows[i]>> \in rejected' PROVE FALSE
    OBVIOUS
  <2>2. rows[i] > rows[i] /\ rows[i] \in Nat
    BY <1>6, <1>10, <2>1
  <2>3. QED
    BY <2>2
<1>12. \A i \in Items : <<i, selected'[i]>> \in rejected' => i \in staleSelectedIds'
  <2>1. SUFFICES ASSUME NEW i \in Items, <<i, selected'[i]>> \in rejected' PROVE i \in staleSelectedIds'
    OBVIOUS
  <2>2. selected'[i] # 0 /\ selected'[i] # rows[i]
    <3>1. selected'[i] \in 1 .. MaxRevision
      BY <1>7, <2>1
    <3>2. selected'[i] # 0
      BY <3>1, ListAssumption
    <3>3. QED
      BY <1>11, <2>1, <3>2
  <2>3. selected'[i] = selected[i] /\ rows[i] = 0
    BY <1>5, <2>2
  <2>4. <<i, selected'[i]>> \in rejected
    BY <1>10, <2>1, <2>3
  <2>5. i \in staleSelectedIds
    BY <1>3, <2>3, <2>4 DEF RefusalsKnown
  <2>6. QED
    BY <1>2, <2>3, <2>5 DEF Named
<1>13. \A i \in Items : rows[i] # 0 /\ selected'[i] # 0 => selected'[i] = rows[i]
  BY <1>5
<1>14. RefusalsKnown'
  BY <1>2, <1>12, <1>13, <1>11 DEF RefusalsKnown
<1>15. loadDue' \in BOOLEAN /\ staleSelectedIds' \subseteq Items
  <2>1. loadDue \in BOOLEAN
    BY DEF ListInv
  <2>2. QED
    BY <1>2, <1>3, <2>1
<1>16. QED
  BY <1>2, <1>3, <1>4, <1>9, <1>14, <1>15, <1>7 DEF ListInv

\* Changes of single cards touch neither the selection nor what is known to be refused.
LEMMA CardChangesKeep ==
  ASSUME ListInv,
         \/ \E id \in Items : \/ ToggleDetails(id) \/ EditCard(id)
                              \/ \E kind \in {"update", "remove"} : ChangeCard(id, kind)
         \/ \E c \in changes : ChangeAnswered(c) \/ ChangeLost(c)
  PROVE  ListInv'
<1>1. UNCHANGED <<revision, collection, load, selectionMode, selected, staleSelectedIds, removals, quickDeck,
                  quickDeckOpen, rejected>>
  BY DEF ToggleDetails, EditCard, ChangeCard, ChangeAnswered, ChangeLost, otherThanChanges
<1>2. /\ loadDue \in BOOLEAN /\ changes \subseteq CardChange /\ collection \in [Items -> 0 .. MaxRevision]
      /\ {busyId, expandedId, editId} \subseteq Items \cup {NoItem} /\ NothingAhead /\ RefusalsKnown
  BY DEF ListInv, Rows
<1>3. rejected \cup refusedSingly' \subseteq Items \X (1 .. MaxRevision)
  <2>1. CASE refusedSingly' = refusedSingly
    BY <2>1 DEF ListInv
  <2>2. ASSUME NEW c \in changes, refusedSingly' = refusedSingly \cup {<<c.id, c.rev>>}
        PROVE  rejected \cup refusedSingly' \subseteq Items \X (1 .. MaxRevision)
    <3>1. c.id \in Items /\ c.rev \in 1 .. MaxRevision
      BY <1>2 DEF CardChange
    <3>2. QED
      BY <2>2, <3>1 DEF ListInv
  <2>3. refusedSingly' = refusedSingly \/ \E c \in changes : refusedSingly' = refusedSingly \cup {<<c.id, c.rev>>}
    BY DEF ToggleDetails, EditCard, ChangeCard, ChangeAnswered, ChangeLost
  <2>4. QED
    BY <2>1, <2>2, <2>3
<1>4. /\ loadDue' \in BOOLEAN /\ changes' \subseteq CardChange
      /\ {busyId', expandedId', editId'} \subseteq Items \cup {NoItem}
  <2>1. ASSUME NEW id \in Items, ToggleDetails(id) \/ EditCard(id)
        PROVE  /\ loadDue' \in BOOLEAN /\ changes' \subseteq CardChange
               /\ {busyId', expandedId', editId'} \subseteq Items \cup {NoItem}
    BY <1>2, <2>1 DEF ToggleDetails, EditCard
  <2>2. ASSUME NEW id \in Items, NEW kind \in {"update", "remove"}, ChangeCard(id, kind)
        PROVE  /\ loadDue' \in BOOLEAN /\ changes' \subseteq CardChange
               /\ {busyId', expandedId', editId'} \subseteq Items \cup {NoItem}
    <3>1. PICK b : b = [id |-> id, rev |-> collection[id], kind |-> kind, answer |-> "none"]
      OBVIOUS
    <3>2. changes' = changes \cup {b} /\ busyId' = id /\ collection[id] # 0
          /\ UNCHANGED <<loadDue, expandedId, editId>>
      BY <2>2, <3>1 DEF ChangeCard, Named
    <3>3. collection[id] \in 1 .. MaxRevision
      BY <1>2, <3>2, ListAssumption
    <3>4. b \in CardChange
      BY <3>1, <3>3 DEF CardChange, Answers
    <3>5. QED
      BY <1>2, <3>2, <3>4
  <2>3. ASSUME NEW c \in changes, ChangeAnswered(c) \/ ChangeLost(c)
        PROVE  /\ loadDue' \in BOOLEAN /\ changes' \subseteq CardChange
               /\ {busyId', expandedId', editId'} \subseteq Items \cup {NoItem}
    <3>1. changes' = changes \ {c} /\ busyId' = NoItem /\ expandedId' = expandedId
          /\ (editId' = editId \/ editId' = NoItem)
      BY <2>3 DEF ChangeAnswered, ChangeLost
    <3>2. loadDue' \in BOOLEAN
      BY <1>2, <2>3 DEF ChangeAnswered, ChangeLost
    <3>3. QED
      BY <1>2, <3>1, <3>2
  <2>4. QED
    BY <2>1, <2>2, <2>3
<1>5. NothingAhead' /\ RefusalsKnown'
  BY <1>1, <1>2 DEF NothingAhead, RefusalsKnown, NotAhead, Overtaken
<1>6. QED
  BY <1>1, <1>4, <1>5, <1>3 DEF ListInv

\* Cards are selected as they are on the list, or are no longer selected.
LEMMA SelectionKeeps ==
  ASSUME ListInv, selected' \in Rows,
         \A i \in Items : selected'[i] \in {selected[i], collection[i], 0},
         UNCHANGED <<revision, collection, load, staleSelectedIds, removals, rejected>>
  PROVE  NothingAhead' /\ RefusalsKnown'
<1>1. NothingAhead /\ RefusalsKnown /\ revision \in [Items -> 0 .. MaxRevision]
      /\ rejected \subseteq Items \X (1 .. MaxRevision)
  BY DEF ListInv, Rows
<1>2. \A i \in Items : <<i, 0>> \notin rejected
  BY <1>1, ListAssumption
<1>3. \A i \in Items : NotAhead(i, 0)
  <2>1. \A i \in Items : revision[i] \in Nat
    BY <1>1, ListAssumption
  <2>2. QED
    BY <2>1 DEF NotAhead
<1>4. \A i \in Items : NotAhead(i, selected'[i])
  BY <1>1, <1>3 DEF NothingAhead
<1>5. NothingAhead'
  BY <1>1, <1>4 DEF NothingAhead, NotAhead, Overtaken
<1>6. \A i \in Items : /\ <<i, selected'[i]>> \in rejected => i \in staleSelectedIds
                       /\ collection[i] # 0 /\ selected'[i] # 0 => selected'[i] = collection[i]
  BY <1>1, <1>2 DEF RefusalsKnown
<1>7. RefusalsKnown'
  BY <1>1, <1>6 DEF RefusalsKnown
<1>8. QED
  BY <1>5, <1>7

\* Check boxes, "Select page", "Clear selection" and leaving the selection.
LEMMA SelectingKeeps ==
  ASSUME ListInv,
         \/ ToggleSelectionMode \/ SelectPage \/ ClearSelection \/ ToggleQuickDeck
         \/ \E id \in Items : SetItemSelected(id)
  PROVE  ListInv'
<1>1. UNCHANGED <<revision, collection, load, loadDue, staleSelectedIds, removals, quickDeck, changes, busyId,
                  rejected, refusedSingly>>
  BY DEF ToggleSelectionMode, SelectPage, ClearSelection, ToggleQuickDeck, SetItemSelected, Select,
         otherThanSelected
<1>2. /\ {collection, selected} \subseteq [Items -> 0 .. MaxRevision]
      /\ {selectionMode, quickDeckOpen} \subseteq BOOLEAN
      /\ {busyId, expandedId, editId} \subseteq Items \cup {NoItem}
  BY DEF ListInv, Rows
<1>3. /\ selectionMode' \in BOOLEAN /\ quickDeckOpen' \in BOOLEAN
      /\ {expandedId', editId'} \subseteq Items \cup {NoItem}
      /\ selected' \in Rows /\ \A i \in Items : selected'[i] \in {selected[i], collection[i], 0}
  <2>1. CASE ToggleSelectionMode
    <3>1. /\ selectionMode' \in BOOLEAN /\ quickDeckOpen' \in BOOLEAN
          /\ {expandedId', editId'} \subseteq Items \cup {NoItem}
          /\ (selected' = selected \/ selected' = Nowhere)
      BY <1>2, <2>1 DEF ToggleSelectionMode
    <3>2. Nowhere \in Rows /\ \A i \in Items : Nowhere[i] = 0
      BY ListAssumption DEF Nowhere, Rows
    <3>3. QED
      BY <1>2, <3>1, <3>2 DEF Rows
  <2>2. CASE ToggleQuickDeck
    BY <1>2, <2>2 DEF ToggleQuickDeck, Rows
  <2>3. ASSUME NEW ids, NEW checked, Select(ids, checked)
        PROVE  /\ selectionMode' \in BOOLEAN /\ quickDeckOpen' \in BOOLEAN
               /\ {expandedId', editId'} \subseteq Items \cup {NoItem}
               /\ selected' \in Rows /\ \A i \in Items : selected'[i] \in {selected[i], collection[i], 0}
    <3>1. /\ selected' = [i \in Items |-> IF i \notin ids THEN selected[i]
                                          ELSE IF checked THEN collection[i] ELSE 0]
          /\ UNCHANGED <<selectionMode, quickDeckOpen, expandedId, editId>>
      BY <2>3 DEF Select
    <3>2. selected' \in Rows
      BY <1>2, <3>1, ListAssumption DEF Rows
    <3>3. QED
      BY <1>2, <3>1, <3>2
  <2>4. QED
    BY <2>1, <2>2, <2>3 DEF SelectPage, ClearSelection, SetItemSelected
<1>4. NothingAhead' /\ RefusalsKnown'
  BY <1>1, <1>3, SelectionKeeps
<1>5. QED
  BY <1>1, <1>2, <1>3, <1>4 DEF ListInv

\* A removal is sent at the revision its card was selected at.
LEMMA RemovalsKeep ==
  ASSUME ListInv, RemoveSelected \/ \E r \in removals : RemovalLost(r)
  PROVE  ListInv'
<1>1. UNCHANGED <<revision, collection, selectionMode, changes, busyId, expandedId, editId, load, loadDue, selected,
                  staleSelectedIds, quickDeck, rejected, refusedSingly>>
  BY DEF RemoveSelected, RemovalLost, otherThanBulk
<1>2. /\ selected \in [Items -> 0 .. MaxRevision] /\ removals \subseteq Removal /\ quickDeckOpen \in BOOLEAN
      /\ NothingAhead /\ RefusalsKnown
  BY DEF ListInv, Rows
<1>3. /\ quickDeckOpen' \in BOOLEAN /\ removals' \subseteq Removal
      /\ \A r \in removals' : NotAhead(r.id, r.rev) /\ (r.answer = "stale" => Overtaken(r.id, r.rev))
  <2>1. CASE RemoveSelected
    <3>1. /\ removals' = {[id |-> i, rev |-> selected[i], answer |-> "none"] : i \in Named(selected)}
          /\ quickDeckOpen' = FALSE
      BY <2>1 DEF RemoveSelected
    <3>2. ASSUME NEW r \in removals'
          PROVE  r \in Removal /\ NotAhead(r.id, r.rev) /\ r.answer # "stale"
      <4>1. PICK i \in Named(selected) : r = [id |-> i, rev |-> selected[i], answer |-> "none"]
        BY <3>1
      <4>2. i \in Items /\ selected[i] \in 1 .. MaxRevision
        BY <1>2, ListAssumption DEF Named
      <4>3. r \in Removal
        BY <4>1, <4>2 DEF Removal, Answers
      <4>4. NotAhead(i, selected[i])
        BY <1>2, <4>2 DEF NothingAhead
      <4>5. r.id = i /\ r.rev = selected[i] /\ r.answer = "none"
        BY <4>1
      <4>6. QED
        BY <4>3, <4>4, <4>5
    <3>3. QED
      BY <3>1, <3>2
  <2>2. ASSUME NEW r \in removals, RemovalLost(r)
        PROVE  /\ quickDeckOpen' \in BOOLEAN /\ removals' \subseteq Removal
               /\ \A k \in removals' : NotAhead(k.id, k.rev) /\ (k.answer = "stale" => Overtaken(k.id, k.rev))
    <3>1. PICK s : s = [r EXCEPT !.answer = "failed"]
      OBVIOUS
    <3>2. removals' = (removals \ {r}) \cup {s} /\ quickDeckOpen' = quickDeckOpen
      BY <2>2, <3>1 DEF RemovalLost
    <3>3. s \in Removal /\ s.id = r.id /\ s.rev = r.rev /\ s.answer = "failed"
      BY <1>2, <3>1 DEF Removal, Answers
    <3>4. \A k \in removals : NotAhead(k.id, k.rev) /\ (k.answer = "stale" => Overtaken(k.id, k.rev))
      BY <1>2 DEF NothingAhead
    <3>5. NotAhead(s.id, s.rev)
      BY <3>3, <3>4
    <3>6. QED
      BY <1>2, <3>2, <3>3, <3>4, <3>5
  <2>3. QED
    BY <2>1, <2>2
<1>4. NothingAhead'
  BY <1>1, <1>2, <1>3 DEF NothingAhead, NotAhead, Overtaken
<1>5. RefusalsKnown'
  BY <1>1, <1>2 DEF RefusalsKnown
<1>6. QED
  BY <1>1, <1>3, <1>4, <1>5 DEF ListInv

\* What was refused as stale has been overtaken, is selected still and now known to be
\* stale; a list that may have been read before is not waited for.
LEMMA RemovalsSettledKeep ==
  ASSUME ListInv, RemovalsSettled
  PROVE  ListInv'
<1> DEFINE stale == {r \in removals : r.answer = "stale"}
           kept == {r.id : r \in {r \in removals : r.answer # "done"}}
<1>1. /\ load' = IF stale = {} THEN load ELSE NoLoad
      /\ selected' = Keep(kept)
      /\ staleSelectedIds' = staleSelectedIds \cup {r.id : r \in stale}
      /\ rejected' = rejected \cup {<<r.id, r.rev>> : r \in stale}
      /\ removals' = {} /\ loadDue' = TRUE
      /\ UNCHANGED <<revision, collection, selectionMode, changes, busyId, expandedId, editId, quickDeck,
                     quickDeckOpen, refusedSingly>>
  BY DEF RemovalsSettled, otherThanBulk
<1>2. /\ selected \in [Items -> 0 .. MaxRevision] /\ removals \subseteq Removal
      /\ rejected \cup refusedSingly \subseteq Items \X (1 .. MaxRevision) /\ staleSelectedIds \subseteq Items
      /\ revision \in [Items -> 0 .. MaxRevision]
      /\ NothingAhead /\ RefusalsKnown
  BY DEF ListInv, Rows
<1>3. selected' \in Rows /\ \A i \in Items : selected'[i] \in {selected[i], 0}
  BY <1>1, <1>2, ListAssumption DEF Keep, Rows
<1>4. \A r \in stale : r \in Removal /\ r.id \in Items /\ r.rev \in 1 .. MaxRevision /\ Overtaken(r.id, r.rev)
  BY <1>2 DEF Removal, NothingAhead
<1>5. rejected' \cup refusedSingly' \subseteq Items \X (1 .. MaxRevision) /\ staleSelectedIds' \subseteq Items
  BY <1>1, <1>2, <1>4
<1>6. \A p \in rejected' : p \in rejected \/ \E r \in stale : p = <<r.id, r.rev>>
  BY <1>1
<1>7. \A r \in stale : r.id \in staleSelectedIds'
  BY <1>1
<1>8. staleSelectedIds \subseteq staleSelectedIds'
  BY <1>1
<1>9. load' # NoLoad => load' = load /\ rejected' = rejected
  BY <1>1
<1> HIDE DEF stale, kept
<1>10. NothingAhead'
  <2>1. \A i \in Items : NotAhead(i, selected'[i])
    <3>1. \A i \in Items : revision[i] \in Nat
      BY <1>2, ListAssumption
    <3>2. \A i \in Items : NotAhead(i, 0)
      BY <3>1 DEF NotAhead
    <3>3. QED
      BY <1>2, <1>3, <3>2 DEF NothingAhead
  <2>2. \A p \in rejected' : Overtaken(p[1], p[2])
    <3>1. SUFFICES ASSUME NEW p \in rejected' PROVE Overtaken(p[1], p[2])
      OBVIOUS
    <3>2. CASE p \in rejected
      BY <1>2, <3>2 DEF NothingAhead
    <3>3. ASSUME NEW r \in stale, p = <<r.id, r.rev>> PROVE Overtaken(p[1], p[2])
      BY <1>4, <3>3
    <3>4. QED
      BY <1>6, <3>2, <3>3
  <2>3. load' # NoLoad => \A i \in Items : NotAhead(i, load'.rows[i])
    BY <1>2, <1>9 DEF NothingAhead
  <2>4. \A i \in Items : NotAhead(i, collection[i])
    BY <1>2 DEF NothingAhead
  <2>5. QED
    BY <1>1, <2>1, <2>2, <2>3, <2>4 DEF NothingAhead, NotAhead, Overtaken
<1>11. RefusalsKnown'
  <2>1. \A i \in Items : \A rev : <<i, rev>> \in rejected' =>
          i \in staleSelectedIds' \/ <<i, rev>> \in rejected
    BY <1>6, <1>7
  <2>2. \A i \in Items : <<i, 0>> \notin rejected
    BY <1>2, ListAssumption
  <2>3. \A i \in Items : /\ <<i, collection[i]>> \in rejected' => i \in staleSelectedIds'
                         /\ <<i, selected'[i]>> \in rejected' => i \in staleSelectedIds'
    BY <1>2, <1>3, <1>8, <2>1, <2>2 DEF RefusalsKnown
  <2>4. \A i \in Items : collection[i] # 0 /\ selected'[i] # 0 => selected'[i] = collection[i]
    BY <1>2, <1>3 DEF RefusalsKnown
  <2>5. load' # NoLoad => \A i \in Items : <<i, load'.rows[i]>> \notin rejected'
    BY <1>2, <1>9 DEF RefusalsKnown
  <2>6. QED
    BY <1>1, <2>3, <2>4, <2>5 DEF RefusalsKnown
<1>12. load' # NoLoad => load' \in [read : BOOLEAN, rows : Rows]
  BY <1>9 DEF ListInv
<1>13. QED
  BY <1>1, <1>3, <1>5, <1>10, <1>11, <1>12 DEF ListInv

\* A deck made of the selection only shrinks it.
LEMMA QuickDeckKeeps ==
  ASSUME ListInv,
         \/ CreateQuickDeck \/ QuickDeckDone
         \/ \E id \in Items : \E done \in BOOLEAN : DeckAnswered(id, done)
  PROVE  ListInv'
<1>1. UNCHANGED <<revision, collection, selectionMode, changes, busyId, expandedId, editId, load, loadDue,
                  staleSelectedIds, removals, rejected, refusedSingly>>
  BY DEF CreateQuickDeck, QuickDeckDone, DeckAnswered, otherThanBulk
<1>2. selected \in [Items -> 0 .. MaxRevision] /\ quickDeckOpen \in BOOLEAN
      /\ (quickDeck # NoDeck => quickDeck \in QuickDeck)
  BY DEF ListInv, Rows
<1>3. /\ selected' \in Rows /\ \A i \in Items : selected'[i] \in {selected[i], collection[i], 0}
      /\ quickDeckOpen' \in BOOLEAN
  <2>1. CASE UNCHANGED <<selected, quickDeckOpen>>
    BY <1>2, <2>1 DEF Rows
  <2>2. CASE QuickDeckDone
    <3>1. selected' = [i \in Items |-> IF i \in quickDeck.failed THEN selected[i] ELSE 0]
          /\ quickDeckOpen' = FALSE
      BY <2>2 DEF QuickDeckDone, Keep
    <3>2. 0 \in 0 .. MaxRevision
      BY ListAssumption
    <3>3. QED
      BY <1>2, <3>1, <3>2 DEF Rows
  <2>3. QED
    BY <2>1, <2>2 DEF CreateQuickDeck, DeckAnswered
<1>4. quickDeck' # NoDeck => quickDeck' \in QuickDeck
  <2>1. CASE CreateQuickDeck
    BY <2>1 DEF CreateQuickDeck, QuickDeck, Named
  <2>2. CASE QuickDeckDone
    BY <2>2 DEF QuickDeckDone
  <2>3. ASSUME NEW id \in Items, NEW done \in BOOLEAN, DeckAnswered(id, done), quickDeck' # NoDeck
        PROVE  quickDeck' \in QuickDeck
    <3>1. quickDeck \in QuickDeck
      BY <1>2, <2>3 DEF DeckAnswered
    <3>2. PICK failed : failed = IF done THEN quickDeck.failed ELSE quickDeck.failed \cup {id}
      OBVIOUS
    <3>3. failed \in SUBSET Items /\ quickDeck.todo \in SUBSET Items
      BY <3>1, <3>2 DEF QuickDeck
    <3>4. \/ quickDeck' = [quickDeck EXCEPT !.made = TRUE]
          \/ quickDeck' = [quickDeck EXCEPT !.todo = @ \ {id}, !.failed = failed]
      BY <2>3, <3>2 DEF DeckAnswered
    <3>5. CASE quickDeck' = [quickDeck EXCEPT !.made = TRUE]
      BY <3>1, <3>5 DEF QuickDeck
    <3>6. CASE quickDeck' = [quickDeck EXCEPT !.todo = @ \ {id}, !.failed = failed]
      BY <3>1, <3>3, <3>6 DEF QuickDeck
    <3>7. QED
      BY <3>4, <3>5, <3>6
  <2>4. QED
    BY <2>1, <2>2, <2>3
<1>5. NothingAhead' /\ RefusalsKnown'
  BY <1>1, <1>3, SelectionKeeps
<1>6. QED
  BY <1>1, <1>3, <1>4, <1>5 DEF ListInv

\* Every step of the page keeps the invariant.
LEMMA ListInvInductive ==
  ASSUME ListInv, [ListNext]_listVars
  PROVE  ListInv'
<1>1. CASE UNCHANGED listVars
  BY <1>1 DEF ListInv, listVars, NothingAhead, RefusalsKnown, NotAhead, Overtaken
<1>2. CASE ListNext
  BY <1>2, ReadingListKeeps, ListShownKeeps, CardChangesKeep, SelectingKeeps, RemovalsKeep, RemovalsSettledKeep,
     QuickDeckKeeps, OthersChangeKeeps, ServeRemovalKeeps, ServeChangeKeeps DEF ListNext, OneCard
<1>3. QED
  BY <1>1, <1>2

\* However lists, changes and removals of the same cards pass one another, a revision that
\* the page knows to be stale is not sent again by selecting its card once more: the one
\* refused to a removal of the selection, and the one refused to a change of the card alone
\* from when a list shows a later one.
THEOREM RefusedRemovalsAreNotResent == ListSpec => [](ListTypeOK /\ RejectedNotResent)
<1>1. ListInit => ListInv
  <2> SUFFICES ASSUME ListInit PROVE ListInv
    OBVIOUS
  <2>1. /\ revision = [i \in Items |-> 1] /\ collection = [i \in Items |-> 0] /\ selected = [i \in Items |-> 0]
        /\ load = NoLoad /\ removals = {} /\ rejected = {} /\ changes = {} /\ quickDeck = NoDeck
    BY DEF ListInit, Nowhere
  <2>2. {revision, collection, selected} \subseteq Rows
    BY <2>1, ListAssumption DEF Rows
  <2>3. \A i \in Items : revision[i] = 1 /\ collection[i] = 0 /\ selected[i] = 0
    BY <2>1
  <2>4. NothingAhead
    BY <2>1, <2>3 DEF NothingAhead, NotAhead
  <2>5. RefusalsKnown
    BY <2>1, <2>3 DEF RefusalsKnown
  <2>6. QED
    BY <2>1, <2>2, <2>4, <2>5 DEF ListInit, ListInv
<1>2. ListInv => ListTypeOK
  BY DEF ListInv, ListTypeOK, CardChange, QuickDeck
<1>3. ListInv => RejectedNotResent
  BY DEF ListInv, RefusalsKnown, RejectedNotResent, Named
<1>4. QED
  BY <1>1, <1>2, <1>3, ListInvInductive, PTL DEF ListSpec

-----------------------------------------------------------------------------
(* The import page.                                                        *)

\* Requests in flight.
PageCall == [op : Operations, about : Files \cup {NoFile}, n : Nat,
             step : {"sent", "done", "refused", "after"}, current : BOOLEAN]

\* A request is about what it says: a review of its file, and of the preview that was
\* made of it; a confirmation and a cancellation of a preview there is.
CallSound(c) ==
  /\ c.n \in 0 .. Len(previews)
  /\ c.op = "review" => c.about \in Files
  /\ c.op = "review" /\ c.step = "done" => c.n # 0 /\ previews[c.n].of = c.about
  /\ c.op \in {"confirm", "cancel"} => c.n # 0
  /\ c.op = "export" => c.n = 0
  /\ c.step = "after" => c.op = "confirm"

\* The preview n can still be confirmed or cancelled, or may have ended unnoticed.
Known(n) == previews[n].state = "open" \/ n \in unsure

\* The review that is awaited is of the file chosen, and the preview it has made is
\* nobody else's.
ReviewSound(c) ==
  c.op = "review" =>
    /\ c.about = chosen
    /\ c.step = "done" => Known(c.n) /\ \A d \in pageCalls : d.n = c.n => d = c

\* While the page is shown it waits for one answer at most, and for one of the operation
\* it is busy with; only what it waits for ends the preview it shows.
PageSound ==
  /\ \A c, d \in pageCalls : c.current /\ d.current => c = d
  /\ \A c \in pageCalls : c.current => c.op = operation /\ ReviewSound(c)
  /\ operation # "none" => \E c \in pageCalls : c.current
  /\ preview # 0 => previews[preview].of = chosen
  /\ preview # 0 => \/ Known(preview)
                    \/ \E c \in pageCalls : c.current /\ c.n = preview /\ c.step = "done"
  /\ \A c \in pageCalls : preview # 0 /\ c.op \in {"confirm", "cancel"} /\ c.n = preview => c.current

ImportInv ==
  /\ previews \in Seq(Preview) /\ Len(previews) <= MaxPreviews
  /\ file \in {NoFile, chosen} /\ chosen \in Files \cup {NoFile}
  /\ preview \in 0 .. Len(previews) /\ unsure \subseteq 1 .. Len(previews)
  /\ operation \in Operations \cup {"none"}
  /\ complete \in BOOLEAN /\ exportComplete \in BOOLEAN /\ onPage \in BOOLEAN
  /\ pageCalls \subseteq PageCall
  /\ \A c \in pageCalls : CallSound(c)
  /\ onPage => PageSound

\* A request that is given up is what it was, but for being heard.
LEMMA SupersededCalls ==
  ASSUME pageCalls \subseteq PageCall, NEW e \in Superseded
  PROVE  /\ e \in PageCall /\ ~e.current
         /\ \E c \in pageCalls : e.op = c.op /\ e.about = c.about /\ e.n = c.n /\ e.step = c.step
<1>1. PICK c \in pageCalls : e = [c EXCEPT !.current = FALSE]
  BY DEF Superseded
<1>2. c \in PageCall
  OBVIOUS
<1>3. QED
  BY <1>1, <1>2 DEF PageCall

\* What is known of a request stays true while previews are made and end.
LEMMA CallStaysSound ==
  ASSUME NEW c, CallSound(c), previews \in Seq(Preview), previews' \in Seq(Preview),
         Len(previews) <= Len(previews)',
         \A n \in 1 .. Len(previews) : previews'[n].of = previews[n].of
  PROVE  CallSound(c)'
<1>1. Len(previews) \in Nat /\ Len(previews)' \in Nat
  BY LenProperties
<1>2. QED
  BY <1>1 DEF CallSound

\* The end of a preview.
LEMMA EndOfPreview ==
  ASSUME NEW s \in Seq(Preview), NEW n \in 1 .. Len(s), NEW v \in {"open", "applied", "gone"},
         NEW t, t = [s EXCEPT ![n].state = v]
  PROVE  /\ t \in Seq(Preview) /\ Len(t) = Len(s)
         /\ \A k \in 1 .. Len(s) : t[k].of = s[k].of /\ (k # n => t[k] = s[k])
         /\ t[n].state = v
<1>1. s \in [1 .. Len(s) -> Preview] /\ Len(s) \in Nat
  BY LenProperties
<1>2. t \in [1 .. Len(s) -> Preview]
  BY <1>1 DEF Preview
<1>3. t \in Seq(Preview) /\ Len(t) = Len(s)
  BY <1>1, <1>2, SeqDef, LenProperties
<1>4. QED
  BY <1>1, <1>3 DEF Preview

\* A new preview.
LEMMA NewPreview ==
  ASSUME NEW s \in Seq(Preview), NEW v \in Preview, NEW t, t = Append(s, v)
  PROVE  /\ t \in Seq(Preview) /\ Len(t) = Len(s) + 1
         /\ \A k \in 1 .. Len(s) : t[k] = s[k]
         /\ t[Len(s) + 1] = v
BY AppendProperties, LenProperties

\* The member goes on: what is awaited is given up.
LEMMA GoingOn ==
  ASSUME ImportInv,
         pageCalls' \subseteq Superseded, UNCHANGED <<previews, unsure>>,
         preview' = 0 \/ ~onPage', operation' = "none" \/ ~onPage',
         preview' \in {0, preview}, operation' \in {"none", operation},
         file' \in {NoFile, chosen'}, chosen' \in Files \cup {NoFile},
         complete' \in BOOLEAN, UNCHANGED exportComplete, onPage' \in BOOLEAN
  PROVE  ImportInv'
<1>1. \A e \in pageCalls' :
        /\ e \in PageCall /\ ~e.current
        /\ \E c \in pageCalls : e.op = c.op /\ e.about = c.about /\ e.n = c.n /\ e.step = c.step
  BY SupersededCalls DEF ImportInv
<1>2. \A e \in pageCalls' : CallSound(e)'
  BY <1>1 DEF ImportInv, CallSound
<1>3. Len(previews) \in Nat
  BY LenProperties DEF ImportInv
<1>4. PageSound' \/ ~onPage'
  BY <1>1 DEF PageSound
<1>5. QED
  BY <1>1, <1>2, <1>3, <1>4 DEF ImportInv

\* A file is chosen: what was under way for the file before is no longer heard.
LEMMA ChooseFileKeeps ==
  ASSUME ImportInv, NEW f \in Files \cup {NoFile}, ChooseFile(f)
  PROVE  ImportInv'
BY GoingOn DEF ChooseFile, Choosing, ImportInv

\* The page starts over.
LEMMA ImportAnotherKeeps ==
  ASSUME ImportInv, ImportAnother
  PROVE  ImportInv'
BY GoingOn DEF ImportAnother, Cleared, ImportInv

\* The page is left, and nothing is heard any more.
LEMMA LeavePageKeeps ==
  ASSUME ImportInv, LeavePage
  PROVE  ImportInv'
BY GoingOn DEF LeavePage, ImportInv

\* A cancellation is answered.
LEMMA CancelAnsweredKeeps ==
  ASSUME ImportInv, NEW c \in pageCalls, CancelAnswered(c)
  PROVE  ImportInv'
BY GoingOn DEF CancelAnswered, Cleared, ImportInv

\* The page is busy with something new.
LEMMA BeginKeeps ==
  ASSUME ImportInv, onPage, operation = "none", NEW op \in Operations, NEW about \in Files \cup {NoFile},
         NEW n \in 0 .. Len(previews), Begin(op, about, n), exportComplete' \in BOOLEAN,
         op = "review" => about = chosen /\ about \in Files /\ n = 0,
         op \in {"confirm", "cancel"} => n = preview /\ n # 0,
         op = "export" => n = 0
  PROVE  ImportInv'
<1> DEFINE b == [op |-> op, about |-> about, n |-> n, step |-> "sent", current |-> TRUE]
<1>1. Len(previews) \in Nat
  BY LenProperties DEF ImportInv
<1>2. \A e \in Superseded :
        /\ e \in PageCall /\ ~e.current
        /\ \E c \in pageCalls : e.op = c.op /\ e.about = c.about /\ e.n = c.n /\ e.step = c.step
  BY SupersededCalls DEF ImportInv
<1>3. b \in PageCall /\ CallSound(b) /\ b.current /\ b.op = op /\ b.n = n /\ b.step = "sent" /\ b.about = about
  BY <1>1 DEF PageCall, CallSound, Operations
<1>4. pageCalls' = Superseded \cup {b}
  BY DEF Begin
<1>5. UNCHANGED <<previews, file, preview, complete, onPage, chosen, unsure>> /\ operation' = op
  BY DEF Begin
<1> HIDE DEF b
<1>6. \A e \in pageCalls' : CallSound(e)'
  <2>1. \A e \in Superseded : CallSound(e)
    BY <1>2 DEF CallSound, ImportInv
  <2>2. QED
    BY <2>1, <1>3, <1>4, <1>5 DEF CallSound
<1>7. PageSound
  BY DEF ImportInv
<1>8. \A c \in pageCalls : ~c.current
  <2>1. op # "none" /\ \A c \in pageCalls : c.op # "none"
    BY DEF ImportInv, PageCall, Operations
  <2>2. QED
    BY <1>7, <2>1 DEF PageSound
<1>9. PageSound'
  <2>1. \A c, d \in pageCalls' : c.current /\ d.current => c = d
    BY <1>2, <1>4
  <2>2. \A c \in pageCalls' : c.current => c = b
    BY <1>2, <1>4
  <2>3. ReviewSound(b)'
    BY <1>3, <1>5 DEF ReviewSound
  <2>4. \A c \in pageCalls' : c.current => c.op = operation' /\ ReviewSound(c)'
    BY <2>2, <2>3, <1>3, <1>5
  <2>5. b \in pageCalls' /\ b.current
    BY <1>3, <1>4
  <2>6. preview # 0 => previews[preview].of = chosen /\ Known(preview)
    BY <1>7, <1>8 DEF PageSound
  <2>7. \A c \in pageCalls' : preview # 0 /\ c.op \in {"confirm", "cancel"} /\ c.n = preview => c.current
    <3>1. \A e \in Superseded : ~(preview # 0 /\ e.op \in {"confirm", "cancel"} /\ e.n = preview)
      BY <1>2, <1>7, <1>8 DEF PageSound
    <3>2. QED
      BY <3>1, <1>3, <1>4
  <2>8. Known(preview)' <=> Known(preview)
    BY <1>5 DEF Known
  <2>9. QED
    BY <2>1, <2>4, <2>5, <2>6, <2>7, <2>8, <1>5 DEF PageSound
<1>10. QED
  BY <1>1, <1>2, <1>3, <1>4, <1>5, <1>6, <1>9 DEF ImportInv

\* A review, a confirmation, a cancellation or an export is begun.
LEMMA BeginningsKeep ==
  ASSUME ImportInv, Review \/ Confirm \/ CancelImport \/ ExportCsv
  PROVE  ImportInv'
<1>1. Len(previews) \in Nat /\ preview \in 0 .. Len(previews)
      /\ file \in {NoFile, chosen} /\ chosen \in Files \cup {NoFile}
      /\ exportComplete \in BOOLEAN
  BY LenProperties DEF ImportInv
<1>2. CASE Review
  BY <1>1, <1>2, BeginKeeps DEF Review, Choosing, Idle, Operations
<1>3. CASE Confirm
  BY <1>1, <1>3, BeginKeeps DEF Confirm, Reviewing, Idle, Operations
<1>4. CASE CancelImport
  BY <1>1, <1>4, BeginKeeps DEF CancelImport, Reviewing, Idle, Operations
<1>5. CASE ExportCsv
  <2>1. onPage /\ operation = "none" /\ Begin("export", NoFile, 0) /\ exportComplete' \in BOOLEAN
    BY <1>5 DEF ExportCsv, Idle
  <2>2. "export" \in Operations /\ NoFile \in Files \cup {NoFile} /\ 0 \in 0 .. Len(previews)
    BY <1>1 DEF Operations
  <2>3. QED
    BY <2>1, <2>2, BeginKeeps
<1>6. QED
  BY <1>2, <1>3, <1>4, <1>5

\* A preview is made.
LEMMA ServeReviewKeeps ==
  ASSUME ImportInv, NEW c \in pageCalls, NEW errors \in BOOLEAN, ServeReview(c, errors)
  PROVE  ImportInv'
<1>1. PICK d : d = [c EXCEPT !.step = "done", !.n = Len(previews) + 1]
  OBVIOUS
<1>2. PICK v : v = [of |-> c.about, errors |-> errors, state |-> "open"]
  OBVIOUS
<1>3. c \in PageCall /\ CallSound(c) /\ c.op = "review" /\ c.step = "sent"
  BY DEF ServeReview, ImportInv
<1>4. /\ pageCalls' = (pageCalls \ {c}) \cup {d} /\ previews' = Append(previews, v)
      /\ Len(previews) < MaxPreviews
      /\ UNCHANGED <<file, preview, complete, exportComplete, onPage, chosen, operation, unsure>>
  BY <1>1, <1>2 DEF ServeReview, page
<1>5. Len(previews) \in Nat /\ previews \in Seq(Preview) /\ MaxPreviews \in Nat
  BY LenProperties, ImportPageAssumption DEF ImportInv
<1>6. v \in Preview /\ v.of = c.about /\ v.state = "open"
  BY <1>2, <1>3 DEF Preview, CallSound
<1>7. /\ d \in PageCall /\ d.op = "review" /\ d.step = "done" /\ d.n = Len(previews) + 1
      /\ d.about = c.about /\ d.current = c.current
  <2>1. PICK n : n = Len(previews) + 1
    OBVIOUS
  <2>2. n \in Nat /\ d = [c EXCEPT !.step = "done", !.n = n]
    BY <2>1, <1>1, <1>5
  <2>3. QED
    BY <2>1, <2>2, <1>3 DEF PageCall
<1>8. /\ previews' \in Seq(Preview) /\ Len(previews') = Len(previews) + 1
      /\ \A k \in 1 .. Len(previews) : previews'[k] = previews[k]
      /\ previews'[Len(previews) + 1] = v
  BY <1>4, <1>5, <1>6, NewPreview
<1>9. \A e \in pageCalls : CallSound(e) /\ e \in PageCall /\ e.n \in 0 .. Len(previews)
  BY DEF ImportInv, CallSound
<1>10. \A e \in pageCalls' : CallSound(e)'
  <2>1. \A e \in pageCalls : CallSound(e)'
    BY <1>5, <1>8, <1>9, CallStaysSound
  <2>2. CallSound(d)'
    BY <1>3, <1>5, <1>6, <1>7, <1>8 DEF CallSound
  <2>3. QED
    BY <2>1, <2>2, <1>4
<1>11. ASSUME onPage PROVE PageSound'
  <2>1. PageSound
    BY <1>11 DEF ImportInv
  <2>2. \A e, f \in pageCalls' : e.current /\ f.current => e = f
    BY <2>1, <1>4, <1>7 DEF PageSound
  <2>3. \A k \in 1 .. Len(previews) : Known(k)' <=> Known(k)
    BY <1>4, <1>8 DEF Known
  <2>4. ASSUME NEW e \in pageCalls', e.current PROVE e.op = operation' /\ ReviewSound(e)'
    <3>1. CASE e = d
      <4>1. c.op = operation /\ c.about = chosen
        BY <2>1, <2>4, <3>1, <1>3, <1>7 DEF PageSound, ReviewSound
      <4>2. Known(d.n)'
        BY <1>6, <1>7, <1>8 DEF Known
      <4>3. \A f \in pageCalls' : f.n = d.n => f = d
        BY <1>4, <1>5, <1>7, <1>9
      <4>4. QED
        BY <3>1, <4>1, <4>2, <4>3, <1>3, <1>4, <1>7 DEF ReviewSound
    <3>2. CASE e # d
      <4>1. e \in pageCalls /\ e.op = operation /\ ReviewSound(e) /\ CallSound(e)
        BY <2>1, <2>4, <3>2, <1>4, <1>9 DEF PageSound
      <4>2. e.op = "review" => e.about = chosen
        BY <4>1 DEF ReviewSound
      <4>3. ASSUME e.op = "review", e.step = "done"
            PROVE  Known(e.n)' /\ \A f \in pageCalls' : f.n = e.n => f = e
        <5>1. e.n \in 1 .. Len(previews)
          BY <4>1, <4>3, <1>5 DEF CallSound
        <5>2. Known(e.n) /\ \A f \in pageCalls : f.n = e.n => f = e
          BY <4>1, <4>3 DEF ReviewSound
        <5>3. d.n # e.n
          BY <5>1, <1>5, <1>7
        <5>4. QED
          BY <5>1, <5>2, <5>3, <2>3, <1>4
      <4>4. QED
        BY <4>1, <4>2, <4>3, <1>4 DEF ReviewSound
    <3>3. QED
      BY <3>1, <3>2
  <2>5. operation' # "none" => \E e \in pageCalls' : e.current
    BY <2>1, <1>4, <1>7 DEF PageSound
  <2>6. preview \in 0 .. Len(previews)
    BY DEF ImportInv
  <2>7. preview # 0 => previews'[preview].of = chosen
    BY <2>1, <2>6, <1>5, <1>8 DEF PageSound
  <2>8. preview # 0 => \/ Known(preview)'
                       \/ \E e \in pageCalls' : e.current /\ e.n = preview /\ e.step = "done"
    <3>1. preview # 0 => \/ Known(preview)
                         \/ \E e \in pageCalls : e.current /\ e.n = preview /\ e.step = "done"
      BY <2>1 DEF PageSound
    <3>2. preview # 0 => (Known(preview)' <=> Known(preview))
      <4>1. ASSUME preview # 0 PROVE preview \in 1 .. Len(previews)
        BY <4>1, <2>6, <1>5
      <4>2. PICK k : k = preview
        OBVIOUS
      <4>3. preview # 0 => (Known(k)' <=> Known(k))
        BY <4>1, <4>2, <2>3
      <4>4. preview' = k
        BY <4>2, <1>4
      <4>5. QED
        BY <4>2, <4>3, <4>4 DEF Known
    <3>3. \A e \in pageCalls : e.step = "done" => e \in pageCalls'
      BY <1>3, <1>4
    <3>4. QED
      BY <3>1, <3>2, <3>3
  <2>9. \A e \in pageCalls' : preview # 0 /\ e.op \in {"confirm", "cancel"} /\ e.n = preview => e.current
    BY <2>1, <1>4, <1>7 DEF PageSound
  <2>10. QED
    BY <2>2, <2>4, <2>5, <2>7, <2>8, <2>9, <1>4 DEF PageSound
<1>12. QED
  BY <1>4, <1>5, <1>7, <1>8, <1>10, <1>11 DEF ImportInv

\* A request is served or refused, and may have ended its preview.
LEMMA ServedKeeps ==
  ASSUME ImportInv, NEW c \in pageCalls, c.step = "sent", NEW s \in {"done", "refused"},
         c.op = "review" => s = "refused",
         NEW d, d = [c EXCEPT !.step = s], pageCalls' = (pageCalls \ {c}) \cup {d},
         UNCHANGED <<file, preview, complete, exportComplete, onPage, chosen, operation, unsure>>,
         previews' \in Seq(Preview), Len(previews') = Len(previews),
         \A k \in 1 .. Len(previews) : previews'[k].of = previews[k].of,
         \A k \in 1 .. Len(previews) :
           \/ previews'[k].state = previews[k].state
           \/ k = c.n /\ c.op \in {"confirm", "cancel"} /\ s = "done"
  PROVE  ImportInv'
<1>1. c \in PageCall /\ CallSound(c)
  BY DEF ImportInv
<1>2. /\ d \in PageCall
      /\ d.op = c.op /\ d.about = c.about /\ d.n = c.n /\ d.step = s /\ d.current = c.current
  BY <1>1 DEF PageCall
<1>3. Len(previews) \in Nat /\ previews \in Seq(Preview) /\ preview \in 0 .. Len(previews)
  BY LenProperties DEF ImportInv
<1>4. \A e \in pageCalls : CallSound(e) /\ e \in PageCall /\ e.n \in 0 .. Len(previews)
  BY DEF ImportInv, CallSound
<1>5. \A e \in pageCalls' : CallSound(e)'
  <2>1. \A e \in pageCalls : CallSound(e)'
    BY <1>3, <1>4, CallStaysSound
  <2>2. CallSound(d)'
    BY <1>1, <1>2, <1>3 DEF CallSound
  <2>3. QED
    BY <2>1, <2>2
<1>6. ASSUME onPage PROVE PageSound'
  <2>1. PageSound
    BY <1>6 DEF ImportInv
  <2>2. \A e, f \in pageCalls' : e.current /\ f.current => e = f
    BY <2>1, <1>2 DEF PageSound
  <2>3. \A k \in 1 .. Len(previews) : k # c.n \/ c.op \notin {"confirm", "cancel"} => (Known(k) => Known(k)')
    BY DEF Known
  <2>4. ASSUME NEW e \in pageCalls', e.current PROVE e.op = operation' /\ ReviewSound(e)'
    <3>1. CASE e = d
      <4>1. c.op = operation /\ ReviewSound(c)
        BY <2>1, <2>4, <3>1, <1>2 DEF PageSound
      <4>2. QED
        BY <3>1, <4>1, <1>2 DEF ReviewSound
    <3>2. CASE e # d
      <4>1. e \in pageCalls /\ e.op = operation /\ ReviewSound(e) /\ CallSound(e)
        BY <2>1, <2>4, <3>2, <1>4 DEF PageSound
      <4>2. e.op = "review" => e.about = chosen
        BY <4>1 DEF ReviewSound
      <4>3. ASSUME e.op = "review", e.step = "done"
            PROVE  Known(e.n)' /\ \A f \in pageCalls' : f.n = e.n => f = e
        <5>1. e.n \in 1 .. Len(previews)
          BY <4>1, <4>3, <1>3 DEF CallSound
        <5>2. Known(e.n) /\ \A f \in pageCalls : f.n = e.n => f = e
          BY <4>1, <4>3 DEF ReviewSound
        <5>3. c.n # e.n
          BY <5>2, <4>3
        <5>4. Known(e.n)'
          <6>1. PICK k : k = e.n
            OBVIOUS
          <6>2. Known(k)'
            BY <5>1, <5>2, <5>3, <6>1, <2>3
          <6>3. QED
            BY <6>1, <6>2
        <5>5. QED
          BY <5>2, <5>3, <5>4, <1>2
      <4>4. QED
        BY <4>1, <4>2, <4>3 DEF ReviewSound
    <3>3. QED
      BY <3>1, <3>2
  <2>5. operation' # "none" => \E e \in pageCalls' : e.current
    BY <2>1, <1>2 DEF PageSound
  <2>6. preview # 0 => previews'[preview].of = chosen
    BY <2>1, <1>3 DEF PageSound
  <2>7. ASSUME preview # 0
        PROVE  \/ previews'[preview].state = "open" \/ preview \in unsure
               \/ \E e \in pageCalls' : e.current /\ e.n = preview /\ e.step = "done"
    <3>1. preview \in 1 .. Len(previews)
      BY <2>7, <1>3
    <3>2. CASE previews'[preview].state = previews[preview].state
      <4>1. \/ Known(preview)
            \/ \E e \in pageCalls : e.current /\ e.n = preview /\ e.step = "done"
        BY <2>1, <2>7 DEF PageSound
      <4>2. \A e \in pageCalls : e.step = "done" => e \in pageCalls'
        OBVIOUS
      <4>3. QED
        BY <3>2, <4>1, <4>2 DEF Known
    <3>3. CASE preview = c.n /\ c.op \in {"confirm", "cancel"} /\ s = "done"
      <4>1. c.current
        BY <2>1, <2>7, <3>3 DEF PageSound
      <4>2. QED
        BY <3>3, <4>1, <1>2
    <3>4. QED
      BY <3>1, <3>2, <3>3
  <2>8. \A e \in pageCalls' : preview # 0 /\ e.op \in {"confirm", "cancel"} /\ e.n = preview => e.current
    <3>1. \A e \in pageCalls : preview # 0 /\ e.op \in {"confirm", "cancel"} /\ e.n = preview => e.current
      BY <2>1 DEF PageSound
    <3>2. QED
      BY <3>1, <1>2
  <2>9. QED
    BY <2>2, <2>4, <2>5, <2>6, <2>7, <2>8 DEF PageSound, Known
<1>7. QED
  BY <1>2, <1>3, <1>5, <1>6 DEF ImportInv

\* The server does what was asked, or does not.
LEMMA ServingKeeps ==
  ASSUME ImportInv, NEW c \in pageCalls, ServeEnd(c) \/ ServeExport(c) \/ Refuse(c)
  PROVE  ImportInv'
<1>1. c \in PageCall /\ CallSound(c)
  BY DEF ImportInv
<1>2. Len(previews) \in Nat /\ previews \in Seq(Preview)
  BY LenProperties DEF ImportInv
<1>3. CASE ServeEnd(c)
  <2>1. PICK d : d = [c EXCEPT !.step = "done"]
    OBVIOUS
  <2>2. PICK v : v = IF c.op = "confirm" THEN "applied" ELSE "gone"
    OBVIOUS
  <2>3. PICK n : n = c.n
    OBVIOUS
  <2>4. /\ c.op \in {"confirm", "cancel"} /\ c.step = "sent"
        /\ pageCalls' = (pageCalls \ {c}) \cup {d}
        /\ UNCHANGED <<file, preview, complete, exportComplete, onPage, chosen, operation, unsure>>
    BY <1>3, <2>1 DEF ServeEnd, Serve, page
  <2>5. previews' = [previews EXCEPT ![n].state = v]
    BY <1>3, <2>2, <2>3 DEF ServeEnd
  <2>6. v \in {"open", "applied", "gone"} /\ n \in 1 .. Len(previews)
    BY <2>2, <2>3, <2>4, <1>1, <1>2 DEF CallSound
  <2>7. PICK t : t = previews'
    OBVIOUS
  <2>8. t = [previews EXCEPT ![n].state = v]
    BY <2>5, <2>7
  <2>9. t \in Seq(Preview) /\ Len(t) = Len(previews)
    <3>1. previews \in [1 .. Len(previews) -> Preview]
      BY <1>2, LenProperties
    <3>2. t \in [1 .. Len(previews) -> Preview]
      BY <2>6, <2>8, <3>1 DEF Preview
    <3>3. QED
      BY <1>2, <3>2, SeqDef, LenProperties
  <2>10. \A k \in 1 .. Len(previews) : t[k].of = previews[k].of /\ (k # n => t[k] = previews[k])
    BY <1>2, <2>6, <2>8, EndOfPreview
  <2>11. \A k \in 1 .. Len(previews) : t[k].state = previews[k].state \/ k = c.n
    BY <2>3, <2>10
  <2>12. /\ previews' \in Seq(Preview) /\ Len(previews') = Len(previews)
         /\ \A k \in 1 .. Len(previews) :
              previews'[k].of = previews[k].of /\ (previews'[k].state = previews[k].state \/ k = c.n)
    BY <2>7, <2>9, <2>10, <2>11
  <2>13. QED
    BY <2>1, <2>4, <2>12, ServedKeeps
<1>4. CASE ServeExport(c)
  <2>1. PICK d : d = [c EXCEPT !.step = "done"]
    OBVIOUS
  <2>2. QED
    BY <1>2, <1>4, <2>1, ServedKeeps DEF ServeExport, Serve, page
<1>5. CASE Refuse(c)
  <2>1. PICK d : d = [c EXCEPT !.step = "refused"]
    OBVIOUS
  <2>2. QED
    BY <1>2, <1>5, <2>1, ServedKeeps DEF Refuse, Serve, page
<1>6. QED
  BY <1>3, <1>4, <1>5

\* A preview ends at the server.
LEMMA PreviewEndsKeeps ==
  ASSUME ImportInv, NEW n \in 1 .. MaxPreviews, PreviewEnds(n)
  PROVE  ImportInv'
<1>1. /\ n \in DOMAIN previews /\ previews' = [previews EXCEPT ![n].state = "gone"]
      /\ unsure' = unsure \cup {n}
      /\ UNCHANGED <<file, preview, complete, exportComplete, onPage, chosen, operation, pageCalls>>
  BY DEF PreviewEnds, page
<1>2. Len(previews) \in Nat /\ previews \in Seq(Preview) /\ n \in 1 .. Len(previews)
      /\ preview \in 0 .. Len(previews)
  BY <1>1, LenProperties DEF ImportInv
<1>3. PICK t : t = previews'
  OBVIOUS
<1>4. t = [previews EXCEPT ![n].state = "gone"]
  BY <1>1, <1>3
<1>5. previews \in [1 .. Len(previews) -> Preview]
  BY <1>2, LenProperties
<1>6. t \in [1 .. Len(previews) -> Preview]
  BY <1>2, <1>4, <1>5 DEF Preview
<1>7. t \in Seq(Preview) /\ Len(t) = Len(previews)
  BY <1>2, <1>6, SeqDef, LenProperties
<1>8. \A k \in 1 .. Len(previews) : t[k].of = previews[k].of /\ (k # n => t[k] = previews[k])
  BY <1>2, <1>4, <1>5 DEF Preview
<1>9. /\ previews' \in Seq(Preview) /\ Len(previews') = Len(previews)
      /\ \A k \in 1 .. Len(previews) : previews'[k].of = previews[k].of /\ (k # n => previews'[k] = previews[k])
  BY <1>3, <1>7, <1>8
<1>10. \A e \in pageCalls : CallSound(e) /\ e \in PageCall
  BY DEF ImportInv
<1>11. \A e \in pageCalls' : CallSound(e)'
  BY <1>1, <1>2, <1>9, <1>10, CallStaysSound
<1>12. \A k \in 1 .. Len(previews) : Known(k) => Known(k)'
  BY <1>1, <1>9 DEF Known
<1>13. ASSUME onPage PROVE PageSound'
  <2>1. PageSound
    BY <1>13 DEF ImportInv
  <2>2. ASSUME NEW e \in pageCalls, e.current PROVE e.op = operation /\ ReviewSound(e)'
    <3>1. e.op = operation /\ ReviewSound(e) /\ CallSound(e)
      BY <2>1, <2>2, <1>10 DEF PageSound
    <3>2. ASSUME e.op = "review", e.step = "done"
          PROVE  Known(e.n)' /\ \A f \in pageCalls' : f.n = e.n => f = e
      <4>1. PICK k : k = e.n
        OBVIOUS
      <4>2. k \in 1 .. Len(previews)
        BY <3>1, <3>2, <4>1, <1>2 DEF CallSound
      <4>3. Known(k) /\ \A f \in pageCalls : f.n = e.n => f = e
        BY <3>1, <3>2, <4>1 DEF ReviewSound
      <4>4. Known(k)'
        BY <4>2, <4>3, <1>12
      <4>5. QED
        BY <4>1, <4>3, <4>4, <1>1
    <3>3. QED
      BY <3>1, <3>2, <1>1 DEF ReviewSound
  <2>3. preview # 0 => previews'[preview].of = chosen
    BY <2>1, <1>2, <1>9 DEF PageSound
  <2>4. ASSUME preview # 0
        PROVE  \/ previews'[preview].state = "open" \/ preview \in unsure'
               \/ \E e \in pageCalls : e.current /\ e.n = preview /\ e.step = "done"
    <3>1. PICK k : k = preview
      OBVIOUS
    <3>2. k \in 1 .. Len(previews)
      BY <2>4, <3>1, <1>2
    <3>3. Known(k) => Known(k)'
      BY <3>2, <1>12
    <3>4. Known(k) \/ \E e \in pageCalls : e.current /\ e.n = preview /\ e.step = "done"
      BY <2>1, <2>4, <3>1 DEF PageSound
    <3>5. QED
      BY <3>1, <3>3, <3>4 DEF Known
  <2>5. QED
    BY <2>1, <2>2, <2>3, <2>4, <1>1 DEF PageSound, Known
<1>14. QED
  BY <1>1, <1>2, <1>9, <1>10, <1>11, <1>13 DEF ImportInv

\* An answer comes, or an error: the request is settled, or the collection read.
LEMMA SettledKeeps ==
  ASSUME ImportInv, NEW c \in pageCalls, UNCHANGED <<previews, chosen, onPage>>,
         NEW R \in SUBSET PageCall, pageCalls' = (pageCalls \ {c}) \cup R,
         \A d \in R : d.current = c.current /\ d.op = c.op /\ d.n = c.n /\ d.step = "after" /\ c.op = "confirm",
         \A d, e \in R : d = e,
         R # {} => preview' = 0,
         operation' = IF c.current /\ R = {} THEN "none" ELSE operation,
         preview' \in {0, preview, c.n}, file' \in {NoFile, file},
         complete' \in BOOLEAN, exportComplete' \in BOOLEAN,
         unsure \subseteq unsure', unsure' \subseteq unsure \cup {c.n},
         unsure' # unsure => c.op \in {"confirm", "cancel"},
         preview' # 0 /\ preview' # preview => c.op = "review" /\ c.step = "done" /\ c.current,
         c.current /\ c.step = "done" /\ c.op \in {"confirm", "cancel"} /\ c.n # 0 => c.n \in unsure' \/ preview' = 0
  PROVE  ImportInv'
<1>1. c \in PageCall /\ CallSound(c) /\ Len(previews) \in Nat
  BY LenProperties DEF ImportInv
<1>2. \A e \in pageCalls : CallSound(e) /\ e \in PageCall
  BY DEF ImportInv
<1>3. \A e \in pageCalls' : CallSound(e)' /\ e \in PageCall
  BY <1>1, <1>2 DEF CallSound
<1>4. unsure' \subseteq 1 .. Len(previews)
  BY <1>1 DEF CallSound, ImportInv
<1>5. operation' \in Operations \cup {"none"} /\ preview' \in 0 .. Len(previews) /\ file' \in {NoFile, chosen}
  BY <1>1 DEF CallSound, ImportInv
<1>6. \A k : Known(k) => Known(k)'
  BY DEF Known
<1>7. ASSUME onPage PROVE PageSound'
  <2>1. PageSound
    BY <1>7 DEF ImportInv
  <2>2. \A e, f \in pageCalls' : e.current /\ f.current => e = f
    BY <2>1 DEF PageSound
  <2>3. ASSUME NEW e \in pageCalls', e.current PROVE e.op = operation' /\ ReviewSound(e)'
    <3>1. CASE e \in R
      <4>1. c.current /\ c.op = operation /\ e.op # "review"
        BY <2>1, <2>3, <3>1 DEF PageSound
      <4>2. QED
        BY <3>1, <4>1 DEF ReviewSound
    <3>2. CASE e \notin R
      <4>1. e \in pageCalls /\ e # c /\ ~c.current
        BY <2>1, <2>3, <3>2 DEF PageSound
      <4>2. e.op = operation /\ ReviewSound(e)
        BY <2>1, <2>3, <4>1 DEF PageSound
      <4>3. e.op = "review" /\ e.step = "done" => \A f \in pageCalls' : f.n = e.n => f = e
        <5>1. ASSUME e.op = "review", e.step = "done", NEW f \in pageCalls', f.n = e.n PROVE f = e
          <6>1. \A g \in pageCalls : g.n = e.n => g = e
            BY <4>2, <5>1 DEF ReviewSound
          <6>2. f \notin R
            BY <4>1, <5>1, <6>1
          <6>3. QED
            BY <5>1, <6>1, <6>2
        <5>2. QED
          BY <5>1
      <4>4. QED
        BY <4>1, <4>2, <4>3, <1>6 DEF ReviewSound
    <3>3. QED
      BY <3>1, <3>2
  <2>4. operation' # "none" => \E e \in pageCalls' : e.current
    <3>1. CASE c.current /\ R # {}
      BY <3>1
    <3>2. CASE c.current /\ R = {}
      BY <3>2
    <3>3. CASE ~c.current
      BY <3>3, <2>1 DEF PageSound
    <3>4. QED
      BY <3>1, <3>2, <3>3
  <2>5. CASE preview' = 0
    BY <2>2, <2>3, <2>4, <2>5 DEF PageSound
  <2>6. CASE preview' # 0 /\ preview' = preview
    <3>1. R = {}
      BY <2>6
    <3>2. previews'[preview].of = chosen'
      BY <2>1, <2>6 DEF PageSound
    <3>3. Known(preview) \/ \E e \in pageCalls : e.current /\ e.n = preview /\ e.step = "done"
      BY <2>1, <2>6 DEF PageSound
    <3>4. ASSUME c.current, c.n = preview, c.step = "done" PROVE Known(preview)'
      <4>1. c.op # "export"
        BY <3>4, <2>6, <1>1 DEF CallSound
      <4>2. CASE c.op = "review"
        <5>1. Known(c.n)
          BY <2>1, <3>4, <4>2 DEF PageSound, ReviewSound
        <5>2. QED
          BY <5>1, <3>4, <2>6 DEF Known
      <4>3. CASE c.op \in {"confirm", "cancel"}
        <5>1. c.n \in unsure'
          BY <3>4, <4>3, <2>6
        <5>2. QED
          BY <5>1, <3>4, <2>6 DEF Known
      <4>4. QED
        BY <4>1, <4>2, <4>3, <1>1 DEF PageCall, Operations
    <3>5. Known(preview)' \/ \E e \in pageCalls' : e.current /\ e.n = preview' /\ e.step = "done"
      BY <3>3, <3>4, <2>6 DEF Known
    <3>6. \A e \in pageCalls' : e.op \in {"confirm", "cancel"} /\ e.n = preview' => e.current
      BY <2>1, <2>6, <3>1 DEF PageSound
    <3>7. QED
      BY <2>2, <2>3, <2>4, <2>6, <3>2, <3>5, <3>6 DEF PageSound
  <2>7. CASE preview' # 0 /\ preview' # preview
    <3>1. /\ c.op = "review" /\ c.step = "done" /\ c.current /\ preview' = c.n /\ R = {}
      BY <2>7
    <3>2. c.about = chosen /\ Known(c.n) /\ \A d \in pageCalls : d.n = c.n => d = c
      BY <2>1, <3>1 DEF PageSound, ReviewSound
    <3>3. previews'[preview'].of = chosen'
      BY <1>1, <3>1, <3>2 DEF CallSound
    <3>4. Known(preview)'
      BY <3>1, <3>2 DEF Known
    <3>5. \A e \in pageCalls' : e.op \in {"confirm", "cancel"} /\ e.n = preview' => e.current
      BY <3>1, <3>2
    <3>6. QED
      BY <2>2, <2>3, <2>4, <3>3, <3>4, <3>5 DEF PageSound
  <2>8. QED
    BY <2>5, <2>6, <2>7
<1>8. QED
  BY <1>1, <1>3, <1>4, <1>5, <1>7 DEF ImportInv

\* An answer is heard, or is not.
LEMMA AnswersKeep ==
  ASSUME ImportInv, NEW c \in pageCalls,
         \/ NotHeard(c) \/ ReviewAnswered(c) \/ ConfirmAnswered(c)
         \/ CollectionRead(c) \/ ExportAnswered(c) \/ CallFailed(c)
  PROVE  ImportInv'
<1>1. /\ c \in PageCall /\ CallSound(c) /\ {} \in SUBSET PageCall
      /\ complete \in BOOLEAN /\ exportComplete \in BOOLEAN
  BY DEF ImportInv
<1>2. pageCalls \ {c} = (pageCalls \ {c}) \cup {}
  OBVIOUS
<1>3. CASE NotHeard(c)
  BY <1>1, <1>2, <1>3, SettledKeeps DEF NotHeard, page
<1>4. CASE ReviewAnswered(c)
  BY <1>1, <1>2, <1>4, SettledKeeps DEF ReviewAnswered, Settle
<1>5. CASE ConfirmAnswered(c)
  <2>1. PICK d : d = [c EXCEPT !.step = "after"]
    OBVIOUS
  <2>2. d \in PageCall /\ d.op = c.op /\ d.n = c.n /\ d.step = "after" /\ d.current = c.current
    BY <1>1, <2>1 DEF PageCall
  <2>3. /\ pageCalls' = (pageCalls \ {c}) \cup {d} /\ c.op = "confirm" /\ c.current
        /\ complete' = TRUE /\ preview' = 0
        /\ UNCHANGED <<previews, file, operation, exportComplete, onPage, chosen, unsure>>
    BY <1>5, <2>1 DEF ConfirmAnswered
  <2>4. PICK R : R = {d}
    OBVIOUS
  <2>5. R \in SUBSET PageCall /\ R # {} /\ pageCalls' = (pageCalls \ {c}) \cup R
    BY <2>2, <2>3, <2>4
  <2>6. \A e \in R : e.current = c.current /\ e.op = c.op /\ e.n = c.n /\ e.step = "after" /\ c.op = "confirm"
    BY <2>2, <2>3, <2>4
  <2>7. \A e, f \in R : e = f
    BY <2>4
  <2>8. QED
    BY <1>1, <2>3, <2>5, <2>6, <2>7, SettledKeeps
<1>6. CASE CollectionRead(c)
  BY <1>1, <1>2, <1>6, SettledKeeps DEF CollectionRead, Settle, page
<1>7. CASE ExportAnswered(c)
  BY <1>1, <1>2, <1>7, SettledKeeps DEF ExportAnswered, Settle
<1>8. CASE CallFailed(c)
  <2>1. /\ pageCalls' = (pageCalls \ {c}) \cup {}
        /\ operation' = IF c.current /\ {} = {} THEN "none" ELSE operation
        /\ UNCHANGED <<previews, file, preview, complete, exportComplete, onPage, chosen>>
    BY <1>8, <1>2 DEF CallFailed, Settle, page
  <2>2. unsure' = IF c.step = "done" /\ c.op \in {"confirm", "cancel"} THEN unsure \cup {c.n} ELSE unsure
    BY <1>8 DEF CallFailed
  <2>3. /\ unsure \subseteq unsure' /\ unsure' \subseteq unsure \cup {c.n}
        /\ unsure' # unsure => c.op \in {"confirm", "cancel"}
        /\ c.step = "done" /\ c.op \in {"confirm", "cancel"} => c.n \in unsure'
    BY <2>2
  <2>4. QED
    BY <1>1, <2>1, <2>3, SettledKeeps
<1>9. QED
  BY <1>3, <1>4, <1>5, <1>6, <1>7, <1>8

\* Every step of the page keeps the invariant.
LEMMA ImportInvInductive ==
  ASSUME ImportInv, [ImportPageNext]_importVars
  PROVE  ImportInv'
<1>1. CASE UNCHANGED importVars
  BY <1>1 DEF ImportInv, importVars, PageSound, CallSound, ReviewSound, Known
<1>2. CASE ImportPageNext
  BY <1>2, ChooseFileKeeps, BeginningsKeep, ImportAnotherKeeps, LeavePageKeeps, ServeReviewKeeps, ServingKeeps,
     AnswersKeep, CancelAnsweredKeeps, PreviewEndsKeeps DEF ImportPageNext
<1>3. QED
  BY <1>1, <1>2

\* The invariant holds from the start.
LEMMA ImportInvHolds == ImportPageSpec => []ImportInv
<1>1. ImportPageInit => ImportInv
  <2> SUFFICES ASSUME ImportPageInit PROVE ImportInv
    OBVIOUS
  <2>1. previews \in Seq(Preview) /\ Len(previews) = 0
    BY EmptySeq DEF ImportPageInit
  <2>2. Len(previews) <= MaxPreviews /\ preview \in 0 .. Len(previews) /\ unsure \subseteq 1 .. Len(previews)
    BY <2>1, ImportPageAssumption DEF ImportPageInit
  <2>3. PageSound
    BY DEF ImportPageInit, PageSound
  <2>4. pageCalls = {} /\ operation \in Operations \cup {"none"} /\ file \in {NoFile, chosen}
        /\ chosen \in Files \cup {NoFile}
        /\ complete \in BOOLEAN /\ exportComplete \in BOOLEAN /\ onPage \in BOOLEAN
    BY DEF ImportPageInit
  <2>5. QED
    BY <2>1, <2>2, <2>3, <2>4 DEF ImportInv
<1>2. QED
  BY <1>1, ImportInvInductive, PTL DEF ImportPageSpec

\* What is reviewed and confirmed is the file chosen last, and the page is busy exactly
\* while it waits for an answer, for any number of files, previews and requests.
THEOREM ImportReviewsWhatWasChosen == ImportPageSpec => [](ImportPageTypeOK /\ ReviewedIsChosen)
<1>1. ImportInv => ImportPageTypeOK
  <2> SUFFICES ASSUME ImportInv PROVE ImportPageTypeOK
    OBVIOUS
  <2>1. Len(previews) \in Nat /\ DOMAIN previews = 1 .. Len(previews)
        /\ \A n \in DOMAIN previews : previews[n] \in Preview
    BY LenProperties DEF ImportInv
  <2>2. 0 .. Len(previews) \subseteq 0 .. MaxPreviews /\ 1 .. Len(previews) \subseteq 1 .. MaxPreviews
    BY <2>1, ImportPageAssumption DEF ImportInv
  <2>3. QED
    BY <2>1, <2>2 DEF ImportInv, ImportPageTypeOK, PageCall
<1>2. ImportInv => ReviewedIsChosen
  BY DEF ImportInv, PageSound, ReviewedIsChosen, Known
<1>3. QED
  BY <1>1, <1>2, ImportInvHolds, PTL

-----------------------------------------------------------------------------
(* The page of a deck.                                                     *)

Mutation == [kind : MutationKinds, id : Decks, rev : 0 .. MaxDeckRevision,
             step : {"sent", "done", "stale", "failed", "reading", "refreshing"}, current : BOOLEAN]

\* The load and the change that will be heard are of the deck of the route, and nothing
\* that the page was told of a deck is newer than the deck.
DeckSound ==
  /\ deck.id \in {deckRoute, NoDeckId}
  /\ deckLoad # NoDeckLoad => deckLoad.id = deckRoute
  /\ busy = mutationActive /\ searching = searchAwaited
  /\ mutationActive <=> \E m \in mutations : m.current
  /\ \A m, n \in mutations : m.current /\ n.current => m = n
  /\ \A m \in mutations : m.current => m.id = deckRoute
  /\ acknowledged <= deckRevision[deckRoute]
  /\ deck.rev >= acknowledged \/ overtaken

DeckInv ==
  /\ deckRevision \in [Decks -> 1 .. MaxDeckRevision]
  /\ deckRoute \in Decks \cup {NoDeckId}
  /\ deck.id \in Decks \cup {NoDeckId} /\ deck.rev \in 0 .. MaxDeckRevision
  /\ deckLoad # NoDeckLoad => deckLoad \in [id : Decks, rev : 0 .. MaxDeckRevision]
  /\ mutations \subseteq Mutation
  /\ acknowledged \in 0 .. MaxDeckRevision
  /\ {loadFailed, refreshFailed, mutationActive, busy, searching, searchAwaited, overtaken} \subseteq BOOLEAN
  /\ \A m \in mutations : m.step \in {"done", "reading"} => m.rev <= deckRevision[m.id]
  /\ deckRoute # NoDeckId => DeckSound

\* A change that is given up is what it was, but for being heard.
LEMMA GivenUpChanges ==
  ASSUME mutations \subseteq Mutation, NEW e \in GivenUp
  PROVE  /\ e \in Mutation /\ ~e.current
         /\ \E m \in mutations : e.id = m.id /\ e.rev = m.rev /\ e.step = m.step
<1>1. PICK m \in mutations : e = [m EXCEPT !.current = FALSE]
  BY DEF GivenUp
<1>2. m \in Mutation
  OBVIOUS
<1>3. QED
  BY <1>1, <1>2 DEF Mutation

\* The route leads to a deck, or away.
LEMMA RouteKeeps ==
  ASSUME DeckInv, (\E d \in Decks : OpenDeck(d)) \/ CloseDeck
  PROVE  DeckInv'
<1>1. \A e \in GivenUp :
        /\ e \in Mutation /\ ~e.current
        /\ \E m \in mutations : e.id = m.id /\ e.rev = m.rev /\ e.step = m.step
  BY GivenUpChanges DEF DeckInv
<1>2. \A e \in GivenUp : e.step \in {"done", "reading"} => e.rev <= deckRevision[e.id]
  BY <1>1 DEF DeckInv
<1>3. CASE CloseDeck
  <2>1. mutations' = GivenUp /\ deckLoad' = NoDeckLoad /\ deckRoute' = NoDeckId /\ mutationActive' = FALSE
        /\ searchAwaited' = FALSE
        /\ UNCHANGED <<deckRevision, deck, loadFailed, refreshFailed, busy, searching, acknowledged, overtaken>>
    BY <1>3 DEF CloseDeck
  <2>2. QED
    BY <1>1, <1>2, <2>1 DEF DeckInv
<1>4. ASSUME NEW d \in Decks, OpenDeck(d) PROVE DeckInv'
  <2>1. /\ deckRoute' = d /\ deck' = NotShown /\ deckLoad' = [id |-> d, rev |-> 0] /\ mutations' = GivenUp
        /\ mutationActive' = FALSE /\ busy' = FALSE /\ searching' = FALSE /\ searchAwaited' = FALSE
        /\ refreshFailed' = FALSE /\ loadFailed' = FALSE /\ acknowledged' = 0 /\ overtaken' = FALSE
        /\ UNCHANGED deckRevision
    BY <1>4 DEF OpenDeck, LoadOf
  <2>2. 0 \in 0 .. MaxDeckRevision /\ deckRevision[d] \in 1 .. MaxDeckRevision
    BY DeckPageAssumption DEF DeckInv
  <2>3. deck'.id = NoDeckId /\ deck'.rev = 0
    BY <2>1 DEF NotShown
  <2>4. deckLoad' \in [id : Decks, rev : 0 .. MaxDeckRevision] /\ deckLoad'.id = d
    BY <2>1, <2>2
  <2>5. DeckSound'
    <3>1. acknowledged' <= deckRevision'[deckRoute'] /\ deck'.rev >= acknowledged'
      BY <2>1, <2>2, <2>3
    <3>2. mutationActive' <=> \E m \in mutations' : m.current
      BY <1>1, <2>1
    <3>3. \A m \in mutations' : ~m.current
      BY <1>1, <2>1
    <3>4. deck'.id \in {deckRoute', NoDeckId} /\ (deckLoad' # NoDeckLoad => deckLoad'.id = deckRoute')
      BY <2>1, <2>3, <2>4
    <3>5. QED
      BY <2>1, <3>1, <3>2, <3>3, <3>4 DEF DeckSound
  <2>6. QED
    BY <1>1, <1>2, <2>1, <2>2, <2>3, <2>4, <2>5 DEF DeckInv
<1>5. QED
  BY <1>3, <1>4

\* The deck of the route is loaded, as it was when it was read.
LEMMA LoadingKeeps ==
  ASSUME DeckInv, RetryLoad \/ ReadDeck \/ DeckLoaded \/ LoadLost
  PROVE  DeckInv'
<1>1. UNCHANGED <<deckRevision, deckRoute, mutations, mutationActive, busy, searching, searchAwaited, acknowledged>>
  BY DEF RetryLoad, ReadDeck, DeckLoaded, LoadLost, otherThanLoad
<1>2. CASE RetryLoad
  <2>1. /\ deckRoute # NoDeckId /\ deckLoad' = [id |-> deckRoute, rev |-> 0] /\ loadFailed' = FALSE
        /\ UNCHANGED <<deck, refreshFailed, overtaken>>
    BY <1>2 DEF RetryLoad, LoadOf
  <2>2. deckLoad' \in [id : Decks, rev : 0 .. MaxDeckRevision] /\ deckLoad'.id = deckRoute
    BY <2>1, DeckPageAssumption DEF DeckInv
  <2>3. QED
    BY <1>1, <2>1, <2>2 DEF DeckInv, DeckSound
<1>3. CASE ReadDeck
  <2>1. /\ deckLoad # NoDeckLoad /\ deckLoad' = [deckLoad EXCEPT !.rev = deckRevision[deckLoad.id]]
        /\ UNCHANGED <<deck, loadFailed, refreshFailed, overtaken>>
    BY <1>3 DEF ReadDeck
  <2>2. deckLoad' \in [id : Decks, rev : 0 .. MaxDeckRevision] /\ deckLoad'.id = deckLoad.id
    BY <2>1, DeckPageAssumption DEF DeckInv
  <2>3. QED
    BY <1>1, <2>1, <2>2 DEF DeckInv, DeckSound
<1>4. CASE DeckLoaded
  <2>1. /\ deckLoad # NoDeckLoad /\ deck' = deckLoad /\ deckLoad' = NoDeckLoad /\ refreshFailed' = FALSE
        /\ overtaken' = (overtaken \/ deckLoad.rev < acknowledged) /\ UNCHANGED loadFailed
    BY <1>4 DEF DeckLoaded
  <2>2. deckLoad.id \in Decks /\ deckLoad.rev \in 0 .. MaxDeckRevision /\ acknowledged \in 0 .. MaxDeckRevision
    BY <2>1 DEF DeckInv
  <2>3. overtaken' \in BOOLEAN /\ (deckLoad.rev >= acknowledged \/ overtaken')
    <3>1. deckLoad.rev >= acknowledged \/ deckLoad.rev < acknowledged
      BY <2>2, DeckPageAssumption
    <3>2. overtaken \in BOOLEAN
      BY DEF DeckInv
    <3>3. QED
      BY <2>1, <3>1, <3>2, Zenon
  <2>4. deckRoute # NoDeckId => deckLoad.id = deckRoute
    BY <2>1 DEF DeckInv, DeckSound
  <2>5. QED
    BY <1>1, <2>1, <2>2, <2>3, <2>4 DEF DeckInv, DeckSound
<1>5. CASE LoadLost
  <2>1. deckLoad' = NoDeckLoad /\ loadFailed' = TRUE /\ UNCHANGED <<deck, refreshFailed, overtaken>>
    BY <1>5 DEF LoadLost
  <2>2. QED
    BY <1>1, <2>1 DEF DeckInv, DeckSound
<1>6. QED
  BY <1>2, <1>3, <1>4, <1>5

\* A search is the page's own business.
LEMMA SearchingKeeps ==
  ASSUME DeckInv, RunSearch \/ SearchAnswered
  PROVE  DeckInv'
<1>1. /\ UNCHANGED <<deckRevision, deckRoute, deck, deckLoad, loadFailed, refreshFailed, mutations,
                     mutationActive, busy, acknowledged, overtaken>>
      /\ searching' = searchAwaited' /\ searching' \in BOOLEAN
  BY DEF RunSearch, SearchAnswered, otherThanSearch
<1>2. QED
  BY <1>1 DEF DeckInv, DeckSound

\* The lock lets one change of the deck shown begin.
LEMMA BeginMutationKeeps ==
  ASSUME DeckInv, NEW kind \in MutationKinds, BeginMutation(kind)
  PROVE  DeckInv'
<1> DEFINE b == [kind |-> kind, id |-> deckRoute, rev |-> deck.rev, step |-> "sent", current |-> TRUE]
<1>1. /\ deckRoute # NoDeckId /\ ~mutationActive /\ mutations' = mutations \cup {b}
      /\ mutationActive' = TRUE /\ busy' = TRUE /\ refreshFailed' = FALSE
      /\ UNCHANGED <<deckRoute, deckLoad, searching, searchAwaited, deckRevision, deck, loadFailed, acknowledged,
                     overtaken>>
  BY DEF BeginMutation, otherThanChanging, Shown
<1>2. b \in Mutation /\ b.current /\ b.id = deckRoute /\ b.step = "sent"
  BY <1>1 DEF DeckInv, Mutation
<1> HIDE DEF b
<1>3. DeckSound
  BY <1>1 DEF DeckInv
<1>4. \A m \in mutations : ~m.current
  BY <1>1, <1>3 DEF DeckSound
<1>5. mutationActive' <=> \E m \in mutations' : m.current
  BY <1>1, <1>2
<1>6. /\ \A m, n \in mutations' : m.current /\ n.current => m = n
      /\ \A m \in mutations' : m.current => m.id = deckRoute'
  BY <1>1, <1>2, <1>4
<1>7. busy' = mutationActive'
  BY <1>1
<1>8. DeckSound'
  BY <1>1, <1>3, <1>5, <1>6, <1>7 DEF DeckSound
<1>9. QED
  BY <1>1, <1>2, <1>8 DEF DeckInv

\* A change has got on, and its deck with it.
LEMMA ServedDeckKeeps ==
  ASSUME DeckInv, deckRevision' \in [Decks -> 1 .. MaxDeckRevision],
         \A d \in Decks : deckRevision[d] <= deckRevision'[d],
         NEW m \in mutations, NEW n \in Mutation, n.current = m.current, n.id = m.id,
         n.step \in {"done", "reading"} => n.rev <= deckRevision'[n.id],
         mutations' = (mutations \ {m}) \cup {n},
         UNCHANGED <<deckRoute, deckLoad, searching, searchAwaited, deck, loadFailed, refreshFailed, mutationActive,
                     busy, acknowledged, overtaken>>
  PROVE  DeckInv'
<1>1. mutations' \subseteq Mutation /\ mutations \subseteq Mutation
  BY DEF DeckInv
<1>2. \A d \in Decks : deckRevision[d] \in Nat /\ deckRevision'[d] \in Nat /\ deckRevision[d] <= deckRevision'[d]
  BY DeckPageAssumption DEF DeckInv
<1>3. \A k \in mutations' : k.step \in {"done", "reading"} => k.rev <= deckRevision'[k.id]
  <2>1. \A k \in mutations : k.step \in {"done", "reading"} => k.rev <= deckRevision'[k.id]
    <3>1. ASSUME NEW k \in mutations, k.step \in {"done", "reading"} PROVE k.rev <= deckRevision'[k.id]
      <4>1. k.id \in Decks /\ k.rev \in Nat /\ k.rev <= deckRevision[k.id]
        BY <3>1, <1>1, DeckPageAssumption DEF Mutation, DeckInv
      <4>2. QED
        BY <4>1, <1>2
    <3>2. QED
      BY <3>1
  <2>2. QED
    BY <2>1
<1>4. ASSUME deckRoute # NoDeckId PROVE DeckSound'
  <2>1. DeckSound /\ deckRoute \in Decks /\ acknowledged \in Nat
    BY <1>4, DeckPageAssumption DEF DeckInv
  <2>2. acknowledged <= deckRevision'[deckRoute]
    BY <2>1, <1>2 DEF DeckSound
  <2>3. /\ mutationActive <=> \E k \in mutations : k.current
        /\ \A k, l \in mutations : k.current /\ l.current => k = l
        /\ \A k \in mutations : k.current => k.id = deckRoute
    BY <2>1 DEF DeckSound
  <2>4. (\E k \in mutations' : k.current) <=> (\E k \in mutations : k.current)
    OBVIOUS
  <2>5. \A k, l \in mutations' : k.current /\ l.current => k = l
    BY <2>3
  <2>6. \A k \in mutations' : k.current => k.id = deckRoute
    BY <2>3
  <2>7. mutationActive <=> \E k \in mutations' : k.current
    BY <2>3, <2>4, Zenon
  <2>8. QED
    BY <2>1, <2>2, <2>5, <2>6, <2>7 DEF DeckSound
<1>5. QED
  BY <1>1, <1>3, <1>4 DEF DeckInv

\* The server makes or refuses a change, and somebody else may make one.
LEMMA ServerKeeps ==
  ASSUME DeckInv,
         \/ \E d \in Decks : OthersChangeDeck(d)
         \/ \E m \in mutations : \E done \in BOOLEAN : ServeMutation(m, done)
  PROVE  DeckInv'
<1>1. deckRevision \in [Decks -> 1 .. MaxDeckRevision] /\ mutations \subseteq Mutation
  BY DEF DeckInv
<1>3. ASSUME NEW d \in Decks, OthersChangeDeck(d) PROVE DeckInv'
  <2>1. /\ deckRevision[d] < MaxDeckRevision /\ deckRevision' = [deckRevision EXCEPT ![d] = @ + 1]
        /\ UNCHANGED <<deckRoute, deckLoad, searching, searchAwaited, deck, loadFailed, refreshFailed, mutations,
                       mutationActive, busy, acknowledged, overtaken>>
    BY <1>3 DEF OthersChangeDeck, otherThanChanging
  <2>2. deckRevision' \in [Decks -> 1 .. MaxDeckRevision] /\ \A e \in Decks : deckRevision[e] <= deckRevision'[e]
    BY <1>1, <2>1, DeckPageAssumption
  <2>3. \A k \in mutations' : k.step \in {"done", "reading"} => k.rev <= deckRevision'[k.id]
    <3>1. ASSUME NEW k \in mutations, k.step \in {"done", "reading"} PROVE k.rev <= deckRevision'[k.id]
      <4>1. k.id \in Decks /\ k.rev \in Nat /\ k.rev <= deckRevision[k.id]
        BY <3>1, <1>1, DeckPageAssumption DEF Mutation, DeckInv
      <4>2. deckRevision[k.id] \in Nat /\ deckRevision'[k.id] \in Nat /\ deckRevision[k.id] <= deckRevision'[k.id]
        BY <4>1, <1>1, <2>2, DeckPageAssumption
      <4>3. QED
        BY <4>1, <4>2
    <3>2. QED
      BY <2>1, <3>1
  <2>4. ASSUME deckRoute # NoDeckId PROVE DeckSound'
    <3>1. DeckSound /\ deckRoute \in Decks /\ acknowledged \in Nat
      BY <2>4, DeckPageAssumption DEF DeckInv
    <3>2. acknowledged <= deckRevision'[deckRoute]
      <4>1. acknowledged <= deckRevision[deckRoute]
        BY <3>1 DEF DeckSound
      <4>2. deckRevision[deckRoute] \in Nat /\ deckRevision'[deckRoute] \in Nat
            /\ deckRevision[deckRoute] <= deckRevision'[deckRoute]
        BY <3>1, <1>1, <2>2, DeckPageAssumption
      <4>3. QED
        BY <3>1, <4>1, <4>2
    <3>3. QED
      BY <2>1, <3>1, <3>2 DEF DeckSound
  <2>5. QED
    BY <2>1, <2>2, <2>3, <2>4 DEF DeckInv
<1>4. ASSUME NEW m \in mutations, NEW done \in BOOLEAN, ServeMutation(m, done) PROVE DeckInv'
  <2> DEFINE accepted == done /\ (m.kind = "add" \/ m.rev = deckRevision[m.id])
  <2>1. /\ UNCHANGED <<deckRoute, deckLoad, searching, searchAwaited, deck, loadFailed, refreshFailed,
                       mutationActive, busy, acknowledged, overtaken>>
        /\ accepted => deckRevision[m.id] < MaxDeckRevision
        /\ deckRevision' = IF accepted THEN [deckRevision EXCEPT ![m.id] = @ + 1] ELSE deckRevision
        /\ mutations' = (mutations \ {m}) \cup
             {IF accepted THEN [m EXCEPT !.step = "done", !.rev = deckRevision[m.id] + 1]
              ELSE [m EXCEPT !.step = IF done THEN "stale" ELSE "failed"]}
    BY <1>4 DEF ServeMutation, otherThanChanging
  <2>2. m \in Mutation /\ m.id \in Decks
    BY <1>1 DEF Mutation
  <2>3. CASE accepted
    <3>1. PICK v : v = deckRevision[m.id] + 1
      OBVIOUS
    <3>2. PICK n : n = [m EXCEPT !.step = "done", !.rev = v]
      OBVIOUS
    <3>3. v \in 0 .. MaxDeckRevision
      BY <2>1, <2>2, <2>3, <3>1, <1>1, DeckPageAssumption
    <3>4. n \in Mutation /\ n.current = m.current /\ n.id = m.id /\ n.rev = v
      BY <2>2, <3>2, <3>3 DEF Mutation
    <3>5. deckRevision' = [deckRevision EXCEPT ![m.id] = @ + 1]
      BY <2>1, <2>3
    <3>6. /\ deckRevision' \in [Decks -> 1 .. MaxDeckRevision]
          /\ \A e \in Decks : deckRevision[e] <= deckRevision'[e]
          /\ deckRevision'[m.id] = v
      BY <1>1, <2>1, <2>2, <2>3, <3>1, <3>5, DeckPageAssumption
    <3>7. mutations' = (mutations \ {m}) \cup {n}
      BY <2>1, <2>3, <3>1, <3>2
    <3>8. n.rev <= deckRevision'[n.id]
      <4>1. v \in Nat
        BY <3>3, DeckPageAssumption
      <4>2. deckRevision'[n.id] = v
        BY <3>4, <3>6
      <4>3. v <= v
        BY <4>1
      <4>4. QED
        BY <3>4, <4>2, <4>3
    <3>9. QED
      BY <2>1, <3>4, <3>6, <3>7, <3>8, ServedDeckKeeps
  <2>4. CASE ~accepted
    <3>1. PICK s : s = IF done THEN "stale" ELSE "failed"
      OBVIOUS
    <3>2. PICK n : n = [m EXCEPT !.step = s]
      OBVIOUS
    <3>3. n \in Mutation /\ n.current = m.current /\ n.id = m.id /\ n.step \in {"stale", "failed"}
      BY <2>2, <3>1, <3>2 DEF Mutation
    <3>4. UNCHANGED deckRevision
      BY <2>1, <2>4
    <3>5. mutations' = (mutations \ {m}) \cup {n}
      BY <2>1, <2>4, <3>1, <3>2
    <3>6. \A e \in Decks : deckRevision[e] <= deckRevision'[e]
      BY <1>1, <3>4, DeckPageAssumption
    <3>7. QED
      BY <1>1, <2>1, <3>3, <3>4, <3>5, <3>6, ServedDeckKeeps
  <2>5. QED
    BY <2>3, <2>4
<1>5. QED
  BY <1>3, <1>4

\* A change is over: answered, applied, refused or not heard of.
LEMMA FinishedKeeps ==
  ASSUME DeckInv, NEW m \in mutations, Finish(m), UNCHANGED <<deckRevision, deckRoute, deckLoad, searching,
                                                              searchAwaited, loadFailed>>,
         refreshFailed' \in BOOLEAN, overtaken' \in BOOLEAN,
         \/ UNCHANGED <<deck, acknowledged, overtaken>>
         \/ /\ m.current /\ deck' = [id |-> m.id, rev |-> deckRevision[m.id]]
            /\ acknowledged' = acknowledged \/ (acknowledged' = m.rev /\ m.step = "reading")
  PROVE  DeckInv'
<1>1. mutations' = mutations \ {m} /\ mutations \subseteq Mutation
  BY DEF Finish, DeckInv
<1>2. m \in Mutation /\ m.id \in Decks /\ m.rev \in 0 .. MaxDeckRevision /\ m.current \in BOOLEAN
  BY <1>1 DEF Mutation
<1>3. /\ m.current => mutationActive' = FALSE /\ busy' = FALSE
      /\ ~m.current => UNCHANGED <<mutationActive, busy>>
  BY DEF Finish
<1>4. mutationActive' \in BOOLEAN /\ busy' \in BOOLEAN
  BY <1>3 DEF DeckInv
<1>5. deckRevision[m.id] \in 1 .. MaxDeckRevision
  BY <1>2 DEF DeckInv
<1>6. deck'.id \in Decks \cup {NoDeckId} /\ deck'.rev \in 0 .. MaxDeckRevision /\ acknowledged' \in 0 .. MaxDeckRevision
  <2>1. CASE UNCHANGED <<deck, acknowledged, overtaken>>
    BY <2>1 DEF DeckInv
  <2>2. CASE deck' = [id |-> m.id, rev |-> deckRevision[m.id]]
             /\ (acknowledged' = acknowledged \/ acknowledged' = m.rev)
    BY <2>2, <1>2, <1>5, DeckPageAssumption DEF DeckInv
  <2>3. QED
    BY <2>1, <2>2
<1>7. ASSUME deckRoute # NoDeckId PROVE DeckSound'
  <2>1. DeckSound
    BY <1>7 DEF DeckInv
  <2>2. /\ mutationActive <=> \E k \in mutations : k.current
        /\ \A k, l \in mutations : k.current /\ l.current => k = l
        /\ \A k \in mutations : k.current => k.id = deckRoute
        /\ busy = mutationActive
    BY <2>1 DEF DeckSound
  <2>3. (mutationActive' <=> \E k \in mutations' : k.current) /\ busy' = mutationActive'
    <3>1. CASE m.current
      BY <3>1, <1>1, <1>3, <2>2
    <3>2. CASE ~m.current
      <4>1. (\E k \in mutations' : k.current) <=> (\E k \in mutations : k.current)
        BY <3>2, <1>1
      <4>2. mutationActive' = mutationActive /\ busy' = busy
        BY <3>2, <1>3
      <4>3. QED
        BY <4>1, <4>2, <2>2, Zenon
    <3>3. QED
      BY <3>1, <3>2, <1>2
  <2>4. /\ \A k, l \in mutations' : k.current /\ l.current => k = l
        /\ \A k \in mutations' : k.current => k.id = deckRoute
    BY <1>1, <2>2
  <2>5. /\ deck'.id \in {deckRoute, NoDeckId} /\ acknowledged' <= deckRevision[deckRoute]
        /\ deck'.rev >= acknowledged' \/ overtaken'
    <3>1. CASE UNCHANGED <<deck, acknowledged, overtaken>>
      BY <3>1, <2>1 DEF DeckSound
    <3>2. CASE /\ m.current /\ deck' = [id |-> m.id, rev |-> deckRevision[m.id]]
               /\ acknowledged' = acknowledged \/ (acknowledged' = m.rev /\ m.step = "reading")
      <4>1. m.id = deckRoute
        BY <3>2, <2>2
      <4>2. m.step = "reading" => m.rev <= deckRevision[m.id]
        BY DEF DeckInv
      <4>3. acknowledged' <= deckRevision[deckRoute]
        BY <3>2, <4>1, <4>2, <2>1 DEF DeckSound
      <4>4. deck'.id = deckRoute /\ deck'.rev = deckRevision[deckRoute]
        BY <3>2, <4>1
      <4>5. deckRevision[deckRoute] \in Nat /\ acknowledged' \in Nat
        BY <4>1, <1>5, <1>6, DeckPageAssumption
      <4>6. deck'.rev >= acknowledged'
        BY <4>3, <4>4, <4>5
      <4>7. QED
        BY <4>3, <4>4, <4>6
    <3>3. QED
      BY <3>1, <3>2
  <2>6. deckLoad # NoDeckLoad => deckLoad.id = deckRoute
    BY <2>1 DEF DeckSound
  <2>7. searching = searchAwaited
    BY <2>1 DEF DeckSound
  <2>8. QED
    BY <2>3, <2>4, <2>5, <2>6, <2>7 DEF DeckSound
<1>8. QED
  BY <1>1, <1>4, <1>6, <1>7 DEF DeckInv

\* An answer moves its change on, and the deck read after it is as new as the change.
LEMMA ChangeAnswersKeep ==
  ASSUME DeckInv, NEW m \in mutations, MutationAnswered(m) \/ DetailApplied(m) \/ MutationFailed(m)
  PROVE  DeckInv'
<1>1. m \in Mutation /\ deckRevision \in [Decks -> 1 .. MaxDeckRevision]
      /\ refreshFailed \in BOOLEAN /\ overtaken \in BOOLEAN
  BY DEF DeckInv
<1>2. CASE DetailApplied(m)
  <2>1. /\ Finish(m)
        /\ UNCHANGED <<deckRevision, deckRoute, deckLoad, searching, searchAwaited, loadFailed>>
        /\ m.current => /\ deck' = [id |-> m.id, rev |-> deckRevision[m.id]]
                        /\ acknowledged' = IF m.step = "reading" THEN m.rev ELSE acknowledged
                        /\ overtaken' = FALSE /\ refreshFailed' = FALSE
        /\ ~m.current => UNCHANGED <<deck, acknowledged, overtaken, refreshFailed>>
    BY <1>2 DEF DetailApplied, otherThanChanging
  <2>2. CASE m.current
    <3>1. /\ deck' = [id |-> m.id, rev |-> deckRevision[m.id]]
          /\ acknowledged' = acknowledged \/ (acknowledged' = m.rev /\ m.step = "reading")
      BY <2>1, <2>2
    <3>2. refreshFailed' \in BOOLEAN /\ overtaken' \in BOOLEAN
      BY <2>1, <2>2
    <3>3. QED
      BY <2>1, <2>2, <3>1, <3>2, FinishedKeeps
  <2>3. CASE ~m.current
    BY <1>1, <2>1, <2>3, FinishedKeeps
  <2>4. QED
    BY <2>2, <2>3
<1>3. CASE MutationFailed(m)
  <2>1. /\ Finish(m)
        /\ UNCHANGED <<deckRevision, deckRoute, deckLoad, searching, searchAwaited, loadFailed, deck, acknowledged,
                       overtaken>>
    BY <1>3 DEF MutationFailed, otherThanChanging
  <2>2. refreshFailed' = (refreshFailed \/ (m.current /\ m.step = "refreshing"))
    BY <1>3 DEF MutationFailed
  <2>3. refreshFailed' \in BOOLEAN
    BY <2>2
  <2>4. QED
    BY <1>1, <2>1, <2>3, FinishedKeeps
<1>4. CASE MutationAnswered(m) /\ ~m.current
  <2>1. /\ mutations' = mutations \ {m}
        /\ UNCHANGED <<deckRevision, deckRoute, deckLoad, searching, searchAwaited, loadFailed, deck, acknowledged,
                       overtaken, refreshFailed, mutationActive, busy>>
    BY <1>4 DEF MutationAnswered, otherThanChanging
  <2>2. Finish(m)
    BY <1>4, <2>1 DEF Finish
  <2>3. QED
    BY <1>1, <2>1, <2>2, FinishedKeeps
<1>5. CASE MutationAnswered(m) /\ m.current
  <2>1. PICK s : s = IF m.step = "done" THEN "reading" ELSE "refreshing"
    OBVIOUS
  <2>2. PICK n : n = [m EXCEPT !.step = s]
    OBVIOUS
  <2>3. /\ mutations' = (mutations \ {m}) \cup {n} /\ m.step \in {"done", "stale"}
        /\ UNCHANGED <<deckRevision, deckRoute, deckLoad, searching, searchAwaited, loadFailed, deck, acknowledged,
                       overtaken, refreshFailed, mutationActive, busy>>
    BY <1>5, <2>1, <2>2 DEF MutationAnswered, otherThanChanging
  <2>4. n \in Mutation /\ n.current = m.current /\ n.id = m.id /\ n.rev = m.rev /\ n.step = s
    BY <1>1, <2>1, <2>2 DEF Mutation
  <2>5. n.step \in {"done", "reading"} => n.rev <= deckRevision'[n.id]
    <3>1. m.step = "done" => m.rev <= deckRevision[m.id]
      BY DEF DeckInv
    <3>2. QED
      BY <2>1, <2>3, <2>4, <3>1
  <2>6. \A e \in Decks : deckRevision[e] <= deckRevision'[e]
    BY <1>1, <2>3, DeckPageAssumption
  <2>7. QED
    BY <1>1, <2>3, <2>4, <2>5, <2>6, ServedDeckKeeps
<1>6. m.current \in BOOLEAN
  BY <1>1 DEF Mutation
<1>7. QED
  BY <1>2, <1>3, <1>4, <1>5, <1>6

\* Every step of the page keeps the invariant.
LEMMA DeckInvInductive ==
  ASSUME DeckInv, [DeckPageNext]_deckVars
  PROVE  DeckInv'
<1>1. CASE UNCHANGED deckVars
  BY <1>1 DEF DeckInv, deckVars, DeckSound
<1>2. CASE DeckPageNext
  BY <1>2, RouteKeeps, LoadingKeeps, SearchingKeeps, BeginMutationKeeps, ServerKeeps, ChangeAnswersKeep
     DEF DeckPageNext
<1>3. QED
  BY <1>1, <1>2

\* Whatever was under way when the route changed, the page shows, locks and reports the
\* deck of its route alone, and its own acknowledged changes unless an older load came
\* after them.
THEOREM PageIsOfItsDeck == DeckPageSpec => [](DeckPageTypeOK /\ OnlyThisDeck)
<1>1. DeckPageInit => DeckInv
  <2> SUFFICES ASSUME DeckPageInit PROVE DeckInv
    OBVIOUS
  <2>1. deck.id = NoDeckId /\ deck.rev = 0 /\ 0 \in 0 .. MaxDeckRevision /\ 1 \in 1 .. MaxDeckRevision
    BY DeckPageAssumption DEF DeckPageInit, NotShown
  <2>2. QED
    BY <2>1 DEF DeckPageInit, DeckInv
<1>2. DeckInv => DeckPageTypeOK
  BY DEF DeckInv, DeckPageTypeOK, Mutation
<1>3. DeckInv => OnlyThisDeck
  BY DEF DeckInv, DeckSound, OnlyThisDeck
<1>4. QED
  BY <1>1, <1>2, <1>3, DeckInvInductive, PTL DEF DeckPageSpec

-----------------------------------------------------------------------------
(* Preferences.                                                            *)

StorageTyped ==
  /\ savedAppearance \in Appearance \cup {NotSaved} /\ legacy \in Appearance \cup {NotSaved}
  /\ savedDisplay \in Display \cup {NotSaved} /\ savedLook \in Look
  /\ choices \in 0 .. MaxChoices

TabsTyped ==
  /\ tabPage \in [Tabs -> {"account", "collection", "admin"}]
  /\ appearance \in [Tabs -> Appearance \cup {NotSaved}] /\ display \in [Tabs -> Display \cup {NotSaved}]
  /\ look \in [Tabs -> Look] /\ applied \in [Tabs -> Appearance] /\ layout \in [Tabs -> Look \cup {NotSaved}]
  /\ resetHeard \in [Tabs -> BOOLEAN]
  /\ notices \in [Tabs -> SUBSET Keys] /\ unheard \in [Tabs -> SUBSET Keys] /\ missed \in [Tabs -> BOOLEAN]

\* A tab has the copies its page works from.
CopiesOf(t) ==
  /\ appearance[t] # NotSaved <=> tabPage[t] = "account"
  /\ display[t] # NotSaved <=> tabPage[t] # "admin"
  /\ layout[t] # NotSaved <=> tabPage[t] = "collection"

\* What a tab shows is what is stored, unless it is to hear of a change or has reason not
\* to; what it applies too, on whichever page, unless a change passed it unheard.
Told(t, key) == key \notin notices[t] \cup unheard[t]
Agrees(t) ==
  /\ tabPage[t] = "account" /\ Told(t, "appearance") => appearance[t] = ReadAppearance
  /\ Told(t, "appearance") /\ ~missed[t] => applied[t] = ReadAppearance
  /\ tabPage[t] = "account" /\ Told(t, "display") => display[t] = ReadDisplay
  /\ Told(t, "look") => look[t] = savedLook

\* A collection page goes by the layout it has, which may be behind the one saved: what it
\* shows is what is stored or else that layout's view, unless the display was reset last.
ShownBy(whose) == [DefaultDisplay EXCEPT !.view = ViewOf(whose)]
Displays(t) ==
  IF savedDisplay # NotSaved THEN display[t] = savedDisplay /\ ~resetHeard[t]
  ELSE display[t] = IF resetHeard[t] THEN DefaultDisplay ELSE ShownBy(layout[t])
Follows(t) ==
  tabPage[t] = "collection" =>
    /\ Told(t, "look") => layout[t] = savedLook
    /\ Told(t, "display") => Displays(t)

PreferencesInv == StorageTyped /\ TabsTyped /\ \A t \in Tabs : CopiesOf(t) /\ Agrees(t) /\ Follows(t)

\* What is read is an appearance, and a display.
LEMMA ReadIsTyped ==
  ASSUME StorageTyped
  PROVE  ReadAppearance \in Appearance /\ FollowingTheme \in Appearance /\ ReadDisplay \in Display
         /\ DefaultAppearance \in Appearance /\ DefaultDisplay \in Display
<1>1. DefaultAppearance \in Appearance
  BY DEF DefaultAppearance, Appearance
<1>2. ReadAppearance \in Appearance
  BY <1>1 DEF StorageTyped, ReadAppearance, Read
<1>3. FollowingTheme \in Appearance
  BY <1>2 DEF FollowingTheme, Appearance
<1>4. DefaultDisplay \in Display
  BY DEF DefaultDisplay, Display
<1>5. ReadDisplay \in Display
  BY <1>4 DEF StorageTyped, ReadDisplay
<1>6. QED
  BY <1>1, <1>2, <1>3, <1>4, <1>5

\* So is what a collection page makes of it.
LEMMA FollowedIsTyped ==
  ASSUME NEW shown \in Display
  PROVE  Followed(shown) \in Display
  BY DEF Followed, ViewOf, Display

\* One tab does something: the others hear of it, or do not, and keep what they have.
LEMMA OneTabActs ==
  ASSUME PreferencesInv, NEW t \in Tabs, StorageTyped', TabsTyped', CopiesOf(t)', Agrees(t)', Follows(t)',
         \A u \in Tabs \ {t} :
           /\ tabPage'[u] = tabPage[u] /\ appearance'[u] = appearance[u] /\ display'[u] = display[u]
           /\ look'[u] = look[u] /\ applied'[u] = applied[u] /\ missed'[u] = missed[u]
           /\ layout'[u] = layout[u] /\ resetHeard'[u] = resetHeard[u]
           /\ notices[u] \subseteq notices'[u] /\ unheard[u] \subseteq unheard'[u]
           /\ ReadAppearance' = ReadAppearance \/ ~Told(u, "appearance")'
           /\ savedDisplay' = savedDisplay \/ ~Told(u, "display")'
           /\ savedLook' = savedLook \/ ~Told(u, "look")'
  PROVE  PreferencesInv'
<1>1. ASSUME NEW u \in Tabs, u # t PROVE CopiesOf(u)' /\ Agrees(u)' /\ Follows(u)'
  <2>1. CopiesOf(u) /\ Agrees(u) /\ Follows(u)
    BY DEF PreferencesInv
  <2>2. CopiesOf(u)'
    BY <1>1, <2>1 DEF CopiesOf
  <2>3. \A key : Told(u, key)' => Told(u, key)
    BY <1>1 DEF Told
  <2>4. Agrees(u)'
    BY <1>1, <2>1, <2>3 DEF Agrees, ReadDisplay
  <2>5. Follows(u)'
    BY <1>1, <2>1, <2>3 DEF Follows, Displays
  <2>6. QED
    BY <2>2, <2>4, <2>5
<1>2. QED
  BY <1>1 DEF PreferencesInv

\* The other tabs are told of what has changed, and the tab itself of nothing.
LEMMA TellingOthers ==
  ASSUME PreferencesInv, NEW t \in Tabs, NEW keys \in SUBSET Keys, Tell(t, keys)
  PROVE  /\ notices' \in [Tabs -> SUBSET Keys] /\ choices' \in 0 .. MaxChoices
         /\ notices'[t] = notices[t]
         /\ \A u \in Tabs \ {t} : notices'[u] = notices[u] \cup keys
<1>1. notices \in [Tabs -> SUBSET Keys] /\ choices \in 0 .. MaxChoices
  BY DEF PreferencesInv, TabsTyped, StorageTyped
<1>2. choices < MaxChoices /\ choices' = choices + 1
      /\ notices' = [u \in Tabs |-> IF u = t THEN notices[u] ELSE notices[u] \cup keys]
  BY DEF Tell
<1>3. choices' \in 0 .. MaxChoices
  BY <1>1, <1>2, ChoicesAssumption
<1>4. QED
  BY <1>1, <1>2, <1>3

\* A choice of appearance that could not be written is shown all the same.
LEMMA UpdateAppearanceKeeps ==
  ASSUME PreferencesInv, NEW t \in Tabs, NEW next \in Appearance, NEW fits \in BOOLEAN,
         UpdateAppearance(t, next, fits)
  PROVE  PreferencesInv'
<1>1. PICK keys : keys = Changed("appearance", savedAppearance, savedAppearance')
  OBVIOUS
<1>2. /\ tabPage[t] = "account"
      /\ savedAppearance' = IF fits THEN next ELSE savedAppearance
      /\ appearance' = [appearance EXCEPT ![t] = next] /\ applied' = [applied EXCEPT ![t] = next]
      /\ Tell(t, keys)
      /\ unheard' = [unheard EXCEPT ![t] = IF fits THEN @ \ {"appearance"} ELSE @ \cup {"appearance"}]
      /\ missed' = [missed EXCEPT ![t] = FALSE]
      /\ UNCHANGED <<legacy, savedDisplay, savedLook, tabPage, display, look, layout, resetHeard>>
  BY <1>1 DEF UpdateAppearance
<1>3. keys \in SUBSET Keys /\ "appearance" \in Keys
  BY <1>1 DEF Changed, Keys
<1>4. /\ notices' \in [Tabs -> SUBSET Keys] /\ choices' \in 0 .. MaxChoices
      /\ notices'[t] = notices[t]
      /\ \A u \in Tabs \ {t} : notices'[u] = notices[u] \cup keys
  BY <1>2, <1>3, TellingOthers
<1>5. StorageTyped /\ TabsTyped /\ CopiesOf(t) /\ Agrees(t) /\ next # NotSaved
  BY NotSavedAssumption DEF PreferencesInv
<1>6. StorageTyped'
  BY <1>2, <1>4, <1>5 DEF StorageTyped
<1>7. TabsTyped'
  BY <1>2, <1>3, <1>4, <1>5 DEF TabsTyped
<1>8. appearance'[t] = next /\ applied'[t] = next
      /\ unheard'[t] = IF fits THEN unheard[t] \ {"appearance"} ELSE unheard[t] \cup {"appearance"}
  BY <1>2, <1>5 DEF TabsTyped
<1>9. CopiesOf(t)'
  BY <1>2, <1>5, <1>8 DEF CopiesOf
<1>10. Agrees(t)'
  <2>1. fits => ReadAppearance' = next
    BY <1>2, <1>5 DEF ReadAppearance, Read
  <2>2. Told(t, "appearance")' => fits
    BY <1>8 DEF Told
  <2>3. /\ Told(t, "display")' => Told(t, "display")
        /\ Told(t, "look")' => Told(t, "look")
    BY <1>4, <1>8 DEF Told
  <2>4. ReadDisplay' = ReadDisplay /\ savedDisplay' = savedDisplay
    BY <1>2 DEF ReadDisplay
  <2>5. QED
    BY <1>2, <1>5, <1>8, <2>1, <2>2, <2>3, <2>4 DEF Agrees
<1>11. ReadAppearance' = ReadAppearance \/ keys = {"appearance"}
  BY <1>1, <1>2 DEF Changed, ReadAppearance, Read
<1>12. QED
  <2>1. ASSUME NEW u \in Tabs \ {t}
        PROVE  /\ tabPage'[u] = tabPage[u] /\ appearance'[u] = appearance[u] /\ display'[u] = display[u]
               /\ look'[u] = look[u] /\ applied'[u] = applied[u] /\ missed'[u] = missed[u]
               /\ layout'[u] = layout[u] /\ resetHeard'[u] = resetHeard[u]
              /\ notices[u] \subseteq notices'[u] /\ unheard[u] \subseteq unheard'[u]
    BY <1>2, <1>4, <1>5 DEF TabsTyped
  <2>2. ASSUME NEW u \in Tabs \ {t} PROVE ReadAppearance' = ReadAppearance \/ ~Told(u, "appearance")'
    BY <1>4, <1>11 DEF Told
  <2>3. ReadDisplay' = ReadDisplay /\ savedDisplay' = savedDisplay /\ savedLook' = savedLook
    BY <1>2 DEF ReadDisplay
  <2>4. Follows(t)'
    BY <1>2 DEF Follows
  <2>5. QED
    BY <1>6, <1>7, <1>9, <1>10, <2>1, <2>2, <2>3, <2>4, OneTabActs

\* So is one of display.
LEMMA UpdateDisplayKeeps ==
  ASSUME PreferencesInv, NEW t \in Tabs, NEW next \in Display, NEW fits \in BOOLEAN,
         UpdateDisplay(t, next, fits)
  PROVE  PreferencesInv'
<1>1. PICK keys : keys = Changed("display", savedDisplay, savedDisplay')
  OBVIOUS
<1>2. /\ tabPage[t] = "account"
      /\ display' = [display EXCEPT ![t] = next] /\ savedDisplay' = IF fits THEN next ELSE savedDisplay
      /\ Tell(t, keys)
      /\ unheard' = [unheard EXCEPT ![t] = IF fits THEN @ \ {"display"} ELSE @ \cup {"display"}]
      /\ UNCHANGED <<savedAppearance, legacy, savedLook, tabPage, appearance, look, applied, missed, layout, resetHeard>>
  BY <1>1 DEF UpdateDisplay
<1>3. keys \in SUBSET Keys /\ {"appearance", "display", "look"} \subseteq Keys
  BY <1>1 DEF Changed, Keys
<1>4. /\ notices' \in [Tabs -> SUBSET Keys] /\ choices' \in 0 .. MaxChoices
      /\ notices'[t] = notices[t]
      /\ \A u \in Tabs \ {t} : notices'[u] = notices[u] \cup keys
  BY <1>2, <1>3, TellingOthers
<1>5. /\ StorageTyped /\ TabsTyped /\ CopiesOf(t) /\ Agrees(t)
      /\ FollowingTheme \in Appearance /\ ReadAppearance \in Appearance /\ DefaultAppearance \in Appearance
      /\ "own" \in Look /\ "site" \in Look /\ DefaultDisplay \in Display
  BY ReadIsTyped DEF PreferencesInv, Look, Display
<1>6. NotSaved \notin Appearance /\ NotSaved \notin Display
  BY NotSavedAssumption
<1>7. StorageTyped'
  BY <1>2, <1>4, <1>5 DEF StorageTyped
<1>8. TabsTyped'
  BY <1>2, <1>3, <1>4, <1>5 DEF TabsTyped
<1>9. /\ display'[t] = next
      /\ unheard'[t] = IF fits THEN unheard[t] \ {"display"} ELSE unheard[t] \cup {"display"}
  BY <1>2, <1>5 DEF TabsTyped
<1>10. CopiesOf(t)'
  BY <1>2, <1>5, <1>6, <1>9 DEF CopiesOf
<1>11. /\ ReadAppearance' = ReadAppearance /\ savedLook' = savedLook
       /\ savedDisplay' = savedDisplay \/ "display" \in keys
  BY <1>1, <1>2 DEF Changed, ReadAppearance, Read, ReadDisplay
<1>12. Agrees(t)'
  <2>1. /\ Told(t, "appearance")' => Told(t, "appearance")
        /\ Told(t, "look")' => Told(t, "look")
        /\ Told(t, "display")' => fits
    BY <1>4, <1>9 DEF Told
  <2>2. fits => ReadDisplay' = next
    BY <1>2, <1>6 DEF ReadDisplay
  <2>3. QED
    BY <1>2, <1>5, <1>9, <1>11, <2>1, <2>2 DEF Agrees
<1>13. ASSUME NEW u \in Tabs \ {t}
       PROVE  /\ tabPage'[u] = tabPage[u] /\ appearance'[u] = appearance[u] /\ display'[u] = display[u]
              /\ look'[u] = look[u] /\ applied'[u] = applied[u] /\ missed'[u] = missed[u]
              /\ layout'[u] = layout[u] /\ resetHeard'[u] = resetHeard[u]
              /\ notices[u] \subseteq notices'[u] /\ unheard[u] \subseteq unheard'[u]
  BY <1>2, <1>4, <1>5 DEF TabsTyped
<1>14. ASSUME NEW u \in Tabs \ {t}
       PROVE  /\ ReadAppearance' = ReadAppearance \/ ~Told(u, "appearance")'
              /\ savedDisplay' = savedDisplay \/ ~Told(u, "display")'
              /\ savedLook' = savedLook \/ ~Told(u, "look")'
  BY <1>4, <1>11 DEF Told
<1>15. Follows(t)'
  BY <1>2 DEF Follows
<1>16. QED
  BY <1>7, <1>8, <1>10, <1>12, <1>13, <1>14, <1>15, OneTabActs

\* The display is put back to the standard one.
LEMMA ResetDisplayKeeps ==
  ASSUME PreferencesInv, NEW t \in Tabs, ResetDisplay(t)
  PROVE  PreferencesInv'
<1>1. PICK keys : keys = Changed("display", savedDisplay, NotSaved)
  OBVIOUS
<1>2. /\ tabPage[t] = "account"
      /\ display' = [display EXCEPT ![t] = DefaultDisplay] /\ savedDisplay' = NotSaved
      /\ Tell(t, keys)
      /\ unheard' = [unheard EXCEPT ![t] = @ \ {"display"}]
      /\ UNCHANGED <<savedAppearance, legacy, savedLook, tabPage, appearance, look, applied, missed, layout, resetHeard>>
  BY <1>1 DEF ResetDisplay
<1>3. keys \in SUBSET Keys /\ {"appearance", "display", "look"} \subseteq Keys
  BY <1>1 DEF Changed, Keys
<1>4. /\ notices' \in [Tabs -> SUBSET Keys] /\ choices' \in 0 .. MaxChoices
      /\ notices'[t] = notices[t]
      /\ \A u \in Tabs \ {t} : notices'[u] = notices[u] \cup keys
  BY <1>2, <1>3, TellingOthers
<1>5. /\ StorageTyped /\ TabsTyped /\ CopiesOf(t) /\ Agrees(t)
      /\ FollowingTheme \in Appearance /\ ReadAppearance \in Appearance /\ DefaultAppearance \in Appearance
      /\ "own" \in Look /\ "site" \in Look /\ DefaultDisplay \in Display
  BY ReadIsTyped DEF PreferencesInv, Look, Display
<1>6. NotSaved \notin Appearance /\ NotSaved \notin Display
  BY NotSavedAssumption
<1>7. StorageTyped'
  BY <1>2, <1>4, <1>5 DEF StorageTyped
<1>8. TabsTyped'
  BY <1>2, <1>3, <1>4, <1>5 DEF TabsTyped
<1>9. display'[t] = DefaultDisplay /\ unheard'[t] = unheard[t] \ {"display"}
  BY <1>2, <1>5 DEF TabsTyped
<1>10. CopiesOf(t)'
  BY <1>2, <1>5, <1>6, <1>9 DEF CopiesOf
<1>11. /\ ReadAppearance' = ReadAppearance /\ savedLook' = savedLook
       /\ savedDisplay' = savedDisplay \/ "display" \in keys
  BY <1>1, <1>2 DEF Changed, ReadAppearance, Read, ReadDisplay
<1>12. Agrees(t)'
  <2>1. /\ Told(t, "appearance")' => Told(t, "appearance")
        /\ Told(t, "look")' => Told(t, "look")
    BY <1>4, <1>9 DEF Told
  <2>2. ReadDisplay' = DefaultDisplay
    BY <1>2 DEF ReadDisplay
  <2>3. QED
    BY <1>2, <1>5, <1>9, <1>11, <2>1, <2>2 DEF Agrees
<1>13. ASSUME NEW u \in Tabs \ {t}
       PROVE  /\ tabPage'[u] = tabPage[u] /\ appearance'[u] = appearance[u] /\ display'[u] = display[u]
              /\ look'[u] = look[u] /\ applied'[u] = applied[u] /\ missed'[u] = missed[u]
              /\ layout'[u] = layout[u] /\ resetHeard'[u] = resetHeard[u]
              /\ notices[u] \subseteq notices'[u] /\ unheard[u] \subseteq unheard'[u]
  BY <1>2, <1>4, <1>5 DEF TabsTyped
<1>14. ASSUME NEW u \in Tabs \ {t}
       PROVE  /\ ReadAppearance' = ReadAppearance \/ ~Told(u, "appearance")'
              /\ savedDisplay' = savedDisplay \/ ~Told(u, "display")'
              /\ savedLook' = savedLook \/ ~Told(u, "look")'
  BY <1>4, <1>11 DEF Told
<1>15. Follows(t)'
  BY <1>2 DEF Follows
<1>16. QED
  BY <1>7, <1>8, <1>10, <1>12, <1>13, <1>14, <1>15, OneTabActs

\* What an earlier version left, and was in force, goes unheard.
LEMMA ResetAppearanceKeeps ==
  ASSUME PreferencesInv, NEW t \in Tabs, ResetAppearance(t)
  PROVE  PreferencesInv'
<1>1. PICK keys : keys = Changed("appearance", savedAppearance, NotSaved)
  OBVIOUS
<1>2. /\ tabPage[t] = "account"
      /\ savedAppearance' = NotSaved /\ legacy' = NotSaved
      /\ appearance' = [appearance EXCEPT ![t] = DefaultAppearance]
      /\ applied' = [applied EXCEPT ![t] = DefaultAppearance]
      /\ Tell(t, keys)
      /\ unheard' = [u \in Tabs |->
           IF u = t THEN unheard[u] \ {"appearance"}
           ELSE unheard[u] \cup (IF savedAppearance = NotSaved /\ legacy # NotSaved THEN {"appearance"} ELSE {})]
      /\ missed' = [missed EXCEPT ![t] = FALSE]
      /\ UNCHANGED <<savedDisplay, savedLook, tabPage, display, look, layout, resetHeard>>
  BY <1>1 DEF ResetAppearance
<1>3. keys \in SUBSET Keys /\ {"appearance", "display", "look"} \subseteq Keys
  BY <1>1 DEF Changed, Keys
<1>4. /\ notices' \in [Tabs -> SUBSET Keys] /\ choices' \in 0 .. MaxChoices
      /\ notices'[t] = notices[t]
      /\ \A u \in Tabs \ {t} : notices'[u] = notices[u] \cup keys
  BY <1>2, <1>3, TellingOthers
<1>5. /\ StorageTyped /\ TabsTyped /\ CopiesOf(t) /\ Agrees(t)
      /\ FollowingTheme \in Appearance /\ ReadAppearance \in Appearance /\ DefaultAppearance \in Appearance
      /\ "own" \in Look /\ "site" \in Look /\ DefaultDisplay \in Display
  BY ReadIsTyped DEF PreferencesInv, Look, Display
<1>6. NotSaved \notin Appearance /\ NotSaved \notin Display
  BY NotSavedAssumption
<1>7. StorageTyped'
  BY <1>2, <1>4, <1>5 DEF StorageTyped
<1>8. TabsTyped'
  BY <1>2, <1>3, <1>4, <1>5 DEF TabsTyped
<1>9. /\ appearance'[t] = DefaultAppearance /\ applied'[t] = DefaultAppearance
      /\ unheard'[t] = unheard[t] \ {"appearance"}
  BY <1>2, <1>5 DEF TabsTyped
<1>10. CopiesOf(t)'
  BY <1>2, <1>5, <1>6, <1>9 DEF CopiesOf
<1>11. /\ ReadDisplay' = ReadDisplay /\ savedDisplay' = savedDisplay /\ savedLook' = savedLook
       /\ \/ ReadAppearance' = ReadAppearance
          \/ "appearance" \in keys
          \/ savedAppearance = NotSaved /\ legacy # NotSaved
  BY <1>1, <1>2 DEF Changed, ReadAppearance, Read, ReadDisplay
<1>12. Agrees(t)'
  <2>1. /\ Told(t, "display")' => Told(t, "display")
        /\ Told(t, "look")' => Told(t, "look")
    BY <1>4, <1>9 DEF Told
  <2>2. ReadAppearance' = DefaultAppearance
    BY <1>2 DEF ReadAppearance, Read
  <2>3. QED
    BY <1>2, <1>5, <1>9, <1>11, <2>1, <2>2 DEF Agrees
<1>13. ASSUME NEW u \in Tabs \ {t}
       PROVE  /\ tabPage'[u] = tabPage[u] /\ appearance'[u] = appearance[u] /\ display'[u] = display[u]
              /\ look'[u] = look[u] /\ applied'[u] = applied[u] /\ missed'[u] = missed[u]
              /\ layout'[u] = layout[u] /\ resetHeard'[u] = resetHeard[u]
              /\ notices[u] \subseteq notices'[u] /\ unheard[u] \subseteq unheard'[u]
  BY <1>2, <1>4, <1>5 DEF TabsTyped
<1>14. ASSUME NEW u \in Tabs \ {t}
       PROVE  /\ ReadAppearance' = ReadAppearance \/ ~Told(u, "appearance")'
              /\ savedDisplay' = savedDisplay \/ ~Told(u, "display")'
              /\ savedLook' = savedLook \/ ~Told(u, "look")'
  BY <1>2, <1>4, <1>11 DEF Told
<1>15. Follows(t)'
  BY <1>2 DEF Follows
<1>16. QED
  BY <1>7, <1>8, <1>10, <1>12, <1>13, <1>14, <1>15, OneTabActs

\* A look brings its theme along.
LEMMA ApplyLookKeeps ==
  ASSUME PreferencesInv, NEW t \in Tabs, NEW next \in Look, ApplyLook(t, next)
  PROVE  PreferencesInv'
<1>1. PICK keys : keys = Changed("appearance", savedAppearance, FollowingTheme) \cup Changed("look", savedLook, next)
  OBVIOUS
<1>2. /\ tabPage[t] = "account"
      /\ savedLook' = next /\ savedAppearance' = FollowingTheme
      /\ look' = [look EXCEPT ![t] = next] /\ applied' = [applied EXCEPT ![t] = FollowingTheme]
      /\ appearance' = [appearance EXCEPT ![t] = FollowingTheme]
      /\ Tell(t, keys)
      /\ unheard' = [unheard EXCEPT ![t] = @ \ {"appearance", "look"}]
      /\ missed' = [missed EXCEPT ![t] = FALSE]
      /\ UNCHANGED <<legacy, savedDisplay, tabPage, display, layout, resetHeard>>
  BY <1>1 DEF ApplyLook
<1>3. keys \in SUBSET Keys /\ {"appearance", "display", "look"} \subseteq Keys
  BY <1>1 DEF Changed, Keys
<1>4. /\ notices' \in [Tabs -> SUBSET Keys] /\ choices' \in 0 .. MaxChoices
      /\ notices'[t] = notices[t]
      /\ \A u \in Tabs \ {t} : notices'[u] = notices[u] \cup keys
  BY <1>2, <1>3, TellingOthers
<1>5. /\ StorageTyped /\ TabsTyped /\ CopiesOf(t) /\ Agrees(t)
      /\ FollowingTheme \in Appearance /\ ReadAppearance \in Appearance /\ DefaultAppearance \in Appearance
      /\ "own" \in Look /\ "site" \in Look /\ DefaultDisplay \in Display
  BY ReadIsTyped DEF PreferencesInv, Look, Display
<1>6. NotSaved \notin Appearance /\ NotSaved \notin Display
  BY NotSavedAssumption
<1>7. StorageTyped'
  BY <1>2, <1>4, <1>5 DEF StorageTyped
<1>8. TabsTyped'
  BY <1>2, <1>3, <1>4, <1>5 DEF TabsTyped
<1>9. /\ appearance'[t] = FollowingTheme /\ applied'[t] = FollowingTheme /\ look'[t] = next
      /\ unheard'[t] = unheard[t] \ {"appearance", "look"}
  BY <1>2, <1>5 DEF TabsTyped
<1>10. CopiesOf(t)'
  BY <1>2, <1>5, <1>6, <1>9 DEF CopiesOf
<1>11. /\ ReadDisplay' = ReadDisplay /\ savedDisplay' = savedDisplay
       /\ ReadAppearance' = ReadAppearance \/ "appearance" \in keys
       /\ savedLook' = savedLook \/ "look" \in keys
  BY <1>1, <1>2 DEF Changed, ReadAppearance, Read, ReadDisplay
<1>12. Agrees(t)'
  <2>1. Told(t, "display")' => Told(t, "display")
    BY <1>4, <1>9 DEF Told
  <2>2. ReadAppearance' = FollowingTheme
    BY <1>2, <1>5, <1>6 DEF ReadAppearance, Read
  <2>3. QED
    BY <1>2, <1>5, <1>9, <1>11, <2>1, <2>2 DEF Agrees
<1>13. ASSUME NEW u \in Tabs \ {t}
       PROVE  /\ tabPage'[u] = tabPage[u] /\ appearance'[u] = appearance[u] /\ display'[u] = display[u]
              /\ look'[u] = look[u] /\ applied'[u] = applied[u] /\ missed'[u] = missed[u]
              /\ layout'[u] = layout[u] /\ resetHeard'[u] = resetHeard[u]
              /\ notices[u] \subseteq notices'[u] /\ unheard[u] \subseteq unheard'[u]
  BY <1>2, <1>4, <1>5 DEF TabsTyped
<1>14. ASSUME NEW u \in Tabs \ {t}
       PROVE  /\ ReadAppearance' = ReadAppearance \/ ~Told(u, "appearance")'
              /\ savedDisplay' = savedDisplay \/ ~Told(u, "display")'
              /\ savedLook' = savedLook \/ ~Told(u, "look")'
  BY <1>4, <1>11 DEF Told
<1>15. Follows(t)'
  BY <1>2 DEF Follows
<1>16. QED
  BY <1>7, <1>8, <1>10, <1>12, <1>13, <1>14, <1>15, OneTabActs

\* What could not be put back is stored and not shown.
LEMMA LookRefusedKeeps ==
  ASSUME PreferencesInv, NEW t \in Tabs, NEW next \in Look, NEW kept \in SUBSET {"appearance", "look"},
         LookRefused(t, next, kept)
  PROVE  PreferencesInv'
<1>1. PICK keys : keys = {"look"} \cup kept
  OBVIOUS
<1>2. /\ tabPage[t] = "account"
      /\ savedLook' = IF "look" \in kept THEN next ELSE savedLook
      /\ savedAppearance' = IF "appearance" \in kept THEN FollowingTheme ELSE savedAppearance
      /\ Tell(t, keys)
      /\ unheard' = [unheard EXCEPT ![t] = @ \cup kept]
      /\ UNCHANGED <<legacy, savedDisplay, tabPage, appearance, display, look, applied, missed, layout, resetHeard>>
  BY <1>1 DEF LookRefused
<1>3. keys \in SUBSET Keys /\ {"appearance", "display", "look"} \subseteq Keys
  BY <1>1 DEF Keys
<1>4. /\ notices' \in [Tabs -> SUBSET Keys] /\ choices' \in 0 .. MaxChoices
      /\ notices'[t] = notices[t]
      /\ \A u \in Tabs \ {t} : notices'[u] = notices[u] \cup keys
  BY <1>2, <1>3, TellingOthers
<1>5. /\ StorageTyped /\ TabsTyped /\ CopiesOf(t) /\ Agrees(t)
      /\ FollowingTheme \in Appearance /\ ReadAppearance \in Appearance /\ DefaultAppearance \in Appearance
      /\ "own" \in Look /\ "site" \in Look /\ DefaultDisplay \in Display
  BY ReadIsTyped DEF PreferencesInv, Look, Display
<1>6. NotSaved \notin Appearance /\ NotSaved \notin Display
  BY NotSavedAssumption
<1>7. StorageTyped'
  BY <1>2, <1>4, <1>5 DEF StorageTyped
<1>8. TabsTyped'
  BY <1>2, <1>3, <1>4, <1>5 DEF TabsTyped
<1>9. unheard'[t] = unheard[t] \cup kept
  BY <1>2, <1>5 DEF TabsTyped
<1>10. CopiesOf(t)'
  BY <1>2, <1>5, <1>6, <1>9 DEF CopiesOf
<1>11. /\ ReadDisplay' = ReadDisplay /\ savedDisplay' = savedDisplay
       /\ ReadAppearance' = ReadAppearance \/ ("appearance" \in kept /\ "appearance" \in keys)
       /\ savedLook' = savedLook \/ ("look" \in kept /\ "look" \in keys)
  BY <1>1, <1>2 DEF Changed, ReadAppearance, Read, ReadDisplay
<1>12. Agrees(t)'
  <2>1. /\ Told(t, "appearance")' => Told(t, "appearance") /\ "appearance" \notin kept
        /\ Told(t, "display")' => Told(t, "display")
        /\ Told(t, "look")' => Told(t, "look") /\ "look" \notin kept
    BY <1>4, <1>9 DEF Told
  <2>2. QED
    BY <1>2, <1>5, <1>9, <1>11, <2>1 DEF Agrees
<1>13. ASSUME NEW u \in Tabs \ {t}
       PROVE  /\ tabPage'[u] = tabPage[u] /\ appearance'[u] = appearance[u] /\ display'[u] = display[u]
              /\ look'[u] = look[u] /\ applied'[u] = applied[u] /\ missed'[u] = missed[u]
              /\ layout'[u] = layout[u] /\ resetHeard'[u] = resetHeard[u]
              /\ notices[u] \subseteq notices'[u] /\ unheard[u] \subseteq unheard'[u]
  BY <1>2, <1>4, <1>5 DEF TabsTyped
<1>14. ASSUME NEW u \in Tabs \ {t}
       PROVE  /\ ReadAppearance' = ReadAppearance \/ ~Told(u, "appearance")'
              /\ savedDisplay' = savedDisplay \/ ~Told(u, "display")'
              /\ savedLook' = savedLook \/ ~Told(u, "look")'
  BY <1>4, <1>11 DEF Told
<1>15. Follows(t)'
  BY <1>2 DEF Follows
<1>16. QED
  BY <1>7, <1>8, <1>10, <1>12, <1>13, <1>14, <1>15, OneTabActs

\* A layout is saved.
LEMMA SaveLayoutKeeps ==
  ASSUME PreferencesInv, NEW t \in Tabs, SaveLayout(t)
  PROVE  PreferencesInv'
<1>1. PICK keys : keys = {"look"}
  OBVIOUS
<1>2. /\ tabPage[t] = "account"
      /\ savedLook' = "own" /\ look' = [look EXCEPT ![t] = "own"]
      /\ Tell(t, keys)
      /\ unheard' = [unheard EXCEPT ![t] = @ \ {"look"}]
      /\ UNCHANGED <<savedAppearance, legacy, savedDisplay, tabPage, appearance, display, applied, missed, layout, resetHeard>>
  BY <1>1 DEF SaveLayout
<1>3. keys \in SUBSET Keys /\ {"appearance", "display", "look"} \subseteq Keys
  BY <1>1 DEF Keys
<1>4. /\ notices' \in [Tabs -> SUBSET Keys] /\ choices' \in 0 .. MaxChoices
      /\ notices'[t] = notices[t]
      /\ \A u \in Tabs \ {t} : notices'[u] = notices[u] \cup keys
  BY <1>2, <1>3, TellingOthers
<1>5. /\ StorageTyped /\ TabsTyped /\ CopiesOf(t) /\ Agrees(t)
      /\ FollowingTheme \in Appearance /\ ReadAppearance \in Appearance /\ DefaultAppearance \in Appearance
      /\ "own" \in Look /\ "site" \in Look /\ DefaultDisplay \in Display
  BY ReadIsTyped DEF PreferencesInv, Look, Display
<1>6. NotSaved \notin Appearance /\ NotSaved \notin Display
  BY NotSavedAssumption
<1>7. StorageTyped'
  BY <1>2, <1>4, <1>5 DEF StorageTyped
<1>8. TabsTyped'
  BY <1>2, <1>3, <1>4, <1>5 DEF TabsTyped
<1>9. look'[t] = "own" /\ unheard'[t] = unheard[t] \ {"look"}
  BY <1>2, <1>5 DEF TabsTyped
<1>10. CopiesOf(t)'
  BY <1>2, <1>5, <1>6, <1>9 DEF CopiesOf
<1>11. ReadDisplay' = ReadDisplay /\ savedDisplay' = savedDisplay /\ ReadAppearance' = ReadAppearance /\ "look" \in keys
  BY <1>1, <1>2 DEF ReadAppearance, Read, ReadDisplay
<1>12. Agrees(t)'
  <2>1. /\ Told(t, "appearance")' => Told(t, "appearance")
        /\ Told(t, "display")' => Told(t, "display")
    BY <1>4, <1>9 DEF Told
  <2>2. QED
    BY <1>2, <1>5, <1>9, <1>11, <2>1 DEF Agrees
<1>13. ASSUME NEW u \in Tabs \ {t}
       PROVE  /\ tabPage'[u] = tabPage[u] /\ appearance'[u] = appearance[u] /\ display'[u] = display[u]
              /\ look'[u] = look[u] /\ applied'[u] = applied[u] /\ missed'[u] = missed[u]
              /\ layout'[u] = layout[u] /\ resetHeard'[u] = resetHeard[u]
              /\ notices[u] \subseteq notices'[u] /\ unheard[u] \subseteq unheard'[u]
  BY <1>2, <1>4, <1>5 DEF TabsTyped
<1>14. ASSUME NEW u \in Tabs \ {t}
       PROVE  /\ ReadAppearance' = ReadAppearance \/ ~Told(u, "appearance")'
              /\ savedDisplay' = savedDisplay \/ ~Told(u, "display")'
              /\ savedLook' = savedLook \/ ~Told(u, "look")'
  BY <1>4, <1>11 DEF Told
<1>15. Follows(t)'
  BY <1>2 DEF Follows
<1>16. QED
  BY <1>7, <1>8, <1>10, <1>12, <1>13, <1>14, <1>15, OneTabActs

\* The site's design is followed, on a page that shows no preference.
LEMMA FollowSiteDesignKeeps ==
  ASSUME PreferencesInv, NEW t \in Tabs, FollowSiteDesign(t)
  PROVE  PreferencesInv'
<1>1. PICK keys : keys = Changed("appearance", savedAppearance, FollowingTheme) \cup Changed("look", savedLook, "site")
  OBVIOUS
<1>2. /\ tabPage[t] = "admin"
      /\ savedAppearance' = FollowingTheme /\ savedLook' = "site"
      /\ look' = [look EXCEPT ![t] = "site"] /\ applied' = [applied EXCEPT ![t] = FollowingTheme]
      /\ Tell(t, keys)
      /\ unheard' = [unheard EXCEPT ![t] = {}] /\ missed' = [missed EXCEPT ![t] = FALSE]
      /\ UNCHANGED <<legacy, savedDisplay, tabPage, appearance, display, layout, resetHeard>>
  BY <1>1 DEF FollowSiteDesign
<1>3. keys \in SUBSET Keys /\ {"appearance", "display", "look"} \subseteq Keys
  BY <1>1 DEF Changed, Keys
<1>4. /\ notices' \in [Tabs -> SUBSET Keys] /\ choices' \in 0 .. MaxChoices
      /\ notices'[t] = notices[t]
      /\ \A u \in Tabs \ {t} : notices'[u] = notices[u] \cup keys
  BY <1>2, <1>3, TellingOthers
<1>5. /\ StorageTyped /\ TabsTyped /\ CopiesOf(t) /\ Agrees(t)
      /\ FollowingTheme \in Appearance /\ ReadAppearance \in Appearance /\ DefaultAppearance \in Appearance
      /\ "own" \in Look /\ "site" \in Look /\ DefaultDisplay \in Display
  BY ReadIsTyped DEF PreferencesInv, Look, Display
<1>6. NotSaved \notin Appearance /\ NotSaved \notin Display
  BY NotSavedAssumption
<1>7. StorageTyped'
  BY <1>2, <1>4, <1>5 DEF StorageTyped
<1>8. TabsTyped'
  BY <1>2, <1>3, <1>4, <1>5 DEF TabsTyped
<1>9. applied'[t] = FollowingTheme /\ look'[t] = "site"
  BY <1>2, <1>5 DEF TabsTyped
<1>10. CopiesOf(t)'
  BY <1>2, <1>5, <1>6, <1>9 DEF CopiesOf
<1>11. /\ ReadDisplay' = ReadDisplay /\ savedDisplay' = savedDisplay
       /\ ReadAppearance' = ReadAppearance \/ "appearance" \in keys
       /\ savedLook' = savedLook \/ "look" \in keys
  BY <1>1, <1>2 DEF Changed, ReadAppearance, Read, ReadDisplay
<1>12. Agrees(t)'
  <2>1. ReadAppearance' = FollowingTheme
    BY <1>2, <1>5, <1>6 DEF ReadAppearance, Read
  <2>2. QED
    BY <1>2, <1>9, <2>1 DEF Agrees
<1>13. ASSUME NEW u \in Tabs \ {t}
       PROVE  /\ tabPage'[u] = tabPage[u] /\ appearance'[u] = appearance[u] /\ display'[u] = display[u]
              /\ look'[u] = look[u] /\ applied'[u] = applied[u] /\ missed'[u] = missed[u]
              /\ layout'[u] = layout[u] /\ resetHeard'[u] = resetHeard[u]
              /\ notices[u] \subseteq notices'[u] /\ unheard[u] \subseteq unheard'[u]
  BY <1>2, <1>4, <1>5 DEF TabsTyped
<1>14. ASSUME NEW u \in Tabs \ {t}
       PROVE  /\ ReadAppearance' = ReadAppearance \/ ~Told(u, "appearance")'
              /\ savedDisplay' = savedDisplay \/ ~Told(u, "display")'
              /\ savedLook' = savedLook \/ ~Told(u, "look")'
  BY <1>4, <1>11 DEF Told
<1>15. Follows(t)'
  BY <1>2 DEF Follows
<1>16. QED
  BY <1>7, <1>8, <1>10, <1>12, <1>13, <1>14, <1>15, OneTabActs

\* A tab hears of a key: it reads it if its page listens, and the look whatever the key.
LEMMA HearKeeps ==
  ASSUME PreferencesInv, NEW t \in Tabs, NEW key \in Keys, Hear(t, key)
  PROVE  PreferencesInv'
<1> DEFINE heard == IF key = "display" /\ tabPage[t] # "admin" THEN ReadDisplay ELSE display[t]
           other == tabPage[t] = "collection" /\ ViewOf(savedLook) # ViewOf(layout[t])
           reset == IF key = "display" THEN tabPage[t] = "collection" /\ ~other /\ savedDisplay = NotSaved
                    ELSE resetHeard[t] /\ ~(other /\ savedDisplay = NotSaved)
<1>1. /\ notices' = [notices EXCEPT ![t] = @ \ {key}]
      /\ look' = [look EXCEPT ![t] = savedLook]
      /\ IF key = "appearance" /\ tabPage[t] = "account"
         THEN /\ appearance' = [appearance EXCEPT ![t] = ReadAppearance]
              /\ applied' = [applied EXCEPT ![t] = ReadAppearance]
         ELSE UNCHANGED <<appearance, applied>>
      /\ missed' = [missed EXCEPT ![t] = IF key = "appearance" THEN tabPage[t] # "account" ELSE @]
      /\ display' = [display EXCEPT ![t] = IF other THEN Followed(heard) ELSE heard]
      /\ resetHeard' = [resetHeard EXCEPT ![t] = reset]
      /\ layout' = [layout EXCEPT ![t] = IF tabPage[t] = "collection" THEN savedLook ELSE @]
      /\ unheard' = [unheard EXCEPT ![t] = @ \ {key, "look"}]
      /\ UNCHANGED <<savedAppearance, legacy, savedDisplay, savedLook, tabPage, choices>>
  BY DEF Hear, storage
<1>2. /\ StorageTyped /\ TabsTyped /\ CopiesOf(t) /\ Agrees(t) /\ Follows(t)
      /\ ReadAppearance \in Appearance /\ ReadDisplay \in Display
  BY ReadIsTyped DEF PreferencesInv
<1>3. NotSaved \notin Appearance /\ NotSaved \notin Display /\ NotSaved \notin Look
  BY NotSavedAssumption
<1>4. StorageTyped'
  BY <1>1, <1>2 DEF StorageTyped
<1>5. /\ appearance' \in [Tabs -> Appearance \cup {NotSaved}] /\ applied' \in [Tabs -> Appearance]
      /\ appearance'[t] = IF key = "appearance" /\ tabPage[t] = "account" THEN ReadAppearance ELSE appearance[t]
      /\ applied'[t] = IF key = "appearance" /\ tabPage[t] = "account" THEN ReadAppearance ELSE applied[t]
      /\ \A u \in Tabs \ {t} : appearance'[u] = appearance[u] /\ applied'[u] = applied[u]
  BY <1>1, <1>2 DEF TabsTyped
<1>6. /\ display' \in [Tabs -> Display \cup {NotSaved}] /\ look' \in [Tabs -> Look]
      /\ notices' \in [Tabs -> SUBSET Keys] /\ unheard' \in [Tabs -> SUBSET Keys]
      /\ layout' \in [Tabs -> Look \cup {NotSaved}] /\ resetHeard' \in [Tabs -> BOOLEAN]
  <2>1. heard \in Display \cup {NotSaved} /\ (tabPage[t] = "collection" => heard \in Display)
    BY <1>2 DEF TabsTyped, CopiesOf
  <2>2. (IF other THEN Followed(heard) ELSE heard) \in Display \cup {NotSaved}
    BY <2>1, FollowedIsTyped
  <2>3. reset \in BOOLEAN
    BY <1>2 DEF TabsTyped
  <2>4. display' \in [Tabs -> Display \cup {NotSaved}] /\ resetHeard' \in [Tabs -> BOOLEAN]
    BY <1>1, <1>2, <2>2, <2>3 DEF TabsTyped
  <2>5. QED
    BY <1>1, <1>2, <2>4 DEF TabsTyped, StorageTyped
<1>7. missed' \in [Tabs -> BOOLEAN]
  BY <1>1, <1>2 DEF TabsTyped
<1>8. TabsTyped'
  BY <1>1, <1>2, <1>5, <1>6, <1>7 DEF TabsTyped
<1>9. /\ look'[t] = savedLook /\ notices'[t] = notices[t] \ {key} /\ unheard'[t] = unheard[t] \ {key, "look"}
      /\ display'[t] = (IF other THEN Followed(heard) ELSE heard) /\ resetHeard'[t] = reset
      /\ layout'[t] = IF tabPage[t] = "collection" THEN savedLook ELSE layout[t]
      /\ missed'[t] = IF key = "appearance" THEN tabPage[t] # "account" ELSE missed[t]
  BY <1>1, <1>2 DEF TabsTyped
<1>10. CopiesOf(t)'
  <2>1. tabPage[t] # "admin" => display'[t] \in Display
    BY <1>2, <1>9, FollowedIsTyped DEF TabsTyped, CopiesOf
  <2>2. tabPage[t] = "admin" => display'[t] = display[t]
    BY <1>9
  <2>3. QED
    BY <1>1, <1>2, <1>3, <1>5, <1>9, <2>1, <2>2 DEF CopiesOf, StorageTyped
<1>11. ReadAppearance' = ReadAppearance /\ ReadDisplay' = ReadDisplay
  BY <1>1 DEF ReadAppearance, ReadDisplay, Read
<1>12. Agrees(t)'
  <2>1. /\ key # "appearance" /\ Told(t, "appearance")' => Told(t, "appearance")
        /\ key # "display" /\ Told(t, "display")' => Told(t, "display")
    BY <1>9 DEF Told
  <2>2. tabPage[t] = "account" /\ Told(t, "appearance")' => appearance'[t] = ReadAppearance
    BY <1>2, <1>5, <2>1 DEF Agrees
  <2>3. Told(t, "appearance")' /\ ~missed'[t] => applied'[t] = ReadAppearance
    <3>1. CASE key = "appearance"
      BY <1>5, <1>9, <3>1
    <3>2. CASE key # "appearance"
      BY <1>2, <1>5, <1>9, <2>1, <3>2 DEF Agrees
    <3>3. QED
      BY <3>1, <3>2
  <2>4. tabPage[t] = "account" /\ Told(t, "display")' => display'[t] = ReadDisplay
    BY <1>2, <1>9, <2>1 DEF Agrees
  <2>5. QED
    BY <1>1, <1>9, <1>11, <2>2, <2>3, <2>4 DEF Agrees
<1>13. ASSUME NEW u \in Tabs \ {t}
       PROVE  /\ tabPage'[u] = tabPage[u] /\ display'[u] = display[u] /\ look'[u] = look[u]
              /\ layout'[u] = layout[u] /\ resetHeard'[u] = resetHeard[u]
              /\ missed'[u] = missed[u] /\ notices'[u] = notices[u] /\ unheard'[u] = unheard[u]
  BY <1>1, <1>2 DEF TabsTyped
<1>14. UNCHANGED <<savedLook, savedDisplay>>
  BY <1>1
<1>15. Follows(t)'
  <2> SUFFICES ASSUME tabPage[t] = "collection" PROVE layout'[t] = savedLook /\ (Told(t, "display")' => Displays(t)')
    BY <1>1, <1>9, <1>14 DEF Follows
  <2>1. layout'[t] = savedLook
    BY <1>9
  <2> SUFFICES ASSUME Told(t, "display")' PROVE Displays(t)'
    BY <2>1
  <2>2. CASE key = "display"
    <3>1. heard = ReadDisplay /\ (resetHeard'[t] <=> ~other /\ savedDisplay = NotSaved)
      BY <1>9, <2>2
    <3>2. display'[t] = IF other THEN Followed(ReadDisplay) ELSE ReadDisplay
      BY <1>9, <3>1
    <3>3. QED
      BY <1>14, <2>1, <3>1, <3>2 DEF Displays, ReadDisplay, Followed, ShownBy
  <2>3. CASE key # "display"
    <3>1. Displays(t)
      BY <1>2, <1>9, <2>3 DEF Follows, Told
    <3>2. display'[t] = (IF other THEN Followed(display[t]) ELSE display[t])
          /\ (resetHeard'[t] <=> resetHeard[t] /\ ~(other /\ savedDisplay = NotSaved))
      BY <1>9, <2>3
    <3>3. CASE savedDisplay # NotSaved
      BY <1>14, <3>1, <3>2, <3>3 DEF Displays, Followed
    <3>4. CASE savedDisplay = NotSaved /\ ~other
      <4>1. ShownBy(layout[t]) = ShownBy(savedLook)
        BY <3>4 DEF ShownBy
      <4>2. QED
        BY <1>14, <2>1, <3>1, <3>2, <3>4, <4>1 DEF Displays, ShownBy, ViewOf
    <3>5. CASE savedDisplay = NotSaved /\ other
      <4>1. display[t] = DefaultDisplay \/ display[t] = ShownBy(layout[t])
        BY <3>1, <3>5 DEF Displays
      <4>2. [display[t] EXCEPT !.view = ViewOf(savedLook)] = ShownBy(savedLook)
        BY <4>1 DEF ShownBy, DefaultDisplay
      <4>3. display'[t] = ShownBy(savedLook) /\ ~resetHeard'[t]
        BY <3>2, <3>5, <4>2 DEF Followed
      <4>4. QED
        BY <1>14, <2>1, <3>5, <4>3 DEF Displays, ShownBy, ViewOf
    <3>6. QED
      BY <3>3, <3>4, <3>5
  <2>4. QED
    BY <2>2, <2>3
<1>16. QED
  BY <1>4, <1>5, <1>8, <1>10, <1>11, <1>12, <1>13, <1>14, <1>15, OneTabActs

\* A page is opened: it reads what it shows, and a change the tab was not told of is passed.
LEMMA OpenPageKeeps ==
  ASSUME PreferencesInv, NEW t \in Tabs, NEW next \in {"account", "collection", "admin"}, OpenPage(t, next)
  PROVE  PreferencesInv'
<1>1. /\ tabPage' = [tabPage EXCEPT ![t] = next]
      /\ appearance' = [appearance EXCEPT ![t] = IF next = "account" THEN ReadAppearance ELSE NotSaved]
      /\ display' = [display EXCEPT ![t] = IF next = "account" THEN ReadDisplay
                                          ELSE IF next = "collection" THEN Followed(ReadDisplay) ELSE NotSaved]
      /\ layout' = [layout EXCEPT ![t] = IF next = "collection" THEN savedLook ELSE NotSaved]
      /\ resetHeard' = [resetHeard EXCEPT ![t] = FALSE]
      /\ missed' = [missed EXCEPT ![t] = @ \/ "appearance" \in notices[t] \cup unheard[t]]
      /\ unheard' = [unheard EXCEPT ![t] = @ \ {"appearance", "display"}]
      /\ UNCHANGED <<savedAppearance, legacy, savedDisplay, savedLook, look, applied, choices, notices>>
  BY DEF OpenPage, storage
<1>2. /\ StorageTyped /\ TabsTyped /\ Agrees(t) /\ savedLook \in Look
      /\ ReadAppearance \in Appearance /\ ReadDisplay \in Display /\ Followed(ReadDisplay) \in Display
  BY ReadIsTyped, FollowedIsTyped DEF PreferencesInv, StorageTyped
<1>3. NotSaved \notin Appearance /\ NotSaved \notin Display /\ NotSaved \notin Look
  BY NotSavedAssumption
<1>4. StorageTyped'
  BY <1>1, <1>2 DEF StorageTyped
<1>5. /\ tabPage' \in [Tabs -> {"account", "collection", "admin"}]
      /\ appearance' \in [Tabs -> Appearance \cup {NotSaved}]
      /\ display' \in [Tabs -> Display \cup {NotSaved}] /\ unheard' \in [Tabs -> SUBSET Keys]
      /\ layout' \in [Tabs -> Look \cup {NotSaved}] /\ resetHeard' \in [Tabs -> BOOLEAN]
  BY <1>1, <1>2 DEF TabsTyped
<1>6. missed' \in [Tabs -> BOOLEAN]
  <2>1. missed[t] \in BOOLEAN
    BY <1>2 DEF TabsTyped
  <2>2. PICK b : b = (missed[t] \/ "appearance" \in notices[t] \cup unheard[t])
    OBVIOUS
  <2>3. b \in BOOLEAN
    BY <2>1, <2>2, Zenon
  <2>4. missed' = [missed EXCEPT ![t] = b]
    BY <1>1, <2>2, Zenon
  <2>5. QED
    BY <1>2, <2>3, <2>4 DEF TabsTyped
<1>7. TabsTyped'
  BY <1>1, <1>2, <1>5, <1>6 DEF TabsTyped
<1>8. /\ tabPage'[t] = next /\ appearance'[t] = IF next = "account" THEN ReadAppearance ELSE NotSaved
      /\ display'[t] = IF next = "account" THEN ReadDisplay
                       ELSE IF next = "collection" THEN Followed(ReadDisplay) ELSE NotSaved
      /\ layout'[t] = (IF next = "collection" THEN savedLook ELSE NotSaved) /\ resetHeard'[t] = FALSE
      /\ unheard'[t] = unheard[t] \ {"appearance", "display"}
  BY <1>1, <1>2 DEF TabsTyped
<1>9. missed'[t] <=> (missed[t] \/ "appearance" \in notices[t] \cup unheard[t])
  BY <1>1, <1>2 DEF TabsTyped
<1>10. CopiesOf(t)'
  BY <1>2, <1>3, <1>8 DEF CopiesOf
<1>11. ReadAppearance' = ReadAppearance /\ ReadDisplay' = ReadDisplay
  BY <1>1 DEF ReadAppearance, ReadDisplay, Read
<1>12. Agrees(t)'
  <2>1. Told(t, "look")' => Told(t, "look")
    BY <1>1, <1>8 DEF Told
  <2>2. ~missed'[t] => Told(t, "appearance") /\ ~missed[t]
    BY <1>9 DEF Told
  <2>3. ~missed'[t] => applied'[t] = ReadAppearance
    BY <1>1, <1>2, <2>2 DEF Agrees
  <2>4. QED
    BY <1>1, <1>2, <1>8, <1>11, <2>1, <2>3 DEF Agrees
<1>13. ASSUME NEW u \in Tabs \ {t}
       PROVE  /\ tabPage'[u] = tabPage[u] /\ appearance'[u] = appearance[u] /\ display'[u] = display[u]
              /\ layout'[u] = layout[u] /\ resetHeard'[u] = resetHeard[u]
              /\ missed'[u] = missed[u] /\ unheard'[u] = unheard[u]
  BY <1>1, <1>2 DEF TabsTyped
<1>14. UNCHANGED <<notices, look, applied, savedLook, savedDisplay>>
  BY <1>1
<1>15. Follows(t)'
  BY <1>8, <1>14 DEF Follows, Displays, Followed, ReadDisplay, ShownBy
<1>16. QED
  BY <1>4, <1>7, <1>10, <1>11, <1>12, <1>13, <1>14, <1>15, OneTabActs

\* The device changes its theme: what is stored is applied.
LEMMA SystemThemeKeeps ==
  ASSUME PreferencesInv, NEW t \in Tabs, SystemTheme(t)
  PROVE  PreferencesInv'
<1>1. /\ applied' = [applied EXCEPT ![t] = ReadAppearance]
      /\ missed' = [missed EXCEPT ![t] = @ /\ "appearance" \in unheard[t]]
      /\ UNCHANGED <<savedAppearance, legacy, savedDisplay, savedLook, tabPage, appearance, display, look, layout,
                     choices, notices, unheard, resetHeard>>
  BY DEF SystemTheme, storage
<1>2. /\ StorageTyped /\ TabsTyped /\ Agrees(t) /\ CopiesOf(t) /\ Follows(t) /\ ReadAppearance \in Appearance
  BY ReadIsTyped DEF PreferencesInv
<1>3. StorageTyped'
  BY <1>1, <1>2 DEF StorageTyped
<1>4. missed' \in [Tabs -> BOOLEAN]
  <2>1. missed[t] \in BOOLEAN
    BY <1>2 DEF TabsTyped
  <2>2. PICK b : b = (missed[t] /\ "appearance" \in unheard[t])
    OBVIOUS
  <2>3. b \in BOOLEAN
    BY <2>1, <2>2, Zenon
  <2>4. missed' = [missed EXCEPT ![t] = b]
    BY <1>1, <2>2, Zenon
  <2>5. QED
    BY <1>2, <2>3, <2>4 DEF TabsTyped
<1>5. TabsTyped'
  BY <1>1, <1>2, <1>4 DEF TabsTyped
<1>6. applied'[t] = ReadAppearance
  BY <1>1, <1>2 DEF TabsTyped
<1>7. ReadAppearance' = ReadAppearance /\ ReadDisplay' = ReadDisplay
  BY <1>1 DEF ReadAppearance, ReadDisplay, Read
<1>8. CopiesOf(t)'
  BY <1>1, <1>2 DEF CopiesOf
<1>9. Agrees(t)'
  BY <1>1, <1>2, <1>6, <1>7 DEF Agrees, Told
<1>10. ASSUME NEW u \in Tabs \ {t} PROVE applied'[u] = applied[u] /\ missed'[u] = missed[u]
  BY <1>1, <1>2 DEF TabsTyped
<1>11. UNCHANGED <<savedDisplay, savedLook, tabPage, appearance, display, look, layout, notices, unheard, resetHeard>>
  BY <1>1
<1>12. Follows(t)'
  BY <1>2, <1>11 DEF Follows, Displays, Told
<1>13. QED
  BY <1>3, <1>5, <1>7, <1>8, <1>9, <1>10, <1>11, <1>12, OneTabActs

\* Every step of the tabs keeps the invariant.
LEMMA PreferencesInvInductive ==
  ASSUME PreferencesInv, [PreferencesNext]_preferenceVars
  PROVE  PreferencesInv'
<1>1. CASE UNCHANGED preferenceVars
  BY <1>1 DEF PreferencesInv, preferenceVars, storage, StorageTyped, TabsTyped, CopiesOf, Agrees, Told,
              Follows, Displays, ReadAppearance, ReadDisplay, Read
<1>2. CASE PreferencesNext
  BY <1>2, UpdateAppearanceKeeps, UpdateDisplayKeeps, ResetAppearanceKeeps, ResetDisplayKeeps, SaveLayoutKeeps,
     FollowSiteDesignKeeps, SystemThemeKeeps, ApplyLookKeeps, LookRefusedKeeps, HearKeeps, OpenPageKeeps
     DEF PreferencesNext
<1>3. QED
  BY <1>1, <1>2

\* However many tabs a browser has, and whatever they choose at once, each comes to show
\* what is stored once it has heard of it; where no display is stored a collection page
\* comes to follow the layout, unless it was open when the display was reset.
THEOREM TabsComeToAgree == PreferencesSpec => [](PreferencesTypeOK /\ TabsAgree)
<1>1. PreferencesInit => PreferencesInv
  <2> SUFFICES ASSUME PreferencesInit PROVE PreferencesInv
    OBVIOUS
  <2>1. DefaultAppearance \in Appearance /\ [DefaultAppearance EXCEPT !.theme = "light"] \in Appearance
        /\ [DefaultAppearance EXCEPT !.detail = "chosen"] \in Appearance
        /\ [DefaultDisplay EXCEPT !.shows = "chosen"] \in Display
    BY DEF DefaultAppearance, Appearance, DefaultDisplay, Display
  <2>2. StorageTyped
    BY <2>1, ChoicesAssumption DEF PreferencesInit, StorageTyped, Look
  <2>3. ReadAppearance \in Appearance /\ ReadDisplay \in Display /\ savedLook \in Look
    BY <2>2, ReadIsTyped DEF StorageTyped
  <2>4. TabsTyped
    BY <2>3 DEF PreferencesInit, TabsTyped
  <2>5. \A t \in Tabs : /\ appearance[t] = ReadAppearance /\ applied[t] = ReadAppearance
                        /\ display[t] = ReadDisplay /\ look[t] = savedLook /\ tabPage[t] = "account"
                        /\ layout[t] = NotSaved
    BY DEF PreferencesInit
  <2>6. \A t \in Tabs : CopiesOf(t)
    BY <2>3, <2>5, NotSavedAssumption DEF CopiesOf
  <2>7. \A t \in Tabs : Agrees(t)
    BY <2>5 DEF Agrees
  <2>8. \A t \in Tabs : Follows(t)
    BY <2>5 DEF Follows
  <2>9. QED
    BY <2>2, <2>4, <2>6, <2>7, <2>8 DEF PreferencesInv
<1>2. PreferencesInv => PreferencesTypeOK
  <2> SUFFICES ASSUME PreferencesInv PROVE PreferencesTypeOK
    OBVIOUS
  <2>1. StorageTyped /\ TabsTyped /\ \A t \in Tabs : CopiesOf(t)
    BY DEF PreferencesInv
  <2>2. ASSUME NEW t \in Tabs
        PROVE  /\ IF tabPage[t] = "account" THEN appearance[t] \in Appearance ELSE appearance[t] = NotSaved
               /\ IF tabPage[t] # "admin" THEN display[t] \in Display ELSE display[t] = NotSaved
               /\ IF tabPage[t] = "collection" THEN layout[t] \in Look ELSE layout[t] = NotSaved
               /\ look[t] \in Look /\ applied[t] \in Appearance /\ resetHeard[t] \in BOOLEAN
               /\ notices[t] \subseteq Keys /\ unheard[t] \subseteq Keys /\ missed[t] \in BOOLEAN
    BY <2>1 DEF TabsTyped, CopiesOf
  <2>3. QED
    BY <2>1, <2>2 DEF PreferencesTypeOK, StorageTyped, TabsTyped
<1>3. PreferencesInv => TabsAgree
  <2> SUFFICES ASSUME PreferencesInv, NEW t \in Tabs
               PROVE  LET settled == Keys \ (notices[t] \cup unheard[t]) IN
                      /\ tabPage[t] = "account" /\ "appearance" \in settled => appearance[t] = ReadAppearance
                      /\ tabPage[t] = "account" /\ "appearance" \in settled /\ ~missed[t] => applied[t] = ReadAppearance
                      /\ tabPage[t] = "account" /\ "display" \in settled => display[t] = ReadDisplay
                      /\ tabPage[t] = "collection" /\ {"display", "look"} \subseteq settled =>
                           display[t] = IF resetHeard[t] THEN DefaultDisplay ELSE Followed(ReadDisplay)
                      /\ "look" \in settled => look[t] = savedLook
    BY DEF TabsAgree
  <2>1. Agrees(t) /\ Follows(t)
    BY DEF PreferencesInv
  <2>2. tabPage[t] = "collection" /\ Told(t, "display") /\ Told(t, "look") =>
          display[t] = IF resetHeard[t] THEN DefaultDisplay ELSE Followed(ReadDisplay)
    <3> SUFFICES ASSUME tabPage[t] = "collection", Told(t, "display"), Told(t, "look")
                 PROVE  display[t] = IF resetHeard[t] THEN DefaultDisplay ELSE Followed(ReadDisplay)
      OBVIOUS
    <3>1. layout[t] = savedLook /\ Displays(t)
      BY <2>1 DEF Follows
    <3>2. QED
      BY <3>1 DEF Displays, ShownBy, Followed, ReadDisplay
  <2>3. QED
    BY <2>1, <2>2 DEF Agrees, Told
<1>4. QED
  BY <1>1, <1>2, <1>3, PreferencesInvInductive, PTL DEF PreferencesSpec

=============================================================================
