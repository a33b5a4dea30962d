------------------------------ MODULE WebAuth ------------------------------
(* Who the web application takes to be signed in: the context of app/auth.tsx, *)
(* the pages that sign in and out, and the routes that let an account in.       *)
(*                                                                             *)
(* The browser's cookie names a session at the server; the context shows what   *)
(* the last answer said of it. Answers may come late, fail, or be lost, and a   *)
(* session may end elsewhere. The answer to /auth/me is read at the server      *)
(* and applied later; every other answer carries its own change of the cookie.  *)
EXTENDS Naturals, FiniteSets

CONSTANTS Accounts, NoAccount,
          MaxAsked,   \* bound: requests in flight
          MaxEvents   \* bound: answers lost, and sessions ended elsewhere

ASSUME AuthAssumption == NoAccount \notin Accounts /\ MaxAsked \in Nat /\ MaxEvents \in Nat

VARIABLES
  session,    \* the account the browser's cookie signs in
  challenge,  \* the account that has given its password and owes a code
  wants,      \* what the server asks of an account first
  context,    \* status and user of the context
  at,         \* the route
  admitted,   \* the page that changes the password has been let in
  asked,      \* requests in flight
  events,     \* bound
  amiss       \* history: why the context may be wrong since the last sign-in or -out

authVars == <<session, challenge, wants, context, at, admitted, asked, events, amiss>>

Demands == {"password", "mfa"}
NoUser == [who |-> NoAccount, wants |-> {}]
User == [who : Accounts \cup {NoAccount}, wants : SUBSET Demands]
Snapshot == [who |-> session, wants |-> IF session = NoAccount THEN {} ELSE wants[session]]

Routes == {"home", "login", "challenge", "change", "account", "workspace"}
\* Where a member who signs in goes on to: the page that asked for it, or the workspace.
Destinations == {"change", "account", "workspace"}

\* "start" and "again" are GET /auth/me: when the application starts, and by the
\* pages that have changed what it answers.
Refreshes == {"start", "again"}
NoAnswer == [status |-> "none", user |-> NoUser]
Call(kind, who) == [kind |-> kind, who |-> who, answer |-> NoAnswer]

AuthTypeOK ==
  /\ session \in Accounts \cup {NoAccount} /\ challenge \in Accounts \cup {NoAccount}
  /\ wants \in [Accounts -> SUBSET Demands]
  /\ context.status \in {"loading", "authenticated", "unauthenticated", "unavailable"}
  /\ context.user \in User
  /\ at \in Routes /\ admitted \in BOOLEAN
  /\ \A c \in asked : c.kind \in Refreshes \cup {"login", "code", "logout", "password"}
  /\ events \in 0..MaxEvents /\ amiss \subseteq {"ended", "lost", "overtaken"}

SignedIn == context.status = "authenticated"
Asked(kind) == \E c \in asked : c.kind = kind

-----------------------------------------------------------------------------
(* The routes.                                                             *)

\* Where a route sends the browser on, `goal` being where the member of a challenge was
\* going; a route that renders stays.
Redirect(route, goal) ==
  CASE route = "login" -> IF SignedIn THEN "workspace" ELSE route
    [] route = "challenge" -> IF SignedIn THEN goal ELSE route
    [] route = "home" \/ context.status \in {"loading", "unavailable"} -> route
    [] ~SignedIn \/ context.user = NoUser ->
         IF route = "change" /\ ~SignedIn /\ admitted THEN route ELSE "login"
    [] "password" \in context.user.wants /\ route # "change" -> "change"
    [] "password" \notin context.user.wants /\ route = "change" -> "workspace"
    [] "mfa" \in context.user.wants /\ route # "account" -> "account"
    [] OTHER -> route

Stays(route) == \A goal \in Destinations : Redirect(route, goal) = route
Rendered(route) == at = route /\ Stays(route)
Open == context.status \notin {"loading", "unavailable"}

Navigate ==
  /\ \E goal \in Destinations : Redirect(at, goal) # at /\ at' = Redirect(at, goal)
  /\ admitted' = FALSE
  /\ UNCHANGED <<session, challenge, wants, context, asked, events, amiss>>

\* The effect of ProtectedRoute, after it has rendered.
Admit ==
  /\ at = "change" /\ SignedIn /\ "password" \in context.user.wants /\ ~admitted
  /\ admitted' = TRUE
  /\ UNCHANGED <<session, challenge, wants, context, at, asked, events, amiss>>

Visit(route) ==
  /\ Stays(at) /\ route # at
  /\ at' = route /\ admitted' = FALSE
  /\ UNCHANGED <<session, challenge, wants, context, asked, events, amiss>>

\* The application is loaded anew; what was asked before is not heard of again.
Reload ==
  /\ ~Asked("start")
  /\ context' = [status |-> "loading", user |-> NoUser]
  /\ asked' = {Call("start", NoAccount)} /\ amiss' = {} /\ admitted' = FALSE
  /\ UNCHANGED <<session, challenge, wants, at, events>>

-----------------------------------------------------------------------------
(* Asking.                                                                 *)

Ask(kind, who) ==
  /\ ~Asked(kind) /\ Cardinality(asked) < MaxAsked
  /\ asked' = asked \cup {Call(kind, who)}
  /\ UNCHANGED <<session, challenge, wants, context, at, admitted, events, amiss>>

SignIn(a) == Rendered("login") /\ Ask("login", a)
EnterCode == Rendered("challenge") /\ ~Asked("again") /\ Ask("code", NoAccount)
SignOut == SignedIn /\ Ask("logout", NoAccount)
ChangePassword == Rendered("change") /\ Open /\ admitted /\ Ask("password", NoAccount)

\* The last step of MfaSettings: the server has been told, the context is refreshed.
Enroll ==
  /\ Rendered("account") /\ SignedIn /\ session = context.user.who
  /\ ~Asked("again") /\ Cardinality(asked) < MaxAsked
  /\ wants' = [wants EXCEPT ![session] = @ \ {"mfa"}]
  /\ asked' = asked \cup {Call("again", NoAccount)}
  /\ UNCHANGED <<session, challenge, context, at, admitted, events, amiss>>

-----------------------------------------------------------------------------
(* Answers.                                                                *)

\* GET /auth/me is answered for the session of the moment.
ReadMe(c) ==
  /\ c \in asked /\ c.kind \in Refreshes /\ c.answer = NoAnswer
  /\ asked' = (asked \ {c}) \cup
       {[c EXCEPT !.answer = [status |-> IF session = NoAccount THEN "unauthenticated"
                                         ELSE "authenticated",
                              user |-> Snapshot]]}
  /\ UNCHANGED <<session, challenge, wants, context, at, admitted, events, amiss>>

\* After a challenge the page goes on to where the member was going.
AfterRefresh(c) == IF c.kind = "again" /\ at = "challenge" THEN Destinations ELSE {at}

Refresh(c) ==
  /\ c \in asked /\ c.answer # NoAnswer
  /\ context' = c.answer
  /\ asked' = asked \ {c} /\ at' \in AfterRefresh(c)
  /\ amiss' = IF c.answer.user = Snapshot THEN {} ELSE amiss \cup {"overtaken"}
  /\ UNCHANGED <<session, challenge, wants, admitted, events>>

\* The service is not reached, or fails: the user stays.
RefreshFails(c) ==
  /\ c \in asked /\ c.kind \in Refreshes
  /\ context' = [context EXCEPT !.status = "unavailable"]
  /\ asked' = asked \ {c} /\ at' \in AfterRefresh(c)
  /\ UNCHANGED <<session, challenge, wants, admitted, events, amiss>>

\* The password is right, and the account has no second step or is trusted here.
LoggedIn(c) ==
  /\ c \in asked /\ c.kind = "login"
  /\ session' = c.who
  /\ context' = [status |-> "authenticated", user |-> [who |-> c.who, wants |-> wants[c.who]]]
  /\ at' \in Destinations /\ amiss' = {}
  /\ asked' = asked \ {c}
  /\ UNCHANGED <<challenge, wants, admitted, events>>

\* It is enrolled: the cookie of any session is dropped.
Challenged(c) ==
  /\ c \in asked /\ c.kind = "login" /\ "mfa" \notin wants[c.who]
  /\ session' = NoAccount /\ challenge' = c.who
  /\ at' = "challenge" /\ asked' = asked \ {c}
  /\ UNCHANGED <<wants, context, admitted, events, amiss>>

\* The code is right: the page asks who is signed in.
CodeAccepted(c) ==
  /\ c \in asked /\ c.kind = "code" /\ challenge # NoAccount
  /\ session' = challenge /\ challenge' = NoAccount
  /\ asked' = (asked \ {c}) \cup {Call("again", NoAccount)}
  /\ UNCHANGED <<wants, context, at, admitted, events, amiss>>

SignedOutAs(route, c) ==
  /\ session' = NoAccount
  /\ context' = [status |-> "unauthenticated", user |-> NoUser]
  /\ at' = route /\ admitted' = FALSE /\ amiss' = {}
  /\ asked' = asked \ {c}
  /\ UNCHANGED <<challenge, events>>

LoggedOut(c) ==
  /\ c \in asked /\ c.kind = "logout" /\ session # NoAccount
  /\ SignedOutAs("home", c) /\ UNCHANGED wants

\* Every session of the account is revoked with the old password.
PasswordChanged(c) ==
  /\ c \in asked /\ c.kind = "password" /\ session # NoAccount
  /\ SignedOutAs("login", c)
  /\ wants' = [wants EXCEPT ![session] = @ \ {"password"}]

\* Mutant: signing out forgets the user whatever the server says.
RefusedForgets(c) ==
  /\ c \in asked /\ c.kind \notin Refreshes
  /\ asked' = asked \ {c}
  /\ context' = IF c.kind = "logout" THEN [status |-> "unauthenticated", user |-> NoUser] ELSE context
  /\ UNCHANGED <<session, challenge, wants, at, admitted, events, amiss>>

\* Refused, or not reached: an error on the page, and nothing else. A sign-out that
\* the server refuses, because the session is over, leaves the user shown.
Refused(c) ==
  /\ c \in asked /\ c.kind \notin Refreshes
  /\ asked' = asked \ {c}
  /\ UNCHANGED <<session, challenge, wants, context, at, admitted, events, amiss>>

\* The server did what was asked, and the answer is lost.
AnswerLost(c) ==
  /\ c \in asked /\ events < MaxEvents /\ session # NoAccount
  /\ c.kind \in {"logout", "password"}
  /\ session' = NoAccount
  /\ wants' = IF c.kind = "password" THEN [wants EXCEPT ![session] = @ \ {"password"}] ELSE wants
  /\ asked' = asked \ {c} /\ events' = events + 1 /\ amiss' = amiss \cup {"lost"}
  /\ UNCHANGED <<challenge, context, at, admitted>>

\* The session expires, is revoked, or another tab signs out or in as somebody.
EndedElsewhere(a) ==
  /\ events < MaxEvents /\ a # session
  /\ session' = a
  /\ events' = events + 1 /\ amiss' = amiss \cup {"ended"}
  /\ UNCHANGED <<challenge, wants, context, at, admitted, asked>>

-----------------------------------------------------------------------------
AuthInit ==
  /\ session \in Accounts \cup {NoAccount} /\ challenge = NoAccount
  /\ wants \in [Accounts -> SUBSET Demands]
  /\ context = [status |-> "loading", user |-> NoUser]
  /\ at \in {"home", "workspace"} /\ admitted = FALSE
  /\ asked = {Call("start", NoAccount)} /\ events = 0 /\ amiss = {}

Answered(c) ==
  \/ ReadMe(c) \/ Refresh(c) \/ RefreshFails(c)
  \/ LoggedIn(c) \/ Challenged(c) \/ CodeAccepted(c)
  \/ LoggedOut(c) \/ PasswordChanged(c) \/ Refused(c) \/ AnswerLost(c)

AuthNext ==
  \/ Navigate \/ Admit \/ Reload \/ (\E r \in Routes : Visit(r))
  \/ (\E a \in Accounts : SignIn(a)) \/ EnterCode \/ SignOut \/ ChangePassword \/ Enroll
  \/ \E c \in asked : Answered(c)
  \/ \E a \in Accounts \cup {NoAccount} : EndedElsewhere(a)

AuthSpec == AuthInit /\ [][AuthNext]_authVars

-----------------------------------------------------------------------------
(* Properties.                                                             *)

\* The context shows the account that the cookie signs in, once nothing is in flight:
\* unless, since the last sign-in or sign-out, the session ended elsewhere, an answer
\* was lost or an answer to /auth/me was applied that had been overtaken. A challenge
\* leaves the context to the code.
ShownIsSignedIn ==
  asked = {} /\ amiss = {} /\ context.status # "unavailable" /\ challenge = NoAccount =>
    /\ SignedIn <=> session # NoAccount
    /\ context.user.who = session

\* "They must replace the temporary password and finish MFA setup": whatever an account
\* is asked for first, both included, following the redirects comes to an end, and within
\* three of them a page renders.
FirstSignInSettles ==
  \A goal \in Destinations :
    LET next(r) == Redirect(r, goal) IN next(next(next(at))) = next(next(next(next(at))))
=============================================================================
