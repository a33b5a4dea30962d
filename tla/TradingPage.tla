----------------------------- MODULE TradingPage -----------------------------
(* The member's page of private trades, TradingPage.tsx: the account and the     *)
(* lists, loaded together, and the changes, one at a time, each followed by a     *)
(* load. A moderator may suspend the member meanwhile.                           *)
(*                                                                              *)
(* The five lists are read one by one; the account, which says whether the member  *)
(* is suspended, is told apart from the rest, abstracted to the changes of this      *)
(* page they were read after.                                                   *)
EXTENDS Integers, FiniteSets

CONSTANTS NoTradesLoad, NoTradesCall,
          MaxTradeChanges  \* bound: changes and searches this page asks for

VARIABLES
  tradesMade,    \* the server: the changes it has made
  barred,        \* the member is suspended
  trades,        \* the lists shown
  suspended,     \* the account shown is suspended
  tradesLoad,    \* the load that will be heard
  tradesCall,    \* the change or search under way, which disables the page
  candidates,    \* a search has found cards to want
  reporting,     \* the form of a report is open
  tradesError,   \* the message: a load, change or search failed
  feedback,      \* the message: a change was made
  tradesAsked,   \* bound
  confirmed,     \* history: the changes the page was told are made
  unloaded,      \* history: the last load failed
  refusedAlone   \* history: the last change was refused, and no load was under way

tradesVars == <<tradesMade, barred, trades, suspended, tradesLoad, tradesCall, candidates, reporting, tradesError,
                feedback, tradesAsked, confirmed, unloaded, refusedAlone>>

TradeChange == 1..MaxTradeChanges
TradesLoad == [read : SUBSET {"account", "lists"}, suspended : BOOLEAN, lists : SUBSET TradeChange]

ASSUME TradingPageAssumption == MaxTradeChanges \in Nat /\ NoTradesLoad \notin TradesLoad

TradingPageTypeOK ==
  /\ {tradesMade, trades, confirmed} \subseteq SUBSET TradeChange /\ tradesAsked \in 0..MaxTradeChanges
  /\ {barred, suspended, candidates, reporting, feedback, unloaded, refusedAlone} \subseteq BOOLEAN
  /\ tradesLoad \in TradesLoad \cup {NoTradesLoad}
  /\ tradesCall # NoTradesCall => tradesCall.n \in TradeChange /\ tradesCall.step \in {"sent", "made", "reloading"}
  /\ tradesError \in {"", "load", "change", "search"}

-----------------------------------------------------------------------------
(* Loads.                                                                  *)

NewTradesLoad == [read |-> {}, suspended |-> FALSE, lists |-> {}]

ReadAccount ==
  /\ tradesLoad # NoTradesLoad /\ "account" \notin tradesLoad.read
  /\ tradesLoad' = [tradesLoad EXCEPT !.read = @ \cup {"account"}, !.suspended = barred]
  /\ UNCHANGED <<tradesMade, barred, trades, suspended, tradesCall, candidates, reporting, tradesError, feedback,
                 tradesAsked, confirmed, unloaded, refusedAlone>>

ReadLists ==
  /\ tradesLoad # NoTradesLoad /\ "lists" \notin tradesLoad.read
  /\ tradesLoad' = [tradesLoad EXCEPT !.read = @ \cup {"lists"}, !.lists = tradesMade]
  /\ UNCHANGED <<tradesMade, barred, trades, suspended, tradesCall, candidates, reporting, tradesError, feedback,
                 tradesAsked, confirmed, unloaded, refusedAlone>>

\* All of it, or nothing. Whatever the message was about, it goes.
TradesShown ==
  /\ tradesLoad # NoTradesLoad /\ tradesLoad.read = {"account", "lists"}
  /\ trades' = tradesLoad.lists /\ suspended' = tradesLoad.suspended
  /\ tradesError' = "" /\ tradesLoad' = NoTradesLoad /\ unloaded' = FALSE
  /\ UNCHANGED <<tradesMade, barred, tradesCall, candidates, reporting, feedback, tradesAsked, confirmed, refusedAlone>>

TradesLost ==
  /\ tradesLoad # NoTradesLoad
  /\ tradesError' = "load" /\ tradesLoad' = NoTradesLoad /\ unloaded' = TRUE
  /\ UNCHANGED <<tradesMade, barred, trades, suspended, tradesCall, candidates, reporting, feedback, tradesAsked,
                 confirmed, refusedAlone>>

-----------------------------------------------------------------------------
(* Changes.                                                                *)

AskTrades(kind) ==
  /\ tradesCall = NoTradesCall /\ ~suspended
  /\ tradesAsked < MaxTradeChanges /\ tradesAsked' = tradesAsked + 1
  /\ tradesCall' = [n |-> tradesAsked + 1, kind |-> kind, step |-> "sent"]
  /\ tradesError' = "" /\ refusedAlone' = FALSE
  /\ UNCHANGED <<tradesMade, barred, trades, suspended, tradesLoad, candidates, confirmed, unloaded>>

\* A card of the collection is offered; a listing or a want is removed.
ChangeTrades == AskTrades("change") /\ feedback' = FALSE /\ UNCHANGED reporting

AddWant == candidates /\ AskTrades("change") /\ feedback' = FALSE /\ UNCHANGED reporting

OpenReport ==
  /\ ~reporting /\ tradesCall = NoTradesCall /\ ~suspended
  /\ reporting' = TRUE
  /\ UNCHANGED <<tradesMade, barred, trades, suspended, tradesLoad, tradesCall, candidates, tradesError, feedback,
                 tradesAsked, confirmed, unloaded, refusedAlone>>

CancelReport ==
  /\ reporting /\ reporting' = FALSE
  /\ UNCHANGED <<tradesMade, barred, trades, suspended, tradesLoad, tradesCall, candidates, tradesError, feedback,
                 tradesAsked, confirmed, unloaded, refusedAlone>>

\* The form is closed, and what was written in it is gone, before there is an answer.
SubmitReport == reporting /\ AskTrades("change") /\ feedback' = FALSE /\ reporting' = FALSE

\* The message of the last change stays.
FindWanted == AskTrades("search") /\ UNCHANGED <<feedback, reporting>>

\* The server's answer to a change: it refuses those of a suspended member.
ServeTrades ==
  /\ tradesCall # NoTradesCall /\ tradesCall.kind = "change" /\ tradesCall.step = "sent" /\ ~barred
  /\ tradesMade' = tradesMade \cup {tradesCall.n} /\ tradesCall' = [tradesCall EXCEPT !.step = "made"]
  /\ UNCHANGED <<barred, trades, suspended, tradesLoad, candidates, reporting, tradesError, feedback, tradesAsked,
                 confirmed, unloaded, refusedAlone>>

\* Mutant: what is on its way is taken for the list after the change.
TradesMadeLazily ==
  /\ tradesCall # NoTradesCall /\ tradesCall.step = "made"
  /\ confirmed' = confirmed \cup {tradesCall.n} /\ feedback' = TRUE
  /\ tradesLoad' = IF tradesLoad = NoTradesLoad THEN NewTradesLoad ELSE tradesLoad
  /\ tradesCall' = [tradesCall EXCEPT !.step = "reloading"]
  /\ UNCHANGED <<tradesMade, barred, trades, suspended, candidates, reporting, tradesError, tradesAsked, unloaded,
                 refusedAlone>>

\* The load that was under way is given up.
TradesMade ==
  /\ tradesCall # NoTradesCall /\ tradesCall.step = "made"
  /\ confirmed' = confirmed \cup {tradesCall.n} /\ feedback' = TRUE
  /\ tradesLoad' = NewTradesLoad
  /\ tradesCall' = [tradesCall EXCEPT !.step = "reloading"]
  /\ UNCHANGED <<tradesMade, barred, trades, suspended, candidates, reporting, tradesError, tradesAsked, unloaded,
                 refusedAlone>>

\* Refused, or not answered.
TradesRefused ==
  /\ tradesCall # NoTradesCall /\ tradesCall.step # "reloading"
  /\ tradesError' = tradesCall.kind /\ tradesCall' = NoTradesCall
  /\ refusedAlone' = (tradesLoad = NoTradesLoad)
  /\ UNCHANGED <<tradesMade, barred, trades, suspended, tradesLoad, candidates, reporting, feedback, tradesAsked,
                 confirmed, unloaded>>

SearchDone(some) ==
  /\ tradesCall # NoTradesCall /\ tradesCall.kind = "search"
  /\ candidates' = some /\ tradesCall' = NoTradesCall
  /\ tradesError' = IF some THEN tradesError ELSE "search"
  /\ UNCHANGED <<tradesMade, barred, trades, suspended, tradesLoad, reporting, feedback, tradesAsked, confirmed,
                 unloaded, refusedAlone>>

TradesReloaded ==
  /\ tradesCall # NoTradesCall /\ tradesCall.step = "reloading" /\ tradesLoad = NoTradesLoad
  /\ tradesCall' = NoTradesCall
  /\ UNCHANGED <<tradesMade, barred, trades, suspended, tradesLoad, candidates, reporting, tradesError, feedback,
                 tradesAsked, confirmed, unloaded, refusedAlone>>

\* A moderator suspends the member, or restores the trading.
Moderate ==
  /\ barred' = ~barred
  /\ UNCHANGED <<tradesMade, trades, suspended, tradesLoad, tradesCall, candidates, reporting, tradesError, feedback,
                 tradesAsked, confirmed, unloaded, refusedAlone>>

\* The member leaves the page, and comes back to a new one. What was under way is not
\* heard of again; a change among it is made, or is not.
LeaveTrades ==
  /\ tradesMade' \in {tradesMade} \cup
       IF tradesCall = NoTradesCall THEN {}
       ELSE IF tradesCall.kind = "search" THEN {} ELSE {tradesMade \cup {tradesCall.n}}
  /\ tradesCall' = NoTradesCall
  /\ trades' = {} /\ suspended' = FALSE /\ tradesLoad' = NewTradesLoad
  /\ candidates' = FALSE /\ reporting' = FALSE /\ tradesError' = "" /\ feedback' = FALSE
  /\ unloaded' = FALSE /\ refusedAlone' = FALSE
  /\ UNCHANGED <<barred, tradesAsked, confirmed>>

-----------------------------------------------------------------------------
TradingPageInit ==
  /\ tradesMade = {} /\ barred \in BOOLEAN /\ trades = {} /\ suspended = FALSE
  /\ tradesLoad = NewTradesLoad /\ tradesCall = NoTradesCall
  /\ candidates = FALSE /\ reporting = FALSE /\ tradesError = "" /\ feedback = FALSE
  /\ tradesAsked = 0 /\ confirmed = {} /\ unloaded = FALSE /\ refusedAlone = FALSE

TradingPageNext ==
  \/ ReadAccount \/ ReadLists \/ TradesShown \/ TradesLost
  \/ ChangeTrades \/ AddWant \/ OpenReport \/ CancelReport \/ SubmitReport \/ FindWanted
  \/ ServeTrades \/ TradesMade \/ TradesRefused \/ TradesReloaded \/ Moderate \/ LeaveTrades
  \/ \E some \in BOOLEAN : SearchDone(some)

TradingPageSpec == TradingPageInit /\ [][TradingPageNext]_tradesVars

-----------------------------------------------------------------------------
(* Properties.                                                             *)

\* At rest the lists include every change the page was told is made, unless the last
\* load failed; and a refusal stays on the page until something else is asked for,
\* unless a load was under way when it came, whose end wipes it off.
TradesCurrent ==
  /\ tradesLoad = NoTradesLoad /\ ~unloaded => confirmed \subseteq trades
  /\ refusedAlone => tradesError # ""
=============================================================================
