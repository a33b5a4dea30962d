----------------------------- MODULE TradingTxn -----------------------------
(***************************************************************************)
(* The trading handlers as PostgreSQL runs them: concurrent READ COMMITTED *)
(* transactions that lock rows one by one (SELECT ... FOR UPDATE), read    *)
(* each row as they lock it, give up early when a check fails, and write   *)
(* from what they read when they commit.                                   *)
(*                                                                         *)
(* A handler is a request, the rows it locks in order (Route), the checks  *)
(* on what it has read so far (Allowed) and one commit action.  A row is   *)
(* <<table, key>>.  Foreign keys of inserted rows take a key-share lock on *)
(* the users they name, which only a FOR UPDATE of that user excludes: the *)
(* commit waits for it (SharedUsers).                                      *)
(*                                                                         *)
(* Revisions only grow, so an expected revision matches exactly as long as *)
(* nobody has revised the row since the client read it: the flag "fresh"   *)
(* of a transaction stands for that comparison.                            *)
(***************************************************************************)
EXTENDS Trading, Sequences

CONSTANTS
  Txns,  \* database connections, each serving one request at a time
  Ops    \* the handlers that requests may ask for

VARIABLE txn

txnVars == <<account, item, listing, report, strike, txn>>

-----------------------------------------------------------------------------
(* Requests.                                                               *)

ItemOps == {"create_item", "update_item", "price_item", "delete_item"}
ListingOps == {"create_trade", "update_trade", "remove_trade", "moderate_listing"}
ReportOps == {"create_report", "dismiss_report", "uphold_report", "void_strike"}
AllOps == ItemOps \cup ListingOps \cup ReportOps \cup {"set_trading_status"}

ASSUME OpsAssumption == Ops \subseteq AllOps

Statuses(op) ==
  CASE op \in {"update_trade", "moderate_listing"} -> {"active", "removed"}
    [] op = "set_trading_status" -> {"active", "suspended"}
    [] OTHER -> {"none"}

Quantities(op) ==
  IF op \in {"create_item", "update_item", "create_trade", "update_trade"}
  THEN Quantity ELSE {0}

Keys(op) ==
  CASE op \in ItemOps \cup ListingOps -> Items
    [] op \in ReportOps -> Reports
    [] OTHER -> Members

Requests ==
  UNION {[op : {op}, key : Keys(op), qty : Quantities(op), status : Statuses(op)] : op \in Ops}

\* The client has seen the row it names.
Known(q) ==
  CASE q.op \in ItemOps \ {"create_item"} -> Held(q.key)
    [] q.op = "create_trade" -> Held(q.key)
    [] q.op \in ListingOps \ {"create_trade"} -> Listed(q.key)
    [] q.op = "create_report" -> Listed(q.key[2])
    [] q.op \in {"dismiss_report", "uphold_report"} -> report[q.key] # "none"
    [] q.op = "void_strike" -> strike[q.key] # "none"
    [] OTHER -> TRUE

\* The item and the member a request is about.
ItemOf(q) == IF q.op \in ReportOps THEN q.key[2] ELSE q.key
MemberOf(q) == IF q.op = "set_trading_status" THEN q.key ELSE Owner[ItemOf(q)]

\* The row whose revision the client quotes.
Expected(q) ==
  CASE q.op \in {"update_item", "price_item", "delete_item"} -> <<"item", q.key>>
    [] q.op \in {"update_trade", "remove_trade", "moderate_listing"} -> <<"listing", q.key>>
    [] q.op = "set_trading_status" -> <<"account", q.key>>
    [] OTHER -> <<"none">>

-----------------------------------------------------------------------------
(* Transactions.                                                           *)

NoRequest == [op |-> "idle"]
Unread == [account |-> FreshAccount, item |-> NoItem("unborn"), listing |-> NoListing,
           report |-> "none", strike |-> "none"]
Idle == [req |-> NoRequest, held |-> {}, saw |-> Unread, fresh |-> TRUE]

Busy(t) == txn[t].req # NoRequest
Holds(t, row) == row \in txn[t].held

TxnInit == Init /\ txn = [t \in Txns |-> Idle]

ActiveListings(m) == {<<"listing", i>> : i \in {j \in ItemsOf(m) : listing[j].status = "active"}}
FiledReports(i) == {<<"report", r>> : r \in {s \in Reports : s[2] = i /\ report[s] # "none"}}

\* Mutant: update_trade locks the listing before the item.
UpdateTradeOrderInverted == <<"account", "listing", "item">>

UpdateTradeOrder == <<"account", "item", "listing">>

\* The tables a handler locks rows of, in the order it asks for them.  Deleting an
\* item cascades to its listing, whose reports then lose their reference to it;
\* upholding a report may remove the listings of the member.
LockOrder(op) ==
  CASE op \in {"create_item", "price_item"} -> <<"item">>
    [] op = "update_item" -> <<"item", "listing">>
    [] op = "delete_item" -> <<"item", "listing", "report">>
    [] op = "create_trade" -> <<"account", "item">>
    [] op = "update_trade" -> UpdateTradeOrder
    [] op = "remove_trade" -> <<"account", "listing">>
    [] op = "create_report" -> <<"listing">>
    [] op = "dismiss_report" -> <<"report", "account">>
    [] op = "uphold_report" -> <<"report", "account", "listing">>
    [] op = "void_strike" -> <<"account", "strike">>
    [] op = "moderate_listing" -> <<"listing", "account">>
    [] op = "set_trading_status" -> <<"user", "account">>
    [] OTHER -> <<>>

RowsToLock(t, table) ==
  LET q == txn[t].req IN
  CASE <<q.op, table>> = <<"uphold_report", "listing">> ->
         IF StrikeSuspends(txn[t].saw.account) THEN ActiveListings(MemberOf(q)) ELSE {}
    [] <<q.op, table>> = <<"delete_item", "report">> -> FiledReports(q.key)
    [] table \in {"user", "account"} -> {<<table, MemberOf(q)>>}
    [] OTHER -> {<<table, IF q.op = "void_strike" \/ table = "report" THEN q.key ELSE ItemOf(q)>>}

Route(t) ==
  LET order == LockOrder(txn[t].req.op)
  IN [n \in DOMAIN order |-> RowsToLock(t, order[n])]

\* The rows of the first stage that is not locked yet.
Missing(t) ==
  LET route == Route(t)
      open == {n \in DOMAIN route : ~(route[n] \subseteq txn[t].held)}
  IN IF open = {} THEN {}
     ELSE LET n == CHOOSE k \in open : \A j \in open : k <= j
          IN route[n] \ txn[t].held

\* Users named by the foreign keys of the rows the commit inserts. They also name the
\* operator, whose row nobody holds for longer than a statement: set_trading_status
\* locks the row of whom it is asked about, and gives it up at once unless that is a
\* member.
SharedUsers(q) ==
  CASE q.op = "create_report" -> {q.key[1], MemberOf(q)}
    [] q.op \in {"create_trade", "dismiss_report", "uphold_report", "void_strike",
                 "moderate_listing"} -> {MemberOf(q)}
    [] OTHER -> {}

\* Mutant: collection items are read without FOR UPDATE.
LockedByOtherButItems(t, row) == row[1] # "item" /\ \E u \in Txns \ {t} : Holds(u, row)

LockedByOther(t, row) == \E u \in Txns \ {t} : Holds(u, row)

\* The checks of the handler on the rows read so far; each early return of the
\* code is one of them turning false.
AccountAllows(t) ==
  LET q == txn[t].req
      row == txn[t].saw.account
  IN Holds(t, <<"account", MemberOf(q)>>) =>
       /\ q.op \in {"create_trade", "update_trade"} => row.status = "active"
       /\ q.op = "moderate_listing" /\ q.status = "active" => row.status = "active"
       /\ q.op = "set_trading_status" =>
            txn[t].fresh /\ (q.status = "active" => row.strikes < StrikeLimit)

ItemAllows(t) ==
  LET q == txn[t].req
      row == txn[t].saw.item
  IN Holds(t, <<"item", ItemOf(q)>>) =>
       /\ q.op = "create_item" => row.state # "deleted" /\ row.qty + q.qty <= MaxQuantity
       /\ q.op \in {"update_item", "price_item", "delete_item"} =>
            row.state = "held" /\ txn[t].fresh
       /\ q.op = "create_trade" =>
            row.state = "held" /\ q.qty <= row.qty /\ ~Listed(q.key)

ListingAllows(t) ==
  LET q == txn[t].req
      row == txn[t].saw.listing
  IN Holds(t, <<"listing", ItemOf(q)>>) =>
       /\ q.op \in {"update_trade", "remove_trade", "moderate_listing"} =>
            row.status # "none" /\ txn[t].fresh
       /\ q.op = "update_trade" /\ Holds(t, <<"item", q.key>>) => q.qty <= txn[t].saw.item.qty
       /\ q.op = "create_report" =>
            row.status = "active" /\ q.key[1] # MemberOf(q) /\ report[q.key] = "none"

DecisionAllows(t) ==
  LET q == txn[t].req IN
  /\ q.op \in {"dismiss_report", "uphold_report"} /\ Holds(t, <<"report", q.key>>) =>
       txn[t].saw.report = "open"
  /\ q.op = "void_strike" /\ Holds(t, <<"strike", q.key>>) =>
       txn[t].saw.strike = "active"

Allowed(t) ==
  IF txn[t].req.op = "set_trading_status" THEN AccountAllows(t)
  ELSE AccountAllows(t) /\ ItemAllows(t) /\ ListingAllows(t) /\ DecisionAllows(t)

-----------------------------------------------------------------------------
(* The life of a transaction before its commit.                            *)

Begin(t) ==
  /\ ~Busy(t)
  /\ \E q \in Requests : Known(q) /\ txn' = [txn EXCEPT ![t] = [Idle EXCEPT !.req = q]]
  /\ UNCHANGED tradingVars

\* What the transaction knows once it has locked a row.  The rows that an upheld
\* report removes and those a deletion cascades to are written by the database
\* and never read.
Read(saw, q, row) ==
  CASE row[1] = "account" -> [saw EXCEPT !.account = account[row[2]]]
    [] row[1] = "item" -> [saw EXCEPT !.item = item[row[2]]]
    [] row[1] = "listing" /\ q.op # "uphold_report" -> [saw EXCEPT !.listing = listing[row[2]]]
    [] row[1] = "report" /\ q.op # "delete_item" -> [saw EXCEPT !.report = report[row[2]]]
    [] row[1] = "strike" -> [saw EXCEPT !.strike = strike[row[2]]]
    [] OTHER -> saw

Acquire(t) ==
  /\ Busy(t)
  /\ Allowed(t)
  /\ \E row \in Missing(t) :
       /\ ~LockedByOther(t, row)
       /\ txn' = [txn EXCEPT ![t].held = @ \cup {row},
                             ![t].saw = Read(@, txn[t].req, row)]
  /\ UNCHANGED tradingVars

\* Mutant: the error path leaves the transaction open.
RefuseWithoutRollback(t) ==
  /\ Busy(t)
  /\ ~Allowed(t)
  /\ UNCHANGED txnVars

\* A failed check answers 403, 404, 409 or 422 and rolls back.
Refuse(t) ==
  /\ Busy(t)
  /\ ~Allowed(t)
  /\ txn' = [txn EXCEPT ![t] = Idle]
  /\ UNCHANGED tradingVars

\* The worker dies or the connection drops: PostgreSQL rolls back.
Crash(t) ==
  /\ Busy(t)
  /\ txn' = [txn EXCEPT ![t] = Idle]
  /\ UNCHANGED tradingVars

Blocked(t) ==
  /\ Busy(t)
  /\ Allowed(t)
  /\ IF Missing(t) # {} THEN \A row \in Missing(t) : LockedByOther(t, row)
     ELSE \E m \in SharedUsers(txn[t].req) : LockedByOther(t, <<"user", m>>)

WaitsOnlyIn(t, S) ==
  IF Missing(t) # {} THEN \A row \in Missing(t) : \E u \in S \ {t} : Holds(u, row)
  ELSE \E m \in SharedUsers(txn[t].req) : \E u \in S \ {t} : Holds(u, <<"user", m>>)

Waiting == {t \in Txns : Blocked(t)}
Deadlocked(S) == S # {} /\ \A t \in S : WaitsOnlyIn(t, S)

\* The deadlock detector aborts one transaction of a cycle; the request ends in a 500.
AbortVictim(t) ==
  /\ \E S \in SUBSET Waiting : t \in S /\ Deadlocked(S)
  /\ txn' = [txn EXCEPT ![t] = Idle]
  /\ UNCHANGED tradingVars

-----------------------------------------------------------------------------
(* Commits.                                                                *)

Ready(t, op) ==
  /\ txn[t].req.op = op
  /\ Allowed(t)
  /\ Missing(t) = {}
  /\ \A m \in SharedUsers(txn[t].req) : ~LockedByOther(t, <<"user", m>>)

\* Every row whose revision the commit raises makes the revision stale that any
\* other request quotes for it, unless that request has compared it already.
Finish(t, revised) ==
  txn' = [u \in Txns |->
            IF u = t THEN Idle
            ELSE IF Busy(u) /\ Expected(txn[u].req) \in revised \ txn[u].held
                 THEN [txn[u] EXCEPT !.fresh = FALSE]
                 ELSE txn[u]]

CommitCreateItem(t) ==
  LET q == txn[t].req IN
  /\ Ready(t, "create_item")
  /\ item' = [item EXCEPT ![q.key] = [state |-> "held", qty |-> txn[t].saw.item.qty + q.qty]]
  /\ Finish(t, {<<"item", q.key>>})
  /\ UNCHANGED <<account, listing, report, strike>>

\* Mutant: clamping a listing does not raise its revision.
CommitUpdateItemSilently(t) ==
  LET q == txn[t].req
      row == txn[t].saw.listing
  IN
  /\ Ready(t, "update_item")
  /\ item' = [item EXCEPT ![q.key].qty = q.qty]
  /\ listing' = IF Clamped(row, q.qty) # row THEN [listing EXCEPT ![q.key].qty = q.qty]
                 ELSE listing
  /\ Finish(t, {<<"item", q.key>>})
  /\ UNCHANGED <<account, report, strike>>

CommitUpdateItem(t) ==
  LET q == txn[t].req
      row == txn[t].saw.listing
      clamped == Clamped(row, q.qty) # row
  IN
  /\ Ready(t, "update_item")
  /\ item' = [item EXCEPT ![q.key].qty = q.qty]
  /\ listing' = IF clamped THEN [listing EXCEPT ![q.key].qty = q.qty] ELSE listing
  /\ Finish(t, {<<"item", q.key>>} \cup IF clamped THEN {<<"listing", q.key>>} ELSE {})
  /\ UNCHANGED <<account, report, strike>>

CommitPriceItem(t) ==
  /\ Ready(t, "price_item")
  /\ Finish(t, {<<"item", txn[t].req.key>>})
  /\ UNCHANGED tradingVars

CommitDeleteItem(t) ==
  LET i == txn[t].req.key IN
  /\ Ready(t, "delete_item")
  /\ item' = [item EXCEPT ![i] = NoItem("deleted")]
  /\ listing' = [listing EXCEPT ![i] = NoListing]
  /\ Finish(t, {<<"item", i>>, <<"listing", i>>})
  /\ UNCHANGED <<account, report, strike>>

CommitCreateTrade(t) ==
  LET q == txn[t].req IN
  /\ Ready(t, "create_trade")
  /\ listing' = [listing EXCEPT ![q.key] = [status |-> "active", qty |-> q.qty]]
  /\ Finish(t, {})
  /\ UNCHANGED <<account, item, report, strike>>

CommitUpdateTrade(t) ==
  LET q == txn[t].req IN
  /\ Ready(t, "update_trade")
  /\ listing' = [listing EXCEPT ![q.key] = [status |-> q.status, qty |-> q.qty]]
  /\ Finish(t, {<<"listing", q.key>>})
  /\ UNCHANGED <<account, item, report, strike>>

CommitRemoveTrade(t) ==
  LET i == txn[t].req.key IN
  /\ Ready(t, "remove_trade")
  /\ listing' = [listing EXCEPT ![i].status = "removed"]
  /\ Finish(t, {<<"listing", i>>})
  /\ UNCHANGED <<account, item, report, strike>>

CommitModerateListing(t) ==
  LET q == txn[t].req IN
  /\ Ready(t, "moderate_listing")
  /\ listing' = [listing EXCEPT ![q.key].status = q.status]
  /\ Finish(t, {<<"listing", q.key>>})
  /\ UNCHANGED <<account, item, report, strike>>

CommitCreateReport(t) ==
  /\ Ready(t, "create_report")
  /\ report' = [report EXCEPT ![txn[t].req.key] = "open"]
  /\ Finish(t, {})
  /\ UNCHANGED <<account, item, listing, strike>>

CommitDismissReport(t) ==
  /\ Ready(t, "dismiss_report")
  /\ report' = [report EXCEPT ![txn[t].req.key] = "dismissed"]
  /\ Finish(t, {})
  /\ UNCHANGED <<account, item, listing, strike>>

CommitUpholdReport(t) ==
  LET q == txn[t].req
      m == MemberOf(q)
      suspends == StrikeSuspends(txn[t].saw.account)
  IN
  /\ Ready(t, "uphold_report")
  /\ report' = [report EXCEPT ![q.key] = "upheld"]
  /\ strike' = [strike EXCEPT ![q.key] = "active"]
  /\ account' = [account EXCEPT ![m] = Struck(txn[t].saw.account)]
  /\ listing' = IF suspends THEN WithoutActive(m) ELSE listing
  /\ Finish(t, {<<"account", m>>} \cup IF suspends THEN ActiveListings(m) ELSE {})
  /\ UNCHANGED item

CommitVoidStrike(t) ==
  LET q == txn[t].req
      strikes == txn[t].saw.account.strikes
  IN
  /\ Ready(t, "void_strike")
  /\ strike' = [strike EXCEPT ![q.key] = "void"]
  /\ account' = [account EXCEPT ![MemberOf(q)].strikes = IF strikes > 0 THEN strikes - 1 ELSE 0]
  /\ Finish(t, {<<"account", MemberOf(q)>>})
  /\ UNCHANGED <<item, listing, report>>

CommitSetTradingStatus(t) ==
  LET q == txn[t].req IN
  /\ Ready(t, "set_trading_status")
  /\ account' = [account EXCEPT ![q.key].status = q.status]
  /\ Finish(t, {<<"account", q.key>>})
  /\ UNCHANGED <<item, listing, report, strike>>

Commit(t) ==
  \/ CommitCreateItem(t)
  \/ CommitUpdateItem(t)
  \/ CommitPriceItem(t)
  \/ CommitDeleteItem(t)
  \/ CommitCreateTrade(t)
  \/ CommitUpdateTrade(t)
  \/ CommitRemoveTrade(t)
  \/ CommitModerateListing(t)
  \/ CommitCreateReport(t)
  \/ CommitDismissReport(t)
  \/ CommitUpholdReport(t)
  \/ CommitVoidStrike(t)
  \/ CommitSetTradingStatus(t)

Answer(t) == Acquire(t) \/ Refuse(t) \/ Commit(t) \/ AbortVictim(t)

TxnNext == \E t \in Txns : Begin(t) \/ Answer(t) \/ Crash(t)

\* PostgreSQL queues the waiters of a row and grants it in order, so a request
\* that can go on again and again does go on.  Nobody has to send a request.
TxnSpec == /\ TxnInit
           /\ [][TxnNext]_txnVars
           /\ \A t \in Txns : SF_txnVars(Answer(t))

-----------------------------------------------------------------------------
(* Properties.                                                             *)

LockRows ==
  ({"user", "account"} \X Members) \cup ({"item", "listing"} \X Items) \cup ({"report", "strike"} \X Reports)

Seen == [account : AccountRow, item : ItemRow, listing : ListingRow,
         report : {"none", "open", "upheld", "dismissed"}, strike : {"none", "active", "void"}]

Txn == [req : Requests \cup {NoRequest}, held : SUBSET LockRows, saw : Seen, fresh : BOOLEAN]

\* The rows of a table that a request may lock, whatever it finds there.  All but
\* the last statement of a handler lock one row.
Lockable(q, table) ==
  CASE <<q.op, table>> = <<"uphold_report", "listing">> ->
         {<<"listing", i>> : i \in ItemsOf(MemberOf(q))}
    [] <<q.op, table>> = <<"delete_item", "report">> -> {<<"report", r>> : r \in {s \in Reports : s[2] = q.key}}
    [] table \in {"user", "account"} -> {<<table, MemberOf(q)>>}
    [] OTHER -> {<<table, IF q.op = "void_strike" \/ table = "report" THEN q.key ELSE ItemOf(q)>>}

\* A request locks its rows in order: before it holds a row of one table it holds
\* those of the tables before.
InOrder(t) ==
  LET order == LockOrder(txn[t].req.op) IN
  \A row \in txn[t].held : \E n \in DOMAIN order :
    /\ row \in Lockable(txn[t].req, order[n])
    /\ \A k \in 1 .. n - 1 : Lockable(txn[t].req, order[k]) \subseteq txn[t].held

\* What a request has read of a row it holds is what the table has.  Only a listing
\* or a report that was not there may have been inserted since: inserts lock nothing.
Current(t) ==
  LET q == txn[t].req
      saw == txn[t].saw
  IN /\ Holds(t, <<"account", MemberOf(q)>>) => saw.account = account[MemberOf(q)]
     /\ q.op # "set_trading_status" =>
        /\ Holds(t, <<"item", ItemOf(q)>>) => saw.item = item[ItemOf(q)]
        /\ Holds(t, <<"listing", ItemOf(q)>>) /\ q.op # "uphold_report" =>
             \/ saw.listing = listing[ItemOf(q)]
             \/ saw.listing.status = "none" /\ q.op \in {"moderate_listing", "create_report"}
     /\ q.op \in ReportOps =>
        /\ Holds(t, <<"report", q.key>>) => saw.report \in {"none", report[q.key]}
        /\ Holds(t, <<"strike", q.key>>) => saw.strike = strike[q.key]

\* A revision that is still fresh is that of a listing that is still there.
FreshListed(t) ==
  Expected(txn[t].req)[1] = "listing" /\ txn[t].fresh => Listed(txn[t].req.key)

Exclusive == \A t, u \in Txns : t # u => txn[t].held \cap txn[u].held = {}

TxnShape == TypeOK /\ txn \in [Txns -> Txn] /\ \A t \in Txns : ~Busy(t) => txn[t].held = {}

\* What a request has checked under its locks still holds when it commits: two
\* requests never hold the same row, rows are locked in the order of the handler, and
\* what a request has read of a row it holds is what the table has.
TxnInv ==
  /\ TxnShape
  /\ Exclusive
  /\ \A t \in Txns : Busy(t) => InOrder(t) /\ Current(t) /\ FreshListed(t)

\* The refinement mapping: the committed rows, whatever the transactions hold.
Rules == INSTANCE Trading WITH
  Members <- Members, Reporters <- Reporters, Items <- Items, Owner <- Owner, MaxQuantity <- MaxQuantity,
  StrikeLimit <- StrikeLimit,
  account <- account, item <- item, listing <- listing, report <- report, strike <- strike

\* The handlers, interleaved lock by lock, do only what the rules of Trading
\* allow as single steps: no interleaving of two requests loses an update or
\* acts on a check that no longer holds.
\* It is Rules!Spec, with the stuttering steps told apart first.
ImplementsTrading == Rules!Init /\ [][tradingVars' # tradingVars => Rules!Next]_txnVars

\* What a client saw of a row is what it overwrites: a row changed by somebody
\* else is never left fresh for a request that quoted its revision earlier.
NoLostUpdate ==
  [][\A t \in Txns : Busy(t) /\ txn'[t].req = txn[t].req /\ txn'[t].fresh =>
       LET row == Expected(txn[t].req) IN
       /\ row[1] = "item" => item'[row[2]] = item[row[2]]
       /\ row[1] = "listing" => listing'[row[2]] = listing[row[2]]
       /\ row[1] = "account" => account'[row[2]] = account[row[2]]]_txnVars

\* Requests deadlock only across the lock order account, item, listing: in every
\* cycle somebody moderates a listing (listing before account), sets a trading
\* status (user before account, against the foreign keys of the others) or
\* deletes a reported item (listing before report).
DeadlockNeedsInversion ==
  \A S \in SUBSET Waiting : Deadlocked(S) =>
    \E t \in S : txn[t].req.op \in {"moderate_listing", "set_trading_status", "delete_item"}

\* Every request is answered: blocked requests are granted their rows in the end
\* or aborted by the deadlock detector.
EveryRequestAnswered == \A t \in Txns : Busy(t) ~> ~Busy(t)

=============================================================================
