-------------------------- MODULE TradingTxnProofs --------------------------
(***************************************************************************)
(* Proofs about the trading handlers as interleaved transactions, for any  *)
(* number of database connections and any set of members and items: they   *)
(* implement the rules of Trading, lose no update, and deadlock only where *)
(* a handler leaves the lock order.                                        *)
(***************************************************************************)
EXTENDS TradingTxn, TradingProofs

-----------------------------------------------------------------------------
(* Requests and the rows they lock.                                        *)

OnItems == ItemOps \cup ListingOps

\* A request names an item, a report or a member, as its handler expects.
LEMMA RequestType ==
  ASSUME NEW q \in Requests
  PROVE  /\ q.op \in AllOps /\ q # NoRequest
         /\ q.op \in OnItems => q.key \in Items
         /\ q.op \in ReportOps => q.key \in Reports
         /\ q.op = "set_trading_status" => q.key \in Members
         /\ q.op \in {"create_item", "update_item", "create_trade", "update_trade"} => q.qty \in Quantity
         /\ q.op \in {"update_trade", "moderate_listing"} => q.status \in {"active", "removed"}
         /\ q.op = "set_trading_status" => q.status \in {"active", "suspended"}
<1>1. PICK op \in Ops : q \in [op : {op}, key : Keys(op), qty : Quantities(op), status : Statuses(op)]
  BY DEF Requests
<1>2. q.op = op /\ op \in AllOps /\ q.key \in Keys(op) /\ q.qty \in Quantities(op) /\ q.status \in Statuses(op)
  BY <1>1, OpsAssumption
<1>3. q # NoRequest
  BY <1>2 DEF NoRequest, AllOps, ItemOps, ListingOps, ReportOps
<1>4. QED
  BY <1>2, <1>3 DEF Keys, Quantities, Statuses, OnItems, ItemOps, ListingOps, ReportOps

\* It is about a member and, unless it sets the status of one, about an item.
LEMMA RequestAbout ==
  ASSUME NEW q \in Requests
  PROVE  /\ MemberOf(q) \in Members
         /\ q.op # "set_trading_status" => ItemOf(q) \in Items
         /\ q.op \in OnItems => ItemOf(q) = q.key
         /\ q.op \in ReportOps => ItemOf(q) = q.key[2]
         /\ q.op # "set_trading_status" => MemberOf(q) = Owner[ItemOf(q)]
         /\ q.op = "set_trading_status" => MemberOf(q) = q.key
<1>1. q.op \in OnItems => ItemOf(q) \in Items /\ ItemOf(q) = q.key
  BY RequestType DEF ItemOf, OnItems, ItemOps, ListingOps, ReportOps
<1>2. q.op \in ReportOps => ItemOf(q) \in Items /\ ItemOf(q) = q.key[2]
  BY RequestType DEF ItemOf, Reports
<1>3. q.op \in OnItems \cup ReportOps \cup {"set_trading_status"}
  BY RequestType DEF AllOps, OnItems
<1>4. QED
  BY <1>1, <1>2, <1>3, RequestType, OwnerAssumption
     DEF MemberOf, OnItems, ItemOps, ListingOps, ReportOps

\* The lock order of each handler.
LEMMA LockOrders ==
  /\ LockOrder("create_item") = <<"item">>
  /\ LockOrder("price_item") = <<"item">>
  /\ LockOrder("update_item") = <<"item", "listing">>
  /\ LockOrder("delete_item") = <<"item", "listing", "report">>
  /\ LockOrder("create_trade") = <<"account", "item">>
  /\ LockOrder("update_trade") = <<"account", "item", "listing">>
  /\ LockOrder("remove_trade") = <<"account", "listing">>
  /\ LockOrder("create_report") = <<"listing">>
  /\ LockOrder("dismiss_report") = <<"report", "account">>
  /\ LockOrder("uphold_report") = <<"report", "account", "listing">>
  /\ LockOrder("void_strike") = <<"account", "strike">>
  /\ LockOrder("moderate_listing") = <<"listing", "account">>
  /\ LockOrder("set_trading_status") = <<"user", "account">>
BY DEF LockOrder, UpdateTradeOrder

-----------------------------------------------------------------------------
(* Lemmas about locks.                                                     *)

\* The first open stage of a handler is the least one.
LEMMA FirstOpen ==
  ASSUME NEW S \in SUBSET (1 .. 3), S # {}
  PROVE  LET n == CHOOSE k \in S : \A j \in S : k <= j
         IN n \in S /\ \A j \in S : n <= j
<1>1. \E n \in S : \A j \in S : n <= j
  <2>1. CASE 1 \in S
    BY <2>1
  <2>2. CASE 1 \notin S /\ 2 \in S
    BY <2>2
  <2>3. CASE 1 \notin S /\ 2 \notin S
    <3>1. PICK n \in S : TRUE
      OBVIOUS
    <3>2. \A j \in S : j = 3
      BY <2>3
    <3>3. QED
      BY <3>1, <3>2
  <2>4. QED
    BY <2>1, <2>2, <2>3
<1>2. QED
  BY <1>1

\* Handlers lock rows of at most three tables, each of them in one statement.
LEMMA LockStages ==
  ASSUME NEW op \in AllOps
  PROVE  /\ DOMAIN LockOrder(op) \subseteq 1 .. 3
         /\ \A n \in DOMAIN LockOrder(op) : 1 .. n \subseteq DOMAIN LockOrder(op)
         /\ \A n, k \in DOMAIN LockOrder(op) : LockOrder(op)[n] = LockOrder(op)[k] => n = k
         /\ \A n \in DOMAIN LockOrder(op) :
              LockOrder(op)[n] \in {"user", "account", "item", "listing", "report", "strike"}
<1> USE LockOrders
<1>1. CASE op \in ItemOps
  BY <1>1 DEF ItemOps
<1>2. CASE op \in ListingOps
  BY <1>2 DEF ListingOps
<1>3. CASE op \in ReportOps \cup {"set_trading_status"}
  BY <1>3 DEF ReportOps
<1>4. QED
  BY <1>1, <1>2, <1>3 DEF AllOps

\* A row that is missing is one of the next statement, whose predecessors are done;
\* and nothing is missing when all statements are done.
LEMMA MissingRows ==
  ASSUME NEW t \in Txns, txn[t].req.op \in AllOps
  PROVE  LET order == LockOrder(txn[t].req.op) IN
         /\ \A row \in Missing(t) : \E n \in DOMAIN order :
              /\ row \in RowsToLock(t, order[n]) \ txn[t].held
              /\ \A k \in 1 .. n - 1 : RowsToLock(t, order[k]) \subseteq txn[t].held
         /\ Missing(t) = {} => \A n \in DOMAIN order : RowsToLock(t, order[n]) \subseteq txn[t].held
<1> DEFINE order == LockOrder(txn[t].req.op)
           open == {n \in DOMAIN order : ~(RowsToLock(t, order[n]) \subseteq txn[t].held)}
           first == CHOOSE k \in open : \A j \in open : k <= j
<1>1. Missing(t) = IF open = {} THEN {} ELSE RowsToLock(t, order[first]) \ txn[t].held
  <2> DEFINE opened(route) == {n \in DOMAIN route : ~(route[n] \subseteq txn[t].held)}
             least(S) == CHOOSE k \in S : \A j \in S : k <= j
  <2>1. DOMAIN Route(t) = DOMAIN order /\ \A n \in DOMAIN order : Route(t)[n] = RowsToLock(t, order[n])
    BY DEF Route
  <2>2. opened(Route(t)) = open
    BY <2>1
  <2>3. Missing(t) = IF opened(Route(t)) = {} THEN {} ELSE Route(t)[least(opened(Route(t)))] \ txn[t].held
    BY DEF Missing
  <2>4. open # {} => least(open) \in DOMAIN order
    <3>1. open \subseteq 1 .. 3
      BY LockStages
    <3>2. QED
      BY <3>1, FirstOpen
  <2> HIDE DEF open
  <2>5. QED
    BY <2>1, <2>2, <2>3, <2>4
<1>2. open \subseteq 1 .. 3 /\ \A n \in DOMAIN order : 1 .. n \subseteq DOMAIN order
  BY LockStages
<1>3. open # {} => first \in open /\ \A j \in open : first <= j
  BY <1>2, FirstOpen
<1>4. ASSUME open # {} PROVE \A k \in 1 .. first - 1 : RowsToLock(t, order[k]) \subseteq txn[t].held
  BY <1>2, <1>3, <1>4
<1>5. open # {} => Missing(t) # {}
  BY <1>1, <1>3
<1>6. QED
  BY <1>1, <1>3, <1>4, <1>5

\* Only the last statement of a handler may lock several rows.
LEMMA OneRowAtATime ==
  ASSUME NEW t \in Txns, NEW table,
         <<txn[t].req.op, table>> \notin {<<"uphold_report", "listing">>, <<"delete_item", "report">>}
  PROVE  LET q == txn[t].req IN
         /\ RowsToLock(t, table) = Lockable(q, table)
         /\ Lockable(q, table) =
              {<<table, IF table \in {"user", "account"} THEN MemberOf(q)
                        ELSE IF q.op = "void_strike" \/ table = "report" THEN q.key ELSE ItemOf(q)>>}
BY DEF RowsToLock, Lockable

\* A statement locks rows that its handler may lock.
LEMMA RowsAreLockable ==
  ASSUME NEW t \in Txns, NEW table PROVE RowsToLock(t, table) \subseteq Lockable(txn[t].req, table)
<1>1. CASE <<txn[t].req.op, table>> = <<"uphold_report", "listing">>
  BY <1>1 DEF RowsToLock, Lockable, ActiveListings
<1>2. CASE <<txn[t].req.op, table>> = <<"delete_item", "report">>
  BY <1>2 DEF RowsToLock, Lockable, FiledReports
<1>3. QED
  BY <1>1, <1>2, OneRowAtATime

\* What a request may lock is a row of its table.
LEMMA LockableType ==
  ASSUME NEW q \in Requests, NEW n \in DOMAIN LockOrder(q.op)
  PROVE  /\ Lockable(q, LockOrder(q.op)[n]) \subseteq LockRows
         /\ \A row \in Lockable(q, LockOrder(q.op)[n]) : row[1] = LockOrder(q.op)[n]
<1> DEFINE table == LockOrder(q.op)[n]
<1>1. CASE q.op = "uphold_report" /\ table = "listing"
  BY <1>1 DEF Lockable, LockRows, ItemsOf
<1>2. CASE q.op = "delete_item" /\ table = "report"
  BY <1>2 DEF Lockable, LockRows
<1>3. CASE ~(q.op = "uphold_report" /\ table = "listing") /\ ~(q.op = "delete_item" /\ table = "report")
  <2>1. Lockable(q, table) =
          {<<table, IF table \in {"user", "account"} THEN MemberOf(q)
                    ELSE IF q.op = "void_strike" \/ table = "report" THEN q.key ELSE ItemOf(q)>>}
    BY <1>3 DEF Lockable
  <2>2. CASE table \in {"user", "account"}
    BY <2>1, <2>2, RequestAbout DEF LockRows
  <2>3. CASE table \in {"item", "listing"}
    <3>1. q.op # "set_trading_status" /\ q.op # "void_strike"
      BY <2>3, LockOrders
    <3>2. QED
      BY <2>1, <2>3, <3>1, RequestAbout DEF LockRows
  <2>4. CASE table \in {"report", "strike"}
    <3>1. q.op \in ReportOps /\ (table = "strike" => q.op = "void_strike")
      BY <1>3, <2>4, RequestType, LockOrders DEF AllOps, ItemOps, ListingOps, ReportOps
    <3>2. QED
      BY <2>1, <2>4, <3>1, RequestType DEF LockRows
  <2>5. QED
    BY <2>2, <2>3, <2>4, RequestType, LockStages
<1>4. QED
  BY <1>1, <1>2, <1>3

\* A handler with no row left to lock holds every row it reads or writes.
LEMMA AllHeld ==
  ASSUME NEW t \in Txns, txn[t].req \in Requests, Missing(t) = {}
  PROVE  LET q == txn[t].req IN
         /\ q.op \in ItemOps \cup {"create_trade", "update_trade"} => Holds(t, <<"item", q.key>>)
         /\ q.op \in {"update_item", "delete_item", "update_trade", "remove_trade", "moderate_listing"} =>
              Holds(t, <<"listing", q.key>>)
         /\ q.op = "create_report" => Holds(t, <<"listing", q.key[2]>>)
         /\ q.op \in {"create_trade", "update_trade", "remove_trade", "moderate_listing", "dismiss_report",
                      "uphold_report", "void_strike", "set_trading_status"} =>
              Holds(t, <<"account", MemberOf(q)>>)
         /\ q.op \in {"dismiss_report", "uphold_report"} => Holds(t, <<"report", q.key>>)
         /\ q.op = "void_strike" => Holds(t, <<"strike", q.key>>)
         /\ q.op = "uphold_report" /\ StrikeSuspends(txn[t].saw.account) =>
              ActiveListings(MemberOf(q)) \subseteq txn[t].held
<1> DEFINE q == txn[t].req
           order == LockOrder(q.op)
<1>1. q.op \in AllOps
  BY RequestType
<1>2. \A n \in DOMAIN order : RowsToLock(t, order[n]) \subseteq txn[t].held
  BY <1>1, MissingRows
<1>3. \A table : (\E n \in DOMAIN order : order[n] = table) => RowsToLock(t, table) \subseteq txn[t].held
  BY <1>2
<1>4. \A table : <<q.op, table>> \notin {<<"uphold_report", "listing">>, <<"delete_item", "report">>} =>
        RowsToLock(t, table) =
          {<<table, IF table \in {"user", "account"} THEN MemberOf(q)
                    ELSE IF q.op = "void_strike" \/ table = "report" THEN q.key ELSE ItemOf(q)>>}
  BY OneRowAtATime
<1>5. ASSUME q.op \in ItemOps \cup {"create_trade", "update_trade"} PROVE Holds(t, <<"item", q.key>>)
  <2>1. \E n \in DOMAIN order : order[n] = "item"
    BY <1>5, LockOrders DEF ItemOps
  <2>2. ItemOf(q) = q.key
    BY <1>5, RequestAbout DEF OnItems, ListingOps
  <2>3. QED
    BY <1>3, <1>4, <1>5, <2>1, <2>2 DEF Holds, ItemOps
<1>6. ASSUME q.op \in {"update_item", "delete_item", "update_trade", "remove_trade", "moderate_listing"}
      PROVE  Holds(t, <<"listing", q.key>>)
  <2>1. \E n \in DOMAIN order : order[n] = "listing"
    BY <1>6, LockOrders
  <2>2. ItemOf(q) = q.key
    BY <1>6, RequestAbout DEF OnItems, ListingOps, ItemOps
  <2>3. QED
    BY <1>3, <1>4, <1>6, <2>1, <2>2 DEF Holds
<1>7. ASSUME q.op = "create_report" PROVE Holds(t, <<"listing", q.key[2]>>)
  <2>1. \E n \in DOMAIN order : order[n] = "listing"
    BY <1>7, LockOrders
  <2>2. ItemOf(q) = q.key[2]
    BY <1>7, RequestAbout DEF ReportOps
  <2>3. QED
    BY <1>3, <1>4, <1>7, <2>1, <2>2 DEF Holds
<1>8. ASSUME q.op \in {"create_trade", "update_trade", "remove_trade", "moderate_listing", "dismiss_report",
                       "uphold_report", "void_strike", "set_trading_status"}
      PROVE  Holds(t, <<"account", MemberOf(q)>>)
  <2>1. \E n \in DOMAIN order : order[n] = "account"
    BY <1>8, LockOrders
  <2>2. QED
    BY <1>3, <1>4, <2>1 DEF Holds
<1>9. ASSUME q.op \in {"dismiss_report", "uphold_report"} PROVE Holds(t, <<"report", q.key>>)
  <2>1. \E n \in DOMAIN order : order[n] = "report"
    BY <1>9, LockOrders
  <2>2. QED
    BY <1>3, <1>4, <1>9, <2>1 DEF Holds
<1>10. ASSUME q.op = "void_strike" PROVE Holds(t, <<"strike", q.key>>)
  <2>1. \E n \in DOMAIN order : order[n] = "strike"
    BY <1>10, LockOrders
  <2>2. QED
    BY <1>3, <1>4, <1>10, <2>1 DEF Holds
<1>11. ASSUME q.op = "uphold_report", StrikeSuspends(txn[t].saw.account)
       PROVE  ActiveListings(MemberOf(q)) \subseteq txn[t].held
  <2>1. \E n \in DOMAIN order : order[n] = "listing"
    BY <1>11, LockOrders
  <2>2. RowsToLock(t, "listing") = ActiveListings(MemberOf(q))
    BY <1>11 DEF RowsToLock
  <2>3. QED
    BY <1>3, <2>1, <2>2
<1>12. QED
  BY <1>5, <1>6, <1>7, <1>8, <1>9, <1>10, <1>11

-----------------------------------------------------------------------------
(* Commits are steps of the rules.                                         *)

\* A handler that is ready has read the present rows.
LEMMA ReadyCurrent ==
  ASSUME TxnInv, NEW t \in Txns, NEW op \in AllOps, Ready(t, op)
  PROVE  LET q == txn[t].req
             saw == txn[t].saw
         IN /\ q \in Requests /\ q.op = op /\ Busy(t) /\ Missing(t) = {} /\ Allowed(t) /\ saw \in Seen
            /\ Current(t) /\ InOrder(t)
<1>1. txn[t].req # NoRequest
  BY DEF Ready, NoRequest, AllOps, ItemOps, ListingOps, ReportOps
<1>2. txn[t] \in Txn
  BY DEF TxnInv, TxnShape
<1>3. QED
  BY <1>1, <1>2 DEF Ready, TxnInv, Busy, Txn

\* Each commit makes the change that its rule makes, under the guard of the rule.
LEMMA CommitImplements ==
  ASSUME TxnInv, NEW t \in Txns, Commit(t)
  PROVE  [Next]_tradingVars
<1> DEFINE q == txn[t].req
           saw == txn[t].saw
<1> USE DEF TxnInv, TxnShape
<1>1. CASE CommitCreateItem(t)
  <2>1. Ready(t, "create_item")
    BY <1>1 DEF CommitCreateItem
  <2>2. q \in Requests /\ q.op = "create_item" /\ Allowed(t) /\ Current(t) /\ Holds(t, <<"item", q.key>>)
    BY <2>1, ReadyCurrent, AllHeld DEF AllOps, ItemOps
  <2>3. q.key \in Items /\ ItemOf(q) = q.key /\ q.qty \in Quantity
    BY <2>2, RequestType, RequestAbout DEF OnItems, ItemOps
  <2>4. saw.item = item[q.key]
    BY <2>2, <2>3 DEF Current
  <2>5. CreateItem(q.key, q.qty)
    BY <1>1, <2>2, <2>3, <2>4 DEF CommitCreateItem, CreateItem, Allowed, ItemAllows
  <2>6. QED
    BY <2>3, <2>5 DEF Next, CollectionNext
<1>2. CASE CommitUpdateItem(t)
  <2>1. Ready(t, "update_item")
    BY <1>2 DEF CommitUpdateItem
  <2>2. /\ q \in Requests /\ q.op = "update_item" /\ Allowed(t) /\ Current(t)
        /\ Holds(t, <<"item", q.key>>) /\ Holds(t, <<"listing", q.key>>)
    BY <2>1, ReadyCurrent, AllHeld DEF AllOps, ItemOps
  <2>3. q.key \in Items /\ ItemOf(q) = q.key /\ q.qty \in Quantity
    BY <2>2, RequestType, RequestAbout DEF OnItems, ItemOps
  <2>4. saw.item = item[q.key] /\ saw.listing = listing[q.key]
    BY <2>2, <2>3 DEF Current
  <2>5. Held(q.key)
    BY <2>2, <2>3, <2>4 DEF Allowed, ItemAllows, Held
  <2>6. listing' = [listing EXCEPT ![q.key] = Clamped(@, q.qty)]
    <3>1. CASE Clamped(listing[q.key], q.qty) # listing[q.key]
      BY <1>2, <2>3, <2>4, <3>1 DEF CommitUpdateItem, Clamped, TypeOK
    <3>2. CASE Clamped(listing[q.key], q.qty) = listing[q.key]
      BY <1>2, <2>3, <2>4, <3>2 DEF CommitUpdateItem, TypeOK
    <3>3. QED
      BY <3>1, <3>2
  <2>7. UpdateItem(q.key, q.qty)
    BY <1>2, <2>5, <2>6 DEF CommitUpdateItem, UpdateItem
  <2>8. QED
    BY <2>3, <2>7 DEF Next, CollectionNext
<1>3. CASE CommitPriceItem(t)
  BY <1>3 DEF CommitPriceItem
<1>4. CASE CommitDeleteItem(t)
  <2>1. Ready(t, "delete_item")
    BY <1>4 DEF CommitDeleteItem
  <2>2. q \in Requests /\ q.op = "delete_item" /\ Allowed(t) /\ Current(t) /\ Holds(t, <<"item", q.key>>)
    BY <2>1, ReadyCurrent, AllHeld DEF AllOps, ItemOps
  <2>3. q.key \in Items /\ ItemOf(q) = q.key
    BY <2>2, RequestType, RequestAbout DEF OnItems, ItemOps
  <2>4. Held(q.key)
    BY <2>2, <2>3 DEF Current, Allowed, ItemAllows, Held
  <2>5. DeleteItem(q.key)
    BY <1>4, <2>4 DEF CommitDeleteItem, DeleteItem
  <2>6. QED
    BY <2>3, <2>5 DEF Next, CollectionNext
<1>5. CASE CommitCreateTrade(t)
  <2>1. Ready(t, "create_trade")
    BY <1>5 DEF CommitCreateTrade
  <2>2. /\ q \in Requests /\ q.op = "create_trade" /\ Allowed(t) /\ Current(t)
        /\ Holds(t, <<"item", q.key>>) /\ Holds(t, <<"account", MemberOf(q)>>)
    BY <2>1, ReadyCurrent, AllHeld DEF AllOps, ListingOps
  <2>3. q.key \in Items /\ ItemOf(q) = q.key /\ MemberOf(q) = Owner[q.key] /\ q.qty \in Quantity
    BY <2>2, RequestType, RequestAbout DEF OnItems, ListingOps
  <2>4. saw.item = item[q.key] /\ saw.account = account[Owner[q.key]]
    BY <2>2, <2>3 DEF Current
  <2>5. CreateTrade(q.key, q.qty)
    BY <1>5, <2>2, <2>3, <2>4
       DEF CommitCreateTrade, CreateTrade, Allowed, ItemAllows, AccountAllows, MayTrade, Held
  <2>6. QED
    BY <2>3, <2>5 DEF Next, ListingNext
<1>6. CASE CommitUpdateTrade(t)
  <2>1. Ready(t, "update_trade")
    BY <1>6 DEF CommitUpdateTrade
  <2>2. /\ q \in Requests /\ q.op = "update_trade" /\ Allowed(t) /\ Current(t) /\ Holds(t, <<"item", q.key>>)
        /\ Holds(t, <<"listing", q.key>>) /\ Holds(t, <<"account", MemberOf(q)>>)
    BY <2>1, ReadyCurrent, AllHeld DEF AllOps, ListingOps
  <2>3. /\ q.key \in Items /\ ItemOf(q) = q.key /\ MemberOf(q) = Owner[q.key]
        /\ q.qty \in Quantity /\ q.status \in {"active", "removed"}
    BY <2>2, RequestType, RequestAbout DEF OnItems, ListingOps
  <2>4. /\ saw.item = item[q.key] /\ saw.account = account[Owner[q.key]]
        /\ saw.listing = listing[q.key]
    BY <2>2, <2>3 DEF Current
  <2>5. UpdateTrade(q.key, q.qty, q.status)
    BY <1>6, <2>2, <2>3, <2>4
       DEF CommitUpdateTrade, UpdateTrade, Allowed, ListingAllows, AccountAllows, MayTrade, Listed
  <2>6. QED
    BY <2>3, <2>5 DEF Next, ListingNext
<1>7. CASE CommitRemoveTrade(t)
  <2>1. Ready(t, "remove_trade")
    BY <1>7 DEF CommitRemoveTrade
  <2>2. /\ q \in Requests /\ q.op = "remove_trade" /\ Allowed(t) /\ Current(t)
        /\ Holds(t, <<"listing", q.key>>)
    BY <2>1, ReadyCurrent, AllHeld DEF AllOps, ListingOps
  <2>3. q.key \in Items /\ ItemOf(q) = q.key
    BY <2>2, RequestType, RequestAbout DEF OnItems, ListingOps
  <2>4. saw.listing = listing[q.key]
    BY <2>2, <2>3 DEF Current
  <2>5. RemoveTrade(q.key)
    BY <1>7, <2>2, <2>3, <2>4 DEF CommitRemoveTrade, RemoveTrade, Allowed, ListingAllows, Listed
  <2>6. QED
    BY <2>3, <2>5 DEF Next, ListingNext
<1>8. CASE CommitModerateListing(t)
  <2>1. Ready(t, "moderate_listing")
    BY <1>8 DEF CommitModerateListing
  <2>2. /\ q \in Requests /\ q.op = "moderate_listing" /\ Allowed(t) /\ Current(t)
        /\ Holds(t, <<"listing", q.key>>) /\ Holds(t, <<"account", MemberOf(q)>>)
    BY <2>1, ReadyCurrent, AllHeld DEF AllOps, ListingOps
  <2>3. /\ q.key \in Items /\ ItemOf(q) = q.key /\ MemberOf(q) = Owner[q.key]
        /\ q.status \in {"active", "removed"}
    BY <2>2, RequestType, RequestAbout DEF OnItems, ListingOps
  <2>4. saw.listing.status # "none"
    BY <2>2, <2>3 DEF Allowed, ListingAllows
  <2>5. saw.account = account[Owner[q.key]] /\ saw.listing = listing[q.key]
    BY <2>2, <2>3, <2>4 DEF Current
  <2>6. ModerateListing(q.key, q.status)
    BY <1>8, <2>2, <2>3, <2>4, <2>5
       DEF CommitModerateListing, ModerateListing, Allowed, AccountAllows, MayTrade, Listed
  <2>7. QED
    BY <2>3, <2>6 DEF Next, ListingNext
<1>9. CASE CommitCreateReport(t)
  <2>1. Ready(t, "create_report")
    BY <1>9 DEF CommitCreateReport
  <2>2. /\ q \in Requests /\ q.op = "create_report" /\ Allowed(t) /\ Current(t)
        /\ Holds(t, <<"listing", q.key[2]>>)
    BY <2>1, ReadyCurrent, AllHeld DEF AllOps, ReportOps
  <2>3. q.key \in Reports /\ ItemOf(q) = q.key[2] /\ MemberOf(q) = Owner[q.key[2]]
    BY <2>2, RequestType, RequestAbout DEF ReportOps
  <2>4. /\ saw.listing.status = "active" /\ q.key[1] # MemberOf(q) /\ report[q.key] = "none"
    BY <2>2, <2>3 DEF Allowed, ListingAllows
  <2>5. saw.listing = listing[q.key[2]]
    BY <2>2, <2>3, <2>4 DEF Current
  <2>6. CreateReport(q.key)
    BY <1>9, <2>3, <2>4, <2>5 DEF CommitCreateReport, CreateReport, ReportedMember
  <2>7. QED
    BY <2>3, <2>6 DEF Next, ModerationNext
<1>10. CASE CommitDismissReport(t)
  <2>1. Ready(t, "dismiss_report")
    BY <1>10 DEF CommitDismissReport
  <2>2. /\ q \in Requests /\ q.op = "dismiss_report" /\ Allowed(t) /\ Current(t)
        /\ Holds(t, <<"report", q.key>>)
    BY <2>1, ReadyCurrent, AllHeld DEF AllOps, ReportOps
  <2>3. q.key \in Reports
    BY <2>2, RequestType DEF ReportOps
  <2>4. report[q.key] = "open"
    BY <2>2, <2>3 DEF Current, Allowed, DecisionAllows, ReportOps
  <2>5. DismissReport(q.key)
    BY <1>10, <2>4 DEF CommitDismissReport, DismissReport
  <2>6. QED
    BY <2>3, <2>5 DEF Next, ModerationNext
<1>11. CASE CommitUpholdReport(t)
  <2>1. Ready(t, "uphold_report")
    BY <1>11 DEF CommitUpholdReport
  <2>2. /\ q \in Requests /\ q.op = "uphold_report" /\ Allowed(t) /\ Current(t)
        /\ Holds(t, <<"report", q.key>>) /\ Holds(t, <<"account", MemberOf(q)>>)
    BY <2>1, ReadyCurrent, AllHeld DEF AllOps, ReportOps
  <2>3. q.key \in Reports /\ MemberOf(q) = ReportedMember(q.key) /\ MemberOf(q) \in Members
    BY <2>2, RequestType, RequestAbout DEF ReportOps, ReportedMember
  <2>4. report[q.key] = "open" /\ saw.account = account[MemberOf(q)]
    BY <2>2, <2>3 DEF Current, Allowed, DecisionAllows, ReportOps
  <2>5. UpholdReport(q.key)
    BY <1>11, <2>3, <2>4 DEF CommitUpholdReport, UpholdReport
  <2>6. QED
    BY <2>3, <2>5 DEF Next, ModerationNext
<1>12. CASE CommitVoidStrike(t)
  <2>1. Ready(t, "void_strike")
    BY <1>12 DEF CommitVoidStrike
  <2>2. /\ q \in Requests /\ q.op = "void_strike" /\ Allowed(t) /\ Current(t)
        /\ Holds(t, <<"strike", q.key>>) /\ Holds(t, <<"account", MemberOf(q)>>)
    BY <2>1, ReadyCurrent, AllHeld DEF AllOps, ReportOps
  <2>3. q.key \in Reports /\ MemberOf(q) = ReportedMember(q.key) /\ MemberOf(q) \in Members
    BY <2>2, RequestType, RequestAbout DEF ReportOps, ReportedMember
  <2>4. strike[q.key] = "active" /\ saw.account = account[MemberOf(q)]
    BY <2>2, <2>3 DEF Current, Allowed, DecisionAllows, ReportOps
  <2>5. VoidStrike(q.key)
    BY <1>12, <2>3, <2>4 DEF CommitVoidStrike, VoidStrike, TypeOK
  <2>6. QED
    BY <2>3, <2>5 DEF Next, ModerationNext
<1>13. CASE CommitSetTradingStatus(t)
  <2>1. Ready(t, "set_trading_status")
    BY <1>13 DEF CommitSetTradingStatus
  <2>2. /\ q \in Requests /\ q.op = "set_trading_status" /\ Allowed(t) /\ Current(t)
        /\ Holds(t, <<"account", MemberOf(q)>>)
    BY <2>1, ReadyCurrent, AllHeld DEF AllOps
  <2>3. q.key \in Members /\ MemberOf(q) = q.key /\ q.status \in {"active", "suspended"}
    BY <2>2, RequestType, RequestAbout
  <2>4. q.status = "active" => account[q.key].strikes < StrikeLimit
    BY <2>2, <2>3 DEF Current, Allowed, AccountAllows
  <2>5. SetTradingStatus(q.key, q.status)
    BY <1>13, <2>4 DEF CommitSetTradingStatus, SetTradingStatus
  <2>6. QED
    BY <2>3, <2>5 DEF Next, ModerationNext
<1>14. QED
  BY <1>1, <1>2, <1>3, <1>4, <1>5, <1>6, <1>7, <1>8, <1>9, <1>10, <1>11, <1>12, <1>13 DEF Commit

-----------------------------------------------------------------------------
(* What a commit touches.                                                  *)

\* A commit changes rows that it holds and raises their revisions.  Only inserts
\* touch rows nobody holds: of a listing, under the locks of its item and its owner's
\* account; of a report; and of a strike, under the lock of the account.
Footprint(t, revised) ==
  /\ Finish(t, revised)
  /\ \A m \in Members : account'[m] # account[m] => Holds(t, <<"account", m>>) /\ <<"account", m>> \in revised
  /\ \A i \in Items : item'[i] # item[i] => Holds(t, <<"item", i>>) /\ <<"item", i>> \in revised
  /\ \A i \in Items : listing'[i] # listing[i] =>
       \/ Holds(t, <<"listing", i>>) /\ <<"listing", i>> \in revised
       \/ ~Listed(i) /\ Holds(t, <<"item", i>>) /\ Holds(t, <<"account", Owner[i]>>)
  /\ \A r \in Reports : report'[r] # report[r] => Holds(t, <<"report", r>>) \/ report[r] = "none"
  /\ \A r \in Reports : strike'[r] # strike[r] => Holds(t, <<"account", ReportedMember(r)>>)

\* A commit changes only rows it holds, inserts aside, and raises their revisions.
LEMMA CommitTouches ==
  ASSUME TxnInv, NEW t \in Txns, Commit(t)
  PROVE  \E revised : Footprint(t, revised)
<1> DEFINE q == txn[t].req
           saw == txn[t].saw
<1> USE DEF TxnInv, TxnShape
<1>1. CASE CommitCreateItem(t)
  <2>1. q \in Requests /\ q.op = "create_item" /\ Holds(t, <<"item", q.key>>)
    BY <1>1, ReadyCurrent, AllHeld DEF AllOps, ItemOps, CommitCreateItem
  <2>2. Footprint(t, {<<"item", q.key>>})
    BY <1>1, <2>1 DEF CommitCreateItem, Footprint, TypeOK
  <2>3. QED
    BY <2>2
<1>2. CASE CommitUpdateItem(t)
  <2> DEFINE clamped == Clamped(saw.listing, q.qty) # saw.listing
  <2>1. /\ q \in Requests /\ q.op = "update_item"
        /\ Holds(t, <<"item", q.key>>) /\ Holds(t, <<"listing", q.key>>)
    BY <1>2, ReadyCurrent, AllHeld DEF AllOps, ItemOps, CommitUpdateItem
  <2> HIDE DEF clamped
  <2>2. /\ item' = [item EXCEPT ![q.key].qty = q.qty]
        /\ listing' = IF clamped THEN [listing EXCEPT ![q.key].qty = q.qty] ELSE listing
        /\ Finish(t, {<<"item", q.key>>} \cup IF clamped THEN {<<"listing", q.key>>} ELSE {})
        /\ UNCHANGED <<account, report, strike>>
    BY <1>2 DEF CommitUpdateItem, clamped
  <2>3. Footprint(t, {<<"item", q.key>>} \cup IF clamped THEN {<<"listing", q.key>>} ELSE {})
    BY <2>1, <2>2 DEF Footprint, TypeOK
  <2>4. QED
    BY <2>3
<1>3. CASE CommitPriceItem(t)
  <2>1. Footprint(t, {<<"item", q.key>>})
    BY <1>3 DEF CommitPriceItem, Footprint, tradingVars
  <2>2. QED
    BY <2>1
<1>4. CASE CommitDeleteItem(t)
  <2>1. /\ q \in Requests /\ q.op = "delete_item"
        /\ Holds(t, <<"item", q.key>>) /\ Holds(t, <<"listing", q.key>>)
    BY <1>4, ReadyCurrent, AllHeld DEF AllOps, ItemOps, CommitDeleteItem
  <2>2. Footprint(t, {<<"item", q.key>>, <<"listing", q.key>>})
    BY <1>4, <2>1 DEF CommitDeleteItem, Footprint, TypeOK
  <2>3. QED
    BY <2>2
<1>5. CASE CommitCreateTrade(t)
  <2>1. /\ q \in Requests /\ q.op = "create_trade" /\ Allowed(t)
        /\ Holds(t, <<"item", q.key>>) /\ Holds(t, <<"account", MemberOf(q)>>)
    BY <1>5, ReadyCurrent, AllHeld DEF AllOps, ListingOps, CommitCreateTrade
  <2>2. ItemOf(q) = q.key /\ MemberOf(q) = Owner[q.key]
    BY <2>1, RequestAbout DEF OnItems, ListingOps
  <2>3. ~Listed(q.key)
    BY <2>1, <2>2 DEF Allowed, ItemAllows
  <2>4. Footprint(t, {})
    BY <1>5, <2>1, <2>2, <2>3 DEF CommitCreateTrade, Footprint, TypeOK
  <2>5. QED
    BY <2>4
<1>6. CASE CommitUpdateTrade(t)
  <2>1. q \in Requests /\ q.op = "update_trade" /\ Holds(t, <<"listing", q.key>>)
    BY <1>6, ReadyCurrent, AllHeld DEF AllOps, ListingOps, CommitUpdateTrade
  <2>2. Footprint(t, {<<"listing", q.key>>})
    BY <1>6, <2>1 DEF CommitUpdateTrade, Footprint, TypeOK
  <2>3. QED
    BY <2>2
<1>7. CASE CommitRemoveTrade(t)
  <2>1. q \in Requests /\ q.op = "remove_trade" /\ Holds(t, <<"listing", q.key>>)
    BY <1>7, ReadyCurrent, AllHeld DEF AllOps, ListingOps, CommitRemoveTrade
  <2>2. Footprint(t, {<<"listing", q.key>>})
    BY <1>7, <2>1 DEF CommitRemoveTrade, Footprint, TypeOK
  <2>3. QED
    BY <2>2
<1>8. CASE CommitModerateListing(t)
  <2>1. q \in Requests /\ q.op = "moderate_listing" /\ Holds(t, <<"listing", q.key>>)
    BY <1>8, ReadyCurrent, AllHeld DEF AllOps, ListingOps, CommitModerateListing
  <2>2. Footprint(t, {<<"listing", q.key>>})
    BY <1>8, <2>1 DEF CommitModerateListing, Footprint, TypeOK
  <2>3. QED
    BY <2>2
<1>9. CASE CommitCreateReport(t)
  <2>1. q \in Requests /\ q.op = "create_report" /\ Allowed(t) /\ Holds(t, <<"listing", q.key[2]>>)
    BY <1>9, ReadyCurrent, AllHeld DEF AllOps, ReportOps, CommitCreateReport
  <2>2. report[q.key] = "none"
    BY <2>1, RequestAbout DEF Allowed, ListingAllows, ReportOps
  <2>3. Footprint(t, {})
    BY <1>9, <2>2 DEF CommitCreateReport, Footprint, TypeOK
  <2>4. QED
    BY <2>3
<1>10. CASE CommitDismissReport(t)
  <2>1. q \in Requests /\ q.op = "dismiss_report" /\ Holds(t, <<"report", q.key>>)
    BY <1>10, ReadyCurrent, AllHeld DEF AllOps, ReportOps, CommitDismissReport
  <2>2. Footprint(t, {})
    BY <1>10, <2>1 DEF CommitDismissReport, Footprint, TypeOK
  <2>3. QED
    BY <2>2
<1>11. CASE CommitUpholdReport(t)
  <2> DEFINE m == MemberOf(q)
             suspends == StrikeSuspends(saw.account)
  <2>1. /\ q \in Requests /\ q.op = "uphold_report"
        /\ Holds(t, <<"report", q.key>>) /\ Holds(t, <<"account", m>>)
        /\ suspends => ActiveListings(m) \subseteq txn[t].held
    BY <1>11, ReadyCurrent, AllHeld DEF AllOps, ReportOps, CommitUpholdReport
  <2>2. m = ReportedMember(q.key)
    BY <2>1, RequestAbout DEF ReportOps, ReportedMember
  <2> HIDE DEF m, suspends
  <2>3. /\ report' = [report EXCEPT ![q.key] = "upheld"]
        /\ strike' = [strike EXCEPT ![q.key] = "active"]
        /\ account' = [account EXCEPT ![m] = Struck(saw.account)]
        /\ listing' = IF suspends THEN WithoutActive(m) ELSE listing
        /\ Finish(t, {<<"account", m>>} \cup IF suspends THEN ActiveListings(m) ELSE {})
        /\ UNCHANGED item
    BY <1>11 DEF CommitUpholdReport, m, suspends
  <2>4. ASSUME NEW i \in Items, listing'[i] # listing[i]
        PROVE  suspends /\ <<"listing", i>> \in ActiveListings(m)
    BY <2>3, <2>4 DEF WithoutActive, ActiveListings, ItemsOf
  <2>5. Footprint(t, {<<"account", m>>} \cup IF suspends THEN ActiveListings(m) ELSE {})
    BY <2>1, <2>2, <2>3, <2>4 DEF Footprint, TypeOK, Holds
  <2>6. QED
    BY <2>5
<1>12. CASE CommitVoidStrike(t)
  <2>1. q \in Requests /\ q.op = "void_strike" /\ Holds(t, <<"account", MemberOf(q)>>)
    BY <1>12, ReadyCurrent, AllHeld DEF AllOps, ReportOps, CommitVoidStrike
  <2>2. MemberOf(q) = ReportedMember(q.key)
    BY <2>1, RequestAbout DEF ReportOps, ReportedMember
  <2>3. Footprint(t, {<<"account", MemberOf(q)>>})
    BY <1>12, <2>1, <2>2 DEF CommitVoidStrike, Footprint, TypeOK
  <2>4. QED
    BY <2>3
<1>13. CASE CommitSetTradingStatus(t)
  <2>1. q \in Requests /\ q.op = "set_trading_status" /\ Holds(t, <<"account", MemberOf(q)>>)
    BY <1>13, ReadyCurrent, AllHeld DEF AllOps, CommitSetTradingStatus
  <2>2. MemberOf(q) = q.key
    BY <2>1, RequestAbout
  <2>3. Footprint(t, {<<"account", q.key>>})
    BY <1>13, <2>1, <2>2 DEF CommitSetTradingStatus, Footprint, TypeOK
  <2>4. QED
    BY <2>3
<1>14. QED
  BY <1>1, <1>2, <1>3, <1>4, <1>5, <1>6, <1>7, <1>8, <1>9, <1>10, <1>11, <1>12, <1>13 DEF Commit

-----------------------------------------------------------------------------
(* Every step keeps the invariant.                                         *)

\* A row is held under the statement of its table, after those of the tables before.
LEMMA HeldInOrder ==
  ASSUME NEW t \in Txns, txn[t].req \in Requests, InOrder(t), NEW row \in txn[t].held
  PROVE  LET order == LockOrder(txn[t].req.op) IN
         \E n \in DOMAIN order : /\ row[1] = order[n] /\ row \in Lockable(txn[t].req, order[n])
                                 /\ \A k \in 1 .. n - 1 : Lockable(txn[t].req, order[k]) \subseteq txn[t].held
BY LockableType DEF InOrder

\* What else a holder of a listing or of a strike holds.
LEMMA HeldWith ==
  ASSUME NEW t \in Txns, txn[t].req \in Requests, InOrder(t)
  PROVE  LET q == txn[t].req IN
         /\ \A i : Holds(t, <<"listing", i>>) =>
              /\ q.op \in {"update_item", "delete_item", "update_trade", "remove_trade", "create_report",
                           "uphold_report", "moderate_listing"}
              /\ q.op \in {"update_item", "delete_item", "update_trade"} => Holds(t, <<"item", q.key>>)
              /\ q.op \in {"update_trade", "remove_trade", "uphold_report"} =>
                   Holds(t, <<"account", MemberOf(q)>>)
         /\ \A r : Holds(t, <<"strike", r>>) => q.op = "void_strike" /\ Holds(t, <<"account", MemberOf(q)>>)
<1> DEFINE q == txn[t].req
           order == LockOrder(q.op)
<1>1. q.op \in AllOps
  BY RequestType
<1>2. ASSUME NEW i, Holds(t, <<"listing", i>>)
      PROVE  /\ q.op \in {"update_item", "delete_item", "update_trade", "remove_trade", "create_report",
                          "uphold_report", "moderate_listing"}
             /\ q.op \in {"update_item", "delete_item", "update_trade"} => Holds(t, <<"item", q.key>>)
             /\ q.op \in {"update_trade", "remove_trade", "uphold_report"} =>
                  Holds(t, <<"account", MemberOf(q)>>)
  <2>1. PICK n \in DOMAIN order :
          order[n] = "listing" /\ \A k \in 1 .. n - 1 : Lockable(q, order[k]) \subseteq txn[t].held
    BY <1>2, HeldInOrder DEF Holds
  <2>2. q.op \in {"update_item", "delete_item", "update_trade", "remove_trade", "create_report",
                  "uphold_report", "moderate_listing"}
    BY <1>1, <2>1, LockOrders DEF AllOps, ItemOps, ListingOps, ReportOps
  <2>3. ASSUME q.op \in {"update_item", "delete_item", "update_trade"} PROVE Holds(t, <<"item", q.key>>)
    <3>1. \E k \in 1 .. n - 1 : order[k] = "item"
      BY <2>1, <2>3, LockOrders
    <3>2. Lockable(q, "item") = {<<"item", q.key>>}
      BY <2>3, RequestAbout DEF Lockable, OnItems, ItemOps, ListingOps
    <3>3. QED
      BY <2>1, <3>1, <3>2 DEF Holds
  <2>4. ASSUME q.op \in {"update_trade", "remove_trade", "uphold_report"}
        PROVE  Holds(t, <<"account", MemberOf(q)>>)
    <3>1. \E k \in 1 .. n - 1 : order[k] = "account"
      BY <2>1, <2>4, LockOrders
    <3>2. Lockable(q, "account") = {<<"account", MemberOf(q)>>}
      BY <2>4 DEF Lockable
    <3>3. QED
      BY <2>1, <3>1, <3>2 DEF Holds
  <2>5. QED
    BY <2>2, <2>3, <2>4
<1>3. ASSUME NEW r, Holds(t, <<"strike", r>>)
      PROVE  q.op = "void_strike" /\ Holds(t, <<"account", MemberOf(q)>>)
  <2>1. PICK n \in DOMAIN order :
          order[n] = "strike" /\ \A k \in 1 .. n - 1 : Lockable(q, order[k]) \subseteq txn[t].held
    BY <1>3, HeldInOrder DEF Holds
  <2>2. q.op = "void_strike"
    BY <1>1, <2>1, LockOrders DEF AllOps, ItemOps, ListingOps, ReportOps
  <2>3. \E k \in 1 .. n - 1 : order[k] = "account"
    BY <2>1, <2>2, LockOrders
  <2>4. Lockable(q, "account") = {<<"account", MemberOf(q)>>}
    BY <2>2 DEF Lockable
  <2>5. QED
    BY <2>1, <2>2, <2>3, <2>4 DEF Holds
<1>4. QED
  BY <1>2, <1>3

\* The tables before the last of a lock order are locked one row at a time.
LEMMA EarlierRows ==
  ASSUME NEW t \in Txns, txn[t].req \in Requests, NEW n \in DOMAIN LockOrder(txn[t].req.op), NEW k \in 1 .. n - 1
  PROVE  RowsToLock(t, LockOrder(txn[t].req.op)[k]) = Lockable(txn[t].req, LockOrder(txn[t].req.op)[k])
<1>1. CASE txn[t].req.op = "uphold_report"
  BY <1>1, LockOrders, OneRowAtATime
<1>2. CASE txn[t].req.op = "delete_item"
  BY <1>2, LockOrders, OneRowAtATime
<1>3. CASE txn[t].req.op \notin {"uphold_report", "delete_item"}
  BY <1>3, OneRowAtATime
<1>4. QED
  BY <1>1, <1>2, <1>3

\* The tables start out well typed and no request has been made.
LEMMA InitTxn == TxnInit => TxnInv
<1> SUFFICES ASSUME TxnInit PROVE TxnInv
  OBVIOUS
<1>1. Idle \in Txn
  BY RowTypes DEF Idle, Txn, Unread, Seen
<1>2. \A t \in Txns : txn[t] = Idle
  BY DEF TxnInit
<1>3. QED
  BY <1>1, <1>2, InitType DEF TxnInit, TxnInv, TxnShape, Exclusive, Busy, Idle

\* A new request holds nothing, and the client has seen the listing it names.
LEMMA BeginKeepsInv ==
  ASSUME TxnInv, NEW t \in Txns, Begin(t) PROVE TxnInv'
<1>1. PICK q \in Requests : Known(q) /\ txn' = [txn EXCEPT ![t] = [Idle EXCEPT !.req = q]]
  BY DEF Begin
<1>2. UNCHANGED tradingVars /\ TypeOK /\ TypeOK' /\ txn \in [Txns -> Txn]
  BY DEF Begin, TxnInv, TxnShape, TypeOK, tradingVars
<1>3. /\ txn'[t] = [Idle EXCEPT !.req = q]
      /\ txn'[t].held = {} /\ txn'[t].req = q /\ txn'[t] \in Txn
      /\ \A u \in Txns \ {t} : txn'[u] = txn[u]
  BY <1>1, <1>2, RowTypes DEF Idle, Txn, Unread, Seen
<1>4. Expected(q)[1] = "listing" => Listed(q.key)
  BY <1>1 DEF Expected, Known, ListingOps, ItemOps
<1>5. TxnShape'
  BY <1>1, <1>2, <1>3, RequestType DEF TxnInv, TxnShape, Busy
<1>6. Exclusive'
  BY <1>3 DEF TxnInv, Exclusive
<1>7. ASSUME NEW u \in Txns, Busy(u)' PROVE InOrder(u)' /\ Current(u)' /\ FreshListed(u)'
  <2>1. CASE u = t
    BY <1>2, <1>3, <1>4, <2>1 DEF InOrder, Current, FreshListed, Holds, Listed, tradingVars
  <2>2. CASE u # t
    <3>1. txn'[u] = txn[u] /\ Busy(u)
      BY <1>3, <1>7, <2>2 DEF Busy
    <3>2. InOrder(u) /\ Current(u) /\ FreshListed(u)
      BY <3>1 DEF TxnInv
    <3>3. QED
      BY <1>2, <3>1, <3>2 DEF InOrder, Current, FreshListed, Holds, Listed, tradingVars
  <2>3. QED
    BY <2>1, <2>2
<1>8. QED
  BY <1>5, <1>6, <1>7 DEF TxnInv

\* A request that ends without a write lets its rows go.
LEMMA EndKeepsInv ==
  ASSUME TxnInv, NEW t \in Txns, txn' = [txn EXCEPT ![t] = Idle], UNCHANGED tradingVars PROVE TxnInv'
<1>1. TypeOK /\ TypeOK' /\ txn \in [Txns -> Txn]
  BY DEF TxnInv, TxnShape, TypeOK, tradingVars
<1>2. /\ txn'[t] = Idle /\ Idle \in Txn /\ Idle.held = {}
      /\ \A u \in Txns \ {t} : txn'[u] = txn[u]
  BY <1>1, RowTypes DEF Idle, Txn, Unread, Seen
<1>3. TxnShape'
  BY <1>1, <1>2 DEF TxnInv, TxnShape, Busy
<1>4. Exclusive'
  BY <1>2 DEF TxnInv, Exclusive
<1>5. ASSUME NEW u \in Txns, Busy(u)' PROVE InOrder(u)' /\ Current(u)' /\ FreshListed(u)'
  <2>1. u # t /\ txn'[u] = txn[u] /\ Busy(u)
    BY <1>2, <1>5 DEF Busy, Idle
  <2>2. InOrder(u) /\ Current(u) /\ FreshListed(u)
    BY <2>1 DEF TxnInv
  <2>3. QED
    BY <2>1, <2>2 DEF InOrder, Current, FreshListed, Holds, Listed, tradingVars
<1>6. QED
  BY <1>3, <1>4, <1>5 DEF TxnInv

\* Reading a row keeps the type of what was seen and adds what the table has.
LEMMA ReadRow ==
  ASSUME TypeOK, NEW saw \in Seen, NEW q, NEW row \in LockRows
  PROVE  LET now == Read(saw, q, row) IN
         /\ now \in Seen
         /\ now.account = IF row[1] = "account" THEN account[row[2]] ELSE saw.account
         /\ now.item = IF row[1] = "item" THEN item[row[2]] ELSE saw.item
         /\ now.listing = IF row[1] = "listing" /\ q.op # "uphold_report" THEN listing[row[2]] ELSE saw.listing
         /\ now.report = IF row[1] = "report" /\ q.op # "delete_item" THEN report[row[2]] ELSE saw.report
         /\ now.strike = IF row[1] = "strike" THEN strike[row[2]] ELSE saw.strike
<1> USE DEF Read, Seen, TypeOK
<1>1. CASE row[1] = "account"
  BY <1>1 DEF LockRows
<1>2. CASE row[1] = "item"
  BY <1>2 DEF LockRows
<1>3. CASE row[1] = "listing"
  BY <1>3 DEF LockRows
<1>4. CASE row[1] = "report"
  BY <1>4 DEF LockRows
<1>5. CASE row[1] = "strike"
  BY <1>5 DEF LockRows
<1>6. CASE row[1] \notin {"account", "item", "listing", "report", "strike"}
  BY <1>6
<1>7. QED
  BY <1>1, <1>2, <1>3, <1>4, <1>5, <1>6

\* The row that a handler reads is the one it is about.
LEMMA LockableRow ==
  ASSUME NEW q \in Requests, NEW n \in DOMAIN LockOrder(q.op), NEW row \in Lockable(q, LockOrder(q.op)[n])
  PROVE  /\ row \in LockRows
         /\ row[1] = "account" => row[2] = MemberOf(q)
         /\ row[1] = "item" => row[2] = ItemOf(q)
         /\ row[1] = "listing" /\ q.op # "uphold_report" => row[2] = ItemOf(q)
         /\ row[1] = "report" /\ q.op # "delete_item" => row[2] = q.key
         /\ row[1] = "strike" => row[2] = q.key
<1> DEFINE table == LockOrder(q.op)[n]
<1>1. row \in LockRows /\ row[1] = table
  BY LockableType
<1>2. /\ table \in {"item", "listing"} => q.op # "void_strike"
      /\ table = "strike" => q.op = "void_strike"
  BY RequestType, LockOrders DEF AllOps, ItemOps, ListingOps, ReportOps
<1>3. QED
  BY <1>1, <1>2 DEF Lockable

\* A request takes the next row, which nobody else holds, and reads it.
LEMMA AcquireKeepsInv ==
  ASSUME TxnInv, NEW t \in Txns, Acquire(t) PROVE TxnInv'
<1> DEFINE q == txn[t].req
           order == LockOrder(q.op)
<1>1. PICK row \in Missing(t) :
        /\ ~LockedByOther(t, row)
        /\ txn' = [txn EXCEPT ![t].held = @ \cup {row}, ![t].saw = Read(@, q, row)]
  BY DEF Acquire
<1>2. /\ UNCHANGED tradingVars /\ TypeOK /\ TypeOK' /\ txn \in [Txns -> Txn] /\ q \in Requests
      /\ Busy(t) /\ InOrder(t) /\ Current(t) /\ FreshListed(t)
  BY DEF Acquire, TxnInv, TxnShape, TypeOK, tradingVars, Busy, Txn
<1>3. PICK n \in DOMAIN order :
        /\ row \in Lockable(q, order[n])
        /\ \A k \in 1 .. n - 1 : Lockable(q, order[k]) \subseteq txn[t].held
  BY <1>2, MissingRows, RequestType, RowsAreLockable, EarlierRows
<1>4. /\ row \in LockRows
      /\ row[1] = "account" => row[2] = MemberOf(q)
      /\ row[1] = "item" => row[2] = ItemOf(q)
      /\ row[1] = "listing" /\ q.op # "uphold_report" => row[2] = ItemOf(q)
      /\ row[1] = "report" /\ q.op # "delete_item" => row[2] = q.key
      /\ row[1] = "strike" => row[2] = q.key
  BY <1>2, <1>3, LockableRow
<1>5. txn[t].saw \in Seen /\ txn[t].held \subseteq LockRows /\ txn[t].fresh \in BOOLEAN
  BY <1>2 DEF Txn
<1>6. /\ txn'[t] = [req |-> q, held |-> txn[t].held \cup {row}, saw |-> Read(txn[t].saw, q, row),
                    fresh |-> txn[t].fresh]
      /\ \A u \in Txns \ {t} : txn'[u] = txn[u]
  BY <1>1, <1>2 DEF Txn
<1>7. Read(txn[t].saw, q, row) \in Seen
  BY <1>2, <1>4, <1>5, ReadRow
<1>8. txn' \in [Txns -> Txn]
  <2>1. txn'[t] \in Txn
    BY <1>2, <1>4, <1>5, <1>6, <1>7 DEF Txn
  <2>2. QED
    BY <1>1, <1>2, <1>6, <2>1
<1>9. TxnShape'
  BY <1>2, <1>6, <1>8 DEF TxnInv, TxnShape, Busy
<1>10. Exclusive'
  <2>1. \A u \in Txns \ {t} : row \notin txn[u].held
    BY <1>1 DEF LockedByOther, Holds
  <2>2. QED
    BY <1>6, <2>1 DEF TxnInv, Exclusive
<1>11. InOrder(t)'
  <2>1. InOrder(t)
    BY <1>2
  <2>2. QED
    BY <1>3, <1>6, <2>1 DEF InOrder
<1>12. Current(t)'
  <2>1. /\ txn'[t].req = q /\ txn'[t].held = txn[t].held \cup {row}
        /\ txn'[t].saw = Read(txn[t].saw, q, row)
    BY <1>6
  <2>2. UNCHANGED <<account, item, listing, report, strike>>
    BY <1>2 DEF tradingVars
  <2> DEFINE now == Read(txn[t].saw, q, row)
  <2>3. /\ now.account = IF row[1] = "account" THEN account[row[2]] ELSE txn[t].saw.account
        /\ now.item = IF row[1] = "item" THEN item[row[2]] ELSE txn[t].saw.item
        /\ now.listing = IF row[1] = "listing" /\ q.op # "uphold_report" THEN listing[row[2]]
                         ELSE txn[t].saw.listing
        /\ now.report = IF row[1] = "report" /\ q.op # "delete_item" THEN report[row[2]]
                        ELSE txn[t].saw.report
        /\ now.strike = IF row[1] = "strike" THEN strike[row[2]] ELSE txn[t].saw.strike
    BY <1>2, <1>4, <1>5, ReadRow
  <2> HIDE DEF now
  <2>4. q.op \in ReportOps => q.op # "delete_item"
    BY DEF ReportOps
  <2>5. Holds(t, <<"account", MemberOf(q)>>)' => now.account = account[MemberOf(q)]
    BY <1>2, <1>4, <2>1, <2>3 DEF Holds, Current
  <2>6. q.op # "set_trading_status" /\ Holds(t, <<"item", ItemOf(q)>>)' => now.item = item[ItemOf(q)]
    BY <1>2, <1>4, <2>1, <2>3 DEF Holds, Current
  <2>7. q.op # "set_trading_status" /\ Holds(t, <<"listing", ItemOf(q)>>)' /\ q.op # "uphold_report" =>
             \/ now.listing = listing[ItemOf(q)]
             \/ now.listing.status = "none" /\ q.op \in {"moderate_listing", "create_report"}
    BY <1>2, <1>4, <2>1, <2>3 DEF Holds, Current
  <2>8. q.op \in ReportOps /\ Holds(t, <<"report", q.key>>)' => now.report \in {"none", report[q.key]}
    BY <1>2, <1>4, <2>1, <2>3, <2>4 DEF Holds, Current
  <2>9. q.op \in ReportOps /\ Holds(t, <<"strike", q.key>>)' => now.strike = strike[q.key]
    BY <1>2, <1>4, <2>1, <2>3 DEF Holds, Current
  <2>10. QED
    BY <2>1, <2>2, <2>5, <2>6, <2>7, <2>8, <2>9 DEF Current, now
<1>13. FreshListed(t)'
  BY <1>2, <1>6 DEF FreshListed, Listed, tradingVars
<1>14. ASSUME NEW u \in Txns \ {t}, Busy(u)' PROVE InOrder(u)' /\ Current(u)' /\ FreshListed(u)'
  <2>1. txn'[u] = txn[u] /\ Busy(u)
    BY <1>6, <1>14 DEF Busy
  <2>2. InOrder(u) /\ Current(u) /\ FreshListed(u)
    BY <2>1 DEF TxnInv
  <2>3. QED
    BY <1>2, <2>1, <2>2 DEF InOrder, Current, FreshListed, Holds, Listed, tradingVars
<1>15. QED
  BY <1>9, <1>10, <1>11, <1>12, <1>13, <1>14 DEF TxnInv

\* What other requests keep when a commit revises rows: all but freshness.
LEMMA FinishOthers ==
  ASSUME txn \in [Txns -> Txn], NEW t \in Txns, NEW revised, Finish(t, revised)
  PROVE  /\ txn' \in [Txns -> Txn] /\ txn'[t] = Idle
         /\ \A u \in Txns \ {t} :
              /\ txn'[u].req = txn[u].req /\ txn'[u].held = txn[u].held /\ txn'[u].saw = txn[u].saw
              /\ txn'[u].fresh => txn[u].fresh
              /\ Busy(u) /\ txn'[u].fresh => Expected(txn[u].req) \notin revised \ txn[u].held
<1>1. Idle \in Txn
  BY RowTypes DEF Idle, Txn, Unread, Seen
<1>2. \A u \in Txns \ {t} :
        txn'[u] = IF Busy(u) /\ Expected(txn[u].req) \in revised \ txn[u].held
                  THEN [txn[u] EXCEPT !.fresh = FALSE] ELSE txn[u]
  BY DEF Finish
<1>3. ASSUME NEW u \in Txns
      PROVE  [txn[u] EXCEPT !.fresh = FALSE] \in Txn
  BY DEF Txn
<1>4. DOMAIN txn' = Txns /\ txn' = [u \in Txns |-> txn'[u]] /\ txn'[t] = Idle
  BY DEF Finish
<1>5. \A u \in Txns : txn'[u] \in Txn
  BY <1>1, <1>2, <1>3, <1>4
<1>6. txn' \in [Txns -> Txn]
  BY <1>4, <1>5
<1>7. QED
  BY <1>2, <1>4, <1>6 DEF Txn

\* No commit makes another request's reading stale: it changes only rows it holds,
\* and inserts nothing that a lock of the other excludes.
LEMMA OthersStayCurrent ==
  ASSUME TxnInv, NEW t \in Txns, NEW revised, Footprint(t, revised), NEW u \in Txns \ {t}, Busy(u)
  PROVE  Current(u)'
<1> DEFINE q == txn[u].req
           saw == txn[u].saw
<1>1. q \in Requests /\ InOrder(u) /\ Current(u) /\ txn \in [Txns -> Txn] /\ TypeOK
  BY DEF TxnInv, TxnShape, Txn, Busy
<1>2. txn'[u].req = q /\ txn'[u].held = txn[u].held /\ txn'[u].saw = saw
  BY <1>1, FinishOthers DEF Footprint
<1>3. \A row : Holds(t, row) => ~Holds(u, row)
  BY DEF TxnInv, Exclusive, Holds
<1>4. Holds(u, <<"account", MemberOf(q)>>) => saw.account = account'[MemberOf(q)]
  BY <1>1, <1>3, RequestAbout DEF Current, Footprint
<1>5. ASSUME q.op # "set_trading_status"
      PROVE  /\ Holds(u, <<"item", ItemOf(q)>>) => saw.item = item'[ItemOf(q)]
             /\ Holds(u, <<"listing", ItemOf(q)>>) /\ q.op # "uphold_report" =>
                  \/ saw.listing = listing'[ItemOf(q)]
                  \/ saw.listing.status = "none" /\ q.op \in {"moderate_listing", "create_report"}
  <2> DEFINE i == ItemOf(q)
  <2>1. i \in Items /\ MemberOf(q) = Owner[i]
    BY <1>1, <1>5, RequestAbout
  <2>2. Holds(u, <<"item", i>>) => saw.item = item'[i]
    BY <1>1, <1>3, <1>5, <2>1 DEF Current, Footprint
  <2>3. ASSUME Holds(u, <<"listing", i>>), q.op # "uphold_report", listing'[i] # listing[i]
        PROVE  saw.listing.status = "none" /\ q.op \in {"moderate_listing", "create_report"}
    <3>1. ~Listed(i) /\ Holds(t, <<"item", i>>) /\ Holds(t, <<"account", Owner[i]>>)
      BY <1>3, <2>1, <2>3 DEF Footprint
    <3>2. ~Holds(u, <<"item", i>>) /\ ~Holds(u, <<"account", MemberOf(q)>>)
      BY <1>3, <2>1, <3>1
    <3>3. q.op \in {"update_item", "delete_item", "update_trade"} => q.key = i
      BY <1>1, RequestAbout DEF OnItems, ItemOps, ListingOps
    <3>4. q.op \in {"moderate_listing", "create_report"}
      BY <1>1, <2>3, <3>2, <3>3, HeldWith
    <3>5. saw.listing = listing[i] \/ saw.listing.status = "none"
      BY <1>1, <1>5, <2>3 DEF Current
    <3>6. QED
      BY <3>1, <3>4, <3>5 DEF Listed
  <2>4. QED
    BY <1>1, <1>5, <2>2, <2>3 DEF Current
<1>6. ASSUME q.op \in ReportOps
      PROVE  /\ Holds(u, <<"report", q.key>>) => saw.report \in {"none", report'[q.key]}
             /\ Holds(u, <<"strike", q.key>>) => saw.strike = strike'[q.key]
  <2>1. q.key \in Reports /\ MemberOf(q) = ReportedMember(q.key)
    BY <1>1, <1>6, RequestType, RequestAbout DEF ReportedMember, ReportOps
  <2>2. Holds(u, <<"report", q.key>>) => saw.report \in {"none", report'[q.key]}
    BY <1>1, <1>3, <1>6, <2>1 DEF Current, Footprint
  <2>3. Holds(u, <<"strike", q.key>>) => saw.strike = strike'[q.key]
    BY <1>1, <1>3, <1>6, <2>1, HeldWith DEF Current, Footprint
  <2>4. QED
    BY <2>2, <2>3
<1>7. QED
  BY <1>2, <1>4, <1>5, <1>6 DEF Current, Holds

\* A revision that stays fresh through somebody else's commit is that of an
\* unchanged row, or of a listing that has only now been inserted.
LEMMA FreshUnchanged ==
  ASSUME TxnInv, NEW t \in Txns, NEW revised, Footprint(t, revised), NEW u \in Txns \ {t}, Busy(u),
         txn'[u].fresh
  PROVE  LET q == txn[u].req
             row == Expected(q)
         IN /\ row[1] = "account" => account'[q.key] = account[q.key] /\ row[2] = q.key
            /\ row[1] = "item" => item'[q.key] = item[q.key] /\ row[2] = q.key
            /\ row[1] = "listing" => listing'[q.key] = listing[q.key] /\ row[2] = q.key /\ Listed(q.key)
<1> DEFINE q == txn[u].req
<1>1. q \in Requests /\ FreshListed(u) /\ txn \in [Txns -> Txn]
  BY DEF TxnInv, TxnShape, Txn, Busy
<1>2. txn[u].fresh /\ Expected(q) \notin revised \ txn[u].held
  BY <1>1, FinishOthers DEF Footprint
<1>3. \A row : Holds(t, row) => row \notin txn[u].held
  BY DEF TxnInv, Exclusive, Holds
<1>4. ASSUME Expected(q)[1] = "account" PROVE account'[q.key] = account[q.key] /\ Expected(q)[2] = q.key
  <2>1. q.op = "set_trading_status" /\ Expected(q) = <<"account", q.key>>
    BY <1>4 DEF Expected
  <2>2. q.key \in Members
    BY <1>1, <2>1, RequestType
  <2>3. QED
    BY <1>2, <1>3, <2>1, <2>2 DEF Footprint
<1>5. ASSUME Expected(q)[1] = "item" PROVE item'[q.key] = item[q.key] /\ Expected(q)[2] = q.key
  <2>1. q.op \in OnItems /\ Expected(q) = <<"item", q.key>>
    BY <1>5 DEF Expected, OnItems, ItemOps
  <2>2. q.key \in Items
    BY <1>1, <2>1, RequestType
  <2>3. QED
    BY <1>2, <1>3, <2>1, <2>2 DEF Footprint
<1>6. ASSUME Expected(q)[1] = "listing"
      PROVE  listing'[q.key] = listing[q.key] /\ Expected(q)[2] = q.key /\ Listed(q.key)
  <2>1. q.op \in OnItems /\ Expected(q) = <<"listing", q.key>>
    BY <1>6 DEF Expected, OnItems, ListingOps
  <2>2. q.key \in Items
    BY <1>1, <2>1, RequestType
  <2>3. Listed(q.key)
    BY <1>1, <1>2, <1>6 DEF FreshListed
  <2>4. listing'[q.key] # listing[q.key] =>
          Holds(t, <<"listing", q.key>>) /\ <<"listing", q.key>> \in revised
    BY <2>2, <2>3 DEF Footprint
  <2>5. QED
    BY <1>2, <1>3, <2>1, <2>3, <2>4
<1>7. QED
  BY <1>4, <1>5, <1>6

\* A commit gives up its own locks and touches no row that another request holds.
LEMMA CommitKeepsInv ==
  ASSUME TxnInv, NEW t \in Txns, Commit(t) PROVE TxnInv'
<1>1. PICK revised : Footprint(t, revised)
  BY CommitTouches
<1>2. TypeOK'
  BY CommitImplements, NextType DEF TxnInv, TxnShape
<1>3. /\ txn \in [Txns -> Txn] /\ txn' \in [Txns -> Txn] /\ txn'[t] = Idle /\ Idle.held = {}
      /\ \A u \in Txns \ {t} :
           txn'[u].req = txn[u].req /\ txn'[u].held = txn[u].held /\ txn'[u].saw = txn[u].saw
  BY <1>1, FinishOthers DEF Footprint, TxnInv, TxnShape, Idle
<1>4. TxnShape'
  BY <1>2, <1>3 DEF TxnInv, TxnShape, Busy
<1>5. Exclusive'
  BY <1>3 DEF TxnInv, Exclusive
<1>6. ASSUME NEW u \in Txns, Busy(u)' PROVE InOrder(u)' /\ Current(u)' /\ FreshListed(u)'
  <2>1. u # t /\ Busy(u)
    BY <1>3, <1>6 DEF Busy, Idle
  <2>2. InOrder(u)
    BY <2>1 DEF TxnInv
  <2>3. InOrder(u)'
    BY <1>3, <2>1, <2>2 DEF InOrder
  <2>4. Current(u)'
    BY <1>1, <2>1, OthersStayCurrent
  <2>5. FreshListed(u)'
    BY <1>1, <1>3, <2>1, FreshUnchanged DEF FreshListed, Listed
  <2>6. QED
    BY <2>3, <2>4, <2>5
<1>7. QED
  BY <1>4, <1>5, <1>6 DEF TxnInv

\* A step of the transactions is a commit or leaves the tables alone.
LEMMA TxnSteps ==
  ASSUME [TxnNext]_txnVars
  PROVE  \/ \E t \in Txns : Commit(t)
         \/ UNCHANGED tradingVars
BY DEF TxnNext, Answer, Begin, Acquire, Refuse, Crash, AbortVictim, txnVars, tradingVars

\* The invariant is inductive.
LEMMA TxnNextInv == TxnInv /\ [TxnNext]_txnVars => TxnInv'
<1> SUFFICES ASSUME TxnInv, [TxnNext]_txnVars PROVE TxnInv'
  OBVIOUS
<1>1. ASSUME NEW t \in Txns, Begin(t) PROVE TxnInv'
  BY <1>1, BeginKeepsInv
<1>2. ASSUME NEW t \in Txns, Acquire(t) PROVE TxnInv'
  BY <1>2, AcquireKeepsInv
<1>3. ASSUME NEW t \in Txns, Refuse(t) \/ Crash(t) \/ AbortVictim(t) PROVE TxnInv'
  BY <1>3, EndKeepsInv DEF Refuse, Crash, AbortVictim
<1>4. ASSUME NEW t \in Txns, Commit(t) PROVE TxnInv'
  BY <1>4, CommitKeepsInv
<1>5. CASE UNCHANGED txnVars
  <2>1. UNCHANGED <<account, item, listing, report, strike, txn>>
    BY <1>5 DEF txnVars
  <2>2. TxnShape' /\ Exclusive'
    BY <2>1 DEF TxnInv, TxnShape, TypeOK, Exclusive, Busy
  <2>3. ASSUME NEW u \in Txns, Busy(u)' PROVE InOrder(u)' /\ Current(u)' /\ FreshListed(u)'
    BY <2>1, <2>3 DEF TxnInv, Busy, InOrder, Current, FreshListed, Holds, Listed
  <2>4. QED
    BY <2>2, <2>3 DEF TxnInv
<1>6. QED
  BY <1>1, <1>2, <1>3, <1>4, <1>5 DEF TxnNext, Answer

\* The invariant: locks are exclusive and taken in order, and what a transaction has
\* read under its locks is what the tables have.
THEOREM LocksProtectReads == TxnSpec => []TxnInv
BY InitTxn, TxnNextInv, PTL DEF TxnSpec

\* Whatever their number and however they interleave, the transactions make only
\* steps that the rules of trading allow.
THEOREM TxnsImplementRules == TxnSpec => ImplementsTrading
<1>1. TxnInit => Rules!Init
  BY DEF TxnInit, Init, Rules!Init, NoItem, NoListing, FreshAccount, Reports,
         Rules!NoItem, Rules!NoListing, Rules!FreshAccount, Rules!Reports
<1>2. TxnInv /\ [TxnNext]_txnVars => [tradingVars' # tradingVars => Rules!Next]_txnVars
  <2> SUFFICES ASSUME TxnInv, [TxnNext]_txnVars, tradingVars' # tradingVars PROVE Rules!Next
    OBVIOUS
  <2>1. Next
    BY TxnSteps, CommitImplements
  <2>2. QED
    BY <2>1
     DEF Next, Rules!Next, CollectionNext, Rules!CollectionNext, ListingNext, Rules!ListingNext,
         ModerationNext, Rules!ModerationNext, CreateItem, Rules!CreateItem, UpdateItem,
         Rules!UpdateItem, DeleteItem, Rules!DeleteItem, CreateTrade, Rules!CreateTrade,
         UpdateTrade, Rules!UpdateTrade, RemoveTrade, Rules!RemoveTrade, ModerateListing,
         Rules!ModerateListing, CreateReport, Rules!CreateReport, DismissReport,
         Rules!DismissReport, UpholdReport, Rules!UpholdReport, VoidStrike, Rules!VoidStrike,
         SetTradingStatus, Rules!SetTradingStatus, NoItem, Rules!NoItem, NoListing,
         Rules!NoListing, Clamped, Rules!Clamped, Held, Rules!Held, Listed, Rules!Listed,
         MayTrade, Rules!MayTrade, ReportedMember, Rules!ReportedMember, StrikeSuspends,
         Rules!StrikeSuspends, Struck, Rules!Struck, WithoutActive, Rules!WithoutActive,
         Quantity, Rules!Quantity, Reports, Rules!Reports
<1>3. QED
  BY <1>1, <1>2, LocksProtectReads, PTL DEF TxnSpec, ImplementsTrading

\* So every guarantee of the rules is one of the transactions.
THEOREM TxnsKeepGuarantees ==
  TxnSpec => Spec /\ [](ListedWithinOwned /\ LimitSuspends /\ CounterBehindStrikes) /\ SuspendedNeverRelists
<1>1. TxnInv /\ [TxnNext]_txnVars => [Next]_tradingVars
  BY TxnSteps, CommitImplements
<1>2. TxnInit => Init
  BY DEF TxnInit
<1>3. TxnSpec => Spec
  BY <1>1, <1>2, LocksProtectReads, PTL DEF TxnSpec, Spec
<1>4. QED
  BY <1>3, NeverOversold, LimitAlwaysSuspends, CounterNeverAhead, SuspensionHolds, PTL

\* No request overwrites a row that somebody revised after its client read it.
THEOREM UpdatesAreNotLost == TxnSpec => NoLostUpdate
<1> DEFINE Kept(t) ==
      LET row == Expected(txn[t].req) IN
      /\ row[1] = "item" => item'[row[2]] = item[row[2]]
      /\ row[1] = "listing" => listing'[row[2]] = listing[row[2]]
      /\ row[1] = "account" => account'[row[2]] = account[row[2]]
<1>1. ASSUME TxnInv, TxnNext, NEW t \in Txns, Busy(t), txn'[t].req = txn[t].req, txn'[t].fresh
      PROVE  Kept(t)
  <2>1. CASE UNCHANGED tradingVars
    BY <2>1 DEF tradingVars
  <2>2. ASSUME NEW u \in Txns, Commit(u) PROVE Kept(t)
    <3>1. PICK revised : Footprint(u, revised)
      BY <1>1, <2>2, CommitTouches
    <3>2. u # t
      BY <1>1, <3>1, FinishOthers DEF TxnInv, TxnShape, Footprint, Busy, Idle
    <3>3. QED
      BY <1>1, <3>1, <3>2, FreshUnchanged
  <2>3. QED
    BY <1>1, <2>1, <2>2, TxnSteps
<1>2. TxnInv /\ [TxnNext]_txnVars =>
        [\A t \in Txns : Busy(t) /\ txn'[t].req = txn[t].req /\ txn'[t].fresh => Kept(t)]_txnVars
  BY <1>1
<1>3. QED
  BY <1>2, LocksProtectReads, PTL DEF TxnSpec, NoLostUpdate

-----------------------------------------------------------------------------
(* Deadlocks.  Apart from three handlers, all lock in the order report,    *)
(* account, item, listing, strike, and a request that holds its listing or *)
(* its strike waits for nothing more, except an upheld report, which locks *)
(* the listings of a member under the lock of that member's account.       *)

Inverting == {"moderate_listing", "set_trading_status", "delete_item"}

\* The tables a request may still wait for, by those it holds a row of.
Later == {<<"report", "account">>, <<"report", "listing">>, <<"account", "item">>, <<"account", "listing">>,
          <<"account", "strike">>, <<"item", "listing">>}

\* A request waits for rows behind those it holds.
LEMMA WaitsBehind ==
  ASSUME NEW t \in Txns, txn[t].req \in Requests, InOrder(t), txn[t].req.op \notin Inverting,
         NEW held \in txn[t].held, NEW row \in Missing(t)
  PROVE  \/ <<held[1], row[1]>> \in Later
         \/ /\ txn[t].req.op = "uphold_report"
            /\ held[1] = "listing" /\ row[1] = "listing"
            /\ held[2] \in ItemsOf(MemberOf(txn[t].req)) /\ row[2] \in ItemsOf(MemberOf(txn[t].req))
<1> DEFINE q == txn[t].req
           order == LockOrder(q.op)
<1>1. q.op \in AllOps
  BY RequestType
<1>2. PICK k \in DOMAIN order :
        /\ held[1] = order[k] /\ held \in Lockable(q, order[k])
        /\ \A j \in 1 .. k - 1 : Lockable(q, order[j]) \subseteq txn[t].held
  BY HeldInOrder
<1>3. PICK n \in DOMAIN order : row \in RowsToLock(t, order[n]) \ txn[t].held
  BY <1>1, MissingRows
<1>4. row \in Lockable(q, order[n]) /\ row[1] = order[n]
  BY <1>3, RowsAreLockable, LockableType
<1>5. k \in 1 .. 3 /\ n \in 1 .. 3
  BY <1>1, LockStages
<1>6. ~(n < k)
  <2> SUFFICES ASSUME n < k PROVE FALSE
    OBVIOUS
  <2>1. n \in 1 .. k - 1
    BY <1>5
  <2>2. QED
    BY <1>2, <1>3, <1>4, <2>1
<1>7. CASE n = k
  <2>1. <<q.op, order[k]>> = <<"uphold_report", "listing">>
    <3>1. <<q.op, order[k]>> # <<"delete_item", "report">>
      BY DEF Inverting
    <3>2. SUFFICES ASSUME <<q.op, order[k]>> # <<"uphold_report", "listing">> PROVE FALSE
      OBVIOUS
    <3>3. RowsToLock(t, order[k]) = Lockable(q, order[k]) /\ \E r : Lockable(q, order[k]) = {r}
      BY <3>1, <3>2, OneRowAtATime
    <3>4. QED
      BY <1>2, <1>3, <1>7, <3>3
  <2>2. Lockable(q, order[k]) = {<<"listing", i>> : i \in ItemsOf(MemberOf(q))}
    BY <2>1 DEF Lockable
  <2>3. QED
    BY <1>2, <1>4, <1>7, <2>1, <2>2
<1>8. CASE k < n
  <2>1. <<order[k], order[n]>> \in Later
    BY <1>1, <1>2, <1>3, <1>5, <1>8, LockOrders DEF Later, Inverting, AllOps, ItemOps, ListingOps, ReportOps
  <2>2. QED
    BY <1>2, <1>4, <2>1
<1>9. QED
  BY <1>5, <1>6, <1>7, <1>8

\* In every deadlock, of any number of requests, somebody leaves the lock order.
THEOREM DeadlocksNeedInversion == TxnSpec => []DeadlockNeedsInversion
<1>1. ASSUME TxnInv, NEW S \in SUBSET Waiting, Deadlocked(S), \A t \in S : txn[t].req.op \notin Inverting
      PROVE  FALSE
  <2> DEFINE HoldsAny(table) == \E t \in S : \E row \in txn[t].held : row[1] = table
  <2>1. \A t \in S : /\ t \in Txns /\ txn[t].req \in Requests /\ InOrder(t) /\ WaitsOnlyIn(t, S)
                     /\ txn[t].req.op \in AllOps
    BY <1>1, RequestType DEF Waiting, Blocked, Busy, TxnInv, TxnShape, Txn, Deadlocked
  <2>2. ~HoldsAny("user")
    <3> SUFFICES ASSUME NEW t \in S, NEW row \in txn[t].held, row[1] = "user" PROVE FALSE
      OBVIOUS
    <3>1. PICK n \in DOMAIN LockOrder(txn[t].req.op) : LockOrder(txn[t].req.op)[n] = "user"
      BY <2>1, HeldInOrder
    <3>2. txn[t].req.op = "set_trading_status"
      BY <2>1, <3>1, LockOrders DEF AllOps, ItemOps, ListingOps, ReportOps
    <3>3. QED
      BY <1>1, <3>2 DEF Inverting
  <2>3. ASSUME NEW t \in S PROVE \E row \in Missing(t) : \E u \in S \ {t} : row \in txn[u].held
    <3>1. CASE Missing(t) # {}
      BY <2>1, <3>1 DEF WaitsOnlyIn, Holds
    <3>2. CASE Missing(t) = {}
      <4>1. PICK m \in SharedUsers(txn[t].req), u \in S \ {t} : <<"user", m>> \in txn[u].held
        BY <2>1, <3>2 DEF WaitsOnlyIn, Holds
      <4>2. <<"user", m>>[1] = "user"
        OBVIOUS
      <4>3. QED
        BY <2>2, <4>1, <4>2
    <3>3. QED
      BY <3>1, <3>2
  <2>4. ASSUME NEW t \in S, NEW held \in txn[t].held
        PROVE  \/ \E table : <<held[1], table>> \in Later /\ HoldsAny(table)
               \/ /\ txn[t].req.op = "uphold_report" /\ held[1] = "listing"
                  /\ \E u \in S \ {t}, i \in ItemsOf(MemberOf(txn[t].req)) : Holds(u, <<"listing", i>>)
    <3>1. PICK row \in Missing(t), u \in S \ {t} : row \in txn[u].held
      BY <2>3
    <3>2. row \in LockRows
      BY <1>1, <2>1, <3>1 DEF TxnInv, TxnShape, Txn
    <3>3. row = <<row[1], row[2]>>
      BY <3>2 DEF LockRows
    <3>4. CASE <<held[1], row[1]>> \in Later
      BY <3>1, <3>4
    <3>5. CASE /\ txn[t].req.op = "uphold_report"
               /\ held[1] = "listing" /\ row[1] = "listing"
               /\ row[2] \in ItemsOf(MemberOf(txn[t].req))
      BY <3>1, <3>3, <3>5 DEF Holds
    <3>6. QED
      BY <1>1, <2>1, <3>1, <3>4, <3>5, WaitsBehind
  <2>5. ~HoldsAny("strike")
    BY <2>4 DEF Later
  <2>6. ~HoldsAny("listing")
    <3> SUFFICES ASSUME NEW t \in S, NEW held \in txn[t].held, held[1] = "listing" PROVE FALSE
      OBVIOUS
    <3>1. \A v \in S : \A row \in txn[v].held : row[1] = "listing" => txn[v].req.op = "uphold_report"
      BY <2>4 DEF Later
    <3>2. PICK u \in S \ {t}, i \in ItemsOf(MemberOf(txn[t].req)) : Holds(u, <<"listing", i>>)
      BY <2>4 DEF Later
    <3>3. txn[t].req.op = "uphold_report" /\ txn[u].req.op = "uphold_report"
      BY <3>1, <3>2 DEF Holds
    <3>4. i \in ItemsOf(MemberOf(txn[u].req))
      <4>1. PICK n \in DOMAIN LockOrder("uphold_report") :
              /\ LockOrder("uphold_report")[n] = "listing"
              /\ <<"listing", i>> \in Lockable(txn[u].req, LockOrder("uphold_report")[n])
        BY <2>1, <3>2, <3>3, HeldInOrder DEF Holds
      <4>2. Lockable(txn[u].req, "listing") = {<<"listing", j>> : j \in ItemsOf(MemberOf(txn[u].req))}
        BY <3>3 DEF Lockable
      <4>3. QED
        BY <4>1, <4>2
    <3>5. MemberOf(txn[t].req) = MemberOf(txn[u].req)
      BY <3>2, <3>4 DEF ItemsOf
    <3>6. PICK j : Holds(t, <<"listing", j>>)
      <4>1. held \in LockRows
        BY <1>1, <2>1 DEF TxnInv, TxnShape, Txn
      <4>2. held = <<"listing", held[2]>>
        BY <4>1 DEF LockRows
      <4>3. QED
        BY <4>2 DEF Holds
    <3>7. Holds(t, <<"account", MemberOf(txn[t].req)>>) /\ Holds(u, <<"account", MemberOf(txn[u].req)>>)
      BY <2>1, <3>2, <3>3, <3>6, HeldWith
    <3>8. QED
      BY <1>1, <2>1, <3>2, <3>5, <3>7 DEF TxnInv, Exclusive, Holds
  <2>7. ~HoldsAny("item")
    BY <2>4, <2>6 DEF Later
  <2>8. ~HoldsAny("account")
    BY <2>4, <2>5, <2>6, <2>7 DEF Later
  <2>9. ~HoldsAny("report")
    BY <2>4, <2>6, <2>8 DEF Later
  <2>10. PICK t \in S : TRUE
    BY <1>1 DEF Deadlocked
  <2>11. PICK row \in Missing(t), u \in S \ {t} : row \in txn[u].held
    BY <2>3
  <2>12. row[1] \in {"user", "account", "item", "listing", "report", "strike"}
    BY <1>1, <2>1, <2>11 DEF TxnInv, TxnShape, Txn, LockRows
  <2>13. QED
    BY <2>2, <2>5, <2>6, <2>7, <2>8, <2>9, <2>11, <2>12
<1>2. TxnInv => DeadlockNeedsInversion
  BY <1>1 DEF DeadlockNeedsInversion, Inverting
<1>3. QED
  BY <1>2, LocksProtectReads, PTL

=============================================================================
