------------------------------ MODULE Trading ------------------------------
(***************************************************************************)
(* The rules of private trading: what each handler of routers/trades.py,   *)
(* and each handler of routers/collection.py that touches a listed item,   *)
(* promises when it commits.  A handler is one atomic step here; a request *)
(* that is refused changes nothing and is no step.  TradingTxn models the  *)
(* same handlers lock by lock and implements this module.                  *)
(*                                                                         *)
(* Row identities: a listing is unique per collection item and dies with   *)
(* it, so listings are indexed by item; a report is unique per reporter    *)
(* and listing, and a strike per report, so both are indexed by            *)
(* <<reporter, item>>.  An item row that was deleted never comes back (a   *)
(* later item of the same card has a new id).                              *)
(***************************************************************************)
EXTENDS Integers, FiniteSets

CONSTANTS
  Members,      \* users of role "member" whose trading is modelled
  Reporters,    \* users who may file a report
  Items,        \* ids of collection_items rows
  Owner,        \* the member an item belongs to
  MaxQuantity,  \* 9999 in the code
  StrikeLimit   \* 3 in the code

ASSUME OwnerAssumption == Owner \in [Items -> Members]
ASSUME FiniteAssumption == IsFiniteSet(Reporters) /\ IsFiniteSet(Items)
ASSUME BoundsAssumption == /\ MaxQuantity \in Nat \ {0}
                           /\ StrikeLimit \in Nat \ {0}

VARIABLES
  account,  \* trading_accounts: status and active_strikes, per member
  item,     \* collection_items: existence and quantity, per item
  listing,  \* trade_listings: status and quantity, per item
  report,   \* trade_reports: status, per <<reporter, item>>
  strike    \* trade_strikes: status, per <<reporter, item>>

tradingVars == <<account, item, listing, report, strike>>

Reports == Reporters \X Items
Quantity == 1 .. MaxQuantity

AccountRow == [status : {"active", "suspended"}, strikes : 0 .. StrikeLimit]
ItemRow == [state : {"unborn", "held", "deleted"}, qty : 0 .. MaxQuantity]
ListingRow == [status : {"none", "active", "removed"}, qty : 0 .. MaxQuantity]

\* A member without an account row gets this one from the first handler that
\* asks for it, so the two states are not told apart.
FreshAccount == [status |-> "active", strikes |-> 0]
NoListing == [status |-> "none", qty |-> 0]
NoItem(state) == [state |-> state, qty |-> 0]

ItemsOf(m) == {i \in Items : Owner[i] = m}
Held(i) == item[i].state = "held"
Listed(i) == listing[i].status # "none"
MayTrade(m) == account[m].status = "active"
ReportedMember(r) == Owner[r[2]]

TypeOK ==
  /\ account \in [Members -> AccountRow]
  /\ item \in [Items -> ItemRow]
  /\ listing \in [Items -> ListingRow]
  /\ report \in [Reports -> {"none", "open", "upheld", "dismissed"}]
  /\ strike \in [Reports -> {"none", "active", "void"}]

Init ==
  /\ account = [m \in Members |-> FreshAccount]
  /\ item = [i \in Items |-> NoItem("unborn")]
  /\ listing = [i \in Items |-> NoListing]
  /\ report = [r \in Reports |-> "none"]
  /\ strike = [r \in Reports |-> "none"]

-----------------------------------------------------------------------------
(* The member's collection.                                                *)

\* Adding copies creates the row or increments it, up to the limit.
CreateItem(i, n) ==
  /\ item[i].state # "deleted"
  /\ item[i].qty + n <= MaxQuantity
  /\ item' = [item EXCEPT ![i] = [state |-> "held", qty |-> @.qty + n]]
  /\ UNCHANGED <<account, listing, report, strike>>

\* Mutant: the listing of a shrunk item keeps its quantity.
ClampedNever(row, q) == row

\* What is left of a listing when its item shrinks to q copies.
Clamped(row, q) ==
  IF row.status # "none" /\ row.qty > q THEN [row EXCEPT !.qty = q] ELSE row

UpdateItem(i, q) ==
  /\ Held(i)
  /\ item' = [item EXCEPT ![i].qty = q]
  /\ listing' = [listing EXCEPT ![i] = Clamped(@, q)]
  /\ UNCHANGED <<account, report, strike>>

\* The foreign key deletes the listing with the item; reports and strikes stay.
DeleteItem(i) ==
  /\ Held(i)
  /\ item' = [item EXCEPT ![i] = NoItem("deleted")]
  /\ listing' = [listing EXCEPT ![i] = NoListing]
  /\ UNCHANGED <<account, report, strike>>

-----------------------------------------------------------------------------
(* The member's listings.                                                  *)

CreateTrade(i, q) ==
  /\ MayTrade(Owner[i])
  /\ Held(i)
  /\ q <= item[i].qty
  /\ ~Listed(i)
  /\ listing' = [listing EXCEPT ![i] = [status |-> "active", qty |-> q]]
  /\ UNCHANGED <<account, item, report, strike>>

UpdateTrade(i, q, status) ==
  /\ MayTrade(Owner[i])
  /\ Listed(i)
  /\ q <= item[i].qty
  /\ listing' = [listing EXCEPT ![i] = [status |-> status, qty |-> q]]
  /\ UNCHANGED <<account, item, report, strike>>

\* A suspended member may still withdraw a listing.
RemoveTrade(i) ==
  /\ Listed(i)
  /\ listing' = [listing EXCEPT ![i].status = "removed"]
  /\ UNCHANGED <<account, item, report, strike>>

-----------------------------------------------------------------------------
(* Reports and moderation.                                                 *)

CreateReport(r) ==
  /\ r[1] # ReportedMember(r)
  /\ listing[r[2]].status = "active"
  /\ report[r] = "none"
  /\ report' = [report EXCEPT ![r] = "open"]
  /\ UNCHANGED <<account, item, listing, strike>>

DismissReport(r) ==
  /\ report[r] = "open"
  /\ report' = [report EXCEPT ![r] = "dismissed"]
  /\ UNCHANGED <<account, item, listing, strike>>

\* Mutant: the counter is not capped.
StruckUncapped(row) ==
  [status |-> IF row.strikes + 1 >= StrikeLimit THEN "suspended" ELSE row.status,
   strikes |-> row.strikes + 1]

\* The account after one more strike: the counter is capped at the limit.
Struck(row) ==
  LET strikes == IF row.strikes < StrikeLimit THEN row.strikes + 1 ELSE StrikeLimit
  IN [status |-> IF strikes = StrikeLimit THEN "suspended" ELSE row.status,
      strikes |-> strikes]

\* Reaching the limit removes the active listings, unless the account was
\* suspended already.
StrikeSuspends(row) == row.status = "active" /\ Struck(row).status = "suspended"

WithoutActive(m) ==
  [i \in Items |->
     IF Owner[i] = m /\ listing[i].status = "active"
     THEN [listing[i] EXCEPT !.status = "removed"]
     ELSE listing[i]]

UpholdReport(r) ==
  LET m == ReportedMember(r) IN
  /\ report[r] = "open"
  /\ report' = [report EXCEPT ![r] = "upheld"]
  /\ strike' = [strike EXCEPT ![r] = "active"]
  /\ account' = [account EXCEPT ![m] = Struck(@)]
  /\ listing' = IF StrikeSuspends(account[m]) THEN WithoutActive(m) ELSE listing
  /\ UNCHANGED item

\* Mutant: the strike is voided and still counted.
VoidStrikeUncounted(r) ==
  /\ strike[r] = "active"
  /\ strike' = [strike EXCEPT ![r] = "void"]
  /\ UNCHANGED <<account, item, listing, report>>

VoidStrike(r) ==
  /\ strike[r] = "active"
  /\ strike' = [strike EXCEPT ![r] = "void"]
  /\ account' = [account EXCEPT ![ReportedMember(r)].strikes =
                   IF @ > 0 THEN @ - 1 ELSE 0]
  /\ UNCHANGED <<item, listing, report>>

\* Mutant: a moderator may restore a listing of a suspended member.
ModerateListingAnyway(i, status) ==
  /\ Listed(i)
  /\ listing' = [listing EXCEPT ![i].status = status]
  /\ UNCHANGED <<account, item, report, strike>>

ModerateListing(i, status) ==
  /\ Listed(i)
  /\ status = "active" => MayTrade(Owner[i])
  /\ listing' = [listing EXCEPT ![i].status = status]
  /\ UNCHANGED <<account, item, report, strike>>

\* Mutant: trading is restored with the strikes still standing.
SetTradingStatusAnyway(m, status) ==
  /\ account' = [account EXCEPT ![m].status = status]
  /\ UNCHANGED <<item, listing, report, strike>>

\* Suspending by hand leaves the listings as they are.
SetTradingStatus(m, status) ==
  /\ status = "active" => account[m].strikes < StrikeLimit
  /\ account' = [account EXCEPT ![m].status = status]
  /\ UNCHANGED <<item, listing, report, strike>>

-----------------------------------------------------------------------------

CollectionNext ==
  \E i \in Items :
    \/ \E q \in Quantity : CreateItem(i, q) \/ UpdateItem(i, q)
    \/ DeleteItem(i)

ListingNext ==
  \E i \in Items :
    \/ \E q \in Quantity : CreateTrade(i, q)
    \/ \E q \in Quantity, status \in {"active", "removed"} : UpdateTrade(i, q, status)
    \/ RemoveTrade(i)
    \/ \E status \in {"active", "removed"} : ModerateListing(i, status)

ModerationNext ==
  \/ \E r \in Reports : \/ CreateReport(r)
                        \/ DismissReport(r)
                        \/ UpholdReport(r)
                        \/ VoidStrike(r)
  \/ \E m \in Members, status \in {"active", "suspended"} : SetTradingStatus(m, status)

Next == CollectionNext \/ ListingNext \/ ModerationNext

Spec == Init /\ [][Next]_tradingVars

-----------------------------------------------------------------------------
(* Properties.                                                             *)

UpheldOf(m) == {r \in Reports : ReportedMember(r) = m /\ report[r] = "upheld"}
StrikesOf(m) == {r \in Reports : ReportedMember(r) = m /\ strike[r] = "active"}

\* A member never offers more copies of a card than the collection holds,
\* whatever happens to the item after it was listed: shrinking it clamps the
\* listing, deleting it deletes the listing, and every later edit of the
\* listing is checked against the quantity of that moment.
ListedWithinOwned ==
  \A i \in Items : Listed(i) => Held(i) /\ listing[i].qty \in 1 .. item[i].qty

\* The cached strike counter never exceeds the strike rows it stands for, and
\* it can only fall behind them once it has been capped: with no more reports
\* ever upheld than the limit, it is exactly the number of active strikes.
CounterBehindStrikes ==
  \A m \in Members :
    /\ account[m].strikes <= Cardinality(StrikesOf(m))
    /\ Cardinality(UpheldOf(m)) <= StrikeLimit =>
         account[m].strikes = Cardinality(StrikesOf(m))

\* A member at the strike limit is suspended: neither the upheld report that
\* reached it nor a moderator's later status change leaves trading active.
LimitSuspends ==
  \A m \in Members : account[m].strikes >= StrikeLimit => account[m].status = "suspended"

\* No handler puts a card of a suspended member on offer: while the suspension
\* lasts the set of active listings can only shrink.
SuspendedNeverRelists ==
  [][\A i \in Items :
       account[Owner[i]].status = "suspended" /\ account'[Owner[i]].status = "suspended" =>
         (listing'[i].status = "active" => listing[i].status = "active")]_tradingVars

\* What test_three_upheld_reports_suspend_only_trading_and_remove_active_listings
\* (api/tests/test_trade_api.py:119) says of the member whose third report is
\* upheld: no listing of that member is active.  The code skips the removal when
\* the member was suspended by hand before the third strike.
LimitRemovesListings ==
  \A m \in Members : account[m].strikes >= StrikeLimit =>
    \A i \in ItemsOf(m) : listing[i].status # "active"

\* What the refusal "Void a strike before restoring trading." (routers/trades.py:820)
\* says: trading is not active while the limit of strikes stands.  A report upheld
\* while the counter is capped adds a strike row and no count, so voiding one of
\* the four strikes brings the counter below the limit with three still active.
StandingStrikesSuspend ==
  \A m \in Members : Cardinality(StrikesOf(m)) >= StrikeLimit =>
    account[m].status = "suspended"

=============================================================================
