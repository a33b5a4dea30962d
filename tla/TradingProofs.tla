--------------------------- MODULE TradingProofs ---------------------------
(***************************************************************************)
(* Proofs about the rules of trading, for every set of members, reporters  *)
(* and items and every quantity and strike limit.                          *)
(***************************************************************************)
EXTENDS Trading, FiniteSetTheorems, TLAPS

\* The written rows have the type of their tables.
LEMMA RowTypes ==
  /\ FreshAccount \in AccountRow
  /\ NoListing \in ListingRow
  /\ \A state \in {"unborn", "held", "deleted"} : NoItem(state) \in ItemRow
  /\ \A row \in AccountRow : Struck(row) \in AccountRow
  /\ \A row \in ListingRow, q \in Quantity : Clamped(row, q) \in ListingRow
BY BoundsAssumption
   DEF FreshAccount, AccountRow, NoListing, ListingRow, NoItem, ItemRow, Struck, Clamped, Quantity

\* A report is about a member.
LEMMA ReportedMemberIsMember == \A r \in Reports : ReportedMember(r) \in Members
BY OwnerAssumption DEF Reports, ReportedMember

\* The tables start out empty.
LEMMA InitType == Init => TypeOK
BY RowTypes DEF Init, TypeOK

\* Every handler keeps the type invariant.
LEMMA NextType == TypeOK /\ [Next]_tradingVars => TypeOK'
<1> SUFFICES ASSUME TypeOK, [Next]_tradingVars PROVE TypeOK'
  OBVIOUS
<1> USE BoundsAssumption, OwnerAssumption, RowTypes DEF TypeOK
<1>1. ASSUME NEW i \in Items, NEW q \in Quantity, CreateItem(i, q) PROVE TypeOK'
  BY <1>1 DEF CreateItem, ItemRow, Quantity
<1>2. ASSUME NEW i \in Items, NEW q \in Quantity, UpdateItem(i, q) PROVE TypeOK'
  BY <1>2 DEF UpdateItem, ItemRow, Quantity
<1>3. ASSUME NEW i \in Items, DeleteItem(i) PROVE TypeOK'
  BY <1>3 DEF DeleteItem
<1>4. ASSUME NEW i \in Items, NEW q \in Quantity, CreateTrade(i, q) PROVE TypeOK'
  BY <1>4 DEF CreateTrade, ListingRow, Quantity
<1>5. ASSUME NEW i \in Items, NEW q \in Quantity, NEW s \in {"active", "removed"},
             UpdateTrade(i, q, s)
      PROVE TypeOK'
  BY <1>5 DEF UpdateTrade, ListingRow, Quantity
<1>6. ASSUME NEW i \in Items, RemoveTrade(i) PROVE TypeOK'
  BY <1>6 DEF RemoveTrade, ListingRow
<1>7. ASSUME NEW i \in Items, NEW s \in {"active", "removed"}, ModerateListing(i, s)
      PROVE TypeOK'
  BY <1>7 DEF ModerateListing, ListingRow
<1>8. ASSUME NEW r \in Reports, CreateReport(r) PROVE TypeOK'
  BY <1>8 DEF CreateReport
<1>9. ASSUME NEW r \in Reports, DismissReport(r) PROVE TypeOK'
  BY <1>9 DEF DismissReport
<1>10. ASSUME NEW r \in Reports, UpholdReport(r) PROVE TypeOK'
  <2>1. listing' \in [Items -> ListingRow]
    BY <1>10 DEF UpholdReport, WithoutActive, ListingRow
  <2>2. account' \in [Members -> AccountRow]
    BY <1>10 DEF UpholdReport
  <2>3. QED
    BY <1>10, <2>1, <2>2 DEF UpholdReport
<1>11. ASSUME NEW r \in Reports, VoidStrike(r) PROVE TypeOK'
  <2>1. account[ReportedMember(r)] \in AccountRow
    BY ReportedMemberIsMember
  <2>2. (IF account[ReportedMember(r)].strikes > 0
           THEN account[ReportedMember(r)].strikes - 1 ELSE 0) \in 0 .. StrikeLimit
    BY <2>1 DEF AccountRow
  <2>3. account' \in [Members -> AccountRow]
    BY <1>11, <2>2 DEF VoidStrike, AccountRow
  <2>4. QED
    BY <1>11, <2>3 DEF VoidStrike
<1>12. ASSUME NEW m \in Members, NEW s \in {"active", "suspended"}, SetTradingStatus(m, s)
       PROVE TypeOK'
  BY <1>12 DEF SetTradingStatus, AccountRow
<1>13. CASE UNCHANGED tradingVars
  BY <1>13 DEF tradingVars
<1>14. QED
  BY <1>1, <1>2, <1>3, <1>4, <1>5, <1>6, <1>7, <1>8, <1>9, <1>10, <1>11, <1>12, <1>13
     DEF Next, CollectionNext, ListingNext, ModerationNext

\* Rows keep the type of their tables, whatever is traded, reported and moderated.
THEOREM TypeCorrect == Spec => []TypeOK
BY InitType, NextType, PTL DEF Spec

-----------------------------------------------------------------------------

\* A listing never offers more than the collection holds, for any number of items.
THEOREM NeverOversold == Spec => []ListedWithinOwned
<1>1. Init => ListedWithinOwned
  BY DEF Init, ListedWithinOwned, Listed, NoListing
<1>2. TypeOK /\ ListedWithinOwned /\ [Next]_tradingVars => ListedWithinOwned'
  <2> SUFFICES ASSUME TypeOK, ListedWithinOwned, [Next]_tradingVars
               PROVE  ListedWithinOwned'
    OBVIOUS
  <2> USE BoundsAssumption
      DEF TypeOK, ListedWithinOwned, Listed, Held, ItemRow, ListingRow, Quantity
  <2>1. ASSUME NEW i \in Items, NEW q \in Quantity, CreateItem(i, q) PROVE ListedWithinOwned'
    BY <2>1 DEF CreateItem
  <2>2. ASSUME NEW i \in Items, NEW q \in Quantity, UpdateItem(i, q) PROVE ListedWithinOwned'
    BY <2>2 DEF UpdateItem, Clamped
  <2>3. ASSUME NEW i \in Items, DeleteItem(i) PROVE ListedWithinOwned'
    BY <2>3 DEF DeleteItem, NoItem, NoListing
  <2>4. ASSUME NEW i \in Items, NEW q \in Quantity, CreateTrade(i, q) PROVE ListedWithinOwned'
    BY <2>4 DEF CreateTrade
  <2>5. ASSUME NEW i \in Items, NEW q \in Quantity, NEW s \in {"active", "removed"},
               UpdateTrade(i, q, s)
        PROVE  ListedWithinOwned'
    BY <2>5 DEF UpdateTrade
  <2>6. ASSUME NEW i \in Items, RemoveTrade(i) PROVE ListedWithinOwned'
    BY <2>6 DEF RemoveTrade
  <2>7. ASSUME NEW i \in Items, NEW s \in {"active", "removed"}, ModerateListing(i, s)
        PROVE  ListedWithinOwned'
    BY <2>7 DEF ModerateListing
  <2>8. ASSUME NEW r \in Reports, UpholdReport(r) PROVE ListedWithinOwned'
    BY <2>8 DEF UpholdReport, WithoutActive
  <2>9. ASSUME UNCHANGED <<item, listing>> PROVE ListedWithinOwned'
    BY <2>9
  <2>10. QED
    BY <2>1, <2>2, <2>3, <2>4, <2>5, <2>6, <2>7, <2>8, <2>9
       DEF Next, CollectionNext, ListingNext, ModerationNext, CreateReport, DismissReport,
           VoidStrike, SetTradingStatus, tradingVars
<1>3. QED
  BY <1>1, <1>2, TypeCorrect, PTL DEF Spec

-----------------------------------------------------------------------------

\* Whoever stands at the strike limit is suspended, for any limit.
THEOREM LimitAlwaysSuspends == Spec => []LimitSuspends
<1>1. Init => LimitSuspends
  BY BoundsAssumption DEF Init, LimitSuspends, FreshAccount
<1>2. TypeOK /\ LimitSuspends /\ [Next]_tradingVars => LimitSuspends'
  <2> SUFFICES ASSUME TypeOK, LimitSuspends, [Next]_tradingVars
               PROVE  LimitSuspends'
    OBVIOUS
  <2> USE BoundsAssumption, OwnerAssumption DEF TypeOK, LimitSuspends, AccountRow
  <2>1. ASSUME NEW r \in Reports, UpholdReport(r) PROVE LimitSuspends'
    BY <2>1 DEF UpholdReport, Struck
  <2>2. ASSUME NEW r \in Reports, VoidStrike(r) PROVE LimitSuspends'
    BY <2>2 DEF VoidStrike
  <2>3. ASSUME NEW m \in Members, NEW s \in {"active", "suspended"}, SetTradingStatus(m, s)
        PROVE  LimitSuspends'
    BY <2>3 DEF SetTradingStatus
  <2>4. ASSUME UNCHANGED account PROVE LimitSuspends'
    BY <2>4
  <2>5. QED
    BY <2>1, <2>2, <2>3, <2>4
       DEF Next, CollectionNext, ListingNext, ModerationNext, CreateItem, UpdateItem,
           DeleteItem, CreateTrade, UpdateTrade, RemoveTrade, ModerateListing,
           CreateReport, DismissReport, tradingVars
<1>3. QED
  BY <1>1, <1>2, TypeCorrect, PTL DEF Spec

-----------------------------------------------------------------------------

\* Nothing a suspended member owns is put back on offer, by the member or by a
\* moderator, until trading is restored.
THEOREM SuspensionHolds == Spec => SuspendedNeverRelists
<1> DEFINE Relists(i) ==
      /\ account[Owner[i]].status = "suspended"
      /\ account'[Owner[i]].status = "suspended"
      /\ listing'[i].status = "active"
      /\ listing[i].status # "active"
<1>1. ASSUME TypeOK, [Next]_tradingVars, NEW i \in Items PROVE ~Relists(i)
  <2> SUFFICES ASSUME Relists(i) PROVE FALSE
    OBVIOUS
  <2> USE <1>1 DEF TypeOK, ListingRow
  <2>1. ASSUME NEW j \in Items, NEW q \in Quantity, UpdateItem(j, q) PROVE FALSE
    BY <2>1 DEF UpdateItem, Clamped
  <2>2. ASSUME NEW j \in Items, DeleteItem(j) PROVE FALSE
    BY <2>2 DEF DeleteItem, NoListing
  <2>3. ASSUME NEW j \in Items, NEW q \in Quantity, CreateTrade(j, q) PROVE FALSE
    BY <2>3 DEF CreateTrade, MayTrade
  <2>4. ASSUME NEW j \in Items, NEW q \in Quantity, NEW s \in {"active", "removed"},
               UpdateTrade(j, q, s)
        PROVE  FALSE
    BY <2>4 DEF UpdateTrade, MayTrade
  <2>5. ASSUME NEW j \in Items, RemoveTrade(j) PROVE FALSE
    BY <2>5 DEF RemoveTrade
  <2>6. ASSUME NEW j \in Items, NEW s \in {"active", "removed"}, ModerateListing(j, s)
        PROVE  FALSE
    BY <2>6 DEF ModerateListing, MayTrade
  <2>7. ASSUME NEW r \in Reports, UpholdReport(r) PROVE FALSE
    BY <2>7 DEF UpholdReport, WithoutActive
  <2>8. ASSUME UNCHANGED listing PROVE FALSE
    BY <2>8
  <2>9. QED
    BY <2>1, <2>2, <2>3, <2>4, <2>5, <2>6, <2>7, <2>8
       DEF Next, CollectionNext, ListingNext, ModerationNext, CreateItem, CreateReport,
           DismissReport, VoidStrike, SetTradingStatus, tradingVars
<1>2. TypeOK /\ [Next]_tradingVars =>
        \A i \in Items :
          account[Owner[i]].status = "suspended" /\ account'[Owner[i]].status = "suspended" =>
            (listing'[i].status = "active" => listing[i].status = "active")
  BY <1>1
<1>3. QED
  BY <1>2, TypeCorrect, PTL DEF Spec, SuspendedNeverRelists

-----------------------------------------------------------------------------
(* The strike counter.  CounterBehindStrikes is not inductive by itself: a  *)
(* report that is still open must have no strike, or upholding it would     *)
(* count a strike twice.                                                    *)

StrikeIffUpheld == \A r \in Reports : strike[r] # "none" <=> report[r] = "upheld"

CounterInv == TypeOK /\ StrikeIffUpheld /\ CounterBehindStrikes

\* The strikes of a member can be counted.
LEMMA StrikeSetsFinite ==
  \A m : IsFiniteSet(StrikesOf(m)) /\ IsFiniteSet(UpheldOf(m))
<1>1. IsFiniteSet(Reports)
  BY FiniteAssumption, FS_Product DEF Reports
<1>2. QED
  BY <1>1, FS_Subset DEF StrikesOf, UpheldOf

\* Before any report, nobody has a strike.
LEMMA InitCounter == Init => CounterInv
<1> SUFFICES ASSUME Init PROVE CounterInv
  OBVIOUS
<1>1. \A m \in Members : StrikesOf(m) = {}
  BY DEF Init, StrikesOf
<1>2. CounterBehindStrikes
  BY <1>1, FS_EmptySet DEF Init, CounterBehindStrikes, FreshAccount
<1>3. QED
  BY <1>2, InitType DEF Init, CounterInv, StrikeIffUpheld

\* A step that leaves accounts and decided reports alone leaves the count alone.
LEMMA CounterUndisturbed ==
  ASSUME CounterInv, TypeOK', UNCHANGED <<account, strike>>,
         \A r \in Reports : report'[r] = "upheld" <=> report[r] = "upheld"
  PROVE  CounterInv'
<1>1. \A m \in Members : StrikesOf(m)' = StrikesOf(m) /\ UpheldOf(m)' = UpheldOf(m)
  BY DEF StrikesOf, UpheldOf
<1>2. CounterBehindStrikes'
  BY <1>1 DEF CounterInv, CounterBehindStrikes
<1>3. QED
  BY <1>2 DEF CounterInv, StrikeIffUpheld

\* Upholding a report adds one strike row and, below the limit, one to the counter.
LEMMA UpholdCounts ==
  ASSUME CounterInv, TypeOK', NEW r \in Reports, UpholdReport(r) PROVE CounterInv'
<1> DEFINE m == ReportedMember(r)
<1>1. m \in Members /\ r \notin StrikesOf(m) /\ r \notin UpheldOf(m)
  BY ReportedMemberIsMember DEF UpholdReport, CounterInv, StrikeIffUpheld, StrikesOf, UpheldOf
<1>2. StrikesOf(m)' = StrikesOf(m) \cup {r} /\ UpheldOf(m)' = UpheldOf(m) \cup {r}
  BY DEF UpholdReport, CounterInv, TypeOK, StrikesOf, UpheldOf, ReportedMember
<1>3. \A n \in Members \ {m} :
        /\ StrikesOf(n)' = StrikesOf(n)
        /\ UpheldOf(n)' = UpheldOf(n)
        /\ account'[n] = account[n]
  BY DEF UpholdReport, CounterInv, TypeOK, StrikesOf, UpheldOf, ReportedMember
<1>4. /\ Cardinality(StrikesOf(m)') = Cardinality(StrikesOf(m)) + 1
      /\ Cardinality(UpheldOf(m)') = Cardinality(UpheldOf(m)) + 1
  BY <1>1, <1>2, StrikeSetsFinite, FS_AddElement
<1>5. /\ Cardinality(StrikesOf(m)) \in Nat
      /\ Cardinality(UpheldOf(m)) \in Nat
      /\ Cardinality(StrikesOf(m)) <= Cardinality(UpheldOf(m))
  <2>1. StrikesOf(m) \subseteq UpheldOf(m)
    BY DEF CounterInv, StrikeIffUpheld, StrikesOf, UpheldOf
  <2>2. QED
    BY <2>1, StrikeSetsFinite, FS_Subset, FS_CardinalityType
<1>6. account[m].strikes \in 0 .. StrikeLimit
  BY <1>1 DEF CounterInv, TypeOK, AccountRow
<1>7. account'[m].strikes =
        IF account[m].strikes < StrikeLimit THEN account[m].strikes + 1 ELSE StrikeLimit
  BY <1>1 DEF UpholdReport, Struck, CounterInv, TypeOK
<1>8. CounterBehindStrikes'
  <2> SUFFICES ASSUME NEW n \in Members
               PROVE  /\ account'[n].strikes <= Cardinality(StrikesOf(n)')
                      /\ Cardinality(UpheldOf(n)') <= StrikeLimit =>
                           account'[n].strikes = Cardinality(StrikesOf(n)')
    BY DEF CounterBehindStrikes
  <2>1. CASE n = m
    BY <1>1, <1>4, <1>5, <1>6, <1>7, <2>1, BoundsAssumption DEF CounterInv, CounterBehindStrikes
  <2>2. CASE n # m
    BY <1>3, <2>2 DEF CounterInv, CounterBehindStrikes
  <2>3. QED
    BY <2>1, <2>2
<1>9. StrikeIffUpheld'
  BY DEF UpholdReport, CounterInv, StrikeIffUpheld, TypeOK
<1>10. QED
  BY <1>8, <1>9 DEF CounterInv

\* Voiding a strike takes one row away and one off the counter.
LEMMA VoidCounts ==
  ASSUME CounterInv, TypeOK', NEW r \in Reports, VoidStrike(r) PROVE CounterInv'
<1> DEFINE m == ReportedMember(r)
<1>1. m \in Members /\ r \in StrikesOf(m)
  BY ReportedMemberIsMember DEF VoidStrike, StrikesOf
<1>2. StrikesOf(m)' = StrikesOf(m) \ {r}
  BY DEF VoidStrike, CounterInv, TypeOK, StrikesOf, ReportedMember
<1>3. /\ \A n \in Members : UpheldOf(n)' = UpheldOf(n)
      /\ \A n \in Members \ {m} : StrikesOf(n)' = StrikesOf(n) /\ account'[n] = account[n]
  BY DEF VoidStrike, CounterInv, TypeOK, StrikesOf, UpheldOf, ReportedMember
<1>4. /\ Cardinality(StrikesOf(m)') = Cardinality(StrikesOf(m)) - 1
      /\ Cardinality(StrikesOf(m)) \in Nat
      /\ Cardinality(StrikesOf(m)') \in Nat
  BY <1>1, <1>2, StrikeSetsFinite, FS_RemoveElement, FS_CardinalityType
<1>5. account[m].strikes \in 0 .. StrikeLimit
  BY <1>1 DEF CounterInv, TypeOK, AccountRow
<1>6. account'[m].strikes = IF account[m].strikes > 0 THEN account[m].strikes - 1 ELSE 0
  BY <1>1 DEF VoidStrike, CounterInv, TypeOK
<1>7. CounterBehindStrikes'
  <2> SUFFICES ASSUME NEW n \in Members
               PROVE  /\ account'[n].strikes <= Cardinality(StrikesOf(n)')
                      /\ Cardinality(UpheldOf(n)') <= StrikeLimit =>
                           account'[n].strikes = Cardinality(StrikesOf(n)')
    BY DEF CounterBehindStrikes
  <2>1. CASE n = m
    BY <1>1, <1>3, <1>4, <1>5, <1>6, <2>1, BoundsAssumption DEF CounterInv, CounterBehindStrikes
  <2>2. CASE n # m
    BY <1>3, <2>2 DEF CounterInv, CounterBehindStrikes
  <2>3. QED
    BY <2>1, <2>2
<1>8. StrikeIffUpheld'
  BY DEF VoidStrike, CounterInv, StrikeIffUpheld, TypeOK
<1>9. QED
  BY <1>7, <1>8 DEF CounterInv

\* The cached number of strikes is exact until it is capped and never too high.
THEOREM CounterNeverAhead == Spec => []CounterBehindStrikes
<1>1. CounterInv /\ [Next]_tradingVars => CounterInv'
  <2> SUFFICES ASSUME CounterInv, [Next]_tradingVars PROVE CounterInv'
    OBVIOUS
  <2>1. TypeOK'
    BY NextType DEF CounterInv
  <2>2. ASSUME NEW r \in Reports, UpholdReport(r) PROVE CounterInv'
    BY <2>1, <2>2, UpholdCounts
  <2>3. ASSUME NEW r \in Reports, VoidStrike(r) PROVE CounterInv'
    BY <2>1, <2>3, VoidCounts
  <2>4. ASSUME NEW r \in Reports, CreateReport(r) \/ DismissReport(r) PROVE CounterInv'
    BY <2>1, <2>4, CounterUndisturbed DEF CreateReport, DismissReport, CounterInv, TypeOK
  <2>5. ASSUME NEW m \in Members, NEW s \in {"active", "suspended"}, SetTradingStatus(m, s)
        PROVE  CounterInv'
    <3>1. \A n \in Members : /\ account'[n].strikes = account[n].strikes
                            /\ StrikesOf(n)' = StrikesOf(n)
                            /\ UpheldOf(n)' = UpheldOf(n)
      BY <2>5 DEF SetTradingStatus, CounterInv, TypeOK, AccountRow, StrikesOf, UpheldOf
    <3>2. CounterBehindStrikes'
      BY <3>1 DEF CounterInv, CounterBehindStrikes
    <3>3. QED
      BY <2>1, <2>5, <3>2 DEF SetTradingStatus, CounterInv, StrikeIffUpheld
  <2>6. ASSUME UNCHANGED <<account, report, strike>> PROVE CounterInv'
    BY <2>1, <2>6, CounterUndisturbed
  <2>7. QED
    BY <2>2, <2>3, <2>4, <2>5, <2>6
       DEF Next, CollectionNext, ListingNext, ModerationNext, CreateItem, UpdateItem,
           DeleteItem, CreateTrade, UpdateTrade, RemoveTrade, ModerateListing, tradingVars
<1>2. CounterInv => CounterBehindStrikes
  BY DEF CounterInv
<1>3. QED
  BY <1>1, <1>2, InitCounter, PTL DEF Spec

=============================================================================
