-------------------------- MODULE CollectionProofs --------------------------
(***************************************************************************)
(* Proofs about a collection and its imports, for every set of printings,  *)
(* variants, documents and ids and every limit.                            *)
(***************************************************************************)
EXTENDS Collection, TLAPS

-----------------------------------------------------------------------------
(* Lemmas about collections, whether the present one or a snapshot.        *)

Unique(rows) == \A i, j \in DOMAIN rows : rows[i].tuple = rows[j].tuple => i = j

\* The copies of a card are counted in 0 .. MaxQuantity.
LEMMA OwnedType ==
  ASSUME NEW S, NEW rows \in [S -> Row], NEW t
  PROVE  Owned(rows, t) \in 0 .. MaxQuantity
<1>1. CASE Having(rows, t) = {}
  BY <1>1, BoundsAssumption DEF Owned
<1>2. CASE Having(rows, t) # {}
  <2>1. PICK i \in S : i = CHOOSE j \in Having(rows, t) : TRUE
    BY <1>2 DEF Having
  <2>2. rows[i].qty \in 1 .. MaxQuantity
    BY DEF Row, Quantity
  <2>3. QED
    BY <1>2, <2>1, <2>2, BoundsAssumption DEF Owned
<1>3. QED
  BY <1>1, <1>2

\* A revised row is a row, unless its revision is at the bound.
LEMMA RevisedType ==
  ASSUME NEW r \in Row, NEW n \in Quantity, r.rev < MaxRevision
  PROVE  Revised(r, n) \in Row
<1>1. r.rev + 1 \in 1 .. MaxRevision
  BY BoundsAssumption DEF Row
<1>2. QED
  BY <1>1 DEF Revised, Row

\* What is owned of a card is what its one row says.
LEMMA OwnedOfRow ==
  ASSUME NEW rows, Unique(rows), NEW i \in DOMAIN rows
  PROVE  Owned(rows, rows[i].tuple) = rows[i].qty
<1>1. Having(rows, rows[i].tuple) = {i}
  BY DEF Having, Unique
<1>2. QED
  BY <1>1 DEF Owned

\* A card without a row is not owned.
LEMMA OwnedNone ==
  ASSUME NEW rows, NEW t, Having(rows, t) = {}
  PROVE  Owned(rows, t) = 0
BY DEF Owned

\* The preview's classification is an entry of the table, and an entry without an
\* error shows the sum of what is owned and what is imported, within the limit.
LEMMA EntryExact ==
  ASSUME NEW S, NEW rows \in [S -> Row], NEW t, NEW n \in Quantity, NEW unavailable
  PROVE  LET e == Entry1(rows, t, n, unavailable) IN
         /\ e \in Entry
         /\ e.kind # "error" => e.resulting = Owned(rows, t) + n /\ e.resulting <= MaxQuantity
<1> DEFINE owned == Owned(rows, t)
<1> HIDE DEF owned
<1>1. owned \in 0 .. MaxQuantity
  BY OwnedType DEF owned
<1>2. Entry1(rows, t, n, unavailable) =
        CASE owned = 0 /\ t \in unavailable -> [kind |-> "error", resulting |-> 0]
          [] owned = 0 /\ t \notin unavailable -> [kind |-> "addition", resulting |-> n]
          [] owned > 0 /\ owned + n > MaxQuantity -> [kind |-> "error", resulting |-> 0]
          [] OTHER -> [kind |-> "increment", resulting |-> owned + n]
  BY DEF Entry1, owned
<1>3. CASE owned = 0
  BY <1>1, <1>2, <1>3, BoundsAssumption DEF Entry, Quantity, owned
<1>4. CASE owned > 0 /\ owned + n > MaxQuantity
  BY <1>1, <1>2, <1>4, BoundsAssumption DEF Entry, Quantity, owned
<1>5. CASE owned > 0 /\ ~(owned + n > MaxQuantity)
  BY <1>1, <1>2, <1>5, BoundsAssumption DEF Entry, Quantity, owned
<1>6. QED
  BY <1>1, <1>3, <1>4, <1>5

\* The rows of a document are quantities of tuples.
LEMMA CsvRows ==
  ASSUME NEW s \in Sources
  PROVE  /\ DOMAIN Csv[s] \subseteq Tuples
         /\ \A t \in DOMAIN Csv[s] : Csv[s][t] \in Quantity
BY CsvAssumption

-----------------------------------------------------------------------------
(* Lemmas about applying a document to a collection.                       *)

\* Importing(S, rows, csv, F, new): a document, a collection and the new ids that
\* its additions get.
Importing(S, rows, csv, F, new) ==
  /\ rows \in [S -> Row]
  /\ DOMAIN csv \subseteq Tuples
  /\ \A t \in DOMAIN csv : csv[t] \in Quantity
  /\ new \in Injection(Additions(rows, csv), F)
  /\ F \cap S = {}

\* What an import makes of a collection: every row is as it was, incremented, or new.
Imported(S, rows, csv, new, after) ==
  /\ after = [i \in DOMAIN after |-> after[i]]
  /\ DOMAIN after = S \cup Range(new)
  /\ DOMAIN new = Additions(rows, csv)
  /\ \A i \in S : after[i] = IF rows[i].tuple \in DOMAIN csv
                             THEN Revised(rows[i], rows[i].qty + csv[rows[i].tuple])
                             ELSE rows[i]
  /\ \A t \in DOMAIN new : new[t] \notin S /\ after[new[t]] = NewRow(t, csv[t])

\* Applying a document does just that.
LEMMA AppliedImported ==
  ASSUME NEW S, NEW rows, NEW csv, NEW F, NEW new, Importing(S, rows, csv, F, new)
  PROVE  Imported(S, rows, csv, new, Applied(rows, csv, new))
<1> DEFINE after == Applied(rows, csv, new)
<1>1. DOMAIN rows = S /\ DOMAIN new = Additions(rows, csv) /\ Range(new) \subseteq F
  BY DEF Importing, Injection, Range
<1>2. DOMAIN after = S \cup Range(new) /\ after = [i \in DOMAIN after |-> after[i]]
  BY <1>1 DEF Applied
<1>3. ASSUME NEW i \in S
      PROVE  after[i] = IF rows[i].tuple \in DOMAIN csv
                        THEN Revised(rows[i], rows[i].qty + csv[rows[i].tuple])
                        ELSE rows[i]
  BY <1>1 DEF Applied
<1>4. ASSUME NEW t \in DOMAIN new
      PROVE  new[t] \notin S /\ after[new[t]] = NewRow(t, csv[t])
  <2>1. new[t] \in Range(new) /\ new[t] \notin S
    BY <1>1 DEF Range, Importing
  <2>2. t = CHOOSE u \in DOMAIN new : new[u] = new[t]
    BY DEF Importing, Injection, IsInjective
  <2>3. QED
    BY <1>1, <2>1, <2>2 DEF Applied
<1>5. QED
  BY <1>1, <1>2, <1>3, <1>4 DEF Imported

\* The collection after an import that passed its checks is well typed.
LEMMA AppliedType ==
  ASSUME NEW S, NEW rows, NEW csv, NEW F, NEW new, NEW after, Importing(S, rows, csv, F, new),
         Imported(S, rows, csv, new, after), CanApply(rows, csv)
  PROVE  after \in [S \cup Range(new) -> Row]
<1>1. ASSUME NEW i \in S PROVE after[i] \in Row
  <2>1. rows[i] \in Row /\ DOMAIN rows = S
    BY DEF Importing
  <2>2. CASE rows[i].tuple \in DOMAIN csv
    <3>1. csv[rows[i].tuple] \in Quantity
      BY <2>2 DEF Importing
    <3>2. rows[i].qty + csv[rows[i].tuple] \in Quantity /\ rows[i].rev + 1 \in 1 .. MaxRevision
      BY <2>1, <2>2, <3>1, BoundsAssumption DEF CanApply, Row, Quantity
    <3>3. after[i] = Revised(rows[i], rows[i].qty + csv[rows[i].tuple])
      BY <2>2 DEF Imported
    <3>4. QED
      BY <2>1, <3>2, <3>3 DEF Revised, Row
  <2>3. CASE rows[i].tuple \notin DOMAIN csv
    BY <2>1, <2>3 DEF Imported
  <2>4. QED
    BY <2>2, <2>3
<1>2. ASSUME NEW i \in Range(new) PROVE after[i] \in Row
  <2>1. PICK t \in DOMAIN new : i = new[t]
    BY DEF Range
  <2>2. t \in Tuples /\ csv[t] \in Quantity
    BY DEF Imported, Importing, Additions
  <2>3. after[i] = NewRow(t, csv[t])
    BY <2>1 DEF Imported
  <2>4. QED
    BY <2>2, <2>3, BoundsAssumption DEF NewRow, Row
<1>3. QED
  BY <1>1, <1>2 DEF Imported

\* An import gives no card a second row.
LEMMA AppliedUnique ==
  ASSUME NEW S, NEW rows, NEW csv, NEW F, NEW new, NEW after, Importing(S, rows, csv, F, new),
         Imported(S, rows, csv, new, after), Unique(rows)
  PROVE  Unique(after)
<1>1. DOMAIN rows = S
  BY DEF Importing
<1>2. ASSUME NEW i \in S PROVE after[i].tuple = rows[i].tuple
  <2>1. rows[i] \in Row
    BY DEF Importing
  <2>2. QED
    BY <2>1 DEF Imported, Revised, Row
<1>3. ASSUME NEW t \in DOMAIN new PROVE after[new[t]].tuple = t
  <2>1. after[new[t]] = NewRow(t, csv[t])
    BY DEF Imported
  <2>2. QED
    BY <2>1 DEF NewRow
<1>4. ASSUME NEW t \in DOMAIN new, NEW i \in S PROVE rows[i].tuple # t
  BY <1>1 DEF Imported, Additions, Having
<1>5. ASSUME NEW i \in DOMAIN after, NEW j \in DOMAIN after, after[i].tuple = after[j].tuple
      PROVE  i = j
  <2>1. \A k \in DOMAIN after : k \in S \/ \E t \in DOMAIN new : k = new[t]
    BY DEF Imported, Range
  <2>2. CASE i \in S /\ j \in S
    BY <1>1, <1>2, <1>5, <2>2 DEF Unique
  <2>3. CASE i \in S /\ j \notin S
    BY <1>2, <1>3, <1>4, <1>5, <2>1, <2>3
  <2>4. CASE i \notin S /\ j \in S
    BY <1>2, <1>3, <1>4, <1>5, <2>1, <2>4
  <2>5. CASE i \notin S /\ j \notin S
    BY <1>3, <1>5, <2>1, <2>5
  <2>6. QED
    BY <2>2, <2>3, <2>4, <2>5
<1>6. QED
  BY <1>5 DEF Unique

\* An import adds the copies of the document to what is owned, and no others.
LEMMA AppliedOwned ==
  ASSUME NEW S, NEW rows, NEW csv, NEW F, NEW new, NEW after, Importing(S, rows, csv, F, new),
         Imported(S, rows, csv, new, after), Unique(rows),
         NEW t
  PROVE  Owned(after, t) =
           IF t \in DOMAIN csv THEN Owned(rows, t) + csv[t] ELSE Owned(rows, t)
<1>1. DOMAIN rows = S /\ Unique(after)
  BY AppliedUnique DEF Importing
<1>2. CASE \E i \in S : rows[i].tuple = t
  <2>1. PICK i \in S : rows[i].tuple = t
    BY <1>2
  <2>2. rows[i] \in Row
    BY DEF Importing
  <2>3. Owned(rows, t) = rows[i].qty
    BY <1>1, <2>1, OwnedOfRow
  <2>4. after[i].tuple = t /\ i \in DOMAIN after
    BY <2>1, <2>2 DEF Imported, Revised, Row
  <2>5. Owned(after, t) = after[i].qty
    BY <1>1, <2>4, OwnedOfRow
  <2>6. after[i].qty = IF t \in DOMAIN csv THEN rows[i].qty + csv[t] ELSE rows[i].qty
    BY <2>1, <2>2 DEF Imported, Revised, Row
  <2>7. QED
    BY <2>3, <2>5, <2>6
<1>3. CASE \A i \in S : rows[i].tuple # t
  <2>1. Having(rows, t) = {}
    BY <1>1, <1>3 DEF Having
  <2>2. Owned(rows, t) = 0
    BY <2>1, OwnedNone
  <2>3. CASE t \in DOMAIN csv
    <3>1. t \in DOMAIN new
      BY <2>1, <2>3 DEF Imported, Additions
    <3>2. new[t] \in DOMAIN after /\ after[new[t]] = NewRow(t, csv[t])
      BY <3>1 DEF Imported, Range
    <3>3. Owned(after, t) = csv[t]
      BY <1>1, <3>2, OwnedOfRow DEF NewRow
    <3>4. csv[t] \in Nat
      BY <2>3, BoundsAssumption DEF Importing, Quantity
    <3>5. QED
      BY <2>2, <2>3, <3>3, <3>4
  <2>4. CASE t \notin DOMAIN csv
    <3>1. ASSUME NEW i \in DOMAIN after PROVE after[i].tuple # t
      <4>1. CASE i \in S
        <5>1. rows[i] \in Row
          BY <4>1 DEF Importing
        <5>2. QED
          BY <1>3, <4>1, <5>1 DEF Imported, Revised, Row
      <4>2. CASE i \notin S
        <5>1. PICK u \in DOMAIN new : i = new[u]
          BY <4>2 DEF Imported, Range
        <5>2. after[i] = NewRow(u, csv[u]) /\ u \in DOMAIN csv
          BY <5>1 DEF Imported, Additions
        <5>3. QED
          BY <2>4, <5>2 DEF NewRow
      <4>3. QED
        BY <4>1, <4>2
    <3>2. Having(after, t) = {}
      BY <3>1 DEF Having
    <3>3. QED
      BY <2>2, <2>4, <3>2, OwnedNone
  <2>5. QED
    BY <2>3, <2>4
<1>4. QED
  BY <1>2, <1>3

-----------------------------------------------------------------------------
(* Type correctness.                                                       *)

\* A confirmation is an import into the rows of this moment.
LEMMA ConfirmImports ==
  ASSUME TypeOK, NEW p \in PreviewIds, NEW new, ConfirmPreview(p, new)
  PROVE  LET csv == Csv[preview[p].source] IN
         /\ Importing(Live, row, csv, Ids \ used, new)
         /\ Imported(Live, row, csv, new, row')
         /\ CanApply(row, csv)
<1> DEFINE csv == Csv[preview[p].source]
<1>1. preview[p].source \in Sources
  BY DEF TypeOK, ConfirmPreview, OpenPreviews, PreviewRow
<1>2. DOMAIN csv \subseteq Tuples /\ \A t \in DOMAIN csv : csv[t] \in Quantity
  BY <1>1, CsvRows
<1>3. row' = Applied(row, csv, new) /\ new \in Injection(Additions(row, csv), Ids \ used)
      /\ CanApply(row, csv)
  BY DEF ConfirmPreview
<1>4. Importing(Live, row, csv, Ids \ used, new)
  BY <1>2, <1>3 DEF Importing, TypeOK, Live
<1>5. QED
  BY <1>3, <1>4, AppliedImported

\* The tables start out empty.
LEMMA InitType == Init => TypeOK
BY DEF Init, TypeOK, NoneOf, Live

\* Handlers of items keep the type invariant.
LEMMA ItemType == TypeOK /\ ItemNext => TypeOK'
<1> SUFFICES ASSUME TypeOK, ItemNext PROVE TypeOK'
  OBVIOUS
<1> USE BoundsAssumption, RequestAssumption DEF TypeOK, Live
<1>1. ASSUME NEW i \in Ids, NEW t \in Tuples, NEW n \in Amounts, AddToRow(i, t, n) PROVE TypeOK'
  <2>1. i \in Live /\ row[i] \in Row
    BY <1>1 DEF AddToRow, Having
  <2>2. row[i].qty + n \in Quantity
    BY <1>1, <2>1 DEF AddToRow, Row, Quantity
  <2>3. Revised(row[i], row[i].qty + n) \in Row
    BY <1>1, <2>1, <2>2, RevisedType DEF AddToRow
  <2>4. QED
    BY <1>1, <2>1, <2>3 DEF AddToRow
<1>2. ASSUME NEW i \in Ids, NEW t \in Tuples, NEW n \in Amounts, AddRow(i, t, n) PROVE TypeOK'
  <2>1. NewRow(t, n) \in Row
    BY DEF NewRow, Row
  <2>2. QED
    BY <1>2, <2>1 DEF AddRow
<1>3. ASSUME NEW i \in Live, NEW v \in Variants, NEW n \in Amounts \cup {row[i].qty},
             UpdateItem(i, v, n)
      PROVE  TypeOK'
  <2>1. row[i] \in Row /\ n \in Quantity
    BY DEF Row
  <2>2. <<row[i].tuple[1], v>> \in Tuples
    BY <2>1 DEF Row, Tuples
  <2>3. Revised(row[i], n) \in Row
    BY <1>3, <2>1, RevisedType DEF UpdateItem
  <2>4. [Revised(row[i], n) EXCEPT !.tuple = <<row[i].tuple[1], v>>] \in Row
    BY <2>2, <2>3 DEF Row
  <2>5. QED
    BY <1>3, <2>4 DEF UpdateItem
<1>4. ASSUME NEW i \in Live, SetPrice(i) PROVE TypeOK'
  <2>1. Revised(row[i], row[i].qty) \in Row
    <3>1. row[i] \in Row /\ row[i].qty \in Quantity
      BY DEF Row
    <3>2. QED
      BY <1>4, <3>1, RevisedType DEF SetPrice
  <2>2. QED
    BY <1>4, <2>1 DEF SetPrice
<1>5. ASSUME NEW i \in Live, DeleteItem(i) PROVE TypeOK'
  BY <1>5 DEF DeleteItem
<1>6. QED
  BY <1>1, <1>2, <1>3, <1>4, <1>5 DEF ItemNext

\* Handlers of imports keep the type invariant.
LEMMA ImportType == TypeOK /\ ImportNext => TypeOK'
<1> SUFFICES ASSUME TypeOK, ImportNext PROVE TypeOK'
  OBVIOUS
<1> USE DEF TypeOK, Live
<1>1. ASSUME NEW p \in PreviewIds, NEW s \in Sources, NEW unavailable, NEW expired,
             CreatePreview(p, s, unavailable, expired)
      PROVE  TypeOK'
  <2> DEFINE fresh == [status |-> "open", source |-> s, digest |-> Digest(row),
                       entries |-> Classified(row, s, unavailable)]
  <2>1. Classified(row, s, unavailable) \in [DOMAIN Csv[s] -> Entry]
    <3>1. \A t \in DOMAIN Csv[s] : Entry1(row, t, Csv[s][t], unavailable) \in Entry
      BY CsvRows, EntryExact
    <3>2. QED
      BY <3>1 DEF Classified
  <2>2. fresh \in PreviewRow
    BY <2>1, CsvRows DEF PreviewRow, Digest
  <2>3. preview' \in [DOMAIN preview' -> PreviewRow]
    BY <1>1, <2>2 DEF CreatePreview
  <2>4. QED
    BY <1>1, <2>3 DEF CreatePreview
<1>2. ASSUME NEW p \in PreviewIds, Expire(p) PROVE TypeOK'
  BY <1>2 DEF Expire, PreviewRow
<1>3. ASSUME NEW p \in PreviewIds, NEW new, ConfirmPreview(p, new) PROVE TypeOK'
  <2>1. row' \in [Live \cup Range(new) -> Row]
    BY <1>3, ConfirmImports, AppliedType
  <2>2. Range(new) \subseteq Ids \ used
    BY <1>3, ConfirmImports DEF Importing, Injection, Range
  <2>3. Settled(preview[p]) \in PreviewRow
    <3>1. preview[p] \in PreviewRow
      BY <1>3 DEF ConfirmPreview, OpenPreviews
    <3>2. NoneOf \in [{} -> Row] /\ NoneOf \in [{} -> Entry]
      BY DEF NoneOf
    <3>3. /\ NoneOf \in UNION {[S -> Row] : S \in SUBSET Ids}
          /\ NoneOf \in UNION {[S -> Entry] : S \in SUBSET Tuples}
      BY <3>2, Zenon
    <3>4. QED
      BY <3>1, <3>3 DEF Settled, PreviewRow
  <2>4. preview' \in [DOMAIN preview -> PreviewRow]
    BY <1>3, <2>3 DEF ConfirmPreview
  <2>5. QED
    BY <1>3, <2>1, <2>2, <2>4 DEF ConfirmPreview
<1>4. ASSUME NEW p \in PreviewIds, CancelPreview(p) PROVE TypeOK'
  BY <1>4 DEF CancelPreview
<1>5. QED
  BY <1>1, <1>2, <1>3, <1>4 DEF ImportNext

\* The tables keep their types, and with them the CHECK constraints on quantities.
THEOREM TypeCorrect == Spec => []TypeOK
<1>1. TypeOK /\ UNCHANGED collectionVars => TypeOK'
  BY DEF TypeOK, Live, collectionVars
<1>2. TypeOK /\ [Next]_collectionVars => TypeOK'
  BY <1>1, ItemType, ImportType DEF Next
<1>3. QED
  BY <1>2, InitType, PTL DEF Spec

-----------------------------------------------------------------------------
(* One row per card, one open preview per document.                        *)

\* A handler that leaves the rows alone leaves them unique.
LEMMA UniqueUnchanged == UniqueTuples /\ UNCHANGED row => UniqueTuples'
BY DEF UniqueTuples, Live

\* Every handler keeps the rows unique.
LEMMA NextUnique == TypeOK /\ UniqueTuples /\ [Next]_collectionVars => UniqueTuples'
<1> SUFFICES ASSUME TypeOK, UniqueTuples, [Next]_collectionVars PROVE UniqueTuples'
  OBVIOUS
<1> USE DEF UniqueTuples, Live
<1>1. \A i \in Live : row[i] \in Row
  BY DEF TypeOK
<1>2. ASSUME NEW i \in Ids, NEW t \in Tuples, NEW n \in Amounts, AddToRow(i, t, n)
      PROVE  UniqueTuples'
  <2>1. \A j \in Live : row'[j].tuple = row[j].tuple
    BY <1>1, <1>2 DEF AddToRow, Having, Revised, Row
  <2>2. QED
    BY <1>2, <2>1 DEF AddToRow
<1>3. ASSUME NEW i \in Ids, NEW t \in Tuples, NEW n \in Amounts, AddRow(i, t, n)
      PROVE  UniqueTuples'
  BY <1>3 DEF AddRow, Having, NewRow, TypeOK
<1>4. ASSUME NEW i \in Live, NEW v \in Variants, NEW n \in Amounts \cup {row[i].qty},
             UpdateItem(i, v, n)
      PROVE  UniqueTuples'
  <2> DEFINE t == <<row[i].tuple[1], v>>
  <2>1. row'[i].tuple = t /\ \A j \in Live \ {i} : row'[j] = row[j]
    BY <1>1, <1>4 DEF UpdateItem, Revised, Row
  <2>2. \A j \in Live \ {i} : row[j].tuple # t
    BY <1>4 DEF UpdateItem, Having
  <2>3. DOMAIN row' = Live
    BY <1>4 DEF UpdateItem
  <2>4. QED
    BY <2>1, <2>2, <2>3
<1>5. ASSUME NEW i \in Live, SetPrice(i) PROVE UniqueTuples'
  <2>1. \A j \in Live : row'[j].tuple = row[j].tuple
    BY <1>1, <1>5 DEF SetPrice, Revised, Row
  <2>2. QED
    BY <1>5, <2>1 DEF SetPrice
<1>6. ASSUME NEW i \in Live, DeleteItem(i) PROVE UniqueTuples'
  BY <1>6 DEF DeleteItem
<1>7. ASSUME NEW p \in PreviewIds, NEW new, ConfirmPreview(p, new) PROVE UniqueTuples'
  <2>1. Unique(row)
    BY DEF Unique
  <2>2. Unique(row')
    BY <1>7, <2>1, ConfirmImports, AppliedUnique
  <2>3. QED
    BY <2>2 DEF Unique
<1>8. CASE UNCHANGED row
  BY <1>8, UniqueUnchanged
<1>9. QED
  BY <1>2, <1>3, <1>4, <1>5, <1>6, <1>7, <1>8
     DEF Next, ItemNext, ImportNext, CreatePreview, Expire, CancelPreview, collectionVars

\* The copies of a card are never split over two rows, whatever is added, edited or
\* imported.
THEOREM RowsStayUnique == Spec => []UniqueTuples
<1>1. Init => UniqueTuples
  BY DEF Init, NoneOf, UniqueTuples, Live
<1>2. QED
  BY <1>1, NextUnique, TypeCorrect, PTL DEF Spec

\* However often a document is uploaded, one preview of it is open.
THEOREM OnePreviewStaysOpen == Spec => []OneOpenPreview
<1>1. Init => OneOpenPreview
  BY DEF Init, NoneOf, OneOpenPreview, OpenPreviews
<1>2. ASSUME OneOpenPreview, [Next]_collectionVars PROVE OneOpenPreview'
  <2> USE <1>2 DEF OneOpenPreview, OpenPreviews
  <2>1. ASSUME NEW p \in PreviewIds, NEW s \in Sources, NEW unavailable, NEW expired,
               CreatePreview(p, s, unavailable, expired)
        PROVE  OneOpenPreview'
    BY <2>1 DEF CreatePreview, Superseded
  <2>2. ASSUME NEW p \in PreviewIds, Expire(p) PROVE OneOpenPreview'
    BY <2>2 DEF Expire
  <2>3. ASSUME NEW p \in PreviewIds, NEW new, ConfirmPreview(p, new) PROVE OneOpenPreview'
    BY <2>3 DEF ConfirmPreview, Settled
  <2>4. ASSUME NEW p \in PreviewIds, CancelPreview(p) PROVE OneOpenPreview'
    BY <2>4 DEF CancelPreview
  <2>5. CASE UNCHANGED preview
    BY <2>5
  <2>6. QED
    BY <2>1, <2>2, <2>3, <2>4, <2>5
       DEF Next, ItemNext, ImportNext, AddToRow, AddRow, UpdateItem, SetPrice, DeleteItem,
           collectionVars
<1>3. QED
  BY <1>1, <1>2, PTL DEF Spec

-----------------------------------------------------------------------------
(* What was reviewed is what is applied.  PreviewExact speaks of the rows   *)
(* of now, which change under a preview; what stays true of a preview is    *)
(* that it is exact for the collection of its own digest.                   *)

ExactFor(r) ==
  r.status # "confirmed" /\ ~HasErrors(r.entries) =>
    /\ DOMAIN r.entries = DOMAIN Csv[r.source]
    /\ \A t \in DOMAIN r.entries :
         /\ r.entries[t].resulting = Owned(r.digest, t) + Csv[r.source][t]
         /\ r.entries[t].resulting <= MaxQuantity

PreviewsExact == \A p \in DOMAIN preview : ExactFor(preview[p])

\* Every handler keeps the previews exact for their digests.
LEMMA NextExact == TypeOK /\ PreviewsExact /\ [Next]_collectionVars => PreviewsExact'
<1> SUFFICES ASSUME TypeOK, PreviewsExact, [Next]_collectionVars PROVE PreviewsExact'
  OBVIOUS
<1>1. ASSUME NEW p \in PreviewIds, NEW s \in Sources, NEW unavailable, NEW expired,
             CreatePreview(p, s, unavailable, expired)
      PROVE  PreviewsExact'
  <2> DEFINE entries == Classified(row, s, unavailable)
             fresh == [status |-> "open", source |-> s, digest |-> Digest(row), entries |-> entries]
  <2>1. ASSUME NEW t \in DOMAIN entries, ~HasErrors(entries)
        PROVE  /\ entries[t].resulting = Owned(row, t) + Csv[s][t]
               /\ entries[t].resulting <= MaxQuantity
    <3>1. t \in DOMAIN Csv[s] /\ Csv[s][t] \in Quantity
          /\ entries[t] = Entry1(row, t, Csv[s][t], unavailable)
      BY CsvRows DEF Classified
    <3>2. entries[t].kind # "error"
      BY <2>1 DEF HasErrors
    <3>3. row \in [Live -> Row]
      BY DEF TypeOK
    <3> DEFINE e == Entry1(row, t, Csv[s][t], unavailable)
    <3>4. e.kind # "error" => e.resulting = Owned(row, t) + Csv[s][t] /\ e.resulting <= MaxQuantity
      BY <3>1, <3>3, EntryExact
    <3> HIDE DEF e
    <3>5. QED
      BY <3>1, <3>2, <3>4 DEF e
  <2>2. DOMAIN entries = DOMAIN Csv[s]
    BY DEF Classified
  <2>3. ExactFor(fresh)
    <3>1. fresh.entries = entries /\ fresh.source = s /\ fresh.digest = row
      BY DEF Digest
    <3> HIDE DEF entries, fresh
    <3>2. QED
      BY <2>1, <2>2, <3>1 DEF ExactFor
  <2>4. \A q \in DOMAIN preview' :
          \/ preview'[q] = fresh
          \/ q \in DOMAIN preview /\ preview'[q] = preview[q]
    BY <1>1 DEF CreatePreview, entries
  <2> HIDE DEF fresh
  <2>5. QED
    BY <2>3, <2>4 DEF PreviewsExact
<1>2. ASSUME NEW p \in PreviewIds, Expire(p) PROVE PreviewsExact'
  <2>1. preview[p] \in PreviewRow /\ preview[p].status # "confirmed" /\ ExactFor(preview[p])
    BY <1>2 DEF Expire, TypeOK, PreviewsExact
  <2>2. ExactFor([preview[p] EXCEPT !.status = "expired"])
    BY <2>1 DEF ExactFor, PreviewRow
  <2>3. QED
    BY <1>2, <2>2 DEF Expire, PreviewsExact
<1>3. ASSUME NEW p \in PreviewIds, NEW new, ConfirmPreview(p, new) PROVE PreviewsExact'
  <2>1. preview[p] \in PreviewRow
    BY <1>3 DEF ConfirmPreview, OpenPreviews, TypeOK
  <2>2. ExactFor(Settled(preview[p]))
    BY <2>1 DEF ExactFor, Settled, PreviewRow
  <2>3. QED
    BY <1>3, <2>2 DEF ConfirmPreview, PreviewsExact
<1>4. ASSUME NEW p \in PreviewIds, CancelPreview(p) PROVE PreviewsExact'
  BY <1>4 DEF CancelPreview, PreviewsExact
<1>5. CASE UNCHANGED preview
  BY <1>5 DEF PreviewsExact
<1>6. QED
  BY <1>1, <1>2, <1>3, <1>4, <1>5
     DEF Next, ItemNext, ImportNext, AddToRow, AddRow, UpdateItem, SetPrice, DeleteItem,
         collectionVars

\* The previews of every reachable state are exact for their digests.
LEMMA AlwaysExact == Spec => []PreviewsExact
<1>1. Init => PreviewsExact
  BY DEF Init, NoneOf, PreviewsExact
<1>2. QED
  BY <1>1, NextExact, TypeCorrect, PTL DEF Spec

\* A preview whose digest still matches shows what the import would give.
THEOREM PreviewStaysExact == Spec => []PreviewExact
<1>1. PreviewsExact => PreviewExact
  BY DEF PreviewsExact, ExactFor, PreviewExact, OpenPreviews, Digest
<1>2. QED
  BY <1>1, AlwaysExact, PTL

\* A confirmation leaves exactly the quantities that the member reviewed.
THEOREM ConfirmsWhatWasReviewed == Spec => ReviewedIsApplied
<1>1. ASSUME TypeOK, UniqueTuples, PreviewsExact, [Next]_collectionVars,
             NEW p \in OpenPreviews, p \in DOMAIN preview', preview'[p].status = "confirmed",
             NEW t \in Tuples
      PROVE  Owned(row', t) = IF t \in DOMAIN preview[p].entries
                              THEN preview[p].entries[t].resulting
                              ELSE Owned(row, t)
  <2> DEFINE csv == Csv[preview[p].source]
  <2>1. p \in DOMAIN preview /\ preview[p].status # "confirmed" /\ preview[p] \in PreviewRow
    BY <1>1 DEF OpenPreviews, TypeOK
  <2>2. ASSUME NEW q \in PreviewIds, NEW s \in Sources, NEW unavailable, NEW expired,
               CreatePreview(q, s, unavailable, expired)
        PROVE  FALSE
    BY <1>1, <2>1, <2>2 DEF CreatePreview
  <2>3. ASSUME NEW q \in PreviewIds, Expire(q) PROVE FALSE
    BY <1>1, <2>1, <2>3 DEF Expire, PreviewRow
  <2>4. ASSUME NEW q \in PreviewIds, CancelPreview(q) PROVE FALSE
    BY <1>1, <2>1, <2>4 DEF CancelPreview
  <2>5. ASSUME UNCHANGED preview PROVE FALSE
    BY <1>1, <2>1, <2>5
  <2>6. PICK q \in PreviewIds : \E new : ConfirmPreview(q, new)
    BY <1>1, <2>2, <2>3, <2>4, <2>5
       DEF Next, ItemNext, ImportNext, AddToRow, AddRow, UpdateItem, SetPrice, DeleteItem,
           collectionVars
  <2>7. PICK new : ConfirmPreview(q, new)
    BY <2>6
  <2>8. p = q
    BY <1>1, <2>1, <2>7 DEF ConfirmPreview
  <2>9. ~HasErrors(preview[p].entries) /\ preview[p].digest = row
    BY <2>7, <2>8 DEF ConfirmPreview, Digest
  <2>10. /\ DOMAIN preview[p].entries = DOMAIN csv
         /\ \A u \in DOMAIN csv : preview[p].entries[u].resulting = Owned(row, u) + csv[u]
    BY <1>1, <2>1, <2>9 DEF PreviewsExact, ExactFor
  <2>11. Unique(row)
    BY <1>1 DEF Unique, UniqueTuples, Live
  <2>12. Importing(Live, row, csv, Ids \ used, new) /\ Imported(Live, row, csv, new, row')
    BY <1>1, <2>7, <2>8, ConfirmImports
  <2>13. Owned(row', t) = IF t \in DOMAIN csv THEN Owned(row, t) + csv[t] ELSE Owned(row, t)
    BY <2>11, <2>12, AppliedOwned
  <2>14. QED
    BY <2>10, <2>13
<1>2. TypeOK /\ UniqueTuples /\ PreviewsExact /\ [Next]_collectionVars =>
        \A p \in OpenPreviews :
          p \in DOMAIN preview' /\ preview'[p].status = "confirmed" =>
            \A t \in Tuples :
              Owned(row', t) = IF t \in DOMAIN preview[p].entries
                               THEN preview[p].entries[t].resulting
                               ELSE Owned(row, t)
  BY <1>1
<1>3. QED
  BY <1>2, TypeCorrect, RowsStayUnique, AlwaysExact, PTL DEF Spec, ReviewedIsApplied

=============================================================================
