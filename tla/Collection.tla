----------------------------- MODULE Collection -----------------------------
(***************************************************************************)
(* One member's collection and its CSV imports: what each handler of       *)
(* routers/collection.py and collection_imports.py promises when it        *)
(* commits.  Every handler filters by the user, so the collections of      *)
(* several members meet only in table locks (see CollectionTxn).           *)
(*                                                                         *)
(* An import has two requests.  The preview classifies every CSV row       *)
(* against the collection and keeps a digest of what it saw; the           *)
(* confirmation applies the rows if the digest still matches.  The digest  *)
(* is a SHA-256 of the rows with their revisions: here it is the snapshot  *)
(* itself.  The catalog is outside this module: a printing that is unknown *)
(* or inactive is a row the preview may mark as an error, and a request    *)
(* that may be refused.                                                    *)
(***************************************************************************)
EXTENDS Integers, FiniteSets, Functions

CONSTANTS
  Ids,          \* ids of collection_items rows
  Printings,    \* catalog printings
  Variants,     \* the finish and condition of a copy
  PreviewIds,   \* ids of collection_import_previews rows
  Sources,      \* CSV documents, told apart by their SHA-256
  Csv,          \* the rows of a document: copies per printing and variant
  Unlisted,     \* printings and variants that the catalog may lack at some time
  Amounts,      \* numbers of copies that a request may name
  MaxQuantity,  \* 9999 in the code
  MaxRevision   \* bound on the revisions of a row; unbounded in the code

Tuples == Printings \X Variants
Quantity == 1 .. MaxQuantity

ASSUME BoundsAssumption == MaxQuantity \in Nat \ {0} /\ MaxRevision \in Nat \ {0}
ASSUME RequestAssumption == Unlisted \subseteq Tuples /\ Amounts \subseteq Quantity
ASSUME IdsAssumption == IsFiniteSet(Ids) /\ Ids \cap PreviewIds = {}

\* The parser refuses a document that names a tuple twice.
ASSUME CsvAssumption ==
  Csv \in [Sources -> UNION {[S -> Quantity] : S \in SUBSET Tuples}]

VARIABLES
  row,      \* collection_items, by id
  preview,  \* collection_import_previews, by id
  used      \* ids given out so far; a uuid4 is never given out twice

collectionVars == <<row, preview, used>>

Row == [tuple : Tuples, qty : Quantity, rev : 1 .. MaxRevision]
Entry == [kind : {"addition", "increment", "error"}, resulting : 0 .. MaxQuantity]

NoValue == "none"
NoneOf == [i \in {} |-> NoValue]
Live == DOMAIN row
OpenPreviews == {p \in DOMAIN preview : preview[p].status # "confirmed"}
ExpiredPreviews == {p \in DOMAIN preview : preview[p].status = "expired"}

Init ==
  /\ row = NoneOf
  /\ preview = NoneOf
  /\ used = {}

-----------------------------------------------------------------------------
(* Reading a collection.                                                   *)

Having(rows, t) == {i \in DOMAIN rows : rows[i].tuple = t}
Owned(rows, t) == IF Having(rows, t) = {} THEN 0 ELSE rows[CHOOSE i \in Having(rows, t) : TRUE].qty

\* Mutant: the digest covers which copies are owned, not how many nor the revision.
DigestOfTuples(rows) == [i \in DOMAIN rows |-> [rows[i] EXCEPT !.qty = 1, !.rev = 1]]

Digest(rows) == rows

Revised(r, n) == [r EXCEPT !.qty = n, !.rev = @ + 1]
NewRow(t, n) == [tuple |-> t, qty |-> n, rev |-> 1]

-----------------------------------------------------------------------------
(* Items.                                                                  *)

\* Mutant: an increment is not held to the limit.
AddToRowUnlimited(i, t, n) ==
  /\ i \in Having(row, t)
  /\ row[i].rev < MaxRevision
  /\ row' = [row EXCEPT ![i] = Revised(@, @.qty + n)]
  /\ UNCHANGED <<preview, used>>

\* Adding copies of a card that is there already raises its quantity.
AddToRow(i, t, n) ==
  /\ i \in Having(row, t)
  /\ row[i].qty + n <= MaxQuantity
  /\ row[i].rev < MaxRevision
  /\ row' = [row EXCEPT ![i] = Revised(@, @.qty + n)]
  /\ UNCHANGED <<preview, used>>

AddRow(i, t, n) ==
  /\ Having(row, t) = {}
  /\ i \in Ids \ used
  /\ row' = [j \in Live \cup {i} |-> IF j = i THEN NewRow(t, n) ELSE row[j]]
  /\ used' = used \cup {i}
  /\ UNCHANGED preview

\* Mutant: the other items of the printing are not looked at.
UpdateItemOver(i, v, n) ==
  /\ i \in Live
  /\ row[i].rev < MaxRevision
  /\ row' = [row EXCEPT ![i] = [Revised(@, n) EXCEPT !.tuple = <<@[1], v>>]]
  /\ UNCHANGED <<preview, used>>

\* An item changes its variant only when no other item has it.  A request that omits
\* the variant or the quantity names the present one.
UpdateItem(i, v, n) ==
  LET t == <<row[i].tuple[1], v>> IN
  /\ i \in Live
  /\ row[i].rev < MaxRevision
  /\ Having(row, t) \subseteq {i}
  /\ row' = [row EXCEPT ![i] = [Revised(@, n) EXCEPT !.tuple = t]]
  /\ UNCHANGED <<preview, used>>

SetPrice(i) ==
  /\ i \in Live
  /\ row[i].rev < MaxRevision
  /\ row' = [row EXCEPT ![i] = Revised(@, @.qty)]
  /\ UNCHANGED <<preview, used>>

DeleteItem(i) ==
  /\ i \in Live
  /\ row' = [j \in Live \ {i} |-> row[j]]
  /\ UNCHANGED <<preview, used>>

-----------------------------------------------------------------------------
(* Imports.                                                                *)

\* How a row of the document is classified. A card with copies is in the catalog: its
\* printing cannot be deleted (ondelete RESTRICT) and stays visible to its owner, so
\* "printing_not_found" is for cards without any.
Entry1(rows, t, n, unavailable) ==
  LET owned == Owned(rows, t) IN
  CASE owned = 0 /\ t \in unavailable -> [kind |-> "error", resulting |-> 0]
    [] owned = 0 /\ t \notin unavailable -> [kind |-> "addition", resulting |-> n]
    [] owned > 0 /\ owned + n > MaxQuantity -> [kind |-> "error", resulting |-> 0]
    [] OTHER -> [kind |-> "increment", resulting |-> owned + n]

Classified(rows, s, unavailable) ==
  [t \in DOMAIN Csv[s] |-> Entry1(rows, t, Csv[s][t], unavailable)]

HasErrors(entries) == \E t \in DOMAIN entries : entries[t].kind = "error"

\* Mutant: a preview of the same document stays open beside the new one.
SupersededNone(s) == {}

\* The open preview of the same document is replaced.
Superseded(s) == {p \in OpenPreviews : preview[p].source = s}

\* Previews that have expired are deleted on the way, as far as the time of the
\* request had seen them expire.
CreatePreview(p, s, unavailable, expired) ==
  /\ p \in PreviewIds \ used
  /\ expired \subseteq ExpiredPreviews
  /\ LET kept == DOMAIN preview \ (Superseded(s) \cup expired) IN
     preview' = [q \in kept \cup {p} |->
                   IF q = p THEN [status |-> "open", source |-> s, digest |-> Digest(row),
                                  entries |-> Classified(row, s, unavailable)]
                   ELSE preview[q]]
  /\ used' = used \cup {p}
  /\ UNCHANGED row

\* An hour passes.
Expire(p) ==
  /\ p \in DOMAIN preview
  /\ preview[p].status = "open"
  /\ preview' = [preview EXCEPT ![p].status = "expired"]
  /\ UNCHANGED <<row, used>>

\* The rows of a document applied to a collection; new[t] is the id of the row
\* that a tuple gets which is not owned yet.
Additions(rows, csv) == {t \in DOMAIN csv : Having(rows, t) = {}}

Applied(rows, csv, new) ==
  [i \in DOMAIN rows \cup Range(new) |->
     IF i \notin DOMAIN rows
     THEN LET t == CHOOSE u \in DOMAIN new : new[u] = i IN NewRow(t, csv[t])
     ELSE IF rows[i].tuple \in DOMAIN csv
     THEN Revised(rows[i], rows[i].qty + csv[rows[i].tuple])
     ELSE rows[i]]

CanApply(rows, csv) ==
  \A i \in DOMAIN rows : rows[i].tuple \in DOMAIN csv =>
    /\ rows[i].qty + csv[rows[i].tuple] <= MaxQuantity
    /\ rows[i].rev < MaxRevision

\* Nothing of a confirmed preview is compared again: its digest and entries are left out.
Settled(r) == [r EXCEPT !.status = "confirmed", !.digest = NoneOf, !.entries = NoneOf]

\* Mutant: the digest is not compared.
ConfirmUnchecked(p, new) ==
  LET csv == Csv[preview[p].source] IN
  /\ p \in OpenPreviews
  /\ ~HasErrors(preview[p].entries)
  /\ CanApply(row, csv)
  /\ new \in Injection(Additions(row, csv), Ids \ used)
  /\ row' = Applied(row, csv, new)
  /\ preview' = [preview EXCEPT ![p] = Settled(@)]
  /\ used' = used \cup Range(new)

\* The expiry was compared when the request started, so the commit may come later.
ConfirmPreview(p, new) ==
  LET csv == Csv[preview[p].source] IN
  /\ p \in OpenPreviews
  /\ ~HasErrors(preview[p].entries)
  /\ Digest(row) = preview[p].digest
  /\ CanApply(row, csv)
  /\ new \in Injection(Additions(row, csv), Ids \ used)
  /\ row' = Applied(row, csv, new)
  /\ preview' = [preview EXCEPT ![p] = Settled(@)]
  /\ used' = used \cup Range(new)

CancelPreview(p) ==
  /\ p \in OpenPreviews
  /\ preview' = [q \in DOMAIN preview \ {p} |-> preview[q]]
  /\ UNCHANGED <<row, used>>

-----------------------------------------------------------------------------

ItemNext ==
  \/ \E i \in Ids, t \in Tuples, n \in Amounts : AddToRow(i, t, n) \/ AddRow(i, t, n)
  \/ \E i \in Live : \/ \E v \in Variants, n \in Amounts \cup {row[i].qty} : UpdateItem(i, v, n)
                   \/ SetPrice(i)
                   \/ DeleteItem(i)

ImportNext ==
  \E p \in PreviewIds :
    \/ \E s \in Sources, unavailable \in SUBSET Unlisted, expired \in SUBSET PreviewIds :
         CreatePreview(p, s, unavailable, expired)
    \/ Expire(p)
    \/ \E S \in SUBSET Tuples : \E new \in [S -> Ids] : ConfirmPreview(p, new)
    \/ CancelPreview(p)

Next == ItemNext \/ ImportNext

Spec == Init /\ [][Next]_collectionVars

-----------------------------------------------------------------------------
(* Properties.                                                             *)

PreviewRow ==
  [status : {"open", "expired", "confirmed"}, source : Sources,
   digest : UNION {[S -> Row] : S \in SUBSET Ids},
   entries : UNION {[S -> Entry] : S \in SUBSET Tuples}]

TypeOK ==
  /\ used \subseteq Ids \cup PreviewIds
  /\ Live \subseteq used \cap Ids
  /\ row \in [Live -> Row]
  /\ DOMAIN preview \subseteq used \cap PreviewIds
  /\ preview \in [DOMAIN preview -> PreviewRow]

\* A printing in one variant is one row: neither an edit of a variant nor an
\* import splits the copies of a card over two rows
\* (uq_collection_items_user_printing_finish_condition never fires).
UniqueTuples == \A i, j \in Live : row[i].tuple = row[j].tuple => i = j

\* At most one unconfirmed preview of a document is open, however often it is
\* uploaded (uq_collection_import_previews_user_source_open never fires).
OneOpenPreview ==
  \A p, q \in OpenPreviews : preview[p].source = preview[q].source => p = q

\* As long as the digest of an error-free preview matches, the quantities it
\* shows are the ones that applying the document now would give, and none of
\* them passes the limit: the limit check of the confirmation cannot fail.
PreviewExact ==
  \A p \in OpenPreviews :
    preview[p].digest = Digest(row) /\ ~HasErrors(preview[p].entries) =>
      \A t \in DOMAIN preview[p].entries :
        /\ preview[p].entries[t].resulting = Owned(row, t) + Csv[preview[p].source][t]
        /\ preview[p].entries[t].resulting <= MaxQuantity

\* What the member reviewed is what a confirmation applies: every row of the
\* document ends with the quantity the preview showed, and nothing else moves.
ReviewedIsApplied ==
  [][\A p \in OpenPreviews :
       p \in DOMAIN preview' /\ preview'[p].status = "confirmed" =>
         \A t \in Tuples :
           Owned(row', t) = IF t \in DOMAIN preview[p].entries
                            THEN preview[p].entries[t].resulting
                            ELSE Owned(row, t)]_collectionVars

=============================================================================
