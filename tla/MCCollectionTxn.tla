-------------------------- MODULE MCCollectionTxn --------------------------
(* Two requests on one printing in two variants.  One document: an import   *)
(* inserts or increments a card while the other request adds it, edits it   *)
(* or turns it into the other variant.  Two documents of both variants: a   *)
(* preview of one meets a confirmation of the other, and edits meet both.   *)
EXTENDS CollectionTxn, TLC

CONSTANTS card, foil, plain, p1, p2, doc, doc2, t1, t2

MCPrintings == {card}
TwoVariants == {foil, plain}
MCPreviewIds == {p1, p2}
MCSources == {doc}
MCCsv == doc :> (<<card, foil>> :> 1)
TwoSources == {doc, doc2}
TwoCsv == [s \in TwoSources |-> [c \in MCPrintings \X TwoVariants |-> 1]]
TwoTxns == {t1, t2}
\* An import meets new items, edits and its own cancellation; a price and a deletion
\* lock one row of those an edit locks.
ImportOps == AllOps \ {"price_item", "delete_item"}
\* Previews and confirmations lock both tables, edits one row or those of a printing.
LockOps == AllOps \ {"create_item"}
ImportSymmetry == Permutations(MCPreviewIds) \cup Permutations(TwoTxns)
LockSymmetry == ImportSymmetry \cup Permutations(TwoSources) \cup Permutations(TwoVariants)

=============================================================================
