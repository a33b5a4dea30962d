---------------------------- MODULE MCCollection ----------------------------
(* One printing in two variants, so an edit can run into the other item; a  *)
(* document of both variants and one of a single one.                       *)
EXTENDS Collection, TLC

CONSTANTS card, foil, plain, p1, p2, both, single

MCPrintings == {card}
MCVariants == {foil, plain}
MCPreviewIds == {p1, p2}
MCSources == {both, single}
MCCsv == (both :> (<<card, foil>> :> 1 @@ <<card, plain>> :> 1)) @@ (single :> (<<card, foil>> :> 1))
MCSymmetry == Permutations(MCPreviewIds)

=============================================================================
