----------------------------- MODULE MCTransfer -----------------------------
(* Values of Transfer's constants for TLC.                                 *)
EXTENDS TransferInvariant, TLC

CONSTANTS c1, c2, p1, p2, t1, t2

\* One archive of one block and one of two, so that a checkpoint of either is
\* met by the other, and one offset is beyond the shorter archive.
TwoLens   == c1 :> 1 @@ c2 :> 2
OneLen2   == c1 :> 2
OneLen3   == c1 :> 3

\* No property tells the destinations apart.
Destinations == Permutations(Path)
=============================================================================
