------------------------------ MODULE MCShared ------------------------------
(* Values of Shared's constants for TLC.                                   *)
EXTENDS SharedInvariant, TLC

CONSTANTS v1, v2

\* The archive of one version is a prefix's length of the other's.
ShortAndLong == v1 :> 1 @@ v2 :> 2

=============================================================================
