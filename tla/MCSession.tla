------------------------------ MODULE MCSession ------------------------------
(* Values of Session's constants for TLC.                                  *)
EXTENDS SessionInvariant, TLC

CONSTANTS a, b, v1, v2, f1, f2

\* Two versions of a directory; the second has lost a file.
TwoVersions == v1 :> {f1, f2} @@ v2 :> {f2}
=============================================================================
