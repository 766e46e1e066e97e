---------------------------- MODULE MCAcceptLoop ----------------------------
(* Values of AcceptLoop's constants for TLC.                               *)
EXTENDS AcceptLoop

CONSTANTS k1, k2, k3

ThreeClients == {k1, k2, k3}
=============================================================================
