------------------------------ MODULE MCFolder ------------------------------
(* Values of Folder's constants for TLC.                                   *)
EXTENDS FolderInvariant

CONSTANTS v1, v2

\* A directory in the resource and files beside it, before and after it; each
\* version has a file that the other has not, and they share one.
Listing == << <<"r">>, <<"r", "a">>, <<"r", "s">>, <<"r", "s", "b">>, <<"r", "z">> >>
Folders == {<<"r">>, <<"r", "s">>}
Contents(v) == IF v = v1 THEN {<<"r", "a">>, <<"r", "s", "b">>}
               ELSE {<<"r", "a">>, <<"r", "z">>}

=============================================================================
