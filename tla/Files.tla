-------------------------------- MODULE Files --------------------------------
(***************************************************************************)
(* The names of a directory and the files they lead to, as fopen, fwrite,  *)
(* rename and unlink change them: opening for writing empties the file     *)
(* that others may have open, and a file without a name lives on for those *)
(* who have it open.  (The operating system's part, external.)             *)
(***************************************************************************)
EXTENDS Integers, Sequences, FiniteSets, Functions

CONSTANTS Path, Hole

\* A disk has links from names to files, 0 for none, and the files' contents.
Empty == [link |-> [n \in Path |-> 0], data |-> <<>>]

Has(disk, n) == disk.link[n] # 0
Content(disk, n) == disk.data[disk.link[n]]
Size(disk, n) == Len(Content(disk, n))

Unused(disk) ==
    CHOOSE f \in 1..(Cardinality(DOMAIN disk.data) + 1) : f \notin DOMAIN disk.data

\* fopen(n, "wb")
Truncated(disk, n) ==
    LET f == IF Has(disk, n) THEN disk.link[n] ELSE Unused(disk)
    IN  [link |-> [disk.link EXCEPT ![n] = f],
         data |-> [g \in DOMAIN disk.data \cup {f} |-> IF g = f THEN <<>> ELSE disk.data[g]]]

\* A write at a position, maybe behind the end.
Written(disk, f, pos, x) ==
    LET old == disk.data[f]
        new == [k \in 1..(IF pos < Len(old) THEN Len(old) ELSE pos + 1) |->
                    IF k = pos + 1 THEN x ELSE IF k <= Len(old) THEN old[k] ELSE Hole]
    IN  [disk EXCEPT !.data[f] = new]

Unlinked(disk, n) == [disk EXCEPT !.link[n] = 0]

Renamed(disk, from, to) == [disk EXCEPT !.link[to] = disk.link[from], !.link[from] = 0]

\* What is left of it when only these files are open.
Kept(disk, open) ==
    [disk EXCEPT !.data = Restrict(@, (open \cup Range(disk.link)) \ {0})]

=============================================================================
