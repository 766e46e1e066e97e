-------------------------- MODULE FolderInvariant --------------------------
(***************************************************************************)
(* The inductive invariant of Folder.  A walk has an agenda: the open      *)
(* directories and the names it has read and not yet looked at.  Whatever  *)
(* exists is on the agenda of a removal or below a name on it, as long as  *)
(* nothing is made; and since every walk takes the names of a directory in *)
(* the same order, a removal that gets ahead of another keeps its own      *)
(* agenda whole.                                                           *)
(***************************************************************************)
EXTENDS Folder

Node == Version \cup {Dir, Absent}
Tops == {"lstat", "opendir", "unlink", "read"}

Walk == [op : {"none", "zip", "rm", "extract"},
         pc : {"idle", "readdir", "rmdir", "mkpath", "write"} \cup Tops,
         node : Name, left : [Dirs -> SUBSET Name], entries : SUBSET Name,
         files : SUBSET (Name \X Version), alone : BOOLEAN, before : [Name -> Node]]

\* A name and the directories above it.
Line(n) == Above(n) \cup {n}

\* The directories a walk has open, the names it has still to go to, and both.
Open(w)   == IF w.pc \in Tops THEN Above(w.node) ELSE Line(w.node)
ToDo(w)   == (UNION {w.left[d] : d \in Dirs}) \cup {n \in {w.node} : w.pc \in Tops}
Agenda(w) == Open(w) \cup ToDo(w)

\* What is left to read belongs to open directories, and comes after the name
\* that the walk has gone to.
AgendaInv(w) ==
    \A d \in Dirs : \A c \in w.left[d] :
        /\ d \in Open(w) /\ c # Root /\ Front(c) = d
        /\ \A e \in Line(w.node) : e # Root /\ Front(e) = d => Position(e) < Position(c)

\* An extraction's archive is a version's.
ExtractInv(w) == \E v \in Version :
    /\ w.files = {<<n, v>> : n \in Holds(v)} /\ w.entries \subseteq Holds(v)
    /\ w.pc = "write" => w.node \in Holds(v) \ w.entries

\* A walk by itself, whoever else walks.
LocalInv(w) ==
    /\ w \in Walk
    /\ w.pc = "idle" => w = Idle
    /\ w.pc \in {"mkpath", "write"} <=> w.op = "extract"
    /\ w.pc \in {"lstat", "opendir", "readdir"} => w.op \in {"zip", "rm"}
    /\ w.pc \in {"unlink", "rmdir"} => w.op = "rm"
    /\ w.pc = "read" => w.op = "zip"
    /\ w.pc \in {"opendir", "readdir", "rmdir"} => w.node \in Dirs
    /\ w.pc \in {"unlink", "read"} => w.node \notin Dirs
    /\ w.pc = "rmdir" => w.left[w.node] = {}
    /\ w.op \in {"zip", "rm"} => AgendaInv(w)
    /\ w.op = "extract" => ExtractInv(w)

-----------------------------------------------------------------------------
\* Names keep their kinds, and lie in directories.
TreeInv(t) ==
    /\ t \in [Name -> Node]
    /\ \A n \in Name : /\ t[n] \in Version => n \notin Dirs
                       /\ t[n] = Dir => n \in Dirs
                       /\ t[n] # Absent => \A d \in Above(n) : t[d] = Dir

\* What is on the agenda of a walk is there.
Present(w, t) == \A n \in Agenda(w) : t[n] # Absent

\* A walk will come to a name, or to one above it.
Ahead(w, n) == ToDo(w) \cap Line(n) # {}

\* A removal will come to whatever there is.
RmCovers(w, t) == \A n \in Name : t[n] # Absent => n \in Open(w) \/ Ahead(w, n)

\* A zip has what it has passed.
ZipCovers(w, t) ==
    /\ w.files \subseteq Files(t)
    /\ \A n \in Name : t[n] \in Version => <<n, t[n]>> \in w.files \/ Ahead(w, n)

\* An extraction has written what it has passed, and nothing else.
Extracted(w, t) == \A n \in Name :
    IF \E v \in Version : <<n, v>> \in w.files /\ n \notin w.entries /\ (w.pc = "write" => n # w.node)
    THEN <<n, t[n]>> \in w.files
    ELSE t[n] = w.before[n] \/ {t[n], w.before[n]} \cap Version = {}

\* A walk that nobody disturbs.
LoneInv(w, t) ==
    /\ w.op \in {"zip", "rm"} => Present(w, t)
    /\ w.op = "zip" => t = w.before /\ ZipCovers(w, t)
    /\ w.op = "rm" => RmCovers(w, t)
    /\ w.op = "extract" => Extracted(w, t) /\ (w.pc = "write" => t[Front(w.node)] = Dir)

Lone(p) == Walking(p) /\ walk[p].alone

\* Processes walk from their start on, and only by itself does one walk alone.
OnlyOne ==
    /\ \A p \in Process : Walking(p) => p <= begun /\ walk[p].op \in kinds
    /\ \A p, q \in Process : Lone(p) /\ Walking(q) => p = q

-----------------------------------------------------------------------------
\* The order in which names are removed: what is in a directory before it, and
\* all that is in or at one entry before the next entry.
Aside(m, n) == \E c \in Line(m), d \in Line(n) :
    c # Root /\ d # Root /\ Front(c) = Front(d) /\ Position(c) < Position(d)
Before(m, n) == n \in Above(m) \/ Aside(m, n)

\* What comes later on an agenda than something that exists exists.
InOrder(w, t) == \A m, n \in Agenda(w) : Before(m, n) /\ t[m] # Absent => t[n] # Absent

\* As long as nothing but removals was begun, one of them has its whole agenda
\* before it, until the resource is gone.
RemovalInv(t) == kinds = {"rm"} =>
    /\ \A p \in Process : Walking(p) => RmCovers(walk[p], t) /\ InOrder(walk[p], t)
    /\ t[Root] # Absent => \E p \in Process : Walking(p) /\ Present(walk[p], t)

\* The last walk is remembered until another one starts.
DoneInv == done.pc # "idle" => AloneExact /\ \A p \in Process : ~Walking(p)

IInv ==
    /\ TypeOK /\ TreeInv(tree)
    /\ begun \in 0..MaxWalks /\ DOMAIN walk = Process /\ walk = [p \in Process |-> walk[p]]
    /\ \A p \in Process : LocalInv(walk[p])
    /\ OnlyOne
    /\ \A p \in Process : Lone(p) => LoneInv(walk[p], tree)
    /\ RemovalInv(tree)
    /\ DoneInv

=============================================================================
