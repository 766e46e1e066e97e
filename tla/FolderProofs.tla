---------------------------- MODULE FolderProofs ----------------------------
(***************************************************************************)
(* The safety theorems of Folder, for any directory, any versions of it,   *)
(* any number of walks and any overlap.                                    *)
(***************************************************************************)
EXTENDS FolderInvariant, SequenceTheorems, TLAPS

-----------------------------------------------------------------------------
(* Names.                                                                  *)

\* The first k components of a name.
LEMMA FirstComponents ==
  ASSUME NEW S, NEW n \in Seq(S), NEW k \in Nat, k <= Len(n)
  PROVE  /\ SubSeq(n, 1, k) \in Seq(S) /\ Len(SubSeq(n, 1, k)) = k
         /\ \A j \in 0..k : SubSeq(SubSeq(n, 1, k), 1, j) = SubSeq(n, 1, j)
<1>1. /\ SubSeq(n, 1, k) \in Seq(S) /\ Len(SubSeq(n, 1, k)) = k
      /\ \A i \in 1..k : SubSeq(n, 1, k)[i] = n[i]
  BY SubSeqProperties
<1>2. ASSUME NEW j \in 0..k PROVE SubSeq(SubSeq(n, 1, k), 1, j) = SubSeq(n, 1, j)
  <2> DEFINE m == SubSeq(n, 1, k)
  <2>1. m \in Seq(S) /\ Len(m) = k /\ \A i \in 1..k : m[i] = n[i]
    BY <1>1
  <2> HIDE DEF m
  <2>2. /\ SubSeq(m, 1, j) \in Seq(S) /\ Len(SubSeq(m, 1, j)) = j
        /\ \A i \in 1..j : SubSeq(m, 1, j)[i] = m[i]
    BY <2>1, SubSeqProperties
  <2>3. /\ SubSeq(n, 1, j) \in Seq(S) /\ Len(SubSeq(n, 1, j)) = j
        /\ \A i \in 1..j : SubSeq(n, 1, j)[i] = n[i]
    BY SubSeqProperties
  <2>4. SubSeq(m, 1, j) = SubSeq(n, 1, j)
    BY <2>1, <2>2, <2>3, SeqEqual
  <2> QED
    BY <2>4 DEF m
<1> QED
  BY <1>1, <1>2

\* Names and directories, as sequences of components.
LEMMA NamesAreSequences ==
  /\ Root \in Name /\ Root \in Dirs /\ Dirs \subseteq Name
  /\ \A n \in Name : n \in Seq(Component) /\ Len(n) \in Nat
  /\ \A n \in Name : \A d \in Above(n) :
        d \in Dirs /\ \E k \in Nat : /\ Len(Root) <= k /\ k < Len(n)
                                     /\ d = SubSeq(n, 1, k) /\ Len(d) = k
  /\ \A n \in Name \ {Root} : Root \in Above(n) /\ Len(Root) < Len(n)
  /\ Above(Root) = {}
<1>1. Root \in Dirs /\ Dirs \subseteq Name /\ Root \in Name
  BY FolderAssumption
<1>2. \A n \in Name : n \in Seq(Component) /\ Len(n) \in Nat
  BY FolderAssumption
<1>3. Above(Root) = {}
  BY <1>1, <1>2 DEF Above
<1>4. ASSUME NEW n \in Name, NEW d \in Above(n)
      PROVE  d \in Dirs /\ \E k \in Nat : /\ Len(Root) <= k /\ k < Len(n)
                                          /\ d = SubSeq(n, 1, k) /\ Len(d) = k
  <2>1. PICK k \in Len(Root)..(Len(n) - 1) : d = SubSeq(n, 1, k)
    BY <1>4 DEF Above
  <2>2. k \in Nat /\ Len(Root) <= k /\ k < Len(n) /\ k <= Len(n)
    BY <1>1, <1>2
  <2>3. Len(d) = k
    BY <1>2, <2>1, <2>2, FirstComponents
  <2>4. d \in Dirs
    BY <1>3, <1>4, FolderAssumption
  <2> QED
    BY <2>1, <2>2, <2>3, <2>4
<1>5. ASSUME NEW n \in Name \ {Root} PROVE Root \in Above(n) /\ Len(Root) < Len(n)
  <2>1. Root \in Above(n)
    BY FolderAssumption
  <2> QED
    BY <1>4, <2>1
<1> QED
  BY <1>1, <1>2, <1>3, <1>4, <1>5

\* What is above a name: its directory, and what is above that.
LEMMA AboveOf ==
  ASSUME NEW n \in Name
  PROVE  /\ n \notin Above(n) /\ Above(n) \subseteq Dirs /\ Line(n) \subseteq Name
         /\ \A d \in Line(n) : Line(d) \subseteq Line(n) /\ Above(d) \subseteq Above(n)
         /\ \A d \in Above(n) : n \notin Line(d)
         /\ \A c, d \in Line(n) : c \in Line(d) \/ d \in Above(c)
         /\ n # Root => Front(n) \in Above(n) /\ Above(n) = Line(Front(n))
<1>1. n \in Seq(Component) /\ Len(n) \in Nat /\ Len(Root) \in Nat
  BY NamesAreSequences
<1>2. \A d \in Above(n) : \E k \in Nat : /\ Len(Root) <= k /\ k < Len(n)
                                         /\ d = SubSeq(n, 1, k) /\ Len(d) = k
  BY NamesAreSequences
<1>3. Above(n) \subseteq Dirs /\ n \notin Above(n) /\ Line(n) \subseteq Name
  BY <1>1, <1>2, NamesAreSequences DEF Line
<1>4. ASSUME NEW k \in Nat, Len(Root) <= k, k <= Len(n)
      PROVE  Above(SubSeq(n, 1, k)) = {SubSeq(n, 1, j) : j \in Len(Root)..(k - 1)}
  <2> DEFINE d == SubSeq(n, 1, k)
  <2>1. Len(d) = k /\ \A j \in Len(Root)..(k - 1) : SubSeq(d, 1, j) = SubSeq(n, 1, j)
    BY <1>1, <1>4, FirstComponents
  <2> HIDE DEF d
  <2>2. Above(d) = {SubSeq(n, 1, j) : j \in Len(Root)..(k - 1)}
    BY <2>1 DEF Above
  <2> QED
    BY <2>2 DEF d
<1>5. \A d \in Line(n) : \E k \in Nat : /\ Len(Root) <= k /\ k <= Len(n)
                                        /\ d = SubSeq(n, 1, k) /\ Len(d) = k
  <2>1. Len(Root) <= Len(n) /\ n = SubSeq(n, 1, Len(n))
    BY <1>1, NamesAreSequences, SubSeqFull
  <2> QED
    BY <1>1, <1>2, <2>1 DEF Line
<1>6. ASSUME NEW d \in Line(n) PROVE Above(d) \subseteq Above(n)
  <2>1. PICK k \in Nat : Len(Root) <= k /\ k <= Len(n) /\ d = SubSeq(n, 1, k)
    BY <1>5
  <2>2. Above(d) = {SubSeq(n, 1, j) : j \in Len(Root)..(k - 1)}
    BY <1>4, <2>1
  <2>3. Len(Root)..(k - 1) \subseteq Len(Root)..(Len(n) - 1)
    BY <1>1, <2>1
  <2> QED
    BY <2>2, <2>3 DEF Above
<1>7. \A d \in Line(n) : Line(d) \subseteq Line(n)
  BY <1>6 DEF Line
<1>8. \A d \in Above(n) : n \notin Line(d)
  BY <1>3, <1>6 DEF Line
<1>9. ASSUME NEW c \in Line(n), NEW d \in Line(n) PROVE c \in Line(d) \/ d \in Above(c)
  <2>1. PICK i \in Nat : Len(Root) <= i /\ i <= Len(n) /\ c = SubSeq(n, 1, i)
    BY <1>5
  <2>2. PICK k \in Nat : Len(Root) <= k /\ k <= Len(n) /\ d = SubSeq(n, 1, k)
    BY <1>5
  <2>3. CASE i < k
    <3>1. Above(d) = {SubSeq(n, 1, j) : j \in Len(Root)..(k - 1)} /\ i \in Len(Root)..(k - 1)
      BY <1>1, <1>4, <2>1, <2>2, <2>3
    <3> QED
      BY <2>1, <3>1 DEF Line
  <2>4. CASE k < i
    <3>1. Above(c) = {SubSeq(n, 1, j) : j \in Len(Root)..(i - 1)} /\ k \in Len(Root)..(i - 1)
      BY <1>1, <1>4, <2>1, <2>2, <2>4
    <3> QED
      BY <2>2, <3>1
  <2>5. CASE i = k
    BY <2>1, <2>2, <2>5 DEF Line
  <2> QED
    BY <2>3, <2>4, <2>5
<1>10. ASSUME n # Root PROVE Front(n) \in Above(n) /\ Above(n) = Line(Front(n))
  <2> DEFINE k == Len(n) - 1
  <2>1. k \in Nat /\ Len(Root) <= k /\ k < Len(n)
    BY <1>1, <1>10, NamesAreSequences
  <2>2. Front(n) = SubSeq(n, 1, k)
    BY DEF Front
  <2>4. Above(n) = {SubSeq(n, 1, j) : j \in Len(Root)..k}
    BY DEF Above
  <2> HIDE DEF k
  <2>3. Above(Front(n)) = {SubSeq(n, 1, j) : j \in Len(Root)..(k - 1)}
    BY <1>1, <1>4, <2>1, <2>2
  <2>5. Len(Root)..k = (Len(Root)..(k - 1)) \cup {k}
    BY <1>1, <2>1
  <2> QED
    BY <2>2, <2>3, <2>4, <2>5 DEF Line
<1> QED
  BY <1>3, <1>6, <1>7, <1>8, <1>9, <1>10

\* Of a directory above a name, the entry that the name is or lies in.
LEMMA EntryOf ==
  ASSUME NEW n \in Name, NEW d \in Above(n)
  PROVE  \E c \in Line(n) : c # Root /\ Front(c) = d /\ c \in Name
<1>1. n \in Seq(Component) /\ Len(n) \in Nat /\ Len(Root) \in Nat
  BY NamesAreSequences
<1>2. PICK k \in Nat : Len(Root) <= k /\ k < Len(n) /\ d = SubSeq(n, 1, k)
  BY NamesAreSequences
<1> DEFINE c == SubSeq(n, 1, k + 1)
<1>3. Len(c) = k + 1 /\ SubSeq(c, 1, k) = d
  <2>1. k + 1 \in Nat /\ k + 1 <= Len(n) /\ k \in 0..(k + 1)
    BY <1>1, <1>2
  <2> QED
    BY <1>1, <1>2, <2>1, FirstComponents
<1>4. c \in Line(n)
  <2>1. CASE k + 1 = Len(n)
    BY <1>1, <2>1, SubSeqFull DEF Line
  <2>2. CASE k + 1 # Len(n)
    <3>1. k + 1 \in Len(Root)..(Len(n) - 1)
      BY <1>1, <1>2, <2>2
    <3> QED
      BY <3>1 DEF Line, Above
  <2> QED
    BY <2>1, <2>2
<1> HIDE DEF c
<1>5. c # Root /\ (k + 1) - 1 = k
  BY <1>1, <1>2, <1>3
<1>6. Front(c) = d
  BY <1>3, <1>5 DEF Front
<1> QED
  BY <1>4, <1>5, <1>6, AboveOf

\* A directory has one entry on the way to a name.
LEMMA OneEntry ==
  ASSUME NEW n \in Name, NEW c \in Line(n), NEW d \in Line(n), c # Root, d # Root, Front(c) = Front(d)
  PROVE  c = d
<1>1. c \in Name /\ d \in Name
  BY AboveOf
<1>2. Above(c) = Line(Front(c)) /\ Above(d) = Line(Front(d))
  BY <1>1, AboveOf
<1>3. c \in Line(d) \/ d \in Above(c)
  BY AboveOf
<1>4. c \notin Above(c) /\ d \notin Above(d)
  BY <1>1, AboveOf
<1> QED
  BY <1>2, <1>3, <1>4 DEF Line

\* The order of names has no cycles.
LEMMA Order ==
  ASSUME NEW m \in Name, NEW n \in Name, Aside(m, n)
  PROVE  ~Aside(n, m) /\ m \notin Line(n) /\ n \notin Line(m) /\ ~Before(n, m)
<1>1. PICK c \in Line(m), d \in Line(n) :
          c # Root /\ d # Root /\ Front(c) = Front(d) /\ Position(c) < Position(d)
  BY DEF Aside
<1>2. c \in Name /\ d \in Name
  BY AboveOf
<1>3. \A x \in Name : Position(x) \in Nat
  BY FolderAssumption DEF Position, Name, Range
<1>4. c # d
  BY <1>1, <1>2, <1>3
<1>5. m \notin Line(n) /\ n \notin Line(m)
  BY <1>1, <1>4, AboveOf, OneEntry
<1>6. ASSUME Aside(n, m) PROVE FALSE
  <2>1. PICK e \in Line(m), f \in Line(n) :
            e # Root /\ f # Root /\ Front(e) = Front(f) /\ Position(f) < Position(e)
    BY <1>6 DEF Aside
  <2>2. e \in Name /\ f \in Name /\ e # f
    BY <1>3, <2>1, AboveOf
  <2>3. /\ Above(c) = Line(Front(c)) /\ Above(d) = Line(Front(d))
        /\ Above(e) = Line(Front(e)) /\ Above(f) = Line(Front(f))
    BY <1>1, <1>2, <2>1, <2>2, AboveOf
  <2>4. Above(e) = Above(f) /\ Above(c) = Above(d) /\ Above(f) \subseteq Line(n) /\ Above(d) \subseteq Line(n)
    BY <1>1, <2>1, <2>3, AboveOf DEF Line
  <2>5. CASE c = e
    <3>1. d = f
      BY <1>1, <2>1, <2>5, OneEntry
    <3> QED
      BY <1>1, <1>2, <1>3, <2>1, <2>2, <2>5, <3>1
  <2>6. CASE c \in Above(e)
    <3>1. c \in Line(n)
      BY <2>4, <2>6
    <3> QED
      BY <1>1, <1>4, <3>1, OneEntry
  <2>7. CASE e \in Above(c)
    <3>1. e \in Line(n)
      BY <2>4, <2>7
    <3> QED
      BY <2>1, <2>2, <3>1, OneEntry
  <2> QED
    BY <2>5, <2>6, <2>7, AboveOf DEF Line
<1> QED
  BY <1>5, <1>6 DEF Before, Line

\* Names have different positions.
LEMMA Positions ==
  \A m, n \in Name : Position(m) \in Nat /\ (Position(m) = Position(n) => m = n)
<1>1. \A n \in Name : Position(n) \in DOMAIN Names /\ Names[Position(n)] = n
  BY DEF Position, Name, Range
<1> QED
  BY <1>1, FolderAssumption

LEMMA Strict ==
  ASSUME NEW m \in Name, NEW n \in Name, Before(m, n)
  PROVE  ~Before(n, m) /\ m # n
<1>1. CASE Aside(m, n)
  BY <1>1, Order DEF Line
<1>2. CASE n \in Above(m)
  <2>1. m \notin Line(n) /\ m \notin Above(m)
    BY <1>2, AboveOf
  <2>2. ~Aside(n, m)
    BY <1>2, Order DEF Line
  <2> QED
    BY <1>2, <2>1, <2>2 DEF Before, Line
<1> QED
  BY <1>1, <1>2 DEF Before

-----------------------------------------------------------------------------
(* Agendas.                                                                *)

\* What a walk has open are directories, and what it has to go to are names.
LEMMA AgendaTypes ==
  ASSUME NEW w, LocalInv(w), w.op \in {"zip", "rm"}
  PROVE  /\ w.pc \in {"lstat", "opendir", "readdir", "unlink", "rmdir", "read"}
         /\ w.node \in Name /\ Open(w) \subseteq Dirs /\ ToDo(w) \subseteq Name /\ AgendaInv(w)
         /\ w.left \in [Dirs -> SUBSET Name]
<1>1. w.pc \in {"lstat", "opendir", "readdir", "unlink", "rmdir", "read"} /\ w.node \in Name
      /\ w.left \in [Dirs -> SUBSET Name] /\ AgendaInv(w)
  BY DEF LocalInv, Walk, Tops, Idle
<1>2. Open(w) \subseteq Dirs
  BY <1>1, AboveOf DEF Open, Tops, Line, LocalInv
<1> QED
  BY <1>1, <1>2 DEF ToDo

\* Everything else on the agenda comes after the name that a walk has gone to or
\* the directory that it has read to the end.
LEMMA NodeFirst ==
  ASSUME NEW w, LocalInv(w), w.op \in {"zip", "rm"}, w.pc \in Tops \/ w.left[w.node] = {}
  PROVE  /\ \A d \in Dirs : w.node \notin w.left[d]
         /\ \A d \in Dirs : w.left[d] # {} => d \in Open(w) \ {w.node}
         /\ \A d \in Open(w) \ {w.node} : d \in Above(w.node)
         /\ \A m \in ToDo(w) \ {w.node} : Aside(w.node, m)
         /\ \A n \in Agenda(w) \ {w.node} : Before(w.node, n)
<1> DEFINE x == w.node
<1>1. x \in Name /\ AgendaInv(w) /\ w.left \in [Dirs -> SUBSET Name]
  BY AgendaTypes
<1>2. \A d \in Open(w) \ {x} : d \in Above(x)
  BY DEF Open, Line
<1>3. x \notin Above(x) /\ x \in Line(x)
  BY <1>1, AboveOf DEF Line
<1>4. \A d \in Dirs : x \notin w.left[d]
  BY <1>1, <1>3, Positions DEF AgendaInv
<1>5. \A d \in Dirs : w.left[d] # {} => d \in Open(w) \ {x}
  BY <1>1, <1>3 DEF AgendaInv, Open
<1>6. ASSUME NEW m \in ToDo(w) \ {x} PROVE Aside(x, m)
  <2>1. PICK d \in Dirs : m \in w.left[d]
    BY <1>6 DEF ToDo
  <2>2. d \in Above(x) /\ m # Root /\ Front(m) = d
    BY <1>1, <1>2, <1>5, <2>1 DEF AgendaInv
  <2>3. PICK e \in Line(x) : e # Root /\ Front(e) = d
    BY <1>1, <2>2, EntryOf
  <2>4. Position(e) < Position(m)
    BY <1>1, <2>1, <2>2, <2>3 DEF AgendaInv
  <2> QED
    BY <2>2, <2>3, <2>4 DEF Aside, Line
<1> QED
  BY <1>2, <1>4, <1>5, <1>6 DEF Agenda, Before

\* A walk returns from the name that it has gone to to the directory above.
LEMMA UpAgenda ==
  ASSUME NEW w, LocalInv(w), w.op \in {"zip", "rm"}, w.pc \in Tops \/ w.left[w.node] = {}, w.node # Root,
         NEW me, me.pc = "readdir", me.node = Front(w.node), me.left = w.left
  PROVE  /\ me.node \in Dirs /\ AgendaInv(me)
         /\ Open(me) = Open(w) \ {w.node} /\ ToDo(me) = ToDo(w) \ {w.node}
<1> DEFINE x == w.node
<1>1. x \in Name /\ AgendaInv(w) /\ w.left \in [Dirs -> SUBSET Name]
  BY AgendaTypes
<1>2. Front(x) \in Dirs /\ Above(x) = Line(Front(x)) /\ x \notin Above(x)
  BY <1>1, AboveOf
<1>3. Open(me) = Above(x)
  BY <1>2 DEF Open, Tops
<1>4. Open(w) \ {x} = Above(x)
  BY <1>2 DEF Open, Line
<1>5. ToDo(me) = UNION {w.left[d] : d \in Dirs}
  BY DEF ToDo, Tops
<1>6. ToDo(me) = ToDo(w) \ {x}
  BY <1>5, NodeFirst DEF ToDo
<1>7. AgendaInv(me)
  <2> SUFFICES ASSUME NEW d \in Dirs, NEW c \in w.left[d]
               PROVE  /\ d \in Open(me) /\ c # Root /\ Front(c) = d
                      /\ \A e \in Line(me.node) : e # Root /\ Front(e) = d => Position(e) < Position(c)
    BY DEF AgendaInv
  <2>1. d \in Open(me)
    BY <1>3, <1>4, NodeFirst
  <2>2. Line(me.node) \subseteq Line(x)
    BY <1>2 DEF Line
  <2> QED
    BY <1>1, <2>1, <2>2 DEF AgendaInv
<1> QED
  BY <1>2, <1>3, <1>4, <1>6, <1>7

-----------------------------------------------------------------------------
(* Steps of a walk.                                                        *)

\* What a walk's step has to keep of the invariant: its own part, and where
\* only removals walk, that of the others.
LEMMA ToInv ==
  ASSUME IInv, NEW p \in Process, Walking(p), NEW me, NEW t,
         walk' = [walk EXCEPT ![p] = me], tree' = t, UNCHANGED counts, TreeInv(t), LocalInv(me),
         me.pc = "idle" \/ (me.alone = walk[p].alone /\ me.op = walk[p].op),
         me.pc # "idle" /\ me.alone => LoneInv(me, t),
         kinds = {"rm"} =>
           /\ \A q \in Process \ {p} : Walking(q) => RmCovers(walk[q], t) /\ InOrder(walk[q], t)
           /\ me.pc # "idle" => RmCovers(me, t) /\ InOrder(me, t)
           /\ t[Root] # Absent =>
                \/ me.pc # "idle" /\ Present(me, t)
                \/ \E q \in Process \ {p} : Walking(q) /\ Present(walk[q], t),
         done'.pc # "idle" => AloneExact' /\ me.pc = "idle" /\ \A q \in Process \ {p} : ~Walking(q)
  PROVE  IInv'
<1>1. /\ DOMAIN walk' = Process /\ walk' = [q \in Process |-> walk'[q]] /\ walk'[p] = me
      /\ \A q \in Process \ {p} : walk'[q] = walk[q]
  BY DEF IInv
<1>2. begun' = begun /\ kinds' = kinds
  BY DEF counts
<1>3. \A q \in Process : LocalInv(walk'[q])
  BY <1>1 DEF IInv
<1>4. TypeOK'
  BY <1>3 DEF TypeOK, TreeInv, LocalInv, Node
<1>5. OnlyOne'
  BY <1>1, <1>2 DEF IInv, OnlyOne, Lone, Walking
<1>6. \A q \in Process : Lone(q)' => LoneInv(walk'[q], t)
  BY <1>1 DEF IInv, OnlyOne, Lone, Walking
<1>7. RemovalInv(t)'
  <2> SUFFICES ASSUME kinds = {"rm"}
               PROVE  /\ \A q \in Process : walk'[q].pc # "idle" => RmCovers(walk'[q], t) /\ InOrder(walk'[q], t)
                      /\ t[Root] # Absent => \E q \in Process : walk'[q].pc # "idle" /\ Present(walk'[q], t)
    BY <1>2 DEF RemovalInv, Walking
  <2> QED
    BY <1>1 DEF Walking
<1>8. DoneInv'
  BY <1>1 DEF DoneInv, Walking
<1> QED
  BY <1>1, <1>2, <1>3, <1>4, <1>5, <1>6, <1>7, <1>8 DEF IInv

\* A walk goes on and the directory is as it was.
LEMMA KeepInv ==
  ASSUME IInv, NEW p \in Process, Walking(p), NEW me, Go(p, me), UNCHANGED tree, LocalInv(me), me.pc # "idle",
         me.alone = walk[p].alone, me.op = walk[p].op,
         me.alone => LoneInv(me, tree),
         me.op = "rm" => /\ RmCovers(walk[p], tree) => RmCovers(me, tree)
                         /\ InOrder(walk[p], tree) => InOrder(me, tree)
                         /\ Present(walk[p], tree) => Present(me, tree)
  PROVE  IInv'
<1>1. done' = done /\ done.pc = "idle"
  BY DEF Go, IInv, DoneInv
<1>2. TreeInv(tree) /\ OnlyOne /\ RemovalInv(tree)
  BY DEF IInv
<1>3. kinds = {"rm"} =>
           /\ \A q \in Process \ {p} : Walking(q) => RmCovers(walk[q], tree) /\ InOrder(walk[q], tree)
           /\ me.pc # "idle" => RmCovers(me, tree) /\ InOrder(me, tree)
           /\ tree[Root] # Absent =>
                \/ me.pc # "idle" /\ Present(me, tree)
                \/ \E q \in Process \ {p} : Walking(q) /\ Present(walk[q], tree)
  BY <1>2 DEF RemovalInv, OnlyOne
<1> QED
  BY <1>1, <1>2, <1>3, ToInv DEF Go

\* A walk fails only where others walk, and, where only removals do, not if its
\* agenda was whole.
LEMMA FailsInv ==
  ASSUME IInv, NEW p \in Process, Walking(p), Fails(p), ~walk[p].alone,
         kinds = {"rm"} => ~Present(walk[p], tree)
  PROVE  IInv'
<1>1. done' = Idle /\ Idle.pc = "idle"
  BY DEF Fails, Ends, Idle
<1>2. TreeInv(tree) /\ RemovalInv(tree)
  BY DEF IInv
<1>3. LocalInv(Idle)
  <2>1. Idle \in Walk
    BY NamesAreSequences DEF Idle, Walk, Nothing, Node
  <2> QED
    BY <2>1 DEF Idle, LocalInv
<1>4. kinds = {"rm"} =>
           /\ \A q \in Process \ {p} : Walking(q) => RmCovers(walk[q], tree) /\ InOrder(walk[q], tree)
           /\ tree[Root] # Absent => \E q \in Process \ {p} : Walking(q) /\ Present(walk[q], tree)
  BY <1>2 DEF RemovalInv
<1> QED
  BY <1>1, <1>2, <1>3, <1>4, ToInv DEF Fails, Ends

\* So it fails if something on its agenda is gone.
LEMMA GoneInv ==
  ASSUME IInv, NEW p \in Process, Walking(p), walk[p].op \in {"zip", "rm"}, Fails(p), ~Present(walk[p], tree)
  PROVE  IInv'
<1>1. ~walk[p].alone
  BY DEF IInv, Lone, LoneInv
<1> QED
  BY <1>1, FailsInv

\* A walk whose agenda stays as it is.
LEMMA SameInv ==
  ASSUME IInv, NEW p \in Process, Walking(p), walk[p].op \in {"zip", "rm"},
         NEW me, Go(p, me), UNCHANGED tree, LocalInv(me), me.pc # "idle",
         me.op = walk[p].op, me.alone = walk[p].alone, me.files = walk[p].files, me.before = walk[p].before,
         Open(me) = Open(walk[p]), ToDo(me) = ToDo(walk[p])
  PROVE  IInv'
<1> DEFINE w == walk[p]
<1>1. Agenda(me) = Agenda(w) /\ \A n : Ahead(me, n) <=> Ahead(w, n)
  BY DEF Agenda, Ahead
<1>2. /\ RmCovers(w, tree) => RmCovers(me, tree)
      /\ InOrder(w, tree) => InOrder(me, tree)
      /\ Present(w, tree) => Present(me, tree)
      /\ ZipCovers(w, tree) => ZipCovers(me, tree)
  BY <1>1 DEF RmCovers, InOrder, Present, ZipCovers
<1>3. w.alone => LoneInv(w, tree)
  BY DEF IInv, Lone
<1>4. me.alone => LoneInv(me, tree)
  BY <1>2, <1>3 DEF LoneInv
<1> QED
  BY <1>2, <1>4, KeepInv

LEMMA LstatInv ==
  ASSUME IInv, NEW p \in Process, Lstat(p)
  PROVE  IInv'
<1> DEFINE w == walk[p]
           pc == IF tree[w.node] = Dir THEN "opendir" ELSE IF w.op = "rm" THEN "unlink" ELSE "read"
<1>1. w.pc = "lstat" /\ w.op \in {"zip", "rm"} /\ LocalInv(w) /\ Walking(p)
  BY DEF IInv, Lstat, LocalInv, Walking
<1>2. w.node \in Name /\ AgendaInv(w)
  BY <1>1, AgendaTypes
<1>3. CASE tree[w.node] = Absent
  <2>1. ~Present(w, tree)
    BY <1>1, <1>3 DEF Present, Agenda, ToDo, Tops
  <2> QED
    BY <1>1, <1>3, <2>1, GoneInv DEF Lstat
<1>4. CASE tree[w.node] # Absent
  <2> DEFINE me == [w EXCEPT !.pc = pc]
  <2>1. Go(p, me) /\ UNCHANGED tree
    BY <1>4 DEF Lstat
  <2>2. /\ pc \in {"opendir", "unlink", "read"} /\ pc \in Tops /\ w.pc \in Tops
        /\ pc = "opendir" <=> tree[w.node] = Dir
        /\ pc = "unlink" => w.op = "rm"
        /\ pc = "read" => w.op = "zip"
    BY <1>1 DEF Tops
  <2>3. tree[w.node] = Dir => w.node \in Dirs
    BY <1>2 DEF IInv, TreeInv
  <2>4. tree[w.node] # Dir => w.node \notin Dirs
    BY <1>2, <1>4 DEF IInv, TreeInv, Node
  <2> HIDE DEF pc
  <2>5. w \in Walk /\ me \in Walk
    BY <1>1, <2>2 DEF LocalInv, Walk
  <2>6. /\ me.pc = pc /\ me.node = w.node /\ me.left = w.left /\ me.op = w.op
        /\ me.alone = w.alone /\ me.files = w.files /\ me.before = w.before
    BY <2>5 DEF Walk
  <2> HIDE DEF me
  <2>7. Open(me) = Open(w) /\ ToDo(me) = ToDo(w)
    BY <2>2, <2>6 DEF Open, ToDo
  <2>8. AgendaInv(me)
    BY <1>2, <2>6, <2>7 DEF AgendaInv
  <2>9. LocalInv(me)
    BY <1>1, <2>2, <2>3, <2>4, <2>5, <2>6, <2>8 DEF LocalInv
  <2> QED
    BY <1>1, <2>1, <2>2, <2>6, <2>7, <2>9, SameInv
<1> QED
  BY <1>3, <1>4

\* A walk goes to the next entry.
LEMMA EntryInv ==
  ASSUME IInv, NEW p \in Process, walk[p].pc = "readdir",
         NEW n \in walk[p].left[walk[p].node], First(n, walk[p].left[walk[p].node]),
         Entry(p, n), UNCHANGED tree
  PROVE  IInv'
<1> DEFINE w == walk[p]
           x == w.node
           me == [w EXCEPT !.pc = "lstat", !.node = n, !.left[x] = @ \ {n}]
<1>1. w.op \in {"zip", "rm"} /\ LocalInv(w) /\ Walking(p) /\ w.node \in Dirs
  BY DEF IInv, LocalInv, Walking
<1>2. AgendaInv(w) /\ w.left \in [Dirs -> SUBSET Name] /\ x \in Name
  BY <1>1, AgendaTypes
<1>3. n \in Name /\ n # Root /\ Front(n) = x /\ Above(n) = Line(x)
  BY <1>1, <1>2, AboveOf DEF AgendaInv
<1>4. Go(p, me)
  BY DEF Entry
<1>5. w \in Walk /\ me \in Walk
  BY <1>1, <1>2, <1>3 DEF LocalInv, Walk, Tops
<1>6. /\ me.pc = "lstat" /\ me.node = n /\ me.op = w.op
      /\ me.alone = w.alone /\ me.files = w.files /\ me.before = w.before
      /\ me.left[x] = w.left[x] \ {n} /\ \A d \in Dirs : d # x => me.left[d] = w.left[d]
  BY <1>1, <1>2, <1>5 DEF Walk
<1> HIDE DEF me
<1>7. Open(me) = Open(w)
  BY <1>3, <1>6 DEF Open, Tops
<1>8. ToDo(me) = ToDo(w)
  BY <1>1, <1>6 DEF ToDo, Tops
<1>9. AgendaInv(me)
  <2> SUFFICES ASSUME NEW d \in Dirs, NEW c \in me.left[d], NEW e \in Line(n), e # Root, Front(e) = d
               PROVE  Position(e) < Position(c)
    BY <1>2, <1>6, <1>7 DEF AgendaInv
  <2>1. c \in w.left[d] /\ c # Root /\ Front(c) = d /\ c \in Name
    BY <1>2, <1>6 DEF AgendaInv
  <2>2. CASE e = n
    <3>1. d = x /\ c # n
      BY <1>3, <1>6, <2>2
    <3>2. Position(n) <= Position(c)
      BY <2>1, <3>1 DEF First
    <3> QED
      BY <1>3, <2>1, <2>2, <3>1, <3>2, Positions
  <2>3. CASE e # n
    <3>1. e \in Line(x)
      BY <1>3, <2>3 DEF Line
    <3> QED
      BY <1>2, <2>1, <3>1 DEF AgendaInv
  <2> QED
    BY <2>2, <2>3
<1>10. LocalInv(me)
  BY <1>1, <1>5, <1>6, <1>9 DEF LocalInv
<1> QED
  BY <1>1, <1>4, <1>6, <1>7, <1>8, <1>10, SameInv

LEMMA OpendirInv ==
  ASSUME IInv, NEW p \in Process, Opendir(p)
  PROVE  IInv'
<1> DEFINE w == walk[p]
           x == w.node
<1>1. w.pc = "opendir" /\ w.op \in {"zip", "rm"} /\ LocalInv(w) /\ Walking(p) /\ w.node \in Dirs
  BY DEF IInv, Opendir, LocalInv, Walking
<1>2. AgendaInv(w) /\ w.left \in [Dirs -> SUBSET Name] /\ x \in Name /\ w.pc \in Tops
  BY <1>1, AgendaTypes DEF Tops
<1>3. x \in Agenda(w)
  BY <1>2 DEF Agenda, ToDo
<1>4. CASE tree[x] = Absent
  <2>1. ~Present(w, tree)
    BY <1>3, <1>4 DEF Present
  <2> QED
    BY <1>1, <1>4, <2>1, GoneInv DEF Opendir
<1>5. CASE tree[x] # Absent
  <2> DEFINE me == [w EXCEPT !.pc = "readdir", !.left[x] = Listed(x)]
  <2>1. Go(p, me) /\ UNCHANGED tree
    BY <1>5 DEF Opendir
  <2>2. Listed(x) \subseteq Name /\ \A c \in Listed(x) : c # Root /\ Front(c) = x /\ tree[c] # Absent
    BY DEF Listed
  <2>3. w \in Walk /\ me \in Walk
    BY <1>1, <1>2, <2>2 DEF LocalInv, Walk, Tops
  <2>4. /\ me.pc = "readdir" /\ me.node = x /\ me.op = w.op
        /\ me.alone = w.alone /\ me.files = w.files /\ me.before = w.before
        /\ me.left[x] = Listed(x) /\ \A d \in Dirs : d # x => me.left[d] = w.left[d]
    BY <1>1, <1>2, <2>3 DEF Walk
  <2> HIDE DEF me
  <2>5. w.left[x] = {}
    BY <1>1, <1>2, NodeFirst
  <2>6. Open(w) = Above(x) /\ Open(me) = Line(x)
    BY <1>2, <2>4 DEF Open, Tops
  <2>7. ToDo(me) = (ToDo(w) \ {x}) \cup Listed(x)
    <3>1. ToDo(me) = UNION {me.left[d] : d \in Dirs}
      BY <2>4 DEF ToDo, Tops
    <3>2. ToDo(w) \ {x} = UNION {w.left[d] : d \in Dirs}
      BY <1>1, <1>2, NodeFirst DEF ToDo
    <3> QED
      BY <1>1, <2>4, <2>5, <3>1, <3>2
  <2>8. Agenda(me) = Agenda(w) \cup Listed(x)
    BY <1>3, <2>6, <2>7 DEF Agenda, Line
  <2>9. AgendaInv(me)
    <3> SUFFICES ASSUME NEW d \in Dirs, NEW c \in me.left[d]
                 PROVE  /\ d \in Open(me) /\ c # Root /\ Front(c) = d
                        /\ \A e \in Line(x) : e # Root /\ Front(e) = d => Position(e) < Position(c)
      BY <2>4 DEF AgendaInv
    <3>1. CASE d = x
      <4>1. ASSUME NEW e \in Line(x), e # Root, Front(e) = x PROVE FALSE
        BY <1>2, <4>1, AboveOf
      <4> QED
        BY <2>2, <2>4, <2>6, <3>1, <4>1 DEF Line
    <3>2. CASE d # x
      BY <1>2, <2>4, <2>6, <3>2 DEF AgendaInv, Line
    <3> QED
      BY <3>1, <3>2
  <2>10. LocalInv(me)
    BY <1>1, <2>3, <2>4, <2>9 DEF LocalInv
  <2>11. Present(w, tree) => Present(me, tree)
    BY <2>2, <2>8 DEF Present
  <2>12. InOrder(w, tree) => InOrder(me, tree)
    <3> SUFFICES ASSUME InOrder(w, tree) PROVE Present(me, tree)
      BY DEF InOrder, Present
    <3>1. \A n \in Agenda(w) \ {x} : Before(x, n)
      BY <1>1, <1>2, NodeFirst
    <3>2. Present(w, tree)
      BY <1>3, <1>5, <3>1 DEF InOrder, Present
    <3> QED
      BY <2>11, <3>2
  <2>13. ASSUME NEW n \in Name, tree[n] # Absent, Ahead(w, n)
         PROVE  n = x \/ Ahead(me, n)
    <3>1. PICK m \in ToDo(w) : m \in Line(n)
      BY <2>13 DEF Ahead
    <3>2. CASE m # x
      BY <2>7, <3>1, <3>2 DEF Ahead
    <3>3. CASE x \in Above(n)
      <4>1. PICK c \in Line(n) : c # Root /\ Front(c) = x /\ c \in Name
        BY <3>3, EntryOf
      <4>2. tree[c] # Absent
        BY <2>13, <4>1, FolderAssumption DEF IInv, TreeInv, Line
      <4> QED
        BY <2>7, <4>1, <4>2 DEF Ahead, Listed
    <3> QED
      BY <3>1, <3>2, <3>3 DEF Line
  <2>14. RmCovers(w, tree) => RmCovers(me, tree)
    BY <2>6, <2>13 DEF RmCovers, Line
  <2>15. ZipCovers(w, tree) => ZipCovers(me, tree)
    <3>1. tree[x] \notin Version
      BY <1>1, <1>2 DEF IInv, TreeInv
    <3>2. \A n \in Name : tree[n] \in Version => tree[n] # Absent
      BY FolderAssumption
    <3> QED
      BY <2>4, <2>13, <3>1, <3>2 DEF ZipCovers
  <2>16. me.alone => LoneInv(me, tree)
    BY <1>1, <2>4, <2>11, <2>14, <2>15 DEF IInv, Lone, LoneInv
  <2> QED
    BY <1>1, <2>1, <2>4, <2>10, <2>11, <2>12, <2>14, <2>16, KeepInv
<1> QED
  BY <1>4, <1>5

\* A walk ends having done its work.
LEMMA EndsInv ==
  ASSUME IInv, NEW p \in Process, Walking(p), Ends(p, "ok"), NEW t, tree' = t, TreeInv(t),
         kinds = {"rm"} =>
           /\ \A q \in Process \ {p} : Walking(q) => RmCovers(walk[q], t) /\ InOrder(walk[q], t)
           /\ t[Root] # Absent => \E q \in Process \ {p} : Walking(q) /\ Present(walk[q], t),
         walk[p].alone =>
           /\ walk[p].op = "zip" => walk[p].files = Files(t) /\ t = walk[p].before
           /\ walk[p].op = "rm" => t = Nothing
           /\ walk[p].op = "extract" =>
                Files(t) = walk[p].files
                           \cup {f \in Files(walk[p].before) : \A g \in walk[p].files : f[1] # g[1]}
  PROVE  IInv'
<1> DEFINE w == walk[p]
           d == [w EXCEPT !.pc = "ok"]
<1>1. LocalInv(Idle) /\ Idle.pc = "idle"
  <2>1. Idle \in Walk
    BY NamesAreSequences DEF Idle, Walk, Nothing, Node
  <2> QED
    BY <2>1 DEF Idle, LocalInv
<1>2. d.pc = "ok" /\ d.op = w.op /\ d.files = w.files /\ d.before = w.before
  BY DEF IInv, LocalInv, Walk
<1> HIDE DEF d
<1>3. CASE w.alone
  <2>1. done' = d
    BY <1>3 DEF Ends, d
  <2>2. AloneExact'
    BY <1>2, <1>3, <2>1 DEF AloneExact, Files
  <2>3. \A q \in Process \ {p} : ~Walking(q)
    BY <1>3 DEF IInv, OnlyOne, Lone
  <2> QED
    BY <1>1, <2>2, <2>3, ToInv DEF Ends
<1>4. CASE ~w.alone
  <2>1. done' = Idle
    BY <1>4 DEF Ends
  <2> QED
    BY <1>1, <2>1, ToInv DEF Ends
<1> QED
  BY <1>3, <1>4

\* A walk with nothing left to read below the resource has nothing to go to.
LEMMA NothingLeft ==
  ASSUME NEW w, LocalInv(w), w.op \in {"zip", "rm"}, w.pc \notin Tops, w.node = Root, w.left[Root] = {}
  PROVE  ToDo(w) = {} /\ Agenda(w) = {Root}
<1>1. Open(w) = {Root}
  BY NamesAreSequences DEF Open, Line
<1>2. \A d \in Dirs : w.left[d] = {}
  BY <1>1, NodeFirst
<1> QED
  BY <1>1, <1>2 DEF ToDo, Agenda

LEMMA ReaddirInv ==
  ASSUME IInv, NEW p \in Process, Readdir(p)
  PROVE  IInv'
<1> DEFINE w == walk[p]
           x == w.node
<1>1. /\ w.pc = "readdir" /\ w.op \in {"zip", "rm"} /\ LocalInv(w) /\ Walking(p)
      /\ x \in Dirs /\ w.pc \notin Tops
  BY DEF IInv, Readdir, LocalInv, Walking, Tops
<1>2. AgendaInv(w) /\ w.left \in [Dirs -> SUBSET Name] /\ x \in Name /\ w \in Walk
  BY <1>1, AgendaTypes DEF LocalInv
<1>3. CASE \E n \in w.left[x] : First(n, w.left[x]) /\ Entry(p, n)
  BY <1>1, <1>3, EntryInv DEF Readdir
<1>4. CASE w.left[x] = {} /\ w.op = "rm" /\ Go(p, [w EXCEPT !.pc = "rmdir"])
  <2> DEFINE me == [w EXCEPT !.pc = "rmdir"]
  <2>1. me \in Walk
    BY <1>2 DEF Walk
  <2>2. /\ me.pc = "rmdir" /\ me.node = x /\ me.op = w.op /\ me.left = w.left
        /\ me.alone = w.alone /\ me.files = w.files /\ me.before = w.before
    BY <1>2 DEF Walk
  <2> HIDE DEF me
  <2>3. Open(me) = Open(w) /\ ToDo(me) = ToDo(w)
    BY <1>1, <2>2 DEF Open, ToDo, Tops
  <2>4. AgendaInv(me)
    BY <1>2, <2>2, <2>3 DEF AgendaInv
  <2>5. LocalInv(me)
    BY <1>1, <1>4, <2>1, <2>2, <2>4 DEF LocalInv
  <2> QED
    BY <1>1, <1>4, <2>2, <2>3, <2>5, SameInv DEF me, Readdir
<1>5. CASE w.left[x] = {} /\ w.op = "zip" /\ x # Root /\ Go(p, [w EXCEPT !.node = Front(@)])
  <2> DEFINE me == [w EXCEPT !.node = Front(x)]
  <2>1. Front(x) \in Dirs /\ Front(x) \in Name
    BY <1>2, <1>5, AboveOf, NamesAreSequences
  <2>2. me \in Walk
    BY <1>2, <2>1 DEF Walk
  <2>3. /\ me.pc = "readdir" /\ me.node = Front(x) /\ me.op = w.op /\ me.left = w.left
        /\ me.alone = w.alone /\ me.files = w.files /\ me.before = w.before
    BY <1>1, <1>2 DEF Walk
  <2>4. Go(p, me)
    BY <1>5
  <2> HIDE DEF me
  <2>5. AgendaInv(me) /\ Open(me) = Open(w) \ {x} /\ ToDo(me) = ToDo(w) \ {x}
    BY <1>1, <1>5, <2>3, UpAgenda
  <2>6. x \notin ToDo(w)
    BY <1>1, <1>5, NodeFirst DEF ToDo
  <2>7. LocalInv(me)
    BY <1>1, <2>1, <2>2, <2>3, <2>5 DEF LocalInv
  <2>8. Present(w, tree) => Present(me, tree)
    BY <2>5 DEF Present, Agenda
  <2>9. ZipCovers(w, tree) => ZipCovers(me, tree)
    BY <2>3, <2>5, <2>6 DEF ZipCovers, Ahead
  <2>10. me.alone => LoneInv(me, tree)
    BY <1>1, <1>5, <2>3, <2>8, <2>9 DEF IInv, Lone, LoneInv
  <2> QED
    BY <1>1, <1>5, <2>3, <2>4, <2>7, <2>10, KeepInv DEF Readdir
<1>6. CASE w.left[x] = {} /\ w.op = "zip" /\ x = Root /\ Ends(p, "ok")
  <2>1. ToDo(w) = {}
    BY <1>1, <1>6, NothingLeft
  <2>2. w.alone => tree = w.before /\ ZipCovers(w, tree)
    BY <1>1, <1>6 DEF IInv, Lone, LoneInv
  <2>3. ZipCovers(w, tree) => w.files = Files(tree)
    BY <2>1 DEF ZipCovers, Ahead, Files
  <2>4. kinds # {"rm"}
    BY <1>1, <1>6 DEF IInv, OnlyOne
  <2>5. TreeInv(tree) /\ tree' = tree
    BY DEF IInv, Readdir
  <2> QED
    BY <1>1, <1>6, <2>2, <2>3, <2>4, <2>5, EndsInv
<1> QED
  BY <1>3, <1>4, <1>5, <1>6 DEF Readdir

LEMMA ReadInv ==
  ASSUME IInv, NEW p \in Process, Read(p)
  PROVE  IInv'
<1> DEFINE w == walk[p]
           x == w.node
<1>1. w.pc = "read" /\ w.op = "zip" /\ LocalInv(w) /\ Walking(p) /\ x \notin Dirs /\ w.pc \in Tops
  BY DEF IInv, Read, LocalInv, Walking, Tops
<1>2. AgendaInv(w) /\ x \in Name /\ w \in Walk
  BY <1>1, AgendaTypes DEF LocalInv
<1>3. CASE tree[x] = Absent
  <2>1. ~Present(w, tree)
    BY <1>1, <1>3 DEF Present, Agenda, ToDo
  <2> QED
    BY <1>1, <1>3, <2>1, GoneInv DEF Read
<1>4. CASE tree[x] # Absent
  <2> DEFINE files == w.files \cup {<<x, tree[x]>>}
             me == [w EXCEPT !.pc = "readdir", !.node = Front(x), !.files = files]
  <2>1. Go(p, me) /\ UNCHANGED tree
    BY <1>4 DEF Read
  <2>2. x # Root /\ Front(x) \in Dirs /\ Front(x) \in Name
    BY <1>1, <1>2, AboveOf, NamesAreSequences
  <2>3. tree[x] \in Version
    BY <1>1, <1>2, <1>4 DEF IInv, TreeInv, Node
  <2>4. files \in SUBSET (Name \X Version)
    BY <1>2, <2>3 DEF Walk
  <2> HIDE DEF files
  <2>5. /\ me \in Walk /\ me.pc = "readdir" /\ me.node = Front(x) /\ me.op = w.op /\ me.left = w.left
        /\ me.alone = w.alone /\ me.files = files /\ me.before = w.before
    BY <1>2, <2>2, <2>4 DEF Walk
  <2> HIDE DEF me
  <2> USE DEF files
  <2>6. AgendaInv(me) /\ Open(me) = Open(w) \ {x} /\ ToDo(me) = ToDo(w) \ {x}
    BY <1>1, <2>2, <2>5, UpAgenda
  <2>7. LocalInv(me)
    BY <1>1, <2>2, <2>5, <2>6 DEF LocalInv
  <2>8. Present(w, tree) => Present(me, tree)
    BY <2>6 DEF Present, Agenda
  <2>9. ZipCovers(w, tree) => ZipCovers(me, tree)
    <3> SUFFICES ASSUME ZipCovers(w, tree) PROVE ZipCovers(me, tree)
      OBVIOUS
    <3>1. me.files \subseteq Files(tree)
      BY <1>2, <2>3, <2>5 DEF ZipCovers, Files
    <3>2. ASSUME NEW n \in Name, tree[n] \in Version PROVE <<n, tree[n]>> \in me.files \/ Ahead(me, n)
      <4>1. CASE <<n, tree[n]>> \in w.files
        BY <2>5, <4>1
      <4>2. CASE n = x
        BY <2>5, <4>2
      <4>3. CASE n # x /\ Ahead(w, n)
        <5>1. x \notin Line(n)
          BY <1>1, <4>3, AboveOf DEF Line
        <5> QED
          BY <2>6, <4>3, <5>1 DEF Ahead
      <4> QED
        BY <3>2, <4>1, <4>2, <4>3 DEF ZipCovers
    <3> QED
      BY <3>1, <3>2 DEF ZipCovers
  <2>10. me.alone => LoneInv(me, tree)
    BY <1>1, <2>5, <2>8, <2>9 DEF IInv, Lone, LoneInv
  <2> QED
    BY <1>1, <2>1, <2>5, <2>7, <2>10, KeepInv
<1> QED
  BY <1>3, <1>4

-----------------------------------------------------------------------------
(* Removals.                                                               *)

\* A removal that has read a directory to the end finds it empty if it has
\* covered whatever there is.
LEMMA FoundEmpty ==
  ASSUME NEW w, LocalInv(w), w.pc = "rmdir", TreeInv(tree), RmCovers(w, tree)
  PROVE  Listed(w.node) = {}
<1> DEFINE x == w.node
<1>1. w.op = "rm" /\ w.left[x] = {} /\ x \in Name /\ w.pc \notin Tops /\ Open(w) = Line(x)
  <2>1. w.op = "rm" /\ w.left[x] = {} /\ w.pc \notin Tops
    BY DEF LocalInv, Tops
  <2> QED
    BY <2>1, AgendaTypes DEF Open
<1> SUFFICES ASSUME NEW c \in Listed(x) PROVE FALSE
  OBVIOUS
<1>2. c \in Name /\ c # Root /\ Front(c) = x /\ tree[c] # Absent
  BY DEF Listed
<1>3. Above(c) = Line(x) /\ c \notin Above(c) /\ x \in Above(c)
  BY <1>2, AboveOf DEF Line
<1>4. PICK m \in ToDo(w) : m \in Line(c)
  BY <1>1, <1>2, <1>3 DEF RmCovers, Ahead
<1>5. m # x
  BY <1>1, <1>4, NodeFirst DEF ToDo
<1>6. Aside(x, m) /\ m \in Name
  BY <1>1, <1>4, <1>5, NodeFirst, AgendaTypes
<1>7. x \notin Line(m) /\ m \notin Line(x)
  BY <1>1, <1>6, Order
<1> QED
  BY <1>3, <1>4, <1>7 DEF Line

\* A name that is removed, and below which there is nothing.
LEMMA TreeWithout ==
  ASSUME TreeInv(tree), NEW x \in Name, Listed(x) = {} \/ x \notin Dirs
  PROVE  /\ TreeInv([tree EXCEPT ![x] = Absent])
         /\ \A n \in Name : tree[n] # Absent => x \notin Above(n)
<1> DEFINE t == [tree EXCEPT ![x] = Absent]
<1>1. ASSUME NEW n \in Name, tree[n] # Absent, x \in Above(n) PROVE FALSE
  <2>1. PICK c \in Line(n) : c # Root /\ Front(c) = x /\ c \in Name
    BY <1>1, EntryOf
  <2>2. tree[c] # Absent
    BY <1>1, <2>1, FolderAssumption DEF TreeInv, Line
  <2>3. x \in Dirs
    BY <1>1, AboveOf
  <2> QED
    BY <2>1, <2>2, <2>3 DEF Listed
<1>2. t \in [Name -> Node] /\ t[x] = Absent /\ \A n \in Name \ {x} : t[n] = tree[n]
  BY DEF TreeInv, Node
<1> HIDE DEF t
<1>3. \A n \in Name : \A d \in Above(n) : d \in Name
  BY AboveOf, NamesAreSequences
<1>4. TreeInv(t)
  BY <1>1, <1>2, <1>3, FolderAssumption DEF TreeInv
<1> QED
  BY <1>1, <1>4 DEF t

\* One entry is removed.  The removal's agenda stays whole if it was, and what is
\* left comes later than the entry, so that no other's loses its order.
LEMMA RemoveInv ==
  ASSUME IInv, NEW p \in Process, Walking(p), walk[p].pc \in {"unlink", "rmdir"}, walk[p].node # Root,
         tree[walk[p].node] # Absent, Listed(walk[p].node) = {} \/ walk[p].node \notin Dirs,
         tree' = [tree EXCEPT ![walk[p].node] = Absent],
         Go(p, [walk[p] EXCEPT !.pc = "readdir", !.node = Front(@)])
  PROVE  IInv'
<1> DEFINE w == walk[p]
           x == w.node
           me == [w EXCEPT !.pc = "readdir", !.node = Front(x)]
           t == [tree EXCEPT ![x] = Absent]
<1>1. w.op = "rm" /\ LocalInv(w) /\ (w.pc \in Tops \/ w.left[x] = {}) /\ TreeInv(tree)
  BY DEF IInv, LocalInv, Tops
<1>2. w \in Walk /\ AgendaInv(w) /\ x \in Name /\ Front(x) \in Dirs /\ Front(x) \in Name
  BY <1>1, AgendaTypes, AboveOf, NamesAreSequences DEF LocalInv
<1>3. me \in Walk
  BY <1>2 DEF Walk
<1>4. /\ me.pc = "readdir" /\ me.node = Front(x) /\ me.op = w.op /\ me.left = w.left
      /\ me.alone = w.alone /\ me.files = w.files /\ me.before = w.before
  BY <1>2 DEF Walk
<1>5. Go(p, me) /\ tree' = t
  OBVIOUS
<1>6. TreeInv(t) /\ \A n \in Name : tree[n] # Absent => x \notin Above(n)
  BY <1>1, <1>2, TreeWithout
<1>7. t[x] = Absent /\ \A n \in Name \ {x} : t[n] = tree[n]
  BY <1>1, <1>2 DEF TreeInv
<1> HIDE DEF me, t
<1>8. AgendaInv(me) /\ Open(me) = Open(w) \ {x} /\ ToDo(me) = ToDo(w) \ {x}
  BY <1>1, <1>4, UpAgenda
<1>9. LocalInv(me)
  BY <1>1, <1>2, <1>3, <1>4, <1>8 DEF LocalInv
<1>10. Agenda(me) = Agenda(w) \ {x} /\ x \in Agenda(w) /\ Agenda(w) \subseteq Name
  BY <1>1, <1>8, AgendaTypes, NamesAreSequences DEF Agenda, ToDo, Open, Line
<1>11. Present(w, tree) => Present(me, t)
  BY <1>7, <1>10 DEF Present
<1>12. InOrder(w, tree) => Present(w, tree)
  <2>1. \A n \in Agenda(w) \ {x} : Before(x, n)
    BY <1>1, NodeFirst
  <2> QED
    BY <1>10, <2>1 DEF InOrder, Present
<1>13. Present(me, t) => InOrder(me, t)
  BY DEF Present, InOrder
<1>14. RmCovers(w, tree) => RmCovers(me, t)
  <2> SUFFICES ASSUME RmCovers(w, tree), NEW n \in Name, t[n] # Absent PROVE n \in Open(me) \/ Ahead(me, n)
    BY DEF RmCovers
  <2>1. n # x /\ tree[n] # Absent /\ x \notin Line(n)
    BY <1>6, <1>7 DEF Line
  <2> QED
    BY <1>8, <2>1 DEF RmCovers, Ahead
<1>15. ASSUME RmCovers(w, tree), NEW n \in Name, n # x, tree[n] # Absent PROVE ~Before(n, x)
  <2>1. CASE n \in Open(w)
    BY <1>1, <1>2, <1>15, <2>1, NodeFirst, Strict DEF Before
  <2>2. CASE Ahead(w, n)
    <3>1. PICK k \in ToDo(w) : k \in Line(n)
      BY <2>2 DEF Ahead
    <3>2. k # x
      BY <1>6, <1>15, <3>1 DEF Line
    <3>3. Aside(x, k) /\ k \in Name
      BY <1>1, <3>1, <3>2, NodeFirst, AgendaTypes
    <3>4. Line(k) \subseteq Line(n)
      BY <3>1, AboveOf
    <3>5. Aside(x, n)
      BY <3>3, <3>4 DEF Aside
    <3> QED
      BY <1>2, <3>5, Order
  <2> QED
    BY <1>15, <2>1, <2>2 DEF RmCovers
<1>16. ASSUME RmCovers(w, tree), NEW q \in Process, Walking(q), walk[q].op = "rm", InOrder(walk[q], tree)
       PROVE  InOrder(walk[q], t)
  <2> DEFINE v == walk[q]
  <2>1. Agenda(v) \subseteq Name
    BY <1>16, AgendaTypes, NamesAreSequences DEF IInv, Agenda
  <2>2. \A m, n \in Agenda(v) : Before(m, n) /\ tree[m] # Absent => tree[n] # Absent
    BY <1>16 DEF InOrder
  <2> HIDE DEF v
  <2>3. \A m, n \in Agenda(v) : Before(m, n) /\ t[m] # Absent => t[n] # Absent
    BY <1>7, <1>15, <1>16, <2>1, <2>2
  <2> QED
    BY <2>3 DEF InOrder, v
<1>17. \A v : RmCovers(v, tree) => RmCovers(v, t)
  BY <1>7 DEF RmCovers
<1>18. kinds = {"rm"} =>
           /\ RmCovers(w, tree) /\ InOrder(w, tree)
           /\ \A q \in Process \ {p} : Walking(q) => /\ RmCovers(walk[q], tree) /\ InOrder(walk[q], tree)
                                                     /\ walk[q].op = "rm"
  BY DEF IInv, RemovalInv, OnlyOne
<1>19. me.alone => LoneInv(me, t)
  BY <1>1, <1>4, <1>11, <1>14 DEF IInv, Lone, LoneInv
<1>20. done'.pc = "idle"
  BY DEF Go, IInv, DoneInv
<1>21. kinds = {"rm"} =>
           /\ \A q \in Process \ {p} : Walking(q) => RmCovers(walk[q], t) /\ InOrder(walk[q], t)
           /\ RmCovers(me, t) /\ InOrder(me, t) /\ Present(me, t)
  BY <1>11, <1>12, <1>13, <1>14, <1>16, <1>17, <1>18
<1> QED
  BY <1>4, <1>5, <1>6, <1>9, <1>19, <1>20, <1>21, ToInv DEF Go

LEMMA UnlinkInv ==
  ASSUME IInv, NEW p \in Process, Unlink(p)
  PROVE  IInv'
<1> DEFINE w == walk[p]
           x == w.node
<1>1. w.pc = "unlink" /\ w.op = "rm" /\ LocalInv(w) /\ Walking(p) /\ x \notin Dirs /\ x # Root
  BY NamesAreSequences DEF IInv, Unlink, LocalInv, Walking
<1>2. CASE tree[x] = Absent
  <2>1. ~Present(w, tree)
    BY <1>1, <1>2 DEF Present, Agenda, ToDo, Tops
  <2> QED
    BY <1>1, <1>2, <2>1, GoneInv DEF Unlink
<1>3. CASE tree[x] # Absent
  BY <1>1, <1>3, RemoveInv DEF Unlink
<1> QED
  BY <1>2, <1>3

\* A removal in whose way nobody gets finds its directories, and empty.
LEMMA RmdirInv ==
  ASSUME IInv, NEW p \in Process, Rmdir(p)
  PROVE  IInv'
<1> DEFINE w == walk[p]
           x == w.node
<1>1. /\ w.pc = "rmdir" /\ w.op = "rm" /\ LocalInv(w) /\ Walking(p) /\ x \in Dirs /\ x \in Name
      /\ w.left[x] = {} /\ w.pc \notin Tops /\ TreeInv(tree)
  BY NamesAreSequences DEF IInv, Rmdir, LocalInv, Walking, Tops
<1>2. CASE tree[x] = Absent
  <2>1. ~Present(w, tree)
    BY <1>1, <1>2 DEF Present, Agenda, Open, Line
  <2> QED
    BY <1>1, <1>2, <2>1, GoneInv DEF Rmdir
<1>3. CASE Listed(x) # {}
  <2>1. ~RmCovers(w, tree)
    BY <1>1, <1>3, FoundEmpty
  <2>2. ~w.alone /\ kinds # {"rm"}
    BY <1>1, <2>1 DEF IInv, Lone, LoneInv, RemovalInv
  <2> QED
    BY <1>1, <1>3, <2>2, FailsInv DEF Rmdir
<1>4. CASE tree[x] # Absent /\ Listed(x) = {} /\ x # Root
  BY <1>1, <1>4, RemoveInv DEF Rmdir
<1>5. CASE tree[x] # Absent /\ Listed(x) = {} /\ x = Root
  <2> DEFINE t == [tree EXCEPT ![x] = Absent]
  <2>1. t = Nothing
    <3>1. ASSUME NEW n \in Name \ {Root} PROVE tree[n] = Absent
      BY <1>1, <1>5, TreeWithout, NamesAreSequences
    <3> QED
      BY <1>1, <1>5, <3>1 DEF TreeInv, Nothing
  <2>2. TreeInv(t)
    BY <1>1, <1>5, TreeWithout
  <2> HIDE DEF t
  <2>3. \A n \in Name : t[n] = Absent
    BY <2>1 DEF Nothing
  <2>4. \A q \in Process : Walking(q) /\ walk[q].op = "rm" => RmCovers(walk[q], t) /\ InOrder(walk[q], t)
    <3> SUFFICES ASSUME NEW q \in Process, Walking(q), walk[q].op = "rm"
                 PROVE  RmCovers(walk[q], t) /\ InOrder(walk[q], t)
      OBVIOUS
    <3>1. Agenda(walk[q]) \subseteq Name
      BY AgendaTypes, NamesAreSequences DEF IInv, Agenda
    <3> QED
      BY <2>3, <3>1 DEF RmCovers, InOrder
  <2>5. kinds = {"rm"} => \A q \in Process : Walking(q) => walk[q].op = "rm"
    BY DEF IInv, OnlyOne
  <2>6. Ends(p, "ok") /\ tree' = t
    BY <1>5 DEF Rmdir, t
  <2> QED
    BY <1>1, <1>5, <2>1, <2>2, <2>3, <2>4, <2>5, <2>6, EndsInv
<1> QED
  BY <1>2, <1>3, <1>4, <1>5

-----------------------------------------------------------------------------
(* Extractions.                                                            *)

\* The archive that an extraction has.
LEMMA Archive ==
  ASSUME NEW w, LocalInv(w), w.op = "extract"
  PROVE  \E v \in Version :
           /\ w.files = {<<n, v>> : n \in Holds(v)} /\ w.entries \subseteq Holds(v)
           /\ Holds(v) \subseteq Name \ Dirs
           /\ w.pc = "write" => w.node \in Holds(v) \ w.entries
           /\ \A n : \A u : <<n, u>> \in w.files <=> n \in Holds(v) /\ u = v
<1>1. PICK v \in Version : /\ w.files = {<<n, v>> : n \in Holds(v)} /\ w.entries \subseteq Holds(v)
                           /\ w.pc = "write" => w.node \in Holds(v) \ w.entries
  BY DEF LocalInv, ExtractInv
<1>2. \A n : \A u : <<n, u>> \in w.files <=> n \in Holds(v) /\ u = v
  BY <1>1
<1> QED
  BY <1>1, <1>2, FolderAssumption

LEMMA MkpathInv ==
  ASSUME IInv, NEW p \in Process, Mkpath(p)
  PROVE  IInv'
<1> DEFINE w == walk[p]
<1>1. w.pc = "mkpath" /\ w.op = "extract" /\ LocalInv(w) /\ Walking(p) /\ w \in Walk /\ TreeInv(tree)
  BY DEF IInv, Mkpath, LocalInv, Walking
<1>2. PICK v \in Version :
        /\ w.files = {<<n, v>> : n \in Holds(v)} /\ w.entries \subseteq Holds(v)
        /\ Holds(v) \subseteq Name \ Dirs
        /\ \A n : \A u : <<n, u>> \in w.files <=> n \in Holds(v) /\ u = v
  BY <1>1, Archive
<1>3. kinds # {"rm"} /\ (w.alone => Extracted(w, tree))
  BY <1>1 DEF IInv, OnlyOne, Lone, LoneInv
<1>4. \A n \in Name : LET written == \E u \in Version : <<n, u>> \in w.files /\ n \notin w.entries IN
        Extracted(w, tree) => IF written THEN <<n, tree[n]>> \in w.files
                              ELSE tree[n] = w.before[n] \/ {tree[n], w.before[n]} \cap Version = {}
  BY <1>1 DEF Extracted
<1>5. ASSUME NEW n \in w.entries, tree' = [m \in Name |-> IF m \in Above(n) THEN Dir ELSE tree[m]],
             Go(p, [w EXCEPT !.pc = "write", !.node = n, !.entries = @ \ {n}])
      PROVE  IInv'
  <2> DEFINE me == [w EXCEPT !.pc = "write", !.node = n, !.entries = w.entries \ {n}]
             t == [m \in Name |-> IF m \in Above(n) THEN Dir ELSE tree[m]]
  <2>1. n \in Holds(v) /\ n \in Name /\ n \notin Dirs /\ n # Root
    BY <1>2, NamesAreSequences
  <2>2. Above(n) \subseteq Dirs /\ Above(n) \subseteq Name /\ Front(n) \in Above(n)
    BY <2>1, AboveOf, NamesAreSequences
  <2>3. me \in Walk
    BY <1>1, <2>1 DEF Walk
  <2>4. /\ me.pc = "write" /\ me.node = n /\ me.op = w.op /\ me.entries = w.entries \ {n}
        /\ me.alone = w.alone /\ me.files = w.files /\ me.before = w.before
    BY <1>1 DEF Walk
  <2>5. t \in [Name -> Node] /\ \A m \in Name : t[m] = IF m \in Above(n) THEN Dir ELSE tree[m]
    BY <1>1 DEF TreeInv, Node
  <2>6. Go(p, me) /\ tree' = t
    BY <1>5
  <2> HIDE DEF me, t
  <2>7. TreeInv(t)
    <3>1. ASSUME NEW m \in Name PROVE /\ t[m] \in Version => m \notin Dirs
                                      /\ t[m] = Dir => m \in Dirs
      BY <1>1, <2>2, <2>5, FolderAssumption DEF TreeInv
    <3>2. ASSUME NEW m \in Name, t[m] # Absent, NEW d \in Above(m) PROVE t[d] = Dir
      <4>1. d \in Name
        BY AboveOf, NamesAreSequences
      <4>2. CASE m \in Above(n)
        <5>1. d \in Above(n)
          BY <2>1, <4>2, AboveOf DEF Line
        <5> QED
          BY <2>5, <4>1, <5>1
      <4>3. CASE m \notin Above(n)
        BY <1>1, <2>5, <3>2, <4>1, <4>3 DEF TreeInv
      <4> QED
        BY <4>2, <4>3
    <3> QED
      BY <2>5, <3>1, <3>2 DEF TreeInv
  <2>8. LocalInv(me)
    <3>1. ExtractInv(me)
      BY <1>2, <2>1, <2>4 DEF ExtractInv
    <3> QED
      BY <1>1, <2>3, <2>4, <3>1 DEF LocalInv
  <2>9. ASSUME Extracted(w, tree) PROVE Extracted(me, t)
    <3> SUFFICES ASSUME NEW m \in Name
                 PROVE  IF \E u \in Version : <<m, u>> \in w.files /\ m \notin w.entries \ {n} /\ m # n
                        THEN <<m, t[m]>> \in w.files
                        ELSE t[m] = w.before[m] \/ {t[m], w.before[m]} \cap Version = {}
      BY <2>4 DEF Extracted
    <3>1. CASE m \in Above(n)
      <4>1. t[m] = Dir /\ m \in Dirs /\ m \notin Holds(v) /\ Dir \notin Version
        BY <1>2, <2>2, <2>5, <3>1, FolderAssumption
      <4>2. tree[m] \notin Version
        BY <1>1, <4>1 DEF TreeInv
      <4> QED
        BY <1>2, <1>4, <2>9, <4>1, <4>2
    <3>2. CASE m \notin Above(n)
      BY <1>4, <2>5, <2>9, <3>2
    <3> QED
      BY <3>1, <3>2
  <2>10. me.alone => LoneInv(me, t)
    BY <1>1, <1>3, <2>2, <2>4, <2>5, <2>9 DEF LoneInv
  <2>11. done'.pc = "idle"
    BY <1>1, <2>6 DEF Go, IInv, DoneInv
  <2> QED
    BY <1>1, <1>3, <2>4, <2>6, <2>7, <2>8, <2>10, <2>11, ToInv DEF Go
<1>6. CASE w.entries = {} /\ Ends(p, "ok") /\ UNCHANGED tree
  <2>1. ASSUME w.alone
        PROVE  Files(tree) = w.files \cup {f \in Files(w.before) : \A g \in w.files : f[1] # g[1]}
    <3> DEFINE kept == {f \in Files(w.before) : \A g \in w.files : f[1] # g[1]}
    <3>1. ASSUME NEW n \in Holds(v) PROVE tree[n] = v
      BY <1>2, <1>3, <1>4, <1>6, <2>1
    <3>2. ASSUME NEW n \in Name \ Holds(v)
          PROVE  tree[n] = w.before[n] \/ {tree[n], w.before[n]} \cap Version = {}
      BY <1>2, <1>3, <1>4, <2>1
    <3>3. w.files = {<<n, tree[n]>> : n \in Holds(v)}
      BY <1>2, <3>1
    <3>4. kept = {<<n, w.before[n]>> : n \in {m \in Name \ Holds(v) : w.before[m] \in Version}}
      <4>1. \A n : (\A g \in w.files : n # g[1]) <=> n \notin Holds(v)
        <5>1. \A g \in w.files : \E k \in Holds(v) : g = <<k, v>> /\ g[1] = k
          BY <1>2
        <5>2. \A n \in Holds(v) : <<n, v>> \in w.files /\ <<n, v>>[1] = n
          BY <1>2
        <5> QED
          BY <5>1, <5>2
      <4>2. kept = {f \in Files(w.before) : f[1] \notin Holds(v)}
        BY <4>1
      <4> HIDE DEF kept
      <4>3. ASSUME NEW f
            PROVE  f \in kept <=> \E n \in Name \ Holds(v) : w.before[n] \in Version /\ f = <<n, w.before[n]>>
        <5>1. f \in Files(w.before) <=> \E n \in Name : w.before[n] \in Version /\ f = <<n, w.before[n]>>
          BY DEF Files
        <5>2. \A n : f = <<n, w.before[n]>> => f[1] = n
          OBVIOUS
        <5> QED
          BY <4>2, <5>1, <5>2
      <4> QED
        BY <4>3
    <3>5. Files(tree) = {<<n, tree[n]>> : n \in Holds(v)}
                        \cup {<<n, tree[n]>> : n \in {m \in Name \ Holds(v) : tree[m] \in Version}}
      BY <1>2, <3>1 DEF Files
    <3>6. {<<n, tree[n]>> : n \in {m \in Name \ Holds(v) : tree[m] \in Version}} = kept
      BY <3>2, <3>4
    <3> QED
      BY <3>3, <3>5, <3>6
  <2> QED
    BY <1>1, <1>3, <1>6, <2>1, EndsInv
<1> QED
  BY <1>5, <1>6 DEF Mkpath

LEMMA WriteInv ==
  ASSUME IInv, NEW p \in Process, Write(p)
  PROVE  IInv'
<1> DEFINE w == walk[p]
           x == w.node
<1>1. w.pc = "write" /\ w.op = "extract" /\ LocalInv(w) /\ Walking(p) /\ w \in Walk /\ TreeInv(tree)
  BY DEF IInv, Write, LocalInv, Walking
<1>2. PICK v \in Version :
        /\ w.files = {<<n, v>> : n \in Holds(v)} /\ w.entries \subseteq Holds(v)
        /\ Holds(v) \subseteq Name \ Dirs
        /\ x \in Holds(v) \ w.entries
        /\ \A n : \A u : <<n, u>> \in w.files <=> n \in Holds(v) /\ u = v
  BY <1>1, Archive
<1>3. kinds # {"rm"} /\ (w.alone => Extracted(w, tree) /\ tree[Front(x)] = Dir)
  BY <1>1 DEF IInv, OnlyOne, Lone, LoneInv
<1>4. /\ x \in Name /\ x \notin Dirs /\ x # Root
      /\ Above(x) = Line(Front(x)) /\ Front(x) \in Dirs /\ Front(x) \in Name
  BY <1>2, AboveOf, NamesAreSequences
<1>5. CASE tree[Front(x)] = Absent
  <2>1. ~w.alone
    BY <1>3, <1>5, FolderAssumption
  <2> QED
    BY <1>1, <1>3, <1>5, <2>1, FailsInv DEF Write
<1>6. CASE tree[Front(x)] # Absent
  <2> DEFINE me == [w EXCEPT !.pc = "mkpath"]
             t == [tree EXCEPT ![x] = v]
  <2>1. tree' = t /\ Go(p, me)
    BY <1>2, <1>6 DEF Write
  <2>2. me \in Walk
    BY <1>1 DEF Walk
  <2>3. /\ me.pc = "mkpath" /\ me.node = w.node /\ me.op = w.op /\ me.entries = w.entries
        /\ me.alone = w.alone /\ me.files = w.files /\ me.before = w.before
    BY <1>1 DEF Walk
  <2>4. t \in [Name -> Node] /\ t[x] = v /\ \A n \in Name \ {x} : t[n] = tree[n]
    BY <1>1, <1>4 DEF TreeInv, Node
  <2> HIDE DEF me, t
  <2>5. TreeInv(t)
    <3>1. \A d \in Above(x) : tree[d] = Dir
      BY <1>1, <1>4, <1>6 DEF TreeInv, Node, Line
    <3>2. ASSUME NEW n \in Name, t[n] # Absent, NEW d \in Above(n) PROVE t[d] = Dir
      <4>1. d \in Name /\ d # x
        BY <1>4, AboveOf, NamesAreSequences
      <4>2. tree[d] = Dir
        BY <1>1, <2>4, <3>1, <3>2 DEF TreeInv
      <4> QED
        BY <2>4, <4>1, <4>2
    <3>3. ASSUME NEW n \in Name PROVE /\ t[n] \in Version => n \notin Dirs
                                      /\ t[n] = Dir => n \in Dirs
      BY <1>1, <1>4, <2>4, FolderAssumption DEF TreeInv
    <3> QED
      BY <2>4, <3>2, <3>3 DEF TreeInv
  <2>6. LocalInv(me)
    <3>1. ExtractInv(me)
      BY <1>2, <2>3 DEF ExtractInv
    <3> QED
      BY <1>1, <2>2, <2>3, <3>1 DEF LocalInv
  <2>7. ASSUME Extracted(w, tree) PROVE Extracted(me, t)
    <3> SUFFICES ASSUME NEW n \in Name
                 PROVE  IF \E u \in Version : <<n, u>> \in w.files /\ n \notin w.entries
                        THEN <<n, t[n]>> \in w.files
                        ELSE t[n] = w.before[n] \/ {t[n], w.before[n]} \cap Version = {}
      <4>1. \A n : (me.pc = "write" => n # me.node)
        BY <2>3
      <4> QED
        BY <2>3, <4>1 DEF Extracted
    <3>1. CASE n = x
      BY <1>2, <2>4, <3>1
    <3>2. CASE n # x
      <4>1. IF \E u \in Version : <<n, u>> \in w.files /\ n \notin w.entries
            THEN <<n, tree[n]>> \in w.files
            ELSE tree[n] = w.before[n] \/ {tree[n], w.before[n]} \cap Version = {}
        BY <1>1, <2>7, <3>2 DEF Extracted
      <4> QED
        BY <2>4, <3>2, <4>1
    <3> QED
      BY <3>1, <3>2
  <2>8. me.alone => LoneInv(me, t)
    BY <1>1, <1>3, <2>3, <2>7 DEF LoneInv
  <2>9. done'.pc = "idle"
    BY <1>1, <2>1 DEF Go, IInv, DoneInv
  <2> QED
    BY <1>1, <1>3, <2>1, <2>3, <2>5, <2>6, <2>8, <2>9, ToInv DEF Go
<1> QED
  BY <1>5, <1>6

-----------------------------------------------------------------------------
(* The beginning of a walk.                                                *)

LEMMA StartInv ==
  ASSUME IInv, NEW p \in Process, NEW me,
         p = begun + 1, begun' = p, kinds' = kinds \cup {me.op}, done' = Idle, tree' = tree,
         walk' = [q \in Process |-> IF q = p THEN me ELSE
                    [walk[q] EXCEPT !.alone = @ /\ q \notin {r \in Process : Walking(r)}]],
         LocalInv(me), me.pc # "idle",
         me.alone => LoneInv(me, tree) /\ \A q \in Process : ~Walking(q),
         me.op = "rm" => RmCovers(me, tree) /\ InOrder(me, tree) /\ Present(me, tree)
  PROVE  IInv'
<1> DEFINE others == {q \in Process : Walking(q)}
           after(q) == [walk[q] EXCEPT !.alone = @ /\ q \notin others]
<1>1. /\ p = begun + 1 /\ begun' = p /\ kinds' = kinds \cup {me.op} /\ done' = Idle /\ tree' = tree
      /\ walk' = [q \in Process |-> IF q = p THEN me ELSE after(q)]
  OBVIOUS
<1>2. /\ DOMAIN walk' = Process /\ walk' = [q \in Process |-> walk'[q]] /\ walk'[p] = me
      /\ \A q \in Process \ {p} : walk'[q] = after(q)
  BY <1>1
<1>3. begun \in Nat /\ p \in 1..MaxWalks /\ MaxWalks \in Nat
  BY FolderAssumption DEF IInv, Process
<1>4. \A q \in Process : Walking(q) => q \in Nat /\ q <= begun /\ walk[q].op \in kinds
  BY DEF IInv, OnlyOne, Process
<1>5. ~Walking(p)
  BY <1>1, <1>3, <1>4
<1>6. ASSUME NEW q \in Process
      PROVE  /\ after(q).op = walk[q].op /\ after(q).pc = walk[q].pc /\ after(q).node = walk[q].node
             /\ after(q).left = walk[q].left /\ after(q).entries = walk[q].entries
             /\ after(q).files = walk[q].files /\ after(q).before = walk[q].before
             /\ after(q).alone => ~Walking(q)
             /\ after(q) \in Walk /\ (walk[q].pc = "idle" => after(q) = walk[q])
  <2>1. walk[q] \in Walk /\ (walk[q].pc = "idle" => walk[q] = Idle)
    BY DEF IInv, LocalInv
  <2> DEFINE b == walk[q].alone /\ q \notin others
  <2>2. b \in BOOLEAN /\ (b => ~Walking(q))
    OBVIOUS
  <2>3. walk[q].pc = "idle" => (b <=> walk[q].alone)
    BY Zenon DEF Walking
  <2> HIDE DEF b
  <2> DEFINE v == [walk[q] EXCEPT !.alone = b]
  <2>4. /\ v.op = walk[q].op /\ v.pc = walk[q].pc /\ v.node = walk[q].node
        /\ v.left = walk[q].left /\ v.entries = walk[q].entries
        /\ v.files = walk[q].files /\ v.before = walk[q].before
        /\ v.alone = b /\ v \in Walk
    BY <2>1, <2>2 DEF Walk
  <2>5. (b <=> walk[q].alone) => v = walk[q]
    BY <2>1, <2>2 DEF Walk
  <2>6. v = after(q)
    BY DEF b
  <2> HIDE DEF v
  <2> QED
    BY <2>2, <2>3, <2>4, <2>5, <2>6
<1> HIDE DEF after
<1>7. ASSUME NEW q \in Process
      PROVE  /\ LocalInv(after(q))
             /\ \A t : RmCovers(walk[q], t) => RmCovers(after(q), t)
             /\ \A t : InOrder(walk[q], t) => InOrder(after(q), t)
  <2>1. LocalInv(walk[q])
    BY DEF IInv
  <2>2. Open(after(q)) = Open(walk[q]) /\ ToDo(after(q)) = ToDo(walk[q])
    BY <1>6 DEF Open, ToDo
  <2>3. AgendaInv(walk[q]) => AgendaInv(after(q))
    BY <1>6, <2>2 DEF AgendaInv
  <2>4. ExtractInv(walk[q]) => ExtractInv(after(q))
    BY <1>6 DEF ExtractInv
  <2>5. LocalInv(after(q))
    BY <1>6, <2>1, <2>3, <2>4 DEF LocalInv
  <2> QED
    BY <2>2, <2>5 DEF RmCovers, InOrder, Ahead, Agenda
<1>8. \A q \in Process : LocalInv(walk'[q])
  BY <1>2, <1>7
<1>9. TypeOK'
  BY <1>1, <1>8 DEF IInv, TypeOK, LocalInv
<1>10. ASSUME NEW q \in Process, walk'[q].pc # "idle"
       PROVE  (q # p => Walking(q)) /\ (walk'[q].alone => q = p /\ me.alone)
  <2>1. CASE q = p
    BY <1>2, <2>1
  <2>2. CASE q # p
    <3>1. walk'[q] = after(q) /\ after(q).pc = walk[q].pc
      BY <1>2, <1>6, <2>2
    <3>2. Walking(q)
      BY <1>10, <3>1 DEF Walking
    <3>3. ~after(q).alone
      BY <1>6, <3>2
    <3> QED
      BY <2>2, <3>1, <3>2, <3>3
  <2> QED
    BY <2>1, <2>2
<1>11. OnlyOne' /\ \A q \in Process : Lone(q)' => LoneInv(walk'[q], tree)
  <2>1. ASSUME NEW q \in Process, walk'[q].pc # "idle" PROVE q <= begun' /\ walk'[q].op \in kinds'
    <3>1. CASE q = p
      BY <1>1, <1>2, <1>3, <3>1
    <3>2. CASE q # p
      BY <1>1, <1>2, <1>3, <1>4, <1>6, <1>10, <2>1, <3>2
    <3> QED
      BY <3>1, <3>2
  <2>2. ASSUME NEW q \in Process, NEW r \in Process,
               walk'[q].pc # "idle", walk'[q].alone, walk'[r].pc # "idle"
        PROVE  q = r
    BY <1>10, <2>2
  <2>3. ASSUME NEW q \in Process, walk'[q].pc # "idle", walk'[q].alone PROVE LoneInv(walk'[q], tree)
    BY <1>2, <1>10, <2>3
  <2> QED
    BY <2>1, <2>2, <2>3 DEF OnlyOne, Lone, Walking
<1>12. RemovalInv(tree)'
  <2> SUFFICES ASSUME kinds' = {"rm"}
               PROVE  /\ \A q \in Process : walk'[q].pc # "idle" => /\ RmCovers(walk'[q], tree)
                                                                    /\ InOrder(walk'[q], tree)
                      /\ \E q \in Process : walk'[q].pc # "idle" /\ Present(walk'[q], tree)
    BY <1>1 DEF RemovalInv, Walking
  <2>1. me.op = "rm" /\ (kinds = {"rm"} \/ kinds = {})
    BY <1>1
  <2>2. ASSUME NEW q \in Process \ {p}, walk'[q].pc # "idle"
        PROVE  RmCovers(walk'[q], tree) /\ InOrder(walk'[q], tree)
    <3>1. Walking(q) /\ kinds = {"rm"}
      BY <1>2, <1>4, <1>6, <2>1, <2>2 DEF Walking
    <3>2. RmCovers(walk[q], tree) /\ InOrder(walk[q], tree)
      BY <3>1 DEF IInv, RemovalInv
    <3> QED
      BY <1>2, <1>7, <3>2
  <2> QED
    BY <1>2, <2>1, <2>2
<1>13. DoneInv'
  BY <1>1 DEF DoneInv, Idle
<1> QED
  BY <1>1, <1>2, <1>3, <1>8, <1>9, <1>11, <1>12, <1>13 DEF IInv

LEMMA BeginInv ==
  ASSUME IInv, NEW p \in Process, NEW w, Start(p, w), w \in Walk,
         \A b \in BOOLEAN : LET me == [w EXCEPT !.alone = b, !.before = tree] IN
           /\ LocalInv(me) /\ me.pc # "idle" /\ LoneInv(me, tree)
           /\ me.op = "rm" => RmCovers(me, tree) /\ InOrder(me, tree) /\ Present(me, tree)
  PROVE  IInv'
<1> DEFINE others == {q \in Process : Walking(q)}
           b == others = {}
           me == [w EXCEPT !.alone = b, !.before = tree]
<1>1. /\ p = begun + 1 /\ begun' = p /\ kinds' = kinds \cup {w.op} /\ done' = Idle /\ tree' = tree
      /\ walk' = [q \in Process |-> IF q = p THEN me ELSE [walk[q] EXCEPT !.alone = @ /\ q \notin others]]
  BY DEF Start
<1>2. b \in BOOLEAN /\ (b => \A q \in Process : ~Walking(q))
  OBVIOUS
<1>3. tree \in [Name -> Node]
  BY DEF IInv, TreeInv
<1>4. me.op = w.op
  BY DEF Walk
<1>5. me.alone = b
  BY DEF Walk
<1> HIDE DEF b
<1>6. /\ LocalInv(me) /\ me.pc # "idle" /\ LoneInv(me, tree)
      /\ me.op = "rm" => RmCovers(me, tree) /\ InOrder(me, tree) /\ Present(me, tree)
  BY <1>2
<1> HIDE DEF me
<1>7. me.alone => LoneInv(me, tree) /\ \A q \in Process : ~Walking(q)
  BY <1>2, <1>5, <1>6
<1> QED
  BY <1>1, <1>4, <1>6, <1>7, StartInv

\* Walks through the resource begin with it on their agenda.
LEMMA EnterInv ==
  ASSUME IInv, NEW p \in Process, tree[Root] = Dir, NEW w, Start(p, w),
         \/ w = [Idle EXCEPT !.op = "zip", !.pc = "opendir"]
         \/ w = [Idle EXCEPT !.op = "rm", !.pc = "lstat"]
  PROVE  IInv'
<1>1. PICK op, pc : /\ w = [Idle EXCEPT !.op = op, !.pc = pc]
                    /\ (op = "zip" /\ pc = "opendir") \/ (op = "rm" /\ pc = "lstat")
  OBVIOUS
<1>2. pc \in Tops /\ pc # "idle" /\ op \in {"zip", "rm"}
  BY <1>1 DEF Tops
<1>3. tree \in [Name -> Node] /\ Root \in Name /\ Root \in Dirs /\ Above(Root) = {}
  BY NamesAreSequences DEF IInv, TreeInv
<1>4. w \in Walk
  BY <1>1, <1>2, <1>3 DEF Idle, Walk, Nothing, Node
<1>5. ASSUME NEW b \in BOOLEAN, NEW me, me = [w EXCEPT !.alone = b, !.before = tree]
      PROVE  /\ LocalInv(me) /\ me.pc # "idle" /\ LoneInv(me, tree)
             /\ me.op = "rm" => RmCovers(me, tree) /\ InOrder(me, tree) /\ Present(me, tree)
  <2>1. /\ me \in Walk /\ me.op = op /\ me.pc = pc /\ me.node = Root /\ me.left = [d \in Dirs |-> {}]
        /\ me.files = {} /\ me.before = tree
    BY <1>1, <1>3, <1>4, <1>5 DEF Idle, Walk
  <2>2. Open(me) = {} /\ ToDo(me) = {Root} /\ Agenda(me) = {Root}
    BY <1>2, <1>3, <2>1 DEF Open, ToDo, Agenda
  <2>3. LocalInv(me)
    <3>1. AgendaInv(me)
      BY <2>1 DEF AgendaInv
    <3> QED
      BY <1>1, <1>3, <2>1, <3>1 DEF LocalInv
  <2>4. Present(me, tree) /\ InOrder(me, tree)
    BY <2>2, FolderAssumption DEF Present, InOrder
  <2>5. \A n \in Name : Ahead(me, n)
    BY <2>2, NamesAreSequences DEF Ahead, Line
  <2>6. RmCovers(me, tree) /\ ZipCovers(me, tree)
    BY <2>1, <2>5 DEF RmCovers, ZipCovers
  <2> QED
    BY <1>1, <2>1, <2>3, <2>4, <2>6 DEF LoneInv
<1> QED
  BY <1>4, <1>5, BeginInv

LEMMA ExtractsInv ==
  ASSUME IInv, NEW p \in Process, NEW v \in Version, Extract(p, v)
  PROVE  IInv'
<1> DEFINE w == [Idle EXCEPT !.op = "extract", !.pc = "mkpath", !.entries = Holds(v),
                             !.files = {<<n, v>> : n \in Holds(v)}]
<1>1. tree \in [Name -> Node] /\ Root \in Name /\ Holds(v) \in SUBSET Name
  BY NamesAreSequences, FolderAssumption DEF IInv, TreeInv
<1>2. {<<n, v>> : n \in Holds(v)} \in SUBSET (Name \X Version)
  BY <1>1
<1>3. w \in Walk
  BY <1>1, <1>2 DEF Idle, Walk, Nothing, Node
<1>4. ASSUME NEW b \in BOOLEAN, NEW me, me = [w EXCEPT !.alone = b, !.before = tree]
      PROVE  /\ LocalInv(me) /\ me.pc # "idle" /\ LoneInv(me, tree) /\ me.op # "rm"
  <2>1. /\ me \in Walk /\ me.op = "extract" /\ me.pc = "mkpath" /\ me.entries = Holds(v)
        /\ me.files = {<<n, v>> : n \in Holds(v)} /\ me.before = tree
    BY <1>1, <1>3, <1>4 DEF Idle, Walk
  <2>2. LocalInv(me)
    <3>1. ExtractInv(me)
      BY <2>1 DEF ExtractInv
    <3> QED
      BY <2>1, <3>1 DEF LocalInv
  <2>3. \A n, u : <<n, u>> \in me.files => n \in me.entries
    BY <2>1
  <2>4. Extracted(me, tree)
    BY <2>1, <2>3 DEF Extracted
  <2> QED
    BY <2>1, <2>2, <2>4 DEF LoneInv
<1>5. Start(p, w)
  BY DEF Extract
<1> HIDE DEF w
<1> QED
  BY <1>3, <1>4, <1>5, BeginInv

-----------------------------------------------------------------------------
(* The theorems.                                                           *)

LEMMA InitInv ==
  Init => IInv
<1> SUFFICES ASSUME Init PROVE IInv
  OBVIOUS
<1>1. PICK v \in Version : tree = Tree(v)
  BY DEF Init
<1>2. Holds(v) \subseteq Name \ Dirs
  BY FolderAssumption
<1>3. /\ tree \in [Name -> Node]
      /\ \A n \in Name : tree[n] = IF n \in Holds(v) THEN v
                                   ELSE IF \E f \in Holds(v) : n \in Above(f) THEN Dir ELSE Absent
  BY <1>1 DEF Tree, Node
<1>4. TreeInv(tree)
  <2>1. ASSUME NEW n \in Name PROVE /\ tree[n] \in Version => n \notin Dirs
                                    /\ tree[n] = Dir => n \in Dirs
    BY <1>2, <1>3, AboveOf, FolderAssumption
  <2>2. ASSUME NEW n \in Name, tree[n] # Absent, NEW d \in Above(n) PROVE tree[d] = Dir
    <3>1. d \in Name /\ d \in Dirs
      BY AboveOf, NamesAreSequences
    <3>2. \E f \in Holds(v) : d \in Above(f)
      <4>1. CASE n \in Holds(v)
        BY <4>1
      <4>2. CASE n \notin Holds(v)
        <5>1. PICK f \in Holds(v) : n \in Above(f)
          BY <1>3, <2>2, <4>2
        <5>2. n \in Line(f) /\ f \in Name
          BY <1>2, <5>1 DEF Line
        <5>3. Above(n) \subseteq Above(f)
          BY <5>2, AboveOf
        <5> QED
          BY <5>1, <5>3
      <4> QED
        BY <4>1, <4>2
    <3> QED
      BY <1>2, <1>3, <3>1, <3>2
  <2> QED
    BY <1>3, <2>1, <2>2 DEF TreeInv
<1>5. /\ walk = [p \in Process |-> walk[p]] /\ DOMAIN walk = Process
      /\ \A p \in Process : walk[p] = Idle
  BY DEF Init
<1>6. LocalInv(Idle) /\ Idle.pc = "idle"
  <2>1. Idle \in Walk
    BY NamesAreSequences DEF Idle, Walk, Nothing, Node
  <2> QED
    BY <2>1 DEF Idle, LocalInv
<1>7. begun \in 0..MaxWalks
  BY FolderAssumption DEF Init
<1>8. TypeOK
  BY <1>4, <1>5, <1>6 DEF TypeOK, TreeInv, Node
<1>9. OnlyOne /\ (\A p \in Process : ~Lone(p)) /\ DoneInv
  BY <1>5, <1>6 DEF OnlyOne, Lone, Walking, DoneInv, Init
<1>10. RemovalInv(tree)
  BY DEF Init, RemovalInv
<1> QED
  BY <1>4, <1>5, <1>6, <1>7, <1>8, <1>9, <1>10 DEF IInv

LEMMA NextInv ==
  IInv /\ [Next]_vars => IInv'
<1> SUFFICES ASSUME IInv, [Next]_vars PROVE IInv'
  OBVIOUS
<1>1. ASSUME NEW p \in Process, ZipFolder(p) PROVE IInv'
  BY <1>1, EnterInv DEF ZipFolder
<1>2. ASSUME NEW p \in Process, Rm(p) PROVE IInv'
  BY <1>2, EnterInv DEF Rm
<1>3. ASSUME NEW p \in Process, NEW v \in Version, Extract(p, v) PROVE IInv'
  BY <1>3, ExtractsInv
<1>4. ASSUME NEW p \in Process, Step(p) PROVE IInv'
  BY <1>4, LstatInv, OpendirInv, ReaddirInv, ReadInv, UnlinkInv, RmdirInv, MkpathInv, WriteInv DEF Step
<1>5. ASSUME UNCHANGED vars PROVE IInv'
  BY <1>5 DEF vars, counts, IInv, TypeOK, OnlyOne, Lone, Walking, RemovalInv, DoneInv, AloneExact, Files
<1> QED
  BY <1>1, <1>2, <1>3, <1>4, <1>5 DEF Next

\* The inductive invariant of the walks through a directory.
THEOREM Invariance ==
  Spec => []IInv
BY InitInv, NextInv, PTL DEF Spec

\* A file's directory exists, however the walks of filerail_zip_folder,
\* filerail_rm and zip_extract interleave.
THEOREM TypeCorrectness ==
  Spec => []TypeOK
<1>1. IInv => TypeOK
  BY DEF IInv
<1> QED
  BY <1>1, Invariance, PTL

\* A walk that nobody disturbs does its whole work: filerail_zip_folder adds
\* every file, filerail_rm leaves nothing, zip_extract writes every entry.
THEOREM UndisturbedWalksAreExact ==
  Spec => []AloneExact
<1>1. IInv => AloneExact
  BY DEF IInv, DoneInv, AloneExact
<1> QED
  BY <1>1, Invariance, PTL

\* Calls of filerail_rm for the same resource may make each other fail, but one
\* of them removes it.
THEOREM OneRemovalCompletes ==
  Spec => []OneRemoves
<1>1. ASSUME IInv PROVE OneRemoves
  <2> SUFFICES ASSUME kinds = {"rm"}, \A p \in Process : ~Walking(p) PROVE tree = Nothing
    BY DEF OneRemoves
  <2>1. tree[Root] = Absent
    BY <1>1 DEF IInv, RemovalInv
  <2>2. ASSUME NEW n \in Name PROVE tree[n] = Absent
    BY <1>1, <2>1, NamesAreSequences, FolderAssumption DEF IInv, TreeInv
  <2> QED
    BY <1>1, <2>2 DEF IInv, TreeInv, Nothing
<1> QED
  BY <1>1, Invariance, PTL

=============================================================================
