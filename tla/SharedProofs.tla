---------------------------- MODULE SharedProofs ----------------------------
(***************************************************************************)
(* The safety theorems of Shared, for any number of attempts, versions and *)
(* blocks, and any overlap.                                                *)
(***************************************************************************)
EXTENDS SharedInvariant, FiniteSetTheorems, TLAPS

-----------------------------------------------------------------------------
(* Names and files.                                                        *)

\* The names of the archive, the checkpoints and their .tmp files differ.
LEMMA Names ==
  /\ Zip \in Name /\ KindOf(Zip) = NoVersion /\ NoVersion \notin Version
  /\ \A n \in Name : KindOf(n) \in Kind
  /\ \A v \in Version :
        /\ Ckpt(v) \in Name /\ KindOf(Ckpt(v)) = v /\ Zip # Ckpt(v)
        /\ Tmp(v) \in Name /\ KindOf(Tmp(v)) = v /\ Zip # Tmp(v) /\ Ckpt(v) # Tmp(v)
BY SharedAssumption DEF Name, Zip, Ckpt, Tmp, KindOf, Kind

\* There is always a number for a new file.
LEMMA UnusedFile ==
  ASSUME NEW d, IsFiniteSet(DOMAIN d.data)
  PROVE  F!Unused(d) \in Nat \ {0} /\ F!Unused(d) \notin DOMAIN d.data
<1> DEFINE n == Cardinality(DOMAIN d.data)
<1>1. n \in Nat
  BY FS_CardinalityType
<1>2. IsFiniteSet(1..(n + 1)) /\ Cardinality(1..(n + 1)) = n + 1
  BY <1>1, FS_Interval
<1>3. \E f \in 1..(n + 1) : f \notin DOMAIN d.data
  <2>1. SUFFICES ASSUME 1..(n + 1) \subseteq DOMAIN d.data PROVE FALSE
    OBVIOUS
  <2>2. Cardinality(1..(n + 1)) <= n
    BY <2>1, FS_Subset
  <2> QED
    BY <1>1, <1>2, <2>2
<1>4. F!Unused(d) = CHOOSE f \in 1..(n + 1) : f \notin DOMAIN d.data
  <2>1. F!Cardinality(DOMAIN d.data) = n
    BY DEF F!Cardinality, Cardinality
  <2> QED
    BY <2>1 DEF F!Unused
<1> HIDE DEF n
<1>5. F!Unused(d) \in 1..(n + 1) /\ F!Unused(d) \notin DOMAIN d.data
  BY <1>3, <1>4
<1> QED
  BY <1>1, <1>5

\* What is used is not lost when nobody else has it open.
LEMMA KeptInv ==
  ASSUME NEW d, NEW pr, FilesInv(d, pr),
         NEW k, k = F!Kept(d, UNION {{pr[p].zip, pr[p].ck} : p \in Process})
  PROVE  /\ FilesInv(k, pr) /\ k.link = d.link
         /\ k = F!Kept(k, UNION {{pr[p].zip, pr[p].ck} : p \in Process})
         /\ \A p \in Process : /\ pr[p].zip # 0 => pr[p].zip \in DOMAIN k.data
                               /\ pr[p].ck # 0 => pr[p].ck \in DOMAIN k.data
         /\ \A n \in Name : F!Has(d, n) => F!Content(k, n) = F!Content(d, n)
<1> DEFINE open == UNION {{pr[p].zip, pr[p].ck} : p \in Process}
           used == (open \cup {d.link[n] : n \in Name}) \ {0}
<1>1. DiskType(d) /\ DOMAIN d.link = Name
  BY DEF FilesInv, DiskType
<1>2. k.link = d.link /\ k.data = [f \in used |-> d.data[f]] /\ k = [link |-> d.link, data |-> k.data]
  <2>1. d = [link |-> d.link, data |-> d.data]
    BY <1>1 DEF DiskType
  <2>2. k = [link |-> d.link, data |-> [f \in (open \cup F!Range(d.link)) \ {0} |-> d.data[f]]]
    BY <2>1 DEF F!Kept, F!Restrict
  <2>3. (open \cup F!Range(d.link)) \ {0} = used
    BY <1>1 DEF F!Range
  <2> DEFINE rest == [f \in used |-> d.data[f]]
  <2>4. k = [link |-> d.link, data |-> rest]
    BY <2>2, <2>3
  <2> HIDE DEF used, rest
  <2>5. k.link = d.link /\ k.data = rest
    BY <2>4
  <2> QED
    BY <2>4, <2>5 DEF rest
<1> HIDE DEF open
<1>3. used \subseteq DOMAIN d.data
  <2>1. open \subseteq {0} \cup DOMAIN d.data
    BY DEF FilesInv, open
  <2>2. \A n \in Name : d.link[n] \in {0} \cup DOMAIN d.data
    BY <1>1 DEF DiskType
  <2> QED
    BY <2>1, <2>2
<1>4. \A n \in Name : d.link[n] # 0 => d.link[n] \in used
  OBVIOUS
<1>5. \A p \in Process : /\ pr[p].zip # 0 => pr[p].zip \in used
                         /\ pr[p].ck # 0 => pr[p].ck \in used
  BY DEF open
<1>6. DiskType(k)
  <2>1. IsFiniteSet(used)
    BY <1>1, <1>3, FS_Subset DEF DiskType
  <2>2. used \subseteq Nat \ {0}
    BY <1>1, <1>3 DEF DiskType
  <2>3. d.link \in [Name -> {0} \cup used]
    BY <1>1, <1>4 DEF DiskType
  <2> HIDE DEF used
  <2> QED
    BY <1>2, <2>1, <2>2, <2>3 DEF DiskType
<1>7. FilesInv(k, pr)
  <2>1. \A f, v : UsedAs(k, pr, f, v) <=> UsedAs(d, pr, f, v)
    BY <1>2 DEF UsedAs
  <2>2. \A p \in Process : {pr[p].zip, pr[p].ck} \subseteq {0} \cup used
    BY <1>5
  <2> HIDE DEF used
  <2>3. DOMAIN k.data = used /\ \A f \in used : k.data[f] = d.data[f]
    BY <1>2
  <2> QED
    BY <1>3, <1>6, <2>1, <2>2, <2>3 DEF FilesInv
<1>8. k = F!Kept(k, open)
  <2>1. k = [link |-> k.link, data |-> k.data] /\ k.data = [f \in used |-> k.data[f]]
    BY <1>2
  <2>2. (open \cup F!Range(k.link)) \ {0} = used
    BY <1>1, <1>2 DEF F!Range
  <2> DEFINE kept == [k EXCEPT !.data = F!Restrict(@, (open \cup F!Range(k.link)) \ {0})]
  <2>3. F!Kept(k, open) = kept
    BY DEF F!Kept
  <2>4. kept = [k EXCEPT !.data = [f \in used |-> k.data[f]]]
    BY <2>2 DEF F!Restrict
  <2> HIDE DEF used, kept
  <2>5. kept = [k EXCEPT !.data = k.data]
    BY <2>1, <2>4
  <2> QED
    BY <2>1, <2>3, <2>5
<1>9. \A n \in Name : F!Has(d, n) => F!Content(k, n) = F!Content(d, n)
  BY <1>2, <1>4 DEF F!Has, F!Content
<1> QED
  BY <1>2, <1>5, <1>7, <1>8, <1>9 DEF open

\* A process opens and closes the archive and the files of its version.
LEMMA OpenInv ==
  ASSUME NEW d, NEW pr, FilesInv(d, pr), NEW p \in Process, NEW me,
         DOMAIN pr = Process, pr[p].ver \in Kind,
         me.zip \in {0, pr[p].zip, d.link[Zip]},
         me.ck = 0 \/ /\ me.ver = pr[p].ver
                      /\ \/ me.ck = pr[p].ck
                         \/ me.ver \in Version /\ me.ck \in {d.link[Ckpt(me.ver)], d.link[Tmp(me.ver)]}
  PROVE  FilesInv(d, [pr EXCEPT ![p] = me])
<1> DEFINE new == [pr EXCEPT ![p] = me]
<1>1. \A f \in DOMAIN d.data, v \in Kind : UsedAs(d, new, f, v) => UsedAs(d, pr, f, v)
  <2>1. 0 \notin DOMAIN d.data
    BY DEF FilesInv, DiskType
  <2> SUFFICES ASSUME NEW f \in DOMAIN d.data, NEW v \in Kind, UsedAs(d, new, f, v)
               PROVE  UsedAs(d, pr, f, v)
    OBVIOUS
  <2>2. CASE \E n \in Name : KindOf(n) = v /\ d.link[n] = f
    BY <2>2 DEF UsedAs
  <2>3. CASE \E q \in Process : v = NoVersion /\ new[q].zip = f
    BY <2>1, <2>3, Names DEF UsedAs
  <2>4. CASE \E q \in Process : v = new[q].ver /\ new[q].ck = f
    BY <2>1, <2>4, Names DEF UsedAs
  <2> QED
    BY <2>2, <2>3, <2>4 DEF UsedAs
<1>2. \A q \in Process : {new[q].zip, new[q].ck} \subseteq {0} \cup DOMAIN d.data
  <2>1. \A n \in Name : d.link[n] \in {0} \cup DOMAIN d.data
    BY DEF FilesInv, DiskType
  <2> QED
    BY <2>1, Names DEF FilesInv
<1> QED
  BY <1>1, <1>2 DEF FilesInv

\* Opening for writing empties the file, or makes a new one, of the name.
LEMMA TruncatedInv ==
  ASSUME NEW d, NEW pr, FilesInv(d, pr), NEW n \in Name, NEW t, t = F!Truncated(d, n)
  PROVE  /\ FilesInv(t, pr) /\ t.link[n] # 0 /\ F!Content(t, n) = <<>>
         /\ \A m \in Name \ {n} : t.link[m] = d.link[m]
<1> DEFINE f == IF F!Has(d, n) THEN d.link[n] ELSE F!Unused(d)
           files == DOMAIN d.data \cup {f}
<1>1. DiskType(d)
  BY DEF FilesInv
<1>2. f \in Nat \ {0} /\ (f \in DOMAIN d.data => F!Has(d, n) /\ f = d.link[n])
  BY <1>1, UnusedFile DEF DiskType, F!Has
<1>3. t.link = [d.link EXCEPT ![n] = f] /\ t = [link |-> t.link, data |-> t.data]
      /\ t.data = [g \in files |-> IF g = f THEN <<>> ELSE d.data[g]]
  BY DEF F!Truncated
<1> HIDE DEF f
<1>4. DiskType(t)
  <2>1. IsFiniteSet(files)
    BY <1>1, FS_AddElement DEF DiskType
  <2>2. t.link \in [Name -> {0} \cup files]
    BY <1>1, <1>3 DEF DiskType
  <2>3. files \subseteq Nat \ {0}
    BY <1>1, <1>2 DEF DiskType
  <2>4. DOMAIN t.data = files /\ t.data = [g \in files |-> t.data[g]]
    BY <1>3
  <2> HIDE DEF files
  <2> QED
    BY <1>3, <2>1, <2>2, <2>3, <2>4 DEF DiskType
<1>5. /\ DOMAIN t.data = files /\ t.data[f] = <<>> /\ t.link[n] = f
      /\ \A g \in DOMAIN d.data \ {f} : t.data[g] = d.data[g]
      /\ \A m \in Name \ {n} : t.link[m] = d.link[m]
  BY <1>1, <1>3 DEF DiskType
<1>6. \A v \in Kind : <<>> \in Contents(v)
  BY DEF Contents
<1>7. \A g \in files, v \in Kind : UsedAs(t, pr, g, v) =>
         \/ UsedAs(d, pr, g, v) /\ g \in DOMAIN d.data
         \/ g = f /\ f \notin DOMAIN d.data /\ v = KindOf(n)
  <2> SUFFICES ASSUME NEW g \in files, NEW v \in Kind, UsedAs(t, pr, g, v)
               PROVE  \/ UsedAs(d, pr, g, v) /\ g \in DOMAIN d.data
                      \/ g = f /\ f \notin DOMAIN d.data /\ v = KindOf(n)
    OBVIOUS
  <2>1. ASSUME NEW m \in Name, KindOf(m) = v, t.link[m] = g
        PROVE  \/ UsedAs(d, pr, g, v) /\ g \in DOMAIN d.data
               \/ g = f /\ f \notin DOMAIN d.data /\ v = KindOf(n)
    <3>1. CASE m = n
      BY <1>2, <1>5, <2>1, <3>1 DEF UsedAs
    <3>2. CASE m # n
      BY <1>1, <1>2, <1>4, <1>5, <2>1, <3>2 DEF UsedAs, DiskType
    <3> QED
      BY <3>1, <3>2
  <2>2. ASSUME NEW q \in Process, (v = NoVersion /\ pr[q].zip = g) \/ (v = pr[q].ver /\ pr[q].ck = g)
        PROVE  UsedAs(d, pr, g, v) /\ g \in DOMAIN d.data
    <3>1. g # 0
      BY <1>4, <1>5 DEF DiskType
    <3>2. g \in DOMAIN d.data
      BY <2>2, <3>1 DEF FilesInv
    <3> QED
      BY <2>2, <3>2 DEF UsedAs
  <2>3. \/ \E m \in Name : KindOf(m) = v /\ t.link[m] = g
        \/ \E q \in Process : (v = NoVersion /\ pr[q].zip = g) \/ (v = pr[q].ver /\ pr[q].ck = g)
    BY DEF UsedAs
  <2> QED
    BY <2>1, <2>2, <2>3
<1>8. \A g \in files : \A v \in Kind : UsedAs(t, pr, g, v) =>
          /\ t.data[g] \in Contents(v)
          /\ \A w \in Kind : UsedAs(t, pr, g, w) => w = v
  BY <1>5, <1>6, <1>7 DEF FilesInv
<1>9. \A p \in Process : {pr[p].zip, pr[p].ck} \subseteq {0} \cup files
  BY DEF FilesInv
<1> QED
  BY <1>2, <1>4, <1>5, <1>8, <1>9 DEF FilesInv, F!Content

\* Another content for a file of some kind.
LEMMA WrittenInv ==
  ASSUME NEW d, NEW pr, FilesInv(d, pr), NEW f \in DOMAIN d.data, NEW v \in Kind, UsedAs(d, pr, f, v),
         NEW pos, NEW x, NEW w, w = F!Written(d, f, pos, x), w.data[f] \in Contents(v)
  PROVE  FilesInv(w, pr) /\ w.link = d.link
<1> DEFINE old == d.data[f]
           new == [k \in 1..(IF pos < Len(old) THEN Len(old) ELSE pos + 1) |->
                       IF k = pos + 1 THEN x ELSE IF k <= Len(old) THEN old[k] ELSE <<NoVersion, 0>>]
<1>1. DiskType(d)
  BY DEF FilesInv
<1>2. w = [d EXCEPT !.data[f] = new]
  BY DEF F!Written
<1> HIDE DEF new
<1>3. w = [link |-> d.link, data |-> [d.data EXCEPT ![f] = new]]
  BY <1>1, <1>2 DEF DiskType
<1> DEFINE data == [d.data EXCEPT ![f] = new]
<1>4. DOMAIN data = DOMAIN d.data /\ data = [g \in DOMAIN data |-> data[g]]
      /\ \A g \in DOMAIN d.data \ {f} : data[g] = d.data[g]
  BY <1>1 DEF DiskType
<1> HIDE DEF data
<1>5. w.link = d.link /\ w.data = data
  BY <1>3 DEF data
<1>6. DiskType(w)
  BY <1>1, <1>3, <1>4, <1>5 DEF DiskType, data
<1>7. \A g, u : UsedAs(w, pr, g, u) <=> UsedAs(d, pr, g, u)
  BY <1>5 DEF UsedAs
<1>8. ASSUME NEW g \in DOMAIN w.data, NEW u \in Kind, UsedAs(w, pr, g, u)
      PROVE  w.data[g] \in Contents(u) /\ \A z \in Kind : UsedAs(w, pr, g, z) => z = u
  <2>1. g \in DOMAIN d.data /\ UsedAs(d, pr, g, u) /\ \A z \in Kind : UsedAs(w, pr, g, z) => z = u
    BY <1>4, <1>5, <1>7, <1>8 DEF FilesInv
  <2>2. CASE g = f
    BY <2>1, <2>2 DEF FilesInv
  <2>3. CASE g # f
    BY <1>4, <1>5, <2>1, <2>3 DEF FilesInv
  <2> QED
    BY <2>1, <2>2, <2>3
<1>9. \A p \in Process : {pr[p].zip, pr[p].ck} \subseteq {0} \cup DOMAIN w.data
  BY <1>4, <1>5 DEF FilesInv
<1> QED
  BY <1>5, <1>6, <1>8, <1>9 DEF FilesInv

\* A name that goes away, or gets another name's file of the same kind.
LEMMA LinkInv ==
  ASSUME NEW d, NEW pr, FilesInv(d, pr), NEW e, e = [link |-> e.link, data |-> d.data],
         e.link \in [Name -> {0} \cup DOMAIN d.data],
         \A n \in Name : e.link[n] = 0 \/ \E m \in Name : KindOf(m) = KindOf(n) /\ e.link[n] = d.link[m]
  PROVE  FilesInv(e, pr)
<1>1. DiskType(e)
  BY DEF FilesInv, DiskType
<1>2. e.data = d.data /\ 0 \notin DOMAIN d.data
  BY DEF FilesInv, DiskType
<1>3. \A f \in DOMAIN d.data, v \in Kind : UsedAs(e, pr, f, v) => UsedAs(d, pr, f, v)
  BY <1>2 DEF UsedAs
<1> QED
  BY <1>1, <1>2, <1>3 DEF FilesInv

LEMMA UnlinkedInv ==
  ASSUME NEW d, NEW pr, FilesInv(d, pr), NEW n \in Name, NEW u, u = F!Unlinked(d, n)
  PROVE  /\ FilesInv(u, pr) /\ ~F!Has(u, n) /\ u.data = d.data
         /\ \A m \in Name \ {n} : u.link[m] = d.link[m]
<1>1. DiskType(d)
  BY DEF FilesInv
<1>2. u = [link |-> [d.link EXCEPT ![n] = 0], data |-> d.data]
  BY <1>1 DEF F!Unlinked, DiskType
<1>3. u.link = [d.link EXCEPT ![n] = 0] /\ u.data = d.data /\ u = [link |-> u.link, data |-> d.data]
  BY <1>2
<1>4. /\ u.link \in [Name -> {0} \cup DOMAIN d.data] /\ u.link[n] = 0
      /\ \A m \in Name \ {n} : u.link[m] = d.link[m]
  BY <1>1, <1>3 DEF DiskType
<1> QED
  BY <1>3, <1>4, LinkInv DEF F!Has

LEMMA RenamedInv ==
  ASSUME NEW d, NEW pr, FilesInv(d, pr), NEW v \in Version, F!Has(d, Tmp(v)),
         NEW r, r = F!Renamed(d, Tmp(v), Ckpt(v))
  PROVE  /\ FilesInv(r, pr) /\ F!Has(r, Ckpt(v)) /\ r.data = d.data
         /\ r.link[Zip] = d.link[Zip]
<1>1. DiskType(d)
  BY DEF FilesInv
<1> DEFINE link == [d.link EXCEPT ![Ckpt(v)] = d.link[Tmp(v)], ![Tmp(v)] = 0]
<1>2. r = [link |-> link, data |-> d.data]
  BY <1>1 DEF F!Renamed, DiskType
<1>3. r.link = link /\ r.data = d.data /\ r = [link |-> r.link, data |-> d.data]
  BY <1>2
<1>4. /\ link \in [Name -> {0} \cup DOMAIN d.data]
      /\ link[Tmp(v)] = 0 /\ link[Ckpt(v)] = d.link[Tmp(v)]
      /\ \A m \in Name \ {Tmp(v), Ckpt(v)} : link[m] = d.link[m]
  BY <1>1, Names DEF DiskType
<1> HIDE DEF link
<1>5. FilesInv(r, pr)
  BY <1>3, <1>4, Names, LinkInv
<1> QED
  BY <1>3, <1>4, <1>5, Names DEF F!Has
-----------------------------------------------------------------------------
(* Steps in general.                                                       *)

\* What a process may become by one step: it goes on with the same version, and
\* has nothing open but what it had, the archive or a file of its version.
Continues(me, was, d) ==
    /\ LocalInv(me) /\ me.pc # "idle" /\ me.alone = was.alone /\ me.ver = was.ver
    /\ me.zip \in {0, was.zip, d.link[Zip]}
    /\ me.ck \in {0, was.ck, d.link[Ckpt(me.ver)], d.link[Tmp(me.ver)]}

LEMMA IdleLocal == LocalInv(Idle)
<1>1. <<>> \in Seq(Cell)
  OBVIOUS
<1>2. Idle \in Attempt
  BY <1>1 DEF Idle, Attempt, Pc
<1>3. Idle.pc = "idle" /\ ~Idle.receives /\ Idle.hash = <<>> /\ Idle.match /\ Idle.fresh
  BY DEF Idle
<1> QED
  BY <1>2, <1>3 DEF LocalInv

\* A running process knows its version; if it is alone it has its own invariant.
LEMMA RunningFacts ==
  ASSUME IInv, NEW p \in Process, Running(p)
  PROVE  /\ LocalInv(proc[p]) /\ proc[p] \in Attempt /\ proc[p].ver \in Version
         /\ proc[p].ver \in Kind /\ done = Nobody
         /\ proc[p].alone => LoneInv(proc[p], disk, installed)
BY DEF IInv, LocalInv, Running, Lone, DoneInv, Kind

\* What a lone process knows does not depend on files without a name.
LEMMA KeptLone ==
  ASSUME NEW d, NEW k, NEW me, NEW now, LocalInv(me), LoneInv(me, d, now), k.link = d.link,
         F!Has(d, Zip) => F!Content(k, Zip) = F!Content(d, Zip)
  PROVE  LoneInv(me, k, now)
<1>1. \A n : F!Has(k, n) <=> F!Has(d, n)
  BY DEF F!Has
<1>2. me.zip # 0 /\ me.zip = d.link[Zip] => F!Has(d, Zip)
  BY DEF F!Has
<1>3. F!Has(d, Zip) => F!Content(k, Zip) = F!Content(d, Zip) /\ F!Size(k, Zip) = F!Size(d, Zip)
  BY DEF F!Size
<1>4. NamesInv(me, k)
  BY <1>1, <1>3 DEF NamesInv, LoneInv
<1>5. me.pc \in {"packet", "open_tmp", "write_tmp", "rename", "entry", "md5_open", "md5_stat", "md5_read",
                 "extract", "entries", "open_send", "stat_send", "send"} => F!Has(d, Zip)
  BY <1>2 DEF NamesInv, LoneInv, LocalInv
<1>6. ArchiveInv(me, k) /\ HashInv(me, k)
  BY <1>3, <1>5 DEF ArchiveInv, HashInv, LoneInv
<1> QED
  BY <1>4, <1>6 DEF LoneInv

\* A step of one process, with the disk and the version installed after it.
LEMMA ToInv ==
  ASSUME IInv, NEW p \in Process, Running(p), NEW me, NEW d, To(p, me, d),
         LocalInv(me), FilesInv(d, [proc EXCEPT ![p] = me]),
         installed' \in Version \cup {NoVersion, Torn}, attempts' = attempts, overlaps' = overlaps,
         faults' \in 0..MaxFaults,
         me.pc # "idle" => me.alone = proc[p].alone,
         me.pc # "idle" /\ me.alone => LoneInv(me, d, installed'),
         DoneInv'
  PROVE  IInv' /\ disk'.link = d.link
<1>1. /\ proc' = [proc EXCEPT ![p] = me] /\ DOMAIN proc = Process
      /\ proc' = [q \in Process |-> proc'[q]] /\ DOMAIN proc' = Process
      /\ proc'[p] = me /\ \A q \in Process \ {p} : proc'[q] = proc[q]
  BY DEF To, IInv
<1>2. disk' = F!Kept(d, UNION {{proc'[q].zip, proc'[q].ck} : q \in Process})
  BY <1>1 DEF To
<1>3. FilesInv(d, proc')
  BY <1>1
<1>4. /\ FilesInv(disk', proc') /\ disk'.link = d.link
      /\ disk' = F!Kept(disk', UNION {{proc'[q].zip, proc'[q].ck} : q \in Process})
      /\ \A q \in Process : /\ proc'[q].zip # 0 => proc'[q].zip \in DOMAIN disk'.data
                            /\ proc'[q].ck # 0 => proc'[q].ck \in DOMAIN disk'.data
      /\ \A n \in Name : F!Has(d, n) => F!Content(disk', n) = F!Content(d, n)
  BY <1>2, <1>3, KeptInv
<1>5. \A q \in Process : LocalInv(proc'[q])
  BY <1>1 DEF IInv
<1>6. TypeOK'
  <2>1. \A q \in Process : /\ proc'[q].offset \in Nat /\ proc'[q].pos \in Nat /\ proc'[q].left \in Int
                           /\ proc'[q].pc # "idle" => proc'[q].ver \in Version
    BY <1>5 DEF LocalInv, Attempt
  <2>2. attempts \in 0..MaxAttempts /\ overlaps \in 0..MaxOverlaps
    BY DEF IInv, TypeOK
  <2> QED
    BY <1>4, <2>1, <2>2 DEF TypeOK, Running
<1>7. OnlyOne'
  BY <1>1 DEF IInv, OnlyOne, Lone, Running
<1>8. ASSUME NEW q \in Process, Lone(q)' PROVE LoneInv(proc[q], disk, installed)'
  <2>1. q = p
    BY <1>1, <1>8 DEF IInv, OnlyOne, Lone, Running
  <2>2. LoneInv(me, d, installed')
    BY <1>1, <1>8, <2>1 DEF Lone, Running
  <2>3. LoneInv(me, disk', installed')
    BY <1>4, <2>2, KeptLone, Names
  <2> QED
    BY <1>1, <2>1, <2>3
<1>9. DOMAIN proc' = Process /\ proc' = [q \in Process |-> proc'[q]]
  BY <1>1
<1> QED
  BY <1>4, <1>5, <1>6, <1>7, <1>8, <1>9 DEF IInv

\* One that goes on.
LEMMA GoesOnInv ==
  ASSUME IInv, NEW p \in Process, Running(p), NEW me, NEW d, To(p, me, d),
         installed' = installed, done' = done, attempts' = attempts, overlaps' = overlaps,
         faults' \in 0..MaxFaults,
         FilesInv(d, proc), Continues(me, proc[p], d),
         me.alone => LoneInv(me, d, installed)
  PROVE  IInv'
<1>1. LocalInv(me) /\ me.pc # "idle" /\ me.alone = proc[p].alone
  BY DEF Continues
<1>2. DOMAIN proc = Process /\ proc[p].ver \in Kind /\ proc[p].ver \in Version /\ done = Nobody
  BY RunningFacts DEF IInv
<1>3. FilesInv(d, [proc EXCEPT ![p] = me])
  BY <1>2, OpenInv DEF Continues
<1>4. DoneInv'
  BY <1>2 DEF DoneInv
<1>5. installed' \in Version \cup {NoVersion, Torn}
  BY DEF IInv, TypeOK
<1> QED
  BY <1>1, <1>3, <1>4, <1>5, ToInv

LEMMA ChangeInv ==
  ASSUME IInv, NEW p \in Process, Running(p), NEW me, NEW d, Change(p, me, d),
         FilesInv(d, proc), Continues(me, proc[p], d),
         me.alone => LoneInv(me, d, installed)
  PROVE  IInv'
<1>1. To(p, me, d) /\ installed' = installed /\ done' = done
      /\ attempts' = attempts /\ overlaps' = overlaps /\ faults' = faults
  BY DEF Change, bounds
<1>2. faults' \in 0..MaxFaults
  BY <1>1 DEF IInv, TypeOK
<1> QED
  BY <1>1, <1>2, GoesOnInv

\* One whose flush fails.
LEMMA FlushFailsInv ==
  ASSUME IInv, NEW p \in Process, Running(p), NEW me, FlushFails(p, me),
         Continues(me, proc[p], disk), me.alone => LoneInv(me, disk, installed)
  PROVE  IInv'
<1>1. To(p, me, disk) /\ installed' = installed /\ done' = done
      /\ attempts' = attempts /\ overlaps' = overlaps
  BY DEF FlushFails
<1>2. faults' \in 0..MaxFaults /\ FilesInv(disk, proc)
  BY SharedAssumption DEF FlushFails, IInv, TypeOK
<1> QED
  BY <1>1, <1>2, GoesOnInv

LEMMA GoInv ==
  ASSUME IInv, NEW p \in Process, Running(p), NEW me, Go(p, me),
         Continues(me, proc[p], disk), me.alone => LoneInv(me, disk, installed)
  PROVE  IInv'
<1>1. FilesInv(disk, proc)
  BY DEF IInv
<1>2. Change(p, me, disk)
  BY DEF Go, Change
<1> QED
  BY <1>1, <1>2, ChangeInv

\* One that ends: alone it has succeeded.
LEMMA EndsInv ==
  ASSUME IInv, NEW p \in Process, Running(p), NEW how, NEW d, Ends(p, how, d), FilesInv(d, proc),
         installed' \in Version \cup {NoVersion, Torn},
         proc[p].alone => /\ how = "ok" /\ ~F!Has(d, Zip)
                          /\ proc[p].receives => /\ ~F!Has(d, Ckpt(proc[p].ver))
                                                 /\ IF proc[p].match THEN installed' = proc[p].ver
                                                                     ELSE ~proc[p].fresh
                          /\ ~proc[p].receives => proc[p].match
  PROVE  IInv'
<1>1. /\ To(p, Idle, d) /\ attempts' = attempts /\ overlaps' = overlaps /\ faults' = faults
      /\ done' = IF proc[p].alone THEN [proc[p] EXCEPT !.pc = how, !.zip = 0, !.ck = 0] ELSE Nobody
  BY DEF Ends, bounds
<1>2. DOMAIN proc = Process /\ proc[p] \in Attempt /\ proc[p].ver \in Kind
  BY RunningFacts DEF IInv
<1>3. Idle.zip = 0 /\ Idle.ck = 0 /\ Idle.pc = "idle"
  BY DEF Idle
<1>4. FilesInv(d, [proc EXCEPT ![p] = Idle])
  BY <1>2, <1>3, OpenInv
<1>5. DoneInv'
  <2>1. CASE ~proc[p].alone
    BY <1>1, <2>1 DEF DoneInv
  <2>2. CASE proc[p].alone
    <3>1. done' = [proc[p] EXCEPT !.pc = how, !.zip = 0, !.ck = 0]
      BY <1>1, <2>2
    <3>2. /\ done'.pc = "ok" /\ done'.receives = proc[p].receives /\ done'.ver = proc[p].ver
          /\ done'.match = proc[p].match /\ done'.fresh = proc[p].fresh
      BY <1>2, <2>2, <3>1 DEF Attempt
    <3>3. disk'.link = d.link
      <4>1. proc' = [proc EXCEPT ![p] = Idle]
        BY <1>1 DEF To
      <4>2. disk' = F!Kept(d, UNION {{proc'[q].zip, proc'[q].ck} : q \in Process})
        BY <1>1 DEF To
      <4>3. FilesInv(d, proc')
        BY <1>4, <4>1
      <4> QED
        BY <4>2, <4>3, KeptInv
    <3>4. \A n : F!Has(disk, n)' <=> F!Has(d, n)
      BY <3>3 DEF F!Has
    <3>5. AloneSucceeds'
      BY <2>2, <3>2, <3>4 DEF AloneSucceeds
    <3>6. \A q \in Process : ~Running(q)'
      BY <1>1, <1>2, <1>3, <2>2 DEF IInv, OnlyOne, Lone, Running, To
    <3> QED
      BY <3>5, <3>6 DEF DoneInv
  <2> QED
    BY <2>1, <2>2
<1>6. faults' \in 0..MaxFaults
  BY <1>1 DEF IInv, TypeOK
<1> QED
  BY <1>1, <1>3, <1>4, <1>5, <1>6, IdleLocal, ToInv

\* One that fails was not alone.
LEMMA FailsInv ==
  ASSUME IInv, NEW p \in Process, Running(p), Fails(p), ~proc[p].alone
  PROVE  IInv'
<1>1. Ends(p, "failed", disk) /\ installed' = installed /\ FilesInv(disk, proc)
  BY DEF Fails, End, IInv
<1>2. installed' \in Version \cup {NoVersion, Torn}
  BY <1>1 DEF IInv, TypeOK
<1> QED
  BY <1>1, <1>2, EndsInv

-----------------------------------------------------------------------------
(* The steps of a receiver.                                                *)

\* A receiver that starts at the beginning.
LEMMA FromStartInv ==
  ASSUME IInv, NEW p \in Process, proc[p].pc \in {"find", "open_ckpt", "read_ckpt", "stat"}, Go(p, FromStart(p))
  PROVE  IInv'
<1> DEFINE me == FromStart(p)
<1>1. Running(p) /\ LocalInv(proc[p]) /\ proc[p] \in Attempt /\ Blocks[proc[p].ver] \in Nat
  BY RunningFacts, SharedAssumption DEF Running
<1>2. Continues(me, proc[p], disk)
  <2>1. proc[p].receives /\ proc[p].ver \in Version /\ proc[p].hash = <<>> /\ proc[p].match /\ proc[p].fresh
    BY <1>1 DEF LocalInv, ReceiverPcs, SenderPcs, CommonPcs
  <2>2. /\ me \in Attempt /\ me.pc = "open" /\ me.ck = 0 /\ me.offset = 0 /\ me.zip = proc[p].zip
        /\ me.ver = proc[p].ver /\ me.receives = proc[p].receives /\ me.alone = proc[p].alone
        /\ me.hash = proc[p].hash /\ me.match = proc[p].match /\ me.fresh = proc[p].fresh
    BY <1>1 DEF FromStart, Attempt, Pc, ReceiverPcs
  <2> HIDE DEF me
  <2> QED
    BY <1>1, <2>1, <2>2 DEF Continues, LocalInv, ReceiverPcs
<1>3. LoneInv(me, disk, installed)
  BY <1>1 DEF FromStart, Attempt, LoneInv, NamesInv, ArchiveInv, HashInv, OutcomeInv, CommonPcs
<1> QED
  BY <1>1, <1>2, <1>3, GoInv

LEMMA FindInv ==
  ASSUME IInv, NEW p \in Process, Find(p) PROVE IInv'
<1> DEFINE me == [proc[p] EXCEPT !.pc = "access"]
<1>1. Running(p) /\ LocalInv(proc[p]) /\ proc[p] \in Attempt /\ proc[p].pc = "find"
  BY RunningFacts DEF Find, Running
<1>2. CASE ~F!Has(disk, Ckpt(proc[p].ver))
  BY <1>1, <1>2, FromStartInv DEF Find
<1>3. CASE F!Has(disk, Ckpt(proc[p].ver))
  <2>1. Go(p, me)
    BY <1>3 DEF Find
  <2>2. Continues(me, proc[p], disk)
    BY <1>1 DEF Continues, LocalInv, Attempt, Pc, ReceiverPcs, SenderPcs, CommonPcs
  <2>3. LoneInv(me, disk, installed)
    BY <1>1, <1>3 DEF Attempt, LoneInv, NamesInv, ArchiveInv, HashInv, OutcomeInv, CommonPcs
  <2> QED
    BY <1>1, <2>1, <2>2, <2>3, GoInv
<1> QED
  BY <1>2, <1>3

LEMMA AccessInv ==
  ASSUME IInv, NEW p \in Process, Access(p) PROVE IInv'
<1> DEFINE me == [proc[p] EXCEPT !.pc = "open_ckpt"]
<1>1. Running(p) /\ LocalInv(proc[p]) /\ proc[p] \in Attempt /\ proc[p].pc = "access"
      /\ (proc[p].alone => LoneInv(proc[p], disk, installed))
  BY RunningFacts DEF Access, Running
<1>2. CASE ~F!Has(disk, Ckpt(proc[p].ver))
  BY <1>1, <1>2, FailsInv DEF Access, LoneInv, NamesInv
<1>3. CASE F!Has(disk, Ckpt(proc[p].ver))
  <2>1. Go(p, me)
    BY <1>3 DEF Access
  <2>2. Continues(me, proc[p], disk)
    BY <1>1 DEF Continues, LocalInv, Attempt, Pc, ReceiverPcs, SenderPcs, CommonPcs
  <2>3. LoneInv(me, disk, installed)
    BY <1>1, <1>3 DEF Attempt, LoneInv, NamesInv, ArchiveInv, HashInv, OutcomeInv, CommonPcs
  <2> QED
    BY <1>1, <2>1, <2>2, <2>3, GoInv
<1> QED
  BY <1>2, <1>3

LEMMA OpenCkptInv ==
  ASSUME IInv, NEW p \in Process, OpenCkpt(p) PROVE IInv'
<1> DEFINE me == [proc[p] EXCEPT !.pc = "read_ckpt", !.ck = disk.link[Ckpt(proc[p].ver)]]
<1>1. Running(p) /\ LocalInv(proc[p]) /\ proc[p] \in Attempt /\ proc[p].pc = "open_ckpt"
      /\ proc[p].ver \in Version
  BY RunningFacts DEF OpenCkpt, Running
<1>2. CASE ~F!Has(disk, Ckpt(proc[p].ver))
  BY <1>1, <1>2, FromStartInv DEF OpenCkpt
<1>3. CASE F!Has(disk, Ckpt(proc[p].ver))
  <2>1. Go(p, me)
    BY <1>3 DEF OpenCkpt
  <2>2. disk.link[Ckpt(proc[p].ver)] \in Nat \ {0}
    BY <1>1, <1>3, Names DEF IInv, FilesInv, DiskType, F!Has
  <2>3. Continues(me, proc[p], disk)
    BY <1>1, <2>2 DEF Continues, LocalInv, Attempt, Pc, ReceiverPcs, SenderPcs, CommonPcs
  <2>4. LoneInv(me, disk, installed)
    BY <1>1, <1>3 DEF Attempt, LoneInv, NamesInv, ArchiveInv, HashInv, OutcomeInv, CommonPcs
  <2> QED
    BY <1>1, <2>1, <2>3, <2>4, GoInv
<1> QED
  BY <1>2, <1>3

\* An open checkpoint holds an offset within its version's archive, or nothing.
LEMMA OpenCkptHolds ==
  ASSUME IInv, NEW p \in Process, Running(p), proc[p].ck # 0
  PROVE  proc[p].ck \in DOMAIN disk.data /\ UsedAs(disk, proc, proc[p].ck, proc[p].ver)
         /\ \/ disk.data[proc[p].ck] = <<>>
            \/ \E n \in 0..Blocks[proc[p].ver] : disk.data[proc[p].ck] = <<n>>
<1>1. proc[p].ver \in Version /\ proc[p].ver \in Kind /\ proc[p].ver # NoVersion
  BY RunningFacts, Names
<1>2. proc[p].ck \in DOMAIN disk.data /\ UsedAs(disk, proc, proc[p].ck, proc[p].ver)
  BY DEF IInv, FilesInv, UsedAs
<1>3. disk.data[proc[p].ck] \in Contents(proc[p].ver)
  BY <1>1, <1>2 DEF IInv, FilesInv
<1> QED
  BY <1>1, <1>2, <1>3 DEF Contents

\* An open archive holds blocks.
LEMMA OpenZipHolds ==
  ASSUME IInv, NEW p \in Process, proc[p].zip # 0
  PROVE  /\ proc[p].zip \in DOMAIN disk.data /\ UsedAs(disk, proc, proc[p].zip, NoVersion)
         /\ disk.data[proc[p].zip] \in Seq(Cell)
<1>1. proc[p].zip \in DOMAIN disk.data /\ UsedAs(disk, proc, proc[p].zip, NoVersion)
  BY DEF IInv, FilesInv, UsedAs
<1> QED
  BY <1>1 DEF IInv, FilesInv, Contents, Kind

LEMMA ReadCkptInv ==
  ASSUME IInv, NEW p \in Process, ReadCkpt(p) PROVE IInv'
<1> DEFINE ckpt == disk.data[proc[p].ck]
           me == [proc[p] EXCEPT !.pc = "stat", !.offset = ckpt[1], !.ck = 0]
<1>1. Running(p) /\ LocalInv(proc[p]) /\ proc[p] \in Attempt /\ proc[p].pc = "read_ckpt"
      /\ (proc[p].alone => LoneInv(proc[p], disk, installed)) /\ proc[p].ver \in Version
  BY RunningFacts DEF ReadCkpt, Running
<1>2. CASE ckpt = <<>>
  BY <1>1, <1>2, FromStartInv DEF ReadCkpt
<1>3. CASE ckpt # <<>>
  <2>1. Go(p, me)
    BY <1>3 DEF ReadCkpt
  <2>2. ckpt[1] \in 0..Blocks[proc[p].ver]
    BY <1>1, <1>3, OpenCkptHolds DEF LocalInv
  <2>3. Blocks[proc[p].ver] \in Nat
    BY <1>1, SharedAssumption
  <2>6. ckpt[1] \in Nat /\ ckpt[1] <= Blocks[proc[p].ver]
    BY <2>2, <2>3
  <2> DEFINE offset == ckpt[1]
  <2> HIDE DEF offset
  <2>7. me = [proc[p] EXCEPT !.pc = "stat", !.offset = offset, !.ck = 0]
    BY DEF offset
  <2>8. offset \in Nat /\ offset <= Blocks[proc[p].ver]
    BY <2>6 DEF offset
  <2> HIDE DEF me
  <2>4. Continues(me, proc[p], disk)
    BY <1>1, <2>7, <2>8 DEF Continues, LocalInv, Attempt, Pc, ReceiverPcs, SenderPcs, CommonPcs
  <2>5. ASSUME me.alone PROVE LoneInv(me, disk, installed)
    BY <1>1, <2>5, <2>7 DEF Attempt, LoneInv, NamesInv, ArchiveInv, HashInv, OutcomeInv, CommonPcs
  <2> QED
    BY <1>1, <2>1, <2>4, <2>5, GoInv
<1> QED
  BY <1>2, <1>3

LEMMA StatInv ==
  ASSUME IInv, NEW p \in Process, Stat(p) PROVE IInv'
<1> DEFINE me == [proc[p] EXCEPT !.pc = "open"]
<1>1. Running(p) /\ LocalInv(proc[p]) /\ proc[p] \in Attempt /\ proc[p].pc = "stat"
      /\ (proc[p].alone => LoneInv(proc[p], disk, installed))
  BY RunningFacts DEF Stat, Running
<1>2. CASE Go(p, FromStart(p))
  BY <1>1, <1>2, FromStartInv
<1>3. CASE Usable(p) /\ Go(p, me)
  <2>1. Continues(me, proc[p], disk)
    BY <1>1 DEF Continues, LocalInv, Attempt, Pc, ReceiverPcs, SenderPcs, CommonPcs
  <2>2. ASSUME me.alone PROVE LoneInv(me, disk, installed)
    BY <1>1, <1>3, <2>2 DEF Usable, Attempt, LoneInv, NamesInv, ArchiveInv, HashInv, OutcomeInv, CommonPcs
  <2> QED
    BY <1>1, <1>3, <2>1, <2>2, GoInv
<1> QED
  BY <1>2, <1>3 DEF Stat

\* The file that was written to.
LEMMA WrittenData ==
  ASSUME NEW d, DiskType(d), NEW f \in DOMAIN d.data, NEW pos, NEW x
  PROVE  F!Written(d, f, pos, x).data[f] =
            [k \in 1..(IF pos < Len(d.data[f]) THEN Len(d.data[f]) ELSE pos + 1) |->
                IF k = pos + 1 THEN x ELSE IF k <= Len(d.data[f]) THEN d.data[f][k] ELSE <<NoVersion, 0>>]
<1> DEFINE new == [k \in 1..(IF pos < Len(d.data[f]) THEN Len(d.data[f]) ELSE pos + 1) |->
                IF k = pos + 1 THEN x ELSE IF k <= Len(d.data[f]) THEN d.data[f][k] ELSE <<NoVersion, 0>>]
<1>1. F!Written(d, f, pos, x) = [d EXCEPT !.data[f] = new]
  BY DEF F!Written
<1> HIDE DEF new
<1>2. d = [link |-> d.link, data |-> d.data]
  BY DEF DiskType
<1>3. F!Written(d, f, pos, x) = [link |-> d.link, data |-> [d.data EXCEPT ![f] = new]]
  BY <1>1, <1>2
<1>4. F!Written(d, f, pos, x).data[f] = new
  BY <1>3
<1> QED
  BY <1>4 DEF new

\* A block is written into an archive, the next one, or behind a hole.
LEMMA BlockWritten ==
  ASSUME NEW d, DiskType(d), NEW f \in DOMAIN d.data, d.data[f] \in Seq(Cell),
         NEW v \in Version, NEW n \in Nat, NEW at \in Nat
  PROVE  /\ F!Written(d, f, at, <<v, n + 1>>).data[f] \in Seq(Cell)
         /\ at = n /\ d.data[f] = Part(v, n) => F!Written(d, f, at, <<v, n + 1>>).data[f] = Part(v, n + 1)
<1> DEFINE old == d.data[f]
           size == IF at < Len(old) THEN Len(old) ELSE at + 1
           new == [k \in 1..size |-> IF k = at + 1 THEN <<v, n + 1>>
                                     ELSE IF k <= Len(old) THEN old[k] ELSE <<NoVersion, 0>>]
<1>1. F!Written(d, f, at, <<v, n + 1>>).data[f] = new
  BY WrittenData
<1>2. Len(old) \in Nat /\ \A k \in 1..Len(old) : old[k] \in Cell
  OBVIOUS
<1>3. size \in Nat /\ <<v, n + 1>> \in Cell /\ <<NoVersion, 0>> \in Cell
  BY <1>2 DEF Cell
<1>4. \A k \in 1..size : new[k] \in Cell
  BY <1>2, <1>3
<1>5. new \in Seq(Cell)
  <2> HIDE DEF old
  <2>1. \A k \in 1..size : (IF k = at + 1 THEN <<v, n + 1>>
                            ELSE IF k <= Len(old) THEN old[k] ELSE <<NoVersion, 0>>) \in Cell
    BY <1>2, <1>3
  <2>2. new \in [1..size -> Cell]
    BY <2>1
  <2> HIDE DEF new, size
  <2> QED
    BY <1>3, <2>2
<1>6. ASSUME at = n, old = Part(v, n) PROVE new = Part(v, n + 1)
  <2>1. Len(old) = n
    BY <1>6 DEF Part
  <2>2. size = n + 1
    BY <1>6, <2>1
  <2>3. \A k \in 1..n : old[k] = <<v, k>>
    BY <1>6 DEF Part
  <2>4. \A k \in 1..(n + 1) : new[k] = <<v, k>>
    BY <1>6, <2>1, <2>2, <2>3
  <2> QED
    BY <2>2, <2>4 DEF Part
<1> QED
  BY <1>1, <1>5, <1>6

\* A checkpoint gets an offset, whether it was empty or not.
LEMMA OffsetWritten ==
  ASSUME NEW d, DiskType(d), NEW f \in DOMAIN d.data, NEW n,
         d.data[f] = <<>> \/ \E m : d.data[f] = <<m>>
  PROVE  F!Written(d, f, 0, n).data[f] = <<n>>
<1> DEFINE old == d.data[f]
           size == IF 0 < Len(old) THEN Len(old) ELSE 0 + 1
           new == [k \in 1..size |-> IF k = 0 + 1 THEN n ELSE IF k <= Len(old) THEN old[k] ELSE <<NoVersion, 0>>]
<1>1. F!Written(d, f, 0, n).data[f] = new
  BY WrittenData
<1>2. size = 1
  <2>1. CASE old = <<>>
    BY <2>1
  <2>2. ASSUME NEW m, old = <<m>> PROVE size = 1
    <3>1. Len(old) = 1
      BY <2>2
    <3> QED
      BY <3>1
  <2> QED
    BY <2>1, <2>2
<1>3. DOMAIN new = 1..1 /\ new[1] = n
  BY <1>2
<1>4. new = [k \in 1..1 |-> n]
  BY <1>2
<1>5. [k \in 1..1 |-> n] = <<n>>
  OBVIOUS
<1> QED
  BY <1>1, <1>4, <1>5

LEMMA Parts ==
  /\ \A v : Part(v, 0) = <<>> /\ Archive(v) = Part(v, Blocks[v])
  /\ \A v \in Version : Blocks[v] \in Nat \ {0} /\ Len(Archive(v)) = Blocks[v]
  /\ \A v, w \in Version : Archive(v) = Archive(w) => v = w
  /\ \A v \in Version : Archive(v)[1] = <<v, 1>>
<1>1. \A v : Part(v, 0) = <<>> /\ Archive(v) = Part(v, Blocks[v])
  BY DEF Part, Archive
<1>2. \A v \in Version : Blocks[v] \in Nat \ {0}
  BY SharedAssumption
<1>3. \A v \in Version : Len(Archive(v)) = Blocks[v] /\ Archive(v)[1] = <<v, 1>>
  BY <1>2 DEF Archive
<1>4. \A v, w \in Version : Archive(v) = Archive(w) => v = w
  BY <1>3
<1> QED
  BY <1>1, <1>2, <1>3, <1>4

\* The receiver's loop goes on or ends.
LEMMA LoopInv ==
  ASSUME NEW d, NEW now, NEW me \in Attempt, me.receives, me.ver \in Version,
         me.offset <= Blocks[me.ver], me.fresh => me.pos = me.offset,
         me.hash = <<>>, me.match, me.zip # 0
  PROVE  /\ LocalInv(Loop(me)) /\ Loop(me).pc # "idle" /\ Loop(me).alone = me.alone /\ Loop(me).ver = me.ver
         /\ Loop(me).zip \in {0, me.zip} /\ Loop(me).ck = me.ck
         /\ me.zip = d.link[Zip] /\ F!Has(d, Ckpt(me.ver))
            /\ (me.fresh => F!Content(d, Zip) = Part(me.ver, me.offset)) => LoneInv(Loop(me), d, now)
<1>1. Blocks[me.ver] \in Nat /\ me.offset \in Nat /\ Archive(me.ver) = Part(me.ver, Blocks[me.ver])
  BY Parts DEF Attempt
<1>2. CASE me.offset < Blocks[me.ver]
  <2>1. Loop(me) = [me EXCEPT !.pc = "packet"]
    BY <1>2 DEF Loop
  <2>2. LocalInv(Loop(me))
    BY <1>1, <1>2, <2>1 DEF LocalInv, Attempt, Pc, ReceiverPcs, SenderPcs, CommonPcs
  <2>3. me.zip = d.link[Zip] /\ F!Has(d, Ckpt(me.ver))
            /\ (me.fresh => F!Content(d, Zip) = Part(me.ver, me.offset)) => LoneInv(Loop(me), d, now)
    BY <2>1 DEF Attempt, LoneInv, NamesInv, ArchiveInv, HashInv, OutcomeInv, CommonPcs
  <2> QED
    BY <2>1, <2>2, <2>3 DEF Attempt
<1>3. CASE ~(me.offset < Blocks[me.ver])
  <2>1. Loop(me) = [me EXCEPT !.pc = "md5_open", !.zip = 0, !.pos = 0] /\ me.offset = Blocks[me.ver]
    BY <1>1, <1>3 DEF Loop
  <2>4. /\ Loop(me) \in Attempt /\ Loop(me).pc = "md5_open" /\ Loop(me).offset = me.offset
        /\ Loop(me).ver = me.ver /\ Loop(me).receives = me.receives
        /\ Loop(me).hash = me.hash /\ Loop(me).match = me.match
    <3> DEFINE new == [me EXCEPT !.pc = "md5_open", !.zip = 0, !.pos = 0]
    <3>1. new \in Attempt
      BY DEF Attempt, Pc, CommonPcs
    <3>2. /\ new.pc = "md5_open" /\ new.offset = me.offset /\ new.ver = me.ver
          /\ new.receives = me.receives /\ new.hash = me.hash /\ new.match = me.match
      BY DEF Attempt
    <3> QED
      BY <2>1, <3>1, <3>2
  <2>2. LocalInv(Loop(me))
    BY <1>1, <2>4 DEF LocalInv, ReceiverPcs, SenderPcs, CommonPcs
  <2>3. me.zip = d.link[Zip] /\ F!Has(d, Ckpt(me.ver))
            /\ (me.fresh => F!Content(d, Zip) = Part(me.ver, me.offset)) => LoneInv(Loop(me), d, now)
    BY <1>1, <2>1 DEF Attempt, LoneInv, NamesInv, ArchiveInv, HashInv, OutcomeInv, CommonPcs, F!Has
  <2> QED
    BY <2>1, <2>2, <2>3 DEF Attempt
<1> QED
  BY <1>2, <1>3

\* What has the archive's name holds blocks.
LEMMA ArchiveHolds ==
  ASSUME NEW d, NEW pr, FilesInv(d, pr), F!Has(d, Zip)
  PROVE  /\ d.link[Zip] \in DOMAIN d.data /\ d.link[Zip] \in Nat \ {0}
         /\ F!Content(d, Zip) \in Seq(Cell) /\ F!Size(d, Zip) \in Nat
<1>1. d.link[Zip] \in DOMAIN d.data /\ d.link[Zip] \in Nat \ {0}
  BY Names DEF FilesInv, DiskType, F!Has
<1>2. UsedAs(d, pr, d.link[Zip], NoVersion) /\ NoVersion \in Kind
  BY Names DEF UsedAs, Kind
<1>3. F!Content(d, Zip) \in Seq(Cell)
  BY <1>1, <1>2 DEF FilesInv, Contents, F!Content
<1> QED
  BY <1>1, <1>3 DEF F!Size

LEMMA OpenStepInv ==
  ASSUME IInv, NEW p \in Process, Open(p) PROVE IInv'
<1>1. Running(p) /\ LocalInv(proc[p]) /\ proc[p] \in Attempt /\ proc[p].pc = "open"
      /\ (proc[p].alone => LoneInv(proc[p], disk, installed)) /\ proc[p].ver \in Version
  BY RunningFacts DEF Open, Running
<1>2. proc[p].receives /\ proc[p].hash = <<>> /\ proc[p].match /\ proc[p].fresh
      /\ proc[p].offset <= Blocks[proc[p].ver] /\ Blocks[proc[p].ver] \in Nat \ {0}
  BY <1>1, SharedAssumption DEF LocalInv, ReceiverPcs, SenderPcs, CommonPcs
<1>3. CASE proc[p].offset = 0
  <2> DEFINE d == F!Truncated(disk, Zip)
             me == [proc[p] EXCEPT !.pc = "packet", !.zip = d.link[Zip], !.pos = 0]
  <2>1. Change(p, me, d)
    BY <1>3 DEF Open
  <2>2. FilesInv(d, proc) /\ d.link[Zip] # 0 /\ F!Content(d, Zip) = <<>>
    BY TruncatedInv, Names DEF IInv
  <2>3. d.link[Zip] \in Nat
    BY <2>2, ArchiveHolds DEF F!Has
  <2> HIDE DEF d
  <2>4. Continues(me, proc[p], d)
    <3>1. /\ me \in Attempt /\ me.pc = "packet" /\ me.zip = d.link[Zip] /\ me.ck = proc[p].ck
          /\ me.offset = 0 /\ me.pos = 0 /\ me.receives /\ me.ver = proc[p].ver /\ me.alone = proc[p].alone
          /\ me.hash = <<>> /\ me.match /\ me.fresh
      BY <1>1, <1>2, <1>3, <2>3 DEF Attempt, Pc, ReceiverPcs
    <3> HIDE DEF me
    <3> QED
      BY <1>1, <1>2, <2>2, <3>1 DEF Continues, LocalInv, ReceiverPcs
  <2>5. LoneInv(me, d, installed)
    BY <1>1, <1>3, <2>2, Parts DEF Attempt, LoneInv, NamesInv, ArchiveInv, HashInv, OutcomeInv, CommonPcs
  <2> QED
    BY <1>1, <2>1, <2>2, <2>4, <2>5, ChangeInv
<1>4. CASE proc[p].offset # 0 /\ F!Has(disk, Zip) /\ proc[p].offset <= F!Size(disk, Zip)
  <2> DEFINE was == [proc[p] EXCEPT !.zip = disk.link[Zip], !.pos = proc[p].offset, !.fresh = FALSE]
             me == Loop(was)
  <2>1. Go(p, me)
    BY <1>4 DEF Open
  <2>2. disk.link[Zip] \in Nat \ {0}
    BY <1>4, ArchiveHolds DEF IInv
  <2>3. /\ was \in Attempt /\ was.zip = disk.link[Zip] /\ was.receives /\ was.ver = proc[p].ver
        /\ was.offset = proc[p].offset /\ was.hash = <<>> /\ was.match /\ ~was.fresh
        /\ was.ck = proc[p].ck /\ was.alone = proc[p].alone
    BY <1>1, <1>2, <2>2 DEF Attempt
  <2> HIDE DEF was
  <2>4. /\ LocalInv(me) /\ me.pc # "idle" /\ me.alone = was.alone /\ me.ver = was.ver
        /\ me.zip \in {0, was.zip} /\ me.ck = was.ck
    BY <1>1, <1>2, <2>2, <2>3, LoopInv
  <2>5. ASSUME proc[p].alone PROVE LoneInv(me, disk, installed)
    <3>1. F!Has(disk, Ckpt(was.ver))
      BY <1>1, <1>4, <2>3, <2>5 DEF LoneInv, NamesInv
    <3> QED
      BY <1>1, <1>2, <2>2, <2>3, <3>1, LoopInv
  <2>6. Continues(me, proc[p], disk)
    BY <2>3, <2>4 DEF Continues
  <2> QED
    BY <1>1, <2>1, <2>3, <2>4, <2>5, <2>6, GoInv
<1>5. CASE proc[p].offset # 0 /\ ~(F!Has(disk, Zip) /\ proc[p].offset <= F!Size(disk, Zip))
  <2>1. Fails(p)
    BY <1>5 DEF Open
  <2>2. ~proc[p].alone
    BY <1>1, <1>5 DEF LoneInv, NamesInv
  <2> QED
    BY <1>1, <2>1, <2>2, FailsInv
<1> QED
  BY <1>3, <1>4, <1>5

LEMMA PacketInv ==
  ASSUME IInv, NEW p \in Process, Packet(p) PROVE IInv'
<1> DEFINE f == proc[p].zip
           n == proc[p].offset
           v == proc[p].ver
           at == proc[p].pos
           d == F!Written(disk, f, at, <<v, n + 1>>)
           me == [proc[p] EXCEPT !.pc = "open_tmp", !.offset = n + 1, !.pos = at + 1]
<1>1. Running(p) /\ LocalInv(proc[p]) /\ proc[p] \in Attempt /\ proc[p].pc = "packet"
      /\ (proc[p].alone => LoneInv(proc[p], disk, installed)) /\ proc[p].ver \in Version
  BY RunningFacts DEF Packet, Running
<1>2. proc[p].receives /\ proc[p].hash = <<>> /\ proc[p].match /\ f # 0 /\ n \in Nat /\ at \in Nat
      /\ (proc[p].fresh => at = n)
      /\ n < Blocks[proc[p].ver] /\ Blocks[proc[p].ver] \in Nat
  BY <1>1, SharedAssumption DEF LocalInv, ReceiverPcs, SenderPcs, CommonPcs, Attempt
<1>3. Change(p, me, d)
  BY DEF Packet
<1>4. f \in DOMAIN disk.data /\ UsedAs(disk, proc, f, NoVersion) /\ disk.data[f] \in Seq(Cell)
      /\ DiskType(disk) /\ FilesInv(disk, proc)
  BY <1>2, OpenZipHolds DEF IInv, FilesInv
<1>5. /\ d.data[f] \in Seq(Cell)
      /\ at = n /\ disk.data[f] = Part(v, n) => d.data[f] = Part(v, n + 1)
  <2>1. v \in Version /\ n \in Nat /\ at \in Nat
    BY <1>1, <1>2
  <2> HIDE DEF f, n, v, at
  <2> QED
    BY <1>4, <2>1, BlockWritten
<1>6. FilesInv(d, proc) /\ d.link = disk.link
  <2>1. NoVersion \in Kind /\ d.data[f] \in Contents(NoVersion)
    BY <1>5 DEF Contents, Kind
  <2> HIDE DEF f, n, v, at
  <2> QED
    BY <1>4, <2>1, WrittenInv
<1> HIDE DEF d
<1>10. n + 1 \in Nat /\ n + 1 <= Blocks[v] /\ at + 1 \in Nat /\ (proc[p].fresh => at + 1 = n + 1)
  BY <1>2
<1>7. /\ me \in Attempt /\ me.pc = "open_tmp" /\ me.zip = f /\ me.ck = proc[p].ck
      /\ me.offset = n + 1 /\ me.pos = at + 1 /\ me.receives /\ me.ver = proc[p].ver /\ me.alone = proc[p].alone
      /\ me.hash = <<>> /\ me.match /\ me.fresh = proc[p].fresh
  <2> DEFINE m == n + 1  after == at + 1
  <2> HIDE DEF m, after
  <2>1. m \in Nat /\ after \in Nat
    BY <1>10 DEF m, after
  <2>2. me = [proc[p] EXCEPT !.pc = "open_tmp", !.offset = m, !.pos = after]
    BY DEF m, after
  <2> HIDE DEF me, n, at
  <2>3. /\ me \in Attempt /\ me.pc = "open_tmp" /\ me.zip = f /\ me.ck = proc[p].ck
        /\ me.offset = m /\ me.pos = after /\ me.receives /\ me.ver = proc[p].ver /\ me.alone = proc[p].alone
        /\ me.hash = <<>> /\ me.match /\ me.fresh = proc[p].fresh
    BY <1>1, <1>2, <2>1, <2>2 DEF Attempt, Pc, ReceiverPcs
  <2> QED
    BY <2>3 DEF m, after
<1> HIDE DEF me
<1>8. Continues(me, proc[p], d)
  <2>1. me.offset <= Blocks[me.ver] /\ (me.fresh => me.pos = me.offset)
    BY <1>10, <1>7
  <2> QED
    BY <1>1, <1>2, <1>7, <2>1 DEF Continues, LocalInv, ReceiverPcs
<1>9. ASSUME me.alone PROVE LoneInv(me, d, installed)
  <2>1. f = disk.link[Zip] /\ (me.fresh => disk.data[f] = Part(proc[p].ver, n))
    BY <1>1, <1>7, <1>9 DEF LoneInv, NamesInv, ArchiveInv, F!Content
  <2>2. me.fresh => F!Content(d, Zip) = Part(me.ver, me.offset)
    BY <1>2, <1>5, <1>6, <1>7, <2>1 DEF F!Content
  <2> QED
    BY <1>6, <1>7, <2>1, <2>2 DEF LoneInv, NamesInv, ArchiveInv, HashInv, OutcomeInv, CommonPcs
<1> QED
  BY <1>1, <1>3, <1>6, <1>8, <1>9, ChangeInv

\* Without its block, the archive is what it was, and the attempt knows less.
LEMMA PacketDroppedInv ==
  ASSUME IInv, NEW p \in Process, PacketDropped(p) PROVE IInv'
<1> DEFINE n == proc[p].offset
           me == [proc[p] EXCEPT !.pc = "open_tmp", !.offset = n + 1, !.fresh = FALSE]
<1>1. Running(p) /\ LocalInv(proc[p]) /\ proc[p] \in Attempt /\ proc[p].pc = "packet"
      /\ (proc[p].alone => LoneInv(proc[p], disk, installed)) /\ proc[p].ver \in Version
  BY RunningFacts DEF PacketDropped, Running
<1>2. proc[p].receives /\ proc[p].hash = <<>> /\ proc[p].match /\ proc[p].zip # 0 /\ n \in Nat
      /\ n < Blocks[proc[p].ver] /\ Blocks[proc[p].ver] \in Nat
  BY <1>1, SharedAssumption DEF LocalInv, ReceiverPcs, SenderPcs, CommonPcs, Attempt
<1>3. FlushFails(p, me)
  BY DEF PacketDropped
<1>4. n + 1 \in Nat /\ n + 1 <= Blocks[proc[p].ver]
  BY <1>2
<1>5. /\ me \in Attempt /\ me.pc = "open_tmp" /\ me.zip = proc[p].zip /\ me.ck = proc[p].ck
      /\ me.offset = n + 1 /\ me.receives /\ me.ver = proc[p].ver /\ me.alone = proc[p].alone
      /\ me.hash = <<>> /\ me.match /\ ~me.fresh
  <2> DEFINE m == n + 1
  <2> HIDE DEF m
  <2>1. m \in Nat
    BY <1>4 DEF m
  <2>2. me = [proc[p] EXCEPT !.pc = "open_tmp", !.offset = m, !.fresh = FALSE]
    BY DEF m
  <2> HIDE DEF me, n
  <2>3. /\ me \in Attempt /\ me.pc = "open_tmp" /\ me.zip = proc[p].zip /\ me.ck = proc[p].ck
        /\ me.offset = m /\ me.receives /\ me.ver = proc[p].ver /\ me.alone = proc[p].alone
        /\ me.hash = <<>> /\ me.match /\ ~me.fresh
    BY <1>1, <1>2, <2>1, <2>2 DEF Attempt, Pc, ReceiverPcs
  <2> QED
    BY <2>3 DEF m
<1> HIDE DEF me
<1>6. Continues(me, proc[p], disk)
  BY <1>1, <1>2, <1>4, <1>5 DEF Continues, LocalInv, ReceiverPcs
<1>7. ASSUME me.alone PROVE LoneInv(me, disk, installed)
  BY <1>1, <1>5, <1>7 DEF LoneInv, NamesInv, ArchiveInv, HashInv, OutcomeInv, CommonPcs
<1> QED
  BY <1>1, <1>3, <1>6, <1>7, FlushFailsInv

\* The archive is not also a checkpoint.
LEMMA ArchiveApart ==
  ASSUME NEW d, NEW pr, FilesInv(d, pr), NEW v \in Version, NEW f, UsedAs(d, pr, f, v), F!Has(d, Zip)
  PROVE  d.link[Zip] # f
<1>1. d.link[Zip] \in DOMAIN d.data
  BY ArchiveHolds
<1>2. UsedAs(d, pr, d.link[Zip], NoVersion) /\ NoVersion \in Kind /\ v \in Kind /\ v # NoVersion
  BY Names DEF UsedAs, Kind
<1> QED
  BY <1>1, <1>2 DEF FilesInv

LEMMA OpenTmpInv ==
  ASSUME IInv, NEW p \in Process, OpenTmp(p) PROVE IInv'
<1> DEFINE t == Tmp(proc[p].ver)
           d == F!Truncated(disk, t)
           me == [proc[p] EXCEPT !.pc = "write_tmp", !.ck = d.link[t]]
<1>1. Running(p) /\ LocalInv(proc[p]) /\ proc[p] \in Attempt /\ proc[p].pc = "open_tmp"
      /\ (proc[p].alone => LoneInv(proc[p], disk, installed)) /\ proc[p].ver \in Version
  BY RunningFacts DEF OpenTmp, Running
<1>2. proc[p].receives /\ proc[p].hash = <<>> /\ proc[p].match /\ proc[p].zip # 0
  BY <1>1 DEF LocalInv, ReceiverPcs, SenderPcs, CommonPcs
<1>3. Change(p, me, d)
  BY DEF OpenTmp
<1>4. t \in Name /\ t # Zip /\ Zip \in Name
  BY <1>1, Names
<1>5. FilesInv(d, proc) /\ d.link[t] # 0 /\ d.link[Zip] = disk.link[Zip]
      /\ \A g \in DOMAIN disk.data : g # disk.link[t] => d.data[g] = disk.data[g]
  <2>1. FilesInv(d, proc) /\ d.link[t] # 0 /\ d.link[Zip] = disk.link[Zip]
    BY <1>4, TruncatedInv DEF IInv
  <2>2. \A g \in DOMAIN disk.data : g # disk.link[t] => d.data[g] = disk.data[g]
    <3>1. F!Unused(disk) \notin DOMAIN disk.data
      BY UnusedFile DEF IInv, FilesInv, DiskType
    <3> QED
      BY <3>1 DEF F!Truncated
  <2> QED
    BY <2>1, <2>2
<1>6. d.link[t] \in Nat
  BY <1>4, <1>5 DEF FilesInv, DiskType
<1> HIDE DEF d
<1>7. /\ me \in Attempt /\ me.pc = "write_tmp" /\ me.zip = proc[p].zip /\ me.ck = d.link[t]
      /\ me.offset = proc[p].offset /\ me.receives /\ me.ver = proc[p].ver /\ me.alone = proc[p].alone
      /\ me.hash = <<>> /\ me.match /\ me.fresh = proc[p].fresh /\ me.pos = proc[p].pos
  BY <1>1, <1>2, <1>6 DEF Attempt, Pc, ReceiverPcs
<1> HIDE DEF me
<1>8. Continues(me, proc[p], d)
  BY <1>1, <1>2, <1>5, <1>7 DEF Continues, LocalInv, ReceiverPcs
<1>9. ASSUME me.alone PROVE LoneInv(me, d, installed)
  <2>1. proc[p].zip = disk.link[Zip] /\ (me.fresh => F!Content(disk, Zip) = Part(me.ver, me.offset))
    BY <1>1, <1>7, <1>9 DEF LoneInv, NamesInv, ArchiveInv
  <2>2. F!Content(d, Zip) = F!Content(disk, Zip)
    <3>1. disk.link[Zip] \in DOMAIN disk.data
      BY <1>2, <2>1, ArchiveHolds DEF IInv, F!Has
    <3>2. disk.link[Zip] # disk.link[t]
      <4>1. UsedAs(disk, proc, disk.link[t], proc[p].ver) /\ F!Has(disk, Zip)
        BY <1>1, <1>2, <2>1, Names DEF UsedAs, F!Has
      <4> QED
        BY <1>1, <4>1, ArchiveApart DEF IInv
    <3> QED
      BY <1>5, <3>1, <3>2 DEF F!Content
  <2> QED
    BY <1>5, <1>7, <2>1, <2>2 DEF LoneInv, NamesInv, ArchiveInv, HashInv, OutcomeInv, CommonPcs, F!Has
<1> QED
  BY <1>1, <1>3, <1>5, <1>8, <1>9, ChangeInv

LEMMA WriteTmpInv ==
  ASSUME IInv, NEW p \in Process, WriteTmp(p) PROVE IInv'
<1> DEFINE f == proc[p].ck
           n == proc[p].offset
           d == F!Written(disk, f, 0, n)
           me == [proc[p] EXCEPT !.pc = "rename", !.ck = 0]
<1>1. Running(p) /\ LocalInv(proc[p]) /\ proc[p] \in Attempt /\ proc[p].pc = "write_tmp"
      /\ (proc[p].alone => LoneInv(proc[p], disk, installed)) /\ proc[p].ver \in Version
  BY RunningFacts DEF WriteTmp, Running
<1>2. proc[p].receives /\ proc[p].hash = <<>> /\ proc[p].match /\ f # 0 /\ proc[p].zip # 0
      /\ n \in 0..Blocks[proc[p].ver]
  BY <1>1, SharedAssumption DEF LocalInv, ReceiverPcs, SenderPcs, CommonPcs, Attempt
<1>3. Change(p, me, d)
  BY DEF WriteTmp
<1>4. /\ f \in DOMAIN disk.data /\ UsedAs(disk, proc, f, proc[p].ver)
      /\ disk.data[f] = <<>> \/ \E m : disk.data[f] = <<m>>
      /\ DiskType(disk) /\ FilesInv(disk, proc)
  BY <1>1, <1>2, OpenCkptHolds DEF IInv, FilesInv
<1>5. d.data[f] \in Contents(proc[p].ver) /\ proc[p].ver \in Kind
  <2>1. d.data[f] = <<n>>
    <3> HIDE DEF f, n
    <3> QED
      BY <1>4, OffsetWritten
  <2>2. proc[p].ver \in Kind /\ proc[p].ver # NoVersion
    BY <1>1, Names DEF Kind
  <2> HIDE DEF d, n, f
  <2> QED
    BY <1>2, <2>1, <2>2 DEF Contents
<1>6. FilesInv(d, proc) /\ d.link = disk.link
  <2> HIDE DEF f, n
  <2> QED
    BY <1>4, <1>5, WrittenInv
<1>7. \A g \in DOMAIN disk.data \ {f} : d.data[g] = disk.data[g]
  <2>1. disk = [link |-> disk.link, data |-> disk.data]
    BY <1>4 DEF DiskType
  <2> HIDE DEF f, n
  <2> QED
    BY <2>1 DEF F!Written
<1> HIDE DEF d
<1>8. /\ me \in Attempt /\ me.pc = "rename" /\ me.zip = proc[p].zip /\ me.ck = 0
      /\ me.offset = n /\ me.receives /\ me.ver = proc[p].ver /\ me.alone = proc[p].alone
      /\ me.hash = <<>> /\ me.match /\ me.fresh = proc[p].fresh /\ me.pos = proc[p].pos
  BY <1>1, <1>2 DEF Attempt, Pc, ReceiverPcs
<1> HIDE DEF me
<1>9. Continues(me, proc[p], d)
  BY <1>1, <1>2, <1>8 DEF Continues, LocalInv, ReceiverPcs
<1>10. ASSUME me.alone PROVE LoneInv(me, d, installed)
  <2>1. /\ proc[p].zip = disk.link[Zip] /\ F!Has(disk, Tmp(me.ver))
        /\ me.fresh => F!Content(disk, Zip) = Part(me.ver, me.offset)
    BY <1>1, <1>8, <1>10 DEF LoneInv, NamesInv, ArchiveInv
  <2>2. F!Has(disk, Zip) /\ disk.link[Zip] # f /\ disk.link[Zip] \in DOMAIN disk.data
    BY <1>1, <1>2, <1>4, <2>1, ArchiveApart, ArchiveHolds DEF F!Has
  <2>3. F!Content(d, Zip) = F!Content(disk, Zip)
    BY <1>6, <1>7, <2>2 DEF F!Content
  <2> QED
    BY <1>6, <1>8, <2>1, <2>3 DEF LoneInv, NamesInv, ArchiveInv, HashInv, OutcomeInv, CommonPcs, F!Has
<1> QED
  BY <1>1, <1>3, <1>6, <1>9, <1>10, ChangeInv

\* The .tmp file stays empty, and is renamed like a whole one.
LEMMA TmpDroppedInv ==
  ASSUME IInv, NEW p \in Process, TmpDropped(p) PROVE IInv'
<1> DEFINE me == [proc[p] EXCEPT !.pc = "rename", !.ck = 0]
<1>1. Running(p) /\ LocalInv(proc[p]) /\ proc[p] \in Attempt /\ proc[p].pc = "write_tmp"
      /\ (proc[p].alone => LoneInv(proc[p], disk, installed)) /\ proc[p].ver \in Version
  BY RunningFacts DEF TmpDropped, Running
<1>2. proc[p].receives /\ proc[p].hash = <<>> /\ proc[p].match /\ proc[p].zip # 0
  BY <1>1 DEF LocalInv, ReceiverPcs, SenderPcs, CommonPcs
<1>3. FlushFails(p, me)
  BY DEF TmpDropped
<1>4. /\ me \in Attempt /\ me.pc = "rename" /\ me.zip = proc[p].zip /\ me.ck = 0
      /\ me.offset = proc[p].offset /\ me.pos = proc[p].pos /\ me.receives /\ me.ver = proc[p].ver
      /\ me.alone = proc[p].alone /\ me.hash = <<>> /\ me.match /\ me.fresh = proc[p].fresh
  BY <1>1, <1>2 DEF Attempt, Pc, ReceiverPcs
<1> HIDE DEF me
<1>5. Continues(me, proc[p], disk)
  BY <1>1, <1>2, <1>4 DEF Continues, LocalInv, ReceiverPcs
<1>6. ASSUME me.alone PROVE LoneInv(me, disk, installed)
  BY <1>1, <1>4, <1>6 DEF LoneInv, NamesInv, ArchiveInv, HashInv, OutcomeInv, CommonPcs
<1> QED
  BY <1>1, <1>3, <1>5, <1>6, FlushFailsInv

LEMMA RenameInv ==
  ASSUME IInv, NEW p \in Process, Rename(p) PROVE IInv'
<1> DEFINE v == proc[p].ver
           d == F!Renamed(disk, Tmp(v), Ckpt(v))
           me == Loop(proc[p])
<1>1. Running(p) /\ LocalInv(proc[p]) /\ proc[p] \in Attempt /\ proc[p].pc = "rename"
      /\ (proc[p].alone => LoneInv(proc[p], disk, installed)) /\ v \in Version
  BY RunningFacts DEF Rename, Running
<1>2. proc[p].receives /\ proc[p].hash = <<>> /\ proc[p].match /\ proc[p].zip # 0
      /\ proc[p].offset <= Blocks[v] /\ (proc[p].fresh => proc[p].pos = proc[p].offset)
  BY <1>1 DEF LocalInv, ReceiverPcs, SenderPcs, CommonPcs
<1>3. CASE ~F!Has(disk, Tmp(v))
  BY <1>1, <1>3, FailsInv DEF Rename, LoneInv, NamesInv
<1>4. CASE F!Has(disk, Tmp(v))
  <2>1. Change(p, me, d)
    BY <1>4 DEF Rename
  <2>2. FilesInv(d, proc) /\ F!Has(d, Ckpt(v)) /\ d.data = disk.data /\ d.link[Zip] = disk.link[Zip]
    <3> HIDE DEF v
    <3> QED
      BY <1>1, <1>4, RenamedInv DEF IInv
  <2> HIDE DEF d
  <2>3. /\ LocalInv(me) /\ me.pc # "idle" /\ me.alone = proc[p].alone /\ me.ver = v
        /\ me.zip \in {0, proc[p].zip} /\ me.ck = proc[p].ck
    BY <1>1, <1>2, LoopInv
  <2>4. ASSUME proc[p].alone PROVE LoneInv(me, d, installed)
    <3>1. proc[p].zip = d.link[Zip] /\ (proc[p].fresh => F!Content(d, Zip) = Part(v, proc[p].offset))
      BY <1>1, <2>2, <2>4 DEF LoneInv, NamesInv, ArchiveInv, F!Content
    <3> QED
      BY <1>1, <1>2, <2>2, <3>1, LoopInv
  <2>5. Continues(me, proc[p], d)
    BY <2>3 DEF Continues
  <2> QED
    BY <1>1, <2>1, <2>2, <2>3, <2>4, <2>5, ChangeInv
<1> QED
  BY <1>3, <1>4

\* Only what was verified is extracted by a process that runs alone.
LEMMA ExtractInv ==
  ASSUME IInv, NEW p \in Process, Extract(p) PROVE IInv'
<1> DEFINE me == [proc[p] EXCEPT !.pc = "entries", !.zip = disk.link[Zip], !.hash = F!Content(disk, Zip)]
<1>1. Running(p) /\ LocalInv(proc[p]) /\ proc[p] \in Attempt /\ proc[p].pc = "extract"
      /\ (proc[p].alone => LoneInv(proc[p], disk, installed)) /\ proc[p].ver \in Version
  BY RunningFacts DEF Extract, Running
<1>2. proc[p].receives /\ proc[p].match /\ proc[p].offset <= Blocks[proc[p].ver]
  BY <1>1 DEF LocalInv, ReceiverPcs, SenderPcs, CommonPcs
<1>3. CASE F!Has(disk, Zip) /\ Go(p, me)
  <2>1. disk.link[Zip] \in Nat \ {0} /\ F!Content(disk, Zip) \in Seq(Cell)
    BY <1>3, ArchiveHolds DEF IInv
  <2>2. /\ me \in Attempt /\ me.pc = "entries" /\ me.zip = disk.link[Zip] /\ me.ck = proc[p].ck
        /\ me.offset = proc[p].offset /\ me.receives /\ me.ver = proc[p].ver
        /\ me.alone = proc[p].alone /\ me.match /\ me.hash = F!Content(disk, Zip)
    BY <1>1, <1>2, <2>1 DEF Attempt, Pc, ReceiverPcs
  <2> HIDE DEF me
  <2>3. Continues(me, proc[p], disk)
    BY <1>1, <1>2, <2>1, <2>2 DEF Continues, LocalInv, ReceiverPcs
  <2>4. ASSUME me.alone PROVE LoneInv(me, disk, installed)
    BY <1>1, <2>2, <2>4 DEF LoneInv, NamesInv, ArchiveInv, HashInv, OutcomeInv, CommonPcs
  <2> QED
    BY <1>1, <1>3, <2>3, <2>4, GoInv
<1>4. CASE ~IsArchive /\ Fails(p)
  BY <1>1, <1>4, FailsInv DEF IsArchive, LoneInv, NamesInv, ArchiveInv
<1> QED
  BY <1>3, <1>4 DEF Extract

\* A lone process that extracts has the version that it was offered.
LEMMA LoneEntries ==
  ASSUME IInv, NEW p \in Process, proc[p].pc = "entries", proc[p].alone
  PROVE  /\ disk.data[proc[p].zip] = Archive(proc[p].ver)
         /\ proc[p].hash = disk.data[proc[p].zip]
BY RunningFacts DEF Running, LoneInv, NamesInv, ArchiveInv, HashInv, F!Content

LEMMA EntriesInv ==
  ASSUME IInv, NEW p \in Process, Entries(p) PROVE IInv'
<1> DEFINE now == disk.data[proc[p].zip]
           me == [proc[p] EXCEPT !.pc = "rm_zip", !.zip = 0]
           whole == now = proc[p].hash /\ \E v \in Version : now = Archive(v)
<1>1. Running(p) /\ LocalInv(proc[p]) /\ proc[p] \in Attempt /\ proc[p].pc = "entries"
      /\ (proc[p].alone => LoneInv(proc[p], disk, installed)) /\ proc[p].ver \in Version
      /\ proc[p].ver \in Kind /\ done = Nobody
  BY RunningFacts DEF Entries, Running
<1>2. proc[p].receives /\ proc[p].match /\ proc[p].offset <= Blocks[proc[p].ver]
  BY <1>1 DEF LocalInv, ReceiverPcs, SenderPcs, CommonPcs
<1>3. FilesInv(disk, proc) /\ DOMAIN proc = Process
  BY DEF IInv
<1>4. proc[p].alone => now = Archive(proc[p].ver) /\ now = proc[p].hash
  BY <1>1, LoneEntries
<1>5. CASE whole
  <2>1. /\ To(p, me, disk) /\ installed' = now[1][1] /\ done' = done
        /\ attempts' = attempts /\ overlaps' = overlaps /\ faults' = faults
    BY <1>5 DEF Entries, bounds
  <2>2. PICK v \in Version : now = Archive(v)
    BY <1>5
  <2>3. installed' = v
    BY <2>1, <2>2, Parts
  <2>4. proc[p].alone => installed' = proc[p].ver
    BY <1>1, <1>4, <2>2, <2>3, Parts
  <2>5. /\ me \in Attempt /\ me.pc = "rm_zip" /\ me.zip = 0 /\ me.ck = proc[p].ck
        /\ me.offset = proc[p].offset /\ me.receives /\ me.ver = proc[p].ver
        /\ me.alone = proc[p].alone /\ me.match
    BY <1>1, <1>2 DEF Attempt, Pc, CommonPcs
  <2> HIDE DEF me
  <2>6. LocalInv(me)
    BY <1>1, <1>2, <2>5 DEF LocalInv, CommonPcs
  <2>7. FilesInv(disk, [proc EXCEPT ![p] = me])
    BY <1>1, <1>3, <2>5, OpenInv
  <2>8. ASSUME me.alone PROVE LoneInv(me, disk, installed')
    <3>1. F!Has(disk, Zip) /\ F!Has(disk, Ckpt(me.ver))
      BY <1>1, <2>5, <2>8 DEF LoneInv, NamesInv, LocalInv, F!Has
    <3> QED
      BY <2>4, <2>5, <2>8, <3>1 DEF LoneInv, NamesInv, ArchiveInv, HashInv, OutcomeInv, CommonPcs
  <2>9. DoneInv' /\ faults' \in 0..MaxFaults
    BY <1>1, <2>1 DEF DoneInv, IInv, TypeOK
  <2> QED
    BY <1>1, <2>1, <2>3, <2>5, <2>6, <2>7, <2>8, <2>9, ToInv
<1>6. CASE ~whole
  <2>1. Ends(p, "failed", disk) /\ installed' = Torn
    BY <1>6 DEF Entries
  <2>2. ~proc[p].alone
    BY <1>1, <1>4, <1>6
  <2> QED
    BY <1>1, <1>3, <2>1, <2>2, EndsInv
<1> QED
  BY <1>5, <1>6

LEMMA RmCkptInv ==
  ASSUME IInv, NEW p \in Process, RmCkpt(p) PROVE IInv'
<1> DEFINE v == proc[p].ver
           d == F!Unlinked(disk, Ckpt(v))
<1>1. Running(p) /\ LocalInv(proc[p]) /\ proc[p] \in Attempt /\ proc[p].pc = "rm_ckpt"
      /\ (proc[p].alone => LoneInv(proc[p], disk, installed)) /\ v \in Version
  BY RunningFacts DEF RmCkpt, Running
<1>2. proc[p].receives
  BY <1>1 DEF LocalInv, ReceiverPcs, SenderPcs, CommonPcs
<1>3. CASE ~F!Has(disk, Ckpt(v))
  BY <1>1, <1>3, FailsInv DEF RmCkpt, LoneInv, NamesInv
<1>4. CASE F!Has(disk, Ckpt(v))
  <2>1. Ends(p, "ok", d) /\ installed' = installed
    BY <1>4 DEF RmCkpt, End
  <2>2. FilesInv(d, proc) /\ ~F!Has(d, Ckpt(v)) /\ d.link[Zip] = disk.link[Zip]
    BY <1>1, Names, UnlinkedInv DEF IInv
  <2> HIDE DEF d
  <2>3. proc[p].alone => ~F!Has(d, Zip) /\ IF proc[p].match THEN installed = v ELSE ~proc[p].fresh
    BY <1>1, <1>2, <2>2 DEF LoneInv, NamesInv, OutcomeInv, F!Has
  <2>4. installed' \in Version \cup {NoVersion, Torn}
    BY <2>1 DEF IInv, TypeOK
  <2> QED
    BY <1>1, <1>2, <2>1, <2>2, <2>3, <2>4, EndsInv
<1> QED
  BY <1>3, <1>4

-----------------------------------------------------------------------------
(* The steps of both.                                                      *)

LEMMA Md5OpenInv ==
  ASSUME IInv, NEW p \in Process, Md5Open(p) PROVE IInv'
<1> DEFINE me == [proc[p] EXCEPT !.pc = "md5_stat", !.zip = disk.link[Zip]]
<1>1. Running(p) /\ LocalInv(proc[p]) /\ proc[p] \in Attempt /\ proc[p].pc = "md5_open"
      /\ (proc[p].alone => LoneInv(proc[p], disk, installed)) /\ proc[p].ver \in Version
  BY RunningFacts DEF Md5Open, Running
<1>2. proc[p].match /\ proc[p].hash = <<>>
      /\ (proc[p].receives => proc[p].offset <= Blocks[proc[p].ver]) /\ (proc[p].receives \/ proc[p].fresh)
  BY <1>1 DEF LocalInv, SenderPcs
<1>3. CASE ~F!Has(disk, Zip)
  BY <1>1, <1>3, FailsInv DEF Md5Open, LoneInv, NamesInv
<1>4. CASE F!Has(disk, Zip)
  <2>1. Go(p, me)
    BY <1>4 DEF Md5Open
  <2>2. disk.link[Zip] \in Nat \ {0}
    BY <1>4, ArchiveHolds DEF IInv
  <2>3. /\ me \in Attempt /\ me.pc = "md5_stat" /\ me.zip = disk.link[Zip] /\ me.ck = proc[p].ck
        /\ me.offset = proc[p].offset /\ me.receives = proc[p].receives /\ me.ver = proc[p].ver
        /\ me.alone = proc[p].alone /\ me.match = proc[p].match /\ me.hash = proc[p].hash
        /\ me.fresh = proc[p].fresh
    BY <1>1, <2>2 DEF Attempt, Pc, CommonPcs
  <2> HIDE DEF me
  <2>4. Continues(me, proc[p], disk)
    BY <1>1, <1>2, <2>2, <2>3 DEF Continues, LocalInv, CommonPcs
  <2>5. ASSUME me.alone PROVE LoneInv(me, disk, installed)
    BY <1>1, <2>3, <2>5 DEF LoneInv, NamesInv, ArchiveInv, HashInv, OutcomeInv, CommonPcs
  <2> QED
    BY <1>1, <2>1, <2>3, <2>4, <2>5, GoInv
<1> QED
  BY <1>3, <1>4

LEMMA Md5StatInv ==
  ASSUME IInv, NEW p \in Process, Md5Stat(p) PROVE IInv'
<1> DEFINE me == [proc[p] EXCEPT !.pc = "md5_read", !.left = F!Size(disk, Zip)]
<1>1. Running(p) /\ LocalInv(proc[p]) /\ proc[p] \in Attempt /\ proc[p].pc = "md5_stat"
      /\ (proc[p].alone => LoneInv(proc[p], disk, installed)) /\ proc[p].ver \in Version
  BY RunningFacts DEF Md5Stat, Running
<1>2. proc[p].match /\ proc[p].hash = <<>> /\ proc[p].zip # 0
      /\ (proc[p].receives => proc[p].offset <= Blocks[proc[p].ver]) /\ (proc[p].receives \/ proc[p].fresh)
  BY <1>1 DEF LocalInv, SenderPcs
<1>3. CASE ~F!Has(disk, Zip)
  BY <1>1, <1>2, <1>3, FailsInv DEF Md5Stat, LoneInv, NamesInv, F!Has
<1>4. CASE F!Has(disk, Zip)
  <2>1. Go(p, me)
    BY <1>4 DEF Md5Stat
  <2>2. F!Size(disk, Zip) \in Nat /\ F!Size(disk, Zip) \in Int
    BY <1>4, ArchiveHolds DEF IInv
  <2>3. /\ me \in Attempt /\ me.pc = "md5_read" /\ me.zip = proc[p].zip /\ me.ck = proc[p].ck
        /\ me.offset = proc[p].offset /\ me.receives = proc[p].receives /\ me.ver = proc[p].ver
        /\ me.alone = proc[p].alone /\ me.match = proc[p].match /\ me.hash = proc[p].hash
        /\ me.fresh = proc[p].fresh /\ me.left = F!Size(disk, Zip)
    <3> DEFINE size == F!Size(disk, Zip)
    <3> HIDE DEF size
    <3>1. me = [proc[p] EXCEPT !.pc = "md5_read", !.left = size] /\ size \in Int
      BY <2>2 DEF size
    <3> HIDE DEF me
    <3>2. /\ me \in Attempt /\ me.pc = "md5_read" /\ me.zip = proc[p].zip /\ me.ck = proc[p].ck
          /\ me.offset = proc[p].offset /\ me.receives = proc[p].receives /\ me.ver = proc[p].ver
          /\ me.alone = proc[p].alone /\ me.match = proc[p].match /\ me.hash = proc[p].hash
          /\ me.fresh = proc[p].fresh /\ me.left = size
      BY <1>1, <3>1 DEF Attempt, Pc, CommonPcs
    <3> QED
      BY <3>2 DEF size
  <2> HIDE DEF me
  <2>4. Continues(me, proc[p], disk)
    BY <1>1, <1>2, <2>3 DEF Continues, LocalInv, CommonPcs
  <2>5. ASSUME me.alone PROVE LoneInv(me, disk, installed)
    <3>1. HashInv(me, disk)
      BY <1>2, <2>2, <2>3 DEF HashInv
    <3> QED
      BY <1>1, <2>3, <2>5, <3>1 DEF LoneInv, NamesInv, ArchiveInv, OutcomeInv, CommonPcs
  <2> QED
    BY <1>1, <2>1, <2>3, <2>4, <2>5, GoInv
<1> QED
  BY <1>3, <1>4

\* The whole archive has been hashed.
LEMMA HashedInv ==
  ASSUME IInv, NEW p \in Process, proc[p].pc = "md5_read", NEW h \in Seq(Cell), Go(p, Hashed(p, h)),
         proc[p].alone => h = F!Content(disk, Zip)
  PROVE  IInv'
<1> DEFINE me == Hashed(p, h)
<1>1. Running(p) /\ LocalInv(proc[p]) /\ proc[p] \in Attempt
      /\ (proc[p].alone => LoneInv(proc[p], disk, installed)) /\ proc[p].ver \in Version
  BY RunningFacts DEF Running
<1>2. proc[p].match /\ proc[p].zip # 0
      /\ (proc[p].receives => proc[p].offset <= Blocks[proc[p].ver]) /\ (proc[p].receives \/ proc[p].fresh)
  BY <1>1 DEF LocalInv, SenderPcs
<1>3. proc[p].alone => /\ F!Has(disk, Zip) /\ (proc[p].receives => F!Has(disk, Ckpt(proc[p].ver)))
                       /\ proc[p].fresh => F!Content(disk, Zip) = Archive(proc[p].ver)
  BY <1>1, <1>2 DEF LoneInv, NamesInv, ArchiveInv, CommonPcs, F!Has
<1>4. CASE ~proc[p].receives
  <2>1. /\ me \in Attempt /\ me.pc = "open_send" /\ me.zip = 0 /\ me.ck = proc[p].ck
        /\ ~me.receives /\ me.ver = proc[p].ver /\ me.alone = proc[p].alone
        /\ me.match /\ me.hash = h /\ me.fresh
    <3>1. me = [proc[p] EXCEPT !.pc = "open_send", !.zip = 0, !.left = 0, !.hash = h]
      BY <1>4 DEF Hashed
    <3>2. me = [proc[p] EXCEPT !.pc = "open_send", !.zip = 0, !.left = 0, !.match = proc[p].match, !.hash = h]
      BY <1>1, <3>1 DEF Attempt
    <3> DEFINE zero == 0
    <3>3. /\ zero \in Nat /\ zero \in Int /\ "open_send" \in Pc /\ proc[p].match \in BOOLEAN
          /\ me = [proc[p] EXCEPT !.pc = "open_send", !.zip = zero, !.left = zero, !.match = proc[p].match, !.hash = h]
      BY <1>1, <3>2 DEF Attempt, Pc, SenderPcs
    <3> HIDE DEF me, zero
    <3>4. /\ me \in Attempt /\ me.pc = "open_send" /\ me.zip = zero /\ me.ck = proc[p].ck
          /\ me.receives = proc[p].receives /\ me.ver = proc[p].ver /\ me.alone = proc[p].alone
          /\ me.match = proc[p].match /\ me.hash = h /\ me.fresh = proc[p].fresh
      BY <1>1, <3>3 DEF Attempt
    <3> QED
      BY <1>2, <1>4, <3>4 DEF zero
  <2>4. Go(p, me)
    OBVIOUS
  <2> HIDE DEF me
  <2>2. Continues(me, proc[p], disk)
    BY <1>1, <2>1 DEF Continues, LocalInv, SenderPcs
  <2>3. ASSUME me.alone PROVE LoneInv(me, disk, installed)
    BY <1>2, <1>3, <1>4, <2>1, <2>3 DEF LoneInv, NamesInv, ArchiveInv, HashInv, OutcomeInv, CommonPcs
  <2> QED
    BY <1>1, <2>1, <2>2, <2>3, <2>4, GoInv
<1>5. CASE proc[p].receives
  <2> DEFINE pc == IF Matches(p, h) THEN "extract" ELSE "rm_zip"
             match == h = Archive(proc[p].ver)
  <2>1. me = [proc[p] EXCEPT !.pc = pc, !.zip = 0, !.left = 0, !.match = match, !.hash = <<>>]
    BY <1>5 DEF Hashed, Matches
  <2>2. <<>> \in Seq(Cell) /\ match \in BOOLEAN /\ pc \in Pc /\ 0 \in Nat /\ 0 \in Int
    BY DEF Pc, CommonPcs, ReceiverPcs
  <2>3. /\ me \in Attempt /\ me.pc = pc /\ me.zip = 0 /\ me.ck = proc[p].ck
        /\ me.offset = proc[p].offset /\ me.receives /\ me.ver = proc[p].ver
        /\ me.alone = proc[p].alone /\ me.match = match
        /\ me.hash = <<>> /\ me.fresh = proc[p].fresh
    <3> DEFINE zero == 0
               none == <<>>
    <3>1. /\ zero \in Nat /\ zero \in Int /\ none \in Seq(Cell)
          /\ me = [proc[p] EXCEPT !.pc = pc, !.zip = zero, !.left = zero, !.match = match, !.hash = none]
      BY <2>1
    <3> HIDE DEF me, pc, match, zero, none
    <3>2. /\ me \in Attempt /\ me.pc = pc /\ me.zip = zero /\ me.ck = proc[p].ck
          /\ me.offset = proc[p].offset /\ me.receives = proc[p].receives /\ me.ver = proc[p].ver
          /\ me.alone = proc[p].alone /\ me.match = match
          /\ me.hash = none /\ me.fresh = proc[p].fresh
      BY <1>1, <2>2, <3>1 DEF Attempt
    <3> QED
      BY <1>5, <3>2 DEF zero, none
  <2>4. me.pc = (IF me.match THEN "extract" ELSE "rm_zip") /\ (me.match <=> h = Archive(me.ver))
    <3>1. (me.match <=> h = Archive(proc[p].ver)) /\ (Matches(p, h) <=> h = Archive(proc[p].ver))
      BY <2>3 DEF Matches
    <3> HIDE DEF me
    <3> QED
      BY <2>3, <3>1
  <2>7. Go(p, me)
    OBVIOUS
  <2> HIDE DEF me, pc, match
  <2>5. Continues(me, proc[p], disk)
    BY <1>1, <1>2, <1>5, <2>3, <2>4 DEF Continues, LocalInv, CommonPcs, ReceiverPcs
  <2>6. ASSUME me.alone PROVE LoneInv(me, disk, installed)
    <3>1. /\ F!Has(disk, Zip) /\ F!Has(disk, Ckpt(me.ver)) /\ h = F!Content(disk, Zip)
          /\ me.fresh => F!Content(disk, Zip) = Archive(me.ver)
      BY <1>3, <1>5, <2>3, <2>6
    <3>2. CASE me.match
      BY <2>3, <2>4, <3>1, <3>2 DEF LoneInv, NamesInv, ArchiveInv, HashInv, OutcomeInv, CommonPcs
    <3>3. CASE ~me.match
      BY <2>3, <2>4, <3>1, <3>3 DEF LoneInv, NamesInv, ArchiveInv, HashInv, OutcomeInv, CommonPcs
    <3> QED
      BY <3>2, <3>3
  <2> QED
    BY <1>1, <2>3, <2>5, <2>6, <2>7, GoInv
<1> QED
  BY <1>4, <1>5

\* One more block of a file has been hashed.
LEMMA OneMore ==
  ASSUME NEW S, NEW whole \in Seq(S), NEW h \in Seq(S), Len(h) < Len(whole),
         NEW g, g = Append(h, whole[Len(h) + 1])
  PROVE  /\ g \in Seq(S) /\ Len(g) = Len(h) + 1
         /\ (\A k \in 1..Len(h) : h[k] = whole[k]) =>
                /\ \A k \in 1..Len(g) : g[k] = whole[k]
                /\ Len(g) = Len(whole) => g = whole
<1>1. Len(h) \in Nat /\ Len(whole) \in Nat /\ Len(h) + 1 \in 1..Len(whole)
  OBVIOUS
<1>2. whole[Len(h) + 1] \in S
  BY <1>1
<1>3. g \in Seq(S) /\ Len(g) = Len(h) + 1
  BY <1>2
<1>4. /\ \A k \in 1..Len(h) : g[k] = h[k]
      /\ g[Len(h) + 1] = whole[Len(h) + 1]
  BY <1>2
<1>5. ASSUME \A k \in 1..Len(h) : h[k] = whole[k]
      PROVE  \A k \in 1..Len(g) : g[k] = whole[k]
  BY <1>1, <1>3, <1>4, <1>5
<1>6. ASSUME \A k \in 1..Len(g) : g[k] = whole[k], Len(g) = Len(whole)
      PROVE  g = whole
  BY <1>3, <1>6
<1> QED
  BY <1>3, <1>5, <1>6

LEMMA Md5ReadInv ==
  ASSUME IInv, NEW p \in Process, Md5Read(p) PROVE IInv'
<1> DEFINE was  == proc[p]
           file == disk.data[was.zip]
           hash == Append(was.hash, file[Len(was.hash) + 1])
           me   == [was EXCEPT !.left = @ - 1, !.hash = hash]
<1>1. Running(p) /\ LocalInv(was) /\ was \in Attempt /\ was.pc = "md5_read"
      /\ (was.alone => LoneInv(was, disk, installed)) /\ was.ver \in Version
  BY RunningFacts DEF Md5Read, Running
<1>2. was.match /\ was.zip # 0 /\ was.hash \in Seq(Cell) /\ was.left \in Int
      /\ (was.receives => was.offset <= Blocks[was.ver]) /\ (was.receives \/ was.fresh)
  BY <1>1 DEF LocalInv, SenderPcs, Attempt
<1>3. file \in Seq(Cell) /\ Len(file) \in Nat /\ Len(was.hash) \in Nat
  BY <1>2, OpenZipHolds
<1>4. was.alone => /\ file = F!Content(disk, Zip) /\ was.left \in Nat
                   /\ Len(was.hash) + was.left = Len(file)
                   /\ \A k \in 1..Len(was.hash) : was.hash[k] = file[k]
  BY <1>1 DEF LoneInv, NamesInv, HashInv, F!Content, F!Size
<1>5. was.left = 0 \/ Len(was.hash) < Len(file)
  <2>1. ~Spins(p)
    BY DEF Md5Read
  <2> QED
    BY <1>1, <1>3, <2>1 DEF Spins
<1>6. CASE was.left = 0
  <2>1. Go(p, Hashed(p, was.hash))
    BY <1>6 DEF Md5Read
  <2>2. ASSUME was.alone PROVE was.hash = F!Content(disk, Zip)
    <3>1. Len(was.hash) = Len(file) /\ \A k \in 1..Len(file) : was.hash[k] = file[k]
      BY <1>3, <1>4, <1>6, <2>2
    <3> HIDE DEF was, file
    <3>2. was.hash = file
      BY <1>2, <1>3, <3>1
    <3> QED
      BY <1>4, <2>2, <3>2
  <2> QED
    BY <1>1, <1>2, <2>1, <2>2, HashedInv
<1>7. ASSUME was.left # 0
      PROVE  /\ hash \in Seq(Cell) /\ Len(hash) = Len(was.hash) + 1
             /\ was.alone => /\ \A k \in 1..Len(hash) : hash[k] = file[k]
                             /\ Len(hash) = Len(file) => hash = file
  <2>1. Len(was.hash) < Len(file)
    BY <1>5, <1>7
  <2> HIDE DEF was, file, hash
  <2>2. hash = Append(was.hash, file[Len(was.hash) + 1])
    BY DEF hash
  <2> QED
    BY <1>2, <1>3, <1>4, <2>1, <2>2, OneMore
<1>8. CASE was.left = 1
  <2>1. Go(p, Hashed(p, hash))
    BY <1>8 DEF Md5Read
  <2> HIDE DEF hash, file
  <2>2. was.alone => hash = F!Content(disk, Zip)
    BY <1>3, <1>4, <1>7, <1>8
  <2> QED
    BY <1>1, <1>7, <1>8, <2>1, <2>2, HashedInv
<1>9. CASE was.left # 0 /\ was.left # 1
  <2>1. Go(p, me)
    BY <1>9 DEF Md5Read
  <2>2. /\ me \in Attempt /\ me.pc = "md5_read" /\ me.zip = was.zip /\ me.ck = was.ck
        /\ me.offset = was.offset /\ me.receives = was.receives /\ me.ver = was.ver
        /\ me.alone = was.alone /\ me.match /\ me.hash = hash
        /\ me.fresh = was.fresh /\ me.left = was.left - 1
    <3> DEFINE left == was.left - 1
    <3>1. hash \in Seq(Cell) /\ left \in Int /\ was \in Attempt /\ was.match /\ was.pc = "md5_read"
      BY <1>1, <1>2, <1>7, <1>9
    <3>2. me = [was EXCEPT !.left = left, !.hash = hash]
      OBVIOUS
    <3> HIDE DEF hash, left, me, was
    <3>3. /\ me \in Attempt /\ me.pc = "md5_read" /\ me.zip = was.zip /\ me.ck = was.ck
          /\ me.offset = was.offset /\ me.receives = was.receives /\ me.ver = was.ver
          /\ me.alone = was.alone /\ me.match /\ me.hash = hash
          /\ me.fresh = was.fresh /\ me.left = left
      BY <3>1, <3>2 DEF Attempt
    <3> QED
      BY <3>3 DEF left
  <2> HIDE DEF me, hash
  <2>3. Continues(me, was, disk)
    BY <1>1, <1>2, <2>2 DEF Continues, LocalInv, CommonPcs
  <2>4. ASSUME me.alone PROVE LoneInv(me, disk, installed)
    <3>1. HashInv(me, disk)
      <4>1. F!Size(disk, Zip) = Len(file)
        BY <1>4, <2>2, <2>4 DEF F!Size
      <4> HIDE DEF file
      <4>2. me.left \in Nat /\ Len(me.hash) + me.left = Len(file)
        BY <1>2, <1>3, <1>4, <1>7, <1>9, <2>2, <2>4
      <4>3. \A k \in 1..Len(me.hash) : me.hash[k] = F!Content(disk, Zip)[k]
        BY <1>4, <1>7, <1>9, <2>2, <2>4
      <4> QED
        BY <2>2, <4>1, <4>2, <4>3 DEF HashInv
    <3> QED
      BY <1>1, <2>2, <2>4, <3>1 DEF LoneInv, NamesInv, ArchiveInv, OutcomeInv, CommonPcs
  <2> QED
    BY <1>1, <2>1, <2>2, <2>3, <2>4, GoInv
<1> QED
  BY <1>6, <1>8, <1>9

LEMMA RmZipInv ==
  ASSUME IInv, NEW p \in Process, RmZip(p) PROVE IInv'
<1> DEFINE d == F!Unlinked(disk, Zip)
           me == [proc[p] EXCEPT !.pc = "rm_ckpt"]
<1>1. Running(p) /\ LocalInv(proc[p]) /\ proc[p] \in Attempt /\ proc[p].pc = "rm_zip"
      /\ (proc[p].alone => LoneInv(proc[p], disk, installed)) /\ proc[p].ver \in Version
  BY RunningFacts DEF RmZip, Running
<1>2. FilesInv(d, proc) /\ ~F!Has(d, Zip) /\ d.link[Ckpt(proc[p].ver)] = disk.link[Ckpt(proc[p].ver)]
  <2>1. Zip \in Name /\ Ckpt(proc[p].ver) \in Name \ {Zip}
    BY <1>1, Names
  <2>2. FilesInv(disk, proc)
    BY DEF IInv
  <2> HIDE DEF d
  <2>3. d = F!Unlinked(disk, Zip)
    BY DEF d
  <2> QED
    BY <2>1, <2>2, <2>3, UnlinkedInv
<1>3. CASE ~F!Has(disk, Zip)
  BY <1>1, <1>3, FailsInv DEF RmZip, LoneInv, NamesInv
<1>4. CASE F!Has(disk, Zip) /\ proc[p].receives
  <2>1. Change(p, me, d)
    BY <1>4 DEF RmZip
  <2>2. proc[p].offset <= Blocks[proc[p].ver]
    BY <1>1, <1>4 DEF LocalInv
  <2>3. /\ me \in Attempt /\ me.pc = "rm_ckpt" /\ me.zip = proc[p].zip /\ me.ck = proc[p].ck
        /\ me.offset = proc[p].offset /\ me.receives /\ me.ver = proc[p].ver
        /\ me.alone = proc[p].alone /\ me.match = proc[p].match /\ me.fresh = proc[p].fresh
    BY <1>1, <1>4 DEF Attempt, Pc, ReceiverPcs
  <2> HIDE DEF me, d
  <2>4. Continues(me, proc[p], d)
    BY <1>1, <2>2, <2>3 DEF Continues, LocalInv, ReceiverPcs
  <2>5. ASSUME me.alone PROVE LoneInv(me, d, installed)
    <3>1. F!Has(disk, Ckpt(me.ver)) /\ OutcomeInv(proc[p], installed)
      BY <1>1, <1>4, <2>3, <2>5 DEF LoneInv, NamesInv, CommonPcs
    <3>2. F!Has(d, Ckpt(me.ver)) /\ OutcomeInv(me, installed)
      BY <1>1, <1>2, <1>4, <2>3, <3>1 DEF OutcomeInv, F!Has
    <3> QED
      BY <1>2, <2>3, <3>2 DEF LoneInv, NamesInv, ArchiveInv, HashInv, CommonPcs
  <2> QED
    BY <1>1, <1>2, <2>1, <2>4, <2>5, ChangeInv
<1>5. CASE F!Has(disk, Zip) /\ ~proc[p].receives
  <2>1. Ends(p, "ok", d) /\ installed' = installed
    BY <1>5 DEF RmZip, End
  <2>2. proc[p].alone => proc[p].match
    BY <1>1, <1>5 DEF LoneInv, OutcomeInv
  <2>3. installed' \in Version \cup {NoVersion, Torn}
    BY <2>1 DEF IInv, TypeOK
  <2> HIDE DEF d
  <2> QED
    BY <1>1, <1>2, <1>5, <2>1, <2>2, <2>3, EndsInv
<1> QED
  BY <1>3, <1>4, <1>5

-----------------------------------------------------------------------------
(* The steps of a sender.                                                  *)

LEMMA ZipOpenInv ==
  ASSUME IInv, NEW p \in Process, ZipOpen(p) PROVE IInv'
<1> DEFINE d == F!Truncated(disk, Zip)
           me == [proc[p] EXCEPT !.pc = "entry", !.zip = d.link[Zip]]
<1>1. Running(p) /\ LocalInv(proc[p]) /\ proc[p] \in Attempt /\ proc[p].pc = "zip" /\ proc[p].ver \in Version
  BY RunningFacts DEF ZipOpen, Running
<1>2. ~proc[p].receives /\ proc[p].hash = <<>> /\ proc[p].match /\ proc[p].fresh
      /\ proc[p].offset = 0 /\ Blocks[proc[p].ver] \in Nat \ {0}
  BY <1>1, SharedAssumption DEF LocalInv, ReceiverPcs, CommonPcs
<1>3. Change(p, me, d)
  BY DEF ZipOpen
<1>4. FilesInv(d, proc) /\ d.link[Zip] # 0 /\ F!Content(d, Zip) = <<>>
  BY TruncatedInv, Names DEF IInv
<1>5. d.link[Zip] \in Nat
  BY <1>4, ArchiveHolds DEF F!Has
<1> HIDE DEF d
<1>6. /\ me \in Attempt /\ me.pc = "entry" /\ me.zip = d.link[Zip] /\ me.ck = proc[p].ck
      /\ me.offset = 0 /\ ~me.receives /\ me.ver = proc[p].ver /\ me.alone = proc[p].alone
      /\ me.hash = <<>> /\ me.match /\ me.fresh
  BY <1>1, <1>2, <1>5 DEF Attempt, Pc, SenderPcs
<1> HIDE DEF me
<1>7. Continues(me, proc[p], d)
  BY <1>1, <1>2, <1>4, <1>6 DEF Continues, LocalInv, SenderPcs
<1>8. LoneInv(me, d, installed)
  BY <1>4, <1>6, Parts DEF LoneInv, NamesInv, ArchiveInv, HashInv, OutcomeInv, CommonPcs
<1> QED
  BY <1>1, <1>3, <1>4, <1>7, <1>8, ChangeInv

LEMMA ZipEntryInv ==
  ASSUME IInv, NEW p \in Process, ZipEntry(p) PROVE IInv'
<1> DEFINE f == proc[p].zip
           n == proc[p].offset
           v == proc[p].ver
           d == F!Written(disk, f, n, <<v, n + 1>>)
           more == [proc[p] EXCEPT !.offset = n + 1]
           last == [proc[p] EXCEPT !.pc = "md5_open", !.zip = 0, !.offset = 0]
<1>1. Running(p) /\ LocalInv(proc[p]) /\ proc[p] \in Attempt /\ proc[p].pc = "entry"
      /\ (proc[p].alone => LoneInv(proc[p], disk, installed)) /\ v \in Version
  BY RunningFacts DEF ZipEntry, Running
<1>2. ~proc[p].receives /\ proc[p].hash = <<>> /\ proc[p].match /\ proc[p].fresh /\ f # 0
      /\ n \in Nat /\ n < Blocks[v] /\ Blocks[v] \in Nat
  BY <1>1, SharedAssumption DEF LocalInv, ReceiverPcs, CommonPcs, Attempt
<1>3. f \in DOMAIN disk.data /\ UsedAs(disk, proc, f, NoVersion) /\ disk.data[f] \in Seq(Cell)
      /\ DiskType(disk) /\ FilesInv(disk, proc)
  BY <1>2, OpenZipHolds DEF IInv, FilesInv
<1>4. /\ d.data[f] \in Seq(Cell)
      /\ disk.data[f] = Part(v, n) => d.data[f] = Part(v, n + 1)
  <2>1. v \in Version /\ n \in Nat
    BY <1>1, <1>2
  <2> HIDE DEF f, n, v
  <2> QED
    BY <1>3, <2>1, BlockWritten
<1>5. FilesInv(d, proc) /\ d.link = disk.link
  <2>1. NoVersion \in Kind /\ d.data[f] \in Contents(NoVersion)
    BY <1>4 DEF Contents, Kind
  <2> HIDE DEF f, n, v
  <2> QED
    BY <1>3, <2>1, WrittenInv
<1>6. proc[p].alone => F!Has(d, Zip) /\ f = d.link[Zip] /\ F!Content(d, Zip) = Part(v, n + 1)
  BY <1>1, <1>2, <1>4, <1>5 DEF LoneInv, NamesInv, ArchiveInv, F!Content, F!Has
<1>7. CASE n + 1 < Blocks[v]
  <2>1. Change(p, more, d)
    BY <1>7 DEF ZipEntry
  <2>2. /\ more \in Attempt /\ more.pc = "entry" /\ more.zip = f /\ more.ck = proc[p].ck
        /\ more.offset = n + 1 /\ ~more.receives /\ more.ver = v /\ more.alone = proc[p].alone
        /\ more.hash = <<>> /\ more.match /\ more.fresh
    <3> DEFINE m == n + 1
    <3>1. m \in Nat /\ more = [proc[p] EXCEPT !.offset = m]
      BY <1>2
    <3> HIDE DEF m, more
    <3>2. /\ more \in Attempt /\ more.pc = "entry" /\ more.zip = f /\ more.ck = proc[p].ck
          /\ more.offset = m /\ ~more.receives /\ more.ver = v /\ more.alone = proc[p].alone
          /\ more.hash = <<>> /\ more.match /\ more.fresh
      BY <1>1, <1>2, <3>1 DEF Attempt
    <3> QED
      BY <3>2 DEF m
  <2> HIDE DEF more, d
  <2>3. Continues(more, proc[p], d)
    BY <1>1, <1>2, <1>7, <2>2 DEF Continues, LocalInv, SenderPcs
  <2>4. ASSUME more.alone PROVE LoneInv(more, d, installed)
    BY <1>6, <2>2, <2>4 DEF LoneInv, NamesInv, ArchiveInv, HashInv, OutcomeInv, CommonPcs
  <2> QED
    BY <1>1, <1>5, <2>1, <2>3, <2>4, ChangeInv
<1>8. CASE ~(n + 1 < Blocks[v])
  <2>1. Change(p, last, d)
    BY <1>8 DEF ZipEntry
  <2>2. /\ last \in Attempt /\ last.pc = "md5_open" /\ last.zip = 0 /\ last.ck = proc[p].ck
        /\ ~last.receives /\ last.ver = v /\ last.alone = proc[p].alone
        /\ last.hash = <<>> /\ last.match /\ last.fresh
    <3> DEFINE zero == 0
    <3>1. zero \in Nat /\ last = [proc[p] EXCEPT !.pc = "md5_open", !.zip = zero, !.offset = zero]
      OBVIOUS
    <3> HIDE DEF zero, last
    <3>2. /\ last \in Attempt /\ last.pc = "md5_open" /\ last.zip = zero /\ last.ck = proc[p].ck
          /\ ~last.receives /\ last.ver = v /\ last.alone = proc[p].alone
          /\ last.hash = <<>> /\ last.match /\ last.fresh
      BY <1>1, <1>2, <3>1 DEF Attempt, Pc, CommonPcs
    <3> QED
      BY <3>2 DEF zero
  <2>3. n + 1 = Blocks[v]
    BY <1>2, <1>8
  <2> HIDE DEF last, d
  <2>4. Continues(last, proc[p], d)
    BY <1>1, <2>2 DEF Continues, LocalInv, CommonPcs
  <2>5. ASSUME last.alone PROVE LoneInv(last, d, installed)
    <3>1. F!Content(d, Zip) = Archive(v) /\ F!Has(d, Zip)
      BY <1>6, <2>2, <2>3, <2>5, Parts
    <3> QED
      BY <2>2, <3>1 DEF LoneInv, NamesInv, ArchiveInv, HashInv, OutcomeInv, CommonPcs
  <2> QED
    BY <1>1, <1>5, <2>1, <2>4, <2>5, ChangeInv
<1> QED
  BY <1>7, <1>8

LEMMA OpenSendInv ==
  ASSUME IInv, NEW p \in Process, OpenSend(p) PROVE IInv'
<1>1. Running(p) /\ LocalInv(proc[p]) /\ proc[p] \in Attempt /\ proc[p].pc = "open_send"
      /\ (proc[p].alone => LoneInv(proc[p], disk, installed)) /\ proc[p].ver \in Version
  BY RunningFacts DEF OpenSend, Running
<1>2. ~proc[p].receives /\ proc[p].match /\ proc[p].fresh /\ Blocks[proc[p].ver] \in Nat
  BY <1>1, SharedAssumption DEF LocalInv, ReceiverPcs, CommonPcs
<1>3. CASE ~F!Has(disk, Zip)
  BY <1>1, <1>3, FailsInv DEF OpenSend, LoneInv, NamesInv
<1>4. CASE F!Has(disk, Zip)
  <2>1. PICK offset \in 0..Blocks[proc[p].ver] :
            Go(p, [proc[p] EXCEPT !.pc = "stat_send", !.zip = disk.link[Zip], !.offset = offset])
    BY <1>4 DEF OpenSend
  <2> DEFINE me == [proc[p] EXCEPT !.pc = "stat_send", !.zip = disk.link[Zip], !.offset = offset]
  <2>2. disk.link[Zip] \in Nat \ {0} /\ offset \in Nat /\ offset <= Blocks[proc[p].ver]
    BY <1>2, <1>4, ArchiveHolds DEF IInv
  <2>3. /\ me \in Attempt /\ me.pc = "stat_send" /\ me.zip = disk.link[Zip] /\ me.ck = proc[p].ck
        /\ me.offset = offset /\ ~me.receives /\ me.ver = proc[p].ver
        /\ me.alone = proc[p].alone /\ me.match /\ me.hash = proc[p].hash /\ me.fresh
    BY <1>1, <1>2, <2>2 DEF Attempt, Pc, SenderPcs
  <2> HIDE DEF me
  <2>4. Continues(me, proc[p], disk)
    BY <1>1, <2>2, <2>3 DEF Continues, LocalInv, SenderPcs
  <2>5. ASSUME me.alone PROVE LoneInv(me, disk, installed)
    <3>1. F!Content(disk, Zip) = Archive(me.ver) /\ me.hash = F!Content(disk, Zip)
      BY <1>1, <2>3, <2>5 DEF LoneInv, ArchiveInv, HashInv
    <3> QED
      BY <2>2, <2>3, <3>1 DEF LoneInv, NamesInv, ArchiveInv, HashInv, OutcomeInv, CommonPcs
  <2>6. Go(p, me)
    BY <2>1 DEF me
  <2> QED
    BY <1>1, <2>3, <2>4, <2>5, <2>6, GoInv
<1> QED
  BY <1>3, <1>4

LEMMA StatSendInv ==
  ASSUME IInv, NEW p \in Process, StatSend(p) PROVE IInv'
<1> DEFINE me == [proc[p] EXCEPT !.pc = "send", !.left = F!Size(disk, Zip) - proc[p].offset]
<1>1. Running(p) /\ LocalInv(proc[p]) /\ proc[p] \in Attempt /\ proc[p].pc = "stat_send"
      /\ (proc[p].alone => LoneInv(proc[p], disk, installed)) /\ proc[p].ver \in Version
  BY RunningFacts DEF StatSend, Running
<1>2. ~proc[p].receives /\ proc[p].match /\ proc[p].fresh /\ proc[p].zip # 0 /\ proc[p].offset \in Nat
      /\ Blocks[proc[p].ver] \in Nat
  BY <1>1, SharedAssumption DEF LocalInv, ReceiverPcs, CommonPcs, Attempt
<1>3. CASE ~F!Has(disk, Zip)
  BY <1>1, <1>2, <1>3, FailsInv DEF StatSend, LoneInv, NamesInv, F!Has
<1>4. CASE F!Has(disk, Zip)
  <2> DEFINE left == F!Size(disk, Zip) - proc[p].offset
  <2>1. Go(p, me)
    BY <1>4 DEF StatSend
  <2>2. F!Size(disk, Zip) \in Nat /\ left \in Int
    BY <1>2, <1>4, ArchiveHolds DEF IInv
  <2>3. me = [proc[p] EXCEPT !.pc = "send", !.left = left]
    OBVIOUS
  <2> HIDE DEF me, left
  <2>4. /\ me \in Attempt /\ me.pc = "send" /\ me.zip = proc[p].zip /\ me.ck = proc[p].ck
        /\ me.offset = proc[p].offset /\ ~me.receives /\ me.ver = proc[p].ver
        /\ me.alone = proc[p].alone /\ me.match /\ me.hash = proc[p].hash /\ me.fresh
        /\ me.left = left
    BY <1>1, <1>2, <2>2, <2>3 DEF Attempt, Pc, SenderPcs
  <2>5. Continues(me, proc[p], disk)
    BY <1>1, <1>2, <2>4 DEF Continues, LocalInv, SenderPcs
  <2>6. ASSUME me.alone PROVE LoneInv(me, disk, installed)
    <3>1. /\ F!Content(disk, Zip) = Archive(me.ver) /\ me.hash = F!Content(disk, Zip)
          /\ me.zip = disk.link[Zip] /\ me.offset <= Blocks[me.ver]
      BY <1>1, <2>4, <2>6 DEF LoneInv, NamesInv, ArchiveInv, HashInv
    <3>2. F!Size(disk, Zip) = Blocks[me.ver]
      BY <1>2, <2>4, <3>1 DEF F!Size, Archive
    <3>3. me.left + me.offset = Blocks[me.ver]
      BY <1>2, <2>4, <3>2 DEF left
    <3> QED
      BY <2>4, <3>1, <3>3 DEF LoneInv, NamesInv, ArchiveInv, HashInv, OutcomeInv, CommonPcs
  <2> QED
    BY <1>1, <2>1, <2>4, <2>5, <2>6, GoInv
<1> QED
  BY <1>3, <1>4

LEMMA SendBlockInv ==
  ASSUME IInv, NEW p \in Process, SendBlock(p) PROVE IInv'
<1> DEFINE was   == proc[p]
           n     == was.offset + 1
           left  == was.left - 1
           match == was.match /\ n <= Len(was.hash) /\ disk.data[was.zip][n] = was.hash[n]
           me    == [was EXCEPT !.left = left, !.offset = n, !.match = match]
<1>1. Running(p) /\ LocalInv(was) /\ was \in Attempt /\ was.pc = "send" /\ was.left # 0
      /\ (was.alone => LoneInv(was, disk, installed)) /\ was.ver \in Version
  BY RunningFacts DEF SendBlock, Running
<1>2. ~was.receives /\ was.fresh /\ was.zip # 0 /\ was.offset \in Nat /\ was.left \in Int
      /\ Blocks[was.ver] \in Nat /\ was.match \in BOOLEAN
  BY <1>1, SharedAssumption DEF LocalInv, ReceiverPcs, CommonPcs, Attempt
<1>3. Go(p, me)
  <2>1. Go(p, [was EXCEPT !.left = @ - 1, !.offset = was.offset + 1,
                   !.match = @ /\ was.offset + 1 <= Len(was.hash)
                               /\ disk.data[was.zip][was.offset + 1] = was.hash[was.offset + 1]])
    BY DEF SendBlock
  <2> QED
    BY <2>1
<1>4. was.offset < Len(disk.data[was.zip]) /\ Len(disk.data[was.zip]) \in Nat
  <2>1. ~Spins(p)
    BY DEF SendBlock
  <2>2. Len(disk.data[was.zip]) \in Nat
    BY <1>2, OpenZipHolds
  <2> QED
    BY <1>1, <1>2, <2>1, <2>2 DEF Spins
<1>5. /\ me \in Attempt /\ me.pc = "send" /\ me.zip = was.zip /\ me.ck = was.ck
      /\ me.offset = n /\ ~me.receives /\ me.ver = was.ver
      /\ me.alone = was.alone /\ me.match = match /\ me.hash = was.hash /\ me.fresh /\ me.left = left
  <2>1. n \in Nat /\ left \in Int /\ match \in BOOLEAN
    BY <1>2
  <2> HIDE DEF n, left, match
  <2> QED
    BY <1>1, <1>2, <2>1 DEF Attempt
<1>6. ASSUME was.alone
      PROVE  /\ F!Content(disk, Zip) = Archive(was.ver) /\ was.hash = F!Content(disk, Zip)
             /\ was.zip = disk.link[Zip] /\ n <= Blocks[was.ver] /\ match /\ left + n = Blocks[was.ver]
  <2>1. /\ F!Content(disk, Zip) = Archive(was.ver) /\ was.hash = F!Content(disk, Zip)
        /\ was.zip = disk.link[Zip] /\ was.left + was.offset = Blocks[was.ver] /\ was.match
    BY <1>1, <1>6 DEF LoneInv, NamesInv, ArchiveInv, HashInv
  <2>2. disk.data[was.zip] = was.hash /\ Len(was.hash) = Blocks[was.ver]
    BY <1>2, <2>1 DEF F!Content, Archive
  <2>3. n <= Len(was.hash)
    BY <1>2, <1>4, <2>2
  <2>4. left + n = Blocks[was.ver]
    BY <1>2, <2>1
  <2> QED
    BY <2>1, <2>2, <2>3, <2>4
<1> HIDE DEF me, n, left, match
<1>7. Continues(me, was, disk)
  BY <1>1, <1>2, <1>5 DEF Continues, LocalInv, SenderPcs
<1>8. ASSUME me.alone PROVE LoneInv(me, disk, installed)
  BY <1>5, <1>6, <1>8 DEF LoneInv, NamesInv, ArchiveInv, HashInv, OutcomeInv, CommonPcs
<1> QED
  BY <1>1, <1>3, <1>5, <1>7, <1>8, GoInv

LEMMA VerdictInv ==
  ASSUME IInv, NEW p \in Process, Verdict(p) PROVE IInv'
<1> DEFINE was   == proc[p]
           match == was.match /\ was.offset = Len(was.hash)
           me    == [was EXCEPT !.pc = "rm_zip", !.zip = 0, !.match = match]
<1>1. Running(p) /\ LocalInv(was) /\ was \in Attempt /\ was.pc = "send" /\ was.left = 0
      /\ (was.alone => LoneInv(was, disk, installed)) /\ was.ver \in Version
  BY RunningFacts DEF Verdict, Running
<1>2. ~was.receives /\ was.fresh /\ was.zip # 0 /\ was.offset \in Nat /\ was.match \in BOOLEAN
      /\ Blocks[was.ver] \in Nat
  BY <1>1, SharedAssumption DEF LocalInv, ReceiverPcs, CommonPcs, Attempt
<1>3. Go(p, me)
  BY DEF Verdict
<1>4. /\ me \in Attempt /\ me.pc = "rm_zip" /\ me.zip = 0 /\ me.ck = was.ck
      /\ ~me.receives /\ me.ver = was.ver /\ me.alone = was.alone /\ me.match = match /\ me.fresh
  <2> DEFINE zero == 0
  <2>1. zero \in Nat /\ match \in BOOLEAN /\ me = [was EXCEPT !.pc = "rm_zip", !.zip = zero, !.match = match]
    BY <1>2
  <2> HIDE DEF zero, match, me
  <2>2. /\ me \in Attempt /\ me.pc = "rm_zip" /\ me.zip = zero /\ me.ck = was.ck
        /\ ~me.receives /\ me.ver = was.ver /\ me.alone = was.alone /\ me.match = match /\ me.fresh
    BY <1>1, <1>2, <2>1 DEF Attempt, Pc, CommonPcs
  <2> QED
    BY <2>2 DEF zero
<1>5. ASSUME was.alone PROVE F!Has(disk, Zip) /\ match
  <2>1. /\ F!Content(disk, Zip) = Archive(was.ver) /\ was.hash = F!Content(disk, Zip)
        /\ was.zip = disk.link[Zip] /\ was.left + was.offset = Blocks[was.ver] /\ was.match
    BY <1>1, <1>5 DEF LoneInv, NamesInv, ArchiveInv, HashInv
  <2>2. Len(was.hash) = Blocks[was.ver]
    BY <1>2, <2>1 DEF Archive
  <2> QED
    BY <1>1, <1>2, <2>1, <2>2 DEF F!Has
<1> HIDE DEF me, match
<1>6. Continues(me, was, disk)
  BY <1>1, <1>2, <1>4 DEF Continues, LocalInv, CommonPcs
<1>7. ASSUME me.alone PROVE LoneInv(me, disk, installed)
  BY <1>4, <1>5, <1>7 DEF LoneInv, NamesInv, ArchiveInv, HashInv, OutcomeInv, CommonPcs
<1> QED
  BY <1>1, <1>3, <1>4, <1>6, <1>7, GoInv

-----------------------------------------------------------------------------
(* Ends that nobody asked for, and starts.                                 *)

LEMMA DiesInv ==
  ASSUME IInv, NEW p \in Process, Dies(p) PROVE IInv'
<1>1. /\ Running(p) /\ To(p, Idle, disk) /\ done' = Nobody
      /\ attempts' = attempts /\ overlaps' = overlaps
  BY DEF Dies
<1>2. installed' \in Version \cup {NoVersion, Torn} /\ faults' \in 0..MaxFaults
  BY SharedAssumption DEF Dies, IInv, TypeOK
<1>3. Idle.zip = 0 /\ Idle.ck = 0 /\ Idle.pc = "idle"
  BY DEF Idle
<1>4. FilesInv(disk, proc) /\ DOMAIN proc = Process /\ proc[p].ver \in Kind
  BY <1>1, RunningFacts DEF IInv
<1>5. FilesInv(disk, [proc EXCEPT ![p] = Idle])
  BY <1>3, <1>4, OpenInv
<1>6. DoneInv'
  BY <1>1 DEF DoneInv
<1> QED
  BY <1>1, <1>2, <1>3, <1>5, <1>6, IdleLocal, ToInv

\* What a process starts with: nothing open, and nothing to be known.
Fresh(state) ==
    /\ LocalInv(state) /\ state.pc \in {"find", "zip"} /\ state.zip = 0 /\ state.ck = 0

\* Those that run when another one starts are no longer alone, and keep the rest.
LEMMA Others ==
  ASSUME IInv, NEW p \in Process, NEW state, Fresh(state), Start(p, state)
  PROVE  LET others == {q \in Process : Running(q)} IN
         /\ ~Running(p) /\ p = attempts + 1 /\ DOMAIN proc' = Process
         /\ proc' = [q \in Process |-> proc'[q]]
         /\ Fresh(proc'[p]) /\ (proc'[p].alone => others = {})
         /\ \A q \in Process \ {p} :
               /\ LocalInv(proc'[q]) /\ proc'[q].pc = proc[q].pc /\ proc'[q].ver = proc[q].ver
               /\ proc'[q].zip = proc[q].zip /\ proc'[q].ck = proc[q].ck
               /\ proc'[q].alone => q \notin others
<1> DEFINE others == {q \in Process : Running(q)}
           only   == others = {}
           rest   == [q \in Process |-> proc[q].alone /\ q \notin others]
<1>1. p = attempts + 1 /\ attempts \in Nat
  BY SharedAssumption DEF Start, IInv, TypeOK
<1>2. ~Running(p)
  BY <1>1 DEF IInv, OnlyOne, Process
<1>3. proc' = [q \in Process |-> IF q = p THEN [state EXCEPT !.alone = only]
                                 ELSE [proc[q] EXCEPT !.alone = proc[q].alone /\ q \notin others]]
  BY DEF Start
<1>4. /\ DOMAIN proc' = Process /\ proc' = [q \in Process |-> proc'[q]]
      /\ proc'[p] = [state EXCEPT !.alone = only]
      /\ \A q \in Process \ {p} : proc'[q] = [proc[q] EXCEPT !.alone = proc[q].alone /\ q \notin others]
  BY <1>3
<1>5. Fresh(proc'[p]) /\ (proc'[p].alone => only)
  <2>1. only \in BOOLEAN /\ state \in Attempt
    BY DEF Fresh, LocalInv
  <2> DEFINE me == proc'[p]
  <2>2. me = [state EXCEPT !.alone = only]
    BY <1>4
  <2> HIDE DEF only, me
  <2>3. /\ me \in Attempt /\ me.pc = state.pc /\ me.ver = state.ver /\ me.receives = state.receives
        /\ me.zip = state.zip /\ me.ck = state.ck /\ me.offset = state.offset
        /\ me.hash = state.hash /\ me.match = state.match /\ me.fresh = state.fresh
        /\ me.alone = only
    BY <2>1, <2>2 DEF Attempt
  <2>4. LocalInv(me)
    BY <2>3 DEF Fresh, LocalInv
  <2>5. Fresh(me) /\ (me.alone => only)
    BY <2>3, <2>4 DEF Fresh
  <2> QED
    BY <2>5 DEF me
<1>6. ASSUME NEW q \in Process \ {p}
      PROVE  /\ LocalInv(proc'[q]) /\ proc'[q].pc = proc[q].pc /\ proc'[q].ver = proc[q].ver
             /\ proc'[q].zip = proc[q].zip /\ proc'[q].ck = proc[q].ck
             /\ proc'[q].alone => q \notin others
  <2> DEFINE me    == proc'[q]
             was   == proc[q]
             alone == was.alone /\ q \notin others
  <2>1. LocalInv(was) /\ was \in Attempt /\ me = [was EXCEPT !.alone = alone]
    BY <1>4 DEF IInv, LocalInv
  <2>2. alone \in BOOLEAN
    OBVIOUS
  <2>3. was.pc = "idle" => was.alone = alone
    BY <2>1 DEF Running, Attempt
  <2> HIDE DEF me, was, alone
  <2>4. /\ me \in Attempt /\ me.pc = was.pc /\ me.ver = was.ver /\ me.receives = was.receives
        /\ me.zip = was.zip /\ me.ck = was.ck /\ me.offset = was.offset
        /\ me.hash = was.hash /\ me.match = was.match /\ me.fresh = was.fresh
        /\ me.alone = alone
    BY <2>1, <2>2 DEF Attempt
  <2>5. was.pc = "idle" => me = was
    BY <2>1, <2>3 DEF Attempt
  <2>6. LocalInv(me)
    BY <2>1, <2>4, <2>5 DEF LocalInv
  <2> QED
    BY <2>4, <2>6 DEF me, was, alone
<1> QED
  BY <1>1, <1>2, <1>4, <1>5, <1>6

LEMMA StartInv ==
  ASSUME IInv, NEW p \in Process, NEW state, Fresh(state), Start(p, state)
  PROVE  IInv'
<1>1. /\ disk' = disk /\ installed' = installed /\ faults' = faults /\ done' = Nobody /\ attempts' = p
      /\ (overlaps' = overlaps \/ (overlaps < MaxOverlaps /\ overlaps' = overlaps + 1))
  BY DEF Start
<1>2. ~Running(p) /\ p = attempts + 1 /\ DOMAIN proc' = Process /\ proc' = [q \in Process |-> proc'[q]]
  BY Others
<1>3. Fresh(proc'[p]) /\ (proc'[p].alone => \A q \in Process : ~Running(q))
  BY Others
<1>4. \A q \in Process \ {p} :
         /\ LocalInv(proc'[q]) /\ proc'[q].pc = proc[q].pc /\ proc'[q].ver = proc[q].ver
         /\ proc'[q].zip = proc[q].zip /\ proc'[q].ck = proc[q].ck
         /\ proc'[q].alone => ~Running(q)
  BY Others
<1>5. proc[p].zip = 0 /\ proc[p].ck = 0
  BY <1>2 DEF IInv, LocalInv, Running, Idle
<1>6. \A q \in Process : LocalInv(proc'[q])
  BY <1>3, <1>4 DEF Fresh
<1>7. TypeOK'
  <2>1. \A q \in Process : proc'[q].zip = proc[q].zip /\ proc'[q].ck = proc[q].ck
    BY <1>3, <1>4, <1>5 DEF Fresh
  <2>2. \A q \in Process : /\ proc'[q].offset \in Nat /\ proc'[q].pos \in Nat /\ proc'[q].left \in Int
                           /\ proc'[q].pc # "idle" => proc'[q].ver \in Version
    BY <1>6 DEF LocalInv, Attempt
  <2>3. UNION {{proc'[q].zip, proc'[q].ck} : q \in Process} = UNION {{proc[q].zip, proc[q].ck} : q \in Process}
    BY <2>1
  <2>4. F!Kept(disk', UNION {{proc'[q].zip, proc'[q].ck} : q \in Process}) = disk'
    BY <1>1, <2>3 DEF IInv, TypeOK
  <2>5. attempts' \in 0..MaxAttempts /\ overlaps' \in 0..MaxOverlaps /\ faults' \in 0..MaxFaults
        /\ installed' \in Version \cup {NoVersion, Torn}
    BY <1>1, SharedAssumption DEF IInv, TypeOK, Process
  <2> QED
    BY <1>1, <2>1, <2>2, <2>4, <2>5 DEF IInv, TypeOK, Running
<1>8. FilesInv(disk', proc')
  <2>1. 0 \notin DOMAIN disk.data
    BY DEF IInv, FilesInv, DiskType
  <2>2. \A f \in DOMAIN disk.data, v \in Kind : UsedAs(disk, proc', f, v) => UsedAs(disk, proc, f, v)
    <3> SUFFICES ASSUME NEW f \in DOMAIN disk.data, NEW v \in Kind, UsedAs(disk, proc', f, v)
                 PROVE  UsedAs(disk, proc, f, v)
      OBVIOUS
    <3>1. proc'[p].zip # f /\ proc'[p].ck # f
      BY <1>3, <2>1 DEF Fresh
    <3> QED
      BY <1>4, <3>1 DEF UsedAs
  <2>3. \A q \in Process : {proc'[q].zip, proc'[q].ck} \subseteq {0} \cup DOMAIN disk.data
    BY <1>3, <1>4 DEF Fresh, IInv, FilesInv
  <2> QED
    BY <1>1, <2>2, <2>3 DEF IInv, FilesInv
<1>9. \A q, r \in Process : Lone(q)' /\ Running(r)' => q = p /\ r = p
  <2>1. \A q \in Process : Lone(q)' => q = p
    BY <1>4 DEF Lone, Running
  <2> QED
    BY <1>3, <1>4, <2>1 DEF Lone, Running
<1>10. OnlyOne'
  <2>1. attempts \in Nat
    BY SharedAssumption DEF IInv, TypeOK
  <2>2. \A q \in Process : Running(q)' => q <= attempts'
    BY <1>1, <1>2, <1>4, <2>1 DEF IInv, OnlyOne, Running, Process
  <2> QED
    BY <1>9, <2>2 DEF OnlyOne
<1>11. \A q \in Process : Lone(q)' => LoneInv(proc[q], disk, installed)'
  <2>1. LoneInv(proc'[p], disk', installed')
    BY <1>3 DEF Fresh, LocalInv, LoneInv, NamesInv, ArchiveInv, HashInv, OutcomeInv, CommonPcs
  <2> QED
    BY <1>9, <2>1 DEF Lone
<1>12. DoneInv'
  BY <1>1 DEF DoneInv
<1> QED
  BY <1>2, <1>6, <1>7, <1>8, <1>10, <1>11, <1>12 DEF IInv

LEMMA SendInv ==
  ASSUME IInv, NEW p \in Process, Send(p) PROVE IInv'
<1> DEFINE state == [Idle EXCEPT !.pc = "zip", !.ver = installed]
<1>1. installed \in Version /\ Start(p, state)
  BY DEF Send
<1>2. /\ state \in Attempt /\ state.pc = "zip" /\ state.ver \in Version /\ state.zip = 0 /\ state.ck = 0
      /\ state.hash = <<>> /\ state.match /\ state.fresh /\ state.offset = 0 /\ ~state.receives
  BY <1>1, IdleLocal DEF LocalInv, Attempt, Idle, Pc, SenderPcs
<1> HIDE DEF state
<1>3. Fresh(state)
  BY <1>2 DEF Fresh, LocalInv, SenderPcs
<1> QED
  BY <1>1, <1>3, StartInv

LEMMA ReceiveInv ==
  ASSUME IInv, NEW p \in Process, NEW v \in Version, Receive(p, v) PROVE IInv'
<1> DEFINE state == [Idle EXCEPT !.pc = "find", !.ver = v, !.receives = TRUE]
<1>1. Start(p, state)
  BY DEF Receive
<1>2. /\ state \in Attempt /\ state.pc = "find" /\ state.ver \in Version /\ state.zip = 0 /\ state.ck = 0
      /\ state.hash = <<>> /\ state.match /\ state.fresh /\ state.offset = 0 /\ state.receives
  BY IdleLocal DEF LocalInv, Attempt, Idle, Pc, ReceiverPcs
<1> HIDE DEF state
<1>3. Fresh(state)
  BY <1>2, SharedAssumption DEF Fresh, LocalInv, ReceiverPcs
<1> QED
  BY <1>1, <1>3, StartInv

-----------------------------------------------------------------------------
(* The theorems.                                                           *)

LEMMA InitInv == Init => IInv
<1> SUFFICES ASSUME Init PROVE IInv
  OBVIOUS
<1>1. /\ disk = F!Empty /\ proc = [p \in Process |-> Idle] /\ installed \in Initially
      /\ done = Nobody /\ attempts = 0 /\ overlaps = 0 /\ faults = 0
  BY DEF Init
<1>2. /\ DOMAIN proc = Process /\ proc = [p \in Process |-> proc[p]]
      /\ \A p \in Process : proc[p] = Idle /\ ~Running(p) /\ proc[p].zip = 0 /\ proc[p].ck = 0
  BY <1>1 DEF Running, Idle
<1>3. /\ DOMAIN disk.data = {} /\ disk.data = [f \in {} |-> disk.data[f]]
      /\ disk = [link |-> disk.link, data |-> disk.data]
      /\ disk.link = [n \in Name |-> 0] /\ disk.link \in [Name -> {0}]
  BY <1>1 DEF F!Empty, Name
<1>4. FilesInv(disk, proc)
  <2>1. IsFiniteSet({})
    BY FS_EmptySet
  <2> QED
    BY <1>2, <1>3, <2>1 DEF FilesInv, DiskType
<1>5. TypeOK
  <2>1. disk = F!Kept(disk, UNION {{proc[p].zip, proc[p].ck} : p \in Process})
    <3> DEFINE open == UNION {{proc[p].zip, proc[p].ck} : p \in Process}
    <3>1. (open \cup F!Range(disk.link)) \ {0} = {}
      BY <1>2, <1>3 DEF F!Range
    <3> DEFINE kept == [disk EXCEPT !.data = F!Restrict(@, (open \cup F!Range(disk.link)) \ {0})]
    <3>2. F!Kept(disk, open) = kept
      BY DEF F!Kept
    <3>3. kept = [disk EXCEPT !.data = [f \in {} |-> disk.data[f]]]
      BY <3>1 DEF F!Restrict
    <3> HIDE DEF open, kept
    <3>4. kept = [disk EXCEPT !.data = disk.data]
      BY <1>3, <3>3
    <3>5. kept = disk
      BY <1>3, <3>4
    <3> QED
      BY <3>2, <3>5 DEF open
  <2>2. \A p \in Process : proc[p].offset \in Nat /\ proc[p].pos \in Nat /\ proc[p].left \in Int
    BY <1>2, IdleLocal DEF LocalInv, Attempt
  <2> QED
    BY <1>1, <1>2, <2>1, <2>2, SharedAssumption DEF TypeOK
<1>6. OnlyOne /\ DoneInv /\ \A p \in Process : LocalInv(proc[p]) /\ ~Lone(p)
  BY <1>1, <1>2, IdleLocal DEF OnlyOne, DoneInv, Lone
<1> QED
  BY <1>2, <1>4, <1>5, <1>6 DEF IInv

LEMMA StepInv ==
  ASSUME IInv, NEW p \in Process, Step(p) PROVE IInv'
BY FindInv, AccessInv, OpenCkptInv, ReadCkptInv, StatInv, OpenStepInv, PacketInv, OpenTmpInv,
   WriteTmpInv, RenameInv, ExtractInv, EntriesInv, RmCkptInv, Md5OpenInv, Md5StatInv, Md5ReadInv,
   RmZipInv, ZipOpenInv, ZipEntryInv, OpenSendInv, StatSendInv, SendBlockInv, VerdictInv DEF Step

LEMMA NextInv == IInv /\ [Next]_vars => IInv'
<1> SUFFICES ASSUME IInv, [Next]_vars PROVE IInv'
  OBVIOUS
<1>1. CASE UNCHANGED vars
  BY <1>1 DEF vars, bounds, IInv, TypeOK, OnlyOne, DoneInv, AloneSucceeds, Lone, Running
<1>2. ASSUME NEW p \in Process, Send(p) PROVE IInv'
  BY <1>2, SendInv
<1>3. ASSUME NEW p \in Process, NEW v \in Version, Receive(p, v) PROVE IInv'
  BY <1>3, ReceiveInv
<1>4. ASSUME NEW p \in Process, Step(p) PROVE IInv'
  BY <1>4, StepInv
<1>5. ASSUME NEW p \in Process, PacketDropped(p) \/ TmpDropped(p) \/ Dies(p) PROVE IInv'
  BY <1>5, PacketDroppedInv, TmpDroppedInv, DiesInv
<1> QED
  BY <1>1, <1>2, <1>3, <1>4, <1>5 DEF Next

\* However attempts overlap, no file is ever used as two things, and one that
\* runs alone finds every file that it has looked up or made, and in it what it
\* has verified, hashed or written (filerail_recvfile_handler and
\* filerail_sendfile_handler, call by call).
THEOREM Invariance == Spec => []IInv
<1> QED
  BY InitInv, NextInv, PTL DEF Spec

\* A process holds no file that is gone, and no file is kept that has neither a
\* name nor a process that has it open.
THEOREM TypeCorrectness == Spec => []TypeOK
<1>1. IInv => TypeOK
  BY DEF IInv
<1> QED
  BY <1>1, Invariance, PTL

\* The endless fread loops of filerail_md5 and of filerail_sendfile, which wait
\* for bytes that the archive no longer has, are entered only by a process that
\* another one has overlapped.
THEOREM LoneProcessReads == Spec => []SpinsOnlyOverlapped
<1>1. IInv => SpinsOnlyOverlapped
  <2> SUFFICES ASSUME IInv, NEW p \in Process, Spins(p), proc[p].alone PROVE FALSE
    BY DEF SpinsOnlyOverlapped
  <2> DEFINE me   == proc[p]
             file == disk.data[me.zip]
  <2>1. Running(p) /\ me.left # 0
        /\ \/ me.pc = "md5_read" /\ Len(me.hash) >= Len(file)
           \/ me.pc = "send" /\ me.offset >= Len(file)
    BY DEF Spins, Running
  <2>2. LoneInv(me, disk, installed) /\ me \in Attempt /\ me.ver \in Version /\ me.zip # 0
    BY <2>1, RunningFacts DEF LocalInv
  <2>3. file \in Seq(Cell) /\ Len(file) \in Nat /\ Len(me.hash) \in Nat /\ me.offset \in Nat /\ me.left \in Int
        /\ Blocks[me.ver] \in Nat
    BY <2>2, OpenZipHolds, SharedAssumption DEF Attempt
  <2>4. CASE me.pc = "md5_read" /\ Len(me.hash) >= Len(file)
    <3>1. me.left \in Nat /\ Len(me.hash) + me.left = Len(file)
      BY <2>2, <2>4 DEF LoneInv, NamesInv, HashInv, F!Content, F!Size
    <3> HIDE DEF me, file
    <3> QED
      BY <2>1, <2>3, <2>4, <3>1
  <2>5. CASE me.pc = "send" /\ me.offset >= Len(file)
    <3>1. file = Archive(me.ver) /\ me.left + me.offset = Blocks[me.ver] /\ me.offset <= Blocks[me.ver]
      BY <2>2, <2>5 DEF LoneInv, NamesInv, ArchiveInv, HashInv, F!Content
    <3>2. Len(file) = Blocks[me.ver]
      BY <2>2, <3>1, Parts
    <3> HIDE DEF me, file
    <3> QED
      BY <2>1, <2>3, <2>5, <3>1, <3>2
  <2> QED
    BY <2>1, <2>4, <2>5
<1> QED
  BY <1>1, Invariance, PTL

\* Whatever killed or overlapped attempts have left of the archive and the
\* checkpoint, an attempt that runs alone and is not cut short comes to its end:
\* the resource is the offered version unless it resumed an archive that does not
\* match or lost a block to a failed flush, and it leaves neither an archive nor
\* a checkpoint of its version.
THEOREM LoneAttemptSucceeds == Spec => []AloneSucceeds
<1>1. IInv => AloneSucceeds
  BY DEF IInv, DoneInv, AloneSucceeds
<1> QED
  BY <1>1, Invariance, PTL

\* Between the comparison of the hashes and zip_extract, which opens the archive
\* by its name again, nothing can have replaced what a lone receiver verified.
THEOREM VerifiedIsInstalled == Spec => InstalledAsVerified
<1> DEFINE Verified(p) == proc[p].pc = "entries" /\ proc[p].alone =>
                              installed' \in {installed, proc[p].ver, Torn}
<1>1. ASSUME IInv, [Next]_vars, NEW p \in Process PROVE Verified(p)
  <2> SUFFICES ASSUME proc[p].pc = "entries", proc[p].alone
               PROVE  installed' \in {installed, proc[p].ver, Torn}
    OBVIOUS
  <2>1. ASSUME Entries(p) PROVE installed' \in {installed, proc[p].ver, Torn}
    <3>1. disk.data[proc[p].zip] = Archive(proc[p].ver) /\ proc[p].ver \in Version
      BY <1>1, LoneEntries, RunningFacts DEF Running
    <3>2. disk.data[proc[p].zip][1][1] = proc[p].ver
      BY <3>1, Parts
    <3> QED
      BY <2>1, <3>2 DEF Entries
  <2>2. ASSUME NEW q \in Process, Running(q), Entries(q) PROVE q = p
    BY <1>1, <2>2 DEF IInv, OnlyOne, Lone, Running
  <2>3. ASSUME NEW q \in Process, Step(q) PROVE Entries(q) \/ installed' = installed
    BY <2>3 DEF Step, Find, Access, OpenCkpt, ReadCkpt, Stat, Open, Packet, OpenTmp, WriteTmp, Rename,
       Extract, RmCkpt, Md5Open, Md5Stat, Md5Read, RmZip, ZipOpen, ZipEntry, OpenSend, StatSend,
       SendBlock, Verdict, Go, Change, Fails, End
  <2>4. ASSUME NEW q \in Process, Step(q) PROVE installed' \in {installed, proc[p].ver, Torn}
    BY <2>1, <2>2, <2>3, <2>4 DEF Entries, Running
  <2>5. ASSUME NEW q \in Process, NEW v \in Version, Send(q) \/ Receive(q, v) PROVE installed' = installed
    BY <2>5 DEF Send, Receive, Start
  <2>6. ASSUME NEW q \in Process, PacketDropped(q) \/ TmpDropped(q) \/ Dies(q)
        PROVE  installed' \in {installed, Torn}
    BY <2>6 DEF Dies, PacketDropped, TmpDropped, FlushFails
  <2>7. CASE UNCHANGED vars
    BY <2>7 DEF vars
  <2>8. CASE Next
    <3>1. PICK q \in Process : \/ Send(q) \/ (\E v \in Version : Receive(q, v)) \/ Step(q)
                               \/ PacketDropped(q) \/ TmpDropped(q) \/ Dies(q)
      BY <2>8 DEF Next
    <3> QED
      BY <2>4, <2>5, <2>6, <3>1 DEF Send, Receive, Start
  <2> QED
    BY <1>1, <2>7, <2>8
<1>2. IInv /\ [Next]_vars => \A p \in Process : Verified(p)
  BY <1>1
<1>3. IInv /\ [Next]_vars =>
         [\A p \in Process : proc[p].pc = "entries" /\ proc[p].alone =>
              installed' \in {installed, proc[p].ver, Torn}]_vars
  BY <1>2
<1> QED
  BY <1>3, Invariance, PTL DEF Spec, InstalledAsVerified

=============================================================================
