------------------------------- MODULE Folder -------------------------------
(***************************************************************************)
(* The walks through a resource's directory (utils.h): filerail_zip_folder *)
(* makes an archive of it, filerail_rm removes it, zip_extract writes a    *)
(* version into it.  Processes on one host take these walks at the same    *)
(* time and nothing locks the directory; a step is one system call.        *)
(* A name is a sequence of path components; a name keeps its kind.         *)
(***************************************************************************)
EXTENDS Integers, FiniteSets, SequencesExt

CONSTANTS
    Names,      \* all names in directory order, the resource first
    Dirs,       \* those that are directories, the others are files
    Version,
    Holds(_),   \* the files of a version
    Absent, Dir,
    MaxWalks,   \* bound on walks
    MaxOverlaps \* bound on walks that begin while another is taken

Name == Range(Names)
Root == Names[1]
Component == UNION {Range(n) : n \in Name}

\* The directories above a name, up to the resource.
Above(n) == {SubSeq(n, 1, k) : k \in Len(Root)..(Len(n) - 1)}

ASSUME FolderAssumption ==
    /\ Names \in Seq(Name) /\ Names # <<>>
    /\ Name \subseteq Seq(Component)
    /\ Root \in Dirs /\ Dirs \subseteq Name
    /\ \A n \in Name \ {Root} : Root \in Above(n) /\ Above(n) \subseteq Dirs
    /\ \A v \in Version : Holds(v) \subseteq Name \ Dirs
    /\ Absent # Dir /\ {Absent, Dir} \cap Version = {}
    /\ MaxWalks \in Nat /\ MaxOverlaps \in Nat

VARIABLES
    tree,  \* by name: absent, a directory, or the version a file is of
    walk,  \* by process: the walk it takes
    done,  \* the last walk, if no other ran meanwhile and none started since
    begun, \* the number of walks
    overlaps,
    kinds  \* history: the kinds of walks that were begun

counts == <<begun, overlaps, kinds>>
vars   == <<tree, walk, done, counts>>

Process == 1..MaxWalks

\* The tree of a version, which has no directories without files.
Tree(v) == [n \in Name |-> IF n \in Holds(v) THEN v
                           ELSE IF \E f \in Holds(v) : n \in Above(f) THEN Dir ELSE Absent]
Nothing == [n \in Name |-> Absent]
Files(t) == {<<n, t[n]>> : n \in {m \in Name : t[m] \in Version}}

\* What readdir will return of a directory.
Listed(dir) == {n \in Name \ {Root} : Front(n) = dir /\ tree[n] # Absent}

\* The entry that comes first.
Position(n) == CHOOSE i \in DOMAIN Names : Names[i] = n
First(n, S) == n \in S /\ \A m \in S : Position(n) <= Position(m)

\* The kind of walk, what it does next and to which name, what is left to read
\* of the directories above that name or, at "readdir", of itself, the entries
\* left to extract, the archive or version, whether no other walk was taken
\* meanwhile, and the tree when it began.
Idle == [op |-> "none", pc |-> "idle", node |-> Root, left |-> [d \in Dirs |-> {}], entries |-> {},
         files |-> {}, alone |-> TRUE, before |-> Nothing]

Walking(p) == walk[p].pc # "idle"

Go(p, w) == walk' = [walk EXCEPT ![p] = w] /\ UNCHANGED <<done, counts>>

Ends(p, how) ==
    /\ walk' = [walk EXCEPT ![p] = Idle]
    /\ done' = IF walk[p].alone THEN [walk[p] EXCEPT !.pc = how] ELSE Idle
    /\ UNCHANGED counts
Fails(p) == Ends(p, "failed") /\ UNCHANGED tree

Start(p, w) ==
    LET others == {q \in Process : Walking(q)} IN
    /\ p = begun + 1 /\ begun' = p /\ kinds' = kinds \cup {w.op}
    /\ IF others = {} THEN overlaps' = overlaps
                      ELSE overlaps < MaxOverlaps /\ overlaps' = overlaps + 1
    /\ walk' = [q \in Process |-> IF q = p THEN [w EXCEPT !.alone = others = {}, !.before = tree]
                                  ELSE [walk[q] EXCEPT !.alone = @ /\ q \notin others]]
    /\ done' = Idle /\ UNCHANGED tree

ZipFolder(p) == tree[Root] = Dir /\ Start(p, [Idle EXCEPT !.op = "zip", !.pc = "opendir"])

Rm(p) == tree[Root] = Dir /\ Start(p, [Idle EXCEPT !.op = "rm", !.pc = "lstat"])

Extract(p, v) == Start(p, [Idle EXCEPT !.op = "extract", !.pc = "mkpath", !.entries = Holds(v),
                                       !.files = {<<n, v>> : n \in Holds(v)}])

-----------------------------------------------------------------------------
(* filerail_zip_folder and filerail_rm.                                    *)

\* lstat of an entry that is gone ends the whole walk.
Lstat(p) ==
    /\ walk[p].pc = "lstat"
    /\ IF tree[walk[p].node] = Absent THEN Fails(p)
       ELSE /\ Go(p, [walk[p] EXCEPT !.pc =
                        IF tree[walk[p].node] = Dir THEN "opendir"
                        ELSE IF walk[p].op = "rm" THEN "unlink" ELSE "read"])
            /\ UNCHANGED tree

\* The first readdir gets the entries.
Opendir(p) ==
    /\ walk[p].pc = "opendir"
    /\ IF tree[walk[p].node] = Absent THEN Fails(p)
       ELSE /\ Go(p, [walk[p] EXCEPT !.pc = "readdir", !.left[walk[p].node] = Listed(walk[p].node)])
            /\ UNCHANGED tree

\* The next entry of the directory.
Entry(p, n) ==
    Go(p, [walk[p] EXCEPT !.pc = "lstat", !.node = n, !.left[walk[p].node] = @ \ {n}])

\* A bug: the walk does not leave a directory inside.
MutReaddir(p) ==
    LET left == walk[p].left[walk[p].node] IN
    /\ walk[p].pc = "readdir"
    /\ \/ \E n \in left : First(n, left) /\ Entry(p, n)
       \/ left = {} /\ walk[p].op = "rm" /\ Go(p, [walk[p] EXCEPT !.pc = "rmdir"])
       \/ left = {} /\ walk[p].op = "zip" /\ walk[p].node = Root /\ Ends(p, "ok")
    /\ UNCHANGED tree

\* The next entry; after the last the directory is removed, or the call returns
\* to the one for the directory above.
Readdir(p) ==
    LET left == walk[p].left[walk[p].node] IN
    /\ walk[p].pc = "readdir"
    /\ \/ \E n \in left : First(n, left) /\ Entry(p, n)
       \/ left = {} /\ walk[p].op = "rm" /\ Go(p, [walk[p] EXCEPT !.pc = "rmdir"])
       \/ left = {} /\ walk[p].op = "zip" /\
            IF walk[p].node # Root THEN Go(p, [walk[p] EXCEPT !.node = Front(@)]) ELSE Ends(p, "ok")
    /\ UNCHANGED tree

\* zip_entry_open, zip_entry_fwrite, zip_entry_close.
Read(p) ==
    /\ walk[p].pc = "read"
    /\ IF tree[walk[p].node] = Absent THEN Fails(p)
       ELSE /\ Go(p, [walk[p] EXCEPT !.pc = "readdir", !.node = Front(@),
                        !.files = @ \cup {<<walk[p].node, tree[walk[p].node]>>}])
            /\ UNCHANGED tree

Unlink(p) ==
    /\ walk[p].pc = "unlink"
    /\ IF tree[walk[p].node] = Absent THEN Fails(p)
       ELSE /\ tree' = [tree EXCEPT ![walk[p].node] = Absent]
            /\ Go(p, [walk[p] EXCEPT !.pc = "readdir", !.node = Front(@)])

\* A bug: a directory inside is unlinked after filerail_rm has removed it.
MutRmdir(p) ==
    /\ walk[p].pc = "rmdir"
    /\ IF tree[walk[p].node] = Absent \/ Listed(walk[p].node) # {} THEN Fails(p)
       ELSE /\ tree' = [tree EXCEPT ![walk[p].node] = Absent]
            /\ IF walk[p].node # Root
               THEN Go(p, [walk[p] EXCEPT !.pc = "unlink"])
               ELSE Ends(p, "ok")

\* rmdir fails if the directory is gone or something is in it.
Rmdir(p) ==
    /\ walk[p].pc = "rmdir"
    /\ IF tree[walk[p].node] = Absent \/ Listed(walk[p].node) # {} THEN Fails(p)
       ELSE /\ tree' = [tree EXCEPT ![walk[p].node] = Absent]
            /\ IF walk[p].node # Root
               THEN Go(p, [walk[p] EXCEPT !.pc = "readdir", !.node = Front(@)])
               ELSE Ends(p, "ok")

-----------------------------------------------------------------------------
(* zip_extract.                                                            *)

\* The directories above the next entry are made if need be.
Mkpath(p) ==
    /\ walk[p].pc = "mkpath"
    /\ \/ \E n \in walk[p].entries :
            /\ First(n, walk[p].entries)
            /\ tree' = [m \in Name |-> IF m \in Above(n) THEN Dir ELSE tree[m]]
            /\ Go(p, [walk[p] EXCEPT !.pc = "write", !.node = n, !.entries = @ \ {n}])
       \/ walk[p].entries = {} /\ Ends(p, "ok") /\ UNCHANGED tree

\* A bug: nobody looks whether the file could be opened.
MutWrite(p) ==
    /\ walk[p].pc = "write"
    /\ \E v \in Version : /\ <<walk[p].node, v>> \in walk[p].files
                          /\ tree' = [tree EXCEPT ![walk[p].node] = v]
    /\ Go(p, [walk[p] EXCEPT !.pc = "mkpath"])

\* The entry is written, over the file that may be there.
Write(p) ==
    /\ walk[p].pc = "write"
    /\ IF tree[Front(walk[p].node)] = Absent THEN Fails(p)
       ELSE /\ \E v \in Version : /\ <<walk[p].node, v>> \in walk[p].files
                                  /\ tree' = [tree EXCEPT ![walk[p].node] = v]
            /\ Go(p, [walk[p] EXCEPT !.pc = "mkpath"])

-----------------------------------------------------------------------------
Step(p) == Lstat(p) \/ Opendir(p) \/ Readdir(p) \/ Read(p) \/ Unlink(p) \/ Rmdir(p)
           \/ Mkpath(p) \/ Write(p)

Init ==
    /\ tree \in {Tree(v) : v \in Version} /\ walk = [p \in Process |-> Idle]
    /\ done = Idle /\ begun = 0 /\ overlaps = 0 /\ kinds = {}

Next == \E p \in Process : ZipFolder(p) \/ Rm(p) \/ (\E v \in Version : Extract(p, v)) \/ Step(p)

Spec == Init /\ [][Next]_vars

FairSpec == Spec /\ \A p \in Process : WF_vars(Step(p))

-----------------------------------------------------------------------------
(* Properties.                                                             *)

\* A file's directory exists, however walks interleave, and a walk opens, reads
\* and removes as directories what are directories.
TypeOK ==
    /\ tree \in [Name -> Version \cup {Dir, Absent}]
    /\ \A n \in Name : /\ tree[n] # Absent => \A d \in Above(n) : tree[d] = Dir
                       /\ tree[n] = Dir => n \in Dirs
    /\ \A p \in Process : walk[p].pc \in {"opendir", "readdir", "rmdir"} => walk[p].node \in Dirs

\* A walk that nobody disturbs does its whole work, whatever earlier walks left:
\* the archive has every file of the resource, once; the resource is gone; or it
\* has all files of the version, and those it had before.
AloneExact ==
    done.pc # "idle" =>
        /\ done.pc = "ok"
        /\ done.op = "zip" => done.files = Files(tree) /\ tree = done.before
        /\ done.op = "rm" => tree = Nothing
        /\ done.op = "extract" =>
            Files(tree) = done.files \cup {f \in Files(done.before) : \A g \in done.files : f[1] # g[1]}

\* Removals that run at the same time may make each other fail, but not all of
\* them: in the end the resource is gone.
OneRemoves ==
    kinds = {"rm"} /\ (\A p \in Process : ~Walking(p)) => tree = Nothing

\* Every walk ends, also if others write into the directory that it walks.
WalksEnd == \A p \in Process : Walking(p) ~> ~Walking(p)

=============================================================================
