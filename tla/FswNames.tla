------------------------------ MODULE FswNames ------------------------------
(***************************************************************************)
(* Names on the volumes of the file system core: the shared dnodes and      *)
(* their reference counts, the resolution of paths and links, the file      *)
(* handles of fsw_efi.c, and the directory cache that DirIterOpen of the    *)
(* scan keeps above them.  Each call runs to its end before the next: the   *)
(* boot manager opens and lists from its main path only.                    *)
(*                                                                         *)
(* A volume is a disk of FswDirs with, by inode, its "type" ("dir", "file"  *)
(* or "link") and, of links, the "target"; "root" is the root inode,        *)
(* "long" the names a 256-byte buffer does not hold and "unlisted" names    *)
(* with a meaning in the root directory only.  A dnode is named by its      *)
(* volume and inode.                                                        *)
(***************************************************************************)
EXTENDS FswDirs, Functions

CONSTANTS
    Images,     \* what may be there and be done with it, in a sequence of records:
                \* "volumes", the paths of Open and of DirIterOpen ("open", "list",
                \* sequences of names) and the "faults", what may fail during a call
    Addresses,  \* where the pool may put a file handle
    LinkRounds, \* link_count of fsw_dnode_resolve
    MaxNodes,   \* bound: the listings in the cache at once
    MaxLost     \* bound: no name fails to be copied once a dnode has lost so many
                \* references

VARIABLES
    image,      \* which of Images is there
    dnodes,     \* the dnodes on the list of their volume
    handles,    \* the open handles, by address
    cache,      \* gDirCache
    answer      \* what the last call answered

vars == <<image, dnodes, handles, cache, answer>>

None == <<0, 0>>
NoFault == [kind |-> "none", ino |-> 0]

Here == Images[image]
DiskOf(d) == Here.volumes[d[1]]
Roots == [i \in DOMAIN Images |->
            [v \in DOMAIN Images[i].volumes |-> MountedRoot(Images[i].volumes[v])]]
RootOf(v) == <<v, Roots[image][v]>>
TypeOf(d) == DiskOf(d).type[d[2]]

\* Whether the content of d (its blocks, not its inode) cannot be read.
IoFails(d, f) == f.kind = "data" /\ f.ino = d[2]

-----------------------------------------------------------------------------
(* Dnodes.  N is the list of dnodes, passed from step to step of a call.    *)

Retain(N, d) == [N EXCEPT ![d].refs = @ + 1]

RECURSIVE Release(_, _)
Release(N, d) ==
    IF N[d].refs > 1 THEN [N EXCEPT ![d].refs = @ - 1]
    ELSE LET M == [e \in DOMAIN N \ {d} |-> N[e]]
         IN  IF N[d].parent = None THEN M ELSE Release(M, N[d].parent)

\* lost is history: the references to the dnode that nobody will give back.
Dnode(parent, name, filled) ==
    [parent |-> parent, name |-> name, refs |-> 1, filled |-> filled, lost |-> 0]

Lose(N, d, count) == [N EXCEPT ![d].refs = @ + count, ![d].lost = @ + count]

\* What a step leaves: the dnodes, its status and the dnode it found.
Step(N, st, d) == [N |-> N, st |-> st, d |-> d]

\* The name is copied when the parent is already held for the new dnode: without memory
\* for it the dnode is freed, and the parent stays held.
NameFails(ino, f) == f.kind = "name" /\ f.ino = ino

Create(N, parent, entry, f) ==
    LET d == <<parent[1], entry.ino>>
    IN  IF d \in DOMAIN N THEN Step(Retain(N, d), "ok", d)
        ELSE IF f.kind = "dnode" THEN Step(N, "memory", None)
        ELSE IF NameFails(entry.ino, f) THEN Step(Lose(N, parent, 1), "memory", None)
        ELSE Step([e \in DOMAIN N \cup {d} |->
                      IF e = d THEN Dnode(parent, entry.name, FALSE)
                      ELSE IF e = parent THEN Retain(N, parent)[e] ELSE N[e]], "ok", d)

\* dnode_fill: HFS+ and ISO 9660 have nothing to read; bcachefs reads a directory's inode each time.
FillFails(N, d, f) ==
    /\ f.kind = "inode" /\ f.ino = d[2]
    /\ CASE DiskOf(d).fs \in {"hfs", "iso9660"} -> FALSE
         [] DiskOf(d).fs = "bcachefs" -> TypeOf(d) = "dir" \/ ~N[d].filled
         [] OTHER -> ~N[d].filled

Fill(N, d, f) ==
    IF FillFails(N, d, f) THEN Step(N, "io", d)
    ELSE Step([N EXCEPT ![d].filled = TRUE], "ok", d)

\* readlink
LinkStatus(d, f) ==
    IF DiskOf(d).fs \in {"hfs", "bcachefs"} THEN "unsupported"
    ELSE IF ~IoFails(d, f) THEN "ok"
    ELSE IF DiskOf(d).fs = "btrfs" THEN "corrupted" ELSE "io"

Target(d) == DiskOf(d).target[d[2]]

-----------------------------------------------------------------------------
(* Paths.  A step is handed to the operator named for what is done with it. *)

Failed(N, st, d) == Step(Release(N, d), st, None)

RECURSIVE ResolveFrom(_, _, _, _), LookUpFrom(_, _, _, _, _)

LookUpPath(N, d, path, f) == LookUpFrom(Retain(N, d), d, path, TRUE, f)

Resolve(N, d, f) == ResolveFrom(Retain(N, d), d, LinkRounds, f)

NextLink(t, d, count, f) ==
    IF t.st # "ok" THEN Failed(t.N, t.st, d)
    ELSE ResolveFrom(Release(t.N, d), t.d, count - 1, f)

Round(r, count, f) ==
    IF r.st # "ok" THEN Failed(r.N, r.st, r.d)
    ELSE IF TypeOf(r.d) # "link" THEN r
    ELSE IF r.N[r.d].parent = None THEN Failed(r.N, "none", r.d)
    ELSE IF LinkStatus(r.d, f) # "ok" THEN Failed(r.N, LinkStatus(r.d, f), r.d)
    ELSE NextLink(LookUpPath(r.N, r.N[r.d].parent, Target(r.d), f), r.d, count, f)

ResolveFrom(N, d, count, f) ==
    IF count = 1 THEN Failed(N, "none", d) ELSE Round(Fill(N, d, f), count, f)

\* The directory a name is looked up in: a link is followed first.
InPlaceOf(d, t, f) ==
    IF t.st = "ok" THEN Fill(Release(t.N, d), t.d, f) ELSE Step(t.N, t.st, d)

Follow(r, f) ==
    IF r.st = "ok" /\ TypeOf(r.d) = "link" THEN InPlaceOf(r.d, Resolve(r.N, r.d, f), f)
    ELSE r

MustBeDir(r) ==
    IF r.st = "ok" /\ TypeOf(r.d) # "dir" THEN Step(r.N, "unsupported", r.d) ELSE r

\* A name: the dnodes, the status, the dnode it was looked up in and the one found.
Named(r, from) == [N |-> r.N, st |-> r.st, from |-> from, d |-> r.d]

Keep(N, d) == Step(Retain(N, d), "ok", d)

Child(N, d, entry, f) ==
    IF entry.st # "ok" THEN Step(N, entry.st, None) ELSE Create(N, d, entry, f)

NameIn(in, name, f) ==
    CASE in.st # "ok" -> Step(in.N, in.st, None)
      [] in.st = "ok" /\ name = Dot -> Keep(in.N, in.d)
      [] in.st = "ok" /\ name = DotDot ->
            IF in.N[in.d].parent = None THEN Step(in.N, "none", None)
            ELSE Keep(in.N, in.N[in.d].parent)
      [] OTHER -> Child(in.N, in.d,
                        LookUpIn(DiskOf(in.d), in.d[2], name, IoFails(in.d, f)), f)

InDir(in, name, f) == Named(NameIn(in, name, f), in.d)

Name(N, d, name, first, f) ==
    IF name = Empty THEN Named(Keep(N, IF first THEN RootOf(d[1]) ELSE d), d)
    ELSE InDir(MustBeDir(Follow(Fill(N, d, f), f)), name, f)

Onward(r, path, f) ==
    IF r.st # "ok" THEN Failed(r.N, r.st, r.from)
    ELSE IF Len(path) <= 1 THEN Step(Release(r.N, r.from), "ok", r.d)
    ELSE LookUpFrom(Release(r.N, r.from), r.d, Tail(path), FALSE, f)

LookUpFrom(N, d, path, first, f) ==
    Onward(Name(N, d, IF path = << >> THEN Empty ELSE Head(path), first, f), path, f)

-----------------------------------------------------------------------------
(* File handles *)

\* fsw_efi_dnode_to_filehandle; the handle holds its dnode.
HandleOn(r, f) ==
    IF r.st # "ok" THEN r
    ELSE IF TypeOf(r.d) \notin {"dir", "file"} THEN Step(r.N, "unsupported", r.d)
    ELSE IF f.kind = "handle" THEN Step(r.N, "memory", r.d)
    ELSE Step(Retain(r.N, r.d), "ok", r.d)

ToHandle(N, d, f) == HandleOn(Fill(N, d, f), f)

\* fsw_efi_dir_open
Opened(h) == Step(Release(h.N, h.d), h.st, IF h.st = "ok" THEN h.d ELSE None)

\* Mutant: a path that ends in a broken link keeps the link.
OpenTarget_Leak(t, d, f) ==
    IF t.st # "ok" THEN t ELSE Opened(ToHandle(Release(t.N, d), t.d, f))

OpenTarget(t, d, f) ==
    IF t.st # "ok" THEN Step(Release(t.N, d), t.st, None)
    ELSE Opened(ToHandle(Release(t.N, d), t.d, f))

OpenFound(r, f) == IF r.st # "ok" THEN r ELSE OpenTarget(Resolve(r.N, r.d, f), r.d, f)

DirOpen(N, d, path, f) == OpenFound(LookUpPath(N, d, path, f), f)

-----------------------------------------------------------------------------
(* Listing a directory: DirIterOpen over DirNextEntry and fsw_efi_dir_read.  *)
(* A listing l has its directory, the position in it, whether the buffer    *)
(* has been enlarged, and the entries so far.                               *)

Listing(d) == [d |-> d, pos |-> 0, large |-> FALSE, entries |-> << >>]

Listed(N, l) == [N |-> N, entries |-> l.entries]

RECURSIVE ListOn(_, _, _)

\* A name the buffer does not hold is behind the position when the larger buffer comes.
WithInfo(l, name, e) ==
    IF name \in DiskOf(l.d).long /\ ~l.large
    THEN [l EXCEPT !.pos = e.pos, !.large = TRUE]
    ELSE [l EXCEPT !.pos = e.pos, !.large = FALSE, !.entries = Append(@, <<name, e.ino>>)]

ListInfo(i, l, e, f) ==
    IF i.st # "ok" THEN Listed(Release(i.N, i.d), l)
    ELSE ListOn(Release(i.N, i.d), WithInfo(l, i.N[i.d].name, e), f)

ListChild(c, l, e, f) ==
    IF c.st # "ok" THEN Listed(c.N, l) ELSE ListInfo(Fill(c.N, c.d, f), l, e, f)

ListEntry(N, l, e, f) ==
    IF e.st # "ok" THEN Listed(N, l) ELSE ListChild(Create(N, l.d, e, f), l, e, f)

\* The directory loses a reference for each entry passed over whose name failed.
ListNext(N, l, e, f) ==
    ListEntry(IF f.kind = "name" THEN Lose(N, l.d, e.passed) ELSE N, l, e, f)

ListOn(N, l, f) ==
    LET made == {i \in DOMAIN DiskOf(l.d).type :
                    \/ <<l.d[1], i>> \in DOMAIN N
                    \/ f.kind # "dnode" /\ ~NameFails(i, f)}
    IN  ListNext(N, l, ReadFrom(DiskOf(l.d), l.d[2], l.pos, IoFails(l.d, f), made), f)

\* CleanUpPathNameSlashes
KeyPath(path) == SelectSeq(path, LAMBDA name : name # Empty)

\* A node has the address of the root handle it was read from and, as history, that root
\* ("read") and whether the handle was closed since.
CacheNodes(a, path) == {n \in cache : n.base = a /\ n.path = KeyPath(path)}

-----------------------------------------------------------------------------
(* Calls *)

NoAnswer == [call |-> "none"]

Init ==
    /\ image \in DOMAIN Images
    /\ dnodes = [d \in {RootOf(v) : v \in DOMAIN Here.volumes} |-> Dnode(None, Empty, FALSE)]
    /\ handles = << >>
    /\ cache = {}
    /\ answer = NoAnswer

\* The pool gives any free address, that of a closed handle too.
FreeAddresses == Addresses \ DOMAIN handles

\* What may fail in a call.
FaultsNow ==
    {f \in Here.faults :
        f.kind = "name" => \A d \in DOMAIN dnodes : dnodes[d].lost < MaxLost}

\* The handle a call answers with, if it succeeds.
NewHandle(r, isRoot) ==
    IF r.st # "ok" THEN UNCHANGED handles
    ELSE \E a \in FreeAddresses :
            handles' = [b \in DOMAIN handles \cup {a} |->
                            IF b = a THEN [d |-> r.d, isRoot |-> isRoot] ELSE handles[b]]

\* EfiLibOpenRoot over fsw_efi_FileSystem_OpenVolume
OpenRoot(v, f) ==
    /\ answer = NoAnswer
    /\ \E r \in {ToHandle(dnodes, RootOf(v), f)} :
          /\ dnodes' = r.N
          /\ NewHandle(r, TRUE)
    /\ answer' = NoAnswer
    /\ UNCHANGED <<image, cache>>

\* fsw_efi_filehandle_open
FileOpen(d, path, f) ==
    IF TypeOf(d) = "dir" THEN DirOpen(dnodes, d, path, f)
    ELSE Step(dnodes, "unsupported", None)

Open(a, path, f) ==
    /\ answer = NoAnswer
    /\ a \in DOMAIN handles
    /\ \E r \in {FileOpen(handles[a].d, path, f)} :
          /\ dnodes' = r.N
          /\ NewHandle(r, FALSE)
          /\ answer' = [call |-> "open", from |-> handles[a].d, path |-> path,
                        clean |-> f = NoFault, st |-> r.st, d |-> r.d]
    /\ UNCHANGED <<image, cache>>

Close(a) ==
    /\ answer = NoAnswer
    /\ a \in DOMAIN handles
    /\ dnodes' = Release(dnodes, handles[a].d)
    /\ handles' = [b \in DOMAIN handles \ {a} |-> handles[b]]
    /\ cache' = {[n EXCEPT !.closed = @ \/ n.base = a] : n \in cache}
    /\ answer' = NoAnswer
    /\ UNCHANGED image

ListAnswer(d, path, st, n) ==
    [call |-> "list", from |-> d, path |-> path, st |-> st, entries |-> n.entries,
     read |-> n.read, closed |-> n.closed, clean |-> n.clean]

CacheNode(a, path, entries, clean) ==
    [base |-> a, path |-> KeyPath(path), entries |-> entries, clean |-> clean,
     read |-> handles[a].d, closed |-> FALSE]

\* Mutant: a listing kept for the same path is taken, whatever it was opened on.
IterOpenCached_AnyBase(a, path) ==
    \E n \in {m \in cache : m.path = KeyPath(path)} :
        /\ answer' = ListAnswer(handles[a].d, path, "ok", n)
        /\ UNCHANGED <<image, dnodes, handles, cache>>

IterOpenCached(a, path) ==
    \E n \in CacheNodes(a, path) :
        /\ answer' = ListAnswer(handles[a].d, path, "ok", n)
        /\ UNCHANGED <<image, dnodes, handles, cache>>

IterOpenFails(a, path, f) ==
    /\ CacheNodes(a, path) = {}
    /\ \E r \in {FileOpen(handles[a].d, path, f)} :
          /\ r.st # "ok"
          /\ dnodes' = r.N
          /\ answer' = ListAnswer(handles[a].d, path, r.st,
                                  CacheNode(a, path, << >>, FALSE))
    /\ UNCHANGED <<image, handles, cache>>

\* Every path that is listed here names a directory.
IterOpenReads(a, path, f) ==
    /\ CacheNodes(a, path) = {}
    /\ Cardinality(cache) < MaxNodes
    /\ \E r \in {FileOpen(handles[a].d, path, f)} :
          /\ r.st = "ok"
          /\ \E l \in {ListOn(r.N, Listing(r.d), f)} :
             \E n \in {CacheNode(a, path, l.entries, f = NoFault)} :
                /\ dnodes' = Release(l.N, r.d)
                /\ cache' = cache \cup {n}
                /\ answer' = ListAnswer(handles[a].d, path, "ok", n)
    /\ UNCHANGED <<image, handles>>

DirIterOpen(a, path, f) ==
    /\ answer = NoAnswer
    /\ a \in DOMAIN handles
    /\ handles[a].isRoot
    /\ \/ IterOpenCached(a, path)
       \/ IterOpenFails(a, path, f)
       \/ IterOpenReads(a, path, f)

ClearDirCache ==
    /\ answer = NoAnswer
    /\ cache # {}
    /\ cache' = {}
    /\ answer' = NoAnswer
    /\ UNCHANGED <<image, dnodes, handles>>

\* The caller goes on with the answer.
Take ==
    /\ answer # NoAnswer
    /\ answer' = NoAnswer
    /\ UNCHANGED <<image, dnodes, handles, cache>>

Next ==
    \/ \E v \in DOMAIN Here.volumes, f \in FaultsNow : OpenRoot(v, f)
    \/ \E a \in Addresses, path \in Here.open, f \in FaultsNow : Open(a, path, f)
    \/ \E a \in Addresses : Close(a)
    \/ \E a \in Addresses, path \in Here.list, f \in FaultsNow : DirIterOpen(a, path, f)
    \/ ClearDirCache
    \/ Take

Spec == Init /\ [][Next]_vars

-----------------------------------------------------------------------------
(* Properties *)

\* Between the calls a dnode is held by the open handles on it, by the dnodes whose
\* parent it is and, a root, by its volume, once each: nothing that is still named is
\* freed, and a call that fails half-way leaves no reference (fsw_core.c:408-437, and
\* the error exits of fsw_dnode_lookup_path, fsw_dnode_resolve and fsw_efi_dir_open).
\* The exception is fsw_core.c:358-379: a name without memory costs its directory one
\* reference for ever, one for each such name and no more ("lost").
Holders(d) ==
    Cardinality({a \in DOMAIN handles : handles[a].d = d})
    + Cardinality({c \in DOMAIN dnodes : dnodes[c].parent = d})
    + (IF d = RootOf(d[1]) THEN 1 ELSE 0)

NamesAreHeld ==
    /\ \A d \in DOMAIN dnodes : dnodes[d].refs = Holders(d) + dnodes[d].lost /\ dnodes[d].refs > 0
    /\ {handles[a].d : a \in DOMAIN handles} \subseteq DOMAIN dnodes
    /\ {dnodes[d].parent : d \in DOMAIN dnodes} \subseteq DOMAIN dnodes \cup {None}

\* What the entries of the directories say, whatever the driver reads them from.
EntriesOf(d) == Range(DiskOf(d).entries[d[2]])

TrueRoot(v) == <<v, Here.volumes[v].root>>

\* Names of the root directory that no listing shows.
Unlisted(d) == IF d = TrueRoot(d[1]) THEN DiskOf(d).unlisted ELSE {}

Above(d) ==
    LET up == {i \in DOMAIN DiskOf(d).entries :
                  \E e \in Range(DiskOf(d).entries[i]) : e[2] = d[2]}
    IN  IF up = {} \/ d = TrueRoot(d[1]) THEN None ELSE <<d[1], LeastIn(up)>>

\* The file a path leads to from d, with at most "links" links followed: a link is
\* replaced by the names of its target.
RECURSIVE Walk(_, _, _)
Walk(d, path, links) ==
    LET rest == Tail(path)
        named == {e \in EntriesOf(d) \cup Unlisted(d) : e[1] = Head(path)}
    IN  IF d = None THEN None
        ELSE IF TypeOf(d) = "link"
        THEN IF links = 0 THEN None
             ELSE Walk(IF Head(Target(d)) = Empty THEN TrueRoot(d[1]) ELSE Above(d),
                       Target(d) \o path, links - 1)
        ELSE IF path = << >> THEN d
        ELSE IF TypeOf(d) # "dir" THEN None
        ELSE IF Head(path) \in {Empty, Dot} THEN Walk(d, rest, links)
        ELSE IF Head(path) = DotDot THEN Walk(Above(d), rest, links)
        ELSE IF named = {} THEN None
        ELSE Walk(<<d[1], (CHOOSE e \in named : TRUE)[2]>>, rest, links)

Leads(d, path) ==
    IF TypeOf(d) # "dir" THEN None
    ELSE Walk(IF Head(path) = Empty THEN TrueRoot(d[1]) ELSE d, path, LinkRounds)

\* Open finds the file the path leads to, through links, shared dnodes and whatever
\* tree the driver keeps its names in; without a failure it finds it whenever there
\* is one; and a failing disk or a lack of memory is not reported as a missing file
\* (fsw_core.c:495-645; an NTFS index block that cannot be read does read as one).
LookupFindsFile ==
    answer.call = "open" =>
        LET want == Leads(answer.from, answer.path)
            fs == DiskOf(answer.from).fs
        IN  /\ answer.st = "ok" => answer.d = want
            /\ answer.clean /\ want # None => answer.st = "ok"
            /\ answer.st = "none" => want = None \/ fs = "ntfs"

\* A listing, fresh or from the cache, is of the directory the path leads to from the
\* root it was read from, and that is the root that was asked, unless the handle it was
\* read from was closed: its address may be that of another root by then, and the cache
\* goes by the address (file_io.c:310,374, bls.c:609-633).  No entry is of another
\* directory or comes twice, and unless something failed while it was read every entry
\* whose name fits the first buffer is there (file_io.c:168-465).
ListingIsTheDirectory ==
    answer.call = "list" /\ answer.st = "ok" =>
        LET d == Leads(answer.read, answer.path)
        IN  /\ answer.read = answer.from \/ answer.closed
            /\ Range(answer.entries) \subseteq EntriesOf(d)
            /\ IsInjective(answer.entries)
            /\ answer.clean =>
                  {e \in EntriesOf(d) : e[1] \notin DiskOf(d).long}
                      \subseteq Range(answer.entries)

=============================================================================
