---------------------------- MODULE FswExtentMaps ----------------------------
(***************************************************************************)
(* How the drivers of the file system core find the disk blocks of a file: *)
(* the get_extent functions of ext4 (extent trees and block pointers),     *)
(* ext2, UFS, NTFS, HFS+, bcachefs and ISO 9660 (btrfs is in FswBtrfs).    *)
(* Each answers, for the logical block asked for, with the run of blocks   *)
(* that starts there.                                                      *)
(*                                                                         *)
(* A file is a record with the fields its driver reads from the disk:      *)
(*   kind    "extents", "ext4", "ext2", "ufs", "ntfs", "hfs", "bcachefs" or *)
(*           "iso9660"                                                     *)
(*   size    dno->size in bytes                                            *)
(*   root, nodes   (extents) the node in the inode and the index blocks    *)
(*   iblock, ind   (ext4, ext2, ufs) the pointers in the inode and in the  *)
(*                 indirect blocks; 0 is a hole                            *)
(*   runs, finited (ntfs) the run list and the initialized size            *)
(*   first, overflow, node (hfs) the extents of the catalog record, the    *)
(*          records of the extents tree and the disk block they are in     *)
(*   keys, shared (bcachefs) the keys of the extents and reflink trees     *)
(*   location (iso9660) the first block                                    *)
(* A physical block is a number; 0 names none.                             *)
(***************************************************************************)
EXTENDS FswBlocks, Sequences, FiniteSets

CONSTANTS
    Frags,      \* UFS: physical blocks (fragments) of a logical block
    NDirBlocks, \* EXT4_NDIR_BLOCKS, EXT2_NDIR_BLOCKS, UFS_NDADDR
    IndCount    \* vol->ind_bcnt

ASSUME MapsAssumption ==
    /\ Frags \in Nat \ {0}
    /\ LogBlock % Frags = 0
    /\ NDirBlocks \in Nat \ {0}
    /\ IndCount \in Nat \ {0}

\* The answer of a get_extent; phys is 0 when the run is a hole, and only btrfs answers
\* with the bytes themselves.
Found(type, count, phys) ==
    [status |-> "ok", type |-> type, count |-> count, phys |-> phys, buffer |-> << >>]

\* The ext4 drivers and ext2 tell the core of a hole by FSW_IO_ERROR and an extent
\* that stays invalid.
Hole(count) ==
    [Found("invalid", count, 0) EXCEPT !.status = "io"]

\* A block of the map could not be read; the type is what it was set to before.
Unread(err, type) ==
    [Found(type, 1, 0) EXCEPT !.status = err]

-----------------------------------------------------------------------------
(* fsw_ext4_get_by_extent *)

\* The index entries in front of the first one that starts behind the block.
BestIndex(node, b) ==
    {i \in DOMAIN node.entries : \A j \in 1..i : node.entries[j].block <= b}

LastOf(S) == CHOOSE i \in S : \A j \in S : j <= i
LeastOf(S) == CHOOSE i \in S : \A j \in S : i <= j

Child(node, b) == node.entries[LastOf(BestIndex(node, b))].child

NodeOf(f, bno) == IF bno = 0 THEN f.root ELSE f.nodes[bno]

\* The block each level of the tree is entered by; level 0 is the node in the inode,
\* and the way ends where no index entry starts at or before the block.
Levels(f, b) ==
    LET level[n \in 0..f.root.depth] ==
            IF n = 0 THEN {0}
            ELSE {Child(NodeOf(f, x), b) :
                    x \in {y \in level[n - 1] : BestIndex(NodeOf(f, y), b) # {}}}
    IN  level

\* The last of the steps of a way, and the one block there.
Reached(way) ==
    LET last == LastOf({n \in DOMAIN way : way[n] # {}})
    IN  [step |-> last, at |-> CHOOSE x \in way[last] : TRUE]

\* The disk blocks read on a way; the first step reads none.
ReadOn(way, first) == UNION {way[n] : n \in DOMAIN way \ {first}}

Covers(e, b) == b >= e.block /\ b < e.block + e.len

\* Mutant: the rest of an extent is counted from its start.
LeafAnswer_WholeLength(f, node, b) ==
    LET hits == {i \in DOMAIN node.entries : Covers(node.entries[i], b)}
        next == {i \in DOMAIN node.entries : node.entries[i].block > b}
    IN  IF hits # {}
        THEN LET e == node.entries[LeastOf(hits)]
             IN  Found("phys", e.len, e.start + (b - e.block))
        ELSE IF next # {} THEN Hole(node.entries[LeastOf(next)].block - b)
        ELSE Hole(BlockCount(f) - b)

\* A leaf: the extent that covers the block, or the hole up to the next extent of
\* this leaf, or the hole behind the last one, taken to reach the end of the file.
LeafAnswer(f, node, b) ==
    LET hits == {i \in DOMAIN node.entries : Covers(node.entries[i], b)}
        next == {i \in DOMAIN node.entries : node.entries[i].block > b}
    IN  IF hits # {}
        THEN LET e == node.entries[LeastOf(hits)]
             IN  Found("phys", e.len - (b - e.block), e.start + (b - e.block))
        ELSE IF next # {} THEN Hole(node.entries[LeastOf(next)].block - b)
        ELSE Hole(BlockCount(f) - b)

ByExtent(f, b, type, bad, err) ==
    LET way == Levels(f, b)
        node == NodeOf(f, Reached(way).at)
    IN  IF ReadOn(way, 0) \cap bad # {} THEN Unread(err, type)
        ELSE IF node.depth > 0 THEN Hole(node.entries[1].block - b)
        ELSE LeafAnswer(f, node, b)

-----------------------------------------------------------------------------
(* fsw_ext4_get_by_blkaddr and fsw_ext2_get_extent *)

\* The indices to follow: into the inode's pointers, then into indirect blocks.
PathTo(b) ==
    LET i1 == b - NDirBlocks
        i2 == i1 - IndCount
        i3 == i2 - IndCount * IndCount
    IN  IF b < NDirBlocks THEN <<b>>
        ELSE IF i1 < IndCount THEN <<NDirBlocks, i1>>
        ELSE IF i2 < IndCount * IndCount
             THEN <<NDirBlocks + 1, i2 \div IndCount, i2 % IndCount>>
        ELSE <<NDirBlocks + 2, i3 \div (IndCount * IndCount),
               (i3 \div IndCount) % IndCount, i3 % IndCount>>

\* The pointer in a table: table 0 is the inode.
Pointer(f, t, j) == IF t = 0 THEN f.iblock[j] ELSE f.ind[t][j]

\* The tables passed on the way down, up to the one whose pointer is the block
\* wanted or a hole.
Tables(f, path) ==
    LET table[n \in 1..Len(path)] ==
            IF n = 1 THEN {0}
            ELSE {Pointer(f, t, path[n - 1]) : t \in table[n - 1]} \ {0}
    IN  table

RunLimit(t) == IF t = 0 THEN NDirBlocks ELSE IndCount

\* Pointer j of a table goes on the run of the one before it.
Continues(f, t, j, hole) ==
    IF hole THEN Pointer(f, t, j) = 0
    ELSE Pointer(f, t, j) = Pointer(f, t, j - 1) + 1

\* The length of the run that starts at pointer j of a table, for block b.
RunLength(f, t, j, b, hole) ==
    LeastOf({c \in 1..(BlockCount(f) + 1) :
        \/ j + c >= RunLimit(t)
        \/ b + c >= BlockCount(f)
        \/ ~Continues(f, t, j + c, hole)})

ByPointers(f, b, type, bad, err) ==
    LET path == PathTo(b)
        way == Tables(f, path)
        t == Reached(way).at
        j == path[Reached(way).step]
        p == Pointer(f, t, j)
    IN  IF ReadOn(way, 1) \cap bad # {} THEN Unread(err, type)
        ELSE IF p = 0 THEN Hole(RunLength(f, t, j, b, f.kind = "ext4"))
        ELSE Found("phys", RunLength(f, t, j, b, FALSE), p)

-----------------------------------------------------------------------------
(* fsw_ufs_get_extent *)

\* The fragment of an indirect block that holds pointer j.
IndFrag(f, t, j) == t + (j * Frags) \div IndCount

FragRun(f, t, first, b, p, limit) ==
    LeastOf({c \in 1..(BlockCount(f) + 1) :
        \/ first + c >= limit
        \/ b + c >= BlockCount(f)
        \/ Pointer(f, t, first + c) # p + c * Frags})

ByFragments(f, b, bad, err) ==
    LET i == b - NDirBlocks
        t == f.iblock[NDirBlocks]
        inDirect == b < NDirBlocks
        j == IF inDirect THEN b ELSE i
        p == IF inDirect THEN f.iblock[b] ELSE f.ind[t][i]
        run == IF inDirect THEN FragRun(f, 0, b, b, p, NDirBlocks)
                           ELSE FragRun(f, t, i, b, p, IndCount)
        looked == IF inDirect THEN {}
                  ELSE {IndFrag(f, t, k) : k \in
                          {x \in i..(i + run) : x = i \/ (p # 0 /\ x < IndCount
                              /\ b + (x - i) < BlockCount(f))}}
    IN  IF ~inDirect /\ i >= IndCount THEN Unread("other", "phys")
        ELSE IF ~inDirect /\ t = 0 THEN Found("sparse", 1, 0)
        ELSE IF looked \cap bad # {} THEN Unread(err, "phys")
        ELSE IF p = 0 THEN Found("sparse", 1, 0)
        ELSE Found("phys", run, p)

-----------------------------------------------------------------------------
(* fsw_ntfs_get_extent_sparse, fsw_ntfs_dnode_get_lcn *)

NoRun == [vcn |-> 0, cnt |-> 0, lcn |-> 0]

RunOf(f, v) == {i \in DOMAIN f.runs :
                   v >= f.runs[i].vcn /\ v < f.runs[i].vcn + f.runs[i].cnt}

\* dno->cext after a look-up: the run found, holes included.
Kept(f, v, cext) ==
    IF (v >= cext.vcn /\ v < cext.vcn + cext.cnt) \/ RunOf(f, v) = {} THEN cext
    ELSE f.runs[LeastOf(RunOf(f, v))]

\* The cluster: from the kept run whatever it is, else from the run list.
Cluster(f, v, cext) ==
    IF v >= cext.vcn /\ v < cext.vcn + cext.cnt
    THEN [found |-> TRUE, lcn |-> cext.lcn + (v - cext.vcn)]
    ELSE IF RunOf(f, v) = {} \/ f.runs[LeastOf(RunOf(f, v))].lcn = 0
    THEN [found |-> FALSE, lcn |-> 0]
    ELSE LET r == f.runs[LeastOf(RunOf(f, v))]
         IN  [found |-> TRUE, lcn |-> r.lcn + (v - r.vcn)]

ByRuns(f, v, cext) ==
    LET c == Cluster(f, v, cext)
        k == Kept(f, v, cext)
    IN  IF v * LogBlock > f.size THEN Unread("other", "invalid")
        ELSE IF v * LogBlock > f.finited \/ ~c.found THEN Found("sparse", 1, 0)
        ELSE Found("phys", IF v >= k.vcn /\ v < k.vcn + k.cnt
                           THEN k.cnt + v - k.vcn ELSE 1, c.lcn)

\* The run list is looked at only behind the two size checks.
KeptAfter(f, v, cext) ==
    IF f.kind = "ntfs" /\ v * LogBlock <= f.size /\ v * LogBlock <= f.finited
    THEN Kept(f, v, cext) ELSE cext

-----------------------------------------------------------------------------
(* fsw_hfs_get_extent *)

DataFork == 0

\* The number of blocks in the first n extents of a record.
Before(exts, n) ==
    LET sum[k \in 0..n] == IF k = 0 THEN 0 ELSE sum[k - 1] + exts[k].count
    IN  sum[n]

Whole(exts) == Before(exts, Len(exts))

\* fsw_hfs_find_block, for a block inside the record.
InRecord(exts, b) ==
    LET i == CHOOSE k \in DOMAIN exts : Before(exts, k - 1) <= b /\ b < Before(exts, k)
    IN  exts[i].start + (b - Before(exts, i - 1))

\* The start block of the record wanted, when the records passed hold known blocks.
OverflowKey(f, known, b) == known

\* The blocks before each record that is passed on the way to the block; fork is what
\* the key's forkType happens to hold.
Passed(f, b, fork) ==
    LET Start(r) == r.startBlock
        way[n \in 0..Cardinality(f.overflow)] ==
            IF n = 0 THEN {[startBlock |-> 0, fork |-> DataFork, exts |-> f.first]}
            ELSE {r \in f.overflow : \E q \in way[n - 1] :
                    /\ b >= q.startBlock + Whole(q.exts)
                    /\ r.fork = fork
                    /\ r.startBlock = OverflowKey(f, q.startBlock + Whole(q.exts), b)}
    IN  way

ByRecords(f, b, bad, fork) ==
    LET way == Passed(f, b, fork)
        r == Reached(way).at
    IN  IF b < Whole(f.first) THEN Found("phys", 1, InRecord(f.first, b))
        ELSE IF f.node \in bad THEN Unread("other", "phys")
        ELSE IF b >= r.startBlock + Whole(r.exts) THEN Unread("other", "phys")
        ELSE Found("phys", 1, InRecord(r.exts, b - r.startBlock))

-----------------------------------------------------------------------------
(* fsw_bcachefs_get_extent: a key stands at its end, size blocks before it. *)

\* bcachefs_btree_lookup: the first key at or behind a position.
KeysFrom(keys, p) == {i \in DOMAIN keys : keys[i].end >= p}
KeyAt(keys, b) == keys[LeastOf(KeysFrom(keys, b + 1))]
Inside(k, b) == b < k.end /\ b >= k.end - k.size
Into(k, b) == k.start + (b - (k.end - k.size))

ByKeys(f, b, type) ==
    IF KeysFrom(f.keys, b + 1) = {} \/ ~Inside(KeyAt(f.keys, b), b)
    THEN Unread("other", type)
    ELSE LET k == KeyAt(f.keys, b)
             v == Into(k, b)
         IN  IF ~k.reflink THEN Found("phys", k.end - b, v)
             ELSE IF KeysFrom(f.shared, v + 1) = {} \/ ~Inside(KeyAt(f.shared, v), v)
             THEN Unread("other", type)
             ELSE LET r == KeyAt(f.shared, v)
                  IN  Found("phys", IF k.end - b < r.end - v THEN k.end - b ELSE r.end - v,
                            Into(r, v))

-----------------------------------------------------------------------------
\* vol->fstype_table->get_extent for block b; type is the type the extent had, bad
\* the blocks that cannot be read, err the status such a read ends with, fork the
\* part of the HFS+ key that is not set.
GetExtent(f, b, type, bad, err, fork, cext) ==
    CASE f.kind = "extents"  -> ByExtent(f, b, type, bad, err)
      [] f.kind = "ext4"     -> ByPointers(f, b, type, bad, err)
      [] f.kind = "ext2"     -> ByPointers(f, b, "phys", bad, err)
      [] f.kind = "ufs"      -> ByFragments(f, b, bad, err)
      [] f.kind = "ntfs"     -> ByRuns(f, b, cext)
      [] f.kind = "hfs"      -> ByRecords(f, b, bad, fork)
      [] f.kind = "bcachefs" -> ByKeys(f, b, type)
      [] f.kind = "iso9660"  -> Found("phys", BlockCount(f), f.location)

\* extent->log_start afterwards.
StartOf(f, b) == IF f.kind = "iso9660" THEN 0 ELSE b

-----------------------------------------------------------------------------
(* What the files hold, straight from their disk structures: the reference    *)
(* the drivers are compared with.                                             *)

Leaves(f) == IF f.root.depth = 0 THEN {f.root}
             ELSE {f.nodes[n] : n \in {m \in DOMAIN f.nodes : f.nodes[m].depth = 0}}

AllExtents(f) == UNION {{n.entries[i] : i \in DOMAIN n.entries} : n \in Leaves(f)}

\* The physical block of a logical block, 0 for a hole.
TrueBlock(f, b) ==
    CASE f.kind = "extents" ->
            IF \E e \in AllExtents(f) : Covers(e, b)
            THEN LET e == CHOOSE x \in AllExtents(f) : Covers(x, b)
                 IN  e.start + (b - e.block)
            ELSE 0
      [] f.kind \in {"ext4", "ext2"} ->
            LET path == PathTo(b)
                follow[n \in 0..Len(path)] ==
                    IF n = 0 THEN {0}
                    ELSE {IF n > 1 /\ t = 0 THEN 0 ELSE Pointer(f, t, path[n]) :
                            t \in follow[n - 1]}
            IN  CHOOSE p \in follow[Len(path)] : TRUE
      [] f.kind = "ufs" ->
            IF b < NDirBlocks THEN f.iblock[b]
            ELSE IF f.iblock[NDirBlocks] = 0 THEN 0
            ELSE f.ind[f.iblock[NDirBlocks]][b - NDirBlocks]
      [] f.kind = "ntfs" ->
            IF RunOf(f, b) = {} THEN 0
            ELSE LET r == f.runs[LeastOf(RunOf(f, b))]
                 IN  IF r.lcn = 0 THEN 0 ELSE r.lcn + (b - r.vcn)
      [] f.kind = "hfs" ->
            LET rs == {[startBlock |-> 0, fork |-> DataFork, exts |-> f.first]}
                        \cup {r \in f.overflow : r.fork = DataFork}
                r == CHOOSE x \in rs : b >= x.startBlock /\ b < x.startBlock + Whole(x.exts)
            IN  IF b >= BlockCount(f) THEN 0 ELSE InRecord(r.exts, b - r.startBlock)
      [] f.kind = "bcachefs" ->
            LET hits == {i \in DOMAIN f.keys : Inside(f.keys[i], b)}
                k == f.keys[LeastOf(hits)]
                v == Into(k, b)
            IN  IF hits = {} THEN 0
                ELSE IF ~k.reflink THEN v
                ELSE Into(CHOOSE r \in {f.shared[i] : i \in DOMAIN f.shared} : Inside(r, v), v)
      [] f.kind = "iso9660" -> f.location + b

\* Physical blocks of a logical block of this file, and the bytes of one of them.
PhysPerLog(f) == IF f.kind = "ufs" THEN Frags ELSE 1
PhysBlock(f) == LogBlock \div PhysPerLog(f)

\* The byte of a file at an offset whose logical block is at p on the disk: the place
\* it is stored at, or zero.
ByteAt(f, p, x) ==
    LET o == x % LogBlock
    IN  IF p = 0 \/ (f.kind = "ntfs" /\ x >= f.finited) THEN Zero
        ELSE <<p + o \div PhysBlock(f), o % PhysBlock(f)>>
=============================================================================
