------------------------------ MODULE FswDirs ------------------------------
(***************************************************************************)
(* How the drivers find a name in a directory and list it: dir_lookup and   *)
(* dir_read of ext4, ext2 and UFS (a linear scan), ISO 9660 (sector by       *)
(* sector), bcachefs (keys of a B-tree of sets),                            *)
(* btrfs (items of the tree of a subvolume, by the hash of the name), HFS+   *)
(* (records of the catalog) and NTFS (an index of names).                   *)
(*                                                                         *)
(* A name is a number: the drivers only compare names, and their order is   *)
(* that of the numbers.  A disk is a record with the driver in "fs" and    *)
(*   slots  (ext4, ext2, ufs) the entries of each directory, inode 0 when    *)
(*          deleted                                                        *)
(*   sectors  (iso9660) for each directory its sectors: the records and how *)
(*          many zeros follow them, none, at most the 33 bytes of a record's *)
(*          head ("narrow") or more ("wide")                                *)
(*   nodes, top  (bcachefs) tree nodes, each a sequence of sets of keys     *)
(*   nodes, top  (hfs) the nodes of the catalog tree                        *)
(*   nodes, rootTree, rootDir, hash  (btrfs) the nodes of all trees, the tree *)
(*          of the subvolumes, the directory in it that names the default,   *)
(*          and the hash of each name                                        *)
(*   index  (ntfs) for each directory the entries of the index root, those  *)
(*          of the index blocks and the blocks in use                       *)
(***************************************************************************)
EXTENDS FswBtrfsTree, Functions

Empty == 0
Dot == -1
DotDot == -2
DotDotDot == -3

\* What a driver answers; pos is shand->pos after it, and passed how many entries it
\* went past because no dnode could be made for them.
Entry(ino, name, pos) ==
    [st |-> "ok", ino |-> ino, name |-> name, pos |-> pos, passed |-> 0]
NoEntry(st) == [st |-> st, ino |-> 0, name |-> Empty, pos |-> 0, passed |-> 0]

LeastIn(S) == CHOOSE i \in S : \A j \in S : i <= j
LargestIn(S) == CHOOSE i \in S : \A j \in S : j <= i

-----------------------------------------------------------------------------
(* ext4: the first used slot *)

Ext4LookUp(disk, d, name, io) ==
    LET s == disk.slots[d]
        found == {i \in DOMAIN s : s[i].ino # 0 /\ s[i].name = name}
    IN  IF io THEN NoEntry("io")
        ELSE IF found = {} THEN NoEntry("none")
        ELSE Entry(s[LeastIn(found)].ino, name, 0)

Ext4Read(disk, d, pos, io) ==
    LET s == disk.slots[d]
        found == {i \in DOMAIN s : /\ i > pos
                                   /\ s[i].ino # 0
                                   /\ s[i].name \notin {Dot, DotDot}}
    IN  IF io THEN NoEntry("io")
        ELSE IF found = {} THEN NoEntry("none")
        ELSE LET i == LeastIn(found) IN Entry(s[i].ino, s[i].name, i)

\* ext2 and UFS differ from it in the layout of an entry only.
Ext2LookUp(disk, d, name, io) == Ext4LookUp(disk, d, name, io)
Ext2Read(disk, d, pos, io) == Ext4Read(disk, d, pos, io)
UfsLookUp(disk, d, name, io) == Ext4LookUp(disk, d, name, io)
UfsRead(disk, d, pos, io) == Ext4Read(disk, d, pos, io)

-----------------------------------------------------------------------------
(* ISO 9660: a record does not cross a sector, zeros fill the rest of one.   *)

\* shand->pos is the block (or sector, from 0) and the place in it.
Place(block, off) == block * 100 + off

\* The search takes the first zeros for the end of the directory.
IsoLookUp(disk, d, name, io) ==
    LET s == disk.sectors[d]
        searched == {k \in DOMAIN s : \A j \in 1..(k - 1) : s[j].pad = "none"}
        found == {r \in UNION {Range(s[k].recs) : k \in searched} : r.name = name}
    IN  IF io THEN NoEntry("io")
        ELSE IF found = {} THEN NoEntry("none")
        ELSE Entry((CHOOSE r \in found : TRUE).ino, name, 0)

\* The head of a record is read before its length is looked at: narrow zeros leave the
\* position in the next sector, and it is that one's end the listing goes on from.
SectorAfter(s, k) == IF s[k].pad = "narrow" THEN k + 2 ELSE k + 1

RECURSIVE IsoFrom(_, _, _)
IsoFrom(s, k, i) ==
    LET found == {j \in DOMAIN s[k].recs : j > i /\ s[k].recs[j].name \notin {Dot, DotDot}}
        j == LeastIn(found)
    IN  IF k > Len(s) THEN NoEntry("none")
        ELSE IF found = {} THEN IsoFrom(s, SectorAfter(s, k), 0)
        ELSE Entry(s[k].recs[j].ino, s[k].recs[j].name, Place(k - 1, j))

IsoRead(disk, d, pos, io) ==
    IF io THEN NoEntry("io") ELSE IsoFrom(disk.sectors[d], pos \div 100 + 1, pos % 100)

-----------------------------------------------------------------------------
(* Keys ordered by two numbers: bcachefs (inode, offset), HFS+ (parent, name) *)

Before(a, b) == a[1] < b[1] \/ (a[1] = b[1] /\ a[2] < b[2])
AtMost(a, b) == a = b \/ Before(a, b)

RECURSIVE Joined(_)
Joined(seqs) == IF seqs = << >> THEN << >> ELSE Head(seqs) \o Joined(Tail(seqs))

\* Mutant: of the smallest keys the one written first.
LowerBound_First(sets, search) ==
    LET keys == Joined(sets)
        enough == {i \in DOMAIN keys : AtMost(search, keys[i].pos)}
        best == {i \in enough : \A j \in enough : AtMost(keys[i].pos, keys[j].pos)}
    IN  IF best = {} THEN [live |-> FALSE] ELSE keys[LeastIn(best)]

\* bcachefs_node_lower_bound: of the smallest keys the one written last, and it
\* must be live.
LowerBound(sets, search) ==
    LET keys == Joined(sets)
        enough == {i \in DOMAIN keys : AtMost(search, keys[i].pos)}
        best == {i \in enough : \A j \in enough : AtMost(keys[i].pos, keys[j].pos)}
    IN  IF best = {} THEN [live |-> FALSE] ELSE keys[LargestIn(best)]

\* bcachefs_btree_lookup
RECURSIVE BtreeLookUp(_, _, _)
BtreeLookUp(disk, n, search) ==
    LET key == LowerBound(disk.nodes[n].sets, search)
    IN  IF ~key.live \/ disk.nodes[n].level = 0 THEN key
        ELSE BtreeLookUp(disk, key.child, search)

NextDirent(disk, d, offset) ==
    LET key == BtreeLookUp(disk, disk.top, <<d, offset>>)
    IN  IF key.live /\ key.pos[1] = d
        THEN Entry(key.ino, key.name, key.pos[2] + 1)
        ELSE NoEntry("none")

RECURSIVE DirentNamed(_, _, _, _)
DirentNamed(disk, d, name, offset) ==
    LET e == NextDirent(disk, d, offset)
    IN  IF e.st # "ok" \/ e.name = name THEN e
        ELSE DirentNamed(disk, d, name, e.pos)

BcachefsLookUp(disk, d, name, io) ==
    IF io THEN NoEntry("io") ELSE DirentNamed(disk, d, name, 0)

BcachefsRead(disk, d, pos, io) ==
    IF io THEN NoEntry("io") ELSE NextDirent(disk, d, pos)

-----------------------------------------------------------------------------
(* HFS+: the index record in front of the first larger one, then the leaves *)

NoRecord == <<0, 0>>

RECURSIVE HfsSearch(_, _, _)
HfsSearch(disk, n, key) ==
    LET node == disk.nodes[n]
        upTo == {i \in DOMAIN node.recs :
                    \A j \in 1..i : AtMost(node.recs[j].key, key)}
        exact == {i \in DOMAIN node.recs : node.recs[i].key = key}
    IN  IF ~node.leaf
        THEN IF upTo = {} THEN NoRecord
             ELSE HfsSearch(disk, node.recs[LargestIn(upTo)].child, key)
        ELSE IF exact # {} THEN <<n, LeastIn(exact)>>
        ELSE IF upTo # {} /\ upTo = DOMAIN node.recs /\ node.next # 0
        THEN HfsSearch(disk, node.next, key)
        ELSE NoRecord

HfsLookUp(disk, d, name, io) ==
    LET at == HfsSearch(disk, disk.top, <<d, name>>)
    IN  IF io THEN NoEntry("io")
        ELSE IF at = NoRecord THEN NoEntry("none")
        ELSE Entry(disk.nodes[at[1]].recs[at[2]].ino, name, 0)

\* fsw_hfs_btree_iterate_node: the records from one on, across the leaves.
RECURSIVE RecordsFrom(_, _, _)
RecordsFrom(disk, n, i) ==
    LET node == disk.nodes[n]
        here == SubSeq(node.recs, i, Len(node.recs))
    IN  IF node.next = 0 THEN here ELSE here \o RecordsFrom(disk, node.next, 1)

\* fsw_hfs_btree_visit_node: shand->pos counts the records of the directory that
\* were passed, its thread record included.
HfsRead(disk, d, pos, io) ==
    LET at == HfsSearch(disk, disk.top, <<d, Empty>>)
        recs == RecordsFrom(disk, at[1], at[2])
        ours == {i \in DOMAIN recs : \A j \in 1..i : recs[j].key[1] = d}
        found == {i \in ours : i > pos /\ recs[i].kind # "thread"}
    IN  IF io THEN NoEntry("io")
        ELSE IF at = NoRecord \/ found = {} THEN NoEntry("none")
        ELSE LET i == LeastIn(found) IN Entry(recs[i].ino, recs[i].key[2], i)

-----------------------------------------------------------------------------
(* NTFS: block 0 is the index root, block b the b-th index block *)

MetaFiles == 16     \* MFTNO_META

NtfsBlock(disk, d, block) ==
    IF block = 0 THEN disk.index[d].root ELSE disk.index[d].blocks[block]

\* The first entry the name does not lie behind.
NtfsEntry(entries, name) ==
    {i \in DOMAIN entries :
        /\ entries[i].end \/ name <= entries[i].name
        /\ \A j \in 1..(i - 1) : ~entries[j].end /\ entries[j].name < name}

RECURSIVE NtfsDescend(_, _, _, _, _)
NtfsDescend(disk, d, name, block, depth) ==
    LET entries == NtfsBlock(disk, d, block)
        at == NtfsEntry(entries, name)
    IN  IF at = {} \/ depth = 10 THEN NoEntry("none")
        ELSE LET e == entries[LeastIn(at)]
             IN  IF ~e.end /\ e.name = name
                 THEN IF e.ino < MetaFiles THEN NoEntry("none")
                      ELSE Entry(e.ino, name, 0)
                 ELSE IF e.sub = 0 THEN NoEntry("none")
                 ELSE NtfsDescend(disk, d, name, e.sub, depth + 1)

\* An index block that cannot be read ends the search as "not found".
NtfsLookUp(disk, d, name, io) ==
    IF io
    THEN NtfsDescend([disk EXCEPT !.index[d].blocks =
                          [b \in DOMAIN disk.index[d].blocks |-> << >>]], d, name, 0, 0)
    ELSE NtfsDescend(disk, d, name, 0, 0)

\* The blocks in their order; a free block, and one that cannot be read, is passed over.
NtfsRead(disk, d, pos, io) ==
    LET readable == {0} \cup (IF io THEN {} ELSE disk.index[d].used)
        places == {<<b, i>> \in readable \X (1..99) :
                      LET entries == NtfsBlock(disk, d, b)
                      IN  /\ i \in DOMAIN entries
                          /\ \A j \in 1..i : ~entries[j].end
                          /\ Place(b, i) > pos
                          /\ ~entries[i].dos
                          /\ entries[i].ino >= MetaFiles}
    IN  IF places = {} THEN NoEntry("none")
        ELSE LET p == CHOOSE q \in places : \A r \in places : AtMost(q, r)
                 e == NtfsBlock(disk, d, p[1])[p[2]]
             IN  Entry(e.ino, e.name, Place(p[1], p[2]))

-----------------------------------------------------------------------------
(* btrfs: a dnode is an object of a tree, and a tree is named by its root node. *)

FirstObject == 256
TopTree == 5
LastOffset == 1000000

DnodeNumber(tree, object) == 1000 * tree + object
TreeOf(d) == d \div 1000
ObjectOf(d) == d % 1000

\* fsw_btrfs_get_root_tree
RootTree(disk, key) ==
    LET r == Taken(disk.nodes, LowerBoundWay(disk.nodes, disk.rootTree, key))
    IN  IF r.key[1] = key[1] /\ r.key[2] = key[2] THEN r.tree ELSE 0

TopRoot(disk) ==
    DnodeNumber(RootTree(disk, <<TopTree, RootItem, LastOffset>>), FirstObject)

\* fsw_btrfs_get_sub_dnode: an object of the same tree, or the root of another one.
SubDnode(disk, tree, e, pos) ==
    LET root == RootTree(disk, e.key)
    IN  IF e.key[2] = InodeItem THEN Entry(DnodeNumber(tree, e.key[1]), e.name, pos)
        ELSE IF e.key[2] # RootItem THEN NoEntry("corrupted")
        ELSE IF root = 0 THEN NoEntry("none")
        ELSE Entry(DnodeNumber(root, FirstObject), e.name, pos)

NoDirItem == [key |-> <<0, 0, 0>>]

\* fsw_btrfs_lookup_dir_item: names of one hash share an item.
NamedItem(disk, tree, object, name) ==
    LET key == <<object, DirItem, disk.hash[name]>>
        r == Taken(disk.nodes, LowerBoundWay(disk.nodes, tree, key))
        same == {i \in DOMAIN r.entries : r.entries[i].name = name}
    IN  IF r.key # key \/ same = {} THEN NoDirItem ELSE r.entries[LeastIn(same)]

\* fsw_btrfs_get_default_root: the subvolume named "default", or the top one.
Default == -4
BtrfsRoot(disk) ==
    LET e == NamedItem(disk, disk.rootTree, disk.rootDir, Default)
    IN  IF \/ e = NoDirItem
           \/ e.key[2] # RootItem \/ e.key[1] = TopTree
           \/ RootTree(disk, e.key) = 0
        THEN TopRoot(disk) ELSE DnodeNumber(RootTree(disk, e.key), FirstObject)

\* In the root directory "..." is the root of the top tree.
BtrfsLookUp(disk, d, name, io) ==
    LET e == NamedItem(disk, TreeOf(d), ObjectOf(d), name)
    IN  IF name = DotDotDot /\ d = BtrfsRoot(disk) THEN Entry(TopRoot(disk), name, 0)
        ELSE IF io THEN NoEntry("io")
        ELSE IF e = NoDirItem THEN NoEntry("none")
        ELSE SubDnode(disk, TreeOf(d), e, 0)

\* The items of the directory in their order, from one on; of each the first name that
\* a dnode can be made for, the other ones are passed over.
RECURSIVE FirstDnode(_, _, _, _, _, _)
FirstDnode(disk, d, pos, way, made, passed) ==
    LET r == Taken(disk.nodes, way)
        dnode(i) == SubDnode(disk, TreeOf(d), r.entries[i], r.key[3])
        named == {i \in DOMAIN r.entries :
                    (pos = 0 \/ r.entries[i].key[3] # pos) /\ dnode(i).st = "ok"}
        good == {i \in named : dnode(i).ino \in made}
        failed == {i \in named : \A j \in good : i < j}
        past == passed + Cardinality(failed)
    IN  IF way = NoWay \/ r.key[1] # ObjectOf(d) \/ r.key[2] # DirItem
        THEN [NoEntry("none") EXCEPT !.passed = passed]
        ELSE IF good # {} THEN [dnode(LeastIn(good)) EXCEPT !.passed = past]
        ELSE FirstDnode(disk, d, pos, NextWay(disk.nodes, way), made, past)

\* shand->pos is the hash of the item last taken; what lies at or before it is behind.
BtrfsRead(disk, d, pos, io, made) ==
    LET way == LowerBoundWay(disk.nodes, TreeOf(d), <<ObjectOf(d), DirItem, pos>>)
    IN  IF io THEN NoEntry("io")
        ELSE IF LastStep(way).rec = 0 THEN NoEntry("none")
        ELSE FirstDnode(disk, d, pos, NextWay(disk.nodes, way), made, 0)

-----------------------------------------------------------------------------
(* The function table of the driver *)

LookUpIn(disk, d, name, io) ==
    CASE disk.fs = "ext4" -> Ext4LookUp(disk, d, name, io)
      [] disk.fs = "ext2" -> Ext2LookUp(disk, d, name, io)
      [] disk.fs = "ufs" -> UfsLookUp(disk, d, name, io)
      [] disk.fs = "iso9660" -> IsoLookUp(disk, d, name, io)
      [] disk.fs = "bcachefs" -> BcachefsLookUp(disk, d, name, io)
      [] disk.fs = "hfs" -> HfsLookUp(disk, d, name, io)
      [] disk.fs = "ntfs" -> NtfsLookUp(disk, d, name, io)
      [] disk.fs = "btrfs" -> BtrfsLookUp(disk, d, name, io)

\* made: the inodes there is a dnode for, or memory for one.
ReadFrom(disk, d, pos, io, made) ==
    CASE disk.fs = "ext4" -> Ext4Read(disk, d, pos, io)
      [] disk.fs = "ext2" -> Ext2Read(disk, d, pos, io)
      [] disk.fs = "ufs" -> UfsRead(disk, d, pos, io)
      [] disk.fs = "iso9660" -> IsoRead(disk, d, pos, io)
      [] disk.fs = "bcachefs" -> BcachefsRead(disk, d, pos, io)
      [] disk.fs = "hfs" -> HfsRead(disk, d, pos, io)
      [] disk.fs = "ntfs" -> NtfsRead(disk, d, pos, io)
      [] disk.fs = "btrfs" -> BtrfsRead(disk, d, pos, io, made)

\* The root dnode the driver mounts the volume with.
MountedRoot(disk) == IF disk.fs = "btrfs" THEN BtrfsRoot(disk) ELSE disk.root

=============================================================================
