----------------------------- MODULE MCFswFile -----------------------------
(* Files of a few blocks, one for each way a driver describes one. *)
EXTENDS FswFile, TLC

LOCAL INSTANCE SequencesExt
LOCAL INSTANCE FiniteSetsExt

Leaf(es) == [depth |-> 0, entries |-> es]
Extent(b, l, s) == [block |-> b, len |-> l, start |-> s]
Index(b, c) == [block |-> b, child |-> c]

\* Extents in the inode, with holes before, between and behind them.
Flat == [kind |-> "extents", size |-> 11,
    root |-> Leaf(<<Extent(1, 2, 20), Extent(4, 1, 30)>>), nodes |-> << >>]

\* Two levels of index blocks, no gap at the end of a leaf but the last.
Deep == [kind |-> "extents", size |-> 12,
    root |-> [depth |-> 2, entries |-> <<Index(1, 40)>>],
    nodes |-> 40 :> [depth |-> 1, entries |-> <<Index(1, 41), Index(3, 42)>>]
           @@ 41 :> Leaf(<<Extent(1, 2, 20)>>)
           @@ 42 :> Leaf(<<Extent(3, 1, 30), Extent(4, 1, 25)>>)]

\* Direct, indirect and double indirect pointers with holes on every level.
Pointers(k) == [kind |-> k, size |-> 15,
    iblock |-> 0 :> 0 @@ 1 :> 20 @@ 2 :> 50 @@ 3 :> 51 @@ 4 :> 0,
    ind |-> 50 :> (0 :> 21 @@ 1 :> 22) @@ 51 :> (0 :> 0 @@ 1 :> 52)
         @@ 52 :> (0 :> 0 @@ 1 :> 23)]

\* Blocks of two fragments, contiguous ones and a hole.
Fragments == [kind |-> "ufs", size |-> 7,
    iblock |-> 0 :> 20 @@ 1 :> 22 @@ 2 :> 50, ind |-> 50 :> (0 :> 24 @@ 1 :> 0)]

RunRec(v, n, c) == [vcn |-> v, cnt |-> n, lcn |-> c]

\* Runs of one cluster, the last one longer.
Runs == [kind |-> "ntfs", size |-> 11, finited |-> 11,
    runs |-> <<RunRec(0, 1, 20), RunRec(1, 1, 40), RunRec(2, 1, 30), RunRec(3, 3, 21)>>]

\* Three records of extents; the resource fork has one in the same tree.
Record(s, f, es) == [startBlock |-> s, fork |-> f, exts |-> es]
Part(s, n) == [start |-> s, count |-> n]
Records == [kind |-> "hfs", size |-> 9, node |-> 50,
    first |-> <<Part(20, 1), Part(30, 1)>>,
    overflow |-> {Record(2, 0, <<Part(22, 2)>>), Record(4, 0, <<Part(25, 1)>>),
                  Record(2, 255, <<Part(60, 2)>>)}]

\* An extent, and a clone of blocks that two shared extents hold.
Key(e, n, s, r) == [end |-> e, size |-> n, start |-> s, reflink |-> r]
Keys == [kind |-> "bcachefs", size |-> 9,
    keys |-> <<Key(2, 2, 20, FALSE), Key(5, 3, 101, TRUE)>>,
    shared |-> <<Key(102, 2, 30, FALSE), Key(105, 3, 24, FALSE)>>]

Image == [kind |-> "iso9660", size |-> 7, location |-> 20]

-----------------------------------------------------------------------------
(* A btrfs file system on several layouts of its chunks.                      *)

SysAt == 10
MetaAt == 20
DataAt == 40

\* What the logical sectors hold: the chunk tree, a tree of two leaves, data.
Content == [a \in {SysAt, SysAt + 1} |-> 200 + a - SysAt]
        @@ [a \in MetaAt..(MetaAt + 4) |-> 210 + a - MetaAt]
        @@ [a \in DataAt..(DataAt + 6) |-> 11 * (a - DataAt + 1)]

Regular(filled, laddr, offset) ==
    [type |-> "regular", comp |-> "none", filled |-> filled, physical |-> 99,
     laddr |-> laddr, offset |-> offset]
Packed(filled, laddr, zlen) ==
    [type |-> "regular", comp |-> "packed", filled |-> filled, physical |-> 99,
     laddr |-> laddr, offset |-> 0, zlen |-> zlen]
Inline(bytes) ==
    [type |-> "inline", comp |-> "none", physical |-> Len(bytes), inline |-> bytes]

Item(ino, type, offset, what) == [key |-> <<ino, type, offset>>, item |-> what]
Node(ino, type, offset, to) == [key |-> <<ino, type, offset>>, child |-> to]

Few == <<<<5, 0>>, <<6, 0>>, <<7, 0>>>>
Inflated == [i \in 1..6 |-> <<8, i>>]

Nodes(chunks) ==
    200 :> [level |-> 0, recs |-> [i \in DOMAIN chunks |->
                Item(256, ChunkItem, chunks[i].start, chunks[i])]]
    @@ 210 :> [level |-> 1, recs |-> <<Node(256, InodeItem, 0, MetaAt + 1),
                                       Node(256, ExtentItem, 8, MetaAt + 3)>>]
    @@ 211 :> [level |-> 0, recs |-> <<Item(256, InodeItem, 0, NoItem),
                                       Item(256, ExtentItem, 0, Regular(6, DataAt, 0))>>]
    @@ 213 :> [level |-> 0, recs |-> <<
                Item(256, ExtentItem, 8, Regular(4, DataAt + 3, 2)),
                Item(257, InodeItem, 0, NoItem), Item(257, ExtentItem, 0, Inline(Few)),
                Item(258, InodeItem, 0, NoItem),
                Item(258, ExtentItem, 0, Packed(6, DataAt + 6, 1))>>]

\* What stripe k of a chunk holds at row r, from the layout of the row: the data
\* stripes turn by one each row, with P and Q behind them.
Weighed(d, data(_)) == FoldLeft(LAMBDA q, j : Doubled(q) ^^ data(j), 0, [i \in 1..d |-> d - i])
Held(ch, k, x) ==
    LET n == Len(ch.stripes)
        row == x \div ch.stripe
        in == x % ch.stripe
        j == ((k + n) - (row % n)) % n
        d == n - Parities(ch)
        value(off) == IF ch.start + off \in DOMAIN Content
                      THEN Content[ch.start + off] ELSE 0
        data(i) == value((row * d + i) * ch.stripe + in)
    IN  CASE ch.type = "single" -> value(x)
          [] ch.type \in {"dup", "raid1"} -> value(x)
          [] ch.type = "raid0" -> value((row * n + k) * ch.stripe + in)
          [] ch.type = "raid10" ->
                value((row * (n \div ch.sub) + k \div ch.sub) * ch.stripe + in)
          [] j < d -> data(j)
          [] j = d -> FoldSet(LAMBDA i, q : q ^^ data(i), 0, 0..(d - 1))
          [] OTHER -> Weighed(d, data)

\* A chunk; the system, metadata and data chunks lie from sectors 1, 3 and 10 of their
\* devices on.
Chunk(start, len, type, stripe, sub, stripes) ==
    [start |-> start, len |-> len, type |-> type, stripe |-> stripe, sub |-> sub,
     stripes |-> stripes]
On(devs, first) == [i \in DOMAIN devs |-> [dev |-> devs[i], at |-> first]]

DiskOf(chunks) ==
    LET spots == UNION {{<<ch, k, x>> : k \in 0..(Stripes(ch) - 1), x \in 0..(EachLen(ch) - 1)} :
                            ch \in chunks}
        place(s) == Sector(Stripe(s[1], s[2]).dev, Stripe(s[1], s[2]).at + s[3])
    IN  [sector \in {place(s) : s \in spots} |->
            LET s == CHOOSE t \in spots : place(t) = sector IN Held(s[1], s[2], s[3])]

Volume(devices, found, late, sys, meta, data) ==
    [disk |-> DiskOf({sys, meta, data}), devices |-> devices, master |-> 1,
     found |-> found, late |-> late, boot |-> {sys}, chunkTree |-> SysAt,
     chunks |-> {sys, meta, data}, nodes |-> Nodes(<<meta, data>>),
     plain |-> <<77>> :> Inflated]

SysChunk(type, stripes) == Chunk(SysAt, 2, type, 1, 1, stripes)
MetaChunk(type, sub, stripes) == Chunk(MetaAt, 6, type, 1, sub, stripes)
DataChunk(type, stripe, sub, stripes) == Chunk(DataAt, 8, type, stripe, sub, stripes)

McVolumes ==
    [alone |-> Volume({1}, {1}, {},
        SysChunk("dup", On(<<1>>, 1) \o On(<<1>>, 22)),
        MetaChunk("dup", 1, On(<<1>>, 3) \o On(<<1>>, 24)),
        DataChunk("single", 1, 1, On(<<1>>, 10))),
     striped |-> Volume({1, 2}, {1, 2}, {},
        SysChunk("raid1", On(<<2, 1>>, 1)), MetaChunk("raid1", 1, On(<<1, 2>>, 3)),
        DataChunk("raid0", 2, 1, On(<<2, 1>>, 10))),
     parity |-> Volume({1, 2, 3}, {1, 2}, {3},
        SysChunk("raid1", On(<<2, 1>>, 1)), MetaChunk("raid5", 1, On(<<1, 2, 3>>, 3)),
        DataChunk("raid5", 2, 1, On(<<2, 1, 3>>, 10))),
     double |-> Volume({1, 2, 3, 4}, {1, 2, 3}, {4},
        SysChunk("raid1", On(<<2, 1>>, 1)), MetaChunk("raid6", 1, On(<<4, 2, 3, 1>>, 3)),
        DataChunk("raid6", 1, 1, On(<<1, 2, 3, 4>>, 10))),
     mirrored |-> Volume({1, 2, 3, 4}, {1, 3, 4}, {},
        SysChunk("raid1", On(<<2, 1>>, 1)), MetaChunk("raid10", 2, On(<<1, 2, 3, 4>>, 3)),
        DataChunk("raid10", 1, 2, On(<<2, 1, 4, 3>>, 10)))]

\* A file of three extents with a hole (NO_HOLES) in it, a short one kept with its
\* inode, and a compressed one.
Extents(vol) == [kind |-> "btrfs", vol |-> vol, ino |-> 256, tree |-> MetaAt, size |-> 11,
    bytes |-> BytesOf(<<11, 22, 33>>) \o <<Zero, Zero>> \o SubSeq(BytesOf(<<55, 66>>), 1, 3)]
Short(vol) == [kind |-> "btrfs", vol |-> vol, ino |-> 257, tree |-> MetaAt, size |-> 3,
    bytes |-> Few]
Compressed(vol) == [kind |-> "btrfs", vol |-> vol, ino |-> 258, tree |-> MetaAt,
    size |-> 5, bytes |-> SubSeq(Inflated, 1, 5)]

McBtrfs == {Extents(n) : n \in DOMAIN McVolumes} \cup {Short("alone"), Compressed("alone")}

-----------------------------------------------------------------------------
McFiles == {Flat, Deep, Pointers("ext4"), Pointers("ext2"), Fragments, Runs, Records,
            Keys, Image} \cup McBtrfs

\* A hole between the last extent of a leaf and the first one of the next leaf.
LeafGap == [kind |-> "extents", size |-> 8,
    root |-> [depth |-> 1, entries |-> <<Index(0, 41), Index(2, 42)>>],
    nodes |-> 41 :> Leaf(<<Extent(0, 1, 20)>>) @@ 42 :> Leaf(<<Extent(2, 2, 30)>>)]

\* A hole of two clusters.
WideHole == [kind |-> "ntfs", size |-> 8, finited |-> 8,
    runs |-> <<RunRec(0, 1, 20), RunRec(1, 2, 0), RunRec(3, 1, 30)>>]

\* A run of two clusters with another behind it.
TwoRuns == [kind |-> "ntfs", size |-> 8, finited |-> 8,
    runs |-> <<RunRec(0, 2, 20), RunRec(2, 2, 30)>>]

\* A hole of as many bytes as a fsw_u32 has values, where Word is 8.
BigHole == [kind |-> "extents", size |-> 10,
    root |-> Leaf(<<Extent(4, 1, 20)>>), nodes |-> << >>]

\* What a device has of the metadata and data chunks.
Device(d) == {Sector(d, s) : s \in 3..20}

McBadSets == {{}, {20, 42} \cup Device(2), {21, 41} \cup Device(3), {50} \cup Device(1),
              {52, 24} \cup Device(2) \cup Device(4)}
NoBad == {{}}
BadIndex == {{}, {41}, {42}}

GapFiles == {LeafGap}
WideHoleFiles == {WideHole}
TwoRunsFiles == {TwoRuns}
DeepFiles == {Deep}
\* A file with a hole between its two keys.
KeyGap == [kind |-> "bcachefs", size |-> 6,
    keys |-> <<Key(1, 1, 20, FALSE), Key(3, 1, 21, FALSE)>>, shared |-> << >>]
KeyGapFiles == {KeyGap}
RecordFiles == {Records}

BigHoleFiles == {BigHole}
=============================================================================
