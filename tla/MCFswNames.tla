----------------------------- MODULE MCFswNames -----------------------------
(***************************************************************************)
(* A volume of ext4 with links, one of HFS+ beside one of NTFS, one of       *)
(* bcachefs, one of btrfs with three subvolumes, and one of ISO 9660 beside  *)
(* one of UFS and one of ext2.                                              *)
(* Names: 10 EFI, 20 vmlinuz, 50 grub, 80 a long one, 30 40 60 70 90 links.  *)
(***************************************************************************)
EXTENDS FswNames, TLC

Slot(name, ino) == [name |-> name, ino |-> ino]

\* 30 -> 10; 40 -> /10/50; 60 -> 60; 70 -> ../20; 90 -> 30/50
Ext4Disk ==
    [fs |-> "ext4", root |-> 2, long |-> {80}, unlisted |-> {},
     type |-> (2 :> "dir" @@ 11 :> "dir" @@ 12 :> "file" @@ 13 :> "link" @@ 14 :> "link"
               @@ 15 :> "link" @@ 16 :> "file" @@ 17 :> "link" @@ 18 :> "file"
               @@ 19 :> "link"),
     target |-> (13 :> <<10>> @@ 14 :> <<Empty, 10, 50>> @@ 15 :> <<60>>
                 @@ 17 :> <<DotDot, 20>> @@ 19 :> <<30, 50>>),
     entries |-> (2 :> <<<<10, 11>>, <<20, 12>>, <<30, 13>>, <<40, 14>>, <<60, 15>>,
                         <<90, 19>>>>
                  @@ 11 :> <<<<80, 18>>, <<50, 16>>, <<70, 17>>>>),
     slots |-> (2 :> <<Slot(Dot, 2), Slot(DotDot, 2), Slot(10, 0), Slot(10, 11),
                       Slot(20, 12), Slot(30, 13), Slot(50, 0), Slot(40, 14),
                       Slot(60, 15), Slot(90, 19)>>
                @@ 11 :> <<Slot(Dot, 11), Slot(DotDot, 2), Slot(20, 0), Slot(80, 18),
                           Slot(50, 16), Slot(70, 17)>>)]

\* The files of the volumes without links: /10/25, /10/50, /10/35/, /20, and on
\* NTFS /10/40.
PlainDisk(fs) ==
    [fs |-> fs, root |-> 2, long |-> {}, unlisted |-> {}, target |-> << >>,
     type |-> (2 :> "dir" @@ 21 :> "dir" @@ 22 :> "file" @@ 26 :> "file" @@ 27 :> "file"
               @@ 28 :> "dir" @@ 29 :> "file"),
     entries |-> (2 :> <<<<10, 21>>, <<20, 22>>>>
                  @@ 21 :> <<<<25, 27>>, <<35, 28>>, <<50, 26>>>> @@ 28 :> << >>)]

Record(parent, name, ino) == [key |-> <<parent, name>>, kind |-> "file", ino |-> ino]
Thread(parent) == [key |-> <<parent, Empty>>, kind |-> "thread", ino |-> 0]
ToLeaf(parent, name, child) == [key |-> <<parent, name>>, child |-> child]

\* The index keys may be smaller than the first record of the leaf; leaf 4 ends in
\* the middle of a directory.
HfsDisk ==
    PlainDisk("hfs") @@
    [top |-> 1,
     nodes |-> <<[leaf |-> FALSE, next |-> 0,
                  recs |-> <<ToLeaf(1, 5, 2), ToLeaf(2, 20, 3), ToLeaf(21, 25, 4)>>],
                 [leaf |-> TRUE, next |-> 3,
                  recs |-> <<Record(1, 5, 2), Thread(2), Record(2, 10, 21)>>],
                 [leaf |-> TRUE, next |-> 4,
                  recs |-> <<Record(2, 20, 22), Thread(21)>>],
                 [leaf |-> TRUE, next |-> 0,
                  recs |-> <<Record(21, 25, 27), Record(21, 35, 28), Record(21, 50, 26),
                             Thread(22), Thread(28)>>]>>]

Key(inode, offset, name, ino) ==
    [pos |-> <<inode, offset>>, live |-> TRUE, name |-> name, ino |-> ino]
ToNode(inode, offset, child) ==
    [pos |-> <<inode, offset>>, live |-> TRUE, child |-> child]
Deleted(inode, offset) == [pos |-> <<inode, offset>>, live |-> FALSE]

\* The offsets are hashes of the names; 25 was renamed in place, 35 deleted and made again.
BcachefsDisk ==
    PlainDisk("bcachefs") @@
    [top |-> 1,
     nodes |-> <<[level |-> 1, sets |-> <<<<ToNode(21, 4, 2), ToNode(99, 0, 3)>>>>],
                 [level |-> 0, sets |-> <<<<Key(2, 3, 20, 22), Key(2, 7, 10, 21),
                                            Key(21, 4, 15, 27)>>,
                                          <<Key(21, 4, 25, 27)>>>>],
                 [level |-> 0, sets |-> <<<<Key(21, 6, 50, 26), Key(21, 9, 35, 28),
                                            Key(99, 0, 1, 22)>>,
                                          <<Deleted(21, 9)>>, <<Key(21, 9, 35, 28)>>>>]>>]

IndexName(name, ino, sub) ==
    [end |-> FALSE, name |-> name, ino |-> ino, sub |-> sub, dos |-> FALSE]
DosName(name, ino) ==
    [end |-> FALSE, name |-> name, ino |-> ino, sub |-> 0, dos |-> TRUE]
End(sub) == [end |-> TRUE, sub |-> sub]

\* The root index holds a system file and the 8.3 name of 20; directory 21 has a tree of
\* two blocks and a free block between them.
NtfsDisk ==
    [PlainDisk("ntfs") EXCEPT !.entries[21] = Append(@, <<40, 29>>)] @@
    [index |-> (2 :> [root |-> <<IndexName(5, 3, 0), IndexName(10, 21, 0), DosName(19, 22),
                                 IndexName(20, 22, 0), End(0)>>,
                      blocks |-> << >>, used |-> {}]
                @@ 21 :> [root |-> <<IndexName(35, 28, 3), End(1)>>,
                          blocks |-> <<<<IndexName(40, 29, 0), IndexName(50, 26, 0), End(0)>>,
                                       <<IndexName(45, 22, 0), End(0)>>,
                                       <<IndexName(25, 27, 0), End(0)>>>>,
                          used |-> {1, 3}]
                @@ 28 :> [root |-> <<End(0)>>, blocks |-> << >>, used |-> {}])]

SlotsDisk(fs) ==
    PlainDisk(fs) @@
    [slots |-> (2 :> <<Slot(Dot, 2), Slot(DotDot, 2), Slot(15, 0), Slot(20, 22), Slot(10, 21)>>
                @@ 21 :> <<Slot(Dot, 21), Slot(DotDot, 2), Slot(50, 26), Slot(25, 0),
                           Slot(35, 28), Slot(25, 27)>>
                @@ 28 :> <<Slot(Dot, 28), Slot(DotDot, 21)>>)]

Sector(recs, pad) == [recs |-> recs, pad |-> pad]

\* Directory 21 fills its first sector and not the second; names behind zeros, which a
\* listing shows and a search does not find, are listed only.
IsoDisk ==
    PlainDisk("iso9660") @@
    [sectors |->
        (2 :> <<Sector(<<Slot(Dot, 2), Slot(DotDot, 2), Slot(10, 21), Slot(20, 22)>>, "wide")>>
         @@ 21 :> <<Sector(<<Slot(Dot, 21), Slot(DotDot, 2)>>, "none"),
                    Sector(<<Slot(25, 27)>>, "wide"),
                    Sector(<<Slot(35, 28), Slot(50, 26)>>, "narrow")>>
         @@ 28 :> <<Sector(<<Slot(Dot, 28), Slot(DotDot, 21)>>, "wide")>>)]

-----------------------------------------------------------------------------
(* btrfs: the root tree is node 1, tree 5 (the top one) node 3, tree 257 (the    *)
(* default, named 15 in the top) node 4 with two leaves and tree 258 (named 45   *)
(* in the default) node 7.  A dnode is 1000 * node + object.                     *)

DirName(name, object) == [name |-> name, key |-> <<object, InodeItem, 0>>]
Subvolume(name, tree) == [name |-> name, key |-> <<tree, RootItem, LastOffset>>]
Names(object, hash, entries) == [key |-> <<object, DirItem, hash>>, entries |-> entries]
Inode(object) == [key |-> <<object, InodeItem, 0>>]
TreeItem(tree, node) == [key |-> <<tree, RootItem, 0>>, tree |-> node]
To(object, type, offset, child) == [key |-> <<object, type, offset>>, child |-> child]
BtrfsLeaf(recs) == [level |-> 0, recs |-> recs]

\* 15 and 16 have one hash; 30 is a link to ../20; tree 259 is gone.
BtrfsDisk ==
    [fs |-> "btrfs", root |-> 4256, long |-> {}, unlisted |-> {<<DotDotDot, 3256>>},
     type |-> (3256 :> "dir" @@ 3260 :> "file" @@ 4256 :> "dir" @@ 4257 :> "dir"
               @@ 4258 :> "file" @@ 4259 :> "link" @@ 4260 :> "file" @@ 7256 :> "dir"
               @@ 7260 :> "file"),
     target |-> 4259 :> <<DotDot, 20>>,
     entries |-> (3256 :> <<<<15, 4256>>, <<16, 3260>>>>
                  @@ 4256 :> <<<<10, 4257>>, <<20, 4258>>, <<45, 7256>>>>
                  @@ 4257 :> <<<<30, 4259>>, <<50, 4260>>>>
                  @@ 7256 :> <<<<50, 7260>>>>),
     rootTree |-> 1, rootDir |-> 6,
     hash |-> (Default :> 4 @@ DotDotDot :> 11 @@ 10 :> 8 @@ 15 :> 6 @@ 16 :> 6
               @@ 20 :> 3 @@ 25 :> 9 @@ 30 :> 7 @@ 35 :> 5 @@ 45 :> 12 @@ 50 :> 2),
     nodes |-> <<BtrfsLeaf(<<TreeItem(5, 3), Names(6, 4, <<Subvolume(Default, 257)>>),
                             TreeItem(257, 4), TreeItem(258, 7)>>),
                 BtrfsLeaf(<<Inode(256)>>),
                 BtrfsLeaf(<<Inode(256),
                             Names(256, 6, <<DirName(16, 260), Subvolume(15, 257)>>),
                             Inode(260)>>),
                 [level |-> 1, recs |-> <<To(256, InodeItem, 0, 5), To(256, DirItem, 12, 6)>>],
                 BtrfsLeaf(<<Inode(256), Names(256, 3, <<DirName(20, 258)>>),
                             Names(256, 8, <<DirName(10, 257)>>),
                             Names(256, 9, <<Subvolume(25, 259)>>)>>),
                 BtrfsLeaf(<<Names(256, 12, <<Subvolume(45, 258)>>), Inode(257),
                             Names(257, 2, <<DirName(50, 260)>>),
                             Names(257, 7, <<DirName(30, 259)>>),
                             Inode(258), Inode(259), Inode(260)>>),
                 BtrfsLeaf(<<Inode(256), Names(256, 2, <<DirName(50, 260)>>), Inode(260)>>)>>]

-----------------------------------------------------------------------------
Fault(kind, ino) == [kind |-> kind, ino |-> ino]
Faults(inodes, names) ==
    {NoFault, Fault("dnode", 0), Fault("handle", 0)}
    \cup {Fault(k, i) : k \in {"inode", "data"}, i \in inodes}
    \cup {Fault("name", i) : i \in names}

Ext4Image ==
    [volumes |-> <<Ext4Disk>>,
     open |-> {<<10>>, <<DotDot, 20>>, <<Empty, 30, Empty, Dot, 50>>, <<40>>, <<60>>,
               <<90>>, <<10, 70>>, <<20, 50>>},
     list |-> {<<10>>, <<Empty, 10>>, <<30, 99>>},
     faults |-> Faults({11, 13}, {11, 16})]

HfsAndNtfsImage ==
    [volumes |-> <<HfsDisk, NtfsDisk>>,
     open |-> {<<10, 25>>, <<10, 50>>, <<Empty, 20>>},
     list |-> {<<10>>},
     faults |-> Faults({21}, {26})]

BcachefsImage ==
    [volumes |-> <<BcachefsDisk>>,
     open |-> {<<10, 25>>, <<10, 35>>, <<10, 40>>, <<10>>, <<DotDot, 20>>},
     list |-> {<<10>>, <<Empty>>},
     faults |-> Faults({21, 26}, {27})]

BtrfsImage ==
    [volumes |-> <<BtrfsDisk>>,
     open |-> {<<10, 30>>, <<45, 50>>, <<DotDotDot, 16>>, <<DotDotDot, 15, 10, 50>>},
     list |-> {<<Empty>>, <<10>>},
     faults |-> Faults({4259}, {4257, 4258})]

LinearImage ==
    [volumes |-> <<IsoDisk, SlotsDisk("ufs"), SlotsDisk("ext2")>>,
     open |-> {<<10, 25>>, <<Empty, 20>>},
     list |-> {<<10>>},
     faults |-> {NoFault, Fault("data", 21)}]

MCImages == <<Ext4Image, HfsAndNtfsImage, BcachefsImage, BtrfsImage, LinearImage>>

=============================================================================
