---------------------------- MODULE FswBtrfsTree ----------------------------
(***************************************************************************)
(* The trees of btrfs: fsw_btrfs_lower_bound and fsw_btrfs_next_leaf        *)
(* (filesystems/fsw_btrfs.c).  A key is an object, a type and an offset.    *)
(* Nodes are named by their logical address; a node has its "level" and its *)
(* records ("recs") in the order of their keys, those of an inner node with *)
(* the "child" they lead to.  A way is what a fsw_btrfs_leaf_descriptor     *)
(* holds: from the root on, the node and the record taken in it.            *)
(***************************************************************************)
EXTENDS Integers, Sequences, FiniteSets

InodeItem == 1
DirItem == 84
ExtentItem == 108
RootItem == 132
ChunkItem == 228

\* fsw_btrfs_key_cmp
KeyLess(a, b) ==
    \/ a[1] < b[1]
    \/ a[1] = b[1] /\ a[2] < b[2]
    \/ a[1] = b[1] /\ a[2] = b[2] /\ a[3] < b[3]

\* The records in front of the first one behind the key.
NotBehind(node, key) ==
    {i \in DOMAIN node.recs : \A j \in 1..i : ~KeyLess(key, node.recs[j].key)}

\* The way to the last record at or before a key; its last step is 0 when there is none.
RECURSIVE LowerBoundWay(_, _, _)
LowerBoundWay(nodes, addr, key) ==
    LET i == Cardinality(NotBehind(nodes[addr], key))
        step == [at |-> addr, rec |-> i]
    IN  IF nodes[addr].level = 0 \/ i = 0 THEN <<step>>
        ELSE <<step>> \o LowerBoundWay(nodes, nodes[addr].recs[i].child, key)

LastStep(way) == way[Len(way)]

NoRecordAt == [key |-> <<0, 0, 0>>]

Taken(nodes, way) ==
    IF LastStep(way).rec = 0 THEN NoRecordAt
    ELSE nodes[LastStep(way).at].recs[LastStep(way).rec]

NoWay == << >>

\* From a record of an inner node down to the first record of a leaf.
RECURSIVE Lowered(_, _)
Lowered(nodes, way) ==
    IF nodes[LastStep(way).at].level = 0 THEN way
    ELSE Lowered(nodes, Append(way, [at |-> Taken(nodes, way).child, rec |-> 1]))

\* fsw_btrfs_next_leaf: the next record, or NoWay behind the last one.
NextWay(nodes, way) ==
    LET more == {n \in DOMAIN way : way[n].rec < Len(nodes[way[n].at].recs)}
        n == CHOOSE m \in more : \A k \in more : k <= m
    IN  IF more = {} THEN NoWay
        ELSE Lowered(nodes, [SubSeq(way, 1, n) EXCEPT ![n].rec = @ + 1])
=============================================================================
