------------------------------- MODULE FswBtrfs -------------------------------
(***************************************************************************)
(* Reading btrfs: fsw_btrfs_read_logical over the devices of a volume with   *)
(* its RAID levels, and fsw_btrfs_get_extent (filesystems/fsw_btrfs.c).      *)
(*                                                                         *)
(* A volume is a record                                                     *)
(*   disk    what each sector holds, a number below 256 (one byte stands for  *)
(*           the sector's; parity works byte by byte); Sector names sectors  *)
(*   devices, master   the device ids, and the one that is mounted           *)
(*   found, late       those a scan of the disks finds, and those that a     *)
(*           driver start attaches later                                    *)
(*   boot    the chunks of the superblock; chunkTree  the root of the others *)
(*   nodes   which content is which tree node: keys lie in the sector a node  *)
(*           is named by, the items of a leaf in the next one                *)
(*   plain   compressed sectors and what they inflate to                    *)
(* Logical addresses and device offsets count sectors, an extent's fields    *)
(* bytes.  The driver's own state is a record too: the attached devices      *)
(* ("ids", "once"), the extent it keeps ("item" with "ino", "tree", "start",  *)
(* "end") and the sectors recovered from parity ("rcache").                  *)
(***************************************************************************)
EXTENDS FswExtentMaps, FswBtrfsTree, Bitwise

LOCAL INSTANCE SequencesExt
LOCAL INSTANCE FiniteSetsExt

CONSTANTS
    BtrfsVolumes,   \* the volumes, by name
    RecoverSlots,   \* RECOVER_CACHE_SIZE
    MaxRun,         \* sectors of one uncompressed answer, 128 in the code
    Beyond          \* what fsw_btrfs_stripe_xor takes from behind the stripe table

Sector(dev, at) == 1000 * dev + at

Answer(st, v, val) == [st |-> st, v |-> v, val |-> val]

NoItem == [type |-> "none"]
Garbage == [type |-> "garbage"]
NoSlot == [at |-> 0, val |-> 0]

-----------------------------------------------------------------------------
(* Devices *)

\* fsw_btrfs_do_rescan_once with fsw_btrfs_scan_disks_hook
Rescanned(fs, v) ==
    IF v.once /\ v.ids # fs.devices
    THEN [v EXCEPT !.once = FALSE, !.ids = @ \cup fs.found] ELSE v

\* A chunk: its first logical sector, its length, the layout "type", sectors of a
\* stripe, substripes, and of each stripe the device and its place there.
Stripe(ch, k) == ch.stripes[k + 1]
Stripes(ch) == Len(ch.stripes)
Parities(ch) == IF ch.type = "raid6" THEN 2 ELSE IF ch.type = "raid5" THEN 1 ELSE 0

Copies(ch) ==
    CASE ch.type \in {"dup", "raid1"} -> 2
      [] ch.type = "raid1c3" -> 3
      [] ch.type = "raid1c4" -> 4
      [] ch.type = "raid10" -> ch.sub
      [] OTHER -> 1

\* The stripe (of the first copy), the Q stripe and the offset in it.
Place(ch, off) ==
    LET n == Stripes(ch)
        middle == off \div ch.stripe
        data == CASE ch.type = "raid10" -> n \div ch.sub
                  [] OTHER -> n - Parities(ch)
        row == middle \div data
        at == (off % ch.stripe) + ch.stripe * row
        each == ch.len \div n
    IN  CASE ch.type = "single" -> [first |-> off \div each, q |-> 0, at |-> off % each]
          [] ch.type \in {"dup", "raid1", "raid1c3", "raid1c4"} ->
                [first |-> 0, q |-> 0, at |-> off]
          [] ch.type = "raid0" -> [first |-> middle % data, q |-> 0, at |-> at]
          [] ch.type = "raid10" -> [first |-> (middle % data) * ch.sub, q |-> 0, at |-> at]
          [] OTHER -> [first |-> (row + (middle % data)) % n, q |-> (row + n - 1) % n,
                       at |-> at]

\* The copies in turn, the first on an attached device: its error ends the loop, and
\* only where it was the last copy, or none is attached, the disks are scanned.
RECURSIVE Direct(_, _, _, _)
Direct(c, v, ch, p) ==
    LET here == {i \in 0..(Copies(ch) - 1) : Stripe(ch, p.first + i).dev \in v.ids}
        s == Stripe(ch, p.first + LeastOf(here))
        at == Sector(s.dev, s.at + p.at)
        w == Rescanned(c.fs, v)
    IN  IF here # {} /\ at \notin c.bad THEN Answer("ok", v, c.fs.disk[at])
        ELSE IF here # {} /\ LeastOf(here) < Copies(ch) - 1 THEN Answer(c.err, v, 0)
        ELSE IF w.ids # v.ids THEN Direct(c, w, ch, p)
        ELSE Answer(IF here = {} THEN "corrupted" ELSE c.err, w, 0)

-----------------------------------------------------------------------------
(* Parity: powx[k] is the k-th power of 2 in the field of 256 elements. *)

Doubled(x) == IF x < 128 THEN 2 * x ELSE ((2 * x) % 256) ^^ 29

Powers == FoldLeft(LAMBDA s, i : Append(s, Doubled(Last(s))), <<1>>, [i \in 1..254 |-> i])
Power(k) == Powers[(k % 255) + 1]
Log(x) == (CHOOSE k \in 1..255 : Powers[k] = x) - 1

\* fsw_btrfs_block_mulx
MulX(k, x) == IF x = 0 THEN 0 ELSE Power(k + Log(x))

XorOf(S, val) == FoldSet(LAMBDA i, x : x ^^ val[i], 0, S)

\* A data stripe of RAID6 from Q and the other stripes; bad2 is the second one lost,
\* the P stripe or data.
TwoLost(n, lost, bad2, val) ==
    LET d == n - 2
        others == (0..d) \ {lost, bad2}
        q == XorOf(others \ {d}, [i \in others |-> MulX(i, val[i])]) ^^ val[n - 1]
        c == ((255 - lost) + (255 - Log(Power(bad2 + 255 - lost) ^^ 1))) % 255
    IN  IF bad2 = d THEN MulX(255 - lost, q)
        ELSE MulX(c, q) ^^ MulX((bad2 + c) % 255, XorOf(others, val))

\* Stripe i of the table, the first one of it in the row, and the one wanted.
Base(ch, p) == IF ch.type = "raid5" THEN 0 ELSE (p.q + 1) % Stripes(ch)
Entry(ch, p, i) == Stripe(ch, (Base(ch, p) + i) % Stripes(ch))
Lost(ch, p) == ((p.first + Stripes(ch)) - Base(ch, p)) % Stripes(ch)
Others(ch, p) == (0..(Stripes(ch) - 1)) \ {Lost(ch, p)}
At(ch, p, i) == Sector(Entry(ch, p, i).dev, Entry(ch, p, i).at + p.at)

\* The row is read: the devices missing and the sectors not readable are down.  A second
\* one down ends RAID5.
FromRow(c, v, ch, missing, down, lost, val) ==
    LET n == Stripes(ch)
        others == DOMAIN val
        first == LeastOf(down)
        error(i) == Answer(IF i \in missing THEN "io" ELSE c.err, v, 0)
    IN  IF Cardinality(others \ missing) < n - Parities(ch) THEN Answer("corrupted", v, 0)
        ELSE IF ch.type = "raid5"
        THEN IF down # {} THEN error(first)
             ELSE Answer("ok", v, XorOf(others, val) ^^ (IF lost = n - 1 THEN Beyond ELSE 0))
        ELSE IF down \subseteq {n - 1} THEN Answer("ok", v, XorOf(others \ {n - 1}, val))
        ELSE IF down # {first} THEN error(LeastOf(down \ {first}))
        ELSE Answer("ok", v, TwoLost(n, lost, first, val))

\* A sector from the other stripes of its row.
Recovered(c, v, ch, p, others) ==
    LET w == IF \E i \in others : Entry(ch, p, i).dev \notin v.ids
             THEN Rescanned(c.fs, v) ELSE v
        missing == {i \in others : Entry(ch, p, i).dev \notin w.ids}
    IN  FromRow(c, w, ch, missing, missing \cup {i \in others : At(ch, p, i) \in c.bad},
                Lost(ch, p), [i \in others |-> c.fs.disk[At(ch, p, i)]])

\* fsw_btrfs_get_recover_cache: the slot of a sector.
SlotOf(s, at) == ((s.dev | (s.at + at)) % RecoverSlots) + 1

\* The recover cache, in which a failed recovery leaves nothing.
Cached(r, slot, at) ==
    [r EXCEPT !.v.rcache[slot] = IF r.st = "ok" THEN [at |-> at, val |-> r.val] ELSE NoSlot]

InPlace(c, v, ch, p, s, at) ==
    LET slot == SlotOf(s, p.at)
    IN  IF s.dev \in v.ids /\ at \notin c.bad THEN Answer("ok", v, c.fs.disk[at])
        ELSE IF v.rcache[slot].at = at THEN Answer("ok", v, v.rcache[slot].val)
        ELSE Cached(Recovered(c, v, ch, p, Others(ch, p)), slot, at)

ByParity(c, v, ch, p, s) ==
    InPlace(c, IF s.dev \in v.ids THEN v ELSE Rescanned(c.fs, v), ch, p, s,
            Sector(s.dev, s.at + p.at))

-----------------------------------------------------------------------------
(* fsw_btrfs_read_logical for one sector, and fsw_btrfs_lower_bound, which need *)
(* each other.                                                                *)

ChunkObject == 256
MaxDepth == 10

FromChunk(c, v, ch, addr) ==
    LET p == Place(ch, addr - ch.start)
    IN  IF addr - ch.start >= ch.len THEN Answer("corrupted", v, 0)
        ELSE IF Parities(ch) > 0 THEN ByParity(c, v, ch, p, Stripe(ch, p.first))
        ELSE Direct(c, v, ch, p)

RECURSIVE ReadSector(_, _, _, _), Descend(_, _, _, _, _)

\* The chunk item follows the keys of its leaf.
Through(c, item, ch, addr) ==
    IF item.st # "ok" THEN item ELSE FromChunk(c, item.v, ch, addr)

InChunkTree(c, s, addr, depth) ==
    IF s.st # "ok" THEN s
    ELSE IF s.val.rec.key[2] # ChunkItem THEN Answer("corrupted", s.v, 0)
    ELSE Through(c, ReadSector(c, s.v, s.val.at + 1, depth), s.val.rec.item, addr)

ReadSector(c, v, addr, depth) ==
    LET boot == {ch \in c.fs.boot : addr >= ch.start /\ addr < ch.start + ch.len}
    IN  IF boot # {} THEN FromChunk(c, v, CHOOSE ch \in boot : TRUE, addr)
        ELSE InChunkTree(c, Descend(c, v, c.fs.chunkTree, <<ChunkObject, ChunkItem, addr>>,
                                    depth), addr, depth)

NoRec == [at |-> 0, rec |-> NoRecordAt]

\* A node is read: its record at or before the key.
InNode(c, r, addr, key, depth) ==
    LET node == c.fs.nodes[r.val]
        i == Cardinality(NotBehind(node, key))
    IN  IF r.st # "ok" THEN Answer(r.st, r.v, NoRec)
        ELSE IF r.val \notin DOMAIN c.fs.nodes \/ i = 0 THEN Answer("ok", r.v, NoRec)
        ELSE IF node.level > 0 THEN Descend(c, r.v, node.recs[i].child, key, depth)
        ELSE Answer("ok", r.v, [at |-> addr, rec |-> node.recs[i]])

\* Answers with the last record at or before a key and its leaf.
Descend(c, v, addr, key, depth) ==
    IF depth > MaxDepth THEN Answer("corrupted", v, NoRec)
    ELSE InNode(c, ReadSector(c, v, addr, depth + 1), addr, key, depth)

\* n sectors from one on; the value is what they hold, in order.
Appended(run, r) == IF r.st = "ok" THEN [r EXCEPT !.val = Append(run.val, r.val)]
                    ELSE [r EXCEPT !.val = << >>]

ReadRun(c, v, addr, n) ==
    FoldLeft(LAMBDA run, i : IF run.st # "ok" THEN run
                             ELSE Appended(run, ReadSector(c, run.v, addr + i - 1, 0)),
             Answer("ok", v, << >>), [i \in 1..n |-> i])

-----------------------------------------------------------------------------
(* fsw_btrfs_get_extent *)

\* A driver state with the answer of get_extent.
Refused(v, st) == [kept |-> v, answer |-> Unread(st, "invalid")]
Void(v) == [kept |-> v, answer |-> Hole(1)]

Padded(bytes) ==
    bytes \o [i \in 1..((LogBlock - (Len(bytes) % LogBlock)) % LogBlock) |-> Zero]

Buffer(v, bytes) ==
    LET all == Padded(bytes)
    IN  [kept |-> v, answer |-> [Found("buffer", Len(all) \div LogBlock, 0)
                                    EXCEPT !.buffer = all]]

BytesOf(vals) ==
    [i \in 1..(Len(vals) * LogBlock) |->
        <<vals[(i - 1) \div LogBlock + 1], (i - 1) % LogBlock>>]

\* Pool memory nothing was written to.
Junk(n) == [i \in 1..n |-> <<-1, 0>>]

Keeps(f, v, pos) ==
    /\ v.item # NoItem
    /\ v.ino = f.ino
    /\ v.tree = f.tree
    /\ pos >= v.start
    /\ pos < v.end

EndOf(start, item) ==
    start + (IF item.type = "inline" \/ item.filled = 0 THEN item.physical ELSE item.filled)

\* The extent looked up anew: its record is found, its item read.  A status and the
\* driver's state.
ItemRead(f, r, key, item) ==
    LET w == [r.v EXCEPT !.ino = f.ino, !.tree = f.tree, !.start = key[3],
                         !.item = IF r.st = "ok" THEN item ELSE Garbage]
    IN  IF r.st # "ok" THEN Answer(r.st, w, 0)
        ELSE IF item.type \notin {"inline", "regular"} THEN Answer("other", w, 0)
        ELSE Answer("ok", [w EXCEPT !.end = EndOf(key[3], item)], 0)

RecordFound(c, f, s) ==
    LET rec == s.val.rec
    IN  IF s.st # "ok" \/ rec.key[1] # f.ino \/ rec.key[2] # ExtentItem
        THEN Answer("corrupted", s.v, 0)
        ELSE ItemRead(f, ReadSector(c, s.v, s.val.at + 1, 0), rec.key, rec.item)

Loaded(c, f, v, pos) ==
    RecordFound(c, f, Descend(c, [v EXCEPT !.item = NoItem], f.tree,
                              <<f.ino, ExtentItem, pos>>, 0))

\* size bytes of an extent, from the sectors read of it or from what they inflate to.
Plain(run, size) ==
    IF run.st # "ok" THEN Refused(run.v, run.st)
    ELSE Buffer(run.v, SubSeq(BytesOf(run.val), 1, size))

Unpacked(c, run, from, size) ==
    LET plain == c.fs.plain[run.val]
    IN  IF run.st # "ok" \/ run.val \notin DOMAIN c.fs.plain \/ Len(plain) < from + size
        THEN Refused(run.v, "corrupted")
        ELSE Buffer(run.v, SubSeq(plain, from + 1, from + size))

\* What the kept extent holds from a position inside it on.
Contents(c, v, item, into, size) ==
    LET count == (size + LogBlock - 1) \div LogBlock
        n == IF count > MaxRun THEN MaxRun ELSE count
        from == item.offset + into
    IN  IF item = Garbage THEN Buffer(v, Junk(size))
        ELSE IF item.comp \notin {"none", "packed"} THEN Refused(v, "other")
        ELSE IF item.type = "inline" THEN Buffer(v, SubSeq(item.inline, into + 1, into + size))
        ELSE IF item.laddr = 0 THEN Buffer(v, Junk(size))
        ELSE IF item.comp = "none"
        THEN Plain(ReadRun(c, v, item.laddr + from \div LogBlock, n),
                   IF n < count THEN n * LogBlock ELSE size)
        ELSE Unpacked(c, ReadRun(c, v, item.laddr, item.zlen), from, size)

FromExtent(c, l, pos) ==
    IF l.st # "ok" THEN Refused(l.v, l.st)
    ELSE IF pos >= l.v.end THEN Void(l.v)
    ELSE Contents(c, l.v, l.v.item, pos - l.v.start, l.v.end - pos)

\* Only a miss puts the position of an inline extent back to its start.
FromLoaded(c, l, pos) ==
    FromExtent(c, l, IF l.v.item.type = "inline" THEN l.v.start ELSE pos)

BtrfsExtent(c, f, v, b) ==
    LET pos == b * LogBlock
    IN  IF Keeps(f, v, pos) THEN FromExtent(c, Answer("ok", v, 0), pos)
        ELSE FromLoaded(c, Loaded(c, f, v, pos), pos)

\* fsw_btrfs_volume_mount of the first device, and the inode of the file read.
Mounted(fs, f) ==
    LET v == [ids |-> {fs.master}, once |-> Cardinality(fs.devices) > 1,
              ino |-> 0, tree |-> 0, start |-> 0, end |-> 0, item |-> NoItem,
              rcache |-> [i \in 1..RecoverSlots |-> NoSlot]]
    IN  Descend([fs |-> fs, bad |-> {}, err |-> "other"], v, f.tree,
                <<f.ino, InodeItem, 0>>, 0).v
=============================================================================
