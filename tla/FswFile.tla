------------------------------ MODULE FswFile ------------------------------
(***************************************************************************)
(* Reading a file of a started volume: the core's reading through a handle  *)
(* (FswDnode) over the extents the drivers find (FswExtentMaps, FswBtrfs).  *)
(* A byte is the place on the disk it comes from, or Zero.                  *)
(***************************************************************************)
EXTENDS FswDnode, FswBtrfs

CONSTANTS
    ReadErrors, \* how a failed disk read ends: "io" is FSW_IO_ERROR
    Forks       \* what the forkType of an HFS+ key, which is never set, may hold

\* kept is dno->cext of NTFS, the state of a btrfs volume.
Init ==
    /\ bad \in BadSets
    /\ \E f \in Files :
          /\ HandleOpened(f)
          /\ kept = IF f.kind = "btrfs" THEN Mounted(BtrfsVolumes[f.vol], f) ELSE NoRun

-----------------------------------------------------------------------------
\* The status and the type the driver leaves say that the answer is a hole.
IsVoidHole(a) == a.status = "io" /\ a.type = "invalid"

\* get_extent: its answer and what the driver keeps after it.
Asked(err, fork) ==
    IF file.kind = "btrfs"
    THEN BtrfsExtent([fs |-> BtrfsVolumes[file.vol], bad |-> bad, err |-> err],
                     file, kept, Block)
    ELSE [answer |-> GetExtent(file, Block, ext.type, bad, err, fork, kept),
          kept |-> KeptAfter(file, Block, kept)]

\* What fsw_shandle_read does with the answer.
Answered(a) ==
    LET found == [type |-> a.type, start |-> StartOf(file, Block), count |-> a.count,
                  phys |-> a.phys, buffer |-> a.buffer]
    IN  IF a.status = "ok" \/ IsVoidHole(a)
        THEN /\ ext' = found
             /\ pc' = "copy"
             /\ UNCHANGED <<file, bad, pos, at, left, buf, result>>
        ELSE /\ ext' = [found EXCEPT !.type = "invalid"]
             /\ Fails

Takes(asked) == kept' = asked.kept /\ Answered(asked.answer)

LookUp ==
    /\ AsksDriver
    /\ \E err \in ReadErrors, fork \in Forks : Takes(Asked(err, fork))

SameVolume(f, g) == f = g \/ (f.kind = "btrfs" /\ g.kind = "btrfs" /\ f.vol = g.vol)

\* The same file is opened again or another one whose dnode is there: what NTFS keeps
\* in the dnode and btrfs in the volume lives on.
Reopen == OpenAgain /\ SameVolume(file, file')

\* The driver is started on another device of the array: fsw_btrfs_volume_mount hands
\* it to the volume that is mounted.
AttachSlave(d) ==
    /\ pc = "idle"
    /\ file.kind = "btrfs"
    /\ d \in (BtrfsVolumes[file.vol].found \cup BtrfsVolumes[file.vol].late) \ kept.ids
    /\ kept' = [kept EXCEPT !.ids = @ \cup {d}]
    /\ UNCHANGED <<file, bad, pos, ext, pc, at, left, buf, result>>

Devices == UNION {BtrfsVolumes[n].devices : n \in DOMAIN BtrfsVolumes}

Next ==
    \/ \E l \in Lens : Read(l)
    \/ \E p \in Positions : SetPosition(p)
    \/ SetPositionEnd
    \/ Reopen
    \/ \E d \in Devices : AttachSlave(d)
    \/ UseExtent \/ LookUp
    \/ CopyStep
    \/ Ends
    \/ DiskChanges

Spec == Init /\ [][Next]_dnodeVars

-----------------------------------------------------------------------------
(* What FswDnode takes for given, for these drivers: FileBytes, PhysSize, Redundant *)
(* and Uncovered.                                                             *)

\* What the files of the model hold, block by block and byte by byte.
Maps == [f \in {g \in Files : g.kind # "btrfs"} |->
            [b \in 0..BlockCount(f) |-> TrueBlock(f, b)]]
TrueByte(f, x) ==
    IF f.kind = "btrfs" THEN f.bytes[x + 1]
    ELSE ByteAt(f, Maps[f][x \div LogBlock], x)
TrueBytes == [f \in Files |-> [i \in 1..f.size |-> TrueByte(f, i - 1)]]

PhysBlocks == [f \in Files |-> PhysBlock(f)]

OnArrays == {f \in Files : f.kind = "btrfs"}

\* The devices of a chunk that a read can not reach or that have unreadable sectors of it.
Absent(fs, ch, v) ==
    {k \in DOMAIN ch.stripes :
        ch.stripes[k].dev \notin v.ids \cup (IF v.once THEN fs.found ELSE {})}
EachLen(ch) ==
    (ch.len * Copies(ch)) \div (Stripes(ch) - Parities(ch))
Broken(ch, unread) ==
    {k \in DOMAIN ch.stripes :
        \E s \in 0..(EachLen(ch) - 1) :
            Sector(ch.stripes[k].dev, ch.stripes[k].at + s) \in unread}

\* The redundancy of some chunk does not cover what is missing.
TooMuchLost(f, unread, v) ==
    LET fs == BtrfsVolumes[f.vol]
    IN  \E ch \in fs.chunks :
            LET absent == Absent(fs, ch, v)
                broken == Broken(ch, unread)
            IN  IF Parities(ch) > 0 THEN Cardinality(absent \cup broken) > Parities(ch)
                ELSE broken # {} \/ Cardinality(absent) >= Copies(ch)

\* Every driver answers the core rightly: at each look-up, whatever was read before,
\* with a run of blocks that holds the block asked for and is the file's to its last
\* block (the log_count of every get_extent; a handle serves later reads from the run),
\* or with an error when a block is unreadable that redundancy does not make up for
\* (the statuses of all get_extent functions).
ImplementsDnode == DnodeSpec
=============================================================================
