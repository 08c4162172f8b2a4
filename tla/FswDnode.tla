------------------------------ MODULE FswDnode ------------------------------
(***************************************************************************)
(* Reading a file through a handle: fsw_shandle_open, fsw_shandle_read and  *)
(* the position functions of fsw_efi.c, over any driver.  A call is cut     *)
(* where it leaves the core: the look-up of an extent, one disk block, one  *)
(* stretch of zeros or of bytes.                                            *)
(*                                                                         *)
(* The driver is what the core relies on: a look-up answers with a run of   *)
(* blocks of the file that holds the block asked for (RunOfFile), or with   *)
(* an error there is a reason for (MayFail).  FswFile has the drivers in    *)
(* its place and states that they keep to this (ImplementsDnode).           *)
(***************************************************************************)
EXTENDS FswBlocks, Sequences

CONSTANTS
    Files,      \* the files that may be opened; f.size is dno->size
    FileBytes,  \* FileBytes[f]: what a file holds, byte by byte
    PhysSize,   \* PhysSize[f]: vol->phys_blocksize of its volume
    Redundant,  \* the files on arrays: their driver reads the data itself
    Uncovered(_, _, _), \* of such a file, the unreadable blocks and what the driver
                        \* keeps: more is missing than the redundancy covers
    Lens,       \* buffer sizes of the calls
    Positions,  \* positions set by the caller
    BadSets,    \* the sets of disk blocks that may be unreadable
    Word        \* fsw_u32 has the values 0..Word-1

ASSUME DnodeAssumption ==
    /\ \A f \in Files : f.size \in Nat
    /\ \A f \in Files : PhysSize[f] \in Nat \ {0} /\ LogBlock % PhysSize[f] = 0
    /\ Lens \subseteq Nat
    /\ Positions \subseteq Nat
    /\ Word \in Nat \ {0}

VARIABLES
    file,   \* the dnode
    bad,    \* disk blocks that cannot be read now
    pos,    \* shand->pos
    ext,    \* shand->extent
    kept,   \* what the driver keeps
    pc,     \* "idle", or where fsw_shandle_read is: "loop", "copy"
    at, left, \* pos and buflen of the call
    buf,    \* what the buffer holds so far
    result  \* how the last call ended

dnodeVars == <<file, bad, pos, ext, kept, pc, at, left, buf, result>>

ReadBytes(l) == IF l < file.size - pos THEN l ELSE file.size - pos

NoExtent == [type |-> "invalid", start |-> 0, count |-> 0, phys |-> 0,
             buffer |-> << >>]
NoResult == [ok |-> FALSE, from |-> 0, len |-> 0, bytes |-> << >>]

\* fsw_shandle_open
HandleOpened(f) ==
    /\ file = f
    /\ pos = 0
    /\ ext = NoExtent
    /\ pc = "idle"
    /\ at = 0
    /\ left = 0
    /\ buf = << >>
    /\ result = NoResult

DnodeInit == bad \in BadSets /\ \E f \in Files : HandleOpened(f)

-----------------------------------------------------------------------------
Read(l) ==
    /\ pc = "idle"
    /\ IF pos >= file.size
       THEN /\ result' = [ok |-> TRUE, from |-> pos, len |-> l, bytes |-> << >>]
            /\ UNCHANGED <<pc, at, left>>
       ELSE /\ pc' = "loop"
            /\ at' = pos
            /\ left' = ReadBytes(l)
            /\ result' = [NoResult EXCEPT !.from = pos, !.len = l]
    /\ buf' = << >>
    /\ UNCHANGED <<file, bad, pos, ext, kept>>

Block == at \div LogBlock

InExtent ==
    /\ ext.type # "invalid"
    /\ Block >= ext.start
    /\ Block < ext.start + ext.count

UseExtent ==
    /\ pc = "loop" /\ left > 0
    /\ InExtent
    /\ pc' = "copy"
    /\ UNCHANGED <<file, bad, pos, ext, kept, at, left, buf, result>>

\* Mutant: what was copied before the error is skipped.
Fails_Skips ==
    /\ pc' = "idle"
    /\ pos' = at
    /\ at' = 0 /\ left' = 0
    /\ buf' = << >>
    /\ UNCHANGED <<file, bad, result>>

\* The call returns an error: nothing of it counts.
Fails ==
    /\ pc' = "idle"
    /\ at' = 0 /\ left' = 0
    /\ buf' = << >>
    /\ UNCHANGED <<file, bad, pos, result>>

Byte(x) == FileBytes[file][x + 1]

\* What a run of blocks says of a byte of the file, d bytes behind its start.
SaysByte(e, d, byte) ==
    CASE e.type = "phys" ->
            byte = <<e.phys + d \div PhysSize[file], d % PhysSize[file]>>
      [] e.type = "buffer" -> d + 1 \in DOMAIN e.buffer /\ byte = e.buffer[d + 1]
      [] OTHER -> byte = Zero

Within(e, x) == x \div LogBlock \in e.start..(e.start + e.count - 1)

\* The answer of a get_extent that is right: all of the run is the file's.  A hole of
\* 2^32 bytes or more is none the core can serve (HoleBytes).
RunOfFile(e) ==
    /\ e.type = "phys" => file \notin Redundant
    /\ e.type # "phys" => e.count * LogBlock < Word
    /\ \A x \in (e.start * LogBlock)..((e.start + e.count) * LogBlock - 1) :
          x < file.size => SaysByte(e, x - e.start * LogBlock, Byte(x))

\* A read can fail: some block is unreadable, on an array more than is made up for.
MayFail == IF file \in Redundant THEN Uncovered(file, bad, kept) ELSE bad # {}

ExtentRecord ==
    [type : {"invalid", "sparse", "phys", "buffer"}, start : Nat, count : Nat,
     phys : Nat, buffer : Seq(Int \X Int)]

AsksDriver == pc = "loop" /\ left > 0 /\ ~InExtent

RunFound ==
    /\ AsksDriver
    /\ ext' \in ExtentRecord
    /\ Block \in ext'.start..(ext'.start + ext'.count - 1)
    /\ RunOfFile(ext')
    /\ pc' = "copy"
    /\ UNCHANGED <<file, bad, pos, at, left, buf, result>>

RunRefused ==
    /\ AsksDriver
    /\ MayFail
    /\ ext' \in ExtentRecord
    /\ ext'.type = "invalid"
    /\ Fails

PosInExtent == at - ext.start * LogBlock

\* Mutant: the block is counted from the start of the file.
PhysBno_FromZero == at \div PhysSize[file] + ext.phys

PhysBno == PosInExtent \div PhysSize[file] + ext.phys

\* The bytes of one disk block from an offset on.
FromDisk(p, o, n) == [i \in 1..n |-> <<p, o + i - 1>>]

Copied(bytes) ==
    /\ buf' = buf \o bytes
    /\ at' = at + Len(bytes)
    /\ left' = left - Len(bytes)
    /\ pc' = "loop"
    /\ UNCHANGED <<file, bad, pos, ext, kept, result>>

CopyBlock ==
    /\ pc = "copy"
    /\ ext.type = "phys"
    /\ PhysBno \notin bad
    /\ LET o == PosInExtent % PhysSize[file]
           n == PhysSize[file] - o
       IN  Copied(FromDisk(PhysBno, o, IF n > left THEN left ELSE n))

CopyBlockFails ==
    /\ pc = "copy"
    /\ ext.type = "phys"
    /\ PhysBno \in bad
    /\ Fails
    /\ UNCHANGED <<ext, kept>>

\* Mutant: a hole shorter than the read ends one byte early.
HoleBytes_Short ==
    LET n == ((ext.count * LogBlock) % Word) - PosInExtent
    IN  IF n < 0 \/ n > left THEN left ELSE n - 1

\* The product is one of 32 bits; the difference, one of 64, goes through zero.
HoleBytes ==
    LET n == ((ext.count * LogBlock) % Word) - PosInExtent
    IN  IF n < 0 \/ n > left THEN left ELSE n

CopyZeros ==
    /\ pc = "copy"
    /\ ext.type \notin {"phys", "buffer"}
    /\ Copied([i \in 1..HoleBytes |-> Zero])

CopyBuffer ==
    /\ pc = "copy"
    /\ ext.type = "buffer"
    /\ Copied(SubSeq(ext.buffer, PosInExtent + 1, PosInExtent + HoleBytes))

Ends ==
    /\ pc = "loop" /\ left = 0
    /\ pc' = "idle"
    /\ pos' = at
    /\ result' = [result EXCEPT !.ok = TRUE, !.bytes = buf]
    /\ at' = 0
    /\ buf' = << >>
    /\ UNCHANGED <<file, bad, ext, kept, left>>

\* fsw_efi_file_setpos
SetPosition(p) ==
    /\ pc = "idle"
    /\ pos' = p
    /\ result' = NoResult
    /\ UNCHANGED <<file, bad, ext, kept, pc, at, left, buf>>

SetPositionEnd == SetPosition(file.size)

\* fsw_shandle_close, and fsw_shandle_open of the same file or another one.
OpenAgain ==
    /\ pc = "idle"
    /\ file' \in Files
    /\ pos' = 0
    /\ ext' = NoExtent
    /\ result' = NoResult
    /\ UNCHANGED <<bad, kept, pc, at, left, buf>>

\* What the driver keeps is the volume's too: it can change between the calls.
KeptChanges ==
    /\ pc = "idle"
    /\ UNCHANGED <<file, bad, pos, ext, pc, at, left, buf, result>>

\* The disk: blocks become unreadable or readable again.
DiskChanges ==
    /\ bad' \in BadSets \ {bad}
    /\ UNCHANGED <<file, pos, ext, kept, pc, at, left, buf, result>>

CopyStep ==
    \/ CopyBlock \/ CopyBlockFails \/ CopyZeros \/ CopyBuffer

DnodeNext ==
    \/ \E l \in Lens : Read(l)
    \/ \E p \in Positions : SetPosition(p)
    \/ SetPositionEnd
    \/ OpenAgain \/ KeptChanges
    \/ UseExtent \/ RunFound \/ RunRefused
    \/ CopyStep
    \/ Ends
    \/ DiskChanges

DnodeSpec == DnodeInit /\ [][DnodeNext]_dnodeVars

-----------------------------------------------------------------------------
\* The handle and the call keep their types, and a call stays inside the file.
DnodeTypeOK ==
    /\ file \in Files
    /\ bad \in BadSets
    /\ pos \in Nat
    /\ ext \in ExtentRecord
    /\ pc \in {"idle", "loop", "copy"}
    /\ at \in Nat /\ left \in Nat
    /\ buf \in Seq(Int \X Int)
    /\ result \in [ok : BOOLEAN, from : Nat, len : Nat, bytes : Seq(Int \X Int)]
    /\ pc # "idle" => at + left <= file.size

\* The run of blocks the handle keeps between calls is the file's, to its last block:
\* a handle serves later reads from it (the log_count of every get_extent).
ExtentIsOfFile == ext.type # "invalid" => RunOfFile(ext)

\* A read that reports success has filled the buffer with the file's own bytes from
\* the position on, zeros exactly where the file has holes, as many as the buffer
\* and the file allow (fsw_shandle_read with every get_extent under it).
ReadReturnsFile ==
    result.ok =>
        LET rest == file.size - result.from
            n == IF rest <= 0 THEN 0 ELSE IF result.len < rest THEN result.len ELSE rest
        IN  result.bytes = [i \in 1..n |-> Byte(result.from + i - 1)]

\* A read of an ordinary file fails only for a disk error (on btrfs, one its redundancy
\* does not cover: more devices lost than parities, an unreadable copy, no copy left),
\* and then takes nothing: the position stays, so that the same read can be tried again
\* (the returns inside the loop of fsw_shandle_read, before shand->pos is set, and the
\* statuses of all get_extent functions: one that takes a legal map for a damaged one
\* fails it).  And every round of the loop leaves less to read, so that the read returns.
PositionFollowsData ==
    [][/\ pc # "idle" /\ pc' = "idle" =>
            IF result'.ok THEN pos' = pos + Len(result'.bytes) ELSE pos' = pos /\ MayFail
       /\ pc = "copy" /\ pc' = "loop" => left' < left]_dnodeVars
=============================================================================
