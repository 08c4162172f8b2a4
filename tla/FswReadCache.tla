---------------------------- MODULE FswReadCache ----------------------------
(***************************************************************************)
(* The EFI host of the file system core (filesystems/fsw_efi.c): the two   *)
(* read-ahead windows behind fsw_efi_read_block.  The windows are static:  *)
(* every volume of the driver shares them, and a window is known to belong *)
(* to a volume by the address of its FSW_VOLUME_DATA alone.  Volumes are   *)
(* started and stopped by the firmware, their structures are allocated and *)
(* freed, and the medium in a drive may be replaced under a live volume.   *)
(*                                                                         *)
(* Offsets are counted in the smallest block.  Bytes are named by the      *)
(* medium and the offset they were read from.                              *)
(***************************************************************************)
EXTENDS Integers

CONSTANTS
    Handles,    \* controller handles of partitions
    Addrs,      \* addresses AllocateZeroPool may return for FSW_VOLUME_DATA
    Media,      \* media that can be in a drive, named by their MediaId
    NoMedium,   \* MediaId of no medium; also: no volume at this address
    Failed,     \* no bytes: an error, or a buffer that no read has filled
    NoAddr,     \* the null pointer
    Window,     \* CACHE_SIZE
    BlockSizes, \* vol->phys_blocksize values the drivers set
    MediumEnd,  \* the length of every medium
    BadSpots,   \* offsets no medium can be read at
    MaxBlock    \* bound: the highest block number asked for

ASSUME ConstantsAssumption ==
    /\ Window \in Nat \ {0}
    /\ BlockSizes \subseteq 1..Window
    /\ 1 \in BlockSizes
    /\ BadSpots \subseteq Nat
    /\ MediumEnd \in Nat
    /\ MaxBlock \in Nat
    /\ NoMedium \notin Media
    /\ NoAddr \notin Addrs
    /\ Failed \notin [medium : Media, at : Nat]

VARIABLES
    inserted,  \* the medium in the drive of each handle
    volume,    \* FSW_VOLUME_DATA at each address, and the block size of its vol
    mounting,  \* the volume fsw_efi_driver_binding_start is mounting
    caches,    \* Caches
    lastRead,  \* LastRead
    answer     \* the last call of fsw_efi_read_block and what it delivered

vars == <<inserted, volume, mounting, caches, lastRead, answer>>

Slots == 0..1  \* NUM_CACHES

NoVolume == [handle |-> NoAddr, media |-> NoMedium, bs |-> 1, device |-> FALSE]

BlockStarts(bs) == {bno * bs : bno \in 0..MaxBlock}

Offsets == UNION {BlockStarts(bs) : bs \in BlockSizes}

Bytes(m, at) == [medium |-> m, at |-> at]

Live(a) == volume[a].media # NoMedium

EmptySlot == [allocated |-> FALSE, data |-> Failed, start |-> 0,
              valid |-> FALSE, vol |-> NoAddr]

\* fsw_efi_clear_cache.
ClearedCaches == [i \in Slots |-> EmptySlot]

ClearCache == caches' = ClearedCaches /\ lastRead' = -1

Init ==
    /\ inserted \in [Handles -> Media]
    /\ volume = [a \in Addrs |-> NoVolume]
    /\ mounting = NoAddr
    /\ caches = [i \in Slots |-> EmptySlot]
    /\ lastRead = -1
    /\ answer = [vol |-> Failed, at |-> 0, bytes |-> Failed]

Bound(h) == \E a \in Addrs : volume[a].handle = h /\ ~volume[a].device

Opened(h, isDevice) ==
    [handle |-> h, media |-> inserted[h], bs |-> 1, device |-> isDevice]

\* fsw_efi_driver_binding_start up to the call of volume_mount: the firmware
\* starts the driver on a handle it does not manage yet.
StartBegins(h, a) ==
    /\ mounting = NoAddr
    /\ inserted[h] # NoMedium
    /\ ~Bound(h)
    /\ ~Live(a)
    /\ volume' = [volume EXCEPT ![a] = Opened(h, FALSE)]
    /\ mounting' = a
    /\ UNCHANGED <<inserted, caches, lastRead, answer>>

\* dsk_btrfs_create_dummy_volume: a btrfs volume opens a further device of its
\* array by the DiskIo and the MediaId of the device's handle.
AttachDevice(h, a) ==
    /\ inserted[h] # NoMedium
    /\ ~Live(a)
    /\ volume' = [volume EXCEPT ![a] = Opened(h, TRUE)]
    /\ UNCHANGED <<inserted, mounting, caches, lastRead, answer>>

\* fsw_set_blocksize, called by the drivers while they mount or attach a device.
SetBlocksize(a, bs) ==
    /\ mounting = a \/ volume[a].device
    /\ volume' = [volume EXCEPT ![a].bs = bs]
    /\ ClearCache
    /\ UNCHANGED <<inserted, mounting, answer>>

StartSucceeds(a) ==
    /\ mounting = a
    /\ mounting' = NoAddr
    /\ UNCHANGED <<inserted, volume, caches, lastRead, answer>>

\* fsw_unmount (which frees the block cache, and with it the windows), then
\* FreePool of the volume structure.
Unmounted(a) ==
    /\ volume' = [volume EXCEPT ![a] = NoVolume]
    /\ ClearCache

\* volume_mount or the installation of the protocol fails: fsw_mount or the
\* caller unmounts, and the structure is freed.
StartFails(a) ==
    /\ mounting = a
    /\ Unmounted(a)
    /\ mounting' = NoAddr
    /\ UNCHANGED <<inserted, answer>>

\* fsw_efi_driver_binding_stop.
Stop(a) ==
    /\ mounting = NoAddr
    /\ Live(a)
    /\ ~volume[a].device
    /\ Unmounted(a)
    /\ UNCHANGED <<inserted, mounting, answer>>

\* Mutant: dsk_btrfs_free_dummy_volume frees the structure without unmounting.
Detached_KeepsWindows(a) ==
    /\ volume' = [volume EXCEPT ![a] = NoVolume]
    /\ UNCHANGED <<caches, lastRead>>

\* dsk_btrfs_free_dummy_volume (FreePool, then fsw_unmount).
Detached(a) == Unmounted(a)

DetachDevice(a) ==
    /\ volume[a].device
    /\ Detached(a)
    /\ UNCHANGED <<inserted, mounting, answer>>

\* fsw_efi_FileSystem_OpenVolume.
OpenVolume(a) ==
    /\ mounting = NoAddr
    /\ Live(a)
    /\ ~volume[a].device
    /\ ClearCache
    /\ UNCHANGED <<inserted, volume, mounting, answer>>

\* The user takes the medium out of the drive or puts another one in.
ChangeMedium(h, m) ==
    /\ inserted' = [inserted EXCEPT ![h] = m]
    /\ UNCHANGED <<volume, mounting, caches, lastRead, answer>>

\* What DiskIo->ReadDisk reads.
OnMedium(a, at) == Bytes(inserted[volume[a].handle], at)

\* DiskIo->ReadDisk succeeds: the firmware checks the MediaId and the range.
Readable(a, at, len) ==
    /\ inserted[volume[a].handle] = volume[a].media
    /\ at + len <= MediumEnd
    /\ \A x \in at..(at + len - 1) : x \notin BadSpots

StartRead(a, bno) == bno * volume[a].bs

\* Mutant: a window of any volume will do.
Hit_AnyVolume(i, a, at) ==
    /\ caches[i].valid
    /\ at >= caches[i].start
    /\ at + volume[a].bs <= caches[i].start + Window

\* The window holds the whole block of this volume.
Hit(i, a, at) ==
    /\ caches[i].vol = a
    /\ caches[i].valid
    /\ at >= caches[i].start
    /\ at + volume[a].bs <= caches[i].start + Window

\* The bytes of a window at an offset.
WindowBytes(slot, at) == Bytes(slot.data.medium, slot.data.at + (at - slot.start))

\* Mutant: the window filled last is the one to go.
Victim_Newest == IF lastRead = -1 THEN 0 ELSE lastRead

\* The window a miss refills: not the one filled last.
Victim == IF lastRead = -1 THEN 0 ELSE 1 - lastRead

Answer(a, at, bytes) == answer' = [vol |-> a, at |-> at, bytes |-> bytes]

\* Only the volume being mounted and its devices are read while a mount runs.
CanRead(a) == Live(a) /\ (mounting \in {NoAddr, a} \/ volume[a].device)

\* fsw_efi_read_block, found in a window.
ReadHit(a, bno) ==
    LET at == StartRead(a, bno)
    IN  /\ CanRead(a)
        /\ \E i \in Slots :
             /\ Hit(i, a, at)
             /\ \A j \in Slots : j < i => ~Hit(j, a, at)
             /\ Answer(a, at, WindowBytes(caches[i], at))
        /\ UNCHANGED <<inserted, volume, mounting, caches, lastRead>>

Missed(a, bno) ==
    /\ CanRead(a)
    /\ \A i \in Slots : ~Hit(i, a, StartRead(a, bno))

\* The victim after a window read that failed: its buffer is there, what it
\* holds is undefined, and start and volume are still those of the old window.
Spoilt ==
    [caches EXCEPT ![Victim] =
        [@ EXCEPT !.allocated = TRUE, !.data = Failed, !.valid = FALSE]]

Filled(a, at) ==
    [caches EXCEPT ![Victim] =
        [allocated |-> TRUE, data |-> OnMedium(a, at),
         start |-> at, valid |-> TRUE, vol |-> a]]

\* fsw_efi_read_block, not found: a window is read from this block on.
ReadAhead(a, bno) ==
    LET at == StartRead(a, bno)
    IN  /\ Missed(a, bno)
        /\ Readable(a, at, Window)
        /\ caches' = Filled(a, at)
        /\ lastRead' = Victim
        /\ Answer(a, at, OnMedium(a, at))
        /\ UNCHANGED <<inserted, volume, mounting>>

\* Mutant: a failed window read fails the call.
OneBlock_GivesUp(a, at) == Failed

\* The block alone, read straight into the caller's buffer.
OneBlock(a, at) ==
    IF Readable(a, at, volume[a].bs) THEN OnMedium(a, at) ELSE Failed

\* Mutant: the other window becomes the newest, read or not.
AfterMiss_Flips == lastRead' = 1 - lastRead
AfterMiss == lastRead' = IF lastRead = -1 THEN 1 ELSE lastRead

\* Not found, and the window cannot be read (it reaches past the end of the
\* medium, or over a bad spot, or the medium has changed): the block alone.
ReadAlone(a, bno) ==
    LET at == StartRead(a, bno)
    IN  /\ Missed(a, bno)
        /\ ~Readable(a, at, Window)
        /\ caches' = Spoilt
        /\ AfterMiss
        /\ Answer(a, at, OneBlock(a, at))
        /\ UNCHANGED <<inserted, volume, mounting>>

\* Not found, and there is no memory for the window's buffer.
ReadNoBuffer(a, bno) ==
    LET at == StartRead(a, bno)
    IN  /\ Missed(a, bno)
        /\ ~caches[Victim].allocated
        /\ caches' = [caches EXCEPT ![Victim].valid = FALSE]
        /\ AfterMiss
        /\ Answer(a, at, OneBlock(a, at))
        /\ UNCHANGED <<inserted, volume, mounting>>

Next ==
    \/ \E a \in Addrs :
         \/ \E h \in Handles : StartBegins(h, a) \/ AttachDevice(h, a)
         \/ \E bs \in BlockSizes : SetBlocksize(a, bs)
         \/ StartSucceeds(a) \/ StartFails(a)
         \/ Stop(a) \/ OpenVolume(a) \/ DetachDevice(a)
         \/ \E bno \in 0..MaxBlock :
              ReadHit(a, bno) \/ ReadAhead(a, bno)
              \/ ReadAlone(a, bno) \/ ReadNoBuffer(a, bno)
    \/ \E h \in Handles, m \in Media \cup {NoMedium} : ChangeMedium(h, m)

Spec == Init /\ [][Next]_vars
-----------------------------------------------------------------------------
(* Properties *)

Content == [medium : Media, at : Nat] \cup {Failed}

Slot == [allocated : BOOLEAN, data : Content, start : Nat, valid : BOOLEAN,
         vol : Addrs \cup {NoAddr}]

Volume == [handle : Handles \cup {NoAddr}, media : Media \cup {NoMedium},
           bs : BlockSizes, device : BOOLEAN]

\* Types of the statics of fsw_efi.c and of the volumes.
TypeOK ==
    /\ inserted \in [Handles -> Media \cup {NoMedium}]
    /\ volume \in [Addrs -> Volume]
    /\ mounting \in Addrs \cup {NoAddr}
    /\ caches \in [Slots -> Slot]
    /\ lastRead \in {-1, 0, 1}
    /\ answer \in [vol : Addrs \cup {Failed}, at : Nat, bytes : Content]

\* Whatever volumes were started, failed to start, were stopped or attached in
\* between, and whichever address their structures were given, a window that
\* fsw_efi_read_block may serve from is that of a live volume and holds the bytes
\* of the medium this volume was mounted from.
WindowIsOfItsVolume ==
    \A i \in Slots : caches[i].valid =>
        /\ caches[i].vol \in Addrs
        /\ Live(caches[i].vol)
        /\ caches[i].allocated
        /\ caches[i].data = Bytes(volume[caches[i].vol].media, caches[i].start)

\* What the core sees through fsw_efi_read_block is an uncached disk: every block
\* delivered holds the bytes of the medium the volume was mounted from, at the
\* offset asked for, also when the structure's address was another volume's
\* before or the drive holds another medium now.
Disk == INSTANCE FswDisk WITH mounted <- [a \in Addrs |-> volume[a].media]
IsDisk == Disk!Spec

\* A call of fsw_efi_read_block on a block the firmware can read does not fail:
\* neither the end of the medium nor an unreadable spot further on in the window
\* nor a missing buffer costs the caller the block.
ReadableBlockIsRead ==
    [][(answer' # answer /\ answer'.bytes = Failed) =>
          ~Readable(answer'.vol, answer'.at, volume[answer'.vol].bs)]_vars
=============================================================================
