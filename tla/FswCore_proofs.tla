--------------------------- MODULE FswCore_proofs ---------------------------
(***************************************************************************)
(* The file system core and its host, from the disk up: the two windows of  *)
(* fsw_efi.c (FswReadCache), the block cache of a volume (FswBlockCache) and *)
(* reading a file through a handle (FswDnode), each for every value of its   *)
(* constants.                                                              *)
(***************************************************************************)
EXTENDS FswReadCache, FswBlockCache, FswDnode, TLAPS, WellFoundedInduction,
        FiniteSetTheorems

-----------------------------------------------------------------------------
(* The windows.  The inductive invariant is the type invariant with the     *)
(* ownership of the windows: a window names a live volume because every way *)
(* a structure is freed clears the windows, and it is what makes each       *)
(* answer the answer of an uncached disk.                                   *)

USE ConstantsAssumption DEF ConstantsAssumption

ReadStep(a, bno) ==
    \/ ReadHit(a, bno) \/ ReadAhead(a, bno)
    \/ ReadAlone(a, bno) \/ ReadNoBuffer(a, bno)

WindowInv == TypeOK /\ WindowIsOfItsVolume

\* Clearing the windows leaves none of them valid.
LEMMA ClearedIsEmpty ==
    ASSUME ClearCache
    PROVE  /\ \A i \in Slots : caches'[i] = EmptySlot
           /\ caches' \in [Slots -> Slot]
           /\ lastRead' \in {-1, 0, 1}
           /\ WindowIsOfItsVolume'
<1>1. \A i \in Slots : caches'[i] = EmptySlot
  BY DEF ClearCache, ClearedCaches
<1>2. EmptySlot \in Slot /\ ~EmptySlot.valid
  BY DEF EmptySlot, Slot, Content
<1>3. caches' \in [Slots -> Slot]
  BY <1>2 DEF ClearCache, ClearedCaches
<1>4. WindowIsOfItsVolume'
  BY <1>1, <1>2 DEF WindowIsOfItsVolume
<1>. QED BY <1>1, <1>3, <1>4 DEF ClearCache

\* What a structure just opened holds.
LEMMA OpenedIsVolume ==
    ASSUME TypeOK, NEW h \in Handles, inserted[h] # NoMedium, NEW d \in BOOLEAN
    PROVE  Opened(h, d) \in Volume /\ Opened(h, d).media = inserted[h]
BY DEF Opened, Volume, TypeOK

\* The structures stay typed when one of them is opened or freed.
LEMMA VolumeTyped ==
    ASSUME TypeOK, NEW a \in Addrs, NEW v \in Volume,
           volume' = [volume EXCEPT ![a] = v]
    PROVE  volume' \in [Addrs -> Volume]
BY DEF TypeOK

LEMMA NoVolumeTyped == NoVolume \in Volume
BY DEF NoVolume, Volume

\* A structure opened off a free address owns no window yet.
LEMMA OpenKeepsWindows ==
    ASSUME WindowInv, NEW a \in Addrs, ~Live(a), NEW v \in Volume,
           volume' = [volume EXCEPT ![a] = v], UNCHANGED caches
    PROVE  WindowIsOfItsVolume'
<1>1. ASSUME NEW i \in Slots, caches[i].valid
      PROVE  caches[i].vol # a /\ caches[i].vol \in Addrs
  BY <1>1 DEF WindowInv, WindowIsOfItsVolume
<1>2. \A b \in Addrs : b # a => volume'[b] = volume[b]
  BY DEF WindowInv, TypeOK
<1>. QED BY <1>1, <1>2 DEF WindowInv, WindowIsOfItsVolume, Live

\* An offset asked for is a natural number.
LEMMA OffsetTyped ==
    ASSUME TypeOK, NEW a \in Addrs, NEW bno \in 0..MaxBlock
    PROVE  /\ volume[a].bs \in BlockSizes
           /\ volume[a].bs \in Nat
           /\ StartRead(a, bno) \in Nat
           /\ StartRead(a, bno) \in Offsets
<1>1. volume[a].bs \in BlockSizes
  BY DEF TypeOK, Volume
<1>2. volume[a].bs \in Nat
  <2>1. BlockSizes \subseteq 1..Window
    OBVIOUS
  <2>2. volume[a].bs \in 1..Window
    BY <1>1, <2>1
  <2>. QED BY <2>2
<1>3. bno \in Nat
  OBVIOUS
<1>4. \A x, y \in Nat : x * y \in Nat
  OBVIOUS
<1>5. StartRead(a, bno) \in Nat
  BY <1>2, <1>3, <1>4 DEF StartRead
<1>6. StartRead(a, bno) \in Offsets
  <2>1. StartRead(a, bno) \in BlockStarts(volume[a].bs)
    BY DEF StartRead, BlockStarts
  <2>. QED BY <1>1, <2>1 DEF Offsets
<1>. QED BY <1>1, <1>2, <1>5, <1>6

\* What a live volume can read is of the medium it was mounted from.
LEMMA ReadableIsMounted ==
    ASSUME TypeOK, NEW a \in Addrs, Live(a), NEW off \in Nat, NEW len \in Nat,
           Readable(a, off, len)
    PROVE  /\ volume[a].media \in Media
           /\ OnMedium(a, off) = Bytes(volume[a].media, off)
           /\ OnMedium(a, off) \in Content
<1>1. volume[a].media \in Media
  BY DEF TypeOK, Volume, Live
<1>. QED BY <1>1 DEF Readable, OnMedium, Bytes, Content

LEMMA VictimTyped ==
    ASSUME TypeOK
    PROVE  Victim \in Slots
BY DEF TypeOK, Victim, Slots

\* What a window serves are the bytes of its volume's medium off that offset.
LEMMA HitIsTrue ==
    ASSUME WindowInv, NEW a \in Addrs, NEW i \in Slots, NEW off \in Nat, Hit(i, a, off)
    PROVE  WindowBytes(caches[i], off) = Bytes(volume[a].media, off)
<1>1. /\ caches[i].vol = a
      /\ caches[i].data = Bytes(volume[a].media, caches[i].start)
      /\ caches[i].start \in Nat
  BY DEF WindowInv, WindowIsOfItsVolume, Hit, TypeOK, Slot
<1>2. caches[i].data.medium = volume[a].media /\ caches[i].data.at = caches[i].start
  BY <1>1 DEF Bytes
<1>. QED BY <1>1, <1>2 DEF WindowBytes, Bytes

\* The answer of a read is a failure, or the bytes asked for.
LEMMA ReadAnswers ==
    ASSUME WindowInv, NEW a \in Addrs, NEW bno \in 0..MaxBlock, ReadStep(a, bno)
    PROVE  /\ Live(a)
           /\ volume' = volume
           /\ \E b \in {Failed, Bytes(volume[a].media, StartRead(a, bno))} :
                 Answer(a, StartRead(a, bno), b)
<1> DEFINE off == StartRead(a, bno)
<1>1. off \in Nat /\ volume[a].bs \in Nat /\ Window \in Nat
  BY OffsetTyped DEF WindowInv
<1>2. Live(a) /\ volume' = volume
  BY DEF ReadStep, ReadHit, ReadAhead, ReadAlone, ReadNoBuffer, Missed, CanRead
<1>3. OneBlock(a, off) \in {Failed, Bytes(volume[a].media, off)}
  BY <1>1, <1>2, ReadableIsMounted DEF OneBlock, WindowInv
<1>4. CASE ReadHit(a, bno)
  <2>1. PICK i \in Slots : Hit(i, a, off) /\ Answer(a, off, WindowBytes(caches[i], off))
    BY <1>4 DEF ReadHit
  <2>. QED BY <1>1, <1>2, <2>1, HitIsTrue
<1>5. CASE ReadAhead(a, bno)
  <2>1. Readable(a, off, Window) /\ Answer(a, off, OnMedium(a, off))
    BY <1>5 DEF ReadAhead
  <2>. QED BY <1>1, <1>2, <2>1, ReadableIsMounted DEF WindowInv
<1>6. CASE ReadAlone(a, bno)
  <2>1. Answer(a, off, OneBlock(a, off))
    BY <1>6 DEF ReadAlone
  <2>. QED BY <1>2, <1>3, <2>1
<1>7. CASE ReadNoBuffer(a, bno)
  <2>1. Answer(a, off, OneBlock(a, off))
    BY <1>7 DEF ReadNoBuffer
  <2>. QED BY <1>2, <1>3, <2>1
<1>. QED BY <1>4, <1>5, <1>6, <1>7 DEF ReadStep

\* The windows after a read belong to live volumes and hold their bytes.
LEMMA ReadKeepsWindows ==
    ASSUME WindowInv, NEW a \in Addrs, NEW bno \in 0..MaxBlock, ReadStep(a, bno)
    PROVE  /\ caches' \in [Slots -> Slot]
           /\ lastRead' \in {-1, 0, 1}
           /\ WindowIsOfItsVolume'
<1> DEFINE off == StartRead(a, bno)
<1>1. off \in Nat /\ volume[a].bs \in Nat /\ Window \in Nat
  BY OffsetTyped DEF WindowInv
<1>2. Live(a) /\ volume' = volume
  BY DEF ReadStep, ReadHit, ReadAhead, ReadAlone, ReadNoBuffer, Missed, CanRead
<1>3. Victim \in Slots /\ lastRead \in {-1, 0, 1} /\ caches \in [Slots -> Slot]
  BY VictimTyped DEF WindowInv, TypeOK
<1>4. Victim \in {0, 1}
  BY <1>3 DEF Slots
<1>5. ASSUME NEW s \in Slot, caches' = [caches EXCEPT ![Victim] = s],
             s.valid => /\ s.vol \in Addrs /\ Live(s.vol) /\ s.allocated
                        /\ s.data = Bytes(volume[s.vol].media, s.start)
      PROVE  caches' \in [Slots -> Slot] /\ WindowIsOfItsVolume'
  <2>1. caches' \in [Slots -> Slot]
    BY <1>3, <1>5
  <2>2. \A i \in Slots : caches'[i] = s \/ caches'[i] = caches[i]
    BY <1>3, <1>5
  <2>3. \A i \in Slots : caches'[i].valid =>
            /\ caches'[i].vol \in Addrs
            /\ Live(caches'[i].vol)
            /\ caches'[i].allocated
            /\ caches'[i].data = Bytes(volume[caches'[i].vol].media, caches'[i].start)
    BY <1>5, <2>2 DEF WindowInv, WindowIsOfItsVolume
  <2>. QED BY <1>2, <2>1, <2>3 DEF WindowIsOfItsVolume, Live
<1>6. CASE ReadHit(a, bno)
  BY <1>2, <1>3, <1>6 DEF ReadHit, WindowInv, WindowIsOfItsVolume, Live
<1>7. CASE ReadAhead(a, bno)
  <2> DEFINE s == [allocated |-> TRUE, data |-> OnMedium(a, off), start |-> off,
                   valid |-> TRUE, vol |-> a]
  <2>1. Readable(a, off, Window) /\ caches' = [caches EXCEPT ![Victim] = s]
        /\ lastRead' = Victim
    BY <1>7 DEF ReadAhead, Filled
  <2>2. OnMedium(a, off) = Bytes(volume[a].media, off) /\ OnMedium(a, off) \in Content
    BY <1>1, <1>2, <2>1, ReadableIsMounted DEF WindowInv
  <2>3. s \in Slot
    BY <1>1, <2>2 DEF Slot
  <2>. QED BY <1>2, <1>4, <1>5, <2>1, <2>2, <2>3
<1>8. CASE ReadAlone(a, bno)
  <2> DEFINE s == [caches[Victim] EXCEPT !.allocated = TRUE, !.data = Failed,
                                         !.valid = FALSE]
  <2>1. caches' = [caches EXCEPT ![Victim] = s] /\ AfterMiss
    BY <1>3, <1>8 DEF ReadAlone, Spoilt
  <2>2. s \in Slot /\ ~s.valid
    <3>1. caches[Victim] \in Slot
      BY <1>3
    <3>2. Failed \in Content
      BY DEF Content
    <3>. QED BY <3>1, <3>2, ZenonT(30) DEF Slot
  <2>. QED BY <1>3, <1>5, <2>1, <2>2 DEF AfterMiss
<1>9. CASE ReadNoBuffer(a, bno)
  <2> DEFINE s == [caches[Victim] EXCEPT !.valid = FALSE]
  <2>1. caches' = [caches EXCEPT ![Victim] = s] /\ AfterMiss
    BY <1>3, <1>9 DEF ReadNoBuffer
  <2>2. s \in Slot /\ ~s.valid
    <3>1. caches[Victim] \in Slot
      BY <1>3
    <3>. QED BY <3>1, ZenonT(30) DEF Slot
  <2>. QED BY <1>3, <1>5, <2>1, <2>2 DEF AfterMiss
<1>. QED BY <1>6, <1>7, <1>8, <1>9 DEF ReadStep

\* The step of a read keeps the types.
LEMMA ReadTyped ==
    ASSUME WindowInv, NEW a \in Addrs, NEW bno \in 0..MaxBlock, ReadStep(a, bno)
    PROVE  TypeOK'
<1> DEFINE off == StartRead(a, bno)
<1>1. off \in Nat
  BY OffsetTyped DEF WindowInv
<1>2. UNCHANGED <<inserted, volume, mounting>>
  BY DEF ReadStep, ReadHit, ReadAhead, ReadAlone, ReadNoBuffer
<1>3. PICK b \in {Failed, Bytes(volume[a].media, off)} : Answer(a, off, b)
  BY ReadAnswers
<1>4. volume[a].media \in Media
  BY ReadAnswers DEF WindowInv, TypeOK, Volume, Live
<1>5. b \in Content
  BY <1>1, <1>3, <1>4 DEF Content, Bytes
<1>6. answer' \in [vol : Addrs \cup {Failed}, at : Nat, bytes : Content]
  BY <1>1, <1>3, <1>5 DEF Answer
<1>. QED BY <1>2, <1>6, ReadKeepsWindows DEF WindowInv, TypeOK

LEMMA InitWindowInv == Init => WindowInv
<1> SUFFICES ASSUME Init PROVE WindowInv
  OBVIOUS
<1>1. EmptySlot \in Slot /\ ~EmptySlot.valid
  BY DEF EmptySlot, Slot, Content
<1>2. TypeOK
  BY <1>1, NoVolumeTyped DEF Init, TypeOK, Content
<1>3. WindowIsOfItsVolume
  BY <1>1 DEF Init, WindowIsOfItsVolume
<1>. QED BY <1>2, <1>3 DEF WindowInv

\* Freeing a structure: the windows are cleared with it.
LEMMA UnmountKeeps ==
    ASSUME WindowInv, NEW a \in Addrs, Unmounted(a), UNCHANGED <<inserted, answer>>,
           mounting' \in Addrs \cup {NoAddr}
    PROVE  WindowInv'
<1>1. volume' \in [Addrs -> Volume]
  BY VolumeTyped, NoVolumeTyped DEF Unmounted, WindowInv
<1>. QED BY <1>1, ClearedIsEmpty DEF Unmounted, WindowInv, TypeOK

\* Opening a structure off a free address.
LEMMA OpenKeeps ==
    ASSUME WindowInv, NEW a \in Addrs, ~Live(a), NEW h \in Handles, NEW d \in BOOLEAN,
           inserted[h] # NoMedium,
           volume' = [volume EXCEPT ![a] = Opened(h, d)],
           UNCHANGED <<inserted, caches, lastRead, answer>>,
           mounting' \in Addrs \cup {NoAddr}
    PROVE  WindowInv'
<1>1. Opened(h, d) \in Volume
  BY OpenedIsVolume DEF WindowInv
<1>2. volume' \in [Addrs -> Volume]
  BY <1>1, VolumeTyped DEF WindowInv
<1>3. WindowIsOfItsVolume'
  BY <1>1, OpenKeepsWindows
<1>. QED BY <1>2, <1>3 DEF WindowInv, TypeOK

LEMMA WindowStep == WindowInv /\ [Next]_vars => WindowInv'
<1> SUFFICES ASSUME WindowInv, [Next]_vars PROVE WindowInv'
  OBVIOUS
<1>1. ASSUME NEW a \in Addrs, NEW h \in Handles, StartBegins(h, a)
      PROVE  WindowInv'
  BY <1>1, OpenKeeps DEF StartBegins
<1>2. ASSUME NEW a \in Addrs, NEW h \in Handles, AttachDevice(h, a)
      PROVE  WindowInv'
  BY <1>2, OpenKeeps DEF AttachDevice, WindowInv, TypeOK
<1>3. ASSUME NEW a \in Addrs, NEW bs \in BlockSizes, SetBlocksize(a, bs)
      PROVE  WindowInv'
  <2>1. volume' = [volume EXCEPT ![a].bs = bs]
    BY <1>3 DEF SetBlocksize
  <2>2. [volume[a] EXCEPT !.bs = bs] \in Volume
    <3>1. volume[a] \in Volume
      BY DEF WindowInv, TypeOK
    <3>. QED BY <3>1, ZenonT(30) DEF Volume
  <2>3. volume' \in [Addrs -> Volume]
    BY <2>1, <2>2, VolumeTyped DEF WindowInv
  <2>. QED BY <1>3, <2>3, ClearedIsEmpty DEF SetBlocksize, WindowInv, TypeOK
<1>4. ASSUME NEW a \in Addrs, StartSucceeds(a)
      PROVE  WindowInv'
  BY <1>4 DEF StartSucceeds, WindowInv, TypeOK, WindowIsOfItsVolume, Live
<1>5. ASSUME NEW a \in Addrs, StartFails(a)
      PROVE  WindowInv'
  BY <1>5, UnmountKeeps DEF StartFails
<1>6. ASSUME NEW a \in Addrs, Stop(a)
      PROVE  WindowInv'
  BY <1>6, UnmountKeeps DEF Stop, WindowInv, TypeOK
<1>7. ASSUME NEW a \in Addrs, DetachDevice(a)
      PROVE  WindowInv'
  BY <1>7, UnmountKeeps DEF DetachDevice, Detached, WindowInv, TypeOK
<1>8. ASSUME NEW a \in Addrs, OpenVolume(a)
      PROVE  WindowInv'
  BY <1>8, ClearedIsEmpty DEF OpenVolume, WindowInv, TypeOK
<1>9. ASSUME NEW a \in Addrs, NEW bno \in 0..MaxBlock, ReadStep(a, bno)
      PROVE  WindowInv'
  BY <1>9, ReadTyped, ReadKeepsWindows DEF WindowInv
<1>10. ASSUME NEW h \in Handles, NEW m \in Media \cup {NoMedium}, ChangeMedium(h, m)
       PROVE  WindowInv'
  BY <1>10 DEF ChangeMedium, WindowInv, TypeOK, WindowIsOfItsVolume, Live
<1>11. CASE UNCHANGED vars
  BY <1>11 DEF vars, WindowInv, TypeOK, WindowIsOfItsVolume, Live
<1>. QED BY <1>1, <1>2, <1>3, <1>4, <1>5, <1>6, <1>7, <1>8, <1>9, <1>10, <1>11
         DEF Next, ReadStep

THEOREM WindowsInductive == Spec => []WindowInv
<1>. QED BY InitWindowInv, WindowStep, PTL DEF Spec

\* The statics of fsw_efi.c keep their types.
THEOREM WindowTypeCorrect == Spec => []TypeOK
<1>1. WindowInv => TypeOK
  BY DEF WindowInv
<1>. QED BY WindowsInductive, <1>1, PTL

\* A window that can be served from is that of a live volume and holds its bytes,
\* for every sequence of starts, failed starts, stops and reused addresses.
THEOREM WindowsOwned == Spec => []WindowIsOfItsVolume
<1>1. WindowInv => WindowIsOfItsVolume
  BY DEF WindowInv
<1>. QED BY WindowsInductive, <1>1, PTL

Mounted == [a \in Addrs |-> volume[a].media]

\* Changing one structure changes the medium mounted off that address only.
LEMMA MountedChanges ==
    ASSUME TypeOK, NEW a \in Addrs, NEW v \in Volume,
           volume' = [volume EXCEPT ![a] = v]
    PROVE  Mounted' = [Mounted EXCEPT ![a] = v.media]
<1>1. \A b \in Addrs : volume'[b] = IF b = a THEN v ELSE volume[b]
  BY DEF TypeOK
<1> DEFINE f == [b \in Addrs |-> IF b = a THEN v.media ELSE volume[b].media]
<1>2. Mounted' = f
  <2>1. \A b \in Addrs : volume'[b].media = f[b]
    BY <1>1
  <2>2. Mounted' = [b \in Addrs |-> f[b]]
    BY <2>1 DEF Mounted
  <2>. QED BY <2>2
<1>3. \A b \in Addrs : f[b] = IF b = a THEN v.media ELSE Mounted[b]
  BY DEF Mounted
<1>4. [Mounted EXCEPT ![a] = v.media] = f
  BY <1>3 DEF Mounted
<1>. QED BY <1>2, <1>4

\* A read delivers or fails as an uncached disk does.
LEMMA ReadIsDiskRead ==
    ASSUME WindowInv, NEW a \in Addrs, NEW bno \in 0..MaxBlock, ReadStep(a, bno)
    PROVE  Disk!Next
<1> DEFINE off == StartRead(a, bno)
<1>1. off \in Offsets
  BY OffsetTyped DEF WindowInv
<1>2. Live(a) /\ volume' = volume
  BY ReadAnswers
<1>3. PICK b \in {Failed, Bytes(volume[a].media, off)} : Answer(a, off, b)
  BY ReadAnswers
<1>4. Mounted' = Mounted /\ Mounted[a] = volume[a].media /\ Mounted[a] # NoMedium
  BY <1>2 DEF Mounted, Live
<1>5. CASE b = Failed
  <2>1. Disk!Fail(a, off)
    BY <1>3, <1>4, <1>5 DEF Disk!Fail, Answer, Mounted
  <2>. QED BY <1>1, <2>1 DEF Disk!Next
<1>6. CASE b = Bytes(volume[a].media, off)
  <2>1. Disk!Deliver(a, off)
    BY <1>3, <1>4, <1>6 DEF Disk!Deliver, Answer, Mounted, Bytes
  <2>. QED BY <1>1, <2>1 DEF Disk!Next
<1>. QED BY <1>3, <1>5, <1>6

\* Opening a structure is a mount.
LEMMA OpenIsMount ==
    ASSUME WindowInv, NEW a \in Addrs, ~Live(a), NEW h \in Handles, NEW d \in BOOLEAN,
           inserted[h] # NoMedium,
           volume' = [volume EXCEPT ![a] = Opened(h, d)], answer' = answer
    PROVE  Disk!Next
<1>1. Opened(h, d) \in Volume /\ Opened(h, d).media = inserted[h]
      /\ inserted[h] \in Media
  BY OpenedIsVolume DEF WindowInv, TypeOK
<1>2. PICK m \in Media : m = inserted[h]
  BY <1>1
<1>3. Mounted' = [Mounted EXCEPT ![a] = m]
  BY <1>1, <1>2, MountedChanges DEF WindowInv
<1>4. Mounted[a] = NoMedium
  BY DEF Mounted, Live
<1>5. Disk!Mount(a, m)
  BY <1>3, <1>4 DEF Disk!Mount, Mounted
<1>. QED BY <1>2, <1>5 DEF Disk!Next

\* Freeing a structure is a dismount.
LEMMA UnmountIsDismount ==
    ASSUME WindowInv, NEW a \in Addrs, Live(a), Unmounted(a), answer' = answer
    PROVE  Disk!Next
<1>1. Mounted' = [Mounted EXCEPT ![a] = NoMedium]
  BY MountedChanges, NoVolumeTyped DEF WindowInv, Unmounted, NoVolume
<1>2. Disk!Dismount(a)
  BY <1>1 DEF Disk!Dismount, Mounted, Live
<1>. QED BY <1>2 DEF Disk!Next

LEMMA DiskStep == WindowInv /\ WindowInv' /\ [Next]_vars => [Disk!Next]_(Disk!vars)
<1> SUFFICES ASSUME WindowInv, WindowInv', [Next]_vars
             PROVE  Disk!Next \/ (Mounted' = Mounted /\ answer' = answer)
  BY DEF Disk!vars, Mounted
<1>1. ASSUME NEW a \in Addrs, NEW h \in Handles,
             StartBegins(h, a) \/ AttachDevice(h, a)
      PROVE  Disk!Next
  BY <1>1, OpenIsMount DEF StartBegins, AttachDevice
<1>2. ASSUME NEW a \in Addrs, NEW bs \in BlockSizes, SetBlocksize(a, bs)
      PROVE  Mounted' = Mounted /\ answer' = answer
  <2>1. \A b \in Addrs : volume'[b].media = volume[b].media
    <3>1. volume \in [Addrs -> Volume]
      BY DEF WindowInv, TypeOK
    <3>2. volume[a].media = [volume[a] EXCEPT !.bs = bs].media
      BY <3>1, ZenonT(30) DEF Volume
    <3>3. volume' = [volume EXCEPT ![a] = [volume[a] EXCEPT !.bs = bs]]
      BY <1>2, <3>1 DEF SetBlocksize
    <3>. QED BY <3>1, <3>2, <3>3
  <2>. QED BY <1>2, <2>1 DEF SetBlocksize, Mounted
<1>3. ASSUME NEW a \in Addrs, StartFails(a)
      PROVE  Disk!Next \/ (Mounted' = Mounted /\ answer' = answer)
  <2>1. CASE Live(a)
    BY <1>3, <2>1, UnmountIsDismount DEF StartFails
  <2>2. CASE ~Live(a)
    <3>1. Mounted' = [Mounted EXCEPT ![a] = NoMedium]
      BY <1>3, MountedChanges, NoVolumeTyped DEF WindowInv, Unmounted, NoVolume, StartFails
    <3>2. Mounted' = Mounted
      BY <2>2, <3>1 DEF Mounted, Live
    <3>. QED BY <1>3, <3>2 DEF StartFails
  <2>. QED BY <2>1, <2>2
<1>4. ASSUME NEW a \in Addrs, Stop(a)
      PROVE  Disk!Next
  BY <1>4, UnmountIsDismount DEF Stop
<1>5. ASSUME NEW a \in Addrs, DetachDevice(a)
      PROVE  Disk!Next \/ (Mounted' = Mounted /\ answer' = answer)
  <2>1. CASE Live(a)
    BY <1>5, <2>1, UnmountIsDismount DEF DetachDevice, Detached
  <2>2. CASE ~Live(a)
    <3>1. Mounted' = [Mounted EXCEPT ![a] = NoMedium]
      BY <1>5, MountedChanges, NoVolumeTyped
         DEF WindowInv, Unmounted, NoVolume, DetachDevice, Detached
    <3>2. Mounted' = Mounted
      BY <2>2, <3>1 DEF Mounted, Live
    <3>. QED BY <1>5, <3>2 DEF DetachDevice
  <2>. QED BY <2>1, <2>2
<1>6. ASSUME NEW a \in Addrs, NEW bno \in 0..MaxBlock, ReadStep(a, bno)
      PROVE  Disk!Next
  BY <1>6, ReadIsDiskRead
<1>7. ASSUME NEW a \in Addrs, OpenVolume(a) \/ StartSucceeds(a)
      PROVE  Mounted' = Mounted /\ answer' = answer
  BY <1>7 DEF OpenVolume, StartSucceeds, Mounted
<1>8. ASSUME NEW h \in Handles, NEW m \in Media \cup {NoMedium}, ChangeMedium(h, m)
      PROVE  Mounted' = Mounted /\ answer' = answer
  BY <1>8 DEF ChangeMedium, Mounted
<1>9. CASE UNCHANGED vars
  BY <1>9 DEF vars, Mounted
<1>. QED BY <1>1, <1>2, <1>3, <1>4, <1>5, <1>6, <1>7, <1>8, <1>9
         DEF Next, ReadStep

\* Behind its two shared windows fsw_efi_read_block is an uncached disk: it
\* delivers the bytes of the medium the volume was mounted from, or fails.
THEOREM ReadCacheIsDisk == Spec => IsDisk
<1>1. Init => Disk!Init
  BY DEF Init, Disk!Init, Disk!Nothing, NoVolume
<1>. QED BY WindowsInductive, <1>1, DiskStep, PTL DEF Spec, IsDisk, Disk!Spec

\* A read that fails is of a block that cannot be read: a window that holds the
\* block holds its bytes, and when the window ahead cannot be read, or has no
\* buffer, the block itself is tried.
LEMMA ReadFailsRightly ==
    ASSUME WindowInv, NEW a \in Addrs, NEW bno \in 0..MaxBlock, ReadStep(a, bno),
           answer'.bytes = Failed
    PROVE  ~Readable(answer'.vol, answer'.at, volume[answer'.vol].bs)
<1> DEFINE off == StartRead(a, bno)
<1>1. off \in Nat /\ volume[a].bs \in Nat /\ Window \in Nat
  BY OffsetTyped DEF WindowInv
<1>2. Live(a)
  BY ReadAnswers
<1>3. Bytes(volume[a].media, off) # Failed
  <2>1. volume[a].media \in Media
    BY <1>2 DEF WindowInv, TypeOK, Volume, Live
  <2>2. Bytes(volume[a].media, off) \in [medium : Media, at : Nat]
    BY <1>1, <2>1 DEF Bytes
  <2>. QED BY <2>2
<1>4. ASSUME Answer(a, off, OneBlock(a, off))
      PROVE  ~Readable(answer'.vol, answer'.at, volume[answer'.vol].bs)
  <2>1. answer'.vol = a /\ answer'.at = off /\ OneBlock(a, off) = Failed
    BY <1>4 DEF Answer
  <2>2. ASSUME Readable(a, off, volume[a].bs)
        PROVE  FALSE
    BY <1>1, <1>2, <1>3, <2>1, <2>2, ReadableIsMounted DEF OneBlock, WindowInv
  <2>. QED BY <2>1, <2>2
<1>5. ~ReadHit(a, bno)
  <2>1. SUFFICES ASSUME ReadHit(a, bno) PROVE FALSE
    OBVIOUS
  <2>2. PICK i \in Slots : Hit(i, a, off) /\ Answer(a, off, WindowBytes(caches[i], off))
    BY <2>1 DEF ReadHit
  <2>. QED BY <1>1, <1>3, <2>2, HitIsTrue DEF Answer
<1>6. ~ReadAhead(a, bno)
  <2>1. SUFFICES ASSUME ReadAhead(a, bno) PROVE FALSE
    OBVIOUS
  <2>2. Readable(a, off, Window) /\ Answer(a, off, OnMedium(a, off))
    BY <2>1 DEF ReadAhead
  <2>. QED BY <1>1, <1>2, <1>3, <2>2, ReadableIsMounted DEF Answer, WindowInv
<1>7. CASE ReadAlone(a, bno)
  BY <1>4, <1>7 DEF ReadAlone
<1>8. CASE ReadNoBuffer(a, bno)
  BY <1>4, <1>8 DEF ReadNoBuffer
<1>. QED BY <1>5, <1>6, <1>7, <1>8 DEF ReadStep

\* No call of fsw_efi_read_block fails on a block the firmware can read: the
\* windows cost nothing off the end of a medium, over a bad spot or without
\* memory for their buffers.
THEOREM ReadableBlocksAreRead == Spec => ReadableBlockIsRead
<1>1. WindowInv /\ [Next]_vars =>
        [(answer' # answer /\ answer'.bytes = Failed) =>
            ~Readable(answer'.vol, answer'.at, volume[answer'.vol].bs)]_vars
  <2> SUFFICES ASSUME WindowInv, Next, answer' # answer, answer'.bytes = Failed
               PROVE  ~Readable(answer'.vol, answer'.at, volume[answer'.vol].bs)
    BY DEF vars
  <2>1. PICK a \in Addrs, bno \in 0..MaxBlock : ReadStep(a, bno)
    BY DEF Next, ReadStep, StartBegins, AttachDevice, SetBlocksize, StartSucceeds,
       StartFails, Stop, OpenVolume, DetachDevice, ChangeMedium
  <2>. QED BY <2>1, ReadFailsRightly
<1>. QED BY WindowsInductive, <1>1, PTL DEF Spec, ReadableBlockIsRead

HIDE ConstantsAssumption DEF ConstantsAssumption

-----------------------------------------------------------------------------
(* The block cache, for every number of slots, blocks, levels and pins held *)
(* at once.  The inductive invariant is the conjunction of the checked ones: *)
(* each of them needs the others (an empty slot is unpinned because a pinned *)
(* one names its block; a pinned slot is never chosen because its refcount  *)
(* counts its holders).                                                     *)

USE CacheAssumption

\* The order the scans of fsw_block_get walk the slots and levels in.
LEMMA NatLess ==
    IsWellFoundedOn({ss \in Nat \X Nat : ss[1] < ss[2]}, Nat)
BY NatLessThanWellFounded DEF OpToRel

\* A scan that accepts some slot stops at one of the accepted slots.
LEMMA FirstOfIsMember ==
    ASSUME NEW S \in SUBSET Nat, S # {}
    PROVE  FirstOf(S) \in S /\ \A j \in S : FirstOf(S) <= j
<1> DEFINE R == {ss \in Nat \X Nat : ss[1] < ss[2]}
<1>1. PICK x \in S : \A y \in S : ~(<<y, x>> \in R)
  <2>. HIDE DEF R
  <2>1. IsWellFoundedOn(R, Nat)
    BY NatLess DEF R
  <2>. QED BY <2>1, WFMin
<1>2. \A y \in S : x <= y
  <2> TAKE y \in S
  <2>1. <<y, x>> \in R <=> y < x
    OBVIOUS
  <2>. QED BY <1>1, <2>1
<1>. HIDE DEF R
<1>. QED BY <1>2 DEF FirstOf
CacheInv ==
    /\ CacheTypeOK
    /\ PinnedBufferKeepsItsBlock
    /\ RefcountIsHolders
    /\ OneSlotPerBlock
    /\ NamedSlotHoldsBlock

\* The slot fsw_block_get fills exists in the table it prepared, and it is an
\* old slot only if that slot is empty or unpinned.
LEMMA SlotToFillChoice ==
    ASSUME CacheTypeOK
    PROVE  /\ PreparedSize \in Nat /\ PreparedSize >= size
           /\ SlotToFill \in 1..PreparedSize
           /\ SlotToFill > size => SlotToFill = size + 1
           /\ SlotToFill <= size =>
                 bcache[SlotToFill].bno = Invalid \/ bcache[SlotToFill].ref = 0
<1>1. size \in Nat
  BY DEF CacheTypeOK
<1>2. GrownSize \in Nat /\ GrownSize >= size + 1
  BY <1>1 DEF GrownSize
<1>3. \/ SlotToFill \in 1..size /\ (bcache[SlotToFill].bno = Invalid \/ bcache[SlotToFill].ref = 0)
      \/ SlotToFill = size + 1
  <2>1. CASE Cached(Invalid) # {}
    <3>1. Cached(Invalid) \in SUBSET Nat
      BY <1>1 DEF Cached
    <3>2. FirstOf(Cached(Invalid)) \in Cached(Invalid)
      BY <2>1, <3>1, FirstOfIsMember
    <3>. QED BY <2>1, <3>2 DEF SlotToFill, Cached
  <2>2. CASE Cached(Invalid) = {} /\ \E d \in DiscardLevels : Discardable(d) # {}
    <3> DEFINE D == {d \in DiscardLevels : Discardable(d) # {}}
               low == CHOOSE d \in DiscardLevels :
                           /\ Discardable(d) # {}
                           /\ \A e \in 0..(d - 1) : Discardable(e) = {}
    <3>1. D \in SUBSET Nat /\ D # {}
      BY <2>2 DEF DiscardLevels
    <3>2. PICK d \in D : \A e \in D : d <= e
      BY <3>1, FirstOfIsMember
    <3>3. \A e \in 0..(d - 1) : Discardable(e) = {}
      BY <3>2 DEF DiscardLevels
    <3>4. low \in DiscardLevels /\ Discardable(low) # {}
      BY <3>2, <3>3
    <3> HIDE DEF low
    <3>5. Discardable(low) \in SUBSET Nat
      BY <1>1 DEF Discardable
    <3>6. FirstOf(Discardable(low)) \in Discardable(low)
      BY <3>4, <3>5, FirstOfIsMember
    <3>7. SlotToFill = FirstOf(Discardable(low))
      BY <2>2 DEF SlotToFill, low
    <3>. QED BY <3>6, <3>7 DEF Discardable
  <2>3. CASE Cached(Invalid) = {} /\ ~\E d \in DiscardLevels : Discardable(d) # {}
    BY <2>3 DEF SlotToFill
  <2>. QED BY <2>1, <2>2, <2>3
<1>. QED BY <1>1, <1>2, <1>3 DEF PreparedSize

\* Nobody holds the slot that is about to be refilled.
LEMMA SlotToFillUnheld ==
    ASSUME CacheInv
    PROVE  Holders(SlotToFill) = {}
<1>1. CASE SlotToFill > size
  BY <1>1, SlotToFillChoice DEF CacheInv, CacheTypeOK, Holders, Pin
<1>2. CASE ~(SlotToFill > size)
  <2>1. SlotToFill \in 1..size
    BY <1>2, SlotToFillChoice DEF CacheInv, CacheTypeOK
  <2>2. CASE bcache[SlotToFill].bno = Invalid
    BY <2>1, <2>2 DEF CacheInv, CacheTypeOK, Holders, PinnedBufferKeepsItsBlock, Pin, NoPin
  <2>3. CASE bcache[SlotToFill].ref = 0
    <3>1. Cardinality(Holders(SlotToFill)) = 0
      BY <2>1, <2>3 DEF CacheInv, RefcountIsHolders
    <3>2. IsFiniteSet(Holders(SlotToFill))
      BY FS_Subset DEF Holders
    <3>. QED BY <3>1, <3>2, FS_EmptySet
  <2>. QED BY <2>1, <2>2, <2>3, <1>2, SlotToFillChoice DEF CacheInv
<1>. QED BY <1>1, <1>2
\* The prepared table is the old one with the victim emptied.
LEMMA PreparedTable ==
    ASSUME CacheTypeOK
    PROVE  /\ Prepared \in [1..PreparedSize -> CacheSlot]
           /\ \A i \in 1..size : i # SlotToFill => Prepared[i] = bcache[i]
           /\ \A i \in 1..PreparedSize : i > size /\ i # SlotToFill => Prepared[i] = FreshSlot
           /\ Prepared[SlotToFill].bno = Invalid
           /\ SlotToFill \in 1..size => Prepared[SlotToFill].ref = bcache[SlotToFill].ref
           /\ SlotToFill > size => Prepared[SlotToFill].ref = 0
<1>1. FreshSlot \in CacheSlot
  BY DEF FreshSlot, CacheSlot
<1>2. \A i \in 1..size : bcache[i] \in CacheSlot
  BY DEF CacheTypeOK
<1>3. DOMAIN Prepared = 1..PreparedSize /\ \A i \in 1..PreparedSize :
        LET slot == IF i <= size THEN bcache[i] ELSE FreshSlot
        IN  Prepared[i] = IF i = SlotToFill THEN [slot EXCEPT !.bno = Invalid] ELSE slot
  BY DEF Prepared, PreparedSize
<1>4. \A r \in CacheSlot : /\ [r EXCEPT !.bno = Invalid] \in CacheSlot
                       /\ [r EXCEPT !.bno = Invalid].bno = Invalid
                       /\ [r EXCEPT !.bno = Invalid].ref = r.ref
  BY DEF CacheSlot
<1>5. \A i \in 1..PreparedSize : Prepared[i] \in CacheSlot
  <2> TAKE i \in 1..PreparedSize
  <2>1. i <= size => i \in 1..size
    BY SlotToFillChoice DEF CacheTypeOK
  <2>. QED BY <1>1, <1>2, <1>3, <1>4, <2>1
<1>6. Prepared = [i \in 1..PreparedSize |-> Prepared[i]]
  BY DEF Prepared, PreparedSize
<1>7. Prepared \in [1..PreparedSize -> CacheSlot]
  BY <1>5, <1>6
<1>8. FreshSlot.ref = 0
  BY DEF FreshSlot
<1>9. SlotToFill \in 1..PreparedSize /\ PreparedSize \in Nat /\ size \in Nat /\ size <= PreparedSize
  BY SlotToFillChoice DEF CacheTypeOK
<1>10. Prepared[SlotToFill].bno = Invalid /\ (SlotToFill \in 1..size => Prepared[SlotToFill].ref = bcache[SlotToFill].ref)
       /\ (SlotToFill > size => Prepared[SlotToFill].ref = 0)
  <2> DEFINE old == IF SlotToFill <= size THEN bcache[SlotToFill] ELSE FreshSlot
  <2>1. Prepared[SlotToFill] = [old EXCEPT !.bno = Invalid]
    BY <1>3, <1>9
  <2>2. old \in CacheSlot
    BY <1>1, <1>2, <1>9
  <2>3. Prepared[SlotToFill].bno = Invalid /\ Prepared[SlotToFill].ref = old.ref
    BY <2>1, <2>2, <1>4
  <2>. QED BY <2>3, <1>8, <1>9
<1>11. \A i \in 1..size : i # SlotToFill => Prepared[i] = bcache[i]
  BY <1>3, <1>9
<1>12. \A i \in 1..PreparedSize : i > size /\ i # SlotToFill => Prepared[i] = FreshSlot
  BY <1>3, <1>9
<1>. QED BY <1>7, <1>10, <1>11, <1>12

\* The initial table is empty and nobody holds anything.
LEMMA InitCacheInv == CacheInit => CacheInv
BY DEF CacheInit, CacheInv, CacheTypeOK, PinnedBufferKeepsItsBlock, RefcountIsHolders,
       OneSlotPerBlock, NamedSlotHoldsBlock, CacheSlot, Pin, NoPin

\* Only the slot a client takes or leaves changes its set of holders.
LEMMA HoldersAfterTake ==
    ASSUME CacheTypeOK, NEW c \in Clients, NEW b \in Blocks, NEW v \in Nat \ {0},
           pins[c] = NoPin, pins' = [pins EXCEPT ![c] = [bno |-> b, slot |-> v]]
    PROVE  /\ Holders(v)' = Holders(v) \cup {c}
           /\ c \notin Holders(v)
           /\ \A i : i # v => Holders(i)' = Holders(i)
           /\ Cardinality(Holders(v)') = Cardinality(Holders(v)) + 1
<1>1. pins'[c] # NoPin /\ pins'[c].slot = v /\ \A d \in Clients \ {c} : pins'[d] = pins[d]
  BY DEF CacheTypeOK, NoPin
<1>2. Holders(v)' = Holders(v) \cup {c} /\ c \notin Holders(v)
  BY <1>1 DEF Holders
<1>3. \A i : i # v => Holders(i)' = Holders(i)
  BY <1>1 DEF Holders
<1>4. IsFiniteSet(Holders(v))
  BY FS_Subset DEF Holders
<1>. QED BY <1>2, <1>3, <1>4, FS_AddElement, ZenonT(60)

LEMMA GetHitStep ==
    ASSUME CacheInv, NEW c \in Clients, NEW b \in Blocks, NEW l \in CacheLevels, GetHit(c, b, l)
    PROVE  CacheInv'
<1>1. Cached(b) \in SUBSET Nat
  BY DEF CacheInv, CacheTypeOK, Cached
<1>2. PICK i \in Cached(b) :
        /\ bcache' = [bcache EXCEPT ![i] = Repinned(bcache[i], l)]
        /\ pins' = [pins EXCEPT ![c] = [bno |-> b, slot |-> i]]
  BY DEF GetHit
<1>3. /\ i \in 1..size /\ size \in Nat /\ bcache[i].bno = b /\ bcache[i] \in CacheSlot
      /\ size' = size /\ pins[c] = NoPin
  BY <1>2 DEF GetHit, Cached, CacheInv, CacheTypeOK
<1>4. CappedLevel(l) \in 0..MaxCacheLevel
  BY DEF CappedLevel
<1>4a. ASSUME NEW r \in CacheSlot
       PROVE  /\ Repinned(r, l) \in CacheSlot
              /\ Repinned(r, l).bno = r.bno /\ Repinned(r, l).data = r.data
              /\ Repinned(r, l).ref = r.ref + 1
  <2>1. Higher(r.level, CappedLevel(l)) \in 0..MaxCacheLevel
    BY <1>4 DEF Higher, CacheSlot
  <2>. QED BY <2>1 DEF Repinned, CacheSlot
<1>5. /\ bcache'[i] \in CacheSlot
      /\ bcache'[i].bno = b /\ bcache'[i].data = bcache[i].data
      /\ bcache'[i].ref = bcache[i].ref + 1
      /\ \A j \in 1..size : j # i => bcache'[j] = bcache[j]
  BY <1>2, <1>3, <1>4a DEF CacheInv, CacheTypeOK
<1>6. CacheTypeOK'
  <2>1. bcache' \in [1..size' -> CacheSlot]
    BY <1>2, <1>3, <1>5 DEF CacheInv, CacheTypeOK
  <2>2. pins' \in [Clients -> (Pin \cup {NoPin})']
    BY <1>2, <1>3 DEF CacheInv, CacheTypeOK, Pin
  <2>. QED BY <2>1, <2>2, <1>3 DEF CacheTypeOK, Pin, CacheSlot
<1>7. /\ Holders(i)' = Holders(i) \cup {c}
      /\ \A j : j # i => Holders(j)' = Holders(j)
      /\ Cardinality(Holders(i)') = Cardinality(Holders(i)) + 1
  <2>1. i \in Nat \ {0} /\ CacheTypeOK
    BY <1>3 DEF CacheInv
  <2>. QED BY <1>2, <1>3, <2>1, HoldersAfterTake
<1>8. RefcountIsHolders'
  BY <1>3, <1>5, <1>7 DEF CacheInv, RefcountIsHolders
<1>9. OneSlotPerBlock' /\ NamedSlotHoldsBlock'
  BY <1>3, <1>5 DEF CacheInv, OneSlotPerBlock, NamedSlotHoldsBlock
<1>10. PinnedBufferKeepsItsBlock'
  <2> SUFFICES ASSUME NEW d \in Clients, pins'[d] # NoPin
               PROVE  /\ bcache'[pins'[d].slot].bno = pins'[d].bno
                      /\ bcache'[pins'[d].slot].data = pins'[d].bno
    BY DEF PinnedBufferKeepsItsBlock
  <2>1. CASE d = c
    BY <1>2, <1>3, <1>5, <2>1 DEF CacheInv, CacheTypeOK, NamedSlotHoldsBlock
  <2>2. CASE d # c
    <3>1. pins'[d] = pins[d] /\ pins[d].slot \in 1..size
      BY <1>2, <2>2 DEF CacheInv, CacheTypeOK, Pin
    <3>. QED BY <3>1, <1>5, <1>3 DEF CacheInv, PinnedBufferKeepsItsBlock
  <2>. QED BY <2>1, <2>2
<1>. QED BY <1>6, <1>8, <1>9, <1>10 DEF CacheInv
\* The table after a miss, read or failed: all but the victim are old slots or
\* fresh ones, so every conjunct that held before holds of them.
LEMMA GetMissStep ==
    ASSUME CacheInv, NEW c \in Clients, NEW b \in Blocks, NEW l \in CacheLevels, GetMiss(c, b, l)
    PROVE  CacheInv'
<1>0. PICK v : v = SlotToFill
  OBVIOUS
<1>1. /\ CacheTypeOK /\ Cached(b) = {} /\ size' = PreparedSize /\ pins[c] = NoPin
      /\ bcache' = [Prepared EXCEPT ![v] = FilledSlot(b, l)]
      /\ pins' = [pins EXCEPT ![c] = [bno |-> b, slot |-> v]]
  BY <1>0 DEF GetMiss, CacheInv
<1>2. /\ v \in 1..size' /\ size' \in Nat /\ size \in Nat /\ size <= size' /\ v \in Nat \ {0}
      /\ v > size => v = size + 1
  BY <1>0, <1>1, SlotToFillChoice DEF CacheTypeOK
<1>3. /\ FilledSlot(b, l) \in CacheSlot /\ FilledSlot(b, l).bno = b
      /\ FilledSlot(b, l).data = b /\ FilledSlot(b, l).ref = 1
  BY DEF FilledSlot, CacheSlot, CappedLevel
<1>4. /\ bcache' \in [1..size' -> CacheSlot] /\ bcache'[v] = FilledSlot(b, l)
      /\ \A i \in 1..size : i # v => bcache'[i] = bcache[i]
      /\ \A i \in 1..size' : i > size /\ i # v => bcache'[i] = FreshSlot
  BY <1>1, <1>2, <1>3, <1>0, PreparedTable
<1>5. Holders(v) = {} /\ Cardinality(Holders(v)) = 0
  BY <1>0, SlotToFillUnheld, FS_EmptySet
<1>6. /\ Cardinality(Holders(v)') = 1
      /\ \A i : i # v => Holders(i)' = Holders(i)
  <2>1. Cardinality(Holders(v)') = Cardinality(Holders(v)) + 1
        /\ \A i : i # v => Holders(i)' = Holders(i)
    BY <1>1, <1>2, HoldersAfterTake
  <2>. QED BY <2>1, <1>5
<1>7. CacheTypeOK'
  <2>1. pins' \in [Clients -> (Pin \cup {NoPin})']
    BY <1>1, <1>2 DEF CacheTypeOK, Pin
  <2>. QED BY <2>1, <1>2, <1>4 DEF CacheTypeOK, Pin, CacheSlot
<1>8. \A i \in 1..size' : i > size /\ i # v =>
        /\ bcache'[i].ref = 0 /\ bcache'[i].bno = Invalid
        /\ Cardinality(Holders(i)') = 0
  <2> TAKE i \in 1..size'
  <2> HAVE i > size /\ i # v
  <2>1. Holders(i) = {}
    BY <1>1 DEF CacheTypeOK, Holders, Pin
  <2>2. bcache'[i] = FreshSlot
    BY <1>4, Zenon
  <2>3. FreshSlot.ref = 0 /\ FreshSlot.bno = Invalid
    BY DEF FreshSlot
  <2>4. Holders(i)' = {}
    BY <2>1, <1>6, Zenon
  <2>. QED BY <2>2, <2>3, <2>4, FS_EmptySet, Zenon
<1>9. RefcountIsHolders'
  <2> SUFFICES ASSUME NEW i \in 1..size'
               PROVE  bcache'[i].ref = Cardinality(Holders(i)')
    BY DEF RefcountIsHolders
  <2>1. CASE i = v
    BY <2>1, <1>3, <1>4, <1>6
  <2>2. CASE i # v /\ i > size
    BY <2>2, <1>8
  <2>3. CASE i # v /\ i \in 1..size
    BY <2>3, <1>4, <1>6 DEF CacheInv, RefcountIsHolders
  <2>. QED BY <2>1, <2>2, <2>3, <1>2
<1>10. \A i \in 1..size : bcache[i].bno # b
  BY <1>1 DEF Cached
<1>11. \A i \in 1..size' : i # v /\ bcache'[i].bno # Invalid =>
        i \in 1..size /\ bcache'[i] = bcache[i] /\ bcache'[i].bno # b
  BY <1>2, <1>4, <1>8, <1>10
<1>12. OneSlotPerBlock' /\ NamedSlotHoldsBlock'
  BY <1>3, <1>4, <1>11 DEF CacheInv, OneSlotPerBlock, NamedSlotHoldsBlock
<1>13. PinnedBufferKeepsItsBlock'
  <2> SUFFICES ASSUME NEW d \in Clients, pins'[d] # NoPin
               PROVE  /\ bcache'[pins'[d].slot].bno = pins'[d].bno
                      /\ bcache'[pins'[d].slot].data = pins'[d].bno
    BY DEF PinnedBufferKeepsItsBlock
  <2>1. CASE d = c
    BY <1>1, <1>3, <1>4, <2>1 DEF CacheTypeOK
  <2>2. CASE d # c
    <3>1. pins'[d] = pins[d] /\ pins[d].slot \in 1..size
      BY <1>1, <2>2 DEF CacheTypeOK, Pin
    <3>2. pins[d].slot # v
      BY <1>5, <2>2, <3>1 DEF Holders
    <3>. QED BY <3>1, <3>2, <1>4 DEF CacheInv, PinnedBufferKeepsItsBlock
  <2>. QED BY <2>1, <2>2
<1>. QED BY <1>7, <1>9, <1>12, <1>13 DEF CacheInv

LEMMA GetFailsStep ==
    ASSUME CacheInv, NEW b \in Blocks, GetFails(b)
    PROVE  CacheInv'
<1>0. PICK v : v = SlotToFill
  OBVIOUS
<1>1. /\ CacheTypeOK /\ Cached(b) = {} /\ size' = PreparedSize /\ pins' = pins
      /\ bcache' = Prepared \/ bcache' = [Prepared EXCEPT ![v].data = Garbage]
  BY <1>0 DEF GetFails, CacheInv
<1>2. v \in 1..size' /\ size' \in Nat /\ size \in Nat /\ size <= size'
  BY <1>0, <1>1, SlotToFillChoice DEF CacheTypeOK
<1>3. \A r \in CacheSlot : /\ [r EXCEPT !.data = Garbage] \in CacheSlot
                       /\ [r EXCEPT !.data = Garbage].bno = r.bno
                       /\ [r EXCEPT !.data = Garbage].ref = r.ref
  BY DEF CacheSlot
<1>4. /\ bcache' \in [1..size' -> CacheSlot]
      /\ bcache'[v].bno = Invalid /\ bcache'[v].ref = Prepared[v].ref
      /\ \A i \in 1..size' : i # v => bcache'[i] = Prepared[i]
  BY <1>1, <1>2, <1>3, <1>0, PreparedTable, ZenonT(60)
<1>5. Holders(v) = {}
  BY <1>0, SlotToFillUnheld
<1>6. \A i : Holders(i)' = Holders(i)
  BY <1>1 DEF Holders
<1>7. \A i \in 1..size : i # v => bcache'[i] = bcache[i]
  BY <1>1, <1>2, <1>4, <1>0, PreparedTable
<1>8. \A i \in 1..size' : i > size /\ i # v => bcache'[i].bno = Invalid /\ bcache'[i].ref = 0
  BY <1>1, <1>4, <1>0, PreparedTable DEF FreshSlot
<1>9. bcache'[v].ref = 0
  <2>1. CASE v > size
    BY <2>1, <1>1, <1>4, <1>0, PreparedTable
  <2>2. CASE v \in 1..size
    BY <2>2, <1>1, <1>4, <1>5, <1>0, PreparedTable, FS_EmptySet DEF CacheInv, RefcountIsHolders
  <2>. QED BY <2>1, <2>2, <1>2
<1>10. CacheTypeOK'
  <2>1. pins' \in [Clients -> (Pin \cup {NoPin})']
    BY <1>1, <1>2 DEF CacheTypeOK, Pin
  <2>. QED BY <2>1, <1>2, <1>4 DEF CacheTypeOK, Pin, CacheSlot
<1>11. RefcountIsHolders'
  <2> SUFFICES ASSUME NEW i \in 1..size'
               PROVE  bcache'[i].ref = Cardinality(Holders(i)')
    BY DEF RefcountIsHolders
  <2>1. CASE i = v
    BY <2>1, <1>5, <1>6, <1>9, FS_EmptySet
  <2>2. CASE i # v /\ i > size
    <3>1. Holders(i) = {}
      BY <1>1, <2>2 DEF CacheTypeOK, Holders, Pin
    <3>. QED BY <3>1, <2>2, <1>6, <1>8, FS_EmptySet
  <2>3. CASE i # v /\ i \in 1..size
    BY <2>3, <1>6, <1>7 DEF CacheInv, RefcountIsHolders
  <2>. QED BY <2>1, <2>2, <2>3, <1>2
<1>12. \A i \in 1..size' : bcache'[i].bno # Invalid =>
        i \in 1..size /\ i # v /\ bcache'[i] = bcache[i]
  BY <1>2, <1>4, <1>7, <1>8
<1>13. OneSlotPerBlock' /\ NamedSlotHoldsBlock'
  BY <1>12 DEF CacheInv, OneSlotPerBlock, NamedSlotHoldsBlock
<1>14. PinnedBufferKeepsItsBlock'
  <2> SUFFICES ASSUME NEW d \in Clients, pins[d] # NoPin
               PROVE  /\ bcache'[pins[d].slot].bno = pins[d].bno
                      /\ bcache'[pins[d].slot].data = pins[d].bno
    BY <1>1 DEF PinnedBufferKeepsItsBlock
  <2>1. pins[d].slot \in 1..size /\ pins[d].slot # v
    BY <1>1, <1>5 DEF CacheTypeOK, Pin, Holders
  <2>. QED BY <2>1, <1>7 DEF CacheInv, PinnedBufferKeepsItsBlock
<1>. QED BY <1>10, <1>11, <1>13, <1>14 DEF CacheInv
LEMMA ReleaseStep ==
    ASSUME CacheInv, NEW c \in Clients, Release(c)
    PROVE  CacheInv'
<1>1. PICK b, s : pins[c] = [bno |-> b, slot |-> s] /\ b \in Blocks /\ s \in 1..size
  BY DEF Release, CacheInv, CacheTypeOK, Pin
<1>2. /\ CacheTypeOK /\ size' = size /\ size \in Nat /\ pins' = [pins EXCEPT ![c] = NoPin]
      /\ bcache' = [i \in 1..size |->
             IF bcache[i].ref > 0 /\ bcache[i].bno = b
             THEN [bcache[i] EXCEPT !.ref = @ - 1] ELSE bcache[i]]
      /\ pins[c] # NoPin
  BY <1>1 DEF Release, CacheInv, CacheTypeOK
<1>3. bcache[s].bno = b /\ bcache[s].data = b /\ bcache[s] \in CacheSlot
  BY <1>1, <1>2 DEF CacheInv, PinnedBufferKeepsItsBlock, CacheTypeOK
<1>4. \A i \in 1..size : i # s => bcache[i].bno # b
  BY <1>1, <1>3 DEF CacheInv, OneSlotPerBlock
<1>5. c \in Holders(s) /\ Holders(s)' = Holders(s) \ {c}
      /\ \A i : i # s => Holders(i)' = Holders(i)
  BY <1>1, <1>2 DEF Holders, CacheTypeOK, NoPin
<1>6. IsFiniteSet(Holders(s))
  BY FS_Subset DEF Holders
<1>7. Cardinality(Holders(s)') = Cardinality(Holders(s)) - 1 /\ Cardinality(Holders(s)) \in Nat
  BY <1>5, <1>6, FS_RemoveElement, FS_CardinalityType
<1>8. Cardinality(Holders(s)) > 0
  BY <1>5, <1>6, <1>7, FS_EmptySet
<1>9. bcache[s].ref = Cardinality(Holders(s))
  BY <1>1 DEF CacheInv, RefcountIsHolders
<1>10. /\ bcache'[s].ref = bcache[s].ref - 1 /\ bcache'[s].bno = b /\ bcache'[s].data = b
       /\ bcache'[s] \in CacheSlot
  <2>1. bcache'[s] = [bcache[s] EXCEPT !.ref = @ - 1]
    BY <1>1, <1>2, <1>3, <1>8, <1>9
  <2>2. bcache[s].ref - 1 \in Nat
    BY <1>7, <1>8, <1>9
  <2>. QED BY <2>1, <2>2, <1>3 DEF CacheSlot
<1>11. \A i \in 1..size : i # s => bcache'[i] = bcache[i]
  BY <1>2, <1>4
<1>12. CacheTypeOK'
  <2>1. \A i \in 1..size : bcache'[i] \in CacheSlot
    BY <1>2, <1>10, <1>11 DEF CacheTypeOK
  <2>2. bcache' = [i \in 1..size' |-> bcache'[i]]
    BY <1>2
  <2>3. bcache' \in [1..size' -> CacheSlot]
    BY <2>1, <2>2, <1>2
  <2>. QED BY <2>3, <1>2 DEF CacheTypeOK, Pin, CacheSlot
<1>13. RefcountIsHolders'
  <2> SUFFICES ASSUME NEW i \in 1..size
               PROVE  bcache'[i].ref = Cardinality(Holders(i)')
    BY <1>2 DEF RefcountIsHolders
  <2>1. CASE i = s
    BY <2>1, <1>7, <1>9, <1>10
  <2>2. CASE i # s
    BY <2>2, <1>5, <1>11 DEF CacheInv, RefcountIsHolders
  <2>. QED BY <2>1, <2>2
<1>14. OneSlotPerBlock' /\ NamedSlotHoldsBlock'
  <2>1. \A i \in 1..size : bcache'[i].bno = bcache[i].bno /\ bcache'[i].data = bcache[i].data
    BY <1>3, <1>10, <1>11
  <2>. QED BY <2>1, <1>2 DEF CacheInv, OneSlotPerBlock, NamedSlotHoldsBlock
<1>15. PinnedBufferKeepsItsBlock'
  <2> SUFFICES ASSUME NEW d \in Clients, pins'[d] # NoPin
               PROVE  /\ bcache'[pins'[d].slot].bno = pins'[d].bno
                      /\ bcache'[pins'[d].slot].data = pins'[d].bno
    BY DEF PinnedBufferKeepsItsBlock
  <2>1. pins'[d] = pins[d] /\ pins[d].slot \in 1..size
    BY <1>2 DEF CacheTypeOK, Pin
  <2>2. bcache[pins[d].slot].bno = pins[d].bno /\ bcache[pins[d].slot].data = pins[d].bno
    BY <2>1 DEF CacheInv, PinnedBufferKeepsItsBlock
  <2>. QED BY <2>1, <2>2, <1>3, <1>10, <1>11
<1>. QED BY <1>12, <1>13, <1>14, <1>15 DEF CacheInv

LEMMA FreeStep ==
    ASSUME CacheInv, Free
    PROVE  CacheInv'
BY DEF Free, CacheInv, CacheTypeOK, PinnedBufferKeepsItsBlock, RefcountIsHolders,
       OneSlotPerBlock, NamedSlotHoldsBlock, CacheSlot, Pin, NoPin

\* Every call of fsw_block_get and fsw_block_release, whatever fails in it, and
\* every fsw_blockcache_free preserve the inductive invariant.
THEOREM CacheInductive == CacheSpec => []CacheInv
<1>1. CacheInv /\ [CacheNext]_cacheVars => CacheInv'
  <2> SUFFICES ASSUME CacheInv, [CacheNext]_cacheVars PROVE CacheInv'
    OBVIOUS
  <2>1. ASSUME NEW c \in Clients, NEW b \in Blocks, NEW l \in CacheLevels, GetHit(c, b, l)
        PROVE  CacheInv'
    BY <2>1, GetHitStep
  <2>2. ASSUME NEW c \in Clients, NEW b \in Blocks, NEW l \in CacheLevels, GetMiss(c, b, l)
        PROVE  CacheInv'
    BY <2>2, GetMissStep
  <2>3. ASSUME NEW b \in Blocks, GetFails(b)
        PROVE  CacheInv'
    BY <2>3, GetFailsStep
  <2>4. ASSUME NEW c \in Clients, Release(c)
        PROVE  CacheInv'
    BY <2>4, ReleaseStep
  <2>5. CASE Free
    BY <2>5, FreeStep
  <2>6. CASE UNCHANGED cacheVars
    BY <2>6 DEF cacheVars, CacheInv, CacheTypeOK, PinnedBufferKeepsItsBlock, RefcountIsHolders,
                OneSlotPerBlock, NamedSlotHoldsBlock, CacheSlot, Pin, Holders
  <2>. QED BY <2>1, <2>2, <2>3, <2>4, <2>5, <2>6 DEF CacheNext
<1>. QED BY <1>1, InitCacheInv, PTL DEF CacheSpec

\* Types of the block cache, for every size of the table.
THEOREM CacheTypeCorrect == CacheSpec => []CacheTypeOK
BY CacheInductive, PTL DEF CacheInv

\* A caller of fsw_block_get keeps the block it asked for until it releases it.
THEOREM PinsAreSafe == CacheSpec => []PinnedBufferKeepsItsBlock
BY CacheInductive, PTL DEF CacheInv

\* No call, failed or not, leaks or loses a pin.
THEOREM RefcountsBalance == CacheSpec => []RefcountIsHolders
BY CacheInductive, PTL DEF CacheInv

\* A block is never in two slots, and a slot that names a block holds it.
THEOREM NamesHold == CacheSpec => []NamesAreTrue
BY CacheInductive, PTL DEF CacheInv, NamesAreTrue

\* The table is only ever extended when no slot of it could be evicted.
LEMMA GrowthNeedsPins ==
    ASSUME CacheTypeOK, SlotToFill > size
    PROVE  \A i \in 1..size : bcache[i].ref > 0
<1> SUFFICES ASSUME NEW i \in 1..size, ~(bcache[i].ref > 0)
             PROVE  FALSE
  OBVIOUS
<1>1. bcache[i].ref = 0 /\ bcache[i].level \in DiscardLevels /\ bcache[i].level <= MaxCacheLevel
  BY DEF CacheTypeOK, CacheSlot, DiscardLevels
<1>2. size \in Nat
  BY DEF CacheTypeOK
<1>3. Discardable(bcache[i].level) # {}
  BY <1>1 DEF Discardable, DiscardLevels
<1> DEFINE D == {d \in DiscardLevels : Discardable(d) # {}}
           low == CHOOSE d \in DiscardLevels :
                       /\ Discardable(d) # {}
                       /\ \A e \in 0..(d - 1) : Discardable(e) = {}
<1>4. PICK d \in D : \A e \in D : d <= e
  <2>1. D \in SUBSET Nat /\ D # {}
    BY <1>1, <1>3 DEF DiscardLevels
  <2>. QED BY <2>1, FirstOfIsMember
<1>5. \A e \in 0..(d - 1) : Discardable(e) = {}
  BY <1>4 DEF DiscardLevels
<1>6. low \in DiscardLevels /\ Discardable(low) # {}
  BY <1>4, <1>5
<1> HIDE DEF low
<1>7. Cached(Invalid) \in SUBSET Nat /\ Discardable(low) \in SUBSET Nat
  BY <1>2 DEF Cached, Discardable
<1>8. CASE Cached(Invalid) # {}
  BY <1>8, <1>7, FirstOfIsMember, <1>2 DEF SlotToFill, Cached
<1>9. CASE Cached(Invalid) = {}
  <2>1. SlotToFill = FirstOf(Discardable(low))
    BY <1>9, <1>1, <1>3 DEF SlotToFill, low
  <2>. QED BY <2>1, <1>2, <1>6, <1>7, FirstOfIsMember DEF Discardable
<1>. QED BY <1>8, <1>9

\* A slot that loses its block was the cheapest one nobody held.
LEMMA SlotToFillIsLowest ==
    ASSUME CacheTypeOK, SlotToFill <= size, bcache[SlotToFill].bno # Invalid
    PROVE  \A j \in 1..size :
              /\ bcache[j].bno # Invalid
              /\ bcache[j].ref = 0 => bcache[SlotToFill].level <= bcache[j].level
<1>1. size \in Nat /\ Cached(Invalid) \in SUBSET Nat
  BY DEF CacheTypeOK, Cached
<1>2. Cached(Invalid) = {}
  <2> SUFFICES ASSUME Cached(Invalid) # {} PROVE FALSE
    OBVIOUS
  <2>1. FirstOf(Cached(Invalid)) \in Cached(Invalid)
    BY <1>1, FirstOfIsMember
  <2>. QED BY <2>1 DEF SlotToFill, Cached
<1>3. \A j \in 1..size : bcache[j].bno # Invalid
  BY <1>2 DEF Cached
<1> DEFINE D == {d \in DiscardLevels : Discardable(d) # {}}
           low == CHOOSE d \in DiscardLevels :
                       /\ Discardable(d) # {}
                       /\ \A e \in 0..(d - 1) : Discardable(e) = {}
<1>4. \E d \in DiscardLevels : Discardable(d) # {}
  BY <1>1, <1>2 DEF SlotToFill
<1>5. PICK d \in D : \A e \in D : d <= e
  <2>1. D \in SUBSET Nat /\ D # {}
    BY <1>4 DEF DiscardLevels
  <2>. QED BY <2>1, FirstOfIsMember
<1>6. \A e \in 0..(d - 1) : Discardable(e) = {}
  BY <1>5 DEF DiscardLevels
<1>7. /\ low \in DiscardLevels /\ Discardable(low) # {}
      /\ \A e \in 0..(low - 1) : Discardable(e) = {}
  BY <1>5, <1>6
<1> HIDE DEF low
<1>8. SlotToFill \in Discardable(low)
  <2>1. Discardable(low) \in SUBSET Nat
    BY <1>1 DEF Discardable
  <2>2. SlotToFill = FirstOf(Discardable(low))
    BY <1>2, <1>4 DEF SlotToFill, low
  <2>. QED BY <1>7, <2>1, <2>2, FirstOfIsMember
<1>9. ASSUME NEW j \in 1..size, bcache[j].ref = 0
      PROVE  bcache[SlotToFill].level <= bcache[j].level
  <2>1. /\ bcache[j].level \in 0..MaxCacheLevel
        /\ SlotToFill \in 1..size /\ bcache[SlotToFill].level \in 0..MaxCacheLevel
        /\ bcache[SlotToFill].level <= low /\ low \in Nat
    BY <1>7, <1>8 DEF CacheTypeOK, CacheSlot, Discardable, DiscardLevels
  <2>2. Discardable(bcache[j].level) # {}
    BY <1>9, <2>1 DEF Discardable
  <2>3. ~(bcache[j].level < low)
    BY <1>7, <2>1, <2>2
  <2>. QED BY <2>1, <2>3, CacheAssumption
<1>. QED BY <1>3, <1>9

\* fsw_block_get prefers eviction to growth, and evicts by cache level.
THEOREM ReplacementIsOrdered == CacheSpec => ReplacementOrder
<1>1. CacheInv /\ [CacheNext]_cacheVars => [GrowOnlyWhenAllPinned /\ EvictLowestLevel]_cacheVars
  <2> SUFFICES ASSUME CacheInv, CacheNext PROVE GrowOnlyWhenAllPinned /\ EvictLowestLevel
    OBVIOUS
  <2>1. CacheTypeOK /\ size \in Nat
    BY DEF CacheInv, CacheTypeOK
  <2>2. ASSUME size' > size PROVE \A i \in 1..size : bcache[i].ref > 0
    <3>1. size' = PreparedSize
      BY <2>1, <2>2 DEF CacheNext, GetHit, GetMiss, GetFails, Release, Free
    <3>2. SlotToFill > size
      BY <2>1, <2>2, <3>1 DEF PreparedSize
    <3>. QED BY <2>1, <3>2, GrowthNeedsPins
  <2>3. ASSUME NEW i \in 1..size, size' >= size, bcache[i].bno # Invalid,
               bcache'[i].bno # bcache[i].bno
        PROVE  i = SlotToFill
    <3>1. bcache \in [1..size -> CacheSlot] /\ size >= 1
      BY <2>1 DEF CacheTypeOK
    <3>2. ASSUME NEW c \in Clients, NEW b \in Blocks, NEW l \in CacheLevels, GetHit(c, b, l)
          PROVE  FALSE
      BY <2>3, <3>1, <3>2 DEF GetHit, Repinned
    <3>3. ASSUME NEW c \in Clients, NEW b \in Blocks, NEW l \in CacheLevels, GetMiss(c, b, l)
          PROVE  i = SlotToFill
      BY <2>1, <2>3, <3>3, PreparedTable DEF GetMiss
    <3>4. ASSUME NEW b \in Blocks, GetFails(b)
          PROVE  i = SlotToFill
      <4> SUFFICES ASSUME i # SlotToFill PROVE FALSE
        OBVIOUS
      <4>1. Prepared[i] = bcache[i] /\ i \in DOMAIN Prepared
        BY <2>1, SlotToFillChoice, PreparedTable
      <4>2. CASE bcache' = Prepared
        BY <2>3, <4>1, <4>2
      <4>3. CASE bcache' = [Prepared EXCEPT ![SlotToFill].data = Garbage]
        BY <2>3, <4>1, <4>3
      <4>. QED BY <3>4, <4>2, <4>3 DEF GetFails
    <3>5. ASSUME NEW c \in Clients, Release(c) PROVE FALSE
      BY <2>3, <3>1, <3>5 DEF Release, CacheSlot
    <3>6. CASE Free
      BY <2>1, <2>3, <3>1, <3>6 DEF Free
    <3>. QED BY <3>2, <3>3, <3>4, <3>5, <3>6 DEF CacheNext
  <2>4. EvictLowestLevel
    BY <2>1, <2>3, SlotToFillIsLowest DEF EvictLowestLevel
  <2>. QED BY <2>2, <2>4 DEF GrowOnlyWhenAllPinned
<1>. QED BY <1>1, CacheInductive, PTL DEF ReplacementOrder, CacheSpec

HIDE CacheAssumption

-----------------------------------------------------------------------------
(* Reading through a handle, over every driver that answers rightly.  The    *)
(* inductive invariant says what a call has copied so far: the bytes of the *)
(* file from the position on.  The step that needs it most is the copy out  *)
(* of one disk block, where the offsets of the read, of the run and of the  *)
(* block meet; the lemmas on division are for it.                           *)

USE BlockAssumption, DnodeAssumption DEF BlockAssumption, DnodeAssumption

\* What the call is to deliver.
ToRead == IF result.len < file.size - pos THEN result.len ELSE file.size - pos

\* The call stands where what it has copied ends, and has copied the file.
CallOfRead ==
    pc # "idle" =>
        /\ result.from = pos
        /\ ~result.ok
        /\ at = pos + Len(buf)
        /\ at + left = pos + ToRead
        /\ buf = [i \in 1..Len(buf) |-> Byte(pos + i - 1)]

\* What is copied from next is a run of the file that holds the byte wanted.
CopyHasRun ==
    pc = "copy" =>
        /\ left > 0
        /\ RunOfFile(ext)
        /\ Block \in ext.start..(ext.start + ext.count - 1)

\* The inductive invariant.
DnodeInv ==
    /\ DnodeTypeOK
    /\ ExtentIsOfFile
    /\ CallOfRead
    /\ CopyHasRun
    /\ ReadReturnsFile

\* Quotient and remainder.
LEMMA Division ==
    ASSUME NEW x \in Nat, NEW m \in Nat \ {0}
    PROVE  /\ x \div m \in Nat
           /\ x % m \in 0..(m - 1)
           /\ x = m * (x \div m) + (x % m)
BY SMT

\* A larger number of blocks is not shorter.
LEMMA Monotone ==
    ASSUME NEW a \in Nat, NEW b \in Nat, NEW m \in Nat, a <= b
    PROVE  a * m <= b * m /\ a * m \in Nat /\ b * m \in Nat
<1>1. PICK k \in Nat : b = a + k
  BY b - a \in Nat, b = a + (b - a)
<1>2. b * m = a * m + k * m
  BY <1>1
<1>3. a * m \in Nat /\ k * m \in Nat
  OBVIOUS
<1>. QED BY <1>2, <1>3

\* They are the only ones.
LEMMA DivisionIsUnique ==
    ASSUME NEW q \in Nat, NEW r \in Nat, NEW m \in Nat \ {0}, r < m
    PROVE  (m * q + r) \div m = q /\ (m * q + r) % m = r
<1> DEFINE x == m * q + r
           k == x \div m
<1>1. m * q \in Nat /\ x \in Nat
  OBVIOUS
<1>2. k \in Nat /\ x % m \in 0..(m - 1) /\ x = m * k + (x % m)
  BY <1>1, Division
<1> HIDE DEF k
<1>3. ASSUME NEW a \in Nat, NEW b \in Nat, a < b
      PROVE  m * a + m <= m * b
  <2>1. (a + 1) * m <= b * m
    BY <1>3, Monotone
  <2>2. (a + 1) * m = m * a + m /\ b * m = m * b
    OBVIOUS
  <2>. QED BY <2>1, <2>2
<1>4. ~(q < k)
  <2>1. SUFFICES ASSUME q < k PROVE FALSE
    OBVIOUS
  <2>2. m * q + m <= m * k
    BY <2>1, <1>2, <1>3
  <2>. QED BY <2>2, <1>1, <1>2
<1>5. ~(k < q)
  <2>1. SUFFICES ASSUME k < q PROVE FALSE
    OBVIOUS
  <2>2. m * k + m <= m * q
    BY <2>1, <1>2, <1>3
  <2>3. m * k \in Nat
    BY <1>2
  <2>. QED BY <2>2, <2>3, <1>1, <1>2
<1>6. k = q
  BY <1>2, <1>4, <1>5
<1>7. x % m = r
  BY <1>1, <1>2, <1>6
<1>. QED BY <1>6, <1>7 DEF k

\* Bytes of one block differ in their offset in it alone.
LEMMA SameBlock ==
    ASSUME NEW d \in Nat, NEW m \in Nat \ {0}, NEW i \in Nat, i < m - (d % m)
    PROVE  (d + i) \div m = d \div m /\ (d + i) % m = (d % m) + i
<1> DEFINE q == d \div m
           r == d % m
<1>1. d = m * q + r /\ q \in Nat /\ r \in Nat /\ r + i < m
  BY Division
<1> HIDE DEF q, r
<1>2. (m * q + (r + i)) \div m = q /\ (m * q + (r + i)) % m = r + i
  BY <1>1, DivisionIsUnique
<1>3. d + i = m * q + (r + i)
  BY <1>1
<1>. QED BY <1>2, <1>3 DEF q, r

\* Where a length is one of whole blocks, a block that starts in it ends in it.
LEMMA WholeBlocks ==
    ASSUME NEW l \in Nat, NEW m \in Nat \ {0}, l % m = 0,
           NEW c \in Nat, NEW d \in Nat, d < c * l
    PROVE  d + (m - (d % m)) <= c * l
<1> DEFINE q == d \div m
           k == l \div m
<1>1. l = m * k /\ k \in Nat /\ d = m * q + (d % m) /\ q \in Nat /\ d % m \in Nat
  BY Division
<1>2. c * l = (c * k) * m /\ c * k \in Nat
  BY <1>1
<1>3. q + 1 <= c * k
  <2>1. CASE c * k <= q
    <3>1. (c * k) * m <= q * m
      BY <2>1, <1>1, <1>2, Monotone
    <3>2. q * m = m * q /\ q * m \in Nat
      BY <1>1
    <3>. QED BY <3>1, <3>2, <1>1, <1>2
  <2>. QED BY <2>1, <1>1, <1>2
<1>4. (q + 1) * m <= (c * k) * m
  BY <1>3, <1>1, <1>2, Monotone
<1>5. (q + 1) * m = m * q + m
  BY <1>1
<1>. QED BY <1>1, <1>2, <1>4, <1>5

\* A byte whose block is one of c blocks from block s on lies between their ends.
LEMMA InsideRun ==
    ASSUME NEW x \in Nat, NEW l \in Nat \ {0}, NEW s \in Nat, NEW c \in Nat,
           x \div l \in s..(s + c - 1)
    PROVE  /\ s * l <= x
           /\ x < (s + c) * l
           /\ x - s * l \in Nat
           /\ (s + c) * l = s * l + c * l
           /\ x - s * l < c * l
<1> DEFINE q == x \div l
<1>1. q \in Nat /\ x % l \in 0..(l - 1) /\ x = l * q + (x % l)
  BY Division
<1>2. s * l <= q * l /\ s * l \in Nat
  BY <1>1, Monotone
<1>3. (q + 1) * l <= (s + c) * l
  BY <1>1, Monotone
<1>4. q * l = l * q /\ (q + 1) * l = l * q + l /\ (s + c) * l = s * l + c * l
  BY <1>1
<1>. QED BY <1>1, <1>2, <1>3, <1>4

\* Where the call stands in the run it copies from.
LEMMA InRunFacts ==
    ASSUME DnodeTypeOK, CopyHasRun, pc = "copy"
    PROVE  /\ left \in Nat \ {0} /\ at \in Nat
           /\ PosInExtent \in Nat
           /\ ext.start * LogBlock \in Nat /\ ext.count * LogBlock \in Nat
           /\ at = ext.start * LogBlock + PosInExtent
           /\ PosInExtent < ext.count * LogBlock
           /\ (ext.start + ext.count) * LogBlock = ext.start * LogBlock + ext.count * LogBlock
           /\ at + left <= file.size
           /\ RunOfFile(ext)
<1>1. /\ left \in Nat /\ at \in Nat /\ ext.start \in Nat /\ ext.count \in Nat
      /\ at + left <= file.size
  BY DEF DnodeTypeOK, ExtentRecord
<1>2. left > 0 /\ RunOfFile(ext) /\ at \div LogBlock \in ext.start..(ext.start + ext.count - 1)
  BY DEF CopyHasRun, Block
<1>3. ext.start * LogBlock \in Nat /\ ext.count * LogBlock \in Nat
  BY <1>1
<1>4. /\ ext.start * LogBlock <= at
      /\ (ext.start + ext.count) * LogBlock = ext.start * LogBlock + ext.count * LogBlock
      /\ at - ext.start * LogBlock \in Nat
      /\ at - ext.start * LogBlock < ext.count * LogBlock
  <2> DEFINE s == ext.start
             c == ext.count
  <2>1. s \in Nat /\ c \in Nat /\ at \in Nat /\ at \div LogBlock \in s..(s + c - 1)
    BY <1>1, <1>2
  <2>2. LogBlock \in Nat \ {0}
    OBVIOUS
  <2> HIDE DEF s, c
  <2>3. /\ s * LogBlock <= at
        /\ at < (s + c) * LogBlock
        /\ at - s * LogBlock \in Nat
        /\ (s + c) * LogBlock = s * LogBlock + c * LogBlock
        /\ at - s * LogBlock < c * LogBlock
    BY <2>1, <2>2, InsideRun
  <2>. QED BY <2>3 DEF s, c
<1>. QED BY <1>1, <1>2, <1>3, <1>4 DEF PosInExtent

\* The run says the truth of every byte up to its end and that of the call.
LEMMA RunSaysByte ==
    ASSUME DnodeTypeOK, CopyHasRun, pc = "copy", NEW i \in Nat,
           PosInExtent + i < ext.count * LogBlock, i < left
    PROVE  SaysByte(ext, PosInExtent + i, Byte(at + i))
<1> DEFINE x == at + i
<1>1. x \in (ext.start * LogBlock)..((ext.start + ext.count) * LogBlock - 1)
  BY InRunFacts
<1>2. file \in Files /\ file.size \in Nat /\ x < file.size
  BY InRunFacts, SMTT(60) DEF DnodeTypeOK
<1>3. x - ext.start * LogBlock = PosInExtent + i
  BY InRunFacts
<1>4. SaysByte(ext, x - ext.start * LogBlock, Byte(x))
  BY <1>1, <1>2, InRunFacts DEF RunOfFile
<1>. QED BY <1>3, <1>4

\* Bytes of the file appended keep the invariant, and there is less left to read.
LEMMA CopiedIsRight ==
    ASSUME DnodeInv, pc = "copy", NEW bytes \in Seq(Int \X Int),
           Len(bytes) \in 1..left,
           \A i \in 1..Len(bytes) : bytes[i] = Byte(at + i - 1),
           Copied(bytes)
    PROVE  DnodeInv' /\ left' < left
<1> DEFINE n == Len(bytes)
           b == buf \o bytes
<1>1. /\ pos \in Nat /\ at \in Nat /\ left \in Nat /\ buf \in Seq(Int \X Int)
      /\ at + left <= file.size /\ n \in Nat
  BY DEF DnodeInv, DnodeTypeOK
<1>2. /\ at = pos + Len(buf) /\ at + left = pos + ToRead /\ Len(buf) \in Nat
      /\ \A i \in 1..Len(buf) : buf[i] = Byte(pos + i - 1)
      /\ result.from = pos /\ ~result.ok
  <2>1. CallOfRead /\ Len(buf) \in Nat
    BY <1>1 DEF DnodeInv
  <2>. QED BY <2>1 DEF CallOfRead
<1>3. /\ buf' = b /\ at' = at + n /\ left' = left - n /\ pc' = "loop"
      /\ UNCHANGED <<file, bad, pos, ext, kept, result>>
  BY DEF Copied
<1>4. b \in Seq(Int \X Int) /\ Len(b) = Len(buf) + n
  BY <1>1
<1>5. \A i \in 1..Len(b) : b[i] = Byte(pos + i - 1)
  <2> TAKE i \in 1..Len(b)
  <2>1. CASE i <= Len(buf)
    <3>1. b[i] = buf[i]
      BY <1>1, <1>2, <1>4, <2>1
    <3>. QED BY <3>1, <1>2, <2>1
  <2>2. CASE i > Len(buf)
    <3> DEFINE k == i - Len(buf)
    <3>1. k \in 1..n /\ b[i] = bytes[k]
      BY <1>1, <1>2, <1>4, <2>2
    <3>2. at + k - 1 = pos + i - 1
      BY <1>1, <1>2, <2>2
    <3>. QED BY <3>1, <3>2
  <2>. QED BY <1>2, <1>4, <2>1, <2>2
<1>6. b = [i \in 1..Len(b) |-> Byte(pos + i - 1)]
  <2> HIDE DEF b
  <2>1. b = [i \in 1..Len(b) |-> b[i]]
    BY <1>4
  <2>. QED BY <2>1, <1>5
<1>7. \A x : Byte(x)' = Byte(x)
  BY <1>3 DEF Byte
<1>8. DnodeTypeOK'
  BY <1>1, <1>3, <1>4 DEF DnodeInv, DnodeTypeOK
<1>9. ExtentIsOfFile'
  BY <1>3 DEF DnodeInv, ExtentIsOfFile, RunOfFile, SaysByte, Byte
<1>10. CallOfRead'
  <2>1. ToRead' = ToRead
    BY <1>3 DEF ToRead
  <2>2. buf' = [i \in 1..Len(buf') |-> FileBytes[file'][pos' + i - 1 + 1]]
    BY <1>3, <1>6 DEF Byte
  <2>3. at' = pos' + Len(buf') /\ at' + left' = pos' + ToRead'
    BY <1>1, <1>2, <1>3, <1>4, <2>1 DEF ToRead
  <2>. QED BY <1>2, <1>3, <2>2, <2>3 DEF CallOfRead, Byte
<1>11. CopyHasRun' /\ ReadReturnsFile'
  BY <1>2, <1>3 DEF CopyHasRun, ReadReturnsFile
<1>. QED BY <1>1, <1>3, <1>8, <1>9, <1>10, <1>11 DEF DnodeInv

\* From a disk block: to its end at most, which the run reaches.
LEMMA CopyBlockKeeps ==
    ASSUME DnodeInv, CopyBlock
    PROVE  DnodeInv' /\ left' < left
<1> DEFINE m == PhysSize[file]
           o == PosInExtent % m
           n == IF m - o > left THEN left ELSE m - o
           bytes == FromDisk(PhysBno, o, n)
<1>1. DnodeTypeOK /\ CopyHasRun /\ pc = "copy" /\ ext.type = "phys" /\ Copied(bytes)
  BY DEF CopyBlock, DnodeInv
<1>2. /\ m \in Nat \ {0} /\ LogBlock % m = 0 /\ ext.phys \in Nat /\ ext.count \in Nat
      /\ LogBlock \in Nat
  BY <1>1 DEF DnodeTypeOK, ExtentRecord
<1>3. /\ left \in Nat \ {0} /\ PosInExtent \in Nat /\ PosInExtent < ext.count * LogBlock
      /\ at \in Nat /\ ext.count * LogBlock \in Nat
  BY <1>1, InRunFacts
<1> HIDE DEF m
<1>4. o \in 0..(m - 1) /\ PosInExtent \div m \in Nat
  BY <1>2, <1>3, Division
<1>5. n \in 1..left /\ n <= m - o
  BY <1>2, <1>3, <1>4
<1>6. PosInExtent + (m - o) <= ext.count * LogBlock
  BY <1>2, <1>3, WholeBlocks
<1>7. PhysBno = ext.phys + PosInExtent \div m /\ PhysBno \in Nat
  BY <1>2, <1>4 DEF PhysBno, m
<1> HIDE DEF o, n
<1>8. /\ bytes \in Seq(Int \X Int) /\ Len(bytes) = n
      /\ \A i \in 1..n : bytes[i] = <<PhysBno, o + i - 1>>
  BY <1>4, <1>5, <1>7, <1>3 DEF FromDisk
<1>9. ASSUME NEW i \in 1..Len(bytes)
      PROVE  bytes[i] = Byte(at + i - 1)
  <2> DEFINE d == i - 1
  <2>1. /\ d \in Nat /\ d < m - o /\ d < left /\ i \in 1..n
        /\ PosInExtent + d < ext.count * LogBlock /\ at + i - 1 = at + d
        /\ o + i - 1 = o + d
    BY <1>2, <1>3, <1>4, <1>5, <1>6, <1>8, SMTT(60)
  <2> HIDE DEF d
  <2>2. SaysByte(ext, PosInExtent + d, Byte(at + d))
    BY <1>1, <2>1, RunSaysByte
  <2>3. /\ (PosInExtent + d) \div m = PosInExtent \div m
        /\ (PosInExtent + d) % m = o + d
    <3>1. d < m - (PosInExtent % m) /\ d \in Nat /\ m \in Nat \ {0} /\ PosInExtent \in Nat
      BY <1>2, <1>3, <2>1 DEF o
    <3>. QED BY <3>1, SameBlock DEF o
  <2>4. Byte(at + d) = <<ext.phys + PosInExtent \div m, o + d>>
    BY <1>1, <2>2, <2>3 DEF SaysByte, m
  <2>. QED BY <1>7, <1>8, <2>1, <2>4
<1>10. Len(bytes) \in 1..left
  BY <1>5, <1>8
<1>. QED BY <1>1, <1>8, <1>9, <1>10, CopiedIsRight

\* A hole or a buffer is copied to its end at most: its length fits into a fsw_u32.
LEMMA HoleBytesInside ==
    ASSUME DnodeTypeOK, CopyHasRun, pc = "copy", ext.type # "phys"
    PROVE  /\ HoleBytes \in 1..left
           /\ PosInExtent + HoleBytes <= ext.count * LogBlock
<1> DEFINE c == ext.count * LogBlock
<1>1. /\ left \in Nat \ {0} /\ PosInExtent \in Nat /\ PosInExtent < c /\ c \in Nat
      /\ RunOfFile(ext)
  BY InRunFacts
<1>2. c < Word
  BY <1>1 DEF RunOfFile
<1>3. c % Word = c
  <2> HIDE DEF c
  <2>1. (Word * 0 + c) % Word = c
    BY <1>1, <1>2, DivisionIsUnique
  <2>. QED BY <2>1, <1>1
<1>. QED BY <1>1, <1>3 DEF HoleBytes

\* Zeros for a hole.
LEMMA CopyZerosKeeps ==
    ASSUME DnodeInv, CopyZeros
    PROVE  DnodeInv' /\ left' < left
<1> DEFINE n == HoleBytes
           c == ext.count * LogBlock
           bytes == [i \in 1..n |-> Zero]
<1>1. /\ DnodeTypeOK /\ CopyHasRun /\ pc = "copy"
      /\ ext.type # "phys" /\ ext.type # "buffer" /\ Copied(bytes)
  BY DEF CopyZeros, DnodeInv
<1>2. n \in 1..left /\ PosInExtent + n <= c
  BY <1>1, HoleBytesInside
<1>3. left \in Nat /\ at \in Nat /\ PosInExtent \in Nat /\ c \in Nat
  BY <1>1, InRunFacts
<1> HIDE DEF n, c
<1>4. /\ bytes \in Seq(Int \X Int) /\ Len(bytes) = n
      /\ \A i \in 1..n : bytes[i] = Zero
  BY <1>2, <1>3 DEF Zero
<1>5. ASSUME NEW i \in 1..Len(bytes)
      PROVE  bytes[i] = Byte(at + i - 1)
  <2> DEFINE d == i - 1
  <2>1. /\ d \in Nat /\ d < left /\ i \in 1..n
        /\ PosInExtent + d < c /\ at + i - 1 = at + d
    BY <1>2, <1>3, <1>4, SMTT(60)
  <2> HIDE DEF d
  <2>2. SaysByte(ext, PosInExtent + d, Byte(at + d))
    BY <1>1, <2>1, RunSaysByte DEF c
  <2>. QED BY <1>1, <1>4, <2>1, <2>2 DEF SaysByte
<1>6. Len(bytes) \in 1..left
  BY <1>2, <1>4
<1>. QED BY <1>1, <1>4, <1>5, <1>6, CopiedIsRight

\* A part of a sequence.
LEMMA PartOfSequence ==
    ASSUME NEW S, NEW s \in Seq(S), NEW a \in Nat, NEW n \in Nat \ {0}, a + n <= Len(s)
    PROVE  /\ SubSeq(s, a + 1, a + n) \in Seq(S)
           /\ Len(SubSeq(s, a + 1, a + n)) = n
           /\ \A i \in 1..n : SubSeq(s, a + 1, a + n)[i] = s[a + i]
OBVIOUS

\* From the bytes the driver has answered with.
LEMMA CopyBufferKeeps ==
    ASSUME DnodeInv, CopyBuffer
    PROVE  DnodeInv' /\ left' < left
<1> DEFINE n == HoleBytes
           from == PosInExtent
           bytes == SubSeq(ext.buffer, from + 1, from + n)
<1>1. /\ DnodeTypeOK /\ CopyHasRun /\ pc = "copy" /\ ext.type = "buffer"
      /\ ext.buffer \in Seq(Int \X Int) /\ Copied(bytes)
  BY DEF CopyBuffer, DnodeInv, DnodeTypeOK, ExtentRecord
<1>2. n \in 1..left /\ from + n <= ext.count * LogBlock
  BY <1>1, HoleBytesInside
<1>3. left \in Nat /\ at \in Nat /\ from \in Nat /\ ext.count * LogBlock \in Nat
  BY <1>1, InRunFacts
<1> HIDE DEF n
<1>4. ASSUME NEW d \in Nat, d < n
      PROVE  from + d + 1 \in 1..Len(ext.buffer) /\ Byte(at + d) = ext.buffer[from + d + 1]
  <2>1. d < left /\ from + d < ext.count * LogBlock
    BY <1>2, <1>3, <1>4
  <2>2. SaysByte(ext, PosInExtent + d, Byte(at + d))
    BY <1>1, <2>1, <1>4, RunSaysByte
  <2>. QED BY <1>1, <2>2 DEF SaysByte
<1>5. from + n \in 1..Len(ext.buffer) /\ Len(ext.buffer) \in Nat
  <2>1. n - 1 \in Nat /\ n - 1 < n /\ from + (n - 1) + 1 = from + n
    BY <1>2, <1>3
  <2>. QED BY <1>1, <1>4, <2>1
<1> HIDE DEF from
<1>6. /\ bytes \in Seq(Int \X Int) /\ Len(bytes) = n
      /\ \A i \in 1..n : bytes[i] = ext.buffer[from + i]
  BY <1>1, <1>2, <1>3, <1>5, PartOfSequence, SMTT(60)
<1>7. ASSUME NEW i \in 1..Len(bytes)
      PROVE  bytes[i] = Byte(at + i - 1)
  <2>1. /\ i - 1 \in Nat /\ i - 1 < n /\ from + (i - 1) + 1 = from + i
        /\ at + (i - 1) = at + i - 1 /\ i \in 1..n
    BY <1>2, <1>3, <1>6
  <2>. QED BY <1>4, <1>6, <2>1
<1>8. Len(bytes) \in 1..left
  BY <1>2, <1>6
<1>. QED BY <1>1, <1>6, <1>7, <1>8, CopiedIsRight DEF from

\* The extent of a new handle, and the result before the first call.
LEMMA NoExtentTyped == NoExtent \in ExtentRecord /\ NoExtent.type = "invalid"
BY DEF NoExtent, ExtentRecord

LEMMA NoResultTyped ==
    /\ NoResult \in [ok : BOOLEAN, from : Nat, len : Nat, bytes : Seq(Int \X Int)]
    /\ ~NoResult.ok
BY DEF NoResult

\* A handle just opened.
LEMMA InitDnodeInv == DnodeInit => DnodeInv
<1> SUFFICES ASSUME DnodeInit PROVE DnodeInv
  OBVIOUS
<1>1. PICK f \in Files : HandleOpened(f)
  BY DEF DnodeInit
<1>2. DnodeTypeOK
  BY <1>1, NoExtentTyped, NoResultTyped DEF HandleOpened, DnodeTypeOK, DnodeInit
<1>3. ExtentIsOfFile /\ CallOfRead /\ CopyHasRun /\ ReadReturnsFile
  BY <1>1, NoExtentTyped, NoResultTyped
     DEF HandleOpened, ExtentIsOfFile, CallOfRead, CopyHasRun, ReadReturnsFile
<1>. QED BY <1>2, <1>3 DEF DnodeInv

\* A run of the file is one as long as the file is the same.
LEMMA RunStays ==
    ASSUME UNCHANGED <<file, ext>>
    PROVE  RunOfFile(ext)' = RunOfFile(ext)
BY DEF RunOfFile, SaysByte, Byte

\* A call begins, or returns at once behind the end of the file.
LEMMA ReadKeeps ==
    ASSUME DnodeInv, NEW l \in Lens, Read(l)
    PROVE  DnodeInv'
<1>1. DnodeTypeOK /\ ExtentIsOfFile /\ pc = "idle" /\ l \in Nat
  BY DEF DnodeInv, Read
<1>2. buf' = << >> /\ UNCHANGED <<file, bad, pos, ext, kept>>
  BY DEF Read
<1>3. file \in Files /\ file.size \in Nat /\ pos \in Nat
  BY <1>1 DEF DnodeTypeOK
<1>4. ExtentIsOfFile'
  BY <1>1, <1>2, RunStays DEF ExtentIsOfFile
<1>5. CASE pos >= file.size
  <2>1. /\ result' = [ok |-> TRUE, from |-> pos, len |-> l, bytes |-> << >>]
        /\ UNCHANGED <<pc, at, left>>
    BY <1>5 DEF Read
  <2>2. DnodeTypeOK'
    BY <1>1, <1>2, <2>1 DEF DnodeTypeOK
  <2>3. ReadReturnsFile'
    <3>1. file.size - pos <= 0
      BY <1>3, <1>5
    <3>. QED BY <1>2, <2>1, <3>1 DEF ReadReturnsFile
  <2>. QED BY <1>1, <1>4, <2>1, <2>2, <2>3 DEF DnodeInv, CallOfRead, CopyHasRun
<1>6. CASE ~(pos >= file.size)
  <2>1. /\ pc' = "loop" /\ at' = pos /\ left' = ReadBytes(l)
        /\ result' = [NoResult EXCEPT !.from = pos, !.len = l]
    BY <1>6 DEF Read
  <2>2. result' = [ok |-> FALSE, from |-> pos, len |-> l, bytes |-> << >>]
    BY <2>1 DEF NoResult
  <2>7. ~result'.ok
    BY <2>2, Zenon
  <2>3. ReadBytes(l) \in Nat /\ pos + ReadBytes(l) <= file.size
    BY <1>1, <1>3, <1>6 DEF ReadBytes
  <2>4. DnodeTypeOK'
    <3>1. /\ result' \in [ok : BOOLEAN, from : Nat, len : Nat, bytes : Seq(Int \X Int)]
          /\ buf' \in Seq(Int \X Int)
      BY <1>1, <1>2, <1>3, <2>2
    <3>2. /\ file' \in Files /\ bad' \in BadSets /\ pos' \in Nat /\ ext' \in ExtentRecord
          /\ pc' = "loop" /\ at' \in Nat /\ left' \in Nat /\ at' + left' <= file'.size
      BY <1>1, <1>2, <1>3, <2>1, <2>3 DEF DnodeTypeOK
    <3>. QED BY <3>1, <3>2 DEF DnodeTypeOK
  <2>5. CallOfRead'
    <3>1. ToRead' = ReadBytes(l)
      BY <1>2, <2>2 DEF ToRead, ReadBytes
    <3>2. buf' = [i \in 1..Len(buf') |-> FileBytes[file'][pos' + i - 1 + 1]] /\ Len(buf') = 0
      BY <1>2
    <3>3. /\ result'.from = pos'
          /\ at' = pos' + Len(buf') /\ at' + left' = pos' + ToRead'
      BY <1>2, <1>3, <2>1, <2>2, <3>1, <3>2
    <3>. QED BY <2>7, <3>2, <3>3 DEF CallOfRead, Byte
  <2>6. CopyHasRun' /\ ReadReturnsFile'
    BY <2>1, <2>7 DEF CopyHasRun, ReadReturnsFile
  <2>. QED BY <1>4, <2>4, <2>5, <2>6 DEF DnodeInv
<1>. QED BY <1>5, <1>6

\* The call takes a run of blocks, of the handle or from the driver.
LEMMA RunTakenKeeps ==
    ASSUME DnodeInv, pc = "loop", left > 0, pc' = "copy",
           UNCHANGED <<file, bad, pos, at, left, buf, result>>,
           ext' \in ExtentRecord, RunOfFile(ext)',
           Block \in ext'.start..(ext'.start + ext'.count - 1)
    PROVE  DnodeInv'
<1>1. DnodeTypeOK'
  BY DEF DnodeInv, DnodeTypeOK
<1>2. ExtentIsOfFile' /\ CopyHasRun'
  BY DEF ExtentIsOfFile, CopyHasRun, Block
<1>3. CallOfRead' /\ ReadReturnsFile'
  BY DEF DnodeInv, CallOfRead, ToRead, ReadReturnsFile, Byte
<1>. QED BY <1>1, <1>2, <1>3 DEF DnodeInv

\* The run the handle has kept from an earlier call.
LEMMA UseExtentKeeps ==
    ASSUME DnodeInv, UseExtent
    PROVE  DnodeInv'
<1>1. DnodeTypeOK /\ ExtentIsOfFile /\ InExtent
  BY DEF DnodeInv, UseExtent
<1>2. UNCHANGED <<file, ext>>
  BY DEF UseExtent
<1>3. RunOfFile(ext)'
  BY <1>1, <1>2, RunStays DEF ExtentIsOfFile, InExtent
<1>4. ext' \in ExtentRecord /\ Block \in ext'.start..(ext'.start + ext'.count - 1)
  <2>1. ext.start \in Nat /\ ext.count \in Nat /\ at \in Nat /\ ext \in ExtentRecord
    BY <1>1 DEF DnodeTypeOK, ExtentRecord
  <2>2. Block \in Int
    BY <2>1 DEF Block
  <2>3. Block >= ext.start /\ Block < ext.start + ext.count
    BY <1>1 DEF InExtent
  <2>. QED BY <1>2, <2>1, <2>2, <2>3
<1>. QED BY <1>3, <1>4, RunTakenKeeps DEF UseExtent

\* The run the driver answers with.
LEMMA RunFoundKeeps ==
    ASSUME DnodeInv, RunFound
    PROVE  DnodeInv'
<1>1. RunOfFile(ext)'
  BY DEF RunFound, RunOfFile, SaysByte, Byte
<1>. QED BY <1>1, RunTakenKeeps DEF RunFound, AsksDriver

\* A call that fails leaves the handle as it was, with its extent or without one.
LEMMA FailsKeeps ==
    ASSUME DnodeInv, Fails, pc # "idle",
           ext' \in ExtentRecord, ext'.type # "invalid" => ext' = ext
    PROVE  DnodeInv'
<1>1. DnodeTypeOK' /\ pc' = "idle"
  BY DEF DnodeInv, DnodeTypeOK, Fails
<1>2. ExtentIsOfFile'
  <2>1. CASE ext' = ext
    BY <2>1, RunStays DEF ExtentIsOfFile, DnodeInv, Fails
  <2>2. CASE ext'.type = "invalid"
    BY <2>2 DEF ExtentIsOfFile
  <2>. QED BY <2>1, <2>2
<1>3. ReadReturnsFile'
  BY DEF DnodeInv, ReadReturnsFile, Fails, CallOfRead
<1>. QED BY <1>1, <1>2, <1>3 DEF DnodeInv, CallOfRead, CopyHasRun

\* A call that succeeds has copied all it was to deliver.
LEMMA EndsKeeps ==
    ASSUME DnodeInv, Ends
    PROVE  DnodeInv'
<1>1. /\ DnodeTypeOK /\ CallOfRead /\ ExtentIsOfFile /\ pc = "loop" /\ left = 0
      /\ pc' = "idle" /\ pos' = at /\ at' = 0 /\ buf' = << >> /\ left' = 0
      /\ result' = [result EXCEPT !.ok = TRUE, !.bytes = buf]
      /\ UNCHANGED <<file, bad, ext, kept>>
  BY DEF DnodeInv, Ends
<1>2. /\ result.from = pos /\ at = pos + Len(buf) /\ at + left = pos + ToRead
      /\ buf = [i \in 1..Len(buf) |-> Byte(pos + i - 1)]
  BY <1>1 DEF CallOfRead
<1>3. /\ pos \in Nat /\ at \in Nat /\ file.size \in Nat /\ result.len \in Nat
      /\ buf \in Seq(Int \X Int) /\ Len(buf) \in Nat /\ at <= file.size
  BY <1>1 DEF DnodeTypeOK
<1>4. /\ result'.ok /\ result'.from = pos /\ result'.len = result.len /\ result'.bytes = buf
      /\ result' \in [ok : BOOLEAN, from : Nat, len : Nat, bytes : Seq(Int \X Int)]
  BY <1>1, <1>2 DEF DnodeTypeOK
<1>5. Len(buf) = ToRead
  BY <1>1, <1>2, <1>3 DEF ToRead
<1>6. DnodeTypeOK'
  BY <1>1, <1>3, <1>4 DEF DnodeTypeOK
<1>7. ExtentIsOfFile'
  BY <1>1, RunStays DEF ExtentIsOfFile
<1>8. ReadReturnsFile'
  <2> DEFINE rest == file.size - pos
             n == IF rest <= 0 THEN 0 ELSE IF result.len < rest THEN result.len ELSE rest
  <2>1. n = Len(buf)
    BY <1>3, <1>5, SMTT(60) DEF ToRead
  <2>2. buf = [i \in 1..n |-> FileBytes[file][pos + i - 1 + 1]]
    BY <1>2, <2>1 DEF Byte
  <2>. QED BY <1>1, <1>4, <2>2 DEF ReadReturnsFile, Byte
<1>. QED BY <1>1, <1>6, <1>7, <1>8 DEF DnodeInv, CallOfRead, CopyHasRun

\* The position is set, the handle opened anew, the driver's state changed.
LEMMA IdleStepKeeps ==
    ASSUME DnodeInv,
           \/ \E p \in Positions : SetPosition(p)
           \/ SetPositionEnd \/ OpenAgain \/ KeptChanges
    PROVE  DnodeInv'
<1>1. DnodeTypeOK /\ ExtentIsOfFile /\ ReadReturnsFile
  BY DEF DnodeInv
<1>2. pc = "idle" /\ pc' = "idle" /\ UNCHANGED <<bad, at, left, buf>>
  BY DEF SetPositionEnd, SetPosition, OpenAgain, KeptChanges
<1>3. CallOfRead' /\ CopyHasRun'
  BY <1>2 DEF CallOfRead, CopyHasRun
<1>4. ASSUME NEW p \in Nat, SetPosition(p)
      PROVE  DnodeInv'
  <2>1. DnodeTypeOK'
    BY <1>1, <1>4, NoResultTyped DEF SetPosition, DnodeTypeOK
  <2>2. ExtentIsOfFile' /\ ReadReturnsFile'
    BY <1>1, <1>4, NoResultTyped, RunStays DEF SetPosition, ExtentIsOfFile, ReadReturnsFile
  <2>. QED BY <1>3, <2>1, <2>2 DEF DnodeInv
<1>5. CASE SetPositionEnd
  <2>1. file.size \in Nat
    BY <1>1 DEF DnodeTypeOK
  <2>. QED BY <1>4, <1>5, <2>1 DEF SetPositionEnd
<1>6. CASE OpenAgain
  <2>1. DnodeTypeOK'
    BY <1>1, <1>6, NoResultTyped, NoExtentTyped DEF OpenAgain, DnodeTypeOK
  <2>2. ExtentIsOfFile' /\ ReadReturnsFile'
    BY <1>6, NoResultTyped, NoExtentTyped DEF OpenAgain, ExtentIsOfFile, ReadReturnsFile
  <2>. QED BY <1>3, <2>1, <2>2 DEF DnodeInv
<1>7. CASE KeptChanges
  <2>1. DnodeTypeOK'
    BY <1>1, <1>7 DEF KeptChanges, DnodeTypeOK
  <2>2. ExtentIsOfFile' /\ ReadReturnsFile'
    BY <1>1, <1>7, RunStays DEF KeptChanges, ExtentIsOfFile, ReadReturnsFile, Byte
  <2>. QED BY <1>3, <2>1, <2>2 DEF DnodeInv
<1>8. CASE \E p \in Positions : SetPosition(p)
  BY <1>4, <1>8
<1>. QED BY <1>5, <1>6, <1>7, <1>8

\* Nothing of the handle changes.
LEMMA QuietStepKeeps ==
    ASSUME DnodeInv, bad' \in BadSets,
           UNCHANGED <<file, pos, ext, pc, at, left, buf, result>>
    PROVE  DnodeInv'
<1>1. DnodeTypeOK'
  BY DEF DnodeInv, DnodeTypeOK
<1>2. ExtentIsOfFile' /\ CopyHasRun'
  BY RunStays DEF DnodeInv, ExtentIsOfFile, CopyHasRun, Block
<1>3. CallOfRead' /\ ReadReturnsFile'
  BY DEF DnodeInv, CallOfRead, ToRead, ReadReturnsFile, Byte
<1>. QED BY <1>1, <1>2, <1>3 DEF DnodeInv

\* Every step keeps the invariant.
LEMMA DnodeStep == DnodeInv /\ [DnodeNext]_dnodeVars => DnodeInv'
<1> SUFFICES ASSUME DnodeInv, [DnodeNext]_dnodeVars PROVE DnodeInv'
  OBVIOUS
<1>1. CASE \E l \in Lens : Read(l)
  BY <1>1, ReadKeeps
<1>2. CASE \/ \E p \in Positions : SetPosition(p)
           \/ SetPositionEnd \/ OpenAgain \/ KeptChanges
  BY <1>2, IdleStepKeeps
<1>3. CASE UseExtent
  BY <1>3, UseExtentKeeps
<1>4. CASE RunFound
  BY <1>4, RunFoundKeeps
<1>5. CASE RunRefused
  BY <1>5, FailsKeeps DEF RunRefused, AsksDriver
<1>6. CASE CopyBlockFails
  <2>1. ext' = ext /\ ext \in ExtentRecord
    BY <1>6 DEF CopyBlockFails, DnodeInv, DnodeTypeOK
  <2>. QED BY <1>6, <2>1, FailsKeeps DEF CopyBlockFails
<1>7. CASE CopyBlock
  BY <1>7, CopyBlockKeeps
<1>8. CASE CopyZeros
  BY <1>8, CopyZerosKeeps
<1>9. CASE CopyBuffer
  BY <1>9, CopyBufferKeeps
<1>10. CASE Ends
  BY <1>10, EndsKeeps
<1>11. CASE DiskChanges
  BY <1>11, QuietStepKeeps DEF DiskChanges
<1>12. CASE UNCHANGED dnodeVars
  BY <1>12, QuietStepKeeps DEF dnodeVars, DnodeInv, DnodeTypeOK
<1>. QED BY <1>1, <1>2, <1>3, <1>4, <1>5, <1>6, <1>7, <1>8, <1>9, <1>10, <1>11, <1>12
         DEF DnodeNext, CopyStep

\* The inductive invariant of fsw_shandle_read holds.
THEOREM DnodeInductive == DnodeSpec => []DnodeInv
BY InitDnodeInv, DnodeStep, PTL DEF DnodeSpec

\* The handle and the call keep their types, and no call leaves the file
\* (fsw_shandle_read cuts the length at dno->size).
THEOREM DnodeTypeCorrect == DnodeSpec => []DnodeTypeOK
<1>1. DnodeInv => DnodeTypeOK
  BY DEF DnodeInv
<1>. QED BY <1>1, DnodeInductive, PTL

\* Over every driver that answers with runs of the file, for all block sizes, holes
\* and buffers, a read of fsw_shandle_read that succeeds returns the file's bytes.
THEOREM ReadsAreTheFile == DnodeSpec => []ReadReturnsFile
<1>1. DnodeInv => ReadReturnsFile
  BY DEF DnodeInv
<1>. QED BY <1>1, DnodeInductive, PTL

\* The extent a handle keeps between calls of fsw_shandle_read is the file's.
THEOREM ExtentKeptIsOfFile == DnodeSpec => []ExtentIsOfFile
<1>1. DnodeInv => ExtentIsOfFile
  BY DEF DnodeInv
<1>. QED BY <1>1, DnodeInductive, PTL

\* How a call ends, and what a round of its loop leaves.
EndsRightly ==
    /\ pc # "idle" /\ pc' = "idle" =>
            IF result'.ok THEN pos' = pos + Len(result'.bytes) ELSE pos' = pos /\ MayFail
    /\ pc = "copy" /\ pc' = "loop" => left' < left

\* A failed call has a reason, and the position stays.
LEMMA FailsRightly ==
    ASSUME DnodeInv, pc # "idle", Fails, MayFail
    PROVE  EndsRightly
<1>1. ~result'.ok /\ pos' = pos /\ pc' = "idle"
  BY DEF DnodeInv, CallOfRead, Fails
<1>. QED BY <1>1 DEF EndsRightly

\* Every call ends rightly.
LEMMA DnodeStepEnds == DnodeInv /\ [DnodeNext]_dnodeVars => [EndsRightly]_dnodeVars
<1> SUFFICES ASSUME DnodeInv, [DnodeNext]_dnodeVars PROVE [EndsRightly]_dnodeVars
  OBVIOUS
<1>1. CASE pc = "idle"
  BY <1>1 DEF EndsRightly
<1>2. CASE CopyBlock \/ CopyZeros \/ CopyBuffer
  <2>1. left' < left
    BY <1>2, CopyBlockKeeps, CopyZerosKeeps, CopyBufferKeeps
  <2>2. pc' = "loop"
    BY <1>2 DEF CopyBlock, CopyZeros, CopyBuffer, Copied
  <2>. QED BY <2>1, <2>2 DEF EndsRightly
<1>3. CASE RunRefused
  BY <1>3, FailsRightly DEF RunRefused, AsksDriver
<1>4. CASE CopyBlockFails
  <2>1. file \notin Redundant /\ bad # {} /\ pc # "idle" /\ Fails
    BY <1>4 DEF CopyBlockFails, DnodeInv, CopyHasRun, RunOfFile
  <2>2. MayFail
    BY <2>1 DEF MayFail
  <2>. QED BY <2>1, <2>2, FailsRightly
<1>5. CASE Ends
  <2>1. at = pos + Len(buf) /\ pos' = at /\ pc' = "idle" /\ pc = "loop"
    BY <1>5 DEF Ends, DnodeInv, CallOfRead
  <2>2. result'.ok /\ result'.bytes = buf
    BY <1>5 DEF Ends, DnodeInv, DnodeTypeOK
  <2>. QED BY <2>1, <2>2 DEF EndsRightly
<1>6. CASE UseExtent \/ RunFound
  BY <1>6 DEF UseExtent, RunFound, AsksDriver, EndsRightly
<1>7. CASE DiskChanges \/ UNCHANGED dnodeVars
  BY <1>7 DEF DiskChanges, dnodeVars, EndsRightly
<1>8. CASE \/ \E l \in Lens : Read(l)
           \/ \E p \in Positions : SetPosition(p)
           \/ SetPositionEnd \/ OpenAgain \/ KeptChanges
  <2>1. pc = "idle"
    BY <1>8 DEF Read, SetPosition, SetPositionEnd, OpenAgain, KeptChanges
  <2>. QED BY <1>1, <2>1
<1>. QED BY <1>2, <1>3, <1>4, <1>5, <1>6, <1>7, <1>8 DEF DnodeNext, CopyStep

\* The position of a handle moves by what fsw_shandle_read has delivered, a failed
\* call has a reason and moves nothing, and each round of the loop leaves less.
THEOREM PositionsFollowData == DnodeSpec => PositionFollowsData
<1>1. DnodeSpec => [][EndsRightly]_dnodeVars
  BY DnodeInductive, DnodeStepEnds, PTL DEF DnodeSpec
<1>. QED BY <1>1 DEF PositionFollowsData, EndsRightly
=============================================================================
