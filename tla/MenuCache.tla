------------------------------ MODULE MenuCache ------------------------------
(***************************************************************************)
(* The file menu.cache, in which one launch leaves the loaders its scan    *)
(* found for the next (kernel/cache.c and its callers in boot/main.c).     *)
(*                                                                         *)
(* Between launches the machine changes: disks come and go, are            *)
(* partitioned and formatted again, loaders are installed, replaced and    *)
(* removed, the binary and config.conf are replaced, and Meridian is       *)
(* started by OpenCore or by the firmware.  Checksums are the values they  *)
(* are computed over (CRC-32 is taken to have no collisions).  A record of *)
(* the file is one cell, so a shorter menu is one with fewer loaders.      *)
(***************************************************************************)
EXTENDS Filter

CONSTANTS
    Volumes,     \* file systems, one on each disk
    Kind,        \* how the device path of a volume names it, see PartGuid
    PathOrder,   \* the loader paths, in the order a scan looks for them
    OcPath,      \* the path of OpenCore; macOS is on the machine (HasMacOS)
    InitOrder, InitFiles,   \* the machine to begin with
    Orders,      \* orders in which the firmware may enumerate the disks
    Builds,      \* builds of Meridian
    MaxStamp,    \* bound: versions of a loader, told apart by size and time
    MaxGen,      \* bound: generations of a partition table and of a file system
    MaxChanges,  \* bound: changes to the machine
    MaxFaults,   \* bound: reads and writes of menu.cache that fail
    NoFile, NoGuid, MbrGuid

Paths == {PathOrder[i] : i \in DOMAIN PathOrder}
Gens == 0..MaxGen
Stamps == 0..MaxStamp   \* 0: no file, and in a record: not stamped

ASSUME MenuCacheAssumption ==
    /\ Kind \in [Volumes -> {"gpt", "mbr", "raw"}]
    /\ PathOrder \in Seq(STRING) /\ Len(PathOrder) > 0
    /\ InitFiles \in [Volumes -> [Paths -> Stamps]]
    /\ Orders \subseteq Seq(Volumes) /\ InitOrder \in Orders
    /\ MaxStamp \in Nat /\ MaxGen \in Nat /\ MaxChanges \in Nat /\ MaxFaults \in Nat
    /\ NoGuid # MbrGuid /\ NoGuid \notin Volumes \X Gens /\ MbrGuid \notin Volumes \X Gens

VARIABLES
    vols,      \* Volumes[]: the attached volumes in handle order
    table,     \* generations of the partition tables
    uuid,      \* generations of the file systems
    files,     \* the loaders on each volume
    oc,        \* Meridian was started by OpenCore
    build,     \* the build of the binary
    enabled,   \* enable_menu_cache
    banned,    \* dont_scan_volumes
    cache,     \* menu.cache
    phase,     \* "off", "load", "scan" or "menu"
    menu,      \* the loader entries of MainMenu
    source,    \* where they come from: "none", "hit" or "scan"
    stored,    \* the records of the last save that went through (auxiliary)
    quiet,     \* nothing changed since that save (auxiliary)
    forgot,    \* the last launch to reach the menu ran without the cache (auxiliary)
    changes, faults

machine == <<vols, table, uuid, files, oc, build, enabled, banned>>
session == <<phase, menu, source>>
vars == <<vols, table, uuid, files, oc, build, enabled, banned, cache, phase, menu, source,
          stored, quiet, forgot, changes, faults>>

Guids == Volumes \X Gens
Records == [path : Paths, title : Volumes, part : Guids \cup {NoGuid, MbrGuid},
            uuid : Guids, stamp : Stamps]
Entries == [path : Paths, title : Volumes, vol : Volumes, stamp : Stamps]
Prints == {<<>>} \cup (Seq(Volumes \X Gens) \X BOOLEAN)
Files == [sound : BOOLEAN, build : Builds, fp : Prints,
          sum : Seq(Records), body : Seq(Records)]

ASSUME NoFileAssumption == NoFile \notin Files

(***************************************************************************)
(* Identities.  SetPartGuidAndName: the signature of a GPT partition, one  *)
(* constant for every MBR partition, nothing off a partition.              *)
(***************************************************************************)
\* Mutant: an MBR partition is named by its own signature.
PartGuid_Signature(v) == IF Kind[v] = "gpt" THEN <<v, table[v]>>
                         ELSE IF Kind[v] = "mbr" THEN v ELSE NoGuid

PartGuid(v) == CASE Kind[v] = "gpt" -> <<v, table[v]>>
                 [] Kind[v] = "mbr" -> MbrGuid
                 [] OTHER -> NoGuid

VolUuid(v) == <<v, uuid[v]>>

GptDisks(vs) == Kept(vs, {v \in Volumes : Kind[v] = "gpt"})

\* Mutant: OpenCore is not in the fingerprint.
Fingerprint_DisksOnly(vs, oc_) ==
    LET gpt == GptDisks(vs)
    IN  IF gpt = <<>> THEN <<>> ELSE <<[i \in DOMAIN gpt |-> <<gpt[i], table[gpt[i]]>>], FALSE>>

\* The disk GUID and the entry checksum of every GPT disk in turn, and
\* whether OpenCore is resident; <<>> when there is no GPT disk.
Fingerprint(vs, oc_) ==
    LET gpt == GptDisks(vs)
    IN  IF gpt = <<>> THEN <<>>
        ELSE <<[i \in DOMAIN gpt |-> <<gpt[i], table[gpt[i]]>>], oc_>>

\* The first volume of a set of positions of Volumes[].
FirstOf(S) == vols[CHOOSE i \in S : \A j \in S : i <= j]

SamePart(r) == {i \in DOMAIN vols : r.part # NoGuid /\ PartGuid(vols[i]) = r.part}
SameUuid(r) == {i \in DOMAIN vols : VolUuid(vols[i]) = r.uuid}

\* Mutant: the first volume that has either identity.
ResolveVolume_Either(r) ==
    IF SamePart(r) \cup SameUuid(r) # {} THEN {FirstOf(SamePart(r) \cup SameUuid(r))} ELSE {}

\* Both identities, else the partition alone, else the file system alone.
ResolveVolume(r) ==
    IF SamePart(r) \cap SameUuid(r) # {} THEN {FirstOf(SamePart(r) \cap SameUuid(r))}
    ELSE IF SamePart(r) # {} THEN {FirstOf(SamePart(r))}
    ELSE IF SameUuid(r) # {} THEN {FirstOf(SameUuid(r))}
    ELSE {}

(***************************************************************************)
(* ScanForBootloaders.  VolumeScanAllowed leaves out the banned volumes,   *)
(* and ReconcileHackintoshMacOS drops OpenCore from a menu under OpenCore. *)
(***************************************************************************)
VolumeScanAllowed(v) == v \notin banned

Offered(v, p) == files[v][p] # 0 /\ VolumeScanAllowed(v) /\ ~(oc /\ p = OcPath)

\* Every path of every volume of vs, in scan order.
Places(vs) ==
    [i \in 1 .. Len(vs) * Len(PathOrder) |->
        <<vs[((i - 1) \div Len(PathOrder)) + 1], PathOrder[((i - 1) % Len(PathOrder)) + 1]>>]

ScanForBootloaders(vs) ==
    Kept(Places(vs), {x \in Volumes \X Paths : Offered(x[1], x[2])})

MenuOf(found) ==
    {[path |-> found[i][2], title |-> found[i][1], vol |-> found[i][1],
      stamp |-> files[found[i][1]][found[i][2]]] : i \in DOMAIN found}

\* The record CacheStoreMenu makes of each loader; StampRecord leaves the
\* stamps at zero when the file cannot be examined.
RecordsOf(found, stamped) ==
    [i \in DOMAIN found |->
        [path |-> found[i][2], title |-> found[i][1],
         part |-> PartGuid(found[i][1]), uuid |-> VolUuid(found[i][1]),
         stamp |-> IF stamped THEN files[found[i][1]][found[i][2]] ELSE 0]]

(***************************************************************************)
(* MrdSaveFile opens the file, creating it if need be, and writes from its *)
(* start: what the file held past the new data stays.                      *)
(***************************************************************************)
OldBody == IF cache = NoFile THEN <<>> ELSE cache.body

Overwrite(new) == new \o SubSeq(OldBody, Len(new) + 1, Len(OldBody))

\* The first k records of new reach the disk.
Cut(new, k) == SubSeq(new, 1, k) \o SubSeq(OldBody, k + 1, Len(OldBody))

\* SerializeRecords: the header covers the body it was made for.
FileOf(new, vs, body, sound) ==
    [sound |-> sound, build |-> build, fp |-> Fingerprint(vs, oc), sum |-> new, body |-> body]

SaveWhole(new, vs) ==
    /\ cache' = FileOf(new, vs, Overwrite(new), TRUE)
    /\ stored' = new /\ quiet' = TRUE
    /\ UNCHANGED faults

\* The disk is full or the power goes: in the header, or after k records.
SaveTorn(new, vs) ==
    /\ faults < MaxFaults /\ faults' = faults + 1
    /\ \/ cache' = FileOf(new, vs, OldBody, FALSE)
       \/ \E k \in 0 .. Len(new) - 1 :
            /\ Cut(new, k) # new
            /\ cache' = FileOf(new, vs, Cut(new, k), TRUE)
    /\ stored' = <<>> /\ quiet' = FALSE

SaveRefused ==
    /\ faults < MaxFaults /\ faults' = faults + 1
    /\ quiet' = FALSE
    /\ UNCHANGED <<cache, stored>>

CacheStoreMenu(vs) ==
    \E stamped \in BOOLEAN :
        LET new == RecordsOf(ScanForBootloaders(vs), stamped)
        IN  IF new = <<>> THEN quiet' = FALSE /\ UNCHANGED <<cache, stored, faults>>
            ELSE SaveWhole(new, vs) \/ SaveTorn(new, vs) \/ SaveRefused

\* MrdSaveFile with no data deletes the file it opened.
CacheInvalidate ==
    \/ /\ cache' = NoFile
       /\ stored' = <<>> /\ quiet' = FALSE
       /\ UNCHANGED faults
    \/ SaveRefused

(***************************************************************************)
(* CacheLoadMenu.                                                          *)
(***************************************************************************)
\* ParseBuffer, in the order of its checks.
ParseBuffer ==
    IF ~cache.sound THEN "header crc"
    ELSE IF cache.build # build THEN "build changed"
    ELSE IF cache.body # cache.sum THEN "body crc"
    ELSE IF cache.fp # Fingerprint(vols, oc) THEN "fp mismatch"
    ELSE "parsed"

\* Mutant: the loader is only looked for.
RecordContentUnchanged_Any(r, v) == TRUE

RecordContentUnchanged(r, v) == r.stamp # 0 => files[v][r.path] = r.stamp

Fresh(r) == \E v \in ResolveVolume(r) : files[v][r.path] # 0 /\ RecordContentUnchanged(r, v)

\* The entry AddLoaderEntry makes of a record, if it may scan the volume.
Rebuild(r) ==
    {[path |-> r.path, title |-> r.title, vol |-> v, stamp |-> r.stamp] :
        v \in {u \in ResolveVolume(r) : VolumeScanAllowed(u)}}

Rebuilt == UNION {Rebuild(cache.body[i]) : i \in DOMAIN cache.body}

CacheHit ==
    /\ Fingerprint(vols, oc) # <<>>
    /\ cache # NoFile
    /\ ParseBuffer = "parsed"
    /\ \A i \in DOMAIN cache.body : Fresh(cache.body[i])
    /\ Rebuilt # {}

Stale == Fingerprint(vols, oc) # <<>> /\ cache # NoFile /\ ParseBuffer = "build changed"

(***************************************************************************)
(* A launch: CacheLoadMenu if the cache is enabled, and on a miss a scan.  *)
(***************************************************************************)
PowerOn ==
    /\ phase = "off"
    /\ phase' = IF enabled THEN "load" ELSE "scan"
    /\ UNCHANGED <<machine, cache, menu, source, stored, quiet, forgot, changes, faults>>

LoadHit ==
    /\ phase = "load" /\ CacheHit
    /\ phase' = "menu" /\ menu' = Rebuilt /\ source' = "hit"
    /\ UNCHANGED <<machine, cache, stored, quiet, forgot, changes, faults>>

LoadMiss ==
    /\ phase = "load" /\ ~CacheHit
    /\ phase' = "scan"
    /\ IF Stale THEN CacheInvalidate ELSE UNCHANGED <<cache, stored, quiet, faults>>
    /\ UNCHANGED <<machine, menu, source, forgot, changes>>

\* menu.cache cannot be read: a miss, and the file stays.
LoadUnreadable ==
    /\ phase = "load" /\ cache # NoFile
    /\ faults < MaxFaults /\ faults' = faults + 1
    /\ phase' = "scan"
    /\ UNCHANGED <<machine, cache, menu, source, stored, quiet, forgot, changes>>

\* Mutant: a launch without the cache leaves the file alone.
ScanAtBoot_KeepsFile ==
    /\ phase = "scan"
    /\ phase' = "menu" /\ menu' = MenuOf(ScanForBootloaders(vols)) /\ source' = "scan"
    /\ IF enabled THEN CacheStoreMenu(vols) ELSE UNCHANGED <<cache, stored, quiet, faults>>
    /\ forgot' = (~enabled /\ faults' = faults)
    /\ UNCHANGED <<machine, changes>>

ScanAtBoot ==
    /\ phase = "scan"
    /\ phase' = "menu" /\ menu' = MenuOf(ScanForBootloaders(vols)) /\ source' = "scan"
    /\ IF enabled THEN CacheStoreMenu(vols) ELSE CacheInvalidate
    /\ forgot' = (~enabled /\ faults' = faults)
    /\ UNCHANGED <<machine, changes>>

(***************************************************************************)
(* The menu: a rescan, with the devices connected again (Escape) or not    *)
(* (TAG_SCAN_ALL), writes the cache if it is enabled; then the machine     *)
(* goes, with the power or into what it boots.                             *)
(***************************************************************************)
Rescan(vs) ==
    /\ phase = "menu"
    /\ menu' = MenuOf(ScanForBootloaders(vs)) /\ source' = "scan"
    /\ IF enabled THEN CacheStoreMenu(vs)
       ELSE UNCHANGED <<cache, stored, faults>> /\ quiet' = (quiet /\ vs = vols)
    /\ UNCHANGED <<table, uuid, files, oc, build, enabled, banned, phase, forgot>>

ScanAll == Rescan(vols) /\ UNCHANGED <<vols, changes>>

RescanAll ==
    /\ changes < MaxChanges /\ changes' = changes + 1
    /\ \E vs \in Orders \ {vols} : vols' = vs /\ Rescan(vs)

PowerOff ==
    /\ phase # "off"
    /\ phase' = "off" /\ menu' = {} /\ source' = "none"
    /\ UNCHANGED <<machine, cache, stored, quiet, forgot, changes, faults>>

(***************************************************************************)
(* Changes to the machine while Meridian is not running.                   *)
(***************************************************************************)
Change ==
    /\ phase = "off" /\ changes < MaxChanges /\ changes' = changes + 1
    /\ quiet' = FALSE
    /\ UNCHANGED <<cache, session, stored, forgot, faults>>

Attach ==
    /\ Change
    /\ vols' \in Orders \ {vols}
    /\ UNCHANGED <<table, uuid, files, oc, build, enabled, banned>>

Repartition(v) ==
    /\ Change
    /\ table[v] < MaxGen /\ table' = [table EXCEPT ![v] = @ + 1]
    /\ UNCHANGED <<vols, uuid, files, oc, build, enabled, banned>>

Reformat(v) ==
    /\ Change
    /\ uuid[v] < MaxGen /\ uuid' = [uuid EXCEPT ![v] = @ + 1]
    /\ files' = [files EXCEPT ![v] = [p \in Paths |-> 0]]
    /\ UNCHANGED <<vols, table, oc, build, enabled, banned>>

PutFile(v, p) ==
    /\ Change
    /\ \E s \in Stamps \ {files[v][p]} : files' = [files EXCEPT ![v][p] = s]
    /\ UNCHANGED <<vols, table, uuid, oc, build, enabled, banned>>

ChangeLauncher ==
    /\ Change
    /\ oc' = ~oc
    /\ UNCHANGED <<vols, table, uuid, files, build, enabled, banned>>

ChangeBuild ==
    /\ Change
    /\ build' \in Builds \ {build}
    /\ UNCHANGED <<vols, table, uuid, files, oc, enabled, banned>>

EditConfig ==
    /\ Change
    /\ \/ enabled' = ~enabled /\ UNCHANGED banned
       \/ \E v \in Volumes : /\ banned' = (banned \ {v}) \cup ({v} \ banned)
                             /\ UNCHANGED enabled
    /\ UNCHANGED <<vols, table, uuid, files, oc, build>>

Init ==
    /\ vols = InitOrder
    /\ table = [v \in Volumes |-> 0] /\ uuid = [v \in Volumes |-> 0]
    /\ files = InitFiles
    /\ oc = FALSE /\ build \in Builds /\ enabled = TRUE /\ banned = {}
    /\ cache = NoFile
    /\ phase = "off" /\ menu = {} /\ source = "none"
    /\ stored = <<>> /\ quiet = FALSE /\ forgot = FALSE
    /\ changes = 0 /\ faults = 0

Next ==
    \/ PowerOn \/ LoadHit \/ LoadMiss \/ LoadUnreadable \/ ScanAtBoot
    \/ ScanAll \/ RescanAll \/ PowerOff
    \/ Attach \/ ChangeLauncher \/ ChangeBuild \/ EditConfig
    \/ \E v \in Volumes : Repartition(v) \/ Reformat(v) \/ \E p \in Paths : PutFile(v, p)

Spec == Init /\ [][Next]_vars

(***************************************************************************)
(* Properties.                                                             *)
(***************************************************************************)
\* Every variable keeps the shape of its C counterpart, and a file never
\* claims the records of another layout.
TypeOK ==
    /\ vols \in Seq(Volumes)
    /\ table \in [Volumes -> Gens] /\ uuid \in [Volumes -> Gens]
    /\ files \in [Volumes -> [Paths -> Stamps]]
    /\ oc \in BOOLEAN /\ build \in Builds /\ enabled \in BOOLEAN /\ banned \subseteq Volumes
    /\ cache \in Files \cup {NoFile}
    /\ phase \in {"off", "load", "scan", "menu"}
    /\ menu \subseteq Entries
    /\ source \in {"none", "hit", "scan"}
    /\ stored \in Seq(Records)
    /\ quiet \in BOOLEAN /\ forgot \in BOOLEAN
    /\ changes \in 0..MaxChanges /\ faults \in 0..MaxFaults

\* A menu served from the cache names only loaders that are on an attached
\* volume the configuration lets it scan, and are the files the scan saw
\* (CacheLoadMenu's staleness checks, and VolumeScanAllowed in AddLoaderEntry).
ServedIsLive ==
    source = "hit" =>
        \A e \in menu :
            /\ \E i \in DOMAIN vols : vols[i] = e.vol
            /\ e.vol \notin banned
            /\ files[e.vol][e.path] # 0
            /\ e.stamp # 0 => files[e.vol][e.path] = e.stamp

\* A save cut short leaves a mixture of two menus in the file; no launch
\* serves it: what is served are the records of the last save that went
\* through (the checksums of ParseBuffer).
ServedWasStored ==
    source = "hit" =>
        \A e \in menu : \E i \in DOMAIN stored :
            stored[i].path = e.path /\ stored[i].title = e.title /\ stored[i].stamp = e.stamp

\* A menu served from menu.cache is true to the disks and to the last save.
ServedIsTrue == ServedIsLive /\ ServedWasStored

\* Under OpenCore no menu offers OpenCore, not even one a launch without it
\* had stored (the last byte ComputeTopologyFingerprint adds).
NoOpenCoreUnderOpenCore == oc => \A e \in menu : e.path # OcPath

\* When a launch has asked for the cache, with no read or write of it having
\* failed, no other build's file is left for that build to come back to, also
\* when a part of a longer menu follows the menu (the order of the checks of
\* ParseBuffer and the call of CacheInvalidate).
OtherBuildsCacheIsGone ==
    ((phase = "scan" /\ enabled) \/ source = "hit") /\ faults = 0 /\ cache # NoFile
        /\ Fingerprint(vols, oc) # <<>> => cache.build = build

\* A launch with enable_menu_cache off invalidates the cache, so that turning
\* it on again does not bring back what was stored before.
DisablingForgets == [][phase = "load" /\ source' = "hit" => ~forgot]_vars

\* What CacheInvalidate was called for does not come back, neither another build's
\* menu nor one stored before the cache was turned off.
InvalidatedIsGone == []OtherBuildsCacheIsGone /\ DisablingForgets

NothingPast == cache # NoFile /\ Len(cache.body) = Len(cache.sum)

\* If nothing has changed since the menu was stored, and the stored menu
\* covers the whole file, the next launch is a hit and shows the loaders a scan
\* would find: the records resolve to their own volumes and none is lost.
UnchangedLaunchHits ==
    [][phase = "load" /\ phase' # "off" /\ quiet /\ faults' = faults /\ NothingPast
         /\ Fingerprint(vols, oc) # <<>>
         => /\ source' = "hit"
            /\ {<<e.vol, e.path>> : e \in menu'}
                 = {<<e.vol, e.path>> : e \in MenuOf(ScanForBootloaders(vols))}]_vars

\* scripts/build-rescue-stick.sh:541: "Same stick, same binary means the next
\* boot is a cache hit".
SameStickHits ==
    [][phase = "load" /\ phase' # "off" /\ quiet /\ faults' = faults
         /\ Fingerprint(vols, oc) # <<>> => source' = "hit"]_vars

\* kernel/cache.c:610: "STALE volume gone for '%s' -> full rescan".
GoneVolumeRescans ==
    source = "hit" => \A e \in menu : \E i \in DOMAIN vols : vols[i] = e.title
=============================================================================
