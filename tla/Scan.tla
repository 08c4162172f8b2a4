--------------------------------- MODULE Scan ---------------------------------
(***************************************************************************)
(* The scan for loaders (discovery/): ScanForBootloaders over the volumes,  *)
(* the steps of ScanEfiFiles on each of them, the folding of Linux kernels  *)
(* into a submenu, the entries of the Boot Loader Specification, the        *)
(* fallback loader, and ReconcileHackintoshMacOS on what they have put into *)
(* the menu; with what outlives a scan and is there for the next one.       *)
(*                                                                         *)
(* A volume is a record: its "kind" (the letter of scanfor), whether it is  *)
(* "whole" (a whole-disk volume), "allowed" (not kept out by the settings), *)
(* "ventoy", "bootcamp", "synced" (an APFS volume shown under another one's *)
(* name), "own" (Meridian started from it), its "fs", its "disk", the "bsd" *)
(* on it; "links" is AllowSymlinks; "dirs" holds the files by directory, in    *)
(* the order they are read, "barred" the directories that are not scanned,  *)
(* "efi" those under \EFI in their order, "guids" those named for a GUID;   *)
(* "options" the lines of a directory's Linux options file; "entries" the   *)
(* files of loader\entries.                                                 *)
(* A file has a "name", a "class", a "time", its content ("data"), whether  *)
(* only the Linux patterns match it ("plain"), and why it is no loader to   *)
(* be shown ("bars").  A path is a directory and a name.                    *)
(***************************************************************************)
EXTENDS Naturals, SequencesExt

CONSTANTS
    Machines,   \* what may be attached: sequences of volumes, in the order of Volumes[]
    Settings,   \* "scanfor" (ScanFor), "plain" (scan_all_linux_kernels), "fold"
    Launches,   \* on "apple" firmware, or by "openCore"
    AlsoScanDirs,   \* also_scan_dirs
    OwnLoader   \* the path Meridian was started from

VARIABLES
    machine, settings, launch,
    patterns,   \* MatchPatterns: {} or whether the Linux patterns are among them
    hasMac,     \* HasMacOS
    hasOC,      \* HasOpenCore
    menu,       \* MainMenu
    claims,     \* BlsClaimedLoaders
    scan,       \* where the scan is
    dirScan,    \* where ScanLoaderDir is
    before      \* history: the menu of the last scan, if nothing has changed since

vars == <<machine, settings, launch, patterns, hasMac, hasOC, menu, claims, scan, dirScan,
          before>>
outside == <<machine, settings, launch, before>>

FallbackPath == <<"EFI/BOOT", "bootx64.efi">>
CoreServices == "System/Library/CoreServices"
WindowsDir == "EFI/Microsoft/Boot"
EntriesDir == "loader/entries"

-----------------------------------------------------------------------------
(* Files and volumes.                                                       *)

FilesIn(v, dir) == IF dir \in DOMAIN v.dirs THEN v.dirs[dir] ELSE <<>>

FileExists(v, p) == \E f \in ToSet(FilesIn(v, p[1])) : f.name = p[2]

FileAt(v, p) == CHOOSE f \in ToSet(FilesIn(v, p[1])) : f.name = p[2]

IsValidLoader(v, p) == FileExists(v, p) /\ "invalid" \notin FileAt(v, p).bars

VolumeScanAllowed(v, skipVentoy) ==
    /\ v.allowed
    /\ (~skipVentoy /\ v.ventoy) => FileExists(v, FallbackPath)

\* "barred": Apple's, Meridian's own, memtest's, the tools' and those of dont_scan_dirs.
ShouldScan(v, dir) ==
    /\ dir \notin v.barred
    /\ \/ VolumeScanAllowed(v, FALSE)
       \/ v.ventoy /\ dir = FallbackPath[1] /\ FileExists(v, FallbackPath)

DuplicatesFallback(v, p) ==
    /\ FileExists(v, p) /\ FileExists(v, FallbackPath) /\ p # FallbackPath
    /\ FileAt(v, p).data = FileAt(v, FallbackPath).data

DetectBsdKind(v) == v.bsd

BsdRootLoader(kind) ==
    IF kind = "openbsd" THEN <<"usr/mdec", "bootx64.efi">> ELSE <<"boot", "loader.efi">>

BsdKindFromName(dir) ==
    CASE dir = "EFI/freebsd" -> "freebsd" [] dir = "EFI/openbsd" -> "openbsd" [] OTHER -> "none"

\* The BSD's own volume on the same disk is scanned for the loader this directory holds.
IsDuplicateBsdEspDir(v, dir) ==
    /\ BsdKindFromName(dir) # "none"
    /\ \E u \in ToSet(machine) :
          /\ u.fs = "ufs" /\ u.disk = v.disk /\ DetectBsdKind(u) = BsdKindFromName(dir)
          /\ IsValidLoader(u, BsdRootLoader(DetectBsdKind(u)))

-----------------------------------------------------------------------------
(* The menu.  An entry is of a volume (its place in Volumes[]), starts a    *)
(* path, and is of one kind of system; "bls" is the file of loader\entries  *)
(* it came from, 0 for none, "sub" the kernels folded into its submenu, one *)
(* for each line of the options file.                                       *)

Linux(f) == f.class \in {"linux", "rescue"}

OSType(f) ==
    CASE Linux(f) -> "L" [] f.class = "opencore" -> "O" [] f.class = "mac" -> "M" [] OTHER -> ""

IsPath(p) == p = <<p[1], p[2]>>

Entry(n, p, os, bls) == [vol |-> n, path |-> p, os |-> os, bls |-> bls, sub |-> <<>>]

AddLoaderEntry(m, v, n, p) ==
    IF VolumeScanAllowed(v, TRUE) THEN Append(m, Entry(n, p, OSType(FileAt(v, p)), 0)) ELSE m
\* Mutant: oldest first.
AddLoaderListEntry_OldestFirst(list, f) ==
    LET later == {i \in DOMAIN list : list[i].class # "rescue" /\ f.time <= list[i].time}
    IN  IF f.class = "rescue" \/ later = {} THEN Append(list, f)
        ELSE InsertAt(list, Min(later), f)

\* Newest first; a rescue kernel goes to the end, and is passed over afterwards.
AddLoaderListEntry(list, f) ==
    LET later == {i \in DOMAIN list : list[i].class # "rescue" /\ f.time >= list[i].time}
    IN  IF f.class = "rescue" \/ later = {} THEN Append(list, f)
        ELSE InsertAt(list, Min(later), f)

AddKernelToSubmenu(m, v, first, p) ==
    [m EXCEPT ![first].sub = @ \o [line \in 1..v.options[p[1]] |-> p]]

\* What the patterns let through and ScanLoaderDir has no reason to leave out.
IsLoader(v, dir, f) ==
    /\ f.plain => TRUE \in patterns
    /\ "link" \in f.bars => v.links
    /\ "aux" \in f.bars => v.fs # "ufs" \/ DetectBsdKind(v) = "none"
    /\ f.bars \subseteq {"link", "aux"}
    /\ <<dir, f.name>> # FallbackPath

IsShown(v, n, dir, f) == IsLoader(v, dir, f) /\ <<n, <<dir, f.name>>>> \notin claims

-----------------------------------------------------------------------------
(* The disks and the settings.  A directory has no name twice, and the      *)
(* fallback's name is neither macOS's nor OpenCore's: a class goes by the   *)
(* name (SetLoaderDefaults).                                                *)

Directories(v) == DOMAIN v.dirs

IsSequence(s) == s \in Seq(ToSet(s))

ASSUME ScanAssumption ==
    /\ \A m \in Machines : IsSequence(m) /\ \A v \in ToSet(m) :
          /\ \A dir \in Directories(v) :
                /\ IsSequence(FilesIn(v, dir))
                /\ \A f \in ToSet(FilesIn(v, dir)) :
                      /\ f.time \in Nat
                      /\ Linux(f) => v.options[dir] \in Nat
                      /\ f.name = FallbackPath[2] => f.class \notin {"mac", "opencore"}
                /\ \A i, j \in DOMAIN FilesIn(v, dir) :
                      FilesIn(v, dir)[i].name = FilesIn(v, dir)[j].name => i = j
          /\ IsSequence(v.efi) /\ IsSequence(v.guids) /\ IsSequence(v.entries)
          /\ \A e \in ToSet(v.entries) : IsPath(e.kernel)
    /\ \A s \in Settings : IsSequence(s.scanfor) /\ s.fold \in BOOLEAN /\ s.plain \in BOOLEAN
    /\ \A l \in Launches : l.apple \in BOOLEAN /\ l.openCore \in BOOLEAN
    /\ IsSequence(AlsoScanDirs)

-----------------------------------------------------------------------------
(* The scan.  "stage" is the step it has come to, "letter" and "vol" the    *)
(* indices into scanfor and Volumes[], "todo" what is gone through on the   *)
(* volume (paths, directories or entries), "done" how far, and "fallback"   *)
(* ScanFallbackLoader.  Of ScanLoaderDir, "at" is the loop it is in         *)
(* ("read", "add"), "done" how far, "list" LoaderList, "first" the place of *)
(* FirstKernel in the menu, and "duplicate" FallbackDuplicate.              *)

Idle == [stage |-> "menu", letter |-> 0, vol |-> 0, todo |-> <<>>, done |-> 0,
         fallback |-> FALSE]
NoDir == [at |-> "out", done |-> 0, list |-> <<>>, first |-> 0, duplicate |-> FALSE]

Init ==
    /\ machine \in Machines /\ settings \in Settings /\ launch \in Launches
    /\ patterns = {} /\ hasMac = FALSE /\ hasOC = FALSE
    /\ menu = <<>> /\ claims = {} /\ before = <<>>
    /\ scan = [Idle EXCEPT !.stage = "off"] /\ dirScan = NoDir

Volume == machine[scan.vol]
Item == scan.todo[scan.done + 1]
More == scan.done < Len(scan.todo)
Onward == [scan EXCEPT !.done = @ + 1]

\* The letters that are gone through: one more than are known, from the first; the
\* keyword's own letter is the first where the configuration names them.
KnownLetters == {"i", "e", "o"}
Letters(s) ==
    SubSeq(s, 1, Min({Len(s), Cardinality({i \in DOMAIN s : s[i] \in KnownLetters}) + 1}))

\* Mutant: the claims of the last scan are kept.
Begin_KeepsClaims ==
    /\ scan.stage = "off"
    /\ menu' = <<>>
    /\ scan' = [Idle EXCEPT !.stage = "letters", !.letter = 1]
    /\ UNCHANGED <<patterns, hasMac, hasOC, claims, dirScan, outside>>

\* ScanForBootloaders up to its loop.
Begin ==
    /\ scan.stage = "off"
    /\ menu' = <<>> /\ claims' = {}
    /\ scan' = [Idle EXCEPT !.stage = "letters", !.letter = 1]
    /\ UNCHANGED <<patterns, hasMac, hasOC, dirScan, outside>>

\* ScanVolumesByKind.
NextLetter ==
    /\ scan.stage = "letters" /\ scan.letter <= Len(Letters(settings.scanfor))
    /\ scan' = [scan EXCEPT !.stage = "volumes", !.vol = 1]
    /\ UNCHANGED <<patterns, hasMac, hasOC, menu, claims, dirScan, outside>>

VolumesDone ==
    /\ scan.stage = "volumes" /\ scan.vol > Len(machine)
    /\ scan' = [scan EXCEPT !.stage = "letters", !.letter = @ + 1]
    /\ UNCHANGED <<patterns, hasMac, hasOC, menu, claims, dirScan, outside>>

EntriesOf(v) ==
    IF ShouldScan(v, EntriesDir) THEN [i \in DOMAIN v.entries |-> i] ELSE <<>>

SkipsVolume(v) ==
    \/ v.whole
    \/ ~VolumeScanAllowed(v, TRUE) /\ ~v.ventoy
    \/ ~v.ventoy /\ (v.synced \/ (v.bootcamp /\ launch.apple))

Visits(n) ==
    machine[n].kind = Letters(settings.scanfor)[scan.letter] /\ ~SkipsVolume(machine[n])

SkipVolume ==
    /\ scan.stage = "volumes" /\ scan.vol <= Len(machine) /\ ~Visits(scan.vol)
    /\ scan' = [scan EXCEPT !.vol = @ + 1]
    /\ UNCHANGED <<patterns, hasMac, hasOC, menu, claims, dirScan, outside>>

EnterVentoy ==
    /\ scan.stage = "volumes" /\ scan.vol <= Len(machine) /\ Visits(scan.vol)
    /\ Volume.ventoy
    /\ scan' = [scan EXCEPT !.stage = "entries", !.todo = EntriesOf(Volume), !.done = 0,
                            !.fallback = TRUE]
    /\ UNCHANGED <<patterns, hasMac, hasOC, menu, claims, dirScan, outside>>

\* The loaders looked for by name: macOS, XoM, Windows.
MacPaths(v) ==
    IF v.fs = "ntfs" \/ ~ShouldScan(v, CoreServices) THEN <<>>
    ELSE [i \in 1..Len(v.guids) + 1 |->
             <<(<<CoreServices>> \o v.guids)[i], "boot.efi">>] \o <<<<CoreServices, "xom.efi">>>>

WindowsPaths(v) ==
    IF ShouldScan(v, WindowsDir)
    THEN <<<<WindowsDir, "bkpbootmgfw.efi">>, <<WindowsDir, "bootmgfw.efi">>>> ELSE <<>>

EnterVolume ==
    /\ scan.stage = "volumes" /\ scan.vol <= Len(machine) /\ Visits(scan.vol)
    /\ ~Volume.ventoy
    /\ patterns' = IF patterns = {} THEN {settings.plain} ELSE patterns
    /\ scan' = [scan EXCEPT !.stage = "named", !.todo = MacPaths(Volume) \o WindowsPaths(Volume),
                            !.done = 0, !.fallback = TRUE]
    /\ UNCHANGED <<hasMac, hasOC, menu, claims, dirScan, outside>>

IsThere(v, p) == FileExists(v, p) /\ "dontscan" \notin FileAt(v, p).bars

NamedLoader ==
    /\ scan.stage = "named" /\ More
    /\ IF IsThere(Volume, Item)
       THEN /\ menu' = AddLoaderEntry(menu, Volume, scan.vol, Item)
            /\ hasMac' = (hasMac \/ Item[2] = "boot.efi")
            /\ scan' = [Onward EXCEPT !.fallback = @ /\ ~DuplicatesFallback(Volume, Item)]
       ELSE scan' = Onward /\ UNCHANGED <<menu, hasMac>>
    /\ UNCHANGED <<patterns, hasOC, claims, dirScan, outside>>

NamedDone ==
    /\ scan.stage = "named" /\ ~More
    /\ scan' = [scan EXCEPT !.stage = "dirs", !.todo = <<"root">> \o Volume.efi, !.done = 0]
    /\ UNCHANGED <<patterns, hasMac, hasOC, menu, claims, dirScan, outside>>

-----------------------------------------------------------------------------
(* ScanLoaderDir on the directory at hand.                                  *)

EntersDir(v, dir) ==
    /\ scan.stage = "dirs" => dir # "EFI/tools" /\ ~IsDuplicateBsdEspDir(v, dir)
    /\ ShouldScan(v, dir)

AtDir ==
    /\ scan.stage = "dirs" \/ (scan.stage = "also" /\ scan.fallback)
    /\ More /\ dirScan.at = "out"

SkipDir ==
    /\ AtDir /\ ~EntersDir(Volume, Item)
    /\ scan' = Onward
    /\ UNCHANGED <<patterns, hasMac, hasOC, menu, claims, dirScan, outside>>

OpenDir ==
    /\ AtDir /\ EntersDir(Volume, Item)
    /\ dirScan' = [NoDir EXCEPT !.at = "read"]
    /\ UNCHANGED <<patterns, hasMac, hasOC, menu, claims, scan, outside>>

Files == FilesIn(Volume, Item)

ReadFile ==
    /\ dirScan.at = "read" /\ dirScan.done < Len(Files)
    /\ LET f == Files[dirScan.done + 1]
           next == [dirScan EXCEPT !.done = @ + 1]
       IN  dirScan' = IF IsShown(Volume, scan.vol, Item, f)
                      THEN [next EXCEPT
                              !.list = AddLoaderListEntry(@, f),
                              !.duplicate = @ \/ DuplicatesFallback(Volume, <<Item, f.name>>)]
                      ELSE next
    /\ UNCHANGED <<patterns, hasMac, hasOC, menu, claims, scan, outside>>

DirRead ==
    /\ dirScan.at = "read" /\ dirScan.done = Len(Files)
    /\ dirScan' = [dirScan EXCEPT !.at = "add", !.done = 0]
    /\ UNCHANGED <<patterns, hasMac, hasOC, menu, claims, scan, outside>>

Adds == dirScan.at = "add" /\ dirScan.done < Len(dirScan.list)
Loader == dirScan.list[dirScan.done + 1]

\* Mutant: whatever follows a kernel is folded under it.
Folds_All(f) == dirScan.first # 0 /\ settings.fold

Folds(f) == Linux(f) /\ dirScan.first # 0 /\ settings.fold

FoldKernel ==
    /\ Adds /\ Folds(Loader)
    /\ menu' = AddKernelToSubmenu(menu, Volume, dirScan.first, <<Item, Loader.name>>)
    /\ dirScan' = [dirScan EXCEPT !.done = @ + 1]
    /\ UNCHANGED <<patterns, hasMac, hasOC, claims, scan, outside>>

AddListed ==
    /\ Adds /\ ~Folds(Loader)
    /\ menu' = AddLoaderEntry(menu, Volume, scan.vol, <<Item, Loader.name>>)
    /\ hasOC' = (hasOC \/ Loader.class = "opencore")
    /\ dirScan' = [dirScan EXCEPT
          !.done = @ + 1,
          !.first = IF Linux(Loader) /\ @ = 0 THEN Len(menu) + 1 ELSE @]
    /\ UNCHANGED <<patterns, hasMac, claims, scan, outside>>

DirDone ==
    /\ dirScan.at = "add" /\ dirScan.done = Len(dirScan.list)
    /\ scan' = [Onward EXCEPT !.fallback = @ /\ ~dirScan.duplicate]
    /\ dirScan' = NoDir
    /\ UNCHANGED <<patterns, hasMac, hasOC, menu, claims, outside>>

LoaderDirs ==
    SkipDir \/ OpenDir \/ ReadFile \/ DirRead \/ FoldKernel \/ AddListed \/ DirDone

-----------------------------------------------------------------------------
\* Meridian's own copy as the fallback, and the loader in a BSD's root.
OwnCopyIsFallback(v) == v.own /\ DuplicatesFallback(v, OwnLoader)

ScanBsdRootLoader(v) ==
    /\ v.fs = "ufs"
    /\ IsValidLoader(v, BsdRootLoader(v.bsd))
    /\ "dontscan" \notin FileAt(v, BsdRootLoader(v.bsd)).bars

OwnAndBsd ==
    /\ scan.stage = "dirs" /\ ~More
    /\ menu' = IF ScanBsdRootLoader(Volume)
               THEN AddLoaderEntry(menu, Volume, scan.vol, BsdRootLoader(Volume.bsd)) ELSE menu
    /\ scan' = [scan EXCEPT !.stage = "also", !.todo = AlsoScanDirs, !.done = 0,
                            !.fallback = @ /\ ~OwnCopyIsFallback(Volume)
                                           /\ ~ScanBsdRootLoader(Volume)]
    /\ UNCHANGED <<patterns, hasMac, hasOC, claims, dirScan, outside>>

AlsoScanned ==
    /\ scan.stage = "also" /\ (~More \/ ~scan.fallback)
    /\ scan' = [scan EXCEPT !.stage = "entries", !.todo = EntriesOf(Volume), !.done = 0]
    /\ UNCHANGED <<patterns, hasMac, hasOC, menu, claims, dirScan, outside>>

\* The entries for a kernel: the last one stays, and the first of the others goes.
KernelEntries(m, n, p) ==
    {i \in DOMAIN m : m[i].vol = n /\ m[i].os = "L" /\ m[i].path = p}
\* Mutant: no entry goes.
RemoveBlindLinuxLoaderForBls_KeepsBoth(m, n, p) == m

RemoveBlindLinuxLoaderForBls(m, n, p) ==
    IF \E i, j \in KernelEntries(m, n, p) : i < j
    THEN RemoveAt(m, Min(KernelEntries(m, n, p))) ELSE m

\* AddKernelToSubmenu gives all lines of one kernel the same string for their path, and
\* FreeMenuEntry frees it with each of them.
FreesTwice(m, n, p) ==
    /\ \E i, j \in KernelEntries(m, n, p) : i < j
    /\ LET sub == m[Min(KernelEntries(m, n, p))].sub
       IN  Cardinality(ToSet(sub)) < Len(sub)

\* ParseBlsEntryFile on the next file.
IsKernelEntry(v, e) == e.arch /\ IsValidLoader(v, e.kernel)

BlsEntry ==
    /\ scan.stage = "entries" /\ More
    /\ LET e == Volume.entries[Item]
           added == Append(menu, Entry(scan.vol, e.kernel, "L", Item))
       IN  IF IsKernelEntry(Volume, e)
           THEN /\ menu' = RemoveBlindLinuxLoaderForBls(added, scan.vol, e.kernel)
                /\ claims' = claims \cup {<<scan.vol, e.kernel>>}
                /\ \/ scan' = Onward
                   \/ /\ FreesTwice(added, scan.vol, e.kernel)
                      /\ scan' = [Onward EXCEPT !.stage = "undefined"]
           ELSE scan' = Onward /\ UNCHANGED <<menu, claims>>
    /\ UNCHANGED <<patterns, hasMac, hasOC, dirScan, outside>>

OffersFallback(v) ==
    ShouldScan(v, FallbackPath[1]) /\ IsThere(v, FallbackPath)

Fallback ==
    /\ scan.stage = "entries" /\ ~More
    /\ menu' = IF scan.fallback /\ OffersFallback(Volume)
               THEN AddLoaderEntry(menu, Volume, scan.vol, FallbackPath) ELSE menu
    /\ scan' = [scan EXCEPT !.stage = "volumes", !.vol = @ + 1]
    /\ UNCHANGED <<patterns, hasMac, hasOC, claims, dirScan, outside>>

\* ReconcileHackintoshMacOS; the relabelling of the OpenCore entry is PreviousBoot's.
Bootable(e) ==
    /\ ~(e.os = "M" /\ machine[e.vol].fs = "apfs")
    /\ ~(e.os = "O" /\ launch.openCore)

Reconcile ==
    /\ scan.stage = "letters" /\ scan.letter > Len(Letters(settings.scanfor))
    /\ scan' = IF launch.apple \/ ~hasMac \/ ~hasOC THEN Idle
               ELSE [Idle EXCEPT !.stage = "reconcile"]
    /\ UNCHANGED <<patterns, hasMac, hasOC, menu, claims, dirScan, outside>>

KeepEntry ==
    /\ scan.stage = "reconcile" /\ scan.done < Len(menu) /\ Bootable(menu[scan.done + 1])
    /\ scan' = Onward
    /\ UNCHANGED <<patterns, hasMac, hasOC, menu, claims, dirScan, outside>>

DropEntry ==
    /\ scan.stage = "reconcile" /\ scan.done < Len(menu) /\ ~Bootable(menu[scan.done + 1])
    /\ menu' = RemoveAt(menu, scan.done + 1)
    /\ UNCHANGED <<patterns, hasMac, hasOC, claims, scan, dirScan, outside>>

Reconciled ==
    /\ scan.stage = "reconcile" /\ scan.done = Len(menu)
    /\ scan' = Idle
    /\ UNCHANGED <<patterns, hasMac, hasOC, menu, claims, dirScan, outside>>

\* In front of a rescan the disks and the configuration may change; RescanAll empties the
\* menu and reads the configuration again.
Rescan ==
    /\ scan.stage = "menu"
    /\ machine' \in Machines /\ settings' \in Settings
    /\ before' = IF machine' = machine /\ settings' = settings THEN <<menu>> ELSE <<>>
    /\ menu' = <<>>
    /\ scan' = [Idle EXCEPT !.stage = "off"]
    /\ UNCHANGED <<launch, patterns, hasMac, hasOC, claims, dirScan>>

Next ==
    \/ Begin \/ NextLetter \/ VolumesDone \/ SkipVolume \/ EnterVentoy \/ EnterVolume
    \/ NamedLoader \/ NamedDone \/ LoaderDirs \/ OwnAndBsd \/ AlsoScanned
    \/ BlsEntry \/ Fallback
    \/ Reconcile \/ KeepEntry \/ DropEntry \/ Reconciled \/ Rescan

Spec == Init /\ [][Next]_vars

-----------------------------------------------------------------------------
(* Properties.  The menu is judged when the scan is over.                   *)

\* The types: every entry of the menu is of an attached volume and has a path, FirstKernel is
\* an entry of the menu, and ScanLoaderDir is in one of its loops or out of it.
TypeOK ==
    /\ machine \in Machines /\ settings \in Settings /\ launch \in Launches
    /\ patterns \subseteq BOOLEAN /\ hasMac \in BOOLEAN /\ hasOC \in BOOLEAN
    /\ IsSequence(menu)
    /\ \A e \in ToSet(menu) :
          /\ e = [vol |-> e.vol, path |-> e.path, os |-> e.os, bls |-> e.bls, sub |-> e.sub]
          /\ e.vol \in 1..Len(machine) /\ e.bls \in Nat
          /\ IsSequence(e.sub) /\ \A p \in {e.path} \cup ToSet(e.sub) : IsPath(p)
    /\ \A c \in claims : IsPath(c) /\ IsPath(c[2])
    /\ scan.stage \in {"off", "letters", "volumes", "named", "dirs", "also", "entries",
                       "reconcile", "menu", "undefined"}
    /\ DOMAIN scan = DOMAIN Idle
    /\ scan.letter \in Nat /\ scan.vol \in Nat /\ scan.done \in Nat /\ scan.fallback \in BOOLEAN
    /\ DOMAIN dirScan = DOMAIN NoDir
    /\ dirScan.at \in {"out", "read", "add"} /\ dirScan.done \in Nat
    /\ dirScan.first \in 0..Len(menu) /\ dirScan.duplicate \in BOOLEAN

Done == scan.stage = "menu"

Offered(n, p) ==
    \E e \in ToSet(menu) : e.vol = n /\ (e.path = p \/ p \in ToSet(e.sub))

Withheld(f, v) ==
    /\ ~launch.apple /\ hasMac /\ hasOC
    /\ \/ f.class = "mac" /\ v.fs = "apfs"
       \/ f.class = "opencore" /\ launch.openCore

\* A kernel is folded under another one that has no options for it, or that left the menu
\* for an entry of loader\entries and took its submenu with it.
LostInFold(n, dir, f) ==
    /\ Linux(f) /\ settings.fold
    /\ \/ machine[n].options[dir] = 0
       \/ \E c \in claims : c[1] = n /\ c[2][1] = dir

HasTwin(n) ==
    \/ OwnCopyIsFallback(machine[n]) \/ ScanBsdRootLoader(machine[n])
    \/ \E dir \in DOMAIN machine[n].dirs : \E f \in ToSet(machine[n].dirs[dir]) :
          DuplicatesFallback(machine[n], <<dir, f.name>>)

NamedPaths(v) == {p \in ToSet(MacPaths(v) \o WindowsPaths(v)) : IsThere(v, p)}

EfiDirs(v) == {dir \in ToSet(v.efi) : dir # "EFI/tools" /\ ~IsDuplicateBsdEspDir(v, dir)}

Reachable(n, dir, f) ==
    Offered(n, <<dir, f.name>>) \/ Withheld(f, machine[n]) \/ LostInFold(n, dir, f)

NamedFound(n) ==
    \A p \in NamedPaths(machine[n]) : Reachable(n, p[1], FileAt(machine[n], p))

DirFound(n, dir) ==
    ShouldScan(machine[n], dir) =>
        \A f \in ToSet(FilesIn(machine[n], dir)) :
            IsLoader(machine[n], dir, f) => Reachable(n, dir, f)

VolumeFound(n) ==
    LET v == machine[n] IN
    /\ ~v.ventoy => /\ NamedFound(n)
                    /\ \A dir \in {"root"} \cup EfiDirs(v) : DirFound(n, dir)
                    /\ HasTwin(n) \/ \A dir \in ToSet(AlsoScanDirs) : DirFound(n, dir)
    /\ v.allowed /\ OffersFallback(v) => HasTwin(n) \/ Offered(n, FallbackPath)

\* Every loader of a volume that is scanned can be reached from the menu: those looked for
\* by name, those of its directories, the kernels of loader\entries and the fallback, which
\* only a copy of itself (or a BSD's root) replaces.  Kernels may be lost in folding.
NothingIsLost ==
    Done =>
        /\ \A n \in DOMAIN machine :
              machine[n].kind \in ToSet(Letters(settings.scanfor)) /\ ~SkipsVolume(machine[n])
              => VolumeFound(n)
        /\ \A c \in claims : Offered(c[1], c[2])

\* What is looked for by name on a volume, its directories, and those of loaders in a directory.
NamedOf(v) == MacPaths(v) \o WindowsPaths(v)
NamedDirs(v) == {p[1] : p \in ToSet(NamedOf(v))}
RootAndEfi(v) == <<"root">> \o v.efi

\* No two sources find the same file by design: no directory of also_scan_dirs is scanned
\* anyway or named twice, and a kernel of loader\entries goes by a kernel's name.
SourcesApart ==
    /\ IsInjective(AlsoScanDirs)
    /\ \A m \in Machines : \A v \in ToSet(m) :
          /\ IsInjective(NamedOf(v)) /\ IsInjective(RootAndEfi(v))
          /\ ToSet(AlsoScanDirs) \cap ToSet(RootAndEfi(v)) = {}
          /\ NamedDirs(v) \cap (ToSet(AlsoScanDirs) \cup ToSet(RootAndEfi(v))) = {}
          /\ FallbackPath \notin ToSet(NamedOf(v))
          /\ BsdRootLoader(v.bsd)[1] \notin NamedDirs(v) \cup ToSet(RootAndEfi(v))
          /\ \A e \in ToSet(v.entries) : IsKernelEntry(v, e) =>
                /\ Linux(FileAt(v, e.kernel))
                /\ e.kernel \notin ToSet(NamedOf(v)) \cup {FallbackPath, BsdRootLoader(v.bsd)}

\* No loader is on the menu twice, whether it was met in a directory, under a name of its
\* own, as the fallback or in loader\entries; only where scanfor names a kind twice are
\* the loaders of that kind there twice, the kernels of loader\entries never.
NothingTwice ==
    Done => \A i, j \in DOMAIN menu :
        menu[i].vol = menu[j].vol /\ menu[i].path = menu[j].path =>
            \/ i = j
            \/ /\ <<menu[i].vol, menu[i].path>> \notin claims
               /\ \E k, l \in DOMAIN settings.scanfor :
                     /\ k # l /\ settings.scanfor[k] = settings.scanfor[l]
                     /\ settings.scanfor[k] = machine[menu[i].vol].kind

\* The kernel that stands for its directory is the newest and the others follow by age,
\* whatever the order in which the directory was read: AddLoaderListEntry sorts and
\* AddKernelToSubmenu keeps the order.  A rescue kernel stands for others only if it was
\* read before all those no entry of loader\entries has claimed.
NewestKernelFirst ==
    Done => \A e \in ToSet(menu) : e.bls = 0 /\ e.sub # <<>> =>
        LET v == machine[e.vol]
            dir == e.path[1]
            kernels == <<e.path>> \o e.sub
            File(i) == FileAt(v, kernels[i])
        IN  /\ \A i, j \in DOMAIN kernels :
                  i < j /\ "rescue" \notin {File(i).class, File(j).class} =>
                      File(i).time >= File(j).time
            /\ File(1).class = "rescue" =>
                  \A i, j \in DOMAIN FilesIn(v, dir) :
                      /\ FilesIn(v, dir)[i] = File(1)
                      /\ Linux(FilesIn(v, dir)[j]) /\ IsShown(v, e.vol, dir, FilesIn(v, dir)[j])
                      => i <= j

\* A rescan of the same disks with the same configuration shows the same menu: nothing of
\* the last scan (claims, HasMacOS, HasOpenCore, MatchPatterns) changes what it finds.
SameDisksSameMenu == Done /\ before # <<>> => menu = before[1]
=============================================================================
