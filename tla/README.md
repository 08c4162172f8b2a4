# A specification of Meridian (RefindPlus)

TLA+ modules for the parts of the Meridian boot manager whose correctness depends
on the order of steps: reading files (the block cache, the host's read caches, the
drivers' block maps, names and directories), the asynchronous queue of the NVMe
driver, the scan that makes the menu, the menu cached between launches, the
firmware's boot options and one-shot boot requests, what is remembered of the last
boot, and the boot menu with its countdown. TLC checks each module on a small
instance, and TLAPS proves the main properties for every value of the constants.

Paths below are relative to `src/`. In a module, a definition carries the name of
the C function it stands for where there is one. Operators whose name has a suffix
(`FindBootNum_NoWindow`) are mutants: the same definition with a plausible bug, which
the run named in `PROJECT.json` must then refute. They stand before the definition
they imitate and nothing else uses them.

## 1. The system

Meridian is one single-threaded UEFI application (derived from rEFIt, rEFInd and
RefindPlus). `efi_main` reads the configuration, scans disks, shows a menu and
starts what the user picks; the machine then belongs to the started system, or comes
back to the menu. There are no threads; the one thing that interrupts it is the
timer callback of the NVMe driver. What makes it hard is what happens *between* its
steps: the firmware may fail any call, a write to NVRAM or to a file may fail or
be cut short, `StartImage` and even `ResetSystem` may return, the user may switch the
machine off, and between two launches other systems change the disks, the NVRAM and
the configuration.

| Component | State it keeps | Operations | What is hard about it | Modelled by |
| --- | --- | --- | --- | --- |
| Block cache of the file system core (`filesystems/fsw_core.c`) | `bcache[]`: block number, level, reference count, buffer | `fsw_block_get`, `fsw_block_release`, `fsw_blockcache_free` | several buffers pinned at once, failure after a victim was chosen, growth | `FswBlockCache` |
| Dnodes (same file) and the file protocol (`filesystems/fsw_efi.c`, `storage/file_io.c`) | dnode list, reference counts, parents; open handles; the cache of directory listings | lookup, retain, release, links; open, read, close; `DirIter*` | counts along parent chains on error paths; a listing outlives its handle | `FswDirs`, `FswNames` |
| Extents (same file) and the drivers' block maps (`filesystems/fsw_*.c`) | the last extent of a handle, position, run caches of the drivers | `fsw_shandle_read`, `get_extent` of each driver | holes, gaps and indirections at the edges; an error that looks like a hole | `FswDnode`, `FswExtentMaps`, `FswFile` |
| btrfs (`filesystems/fsw_btrfs.c`) | attached devices, the extent kept, stripes recovered from parity | `read_logical` over chunks and RAID levels, tree search, `get_extent` | devices that are missing, come late or fail; a chunk tree that is read through itself; caches left by a failed call | `FswBtrfsTree`, `FswBtrfs`, in `FswFile` and `FswDirs` |
| Read caches of the host (`filesystems/fsw_efi.c`) | two windows shared by all volumes | `fsw_efi_read_block`, start, stop | keyed by the address of a volume, which is reused | `FswReadCache`, against `FswDisk` |
| Installer, BootOrder manager (`install/install.c`) | `Boot####`, `BootOrder` | install, promote, delete | NVRAM writes one at a time; other systems' options | `BootTable`, `BootOrder` |
| Firmware hand-over (`loaders/launch_efi.c`, `policy/nvram_helpers.c`) | `BootNext`, `OsIndications`, recovery variables | four kinds of reboot request | half a request, a reset that returns | `BootTable`, `BootHandoff` |
| Previous boot (`boot/main.c`, `loaders/launch_efi.c`, `ui/conn_bridge.c`) | files `PreviousBoot`, `PreviousBootId`; `BootSelection` | start loader/tool, store, choose default | failed loads, torn files, equal names | `PreviousBoot` |
| Menu cache (`kernel/cache.c`, `boot/main.c`) | `menu.cache` | load, store, invalidate | everything it describes changes behind it | `MenuCache` |
| Main loop (`boot/main.c`) | the selected entry, `MainLoopRunning`, first-loop filters | one case per menu tag | stale input, timeouts, tags rewritten in place | partly in `PreviousBoot`, `MenuCache`, `ConnMenu`; rest planned |
| Variable layer (`lib/lib.c`, `storage/file_io.c`) | NVRAM or the `vars` folder | get, set, save file | equal value is an error; delete then write; no truncation | inside the modules above |
| Security policy hooks (`mok/security_policy.c`) | two saved function pointers | install, uninstall | one of two steps fails | planned |
| Console capture, loop timer (`kernel/`) | saved `OutputString`, deadline | begin/end, arm/expired | the console is replaced in between | planned |
| Boot menu (`conn/core/ui.c`, `app.c`, `ui/conn_bridge.c`) | selection, countdown, idle time, saver; `TimeoutSeconds` | keys, pointer, timer, options | keys against ticks, flags against states, every way out and back | `ConnUi`, `ConnMenu`, `AutoBoot`; the default in `PreviousBoot` |
| Editors and lists (`conn/core/widget_*.c`) | text, cursor, scroll | key reducers | cursor at the ends | planned |
| Scanning (`discovery/`) | `MainMenu`, claimed loaders | scan, fold, reconcile | order of sources, what one source hides from another, settings that stick | `Scan`; its result is an input of `PreviousBoot` and `MenuCache` |
| Volumes (`storage/volume_scan.c`) | `Volumes[]` | enumerate, name | identities of a volume | inputs of `Scan`, `MenuCache` |
| Limine loader (`loaders/limine/`) | memory map key | hand-over | `ExitBootServices` retry | planned |
| NVMe library (`Library/NvmExpressLib/`) | rings, phase bits, lists of requests and of their parts | read in parts, timer callback, abort, reset | the callback comes between any two statements, the controller at any time | `NvmeAsync` |

Components that are not modelled at all, with the reason, are listed in
`PROJECT.json`: string functions, launch option strings, platform probes, network
discovery, the embedded Lua interpreter, and the companion applications (separate
binaries). Of the file system drivers, mounting (the superblocks), checksums
and decompression are not.

### How they interact

* The main loop calls everything else, and passes state to later calls through
  globals: `BootSelection` is set in `StartLoader` and read in `StartEFIImage`,
  which a *tool* or a *driver* also goes through.
* `PreviousBoot`, `BootHandoff` and `BootOrder` share the variable layer. It has two
  stores: hardware NVRAM, and the `vars` folder on the ESP (delete, then write).
  `EfivarSetRaw` answers `EFI_ALREADY_STARTED` for a value that is already there.
* `BootOrder` and `BootHandoff` share `FindBootNum`, which is why it has a module
  (`BootTable`) of its own.
* A read goes from the file protocol (`FswNames`) through a handle (`FswDnode`) and the
  driver's extents (`FswFile`), the volume's block cache (`FswBlockCache`) and the host's read
  caches (`FswReadCache`) to `EFI_DISK_IO`, below which the NVMe driver may be
  (`NvmeAsync`). Each layer is modelled over what the one below promises: a block that
  is read is the disk's, or the read fails.
* `Scan` fills the menu from the listings of `DirIter*`, which `file_io.c` caches across
  volumes until a rescan.
* `MenuCache` replaces the scan for a launch, and `PreviousBoot` chooses its default
  from whichever menu came out.
* `ConnMenu` hands `efi_main` an exit and an entry. `MainMenu->TimeoutSeconds` outlives
  the menu and decides whether the next one counts down.
* The firmware is a component too: it takes and clears `BootNext` and
  `OsIndications`, goes through `BootOrder`, and enumerates the disks in an order of
  its own. It is modelled from how the code uses it and marked external in the map.

### What makes each component correct

* **Block cache**: a buffer stays what it was until it is released, every pin is
  returned once, memory is bounded by the pins.
* **Reading**: a read returns the file's bytes at the handle's position or fails; a
  cache answers as the disk would; each path leads to its file, a listing is of its
  directory; every reference taken is given back, on the error paths too.
* **NVMe**: driver and controller agree on who owns each slot of the rings; a request
  lives as long as one of its parts; success means the data was transferred; every
  event is signalled in the end.
* **Scan**: every loader that should be offered is reachable in the menu, once; kernels
  stand by age; the same disks give the same menu again.
* **Boot options**: nobody else's option or place in `BootOrder` is lost; what the
  screen says is what NVRAM holds.
* **Hand-over**: the machine is only reset with the whole request in place, and what
  starts is what was asked for; an abandoned request leaves nothing behind.
* **Previous boot**: only what was really loaded is remembered, and the next launch
  returns to that entry and no other.
* **Menu cache**: what is shown is what was stored, can still be started, and is what
  a scan would show if nothing changed; another build's or a disabled cache is gone.
* **Boot menu**: unattended it starts the default, and once; whoever touches it is not
  overtaken by the countdown; the saver comes when it should and swallows what wakes it.

## 2. The modules

Every NVRAM write, file write and firmware call whose failure the code can see is an
action (or a disjunct of one) of its own, so that a failure, a power cut or another
system can come between any two. Reading is atomic. Names, loaders, load options and
block contents are members of small sets; formatting, logging and drawing are left
out.

### `FswBlockCache` (`filesystems/fsw_core.c:99-261`)

`size` and `bcache` are `vol->bcache_size` and `vol->bcache[]`; `data` stands for the
bytes of a slot's buffer, named by the block they were read from (`Garbage` before
that). `pins` is what the callers hold: a client is one `fsw_block_get` not yet
released. `GetHit` and `GetMiss` are the two halves of `fsw_block_get`; `GetFails` is
the miss whose buffer cannot be allocated or whose read fails, with everything it has
changed by then (`Prepared`: the grown table, the victim emptied). `Release` is
`fsw_block_release` and `Free` `fsw_blockcache_free`, which a volume only reaches with
nothing pinned (`fsw_unmount`, and `fsw_set_blocksize` while a driver mounts). A call
that gets no memory for a larger table is a stutter: it returns before it has changed
anything.

### `FswReadCache` over `FswDisk` (`filesystems/fsw_efi.c`)

`FswDisk` is what a volume is to the core: what is mounted, and for each read either
the block of the medium in the drive or an error. `FswReadCache` implements it. The
volume structures live at `Addrs`, which the pool hands out again after a failed start
or a stop; `caches` is `FswCache`'s two windows, each with the address that owns it;
`inserted` the media. Operations: `StartBegins`, `StartSucceeds`, `StartFails` (a mount
or protocol that fails), `Stop`, the further devices of a btrfs array (`AttachDevice`,
`DetachDevice`), `SetBlocksize` and `OpenVolume` (both clear the windows),
`ChangeMedium` (external), and the four paths of `fsw_efi_read_block`: `ReadHit`,
`ReadAhead` (a window filled behind the block), `ReadAlone` (the window could not be
read, the block alone could) and `ReadNoBuffer`. Offsets count in smallest blocks.

### `FswDnode`, and `FswFile` over `FswExtentMaps` (`filesystems/fsw_core.c:1013-1166` and the drivers)

`FswDnode` is one handle of the core over *any* driver. `Read` starts a call,
`UseExtent` takes the extent that is kept, `RunFound` and `RunRefused` are the two
answers of a look-up, `CopyBlock`, `CopyBlockFails`, `CopyZeros` and `CopyBuffer` copy
one stretch, `Ends` finishes the call; `SetPosition` and `OpenAgain` are `fsw_efi.c`'s,
`KeptChanges` is whatever else moves the driver's caches between calls, `DiskChanges`
makes blocks unreadable and readable again. A look-up may answer with any extent that
is the file's to its last block (`RunOfFile`), and may fail whenever a block is unreadable
that the redundancy does not make up for (`MayFail`). `FileBytes` is what each file
holds, a byte being its place on the disk or a zero. `FswBlocks` has the block sizes.

`FswExtentMaps` has one operator for each way of the drivers to say where a block of a
file lies: ext4's extent tree and indirect blocks, UFS's fragments, NTFS's runs, HFS+'s
fork records and overflow extents, bcachefs's keys, ISO 9660's one extent; btrfs's is in
`FswBtrfs`. `FswFile` is `FswDnode` with these in the driver's place: `LookUp` calls one of
them, `Reopen` is a file opened again, which may be another one of the same volume, with
the driver's caches as they are, and `AttachSlave` is a further btrfs device that is
connected. It gives `FileBytes` and `MayFail` their meaning from the maps (`TrueBytes`,
`TooMuchLost`), and `ImplementsDnode` says that it behaves as `FswDnode` does. A block is
readable or not at the time it is needed: there is no block cache under these reads
(`FswBlockCache` is the layer that has one).

### `FswBtrfsTree` and `FswBtrfs` (`filesystems/fsw_btrfs.c`)

`FswBtrfsTree` has the order of keys, `fsw_btrfs_lower_bound` and `fsw_btrfs_next_leaf`
on nodes that are readable; files and directories both use it. `FswBtrfs` reads those
nodes through the volume: `ReadSector` is `fsw_btrfs_read_logical`, which finds the chunk
in the superblock's array or by `Descend` in the chunk tree, whose nodes it reads by
calling itself. `Place` is the arithmetic of the RAID levels, `Direct` the loop over
mirrors, `ByParity` the parity levels with the recover cache (`SlotOf`), `Recovered` and
`TwoLost` the field arithmetic of RAID5 and RAID6. A missing device is looked for once
(`Rescanned`). `BtrfsExtent` is `fsw_btrfs_get_extent`: `Keeps` says whether the kept item
answers, `Loaded` looks another one up, `Contents` reads it. What a call changes is a
record that travels with its answer.

Abstractions: a sector holds one number, which for a tree node names the node (its keys
lie in one sector, its items in the next); reads are sector by sector; a compressed
extent inflates to what a table says; what lies behind the stripe table (section 5,
item 20) is read as 0.

### `FswDirs` and `FswNames` (`fsw_core.c`, `fsw_efi.c`, `storage/file_io.c:208-460`)

`FswDirs` has the directories of ext4, ext2, UFS, ISO 9660, bcachefs, HFS+, NTFS and btrfs:
what a look-up by name and one step of a listing return, over blocks that cannot be read. On btrfs a name is
found by its hash, an item holds all names of one hash, a subvolume is a tree of its own
whose root stands in the place of its name, and `...` leads from the default subvolume to
the top of the volume; a dnode is its tree's root node and its object. Its nodes are
readable and on one device here: `FswFile` is where they are not. `FswNames` is what
shares them: `dnodes` is the list of each volume with reference counts and parents,
`handles` the open files, `cache` what `DirIterOpen` keeps of listings. `OpenRoot`,
`Open`, `Close`, `DirIterOpen` (from the cache, failing, or reading), `ClearDirCache` are
the actions; the operators below them (`Retain`, `Release`, `Create`, `Fill`,
`LookUpPath`, `Resolve`, `ListOn`) are the functions of the core, each with its error
paths. In each call at most one thing fails: the inode of a dnode, its data, the
allocation of a dnode, of its name, or of a handle. A name that cannot be copied costs its
directory a reference that nobody gives back (`Lose`), in a look-up and, on btrfs, where a
listing goes past such a name, in a listing; the history `lost` of a dnode counts them. The
pool gives a handle any free address, that of a closed one too (`FreeAddresses`), and
`DirIterOpen` finds its listings by address: a node of the cache keeps, as history, the
root it was read from (`read`) and whether that root's handle was closed since (`closed`).

### `NvmeAsync` (`Library/NvmExpressLib/`)

The asynchronous ring pair of the driver with the lists above it: requests
(`AsyncQueue`), their parts that wait for a free slot (`UnsubmittedSubtasks`), and the
commands in flight (`AsyncPassThruQueue`). The caller runs at `TPL_CALLBACK` and is
interrupted between any two of its statements by `ProcessAsyncTaskList` at `TPL_NOTIFY`
(`TimerTick`, then `Submit...`, `Discard`, `Reap...` until the handler ends); the
controller (`Fetch`, `Execute`, external) moves at any time and answers out of order.
`StartRead` and `QueuePart` are `NvmeAsyncRead`, `Callback` is `AsyncIoCallback`,
`AbortAll` `AbortAsyncPassThruTasks`, `BlockingTimeout` what a blocking command's time-out
does, and the `Reset...` actions are the stages of `NvmeControllerInit`. `faults`, chosen
at the start, says which failures may happen: a part that cannot be mapped, a medium
error, a blocking command that times out, a controller that does not come back, no
memory, and the two kinds of reset.

### `Scan` (`discovery/`)

One launch: `Begin` reads the settings; for each letter of `scanfor` (`NextLetter`,
`VolumesDone`) the volumes are taken in order (`SkipVolume`, `EnterVolume`, `EnterVentoy`),
and on each the sources in the order of `ScanEfiFiles`: `NamedLoader` for each name that is
looked for, `LoaderDirs` for each directory, `OwnAndBsd`, `LoaderDirs` again for those of
`also_scan_dirs` (`AlsoScanned` leaves its loop), `BlsEntry` for each file of
`loader\entries`, `Fallback`. In a directory `ScanLoaderDir` has two loops (`dirScan`):
`ReadFile` sorts a file into `LoaderList`, and after `DirRead` each loader of the list is
folded under the first kernel (`FoldKernel`) or gets an entry of its own (`AddListed`), until
`DirDone`. At the end `Reconcile` decides whether macOS is OpenCore's to start, and then
keeps or drops the entries one by one (`KeepEntry`, `DropEntry`, `Reconciled`).
`Rescan` starts again, after disks and settings may have changed, with what the code
keeps in globals and statics. A loader is its path with what the order of the menu
depends on (its age, rescue or not); an entry is a loader with the kernels folded into
it and the number of its options lines.

### `BootTable` (`install/install.c:575-620`)

`FindBootNum` as an operator over a table of options: first the window 80..89, then
from 0 to the first variable that matches *or cannot be read*, with the index clamped
to 0xFFFF. A load option is one value for what `ConstructBootEntry` packs (label,
device path, loader), since `FindBootNum` compares all of it.

### `Filter` (`install/install.c:639-645`)

`Kept(s, S)`: the copying loop of `SetBootDefault`, also met in the scan and in the
deletion of entries. It is `SelectSeq`, written as a recursive function so that its
facts can be proved; `MCBootOrder` checks that the two agree.

### `BootOrder` (`install/install.c`)

`table` and `order` are NVRAM; `op` is the local state of `InstallMeridian` or
`ManageBootorder`, `screen` the message it ended with. `Install` picks the ESP, copies
the files (`copied`, whose loss is a finding) and calls `FindBootNum`; `WriteOption`
is the write of `CreateNvramEntry`, with what `SetHardwareNvramVariable` lets through,
`SetBootDefault` moves the number to the front, `Erase` and
`Prune` are `DeleteBootEntry` and `DeleteInvalidBootEntries`. `PowerOff` cuts any of
them short, `OtherSystem` is any other system's edit of an option and of the list
while Meridian is idle. What the firmware fails to read may change at any time
(`ReadsChange`), so a number that was taken for free may hold a readable option when it is
written; `op.blind` is history, what could not be read when `FindBootNum` chose the number.
The search itself, a run of reads, is one step and sees one set of failures.

### `BootHandoff` (`loaders/launch_efi.c`, `policy/nvram_helpers.c`)

`op` is the request under way and the write it has reached: `Native`
(`RebootIntoLoader`), `IntoSetup` (`RebootIntoFirmware`), `Recovery`
(`RecoveryBootAPFS`), `Trust` (`RunTrustSync`), then one action for each variable
they write, `Resets`, `ResetReturns` and `Undo`. `running` is who has the machine;
`EnterSetup`, `LeaveSetup`, `TakeBootNext`, `TakeBootOrder`, `SystemReboots` and
`PowerCycle` are the firmware and the started system (external). `asked` and `stray`
are history: what the last reset was for, and what a reset that returned left behind.

### `PreviousBoot` (`boot/main.c`, `loaders/launch_efi.c`, `ui/conn_bridge.c`, `lib/lib.c`)

`Launch` is `AdjustDefaultSelection` followed by `ConnDefaultEntry`; `StartLoader`,
`StartTool` and `HandOver` are the main loop's ways out; `LoadFails`, `Loads`,
`StoreLoaderName`, `StoreLoaderIdentity` and `Starts` are the stages of
`StartEFIImage`; `Rescan` and `LoopTop` keep or reset what the loop keeps. A store
leaves the old contents, the new ones, no file, or a torn one. An entry has the two
names that the code has, `Entry->Title` (remembered) and `Entry->me.Title` (looked
up); `Included` is `MrdStrIncludesCI` as a relation. `loaded` and `last` are history.
Assumption: an existing file of the `vars` folder can be read back.

### `MenuCache` (`kernel/cache.c`, `boot/main.c:197-246, 1127-1142, 1942-1954`, `storage/file_io.c:138-167`)

The machine (`vols` in handle order, generations of partition tables and file
systems, the loaders on them, OpenCore resident or not, build, two settings) changes
only between launches or in front of a rescan; `cache` is the file, with `body` (what
lies on disk) kept apart from `sum` (what its checksum was computed over). `PowerOn`
starts a launch; `LoadHit`, `LoadMiss`, `LoadUnreadable` are the outcomes of
`CacheLoadMenu` (a miss invalidates the file when the build has changed);
`ScanAtBoot` scans and stores or invalidates; `ScanAll` and `RescanAll` are the
rescans of the menu. `ParseBuffer`, `ResolveVolume`, `RecordContentUnchanged` and
`ComputeTopologyFingerprint` are operators. A save is whole, cut after the header or
any number of records, or refused, and *overwrites without shortening the file*.

Abstractions: CRC-32 is the value it covers (no collisions); a record is one cell, so
a shorter file is one with fewer records; one volume for each disk and no two disks
with the same GUID; titles are the volume scanned; the initrd's stamp goes with the
loader's; the volume that holds `menu.cache` is none of `Volumes`; a macOS volume is
present, so `HasMacOS` is true; memory does not run out.

### `ConnUi` (`conn/core/ui.c`, `app.c`)

The model of the menu as a record `ui`: `state` is the state of the machine
`ConnUiMachine`, the other fields are `ConnUiState`'s. One operator for each event:
`OnKey` (in the saver `action_wake`, else `action_key`), `OnPoint` (`action_remote`),
`OpenOptions`, and `OnTick`, whose branches are the rows of `TickTransitions` in their
order. `Stopped` is what keys, wake-ups and the pointer share.

### `ConnMenu` (`ui/conn_bridge.c:2566-2664, 2689-3135`, `boot/main.c`)

`ConnRunMainMenu` in the loop of `efi_main`, from power-on (`Init`: the configuration,
the direct boot and what takes it back). `pc` says who runs: the loop, the menu's wait
loop, the options, the loop again with what was returned, or nobody any more. `Present`
and its two failures open the menu; one action for each kind of input (`Key` for all
that reach the model, `Escape`, `Scroll`, `NetworkKey`, `OptionsKey`, three for the
pointer) and `Tick` for the timer; `Launch` is what follows the wait loop when a row is
started. A submenu or the editor is one action for each outcome. `Rescan`, `ComesBack`,
`Ignored` and `Leaves` are what the loop does with the result. An entry is its row, and
any row may be the default (which one is, is `PreviousBoot`'s subject). `seen` is history.

### `AutoBoot` (abstract)

What the menu promises: a countdown goes down by one each second, is stopped or
expires after exactly its seconds, always ends, and is not armed again after it has
expired. `ConnMenu` implements it with `left` the seconds of a running countdown.

## 3. The runs

TLC finishes each in at most about two minutes. Deadlock is checked except in
`conn_menu`, where `Leaves` ends the program, and `scan`, where the last launch ends.

| Run | Instance | States | What it shows |
| --- | --- | --- | --- |
| `fsw_block_cache` | 4 blocks, 3 clients, levels 0, 1, 3 with cap 2, first table of 2 slots | 3,701 (symmetry) | all orders of hits, misses, failed reads, releases; two growth steps; clamped levels |
| `fsw_read_cache` | 2 drives, 2 structures, 2 media, block sizes 1 and 2, a window of 3, a medium of 6 with one bad spot | 51,855 (symmetry) | whatever is started, stopped, replaced or reused, a read answers as an uncached disk |
| `fsw_file` | 16 files of nine file systems, btrfs with five layouts over one to four devices, five sets of bad blocks and devices, reads of 1, 5 and 20 at 0, 3 and 8 | 122,630 | every driver keeps what `FswDnode` assumes of one, so that what a read returns is the file, in any order of reads, failures and devices that come late |
| `fsw_names` | ext4 with links; HFS+ beside NTFS; bcachefs; btrfs with three subvolumes; ISO 9660 beside UFS and ext2 | 627,627 | no reference is lost, none is left but one for each name that could not be copied, each path leads to its file, each listing is of the directory it was read from |
| `nvme_async` | requests of 2 and 1 parts, 2 reads, rings of 3, three sets of faults | 452,592 | who owns which slot, how long a request lives, what success means, and that the queue drains |
| `scan` | a Linux volume in 6 reading orders, an ESP in 5 variants with one of nine other volumes, 7 settings, 3 launches | 1,107,488 | nothing is lost or twice, kernels by age, the same menu from the same disks |
| `boot_order` | numbers 0..3, window {2}, 2 options, at most 1 unreadable at a time | 1,170,590 | installing, promoting, deleting against failed writes, power loss, another system |
| `install_report` | same | violation | success is announced after a failed copy |
| `boot_handoff` | numbers 0..2, window {1}, 2 options, at most 1 unreadable at a time | 94,704 | four requests, writes that fail, resets that return, the firmware's side |
| `previous_boot` | 2 menus of 5 and 4 entries (two loaders of one name, a relabelled OpenCore, a firmware entry, a tool), 1 submenu option, 2 values of `default_selection` | 1,120,108 | failed loads, torn files, rescans, power loss |
| `menu_cache` | 4 volumes (GPT, two MBR sticks with equal loaders, one unpartitioned), 6 enumeration orders, 2 builds, 2 versions of a loader, 2 changes, 1 fault | 258,820 | every two changes between launches, a torn or refused save or a failed read |
| `conn_menu` | 0, 3 or 4 entries (4 are too many), pages of 2, timeouts -1, 0, 2, screen savers -1, 0, 2, idle time up to 3, 3 s for a direct boot | 1,121,368 | every order of keys, pointer samples, seconds, submenus, edits, rescans and failed launches; the refinement of `AutoBoot` and that the countdown ends |

### Bounds, and why they are enough

* `FswBlockCache`: three clients against two slots reach full pinning, growth and
  the return to an unpinned grown table; four blocks leave one outside. Slots are
  scanned by index and level, and two positions at three levels tell all orders
  apart. Symmetry over clients and blocks is sound: no property is a liveness
  property and nothing compares either.
* `FswReadCache`: two windows and two structures let every window be owned by the wrong
  one; blocks of 1 and 2 with a window of 3 have a block inside, across and behind the
  end of a window, and a medium of 6 its own end; symmetry as above.
* `FswFile`: a block holds 2 units, a list of direct blocks 2, a block of pointers 2, so
  that each file has data in each level of its map and a length that ends inside a
  block. The reads start at the beginning, inside and behind the end, and are shorter
  than a block, across blocks, and longer than the file. The files are one for each
  shape of map a driver tells apart.
* btrfs in `FswFile`: one device; stripes over two; RAID5 over three, RAID6 over four,
  RAID10 over four, each with its metadata on a level of its own and the superblock's
  chunks mirrored. A device is there from the start, found by the one scan, attached
  later, or unreadable, and the sets of bad sectors take one device or two, so that every
  branch of the recovery is taken, with data and with parity lost. `RecoverSlots = 2`
  (17 in the code) lets two stripes meet in a slot, `MaxRun = 2` (128) cuts an extent.
* `FswNames`: two handles at two addresses, and paths that share parents, go through
  links (also a link to itself, for which 5 rounds stand for the 40 of `link_count`),
  name a missing file or a name too long for its buffer. The btrfs image has a tree of two
  leaves, two names of one hash, a name that leads to a subvolume that is gone, and a
  default subvolume that is not the top one. On ISO 9660 a directory has a full sector, one
  filled up with zeros and one behind it; what a look-up misses there is only listed
  (section 5, item 30). `MaxNodes = 2` listings in the cache are enough for two paths of
  one root, one path of two roots, and a listing that outlives its root; with
  `MaxLost = 1` one call of a behaviour meets a name that cannot be copied, for a
  directory that is held or not, before and after anything else happens.
* `NvmeAsync`: rings of 3 hold two commands, so that both requests' three parts wait,
  fill, wrap and turn the phase twice. `Cids` is 65,536, the width of a command id.
* `Scan`: the volumes are those on which a source can hide what another finds; three
  launches let a setting or a disk change and change back.
* `BootTable`: one number below the window, one in it, one or two above: a gap below
  the match, a match in the window, and a full table all occur.
* `MaxUnreadable = 1`: the scan stops at the first unreadable variable, so what lies
  above that one is never looked at; a single one already falls below, on and above
  the match, inside the window and outside. Which one it is changes between any two steps,
  so one variable can fail in the search and another, or none, at the write. The theorems
  have no such bound.
* `PreviousBoot` has no bound besides its menus; the history `loaded` is a set.
* `MenuCache`: `MaxChanges = 2` lets a stick go and another come, or a change be
  undone; 3 was run once (4,973,060 states, no error). `MaxFaults = 1`: two torn saves
  only overwrite each other, which `ServedIsTrue` is proved for without a bound.
  `MaxStamp`, `MaxGen` bound how often one loader or volume changes and follow from
  `MaxChanges`.
* `ConnMenu`: three rows with pages of two reach both ends of the list in a full and in
  a cut page. A timeout of 2 has a second that only counts and one that launches; a
  screen saver of 2 seconds, and of 1 (what a negative value means), has the threshold
  reached by counting and at once. `MaxIdle = 3` lets the idle time reach its limit with
  the saver on. Longer times only repeat the middle steps; the theorems have no bound.

### Properties worth a word

* `OthersKeepTheirOptions` and `SetUpKeepsOthers` have exceptions, and these are the
  code's: with every number taken `FindBootNum` returns 0xFFFF, whose option is
  lost; and a number that cannot be read counts as free (section 5, item 7), so its option
  is lost while other numbers are free. Both speak of what could be read when the number
  was chosen, since the write happens later, perhaps when all can be read again.
* `NoSecondRegistration` says exactly when the code can recognise its own option: in
  the window, or with no gap or variable it could not read below it.
* `PendingOnlyAfterFailedReset` has `stray` on its right-hand side: of the four
  requests only `RebootIntoLoader` undoes its `BootNext` when `ResetSystem` returns.
* `WakeIsSwallowed` lets one step leave the sleeping menu: `WaitForEvent` failing, which
  is no input.
* `ImplementsAutoBoot` forbids a countdown after one that has expired, and allows one
  after one that was stopped: Esc asks for a new scan, and a new scan counts again.
* `UnattendedBoots` ends in "something is returned", not in "a system runs": whether a
  loader starts is up to the loader. When the menu cannot be shown at all, `CannotPresent`
  starts the default each time around the loop, and a default that cannot be started is
  tried without end.
* `DefaultIsLastBooted` and `UnchangedLaunchHits` say when the code keeps its promise;
  without their conditions they fail (section 5, items 2 and 3).
* `ReadReturnsFile` is about the files of the run. The shapes on which a driver returns
  something else are files of their own in `MCFswFile` (section 5) which the run leaves out.
* `PositionFollowsData`: a read that fails with some block readable has not moved the
  position, so that reading again continues at the right place. With it a read may only
  fail where damage allows it; on btrfs that is what the code's redundancy covers, not what
  the RAID level could (section 5, item 20). It also says that each round of the loop
  leaves less to read, so that the loop ends.
* `ImplementsDnode` is the drivers' part: what TLC finds of them is what the theorems on
  `FswDnode` assume of a driver. Of it follows that the extent a handle keeps is the
  file's to its last block (`ExtentKeptIsOfFile`).
* `ListingIsTheDirectory` allows a listing to end early, where the driver could not read
  on: the code takes an error of a listing for its end. It holds a cached listing to the
  root it was read from, and lets that be another root than the one asked for only when the
  handle it was read from was closed: then the code does serve it to whoever has the
  address next (section 5, item 25). Without that condition the run violates it.
* `NamesAreHeld` has as its exception the reference a directory loses for each name that
  could not be copied (section 5, item 28): so many are left, no more, and for good.
* `RingsAgree`, `SuccessMeansTransferred`, `RequestOutlivesItsParts` and `AsyncQueueDrains`
  name the faults under which the code does not keep them (section 5, items 8 to 12);
  a situation without those faults is held to all four. `RequestOutlivesItsParts` needs no
  such exception for what the driver itself looks at (`SubtasksLive`), only for the buffer
  the controller writes into: without memory for an `AsyncRequest`, and after a reset of
  the block device, the controller may have a command that nobody tracks any more.
  `SuccessMeansTransferred` excepts the blocking command's time-out, whose clean-up
  reports success for what was never done, and the two resets.
* `NothingIsLost` and `NothingTwice` have as their exceptions what the settings tell the
  scan to leave out, and what one loader is known to stand for (a folded kernel, the
  fallback that is a copy, OpenCore for macOS).
* `NothingTwice` holds where no two sources find the same file (`SourcesApart`, section 4);
  a directory named by two settings is scanned twice, and its loaders are listed twice.

### Fairness

`ConnMenu` and `NvmeAsync` assume fairness: everything else that is modelled starts with
a user's choice or the firmware, neither of which must ever act. `ConnMenu`:

* `WF_vars(Show)`: `efi_main` waits for nothing between two turns of its loop, so it
  gets to `ConnRunMainMenu`.
* `WF_vars(Tick)`: the timer is periodic (`SetTimer(..., TimerPeriodic, ...)`), it is in
  the set of events whenever it runs, and every event returns to `WaitForEvent`, which
  then finds it signalled. A key is looked at first, but it is served in far less than
  the second after which the timer fires again. No fairness is assumed of keys, the
  pointer, submenus or what is started: `UnattendedBoots` and the liveness in
  `ImplementsAutoBoot` do not need the user.

`NvmeAsync` (`FairSpec`): the timer is periodic (`WF` of `TimerTick`) and its handler, once
it runs, is not preempted by the caller (`WF`); the caller goes on between two ticks
however many there are (`SF`); the controller fetches what the doorbell announces (`WF`)
and answers every command it has fetched (`SF` for each). With these `AsyncQueueDrains`
holds as long as nothing but a blocking command's time-out goes wrong.

## 4. The proofs

All theorems are checked by TLAPS (SMT, Zenon, LS4), from the named assumptions on
constants (`CacheAssumption`, `ConstantsAssumption` of `FswReadCache`, `BlockAssumption`,
`DnodeAssumption`, `BootTableAssumption`, `BootHandoffAssumption`, `PreviousBootAssumption`,
`MenuCacheAssumption`, `NoFileAssumption`, `ConnUiAssumption`, `ConnMenuAssumption`,
`PartsAssumption`, `QueueAssumption`, `FaultsAssumption`, `ScanAssumption`) and the library's facts on
finite sets and well-founded orders. They hold for every value of the constants: any table
size, any menus, any set of volumes, any rings, any disks. Two assumptions only say that a model
value is not data: `NoFile` is not a content of `menu.cache`, and `Failed` (in
`ConstantsAssumption` of `FswReadCache`) is not the contents of a block.

* **`FswCore_proofs`**, in three parts, from the disk up.
  The windows of the host: `WindowInv` is the type invariant with `WindowIsOfItsVolume`,
  that a valid window whose owner is mounted holds the medium in that owner's drive. It
  survives the reuse of an address because starting a volume ends in `SetBlocksize`, which
  clears both windows. `ReadCacheIsDisk` is the step simulation: every step is a step of
  `FswDisk` or leaves it alone. `ReadableBlocksAreRead` goes through the paths of one call:
  whichever window is tried, the last attempt is for the block alone.
  The block cache: `CacheInv` is the type invariant with the four state invariants. None
  is inductive alone: that a pinned buffer keeps its block needs that its slot counts it (a
  counted slot is no victim), which needs that a release finds one slot only
  (`OneSlotPerBlock`), which needs that a failed read un-names its slot.
  `SlotToFillChoice` is the lemma that carries the search for a victim, over any table size
  and any number of levels; with it `ReplacementIsOrdered` (the table grows only when all
  its slots are pinned, and a victim is of the lowest level in use).
  The dnode: `DnodeInv` is the type invariant, `ExtentIsOfFile` (the extent that is kept is
  the file's), `CallOfRead` (what the buffer holds so far are the file's bytes from the
  position on, and what is left leads to the end of the call), `CopyHasRun` (what is being
  copied from holds the block at hand) and `ReadReturnsFile`. The arithmetic is in
  `InsideRun` and `RunSaysByte`: a byte of the run is where the division of the offset by
  the block sizes of the volume and of the disk says. The argument is one of assumption and
  guarantee: a driver may be anything that answers with `RunOfFile` or fails when
  `MayFail`; that the nine drivers are such is `ImplementsDnode`, which TLC checks, since
  their look-ups are recursive. `RunOfFile` leaves out holes of 2^32 bytes and more, at
  which the code itself goes wrong (section 5, item 15).
* **`BootOrder_proofs`**, in four parts.
  `FindBootNumSound` and `FindBootNumComplete` say that the least element exists in each
  case and what its minimality means; nothing else of `FindBootNum` is cited, here or in
  `BootHandoff_proofs`.
  `TableInv`: while a registration waits to write, the number it has chosen is *still*
  what `FindBootNum` returns for the table and what could not be read then (`op.blind`),
  since nothing else writes to it between the two, and although what can be read may change;
  that gives `TheirOptionsAreSafe` and `RegisteredOnce`.
  `InstalledOptionIsDefault` adds `DefaultInv`: the number that waits to be
  promoted holds Meridian's loader, and success is on the screen only while nothing is
  under way.
  `OrderInv`: `BootOrder` has no number twice, and the number that waits to be promoted
  has an option; with the lemmas on what `Promoted` and `Pruned` take over that gives
  `OrderIsKept`.
  The last rests on lemmas about `Kept` for lists of any length (what it contains, its
  order, that keeping twice is keeping once). The library's induction theorems cannot be
  instantiated here, as they take an operator as a parameter; `NatInduct` and `SeqInduct`
  are induction over *sets* (of numbers, of sequences), obtained from the well-founded
  order's least element, and `UptoExists` shows by them that the recursive function has
  the value its definition asks for.
* **`BootHandoff_proofs`**: `Phase` (which kind of request may be at which write),
  `Progress` (what is already in NVRAM at each), `Promise` (what stays there from the
  reset to the start) and `Pending` (who may see a one-shot variable). `Resets` moves
  `Progress` to `Promise`. All properties of the module are proved.
* **`PreviousBoot_proofs`**: `Sources` (the names that are being stored belong to
  something that was loaded) and `OnRecord` (if a boot is on record, both files hold
  it). `ReturnsToLastBoot` then needs only that `ConnDefaultEntry` finds the first
  entry with both the name and the identity. All properties but the violated one.
* **`MenuCache_proofs`**: `Session` (what a phase says about the menu), `Sealed` (a
  file that passes the checksum is the last save that went through) and `Forgotten`
  (after a launch without the cache there is nothing to load). `FirstIsAttached`
  carries `ResolveVolume`. `OpenCoreInv`, for `NoOpenCoreInItsOwnMenu`: under OpenCore
  the menu offers none, and a sealed file that would be accepted under OpenCore was
  stored under it, since residency is part of the fingerprint. `QuietInv`, for
  `UnchangedMenusHit`: from a save that reached the end of the old file to the next
  launch, with nothing changed, the file is sealed, its build and fingerprint are the
  machine's, and its records are what the scan found; `ResolvesToItself` then gives each
  record its own volume, by its partition's GUID or by the file system's where all MBR
  volumes share one, and `QuietHits` follows the loader through its checks. All properties of the module.
* **`ConnMenu_proofs`**: first what each event of `ConnUi` does to a menu that is in
  order (`UiOK`: the saver goes with its flag and its seconds, a countdown with its state
  and an untouched menu), then `IInv`, which adds that the selected row is on the list
  and that no seconds are left once a countdown has expired. `SecondFacts` and `NoSecond`
  turn that into the step simulation of `AutoBoot` (`CountdownIsSafe`: the safety part
  of the refinement; its liveness stays with TLC).
* **`NvmeAsync_proofs`**: invariants in layers, each resting on those before.
  * `Types`, and `RequestInv`: a request lives exactly while its event is awaited
    (`Told`); one request at a time is being cut into parts (`Queueing`); the waiting
    parts of a request stand together and in order (`InOrder`); a part that was handed
    over is in one place and is counted by its request (`Held`); and while callbacks run,
    no part of a failed request waits of which another was handed over (`Settled`). The
    last two carry `SubtasksHaveTheirRequest`: `AsyncIoCallback` frees a request
    *without* looking at the parts that wait, and only the order of the handler's two
    loops and of the list makes that safe. It holds whatever fails, resets included.
  * `RingInv`, without resets: the head the host believes in is behind the controller's,
    that one behind the doorbell's tail (`Sides`), the phase bits divide the completion
    ring where the controller posts next (`Phases`), and the heads reported advance
    (`Heads`). So neither ring overruns.
  * `CommandInv`, without resets: an identifier names one command at a time (`Apart`,
    `Distinct`), of the same subtask on both sides (`Matched`), and a completion without
    an error stands for its data (`Transferred`). `Remembered`: every command of the
    controller is in `AsyncPassThruQueue`, if none was submitted without memory.
  * `Data`, without time-outs and resets: each part of a request that has not failed
    waits, is still to be queued, is counted, or has its data (`Whole`).

  `CommandInv` needs a proviso. `PassThru` takes the next 16-bit number without looking
  whether a command with it is still under way, so `RingsStayInStep`,
  `RequestsOutliveTheirParts` and `SuccessStandsForData` are theorems of
  `Spec /\ []NotOvertaken`: no command stays unanswered while 2^16 later ones are
  submitted. The controller's answers come in any order and after any time, so nothing in
  the code implies it. `FewPartsAreNotOvertaken` shows that it holds in every behaviour
  with fewer parts than identifiers, the run's included: there the three invariants hold
  outright, as TLC finds.
* **`Scan_proofs`**: `ScanInv`, in seven parts. `TypeOK`; `Place` (what each stage goes
  through, on which volume and in which directory); `DirOK`, of the two loops of
  `ScanLoaderDir`: `LoaderList` holds just the files read so far that are shown, by age, no
  rescue kernel in front of an earlier one (`ListOf`), and what was gone through of it can
  be reached while the first kernel is no older than what is left (`AddsOf`); `EntriesOK`, of
  the submenus; `ClaimsOK` (a kernel of `loader\entries` has its entry); `Found` and
  `PassedFound`: what was gone through on the volume at hand, and all of each volume that is
  done with, can be reached. `NewestKernelFirst` follows from `EntriesOK`, `NothingIsLost` from
  `PassedFound` and `ClaimsOK`. The order of the list is `Inserted`: the first place whose
  time is not later is the right one although rescue kernels, which stand anywhere, are
  passed over; no part of it speaks of them except by the order of reading.
  What costs most is that what is found stays so (`StaysReachable`): `BlsEntry` may take the
  entry a kernel was found by, with a whole submenu, and `DropEntry` what OpenCore starts
  instead, so a loader that was reachable must be offered by another entry, be withheld or
  be one that folding may lose. `ScanAssumption` says what file systems guarantee (no name
  twice in a directory, finite listings) and that a file's class goes by its name.

  `NoLoaderTwice` proves `NothingTwice` under one hypothesis more, `SourcesApart`: no
  directory of `also_scan_dirs` is named twice, or is the root or a directory of `\EFI`,
  which are scanned anyway; the loaders looked for by name are in none of the directories
  that are scanned whole; and a kernel of `loader\entries` goes by a kernel's name. Most
  of it holds of any disk. What a user can break is the setting and the entry file, and
  then the scan does list a loader twice, because only a kernel of `loader\entries` is
  compared with the entries already there; so the hypothesis is the code's own, and
  `InstanceIsApart` has TLC evaluate it on the run's disks. The invariant added for it is
  `TwiceInv`: entries are of volumes already visited (`VisitedOnly`), on a first visit
  each has its origin among the sources gone through so far (`OriginsOK`), a directory
  lists a name once (`ListInjective`), and the claims are the kernels of `loader\entries`
  of the volumes gone through, no more and no fewer (`ClaimsAreKernels`,
  `KernelsClaimed`). Then the next source adds nothing that is there already (`OnceOK`)
  until a letter repeated in `scanfor` visits the volume again, and from then on the
  claims keep the kernels of `loader\entries` from being added again.

Only model-checked:

* That the drivers are what `FswDnode` assumes (`ImplementsDnode`), and all of
  `fsw_names`: the directories, the list of dnodes and btrfs use `RECURSIVE` operators
  (`FswDirs`, `FswNames`, `FswBtrfsTree`, `FswBtrfs`), which keeps them from the prover; no
  other module has one.
* Of `scan`: `SameDisksSameMenu`, which compares two scans.
* Liveness under fairness (`UnattendedBoots`, `AsyncQueueDrains`, and the fairness of
  `AutoBoot` within `ImplementsAutoBoot`) and `ENABLED` are out of the prover's reach.
* `InstalledMeansCopied` is violated (run `install_report`), so there is nothing to prove.

## 5. Findings

Where the code disagrees with what it, its tests or its scripts say. The first has a
run of its own. The others were met while modelling; the properties that show them are
defined in the modules (named in parentheses) and can be checked by hand, and the runs'
properties say exactly under which condition the code does keep its promise.

**Boot manager**

1. `CopyMeridianFiles` is a `BOOLEAN` and returns an `EFI_STATUS`
   (`install/install.c:531`, `561`), so the error bit of `EFI_ABORTED` is lost and
   "Meridian Successfully Installed" follows a failed copy (run `install_report`).
2. `ReconcileHackintoshMacOS` relabels the OpenCore entry (`discovery/scan.c:434`) but
   not the name that is remembered, and the next launch does not find it
   (`ui/conn_bridge.c:2491`; `PreviousSelectionIsDefault`).
3. `MrdSaveFile` does not shorten a file (`storage/file_io.c:153`), so after a shorter
   menu the body checksum of `menu.cache` cannot hold and every launch scans, though
   `scripts/build-rescue-stick.sh:541` promises a hit (`SameStickHits`).
4. All MBR volumes have one `PartGuid` (`storage/volume_scan.c:852`), and
   `ResolveVolume`'s fallback (`kernel/cache.c:475`) takes another stick for the one
   that is gone (`GoneVolumeRescans`).
5. The editor's way out of `ConnRunMainMenu` (`ui/conn_bridge.c:3116`) leaves
   `TimeoutSeconds` alone where all others clear it, so a failed launch of an edited
   entry brings back a menu that counts down; `conn/test/ui_test.c:261` says "launch
   return disables autoboot" (`LaunchReturnDisablesAutoboot`).
6. N (`ui/conn_bridge.c:2956`) stops the countdown by its flags and leaves the machine
   in its autoboot state, in which no tick counts idle seconds; `conn/test/ui_test.c:130`
   says "saver entered at configured threshold" (`SaverAtThreshold`).

7. A variable whose size cannot be read is "not found" (`lib/lib.c:593`,
   `policy/nvram_helpers.c:378`), whatever the firmware's error. `FindBootNum` therefore
   takes its number for free, `SetHardwareNvramVariable` lets the write through (423, 444),
   and the installer, the trust and the recovery set-up overwrite another system's option
   with other numbers free (`OthersKeepTheirOptions` and `SetUpKeepsOthers` without
   `op.blind` are violated). Only a variable whose size can be read and whose data cannot
   is refused (388).

**NVMe library**

8. Parts behind a failed one are discarded without `LastSubtaskSubmitted`
   (`NvmExpress.c:437`): the request never leaves `AsyncQueue`, its event is never
   signalled, and a blocking read waits for the queue without end.
9. `AbortAsyncPassThruTasks` (`NvmExpressPassthru.c:214`) signals commands whose
   completion is still zero, which `AsyncIoCallback` reads as success.
10. The doorbell is rung before the `AsyncRequest` is allocated (`NvmExpressPassthru.c:542`);
   without memory the controller writes into a buffer nobody tracks.
11. `NvmeControllerInit` (`NvmExpressHci.c:743`) zeroes phase and head and clears the
    rings only after waiting; the timer handler runs in between and takes old entries for
    completions, and after a whole lap of them the cleared ones too. Requests are so
    answered whose commands the controller still has, or never got.
12. When the controller does not come back (`NvmExpressPassthru.c:620`), nothing is
    aborted and the timer stays off.

**Reading files** (`MCFswFile` has the files `LeafGap`, `WideHole`, `TwoRuns`, `BigHole`,
`KeyGap` for the first five; `ReadReturnsFile`)

13. ext4: behind the last extent of a leaf the rest of the file is a hole
    (`fsw_ext4.c:104`), also when the next leaf holds data.
14. NTFS: a hole is kept as a run at cluster 0 (`fsw_ntfs.c:1273`), so its second cluster
    is read from the disk. For a cluster inside a run, `fsw_ntfs.c:1718` adds the distance
    from the run's start to its length where it should subtract it: a read after a seek
    into a run goes on into clusters of other files.
15. A hole of exactly 2^32 bytes has a 32-bit length of 0 (`fsw_core.c:1127`): nothing is
    copied, and the loop never ends.
16. bcachefs: a gap in front of the key found is answered with `FSW_NOT_FOUND`
    (`fsw_bcachefs.c:490`), so a sparse file cannot be read.
17. HFS+: the key an overflow record is searched with has its `forkType` never set
    (`fsw_hfs.c:946`); with anything but 0 on the stack the record is not found.
18. A driver that fails with `FSW_IO_ERROR` and no extent is taken for a hole
    (`fsw_core.c:1052`). `fsw_efi_read_block` returns its EFI code cut to an `int`, so an
    `EFI_INVALID_PARAMETER` of the disk is that number, and zeros are read.
19. ext4's unwritten extents are read literally, NTFS's initialised size is off by one,
    and `fsw_ext4_get_by_blkaddr` releases a block twice on an error.

**btrfs** (`filesystems/fsw_btrfs.c`)

20. Redundancy that is there and not used: a sector that is unreadable on the first mirror
    is not read from the second, as the loop ends with the error (1060), while RAID5 and
    RAID6 do recover; the stripe RAID5 reads last is recovered with one entry behind the
    stripe table (690-706). RAID6 with a missing device beyond the two it can lose answers
    `FSW_IO_ERROR`, which item 18 makes a hole.
21. Holes: an explicit hole (address 0, 2314) returns uninitialised memory; a file that
    begins with a hole it has no item for is corrupted; behind an inline extent the inline
    data is repeated (2095-2107).
22. After a failed read of an item, or an extent of an unknown type, the extent kept is
    the failed one (`vol->extent`, `extend`), and the next read may be answered from it.
23. Of two names with one hash a listing shows the first only (3097 compares the
    handle's position with the key both share). Through `...` the default subvolume is
    listed under an empty name.
24. The chunk item is not freed on the error paths of `fsw_btrfs_read_logical`, and
    unmounting frees the first buffer of the recover cache seventeen times over (1536-1538
    forgets the index), so the others are lost.

**Names and directories**

25. A BLS listing is cached under the handle's address (`bls.c:609-633`,
    `storage/file_io.c:310`, `374`); the handle is closed, its address reused, and the
    listing of another directory served (`ListingIsTheDirectory` allows it for a closed
    handle only).
26. A listing cut short by a read error is cached as complete (`file_io.c:403`, `443`),
    and an unreadable index block of NTFS makes its names not found (`fsw_ntfs.c:1965`).
27. Names above about 86 characters end a listing or are lost (`fsw_efi.c:913`,
    `file_io.c:198`). A path that names a file is listed as if it were a directory.
28. A link through itself recurses without bound; a `readlink` that fails before its
    target is set frees an uninitialised string (`fsw_core.c:867-881`); a name that cannot
    be copied leaves its directory retained (`fsw_core.c:359-379`, the `lost` of
    `NamesAreHeld`); unmounting releases the root only.
29. bcachefs: `dir_read` never returns the key with offset 2^64 - 1, and a deleted key
    hides live ones behind it (`fsw_bcachefs.c:399`). NTFS: filling an unknown reparse
    tag overwrites the length (`fsw_ntfs.c:1072-1096`).
30. ISO 9660: a look-up takes the zeros that end a sector for the end of the directory
    (`fsw_iso9660.c:419`), while `dir_read` goes on behind them (458-463), so a file that is
    listed cannot be opened (`<<10, 50>>` in `LinearImage` violates `LookupFindsFile`). When
    the zeros are no longer than the 33 bytes of a record's head, `dir_read` has already
    read across them and skips the whole next sector ("narrow" zeros in the middle of
    `IsoDisk` violate `ListingIsTheDirectory`). The root directory's block stays referenced
    in the block cache (317).

**Scan**

31. A second BLS entry naming the same kernel removes the first BLS entry
    (`bls.c:324-379`), and a removed first kernel takes the kernels folded into it along.
32. With two or more options lines `linux.c:505-544` keeps a list that is freed twice
    (`bls.c:375`, `menu.c:295`).
33. A kernel without options lines is dropped from a folder's submenu, and the rescue
    kernel is last only if it was read last.
34. `while (ScanFallbackLoader)` (`scan.c:301`) visits `also_scan_dirs` only while no copy
    of the fallback was found.
35. An unknown letter of `scanfor` makes the last ones unscanned (`config.c:708`);
    `HasMacOS` and `HasOpenCore` are never reset; `SyncAPFS` switched off leaves freed
    volumes behind (`storage/volume_scan.c`).

## 6. Plan

What is left, in order of importance.

1. `MainLoop`, composing `PreviousBoot`, `BootHandoff` and `MenuCache` through the
   tags: first-loop filter, `shutdown_after_timeout` (`boot/main.c:1343`), a default that
   fails for ever.
2. `SecurityPolicy` (`mok/security_policy.c:169`), `ConsoleCapture`
   (`kernel/console_capture.c:54`), `LoopTimer`: small install/remove protocols; a hook
   never saves itself, what was replaced is put back, the loop ends.
3. `MenuCache` with a refinement of its entries (`kernel/cache.c:513`: what
   `AddLoaderEntry` does not rebuild), fed by `Scan`.
4. `EditLine` and the list: the reducers of `conn/core/widget_*.c` over keys, and the
   loops of the submenu and the editor (`ConnRunSubScreen`, `ConnEditOptions`).
5. Limine's hand-over (`GetMemoryMap`, `ExitBootServices`, retry); `BdsConnect`
   (`driver_support.c`, whose `ReallocatePool` takes a number of elements for bytes);
   the blocking rings of NVMe; pure algorithms: BLS version order, `ResetReason`,
   configuration includes.
6. Proofs: the drivers whose look-ups need no recursion as implementations of
   `FswDnode`; an abstract `OneShot` implemented by `BootHandoff`; for `NvmeAsync`, that
   a command of the timer handler is answered before 2^16 later ones, which needs a bound
   on the controller.

## 7. What is not modelled, and why

* Contents: on-disk formats below their maps and directories, checksums, decompression,
  device paths, strings, page tables and pictures are data; what depends on them is an
  input taken from a small set.
* Memory exhaustion, except where the code's error path changes state (`FswBlockCache`,
  `FswReadCache`, `FswNames`, `NvmeAsync`, `BootOrder`, `BootHandoff`).
* Firmware that breaks its own interface (a `GetVariable` that returns other data than
  was written, handles that vanish during a scan).
* `RunNVramSync`, driver selection and file renaming in the installer; unmounting and
  `stat` of the file system core; `GetInfo` of the file protocol.
* Of NVMe: the blocking rings, the identification of namespaces, binding and unbinding.
* Of the scan: manual stanzas, network and firmware entries, tools, titles and the names
  a PreBoot volume gives its macOS.
* The hazards of `PROJECT.json` that no property covers carry a note saying why or where
  they are planned.
