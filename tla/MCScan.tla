-------------------------------- MODULE MCScan --------------------------------
(* Disks for Scan: a Linux volume with two kernels and a rescue kernel in every *)
(* order of reading, options and entries for them; an ESP with a boot manager,  *)
(* OpenCore, FreeBSD's loader and a fallback; volumes of macOS, Windows,        *)
(* FreeBSD and Ventoy.                                                          *)
EXTENDS Scan

File(name, class, time, data, bars) ==
    [name |-> name, class |-> class, time |-> time, data |-> data, plain |-> FALSE, bars |-> bars]
Efi(name, data) == File(name, "efi", 0, data, {})
Plain(f) == [f EXCEPT !.plain = TRUE]

old == Plain(File("vmlinuz-1", "linux", 1, "k1", {}))
new == File("vmlinuz-2.efi", "linux", 2, "k2", {})
rescue == Plain(File("vmlinuz-0-rescue", "rescue", 3, "k0", {}))
link == Plain(File("vmlinuz", "linux", 2, "k2", {"link"}))
grub == Efi("grubx64.efi", "grub")
auxiliary == File("gptboot.efi", "efi", 0, "aux", {"aux"})
memtest == File("memtest.efi", "efi", 0, "memtest", {"memtest"})

Blank == [kind |-> "i", whole |-> FALSE, allowed |-> TRUE, ventoy |-> FALSE, bootcamp |-> FALSE,
          synced |-> FALSE, own |-> FALSE, fs |-> "other", disk |-> 1, bsd |-> "none",
          links |-> FALSE, dirs |-> <<>>, barred |-> {}, efi |-> <<>>, guids |-> <<>>,
          options |-> [dir \in {"root", "boot"} |-> 0], entries |-> <<>>]

Bls(k) == [kernel |-> <<"boot", k.name>>, arch |-> TRUE]
foreign == [kernel |-> <<"boot", "vmlinuz-2.efi">>, arch |-> FALSE]

\* A volume with kernels in \boot, in the order they are read.
LinuxVolume(kernels, lines, entries) ==
    [Blank EXCEPT !.dirs = [dir \in {"boot"} |-> kernels], !.entries = entries,
                  !.options = [dir \in {"boot"} |-> lines]]

Readings == {<<old, new, rescue>>, <<new, old, rescue>>, <<rescue, old, new>>, <<new, rescue, old>>,
             <<rescue, new, grub>>, <<link, new, grub, old>>}
Entries == {<<>>, <<Bls(new)>>, <<Bls(new), Bls(new)>>, <<Bls(old), foreign>>}

LinuxVolumes == {LinuxVolume(k, 1, e) : k \in Readings, e \in Entries}
    \cup {LinuxVolume(<<old, new, rescue>>, l, e) : l \in {0, 2}, e \in Entries}
    \cup {[LinuxVolume(<<link, new>>, 1, <<Bls(new)>>) EXCEPT !.links = TRUE]}

\* The ESP Meridian is on; "BOOT" holds a copy of its loader, of Grub, or of nothing there.
Esp(efi, fallback) ==
    [Blank EXCEPT !.own = TRUE, !.barred = {"EFI/meridian"}, !.efi = efi,
        !.dirs = ("EFI/meridian" :> <<Efi("meridian.efi", "meridian")>>)
              @@ ("EFI/ubuntu" :> <<grub, memtest>>)
              @@ ("EFI/OC" :> <<File("OpenCore.efi", "opencore", 0, "oc", {})>>)
              @@ ("EFI/freebsd" :> <<Efi("loader.efi", "bsd")>>)
              @@ ("EFI/BOOT" :> IF fallback = "none" THEN <<>> ELSE <<Efi("bootx64.efi", fallback)>>)]

Esps == {Esp(<<"EFI/BOOT", "EFI/meridian", "EFI/ubuntu", "EFI/tools">>, data) :
            data \in {"none", "grub", "meridian", "other"}}
        \cup {Esp(<<"EFI/freebsd", "EFI/OC", "EFI/BOOT">>, "other")}

mac == [Blank EXCEPT !.fs = "apfs", !.guids = <<"guid/System/Library/CoreServices">>,
    !.dirs = (CoreServices :> <<File("boot.efi", "mac", 0, "mac", {}), Efi("xom.efi", "xom")>>)
          @@ ("guid/System/Library/CoreServices" :> <<File("boot.efi", "mac", 0, "mac", {})>>)]
windows == [Blank EXCEPT !.fs = "ntfs", !.bootcamp = TRUE, !.efi = <<"EFI/BOOT">>,
    !.dirs = (WindowsDir :> <<Efi("bootmgfw.efi", "win"),
                              File("bkpbootmgfw.efi", "efi", 0, "bkp", {"dontscan"})>>)
          @@ ("EFI/BOOT" :> <<Efi("bootx64.efi", "win")>>)]
freebsd == [Blank EXCEPT !.fs = "ufs", !.bsd = "freebsd",
    !.dirs = [dir \in {"boot"} |-> <<auxiliary, Efi("loader.efi", "bsd")>>]]
ventoy == [Blank EXCEPT !.kind = "e", !.ventoy = TRUE, !.allowed = FALSE, !.efi = <<"EFI/BOOT">>,
    !.dirs = [dir \in {"EFI/BOOT"} |-> <<Efi("bootx64.efi", "ventoy")>>]]

OtherVolumes == {mac, [mac EXCEPT !.synced = TRUE], windows, freebsd,
                 [freebsd EXCEPT !.allowed = FALSE], [freebsd EXCEPT !.disk = 2],
                 ventoy, [ventoy EXCEPT !.allowed = TRUE], [Blank EXCEPT !.whole = TRUE]}

MCMachines == {<<v>> : v \in LinuxVolumes} \cup {<<e, v>> : e \in Esps, v \in OtherVolumes}

\* The built-in order, and what the keyword (with its own letter) leaves in ScanFor.
MCSettings == {[scanfor |-> <<"i", "e">>, plain |-> p, fold |-> f] : p \in BOOLEAN, f \in BOOLEAN}
        \cup {[scanfor |-> s, plain |-> TRUE, fold |-> TRUE] :
                  s \in {<<"s", "e", "i">>, <<"s", "i", "x", "e">>, <<"s", "i", "i">>}}
MCLaunches == {[apple |-> a, openCore |-> o] : a, o \in BOOLEAN}
                 \ {[apple |-> TRUE, openCore |-> TRUE]}
MCAlsoScan == <<"boot", "@/boot">>
MCOwnLoader == <<"EFI/meridian", "meridian.efi">>

\* On these disks no two sources find the same file, as NoLoaderTwice assumes.
ASSUME InstanceIsApart == SourcesApart
=============================================================================
