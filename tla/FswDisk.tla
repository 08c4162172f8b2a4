------------------------------- MODULE FswDisk -------------------------------
(***************************************************************************)
(* What host_table->read_block promises the file system core: a volume is  *)
(* mounted from one medium, and a block read on it either fails or         *)
(* delivers the bytes of that medium at that offset.  Nothing is said of   *)
(* caches.  FswReadCache (filesystems/fsw_efi.c) implements it.            *)
(***************************************************************************)
EXTENDS Naturals

CONSTANTS
    Addrs,    \* addresses of volume structures
    Media,    \* media, named by the MediaId the firmware gives them
    Offsets,  \* offsets of blocks
    NoMedium, \* no volume at this address
    Failed    \* the answer of a read that returned an error

VARIABLES
    mounted,  \* the medium each volume structure was mounted from
    answer    \* the last block read: what was asked for, and what was delivered

vars == <<mounted, answer>>

Nothing == [vol |-> Failed, at |-> 0, bytes |-> Failed]

Init ==
    /\ mounted = [a \in Addrs |-> NoMedium]
    /\ answer = Nothing

Mount(a, m) ==
    /\ mounted[a] = NoMedium
    /\ mounted' = [mounted EXCEPT ![a] = m]
    /\ UNCHANGED answer

Dismount(a) ==
    /\ mounted[a] # NoMedium
    /\ mounted' = [mounted EXCEPT ![a] = NoMedium]
    /\ UNCHANGED answer

Deliver(a, at) ==
    /\ mounted[a] # NoMedium
    /\ answer' = [vol |-> a, at |-> at,
                  bytes |-> [medium |-> mounted[a], at |-> at]]
    /\ UNCHANGED mounted

Fail(a, at) ==
    /\ mounted[a] # NoMedium
    /\ answer' = [vol |-> a, at |-> at, bytes |-> Failed]
    /\ UNCHANGED mounted

Next ==
    \E a \in Addrs :
        \/ \E m \in Media : Mount(a, m)
        \/ Dismount(a)
        \/ \E at \in Offsets : Deliver(a, at) \/ Fail(a, at)

Spec == Init /\ [][Next]_vars
=============================================================================
