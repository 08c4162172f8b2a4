---------------------------- MODULE FswBlockCache ----------------------------
(***************************************************************************)
(* The per-volume block cache of the file system core                      *)
(* (filesystems/fsw_core.c): fsw_block_get pins a physical block in a slot *)
(* of vol->bcache and hands out the slot's buffer, fsw_block_release drops *)
(* the pin, fsw_blockcache_free throws the whole table away.               *)
(*                                                                         *)
(* A buffer keeps its identity when the table grows (the slots are copied  *)
(* with their data pointers), so the buffer a caller holds is named by the *)
(* index of its slot.  A buffer's contents are named by the block they     *)
(* were read from.                                                         *)
(***************************************************************************)
EXTENDS Integers, FiniteSets

CONSTANTS
    Blocks,         \* physical block numbers the driver asks for
    Clients,        \* places in a driver that hold one pin at a time
    CacheLevels,         \* cache_level arguments the drivers pass
    MaxCacheLevel,  \* MAX_CACHE_LEVEL
    InitialSlots,   \* slots of the first table (16)
    Invalid,        \* FSW_INVALID_BNO
    Garbage         \* contents of a buffer no read has completed into

ASSUME CacheAssumption ==
    /\ MaxCacheLevel \in Nat
    /\ InitialSlots \in Nat \ {0}
    /\ CacheLevels \subseteq Nat
    /\ Invalid \notin Blocks
    /\ Garbage \notin Blocks
    /\ IsFiniteSet(Clients)

VARIABLES
    size,    \* vol->bcache_size
    bcache,  \* vol->bcache: slots 1..size
    pins     \* what each client holds: the block it asked for and its buffer

cacheVars == <<size, bcache, pins>>

NoPin == [bno |-> Invalid, slot |-> 0]

FreshSlot == [bno |-> Invalid, level |-> 0, ref |-> 0, data |-> Garbage]

\* Mutant: the level is stored without the cap.
CappedLevel_NoCap(l) == l
CappedLevel(l) == IF l > MaxCacheLevel THEN MaxCacheLevel ELSE l

\* Mutant: the lookup sees pinned slots only.
Cached_PinnedOnly(b) == {i \in 1..size : bcache[i].bno = b /\ bcache[i].ref > 0}
Cached(b) == {i \in 1..size : bcache[i].bno = b}

\* Mutants: the scan forgets the refcount; the scan forgets the level.
Discardable_Pinned(d) == {i \in 1..size : bcache[i].level <= d}
Discardable_AnyLevel(d) == {i \in 1..size : bcache[i].ref = 0}

\* Slots the replacement scan accepts at a discard level.
Discardable(d) ==
    {i \in 1..size : bcache[i].ref = 0 /\ bcache[i].level <= d}

\* Mutant: the scan stops one level short.
DiscardLevels_Short == 0..(MaxCacheLevel - 1)
DiscardLevels == 0..MaxCacheLevel

\* The slot fsw_block_get fills on a miss: the first empty one, else the first
\* unpinned one of the lowest discard level that has any, else a slot past the
\* end of the table, which makes the table grow.
FirstOf(S) == CHOOSE i \in S : \A j \in S : i <= j

SlotToFill ==
    IF Cached(Invalid) # {} THEN FirstOf(Cached(Invalid))
    ELSE IF \E d \in DiscardLevels : Discardable(d) # {}
         THEN LET low == CHOOSE d \in DiscardLevels :
                           /\ Discardable(d) # {}
                           /\ \A e \in 0..(d - 1) : Discardable(e) = {}
              IN  FirstOf(Discardable(low))
    ELSE size + 1

GrownSize == IF size < InitialSlots THEN InitialSlots ELSE 2 * size

CacheInit ==
    /\ size = 0
    /\ bcache = [i \in 1..0 |-> FreshSlot]
    /\ pins = [c \in Clients |-> NoPin]

Higher(l, k) == IF l < k THEN k ELSE l

Repinned(slot, l) ==
    [bno |-> slot.bno, level |-> Higher(slot.level, CappedLevel(l)),
     ref |-> slot.ref + 1, data |-> slot.data]

\* fsw_block_get, found: the level is raised, never lowered, and the pin counted.
GetHit(c, b, l) ==
    /\ pins[c] = NoPin
    /\ \E i \in Cached(b) :
         /\ i = FirstOf(Cached(b))
         /\ bcache' = [bcache EXCEPT ![i] = Repinned(@, l)]
         /\ pins' = [pins EXCEPT ![c] = [bno |-> b, slot |-> i]]
    /\ UNCHANGED size

\* Mutant: the chosen slot keeps its old name until the read is done.
Prepared_KeepsName ==
    [i \in 1..(IF SlotToFill > size THEN GrownSize ELSE size) |->
        IF i <= size THEN bcache[i] ELSE FreshSlot]

\* The table as it is just before the read: grown when no slot could be taken,
\* the chosen slot no longer naming any block.
Prepared ==
    [i \in 1..(IF SlotToFill > size THEN GrownSize ELSE size) |->
        LET slot == IF i <= size THEN bcache[i] ELSE FreshSlot
        IN  IF i = SlotToFill THEN [slot EXCEPT !.bno = Invalid] ELSE slot]

PreparedSize == IF SlotToFill > size THEN GrownSize ELSE size

\* Mutant: the new pin is not counted.
FilledSlot_NotCounted(b, l) == [bno |-> b, level |-> CappedLevel(l), ref |-> 0, data |-> b]
FilledSlot(b, l) == [bno |-> b, level |-> CappedLevel(l), ref |-> 1, data |-> b]

\* fsw_block_get, not found, the block is read into the chosen slot.
GetMiss(c, b, l) ==
    /\ pins[c] = NoPin
    /\ Cached(b) = {}
    /\ size' = PreparedSize
    /\ bcache' = [Prepared EXCEPT ![SlotToFill] = FilledSlot(b, l)]
    /\ pins' = [pins EXCEPT ![c] = [bno |-> b, slot |-> SlotToFill]]

\* fsw_block_get, not found, the buffer allocation fails (contents untouched) or
\* host_table->read_block fails (contents undefined): the slot stays empty.
GetFails(b) ==
    /\ Cached(b) = {}
    /\ size' = PreparedSize
    /\ \/ bcache' = Prepared
       \/ bcache' = [Prepared EXCEPT ![SlotToFill].data = Garbage]
    /\ UNCHANGED pins

\* fsw_block_release: every pinned slot that names the block loses one pin.
Release(c) ==
    /\ pins[c] # NoPin
    /\ bcache' = [i \in 1..size |->
           IF bcache[i].ref > 0 /\ bcache[i].bno = pins[c].bno
           THEN [bcache[i] EXCEPT !.ref = @ - 1] ELSE bcache[i]]
    /\ pins' = [pins EXCEPT ![c] = NoPin]
    /\ UNCHANGED size

\* fsw_set_blocksize and fsw_unmount free the table whatever is pinned.  The
\* drivers call them while they mount and unmount, with every block released.
Free ==
    /\ \A c \in Clients : pins[c] = NoPin
    /\ size' = 0
    /\ bcache' = [i \in 1..0 |-> FreshSlot]
    /\ UNCHANGED pins

CacheNext ==
    \/ \E c \in Clients, b \in Blocks, l \in CacheLevels :
          GetHit(c, b, l) \/ GetMiss(c, b, l)
    \/ \E b \in Blocks : GetFails(b)
    \/ \E c \in Clients : Release(c)
    \/ Free

CacheSpec == CacheInit /\ [][CacheNext]_cacheVars
-----------------------------------------------------------------------------
(* Properties *)

CacheSlot == [bno   : Blocks \cup {Invalid},
         level : 0..MaxCacheLevel,
         ref   : Nat,
         data  : Blocks \cup {Garbage}]

Pin == [bno : Blocks, slot : 1..size]

\* Types of the state of fsw_core.c's block cache.
CacheTypeOK ==
    /\ size \in Nat
    /\ bcache \in [1..size -> CacheSlot]
    /\ pins \in [Clients -> Pin \cup {NoPin}]

\* fsw_block_get never evicts, refills or renames a slot whose buffer a caller
\* of fsw_block_get still holds: the buffer keeps the block that was asked for.
PinnedBufferKeepsItsBlock ==
    \A c \in Clients : pins[c] # NoPin =>
        /\ bcache[pins[c].slot].bno = pins[c].bno
        /\ bcache[pins[c].slot].data = pins[c].bno

Holders(i) == {c \in Clients : pins[c] # NoPin /\ pins[c].slot = i}

\* The refcount of a slot is the number of callers between fsw_block_get and
\* fsw_block_release on it, failed calls included: no pin is leaked or lost.
RefcountIsHolders ==
    \A i \in 1..size : bcache[i].ref = Cardinality(Holders(i))

OneSlotPerBlock ==
    \A i, j \in 1..size :
        (bcache[i].bno = bcache[j].bno /\ bcache[i].bno # Invalid) => i = j

NamedSlotHoldsBlock ==
    \A i \in 1..size : bcache[i].bno # Invalid => bcache[i].data = bcache[i].bno

\* A block lives in one slot only, which fsw_block_release (it decrements every
\* slot that matches) relies on, and a slot that names a block holds its bytes,
\* also after a failed allocation or read.
NamesAreTrue == OneSlotPerBlock /\ NamedSlotHoldsBlock

GrowOnlyWhenAllPinned == size' > size => \A i \in 1..size : bcache[i].ref > 0

EvictLowestLevel ==
    \A i \in 1..size :
        (size' >= size /\ bcache[i].bno # Invalid /\ bcache'[i].bno # bcache[i].bno)
        => \A j \in 1..size :
              /\ bcache[j].bno # Invalid
              /\ bcache[j].ref = 0 => bcache[i].level <= bcache[j].level

\* Replacement order of fsw_block_get: the table grows only when every slot of it
\* is pinned, so simultaneous pins bound its memory; a slot loses its block only
\* when no slot is empty and no unpinned slot has a lower cache level.
ReplacementOrder == [][GrowOnlyWhenAllPinned /\ EvictLowestLevel]_cacheVars
=============================================================================
