--------------------------------- MODULE Loader ---------------------------------
(***************************************************************************)
(* The UEFI loader, bootloader/uefi/loader.c: pages are asked of the        *)
(* firmware, the kernel's segments copied, the memory map read, and boot    *)
(* services left, once more with a new map if the firmware refuses because  *)
(* the map has changed; then quanta_memory_initialize (kernel/mm/memory.c)  *)
(* picks the kernel's pool of frames from the regions collected.            *)
(*                                                                          *)
(* The firmware may take or give back pages between any two calls that      *)
(* matter to it, until it is left; before the map is first read that is     *)
(* part of where things lie at the start.  Regions are [first, past) pairs  *)
(* of page numbers; the map is in the order of their addresses.  The        *)
(* addresses of a program header are words of their own small width, since  *)
(* a page number would not wrap around.                                     *)
(***************************************************************************)
EXTENDS Integers, FiniteSets, Sequences

CONSTANTS LastPage,          \* of the memory
          MapPage, InfoPage, \* 0x5000 and 0x9000, never asked of the firmware
          PagingPage,        \* 0x100000
          PoolFloor,         \* 4 MiB
          IdentityLimit,     \* 1 GiB
          KernelPages, StoragePages, BufferPages,
          BufferSize,        \* descriptors that fit in the 65536 bytes asked for
          MaxRegions,        \* QUANTA_BOOT_MAX_MEMORY_REGIONS
          MaxChanges,        \* of the firmware's map after it was first read
          FirmwareAtStart,   \* the sets of pages the firmware may hold at first
          LoaderPages,       \* where it may have put this program
          Modulus,           \* 2^64
          KernelPhysical, KernelVirtual, AllocationSize, ImageSize,
          Images             \* the kernel images, see Image

Pages == 0..LastPage
Spans == Pages \X (1..LastPage + 1)
Word == 0..Modulus - 1
Segment == [offset : Word, file : Word, memory : Word, physical : Word, virtual : Word,
            aligned : BOOLEAN]
Image == [header : BOOLEAN, entry : Word, segments : Seq(Segment)]
Owners == {"free", "firmware", "loader", "kernel", "tables", "storage", "map"}

ASSUME LoaderAssumption ==
    /\ LastPage \in Nat
    /\ {MapPage, InfoPage, PagingPage} \subseteq 0..PoolFloor - 1
    /\ PoolFloor \in Pages /\ IdentityLimit \in Pages
    /\ {KernelPages, StoragePages, BufferPages, BufferSize, MaxRegions} \subseteq Nat \ {0}
    /\ MaxChanges \in Nat /\ LoaderPages \subseteq Pages
    /\ \A taken \in FirmwareAtStart : taken \subseteq Pages
    /\ Images \subseteq Image
    /\ Modulus \in Nat \ {0}
    /\ {KernelPhysical, KernelVirtual, AllocationSize, ImageSize} \subseteq Nat

VARIABLES
    owner,          \* who holds each page, as the firmware's map has it
    changes,        \* of that map; the key the firmware would give out now
    map_key,        \* the key the loader has
    map_size,       \* the size it passes: the buffer's, then what was filled
    regions,        \* collected for boot_info
    storage_address,\* of the live volume, 0 while there is none
    spilled,        \* history: a segment was copied outside the allocation
    entry,          \* history: the entry point lies in bytes that were loaded
    linked,         \* history: the segments that claim it have the addresses kernel.ld gives
    loader,         \* the next call of efi_main, or how it ended
    pool            \* the kernel's frames

loaderVars == <<owner, changes, map_key, map_size, regions, storage_address, spilled,
          entry, linked, loader, pool>>

Steps == <<"graphics", "kernel", "paging", "storage", "load", "buffer", "map", "exit",
           "map_again", "exit_again", "jump">>
Ended == {"returned", "faulted", "halted", "pooled"}
NoPool == <<0, 0>>

LoaderTypeOK ==
    /\ owner \in [Pages -> Owners]
    /\ {changes, map_key, map_size} \subseteq Nat
    /\ regions \subseteq Spans
    /\ storage_address \in Pages
    /\ {spilled, entry, linked} \subseteq BOOLEAN
    /\ loader \in {Steps[s] : s \in DOMAIN Steps} \union Ended
    /\ pool \in Spans \union {NoPool}

-----------------------------------------------------------------------------
(* The map the firmware would describe now: one descriptor for each longest  *)
(* run of pages with one owner.                                              *)
Runs == {run \in Spans :
           /\ run[1] < run[2]
           /\ \A p \in run[1]..run[2] - 1 : owner[p] = owner[run[1]]
           /\ run[1] - 1 \in Pages => owner[run[1] - 1] # owner[run[1]]
           /\ run[2] \in Pages => owner[run[2]] # owner[run[1]]}

(* Conventional memory only, as far as there is room.                        *)
collect_memory_regions ==
    LET free == {run \in Runs : owner[run[1]] = "free"}
    IN {run \in free : Cardinality({other \in free : other[1] < run[1]}) < MaxRegions}

Allocations(pages) ==
    {p \in Pages \ {0} : p + pages - 1 \in Pages /\ \A q \in p..p + pages - 1 : owner[q] = "free"}

Given(first, pages, who) ==
    [p \in Pages |-> IF p \in first..first + pages - 1 THEN who ELSE owner[p]]

(* add_overflow.                                                             *)
Overflows(left, right) == left > Modulus - 1 - right

(* Seeded fault: no lower bound on the physical address.                     *)
FaultySegmentRefused(s) ==
    \/ s.file > s.memory
    \/ s.offset > ImageSize
    \/ s.file > ImageSize - s.offset
    \/ Overflows(s.physical, s.memory)
    \/ s.physical + s.memory - KernelPhysical > AllocationSize
    \/ Overflows(s.virtual, s.memory)
    \/ ~s.aligned

(* The conditions on one program header, those on the file's end included.   *)
SegmentRefused(s) ==
    \/ s.file > s.memory
    \/ s.offset > ImageSize
    \/ s.file > ImageSize - s.offset
    \/ s.physical < KernelPhysical
    \/ Overflows(s.physical, s.memory)
    \/ s.physical + s.memory - KernelPhysical > AllocationSize
    \/ Overflows(s.virtual, s.memory)
    \/ ~s.aligned

(* What one segment fills, from its place in the allocation, which is a      *)
(* difference of words.                                                      *)
Filled(s) == {(s.physical - KernelPhysical + i) % Modulus : i \in 0..s.memory - 1}

(* The entry point against the segment's virtual addresses, a field of its   *)
(* own that nothing in the loader compares with the physical one.            *)
HoldsEntry(s, e) == e >= s.virtual /\ e < s.virtual + s.memory

(* The linker script puts both at the same distance from their base, and the *)
(* loader's page tables map them so.                                         *)
Linked(s) == s.virtual = (s.physical - KernelPhysical + KernelVirtual) % Modulus

-----------------------------------------------------------------------------
LoaderInit ==
    /\ \E taken \in FirmwareAtStart, here \in LoaderPages :
          /\ here \notin taken
          /\ owner = [p \in Pages |-> IF p = here THEN "loader"
                                      ELSE IF p \in taken THEN "firmware" ELSE "free"]
    /\ changes = 0
    /\ map_key = 0
    /\ map_size = BufferSize
    /\ regions = {}
    /\ storage_address = 0
    /\ spilled = FALSE /\ entry = FALSE /\ linked = FALSE
    /\ loader = "graphics"
    /\ pool = NoPool

(* A protocol of the firmware is missing or unusable, or pages are refused.  *)
Returns(at) == loader = at /\ loader' = "returned"

LocateGraphics ==
    /\ \/ loader = "graphics" /\ loader' = "kernel"
       \/ Returns("graphics")
    /\ UNCHANGED <<owner, changes, map_key, map_size, regions, storage_address, spilled, entry, linked, pool>>

(* Any free pages: those of the two that the loader writes without asking    *)
(* are given to nobody else, see the README.                                 *)
AllocatesAny(at, pages, who, next) ==
    /\ loader = at
    /\ \E p \in Allocations(pages) :
          /\ {MapPage, InfoPage} \intersect (p..p + pages - 1) = {}
          /\ owner' = Given(p, pages, who)
          /\ storage_address' = IF who = "storage" THEN p ELSE storage_address
    /\ loader' = next

AllocateKernel == AllocatesAny("kernel", KernelPages, "kernel", "paging")
AllocateStorage == AllocatesAny("storage", StoragePages, "storage", "load")
AllocateBuffer == AllocatesAny("buffer", BufferPages, "map", "map")

(* EFI_ALLOCATE_ADDRESS.                                                     *)
AllocatePaging ==
    /\ loader = "paging"
    /\ owner[PagingPage] = "free"
    /\ owner' = Given(PagingPage, 1, "tables")
    /\ loader' = "storage"
    /\ UNCHANGED storage_address

AllocationFails ==
    /\ \E at \in {"kernel", "paging", "storage", "buffer"} : Returns(at)
    /\ UNCHANGED <<owner, storage_address>>

Allocate ==
    /\ AllocateKernel \/ AllocatePaging \/ AllocateStorage \/ AllocateBuffer \/ AllocationFails
    /\ UNCHANGED <<changes, map_key, map_size, regions, spilled, entry, linked, pool>>

(* load_kernel: the segments in order, each copied before the next is looked *)
(* at; afterwards some segment must hold the entry point.                    *)
load_kernel(image) ==
    LET refused == {i \in DOMAIN image.segments : SegmentRefused(image.segments[i])}
        copied == {i \in DOMAIN image.segments :
                     image.header /\ \A j \in refused : i < j}
        filled == UNION {Filled(image.segments[i]) : i \in copied}
        holding == {i \in copied : HoldsEntry(image.segments[i], image.entry)}
        accepted == image.header /\ refused = {} /\ holding # {}
    IN /\ spilled' = (\E byte \in filled : byte >= AllocationSize)
       /\ entry' = ((image.entry - KernelVirtual) % Modulus \in filled)
       /\ linked' = (\A i \in holding : Linked(image.segments[i]))
       /\ loader' = IF accepted THEN "buffer" ELSE "returned"

LoadKernel ==
    /\ loader = "load"
    /\ \E image \in Images : load_kernel(image)
    /\ UNCHANGED <<owner, changes, map_key, map_size, regions, storage_address, pool>>

(* GetMemoryMap with room for "size" descriptors, and the regions made of    *)
(* it.  The size it takes is the size it gives back.                         *)
ReadMap(size, next) ==
    /\ map_size' = Cardinality(Runs)
    /\ IF Cardinality(Runs) <= size
       THEN map_key' = changes /\ regions' = collect_memory_regions /\ loader' = next
       ELSE loader' = "returned" /\ UNCHANGED <<map_key, regions>>

GetMap ==
    /\ loader = "map"
    /\ ReadMap(map_size, "exit")
    /\ UNCHANGED <<owner, changes, storage_address, spilled, entry, linked, pool>>

(* Seeded fault: the regions of the first map are kept.                      *)
FaultyMapAgainStale ==
    /\ loader = "map_again"
    /\ map_key' = changes /\ loader' = "exit_again"
    /\ UNCHANGED <<owner, changes, map_size, regions, storage_address, spilled, entry, linked, pool>>

(* Seeded fault: map_size still says how much the first map took.            *)
FaultyMapAgainSize ==
    /\ loader = "map_again"
    /\ ReadMap(map_size, "exit_again")
    /\ UNCHANGED <<owner, changes, storage_address, spilled, entry, linked, pool>>

GetMapAgain ==
    /\ loader = "map_again"
    /\ ReadMap(BufferSize, "exit_again")
    /\ UNCHANGED <<owner, changes, storage_address, spilled, entry, linked, pool>>

(* ExitBootServices is refused when the key is not that of the map.          *)
Exit ==
    /\ loader \in {"exit", "exit_again"}
    /\ loader' = IF map_key = changes THEN "jump"
                 ELSE IF loader = "exit" THEN "map_again" ELSE "returned"
    /\ UNCHANGED <<owner, changes, map_key, map_size, regions, storage_address, spilled, entry, linked, pool>>

(* A timer or a device of the firmware takes a page or gives one back.       *)
FirmwareChanges ==
    /\ loader \in {"exit", "map_again", "exit_again"}
    /\ changes < MaxChanges
    /\ changes' = changes + 1
    /\ \E p \in Pages : \/ owner[p] = "free" /\ owner' = [owner EXCEPT ![p] = "firmware"]
                        \/ owner[p] = "firmware" /\ owner' = [owner EXCEPT ![p] = "free"]
    /\ UNCHANGED <<map_key, map_size, regions, storage_address, spilled, entry, linked, loader, pool>>

-----------------------------------------------------------------------------
(* What quanta_memory_initialize makes of one region.                        *)
Usable(region) ==
    << IF region[1] < PoolFloor THEN PoolFloor ELSE region[1],
       IF region[2] > IdentityLimit THEN IdentityLimit ELSE region[2] >>

Size(region) == region[2] - region[1]

(* The first of the largest.                                                 *)
Best ==
    LET usable == {Usable(region) : region \in regions}
        best == {u \in usable : Size(u) > 0 /\ \A v \in usable : Size(v) <= Size(u)}
    IN IF best = {} THEN NoPool ELSE CHOOSE u \in best : \A v \in best : u[1] <= v[1]

(* build_tables and jump_kernel: the new tables map the first GiB, so the    *)
(* loader itself must lie in it; then the kernel takes its pool or halts.    *)
Jump ==
    /\ loader = "jump"
    /\ IF \E p \in Pages : owner[p] = "loader" /\ p >= IdentityLimit
       THEN loader' = "faulted" /\ UNCHANGED pool
       ELSE pool' = Best /\ loader' = IF Best = NoPool THEN "halted" ELSE "pooled"
    /\ UNCHANGED <<owner, changes, map_key, map_size, regions, storage_address, spilled, entry, linked>>

LoaderStep ==
    \/ LocateGraphics
    \/ Allocate
    \/ LoadKernel
    \/ GetMap
    \/ Exit
    \/ GetMapAgain
    \/ Jump

-----------------------------------------------------------------------------
(* However often and wherever the firmware changed its map, the frames the   *)
(* kernel hands out are pages that were free when boot services were left:   *)
(* not the kernel's, the tables', the live volume's or the firmware's, nor   *)
(* the two that hold boot_info and the regions (efi_main,                    *)
(* quanta_memory_initialize).                                                *)
PoolIsFree ==
    loader = "pooled" =>
        \A p \in pool[1]..pool[2] - 1 :
            owner[p] = "free" /\ p \notin {MapPage, InfoPage} /\ p < IdentityLimit

(* One change of the map between reading it and leaving is survived: the     *)
(* loader gives up only after a second one, or when the map no longer fits   *)
(* in the buffer (efi_main's retry).                                         *)
OneChangeIsSurvived ==
    loader = "returned" /\ map_key < changes => changes >= 2 \/ Cardinality(Runs) > BufferSize

(* Whatever the program headers say, nothing is written outside the pages    *)
(* allocated for the kernel, not even by a segment before one that is        *)
(* refused; and the address the kernel is entered at was loaded, provided    *)
(* that the segment it lies in was linked as kernel.ld does: the loader does *)
(* not see it if one is not (load_kernel, build_tables).                     *)
KernelIsLoaded == ~spilled /\ (loader \in {"jump", "pooled", "halted"} /\ linked => entry)

=============================================================================
