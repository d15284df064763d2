------------------------------ MODULE AddressSpace ------------------------------
(***************************************************************************)
(* The page tables of kernel/mm/memory.c: address spaces created, mapped   *)
(* into and destroyed over a pool of physical frames, and the way create() *)
(* of kernel/core/task.c and the display use them.                         *)
(*                                                                         *)
(* An address is the sequence of the indices it selects, from the root     *)
(* table down; a table is a frame, its entries hold frames or pages of     *)
(* devices.  Frames come from the pool that FramePool describes: any free  *)
(* one may be handed out, and it is clear.  map_page allocates the missing *)
(* tables on its way down one at a time; when the pool is exhausted half   *)
(* way, the processor halts.                                               *)
(*                                                                         *)
(* The boot space is built by the boot loader outside the pool: its entry  *)
(* KernelIndex leads to the kernel's tables, which every new root shares.  *)
(***************************************************************************)
EXTENDS Integers, FiniteSets

CONSTANTS Frames,       \* the frames of the pool
          Devices,      \* physical pages outside the pool: VGA, disk image, display
          BootRoot,     \* the root table of the boot loader
          KernelTable,  \* the table under its kernel entry
          Levels,       \* 4 on this processor
          Indices,      \* 0..511
          KernelIndex,  \* KERNEL_HIGH_PML4_INDEX
          Nil           \* an entry that is not present

ASSUME AddressSpaceAssumption ==
    /\ Levels \in Nat \ {0, 1}
    /\ KernelIndex \in Indices
    /\ BootRoot \notin Frames /\ KernelTable \notin Frames /\ BootRoot # KernelTable
    /\ Devices \intersect (Frames \union {BootRoot, KernelTable}) = {}
    /\ Nil \notin Frames \union Devices \union {BootRoot, KernelTable}

Tables == Frames \union {BootRoot, KernelTable}
Physical == Frames \union Devices
Addresses == [1..Levels -> Indices]
UserAddresses == {va \in Addresses : va[1] # KernelIndex}
KernelAddresses == Addresses \ UserAddresses

VARIABLES table,   \* table[t][i]: entry i of the frame t, read as a table
          free,    \* the frames the pool would hand out
          roots,   \* the address spaces that exist
          pages,   \* frames the callers of map_page hold as memory
          active,  \* the root in CR3
          walk     \* map_page's locals: its arguments, the table and level it is at

vars == <<table, free, roots, pages, active, walk>>

Idle == [phase |-> "idle"]
Walk == [phase : {"walking", "halted"}, root : Frames \union {BootRoot}, va : Addresses,
         physical : Physical, at : Tables, depth : 1..Levels]

TypeOK ==
    /\ table \in [Tables -> [Indices -> Tables \union Devices \union {Nil}]]
    /\ free \subseteq Frames
    /\ roots \subseteq Frames \ free
    /\ pages \subseteq Frames \ (free \union roots)
    /\ active \in roots \union {BootRoot}
    /\ walk \in Walk \union {Idle}

Clear == [i \in Indices |-> Nil]

Init ==
    /\ table = [t \in Tables |-> IF t = BootRoot THEN [Clear EXCEPT ![KernelIndex] = KernelTable]
                                                 ELSE Clear]
    /\ free = Frames
    /\ roots = {}
    /\ pages = {}
    /\ active = BootRoot
    /\ walk = Idle

-----------------------------------------------------------------------------
(* Seeded fault: the new root does not share the kernel entry.               *)
Faulty_quanta_address_space_create(root) ==
    /\ walk = Idle
    /\ root \in free
    /\ table' = [table EXCEPT ![root] = Clear]
    /\ free' = free \ {root}
    /\ roots' = roots \union {root}
    /\ UNCHANGED <<pages, active, walk>>

(* quanta_address_space_create: a clear root that shares the kernel entry.   *)
quanta_address_space_create(root) ==
    /\ walk = Idle
    /\ root \in free
    /\ table' = [table EXCEPT ![root] = [Clear EXCEPT ![KernelIndex] = table[BootRoot][KernelIndex]]]
    /\ free' = free \ {root}
    /\ roots' = roots \union {root}
    /\ UNCHANGED <<pages, active, walk>>

(* A caller allocates a frame to map: a code or stack page, a page of the    *)
(* display's back buffer.                                                    *)
AllocatePage(page) ==
    /\ walk = Idle
    /\ page \in free
    /\ free' = free \ {page}
    /\ pages' = pages \union {page}
    /\ table' = [table EXCEPT ![page] = Clear]
    /\ UNCHANGED <<roots, active, walk>>

(* quanta_map_page.  Tasks map user addresses into their own root; only the  *)
(* display maps kernel addresses, into the boot space.                       *)
MapBegins(root, va, physical) ==
    /\ walk = Idle
    /\ \/ root \in roots /\ va \in UserAddresses
       \/ root = BootRoot /\ va \in KernelAddresses
    /\ physical \in pages \union Devices
    /\ walk' = [phase |-> "walking", root |-> root, va |-> va, physical |-> physical,
                at |-> root, depth |-> 1]
    /\ UNCHANGED <<table, free, roots, pages, active>>

Entry == table[walk.at][walk.va[walk.depth]]
Descending == walk.phase = "walking" /\ walk.depth < Levels

(* table_for on an entry that is present: go down.                           *)
TableForPresent ==
    /\ Descending
    /\ Entry # Nil
    /\ walk' = [walk EXCEPT !.at = Entry, !.depth = @ + 1]
    /\ UNCHANGED <<table, free, roots, pages, active>>

(* Seeded fault: the entry is replaced though a table is already there.      *)
FaultyTableForAbsent(frame) ==
    /\ Descending
    /\ frame \in free
    /\ free' = free \ {frame}
    /\ table' = [table EXCEPT ![frame] = Clear, ![walk.at][walk.va[walk.depth]] = frame]
    /\ walk' = [walk EXCEPT !.at = frame, !.depth = @ + 1]
    /\ UNCHANGED <<roots, pages, active>>

(* table_for on an absent entry: a fresh clear frame becomes the table.      *)
TableForAbsent(frame) ==
    /\ Descending
    /\ Entry = Nil
    /\ frame \in free
    /\ free' = free \ {frame}
    /\ table' = [table EXCEPT ![frame] = Clear, ![walk.at][walk.va[walk.depth]] = frame]
    /\ walk' = [walk EXCEPT !.at = frame, !.depth = @ + 1]
    /\ UNCHANGED <<roots, pages, active>>

(* quanta_frame_allocate_or_panic with an empty pool.                        *)
Panics ==
    /\ Descending
    /\ Entry = Nil
    /\ free = {}
    /\ walk' = [walk EXCEPT !.phase = "halted"]
    /\ UNCHANGED <<table, free, roots, pages, active>>

(* The leaf entry is set, whatever it held.                                  *)
MapLeaf ==
    /\ walk.phase = "walking" /\ walk.depth = Levels
    /\ table' = [table EXCEPT ![walk.at][walk.va[Levels]] = walk.physical]
    /\ walk' = Idle
    /\ UNCHANGED <<free, roots, pages, active>>

(* run() loads the root of the task it enters.                               *)
EnterUser(root) ==
    /\ walk = Idle
    /\ root \in roots
    /\ active' = root
    /\ UNCHANGED <<table, free, roots, pages, walk>>

(* The tables an address space owns, level by level: what destroy_table      *)
(* visits.  The kernel entry of the root is skipped and the last level's     *)
(* entries are pages, not tables.                                            *)
Below(t, indices) == {table[t][i] : i \in indices} \ {Nil}
VisitedByLevel(indices, root) ==
    LET level[d \in 1..Levels] ==
            IF d = 1 THEN {root}
            ELSE IF d = 2 THEN Below(root, indices)
            ELSE UNION {Below(t, Indices) : t \in level[d - 1]}
    IN  level
Visited(indices, root) == UNION {VisitedByLevel(indices, root)[d] : d \in 1..Levels}

OwnedTables(root) == Visited(Indices \ {KernelIndex}, root)

(* Seeded fault: the kernel's tables are given back with the rest.           *)
FaultyReleasedKernel(root) == Visited(Indices, root) \ {KernelTable}

(* The frames a destroy gives back.                                          *)
Released(root) == OwnedTables(root)

(* quanta_address_space_destroy: refused for the active space and for a root *)
(* that is not allocated any more; the mapped pages stay with their holders. *)
(* What a free frame contains is of no account: the pool clears it.          *)
quanta_address_space_destroy(root) ==
    /\ walk = Idle
    /\ root \in roots
    /\ root # active
    /\ free' = free \union Released(root)
    /\ roots' = roots \ {root}
    /\ table' = [t \in Tables |-> IF t \in Released(root) THEN Clear ELSE table[t]]
    /\ UNCHANGED <<pages, active, walk>>

Next ==
    \/ \E frame \in Frames :
          \/ quanta_address_space_create(frame)
          \/ AllocatePage(frame)
          \/ TableForAbsent(frame)
          \/ EnterUser(frame)
          \/ quanta_address_space_destroy(frame)
    \/ \E root \in roots \union {BootRoot}, va \in Addresses, physical \in pages \union Devices :
          MapBegins(root, va, physical)
    \/ TableForPresent
    \/ Panics
    \/ MapLeaf

Spec == Init /\ [][Next]_vars

-----------------------------------------------------------------------------
(* The tables only the kernel half leads to.                                 *)
KernelTables == Visited({KernelIndex}, BootRoot)

(* Every frame has one role: free, held as memory by a caller, a kernel      *)
(* table, or a table of exactly one address space.  Nothing is lost when a   *)
(* space is destroyed and nothing live is given back (destroy_table).        *)
EveryFrameHasOneRole ==
    /\ \A r \in roots : /\ OwnedTables(r) \subseteq Frames \ (free \union pages \union KernelTables)
                        /\ \A s \in roots \ {r} : OwnedTables(r) \intersect OwnedTables(s) = {}
    /\ KernelTables \intersect (free \union pages) = {}
    /\ Frames \subseteq free \union pages \union KernelTables \union UNION {OwnedTables(r) : r \in roots}

(* What the processor finds for an address, one entry per level.             *)
Entries(root, va) ==
    LET entry[d \in 0..Levels] ==
            IF d = 0 THEN root
            ELSE IF entry[d - 1] = Nil THEN Nil ELSE table[entry[d - 1]][va[d]]
    IN  entry
Translation(root, va) == Entries(root, va)[Levels]

(* The tables implement AddressSpaces: mapping into one space never changes  *)
(* another, destroying one leaves the others and the kernel half intact, and *)
(* every space sees the kernel half that the boot space has.                 *)
Spaces == INSTANCE AddressSpaces WITH
    Roots <- Frames, Unmapped <- Nil,
    user <- [r \in roots |-> [va \in UserAddresses |-> Translation(r, va)]],
    kernel <- [va \in KernelAddresses |-> Translation(BootRoot, va)]
ImplementsAddressSpaces == Spaces!Spec

(* The kernel half looks the same from every address space, also what the    *)
(* display maps after the space was created.                                 *)
KernelHalfShared ==
    \A r \in roots, va \in KernelAddresses : Translation(r, va) = Translation(BootRoot, va)

=============================================================================
