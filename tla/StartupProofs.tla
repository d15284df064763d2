----------------------------- MODULE StartupProofs -----------------------------
(***************************************************************************)
(* The way up, for every memory, firmware, kernel image, drive and volume: *)
(* the pool is free memory, one change of the map is survived, the kernel  *)
(* is loaded inside its pages, and the drive's answers are true as long as *)
(* no wait was given up.                                                   *)
(***************************************************************************)
EXTENDS Startup, FiniteSetTheorems, WellFoundedInduction, TLAPS

(* Before the map is read, while the loader has read it, after.              *)
Before == {"graphics", "kernel", "paging", "storage", "load", "buffer", "map"}
Reading == {"exit", "map_again", "exit_again"}

(* What the loader knows of the map when it leaves boot services.            *)
MapInv ==
    /\ changes \in Nat /\ map_key \in Nat /\ map_key <= changes
    /\ regions \subseteq Spans
    /\ loader \in Before => changes = 0 /\ map_key = 0 /\ map_size = BufferSize
    /\ loader = "map_again" => map_key < changes
    /\ loader = "exit_again" => 1 <= map_key
    /\ loader = "jump" => map_key = changes
    /\ loader \in {"exit", "exit_again", "jump"} /\ map_key = changes =>
          \A r \in regions : \A p \in r[1]..r[2] - 1 : owner[p] = "free"
    /\ loader \in Before \union Reading \union {"jump"} \union Ended

(* The bytes the kernel is entered at.                                       *)
ImageInv ==
    /\ ~spilled
    /\ loader \in {"buffer", "map", "exit", "map_again", "exit_again", "jump", "pooled", "halted"} /\ linked
          => entry

LoaderInv == MapInv /\ ImageInv /\ PoolIsFree /\ OneChangeIsSurvived

-----------------------------------------------------------------------------
(* Arithmetic on words.                                                      *)
LEMMA Remainder ==
    ASSUME NEW m \in Nat \ {0}, NEW a \in Int
    PROVE  /\ a = (a \div m) * m + (a % m)
           /\ a % m \in 0..m - 1
           /\ a \div m \in Int
    OBVIOUS

LEMMA SameRemainder ==
    ASSUME NEW m \in Nat \ {0}, NEW a \in Int, NEW d \in Int, NEW r \in 0..m - 1, a = d * m + r
    PROVE  a % m = r
    OBVIOUS

(* A segment that passed the tests fills its part of the allocation only.    *)
LEMMA StaysInside ==
    ASSUME NEW s \in Segment, ~SegmentRefused(s), NEW byte \in Filled(s)
    PROVE  byte < AllocationSize
<1> USE LoaderAssumption DEF Segment, Word
<1>1. PICK i \in 0..s.memory - 1 : byte = (s.physical - KernelPhysical + i) % Modulus
    BY DEF Filled
<1>2. /\ s.physical - KernelPhysical + i \in Nat
      /\ s.physical - KernelPhysical + i < AllocationSize
      /\ s.physical - KernelPhysical + i < Modulus
    BY DEF SegmentRefused, Overflows
<1>3. byte = s.physical - KernelPhysical + i
    <2>1. s.physical - KernelPhysical + i = 0 * Modulus + (s.physical - KernelPhysical + i)
        BY <1>2
    <2> QED BY <1>1, <1>2
<1> QED BY <1>2, <1>3

(* An address that a linked segment holds was filled, at the place the       *)
(* tables map it to: the two differences are the same word.                  *)
LEMMA EntryIsFilled ==
    ASSUME NEW s \in Segment, NEW e \in Word, HoldsEntry(s, e), Linked(s)
    PROVE  (e - KernelVirtual) % Modulus \in Filled(s)
<1> DEFINE M == Modulus
           p == s.physical - KernelPhysical
           v == (p + KernelVirtual) % M
           q == (p + KernelVirtual) \div M
           i == e - v
           d == (p + i) \div M
           r == (p + i) % M
<1>1. /\ M \in Nat \ {0} /\ KernelVirtual \in Int /\ e \in Int /\ s.memory \in Int
      /\ p \in Int /\ p + KernelVirtual \in Int
    BY LoaderAssumption DEF Segment, Word
<1>2. e >= v /\ e < v + s.memory
    BY DEF HoldsEntry, Linked
<1>3. Filled(s) = {(p + n) % M : n \in 0..s.memory - 1}
    BY DEF Filled
<1> HIDE DEF M, p
<1>4. v \in Int /\ q \in Int /\ p + KernelVirtual = q * M + v
    <2> DEFINE a == p + KernelVirtual
    <2>1. a \in Int
        BY <1>1
    <2> HIDE DEF a
    <2>2. a = (a \div M) * M + (a % M) /\ a % M \in 0..M - 1 /\ a \div M \in Int
        BY <1>1, <2>1, Remainder
    <2> QED BY <1>1, <2>2 DEF a
<1> HIDE DEF v, q
<1>5. i \in 0..s.memory - 1 /\ i \in Int /\ p + i \in Int
    BY <1>1, <1>2, <1>4
<1>6. d \in Int /\ r \in 0..M - 1 /\ p + i = d * M + r
    <2> DEFINE a == p + i
    <2> HIDE DEF a
    <2>1. a = (a \div M) * M + (a % M) /\ a % M \in 0..M - 1 /\ a \div M \in Int
        BY <1>1, <1>5, Remainder DEF a
    <2> QED BY <2>1 DEF a
<1> HIDE DEF d, r
<1>7. d - q \in Int /\ e - KernelVirtual \in Int /\ e - KernelVirtual = (d - q) * M + r
    <2>1. e - KernelVirtual = p + i - q * M
        BY <1>1, <1>4, <1>6
    <2>2. (d - q) * M = d * M - q * M
        BY <1>1, <1>4, <1>6
    <2> QED BY <1>1, <1>4, <1>6, <2>1, <2>2
<1>8. (e - KernelVirtual) % M = r
    BY <1>1, <1>6, <1>7, SameRemainder
<1>9. r \in Filled(s)
    BY <1>3, <1>5 DEF r
<1> QED BY <1>8, <1>9 DEF M

-----------------------------------------------------------------------------
(* The tests load_kernel makes are enough.                                   *)
LEMMA LoadKernelImage ==
    ASSUME ImageInv, LoadKernel
    PROVE  ImageInv'
<1>1. PICK image \in Images : load_kernel(image)
    BY DEF LoadKernel
<1>2. image.segments \in Seq(Segment) /\ image.entry \in Word
    BY LoaderAssumption DEF Image
<1> DEFINE refused == {n \in DOMAIN image.segments : SegmentRefused(image.segments[n])}
           copied == {n \in DOMAIN image.segments : image.header /\ \A j \in refused : n < j}
           filled == UNION {Filled(image.segments[n]) : n \in copied}
           holding == {n \in copied : HoldsEntry(image.segments[n], image.entry)}
           accepted == image.header /\ refused = {} /\ holding # {}
<1>3. /\ spilled' = (\E byte \in filled : byte >= AllocationSize)
      /\ entry' = ((image.entry - KernelVirtual) % Modulus \in filled)
      /\ linked' = (\A n \in holding : Linked(image.segments[n]))
      /\ loader' = IF accepted THEN "buffer" ELSE "returned"
    BY <1>1 DEF load_kernel
<1>4. ASSUME NEW n \in copied
      PROVE  image.segments[n] \in Segment /\ ~SegmentRefused(image.segments[n])
    <2>1. n \in DOMAIN image.segments /\ n \in Nat
        BY <1>2
    <2>2. n \notin refused
        BY <2>1
    <2> QED BY <1>2, <2>1, <2>2
<1>5. ASSUME NEW byte \in filled PROVE byte < AllocationSize /\ byte \in Int
    <2>1. PICK n \in copied : byte \in Filled(image.segments[n])
        OBVIOUS
    <2>2. image.segments[n] \in Segment /\ ~SegmentRefused(image.segments[n])
        BY <1>4
    <2> HIDE DEF filled, copied, refused
    <2>3. byte < AllocationSize
        BY <2>1, <2>2, StaysInside
    <2>4. byte \in Int
        BY <2>1, <2>2, LoaderAssumption DEF Filled, Segment, Word
    <2> QED BY <2>3, <2>4
<1>6. accepted /\ (\A n \in holding : Linked(image.segments[n]))
          => (image.entry - KernelVirtual) % Modulus \in filled
    <2> SUFFICES ASSUME NEW n \in copied, HoldsEntry(image.segments[n], image.entry),
                        Linked(image.segments[n])
                 PROVE  (image.entry - KernelVirtual) % Modulus \in filled
        OBVIOUS
    <2>1. image.segments[n] \in Segment
        BY <1>4
    <2>2. (image.entry - KernelVirtual) % Modulus \in Filled(image.segments[n])
        BY <1>2, <2>1, EntryIsFilled
    <2> QED BY <2>2
<1> HIDE DEF filled, accepted, holding
<1>7. AllocationSize \in Nat
    BY LoaderAssumption
<1>8. ~spilled'
    BY <1>3, <1>5, <1>7
<1>9. loader' = "buffer" /\ linked' => entry'
    BY <1>3, <1>6
<1>10. loader' \in {"buffer", "returned"}
    BY <1>3
<1> QED BY <1>8, <1>9, <1>10 DEF ImageInv

(* What the regions say of the map they were read from.                      *)
LEMMA CollectedIsFree ==
    ASSUME NEW r \in collect_memory_regions
    PROVE  /\ r \in Spans
           /\ \A p \in r[1]..r[2] - 1 : owner[p] = "free"
    BY DEF collect_memory_regions, Runs

LEMMA RunsFinite == Cardinality(Runs) \in Nat
<1>1. IsFiniteSet(0..LastPage) /\ IsFiniteSet(1..LastPage + 1)
    <2>1. LastPage \in Int
        BY LoaderAssumption
    <2> QED BY <2>1, FS_Interval
<1>2. IsFiniteSet(Spans)
    BY <1>1, FS_Product DEF Spans, Pages
<1>3. Runs \subseteq Spans
    BY DEF Runs
<1> QED BY <1>2, <1>3, FS_Subset, FS_CardinalityType

LEMMA ReadMapInv ==
    ASSUME MapInv, NEW size \in Nat, NEW next \in {"exit", "exit_again"}, ReadMap(size, next),
           UNCHANGED <<owner, changes>>
    PROVE  /\ map_key' \in Nat /\ map_key' <= changes'
           /\ regions' \subseteq Spans
           /\ \/ /\ loader' = next /\ map_key' = changes
                 /\ \A r \in regions' : \A p \in r[1]..r[2] - 1 : owner'[p] = "free"
              \/ loader' = "returned" /\ map_key' = map_key /\ Cardinality(Runs) > size
<1>1. CASE Cardinality(Runs) <= size
    <2>1. map_key' = changes /\ regions' = collect_memory_regions /\ loader' = next
        BY <1>1 DEF ReadMap
    <2>2. changes \in Nat /\ changes' = changes /\ owner' = owner
        BY DEF MapInv
    <2>3. regions' \subseteq Spans
        BY <2>1, CollectedIsFree
    <2>4. \A r \in regions' : \A p \in r[1]..r[2] - 1 : owner'[p] = "free"
        BY <2>1, <2>2, CollectedIsFree
    <2>5. map_key' \in Nat /\ map_key' <= changes'
        BY <2>1, <2>2
    <2> QED BY <2>1, <2>3, <2>4, <2>5
<1>2. CASE ~(Cardinality(Runs) <= size)
    <2>1. loader' = "returned" /\ map_key' = map_key /\ regions' = regions
        BY <1>2 DEF ReadMap
    <2>2. map_key \in Nat /\ map_key <= changes /\ changes' = changes /\ regions \subseteq Spans
        BY DEF MapInv
    <2>3. Cardinality(Runs) \in Nat
        BY RunsFinite
    <2>4. Cardinality(Runs) > size
        BY <1>2, <2>3
    <2>5. map_key' \in Nat /\ map_key' <= changes' /\ regions' \subseteq Spans
        BY <2>1, <2>2
    <2> QED BY <2>1, <2>4, <2>5
<1> QED BY <1>1, <1>2

(* The pool that is chosen is a part of one region.                          *)
LEMMA BestIsUsable ==
    ASSUME regions \subseteq Spans, Best # NoPool
    PROVE  \E r \in regions : Best = Usable(r)
<1> DEFINE usable == {Usable(r) : r \in regions}
           best == {u \in usable : Size(u) > 0 /\ \A v \in usable : Size(v) <= Size(u)}
           firsts == {u[1] : u \in best}
           R == OpToRel(<, Nat)
<1>1. best # {} /\ Best = CHOOSE u \in best : \A v \in best : u[1] <= v[1]
    BY DEF Best
<1>2. \A r \in regions : Usable(r)[1] \in Nat
    BY LoaderAssumption DEF Spans, Pages, Usable
<1>3. firsts \subseteq Nat /\ firsts # {}
    BY <1>1, <1>2
<1>4. PICK least \in firsts : \A i \in firsts : <<i, least>> \notin R
    <2> HIDE DEF firsts, R
    <2>1. IsWellFoundedOn(R, Nat)
        BY NatLessThanWellFounded DEF R
    <2> QED BY <1>3, <2>1, WFMin
<1>5. PICK u \in best : u[1] = least
    BY <1>4
<1>6. \A v \in best : u[1] <= v[1]
    <2> SUFFICES ASSUME NEW v \in best, ~(u[1] <= v[1]) PROVE FALSE
        OBVIOUS
    <2>1. v[1] \in firsts /\ u[1] \in firsts
        OBVIOUS
    <2>2. v[1] \in Nat /\ u[1] \in Nat /\ v[1] < u[1]
        BY <1>3, <2>1
    <2>3. <<v[1], u[1]>> \in R
        BY <2>2 DEF OpToRel
    <2> HIDE DEF R, firsts
    <2> QED BY <1>4, <1>5, <2>1, <2>3
<1>7. Best \in best
    <2> HIDE DEF best
    <2> QED BY <1>1, <1>5, <1>6
<1> QED BY <1>7

LEMMA BestIsFree ==
    ASSUME regions \subseteq Spans, \A r \in regions : \A q \in r[1]..r[2] - 1 : owner[q] = "free",
           Best # NoPool, NEW p \in Best[1]..Best[2] - 1
    PROVE  owner[p] = "free" /\ p \notin {MapPage, InfoPage} /\ p < IdentityLimit
<1>1. PICK r \in regions : Best = Usable(r)
    BY BestIsUsable
<1>2. r[1] \in Nat /\ r[2] \in Nat
    BY LoaderAssumption DEF Spans, Pages
<1>3. PoolFloor \in Nat /\ IdentityLimit \in Nat /\ MapPage < PoolFloor /\ InfoPage < PoolFloor
    BY LoaderAssumption DEF Pages
<1>4. p \in r[1]..r[2] - 1 /\ p >= PoolFloor /\ p < IdentityLimit
    BY <1>1, <1>2, <1>3 DEF Usable
<1>5. MapPage \in Int /\ InfoPage \in Int
    BY LoaderAssumption
<1> QED BY <1>3, <1>4, <1>5

LEMMA JumpInv ==
    ASSUME LoaderInv, Jump
    PROVE  LoaderInv'
<1>1. /\ loader = "jump" /\ loader' \in {"faulted", "halted", "pooled"}
      /\ UNCHANGED <<owner, changes, map_key, map_size, regions, spilled, entry, linked>>
    BY DEF Jump, Ended
<1>2. MapInv'
    <2>1. loader' \notin {"exit", "exit_again", "jump", "map_again"} \union Before /\ loader' \in Ended
        BY <1>1 DEF Ended, Before
    <2> QED BY <1>1, <2>1 DEF LoaderInv, MapInv
<1>3. ImageInv'
    BY <1>1 DEF LoaderInv, ImageInv
<1>4. ASSUME loader' = "pooled", NEW p \in pool'[1]..pool'[2] - 1
      PROVE  owner'[p] = "free" /\ p \notin {MapPage, InfoPage} /\ p < IdentityLimit
    <2>1. pool' = Best /\ Best # NoPool
        BY <1>4 DEF Jump
    <2>2. regions \subseteq Spans /\ \A r \in regions : \A q \in r[1]..r[2] - 1 : owner[q] = "free"
        BY <1>1 DEF LoaderInv, MapInv
    <2> QED BY <1>1, <1>4, <2>1, <2>2, BestIsFree
<1>5. PoolIsFree'
    BY <1>4 DEF PoolIsFree
<1>6. OneChangeIsSurvived'
    BY <1>1 DEF OneChangeIsSurvived
<1> QED BY <1>2, <1>3, <1>5, <1>6 DEF LoaderInv

(* The steps before the map is read.                                         *)
LEMMA EarlyInv ==
    ASSUME LoaderInv, LocateGraphics \/ Allocate \/ LoadKernel
    PROVE  LoaderInv'
<1>1. /\ loader \in Before \ {"map"}
      /\ loader' \in Before \union {"returned"}
      /\ UNCHANGED <<changes, map_key, map_size, regions, pool>>
    <2>1. CASE LocateGraphics
        BY <2>1 DEF LocateGraphics, Returns, Before
    <2>2. CASE Allocate
        BY <2>2 DEF Allocate, AllocateKernel, AllocateStorage, AllocateBuffer, AllocatesAny,
            AllocatePaging, AllocationFails, Returns, Before
    <2>3. CASE LoadKernel
        BY <2>3 DEF LoadKernel, load_kernel, Before
    <2> QED BY <2>1, <2>2, <2>3
<1>2. changes = 0 /\ map_key = 0 /\ map_size = BufferSize
    BY <1>1 DEF LoaderInv, MapInv
<1>3. MapInv'
    BY <1>1, <1>2 DEF LoaderInv, MapInv, Before, Ended
<1>4. ImageInv'
    <2>1. CASE LoadKernel
        BY <2>1, LoadKernelImage DEF LoaderInv
    <2>2. CASE LocateGraphics
        BY <2>2 DEF LocateGraphics, Returns, LoaderInv, ImageInv
    <2>3. CASE Allocate
        BY <2>3 DEF Allocate, AllocateKernel, AllocateStorage, AllocateBuffer, AllocatesAny,
            AllocatePaging, AllocationFails, Returns, LoaderInv, ImageInv
    <2> QED BY <2>1, <2>2, <2>3
<1>5. PoolIsFree'
    BY <1>1 DEF PoolIsFree, Before
<1>6. OneChangeIsSurvived'
    BY <1>1, <1>2 DEF OneChangeIsSurvived
<1> QED BY <1>3, <1>4, <1>5, <1>6 DEF LoaderInv

LEMMA MapStepsInv ==
    ASSUME LoaderInv, GetMap \/ GetMapAgain
    PROVE  LoaderInv'
<1>1. MapInv /\ ImageInv /\ changes \in Nat /\ BufferSize \in Nat
    BY LoaderAssumption DEF LoaderInv, MapInv
<1>2. UNCHANGED <<owner, changes, spilled, entry, linked, pool>> /\ map_size' = Cardinality(Runs)
    BY DEF GetMap, GetMapAgain, ReadMap
<1>3. PICK next \in {"exit", "exit_again"} :
         /\ ReadMap(BufferSize, next)
         /\ IF next = "exit" THEN loader = "map" ELSE loader = "map_again"
    <2>1. CASE GetMap
        <3>1. loader = "map" /\ map_size = BufferSize /\ ReadMap(map_size, "exit")
            BY <1>1, <2>1 DEF GetMap, MapInv, Before
        <3> QED BY <3>1
    <2>2. CASE GetMapAgain
        BY <2>2 DEF GetMapAgain
    <2> QED BY <2>1, <2>2
<1>4. /\ map_key' \in Nat /\ map_key' <= changes'
      /\ regions' \subseteq Spans
      /\ \/ /\ loader' = next /\ map_key' = changes
            /\ \A r \in regions' : \A p \in r[1]..r[2] - 1 : owner'[p] = "free"
         \/ loader' = "returned" /\ map_key' = map_key /\ Cardinality(Runs) > BufferSize
    BY <1>1, <1>2, <1>3, ReadMapInv
<1>5. next = "exit_again" => changes >= 1
    BY <1>1, <1>3 DEF MapInv
<1>6. Runs' = Runs
    BY <1>2 DEF Runs
<1>7. MapInv'
    BY <1>1, <1>2, <1>4, <1>5 DEF MapInv, Before, Reading, Ended
<1>8. ImageInv'
    BY <1>1, <1>2, <1>3, <1>4 DEF ImageInv
<1>9. PoolIsFree'
    BY <1>4 DEF PoolIsFree
<1>10. OneChangeIsSurvived'
    BY <1>4, <1>6 DEF OneChangeIsSurvived
<1> QED BY <1>7, <1>8, <1>9, <1>10 DEF LoaderInv

LEMMA ExitInv ==
    ASSUME LoaderInv, Exit
    PROVE  LoaderInv'
<1>1. MapInv /\ ImageInv
    BY DEF LoaderInv
<1>2. UNCHANGED <<owner, changes, map_key, map_size, regions, spilled, entry, linked, pool>>
    BY DEF Exit
<1>3. \/ loader' = "jump" /\ map_key = changes
      \/ loader = "exit" /\ loader' = "map_again" /\ map_key < changes
      \/ loader = "exit_again" /\ loader' = "returned" /\ map_key < changes
    BY <1>1 DEF Exit, MapInv
<1>4. MapInv'
    <2>1. loader \in {"exit", "exit_again"}
        BY DEF Exit
    <2> QED BY <1>1, <1>2, <1>3, <2>1 DEF MapInv, Before, Reading, Ended
<1>5. ImageInv'
    BY <1>1, <1>2, <1>3 DEF ImageInv, Exit
<1>6. PoolIsFree'
    BY <1>3 DEF PoolIsFree
<1>7. OneChangeIsSurvived'
    BY <1>1, <1>2, <1>3 DEF OneChangeIsSurvived, MapInv
<1> QED BY <1>4, <1>5, <1>6, <1>7 DEF LoaderInv

LEMMA FirmwareInv ==
    ASSUME LoaderInv, FirmwareChanges
    PROVE  LoaderInv'
<1>1. MapInv /\ ImageInv
    BY DEF LoaderInv
<1>2. /\ loader \in Reading /\ changes' = changes + 1
      /\ UNCHANGED <<map_key, map_size, regions, spilled, entry, linked, loader, pool>>
    BY DEF FirmwareChanges, Reading
<1>3. MapInv'
    BY <1>1, <1>2 DEF MapInv, Before, Reading
<1>4. ImageInv'
    BY <1>1, <1>2 DEF ImageInv
<1>5. PoolIsFree' /\ OneChangeIsSurvived'
    BY <1>2 DEF PoolIsFree, OneChangeIsSurvived, Reading
<1> QED BY <1>3, <1>4, <1>5 DEF LoaderInv

LEMMA LoaderStepInv ==
    ASSUME LoaderInv, LoaderStep \/ FirmwareChanges
    PROVE  LoaderInv'
BY EarlyInv, MapStepsInv, ExitInv, FirmwareInv, JumpInv DEF LoaderStep

(* The kernel forgets what the loader knew.                                  *)
LEMMA LoaderIsInvariant == Spec => []LoaderInv
<1>1. Init => LoaderInv
    <2>1. ASSUME LoaderInit PROVE LoaderInv
        BY <2>1, LoaderAssumption DEF LoaderInit, LoaderInv, MapInv, ImageInv, PoolIsFree, OneChangeIsSurvived,
            Before, Spans
    <2>2. ASSUME BiosInit PROVE LoaderInv
        <3>1. /\ regions \subseteq Spans /\ owner = [p \in Pages |-> "free"]
              /\ pool = Best /\ loader = IF Best = NoPool THEN "halted" ELSE "pooled"
            BY <2>2 DEF BiosInit
        <3>2. ASSUME NEW r \in regions, NEW q \in r[1]..r[2] - 1 PROVE owner[q] = "free"
            <4>1. r \in Pages \X (1..LastPage + 1) /\ LastPage \in Nat
                BY <3>1, LoaderAssumption DEF Spans
            <4>2. r[1] \in Pages /\ r[2] \in 1..LastPage + 1
                BY <4>1
            <4>3. q \in Pages
                BY <4>1, <4>2 DEF Pages
            <4> QED BY <3>1, <4>3
        <3>3. PoolIsFree
            BY <3>1, <3>2, BestIsFree DEF PoolIsFree
        <3>4. MapInv
            BY <2>2, <3>1 DEF BiosInit, MapInv, Before, Reading, Ended
        <3> QED BY <2>2, <3>1, <3>3, <3>4 DEF BiosInit, LoaderInv, ImageInv, OneChangeIsSurvived
    <2> QED BY <2>1, <2>2 DEF Init
<1>2. LoaderInv /\ [Next]_vars => LoaderInv'
    <2> SUFFICES ASSUME LoaderInv, [Next]_vars PROVE LoaderInv'
        OBVIOUS
    <2>1. CASE LoaderStep \/ FirmwareChanges
        BY <2>1, LoaderStepInv
    <2>2. CASE StorageInitialize
        BY <2>2 DEF StorageInitialize, LoaderInv, MapInv, ImageInv, PoolIsFree, OneChangeIsSurvived,
            Before, Reading, Ended, NoPool
    <2>3. CASE UNCHANGED loaderVars
        <3>1. Runs' = Runs
            BY <2>3 DEF Runs, loaderVars
        <3> QED BY <2>3, <3>1 DEF loaderVars, LoaderInv, MapInv, ImageInv, PoolIsFree, OneChangeIsSurvived
    <2> QED BY <2>1, <2>2, <2>3 DEF Next, Program, InLoader, InDriver, InKernel, TaskBootstrap, Create,
            ConfigureSyscalls, TimerInterrupt, RunSession, vars
<1> QED BY <1>1, <1>2, PTL DEF Spec

(* The kernel's frames were free when boot services were left.               *)
THEOREM PoolFree == Spec => []PoolIsFree
<1>1. LoaderInv => PoolIsFree
    BY DEF LoaderInv
<1> QED BY LoaderIsInvariant, <1>1, PTL

(* The loader gives up only after a second change, or for want of room.      *)
THEOREM ChangeSurvived == Spec => []OneChangeIsSurvived
<1>1. LoaderInv => OneChangeIsSurvived
    BY DEF LoaderInv
<1> QED BY LoaderIsInvariant, <1>1, PTL

(* Nothing outside the kernel's pages is written; the entry of a kernel      *)
(* linked by kernel.ld was loaded.                                           *)
THEOREM KernelLoaded == Spec => []KernelIsLoaded
<1>1. LoaderInv => KernelIsLoaded
    BY DEF LoaderInv, ImageInv, KernelIsLoaded
<1> QED BY LoaderIsInvariant, <1>1, PTL

-----------------------------------------------------------------------------
(* The drive and the mount, for every number of polls, every contents and    *)
(* every drive: as long as no wait was given up, the driver and the drive    *)
(* work on the same command, so that what is read is what is there, what was *)
(* written is on the drive, and the mount is of the kind it found.           *)
Quiet == drive.state \in {"absent", "idle", "error"}
OnDrive == cache[call.lba] = call.data
OnMedium == medium[call.lba] = call.data
Storing ==
    /\ drive.command = "store" /\ drive.lba = call.lba /\ drive.data = call.data
    /\ drive.state = "idle" => OnDrive

(* After the flush was written: the error it was written over is forgotten,  *)
(* the drive still stores the data and has not seen it, or it works on it.   *)
Settling ==
    \/ drive.command = "flush" /\ (masked \/ (OnDrive /\ (drive.state = "idle" => OnMedium)))
    \/ Storing /\ overtaken

(* Driver and drive are at the same command.                                 *)
InStep ==
    /\ call = NoCall \/ call.phase = "issue" => Quiet
    /\ call # NoCall /\ call.phase \in {"wait", "transfer"} =>
          /\ drive.state # "absent" => /\ drive.state \in {"busy", "data", "error"}
                                       /\ drive.command = call.op /\ drive.lba = call.lba
          /\ drive.state = "data" /\ call.op = "read" => drive.data = cache[call.lba]
          /\ call.phase = "transfer" => drive.state = "data"
    /\ call # NoCall /\ call.phase \in {"flush", "settle"} =>
          /\ call.op = "write"
          /\ drive.state \in {"busy", "idle", "error"}
          /\ call.phase = "flush" => Storing
          /\ call.phase = "settle" => Settling

(* What holds however long the drive takes.                                  *)
CallsInv ==
    /\ AtaTypeOK
    /\ stage \in Stages
    /\ live \in [Sectors -> Contents] \union {NoImage}
    /\ answer # NoCall => call = NoCall
    /\ stage = "running" /\ probing = "untried" => call = NoCall
    /\ call # NoCall /\ call.op = "write" => call.lba = "data"
    /\ stage = "running" => call = NoCall \/ call.op # "identify"
    /\ stage # "running" => probing = "untried" /\ mount = NoMount /\ active_drive = ""
    /\ stage \notin {"drives", "running"} => call = NoCall

DriveInv == CallsInv /\ (~late => InStep /\ AnswersAreTrue)

-----------------------------------------------------------------------------
LEMMA NotACall ==
    /\ \A c \in Call : c # NoCall
    /\ \A a \in Answer : a # NoCall
<1>1. \A c \in Call : c.op # "none"
    BY DEF Call
<1>2. \A a \in Answer : a.op # "none"
    BY DEF Answer
<1>3. NoCall.op = "none"
    BY DEF NoCall
<1> QED BY <1>1, <1>2, <1>3

LEMMA DriveStepInv ==
    ASSUME DriveInv, DriveStep, UNCHANGED <<loaderVars, storageVars, stage>>
    PROVE  DriveInv'
<1>1. AtaTypeOK /\ drive.state = "busy"
      /\ UNCHANGED <<call, attempts, present, answer, late, masked, overtaken>>
    BY DEF DriveInv, CallsInv, DriveStep
<1>2. AtaTypeOK'
    BY <1>1, AtaAssumption DEF AtaTypeOK, DriveStep, DriveHas, DriveEnds, Stored, States
<1>3. CallsInv'
    BY <1>1, <1>2 DEF DriveInv, CallsInv, storageVars
<1>4. ASSUME ~late PROVE InStep' /\ AnswersAreTrue'
    <2>1. InStep /\ AnswersAreTrue
        BY <1>4 DEF DriveInv
    <2>2. call # NoCall /\ call \in Call /\ call.phase # "issue"
        BY <1>1, <2>1 DEF InStep, Quiet, AtaTypeOK
    <2>3. answer = NoCall
        BY <2>2 DEF DriveInv, CallsInv
    <2>4. AnswersAreTrue'
        BY <1>1, <2>3 DEF AnswersAreTrue
    <2>5. CASE call.phase \in {"wait", "transfer"}
        <3>1. drive.command = call.op /\ drive.lba = call.lba /\ call.phase = "wait"
            BY <1>1, <2>1, <2>2, <2>5 DEF InStep
        <3>2. call.op \in {"identify", "read", "write"} /\ cache' = cache
            BY <2>2, <3>1, <1>1 DEF DriveStep, DriveHas, Call
        <3>3. /\ drive'.command = drive.command /\ drive'.lba = drive.lba
              /\ drive'.state \in {"data", "error"}
              /\ drive'.state = "data" /\ drive.command = "read" => drive'.data = cache[drive.lba]
            BY <1>1, <3>1, <3>2 DEF DriveStep, DriveHas, DriveEnds, AtaTypeOK
        <3> QED BY <1>1, <2>4, <2>2, <2>5, <3>1, <3>2, <3>3 DEF InStep
    <2>6. CASE call.phase \in {"flush", "settle"}
        <3>1. /\ call.op = "write" /\ (call.phase = "flush" => Storing) /\ (call.phase = "settle" => Settling)
              /\ call.lba \in Sectors /\ drive.command \in {"store", "flush"}
            BY <2>1, <2>2, <2>6 DEF InStep, Call, Settling, Storing
        <3>2. /\ drive'.command = drive.command /\ drive'.lba = drive.lba /\ drive'.data = drive.data
              /\ drive'.state \in {"idle", "error"}
              /\ drive.command = "store" /\ drive'.state = "idle" => cache' = Stored
              /\ drive.command = "flush" => cache' = cache
              /\ drive.command = "flush" /\ drive'.state = "idle" => medium' = cache
            BY <1>1, <3>1 DEF DriveStep, DriveHas, DriveEnds, AtaTypeOK
        <3>3. Storing => Storing'
            BY <1>1, <3>1, <3>2 DEF Storing, OnDrive, Stored, AtaTypeOK
        <3>4. drive.command = "flush" /\ OnDrive => OnDrive' /\ (drive'.state = "idle" => OnMedium')
            BY <1>1, <3>2 DEF OnDrive, OnMedium
        <3>5. Settling => Settling'
            BY <1>1, <3>2, <3>3, <3>4 DEF Settling
        <3> QED BY <1>1, <2>4, <2>2, <2>6, <3>1, <3>2, <3>3, <3>5 DEF InStep
    <2>7. InStep'
        BY <2>2, <2>5, <2>6 DEF Call, Phases
    <2> QED BY <2>4, <2>7
<1> QED BY <1>1, <1>3, <1>4 DEF DriveInv

LEMMA DriveWritesBackInv ==
    ASSUME DriveInv, DriveWritesBack, UNCHANGED <<loaderVars, storageVars, stage>>
    PROVE  DriveInv'
<1>1. AtaTypeOK /\ UNCHANGED <<drive, cache, call, attempts, present, answer, late, masked, overtaken>>
    BY DEF DriveInv, CallsInv, DriveWritesBack
<1>2. PICK s \in Sectors : medium' = [medium EXCEPT ![s] = cache[s]]
    BY DEF DriveWritesBack
<1>3. medium' \in [Sectors -> Contents] /\ \A t \in Sectors : medium'[t] \in {medium[t], cache[t]}
    BY <1>1, <1>2 DEF AtaTypeOK
<1>4. AtaTypeOK'
    BY <1>1, <1>3 DEF AtaTypeOK
<1>5. CallsInv'
    BY <1>1, <1>4 DEF DriveInv, CallsInv, storageVars
<1>6. ASSUME ~late PROVE InStep' /\ AnswersAreTrue'
    <2>1. InStep /\ AnswersAreTrue
        BY <1>6 DEF DriveInv
    <2>2. Quiet' = Quiet /\ Storing' = Storing
        BY <1>1 DEF Quiet, Storing, OnDrive
    <2>3. call # NoCall => (Settling => Settling')
        <3>1. call # NoCall => call.lba \in Sectors
            BY <1>1 DEF AtaTypeOK, Call
        <3> QED BY <1>1, <1>3, <2>2, <3>1 DEF Settling, OnDrive, OnMedium
    <2>4. InStep'
        BY <1>1, <2>1, <2>2, <2>3 DEF InStep
    <2>5. AnswersAreTrue'
        <3>1. answer # NoCall => answer.lba \in Sectors
            BY <1>1 DEF AtaTypeOK, Answer
        <3> QED BY <1>1, <1>3, <2>1, <3>1 DEF AnswersAreTrue
    <2> QED BY <2>4, <2>5
<1> QED BY <1>1, <1>5, <1>6 DEF DriveInv

(* A step of the driver goes on with the call or returns from it.            *)
GoesOn(phase) == call' = [call EXCEPT !.phase = phase] /\ answer' = answer

LEMMA DriverCalls ==
    ASSUME CallsInv, call # NoCall, UNCHANGED <<loaderVars, storageVars, stage>>, AtaTypeOK',
           call' = NoCall \/ \E phase \in Phases : GoesOn(phase)
    PROVE  CallsInv'
<1>1. call \in Call /\ answer = NoCall
    BY DEF CallsInv, AtaTypeOK
<1>2. call' # NoCall => call'.op = call.op /\ call'.lba = call.lba /\ answer' = NoCall
    BY <1>1 DEF GoesOn, Call
<1> QED BY <1>2 DEF CallsInv, storageVars

LEMMA Phased ==
    ASSUME NEW c \in Call, NEW phase \in Phases
    PROVE  /\ [c EXCEPT !.phase = phase] \in Call
           /\ [c EXCEPT !.phase = phase].phase = phase
           /\ [c EXCEPT !.phase = phase].op = c.op
           /\ [c EXCEPT !.phase = phase].lba = c.lba
           /\ [c EXCEPT !.phase = phase].data = c.data
           /\ [c EXCEPT !.phase = phase] # NoCall
<1>1. [c EXCEPT !.phase = phase] \in Call
    BY DEF Call
<1> QED BY <1>1, NotACall DEF Call

LEMMA GoneOn ==
    ASSUME call \in Call, NEW phase \in Phases, GoesOn(phase)
    PROVE  /\ call' \in Call /\ call' # NoCall /\ call'.phase = phase
           /\ call'.op = call.op /\ call'.lba = call.lba /\ call'.data = call.data
<1>1. call' = [call EXCEPT !.phase = phase]
    BY DEF GoesOn
<1> QED BY <1>1, Phased

LEMMA PollDoes ==
    ASSUME NEW require_data \in BOOLEAN, NEW ACTION next, Poll(require_data, next)
    PROVE  \/ Return(call.data, FALSE) /\ attempts' = attempts /\ late' = late /\ drive.state \in {"absent", "error"}
           \/ Ready(require_data) /\ next /\ attempts' = 0 /\ late' = late
           \/ call' = call /\ answer' = answer /\ late' = late /\ attempts' = attempts + 1 /\ attempts + 1 < MaxAttempts
           \/ Return(call.data, FALSE) /\ attempts' = 0 /\ late' = TRUE
BY DEF Poll

LEMMA IssueInv ==
    ASSUME DriveInv, Issue, UNCHANGED <<loaderVars, storageVars, stage>>
    PROVE  DriveInv'
<1> DEFINE taken == [state |-> "busy", command |-> call.op, lba |-> call.lba, data |-> "junk"]
<1>1. /\ AtaTypeOK /\ CallsInv /\ call \in Call /\ call.phase = "issue"
      /\ call' = [call EXCEPT !.phase = "wait"] /\ attempts' = 0
      /\ masked' = FALSE /\ overtaken' = FALSE
      /\ UNCHANGED <<cache, medium, present, answer, late>>
    BY DEF DriveInv, CallsInv, AtaTypeOK, Issue
<1>2. call' \in Call /\ call'.phase = "wait" /\ call'.op = call.op /\ call'.lba = call.lba /\ call' # NoCall
    BY <1>1, Phased DEF Phases
<1>3. drive' \in {drive, taken} /\ (drive.state \in {"idle", "error"} => drive' = taken)
    BY DEF Issue, Commanded
<1>4. AtaTypeOK'
    <2>1. call.op \in Commands /\ call.lba \in Sectors /\ "junk" \in Contents /\ MaxAttempts \in Nat
        BY <1>1, AtaAssumption DEF Call, Commands
    <2>2. taken \in [state : States, command : Commands, lba : Sectors, data : Contents]
        BY <2>1 DEF States
    <2>3. drive' \in [state : States, command : Commands, lba : Sectors, data : Contents]
        BY <1>1, <1>3, <2>2 DEF AtaTypeOK
    <2>4. late' \in BOOLEAN /\ masked' \in BOOLEAN /\ overtaken' \in BOOLEAN
        BY <1>1 DEF AtaTypeOK
    <2>5. /\ cache' \in [Sectors -> Contents] /\ medium' \in [Sectors -> Contents]
          /\ present' \in BOOLEAN /\ answer' \in Answer \union {NoCall}
        BY <1>1 DEF AtaTypeOK
    <2>6. attempts' \in 0..MaxAttempts
        BY <1>1, <2>1
    <2> QED BY <1>2, <2>3, <2>4, <2>5, <2>6 DEF AtaTypeOK
<1>5. CallsInv'
    BY <1>1, <1>2, <1>4, DriverCalls, NotACall DEF GoesOn, Phases
<1>6. ASSUME ~late PROVE InStep' /\ AnswersAreTrue'
    <2>1. Quiet
        BY <1>1, <1>6 DEF DriveInv, InStep
    <2>2. drive' = taken \/ drive'.state = "absent"
        BY <1>3, <2>1 DEF Quiet
    <2>3. AnswersAreTrue'
        BY <1>2, <1>5 DEF CallsInv, AnswersAreTrue
    <2> QED BY <1>2, <2>2, <2>3 DEF InStep
<1> QED BY <1>1, <1>5, <1>6 DEF DriveInv

LEMMA WaitInv ==
    ASSUME DriveInv, Wait, UNCHANGED <<loaderVars, storageVars, stage>>
    PROVE  DriveInv'
<1>1. /\ AtaTypeOK /\ CallsInv /\ call \in Call /\ call.phase = "wait"
      /\ UNCHANGED <<drive, cache, medium, present, masked, overtaken>>
    BY DEF DriveInv, CallsInv, AtaTypeOK, Wait
<1>2. \/ Return(call.data, FALSE) /\ attempts' = attempts /\ late' = late /\ drive.state \in {"absent", "error"}
      \/ /\ Ready(TRUE) /\ GoesOn("transfer") /\ attempts' = 0 /\ late' = late
      \/ call' = call /\ answer' = answer /\ late' = late /\ attempts' = attempts + 1 /\ attempts + 1 < MaxAttempts
      \/ Return(call.data, FALSE) /\ attempts' = 0 /\ late' = TRUE
    <2>1. Poll(TRUE, GoesOn("transfer"))
        BY DEF Wait, Poll, GoesOn
    <2> QED BY <2>1, PollDoes
<1>3. GoesOn("transfer") =>
        /\ call' \in Call /\ call'.phase = "transfer" /\ call'.op = call.op /\ call'.lba = call.lba
        /\ call' # NoCall
    BY <1>1, GoneOn DEF Phases
<1>4. Return(call.data, FALSE) => call' = NoCall /\ answer' \in Answer /\ ~answer'.ok
    BY <1>1 DEF Return, Answer, Call
<1>5. AtaTypeOK'
    <2>1. attempts' \in 0..MaxAttempts
        <3>1. attempts \in 0..MaxAttempts /\ MaxAttempts \in Nat
            BY <1>1, AtaAssumption DEF AtaTypeOK
        <3>2. attempts' \in {attempts, 0} \/ (attempts' = attempts + 1 /\ attempts + 1 < MaxAttempts)
            BY <1>2
        <3> QED BY <3>1, <3>2
    <2>2. call' \in Call \union {NoCall} /\ answer' \in Answer \union {NoCall} /\ late' \in BOOLEAN
        BY <1>1, <1>2, <1>3, <1>4 DEF AtaTypeOK, GoesOn
    <2> QED BY <1>1, <2>1, <2>2 DEF AtaTypeOK
<1>6. CallsInv'
    <2>1. CASE call' = call
        BY <1>1, <1>2, <1>4, <1>5, <2>1 DEF CallsInv, storageVars, GoesOn
    <2>2. CASE call' # call
        BY <1>1, <1>2, <1>4, <1>5, <2>2, DriverCalls, NotACall DEF Phases
    <2> QED BY <2>1, <2>2
<1>7. ASSUME ~late' PROVE InStep' /\ AnswersAreTrue'
    <2>1. InStep /\ AnswersAreTrue
        BY <1>2, <1>7 DEF DriveInv
    <2>2. AnswersAreTrue'
        BY <1>1, <1>2, <1>4, <2>1 DEF AnswersAreTrue, GoesOn
    <2>3. InStep'
        BY <1>1, <1>2, <1>3, <1>4, <1>7, <2>1, NotACall DEF InStep, Ready, Quiet, Settling, Storing, OnDrive, OnMedium
    <2> QED BY <2>2, <2>3
<1> QED BY <1>6, <1>7 DEF DriveInv

LEMMA ReadWordsInv ==
    ASSUME DriveInv, ReadWords, UNCHANGED <<loaderVars, storageVars, stage>>
    PROVE  DriveInv'
<1> DEFINE has == drive.state = "data" /\ drive.command \in {"identify", "read"}
           read == IF has THEN drive.data ELSE "junk"
<1>1. /\ AtaTypeOK /\ CallsInv /\ call \in Call /\ call # NoCall /\ call.phase = "transfer"
      /\ call.op \in {"identify", "read"} /\ UNCHANGED <<cache, medium, late, masked, overtaken>>
      /\ attempts' = attempts
    BY DEF DriveInv, CallsInv, AtaTypeOK, ReadWords
<1>2. call' = NoCall /\ answer' = [op |-> call.op, lba |-> call.lba, data |-> read, ok |-> TRUE]
    BY DEF ReadWords, Return
<1>3. drive' = IF drive.state = "data" THEN [drive EXCEPT !.state = "idle"] ELSE drive
    BY DEF ReadWords
<1>4. read \in Contents /\ answer' \in Answer
    <2>1. read \in Contents
        BY <1>1, AtaAssumption DEF AtaTypeOK
    <2> HIDE DEF read
    <2> QED BY <1>1, <1>2, <2>1 DEF Answer, Call
<1>5. drive' \in [state : States, command : Commands, lba : Sectors, data : Contents]
    BY <1>1, <1>3 DEF AtaTypeOK, States
<1>6. present' \in BOOLEAN
    BY <1>1 DEF ReadWords, AtaTypeOK
<1>7. AtaTypeOK'
    BY <1>1, <1>2, <1>4, <1>5, <1>6 DEF AtaTypeOK
<1>8. CallsInv'
    BY <1>1, <1>2, <1>7, DriverCalls
<1>9. ASSUME ~late PROVE InStep' /\ AnswersAreTrue'
    <2>1. /\ drive.state = "data" /\ drive.command = call.op
          /\ call.op = "read" => drive.data = cache[call.lba]
        BY <1>1, <1>9 DEF DriveInv, InStep
    <2>2. drive'.state = "idle"
        BY <1>1, <1>3, <2>1 DEF AtaTypeOK
    <2>3. InStep'
        BY <1>2, <2>2 DEF InStep, Quiet
    <2>4. call.op = "read" => read = cache[call.lba]
        BY <1>1, <2>1
    <2>5. AnswersAreTrue'
        BY <1>1, <1>2, <2>4 DEF AnswersAreTrue
    <2> QED BY <2>3, <2>5
<1> QED BY <1>1, <1>8, <1>9 DEF DriveInv

LEMMA WriteWordsInv ==
    ASSUME DriveInv, WriteWords, UNCHANGED <<loaderVars, storageVars, stage>>
    PROVE  DriveInv'
<1>1. /\ AtaTypeOK /\ CallsInv /\ call \in Call /\ call # NoCall /\ call.phase = "transfer"
      /\ call.op = "write" /\ UNCHANGED <<cache, medium, late, masked, overtaken>>
      /\ attempts' = attempts /\ answer' = answer /\ present' = present
    BY DEF DriveInv, CallsInv, AtaTypeOK, WriteWords
<1>2. GoesOn("flush")
    BY DEF WriteWords, GoesOn
<1>3. /\ call' \in Call /\ call' # NoCall /\ call'.phase = "flush"
      /\ call'.op = call.op /\ call'.lba = call.lba /\ call'.data = call.data
    BY <1>1, <1>2, GoneOn DEF Phases
<1>4. drive' = IF drive.state = "data" /\ drive.command = "write"
               THEN [drive EXCEPT !.state = "busy", !.command = "store", !.data = call.data] ELSE drive
    BY DEF WriteWords
<1>5. drive' \in [state : States, command : Commands, lba : Sectors, data : Contents]
    <2>1. call.data \in Contents
        BY <1>1 DEF Call
    <2> QED BY <1>1, <1>4, <2>1 DEF AtaTypeOK, States, Commands
<1>6. AtaTypeOK'
    BY <1>1, <1>3, <1>5 DEF AtaTypeOK
<1>7. CallsInv'
    BY <1>1, <1>2, <1>6, DriverCalls DEF Phases
<1>8. ASSUME ~late PROVE InStep' /\ AnswersAreTrue'
    <2>1. drive.state = "data" /\ drive.command = "write" /\ drive.lba = call.lba
        BY <1>1, <1>8 DEF DriveInv, InStep
    <2>2. drive'.state = "busy" /\ drive'.command = "store" /\ drive'.lba = call.lba /\ drive'.data = call.data
        BY <1>1, <1>4, <2>1 DEF AtaTypeOK
    <2>3. InStep'
        BY <1>1, <1>3, <2>2 DEF InStep, Storing
    <2>4. AnswersAreTrue'
        BY <1>3, <1>7 DEF CallsInv, AnswersAreTrue
    <2> QED BY <2>3, <2>4
<1> QED BY <1>1, <1>7, <1>8 DEF DriveInv

LEMMA FlushInv ==
    ASSUME DriveInv, Flush, UNCHANGED <<loaderVars, storageVars, stage>>
    PROVE  DriveInv'
<1> DEFINE taken == [state |-> "busy", command |-> "flush", lba |-> call.lba, data |-> "junk"]
<1>1. /\ AtaTypeOK /\ CallsInv /\ call \in Call /\ call # NoCall /\ call.phase = "flush"
      /\ UNCHANGED <<cache, medium, late>> /\ masked' = (drive.state = "error") /\ overtaken' = (drive' = drive)
      /\ attempts' = 0 /\ answer' = answer /\ present' = present
    BY DEF DriveInv, CallsInv, AtaTypeOK, Flush
<1>2. GoesOn("settle")
    BY DEF Flush, GoesOn
<1>3. /\ call' \in Call /\ call' # NoCall /\ call'.phase = "settle"
      /\ call'.op = call.op /\ call'.lba = call.lba /\ call'.data = call.data
    BY <1>1, <1>2, GoneOn DEF Phases
<1>4. drive' \in {drive, taken} /\ (drive.state \in {"idle", "error"} => drive' = taken)
      /\ (drive.state \notin {"idle", "error", "data"} => drive' = drive)
    BY DEF Flush, Commanded
<1>5. drive' \in [state : States, command : Commands, lba : Sectors, data : Contents]
    <2>1. call.lba \in Sectors /\ "junk" \in Contents
        BY <1>1, AtaAssumption DEF Call
    <2>2. taken \in [state : States, command : Commands, lba : Sectors, data : Contents]
        BY <2>1 DEF States, Commands
    <2> QED BY <1>1, <1>4, <2>2 DEF AtaTypeOK
<1>6. AtaTypeOK'
    <2>1. attempts' \in 0..MaxAttempts
        BY <1>1, AtaAssumption
    <2>2. masked' \in BOOLEAN /\ overtaken' \in BOOLEAN
        BY <1>1, Zenon
    <2> QED BY <1>1, <1>3, <1>5, <2>1, <2>2 DEF AtaTypeOK
<1>7. CallsInv'
    BY <1>1, <1>2, <1>6, DriverCalls DEF Phases
<1>8. ASSUME ~late PROVE InStep' /\ AnswersAreTrue'
    <2>1. drive.state \in {"busy", "idle", "error"} /\ call.op = "write" /\ Storing
        BY <1>1, <1>8 DEF DriveInv, InStep
    <2>2. Settling'
        <3>1. CASE drive.state = "busy"
            <4>1. drive' = drive
                BY <1>4, <3>1
            <4>2. overtaken'
                BY <1>1, <4>1
            <4>3. Storing' /\ drive'.command = "store"
                BY <1>1, <1>3, <2>1, <3>1, <4>1 DEF Storing
            <4> QED BY <4>2, <4>3 DEF Settling
        <3>2. CASE drive.state \in {"idle", "error"}
            <4>1. drive'.state = "busy" /\ drive'.command = "flush"
                BY <1>4, <3>2
            <4>2. OnDrive' \/ masked'
                BY <1>1, <1>3, <2>1, <3>2 DEF Storing, OnDrive
            <4> QED BY <4>1, <4>2 DEF Settling
        <3> QED BY <2>1, <3>1, <3>2
    <2>3. drive'.state \in {"busy", "idle", "error"}
        BY <1>4, <2>1
    <2> QED BY <1>3, <1>1, <2>1, <2>2, <2>3, <1>7 DEF InStep, CallsInv, AnswersAreTrue
<1> QED BY <1>1, <1>7, <1>8 DEF DriveInv

LEMMA SettleInv ==
    ASSUME DriveInv, Settle, UNCHANGED <<loaderVars, storageVars, stage>>
    PROVE  DriveInv'
<1>1. /\ AtaTypeOK /\ CallsInv /\ call \in Call /\ call # NoCall /\ call.phase = "settle"
      /\ UNCHANGED <<drive, cache, medium, present, masked, overtaken>>
    BY DEF DriveInv, CallsInv, AtaTypeOK, Settle
<1>2. \/ Return(call.data, FALSE) /\ attempts' = attempts /\ late' = late /\ drive.state \in {"absent", "error"}
      \/ Ready(FALSE) /\ Return(call.data, TRUE) /\ attempts' = 0 /\ late' = late
      \/ call' = call /\ answer' = answer /\ late' = late /\ attempts' = attempts + 1 /\ attempts + 1 < MaxAttempts
      \/ Return(call.data, FALSE) /\ attempts' = 0 /\ late' = TRUE
    <2>1. Poll(FALSE, Return(call.data, TRUE))
        BY DEF Settle
    <2> QED BY <2>1, PollDoes
<1>3. Return(call.data, TRUE) =>
         /\ call' = NoCall /\ answer' \in Answer
         /\ answer'.op = call.op /\ answer'.lba = call.lba /\ answer'.data = call.data
    BY <1>1 DEF Return, Answer, Call
<1>4. Return(call.data, FALSE) => call' = NoCall /\ answer' \in Answer /\ ~answer'.ok
    BY <1>1 DEF Return, Answer, Call
<1>5. AtaTypeOK'
    <2>1. attempts' \in 0..MaxAttempts
        <3>1. attempts \in 0..MaxAttempts /\ MaxAttempts \in Nat
            BY <1>1, AtaAssumption DEF AtaTypeOK
        <3>2. attempts' \in {attempts, 0} \/ (attempts' = attempts + 1 /\ attempts + 1 < MaxAttempts)
            BY <1>2
        <3> QED BY <3>1, <3>2
    <2>2. call' \in Call \union {NoCall} /\ answer' \in Answer \union {NoCall} /\ late' \in BOOLEAN
        BY <1>1, <1>2, <1>3, <1>4 DEF AtaTypeOK
    <2> QED BY <1>1, <2>1, <2>2 DEF AtaTypeOK
<1>6. CallsInv'
    <2>1. CASE call' = call /\ answer' = answer
        BY <1>1, <1>5, <2>1 DEF CallsInv, storageVars
    <2>2. CASE call' = NoCall
        BY <1>1, <1>5, <2>2, DriverCalls
    <2> QED BY <1>2, <1>3, <1>4, <2>1, <2>2
<1>7. ASSUME ~late' PROVE InStep' /\ AnswersAreTrue'
    <2>1. InStep /\ AnswersAreTrue /\ late' = late
        BY <1>2, <1>7, <1>1 DEF DriveInv, AtaTypeOK
    <2>2. /\ call.op = "write" /\ drive.state \in {"busy", "idle", "error"}
          /\ Settling
        BY <1>1, <2>1 DEF InStep
    <2>3. CASE call' = call /\ answer' = answer
        BY <1>1, <2>1, <2>3 DEF InStep, Quiet, Settling, Storing, OnDrive, OnMedium, AnswersAreTrue
    <2>4. CASE Return(call.data, FALSE) /\ drive.state \in {"absent", "error"}
        BY <1>1, <1>4, <2>4 DEF InStep, Quiet, AnswersAreTrue
    <2>5. CASE Ready(FALSE) /\ Return(call.data, TRUE)
        <3>1. drive.state = "idle" /\ (masked \/ (OnDrive /\ (OnMedium \/ overtaken)))
            BY <2>2, <2>5 DEF Ready, Settling, Storing
        <3>2. call' = NoCall /\ answer'.op = "write" /\ answer'.lba = call.lba /\ answer'.data = call.data
            BY <1>3, <2>2, <2>5
        <3> QED BY <1>1, <3>1, <3>2 DEF InStep, Quiet, AnswersAreTrue, OnDrive, OnMedium
    <2> QED BY <1>2, <1>7, <2>3, <2>4, <2>5
<1> QED BY <1>6, <1>7 DEF DriveInv

LEMMA DriverInv ==
    ASSUME DriveInv, DriverStep \/ DriveStep \/ DriveWritesBack, UNCHANGED <<loaderVars, storageVars, stage>>
    PROVE  DriveInv'
BY DriveStepInv, DriveWritesBackInv, IssueInv, WaitInv, ReadWordsInv, WriteWordsInv, FlushInv, SettleInv DEF DriverStep

(* A call begins on a quiet drive.                                           *)
LEMMA BeginInv ==
    ASSUME DriveInv, NEW op \in {"identify", "read", "write"}, NEW lba \in Sectors, NEW data \in Contents,
           Begin(op, lba, data), UNCHANGED <<drive, cache, medium, attempts, present, late, masked, overtaken>>
    PROVE  /\ AtaTypeOK' /\ answer' = NoCall
           /\ call' \in Call /\ call' # NoCall /\ call'.op = op /\ call'.lba = lba
           /\ ~late => InStep' /\ AnswersAreTrue'
<1>1. /\ AtaTypeOK /\ CallsInv /\ call = NoCall /\ answer' = NoCall
      /\ call' = [op |-> op, lba |-> lba, data |-> data, phase |-> "issue"]
    BY DEF DriveInv, CallsInv, Begin
<1>2. call' \in Call /\ call' # NoCall /\ call'.op = op /\ call'.lba = lba /\ call'.phase = "issue"
    BY <1>1, NotACall DEF Call, Phases
<1>3. AtaTypeOK'
    BY <1>1, <1>2 DEF AtaTypeOK
<1>4. ASSUME ~late PROVE InStep' /\ AnswersAreTrue'
    BY <1>1, <1>2, <1>4 DEF DriveInv, InStep, Quiet, AnswersAreTrue
<1> QED BY <1>1, <1>2, <1>3, <1>4

LEMMA LiveAnswer ==
    ASSUME NEW lba \in Sectors, live \in [Sectors -> Contents]
    PROVE  [op |-> "live", lba |-> lba, data |-> live[lba], ok |-> TRUE] \in Answer
BY DEF Answer

(* So does a sector's read, or it is answered by the image.                  *)
LEMMA BlockReadInv ==
    ASSUME DriveInv, call = NoCall, NEW device, NEW lba \in Sectors, block_read(device, lba),
           device = "live" => live # NoImage,
           UNCHANGED <<drive, cache, medium, attempts, present, late, masked, overtaken, live>>
    PROVE  /\ AtaTypeOK'
           /\ ~late => InStep' /\ AnswersAreTrue'
           /\ IF device = "live"
              THEN /\ call' = NoCall /\ answer'.op = "live" /\ answer'.lba = lba
                   /\ answer'.ok /\ answer'.data = live[lba]
              ELSE call' # NoCall /\ answer' = NoCall /\ call'.op = "read" /\ call'.lba = lba
<1>1. CASE device = "live"
    <2>1. call' = NoCall /\ answer' = [op |-> "live", lba |-> lba, data |-> live[lba], ok |-> TRUE]
        BY <1>1 DEF block_read
    <2>2. answer' \in Answer
        BY <1>1, <2>1, LiveAnswer DEF DriveInv, CallsInv
    <2>3. answer'.op = "live" /\ answer'.lba = lba /\ answer'.ok /\ answer'.data = live[lba]
        BY <2>1
    <2>4. AtaTypeOK'
        BY <2>1, <2>2 DEF DriveInv, CallsInv, AtaTypeOK
    <2>5. ~late => InStep' /\ AnswersAreTrue'
        BY <2>1 DEF DriveInv, InStep, Quiet, AnswersAreTrue
    <2> QED BY <1>1, <2>1, <2>3, <2>4, <2>5
<1>2. CASE device # "live"
    <2>1. Begin("read", lba, "junk") /\ "junk" \in Contents
        BY <1>2, AtaAssumption DEF block_read
    <2> QED BY <1>2, <2>1, BeginInv
<1> QED BY <1>1, <1>2

-----------------------------------------------------------------------------
(* Between power-on and the first system call.                               *)
LEMMA StartInv ==
    ASSUME DriveInv, StorageInitialize \/ InLoader(LoaderStep \/ FirmwareChanges)
                     \/ TaskBootstrap \/ Create \/ ConfigureSyscalls \/ TimerInterrupt \/ RunSession
    PROVE  DriveInv'
<1>1. CASE StorageInitialize
    <2>1. Begin("identify", "boot", "junk") /\ UNCHANGED <<drive, cache, medium, attempts, present, late, masked, overtaken>>
        BY <1>1 DEF StorageInitialize
    <2>2. "boot" \in Sectors /\ "junk" \in Contents /\ LiveVolumes \subseteq [Sectors -> Contents]
        BY AtaAssumption, StorageAssumption
    <2>3. /\ AtaTypeOK' /\ answer' = NoCall /\ call' # NoCall /\ call'.op = "identify"
          /\ ~late => InStep' /\ AnswersAreTrue'
        BY <2>1, <2>2, BeginInv
    <2>4. /\ stage = "loader" /\ stage' = "drives" /\ UNCHANGED <<mount, probing, active_drive, late>>
          /\ live' \in LiveVolumes \/ live' = live
        BY <1>1 DEF StorageInitialize
    <2>5. CallsInv'
        BY <2>2, <2>3, <2>4 DEF DriveInv, CallsInv, Stages
    <2> QED BY <2>3, <2>4, <2>5 DEF DriveInv
<1>2. CASE TaskBootstrap \/ Create \/ ConfigureSyscalls \/ TimerInterrupt \/ RunSession
    <2>1. /\ UNCHANGED <<ataVars, storageVars>> /\ stage # "loader"
          /\ stage \in {"drives", "tasks", "timer"}
          /\ stage' \in {"tasks", "timer", "running", "halted"}
          /\ stage = "drives" => answer # NoCall
        BY <1>2 DEF TaskBootstrap, Create, ConfigureSyscalls, TimerInterrupt, RunSession
    <2>2. call = NoCall /\ probing = "untried" /\ mount = NoMount /\ active_drive = ""
        BY <2>1 DEF DriveInv, CallsInv
    <2>3. CallsInv'
        BY <2>1, <2>2 DEF DriveInv, CallsInv, AtaTypeOK, ataVars, storageVars, Stages
    <2>4. UNCHANGED <<drive, cache, medium, call, attempts, present, answer, late, masked, overtaken>>
        BY <2>1 DEF ataVars
    <2>5. AtaTypeOK'
        BY <2>4 DEF DriveInv, CallsInv, AtaTypeOK
    <2>6. ASSUME ~late PROVE InStep' /\ AnswersAreTrue'
        <3>1. InStep /\ AnswersAreTrue
            BY <2>6 DEF DriveInv
        <3>2. InStep'
            BY <3>1, <2>4 DEF InStep, Quiet, Settling, Storing, OnDrive, OnMedium
        <3>3. AnswersAreTrue'
            BY <3>1, <2>4 DEF AnswersAreTrue
        <3> QED BY <3>2, <3>3
    <2>7. late' = late
        BY <2>4
    <2> QED BY <2>3, <2>6, <2>7 DEF DriveInv
<1>3. CASE InLoader(LoaderStep \/ FirmwareChanges)
    <2>1. UNCHANGED ataVars /\ UNCHANGED storageVars /\ UNCHANGED stage
        BY <1>3 DEF InLoader, startVars
    <2>2. /\ UNCHANGED <<drive, cache, medium, call, attempts, present, answer, late, masked, overtaken>>
          /\ UNCHANGED <<live, mount, probing, active_drive>>
        BY <2>1 DEF ataVars, storageVars
    <2>3. CallsInv'
        BY <2>1, <2>2 DEF DriveInv, CallsInv, AtaTypeOK
    <2>4. ASSUME ~late PROVE InStep' /\ AnswersAreTrue'
        <3>1. InStep /\ AnswersAreTrue
            BY <2>4 DEF DriveInv
        <3>2. InStep'
            BY <3>1, <2>2 DEF InStep, Quiet, Settling, Storing, OnDrive, OnMedium
        <3>3. AnswersAreTrue'
            BY <3>1, <2>2 DEF AnswersAreTrue
        <3> QED BY <3>2, <3>3
    <2>5. late' = late
        BY <2>2
    <2> QED BY <2>3, <2>4, <2>5 DEF DriveInv
<1> QED BY <1>1, <1>2, <1>3

-----------------------------------------------------------------------------
(* What the probe has learned of the volume it looks at.                     *)
Volume == IF mount.device = "live" THEN live ELSE cache

Asked ==
    /\ mount.device \in {"live", "disk0"} /\ (mount.device = "live" <=> live # NoImage)
    /\ stage = "running"
    /\ probing # "done" => mount.kind = "unknown" /\ active_drive = ""
    /\ probing # "done" /\ call # NoCall => mount.device # "live" /\ call.op = "read" /\ call.lba = probing
    /\ probing # "done" /\ answer # NoCall =>
          /\ answer.lba = probing
          /\ IF mount.device = "live" THEN answer.ok /\ answer.data = live[probing] ELSE answer.op = "read"

Learned ==
    /\ probing = "boot" /\ ~failed => KindOfVolume(Volume["volume"]) = "unknown"
    /\ probing = "done" =>
          /\ ~failed => mount.kind = KindOn(Volume)
          /\ mount.kind \in {"QFS1", "QFS2"} => mount.kind = KindOn(Volume)

MountInv ==
    /\ mount \in [device : Devices, kind : Kinds, read_only : BOOLEAN]
    /\ probing \in {"untried", "volume", "boot", "done"} /\ failed \in BOOLEAN
    /\ probing = "untried" => mount = NoMount
    /\ probing # "untried" => Asked
    /\ probing = "untried" /\ active_drive # "" => quanta_storage_boot_device = "none"
    /\ probing \in {"boot", "volume", "done"} /\ ~late => Learned
    /\ probing = "done" /\ mount.kind = "QFS2" =>
          /\ mount.read_only <=> mount.device = "live"
          /\ active_drive # "" => active_drive = DriveName

StorageInv == DriveInv /\ MountInv

LEMMA KindsOfData ==
    ASSUME NEW data
    PROVE  /\ KindOfVolume(data) \in {"QFS1", "QFS2", "unknown"}
           /\ KindOfBoot(data) \in {"FAT", "VFAT", "unknown"}
BY DEF KindOfVolume, KindOfBoot

(* The three sectors the mount and the file system name.                     *)
LEMMA ThreeSectors == {"boot", "volume", "data"} \subseteq Sectors
BY StorageAssumption

(* Only files' sectors are written, and only while a call is under way.      *)
LEMMA ProbedSectorsKeep ==
    ASSUME DriveInv, ~late, DriverStep \/ DriveStep \/ DriveWritesBack
    PROVE  /\ \A s \in Sectors : cache'[s] # cache[s] =>
                  call # NoCall /\ call.op = "write" /\ call.lba = s /\ call.data = cache'[s]
           /\ cache'["volume"] = cache["volume"] /\ cache'["boot"] = cache["boot"]
<1>1. AtaTypeOK /\ InStep /\ cache \in [Sectors -> Contents]
    BY DEF DriveInv, CallsInv, AtaTypeOK
<1>2. CASE cache' = cache
    BY <1>2
<1>3. CASE cache' # cache
    <2>1. /\ drive.state = "busy" /\ drive.command = "store"
          /\ cache' = [cache EXCEPT ![drive.lba] = drive.data]
        BY <1>3 DEF DriverStep, Issue, Wait, ReadWords, WriteWords, Flush, Settle, DriveStep, DriveHas,
            DriveWritesBack, Stored
    <2>2. call # NoCall /\ call \in Call
        BY <1>1, <2>1 DEF InStep, Quiet, AtaTypeOK
    <2>3. call.phase \in {"flush", "settle"}
        BY <1>1, <2>1, <2>2 DEF InStep, Quiet, Call, Phases
    <2>4. call.op = "write" /\ Storing
        BY <1>1, <2>1, <2>2, <2>3 DEF InStep, Settling
    <2>5. drive.lba = call.lba /\ drive.data = call.data /\ call.lba \in Sectors
        BY <2>2, <2>4 DEF Storing, Call
    <2>6. \A s \in Sectors : cache'[s] = IF s = call.lba THEN call.data ELSE cache[s]
        BY <1>1, <2>1, <2>5
    <2>7. call.lba = "data"
        BY <2>2, <2>4 DEF DriveInv, CallsInv
    <2> QED BY <2>2, <2>4, <2>6, <2>7, ThreeSectors
<1> QED BY <1>2, <1>3

(* A step of the driver or the drive leaves the call and its answer alone,   *)
(* goes on with the call, or answers it.                                     *)
LEMMA CallAndAnswer ==
    ASSUME CallsInv, DriverStep \/ DriveStep \/ DriveWritesBack
    PROVE  \/ call' = call /\ answer' = answer
           \/ /\ call # NoCall /\ call' # NoCall /\ answer' = answer
              /\ call'.op = call.op /\ call'.lba = call.lba
           \/ call # NoCall /\ call' = NoCall /\ answer'.op = call.op /\ answer'.lba = call.lba
<1>1. call \in Call \union {NoCall}
    BY DEF CallsInv, AtaTypeOK
<1>2. ASSUME NEW phase \in Phases, call # NoCall, GoesOn(phase)
      PROVE  /\ call # NoCall /\ call' # NoCall /\ answer' = answer
             /\ call'.op = call.op /\ call'.lba = call.lba
    <2>1. call \in Call
        BY <1>1, <1>2
    <2> QED BY <1>2, <2>1, GoneOn DEF GoesOn
<1>3. ASSUME NEW data, NEW ok, Return(data, ok)
      PROVE  call' = NoCall /\ answer'.op = call.op /\ answer'.lba = call.lba
    BY <1>3 DEF Return
<1>4. CASE Issue
    <2>1. call # NoCall /\ GoesOn("wait")
        BY <1>4 DEF Issue, GoesOn
    <2> QED BY <1>2, <2>1 DEF Phases
<1>5. CASE Wait
    <2>1. call # NoCall /\ Poll(TRUE, GoesOn("transfer"))
        BY <1>5 DEF Wait, Poll, GoesOn
    <2> QED BY <1>2, <1>3, <2>1, PollDoes DEF Phases
<1>6. CASE ReadWords
    <2>1. call # NoCall /\ \E data : Return(data, TRUE)
        BY <1>6 DEF ReadWords
    <2> QED BY <1>3, <2>1
<1>7. CASE WriteWords
    <2>1. call # NoCall /\ GoesOn("flush")
        BY <1>7 DEF WriteWords, GoesOn
    <2> QED BY <1>2, <2>1 DEF Phases
<1>8. CASE Flush
    <2>1. call # NoCall /\ GoesOn("settle")
        BY <1>8 DEF Flush, GoesOn
    <2> QED BY <1>2, <2>1 DEF Phases
<1>9. CASE Settle
    <2>1. call # NoCall /\ Poll(FALSE, Return(call.data, TRUE))
        BY <1>9 DEF Settle
    <2> QED BY <1>3, <2>1, PollDoes
<1>10. CASE DriveStep \/ DriveWritesBack
    BY <1>10 DEF DriveStep, DriveWritesBack
<1> QED BY <1>4, <1>5, <1>6, <1>7, <1>8, <1>9, <1>10 DEF DriverStep

(* While a call of the driver runs the mount is left alone.                  *)
LEMMA DriverMountInv ==
    ASSUME StorageInv, DriverStep \/ DriveStep \/ DriveWritesBack, UNCHANGED <<loaderVars, storageVars, stage>>
    PROVE  StorageInv'
<1>1. DriveInv'
    BY DriverInv DEF StorageInv
<1>2. UNCHANGED <<live, mount, probing, failed, active_drive, stage>>
    BY DEF storageVars
<1>3. ~late' => ~late
    <2>1. late' = late \/ late' = TRUE
        BY PollDoes DEF DriverStep, Issue, Wait, ReadWords, WriteWords, Flush, Settle, DriveStep,
            DriveWritesBack, Poll
    <2> QED BY <2>1
<1>4. stage = "running" => present' = present
    BY DEF StorageInv, DriveInv, CallsInv, AtaTypeOK, DriverStep, Issue, Wait, ReadWords, WriteWords, Flush, Settle,
        DriveStep, DriveWritesBack
<1>5. ASSUME Asked PROVE Asked'
    <2>1. CallsInv
        BY DEF StorageInv, DriveInv
    <2>2. CASE call' = call /\ answer' = answer
        BY <1>2, <1>5, <2>2 DEF Asked
    <2>3. CASE /\ call # NoCall /\ call' # NoCall /\ answer' = answer
               /\ call'.op = call.op /\ call'.lba = call.lba
        BY <1>2, <1>5, <2>3 DEF Asked
    <2>4. CASE call # NoCall /\ call' = NoCall /\ answer'.op = call.op /\ answer'.lba = call.lba
        BY <1>2, <1>5, <2>4 DEF Asked
    <2> QED BY <2>1, <2>2, <2>3, <2>4, CallAndAnswer
<1>6. ASSUME ~late', Learned PROVE Learned'
    <2>1. cache'["volume"] = cache["volume"] /\ cache'["boot"] = cache["boot"]
        BY <1>3, <1>6, ProbedSectorsKeep DEF StorageInv
    <2>2. Volume'["volume"] = Volume["volume"] /\ Volume'["boot"] = Volume["boot"]
        BY <1>2, <2>1 DEF Volume
    <2> QED BY <1>2, <1>6, <2>2 DEF Learned, KindOn
<1>7. active_drive # "" => quanta_storage_boot_device' = quanta_storage_boot_device
    <2>1. active_drive # "" => stage = "running"
        BY DEF StorageInv, DriveInv, CallsInv
    <2>2. present' = present /\ live' = live => quanta_storage_boot_device' = quanta_storage_boot_device
        <3>1. CASE live # NoImage
            BY <3>1 DEF quanta_storage_boot_device
        <3>2. CASE live = NoImage /\ present
            BY <3>2 DEF quanta_storage_boot_device
        <3>3. CASE live = NoImage /\ ~present
            BY <3>3 DEF quanta_storage_boot_device
        <3> QED BY <3>1, <3>2, <3>3
    <2> QED BY <1>2, <1>4, <2>1, <2>2
<1>8. MountInv'
    <2>1. MountInv
        BY DEF StorageInv
    <2>2. probing' # "untried" => Asked'
        BY <1>2, <1>5, <2>1 DEF MountInv
    <2>3. probing' \in {"boot", "volume", "done"} /\ ~late' => Learned'
        BY <1>2, <1>3, <1>6, <2>1 DEF MountInv
    <2>4. probing' = "untried" /\ active_drive' # "" => quanta_storage_boot_device' = "none"
        BY <1>2, <1>7, <2>1 DEF MountInv
    <2>5. DriveName' = DriveName
        BY <1>2 DEF DriveName
    <2> QED BY <1>2, <2>1, <2>2, <2>3, <2>4, <2>5 DEF MountInv
<1> QED BY <1>1, <1>8 DEF StorageInv

LEMMA MountBeginsInv ==
    ASSUME StorageInv, stage = "running", MountBegins, UNCHANGED <<loaderVars, stage>>
    PROVE  StorageInv'
<1> DEFINE device == quanta_storage_boot_device
<1>1. /\ DriveInv /\ MountInv /\ CallsInv /\ probing = "untried" /\ device # "none" /\ call = NoCall
      /\ mount = NoMount /\ active_drive = ""
    BY DEF StorageInv, DriveInv, CallsInv, MountInv, MountBegins
<1>2. /\ mount' = [mount EXCEPT !.device = device] /\ probing' = "volume"
      /\ block_read(device, "volume")
      /\ UNCHANGED <<drive, cache, medium, attempts, present, late, masked, overtaken, live, failed, active_drive, stage>>
    BY DEF MountBegins
<1>3. device \in {"live", "disk0"} /\ (device = "live" <=> live # NoImage)
    BY <1>1 DEF quanta_storage_boot_device
<1>4. mount' = [device |-> device, kind |-> "unknown", read_only |-> FALSE]
    BY <1>1, <1>2 DEF NoMount
<1> HIDE DEF device
<1>5. /\ AtaTypeOK'
      /\ ~late => InStep' /\ AnswersAreTrue'
      /\ IF device = "live"
         THEN /\ call' = NoCall /\ answer'.op = "live" /\ answer'.lba = "volume"
              /\ answer'.ok /\ answer'.data = live["volume"]
         ELSE call' # NoCall /\ answer' = NoCall /\ call'.op = "read" /\ call'.lba = "volume"
    BY <1>1, <1>2, <1>3, BlockReadInv, ThreeSectors
<1>6. CallsInv'
    BY <1>1, <1>2, <1>5 DEF CallsInv
<1>7. Asked'
    <2>1. mount'.device = device /\ mount'.kind = "unknown"
        BY <1>4
    <2>2. CASE device = "live"
        BY <1>1, <1>2, <1>3, <1>5, <2>1, <2>2 DEF Asked
    <2>3. CASE device # "live"
        BY <1>1, <1>2, <1>3, <1>5, <2>1, <2>3 DEF Asked
    <2> QED BY <2>2, <2>3
<1>8. MountInv'
    <2>1. mount' \in [device : Devices, kind : Kinds, read_only : BOOLEAN] /\ failed' \in BOOLEAN
        BY <1>1, <1>2, <1>3, <1>4 DEF MountInv, Devices, Kinds
    <2>2. Learned'
        BY <1>2 DEF Learned
    <2> QED BY <1>2, <1>7, <2>1, <2>2 DEF MountInv
<1> QED BY <1>2, <1>5, <1>6, <1>8 DEF StorageInv, DriveInv

(* What a read of the probe says is what the device holds.                   *)
LEMMA ProbeSees ==
    ASSUME StorageInv, probing \in {"volume", "boot"}, answer # NoCall, answer.ok, ~late
    PROVE  answer.data = Volume[probing]
<1>1. Asked /\ AnswersAreTrue
    BY DEF StorageInv, MountInv, DriveInv
<1> QED BY <1>1 DEF Asked, AnswersAreTrue, Volume

LEMMA MountedMakes ==
    ASSUME mount.device \in {"live", "disk0"}, NEW kind \in Kinds, Mounted(kind),
           mount \in [device : Devices, kind : Kinds, read_only : BOOLEAN]
    PROVE  /\ mount' \in [device : Devices, kind : Kinds, read_only : BOOLEAN]
           /\ mount'.device = mount.device /\ mount'.kind = kind /\ probing' = "done"
           /\ kind = "QFS2" => (mount'.read_only <=> mount.device = "live")
<1>1. /\ mount' = [mount EXCEPT !.kind = kind,
                                !.read_only = kind = "QFS1" \/ (kind = "QFS2" /\ mount.device = "live")]
      /\ probing' = "done"
    BY DEF Mounted
<1> QED BY <1>1

LEMMA ProbeInv ==
    ASSUME StorageInv, stage = "running", ProbeVolume \/ ProbeBoot, UNCHANGED <<loaderVars, stage>>
    PROVE  StorageInv'
<1>1. /\ DriveInv /\ MountInv /\ CallsInv /\ Asked /\ answer # NoCall /\ call = NoCall
      /\ probing \in {"volume", "boot"} /\ active_drive = ""
      /\ mount \in [device : Devices, kind : Kinds, read_only : BOOLEAN]
    BY DEF StorageInv, DriveInv, CallsInv, MountInv, Asked, ProbeVolume, ProbeBoot
<1>2. /\ UNCHANGED <<drive, cache, medium, attempts, present, late, masked, overtaken, live, active_drive, stage>>
      /\ failed' = (failed \/ ~answer.ok)
    BY DEF ProbeVolume, ProbeBoot
<1>3. failed' \in BOOLEAN
    BY <1>1, <1>2, Zenon DEF MountInv
<1>4. ~failed' => ~failed /\ answer.ok
    BY <1>2
<1>5. CASE probing = "volume" /\ ~(answer.ok /\ KindOfVolume(answer.data) # "unknown")
    <2>1. block_read(mount.device, "boot") /\ probing' = "boot" /\ mount' = mount
        BY <1>5 DEF ProbeVolume, ProbeBoot
    <2>2. mount.device = "live" => live # NoImage
        BY <1>1 DEF Asked
    <2>3. /\ AtaTypeOK'
          /\ ~late => InStep' /\ AnswersAreTrue'
          /\ IF mount.device = "live"
             THEN /\ call' = NoCall /\ answer'.op = "live" /\ answer'.lba = "boot"
                  /\ answer'.ok /\ answer'.data = live["boot"]
             ELSE call' # NoCall /\ answer' = NoCall /\ call'.op = "read" /\ call'.lba = "boot"
        BY <1>1, <1>2, <2>1, <2>2, BlockReadInv, ThreeSectors
    <2>4. CallsInv'
        BY <1>1, <1>2, <2>1, <2>3 DEF CallsInv
    <2>5. Asked'
        BY <1>1, <1>2, <1>5, <2>1, <2>3 DEF Asked
    <2>6. ~late' => Learned'
        <3> SUFFICES ASSUME ~late', ~failed' PROVE KindOfVolume(Volume'["volume"]) = "unknown"
            BY <2>1 DEF Learned
        <3>1. answer.data = Volume["volume"]
            BY <1>1, <1>2, <1>4, <1>5, ProbeSees
        <3>2. Volume' = Volume
            BY <1>2, <2>1 DEF Volume
        <3> QED BY <1>4, <1>5, <3>1, <3>2
    <2>7. MountInv'
        BY <1>1, <1>2, <1>3, <2>1, <2>5, <2>6 DEF MountInv
    <2> QED BY <1>2, <2>3, <2>4, <2>7 DEF StorageInv, DriveInv
<1>6. CASE ~(probing = "volume" /\ ~(answer.ok /\ KindOfVolume(answer.data) # "unknown"))
    <2> DEFINE kind == IF probing = "volume" THEN KindOfVolume(answer.data)
                       ELSE IF answer.ok THEN KindOfBoot(answer.data) ELSE "unknown"
    <2>1. Mounted(kind) /\ call' = call /\ answer' = answer
        BY <1>6 DEF ProbeVolume, ProbeBoot
    <2>2. kind \in Kinds
        BY KindsOfData DEF Kinds
    <2>3. probing = "boot" => kind \notin {"QFS1", "QFS2"}
        BY KindsOfData
    <2>4. probing = "volume" => answer.ok /\ kind = KindOfVolume(answer.data) /\ kind # "unknown"
        BY <1>6
    <2>5. probing = "boot" /\ answer.ok => kind = KindOfBoot(answer.data)
        OBVIOUS
    <2> HIDE DEF kind
    <2>6. /\ mount' \in [device : Devices, kind : Kinds, read_only : BOOLEAN]
          /\ mount'.device = mount.device /\ mount'.kind = kind /\ probing' = "done"
          /\ kind = "QFS2" => (mount'.read_only <=> mount.device = "live")
        BY <1>1, <2>1, <2>2, MountedMakes DEF Asked
    <2>7. Volume' = Volume
        BY <1>2, <2>6 DEF Volume
    <2>8. ~late' => Learned'
        <3> SUFFICES ASSUME ~late PROVE /\ ~failed' => kind = KindOn(Volume)
                                        /\ kind \in {"QFS1", "QFS2"} => kind = KindOn(Volume)
            BY <1>2, <2>6, <2>7 DEF Learned
        <3>1. probing = "volume" => kind = KindOn(Volume)
            BY <1>1, <2>4, ProbeSees DEF KindOn
        <3>2. probing = "boot" /\ ~failed' => kind = KindOn(Volume)
            <4> SUFFICES ASSUME probing = "boot", ~failed' PROVE kind = KindOn(Volume)
                OBVIOUS
            <4>1. Learned
                BY <1>1, <1>2 DEF MountInv
            <4>2. KindOfVolume(Volume["volume"]) = "unknown"
                BY <1>4, <4>1 DEF Learned
            <4>3. answer.data = Volume["boot"]
                BY <1>1, <1>4, ProbeSees
            <4> QED BY <1>4, <2>5, <4>2, <4>3 DEF KindOn
        <3> QED BY <1>1, <2>3, <3>1, <3>2
    <2>9. CallsInv'
        BY <1>1, <1>2, <2>1, <2>6 DEF CallsInv, AtaTypeOK
    <2>10. ~late' => InStep' /\ AnswersAreTrue'
        BY <1>1, <1>2, <2>1 DEF DriveInv, InStep, Quiet, Settling, Storing, OnDrive, OnMedium, AnswersAreTrue
    <2>11. Asked'
        BY <1>1, <1>2, <2>6 DEF Asked
    <2>12. MountInv'
        BY <1>1, <1>2, <1>3, <2>6, <2>8, <2>11 DEF MountInv
    <2> QED BY <2>9, <2>10, <2>12 DEF StorageInv, DriveInv
<1> QED BY <1>5, <1>6

LEMMA SelectInv ==
    ASSUME StorageInv, stage = "running", SelectBootDrive, UNCHANGED <<loaderVars, stage>>
    PROVE  StorageInv'
<1>1. /\ Tried /\ active_drive' = IF mount.read_only THEN "live" ELSE "prime"
      /\ UNCHANGED <<ataVars, live, mount, probing, failed, stage>>
    BY DEF SelectBootDrive
<1>2. DriveInv'
    BY <1>1 DEF StorageInv, DriveInv, CallsInv, AtaTypeOK, InStep, Quiet, Settling, Storing, OnDrive, OnMedium, AnswersAreTrue, ataVars
<1>3. MountInv
    BY DEF StorageInv
<1>4. probing = "done" \/ (probing = "untried" /\ quanta_storage_boot_device' = "none")
    BY <1>1 DEF Tried, ataVars, quanta_storage_boot_device
<1>5. probing = "done" => Asked'
    BY <1>1, <1>3 DEF MountInv, Asked
<1>6. probing = "done" /\ ~late' => Learned'
    BY <1>1, <1>3 DEF MountInv, Learned, Volume, ataVars
<1>7. probing = "done" /\ mount.kind = "QFS2" => active_drive' = DriveName'
    BY <1>1, <1>3 DEF MountInv, DriveName
<1>8. MountInv'
    BY <1>1, <1>3, <1>4, <1>5, <1>6, <1>7 DEF MountInv
<1> QED BY <1>2, <1>8 DEF StorageInv

LEMMA ServeInv ==
    ASSUME StorageInv, stage = "running", Serve, UNCHANGED <<loaderVars, stage>>
    PROVE  StorageInv'
<1>1. /\ DriveInv /\ MountInv /\ CallsInv /\ Asked /\ call = NoCall /\ probing = "done"
      /\ UNCHANGED <<drive, cache, medium, attempts, present, late, masked, overtaken, live, mount, probing, failed, active_drive, stage>>
    BY DEF StorageInv, DriveInv, MountInv, Serve
<1>2. /\ AtaTypeOK'
      /\ answer' # NoCall => call' = NoCall
      /\ ~late => InStep' /\ AnswersAreTrue'
      /\ call' # NoCall => call'.op \in {"read", "write"} /\ call'.lba = "data"
    <2>1. CASE block_read(mount.device, "data")
        <3>1. mount.device = "live" => live # NoImage
            BY <1>1 DEF Asked
        <3> QED BY <1>1, <2>1, <3>1, BlockReadInv, ThreeSectors
    <2>2. ASSUME NEW data \in Written, Begin("write", "data", data)
          PROVE  /\ AtaTypeOK' /\ answer' = NoCall
                 /\ call' # NoCall /\ call'.op = "write" /\ call'.lba = "data"
                 /\ ~late => InStep' /\ AnswersAreTrue'
        <3>1. data \in Contents
            BY StorageAssumption
        <3> QED BY <1>1, <2>2, <3>1, BeginInv, ThreeSectors
    <2> QED BY <2>1, <2>2 DEF Serve
<1>3. CallsInv'
    BY <1>1, <1>2 DEF CallsInv
<1>4. MountInv'
    <2>1. Asked' /\ (~late' => Learned')
        BY <1>1 DEF MountInv, Asked, Learned, Volume
    <2>2. DriveName' = DriveName
        BY <1>1 DEF DriveName
    <2> QED BY <1>1, <2>1, <2>2 DEF MountInv
<1> QED BY <1>1, <1>2, <1>3, <1>4 DEF StorageInv, DriveInv

-----------------------------------------------------------------------------
LEMMA StorageInitially == Init => StorageInv
<1> SUFFICES ASSUME Init PROVE StorageInv
    OBVIOUS
<1>1. /\ AtaInit /\ StorageInit /\ stage = "loader"
      /\ live \in LiveVolumes \union {NoImage}
    BY DEF Init, BiosInit
<1>2. AtaTypeOK
    <2>1. /\ medium \in [Sectors -> Contents] /\ cache = medium /\ "junk" \in Contents /\ MaxAttempts \in Nat
          /\ (CHOOSE t \in Sectors : TRUE) \in Sectors
        BY <1>1, AtaAssumption, ThreeSectors DEF AtaInit
    <2>2. drive \in [state : States, command : Commands, lba : Sectors, data : Contents]
        BY <1>1, <2>1 DEF AtaInit, States, Commands
    <2>3. /\ call = NoCall /\ answer = NoCall /\ attempts = 0
          /\ present = FALSE /\ late = FALSE /\ masked = FALSE /\ overtaken = FALSE
        BY <1>1 DEF AtaInit
    <2>4. attempts \in 0..MaxAttempts
        BY <2>1, <2>3
    <2>5. present \in BOOLEAN /\ late \in BOOLEAN /\ masked \in BOOLEAN /\ overtaken \in BOOLEAN
        BY <2>3
    <2>6. cache \in [Sectors -> Contents] /\ call \in Call \union {NoCall} /\ answer \in Answer \union {NoCall}
        BY <2>1, <2>3
    <2> QED BY <2>1, <2>2, <2>4, <2>5, <2>6 DEF AtaTypeOK
<1>3. CallsInv
    <2>1. call = NoCall /\ answer = NoCall /\ probing = "untried" /\ mount = NoMount /\ active_drive = ""
        BY <1>1 DEF AtaInit, StorageInit
    <2>2. live \in [Sectors -> Contents] \union {NoImage}
        BY <1>1, StorageAssumption
    <2> QED BY <1>1, <1>2, <2>1, <2>2 DEF CallsInv, Stages
<1>4. InStep /\ AnswersAreTrue
    BY <1>1 DEF AtaInit, InStep, Quiet, AnswersAreTrue
<1>5. MountInv
    BY <1>1 DEF StorageInit, MountInv, NoMount, Devices, Kinds
<1> QED BY <1>3, <1>4, <1>5 DEF StorageInv, DriveInv

LEMMA StorageStep ==
    ASSUME StorageInv, [Next]_vars
    PROVE  StorageInv'
<1>1. CASE (DriverStep \/ DriveStep \/ DriveWritesBack) /\ UNCHANGED <<loaderVars, storageVars, stage>>
    BY <1>1, DriverMountInv
<1>2. CASE StorageInitialize \/ InLoader(LoaderStep \/ FirmwareChanges)
            \/ TaskBootstrap \/ Create \/ ConfigureSyscalls \/ TimerInterrupt \/ RunSession
    <2>1. DriveInv'
        BY <1>2, StartInv DEF StorageInv
    <2>2. UNCHANGED <<mount, probing, failed, active_drive>> /\ stage # "running"
        BY <1>2 DEF StorageInitialize, TaskBootstrap, Create, ConfigureSyscalls, TimerInterrupt, RunSession,
                    InLoader, storageVars
    <2>3. probing = "untried" /\ active_drive = ""
        BY <2>2 DEF StorageInv, DriveInv, CallsInv
    <2>4. MountInv'
        BY <2>2, <2>3 DEF StorageInv, MountInv
    <2> QED BY <2>1, <2>4 DEF StorageInv
<1>3. CASE InKernel(MountBegins \/ ProbeVolume \/ ProbeBoot \/ SelectBootDrive \/ Serve)
    BY <1>3, MountBeginsInv, ProbeInv, SelectInv, ServeInv DEF InKernel, startVars
<1>4. CASE UNCHANGED vars
    <2>1. UNCHANGED <<drive, cache, medium, call, attempts, present, answer, late, masked, overtaken, live, mount, probing, failed,
                      active_drive, stage>>
        BY <1>4 DEF vars, ataVars, storageVars, startVars
    <2>2. DriveInv'
        <3>1. CallsInv'
            BY <2>1 DEF StorageInv, DriveInv, CallsInv, AtaTypeOK
        <3>2. InStep => InStep'
            BY <2>1 DEF InStep, Quiet, Settling, Storing, OnDrive, OnMedium
        <3>3. AnswersAreTrue => AnswersAreTrue'
            BY <2>1 DEF AnswersAreTrue
        <3> QED BY <2>1, <3>1, <3>2, <3>3 DEF StorageInv, DriveInv
    <2>3. (Asked => Asked') /\ (Learned => Learned')
        BY <2>1 DEF Asked, Learned, Volume
    <2>4. DriveName' = DriveName /\ quanta_storage_boot_device' = quanta_storage_boot_device
        BY <2>1 DEF DriveName, quanta_storage_boot_device
    <2>5. MountInv'
        BY <2>1, <2>3, <2>4 DEF StorageInv, MountInv
    <2> QED BY <2>2, <2>5 DEF StorageInv
<1> QED BY <1>1, <1>2, <1>3, <1>4 DEF Next, Program, InLoader, InDriver, InKernel, startVars

LEMMA StorageIsInvariant == Spec => []StorageInv
<1>1. StorageInv /\ [Next]_vars => StorageInv'
    BY StorageStep
<1> QED BY StorageInitially, <1>1, PTL DEF Spec

(* What is read is what is there, what was written is on the drive.          *)
THEOREM TrueAnswers == Spec => []AnswersAreTrue
<1>1. StorageInv => AnswersAreTrue
    BY DEF StorageInv, DriveInv, AnswersAreTrue
<1> QED BY StorageIsInvariant, <1>1, PTL

(* The drive's sectors change to what a write in progress writes, and where. *)
THEOREM WritesOnlyTheSector == Spec => OnlyTheSectorWritten
<1> DEFINE Written1 == \A s \in Sectors : cache'[s] # cache[s] /\ ~late =>
                          call # NoCall /\ call.op = "write" /\ call.lba = s /\ call.data = cache'[s]
<1>1. ASSUME StorageInv, [Next]_vars PROVE [Written1]_ataVars
    <2>1. CASE cache' = cache
        BY <2>1
    <2>2. CASE DriverStep \/ DriveStep \/ DriveWritesBack
        BY <1>1, <2>2, ProbedSectorsKeep DEF StorageInv
    <2>3. cache' # cache => DriverStep \/ DriveStep \/ DriveWritesBack
        BY <1>1 DEF Next, Program, InLoader, InDriver, InKernel, StorageInitialize, TaskBootstrap, Create, ConfigureSyscalls,
            TimerInterrupt, RunSession, MountBegins,
            ProbeVolume, ProbeBoot, SelectBootDrive, Serve, ataVars, vars
    <2> QED BY <2>1, <2>2, <2>3
<1>2. StorageInv /\ [Next]_vars => [Written1]_ataVars
    BY <1>1
<1> QED BY StorageIsInvariant, <1>2, PTL DEF Spec, OnlyTheSectorWritten

(* The mount is of the kind the device holds, and session and kernel agree   *)
(* on the name of the drive.                                                 *)
THEOREM MountIsRight == Spec => []MountIsWhatIsThere
<1>1. ASSUME StorageInv PROVE MountIsWhatIsThere
    <2>1. MountInv
        BY <1>1 DEF StorageInv
    <2>2. probing = "done" /\ ~late => Asked /\ Learned
        BY <2>1 DEF MountInv
    <2>3. active_drive # "" /\ mount.kind = "QFS2" => probing = "done"
        <3>1. probing = "untried" => mount.kind = "unknown"
            <4>1. probing = "untried" => mount = NoMount
                BY <2>1 DEF MountInv
            <4> QED BY <4>1 DEF NoMount
        <3>2. probing # "untried" /\ probing # "done" => active_drive = ""
            <4>1. probing # "untried" => Asked
                BY <2>1 DEF MountInv
            <4> QED BY <4>1 DEF Asked
        <3> QED BY <3>1, <3>2
    <2>4. ASSUME probing = "done", ~late
          PROVE  LET volume == IF mount.device = "live" THEN live ELSE cache
                 IN /\ mount.device = "live" <=> live # NoImage
                    /\ ~failed => mount.kind = KindOn(volume)
                    /\ mount.kind \in {"QFS1", "QFS2"} => mount.kind = KindOn(volume)
        BY <2>2, <2>4 DEF Asked, Learned, Volume
    <2>5. active_drive # "" /\ mount.kind = "QFS2" => active_drive = DriveName
        BY <2>1, <2>3 DEF MountInv
    <2> QED BY <2>4, <2>5 DEF MountIsWhatIsThere
<1> QED BY StorageIsInvariant, <1>1, PTL

=============================================================================
