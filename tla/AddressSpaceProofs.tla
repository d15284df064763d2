-------------------------- MODULE AddressSpaceProofs --------------------------
(***************************************************************************)
(* The page tables for every number of levels, every set of indices, every *)
(* pool and every set of devices: a frame has one role, the kernel half is *)
(* shared, and the tables implement AddressSpaces.                         *)
(*                                                                         *)
(* Each table has a rank, the level of the walk it serves, and all but the *)
(* kernel's table are led to by one entry.  That a table serves one level  *)
(* only keeps a walk from reading a page as a table; that one entry leads  *)
(* to it keeps a destroy from giving back a table of another space.        *)
(*                                                                         *)
(* What a recursive function computes is taken from its equation, and the  *)
(* equation from the least level at which it could fail (SetInduction).    *)
(***************************************************************************)
EXTENDS AddressSpace, WellFoundedInduction, TLAPS

(* Induction over the numbers, told about a set so that no operator is a     *)
(* parameter.                                                                *)
LEMMA SetInduction ==
    ASSUME NEW S, 0 \in S, \A n \in Nat : n \in S => n + 1 \in S
    PROVE  Nat \subseteq S
<1> SUFFICES ASSUME Nat \ S # {} PROVE FALSE
    OBVIOUS
<1> DEFINE Missing == Nat \ S
           R == OpToRel(<, Nat)
<1>1. Missing \subseteq Nat /\ Missing # {}
    OBVIOUS
<1>2. PICK n \in Missing : \A m \in Missing : ~(<<m, n>> \in R)
    <2> HIDE DEF Missing, R
    <2>1. IsWellFoundedOn(R, Nat)
        BY NatLessThanWellFounded DEF R
    <2> QED BY <1>1, <2>1, WFMin
<1>3. n \in Nat /\ n \notin S /\ n # 0
    OBVIOUS
<1>4. n - 1 \in Nat /\ n - 1 < n /\ (n - 1) + 1 = n
    BY <1>3
<1>5. n - 1 \notin Missing
    BY <1>2, <1>3, <1>4 DEF OpToRel
<1> QED BY <1>3, <1>4, <1>5

(* The equation of Entries: what the processor finds, level by level.        *)
LEMMA EntriesAre ==
    ASSUME NEW root, NEW va
    PROVE  Entries(root, va) =
               [d \in 0..Levels |->
                   IF d = 0 THEN root
                   ELSE IF Entries(root, va)[d - 1] = Nil THEN Nil
                   ELSE table[Entries(root, va)[d - 1]][va[d]]]
<1> DEFINE Next1(e, d) == IF e = Nil THEN Nil ELSE table[e][va[d]]
           Is(f, n) == f = [d \in 0..n |-> IF d = 0 THEN root ELSE Next1(f[d - 1], d)]
           S == {n \in Nat : \E f : Is(f, n)}
<1>1. 0 \in S
    <2>1. Is([d \in 0..0 |-> root], 0)
        OBVIOUS
    <2> QED BY <2>1
<1>2. ASSUME NEW n \in Nat, n \in S PROVE n + 1 \in S
    <2>1. PICK f : Is(f, n)
        BY <1>2
    <2> DEFINE g == [d \in 0..n + 1 |-> IF d = 0 THEN root ELSE Next1(f[d - 1], d)]
    <2>2. ASSUME NEW d \in 0..n PROVE g[d] = f[d]
        <3>1. d \in 0..n + 1
            OBVIOUS
        <3>2. g[d] = IF d = 0 THEN root ELSE Next1(f[d - 1], d)
            <4> HIDE DEF Next1
            <4> QED BY <3>1
        <3>3. f[d] = IF d = 0 THEN root ELSE Next1(f[d - 1], d)
            <4>1. f = [b \in 0..n |-> IF b = 0 THEN root ELSE Next1(f[b - 1], b)]
                BY <2>1
            <4> HIDE DEF Next1
            <4> QED BY ONLY <4>1, d \in 0..n
        <3> QED BY <3>2, <3>3
    <2>3. \A d \in 0..n + 1 : g[d] = IF d = 0 THEN root ELSE Next1(g[d - 1], d)
        <3> HIDE DEF Next1
        <3> QED BY <2>2
    <2>4. Is(g, n + 1)
        <3> HIDE DEF Next1
        <3> QED BY <2>3
    <2>5. \E h : Is(h, n + 1)
        <3> HIDE DEF Is, g
        <3> QED BY <2>4
    <2> HIDE DEF Is
    <2> QED BY <2>5
<1>3. Levels \in S
    <2> HIDE DEF S
    <2>1. Nat \subseteq S
        BY <1>1, <1>2, SetInduction
    <2> QED BY <2>1, AddressSpaceAssumption
<1>4. \E f : Is(f, Levels)
    BY <1>3
<1>5. Is(CHOOSE f : Is(f, Levels), Levels)
    <2> HIDE DEF Is
    <2> QED BY <1>4
<1>6. Entries(root, va) = CHOOSE f : Is(f, Levels)
    BY DEF Entries
<1> QED BY <1>5, <1>6

(* The same, for one level at a time.                                        *)
StepByStep ==
    \A root, va :
       /\ Entries(root, va)[0] = root
       /\ \A d \in 1..Levels :
             Entries(root, va)[d] = IF Entries(root, va)[d - 1] = Nil THEN Nil
                                    ELSE table[Entries(root, va)[d - 1]][va[d]]

LEMMA EntriesStep == StepByStep
<1> SUFFICES ASSUME NEW root, NEW va
             PROVE  /\ Entries(root, va)[0] = root
                    /\ \A d \in 1..Levels :
                          Entries(root, va)[d] = IF Entries(root, va)[d - 1] = Nil THEN Nil
                                                 ELSE table[Entries(root, va)[d - 1]][va[d]]
    BY DEF StepByStep
<1> DEFINE E == Entries(root, va)
<1>1. Levels \in Nat
    BY AddressSpaceAssumption
<1>2. E = [d \in 0..Levels |-> IF d = 0 THEN root
                               ELSE IF E[d - 1] = Nil THEN Nil ELSE table[E[d - 1]][va[d]]]
    BY EntriesAre
<1> HIDE DEF E
<1>3. E[0] = root
    BY <1>1, <1>2
<1>4. ASSUME NEW d \in 1..Levels
      PROVE  E[d] = IF E[d - 1] = Nil THEN Nil ELSE table[E[d - 1]][va[d]]
    <2>1. d \in 0..Levels /\ d # 0
        BY <1>1
    <2> QED BY <1>2, <2>1
<1> QED BY <1>3, <1>4 DEF E

(* The equation of VisitedByLevel: the tables destroy_table comes to.        *)
LEMMA LevelsAre ==
    ASSUME NEW indices, NEW root
    PROVE  VisitedByLevel(indices, root) =
               [d \in 1..Levels |->
                   IF d = 1 THEN {root}
                   ELSE IF d = 2 THEN Below(root, indices)
                   ELSE UNION {Below(t, Indices) : t \in VisitedByLevel(indices, root)[d - 1]}]
<1> DEFINE Step(e) == UNION {Below(t, Indices) : t \in e}
           First(d, e) == IF d = 1 THEN {root} ELSE IF d = 2 THEN Below(root, indices) ELSE Step(e)
           Is(f, n) == f = [d \in 1..n |-> First(d, f[d - 1])]
           S == {n \in Nat : \E f : Is(f, n)}
<1>1. 0 \in S
    <2>1. Is([d \in 1..0 |-> root], 0)
        OBVIOUS
    <2> QED BY <2>1
<1>2. ASSUME NEW n \in Nat, n \in S PROVE n + 1 \in S
    <2>1. PICK f : Is(f, n)
        BY <1>2
    <2> DEFINE g == [d \in 1..n + 1 |-> First(d, f[d - 1])]
    <2>2. \A d \in 1..n : g[d] = f[d]
        <3> HIDE DEF Step, First
        <3> QED BY <2>1
    <2>3. \A d \in 1..n + 1 : g[d] = First(d, g[d - 1])
        <3> SUFFICES ASSUME NEW d \in 1..n + 1 PROVE g[d] = First(d, g[d - 1])
            OBVIOUS
        <3>1. g[d] = First(d, f[d - 1])
            BY ONLY g = [b \in 1..n + 1 |-> First(b, f[b - 1])], d \in 1..n + 1
        <3>2. CASE d = 1
            BY <3>1, <3>2
        <3>3. CASE d # 1
            <4>1. d - 1 \in 1..n
                BY <3>3
            <4>2. g[d - 1] = f[d - 1]
                BY <2>2, <4>1
            <4> HIDE DEF g, First
            <4> QED BY <3>1, <4>2
        <3> QED BY <3>2, <3>3
    <2>4. Is(g, n + 1)
        <3> HIDE DEF First
        <3> QED BY <2>3
    <2>5. \E h : Is(h, n + 1)
        <3> HIDE DEF Is, g
        <3> QED BY <2>4
    <2> HIDE DEF Is
    <2> QED BY <2>5
<1>3. Levels \in S
    <2> HIDE DEF S
    <2>1. Nat \subseteq S
        BY <1>1, <1>2, SetInduction
    <2> QED BY <2>1, AddressSpaceAssumption
<1>4. \E f : Is(f, Levels)
    BY <1>3
<1>5. Is(CHOOSE f : Is(f, Levels), Levels)
    <2> HIDE DEF Is
    <2> QED BY <1>4
<1>6. VisitedByLevel(indices, root) = CHOOSE f : Is(f, Levels)
    BY DEF VisitedByLevel
<1> QED BY <1>5, <1>6

-----------------------------------------------------------------------------
(* A rank: the level of the walk a table serves, 0 for a frame that is none. *)
Inner == 1..Levels - 1

(* Frames that are no table have rank 0, roots 1, the kernel's table 2.      *)
Ranked(rank) ==
    /\ rank \in [Tables -> 0..Levels]
    /\ \A t \in Tables : /\ rank[t] = 0 <=> t \in free \union pages
                         /\ rank[t] = 1 <=> t \in roots \union {BootRoot}
    /\ rank[KernelTable] = 2

(* An entry leads one rank down, from the last one to pages; only the kernel *)
(* entry of a root leads to the kernel's table, and the boot space has       *)
(* nothing else.                                                             *)
Branches(rank) ==
    /\ \A t \in Tables, i \in Indices :
          /\ rank[t] = 0 => table[t][i] = Nil
          /\ rank[t] \in Inner /\ table[t][i] # Nil =>
                table[t][i] \in Tables /\ rank[table[t][i]] = rank[t] + 1
          /\ rank[t] = Levels => table[t][i] \in pages \union Devices \union {Nil}
          /\ table[t][i] = KernelTable <=> rank[t] = 1 /\ i = KernelIndex
    /\ \A i \in Indices \ {KernelIndex} : table[BootRoot][i] = Nil

(* No two entries lead to the same table, but for the kernel's.              *)
OneWayIn(rank) ==
    \A t, u \in Tables, i, j \in Indices :
       /\ rank[t] \in Inner /\ rank[u] \in Inner
       /\ table[t][i] = table[u][j]
       /\ table[t][i] \notin {Nil, KernelTable}
       => t = u /\ i = j

(* Some entry leads to every table that is not a root.                       *)
Reached(rank) ==
    \A t \in Tables : rank[t] >= 2 =>
       \E u \in Tables, i \in Indices : rank[u] = rank[t] - 1 /\ table[u][i] = t

Tree(rank) == Ranked(rank) /\ Branches(rank) /\ OneWayIn(rank) /\ Reached(rank)

(* map_page is at a table of its depth, in the space it was given, and holds *)
(* a page it may map.                                                        *)
OnTheWay(rank) ==
    walk # Idle =>
       /\ rank[walk.at] = walk.depth
       /\ walk.root \in roots \union {BootRoot}
       /\ walk.depth = 1 => walk.at = walk.root
       /\ walk.root = BootRoot <=> walk.va[1] = KernelIndex
       /\ walk.physical \in pages \union Devices

(* The inductive invariant.                                                  *)
IInv == TypeOK /\ \E rank : Tree(rank) /\ OnTheWay(rank)

-----------------------------------------------------------------------------
LEMMA InitIInv == Init => IInv
<1> SUFFICES ASSUME Init PROVE IInv
    OBVIOUS
<1> USE AddressSpaceAssumption DEF Init, Tables, Clear
<1>1. TypeOK
    <2>1. table \in [Tables -> [Indices -> Tables \union Devices \union {Nil}]]
        OBVIOUS
    <2> QED BY <2>1 DEF TypeOK
<1>2. PICK rank : rank = [t \in Tables |-> IF t = BootRoot THEN 1 ELSE IF t = KernelTable THEN 2 ELSE 0]
    OBVIOUS
<1>3. Ranked(rank)
    BY <1>2 DEF Ranked
<1>4. Branches(rank)
    BY <1>2 DEF Branches, Inner
<1>5. OneWayIn(rank)
    BY <1>2 DEF OneWayIn, Inner
<1>6. Reached(rank)
    BY <1>2 DEF Reached
<1> QED BY <1>1, <1>3, <1>4, <1>5, <1>6 DEF IInv, Tree, OnTheWay

LEMMA CreateIInv ==
    ASSUME NEW root \in Frames, IInv, quanta_address_space_create(root)
    PROVE  IInv'
<1> USE AddressSpaceAssumption DEF Tables, Clear
<1>1. PICK rank : Tree(rank) /\ OnTheWay(rank)
    BY DEF IInv
<1>2. /\ walk = Idle /\ root \in free
      /\ free' = free \ {root} /\ roots' = roots \union {root}
      /\ pages' = pages /\ active' = active /\ walk' = walk
      /\ TypeOK
    BY DEF IInv, quanta_address_space_create
<1>3. table[BootRoot][KernelIndex] = KernelTable
    BY <1>1 DEF Tree, Ranked, Branches
<1>4. /\ \A t \in Tables \ {root} : table'[t] = table[t]
      /\ table'[root] = [Clear EXCEPT ![KernelIndex] = KernelTable]
      /\ DOMAIN table' = Tables /\ DOMAIN table = Tables
    BY <1>2, <1>3 DEF quanta_address_space_create, TypeOK
<1>5. TypeOK'
    <2>1. table' \in [Tables -> [Indices -> Tables \union Devices \union {Nil}]]
        BY <1>2, <1>3 DEF quanta_address_space_create, TypeOK
    <2> QED BY <1>2, <2>1 DEF TypeOK
<1>6. PICK r : r = [rank EXCEPT ![root] = 1]
    OBVIOUS
<1>7. rank \in [Tables -> 0..Levels] /\ rank[root] = 0
    BY <1>1, <1>2 DEF Tree, Ranked
<1>8. Ranked(r)'
    BY <1>1, <1>2, <1>6 DEF Tree, Ranked, TypeOK
<1>9. Branches(r)'
    <2>1. \A i \in Indices : table'[root][i] = IF i = KernelIndex THEN KernelTable ELSE Nil
        BY <1>4
    <2>2. r[root] = 1 /\ \A t \in Tables \ {root} : r[t] = rank[t]
        BY <1>6, <1>7
    <2>3. ASSUME NEW t \in Tables, NEW i \in Indices
          PROVE  /\ r[t] = 0 => table'[t][i] = Nil
                 /\ r[t] \in Inner /\ table'[t][i] # Nil =>
                       table'[t][i] \in Tables /\ r[table'[t][i]] = r[t] + 1
                 /\ r[t] = Levels => table'[t][i] \in pages \union Devices \union {Nil}
                 /\ table'[t][i] = KernelTable <=> r[t] = 1 /\ i = KernelIndex
        <3>1. CASE t = root
            BY <1>1, <2>1, <2>2, <3>1 DEF Tree, Ranked, Inner
        <3>2. CASE t # root
            BY <1>1, <1>4, <1>7, <2>2, <3>2 DEF Tree, Ranked, Branches, Inner
        <3> QED BY <3>1, <3>2
    <2>4. \A i \in Indices \ {KernelIndex} : table'[BootRoot][i] = Nil
        BY <1>1, <1>4 DEF Tree, Branches
    <2> QED BY <1>2, <2>3, <2>4 DEF Branches
<1>10. OneWayIn(r)'
    BY <1>1, <1>4, <1>6, <1>7 DEF Tree, Ranked, OneWayIn, Branches, Inner
<1>11. Reached(r)'
    BY <1>1, <1>4, <1>6, <1>7 DEF Tree, Ranked, Reached, Branches
<1> QED BY <1>2, <1>5, <1>8, <1>9, <1>10, <1>11 DEF IInv, Tree, OnTheWay

LEMMA AllocateIInv ==
    ASSUME NEW page \in Frames, IInv, AllocatePage(page)
    PROVE  IInv'
<1> USE AddressSpaceAssumption DEF Tables, Clear
<1>1. PICK rank : Tree(rank) /\ OnTheWay(rank)
    BY DEF IInv
<1>2. /\ walk = Idle /\ page \in free
      /\ free' = free \ {page} /\ pages' = pages \union {page}
      /\ UNCHANGED <<roots, active, walk>>
      /\ TypeOK
    BY DEF IInv, AllocatePage
<1>3. table' = table
    <2>1. \A i \in Indices : table[page][i] = Nil
        BY <1>1, <1>2 DEF Tree, Ranked, Branches
    <2>2. table[page] = Clear
        BY <1>2, <2>1 DEF TypeOK
    <2> QED BY <1>2, <2>2 DEF AllocatePage, TypeOK
<1>4. TypeOK'
    BY <1>2, <1>3 DEF TypeOK
<1>5. Ranked(rank)'
    BY <1>1, <1>2 DEF Tree, Ranked
<1>6. Branches(rank)'
    BY <1>1, <1>2, <1>3 DEF Tree, Branches
<1>7. OneWayIn(rank)' /\ Reached(rank)'
    BY <1>1, <1>3 DEF Tree, OneWayIn, Reached
<1> QED BY <1>2, <1>4, <1>5, <1>6, <1>7 DEF IInv, Tree, OnTheWay

LEMMA MapBeginsIInv ==
    ASSUME NEW root \in roots \union {BootRoot}, NEW va \in Addresses,
           NEW physical \in pages \union Devices, IInv, MapBegins(root, va, physical)
    PROVE  IInv'
<1>1. PICK rank : Tree(rank) /\ OnTheWay(rank)
    BY DEF IInv
<1>2. /\ UNCHANGED <<table, free, roots, pages, active>>
      /\ TypeOK
    BY DEF IInv, MapBegins
<1>3. /\ root = BootRoot <=> va[1] = KernelIndex
      /\ walk' = [phase |-> "walking", root |-> root, va |-> va, physical |-> physical,
                  at |-> root, depth |-> 1]
    BY <1>2, AddressSpaceAssumption DEF MapBegins, UserAddresses, KernelAddresses, TypeOK
<1>4. TypeOK'
    <2>1. walk' \in Walk
        BY <1>2, <1>3, AddressSpaceAssumption DEF Walk, TypeOK, Physical, Tables
    <2> QED BY <1>2, <2>1 DEF TypeOK
<1>5. Tree(rank)'
    BY <1>1, <1>2 DEF Tree, Ranked, Branches, OneWayIn, Reached
<1>6. OnTheWay(rank)'
    <2>1. rank[root] = 1
        BY <1>1, <1>2 DEF Tree, Ranked, TypeOK, Tables
    <2> QED BY <1>2, <1>3, <2>1 DEF OnTheWay
<1> QED BY <1>4, <1>5, <1>6 DEF IInv

LEMMA Walking ==
    ASSUME TypeOK, walk.phase = "walking"
    PROVE  walk # Idle /\ walk \in Walk
BY DEF TypeOK, Idle

(* One lemma for each step that moves the walk or writes an entry.           *)
LEMMA DescendIInv ==
    ASSUME IInv, TableForPresent
    PROVE  IInv'
<1>1. PICK rank : Tree(rank) /\ OnTheWay(rank)
    BY DEF IInv
<1>2. /\ UNCHANGED <<table, free, roots, pages, active>>
      /\ TypeOK /\ walk.phase = "walking" /\ walk.depth < Levels
      /\ Entry # Nil
      /\ walk' = [walk EXCEPT !.at = Entry, !.depth = walk.depth + 1]
    BY DEF IInv, TableForPresent, Descending
<1>3. walk # Idle /\ walk \in Walk
    BY <1>2, Walking
<1>4. /\ walk.at \in Tables /\ walk.depth \in 1..Levels /\ walk.va[walk.depth] \in Indices
      /\ rank[walk.at] = walk.depth
    BY <1>1, <1>3 DEF Walk, Addresses, OnTheWay
<1>5. Entry \in Tables /\ rank[Entry] = walk.depth + 1
    <2>1. rank[walk.at] \in Inner
        BY <1>2, <1>4, AddressSpaceAssumption DEF Inner
    <2>2. table[walk.at][walk.va[walk.depth]] # Nil
        BY <1>2 DEF Entry
    <2>3. \A t \in Tables, i \in Indices : rank[t] \in Inner /\ table[t][i] # Nil =>
              table[t][i] \in Tables /\ rank[table[t][i]] = rank[t] + 1
        BY <1>1 DEF Tree, Branches
    <2> QED BY <1>4, <2>1, <2>2, <2>3 DEF Entry
<1>6. TypeOK'
    <2>1. walk' \in Walk
        <3>1. walk.depth + 1 \in 1..Levels
            BY <1>2, <1>4, AddressSpaceAssumption
        <3>2. \A at \in Tables, depth \in 1..Levels : [walk EXCEPT !.at = at, !.depth = depth] \in Walk
            BY <1>3 DEF Walk
        <3> QED BY <1>2, <1>5, <3>1, <3>2
    <2> QED BY <1>2, <2>1 DEF TypeOK
<1>7. Tree(rank)'
    BY <1>1, <1>2 DEF Tree, Ranked, Branches, OneWayIn, Reached
<1>8. /\ walk'.at = Entry /\ walk'.depth = walk.depth + 1 /\ walk'.root = walk.root
      /\ walk'.va = walk.va /\ walk'.physical = walk.physical /\ walk'.depth # 1
    BY <1>2, <1>3, <1>4 DEF Walk
<1>9. OnTheWay(rank)'
    BY <1>1, <1>2, <1>3, <1>5, <1>8 DEF OnTheWay
<1> QED BY <1>6, <1>7, <1>9 DEF IInv

LEMMA PanicIInv ==
    ASSUME IInv, Panics
    PROVE  IInv'
<1>1. PICK rank : Tree(rank) /\ OnTheWay(rank)
    BY DEF IInv
<1>2. /\ UNCHANGED <<table, free, roots, pages, active>>
      /\ TypeOK /\ walk.phase = "walking"
      /\ walk' = [walk EXCEPT !.phase = "halted"]
    BY DEF IInv, Panics, Descending
<1>3. walk # Idle /\ walk \in Walk
    BY <1>2, Walking
<1>4. walk' \in Walk /\ walk'.at = walk.at /\ walk'.depth = walk.depth /\ walk'.root = walk.root
      /\ walk'.va = walk.va /\ walk'.physical = walk.physical
    BY <1>2, <1>3 DEF Walk
<1>5. TypeOK'
    BY <1>2, <1>4 DEF TypeOK
<1>6. Tree(rank)'
    BY <1>1, <1>2 DEF Tree, Ranked, Branches, OneWayIn, Reached
<1>7. OnTheWay(rank)'
    BY <1>1, <1>2, <1>3, <1>4 DEF OnTheWay
<1> QED BY <1>5, <1>6, <1>7 DEF IInv

LEMMA MapLeafIInv ==
    ASSUME IInv, MapLeaf
    PROVE  IInv'
<1>1. PICK rank : Tree(rank) /\ OnTheWay(rank)
    BY DEF IInv
<1>2. /\ UNCHANGED <<free, roots, pages, active>>
      /\ TypeOK /\ walk.phase = "walking" /\ walk.depth = Levels
      /\ table' = [table EXCEPT ![walk.at][walk.va[Levels]] = walk.physical]
      /\ walk' = Idle
    BY DEF IInv, MapLeaf
<1>3. walk # Idle /\ walk \in Walk
    BY <1>2, Walking
<1>4. /\ walk.at \in Tables /\ walk.va[Levels] \in Indices
      /\ rank[walk.at] = Levels /\ walk.physical \in pages \union Devices
    BY <1>1, <1>2, <1>3, AddressSpaceAssumption DEF Walk, Addresses, OnTheWay
<1>5. /\ table' \in [Tables -> [Indices -> Tables \union Devices \union {Nil}]]
      /\ \A t \in Tables, i \in Indices :
            table'[t][i] = IF t = walk.at /\ i = walk.va[Levels] THEN walk.physical ELSE table[t][i]
    <2>1. walk.physical \in Tables \union Devices
        BY <1>2, <1>4 DEF TypeOK, Tables
    <2> QED BY <1>2, <1>4, <2>1 DEF TypeOK
<1>6. TypeOK'
    BY <1>2, <1>5 DEF TypeOK
<1>7. Ranked(rank)'
    BY <1>1, <1>2 DEF Tree, Ranked
<1>8. \A t \in Tables, i \in Indices : rank[t] # Levels => table'[t][i] = table[t][i]
    BY <1>4, <1>5
<1>9. walk.physical # KernelTable /\ rank[BootRoot] = 1 /\ Levels \notin {0, 1} \union Inner /\ Levels \in Nat
    BY <1>1, <1>2, <1>4, AddressSpaceAssumption DEF Tree, Ranked, TypeOK, Tables, Inner
<1>10. Branches(rank)'
    <2>1. ASSUME NEW t \in Tables, NEW i \in Indices
          PROVE  /\ rank[t] = 0 => table'[t][i] = Nil
                 /\ rank[t] \in Inner /\ table'[t][i] # Nil =>
                       table'[t][i] \in Tables /\ rank[table'[t][i]] = rank[t] + 1
                 /\ rank[t] = Levels => table'[t][i] \in pages \union Devices \union {Nil}
                 /\ table'[t][i] = KernelTable <=> rank[t] = 1 /\ i = KernelIndex
        <3>1. CASE rank[t] # Levels
            <4>1. table'[t][i] = table[t][i]
                BY <1>8, <3>1
            <4> QED BY <1>1, <3>1, <4>1 DEF Tree, Branches
        <3>2. CASE rank[t] = Levels
            <4>1. /\ table[t][i] \in pages \union Devices \union {Nil}
                  /\ table[t][i] # KernelTable
                BY <1>1, <1>9, <3>2 DEF Tree, Branches
            <4>2. table'[t][i] = table[t][i] \/ table'[t][i] = walk.physical
                BY <1>5
            <4> QED BY <1>4, <1>9, <3>2, <4>1, <4>2
        <3> QED BY <3>1, <3>2
    <2>2. \A i \in Indices \ {KernelIndex} : table'[BootRoot][i] = Nil
        BY <1>1, <1>8, <1>9 DEF Tree, Branches, Tables
    <2> QED BY <1>2, <2>1, <2>2 DEF Branches
<1>11. OneWayIn(rank)'
    BY <1>1, <1>8, <1>9 DEF Tree, OneWayIn
<1>12. Reached(rank)'
    <2> SUFFICES ASSUME NEW t \in Tables, rank[t] >= 2
                 PROVE  \E u \in Tables, i \in Indices : rank[u] = rank[t] - 1 /\ table'[u][i] = t
        BY DEF Reached
    <2>1. PICK u \in Tables, i \in Indices : rank[u] = rank[t] - 1 /\ table[u][i] = t
        BY <1>1 DEF Tree, Reached
    <2>2. rank[t] \in 0..Levels
        BY <1>1 DEF Tree, Ranked
    <2>3. rank[u] # Levels
        BY <1>9, <2>1, <2>2
    <2> QED BY <1>8, <2>1, <2>3
<1>13. OnTheWay(rank)'
    BY <1>2 DEF OnTheWay
<1> QED BY <1>6, <1>7, <1>10, <1>11, <1>12, <1>13 DEF IInv, Tree

LEMMA NewTableIInv ==
    ASSUME NEW frame \in Frames, IInv, TableForAbsent(frame)
    PROVE  IInv'
<1>1. PICK rank : Tree(rank) /\ OnTheWay(rank)
    BY DEF IInv
<1>2. /\ TypeOK /\ walk.phase = "walking" /\ walk.depth < Levels
      /\ table[walk.at][walk.va[walk.depth]] = Nil /\ frame \in free
      /\ free' = free \ {frame}
      /\ table' = [table EXCEPT ![frame] = Clear, ![walk.at][walk.va[walk.depth]] = frame]
      /\ walk' = [walk EXCEPT !.at = frame, !.depth = walk.depth + 1]
      /\ UNCHANGED <<roots, pages, active>>
    BY DEF IInv, TableForAbsent, Descending, Entry
<1>3. walk # Idle /\ walk \in Walk
    BY <1>2, Walking
<1>4. PICK at, depth, index : at = walk.at /\ depth = walk.depth /\ index = walk.va[walk.depth]
    OBVIOUS
<1>5. /\ at \in Tables /\ depth \in 1..Levels - 1 /\ index \in Indices /\ rank[at] = depth
      /\ table[at][index] = Nil
      /\ frame \in Tables /\ rank[frame] = 0 /\ at # frame /\ rank \in [Tables -> 0..Levels]
    <2>1. /\ at \in Tables /\ depth \in 1..Levels /\ index \in Indices /\ rank[at] = depth
        BY <1>1, <1>3, <1>4 DEF Walk, Addresses, OnTheWay
    <2>2. depth \in 1..Levels - 1
        BY <1>2, <1>4, <2>1, AddressSpaceAssumption
    <2> QED BY <1>1, <1>2, <1>4, <2>1, <2>2 DEF Tree, Ranked, Tables
<1>6. /\ table' \in [Tables -> [Indices -> Tables \union Devices \union {Nil}]]
      /\ \A t \in Tables, i \in Indices :
            table'[t][i] = IF t = frame THEN Nil
                           ELSE IF t = at /\ i = index THEN frame ELSE table[t][i]
    BY <1>2, <1>4, <1>5 DEF TypeOK, Clear
<1>7. PICK r : r = [rank EXCEPT ![frame] = depth + 1]
    OBVIOUS
<1>8. /\ r \in [Tables -> 0..Levels] /\ r[frame] = depth + 1 /\ depth + 1 \in 2..Levels
      /\ \A t \in Tables \ {frame} : r[t] = rank[t]
    BY <1>5, <1>7, AddressSpaceAssumption
<1>9. TypeOK'
    <2>1. depth + 1 \in 1..Levels
        BY <1>8
    <2>2. \A a \in Tables, d \in 1..Levels : [walk EXCEPT !.at = a, !.depth = d] \in Walk
        BY <1>3 DEF Walk
    <2>3. walk' \in Walk
        BY <1>2, <1>4, <1>5, <2>1, <2>2
    <2> QED BY <1>2, <1>6, <2>3 DEF TypeOK
<1>10. /\ at = BootRoot => index = KernelIndex
       /\ at = BootRoot \/ at \in roots => index # KernelIndex
    <2>1. at = BootRoot \/ at \in roots => depth = 1
        BY <1>1, <1>5 DEF Tree, Ranked
    <2>2. depth = 1 => at = walk.root /\ index = walk.va[1]
        BY <1>1, <1>3, <1>4 DEF OnTheWay
    <2>3. rank[at] = 1 => table[at][KernelIndex] = KernelTable
        BY <1>1, <1>5, AddressSpaceAssumption DEF Tree, Branches
    <2>4. KernelTable # Nil
        BY AddressSpaceAssumption
    <2> QED BY <1>1, <1>3, <1>5, <2>1, <2>2, <2>3, <2>4 DEF OnTheWay
<1>11. at # BootRoot
    BY <1>10
<1>12. frame # KernelTable /\ frame # BootRoot /\ frame # Nil /\ BootRoot \in Tables /\ KernelTable \in Tables
       /\ frame \notin pages /\ frame \notin Devices /\ KernelTable # Nil
    BY <1>2, AddressSpaceAssumption DEF TypeOK, Tables
<1>13. Ranked(r)'
    <2>1. \A t \in Tables : r[t] = 0 <=> t \in free' \union pages'
        BY <1>1, <1>2, <1>8, <1>12 DEF Tree, Ranked
    <2>2. \A t \in Tables : r[t] = 1 <=> t \in roots' \union {BootRoot}
        BY <1>1, <1>2, <1>8, <1>12 DEF Tree, Ranked, TypeOK
    <2>3. r[KernelTable] = 2
        BY <1>1, <1>8, <1>12 DEF Tree, Ranked
    <2> QED BY <1>8, <2>1, <2>2, <2>3 DEF Ranked
<1>14. \A t \in Tables, i \in Indices : rank[t] # 0 => table[t][i] # frame
    <2> SUFFICES ASSUME NEW t \in Tables, NEW i \in Indices, rank[t] # 0, table[t][i] = frame PROVE FALSE
        OBVIOUS
    <2>1. rank[t] \in Inner \/ rank[t] = Levels
        BY <1>5, AddressSpaceAssumption DEF Inner
    <2>2. CASE rank[t] \in Inner
        <3>1. rank[frame] = rank[t] + 1
            BY <1>1, <1>12, <2>2 DEF Tree, Branches
        <3> QED BY <1>5, <2>2, <3>1, AddressSpaceAssumption DEF Inner
    <2>3. CASE rank[t] = Levels
        BY <1>1, <1>12, <2>3 DEF Tree, Branches
    <2> QED BY <2>1, <2>2, <2>3
<1>15. Branches(r)'
    <2>1. ASSUME NEW t \in Tables, NEW i \in Indices
          PROVE  /\ r[t] = 0 => table'[t][i] = Nil
                 /\ r[t] \in Inner /\ table'[t][i] # Nil =>
                       table'[t][i] \in Tables /\ r[table'[t][i]] = r[t] + 1
                 /\ r[t] = Levels => table'[t][i] \in pages \union Devices \union {Nil}
                 /\ table'[t][i] = KernelTable <=> r[t] = 1 /\ i = KernelIndex
        <3>1. CASE t = frame
            <4>1. table'[t][i] = Nil /\ r[t] # 0 /\ r[t] # 1
                BY <1>6, <1>8, <3>1
            <4> QED BY <1>12, <4>1
        <3>2. CASE t = at /\ i = index
            <4>1. table'[t][i] = frame /\ r[t] = depth /\ depth \in Inner
                BY <1>5, <1>6, <1>8, <3>2 DEF Inner
            <4>2. depth # 0 /\ depth # Levels
                BY <1>5, AddressSpaceAssumption
            <4>3. ~(r[t] = 1 /\ i = KernelIndex)
                BY <1>1, <1>5, <1>10, <3>2, <4>1 DEF Tree, Ranked
            <4> QED BY <1>5, <1>8, <1>12, <4>1, <4>2, <4>3
        <3>3. CASE t # frame /\ ~(t = at /\ i = index)
            <4>1. table'[t][i] = table[t][i] /\ r[t] = rank[t]
                BY <1>6, <1>8, <3>3
            <4>2. rank[t] \in Inner => table[t][i] # frame
                BY <1>14, AddressSpaceAssumption DEF Inner
            <4> QED BY <1>1, <1>8, <4>1, <4>2 DEF Tree, Branches
        <3> QED BY <3>1, <3>2, <3>3
    <2>2. \A i \in Indices \ {KernelIndex} : table'[BootRoot][i] = Nil
        BY <1>1, <1>6, <1>11, <1>12 DEF Tree, Branches
    <2> QED BY <1>2, <2>1, <2>2 DEF Branches
<1>16. OneWayIn(r)'
    <2> SUFFICES ASSUME NEW t \in Tables, NEW u \in Tables, NEW i \in Indices, NEW j \in Indices,
                        r[t] \in Inner, r[u] \in Inner, table'[t][i] = table'[u][j],
                        table'[t][i] # Nil, table'[t][i] # KernelTable
                 PROVE  t = u /\ i = j
        BY DEF OneWayIn
    <2>1. t # frame /\ u # frame
        BY <1>6
    <2>2. rank[t] \in Inner /\ rank[u] \in Inner
        BY <1>8, <2>1
    <2>3. rank[t] # 0 /\ rank[u] # 0
        BY <2>2, AddressSpaceAssumption DEF Inner
    <2>4. /\ table'[t][i] = IF t = at /\ i = index THEN frame ELSE table[t][i]
          /\ table'[u][j] = IF u = at /\ j = index THEN frame ELSE table[u][j]
        BY <1>6, <2>1
    <2>5. table[t][i] # frame /\ table[u][j] # frame
        BY <1>14, <2>3
    <2>6. table[t][i] = table[u][j] /\ table[t][i] \notin {Nil, KernelTable} => t = u /\ i = j
        BY <1>1, <2>2 DEF Tree, OneWayIn
    <2> QED BY <2>4, <2>5, <2>6
<1>17. Reached(r)'
    <2> SUFFICES ASSUME NEW t \in Tables, r[t] >= 2
                 PROVE  \E u \in Tables, i \in Indices : r[u] = r[t] - 1 /\ table'[u][i] = t
        BY DEF Reached
    <2>1. CASE t = frame
        <3>1. table'[at][index] = t
            BY <1>5, <1>6, <2>1
        <3>2. r[at] = depth /\ r[t] = depth + 1 /\ depth \in Nat
            BY <1>5, <1>8, <2>1
        <3> QED BY <1>5, <3>1, <3>2
    <2>2. CASE t # frame
        <3>1. PICK u \in Tables, i \in Indices : rank[u] = rank[t] - 1 /\ table[u][i] = t
            BY <1>1, <1>8, <2>2 DEF Tree, Reached
        <3>2. rank[u] # 0 /\ u # frame
            BY <1>5, <1>8, <2>2, <3>1
        <3>3. t # Nil
            BY AddressSpaceAssumption DEF Tables
        <3>4. table'[u][i] = t
            BY <1>5, <1>6, <3>1, <3>2, <3>3
        <3> QED BY <1>8, <2>2, <3>1, <3>2, <3>4
    <2> QED BY <2>1, <2>2
<1>18. OnTheWay(r)'
    <2>1. /\ walk'.at = frame /\ walk'.depth = depth + 1 /\ walk'.root = walk.root
          /\ walk'.va = walk.va /\ walk'.physical = walk.physical /\ walk'.depth # 1
        BY <1>2, <1>3, <1>4, <1>5 DEF Walk
    <2> QED BY <1>1, <1>2, <1>3, <1>8, <2>1 DEF OnTheWay
<1> QED BY <1>9, <1>13, <1>15, <1>16, <1>17, <1>18 DEF IInv, Tree

-----------------------------------------------------------------------------
(* Who is visited at a level: what an entry of the level above leads to.     *)
LEMMA Members ==
    ASSUME NEW indices, NEW root
    PROVE  /\ VisitedByLevel(indices, root)[1] = {root}
           /\ \A d \in 2..Levels : \A t :
                 t \in VisitedByLevel(indices, root)[d] <=>
                    \E u \in VisitedByLevel(indices, root)[d - 1],
                       i \in IF d = 2 THEN indices ELSE Indices : t = table[u][i] /\ t # Nil
<1> DEFINE L == VisitedByLevel(indices, root)
<1> DEFINE Body(d) == IF d = 1 THEN {root}
                      ELSE IF d = 2 THEN Below(root, indices)
                      ELSE UNION {Below(t, Indices) : t \in L[d - 1]}
<1>1. L = [d \in 1..Levels |-> Body(d)]
    BY LevelsAre
<1> HIDE DEF L
<1>2. /\ Levels \in Nat /\ Levels >= 2
      /\ \A d \in 1..Levels : L[d] = Body(d)
    <2> HIDE DEF Body
    <2> QED BY <1>1, AddressSpaceAssumption
<1>3. L[1] = {root}
    <2>1. Body(1) = {root}
        OBVIOUS
    <2> HIDE DEF Body
    <2> QED BY <1>2, <2>1
<1>4. ASSUME NEW d \in 2..Levels, NEW t
      PROVE  t \in L[d] <=> \E u \in L[d - 1], i \in IF d = 2 THEN indices ELSE Indices :
                                t = table[u][i] /\ t # Nil
    <2>1. L[d] = Body(d)
        <3> HIDE DEF Body
        <3> QED BY <1>2
    <2>2. CASE d = 2
        <3>1. Body(d) = Below(root, indices) /\ L[d - 1] = {root}
            <4>1. d - 1 = 1 /\ d # 1
                BY <2>2
            <4> QED BY <1>3, <2>2, <4>1
        <3> HIDE DEF Body
        <3> QED BY <2>1, <2>2, <3>1 DEF Below
    <2>3. CASE d # 2
        <3>1. Body(d) = UNION {Below(u, Indices) : u \in L[d - 1]}
            BY <2>3
        <3> HIDE DEF Body
        <3> QED BY <2>1, <2>3, <3>1 DEF Below
    <2> QED BY <2>2, <2>3
<1> QED BY <1>3, <1>4 DEF L

(* What is visited at a level has that rank.                                 *)
LEMMA LevelsAreRanks ==
    ASSUME NEW rank, Tree(rank), NEW root \in Tables, rank[root] = 1, NEW indices \in SUBSET Indices
    PROVE  \A d \in 1..Levels : \A t \in VisitedByLevel(indices, root)[d] : t \in Tables /\ rank[t] = d
<1> DEFINE L == VisitedByLevel(indices, root)
           S == {n \in Nat : n + 1 \in 1..Levels => \A t \in L[n + 1] : t \in Tables /\ rank[t] = n + 1}
<1>0. /\ L[1] = {root}
      /\ \A d \in 2..Levels : \A t :
            t \in L[d] => \E u \in L[d - 1], i \in Indices : t = table[u][i] /\ t # Nil
    BY Members
<1> HIDE DEF L
<1>1. 0 \in S
    BY <1>0
<1>2. ASSUME NEW n \in Nat, n \in S PROVE n + 1 \in S
    <2> SUFFICES ASSUME (n + 1) + 1 \in 1..Levels, NEW t \in L[(n + 1) + 1]
                 PROVE  t \in Tables /\ rank[t] = (n + 1) + 1
        OBVIOUS
    <2>1. /\ (n + 1) + 1 \in 2..Levels /\ ((n + 1) + 1) - 1 = n + 1
          /\ n + 1 \in 1..Levels /\ n + 1 \in Inner
        BY AddressSpaceAssumption DEF Inner
    <2>2. PICK u \in L[n + 1], i \in Indices : t = table[u][i] /\ t # Nil
        BY <1>0, <2>1
    <2>3. u \in Tables /\ rank[u] = n + 1
        BY <1>2, <2>1
    <2> QED BY <2>1, <2>2, <2>3 DEF Tree, Branches
<1> HIDE DEF S
<1>3. Nat \subseteq S
    BY <1>1, <1>2, SetInduction
<1> USE DEF S
<1>4. ASSUME NEW d \in 1..Levels, NEW t \in L[d] PROVE t \in Tables /\ rank[t] = d
    <2>1. d - 1 \in Nat /\ (d - 1) + 1 = d
        BY AddressSpaceAssumption
    <2> QED BY <1>3, <2>1
<1> QED BY <1>4 DEF L

(* Two spaces have no table in common, whatever half is taken of the second. *)
LEMMA VisitsAreApart ==
    ASSUME NEW rank, Tree(rank), NEW r \in Tables, rank[r] = 1, NEW s \in Tables, rank[s] = 1, r # s,
           NEW ours \in SUBSET (Indices \ {KernelIndex}), NEW theirs \in SUBSET Indices
    PROVE  Visited(ours, r) \intersect Visited(theirs, s) = {}
<1> DEFINE A == VisitedByLevel(ours, r)
           B == VisitedByLevel(theirs, s)
           S == {n \in Nat : n + 1 \in 1..Levels => A[n + 1] \intersect B[n + 1] = {}}
<1>0. /\ A[1] = {r} /\ B[1] = {s}
      /\ \A d \in 2..Levels : \A t :
            t \in A[d] => \E u \in A[d - 1], i \in IF d = 2 THEN ours ELSE Indices : t = table[u][i] /\ t # Nil
      /\ \A d \in 2..Levels : \A t :
            t \in B[d] => \E u \in B[d - 1], i \in Indices : t = table[u][i] /\ t # Nil
    BY Members
<1>00. /\ \A d \in 1..Levels : \A t \in A[d] : t \in Tables /\ rank[t] = d
       /\ \A d \in 1..Levels : \A t \in B[d] : t \in Tables /\ rank[t] = d
    BY LevelsAreRanks
<1> HIDE DEF A, B
<1>1. 0 \in S
    BY <1>0
<1>2. ASSUME NEW n \in Nat, n \in S PROVE n + 1 \in S
    <2> SUFFICES ASSUME (n + 1) + 1 \in 1..Levels, NEW t \in A[(n + 1) + 1], t \in B[(n + 1) + 1]
                 PROVE  FALSE
        OBVIOUS
    <2>1. /\ (n + 1) + 1 \in 2..Levels /\ ((n + 1) + 1) - 1 = n + 1
          /\ n + 1 \in 1..Levels /\ n + 1 \in Inner
        BY AddressSpaceAssumption DEF Inner
    <2>2. PICK u \in A[n + 1], i \in IF (n + 1) + 1 = 2 THEN ours ELSE Indices : t = table[u][i] /\ t # Nil
        BY <1>0, <2>1
    <2>3. PICK v \in B[n + 1], j \in Indices : t = table[v][j]
        BY <1>0, <2>1
    <2>4. /\ u \in Tables /\ rank[u] = n + 1 /\ v \in Tables /\ rank[v] = n + 1 /\ rank[t] = (n + 1) + 1
        BY <1>00, <2>1
    <2>5. t # KernelTable
        <3>1. CASE n = 0
            BY <2>2, <2>4, <3>1 DEF Tree, Branches
        <3>2. CASE n # 0
            BY <2>4, <3>2 DEF Tree, Ranked
        <3> QED BY <3>1, <3>2
    <2>6. u = v
        <3>1. i \in Indices
            BY <2>2
        <3>2. rank[u] \in Inner /\ rank[v] \in Inner /\ table[u][i] = table[v][j]
            BY <2>1, <2>2, <2>3, <2>4
        <3>3. table[u][i] \notin {Nil, KernelTable}
            BY <2>2, <2>5
        <3> HIDE DEF S
        <3> QED BY <2>4, <3>1, <3>2, <3>3 DEF Tree, OneWayIn
    <2> QED BY <1>2, <2>1, <2>6
<1> HIDE DEF S
<1>3. Nat \subseteq S
    BY <1>1, <1>2, SetInduction
<1> USE DEF S
<1>4. ASSUME NEW d \in 1..Levels PROVE A[d] \intersect B[d] = {}
    <2>1. d - 1 \in Nat /\ (d - 1) + 1 = d
        BY AddressSpaceAssumption
    <2> QED BY <1>3, <2>1
<1>5. \A d \in 1..Levels, e \in 1..Levels : A[d] \intersect B[e] = {}
    BY <1>00, <1>4
<1> QED BY <1>5 DEF Visited, A, B

(* What a destroy gives back: frames of the pool, closed upwards and         *)
(* downwards but for the kernel entry.                                       *)
LEMMA Owned ==
    ASSUME TypeOK, NEW rank, Tree(rank), NEW root \in roots
    PROVE  /\ OwnedTables(root) \subseteq Frames
           /\ root \in OwnedTables(root)
           /\ \A t \in OwnedTables(root) : rank[t] \in 1..Levels /\ (rank[t] = 1 => t = root)
           /\ \A t \in OwnedTables(root), u \in Tables, j \in Indices :
                 rank[t] >= 2 /\ table[u][j] = t => u \in OwnedTables(root)
           /\ \A t \in OwnedTables(root), i \in Indices :
                 rank[t] \in Inner /\ table[t][i] \notin {Nil, KernelTable} =>
                    table[t][i] \in OwnedTables(root)
<1> DEFINE ours == Indices \ {KernelIndex}
           L == VisitedByLevel(ours, root)
<1>1. root \in Tables /\ rank[root] = 1 /\ root # BootRoot
    BY AddressSpaceAssumption DEF TypeOK, Tree, Ranked, Tables
<1>2. \A d \in 1..Levels : \A t \in L[d] : t \in Tables /\ rank[t] = d
    BY <1>1, LevelsAreRanks
<1>3. /\ L[1] = {root}
      /\ \A d \in 2..Levels : \A t :
            t \in L[d] <=> \E u \in L[d - 1], i \in IF d = 2 THEN ours ELSE Indices : t = table[u][i] /\ t # Nil
    BY Members
<1>4. OwnedTables(root) = UNION {L[d] : d \in 1..Levels}
    BY DEF OwnedTables, Visited
<1> HIDE DEF L
<1>5. Levels \in Nat /\ Levels >= 2 /\ rank \in [Tables -> 0..Levels]
    BY AddressSpaceAssumption DEF Tree, Ranked
<1>6. \A t \in OwnedTables(root) : t \in Tables /\ rank[t] \in 1..Levels /\ t \in L[rank[t]]
    BY <1>2, <1>4
<1>7. root \in OwnedTables(root)
    BY <1>3, <1>4, <1>5
<1>8. \A t \in OwnedTables(root) : rank[t] = 1 => t = root
    BY <1>3, <1>6
<1>9. \A t \in OwnedTables(root) : rank[t] >= 2 =>
         \E u \in OwnedTables(root), i \in IF rank[t] = 2 THEN ours ELSE Indices :
            u \in Tables /\ rank[u] = rank[t] - 1 /\ t = table[u][i] /\ t # Nil
    <2> SUFFICES ASSUME NEW t \in OwnedTables(root), rank[t] >= 2
                 PROVE  \E u \in OwnedTables(root), i \in IF rank[t] = 2 THEN ours ELSE Indices :
                           u \in Tables /\ rank[u] = rank[t] - 1 /\ t = table[u][i] /\ t # Nil
        OBVIOUS
    <2>1. rank[t] \in 2..Levels /\ rank[t] - 1 \in 1..Levels /\ t \in L[rank[t]]
        BY <1>5, <1>6
    <2>2. PICK u \in L[rank[t] - 1], i \in IF rank[t] = 2 THEN ours ELSE Indices : t = table[u][i] /\ t # Nil
        BY <1>3, <2>1
    <2>3. u \in OwnedTables(root) /\ u \in Tables /\ rank[u] = rank[t] - 1
        BY <1>2, <1>4, <2>1, <2>2
    <2> QED BY <2>2, <2>3
<1>10. KernelTable \notin OwnedTables(root) /\ BootRoot \notin OwnedTables(root)
    <2>1. rank[KernelTable] = 2 /\ rank[BootRoot] = 1
        BY DEF Tree, Ranked, Tables
    <2>2. BootRoot \notin OwnedTables(root)
        BY <1>1, <1>8, <2>1
    <2>3. ASSUME KernelTable \in OwnedTables(root) PROVE FALSE
        <3>1. PICK u \in OwnedTables(root), i \in ours : u \in Tables /\ KernelTable = table[u][i]
            BY <1>9, <2>1, <2>3
        <3> QED BY <3>1 DEF Tree, Branches
    <2> QED BY <2>2, <2>3
<1>11. OwnedTables(root) \subseteq Frames
    BY <1>6, <1>10 DEF Tables
<1>12. ASSUME NEW t \in OwnedTables(root), NEW u \in Tables, NEW j \in Indices,
              rank[t] >= 2, table[u][j] = t
       PROVE  u \in OwnedTables(root)
    <2>1. PICK v \in OwnedTables(root), i \in Indices :
             v \in Tables /\ rank[v] = rank[t] - 1 /\ t = table[v][i] /\ t # Nil
        BY <1>9, <1>12
    <2>2. rank[v] \in Inner
        BY <1>5, <1>6, <1>12, <2>1 DEF Inner
    <2>3. t \notin pages \union Devices
        BY <1>6, <1>11, <1>12, AddressSpaceAssumption DEF Tree, Ranked
    <2>4. rank[u] \in Inner
        <3>1. rank[u] # 0
            BY <1>12, <2>1 DEF Tree, Branches
        <3>2. rank[u] # Levels
            BY <1>12, <2>1, <2>3 DEF Tree, Branches
        <3> QED BY <1>5, <3>1, <3>2 DEF Inner
    <2>5. t # KernelTable
        BY <1>10, <1>12
    <2>6. u = v
        BY <1>12, <2>1, <2>2, <2>4, <2>5 DEF Tree, OneWayIn
    <2> QED BY <2>1, <2>6
<1>13. ASSUME NEW t \in OwnedTables(root), NEW i \in Indices,
              rank[t] \in Inner, table[t][i] \notin {Nil, KernelTable}
       PROVE  table[t][i] \in OwnedTables(root)
    <2>1. t \in Tables /\ t \in L[rank[t]]
        BY <1>6
    <2>2. rank[t] + 1 \in 2..Levels /\ (rank[t] + 1) - 1 = rank[t]
        BY <1>5, <1>13 DEF Inner
    <2>3. rank[t] + 1 = 2 => i \in ours
        <3>1. ASSUME rank[t] = 1, i = KernelIndex PROVE FALSE
            BY <1>13, <2>1, <3>1 DEF Tree, Branches
        <3> QED BY <1>13, <3>1 DEF Inner
    <2>4. \E u \in L[(rank[t] + 1) - 1], k \in IF rank[t] + 1 = 2 THEN ours ELSE Indices :
             table[t][i] = table[u][k] /\ table[t][i] # Nil
        BY <1>13, <2>1, <2>2, <2>3
    <2>5. table[t][i] \in L[rank[t] + 1]
        BY <1>3, <2>2, <2>4
    <2> QED BY <1>4, <2>2, <2>5
<1> QED BY <1>6, <1>7, <1>8, <1>11, <1>12, <1>13

-----------------------------------------------------------------------------
(* A destroy keeps the invariant: what it clears is no table any more.       *)
LEMMA DestroyIInv ==
    ASSUME NEW root \in Frames, IInv, quanta_address_space_destroy(root)
    PROVE  IInv'
<1>1. PICK rank : Tree(rank) /\ OnTheWay(rank)
    BY DEF IInv
<1>2. PICK R : R = OwnedTables(root)
    OBVIOUS
<1>3. /\ TypeOK /\ walk = Idle /\ root \in roots /\ root # active
      /\ free' = free \union R /\ roots' = roots \ {root}
      /\ table' = [t \in Tables |-> IF t \in R THEN Clear ELSE table[t]]
      /\ UNCHANGED <<pages, active, walk>>
    BY <1>2 DEF IInv, quanta_address_space_destroy, Released
<1>4. /\ R \subseteq Frames /\ root \in R
      /\ \A t \in R : rank[t] \in 1..Levels /\ (rank[t] = 1 => t = root)
      /\ \A t \in R, u \in Tables, j \in Indices : rank[t] >= 2 /\ table[u][j] = t => u \in R
      /\ \A t \in R, i \in Indices :
            rank[t] \in Inner /\ table[t][i] \notin {Nil, KernelTable} => table[t][i] \in R
    BY <1>1, <1>2, <1>3, Owned
<1>5. /\ rank \in [Tables -> 0..Levels] /\ Levels \in Nat \ {0, 1} /\ rank[BootRoot] = 1 /\ rank[KernelTable] = 2
      /\ BootRoot \in Tables \ R /\ KernelTable \in Tables \ R /\ KernelTable # Nil
    BY <1>1, <1>4, AddressSpaceAssumption DEF Tree, Ranked, Tables
<1>6. /\ table' \in [Tables -> [Indices -> Tables \union Devices \union {Nil}]]
      /\ \A t \in Tables, i \in Indices : table'[t][i] = IF t \in R THEN Nil ELSE table[t][i]
    BY <1>3 DEF TypeOK, Clear
<1>7. PICK r : r = [t \in Tables |-> IF t \in R THEN 0 ELSE rank[t]]
    OBVIOUS
<1>8. r \in [Tables -> 0..Levels] /\ \A t \in Tables : r[t] = IF t \in R THEN 0 ELSE rank[t]
    BY <1>5, <1>7
<1>9. R \intersect pages = {} /\ R \intersect roots = {root}
    <2>1. \A t \in R : t \in Tables /\ rank[t] # 0
        BY <1>4 DEF Tables
    <2> QED BY <1>1, <1>3, <1>4, <2>1 DEF Tree, Ranked
<1>10. TypeOK'
    BY <1>3, <1>4, <1>6, <1>9 DEF TypeOK
<1>11. Ranked(r)'
    <2>1. \A t \in Tables : r[t] = 0 <=> t \in free' \union pages'
        BY <1>1, <1>3, <1>8 DEF Tree, Ranked
    <2>2. \A t \in Tables : r[t] = 1 <=> t \in roots' \union {BootRoot}
        BY <1>1, <1>3, <1>4, <1>5, <1>8, <1>9 DEF Tree, Ranked
    <2> QED BY <1>5, <1>8, <2>1, <2>2 DEF Ranked
<1>12. \A t \in Tables \ R, i \in Indices :
          rank[t] \in Inner /\ table[t][i] # Nil => r[table[t][i]] = rank[t] + 1 /\ table[t][i] \in Tables
    <2> SUFFICES ASSUME NEW t \in Tables \ R, NEW i \in Indices, rank[t] \in Inner, table[t][i] # Nil
                 PROVE  r[table[t][i]] = rank[t] + 1 /\ table[t][i] \in Tables
        OBVIOUS
    <2>1. table[t][i] \in Tables /\ rank[table[t][i]] = rank[t] + 1
        BY <1>1 DEF Tree, Branches
    <2>2. rank[t] + 1 >= 2
        BY <1>5 DEF Inner
    <2>3. table[t][i] \notin R
        BY <1>4, <2>1, <2>2
    <2> QED BY <1>8, <2>1, <2>3
<1>13. Branches(r)'
    <2>1. ASSUME NEW t \in Tables, NEW i \in Indices
          PROVE  /\ r[t] = 0 => table'[t][i] = Nil
                 /\ r[t] \in Inner /\ table'[t][i] # Nil =>
                       table'[t][i] \in Tables /\ r[table'[t][i]] = r[t] + 1
                 /\ r[t] = Levels => table'[t][i] \in pages \union Devices \union {Nil}
                 /\ table'[t][i] = KernelTable <=> r[t] = 1 /\ i = KernelIndex
        <3>1. CASE t \in R
            BY <1>5, <1>6, <1>8, <3>1 DEF Inner
        <3>2. CASE t \notin R
            <4>1. table'[t][i] = table[t][i] /\ r[t] = rank[t]
                BY <1>6, <1>8, <3>2
            <4>2. rank[t] \in Inner /\ table[t][i] # Nil =>
                     r[table[t][i]] = rank[t] + 1 /\ table[t][i] \in Tables
                BY <1>12, <3>2
            <4> QED BY <1>1, <4>1, <4>2 DEF Tree, Branches
        <3> QED BY <3>1, <3>2
    <2>2. \A i \in Indices \ {KernelIndex} : table'[BootRoot][i] = Nil
        BY <1>1, <1>5, <1>6 DEF Tree, Branches
    <2> QED BY <1>3, <2>1, <2>2 DEF Branches
<1>14. OneWayIn(r)'
    <2> SUFFICES ASSUME NEW t \in Tables, NEW u \in Tables, NEW i \in Indices, NEW j \in Indices,
                        r[t] \in Inner, r[u] \in Inner, table'[t][i] = table'[u][j],
                        table'[t][i] # Nil, table'[t][i] # KernelTable
                 PROVE  t = u /\ i = j
        BY DEF OneWayIn
    <2>1. t \notin R /\ u \notin R
        BY <1>8 DEF Inner
    <2>2. /\ rank[t] \in Inner /\ rank[u] \in Inner
          /\ table'[t][i] = table[t][i] /\ table'[u][j] = table[u][j]
        BY <1>6, <1>8, <2>1
    <2>3. table[t][i] = table[u][j] /\ table[t][i] \notin {Nil, KernelTable}
        BY <2>2
    <2>4. OneWayIn(rank)
        BY <1>1 DEF Tree
    <2> QED BY <2>2, <2>3, <2>4 DEF OneWayIn
<1>15. Reached(r)'
    <2> SUFFICES ASSUME NEW t \in Tables, r[t] >= 2
                 PROVE  \E u \in Tables, i \in Indices : r[u] = r[t] - 1 /\ table'[u][i] = t
        BY DEF Reached
    <2>1. t \notin R /\ r[t] = rank[t]
        BY <1>8
    <2>2. PICK u \in Tables, i \in Indices : rank[u] = rank[t] - 1 /\ table[u][i] = t
        BY <1>1, <2>1 DEF Tree, Reached
    <2>3. CASE u \notin R
        BY <1>6, <1>8, <2>1, <2>2, <2>3
    <2>4. CASE u \in R
        <3>1. rank[u] \in Inner /\ t # Nil
            BY <1>5, <2>1, <2>2, AddressSpaceAssumption DEF Inner, Tables
        <3>2. t = KernelTable
            BY <1>4, <2>1, <2>2, <2>4, <3>1
        <3>3. table'[BootRoot][KernelIndex] = t /\ r[BootRoot] = r[t] - 1
            BY <1>1, <1>5, <1>6, <1>8, <3>2, AddressSpaceAssumption DEF Tree, Branches
        <3> QED BY <1>5, <3>3, AddressSpaceAssumption
    <2> QED BY <2>3, <2>4
<1> QED BY <1>3, <1>10, <1>11, <1>13, <1>14, <1>15 DEF IInv, Tree, OnTheWay

LEMMA StepIInv == IInv /\ [Next]_vars => IInv'
<1> SUFFICES ASSUME IInv, [Next]_vars PROVE IInv'
    OBVIOUS
<1>1. ASSUME NEW frame \in Frames, EnterUser(frame) PROVE IInv'
    <2>1. TypeOK'
        BY <1>1 DEF EnterUser, IInv, TypeOK
    <2> QED BY <1>1, <2>1 DEF EnterUser, IInv, Tree, Ranked, Branches, OneWayIn, Reached, OnTheWay
<1>2. CASE UNCHANGED vars
    <2>1. UNCHANGED <<table, free, roots, pages, active, walk>>
        BY <1>2 DEF vars
    <2>2. TypeOK'
        BY <2>1 DEF IInv, TypeOK
    <2>3. PICK rank : Tree(rank) /\ OnTheWay(rank)
        BY DEF IInv
    <2>4. Tree(rank)'
        BY <2>1, <2>3 DEF Tree, Ranked, Branches, OneWayIn, Reached
    <2>5. OnTheWay(rank)'
        BY <2>1, <2>3 DEF OnTheWay
    <2> QED BY <2>2, <2>4, <2>5 DEF IInv
<1> QED BY <1>1, <1>2, CreateIInv, AllocateIInv, NewTableIInv, DestroyIInv, MapBeginsIInv, DescendIInv,
           PanicIInv, MapLeafIInv DEF Next

LEMMA Inductive == Spec => []IInv
<1> QED BY InitIInv, StepIInv, PTL DEF Spec

-----------------------------------------------------------------------------
(* Every table is the kernel's or some space's, since something leads to it. *)
LEMMA NothingIsLost ==
    ASSUME TypeOK, NEW rank, Tree(rank)
    PROVE  \A t \in Tables : rank[t] # 0 => t \in KernelTables \union UNION {OwnedTables(r) : r \in roots}
<1> DEFINE ours == Indices \ {KernelIndex}
           L(r) == VisitedByLevel(ours, r)
           K == VisitedByLevel({KernelIndex}, BootRoot)
           Seen(d) == K[d] \union UNION {L(r)[d] : r \in roots}
           S == {n \in Nat : n + 1 \in 1..Levels => \A t \in Tables : rank[t] = n + 1 => t \in Seen(n + 1)}
<1>1. /\ \A r \in roots : L(r)[1] = {r}
      /\ \A r \in roots, d \in 2..Levels : \A t :
            (\E u \in L(r)[d - 1], i \in IF d = 2 THEN ours ELSE Indices : t = table[u][i] /\ t # Nil)
               => t \in L(r)[d]
      /\ K[1] = {BootRoot}
      /\ \A d \in 2..Levels : \A t :
            (\E u \in K[d - 1], i \in IF d = 2 THEN {KernelIndex} ELSE Indices : t = table[u][i] /\ t # Nil)
               => t \in K[d]
    BY Members
<1> HIDE DEF L, K
<1>2. Levels \in Nat \ {0, 1} /\ rank \in [Tables -> 0..Levels] /\ Nil \notin Tables
    BY AddressSpaceAssumption DEF Tree, Ranked, Tables
<1>3. 0 \in S
    BY <1>1 DEF Tree, Ranked
<1>4. ASSUME NEW n \in Nat, n \in S PROVE n + 1 \in S
    <2> SUFFICES ASSUME (n + 1) + 1 \in 1..Levels, NEW t \in Tables, rank[t] = (n + 1) + 1
                 PROVE  t \in Seen((n + 1) + 1)
        OBVIOUS
    <2>1. /\ (n + 1) + 1 \in 2..Levels /\ ((n + 1) + 1) - 1 = n + 1 /\ n + 1 \in 1..Levels
          /\ rank[t] >= 2 /\ rank[t] - 1 = n + 1
        BY <1>2
    <2>2. PICK u \in Tables, i \in Indices : rank[u] = n + 1 /\ table[u][i] = t
        BY <2>1 DEF Tree, Reached
    <2>3. u \in Seen(n + 1) /\ t # Nil
        BY <1>2, <1>4, <2>1, <2>2
    <2>4. CASE n = 0
        <3>1. u \in roots \union {BootRoot}
            BY <2>2, <2>4 DEF Tree, Ranked
        <3>2. i = KernelIndex => t = KernelTable /\ table[BootRoot][KernelIndex] = t
            <4>1. rank[BootRoot] = 1 /\ rank[u] = 1 /\ KernelIndex \in Indices /\ BootRoot \in Tables
                BY <2>2, <2>4, AddressSpaceAssumption DEF Tree, Ranked, Tables
            <4> QED BY <2>2, <4>1 DEF Tree, Branches
        <3>3. u = BootRoot => i = KernelIndex
            BY <2>2, <2>3 DEF Tree, Branches
        <3>4. CASE i = KernelIndex
            <4>1. t \in K[2]
                BY <1>1, <2>1, <2>3, <2>4, <3>2, <3>4
            <4> QED BY <2>4, <4>1
        <3>5. CASE i # KernelIndex
            <4>1. u \in roots /\ u \in L(u)[1] /\ i \in ours
                BY <1>1, <3>1, <3>3, <3>5
            <4>2. t \in L(u)[2]
                BY <1>1, <2>1, <2>2, <2>3, <2>4, <4>1
            <4> QED BY <2>4, <4>1, <4>2
        <3> QED BY <3>4, <3>5
    <2>5. CASE n # 0
        <3>1. (n + 1) + 1 # 2
            BY <2>5
        <3>2. CASE u \in K[n + 1]
            <4>1. t \in K[(n + 1) + 1]
                BY <1>1, <2>1, <2>2, <2>3, <3>1, <3>2
            <4> QED BY <4>1
        <3>3. ASSUME NEW r \in roots, u \in L(r)[n + 1] PROVE t \in Seen((n + 1) + 1)
            <4>1. t \in L(r)[(n + 1) + 1]
                BY <1>1, <2>1, <2>2, <2>3, <3>1, <3>3
            <4> QED BY <4>1
        <3> QED BY <2>3, <3>2, <3>3
    <2> QED BY <2>4, <2>5
<1> HIDE DEF S
<1>5. Nat \subseteq S
    BY <1>3, <1>4, SetInduction
<1> USE DEF S
<1>6. ASSUME NEW t \in Tables, rank[t] # 0
      PROVE  t \in KernelTables \union UNION {OwnedTables(r) : r \in roots}
    <2>1. rank[t] \in 1..Levels /\ rank[t] - 1 \in Nat /\ (rank[t] - 1) + 1 = rank[t]
        BY <1>2, <1>6
    <2>2. t \in Seen(rank[t])
        <3>1. rank[t] - 1 \in S
            BY <1>5, <2>1
        <3> QED BY <2>1, <3>1
    <2>3. CASE t \in K[rank[t]]
        BY <2>1, <2>3 DEF KernelTables, Visited, K
    <2>4. ASSUME NEW r \in roots, t \in L(r)[rank[t]]
          PROVE  t \in OwnedTables(r)
        BY <2>1, <2>4 DEF OwnedTables, Visited, L
    <2> QED BY <2>2, <2>3, <2>4
<1> QED BY <1>6

(* The invariant gives the two properties.                                   *)
LEMMA RolesAreExclusive == IInv => EveryFrameHasOneRole
<1> SUFFICES ASSUME IInv PROVE EveryFrameHasOneRole
    OBVIOUS
<1>1. PICK rank : Tree(rank)
    BY DEF IInv
<1>2. TypeOK
    BY DEF IInv
<1>3. /\ \A r \in roots : r \in Tables /\ rank[r] = 1 /\ r # BootRoot
      /\ BootRoot \in Tables /\ rank[BootRoot] = 1
    BY <1>1, <1>2, AddressSpaceAssumption DEF Tree, Ranked, TypeOK, Tables
<1>4. \A t \in Frames : t \in Tables /\ (rank[t] = 0 <=> t \in free \union pages)
    BY <1>1 DEF Tree, Ranked, Tables
<1>5. \A t \in KernelTables : t \in Tables /\ rank[t] # 0
    <2>1. \A d \in 1..Levels : \A t \in VisitedByLevel({KernelIndex}, BootRoot)[d] : t \in Tables /\ rank[t] = d
        BY <1>1, <1>3, LevelsAreRanks, AddressSpaceAssumption
    <2>2. \A d \in 1..Levels : d # 0
        BY AddressSpaceAssumption
    <2> QED BY <2>1, <2>2 DEF KernelTables, Visited
<1>6. ASSUME NEW r \in roots
      PROVE  OwnedTables(r) \subseteq Frames \ (free \union pages \union KernelTables)
    <2>1. OwnedTables(r) \subseteq Frames /\ \A t \in OwnedTables(r) : rank[t] # 0
        <3>1. \A d \in 1..Levels : d # 0
            BY AddressSpaceAssumption
        <3> QED BY <1>1, <1>2, <3>1, Owned
    <2>2. OwnedTables(r) \intersect KernelTables = {}
        <3>1. {KernelIndex} \subseteq Indices /\ Indices \ {KernelIndex} \subseteq Indices \ {KernelIndex}
            BY AddressSpaceAssumption
        <3> QED BY <1>1, <1>3, <3>1, VisitsAreApart DEF OwnedTables, KernelTables
    <2> QED BY <1>4, <2>1, <2>2
<1>7. ASSUME NEW r \in roots, NEW s \in roots \ {r}
      PROVE  OwnedTables(r) \intersect OwnedTables(s) = {}
    BY <1>1, <1>3, VisitsAreApart DEF OwnedTables
<1>8. KernelTables \intersect (free \union pages) = {}
    <2>1. free \union pages \subseteq Frames
        BY <1>2 DEF TypeOK
    <2> QED BY <1>4, <1>5, <2>1
<1>9. Frames \subseteq free \union pages \union KernelTables \union UNION {OwnedTables(r) : r \in roots}
    BY <1>1, <1>2, <1>4, NothingIsLost
<1> QED BY <1>6, <1>7, <1>8, <1>9 DEF EveryFrameHasOneRole

LEMMA TheSameKernel == IInv => KernelHalfShared
<1> SUFFICES ASSUME IInv, NEW r \in roots, NEW va \in KernelAddresses
             PROVE  Translation(r, va) = Translation(BootRoot, va)
    BY DEF KernelHalfShared
<1>1. PICK rank : Tree(rank)
    BY DEF IInv
<1>2. /\ table[r][KernelIndex] = KernelTable /\ table[BootRoot][KernelIndex] = KernelTable
      /\ r # Nil /\ BootRoot # Nil
    BY <1>1, AddressSpaceAssumption DEF IInv, TypeOK, Tree, Ranked, Branches, Tables
<1>3. va[1] = KernelIndex
    BY DEF KernelAddresses, UserAddresses
<1> DEFINE A == Entries(r, va)
           B == Entries(BootRoot, va)
           S == {n \in Nat : n + 1 \in 0..Levels => A[n + 1] = B[n + 1]}
<1>4. /\ A[0] = r /\ B[0] = BootRoot
      /\ \A d \in 1..Levels : /\ A[d] = IF A[d - 1] = Nil THEN Nil ELSE table[A[d - 1]][va[d]]
                              /\ B[d] = IF B[d - 1] = Nil THEN Nil ELSE table[B[d - 1]][va[d]]
    BY EntriesStep DEF StepByStep
<1> HIDE DEF A, B
<1>5. 0 \in S
    <2>1. 1 \in 1..Levels /\ 1 - 1 = 0
        BY AddressSpaceAssumption
    <2>2. A[1] = KernelTable /\ B[1] = KernelTable
        BY <1>2, <1>3, <1>4, <2>1
    <2> QED BY <2>2
<1>6. ASSUME NEW n \in Nat, n \in S PROVE n + 1 \in S
    <2> SUFFICES ASSUME (n + 1) + 1 \in 0..Levels PROVE A[(n + 1) + 1] = B[(n + 1) + 1]
        OBVIOUS
    <2>1. (n + 1) + 1 \in 1..Levels /\ ((n + 1) + 1) - 1 = n + 1 /\ n + 1 \in 0..Levels
        BY AddressSpaceAssumption
    <2> QED BY <1>4, <1>6, <2>1
<1> HIDE DEF S
<1>7. Nat \subseteq S
    BY <1>5, <1>6, SetInduction
<1> USE DEF S
<1>8. A[Levels] = B[Levels]
    <2>1. Levels - 1 \in Nat /\ (Levels - 1) + 1 = Levels /\ Levels \in 0..Levels
        BY AddressSpaceAssumption
    <2> QED BY <1>7, <2>1
<1> QED BY <1>8 DEF Translation, A, B

-----------------------------------------------------------------------------
(* Addresses a space may be asked for.                                       *)
Valid(root, va) ==
    \/ root \in roots /\ va \in UserAddresses
    \/ root = BootRoot /\ va \in KernelAddresses

LEMMA ValidIs ==
    ASSUME TypeOK, NEW rank, Tree(rank), NEW root, NEW va, Valid(root, va)
    PROVE  /\ root \in Tables /\ rank[root] = 1 /\ va \in [1..Levels -> Indices]
           /\ root = BootRoot <=> va[1] = KernelIndex
BY AddressSpaceAssumption DEF Valid, TypeOK, Tree, Ranked, Tables, UserAddresses, KernelAddresses, Addresses

LEMMA WalkIsValid ==
    ASSUME TypeOK, NEW rank, OnTheWay(rank), walk # Idle
    PROVE  Valid(walk.root, walk.va)
BY DEF TypeOK, OnTheWay, Walk, Valid, UserAddresses, KernelAddresses

(* What the processor passes through has the rank of the level.              *)
LEMMA EntriesAreRanks ==
    ASSUME TypeOK, NEW rank, Tree(rank), NEW root, NEW va, Valid(root, va)
    PROVE  \A d \in 0..Levels - 1 :
              Entries(root, va)[d] # Nil =>
                 Entries(root, va)[d] \in Tables /\ rank[Entries(root, va)[d]] = d + 1
<1> DEFINE E == Entries(root, va)
           S == {n \in Nat : n \in 0..Levels - 1 => E[n] = Nil \/ (E[n] \in Tables /\ rank[E[n]] = n + 1)}
<1>1. /\ E[0] = root
      /\ \A d \in 1..Levels : E[d] = IF E[d - 1] = Nil THEN Nil ELSE table[E[d - 1]][va[d]]
    BY EntriesStep DEF StepByStep
<1>2. root \in Tables /\ rank[root] = 1 /\ va \in [1..Levels -> Indices]
    BY ValidIs
<1> HIDE DEF E
<1>3. 0 \in S
    BY <1>1, <1>2
<1>4. ASSUME NEW n \in Nat, n \in S PROVE n + 1 \in S
    <2> SUFFICES ASSUME n + 1 \in 0..Levels - 1, E[n + 1] # Nil
                 PROVE  E[n + 1] \in Tables /\ rank[E[n + 1]] = (n + 1) + 1
        OBVIOUS
    <2>1. n + 1 \in 1..Levels /\ (n + 1) - 1 = n /\ n \in 0..Levels - 1 /\ n + 1 \in Inner
        BY AddressSpaceAssumption DEF Inner
    <2>2. E[n] # Nil /\ E[n + 1] = table[E[n]][va[n + 1]]
        BY <1>1, <2>1
    <2>3. E[n] \in Tables /\ rank[E[n]] = n + 1 /\ va[n + 1] \in Indices
        BY <1>2, <1>4, <2>1, <2>2
    <2> QED BY <2>1, <2>2, <2>3 DEF Tree, Branches
<1> HIDE DEF S
<1>5. Nat \subseteq S
    BY <1>3, <1>4, SetInduction
<1> USE DEF S
<1>6. 0..Levels - 1 \subseteq Nat
    BY AddressSpaceAssumption
<1> QED BY <1>5, <1>6 DEF E

(* Two addresses that meet in a table have come the same way.                *)
LEMMA OnlyOneWay ==
    ASSUME TypeOK, NEW rank, Tree(rank), NEW r, NEW va, Valid(r, va), NEW s, NEW vb, Valid(s, vb)
    PROVE  \A d \in 0..Levels - 1 :
              Entries(r, va)[d] = Entries(s, vb)[d] /\ Entries(r, va)[d] # Nil =>
                 r = s /\ \A e \in 1..d : va[e] = vb[e]
<1> DEFINE A == Entries(r, va)
           B == Entries(s, vb)
           Same(n) == A[n] = B[n] /\ A[n] # Nil => r = s /\ \A e \in 1..n : va[e] = vb[e]
           S == {n \in Nat : n \in 0..Levels - 1 => Same(n)}
<1>1. /\ A[0] = r /\ B[0] = s
      /\ \A d \in 1..Levels : /\ A[d] = IF A[d - 1] = Nil THEN Nil ELSE table[A[d - 1]][va[d]]
                              /\ B[d] = IF B[d - 1] = Nil THEN Nil ELSE table[B[d - 1]][vb[d]]
    BY EntriesStep DEF StepByStep
<1>2. /\ r \in Tables /\ va \in [1..Levels -> Indices] /\ (r = BootRoot <=> va[1] = KernelIndex)
      /\ s \in Tables /\ vb \in [1..Levels -> Indices] /\ (s = BootRoot <=> vb[1] = KernelIndex)
    BY ValidIs
<1>3. \A d \in 0..Levels - 1 : /\ A[d] # Nil => A[d] \in Tables /\ rank[A[d]] = d + 1
                               /\ B[d] # Nil => B[d] \in Tables /\ rank[B[d]] = d + 1
    BY EntriesAreRanks
<1> HIDE DEF A, B
<1>4. 0 \in S
    BY <1>1
<1>5. ASSUME NEW n \in Nat, n \in S PROVE n + 1 \in S
    <2> SUFFICES ASSUME n + 1 \in 0..Levels - 1, A[n + 1] = B[n + 1], A[n + 1] # Nil
                 PROVE  r = s /\ \A e \in 1..n + 1 : va[e] = vb[e]
        OBVIOUS
    <2>1. n + 1 \in 1..Levels /\ (n + 1) - 1 = n /\ n \in 0..Levels - 1 /\ n + 1 \in Inner
        BY AddressSpaceAssumption DEF Inner
    <2>2. /\ A[n] # Nil /\ A[n + 1] = table[A[n]][va[n + 1]]
          /\ B[n] # Nil /\ B[n + 1] = table[B[n]][vb[n + 1]]
        BY <1>1, <2>1
    <2>3. /\ A[n] \in Tables /\ rank[A[n]] = n + 1 /\ va[n + 1] \in Indices
          /\ B[n] \in Tables /\ rank[B[n]] = n + 1 /\ vb[n + 1] \in Indices
        BY <1>2, <1>3, <2>1, <2>2
    <2>4. A[n] = B[n] /\ va[n + 1] = vb[n + 1]
        <3>1. CASE A[n + 1] = KernelTable
            <4>1. n + 1 = 1 /\ va[n + 1] = KernelIndex /\ vb[n + 1] = KernelIndex
                BY <2>2, <2>3, <3>1 DEF Tree, Branches
            <4>2. n = 0 /\ va[1] = KernelIndex /\ vb[1] = KernelIndex
                BY <4>1
            <4> QED BY <1>1, <1>2, <4>1, <4>2
        <3>2. CASE A[n + 1] # KernelTable
            <4>1. table[A[n]][va[n + 1]] = table[B[n]][vb[n + 1]]
                BY <2>2
            <4>2. table[A[n]][va[n + 1]] \notin {Nil, KernelTable}
                BY <2>2, <3>2
            <4>3. OneWayIn(rank)
                BY DEF Tree
            <4> QED BY <2>1, <2>3, <4>1, <4>2, <4>3 DEF OneWayIn
        <3> QED BY <3>1, <3>2
    <2>5. r = s /\ \A e \in 1..n : va[e] = vb[e]
        BY <1>5, <2>1, <2>2, <2>4
    <2>6. \A e \in 1..n + 1 : e \in 1..n \/ e = n + 1
        OBVIOUS
    <2> QED BY <2>4, <2>5, <2>6
<1> HIDE DEF S
<1>6. Nat \subseteq S
    BY <1>4, <1>5, SetInduction
<1> USE DEF S
<1>7. 0..Levels - 1 \subseteq Nat
    BY AddressSpaceAssumption
<1> QED BY <1>6, <1>7 DEF A, B

(* A step that leaves alone the entries an address uses leaves it where it   *)
(* was.                                                                      *)
LEMMA EntriesKept ==
    ASSUME NEW root, NEW va, NEW n \in 0..Levels,
           \A d \in 0..n - 1 : Entries(root, va)[d] # Nil =>
              table'[Entries(root, va)[d]][va[d + 1]] = table[Entries(root, va)[d]][va[d + 1]]
    PROVE  \A d \in 0..n : Entries(root, va)'[d] = Entries(root, va)[d]
<1> DEFINE E == Entries(root, va)
           F == Entries(root, va)'
           S == {k \in Nat : k \in 0..n => F[k] = E[k]}
<1>1. /\ E[0] = root
      /\ \A d \in 1..Levels : E[d] = IF E[d - 1] = Nil THEN Nil ELSE table[E[d - 1]][va[d]]
    BY EntriesStep DEF StepByStep
<1>2. /\ F[0] = root
      /\ \A d \in 1..Levels : F[d] = IF F[d - 1] = Nil THEN Nil ELSE table'[F[d - 1]][va[d]]
    <2>1. StepByStep'
        BY EntriesStep, PTL
    <2> QED BY <2>1 DEF StepByStep
<1>3. Levels \in Nat
    BY AddressSpaceAssumption
<1>4. \A d \in 0..n - 1 : E[d] # Nil => table'[E[d]][va[d + 1]] = table[E[d]][va[d + 1]]
    OBVIOUS
<1> HIDE DEF E, F
<1>5. 0 \in S
    BY <1>1, <1>2
<1>6. ASSUME NEW k \in Nat, k \in S PROVE k + 1 \in S
    <2> SUFFICES ASSUME k + 1 \in 0..n PROVE F[k + 1] = E[k + 1]
        OBVIOUS
    <2>1. k + 1 \in 1..Levels /\ (k + 1) - 1 = k /\ k \in 0..n - 1 /\ k \in 0..n
        BY <1>3
    <2>2. /\ E[k + 1] = IF E[k] = Nil THEN Nil ELSE table[E[k]][va[k + 1]]
          /\ F[k + 1] = IF F[k] = Nil THEN Nil ELSE table'[F[k]][va[k + 1]]
        BY <1>1, <1>2, <2>1
    <2>3. F[k] = E[k]
        BY <1>6, <2>1
    <2> QED BY <1>4, <2>1, <2>2, <2>3
<1> HIDE DEF S
<1>7. Nat \subseteq S
    BY <1>5, <1>6, SetInduction
<1> USE DEF S
<1>8. 0..n \subseteq Nat
    OBVIOUS
<1> QED BY <1>7, <1>8 DEF E, F

(* Below an absent entry there is nothing.                                   *)
NothingBelowNil ==
    \A root, va : \A d \in 0..Levels : Entries(root, va)[d] = Nil => Entries(root, va)[Levels] = Nil

LEMMA NilStays == NothingBelowNil
<1> SUFFICES ASSUME NEW root, NEW va, NEW d \in 0..Levels, Entries(root, va)[d] = Nil
             PROVE  Entries(root, va)[Levels] = Nil
    BY DEF NothingBelowNil
<1> DEFINE E == Entries(root, va)
           S == {n \in Nat : d + n \in 0..Levels => E[d + n] = Nil}
<1>1. \A e \in 1..Levels : E[e] = IF E[e - 1] = Nil THEN Nil ELSE table[E[e - 1]][va[e]]
    BY EntriesStep DEF StepByStep
<1>2. Levels \in Nat /\ E[d] = Nil
    BY AddressSpaceAssumption
<1> HIDE DEF E
<1>3. 0 \in S
    BY <1>2
<1>4. ASSUME NEW n \in Nat, n \in S PROVE n + 1 \in S
    <2> SUFFICES ASSUME d + (n + 1) \in 0..Levels PROVE E[d + (n + 1)] = Nil
        OBVIOUS
    <2>1. d + (n + 1) \in 1..Levels /\ (d + (n + 1)) - 1 = d + n /\ d + n \in 0..Levels
        BY <1>2
    <2>2. E[d + n] = Nil
        BY <1>4, <2>1
    <2>3. E[d + (n + 1)] = IF E[(d + (n + 1)) - 1] = Nil THEN Nil
                           ELSE table[E[(d + (n + 1)) - 1]][va[d + (n + 1)]]
        BY <1>1, <2>1
    <2> QED BY <2>1, <2>2, <2>3
<1> HIDE DEF S
<1>5. Nat \subseteq S
    BY <1>3, <1>4, SetInduction
<1> USE DEF S
<1>6. Levels - d \in Nat /\ d + (Levels - d) = Levels /\ Levels \in 0..Levels
    BY <1>2
<1>7. E[Levels] = Nil
    BY <1>5, <1>6
<1> QED BY <1>7 DEF E

-----------------------------------------------------------------------------
(* What table_for does to the entries when it makes a table.                 *)
LEMMA NewTableFacts ==
    ASSUME NEW frame \in Frames, NEW rank, TypeOK, Tree(rank), OnTheWay(rank), TableForAbsent(frame)
    PROVE  /\ walk # Idle /\ walk \in Walk
           /\ walk.at \in Tables /\ walk.depth \in Inner /\ walk.va[walk.depth] \in Indices
           /\ rank[walk.at] = walk.depth /\ table[walk.at][walk.va[walk.depth]] = Nil
           /\ frame \in Tables /\ frame \in free /\ rank[frame] = 0 /\ walk.at # frame
           /\ \A t \in Tables, i \in Indices :
                 table'[t][i] = IF t = frame THEN Nil
                                ELSE IF t = walk.at /\ i = walk.va[walk.depth] THEN frame ELSE table[t][i]
<1>1. /\ walk.phase = "walking" /\ walk.depth < Levels /\ frame \in free
      /\ table[walk.at][walk.va[walk.depth]] = Nil
      /\ table' = [table EXCEPT ![frame] = Clear, ![walk.at][walk.va[walk.depth]] = frame]
    BY DEF TableForAbsent, Descending, Entry
<1>2. walk # Idle /\ walk \in Walk
    BY <1>1, Walking
<1>3. /\ walk.at \in Tables /\ walk.depth \in 1..Levels /\ walk.va[walk.depth] \in Indices
      /\ rank[walk.at] = walk.depth
    BY <1>2 DEF Walk, Addresses, OnTheWay
<1>4. walk.depth \in Inner /\ walk.depth # 0
    BY <1>1, <1>3, AddressSpaceAssumption DEF Inner
<1>5. frame \in Tables /\ rank[frame] = 0 /\ walk.at # frame
    BY <1>1, <1>3, <1>4 DEF Tree, Ranked, Tables
<1> QED BY <1>1, <1>2, <1>3, <1>4, <1>5 DEF TypeOK, Clear

(* The processor finds the same after a table was added.                     *)
LEMMA NewTableEntries ==
    ASSUME NEW frame \in Frames, NEW rank, TypeOK, Tree(rank), OnTheWay(rank), TableForAbsent(frame),
           NEW s, NEW vb, Valid(s, vb)
    PROVE  /\ Translation(s, vb)' = Translation(s, vb)
           /\ Entries(s, vb)[walk.depth - 1] = walk.at /\ vb[walk.depth] = walk.va[walk.depth] =>
                 Entries(s, vb)'[walk.depth] = frame
<1> DEFINE E == Entries(s, vb)
           F == Entries(s, vb)'
<1>1. PICK at, depth, index : at = walk.at /\ depth = walk.depth /\ index = walk.va[walk.depth]
    OBVIOUS
<1>2. /\ at \in Tables /\ depth \in 1..Levels - 1 /\ index \in Indices /\ rank[at] = depth
      /\ table[at][index] = Nil
      /\ frame \in Tables /\ rank[frame] = 0 /\ at # frame
      /\ \A t \in Tables, i \in Indices :
            table'[t][i] = IF t = frame THEN Nil
                           ELSE IF t = at /\ i = index THEN frame ELSE table[t][i]
    BY <1>1, NewTableFacts DEF Inner
<1>3. /\ \A d \in 1..Levels : E[d] = IF E[d - 1] = Nil THEN Nil ELSE table[E[d - 1]][vb[d]]
      /\ \A d \in 1..Levels : F[d] = IF F[d - 1] = Nil THEN Nil ELSE table'[F[d - 1]][vb[d]]
    <2>1. StepByStep /\ StepByStep'
        BY EntriesStep, PTL
    <2> QED BY <2>1 DEF StepByStep
<1>4. \A d \in 0..Levels - 1 : E[d] # Nil => E[d] \in Tables /\ rank[E[d]] = d + 1
    BY EntriesAreRanks
<1>5. /\ \A d \in 0..Levels : E[d] = Nil => E[Levels] = Nil
      /\ \A d \in 0..Levels : F[d] = Nil => F[Levels] = Nil
    <2>1. NothingBelowNil /\ NothingBelowNil'
        BY NilStays, PTL
    <2> QED BY <2>1 DEF NothingBelowNil
<1>6. vb \in [1..Levels -> Indices]
    BY ValidIs
<1>7. Levels \in Nat /\ Levels >= 2 /\ Nil \notin Tables
    BY AddressSpaceAssumption DEF Tables
<1>8. ASSUME NEW n \in 0..Levels,
             \A d \in 0..n - 1 : E[d] # Nil =>
                table'[E[d]][vb[d + 1]] = table[E[d]][vb[d + 1]]
      PROVE  \A d \in 0..n : F[d] = E[d]
    BY <1>8, EntriesKept
<1> HIDE DEF E, F
<1>9. CASE E[depth - 1] = at /\ vb[depth] = index
    <2>1. depth - 1 \in 0..Levels /\ depth \in 1..Levels /\ depth + 1 \in 1..Levels /\ (depth + 1) - 1 = depth
        BY <1>2, <1>7
    <2>2. ASSUME NEW d \in 0..(depth - 1) - 1, E[d] # Nil
          PROVE  table'[E[d]][vb[d + 1]] = table[E[d]][vb[d + 1]]
        <3>1. d \in 0..Levels - 1 /\ d + 1 \in 1..Levels /\ d + 1 # depth /\ d + 1 # 0
            BY <1>2, <1>7
        <3>2. E[d] \in Tables /\ E[d] # at /\ E[d] # frame /\ vb[d + 1] \in Indices
            BY <1>2, <1>4, <1>6, <2>2, <3>1
        <3> QED BY <1>2, <3>2
    <2>3. F[depth - 1] = at
        BY <1>2, <1>8, <1>9, <2>1, <2>2
    <2>4. F[depth] = frame /\ E[depth] = Nil
        BY <1>2, <1>3, <1>7, <1>9, <2>1, <2>3
    <2>5. F[depth + 1] = Nil
        <3>1. vb[depth + 1] \in Indices
            BY <1>6, <2>1
        <3>2. F[depth + 1] = IF F[depth] = Nil THEN Nil ELSE table'[F[depth]][vb[depth + 1]]
            BY <1>3, <2>1
        <3> QED BY <1>2, <2>4, <3>1, <3>2
    <2>6. F[Levels] = Nil /\ E[Levels] = Nil
        BY <1>5, <1>7, <2>1, <2>4, <2>5
    <2> QED BY <1>1, <2>4, <2>6 DEF Translation, E, F
<1>10. CASE ~(E[depth - 1] = at /\ vb[depth] = index)
    <2>1. ASSUME NEW d \in 0..Levels - 1, E[d] # Nil
          PROVE  table'[E[d]][vb[d + 1]] = table[E[d]][vb[d + 1]]
        <3>1. d + 1 \in 1..Levels /\ d + 1 # 0 /\ (d + 1) - 1 = d
            BY <1>7
        <3>2. E[d] \in Tables /\ E[d] # frame /\ vb[d + 1] \in Indices /\ rank[E[d]] = d + 1
            BY <1>2, <1>4, <1>6, <2>1, <3>1
        <3>3. ~(E[d] = at /\ vb[d + 1] = index)
            <4>1. ASSUME E[d] = at PROVE d + 1 = depth
                BY <1>2, <3>2, <4>1
            <4> QED BY <1>10, <3>1, <4>1
        <3> QED BY <1>2, <3>2, <3>3
    <2>2. F[Levels] = E[Levels]
        <3>1. Levels \in 0..Levels
            BY <1>7
        <3>2. \A d \in 0..Levels : F[d] = E[d]
            BY <1>8, <2>1, <3>1
        <3> QED BY <3>1, <3>2
    <2> QED BY <1>1, <1>10, <2>2 DEF Translation, E, F
<1> QED BY <1>9, <1>10

(* The last entry changes one address of one space.                          *)
LEMMA MapLeafEntries ==
    ASSUME NEW rank, TypeOK, Tree(rank), OnTheWay(rank), MapLeaf,
           Entries(walk.root, walk.va)[walk.depth - 1] = walk.at,
           NEW s, NEW vb, Valid(s, vb)
    PROVE  Translation(s, vb)' = IF s = walk.root /\ vb = walk.va THEN walk.physical ELSE Translation(s, vb)
<1> DEFINE E == Entries(s, vb)
           F == Entries(s, vb)'
<1>1. PICK root, va, at : root = walk.root /\ va = walk.va /\ at = walk.at
    OBVIOUS
<1>2. /\ walk.phase = "walking" /\ walk.depth = Levels
      /\ table' = [table EXCEPT ![walk.at][walk.va[Levels]] = walk.physical]
    BY DEF MapLeaf
<1>3. walk # Idle /\ walk \in Walk
    BY <1>2, Walking
<1>4. Levels \in Nat /\ Levels >= 2 /\ Nil \notin Tables
    BY AddressSpaceAssumption DEF Tables
<1>5. at \in Tables /\ va \in [1..Levels -> Indices] /\ rank[at] = Levels /\ Valid(root, va)
    BY <1>1, <1>2, <1>3, WalkIsValid DEF Walk, Addresses, OnTheWay
<1>6. \A t \in Tables, i \in Indices :
         table'[t][i] = IF t = at /\ i = va[Levels] THEN walk.physical ELSE table[t][i]
    <2>1. va[Levels] \in Indices
        BY <1>4, <1>5
    <2> QED BY <1>1, <1>2, <1>5, <2>1 DEF TypeOK
<1>7. /\ E[Levels] = IF E[Levels - 1] = Nil THEN Nil ELSE table[E[Levels - 1]][vb[Levels]]
      /\ F[Levels] = IF F[Levels - 1] = Nil THEN Nil ELSE table'[F[Levels - 1]][vb[Levels]]
    <2>1. StepByStep /\ StepByStep'
        BY EntriesStep, PTL
    <2>2. Levels \in 1..Levels
        BY <1>4
    <2> QED BY <2>1, <2>2 DEF StepByStep
<1>8. \A d \in 0..Levels - 1 : E[d] # Nil => E[d] \in Tables /\ rank[E[d]] = d + 1
    BY EntriesAreRanks
<1>9. vb \in [1..Levels -> Indices]
    BY ValidIs
<1>10. Entries(root, va)[Levels - 1] = at
    BY <1>1, <1>2
<1>11. Levels - 1 \in 0..Levels - 1 /\ Levels - 1 \in 0..Levels /\ Levels \in 1..Levels
    BY <1>4
<1>12. E[Levels - 1] = at => s = root /\ \A e \in 1..Levels - 1 : vb[e] = va[e]
    <2>1. at # Nil
        BY <1>4, <1>5
    <2> QED BY <1>5, <1>10, <1>11, <2>1, OnlyOneWay
<1>13. F[Levels - 1] = E[Levels - 1]
    <2>1. ASSUME NEW d \in 0..(Levels - 1) - 1, E[d] # Nil
          PROVE  table'[E[d]][vb[d + 1]] = table[E[d]][vb[d + 1]]
        <3> HIDE DEF E, F
        <3>1. d \in 0..Levels - 1 /\ d + 1 \in 1..Levels /\ d + 1 # Levels
            BY <1>4
        <3>2. E[d] \in Tables /\ E[d] # at /\ vb[d + 1] \in Indices
            BY <1>5, <1>8, <1>9, <2>1, <3>1
        <3> QED BY <1>6, <3>2
    <2>2. \A d \in 0..Levels - 1 : F[d] = E[d]
        BY <1>11, <2>1, EntriesKept
    <2> QED BY <1>11, <2>2
<1>14. s = root /\ vb = va => E[Levels - 1] = at
    BY <1>10
<1> HIDE DEF E, F
<1>15. CASE s = root /\ vb = va
    <2>1. F[Levels] = walk.physical
        BY <1>4, <1>5, <1>6, <1>7, <1>11, <1>13, <1>14, <1>15
    <2> QED BY <1>1, <1>15, <2>1 DEF Translation, F
<1>16. CASE ~(s = root /\ vb = va)
    <2>1. ~(E[Levels - 1] = at /\ vb[Levels] = va[Levels])
        <3> SUFFICES ASSUME E[Levels - 1] = at, vb[Levels] = va[Levels] PROVE FALSE
            OBVIOUS
        <3>1. \A e \in 1..Levels : e \in 1..Levels - 1 \/ e = Levels
            BY <1>4
        <3>2. \A e \in 1..Levels : vb[e] = va[e]
            BY <1>12, <3>1
        <3>3. vb = va
            <4>1. vb \in [1..Levels -> Indices] /\ va \in [1..Levels -> Indices]
                BY <1>5, <1>9
            <4>2. vb = [e \in 1..Levels |-> vb[e]] /\ va = [e \in 1..Levels |-> va[e]]
                BY <4>1
            <4>3. [e \in 1..Levels |-> vb[e]] = [e \in 1..Levels |-> va[e]]
                BY <3>2
            <4> QED BY <4>2, <4>3
        <3> QED BY <1>12, <1>16, <3>3
    <2>2. E[Levels - 1] # Nil => E[Levels - 1] \in Tables /\ vb[Levels] \in Indices
        BY <1>8, <1>9, <1>11
    <2>3. F[Levels] = E[Levels]
        BY <1>6, <1>7, <1>13, <2>1, <2>2
    <2> QED BY <1>1, <1>16, <2>3 DEF Translation, E, F
<1> QED BY <1>15, <1>16

(* A new space has no user address and changes no other.                     *)
LEMMA CreateEntries ==
    ASSUME NEW root \in Frames, NEW rank, TypeOK, Tree(rank), quanta_address_space_create(root)
    PROVE  /\ \A s, vb : Valid(s, vb) => Translation(s, vb)' = Translation(s, vb)
           /\ \A vb \in UserAddresses : Translation(root, vb)' = Nil
<1>1. Levels \in Nat /\ Levels >= 2
    BY AddressSpaceAssumption
<1>2. /\ root \in free /\ root \in Tables /\ rank[root] = 0
      /\ \A t \in Tables, i \in Indices :
            table'[t][i] = IF t # root THEN table[t][i]
                           ELSE IF i = KernelIndex THEN table[BootRoot][KernelIndex] ELSE Nil
    BY AddressSpaceAssumption DEF quanta_address_space_create, TypeOK, Tree, Ranked, Tables, Clear
<1>3. ASSUME NEW s, NEW vb, Valid(s, vb) PROVE Translation(s, vb)' = Translation(s, vb)
    <2>1. vb \in [1..Levels -> Indices]
        BY <1>3, ValidIs
    <2>2. \A d \in 0..Levels - 1 : Entries(s, vb)[d] # Nil =>
             Entries(s, vb)[d] \in Tables /\ rank[Entries(s, vb)[d]] = d + 1
        BY <1>3, EntriesAreRanks
    <2>3. ASSUME NEW d \in 0..Levels - 1, Entries(s, vb)[d] # Nil
          PROVE  table'[Entries(s, vb)[d]][vb[d + 1]] = table[Entries(s, vb)[d]][vb[d + 1]]
        <3>1. d + 1 \in 1..Levels /\ d + 1 # 0
            BY <1>1
        <3>2. Entries(s, vb)[d] \in Tables /\ Entries(s, vb)[d] # root /\ vb[d + 1] \in Indices
            BY <1>2, <2>1, <2>2, <2>3, <3>1
        <3> QED BY <1>2, <3>2
    <2>4. Levels \in 0..Levels
        BY <1>1
    <2>5. \A d \in 0..Levels : Entries(s, vb)'[d] = Entries(s, vb)[d]
        BY <2>3, <2>4, EntriesKept
    <2> QED BY <2>4, <2>5 DEF Translation
<1>4. ASSUME NEW vb \in UserAddresses PROVE Translation(root, vb)' = Nil
    <2>1. StepByStep' /\ NothingBelowNil'
        BY EntriesStep, NilStays, PTL
    <2>2. vb[1] \in Indices /\ vb[1] # KernelIndex /\ 1 \in 1..Levels /\ 1 \in 0..Levels /\ 1 - 1 = 0
        BY <1>1 DEF UserAddresses, KernelAddresses, Addresses
    <2>3. Entries(root, vb)'[0] = root
        BY <2>1 DEF StepByStep
    <2>4. Entries(root, vb)'[1] = IF Entries(root, vb)'[1 - 1] = Nil THEN Nil
                                  ELSE table'[Entries(root, vb)'[1 - 1]][vb[1]]
        BY <2>1, <2>2 DEF StepByStep
    <2>5. Entries(root, vb)'[1] = Nil
        BY <1>2, <2>2, <2>3, <2>4
    <2>6. Entries(root, vb)'[Levels] = Nil
        BY <2>1, <2>2, <2>5 DEF NothingBelowNil
    <2> QED BY <2>6 DEF Translation
<1> QED BY <1>3, <1>4

(* The other spaces and the kernel half find what they found: they pass      *)
(* through no table that is given back.                                      *)
LEMMA DestroyEntries ==
    ASSUME NEW root \in Frames, NEW rank, TypeOK, Tree(rank), quanta_address_space_destroy(root),
           NEW s, NEW vb, Valid(s, vb), s # root
    PROVE  Translation(s, vb)' = Translation(s, vb)
<1> DEFINE E == Entries(s, vb)
           S == {n \in Nat : n \in 0..Levels - 1 => E[n] \notin OwnedTables(root)}
<1>1. Levels \in Nat /\ Levels >= 2 /\ Nil \notin Tables
    BY AddressSpaceAssumption DEF Tables
<1>2. /\ root \in roots
      /\ \A t \in Tables, i \in Indices :
            t \notin OwnedTables(root) => table'[t][i] = table[t][i]
    BY DEF quanta_address_space_destroy, Released
<1>3. /\ OwnedTables(root) \subseteq Tables
      /\ \A t \in OwnedTables(root) : rank[t] = 1 => t = root
      /\ \A t \in OwnedTables(root), u \in Tables, j \in Indices :
            rank[t] >= 2 /\ table[u][j] = t => u \in OwnedTables(root)
    BY <1>2, Owned DEF Tables
<1>4. /\ E[0] = s
      /\ \A d \in 1..Levels : E[d] = IF E[d - 1] = Nil THEN Nil ELSE table[E[d - 1]][vb[d]]
    BY EntriesStep DEF StepByStep
<1>5. rank[s] = 1 /\ vb \in [1..Levels -> Indices]
    BY ValidIs
<1>6. \A d \in 0..Levels - 1 : E[d] # Nil => E[d] \in Tables /\ rank[E[d]] = d + 1
    BY EntriesAreRanks
<1> HIDE DEF E
<1>7. 0 \in S
    BY <1>3, <1>4, <1>5
<1>8. ASSUME NEW n \in Nat, n \in S PROVE n + 1 \in S
    <2> SUFFICES ASSUME n + 1 \in 0..Levels - 1, E[n + 1] \in OwnedTables(root) PROVE FALSE
        OBVIOUS
    <2>1. n + 1 \in 1..Levels /\ (n + 1) - 1 = n /\ n \in 0..Levels - 1 /\ (n + 1) + 1 >= 2
        BY <1>1
    <2>2. E[n + 1] # Nil
        BY <1>1, <1>3
    <2>3. E[n] # Nil /\ E[n + 1] = table[E[n]][vb[n + 1]]
        BY <1>4, <2>1, <2>2
    <2>4. E[n] \in Tables /\ rank[E[n + 1]] >= 2 /\ vb[n + 1] \in Indices
        BY <1>5, <1>6, <2>1, <2>2, <2>3
    <2>5. E[n] \in OwnedTables(root)
        BY <1>3, <2>3, <2>4
    <2> QED BY <1>8, <2>1, <2>5
<1> HIDE DEF S
<1>9. Nat \subseteq S
    BY <1>7, <1>8, SetInduction
<1> USE DEF S
<1>10. ASSUME NEW d \in 0..Levels - 1, E[d] # Nil
       PROVE  table'[E[d]][vb[d + 1]] = table[E[d]][vb[d + 1]]
    <2>1. d \in Nat /\ d + 1 \in 1..Levels
        BY <1>1
    <2>2. E[d] \notin OwnedTables(root)
        BY <1>9, <2>1
    <2>3. E[d] \in Tables /\ vb[d + 1] \in Indices
        BY <1>5, <1>6, <1>10, <2>1
    <2> QED BY <1>2, <2>2, <2>3
<1>11. Levels \in 0..Levels
    BY <1>1
<1>12. \A d \in 0..Levels : Entries(s, vb)'[d] = Entries(s, vb)[d]
    BY <1>10, <1>11, EntriesKept DEF E
<1> QED BY <1>11, <1>12 DEF Translation

LEMMA SameTables ==
    ASSUME table' = table
    PROVE  \A s, vb : Entries(s, vb)' = Entries(s, vb) /\ Translation(s, vb)' = Translation(s, vb)
BY DEF Entries, Translation

-----------------------------------------------------------------------------
(* map_page is where the address it maps leads.                              *)
AtEntry ==
    \A root, va : walk # Idle /\ walk.root = root /\ walk.va = va =>
                     Entries(root, va)[walk.depth - 1] = walk.at

(* This needs the invariant: the entry a walk came by is not written by      *)
(* others.                                                                   *)
LEMMA StepAtEntry == IInv /\ AtEntry /\ [Next]_vars => AtEntry'
<1> SUFFICES ASSUME IInv, AtEntry, [Next]_vars PROVE AtEntry'
    OBVIOUS
<1>0. TypeOK
    BY DEF IInv
<1>1. PICK rank : Tree(rank) /\ OnTheWay(rank)
    BY DEF IInv
<1>2. ASSUME walk' = Idle PROVE AtEntry'
    BY <1>2 DEF AtEntry
<1>3. ASSUME NEW frame \in Frames,
             \/ quanta_address_space_create(frame) \/ AllocatePage(frame)
             \/ EnterUser(frame) \/ quanta_address_space_destroy(frame)
      PROVE  AtEntry'
    BY <1>2, <1>3 DEF quanta_address_space_create, AllocatePage, EnterUser, quanta_address_space_destroy
<1>4. ASSUME NEW frame \in Frames, TableForAbsent(frame) PROVE AtEntry'
    <2>1. walk # Idle /\ walk \in Walk /\ walk.depth \in Inner
        BY <1>0, <1>1, <1>4, NewTableFacts
    <2>2. Entries(walk.root, walk.va)[walk.depth - 1] = walk.at
        BY <2>1 DEF AtEntry
    <2>3. PICK root, va : root = walk.root /\ va = walk.va /\ Valid(root, va)
        BY <1>0, <1>1, <2>1, WalkIsValid
    <2>4. Entries(root, va)'[walk.depth] = frame
        BY <1>0, <1>1, <1>4, <2>2, <2>3, NewTableEntries
    <2>5. walk' = [walk EXCEPT !.at = frame, !.depth = walk.depth + 1]
        BY <1>4 DEF TableForAbsent
    <2>6. /\ walk'.at = frame /\ walk'.depth = walk.depth + 1 /\ walk'.root = root /\ walk'.va = va
          /\ (walk.depth + 1) - 1 = walk.depth
        BY <2>1, <2>3, <2>5 DEF Walk, Inner
    <2> QED BY <2>4, <2>6 DEF AtEntry
<1>5. ASSUME NEW root \in roots \union {BootRoot}, NEW va \in Addresses, NEW physical \in pages \union Devices,
             MapBegins(root, va, physical)
      PROVE  AtEntry'
    <2>1. /\ walk' = [phase |-> "walking", root |-> root, va |-> va, physical |-> physical,
                      at |-> root, depth |-> 1]
          /\ table' = table
        BY <1>5 DEF MapBegins
    <2>2. Entries(root, va)'[0] = root
        BY <2>1, SameTables, EntriesStep DEF StepByStep
    <2>3. walk'.root = root /\ walk'.va = va /\ walk'.at = root /\ walk'.depth - 1 = 0
        BY <2>1
    <2> QED BY <2>2, <2>3 DEF AtEntry
<1>6. ASSUME TableForPresent PROVE AtEntry'
    <2>1. /\ walk.phase = "walking" /\ walk.depth < Levels /\ Entry # Nil /\ table' = table
          /\ walk' = [walk EXCEPT !.at = Entry, !.depth = walk.depth + 1]
        BY <1>6 DEF TableForPresent, Descending
    <2>2. walk # Idle /\ walk \in Walk
        BY <1>0, <2>1, Walking
    <2>3. walk.depth \in 1..Levels /\ walk.at # Nil
        BY <2>2, AddressSpaceAssumption DEF Walk, Tables
    <2>4. Entries(walk.root, walk.va)[walk.depth] = Entry
        BY <2>2, <2>3, EntriesStep DEF StepByStep, AtEntry, Entry
    <2>5. /\ walk'.at = Entry /\ walk'.root = walk.root /\ walk'.va = walk.va /\ walk'.depth - 1 = walk.depth
        BY <2>1, <2>2, <2>3 DEF Walk
    <2>6. PICK root, va : root = walk.root /\ va = walk.va
        OBVIOUS
    <2>7. Entries(root, va)'[walk.depth] = Entry
        BY <2>1, <2>4, <2>6, SameTables
    <2> QED BY <2>5, <2>6, <2>7 DEF AtEntry
<1>7. ASSUME Panics PROVE AtEntry'
    <2>1. /\ walk.phase = "walking" /\ table' = table /\ walk' = [walk EXCEPT !.phase = "halted"]
        BY <1>7 DEF Panics, Descending
    <2>2. walk # Idle /\ walk \in Walk
        BY <1>0, <2>1, Walking
    <2>3. walk'.at = walk.at /\ walk'.root = walk.root /\ walk'.va = walk.va /\ walk'.depth = walk.depth
        BY <2>1, <2>2 DEF Walk
    <2>4. PICK root, va : root = walk.root /\ va = walk.va
        OBVIOUS
    <2>5. Entries(root, va)'[walk.depth - 1] = walk.at
        BY <2>1, <2>2, <2>4, SameTables DEF AtEntry
    <2> QED BY <2>3, <2>4, <2>5 DEF AtEntry
<1>8. ASSUME MapLeaf PROVE AtEntry'
    BY <1>2, <1>8 DEF MapLeaf
<1>9. CASE UNCHANGED vars
    <2>1. table' = table /\ walk' = walk
        BY <1>9 DEF vars
    <2>2. PICK root, va : root = walk.root /\ va = walk.va
        OBVIOUS
    <2>3. Entries(root, va)' = Entries(root, va)
        BY <2>1, SameTables
    <2> QED BY <2>1, <2>2, <2>3 DEF AtEntry
<1> QED BY <1>3, <1>4, <1>5, <1>6, <1>7, <1>8, <1>9 DEF Next

-----------------------------------------------------------------------------
(* Refinement of AddressSpaces.                                              *)
UserView == [r \in roots |-> [va \in UserAddresses |-> Translation(r, va)]]
KernelView == [va \in KernelAddresses |-> Translation(BootRoot, va)]

LEMMA InitRefines == Init => Spaces!Init
<1> SUFFICES ASSUME Init PROVE Spaces!Init
    OBVIOUS
<1>1. UserView = [r \in {} |-> Nil]
    BY DEF Init, UserView
<1>2. ASSUME NEW va \in KernelAddresses PROVE Translation(BootRoot, va) = Nil
    <2>1. /\ Entries(BootRoot, va)[0] = BootRoot
          /\ \A d \in 1..Levels :
                Entries(BootRoot, va)[d] = IF Entries(BootRoot, va)[d - 1] = Nil THEN Nil
                                           ELSE table[Entries(BootRoot, va)[d - 1]][va[d]]
        BY EntriesStep DEF StepByStep
    <2>2. \A d \in 0..Levels : Entries(BootRoot, va)[d] = Nil => Entries(BootRoot, va)[Levels] = Nil
        BY NilStays DEF NothingBelowNil
    <2>3. /\ va \in [1..Levels -> Indices] /\ va[1] = KernelIndex
          /\ 1 \in 1..Levels /\ 2 \in 1..Levels /\ 2 \in 0..Levels /\ 1 - 1 = 0 /\ 2 - 1 = 1
        BY AddressSpaceAssumption DEF KernelAddresses, UserAddresses, Addresses
    <2>4. /\ table[BootRoot][KernelIndex] = KernelTable /\ BootRoot # Nil /\ KernelTable # Nil
          /\ \A i \in Indices : table[KernelTable][i] = Nil
        BY AddressSpaceAssumption DEF Init, Tables, Clear
    <2>5. Entries(BootRoot, va)[1] = KernelTable
        BY <2>1, <2>3, <2>4
    <2>6. va[2] \in Indices
        BY <2>3
    <2>7. Entries(BootRoot, va)[2] = Nil
        BY <2>1, <2>3, <2>4, <2>5, <2>6
    <2> QED BY <2>2, <2>3, <2>7 DEF Translation
<1>3. KernelView = [a \in KernelAddresses |-> Nil]
    BY <1>2 DEF KernelView
<1> QED BY <1>1, <1>3 DEF Spaces!Init, UserView, KernelView

(* A step that keeps spaces and translations is a stutter of AddressSpaces.  *)
LEMMA Unseen ==
    ASSUME roots' = roots, \A s, vb : Valid(s, vb) => Translation(s, vb)' = Translation(s, vb)
    PROVE  UserView' = UserView /\ KernelView' = KernelView
<1>1. \A r \in roots, va \in UserAddresses : Translation(r, va)' = Translation(r, va)
    BY DEF Valid
<1>2. \A va \in KernelAddresses : Translation(BootRoot, va)' = Translation(BootRoot, va)
    BY DEF Valid
<1> QED BY <1>1, <1>2 DEF UserView, KernelView

(* A new table is a stutter, only the leaf entry is a Map.                   *)
LEMMA StepRefines == IInv /\ AtEntry /\ [Next]_vars => [Spaces!Next]_<<UserView, KernelView>>
<1> SUFFICES ASSUME IInv, AtEntry, [Next]_vars PROVE [Spaces!Next]_<<UserView, KernelView>>
    OBVIOUS
<1>0. TypeOK
    BY DEF IInv
<1>1. PICK rank : Tree(rank) /\ OnTheWay(rank)
    BY DEF IInv
<1>2. ASSUME roots' = roots, table' = table PROVE UNCHANGED <<UserView, KernelView>>
    BY <1>2, SameTables, Unseen
<1>3. ASSUME NEW root \in Frames, quanta_address_space_create(root) PROVE Spaces!Next
    <2>1. /\ root \in Frames \ roots /\ roots' = roots \union {root}
        BY <1>0, <1>3 DEF quanta_address_space_create, TypeOK
    <2>2. /\ \A s, vb : Valid(s, vb) => Translation(s, vb)' = Translation(s, vb)
          /\ \A vb \in UserAddresses : Translation(root, vb)' = Nil
        BY <1>0, <1>1, <1>3, CreateEntries
    <2>3. KernelView' = KernelView
        <3>1. \A va \in KernelAddresses : Translation(BootRoot, va)' = Translation(BootRoot, va)
            BY <2>2 DEF Valid
        <3> QED BY <3>1 DEF KernelView
    <2>4. \A r \in roots : [va \in UserAddresses |-> Translation(r, va)]' = UserView[r]
        <3>1. \A r \in roots, va \in UserAddresses : Translation(r, va)' = Translation(r, va)
            BY <2>2 DEF Valid
        <3> QED BY <3>1 DEF UserView
    <2>5. [va \in UserAddresses |-> Translation(root, va)]' = [va \in UserAddresses |-> Nil]
        BY <2>2
    <2>6. DOMAIN UserView = roots
        BY DEF UserView
    <2>7. UserView' = [s \in roots \union {root} |->
                          IF s = root THEN [va \in UserAddresses |-> Nil] ELSE UserView[s]]
        BY <2>1, <2>4, <2>5 DEF UserView
    <2>8. Spaces!Create
        BY <2>1, <2>3, <2>6, <2>7 DEF Spaces!Create, UserView, KernelView
    <2> QED BY <2>8 DEF Spaces!Next
<1>4. ASSUME NEW root \in Frames, quanta_address_space_destroy(root) PROVE Spaces!Next
    <2>1. root \in roots /\ roots' = roots \ {root} /\ root # BootRoot
        BY <1>4, AddressSpaceAssumption DEF quanta_address_space_destroy
    <2>2. \A s, vb : Valid(s, vb) /\ s # root => Translation(s, vb)' = Translation(s, vb)
        BY <1>0, <1>1, <1>4, DestroyEntries
    <2>3. KernelView' = KernelView
        <3>1. \A va \in KernelAddresses : Translation(BootRoot, va)' = Translation(BootRoot, va)
            BY <2>1, <2>2 DEF Valid
        <3> QED BY <3>1 DEF KernelView
    <2>4. \A r \in roots \ {root} : [va \in UserAddresses |-> Translation(r, va)]' = UserView[r]
        <3>1. \A r \in roots \ {root}, va \in UserAddresses : Translation(r, va)' = Translation(r, va)
            BY <2>2 DEF Valid
        <3> QED BY <3>1 DEF UserView
    <2>5. DOMAIN UserView = roots
        BY DEF UserView
    <2>6. UserView' = [s \in roots \ {root} |-> UserView[s]]
        BY <2>1, <2>4 DEF UserView
    <2>7. Spaces!Destroy
        BY <2>1, <2>3, <2>5, <2>6 DEF Spaces!Destroy, UserView, KernelView
    <2> QED BY <2>7 DEF Spaces!Next
<1>5. ASSUME NEW frame \in Frames, TableForAbsent(frame) PROVE UNCHANGED <<UserView, KernelView>>
    <2>1. roots' = roots
        BY <1>5 DEF TableForAbsent
    <2>2. \A s, vb : Valid(s, vb) => Translation(s, vb)' = Translation(s, vb)
        BY <1>0, <1>1, <1>5, NewTableEntries
    <2> QED BY <2>1, <2>2, Unseen
<1>6. ASSUME MapLeaf PROVE Spaces!Next
    <2>1. walk.phase = "walking" /\ roots' = roots
        BY <1>6 DEF MapLeaf
    <2>2. walk # Idle /\ walk \in Walk
        BY <1>0, <2>1, Walking
    <2>3. PICK root, va, physical : root = walk.root /\ va = walk.va /\ physical = walk.physical
        OBVIOUS
    <2>4. Valid(root, va) /\ physical \in Physical
        BY <1>0, <1>1, <2>2, <2>3, WalkIsValid DEF Walk
    <2>5. Entries(walk.root, walk.va)[walk.depth - 1] = walk.at
        BY <2>2 DEF AtEntry
    <2>6. \A s, vb : Valid(s, vb) =>
             Translation(s, vb)' = IF s = root /\ vb = va THEN physical ELSE Translation(s, vb)
        BY <1>0, <1>1, <1>6, <2>3, <2>5, MapLeafEntries
    <2>7. CASE root \in roots /\ va \in UserAddresses
        <3>1. \A a \in KernelAddresses : Translation(BootRoot, a)' = Translation(BootRoot, a)
            <4>1. BootRoot # root
                BY <1>0, <2>7, AddressSpaceAssumption DEF TypeOK
            <4> QED BY <2>6, <4>1 DEF Valid
        <3>2. KernelView' = KernelView
            BY <3>1 DEF KernelView
        <3>3. \A r \in roots, a \in UserAddresses :
                 Translation(r, a)' = IF r = root /\ a = va THEN physical ELSE Translation(r, a)
            BY <2>6 DEF Valid
        <3>4. UserView' = [UserView EXCEPT ![root][va] = physical]
            <4>1. UserView' = [r \in roots |-> [a \in UserAddresses |->
                                 IF r = root /\ a = va THEN physical ELSE Translation(r, a)]]
                BY <2>1, <3>3 DEF UserView
            <4> QED BY <2>7, <4>1 DEF UserView
        <3>5. DOMAIN UserView = roots
            BY DEF UserView
        <3>6. \E r \in DOMAIN UserView, a \in UserAddresses, p \in Physical :
                 UserView' = [UserView EXCEPT ![r][a] = p] /\ UNCHANGED KernelView
            BY <2>4, <2>7, <3>2, <3>4, <3>5
        <3>7. Spaces!Map
            BY <3>6 DEF Spaces!Map, UserView, KernelView
        <3> QED BY <3>7 DEF Spaces!Next
    <2>8. CASE root = BootRoot /\ va \in KernelAddresses
        <3>1. \A r \in roots, a \in UserAddresses : Translation(r, a)' = Translation(r, a)
            <4>1. BootRoot \notin roots
                BY <1>0, AddressSpaceAssumption DEF TypeOK
            <4> QED BY <2>6, <2>8, <4>1 DEF Valid
        <3>2. UserView' = UserView
            BY <2>1, <3>1 DEF UserView
        <3>3. \A a \in KernelAddresses :
                 Translation(BootRoot, a)' = IF a = va THEN physical ELSE Translation(BootRoot, a)
            BY <2>6, <2>8 DEF Valid
        <3>4. KernelView' = [KernelView EXCEPT ![va] = physical]
            BY <2>8, <3>3 DEF KernelView
        <3>5. Spaces!Map
            BY <2>4, <2>8, <3>2, <3>4 DEF Spaces!Map, UserView, KernelView
        <3> QED BY <3>5 DEF Spaces!Next
    <2> QED BY <2>4, <2>7, <2>8 DEF Valid
<1>7. ASSUME NEW frame \in Frames, AllocatePage(frame) PROVE UNCHANGED <<UserView, KernelView>>
    <2>1. \A i \in Indices : table[frame][i] = Nil
        BY <1>1, <1>7 DEF AllocatePage, Tree, Ranked, Branches, Tables
    <2>2. table[frame] = Clear
        BY <1>0, <2>1 DEF TypeOK, Clear, Tables
    <2>3. table' = table
        BY <1>0, <1>7, <2>2 DEF AllocatePage, TypeOK
    <2> QED BY <1>2, <1>7, <2>3 DEF AllocatePage
<1>8. ASSUME NEW frame \in Frames, EnterUser(frame) PROVE UNCHANGED <<UserView, KernelView>>
    BY <1>2, <1>8 DEF EnterUser
<1>9. ASSUME NEW root \in roots \union {BootRoot}, NEW va \in Addresses, NEW physical \in pages \union Devices,
             MapBegins(root, va, physical)
      PROVE  UNCHANGED <<UserView, KernelView>>
    BY <1>2, <1>9 DEF MapBegins
<1>10. ASSUME TableForPresent \/ Panics PROVE UNCHANGED <<UserView, KernelView>>
    BY <1>2, <1>10 DEF TableForPresent, Panics
<1>11. CASE UNCHANGED vars
    BY <1>2, <1>11 DEF vars
<1> QED BY <1>3, <1>4, <1>5, <1>6, <1>7, <1>8, <1>9, <1>10, <1>11 DEF Next

(* Type correctness: the entries map_page writes and the frames create and   *)
(* destroy move stay in their sets (memory.c:111-165).                       *)
THEOREM TypeCorrect == Spec => []TypeOK
<1> QED BY Inductive, PTL DEF IInv

(* Every frame is free, a caller's memory, a kernel table or a table of one  *)
(* space: quanta_address_space_destroy gives back all that is the space's    *)
(* own and nothing that lives (memory.c:138-165).                            *)
THEOREM OneRole == Spec => []EveryFrameHasOneRole
<1> QED BY Inductive, RolesAreExclusive, PTL

(* Every space finds at a kernel address what the boot space finds, also     *)
(* what the display maps after quanta_address_space_create copied the kernel *)
(* entry (memory.c:121).                                                     *)
THEOREM KernelShared == Spec => []KernelHalfShared
<1> QED BY Inductive, TheSameKernel, PTL

(* The tables implement address spaces: map_page changes one address of one  *)
(* space, and that at its last write; create and destroy touch no other      *)
(* space and not the kernel half (memory.c:111-165).                         *)
THEOREM Refinement == Spec => ImplementsAddressSpaces
<1>1. Init => Spaces!Init
    BY InitRefines
<1>2. Init => AtEntry
    BY DEF Init, AtEntry
<1>3. IInv /\ AtEntry /\ [Next]_vars => AtEntry'
    BY StepAtEntry
<1>4. IInv /\ AtEntry /\ [Next]_vars => [Spaces!Next]_<<UserView, KernelView>>
    BY StepRefines
<1> QED BY <1>1, <1>2, <1>3, <1>4, Inductive, PTL DEF Spec, Spaces!Spec, ImplementsAddressSpaces, UserView, KernelView

==============================================================================
