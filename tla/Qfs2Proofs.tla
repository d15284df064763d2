------------------------------- MODULE Qfs2Proofs -------------------------------
(***************************************************************************)
(* create_node for every number of records, every layout a record can have *)
(* on the sectors, any outcomes of a write and any number of mishaps:      *)
(* entries and inodes agree unless an entry was abandoned, every mishap    *)
(* loses at most one inode, what was acknowledged stays, and the complete  *)
(* entries are a tree that grows by whole nodes.                           *)
(*                                                                         *)
(* The proof rests on the order in which create_node works: the inode is   *)
(* complete before the link is written, and the link is written into the   *)
(* first free entry, so that the linked entries always precede the free    *)
(* ones and an entry that is found first stays the first.                  *)
(***************************************************************************)
EXTENDS Qfs2, FiniteSetTheorems, WellFoundedInduction, TLAPS

InodeRecord == [number : 0..MaxInodes, kind : Kinds \union {"NONE"}]
DentryRecord == [link : Link \union {NoLink}, name : Names \union {NoName}]

(* The records the operation writes, and the phases in which it writes.      *)
OpInode == [number |-> op.inode, kind |-> op.kind]
OpLink == [parent |-> op.parent, inode |-> op.inode, kind |-> op.kind]
OpDentry == [link |-> OpLink, name |-> op.name]
Writing == pc \in {"inode", "dentry", "rollback"}
Adding == pc \in {"inode", "dentry"}

(* The disk, whatever create_node is doing: the linked entries come first,   *)
(* the others are clear, and the root is nobody's child.                     *)
DiskInv ==
    /\ inodes[RootInode] = [number |-> RootInode, kind |-> "DIRECTORY"]
    /\ \A d, e \in Dentries : d < e /\ e \in Linked => d \in Linked
    /\ \A d \in Dentries \ Linked : dentries[d] = FreeDentry
    /\ \A d \in Linked : dentries[d].link.inode # RootInode
    /\ abandoned \subseteq Linked
    /\ AgreeUnlessAbandoned

(* What is reserved for the operation: its entry is the first free one and   *)
(* only it may link to the operation's inode.                                *)
Reserved ==
    /\ op \in Operation /\ op.inode # RootInode
    /\ \A d \in Dentries : /\ d < op.entry => d \in Linked
                           /\ d > op.entry => d \notin Linked
    /\ \A d \in Linked \ abandoned : dentries[d].link.inode = op.inode => d = op.entry
    /\ op.entry \in Linked => /\ dentries[op.entry].link = OpLink
                              /\ dentries[op.entry].name \in {NoName, op.name}

(* How far it has come.                                                      *)
InodePhase ==
    /\ op.entry \notin Linked
    /\ part \in 1..Len(InodeParts[op.inode])
    /\ part = 2 /\ "number" \in InodeParts[op.inode][1] => inodes[op.inode].number = op.inode
    /\ part = 2 /\ "kind" \in InodeParts[op.inode][1] => inodes[op.inode].kind = op.kind
DentryPhase ==
    /\ inodes[op.inode] = OpInode
    /\ op.entry \notin abandoned
    /\ part \in 1..Len(DentryParts[op.entry])
    /\ op.entry \in Linked <=> part = 2 /\ "link" \in DentryParts[op.entry][1]
    /\ part = 2 /\ "name" \in DentryParts[op.entry][1] => dentries[op.entry].name = op.name
RollbackPhase ==
    /\ part \in 1..Len(InodeParts[op.inode])
    /\ part = 1 => inodes[op.inode] = OpInode
    /\ part = 2 /\ op.entry \in Linked => op.entry \in abandoned
VerifyPhase ==
    /\ part = 1
    /\ inodes[op.inode] = OpInode
    /\ dentries[op.entry] = OpDentry

OpInv ==
    /\ pc # "idle" => Reserved
    /\ pc = "idle" => part = 1
    /\ pc = "inode" => InodePhase
    /\ pc = "dentry" => DentryPhase
    /\ pc = "rollback" => RollbackPhase
    /\ pc = "verify" => VerifyPhase

(* The inode of the operation in progress is not lost yet; a failed entry    *)
(* write has been counted, and its rollback may still lose the inode.        *)
Lost == LeakedInodes \ (IF pc = "idle" THEN {} ELSE {op.inode})
LeakInv == Cardinality(Lost) + (IF pc = "rollback" THEN 1 ELSE 0) <= mishaps

(* The entry that stands for an acknowledged node is the first of its name,  *)
(* and lies before the one that is being written.                            *)
StandsFor(e, a) ==
    /\ e \in Matches(a.parent, a.name)
    /\ dentries[e].link.inode = a.inode
    /\ \A d \in Dentries : d < e => d \notin Matches(a.parent, a.name)
    /\ Writing => e < op.entry
AckInv ==
    \A a \in acknowledged :
        /\ inodes[a.inode] = [number |-> a.inode, kind |-> a.kind]
        /\ Writing => op.inode # a.inode
        /\ \E e \in Dentries : StandsFor(e, a)

(* A second entry of a name comes after the first.                           *)
Twin(e, d) ==
    e < d /\ dentries[e].link.parent = dentries[d].link.parent /\ dentries[e].name = dentries[d].name
DoubledInv ==
    /\ \A d \in doubled \intersect Named : \E e \in Dentries : Twin(e, d)
    /\ Adding /\ op.entry \in doubled =>
          \E e \in Matches(op.parent, op.name) : e < op.entry
    /\ Adding /\ op.entry \notin doubled => Matches(op.parent, op.name) \subseteq {op.entry}

(* What is reached on the way down a path.                                   *)
Reachable(n) == n = RootInode \/ \E e \in Named \ doubled : dentries[e].link.inode = n
ParentInv ==
    Adding /\ abandoned = {} =>
              /\ Reachable(op.parent)
              /\ inodes[op.parent].kind = "DIRECTORY"

IInv == TypeOK /\ DiskInv /\ OpInv /\ LeakInv /\ AckInv /\ DoubledInv /\ ParentInv

-----------------------------------------------------------------------------
(* Facts about the operators.                                                *)

(* Induction over the numbers, told about a set so that no operator is a     *)
(* parameter.                                                                *)
LEMMA SetInduction ==
    ASSUME NEW S, 0 \in S, \A n \in Nat : n \in S => n + 1 \in S
    PROVE  Nat \subseteq S
<1> SUFFICES ASSUME Nat \ S # {} PROVE FALSE
    OBVIOUS
<1> DEFINE Missing == Nat \ S
           R == OpToRel(<, Nat)
<1>1. Missing \subseteq Nat /\ Missing # {}
    OBVIOUS
<1>2. PICK n \in Missing : \A m \in Missing : ~(<<m, n>> \in R)
    <2> HIDE DEF Missing, R
    <2>1. IsWellFoundedOn(R, Nat)
        BY NatLessThanWellFounded DEF R
    <2> QED BY <1>1, <2>1, WFMin
<1>3. n \in Nat /\ n \notin S /\ n # 0
    OBVIOUS
<1>4. n - 1 \in Nat /\ n - 1 < n /\ (n - 1) + 1 = n
    BY <1>3
<1>5. n - 1 \notin Missing
    BY <1>2, <1>3, <1>4 DEF OpToRel
<1> QED BY <1>3, <1>4, <1>5

(* The first of a set of records.                                            *)
LEMMA LeastIsLeast ==
    ASSUME NEW S \in SUBSET Nat, S # {}
    PROVE  Least(S) \in S /\ \A y \in S : Least(S) <= y
<1> DEFINE R == OpToRel(<, Nat)
<1>1. IsWellFoundedOn(R, Nat)
    BY NatLessThanWellFounded
<1>2. PICK n \in S : \A m \in S : ~(<<m, n>> \in R)
    <2> HIDE DEF R
    <2> QED BY <1>1, WFMin
<1>3. ASSUME NEW m \in S PROVE n <= m
    <2>1. m \in Nat /\ n \in Nat
        OBVIOUS
    <2>2. m < n => <<m, n>> \in R
        BY <2>1 DEF OpToRel
    <2> HIDE DEF R
    <2>3. ~(m < n)
        BY <1>2, <2>2
    <2> QED BY <2>1, <2>3
<1>4. \E x \in S : \A y \in S : x <= y
    BY <1>3
<1> QED BY <1>4 DEF Least

LEMMA LeastIs ==
    ASSUME NEW S \in SUBSET Nat, NEW e \in S, \A y \in S : e <= y
    PROVE  Least(S) = e
<1>1. /\ Least(S) \in S /\ Least(S) <= e /\ e <= Least(S)
      /\ Least(S) \in Nat /\ e \in Nat
    BY LeastIsLeast
<1> QED BY <1>1

(* The layouts write each field once, the first field not after the second.  *)
LEMMA LayoutIs ==
    ASSUME NEW f, NEW s, NEW parts \in Layouts(f, s)
    PROVE  /\ Len(parts) \in 1..2
           /\ Len(parts) = 1 => f \in parts[1] /\ s \in parts[1]
           /\ Len(parts) = 2 => f \in parts[1] \union parts[2] /\ s \in parts[1] \union parts[2]
           /\ s \in parts[1] => f \in parts[1]
BY DEF Layouts

LEMMA InodeLayout ==
    ASSUME NEW n \in Inodes
    PROVE  /\ Len(InodeParts[n]) \in 1..2
           /\ Len(InodeParts[n]) = 1 => "number" \in InodeParts[n][1] /\ "kind" \in InodeParts[n][1]
           /\ Len(InodeParts[n]) = 2 => /\ "number" \in InodeParts[n][1] \/ "number" \in InodeParts[n][2]
                                        /\ "kind" \in InodeParts[n][1] \/ "kind" \in InodeParts[n][2]
<1>1. InodeParts[n] \in Layouts("number", "kind")
    BY Qfs2Assumption DEF Inodes
<1> QED BY <1>1, LayoutIs

LEMMA DentryLayout ==
    ASSUME NEW d \in Dentries
    PROVE  /\ Len(DentryParts[d]) \in 1..2
           /\ Len(DentryParts[d]) = 1 => "link" \in DentryParts[d][1] /\ "name" \in DentryParts[d][1]
           /\ Len(DentryParts[d]) = 2 => /\ "link" \in DentryParts[d][1] \/ "link" \in DentryParts[d][2]
                                         /\ "name" \in DentryParts[d][1] \/ "name" \in DentryParts[d][2]
           /\ "name" \in DentryParts[d][1] => "link" \in DentryParts[d][1]
<1>1. DentryParts[d] \in Layouts("link", "name")
    BY Qfs2Assumption DEF Dentries
<1> QED BY <1>1, LayoutIs

(* What the write of one sector makes of a record.                           *)
LEMMA StoredInode ==
    ASSUME NEW old \in InodeRecord, NEW new, NEW fields
    PROVE  Stored(old, new, fields) =
               [number |-> IF "number" \in fields THEN new.number ELSE old.number,
                kind |-> IF "kind" \in fields THEN new.kind ELSE old.kind]
<1>1. DOMAIN old = {"number", "kind"}
    BY DEF InodeRecord
<1> QED BY <1>1 DEF Stored

LEMMA StoredDentry ==
    ASSUME NEW old \in DentryRecord, NEW new, NEW fields
    PROVE  Stored(old, new, fields) =
               [link |-> IF "link" \in fields THEN new.link ELSE old.link,
                name |-> IF "name" \in fields THEN new.name ELSE old.name]
<1>1. DOMAIN old = {"link", "name"}
    BY DEF DentryRecord
<1> QED BY <1>1 DEF Stored

-----------------------------------------------------------------------------
(* Lookups.                                                                  *)
LEMMA FoundIs ==
    ASSUME NEW parent, NEW name, Matches(parent, name) # {}
    PROVE  \E e \in Matches(parent, name) :
              /\ find_child(parent, name) = dentries[e].link.inode
              /\ \A d \in Dentries : d < e => d \notin Matches(parent, name)
<1>1. Matches(parent, name) \subseteq Nat
    BY DEF Matches, Dentries
<1>2. PICK e \in Matches(parent, name) :
          /\ e = Least(Matches(parent, name))
          /\ \A d \in Matches(parent, name) : e <= d
    BY <1>1, LeastIsLeast
<1>3. find_child(parent, name) = dentries[e].link.inode
    BY <1>2 DEF find_child
<1>4. \A d \in Dentries : d < e => d \notin Matches(parent, name)
    BY <1>1, <1>2 DEF Dentries
<1> QED BY <1>3, <1>4

LEMMA FirstIsFound ==
    ASSUME NEW parent, NEW name, NEW e \in Matches(parent, name),
           \A d \in Dentries : d < e => d \notin Matches(parent, name)
    PROVE  find_child(parent, name) = dentries[e].link.inode
<1>1. Matches(parent, name) \subseteq Dentries /\ Matches(parent, name) \subseteq Nat
    BY DEF Matches, Dentries
<1>2. \A d \in Matches(parent, name) : e <= d
    BY <1>1 DEF Dentries
<1>3. Least(Matches(parent, name)) = e
    BY <1>1, <1>2, LeastIs
<1> QED BY <1>3 DEF find_child

(* What is found below an inode is the child of a complete entry.            *)
LEMMA MatchesAreNamed ==
    ASSUME TypeOK, NEW parent \in Inodes, NEW name \in Names
    PROVE  /\ Matches(parent, name) \subseteq Named
           /\ \A e \in Named : dentries[e].link \in Link
           /\ find_child(parent, name) = 0 => Matches(parent, name) = {}
<1>1. NoName \notin Names /\ NoName \notin {} /\ 0 \notin Inodes
    BY Qfs2Assumption DEF Inodes
<1>2. Matches(parent, name) \subseteq Named
    BY <1>1 DEF Matches, Named, Linked, NoLink
<1>3. \A e \in Named : dentries[e].link \in Link
    BY DEF Named, Linked, TypeOK
<1>4. ASSUME Matches(parent, name) # {} PROVE find_child(parent, name) # 0
    <2>1. PICK e \in Matches(parent, name) : find_child(parent, name) = dentries[e].link.inode
        BY <1>4, FoundIs
    <2> QED BY <1>1, <1>2, <1>3, <2>1 DEF Link
<1> QED BY <1>2, <1>3, <1>4

(* What a walk along a path computes, one component after the other.         *)
LEMMA WalkIs ==
    ASSUME NEW path, Len(path) \in Nat
    PROVE  \E walk : /\ walk[0] = RootInode
                     /\ \A i \in 1..Len(path) :
                           walk[i] = IF walk[i - 1] = 0 THEN 0 ELSE find_child(walk[i - 1], path[i])
                     /\ find_path(path) = walk[Len(path)]
<1> DEFINE Down(n, i) == IF n = 0 THEN 0 ELSE find_child(n, path[i])
           Is(f, n) == f = [i \in 0..n |-> IF i = 0 THEN RootInode ELSE Down(f[i - 1], i)]
           S == {n \in Nat : \E f : Is(f, n)}
           W == CHOOSE f : Is(f, Len(path))
<1>1. 0 \in S
    <2>1. Is([i \in 0..0 |-> RootInode], 0)
        OBVIOUS
    <2> QED BY <2>1
<1>2. ASSUME NEW n \in Nat, n \in S PROVE n + 1 \in S
    <2>1. PICK f : Is(f, n)
        BY <1>2
    <2> DEFINE g == [i \in 0..n + 1 |-> IF i = 0 THEN RootInode ELSE Down(f[i - 1], i)]
    <2>2. ASSUME NEW i \in 0..n PROVE g[i] = f[i]
        <3>1. i \in 0..n + 1
            OBVIOUS
        <3>2. g[i] = IF i = 0 THEN RootInode ELSE Down(f[i - 1], i)
            <4> HIDE DEF Down
            <4> QED BY <3>1
        <3>3. f[i] = IF i = 0 THEN RootInode ELSE Down(f[i - 1], i)
            <4>1. f = [b \in 0..n |-> IF b = 0 THEN RootInode ELSE Down(f[b - 1], b)]
                BY <2>1
            <4> HIDE DEF Down
            <4> QED BY ONLY <4>1, i \in 0..n
        <3> QED BY <3>2, <3>3
    <2>3. ASSUME NEW i \in 0..n + 1 PROVE g[i] = IF i = 0 THEN RootInode ELSE Down(g[i - 1], i)
        <3>1. g[i] = IF i = 0 THEN RootInode ELSE Down(f[i - 1], i)
            <4> HIDE DEF Down
            <4> QED OBVIOUS
        <3>2. i # 0 => g[i - 1] = f[i - 1]
            <4>1. i # 0 => i - 1 \in 0..n
                OBVIOUS
            <4> HIDE DEF g
            <4> QED BY <2>2, <4>1
        <3> HIDE DEF g, Down
        <3> QED BY <3>1, <3>2
    <2>4. Is(g, n + 1)
        <3> HIDE DEF Down
        <3> QED BY <2>3
    <2>5. \E h : Is(h, n + 1)
        <3> HIDE DEF Is, g
        <3> QED BY <2>4
    <2> HIDE DEF Is
    <2> QED BY <2>5
<1>3. Len(path) \in S
    <2> HIDE DEF S
    <2>1. Nat \subseteq S
        BY <1>1, <1>2, SetInduction
    <2> QED BY <2>1
<1>4. Is(W, Len(path))
    <2>1. \E f : Is(f, Len(path))
        BY <1>3
    <2> HIDE DEF Is
    <2> QED BY <2>1
<1>5. find_path(path) = W[Len(path)]
    BY DEF find_path
<1>6. W[0] = RootInode /\ \A i \in 1..Len(path) : W[i] = Down(W[i - 1], i)
    <2> HIDE DEF Down, W
    <2>1. W = [i \in 0..Len(path) |-> IF i = 0 THEN RootInode ELSE Down(W[i - 1], i)]
        BY <1>4
    <2> QED BY <2>1
<1>7. \A i \in 1..Len(path) : W[i] = IF W[i - 1] = 0 THEN 0 ELSE find_child(W[i - 1], path[i])
    <2> HIDE DEF W
    <2> QED BY <1>6
<1> HIDE DEF W
<1> QED BY <1>5, <1>6, <1>7

(* A path leads to the root, to the child of a complete entry that is not a  *)
(* second one of its name, or nowhere.                                       *)
LEMMA PathLeads ==
    ASSUME TypeOK, DoubledInv, NEW path \in Paths
    PROVE  find_path(path) = 0 \/ (find_path(path) \in Inodes /\ Reachable(find_path(path)))
<1> DEFINE Ends(n) == n = 0 \/ (n \in Inodes /\ Reachable(n))
<1>1. PICK k \in 0..MaxDepth : path \in [1..k -> Names]
    BY DEF Paths
<1>2. k \in Nat /\ Len(path) = k /\ \A i \in 1..k : path[i] \in Names
    BY <1>1, Qfs2Assumption
<1>3. PICK walk :
          /\ walk[0] = RootInode
          /\ \A i \in 1..k : walk[i] = IF walk[i - 1] = 0 THEN 0 ELSE find_child(walk[i - 1], path[i])
          /\ find_path(path) = walk[k]
    BY <1>2, WalkIs
<1>4. ASSUME NEW n \in Inodes, NEW name \in Names PROVE Ends(find_child(n, name))
    <2>1. CASE Matches(n, name) = {}
        BY <2>1 DEF find_child
    <2>2. CASE Matches(n, name) # {}
        <3>1. PICK e \in Matches(n, name) :
                  /\ find_child(n, name) = dentries[e].link.inode
                  /\ \A d \in Dentries : d < e => d \notin Matches(n, name)
            BY <2>2, FoundIs
        <3>2. e \in Named /\ dentries[e].link.inode \in Inodes
            BY <3>1, MatchesAreNamed DEF Link
        <3>3. e \notin doubled
            <4> SUFFICES ASSUME e \in doubled PROVE FALSE
                OBVIOUS
            <4>1. PICK d \in Dentries : Twin(d, e)
                BY <3>2 DEF DoubledInv
            <4> QED BY <3>1, <4>1 DEF Twin, Matches
        <3> QED BY <3>1, <3>2, <3>3 DEF Reachable
    <2> QED BY <2>1, <2>2
<1> DEFINE S == {i \in Nat : i \in 0..k => Ends(walk[i])}
<1>5. 0 \in S
    <2>1. RootInode \in Inodes /\ Reachable(RootInode)
        BY Qfs2Assumption DEF RootInode, Inodes, Reachable
    <2> QED BY <1>3, <2>1
<1>6. ASSUME NEW i \in Nat, i \in S PROVE i + 1 \in S
    <2> SUFFICES ASSUME i + 1 \in 0..k PROVE Ends(walk[i + 1])
        OBVIOUS
    <2>1. i \in 0..k /\ i + 1 \in 1..k /\ (i + 1) - 1 = i
        BY <1>2
    <2>2. walk[i + 1] = IF walk[i] = 0 THEN 0 ELSE find_child(walk[i], path[i + 1])
        BY <1>3, <2>1
    <2>3. Ends(walk[i]) /\ path[i + 1] \in Names
        BY <1>2, <1>6, <2>1
    <2> HIDE DEF Ends
    <2>4. CASE walk[i] = 0
        BY <2>2, <2>4 DEF Ends
    <2>5. CASE walk[i] # 0
        <3>1. walk[i] \in Inodes
            BY <2>3, <2>5 DEF Ends
        <3> QED BY <1>4, <2>2, <2>3, <2>5, <3>1
    <2> QED BY <2>4, <2>5
<1>7. k \in S
    <2> HIDE DEF S
    <2>1. Nat \subseteq S
        BY <1>5, <1>6, SetInduction
    <2> QED BY <1>2, <2>1
<1> QED BY <1>2, <1>3, <1>7

-----------------------------------------------------------------------------
(* The initial states.                                                       *)
LEMMA InitIInv == Init => IInv
<1> SUFFICES ASSUME Init PROVE IInv
    OBVIOUS
<1>1. RootInode \in Inodes /\ RootInode = 1
    BY Qfs2Assumption DEF RootInode, Inodes
<1>2. /\ \A n \in Inodes : inodes[n] = IF n = RootInode THEN [number |-> n, kind |-> "DIRECTORY"] ELSE FreeInode
      /\ \A d \in Dentries : dentries[d] = FreeDentry
      /\ pc = "idle" /\ part = 1 /\ acknowledged = {} /\ abandoned = {} /\ doubled = {} /\ mishaps = 0
    BY DEF Init
<1>3. Linked = {} /\ Named = {}
    BY <1>2 DEF Linked, Named, FreeDentry
<1>4. TypeOK
    BY <1>1, Qfs2Assumption DEF Init, TypeOK, Inodes, Kinds, FreeInode, FreeDentry
<1>5. DiskInv
    BY <1>1, <1>2, <1>3 DEF DiskInv, AgreeUnlessAbandoned, Sound
<1>6. LeakInv
    <2>1. ASSUME NEW n \in Inodes \ {RootInode} PROVE inodes[n].number = 0
        <3>1. inodes[n] = FreeInode
            BY <1>2
        <3> QED BY <3>1 DEF FreeInode
    <2>2. Lost = {}
        BY <2>1 DEF Lost, LeakedInodes
    <2> QED BY <1>2, <2>2, FS_EmptySet DEF LeakInv
<1>7. OpInv /\ AckInv /\ DoubledInv /\ ParentInv
    BY <1>2 DEF OpInv, AckInv, DoubledInv, ParentInv, Adding
<1> QED BY <1>4, <1>5, <1>6, <1>7 DEF IInv

-----------------------------------------------------------------------------
(* Inodes are counted: those that are lost are finitely many.                *)
LEMMA LostIsFinite == IsFiniteSet(LeakedInodes) /\ IsFiniteSet(Lost) /\ Cardinality(Lost) \in Nat
<1>1. IsFiniteSet(Inodes)
    BY FS_Interval, Qfs2Assumption DEF Inodes
<1>2. LeakedInodes \in SUBSET Inodes /\ Lost \in SUBSET Inodes
    BY DEF LeakedInodes, Lost
<1>3. IsFiniteSet(LeakedInodes) /\ IsFiniteSet(Lost)
    BY <1>1, <1>2, FS_Subset
<1> QED BY <1>3, FS_CardinalityType

(* create_node chooses its records: the first free inode and the first free  *)
(* entry, which follows the linked ones.                                     *)
LEMMA Prepared ==
    ASSUME IInv, NEW path \in Paths, NEW name \in Names, NEW kind \in Kinds,
           Prepares(find_path(path), name, kind)
    PROVE  \E o \in Operation :
              /\ op' = o
              /\ pc = "idle" /\ pc' = "inode" /\ part' = 1
              /\ UNCHANGED <<inodes, dentries, acknowledged, abandoned>>
              /\ o.parent = find_path(path) /\ o.name = name /\ o.kind = kind
              /\ o.inode # RootInode /\ inodes[o.inode].number = 0
              /\ o.entry \notin Linked
              /\ \A d \in Dentries : /\ d < o.entry => d \in Linked
                                     /\ d > o.entry => d \notin Linked
              /\ Reachable(o.parent)
              /\ inodes[o.parent].kind = "DIRECTORY"
<1>1. TypeOK /\ DiskInv /\ DoubledInv
    BY DEF IInv
<1>2. /\ pc = "idle" /\ pc' = "inode" /\ part' = 1
      /\ UNCHANGED <<inodes, dentries, acknowledged, abandoned>>
      /\ op' = [parent |-> find_path(path), name |-> name, kind |-> kind,
                inode |-> Least(FreeInodes), entry |-> Least(FreeDentries)]
      /\ find_path(path) # 0
      /\ inodes[find_path(path)].kind = "DIRECTORY"
      /\ FreeInodes # {} /\ FreeDentries # {}
    BY DEF Prepares, diskVars
<1>3. find_path(path) \in Inodes /\ Reachable(find_path(path))
    BY <1>1, <1>2, PathLeads
<1>4. Least(FreeInodes) \in FreeInodes
    <2>1. FreeInodes \subseteq Nat
        BY DEF FreeInodes, Inodes
    <2> QED BY <1>2, <2>1, LeastIsLeast
<1>5. Least(FreeDentries) \in FreeDentries /\ \A d \in FreeDentries : Least(FreeDentries) <= d
    <2>1. FreeDentries \subseteq Nat
        BY DEF FreeDentries, Dentries
    <2> QED BY <1>2, <2>1, LeastIsLeast
<1>6. /\ Least(FreeInodes) \in Inodes /\ Least(FreeInodes) # RootInode
      /\ inodes[Least(FreeInodes)].number = 0
    BY <1>4 DEF FreeInodes
<1>7. Least(FreeDentries) \in Dentries /\ Least(FreeDentries) \notin Linked
    BY <1>5 DEF FreeDentries, Linked
<1>8. \A d \in Dentries : /\ d < Least(FreeDentries) => d \in Linked
                          /\ d > Least(FreeDentries) => d \notin Linked
    <2>1. \A d \in Dentries : d < Least(FreeDentries) => d \in Linked
        BY <1>5, <1>7 DEF FreeDentries, Linked, Dentries
    <2>2. \A d \in Dentries : d > Least(FreeDentries) => d \notin Linked
        BY <1>1, <1>7 DEF DiskInv, Dentries
    <2> QED BY <2>1, <2>2
<1>9. op' \in Operation
    BY <1>2, <1>3, <1>6, <1>7 DEF Operation
<1> QED BY <1>2, <1>3, <1>6, <1>7, <1>8, <1>9

LEMMA BeginIInv ==
    ASSUME IInv, NEW path \in Paths, NEW name \in Names, NEW kind \in Kinds,
           CreateBegins(path, name, kind) \/ CreateUnread(path, name, kind)
    PROVE  IInv'
<1>1. Prepares(find_path(path), name, kind)
    BY DEF CreateBegins, CreateUnread
<1>2. PICK o \in Operation :
          /\ op' = o
          /\ pc = "idle" /\ pc' = "inode" /\ part' = 1
          /\ UNCHANGED <<inodes, dentries, acknowledged, abandoned>>
          /\ o.parent = find_path(path) /\ o.name = name /\ o.kind = kind
          /\ o.inode # RootInode /\ inodes[o.inode].number = 0
          /\ o.entry \notin Linked
          /\ \A d \in Dentries : /\ d < o.entry => d \in Linked
                                 /\ d > o.entry => d \notin Linked
          /\ Reachable(o.parent)
          /\ inodes[o.parent].kind = "DIRECTORY"
    BY <1>1, Prepared
<1>3. /\ o.parent \in Inodes /\ o.inode \in Inodes /\ o.entry \in Dentries
      /\ TypeOK /\ DiskInv
    BY <1>2 DEF Operation, IInv
<1>4. mishaps' \in 0..MaxMishaps /\ mishaps \in Nat /\ mishaps' >= mishaps
    BY <1>3, Qfs2Assumption DEF CreateBegins, CreateUnread, TypeOK
<1>5. \/ find_child(o.parent, o.name) = 0 /\ doubled' = doubled \ {o.entry}
      \/ find_child(o.parent, o.name) # 0 /\ doubled' = doubled \union {o.entry}
    BY <1>2 DEF CreateBegins, CreateUnread
<1>6. TypeOK'
    BY <1>2, <1>3, <1>4, <1>5 DEF TypeOK
<1>7. Linked' = Linked /\ Named' = Named
    BY <1>2 DEF Linked, Named
<1>8. DiskInv'
    BY <1>2, <1>3, <1>7 DEF DiskInv, AgreeUnlessAbandoned, Sound
<1>9. OpInv'
    <2>1. \A d \in Linked \ abandoned : dentries[d].link.inode # o.inode
        <3> SUFFICES ASSUME NEW d \in Linked \ abandoned, dentries[d].link.inode = o.inode
                     PROVE  FALSE
            OBVIOUS
        <3>1. inodes[dentries[d].link.inode] =
                  [number |-> dentries[d].link.inode, kind |-> dentries[d].link.kind]
            BY <1>3 DEF DiskInv, AgreeUnlessAbandoned, Sound
        <3> QED BY <1>2, <1>3, <3>1 DEF Inodes
    <2>2. Reserved'
        BY <1>2, <1>7, <2>1 DEF Reserved
    <2>3. InodePhase'
        BY <1>2, <1>3, <1>7, InodeLayout DEF InodePhase
    <2> QED BY <1>2, <2>2, <2>3 DEF OpInv
<1>10. LeakInv'
    <2>1. Lost' = Lost
        <3>1. LeakedInodes' = LeakedInodes
            BY <1>2, <1>7 DEF LeakedInodes
        <3>2. o.inode \notin LeakedInodes
            BY <1>2 DEF LeakedInodes
        <3> QED BY <1>2, <3>1, <3>2 DEF Lost
    <2>2. Cardinality(Lost) <= mishaps /\ Cardinality(Lost) \in Nat
        <3>1. Cardinality(Lost) \in Nat
            BY LostIsFinite
        <3> QED BY <1>2, <3>1 DEF IInv, LeakInv
    <2> QED BY <1>2, <1>4, <2>1, <2>2 DEF LeakInv
<1>11. AckInv'
    <2> SUFFICES ASSUME NEW a \in acknowledged
                 PROVE  /\ inodes[a.inode] = [number |-> a.inode, kind |-> a.kind]
                        /\ o.inode # a.inode
                        /\ \E e \in Dentries : StandsFor(e, a)'
        BY <1>2 DEF AckInv
    <2>1. /\ inodes[a.inode] = [number |-> a.inode, kind |-> a.kind]
          /\ a \in Operation
        BY <1>3 DEF IInv, AckInv, TypeOK
    <2>2. o.inode # a.inode
        BY <1>2, <2>1 DEF Operation, Inodes
    <2>3. PICK e \in Dentries : StandsFor(e, a)
        BY DEF IInv, AckInv
    <2>4. e \in Linked
        BY <2>1, <2>3 DEF StandsFor, Matches, Linked, Operation, Inodes, NoLink
    <2>5. e < o.entry
        BY <1>2, <1>3, <2>4 DEF Dentries
    <2>6. StandsFor(e, a)'
        BY <1>2, <2>3, <2>5 DEF StandsFor, Matches
    <2> QED BY <2>1, <2>2, <2>6
<1>12. DoubledInv'
    <2>1. o.entry \notin Named
        BY <1>2 DEF Named
    <2>2. \A d \in doubled' \intersect Named : \E e \in Dentries : Twin(e, d)
        BY <1>5, <2>1 DEF IInv, DoubledInv
    <2>3. Matches(o.parent, o.name)' = Matches(o.parent, o.name)
        BY <1>2 DEF Matches
    <2>4. o.name \in Names
        BY <1>2 DEF Operation
    <2>5. Matches(o.parent, o.name) \subseteq Named
        BY <1>3, <2>4, MatchesAreNamed
    <2>6. CASE find_child(o.parent, o.name) = 0 /\ doubled' = doubled \ {o.entry}
        <3>1. Matches(o.parent, o.name) = {}
            BY <1>3, <2>4, <2>6, MatchesAreNamed
        <3> QED BY <1>2, <1>7, <2>2, <2>3, <2>6, <3>1 DEF DoubledInv, Twin
    <2>7. CASE find_child(o.parent, o.name) # 0 /\ doubled' = doubled \union {o.entry}
        <3>1. PICK e \in Matches(o.parent, o.name) : TRUE
            BY <2>7 DEF find_child
        <3>2. e \in Linked /\ e \in Dentries
            BY <2>5 DEF Named, Linked
        <3>3. e < o.entry
            BY <1>2, <1>3, <3>2 DEF Dentries
        <3> QED BY <1>2, <1>7, <2>2, <2>3, <2>7, <3>3 DEF DoubledInv, Twin
    <2> QED BY <1>5, <2>6, <2>7
<1>13. ParentInv'
    <2>1. o.entry \notin Named
        BY <1>2 DEF Named
    <2>2. Reachable(o.parent)'
        BY <1>2, <1>5, <1>7, <2>1 DEF Reachable
    <2> QED BY <1>2, <2>2 DEF ParentInv
<1> QED BY <1>6, <1>8, <1>9, <1>10, <1>11, <1>12, <1>13 DEF IInv

-----------------------------------------------------------------------------
(* One turn of write_metadata's loop.                                        *)
LEMMA ProceedIs ==
    ASSUME TypeOK, NEW outcome \in Outcomes, NEW parts, Len(parts) \in 1..2, part \in 1..Len(parts),
           NEW done, NEW failed, Proceed(outcome, parts, done, failed)
    PROVE  /\ mishaps' \in 0..MaxMishaps
           /\ part' \in 1..2
           /\ outcome \in {"ok", "lost", "late"}
           /\ outcome = "ok" => /\ mishaps' = mishaps
                                /\ \/ part = 1 /\ Len(parts) = 2 /\ part' = 2 /\ pc' = pc
                                   \/ part = Len(parts) /\ part' = 1 /\ pc' = done
           /\ outcome # "ok" => mishaps' = mishaps + 1 /\ part' = 1 /\ pc' = failed
<1>1. outcome \in {"ok", "lost", "late"}
    BY Qfs2Assumption
<1>2. outcome = "ok" => /\ mishaps' = mishaps
                        /\ \/ part < Len(parts) /\ part' = part + 1 /\ pc' = pc
                           \/ ~(part < Len(parts)) /\ part' = 1 /\ pc' = done
    BY DEF Proceed
<1>3. outcome # "ok" => mishaps < MaxMishaps /\ mishaps' = mishaps + 1 /\ part' = 1 /\ pc' = failed
    BY DEF Proceed
<1>4. mishaps' \in 0..MaxMishaps
    BY <1>2, <1>3, Qfs2Assumption DEF TypeOK
<1>5. /\ part \in {1, 2} /\ Len(parts) \in {1, 2}
      /\ part < Len(parts) => part = 1 /\ Len(parts) = 2 /\ part + 1 = 2
      /\ ~(part < Len(parts)) => part = Len(parts)
    <2>1. PICK l \in 1..2 : l = Len(parts)
        OBVIOUS
    <2>2. part \in Int /\ 1 <= part /\ part <= l
        BY <2>1
    <2>3. /\ part \in {1, 2} /\ l \in {1, 2}
          /\ part < l => part = 1 /\ l = 2 /\ part + 1 = 2
          /\ ~(part < l) => part = l
        BY <2>2
    <2> QED BY <2>1, <2>3
<1> QED BY <1>1, <1>2, <1>3, <1>4, <1>5

LEMMA InodeRecordWritten ==
    ASSUME IInv, NEW outcome \in Outcomes, NEW number, NEW kind, NEW done, NEW failed,
           [number |-> number, kind |-> kind] \in InodeRecord,
           pc \in {"inode", "rollback"},
           WriteInodeRecord(outcome, [number |-> number, kind |-> kind], done, failed)
    PROVE  /\ UNCHANGED <<dentries, op, acknowledged>>
           /\ inodes' \in [Inodes -> InodeRecord]
           /\ \A n \in Inodes : n # op.inode => inodes'[n] = inodes[n]
           /\ outcome = "lost" => inodes'[op.inode] = inodes[op.inode]
           /\ outcome # "lost" =>
                 inodes'[op.inode] =
                    [number |-> IF "number" \in InodeParts[op.inode][part] THEN number
                                ELSE inodes[op.inode].number,
                     kind |-> IF "kind" \in InodeParts[op.inode][part] THEN kind
                              ELSE inodes[op.inode].kind]
           /\ part \in 1..Len(InodeParts[op.inode])
           /\ Len(InodeParts[op.inode]) \in 1..2
           /\ Proceed(outcome, InodeParts[op.inode], done, failed)
<1>1. op.inode \in Inodes /\ part \in 1..Len(InodeParts[op.inode])
    BY DEF IInv, OpInv, Reserved, Operation, InodePhase, RollbackPhase
<1>2. inodes \in [Inodes -> InodeRecord]
    BY DEF IInv, TypeOK, InodeRecord
<1>3. /\ UNCHANGED <<dentries, op, acknowledged>>
      /\ Proceed(outcome, InodeParts[op.inode], done, failed)
      /\ outcome = "lost" => inodes' = inodes
      /\ outcome # "lost" =>
            inodes' = [inodes EXCEPT ![op.inode] =
                          Stored(inodes[op.inode], [number |-> number, kind |-> kind], InodeParts[op.inode][part])]
    BY DEF WriteInodeRecord
<1>4. Stored(inodes[op.inode], [number |-> number, kind |-> kind], InodeParts[op.inode][part]) =
          [number |-> IF "number" \in InodeParts[op.inode][part] THEN number
                      ELSE inodes[op.inode].number,
           kind |-> IF "kind" \in InodeParts[op.inode][part] THEN kind
                    ELSE inodes[op.inode].kind]
    BY <1>1, <1>2, StoredInode
<1>5. Stored(inodes[op.inode], [number |-> number, kind |-> kind], InodeParts[op.inode][part]) \in InodeRecord
    BY <1>1, <1>2, <1>4 DEF InodeRecord
<1>6. Len(InodeParts[op.inode]) \in 1..2
    BY <1>1, InodeLayout
<1> QED BY <1>1, <1>2, <1>3, <1>4, <1>5, <1>6

(* A write of the operation's inode loses that inode at most.                *)
LEMMA OneInodeMore ==
    ASSUME IInv, dentries' = dentries, pc # "idle",
           \A n \in Inodes : n # op.inode => inodes'[n] = inodes[n]
    PROVE  /\ LeakedInodes' \ {op.inode} = Lost
           /\ Cardinality(LeakedInodes') <= Cardinality(Lost) + 1
           /\ Cardinality(LeakedInodes') \in Nat
<1>1. Named' = Named
    BY DEF Named, Linked
<1>2. LeakedInodes' \ {op.inode} = Lost
    BY <1>1 DEF LeakedInodes, Lost
<1>3. IsFiniteSet(Lost) /\ Cardinality(Lost) \in Nat
    BY LostIsFinite
<1>4. /\ IsFiniteSet(Lost \union {op.inode})
      /\ Cardinality(Lost \union {op.inode}) \in Nat
      /\ Cardinality(Lost \union {op.inode}) <= Cardinality(Lost) + 1
    BY <1>3, FS_AddElement, FS_CardinalityType
<1>5. LeakedInodes' \in SUBSET (Lost \union {op.inode})
    BY <1>2
<1>6. /\ IsFiniteSet(LeakedInodes')
      /\ Cardinality(LeakedInodes') <= Cardinality(Lost \union {op.inode})
    BY <1>4, <1>5, FS_Subset
<1>7. Cardinality(LeakedInodes') \in Nat
    BY <1>6, FS_CardinalityType
<1> QED BY <1>2, <1>3, <1>4, <1>6, <1>7

(* Acknowledged nodes have inodes and entries of their own.                  *)
LEMMA AcknowledgedKept ==
    ASSUME IInv, UNCHANGED <<dentries, op, acknowledged>>, Writing' => Writing,
           \A n \in Inodes : n # op.inode \/ ~Writing => inodes'[n] = inodes[n]
    PROVE  AckInv'
<1> SUFFICES ASSUME NEW a \in acknowledged
             PROVE  /\ inodes'[a.inode] = [number |-> a.inode, kind |-> a.kind]
                    /\ Writing' => op.inode # a.inode
                    /\ \E e \in Dentries : StandsFor(e, a)'
    BY DEF AckInv
<1>1. /\ a.inode \in Inodes
      /\ inodes[a.inode] = [number |-> a.inode, kind |-> a.kind]
      /\ Writing => op.inode # a.inode
    BY DEF IInv, AckInv, TypeOK, Operation
<1>2. PICK e \in Dentries : StandsFor(e, a)
    BY DEF IInv, AckInv
<1>3. StandsFor(e, a)'
    BY <1>2 DEF StandsFor, Matches
<1> QED BY <1>1, <1>2, <1>3

LEMMA WriteInodeIInv ==
    ASSUME IInv, NEW outcome \in Outcomes, WriteInode(outcome)
    PROVE  IInv'
<1>0. /\ TypeOK /\ DiskInv /\ OpInv /\ LeakInv /\ DoubledInv /\ ParentInv
      /\ pc = "inode" /\ Reserved /\ InodePhase
    BY DEF IInv, WriteInode, OpInv
<1>1. OpInode \in InodeRecord /\ op.inode \in Inodes /\ op.kind \in Kinds /\ op.entry \in Dentries
    BY <1>0 DEF Reserved, Operation, OpInode, InodeRecord, Inodes
<1>2. WriteInodeRecord(outcome, OpInode, "dentry", "idle") /\ UNCHANGED <<abandoned, doubled>>
    BY DEF WriteInode, OpInode
<1>3. /\ UNCHANGED <<dentries, op, acknowledged>>
      /\ inodes' \in [Inodes -> InodeRecord]
      /\ \A n \in Inodes : n # op.inode => inodes'[n] = inodes[n]
      /\ outcome # "lost" =>
            inodes'[op.inode] =
               [number |-> IF "number" \in InodeParts[op.inode][part] THEN op.inode
                           ELSE inodes[op.inode].number,
                kind |-> IF "kind" \in InodeParts[op.inode][part] THEN op.kind
                         ELSE inodes[op.inode].kind]
      /\ part \in 1..Len(InodeParts[op.inode])
      /\ Len(InodeParts[op.inode]) \in 1..2
      /\ Proceed(outcome, InodeParts[op.inode], "dentry", "idle")
    BY <1>0, <1>1, <1>2, InodeRecordWritten DEF OpInode
<1>4. /\ mishaps' \in 0..MaxMishaps
      /\ part' \in 1..2
      /\ outcome \in {"ok", "lost", "late"}
      /\ outcome = "ok" => /\ mishaps' = mishaps
                           /\ \/ part = 1 /\ Len(InodeParts[op.inode]) = 2 /\ part' = 2 /\ pc' = "inode"
                              \/ part = Len(InodeParts[op.inode]) /\ part' = 1 /\ pc' = "dentry"
      /\ outcome # "ok" => mishaps' = mishaps + 1 /\ part' = 1 /\ pc' = "idle"
    BY <1>0, <1>3, ProceedIs
<1>5. TypeOK'
    <2>1. pc' \in {"idle", "inode", "dentry"} /\ part' \in 1..2
        BY <1>4
    <2> QED BY <1>0, <1>2, <1>3, <1>4, <2>1 DEF TypeOK, InodeRecord
<1>6. Linked' = Linked /\ Named' = Named
    BY <1>3 DEF Linked, Named
<1>7. \A d \in Linked \ abandoned : dentries[d].link.inode # op.inode
    BY <1>0 DEF Reserved, InodePhase
<1>8. DiskInv'
    <2>1. \A d \in Linked \ abandoned : inodes'[dentries[d].link.inode] = inodes[dentries[d].link.inode]
        BY <1>0, <1>3, <1>7 DEF TypeOK, Linked, Link
    <2>2. AgreeUnlessAbandoned'
        BY <1>0, <1>2, <1>3, <1>6, <2>1 DEF DiskInv, AgreeUnlessAbandoned, Sound
    <2>3. inodes'[RootInode] = inodes[RootInode]
        BY <1>0, <1>3, Qfs2Assumption DEF Reserved, RootInode, Inodes
    <2> QED BY <1>0, <1>2, <1>3, <1>6, <2>2, <2>3 DEF DiskInv
<1>9. OpInv'
    <2>1. Reserved'
        BY <1>0, <1>2, <1>3, <1>6 DEF Reserved, OpLink
    <2>2. CASE outcome = "ok" /\ pc' = "inode"
        <3>1. part = 1 /\ part' = 2 /\ Len(InodeParts[op.inode]) = 2
            BY <1>4, <2>2
        <3>2. InodePhase'
            BY <1>0, <1>3, <1>6, <2>2, <3>1 DEF InodePhase
        <3> QED BY <2>1, <2>2, <3>2 DEF OpInv
    <2>3. CASE outcome = "ok" /\ pc' = "dentry"
        <3>1. part = Len(InodeParts[op.inode]) /\ part' = 1
            BY <1>4, <2>3
        <3>2. inodes'[op.inode].number = op.inode /\ inodes'[op.inode].kind = op.kind
            BY <1>0, <1>1, <1>3, <2>3, <3>1, InodeLayout DEF InodePhase
        <3>3. inodes'[op.inode] = OpInode
            BY <1>1, <1>3, <3>2 DEF OpInode, InodeRecord
        <3>4. DentryPhase'
            <4>1. op.entry \notin Linked /\ op.entry \notin abandoned
                BY <1>0 DEF InodePhase, DiskInv
            <4> QED BY <1>1, <1>2, <1>3, <1>6, <3>1, <3>3, <4>1, DentryLayout DEF DentryPhase, OpInode
        <3> QED BY <2>1, <2>3, <3>4 DEF OpInv
    <2>4. CASE outcome # "ok"
        BY <1>4, <2>4 DEF OpInv
    <2> QED BY <1>4, <2>2, <2>3, <2>4
<1>10. LeakInv'
    <2>1. /\ LeakedInodes' \ {op.inode} = Lost
          /\ Cardinality(LeakedInodes') <= Cardinality(Lost) + 1
          /\ Cardinality(LeakedInodes') \in Nat
        BY <1>0, <1>3, OneInodeMore
    <2>2. Cardinality(Lost) \in Nat /\ Cardinality(Lost) <= mishaps /\ mishaps \in Nat
        BY <1>0, LostIsFinite, Qfs2Assumption DEF LeakInv, TypeOK
    <2>3. CASE outcome = "ok"
        <3>1. Lost' = Lost /\ pc' # "rollback"
            BY <1>3, <1>4, <2>1, <2>3 DEF Lost
        <3> QED BY <1>4, <2>2, <2>3, <3>1 DEF LeakInv
    <2>4. CASE outcome # "ok"
        <3>1. Lost' = LeakedInodes'
            BY <1>4, <2>4 DEF Lost
        <3> QED BY <1>4, <2>1, <2>2, <2>4, <3>1 DEF LeakInv
    <2> QED BY <2>3, <2>4
<1>11. AckInv'
    BY <1>0, <1>3, AcknowledgedKept DEF Writing
<1>12. DoubledInv'
    BY <1>0, <1>2, <1>3, <1>6 DEF DoubledInv, Adding, Matches, Twin
<1>13. ParentInv'
    <2>1. ASSUME abandoned = {} PROVE op.parent # op.inode
        BY <1>0, <1>7, <2>1 DEF ParentInv, Adding, Reachable, Named, Reserved
    <2>2. op.parent \in Inodes
        BY <1>0 DEF Reserved, Operation
    <2> QED BY <1>0, <1>2, <1>3, <1>6, <2>1, <2>2 DEF ParentInv, Adding, Reachable
<1> QED BY <1>5, <1>8, <1>9, <1>10, <1>11, <1>12, <1>13 DEF IInv

LEMMA RollbackIInv ==
    ASSUME IInv, NEW outcome \in Outcomes, Rollback(outcome)
    PROVE  IInv'
<1>0. /\ TypeOK /\ DiskInv /\ OpInv /\ LeakInv /\ DoubledInv
      /\ pc = "rollback" /\ Reserved /\ RollbackPhase
    BY DEF IInv, Rollback, OpInv
<1>1. FreeInode \in InodeRecord /\ op.inode \in Inodes /\ op.entry \in Dentries
    BY <1>0, Qfs2Assumption DEF Reserved, Operation, FreeInode, InodeRecord
<1>2. /\ WriteInodeRecord(outcome, FreeInode, "idle", "idle")
      /\ doubled' = doubled
      /\ abandoned' = IF outcome # "lost" /\ op.entry \in Linked THEN abandoned \union {op.entry} ELSE abandoned
    BY <1>1 DEF Rollback, Linked
<1>3. /\ UNCHANGED <<dentries, op, acknowledged>>
      /\ inodes' \in [Inodes -> InodeRecord]
      /\ \A n \in Inodes : n # op.inode => inodes'[n] = inodes[n]
      /\ outcome = "lost" => inodes'[op.inode] = inodes[op.inode]
      /\ part \in 1..Len(InodeParts[op.inode])
      /\ Len(InodeParts[op.inode]) \in 1..2
      /\ Proceed(outcome, InodeParts[op.inode], "idle", "idle")
    BY <1>0, <1>1, <1>2, InodeRecordWritten DEF FreeInode
<1>4. /\ mishaps' \in 0..MaxMishaps
      /\ part' \in 1..2
      /\ outcome \in {"ok", "lost", "late"}
      /\ outcome = "ok" => /\ mishaps' = mishaps
                           /\ \/ part = 1 /\ Len(InodeParts[op.inode]) = 2 /\ part' = 2 /\ pc' = "rollback"
                              \/ part = Len(InodeParts[op.inode]) /\ part' = 1 /\ pc' = "idle"
      /\ outcome # "ok" => mishaps' = mishaps + 1 /\ part' = 1 /\ pc' = "idle"
    BY <1>0, <1>3, ProceedIs
<1>5. TypeOK'
    <2>1. pc' \in {"idle", "rollback"} /\ part' \in 1..2
        BY <1>4
    <2> QED BY <1>0, <1>1, <1>2, <1>3, <1>4, <2>1 DEF TypeOK, InodeRecord
<1>6. Linked' = Linked /\ Named' = Named
    BY <1>3 DEF Linked, Named
<1>7. outcome # "lost" => \A d \in Linked \ abandoned' : dentries[d].link.inode # op.inode
    BY <1>0, <1>2 DEF Reserved
<1>8. DiskInv'
    <2>1. \A d \in Linked \ abandoned' : inodes'[dentries[d].link.inode] = inodes[dentries[d].link.inode]
        BY <1>0, <1>3, <1>7 DEF TypeOK, Linked, Link
    <2>2. AgreeUnlessAbandoned'
        BY <1>0, <1>2, <1>3, <1>6, <2>1 DEF DiskInv, AgreeUnlessAbandoned, Sound
    <2>3. inodes'[RootInode] = inodes[RootInode]
        BY <1>0, <1>3, Qfs2Assumption DEF Reserved, RootInode, Inodes
    <2> QED BY <1>0, <1>2, <1>3, <1>6, <2>2, <2>3 DEF DiskInv
<1>9. OpInv'
    <2>1. Reserved'
        BY <1>0, <1>2, <1>3, <1>6 DEF Reserved, OpLink
    <2>2. CASE outcome = "ok" /\ pc' = "rollback"
        <3>1. part = 1 /\ part' = 2 /\ Len(InodeParts[op.inode]) = 2
            BY <1>4, <2>2
        <3>2. RollbackPhase'
            BY <1>2, <1>3, <1>6, <2>2, <3>1 DEF RollbackPhase
        <3> QED BY <2>1, <2>2, <3>2 DEF OpInv
    <2>3. CASE pc' = "idle"
        BY <1>4, <2>3 DEF OpInv
    <2> QED BY <1>4, <2>2, <2>3
<1>10. LeakInv'
    <2>1. /\ LeakedInodes' \ {op.inode} = Lost
          /\ Cardinality(LeakedInodes') <= Cardinality(Lost) + 1
          /\ Cardinality(LeakedInodes') \in Nat
        BY <1>0, <1>3, OneInodeMore
    <2>2. Cardinality(Lost) \in Nat /\ Cardinality(Lost) + 1 <= mishaps /\ mishaps \in Nat
        BY <1>0, LostIsFinite, Qfs2Assumption DEF LeakInv, TypeOK
    <2>3. CASE outcome = "ok" /\ pc' = "rollback"
        <3>1. Lost' = Lost
            BY <1>3, <2>1, <2>3 DEF Lost
        <3> QED BY <1>4, <2>2, <2>3, <3>1 DEF LeakInv
    <2>4. CASE pc' = "idle"
        <3>1. Lost' = LeakedInodes' /\ mishaps' \in Nat /\ mishaps' >= mishaps
            BY <1>4, <2>2, <2>4 DEF Lost
        <3> QED BY <2>1, <2>2, <2>4, <3>1 DEF LeakInv
    <2> QED BY <1>4, <2>3, <2>4
<1>11. AckInv'
    BY <1>0, <1>3, <1>4, AcknowledgedKept DEF Writing
<1>12. DoubledInv' /\ ParentInv'
    BY <1>0, <1>2, <1>3, <1>4, <1>6 DEF DoubledInv, ParentInv, Adding, Twin
<1> QED BY <1>5, <1>8, <1>9, <1>10, <1>11, <1>12 DEF IInv

(* What the write of one sector makes of the entry: it becomes linked and    *)
(* named, in that order, and never the reverse.                              *)
LEMMA EntryWritten ==
    ASSUME IInv, NEW outcome \in Outcomes, WriteDentry(outcome)
    PROVE  /\ dentries' \in [Dentries -> DentryRecord]
           /\ \A d \in Dentries : d # op.entry => dentries'[d] = dentries[d]
           /\ dentries'[op.entry] \in {FreeDentry, [link |-> OpLink, name |-> NoName], OpDentry}
           /\ op.entry \in Linked => dentries'[op.entry].link = OpLink
           /\ op.entry \in Named => dentries'[op.entry] = OpDentry
           /\ outcome = "ok" /\ part = 1 /\ Len(DentryParts[op.entry]) = 2 =>
                 /\ dentries'[op.entry].link = OpLink <=> "link" \in DentryParts[op.entry][1]
                 /\ "name" \in DentryParts[op.entry][1] => dentries'[op.entry].name = op.name
           /\ outcome = "ok" /\ part = Len(DentryParts[op.entry]) => dentries'[op.entry] = OpDentry
<1> DEFINE old == dentries[op.entry]
           parts == DentryParts[op.entry]
<1>1. /\ op \in Operation /\ op.entry \in Dentries /\ op.name \in Names
      /\ op.parent \in Inodes /\ op.inode \in Inodes /\ op.kind \in Kinds
      /\ DiskInv /\ Reserved /\ DentryPhase
      /\ dentries \in [Dentries -> DentryRecord]
    BY DEF IInv, WriteDentry, OpInv, Reserved, Operation, TypeOK, DentryRecord
<1>2. /\ OpLink \in Link /\ OpLink # NoLink /\ OpDentry \in DentryRecord
      /\ op.name # NoName
      /\ FreeDentry \in DentryRecord /\ [link |-> OpLink, name |-> NoName] \in DentryRecord
    <2>1. OpLink \in Link
        BY <1>1 DEF OpLink, Link
    <2>2. OpLink # NoLink
        BY <1>1 DEF OpLink, NoLink, Inodes
    <2> QED BY <1>1, <2>1, <2>2, Qfs2Assumption DEF OpDentry, FreeDentry, DentryRecord
<1>3. /\ op.entry \notin Linked => old = FreeDentry
      /\ op.entry \in Linked => old.link = OpLink /\ old.name \in {NoName, op.name}
      /\ op.entry \in Named => old.link = OpLink /\ old.name = op.name
    BY <1>1 DEF DiskInv, Reserved, Named
<1>4. /\ outcome = "lost" => dentries' = dentries
      /\ outcome # "lost" => dentries' = [dentries EXCEPT ![op.entry] = Stored(old, OpDentry, parts[part])]
    BY DEF WriteDentry, OpDentry, OpLink
<1> DEFINE link == IF "link" \in parts[part] THEN OpLink ELSE old.link
           name == IF "name" \in parts[part] THEN op.name ELSE old.name
<1>5. Stored(old, OpDentry, parts[part]) = [link |-> link, name |-> name]
    BY <1>1, StoredDentry DEF OpDentry
<1>6. old \in {FreeDentry, [link |-> OpLink, name |-> NoName], OpDentry}
    <2>1. old \in DentryRecord
        BY <1>1
    <2> HIDE DEF old
    <2> QED BY <1>3, <2>1 DEF DentryRecord, OpDentry
<1>7. /\ part \in 1..2 /\ Len(parts) \in 1..2
      /\ Len(parts) = 1 => part = 1 /\ "link" \in parts[1] /\ "name" \in parts[1]
      /\ Len(parts) = 2 => /\ "link" \in parts[1] \/ "link" \in parts[2]
                           /\ "name" \in parts[1] \/ "name" \in parts[2]
      /\ "name" \in parts[1] => "link" \in parts[1]
      /\ op.entry \in Linked <=> part = 2 /\ "link" \in parts[1]
      /\ part = 2 /\ "name" \in parts[1] => old.name = op.name
    <2>1. part \in 1..2 /\ part \in 1..Len(parts)
        BY <1>1 DEF DentryPhase, IInv, TypeOK
    <2>2. /\ Len(parts) \in 1..2
          /\ Len(parts) = 1 => "link" \in parts[1] /\ "name" \in parts[1]
          /\ Len(parts) = 2 => /\ "link" \in parts[1] \/ "link" \in parts[2]
                               /\ "name" \in parts[1] \/ "name" \in parts[2]
          /\ "name" \in parts[1] => "link" \in parts[1]
        BY <1>1, DentryLayout
    <2>3. Len(parts) = 1 => part = 1
        BY <2>1
    <2>4. /\ op.entry \in Linked <=> part = 2 /\ "link" \in parts[1]
          /\ part = 2 /\ "name" \in parts[1] => old.name = op.name
        BY <1>1 DEF DentryPhase
    <2> HIDE DEF parts, old
    <2> QED BY <2>1, <2>2, <2>3, <2>4
<1>8. old.name \in {NoName, op.name} /\ old.link \in {NoLink, OpLink}
    BY <1>6, <1>2 DEF FreeDentry, OpDentry
<1>9. /\ link \in {NoLink, OpLink} /\ name \in {NoName, op.name}
      /\ link = NoLink => name = NoName
      /\ op.entry \in Linked => link = OpLink
      /\ op.entry \in Named => name = op.name
      /\ part = 1 => (link = OpLink <=> "link" \in parts[1])
      /\ part = 1 /\ "name" \in parts[1] => name = op.name
      /\ part = Len(parts) => link = OpLink /\ name = op.name
    <2>1. link \in {NoLink, OpLink} /\ name \in {NoName, op.name}
        BY <1>8
    <2>2. op.entry \in Linked => link = OpLink
        BY <1>3
    <2>3. op.entry \in Named => name = op.name
        BY <1>3
    <2>4. part = 1 => (link = OpLink <=> "link" \in parts[1])
        <3>1. op.entry \notin Linked => old.link = NoLink
            BY <1>3 DEF FreeDentry
        <3> QED BY <1>2, <1>7, <3>1
    <2>5. part = 1 /\ "name" \in parts[1] => name = op.name
        OBVIOUS
    <2>6. part = Len(parts) => link = OpLink /\ name = op.name
        <3> HIDE DEF parts, old
        <3> QED BY <1>3, <1>7
    <2>7. link = NoLink => name = NoName
        <3>1. part = 1 => ("name" \in parts[part] => "link" \in parts[part])
            BY <1>7
        <3>2. part = 2 => link = OpLink
            <4> HIDE DEF parts, old
            <4> QED BY <1>3, <1>7
        <3>3. part = 1 => op.entry \notin Linked /\ old.name = NoName
            <4>1. part = 1 => op.entry \notin Linked
                <5> HIDE DEF parts, old
                <5> QED BY <1>7
            <4> QED BY <1>3, <4>1 DEF FreeDentry
        <3> HIDE DEF parts, old
        <3> QED BY <1>2, <1>7, <3>1, <3>2, <3>3
    <2> HIDE DEF link, name, parts, old
    <2> QED BY <2>1, <2>2, <2>3, <2>4, <2>5, <2>6, <2>7
<1> DEFINE new == dentries'[op.entry]
<1>10. \A d \in Dentries : d # op.entry => dentries'[d] = dentries[d]
    BY <1>1, <1>4
<1>11. outcome = "lost" => new = old
    BY <1>4
<1>12. outcome # "lost" => new = [link |-> link, name |-> name]
    <2> HIDE DEF link, name
    <2> QED BY <1>1, <1>4, <1>5
<1>13. new \in {FreeDentry, [link |-> OpLink, name |-> NoName], OpDentry}
    <2> HIDE DEF link, name, old, new
    <2> QED BY <1>6, <1>9, <1>11, <1>12 DEF FreeDentry, OpDentry
<1>14. dentries' \in [Dentries -> DentryRecord]
    <2>1. Stored(old, OpDentry, parts[part]) \in DentryRecord
        <3> HIDE DEF link, name, old, parts
        <3> QED BY <1>2, <1>5, <1>9, Qfs2Assumption DEF DentryRecord, OpDentry
    <2> HIDE DEF old, parts
    <2> QED BY <1>1, <1>4, <2>1
<1>15. /\ op.entry \in Linked => new.link = OpLink
       /\ op.entry \in Named => new = OpDentry
    <2>1. op.entry \in Named => op.entry \in Linked /\ old = OpDentry
        <3>1. op.entry \in Named => op.entry \in Linked
            BY DEF Named
        <3>2. old \in DentryRecord
            BY <1>1
        <3> HIDE DEF old
        <3> QED BY <1>3, <3>1, <3>2 DEF DentryRecord, OpDentry
    <2> HIDE DEF link, name, old, new
    <2> QED BY <1>3, <1>9, <1>11, <1>12, <2>1 DEF OpDentry
<1>16. outcome = "ok" /\ part = 1 => (new.link = OpLink <=> "link" \in parts[1])
    <2> HIDE DEF link, name, old, new, parts
    <2> QED BY <1>9, <1>12
<1>17. outcome = "ok" /\ part = 1 /\ "name" \in parts[1] => new.name = op.name
    <2> HIDE DEF link, name, old, new, parts
    <2> QED BY <1>9, <1>12
<1>18. outcome = "ok" /\ part = Len(parts) => new = OpDentry
    <2> HIDE DEF link, name, old, new, parts
    <2> QED BY <1>9, <1>12 DEF OpDentry
<1> HIDE DEF link, name, old
<1> QED BY <1>10, <1>13, <1>14, <1>15, <1>16, <1>17, <1>18

LEMMA WriteDentryIInv ==
    ASSUME IInv, NEW outcome \in Outcomes, WriteDentry(outcome)
    PROVE  IInv'
<1>0. /\ TypeOK /\ DiskInv /\ OpInv /\ LeakInv /\ AckInv /\ DoubledInv /\ ParentInv
      /\ pc = "dentry" /\ Reserved /\ DentryPhase
    BY DEF IInv, WriteDentry, OpInv
<1>1. /\ op.entry \in Dentries /\ op.name \in Names /\ op.inode \in Inodes
      /\ OpLink # NoLink /\ op.name # NoName
    <2>1. op.entry \in Dentries /\ op.name \in Names /\ op.inode \in Inodes /\ op.parent \in Inodes
        BY <1>0 DEF Reserved, Operation
    <2> QED BY <2>1, Qfs2Assumption DEF OpLink, NoLink, Inodes
<1>2. /\ UNCHANGED <<inodes, op, acknowledged, abandoned, doubled>>
      /\ Proceed(outcome, DentryParts[op.entry], "verify", "rollback")
    BY DEF WriteDentry
<1>3. /\ dentries' \in [Dentries -> DentryRecord]
      /\ \A d \in Dentries : d # op.entry => dentries'[d] = dentries[d]
      /\ dentries'[op.entry] \in {FreeDentry, [link |-> OpLink, name |-> NoName], OpDentry}
      /\ op.entry \in Linked => dentries'[op.entry].link = OpLink
      /\ op.entry \in Named => dentries'[op.entry] = OpDentry
      /\ outcome = "ok" /\ part = 1 /\ Len(DentryParts[op.entry]) = 2 =>
            /\ dentries'[op.entry].link = OpLink <=> "link" \in DentryParts[op.entry][1]
            /\ "name" \in DentryParts[op.entry][1] => dentries'[op.entry].name = op.name
      /\ outcome = "ok" /\ part = Len(DentryParts[op.entry]) => dentries'[op.entry] = OpDentry
    BY EntryWritten
<1>4. /\ Len(DentryParts[op.entry]) \in 1..2
      /\ part \in 1..Len(DentryParts[op.entry])
    BY <1>0, <1>1, DentryLayout DEF DentryPhase
<1>5. /\ mishaps' \in 0..MaxMishaps
      /\ part' \in 1..2
      /\ outcome = "ok" =>
            /\ mishaps' = mishaps
            /\ \/ part = 1 /\ Len(DentryParts[op.entry]) = 2 /\ part' = 2 /\ pc' = "dentry"
               \/ part = Len(DentryParts[op.entry]) /\ part' = 1 /\ pc' = "verify"
      /\ outcome # "ok" => mishaps' = mishaps + 1 /\ part' = 1 /\ pc' = "rollback"
    BY <1>0, <1>2, <1>4, ProceedIs
<1>6. TypeOK'
    <2>1. pc' \in {"idle", "inode", "dentry", "rollback", "verify"}
        BY <1>5
    <2> QED BY <1>0, <1>2, <1>3, <1>5, <2>1 DEF TypeOK, DentryRecord
<1>7. /\ \A d \in Dentries : d # op.entry => (d \in Linked' <=> d \in Linked)
      /\ op.entry \in Linked => op.entry \in Linked'
    <2>1. \A d \in Dentries : d # op.entry => (d \in Linked' <=> d \in Linked)
        BY <1>3 DEF Linked
    <2>2. op.entry \in Linked => op.entry \in Linked'
        BY <1>1, <1>3 DEF Linked
    <2> QED BY <2>1, <2>2
<1>8. /\ \A d \in Dentries : d # op.entry => (d \in Named' <=> d \in Named)
      /\ op.entry \in Named => op.entry \in Named'
    <2>1. \A d \in Dentries : d # op.entry => (d \in Named' <=> d \in Named)
        BY <1>3 DEF Linked, Named
    <2>2. op.entry \in Named => op.entry \in Named'
        BY <1>1, <1>3 DEF Linked, Named, OpDentry
    <2> QED BY <2>1, <2>2
<1>9. /\ op.entry \in Linked' => /\ dentries'[op.entry].link = OpLink
                                 /\ dentries'[op.entry].name \in {NoName, op.name}
      /\ op.entry \notin Linked' => dentries'[op.entry] = FreeDentry
      /\ op.entry \in Named' => dentries'[op.entry] = OpDentry
      /\ op.entry \in Linked' <=> dentries'[op.entry].link = OpLink
    <2>1. op.entry \in Linked' <=> dentries'[op.entry].link # NoLink
        BY <1>1, <1>2 DEF Linked
    <2>2. op.entry \in Named' <=> op.entry \in Linked' /\ dentries'[op.entry].name # NoName
        BY <1>2 DEF Named
    <2> QED BY <1>1, <1>3, <2>1, <2>2 DEF FreeDentry, OpDentry
<1>10. Linked \subseteq Linked' /\ Named \subseteq Named'
    <2>1. Linked \subseteq Dentries /\ Named \subseteq Dentries
        BY DEF Linked, Named
    <2> QED BY <1>7, <1>8, <2>1
<1>11. \A d \in Linked : dentries'[d].link = dentries[d].link
    BY <1>0, <1>3, <1>7, <1>9 DEF Linked, Reserved
<1>12. Linked' \subseteq Dentries /\ Linked \subseteq Dentries /\ Named \subseteq Linked
    BY DEF Linked, Named
<1>13. DiskInv'
    <2>1. \A d, e \in Dentries : d < e /\ e \in Linked' => d \in Linked'
        BY <1>0, <1>1, <1>7, <1>8, <1>9 DEF Reserved, Dentries
    <2>2. \A d \in Dentries \ Linked' : dentries'[d] = FreeDentry
        BY <1>0, <1>3, <1>7, <1>8, <1>9 DEF DiskInv
    <2>3. \A d \in Linked' : dentries'[d].link.inode # RootInode
        BY <1>0, <1>3, <1>7, <1>8, <1>9, <1>12 DEF DiskInv, Reserved, OpLink
    <2>4. \A d \in Linked' \ abandoned :
             inodes[dentries'[d].link.inode] =
                 [number |-> dentries'[d].link.inode, kind |-> dentries'[d].link.kind]
        BY <1>0, <1>3, <1>7, <1>8, <1>9, <1>12 DEF DiskInv, AgreeUnlessAbandoned, Sound, DentryPhase, OpInode, OpLink
    <2>5. \A d, e \in Linked' \ abandoned :
             dentries'[d].link.inode = dentries'[e].link.inode => d = e
        BY <1>0, <1>3, <1>7, <1>8, <1>9, <1>12 DEF DiskInv, AgreeUnlessAbandoned, Sound, Reserved, OpLink
    <2>6. inodes[RootInode] = [number |-> RootInode, kind |-> "DIRECTORY"] /\ abandoned \subseteq Linked'
        BY <1>0, <1>10 DEF DiskInv
    <2>7. AgreeUnlessAbandoned'
        BY <1>2, <2>4, <2>5 DEF AgreeUnlessAbandoned, Sound
    <2> QED BY <1>2, <2>1, <2>2, <2>3, <2>6, <2>7 DEF DiskInv
<1>14. OpInv'
    <2>1. Reserved'
        <3>1. \A d \in Dentries : /\ d < op.entry => d \in Linked'
                                  /\ d > op.entry => d \notin Linked'
            BY <1>0, <1>1, <1>7, <1>8, <1>9 DEF Reserved, Dentries
        <3>2. \A d \in Linked' \ abandoned : dentries'[d].link.inode = op.inode => d = op.entry
            BY <1>0, <1>3, <1>7, <1>8, <1>9, <1>12 DEF Reserved
        <3> QED BY <1>0, <1>2, <1>7, <1>8, <1>9, <3>1, <3>2 DEF Reserved, OpLink
    <2>2. inodes'[op.inode] = OpInode /\ op.entry \notin abandoned
        BY <1>0, <1>2 DEF DentryPhase
    <2>3. CASE outcome = "ok" /\ pc' = "dentry"
        <3>1. part = 1 /\ Len(DentryParts[op.entry]) = 2 /\ part' = 2
            BY <1>5, <2>3
        <3>2. op.entry \in Linked' <=> "link" \in DentryParts[op.entry][1]
            BY <1>1, <1>3, <1>7, <1>8, <1>9, <2>3, <3>1 DEF FreeDentry
        <3>3. DentryPhase'
            BY <1>2, <1>3, <2>2, <2>3, <3>1, <3>2 DEF DentryPhase, OpInode
        <3> QED BY <2>1, <2>3, <3>3 DEF OpInv
    <2>4. CASE outcome = "ok" /\ pc' = "verify"
        <3>1. part = Len(DentryParts[op.entry]) /\ part' = 1
            BY <1>5, <2>4
        <3>2. VerifyPhase'
            BY <1>2, <1>3, <2>2, <2>4, <3>1 DEF VerifyPhase, OpInode, OpDentry, OpLink
        <3> QED BY <2>1, <2>4, <3>2 DEF OpInv
    <2>5. CASE outcome # "ok"
        <3>1. 1 \in 1..Len(InodeParts[op.inode])
            BY <1>1, InodeLayout
        <3>2. RollbackPhase'
            BY <1>2, <1>5, <2>2, <2>5, <3>1 DEF RollbackPhase, OpInode
        <3> QED BY <1>5, <2>1, <2>5, <3>2 DEF OpInv
    <2> QED BY <1>5, <2>3, <2>4, <2>5
<1>15. LeakInv'
    <2>1. LeakedInodes' \subseteq LeakedInodes
        BY <1>2, <1>10, <1>11, <1>12 DEF LeakedInodes
    <2>2. pc' # "idle" /\ (pc' = "rollback" <=> outcome # "ok")
        BY <1>5
    <2>3. Lost' \in SUBSET Lost
        BY <1>0, <1>2, <2>1, <2>2 DEF Lost
    <2>4. /\ Cardinality(Lost') <= Cardinality(Lost)
          /\ Cardinality(Lost') \in Nat /\ Cardinality(Lost) \in Nat
        BY <2>3, LostIsFinite, FS_Subset, FS_CardinalityType
    <2>5. Cardinality(Lost) <= mishaps /\ mishaps \in Nat
        BY <1>0, <2>4, Qfs2Assumption DEF LeakInv, TypeOK
    <2> QED BY <1>5, <2>2, <2>4, <2>5 DEF LeakInv
<1>16. AckInv'
    <2> SUFFICES ASSUME NEW a \in acknowledged
                 PROVE  /\ inodes[a.inode] = [number |-> a.inode, kind |-> a.kind]
                        /\ op.inode # a.inode
                        /\ \E e \in Dentries : StandsFor(e, a)'
        BY <1>2 DEF AckInv
    <2>1. /\ inodes[a.inode] = [number |-> a.inode, kind |-> a.kind]
          /\ op.inode # a.inode
        BY <1>0 DEF AckInv, Writing
    <2>2. PICK e \in Dentries : StandsFor(e, a)
        BY <1>0 DEF AckInv
    <2>3. e < op.entry /\ e # op.entry /\ \A d \in Dentries : d < e => d # op.entry
        BY <1>0, <1>1, <2>2 DEF StandsFor, Writing, Dentries
    <2>4. \A d \in Dentries : d # op.entry =>
             (d \in Matches(a.parent, a.name)' <=> d \in Matches(a.parent, a.name))
        BY <1>3 DEF Matches
    <2>5. StandsFor(e, a)'
        BY <1>2, <1>3, <2>2, <2>3, <2>4 DEF StandsFor
    <2> QED BY <2>1, <2>2, <2>5
<1>17. \A d \in Dentries : d # op.entry =>
          (d \in Matches(op.parent, op.name)' <=> d \in Matches(op.parent, op.name))
    BY <1>2, <1>3 DEF Matches
<1>18. DoubledInv'
    <2>1. ASSUME NEW d \in doubled \intersect Named' PROVE \E e \in Dentries : Twin(e, d)'
        <3>1. d \in Dentries /\ d \in Linked'
            BY DEF Named, Linked
        <3>2. CASE d # op.entry
            <4>1. PICK e \in Dentries : Twin(e, d)
                BY <1>0, <1>7, <1>8, <1>9, <3>1, <3>2 DEF DoubledInv
            <4>2. d < op.entry
                BY <1>0, <1>1, <1>7, <1>8, <1>9, <3>1, <3>2 DEF Reserved, Dentries
            <4>3. e # op.entry
                BY <1>1, <3>1, <4>1, <4>2 DEF Twin, Dentries
            <4>4. Twin(e, d)'
                BY <1>3, <3>1, <3>2, <4>1, <4>3 DEF Twin
            <4> QED BY <4>4
        <3>3. CASE d = op.entry
            <4>1. PICK e \in Matches(op.parent, op.name) : e < op.entry
                BY <1>0, <3>3 DEF DoubledInv, Adding
            <4>2. e \in Dentries /\ e # op.entry
                BY <1>1, <4>1 DEF Matches, Dentries
            <4>3. dentries'[op.entry] = OpDentry
                BY <1>7, <1>8, <1>9, <3>3
            <4>4. Twin(e, d)'
                BY <1>3, <3>3, <4>1, <4>2, <4>3 DEF Twin, OpDentry, OpLink, Matches
            <4> QED BY <4>2, <4>4
        <3> QED BY <3>2, <3>3
    <2>2. Adding' /\ op.entry \in doubled => \E e \in Matches(op.parent, op.name)' : e < op.entry
        <3> SUFFICES ASSUME op.entry \in doubled
                     PROVE  \E e \in Matches(op.parent, op.name)' : e < op.entry
            OBVIOUS
        <3>1. PICK e \in Matches(op.parent, op.name) : e < op.entry
            BY <1>0 DEF DoubledInv, Adding
        <3>2. e \in Dentries /\ e # op.entry
            BY <1>1, <3>1 DEF Matches, Dentries
        <3> QED BY <1>17, <3>1, <3>2
    <2>3. op.entry \notin doubled => Matches(op.parent, op.name)' \subseteq {op.entry}
        <3>1. op.entry \notin doubled => Matches(op.parent, op.name) \subseteq {op.entry}
            BY <1>0 DEF DoubledInv, Adding
        <3>2. Matches(op.parent, op.name)' \subseteq Dentries
            BY DEF Matches
        <3> QED BY <1>17, <3>1, <3>2
    <2> QED BY <1>2, <2>1, <2>2, <2>3 DEF DoubledInv
<1>19. ParentInv'
    <2>1. ASSUME Reachable(op.parent) PROVE Reachable(op.parent)'
        BY <1>2, <1>10, <1>11, <1>12, <2>1 DEF Reachable
    <2> QED BY <1>0, <1>2, <2>1 DEF ParentInv, Adding
<1> QED BY <1>6, <1>13, <1>14, <1>15, <1>16, <1>18, <1>19 DEF IInv

-----------------------------------------------------------------------------
(* create_node returns, or the machine stops.                                *)
LEMMA Returned ==
    ASSUME IInv, UNCHANGED <<inodes, dentries, op, abandoned, doubled>>, pc' = "idle", part' = 1
    PROVE  DiskInv' /\ OpInv' /\ DoubledInv' /\ ParentInv'
<1>1. DiskInv /\ DoubledInv
    BY DEF IInv
<1>2. Linked' = Linked /\ Named' = Named
    BY DEF Linked, Named
<1>3. DiskInv'
    BY <1>1, <1>2 DEF DiskInv, AgreeUnlessAbandoned, Sound
<1>4. DoubledInv'
    BY <1>1, <1>2 DEF DoubledInv, Adding, Twin
<1> QED BY <1>3, <1>4 DEF OpInv, ParentInv, Adding

LEMMA VerifyIInv ==
    ASSUME IInv, Verify
    PROVE  IInv'
<1>1. /\ TypeOK /\ OpInv /\ LeakInv /\ AckInv
      /\ pc = "verify" /\ Reserved /\ VerifyPhase
    BY DEF IInv, Verify, OpInv
<1>2. /\ UNCHANGED <<inodes, dentries, part, op, abandoned, doubled, mishaps>>
      /\ pc' = "idle"
      /\ \/ acknowledged' = acknowledged
         \/ acknowledged' = acknowledged \union {op} /\ find_child(op.parent, op.name) = op.inode
    BY DEF Verify, diskVars
<1>3. /\ op \in Operation /\ op.entry \in Dentries /\ op.name \in Names
      /\ op.parent \in Inodes /\ op.inode \in Inodes
    BY <1>1 DEF Reserved, Operation
<1>4. /\ dentries[op.entry].link = OpLink /\ dentries[op.entry].name = op.name
      /\ OpLink.parent = op.parent /\ OpLink.inode = op.inode
      /\ inodes[op.inode] = OpInode /\ part = 1
    BY <1>1 DEF VerifyPhase, OpDentry, OpLink
<1>5. op.entry \in Matches(op.parent, op.name)
    BY <1>3, <1>4 DEF Matches
<1>6. op.entry \in Named
    BY <1>1, <1>3, <1>5, MatchesAreNamed
<1>7. TypeOK'
    BY <1>1, <1>2, <1>3 DEF TypeOK
<1>8. DiskInv' /\ OpInv' /\ DoubledInv' /\ ParentInv'
    BY <1>2, <1>4, Returned
<1>9. LeakInv'
    <2>1. LeakedInodes' = LeakedInodes
        BY <1>2 DEF LeakedInodes, Named, Linked
    <2>2. op.inode \notin LeakedInodes
        BY <1>4, <1>6 DEF LeakedInodes
    <2>3. Lost' = Lost
        BY <1>1, <1>2, <2>1, <2>2 DEF Lost
    <2> QED BY <1>1, <1>2, <2>3 DEF LeakInv
<1>10. AckInv'
    <2>1. ~Writing'
        BY <1>2 DEF Writing
    <2>2. ASSUME NEW a, NEW e \in Dentries, StandsFor(e, a) PROVE StandsFor(e, a)'
        BY <1>2, <2>1, <2>2 DEF StandsFor, Matches
    <2>3. ASSUME NEW a \in acknowledged
          PROVE  /\ inodes[a.inode] = [number |-> a.inode, kind |-> a.kind]
                 /\ \E e \in Dentries : StandsFor(e, a)'
        BY <1>1, <2>2 DEF AckInv
    <2>4. ASSUME find_child(op.parent, op.name) = op.inode
          PROVE  \E e \in Dentries : StandsFor(e, op)'
        <3>1. PICK e \in Matches(op.parent, op.name) :
                  /\ find_child(op.parent, op.name) = dentries[e].link.inode
                  /\ \A d \in Dentries : d < e => d \notin Matches(op.parent, op.name)
            BY <1>5, FoundIs
        <3>2. e \in Dentries
            BY DEF Matches
        <3>3. StandsFor(e, op)
            BY <1>1, <2>4, <3>1 DEF StandsFor, Writing
        <3> QED BY <1>2, <2>2, <3>2, <3>3
    <2> QED BY <1>2, <1>4, <2>1, <2>3, <2>4 DEF AckInv, OpInode
<1> QED BY <1>7, <1>8, <1>9, <1>10 DEF IInv

LEMMA StopIInv ==
    ASSUME IInv, VerifyReadFails \/ Crash
    PROVE  IInv'
<1>1. /\ TypeOK /\ OpInv /\ LeakInv /\ AckInv /\ pc # "idle"
    BY DEF IInv, VerifyReadFails, Crash
<1>2. /\ UNCHANGED <<inodes, dentries, op, acknowledged, abandoned, doubled>>
      /\ pc' = "idle"
      /\ mishaps < MaxMishaps /\ mishaps' = mishaps + 1
    BY DEF VerifyReadFails, Crash, diskVars
<1>3. part' = 1
    BY <1>1 DEF VerifyReadFails, Crash, OpInv, VerifyPhase
<1>4. TypeOK'
    BY <1>1, <1>2, <1>3, Qfs2Assumption DEF TypeOK
<1>5. DiskInv' /\ OpInv' /\ DoubledInv' /\ ParentInv'
    BY <1>2, <1>3, Returned
<1>6. LeakInv'
    <2>1. Lost' = LeakedInodes'
        BY <1>2 DEF Lost
    <2>2. /\ Cardinality(LeakedInodes') <= Cardinality(Lost) + 1
          /\ Cardinality(LeakedInodes') \in Nat
        BY <1>1, <1>2, OneInodeMore
    <2>3. Cardinality(Lost) \in Nat /\ Cardinality(Lost) <= mishaps /\ mishaps \in Nat
        BY <1>1, LostIsFinite, Qfs2Assumption DEF LeakInv, TypeOK
    <2> QED BY <1>2, <2>1, <2>2, <2>3 DEF LeakInv
<1>7. AckInv'
    BY <1>2, AcknowledgedKept DEF Writing
<1> QED BY <1>4, <1>5, <1>6, <1>7 DEF IInv

LEMMA StutterIInv ==
    ASSUME IInv, UNCHANGED vars
    PROVE  IInv'
BY DEF IInv, vars, diskVars, TypeOK, DiskInv, AgreeUnlessAbandoned, Sound, Linked, Named,
       OpInv, Reserved, OpLink, OpInode, OpDentry, InodePhase, DentryPhase, RollbackPhase, VerifyPhase,
       LeakInv, Lost, LeakedInodes, AckInv, StandsFor, Matches, Writing, DoubledInv, Adding, Twin,
       ParentInv, Reachable

LEMMA StepIInv ==
    ASSUME IInv, [Next]_vars
    PROVE  IInv'
<1>1. ASSUME NEW path \in Paths, NEW name \in Names, NEW kind \in Kinds,
             CreateBegins(path, name, kind) \/ CreateUnread(path, name, kind)
      PROVE  IInv'
    BY <1>1, BeginIInv
<1>2. ASSUME NEW outcome \in Outcomes, WriteInode(outcome) \/ WriteDentry(outcome) \/ Rollback(outcome)
      PROVE  IInv'
    BY <1>2, WriteInodeIInv, WriteDentryIInv, RollbackIInv
<1>3. CASE Verify
    BY <1>3, VerifyIInv
<1>4. CASE VerifyReadFails \/ Crash
    BY <1>4, StopIInv
<1>5. CASE UNCHANGED vars
    BY <1>5, StutterIInv
<1> QED BY <1>1, <1>2, <1>3, <1>4, <1>5 DEF Next

LEMMA Inductive == Spec => []IInv
<1>1. Init => IInv
    BY InitIInv
<1>2. IInv /\ [Next]_vars => IInv'
    BY StepIInv
<1> QED BY <1>1, <1>2, PTL DEF Spec

-----------------------------------------------------------------------------
(* On every volume, whatever records lie across two sectors and whatever the *)
(* writes do, the disk and the locals of create_node hold what they may.     *)
THEOREM TypeCorrect == Spec => []TypeOK
<1>1. IInv => TypeOK
    BY DEF IInv
<1> QED BY <1>1, Inductive, PTL

(* create_node writes the inode before the entry that links to it and gives  *)
(* no two entries one inode, so that at every moment at which the machine    *)
(* may stop, every linked entry agrees with its inode, except of those whose *)
(* inode the error path of create_node zeroed under them.                    *)
THEOREM Agree == Spec => []AgreeUnlessAbandoned
<1>1. IInv => AgreeUnlessAbandoned
    BY DEF IInv, DiskInv
<1> QED BY <1>1, Inductive, PTL

(* Between two calls of create_node the volume has lost no more inodes than  *)
(* there were crashes, failed writes and failed reads: an operation that     *)
(* runs undisturbed leaves none behind.                                      *)
THEOREM Leaks == Spec => []LeaksAreBounded
<1>1. IInv => LeaksAreBounded
    <2> SUFFICES ASSUME IInv, pc = "idle" PROVE Cardinality(LeakedInodes) <= mishaps
        BY DEF LeaksAreBounded
    <2>1. Lost = LeakedInodes
        BY DEF Lost
    <2>2. Cardinality(LeakedInodes) \in Nat /\ mishaps \in Nat
        BY <2>1, LostIsFinite, Qfs2Assumption DEF IInv, TypeOK
    <2> QED BY <2>1, <2>2 DEF IInv, LeakInv
<1> QED BY <1>1, Inductive, PTL

(* Once create_node has reported a node as created, the node is found by its *)
(* name with its own inode for ever: no later operation, failed write,       *)
(* rollback or crash puts another entry before it or takes its inode.        *)
THEOREM Survives == Spec => []AcknowledgedSurvives
<1>1. IInv => AcknowledgedSurvives
    <2> SUFFICES ASSUME IInv, NEW a \in acknowledged
                 PROVE  /\ find_child(a.parent, a.name) = a.inode
                        /\ inodes[a.inode] = [number |-> a.inode, kind |-> a.kind]
        BY DEF AcknowledgedSurvives
    <2>1. inodes[a.inode] = [number |-> a.inode, kind |-> a.kind]
        BY DEF IInv, AckInv
    <2>2. PICK e \in Dentries : StandsFor(e, a)
        BY DEF IInv, AckInv
    <2>3. find_child(a.parent, a.name) = a.inode
        BY <2>2, FirstIsFound DEF StandsFor
    <2> QED BY <2>1, <2>3
<1> QED BY <1>1, Inductive, PTL

-----------------------------------------------------------------------------
(* The complete entries as the nodes of a tree.                              *)
NodeOf(d) == [parent |-> dentries[d].link.parent, name |-> dentries[d].name,
              inode |-> dentries[d].link.inode, kind |-> dentries[d].link.kind]
Nodes == {NodeOf(d) : d \in Named \ doubled}

(* A step after which the same entries are complete leaves the tree alone.   *)
LEMMA SameNodes ==
    ASSUME Named' \ doubled' = Named \ doubled,
           \A d \in Named \ doubled : dentries'[d] = dentries[d]
    PROVE  Nodes' = Nodes
<1>1. \A d \in Named \ doubled : NodeOf(d)' = NodeOf(d)
    BY DEF NodeOf
<1> QED BY <1>1 DEF Nodes

(* The write that completes an entry adds its node to the tree.              *)
LEMMA EntryAddsNode ==
    ASSUME IInv, abandoned' = {}, NEW outcome \in Outcomes, WriteDentry(outcome)
    PROVE  Tree!Next
<1>1. /\ TypeOK /\ DiskInv /\ DoubledInv /\ ParentInv /\ Reserved /\ pc = "dentry"
      /\ UNCHANGED <<op, doubled>> /\ abandoned = {}
    BY DEF WriteDentry, IInv, OpInv
<1>2. /\ op.entry \in Dentries /\ op.name \in Names /\ op.kind \in Kinds
      /\ op.inode \in Inodes /\ op.parent \in Inodes
    BY <1>1 DEF Reserved, Operation
<1>3. /\ \A d \in Dentries : d # op.entry => dentries'[d] = dentries[d]
      /\ dentries'[op.entry] \in {FreeDentry, [link |-> OpLink, name |-> NoName], OpDentry}
      /\ op.entry \in Named => dentries'[op.entry] = OpDentry
    BY EntryWritten
<1>4. \A d \in Dentries : d # op.entry => (d \in Named' <=> d \in Named)
    BY <1>3 DEF Named, Linked
<1>5. /\ op.entry \in Named' => dentries'[op.entry] = OpDentry
      /\ dentries'[op.entry] = OpDentry => op.entry \in Named'
    <2>1. OpDentry.name = op.name /\ OpDentry.link = OpLink /\ OpLink # NoLink /\ op.name # NoName
        BY <1>2, Qfs2Assumption DEF OpDentry, OpLink, NoLink, Inodes
    <2>2. op.entry \in Named' <=>
              dentries'[op.entry].link # NoLink /\ dentries'[op.entry].name # NoName
        BY <1>1, <1>2 DEF Named, Linked
    <2> QED BY <1>3, <2>1, <2>2 DEF FreeDentry
<1>6. Named \subseteq Dentries /\ Named' \subseteq Dentries /\ Named \subseteq Linked
    BY DEF Named, Linked
<1>7. Tree!Next = (Tree!Add \/ Nodes' = Nodes)
    BY DEF Tree!Next, Nodes, NodeOf
<1>8. CASE op.entry \in Named
    <2>1. dentries'[op.entry] = dentries[op.entry]
        <3>1. dentries[op.entry].link = OpLink /\ dentries[op.entry].name = op.name
            BY <1>1, <1>8 DEF Reserved, Named
        <3>2. dentries[op.entry] \in DentryRecord
            BY <1>1, <1>2 DEF TypeOK, DentryRecord
        <3>3. dentries[op.entry] = OpDentry
            BY <3>1, <3>2 DEF DentryRecord, OpDentry
        <3> QED BY <1>3, <1>8, <3>3
    <2>2. Named' = Named
        BY <1>3, <1>4, <1>5, <1>6, <1>8
    <2> QED BY <1>1, <1>3, <1>6, <1>7, <2>1, <2>2, SameNodes
<1>9. CASE op.entry \notin Named' \ doubled /\ op.entry \notin Named
    <2>1. Named' \ doubled' = Named \ doubled
        BY <1>1, <1>4, <1>6, <1>9
    <2>2. \A d \in Named \ doubled : dentries'[d] = dentries[d]
        BY <1>3, <1>6, <1>9
    <2> QED BY <1>7, <2>1, <2>2, SameNodes
<1>10. CASE op.entry \in Named' \ doubled /\ op.entry \notin Named
    <2> DEFINE node == [parent |-> op.parent, name |-> op.name, inode |-> op.inode, kind |-> op.kind]
    <2>1. node \in Tree!Node
        BY <1>2 DEF Tree!Node, Tree!Kinds, Kinds, Inodes
    <2>2. node.parent \in Tree!Directories
        <3>1. Reachable(op.parent) /\ inodes[op.parent].kind = "DIRECTORY"
            BY <1>1 DEF ParentInv, Adding
        <3>2. CASE op.parent = RootInode
            BY <3>2 DEF Tree!Directories, Tree!RootInode, RootInode
        <3>3. CASE op.parent # RootInode
            <4>1. PICK e \in Named \ doubled : dentries[e].link.inode = op.parent
                BY <3>1, <3>3 DEF Reachable
            <4>2. inodes[dentries[e].link.inode].kind = dentries[e].link.kind
                <5>1. e \in Linked \ abandoned
                    BY <1>1, <1>6, <4>1
                <5>2. inodes[dentries[e].link.inode] =
                          [number |-> dentries[e].link.inode, kind |-> dentries[e].link.kind]
                    BY <1>1, <5>1 DEF DiskInv, AgreeUnlessAbandoned, Sound
                <5> QED BY <5>2
            <4>3. NodeOf(e).kind = "DIRECTORY" /\ NodeOf(e).inode = op.parent /\ NodeOf(e) \in Nodes
                BY <3>1, <4>1, <4>2 DEF NodeOf, Nodes
            <4>4. Tree!Directories = {RootInode} \union {n.inode : n \in {m \in Nodes : m.kind = "DIRECTORY"}}
                BY DEF Tree!Directories, Tree!RootInode, RootInode, Nodes, NodeOf
            <4> QED BY <4>3, <4>4
        <3> QED BY <3>2, <3>3
    <2>3. node.inode # RootInode
        BY <1>1 DEF Reserved
    <2>4. ASSUME NEW m \in Nodes
          PROVE  node.inode # m.inode /\ <<node.parent, node.name>> # <<m.parent, m.name>>
        <3>1. PICK e \in Named \ doubled : m = NodeOf(e)
            BY DEF Nodes
        <3>2. e \in Linked /\ e \in Dentries /\ e # op.entry
            BY <1>6, <1>10
        <3>3. dentries[e].link.inode # op.inode
            BY <1>1, <3>2 DEF Reserved
        <3>4. op.entry \notin doubled
            BY <1>10
        <3>5. e \notin Matches(op.parent, op.name)
            BY <1>1, <3>2, <3>4 DEF DoubledInv, Adding
        <3> QED BY <3>1, <3>2, <3>3, <3>5 DEF NodeOf, Matches
    <2>5. Nodes' = Nodes \union {node}
        <3>1. Named' \ doubled' = (Named \ doubled) \union {op.entry}
            BY <1>1, <1>4, <1>6, <1>10
        <3>2. NodeOf(op.entry)' = node
            BY <1>1, <1>5, <1>10 DEF NodeOf, OpDentry, OpLink
        <3>3. \A d \in Named \ doubled : NodeOf(d)' = NodeOf(d)
            BY <1>3, <1>6, <1>10 DEF NodeOf
        <3>4. Nodes' = {NodeOf(d)' : d \in Named' \ doubled'}
            BY DEF Nodes
        <3> QED BY <1>1, <3>1, <3>2, <3>3, <3>4 DEF Nodes
    <2>6. Tree!Add <=> \E n \in Tree!Node :
              /\ n.parent \in Tree!Directories
              /\ n.inode # RootInode
              /\ \A m \in Nodes : n.inode # m.inode /\ <<n.parent, n.name>> # <<m.parent, m.name>>
              /\ Nodes' = Nodes \union {n}
        BY DEF Tree!Add, Tree!RootInode, RootInode, Nodes, NodeOf
    <2> HIDE DEF node
    <2>7. Tree!Add
        BY <2>1, <2>2, <2>3, <2>4, <2>5, <2>6
    <2> QED BY <1>7, <2>7
<1> QED BY <1>8, <1>9, <1>10

(* Whatever stops or fails between two sector writes, the volume shows the   *)
(* tree before create_node or the tree with the whole new node under an      *)
(* existing directory, until a rollback has abandoned an entry.              *)
THEOREM Refinement == Spec => ImplementsDirectoryTree
<1>1. Init => Tree!Init
    <2> SUFFICES ASSUME Init PROVE Tree!Init
        OBVIOUS
    <2>1. Named = {}
        <3>1. \A d \in Dentries : dentries[d] = FreeDentry
            BY DEF Init
        <3> QED BY <3>1 DEF Named, Linked, FreeDentry
    <2> QED BY <2>1 DEF Tree!Init
<1>2. IInv /\ [Next]_vars => [abandoned' = {} => Tree!Next]_vars
    <2> SUFFICES ASSUME IInv, Next, abandoned' = {} PROVE Tree!Next
        OBVIOUS
    <2>1. Tree!Next = (Tree!Add \/ Nodes' = Nodes)
        BY DEF Tree!Next, Nodes, NodeOf
    <2>2. CASE \E path \in Paths, name \in Names, kind \in Kinds :
                   CreateBegins(path, name, kind) \/ CreateUnread(path, name, kind)
        <3>1. PICK path \in Paths, name \in Names, kind \in Kinds :
                   CreateBegins(path, name, kind) \/ CreateUnread(path, name, kind)
            BY <2>2
        <3>2. Prepares(find_path(path), name, kind)
            BY <3>1 DEF CreateBegins, CreateUnread
        <3>3. op'.entry \notin Linked /\ dentries' = dentries
            BY <3>2, Prepared
        <3>4. doubled' = doubled \ {op'.entry} \/ doubled' = doubled \union {op'.entry}
            BY <3>1 DEF CreateBegins, CreateUnread
        <3>5. Named' = Named /\ op'.entry \notin Named
            BY <3>3 DEF Named, Linked
        <3>6. Named' \ doubled' = Named \ doubled
            BY <3>4, <3>5
        <3> QED BY <2>1, <3>3, <3>6, SameNodes
    <2>3. CASE \E outcome \in Outcomes : WriteDentry(outcome)
        BY <2>3, EntryAddsNode
    <2>4. CASE \/ \E outcome \in Outcomes : WriteInode(outcome) \/ Rollback(outcome)
               \/ Verify \/ VerifyReadFails \/ Crash
        <3>1. UNCHANGED <<dentries, doubled>>
            BY <2>4 DEF WriteInode, Rollback, WriteInodeRecord, Verify, VerifyReadFails, Crash, diskVars
        <3>2. Named' = Named
            BY <3>1 DEF Named, Linked
        <3> QED BY <2>1, <3>1, <3>2, SameNodes
    <2> QED BY <2>2, <2>3, <2>4 DEF Next
<1> QED BY <1>1, <1>2, Inductive, PTL DEF Spec, ImplementsDirectoryTree

=============================================================================
