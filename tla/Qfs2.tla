--------------------------------- MODULE Qfs2 ---------------------------------
(***************************************************************************)
(* Creating a node on a QFS2 volume, kernel/core/qfs2.c: the inode table   *)
(* and the directory entries as they are on the disk, and create_node      *)
(* writing them one sector at a time.                                      *)
(*                                                                         *)
(* Records are packed, 56 bytes an inode and 66 an entry, so that some lie *)
(* across two sectors and write_metadata writes them in two steps.         *)
(* InodeParts[n] and DentryParts[d] list, sector by sector, which fields   *)
(* of the record each step carries: inode 10 has its number alone at the   *)
(* end of a sector, entry 23 its link without the name, entry 7 everything *)
(* but the padding of a short name.                                        *)
(*                                                                         *)
(* The machine may stop between any two sector writes; a write may fail    *)
(* with the sector unchanged ("lost"), or fail after the drive has taken   *)
(* the data, when only the final flush reports an error ("late").          *)
(***************************************************************************)
EXTENDS Integers, FiniteSets, Sequences

CONSTANTS Names,        \* the names a node may have
          MaxInodes,    \* records in the inode table
          MaxDentries,  \* records in the entry area
          InodeParts,   \* fields of an inode in each sector write
          DentryParts,  \* fields of an entry in each sector write
          MaxDepth,     \* bound on the length of a parent path
          Outcomes,     \* what a sector write may do
          MaxMishaps    \* bound on crashes and failed writes

NoName == "none"

(* How a record of two fields, the first before the second, lies on the      *)
(* sectors: in one, in one but for padding, across two.                      *)
Layouts(first, second) ==
    {<<{first, second}>>, <<{first, second}, {}>>, <<{first}, {second}>>, <<{}, {first, second}>>}

ASSUME Qfs2Assumption ==
    /\ MaxInodes \in Nat \ {0} /\ MaxDentries \in Nat
    /\ MaxDepth \in Nat /\ MaxMishaps \in Nat
    /\ NoName \notin Names
    /\ Outcomes \subseteq {"ok", "lost", "late"}
    /\ InodeParts \in [1..MaxInodes -> Layouts("number", "kind")]
    /\ DentryParts \in [1..MaxDentries -> Layouts("link", "name")]

RootInode == 1
Inodes == 1..MaxInodes
Dentries == 1..MaxDentries
Kinds == {"FILE", "DIRECTORY"}
Paths == UNION {[1..n -> Names] : n \in 0..MaxDepth}

(* A zeroed inode is free; an entry with name_length zero is free, shown     *)
(* here as an entry without a link.                                          *)
FreeInode == [number |-> 0, kind |-> "NONE"]
Link == [parent : Inodes, inode : Inodes, kind : Kinds]
NoLink == [parent |-> 0, inode |-> 0, kind |-> "NONE"]
FreeDentry == [link |-> NoLink, name |-> NoName]

VARIABLES inodes,        \* the inode table on disk
          dentries,      \* the entry area on disk
          pc,            \* the phase create_node is in
          part,          \* the sector write of that phase that is next
          op,            \* its locals: parent_inode, name, kind, new_inode, index
          acknowledged,  \* the nodes whose creation was reported as done
          abandoned,     \* history: entries on the disk whose inode was rolled back
          doubled,       \* history: entries of a name that was there already
          mishaps        \* crashes and failed writes so far

diskVars == <<inodes, dentries>>
vars == <<diskVars, pc, part, op, acknowledged, abandoned, doubled, mishaps>>

Operation == [parent : Inodes, name : Names, kind : Kinds, inode : Inodes, entry : Dentries]
NoOperation == [parent |-> 0, name |-> NoName, kind |-> "NONE", inode |-> 0, entry |-> 0]

TypeOK ==
    /\ inodes \in [Inodes -> [number : 0..MaxInodes, kind : Kinds \union {"NONE"}]]
    /\ dentries \in [Dentries -> [link : Link \union {NoLink}, name : Names \union {NoName}]]
    /\ pc \in {"idle", "inode", "dentry", "rollback", "verify"}
    /\ part \in 1..2
    /\ op \in Operation \union {NoOperation}
    /\ acknowledged \subseteq Operation
    /\ abandoned \subseteq Dentries /\ doubled \subseteq Dentries
    /\ mishaps \in 0..MaxMishaps

(* A freshly formatted volume: the root directory and nothing else.          *)
Init ==
    /\ inodes = [n \in Inodes |-> IF n = RootInode
                                  THEN [number |-> n, kind |-> "DIRECTORY"]
                                  ELSE FreeInode]
    /\ dentries = [d \in Dentries |-> FreeDentry]
    /\ pc = "idle"
    /\ part = 1
    /\ op = NoOperation
    /\ acknowledged = {}
    /\ abandoned = {} /\ doubled = {}
    /\ mishaps = 0

-----------------------------------------------------------------------------
Least(S) == CHOOSE x \in S : \A y \in S : x <= y

(* find_child: the first entry of the parent with that name, 0 if none.      *)
Matches(parent, name) ==
    {d \in Dentries : dentries[d].link.parent = parent /\ dentries[d].name = name}
find_child(parent, name) ==
    IF Matches(parent, name) = {} THEN 0 ELSE dentries[Least(Matches(parent, name))].link.inode

(* find_path: one component after the other, whatever kind the nodes on the  *)
(* way are.                                                                  *)
find_path(path) ==
    LET walk[i \in 0..Len(path)] ==
            IF i = 0 THEN RootInode
            ELSE IF walk[i - 1] = 0 THEN 0 ELSE find_child(walk[i - 1], path[i])
    IN  walk[Len(path)]

(* Seeded faults: a record is taken without looking whether it is free.      *)
FaultyFreeInodes == Inodes \ {RootInode}
FaultyFreeDentries == Dentries

(* The records create_node may take: an inode whose number is zero, an entry *)
(* whose name_length is zero.                                                *)
FreeInodes == {n \in Inodes \ {RootInode} : inodes[n].number = 0}
FreeDentries == {d \in Dentries : dentries[d].link = NoLink}

(* Seeded fault: the name is not looked up among its siblings first.         *)
FaultyCreateBegins(path, name, kind) ==
    LET parent == find_path(path) IN
    /\ pc = "idle"
    /\ parent # 0
    /\ inodes[parent].kind = "DIRECTORY"
    /\ FreeInodes # {}
    /\ FreeDentries # {}
    /\ op' = [parent |-> parent, name |-> name, kind |-> kind,
              inode |-> Least(FreeInodes), entry |-> Least(FreeDentries)]
    /\ pc' = "inode"
    /\ part' = 1
    /\ UNCHANGED <<diskVars, acknowledged, abandoned, doubled, mishaps>>

(* The reads and decisions create_node makes before its first write, once    *)
(* the name was not found among the children of the parent.                  *)
Prepares(parent, name, kind) ==
    /\ pc = "idle"
    /\ parent # 0
    /\ inodes[parent].kind = "DIRECTORY"
    /\ FreeInodes # {}
    /\ FreeDentries # {}
    /\ op' = [parent |-> parent, name |-> name, kind |-> kind,
              inode |-> Least(FreeInodes), entry |-> Least(FreeDentries)]
    /\ pc' = "inode"
    /\ part' = 1
    /\ UNCHANGED <<diskVars, acknowledged, abandoned>>

CreateBegins(path, name, kind) ==
    /\ find_child(find_path(path), name) = 0
    /\ Prepares(find_path(path), name, kind)
    /\ doubled' = doubled \ {op'.entry}
    /\ UNCHANGED mishaps

(* find_child returns the same for a sector it cannot read as for a name it  *)
(* does not find.                                                            *)
CreateUnread(path, name, kind) ==
    /\ Outcomes # {"ok"}
    /\ mishaps < MaxMishaps
    /\ mishaps' = mishaps + 1
    /\ find_child(find_path(path), name) # 0
    /\ Prepares(find_path(path), name, kind)
    /\ doubled' = doubled \union {op'.entry}

(* One turn of write_metadata's loop: the fields of one sector reach the     *)
(* disk, or do not, and the caller goes on to the next sector, to the next   *)
(* phase, or to its error path.                                              *)
Stored(old, new, fields) == [f \in DOMAIN old |-> IF f \in fields THEN new[f] ELSE old[f]]

(* After the write of one sector: the next sector, the next phase when the   *)
(* record is complete, or the error path.                                    *)
Proceed(outcome, parts, done, failed) ==
    IF outcome = "ok"
    THEN /\ IF part < Len(parts)
            THEN part' = part + 1 /\ UNCHANGED pc
            ELSE part' = 1 /\ pc' = done
         /\ UNCHANGED mishaps
    ELSE /\ mishaps < MaxMishaps
         /\ mishaps' = mishaps + 1
         /\ part' = 1
         /\ pc' = failed

(* write_inode of the operation's inode, one sector of it.                   *)
WriteInodeRecord(outcome, record, done, failed) ==
    LET parts == InodeParts[op.inode] IN
    /\ IF outcome = "lost"
       THEN UNCHANGED inodes
       ELSE inodes' = [inodes EXCEPT ![op.inode] = Stored(@, record, parts[part])]
    /\ Proceed(outcome, parts, done, failed)
    /\ UNCHANGED <<dentries, op, acknowledged>>

(* Seeded fault: create_node returns once the inode is on the disk.          *)
FaultyWriteInode(outcome) ==
    /\ pc = "inode"
    /\ WriteInodeRecord(outcome, [number |-> op.inode, kind |-> op.kind], "idle", "idle")
    /\ UNCHANGED <<abandoned, doubled>>

(* The new inode goes first; on failure the caller is told at once.          *)
WriteInode(outcome) ==
    /\ pc = "inode"
    /\ WriteInodeRecord(outcome, [number |-> op.inode, kind |-> op.kind], "dentry", "idle")
    /\ UNCHANGED <<abandoned, doubled>>

(* The entry that names the inode goes second.                               *)
WriteDentry(outcome) ==
    LET parts == DentryParts[op.entry]
        record == [link |-> [parent |-> op.parent, inode |-> op.inode, kind |-> op.kind],
                   name |-> op.name]
    IN
    /\ pc = "dentry"
    /\ IF outcome = "lost"
       THEN UNCHANGED dentries
       ELSE dentries' = [dentries EXCEPT ![op.entry] = Stored(@, record, parts[part])]
    /\ Proceed(outcome, parts, "verify", "rollback")
    /\ UNCHANGED <<inodes, op, acknowledged, abandoned, doubled>>

(* The error path of a failed entry write: zero the inode again.             *)
Rollback(outcome) ==
    /\ pc = "rollback"
    /\ WriteInodeRecord(outcome, FreeInode, "idle", "idle")
    /\ abandoned' = IF outcome # "lost" /\ dentries[op.entry].link # NoLink
                    THEN abandoned \union {op.entry} ELSE abandoned
    /\ UNCHANGED doubled

(* Read everything back; success is reported only if it is what was meant.   *)
Verify ==
    /\ pc = "verify"
    /\ IF /\ inodes[op.inode] = [number |-> op.inode, kind |-> op.kind]
          /\ find_child(op.parent, op.name) = op.inode
       THEN acknowledged' = acknowledged \union {op}
       ELSE UNCHANGED acknowledged
    /\ pc' = "idle"
    /\ UNCHANGED <<diskVars, part, op, abandoned, doubled, mishaps>>

(* A read error while verifying: the caller is told -1, the node stays.      *)
VerifyReadFails ==
    /\ pc = "verify"
    /\ Outcomes # {"ok"}
    /\ mishaps < MaxMishaps
    /\ mishaps' = mishaps + 1
    /\ pc' = "idle"
    /\ UNCHANGED <<diskVars, part, op, acknowledged, abandoned, doubled>>

(* Power off and boot again: the disk is all that is left.                   *)
Crash ==
    /\ pc # "idle"
    /\ mishaps < MaxMishaps
    /\ mishaps' = mishaps + 1
    /\ pc' = "idle"
    /\ part' = 1
    /\ UNCHANGED <<diskVars, op, acknowledged, abandoned, doubled>>

Next ==
    \/ \E path \in Paths, name \in Names, kind \in Kinds :
           CreateBegins(path, name, kind) \/ CreateUnread(path, name, kind)
    \/ \E outcome \in Outcomes : WriteInode(outcome) \/ WriteDentry(outcome) \/ Rollback(outcome)
    \/ Verify
    \/ VerifyReadFails
    \/ Crash

Spec == Init /\ [][Next]_vars

-----------------------------------------------------------------------------
Linked == {d \in Dentries : dentries[d].link # NoLink}
Named == {d \in Linked : dentries[d].name # NoName}

Sound(entries) ==
    /\ \A d \in entries : inodes[dentries[d].link.inode] =
                              [number |-> dentries[d].link.inode, kind |-> dentries[d].link.kind]
    /\ \A d, e \in entries : dentries[d].link.inode = dentries[e].link.inode => d = e

(* An entry never points at a free or reused inode: the inode of every entry *)
(* on the disk is in use, of the kind the entry says, and no other entry's,  *)
(* except of an entry whose own write failed after the link had reached the  *)
(* disk and whose inode was then zeroed; no other failed write and no crash, *)
(* at whatever sector, leaves such an entry (create_node).                   *)
AgreeUnlessAbandoned == Sound(Linked \ abandoned)

(* Only a crash or a failed write can lose an inode, and each loses at most  *)
(* one: between operations, the inodes in use that no complete entry names   *)
(* are no more than the mishaps so far.                                      *)
LeakedInodes == {n \in Inodes \ {RootInode} :
    /\ inodes[n].number # 0
    /\ \A d \in Named : dentries[d].link.inode # n}
LeaksAreBounded == pc = "idle" => Cardinality(LeakedInodes) <= mishaps

(* A node whose creation was reported as done is found under its name, with  *)
(* its inode and kind, ever after: across crashes, failed writes of later    *)
(* operations and their rollbacks.                                           *)
AcknowledgedSurvives ==
    \A a \in acknowledged :
        /\ find_child(a.parent, a.name) = a.inode
        /\ inodes[a.inode] = [number |-> a.inode, kind |-> a.kind]

(* The complete entries of the disk form a tree that only grows, a whole     *)
(* node at a time, at whatever sector write the machine stops or fails, until *)
(* the rollback of create_node abandons an entry: what is then created under *)
(* that entry has no sound parent.  A second entry of a name, made because   *)
(* the first could not be read, is never reached and is no part of the tree. *)
Tree == INSTANCE DirectoryTree WITH
    tree <- {[parent |-> dentries[d].link.parent, name |-> dentries[d].name,
              inode |-> dentries[d].link.inode, kind |-> dentries[d].link.kind] : d \in Named \ doubled}
ImplementsDirectoryTree == Tree!Init /\ [][abandoned' = {} => Tree!Next]_vars

=============================================================================
