----------------------------- MODULE DirectoryTree -----------------------------
(***************************************************************************)
(* What mkdir and create promise about the directory tree of a volume: a   *)
(* node appears as a whole or not at all, under an existing directory, with *)
(* a name none of its siblings has and an inode no other node has, and it  *)
(* never changes or disappears (the file system has no unlink or rename).  *)
(***************************************************************************)
EXTENDS Naturals

CONSTANTS Names, MaxInodes

RootInode == 1
Kinds == {"FILE", "DIRECTORY"}
Node == [parent : 1..MaxInodes, name : Names, inode : 1..MaxInodes, kind : Kinds]

VARIABLE tree

Directories == {RootInode} \union {n.inode : n \in {m \in tree : m.kind = "DIRECTORY"}}

Init == tree = {}

Add ==
    \E n \in Node :
        /\ n.parent \in Directories
        /\ n.inode # RootInode
        /\ \A m \in tree : n.inode # m.inode /\ <<n.parent, n.name>> # <<m.parent, m.name>>
        /\ tree' = tree \union {n}

Next == Add \/ UNCHANGED tree

Spec == Init /\ [][Next]_tree

=============================================================================
