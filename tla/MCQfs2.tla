-------------------------------- MODULE MCQfs2 --------------------------------
(* Three inodes beside the root, three entries, two names and parents up to  *)
(* one level deep: a full table, a reused inode and a second name for it all *)
(* fit.  MCMixed* give one record of each layout the disk has.               *)
EXTENDS Qfs2

CONSTANTS a, b

MCNames == {a, b}

WholeInode == <<{"number", "kind"}>>

(* Inode 10 of the disk, 19, and any other; entry 7, 23 and 31.              *)
MCMixedInodeParts == [n \in 1..MaxInodes |->
    CASE n = 2 -> <<{"number"}, {"kind"}>>
      [] n = 3 -> <<{"number", "kind"}, {}>>
      [] OTHER -> WholeInode]
MCMixedDentryParts == [d \in 1..MaxDentries |->
    CASE d = 1 -> <<{"link", "name"}, {}>>
      [] d = 2 -> <<{"link"}, {"name"}>>
      [] OTHER -> <<{}, {"link", "name"}>>]

=============================================================================
