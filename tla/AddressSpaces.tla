----------------------------- MODULE AddressSpaces -----------------------------
(***************************************************************************)
(* What the paging code of kernel/mm promises, with no table in sight: an  *)
(* address space is a function from user addresses to physical pages that  *)
(* changes only where and when a page is mapped into that very space; the  *)
(* kernel's addresses have one translation, shared by every space, that    *)
(* outlives all of them; a destroyed space is gone and changes no other.   *)
(***************************************************************************)
CONSTANTS Roots, UserAddresses, KernelAddresses, Physical, Unmapped

VARIABLES user,    \* user[r]: the translation of the space rooted at r
          kernel   \* the translation of the kernel's addresses

Init == user = [r \in {} |-> Unmapped] /\ kernel = [a \in KernelAddresses |-> Unmapped]

Create ==
    \E r \in Roots \ DOMAIN user :
        /\ user' = [s \in DOMAIN user \union {r} |->
                        IF s = r THEN [a \in UserAddresses |-> Unmapped] ELSE user[s]]
        /\ UNCHANGED kernel

Map ==
    \/ \E r \in DOMAIN user, a \in UserAddresses, p \in Physical :
          user' = [user EXCEPT ![r][a] = p] /\ UNCHANGED kernel
    \/ \E a \in KernelAddresses, p \in Physical :
          kernel' = [kernel EXCEPT ![a] = p] /\ UNCHANGED user

Destroy ==
    \E r \in DOMAIN user :
        /\ user' = [s \in DOMAIN user \ {r} |-> user[s]]
        /\ UNCHANGED kernel

Next == Create \/ Map \/ Destroy

Spec == Init /\ [][Next]_<<user, kernel>>

=============================================================================
