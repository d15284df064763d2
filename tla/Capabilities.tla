----------------------------- MODULE Capabilities -----------------------------
(***************************************************************************)
(* The capability table of a task, kernel/core/task.c.  A table is the     *)
(* sequence of its live entries; the C array is compacted on every revoke, *)
(* so that the live entries are always its first capability_count ones.    *)
(* A handle is a number: the slot of the grant plus one, never renumbered  *)
(* when the entries behind a revoked one move down.                        *)
(***************************************************************************)
EXTENDS Integers, SequencesExt

CONSTANT MaxCapabilities   \* QUANTA_MAX_CAPABILITIES

ASSUME MaxCapabilitiesAssumption == MaxCapabilities \in Nat \ {0}

InvalidHandle == 0
Handles == 1..MaxCapabilities
Kinds == {"ENDPOINT", "NAMESPACE"}
GrantedRights == {"SEND", "RECEIVE"}

Capability == [kind : Kinds, handle : Handles, rights : SUBSET GrantedRights]

(* The lookups of the system call handlers: any entry with the handle, the   *)
(* kind and the rights will do.                                              *)
has_namespace_capability(table, handle) ==
    \E i \in DOMAIN table : /\ table[i].handle = handle
                            /\ table[i].kind = "NAMESPACE"
                            /\ "SEND" \in table[i].rights

has_endpoint_capability(table, handle, right) ==
    \E i \in DOMAIN table : /\ table[i].handle = handle
                            /\ table[i].kind = "ENDPOINT"
                            /\ right \in table[i].rights

(* quanta_task_grant: the new entry goes to the first free slot.             *)
CanGrant(table) == Len(table) < MaxCapabilities
NewHandle(table) == Len(table) + 1
Granted(table, kind) ==
    Append(table, [kind |-> kind, handle |-> NewHandle(table), rights |-> GrantedRights])

(* quanta_task_revoke: the first entry with the handle goes, the ones behind *)
(* it move down one slot and keep their handles.                             *)
CanRevoke(table, handle) ==
    /\ handle # InvalidHandle
    /\ \E i \in DOMAIN table : table[i].handle = handle
FirstWith(table, handle) ==
    CHOOSE i \in DOMAIN table : /\ table[i].handle = handle
                                /\ \A j \in 1..i - 1 : table[j].handle # handle
Revoked(table, handle) == RemoveAt(table, FirstWith(table, handle))

=============================================================================
