------------------------------ MODULE TaskProofs ------------------------------
(***************************************************************************)
(* The tasks never enter one that finished or waits, the channel and its   *)
(* client agree, a request is delivered at most once and answered by a     *)
(* reply of its own, and endpoint fields are live: for every number of     *)
(* capabilities and every set of services and correlation ids.             *)
(*                                                                         *)
(* What makes it inductive is that a run of the three tasks only goes one  *)
(* way: the client calls at most once, the server is entered only by that  *)
(* call, and nobody gives the processor back.                              *)
(***************************************************************************)
EXTENDS Task, SequenceTheorems, WellFoundedInduction, TLAPS

(* A task that had its turn never comes back.                                *)
OneWay ==
    /\ RunningIsRunnable
    /\ current = client => state[server] = "RUNNABLE"
    /\ current # faulter => state[faulter] = "RUNNABLE"

(* The channel, told from the client's side.                                 *)
ChannelSound ==
    /\ PendingIffClientWaits
    /\ state[client] = "RUNNABLE" => ~ipc_request_received
    /\ current = client => state[client] # "WAIT_REPLY"
    /\ delivered = IF ipc_request_received THEN <<ipc_request>> ELSE <<>>
    /\ ipc_request_received => ipc_request \in Message
    /\ ipc_request_pending => ipc_request \in Message

ProtocolInv ==
    /\ mode \in {"user", "halted", "kernel_fault"}
    /\ current \in Tasks
    /\ state \in [Tasks -> {"RUNNABLE", "WAIT_REPLY", "DONE"}]
    /\ {ipc_request_pending, ipc_request_received} \subseteq BOOLEAN
    /\ OneWay
    /\ ChannelSound

-----------------------------------------------------------------------------
LEMMA InitProtocol == Init => ProtocolInv
BY DEF Init, ProtocolInv, OneWay, ChannelSound, RunningIsRunnable, PendingIffClientWaits,
       Tasks, client, server, faulter

(* One step per action; only those of the channel and those that end a task  *)
(* change what the invariant speaks of.                                      *)
LEMMA StepProtocol == ProtocolInv /\ [Next]_vars => ProtocolInv'
<1> SUFFICES ASSUME ProtocolInv, [Next]_vars PROVE ProtocolInv'
    OBVIOUS
<1> USE DEF ProtocolInv, OneWay, ChannelSound, RunningIsRunnable, PendingIffClientWaits,
            Tasks, client, server, faulter
<1>1. ASSUME NEW entry \in Entries, NEW handle \in Handles, NEW request \in Message,
             IpcCall(entry, handle, request)
      PROVE  ProtocolInv'
    BY <1>1 DEF IpcCall, Enters, run
<1>2. ASSUME NEW entry \in Entries, NEW handle \in Handles, NEW length \in 0..MaxPayload,
             IpcReceive(entry, handle, length)
      PROVE  ProtocolInv'
    <2>1. delivered' = <<ipc_request>>
        BY <1>2 DEF IpcReceive
    <2> QED BY <1>2, <2>1 DEF IpcReceive, Enters
<1>3. ASSUME NEW entry \in Entries, NEW handle \in Handles, NEW response \in Message,
             IpcReply(entry, handle, response)
      PROVE  ProtocolInv'
    <2>1. /\ mode' = "user" /\ current' = 2
          /\ state' = [state EXCEPT ![0] = "DONE"]
          /\ ipc_request_pending' = FALSE /\ UNCHANGED <<ipc_request, ipc_request_received, delivered>>
        BY <1>3 DEF IpcReply, Enters, run
    <2>2. current = 1 /\ state[2] = "RUNNABLE"
        BY <1>3 DEF IpcReply
    <2>3. state'[0] = "DONE" /\ state'[2] = "RUNNABLE"
        BY <2>1, <2>2
    <2>4. ChannelSound'
        BY <2>1, <2>3
    <2>5. OneWay'
        BY <2>1, <2>3
    <2>6. state' \in [0..2 -> {"RUNNABLE", "WAIT_REPLY", "DONE"}]
        BY <2>1
    <2>7. {ipc_request_pending, ipc_request_received}' \subseteq BOOLEAN
        BY <2>1
    <2> QED BY <2>1, <2>4, <2>5, <2>6, <2>7
<1>4. ASSUME NEW entry \in Entries, NEW handle \in Handles, Shutdown(entry, handle)
      PROVE  ProtocolInv'
    BY <1>4 DEF Shutdown, ipcVars, capabilityVars
<1>5. ASSUME NEW entry \in Entries, TaskExit(entry)
      PROVE  ProtocolInv'
    BY <1>5 DEF TaskExit, Enters, run, ipcVars, capabilityVars
<1>6. CASE SyscallEntryFaults
    BY <1>6 DEF SyscallEntryFaults, ipcVars, capabilityVars
<1>7. CASE UserFault
    BY <1>7 DEF UserFault, run, ipcVars, capabilityVars
<1>8. ASSUME NEW t \in {client, server}, NEW kind \in Kinds, quanta_task_grant(t, kind)
      PROVE  ProtocolInv'
    BY <1>8 DEF quanta_task_grant, ipcVars
<1>9. ASSUME NEW t \in {client, server}, NEW handle \in Handles, quanta_task_revoke(t, handle)
      PROVE  ProtocolInv'
    BY <1>9 DEF quanta_task_revoke, ipcVars
<1>10. CASE UNCHANGED vars
    BY <1>10 DEF vars, ipcVars, capabilityVars
<1> QED
    BY <1>1, <1>2, <1>3, <1>4, <1>5, <1>6, <1>7, <1>8, <1>9, <1>10 DEF Next, Syscall

LEMMA Protocol == Spec => []ProtocolInv
BY InitProtocol, StepProtocol, PTL DEF Spec

-----------------------------------------------------------------------------
(* The table of a task and the operators on it.                              *)
LEMMA FirstExists ==
    ASSUME NEW table \in Seq(Capability), NEW handle, CanRevoke(table, handle)
    PROVE  FirstWith(table, handle) \in 1..Len(table) /\ table[FirstWith(table, handle)].handle = handle
<1> DEFINE T == {i \in 1..Len(table) : table[i].handle = handle}
           R == OpToRel(<, Nat)
<1>1. DOMAIN table = 1..Len(table) /\ Len(table) \in Nat
    BY LenProperties
<1>2. T \subseteq Nat /\ T # {}
    BY <1>1 DEF CanRevoke
<1>3. PICK least \in T : \A i \in T : <<i, least>> \notin R
    <2> HIDE DEF T, R
    <2>1. IsWellFoundedOn(R, Nat)
        BY NatLessThanWellFounded DEF R
    <2> QED BY <1>2, <2>1, WFMin
<1>4. \A j \in 1..least - 1 : table[j].handle # handle
    <2>1. \A i \in Nat : i < least => <<i, least>> \in R
        BY <1>2 DEF OpToRel
    <2> SUFFICES ASSUME NEW j \in 1..least - 1, table[j].handle = handle PROVE FALSE
        OBVIOUS
    <2>2. least \in 1..Len(table)
        BY <1>3
    <2>3. j \in T /\ j \in Nat /\ j < least
        BY <1>1, <2>2
    <2> HIDE DEF R, T
    <2> QED BY <1>3, <2>1, <2>3
<1> QED BY <1>1, <1>3, <1>4 DEF FirstWith

(* What a revoke leaves: every other entry, with its handle.                 *)
LEMMA RevokedKeepsTheRest ==
    ASSUME NEW table \in Seq(Capability), NEW handle, CanRevoke(table, handle)
    PROVE  /\ Revoked(table, handle) \in Seq(Capability)
           /\ Len(Revoked(table, handle)) = Len(table) - 1
           /\ \A i \in 1..Len(table) : table[i].handle # handle =>
                  \E j \in 1..Len(table) - 1 : Revoked(table, handle)[j] = table[i]
<1> DEFINE k == FirstWith(table, handle)
           front == SubSeq(table, 1, k - 1)
           back == SubSeq(table, k + 1, Len(table))
<1>1. k \in 1..Len(table) /\ table[k].handle = handle /\ Len(table) \in Nat
    BY FirstExists, LenProperties
<1>2. \A i \in 1..Len(table) : table[i] \in Capability
    BY ElementOfSeq
<1> HIDE DEF k
<1>3. /\ front \in Seq(Capability) /\ Len(front) = k - 1
      /\ \A i \in 1..k - 1 : front[i] = table[i]
    BY <1>1, <1>2, SubSeqProperties
<1>4. /\ back \in Seq(Capability) /\ Len(back) = Len(table) - k
      /\ \A i \in 1..Len(table) - k : back[i] = table[k + i]
    BY <1>1, <1>2, SubSeqProperties
<1>5. Revoked(table, handle) = front \o back
    BY DEF Revoked, RemoveAt, k
<1> HIDE DEF front, back
<1> DEFINE left == front \o back
<1>6. /\ left \in Seq(Capability) /\ Len(left) = Len(table) - 1
      /\ \A i \in 1..Len(table) - 1 : left[i] = IF i <= k - 1 THEN front[i] ELSE back[i - (k - 1)]
    <2>1. /\ left \in Seq(Capability) /\ Len(left) = Len(front) + Len(back)
          /\ \A i \in 1..Len(front) + Len(back) :
                left[i] = IF i <= Len(front) THEN front[i] ELSE back[i - Len(front)]
        BY <1>3, <1>4, ConcatProperties
    <2>2. Len(front) + Len(back) = Len(table) - 1
        BY <1>1, <1>3, <1>4
    <2> HIDE DEF left
    <2> QED BY <1>3, <2>1, <2>2
<1> HIDE DEF left
<1>7. ASSUME NEW i \in 1..Len(table), table[i].handle # handle
      PROVE  \E j \in 1..Len(table) - 1 : left[j] = table[i]
    <2>1. CASE i < k
        BY <1>1, <1>3, <1>6, <2>1
    <2>2. CASE i > k
        <3>1. i - 1 \in 1..Len(table) - 1 /\ i - k \in 1..Len(table) - k /\ ~(i - 1 <= k - 1)
            BY <1>1, <2>2
        <3>2. left[i - 1] = back[i - k]
            BY <1>1, <1>6, <3>1
        <3> QED BY <1>1, <1>4, <3>1, <3>2
    <2> QED BY <1>1, <1>7, <2>1, <2>2
<1> QED BY <1>5, <1>6, <1>7 DEF left

(* An entry with a handle, as the lookups of the endpoint calls find it.     *)
Names(table, handle) ==
    \E i \in 1..Len(table) : /\ table[i].handle = handle /\ table[i].kind = "ENDPOINT"
                             /\ table[i].rights # {}

TablesInv ==
    /\ endpoint \in [Tasks -> Nat]
    /\ capabilities \in [Tasks -> Seq(Capability)]
    /\ \A t \in Tasks : Len(capabilities[t]) <= MaxCapabilities
    /\ \A t \in Tasks : endpoint[t] \in {InvalidHandle, BootEndpoint[t]} \/ Names(capabilities[t], endpoint[t])

(* Grants and revokes keep every endpoint field on an entry that is there.   *)
LEMMA InitTables == Init => TablesInv
<1> SUFFICES ASSUME Init PROVE TablesInv
    OBVIOUS
<1> DEFINE entry == [kind |-> "NAMESPACE", handle |-> 1, rights |-> GrantedRights]
<1>1. entry \in Capability
    BY MaxCapabilitiesAssumption DEF Capability, Kinds, Handles
<1> DEFINE first == Granted(<<>>, "NAMESPACE")
<1>2. first = Append(<<>>, entry)
    BY DEF Granted, NewHandle
<1> HIDE DEF entry
<1>3. <<>> \in Seq(Capability) /\ Len(<<>>) = 0
    BY EmptySeq
<1>4. first \in Seq(Capability) /\ Len(first) = 1
    <2> HIDE DEF first
    <2>1. Append(<<>>, entry) \in Seq(Capability) /\ Len(Append(<<>>, entry)) = Len(<<>>) + 1
        BY <1>1, <1>3, AppendProperties
    <2> QED BY <1>2, <1>3, <2>1
<1>5. capabilities = [t \in Tasks |-> IF t = client THEN first ELSE <<>>]
    BY DEF Init
<1> HIDE DEF first
<1>6. /\ capabilities \in [Tasks -> Seq(Capability)]
      /\ \A t \in Tasks : Len(capabilities[t]) <= MaxCapabilities
    <2>1. \A t \in Tasks : capabilities[t] = first \/ capabilities[t] = <<>>
        BY <1>5
    <2>2. capabilities \in [Tasks -> Seq(Capability)]
        BY <1>3, <1>4, <1>5
    <2>3. 1 <= MaxCapabilities /\ 0 <= MaxCapabilities
        BY MaxCapabilitiesAssumption
    <2>4. \A t \in Tasks : Len(capabilities[t]) <= MaxCapabilities
        BY <1>3, <1>4, <2>1, <2>3
    <2> QED BY <2>2, <2>4
<1>7. endpoint \in [Tasks -> Nat] /\ \A t \in Tasks : endpoint[t] = BootEndpoint[t]
    BY DEF Init, BootEndpoint, InvalidHandle, Tasks
<1> QED BY <1>6, <1>7 DEF TablesInv

LEMMA GrantTables ==
    ASSUME TablesInv, NEW t \in Tasks, NEW kind \in Kinds, quanta_task_grant(t, kind)
    PROVE  TablesInv'
<1> DEFINE old == capabilities[t]
           entry == [kind |-> kind, handle |-> Len(old) + 1, rights |-> GrantedRights]
           new == Granted(old, kind)
<1>1. old \in Seq(Capability) /\ Len(old) \in Nat /\ Len(old) < MaxCapabilities
    BY LenProperties DEF TablesInv, quanta_task_grant, CanGrant
<1>2. entry \in Capability
    BY <1>1, MaxCapabilitiesAssumption DEF Capability, Handles
<1>3. new = Append(old, entry)
    BY DEF Granted, NewHandle
<1>4. /\ new \in Seq(Capability) /\ Len(new) = Len(old) + 1 /\ new[Len(old) + 1] = entry
      /\ \A i \in 1..Len(old) : new[i] = old[i]
    <2> HIDE DEF entry, old
    <2> QED BY <1>1, <1>2, <1>3
<1>5. capabilities' = [capabilities EXCEPT ![t] = new]
    BY DEF quanta_task_grant
<1>6. kind = "ENDPOINT" => Names(new, Len(old) + 1)
    <2>1. entry.kind = kind /\ entry.handle = Len(old) + 1 /\ entry.rights # {}
        BY DEF GrantedRights
    <2> HIDE DEF entry
    <2>2. Len(new) = Len(old) + 1 /\ new[Len(old) + 1] = entry /\ Len(old) \in Nat
        BY <1>1, <1>4
    <2> HIDE DEF new
    <2> QED BY <2>1, <2>2 DEF Names
<1>7. \A handle : Names(old, handle) => Names(new, handle)
    BY <1>1, <1>4 DEF Names
<1>8. endpoint' = IF kind = "ENDPOINT" THEN [endpoint EXCEPT ![t] = Len(old) + 1] ELSE endpoint
    BY DEF quanta_task_grant, NewHandle
<1> HIDE DEF old, new, entry
<1>9. /\ endpoint' \in [Tasks -> Nat]
      /\ capabilities' \in [Tasks -> Seq(Capability)]
      /\ \A u \in Tasks : Len(capabilities'[u]) <= MaxCapabilities
    BY <1>1, <1>4, <1>5, <1>8, MaxCapabilitiesAssumption DEF TablesInv
<1>10. ASSUME NEW u \in Tasks
       PROVE  endpoint'[u] \in {InvalidHandle, BootEndpoint[u]} \/ Names(capabilities'[u], endpoint'[u])
    <2>1. CASE u # t
        BY <1>5, <1>8, <2>1 DEF TablesInv
    <2>2. CASE u = t /\ kind = "ENDPOINT"
        BY <1>5, <1>6, <1>8, <2>2 DEF TablesInv
    <2>3. CASE u = t /\ kind # "ENDPOINT"
        BY <1>5, <1>7, <1>8, <2>3 DEF TablesInv, old
    <2> QED BY <2>1, <2>2, <2>3
<1> QED BY <1>9, <1>10 DEF TablesInv

LEMMA RevokeTables ==
    ASSUME TablesInv, NEW t \in Tasks, NEW handle \in Handles, quanta_task_revoke(t, handle)
    PROVE  TablesInv'
<1> DEFINE old == capabilities[t]
           new == Revoked(old, handle)
<1>1. old \in Seq(Capability) /\ CanRevoke(old, handle) /\ Len(old) \in Nat
    BY LenProperties DEF TablesInv, quanta_task_revoke
<1>2. /\ new \in Seq(Capability)
      /\ Len(new) = Len(old) - 1
      /\ \A i \in 1..Len(old) : old[i].handle # handle => \E j \in 1..Len(new) : new[j] = old[i]
    BY <1>1, RevokedKeepsTheRest
<1>3. capabilities' = [capabilities EXCEPT ![t] = new]
    BY DEF quanta_task_revoke
<1>4. endpoint' = IF endpoint[t] = handle THEN [endpoint EXCEPT ![t] = InvalidHandle] ELSE endpoint
    BY DEF quanta_task_revoke
<1>5. \A other : other # handle /\ Names(old, other) => Names(new, other)
    BY <1>2 DEF Names
<1> HIDE DEF new
<1>6. /\ endpoint' \in [Tasks -> Nat]
      /\ capabilities' \in [Tasks -> Seq(Capability)]
      /\ \A u \in Tasks : Len(capabilities'[u]) <= MaxCapabilities
    BY <1>1, <1>2, <1>3, <1>4, MaxCapabilitiesAssumption DEF TablesInv, InvalidHandle
<1>7. ASSUME NEW u \in Tasks
      PROVE  endpoint'[u] \in {InvalidHandle, BootEndpoint[u]} \/ Names(capabilities'[u], endpoint'[u])
    <2>1. CASE u # t
        BY <1>3, <1>4, <2>1 DEF TablesInv
    <2>2. CASE u = t /\ endpoint[t] = handle
        BY <1>4, <2>2 DEF TablesInv
    <2>3. CASE u = t /\ endpoint[t] # handle
        BY <1>3, <1>4, <1>5, <2>3 DEF TablesInv
    <2> QED BY <2>1, <2>2, <2>3
<1> QED BY <1>6, <1>7 DEF TablesInv

(* Nothing else touches the tables.                                          *)
LEMMA StepTables == TablesInv /\ [Next]_vars => TablesInv'
<1> SUFFICES ASSUME TablesInv, [Next]_vars PROVE TablesInv'
    OBVIOUS
<1>1. ASSUME UNCHANGED capabilityVars PROVE TablesInv'
    BY <1>1 DEF capabilityVars, TablesInv
<1>2. ASSUME NEW t \in {client, server}, NEW kind \in Kinds, quanta_task_grant(t, kind)
      PROVE  TablesInv'
    BY <1>2, GrantTables DEF Tasks, client, server
<1>3. ASSUME NEW t \in {client, server}, NEW handle \in Handles, quanta_task_revoke(t, handle)
      PROVE  TablesInv'
    BY <1>3, RevokeTables DEF Tasks, client, server
<1>4. ASSUME NEW entry \in Entries, Syscall(entry) PROVE UNCHANGED capabilityVars
    BY <1>4 DEF Syscall, IpcCall, IpcReceive, IpcReply, Shutdown, TaskExit
<1> QED BY <1>1, <1>2, <1>3, <1>4 DEF Next, SyscallEntryFaults, UserFault, vars

(* An endpoint field names an endpoint capability of its task, whatever was  *)
(* granted and revoked, in whatever order.                                   *)
THEOREM EndpointsLive == Spec => []EndpointIsLive
<1>1. Spec => []TablesInv
    BY InitTables, StepTables, PTL DEF Spec
<1>2. ASSUME TablesInv PROVE EndpointIsLive
    <2> SUFFICES ASSUME NEW t \in Tasks, Names(capabilities[t], endpoint[t])
                 PROVE  \E right \in GrantedRights :
                            has_endpoint_capability(capabilities[t], endpoint[t], right)
        BY <1>2 DEF EndpointIsLive, TablesInv
    <2>1. PICK i \in 1..Len(capabilities[t]) : /\ capabilities[t][i].handle = endpoint[t]
                                               /\ capabilities[t][i].kind = "ENDPOINT"
                                               /\ capabilities[t][i].rights # {}
        BY DEF Names
    <2>2. capabilities[t] \in Seq(Capability)
        BY <1>2 DEF TablesInv
    <2>3. DOMAIN capabilities[t] = 1..Len(capabilities[t]) /\ capabilities[t][i] \in Capability
        BY <2>2, LenProperties, ElementOfSeq
    <2>4. PICK right \in capabilities[t][i].rights : right \in GrantedRights
        BY <2>1, <2>3 DEF Capability
    <2> QED BY <2>1, <2>3, <2>4 DEF has_endpoint_capability
<1> QED BY <1>1, <1>2, PTL

-----------------------------------------------------------------------------
(* run() and the user-fault handler never enter a task that exited, faulted  *)
(* or waits for a reply.                                                     *)
THEOREM Runnable == Spec => []RunningIsRunnable
<1>1. ProtocolInv => RunningIsRunnable
    BY DEF ProtocolInv, OneWay
<1> QED BY Protocol, <1>1, PTL

(* The slot of the channel is full exactly while the client waits.           *)
THEOREM PendingIffWaits == Spec => []PendingIffClientWaits
<1>1. ProtocolInv => PendingIffClientWaits
    BY DEF ProtocolInv, ChannelSound
<1> QED BY Protocol, <1>1, PTL

(* IPC_RECEIVE hands a request out at most once.                             *)
THEOREM AtMostOnce == Spec => []DeliveredAtMostOnce
<1>1. ASSUME ProtocolInv PROVE DeliveredAtMostOnce
    <2>1. CASE ipc_request_received
        <3>1. delivered = <<ipc_request>>
            BY <1>1, <2>1 DEF ProtocolInv, ChannelSound
        <3> QED BY <2>1, <3>1 DEF DeliveredAtMostOnce, Last
    <2>2. CASE ~ipc_request_received
        BY <1>1, <2>2 DEF ProtocolInv, ChannelSound, DeliveredAtMostOnce
    <2> QED BY <2>1, <2>2
<1> QED BY Protocol, <1>1, PTL

(* Only a reply with the service and the id of the request that was handed   *)
(* out releases the client: no exit, fault or revocation does.               *)
THEOREM OnlyAMatchingReply == Spec => ReplyMatchesDelivery
<1> DEFINE Released == state[client] = "WAIT_REPLY" /\ state'[client] # "WAIT_REPLY"
           Matches == /\ delivered # <<>>
                      /\ ipc_reply'.service = Last(delivered).service
                      /\ ipc_reply'.correlation_id = Last(delivered).correlation_id
<1>1. ASSUME ProtocolInv, [Next]_vars, Released PROVE Matches
    <2> USE DEF ProtocolInv, OneWay, ChannelSound, RunningIsRunnable, Tasks, client, server, faulter
    <2>1. ASSUME NEW entry \in Entries, NEW handle \in Handles, NEW response \in Message,
                 IpcReply(entry, handle, response)
          PROVE  Matches
        <3>1. delivered = <<ipc_request>> /\ ipc_reply' = response
            BY <1>1, <2>1 DEF IpcReply
        <3>2. Last(delivered) = ipc_request
            BY <3>1 DEF Last
        <3> QED BY <2>1, <3>1, <3>2 DEF IpcReply
    <2>2. ASSUME NEW entry \in Entries, Syscall(entry),
                 ~ \E handle \in Handles, response \in Message : IpcReply(entry, handle, response)
          PROVE  FALSE
        BY <1>1, <2>2 DEF Syscall, IpcCall, IpcReceive, Shutdown, TaskExit, Enters
    <2>3. CASE UserFault
        BY <1>1, <2>3 DEF UserFault
    <2>4. CASE SyscallEntryFaults \/ UNCHANGED vars
              \/ (\E t \in {client, server}, kind \in Kinds : quanta_task_grant(t, kind))
              \/ (\E t \in {client, server}, handle \in Handles : quanta_task_revoke(t, handle))
        BY <1>1, <2>4 DEF SyscallEntryFaults, vars, quanta_task_grant, quanta_task_revoke
    <2> QED BY <1>1, <2>1, <2>2, <2>3, <2>4 DEF Next
<1>2. ProtocolInv /\ [Next]_vars => [Released => Matches]_vars
    BY <1>1
<1> QED BY Protocol, <1>2, PTL DEF Spec, ReplyMatchesDelivery

=============================================================================
