--------------------------------- MODULE Task ---------------------------------
(***************************************************************************)
(* The three boot tasks of kernel/core/task.c, their capability tables and *)
(* the one-slot IPC channel from the client (0) to the server (1); task 2  *)
(* is the fault task every switch away from the other two ends in.         *)
(*                                                                         *)
(* There is no preemption: the timer interrupt only counts.  A task keeps  *)
(* the processor until a system call or a fault of its own calls run().    *)
(* A task enters the kernel by the syscall instruction, whose entry swaps  *)
(* the GS base, or by int 0x80, whose stub does not; run() goes straight   *)
(* to the next task by iretq and never swaps it back.  A call that returns *)
(* a status to its caller without changing kernel state is a stutter.      *)
(***************************************************************************)
EXTENDS Capabilities, FiniteSets

CONSTANTS Services,        \* the service numbers a message may carry
          CorrelationIds,  \* the correlation ids a message may carry
          MaxPayload       \* QUANTA_IPC_MAX_PAYLOAD

ASSUME MaxPayloadAssumption == MaxPayload \in Nat

Tasks == 0..2
client == 0
server == 1
faulter == 2
Entries == {"syscall", "int80"}
Message == [service : Services, correlation_id : CorrelationIds, length : 0..MaxPayload]
NoMessage == [service |-> "none", correlation_id |-> "none", length |-> 0]

VARIABLES mode,                  \* "user", "halted" or "kernel_fault"
          current,               \* the task that has the processor
          gs,                    \* the GS base ring 3 runs with: "user" or "kernel"
          state,                 \* state[t]: enum task_state
          endpoint,              \* endpoint[t]: the endpoint handle of the task
          capabilities,          \* capabilities[t]: the live entries
          ipc_request,           \* the request in the channel
          ipc_reply,             \* the last reply
          ipc_request_pending,
          ipc_request_received,
          delivered              \* every request the server was handed, in order

ipcVars == <<ipc_request, ipc_reply, ipc_request_pending, ipc_request_received, delivered>>
capabilityVars == <<endpoint, capabilities>>
vars == <<mode, current, gs, state, capabilityVars, ipcVars>>

TypeOK ==
    /\ mode \in {"user", "halted", "kernel_fault"}
    /\ current \in Tasks
    /\ gs \in {"user", "kernel"}
    /\ state \in [Tasks -> {"RUNNABLE", "WAIT_REPLY", "DONE"}]
    /\ endpoint \in [Tasks -> Handles \union {InvalidHandle}]
    /\ capabilities \in [Tasks -> Seq(Capability)]
    /\ \A t \in Tasks : Len(capabilities[t]) <= MaxCapabilities
    /\ ipc_request \in Message \union {NoMessage}
    /\ ipc_reply \in Message \union {NoMessage}
    /\ ipc_request_pending \in BOOLEAN
    /\ ipc_request_received \in BOOLEAN
    /\ delivered \in Seq(Message)

(* quanta_task_bootstrap after the three creates: only the client is granted *)
(* anything, the namespace under handle 1; the endpoint fields are set from  *)
(* create's last argument without any endpoint capability behind them.       *)
BootEndpoint == [t \in Tasks |-> IF t = client THEN 1 ELSE IF t = server THEN 2 ELSE InvalidHandle]

Init ==
    /\ mode = "user"
    /\ current = client
    /\ gs = "user"
    /\ state = [t \in Tasks |-> "RUNNABLE"]
    /\ endpoint = BootEndpoint
    /\ capabilities = [t \in Tasks |-> IF t = client THEN Granted(<<>>, "NAMESPACE") ELSE <<>>]
    /\ ipc_request = NoMessage
    /\ ipc_reply = NoMessage
    /\ ipc_request_pending = FALSE
    /\ ipc_request_received = FALSE
    /\ delivered = <<>>

-----------------------------------------------------------------------------
(* quanta_arch_syscall_entry finds the kernel stack through GS: it gets into *)
(* the handler only if its swapgs brings in the kernel's base.               *)
Enters(entry) == mode = "user" /\ (entry = "syscall" => gs = "user")

(* run(): the new task starts with whatever GS base the kernel ran with.     *)
run(slot, gsInKernel) ==
    /\ current' = slot
    /\ gs' = gsInKernel

GsAfter(entry) == IF entry = "syscall" THEN "kernel" ELSE gs

(* The syscall instruction with the bases the wrong way round: the entry     *)
(* stores through the user's null base and takes a fault in the kernel.      *)
SyscallEntryFaults ==
    /\ mode = "user"
    /\ gs = "kernel"
    /\ mode' = "kernel_fault"
    /\ UNCHANGED <<current, gs, state, capabilityVars, ipcVars>>

(* IPC_CALL fills the channel and switches to the server for good: there is  *)
(* one slot, one caller and one callee.                                      *)
IpcCall(entry, handle, request) ==
    /\ Enters(entry)
    /\ current = client
    /\ handle = endpoint[current]
    /\ has_endpoint_capability(capabilities[current], handle, "SEND")
    /\ ~ipc_request_pending
    /\ ipc_request' = request
    /\ ipc_request_pending' = TRUE
    /\ ipc_request_received' = FALSE
    /\ state' = [state EXCEPT ![current] = "WAIT_REPLY"]
    /\ run(server, GsAfter(entry))
    /\ UNCHANGED <<mode, capabilityVars, ipc_reply, delivered>>

(* Seeded fault: a request already received is received again.               *)
FaultyIpcReceive(entry, handle, length) ==
    /\ Enters(entry)
    /\ current = server
    /\ handle = endpoint[current]
    /\ has_endpoint_capability(capabilities[current], handle, "RECEIVE")
    /\ state[client] = "WAIT_REPLY"
    /\ ipc_request_pending
    /\ length >= ipc_request.length
    /\ ipc_request_received' = TRUE
    /\ delivered' = Append(delivered, ipc_request)
    /\ UNCHANGED <<mode, current, gs, state, capabilityVars, ipc_request, ipc_reply,
                   ipc_request_pending>>

(* IPC_RECEIVE copies the pending request to the server once; the client     *)
(* stays waiting and the server keeps the processor.                         *)
IpcReceive(entry, handle, length) ==
    /\ Enters(entry)
    /\ current = server
    /\ handle = endpoint[current]
    /\ has_endpoint_capability(capabilities[current], handle, "RECEIVE")
    /\ state[client] = "WAIT_REPLY"
    /\ ipc_request_pending
    /\ ~ipc_request_received
    /\ length >= ipc_request.length
    /\ ipc_request_received' = TRUE
    /\ delivered' = Append(delivered, ipc_request)
    /\ UNCHANGED <<mode, current, gs, state, capabilityVars, ipc_request, ipc_reply,
                   ipc_request_pending>>

(* Seeded fault: the slot of the channel is not emptied by the reply.        *)
FaultyIpcReplyKeepsPending(entry, handle, response) ==
    /\ Enters(entry)
    /\ current = server
    /\ handle = endpoint[current]
    /\ has_endpoint_capability(capabilities[current], handle, "SEND")
    /\ state[client] = "WAIT_REPLY"
    /\ ipc_request_pending
    /\ ipc_request_received
    /\ response.service = ipc_request.service
    /\ response.correlation_id = ipc_request.correlation_id
    /\ ipc_reply' = response
    /\ state' = [state EXCEPT ![client] = "DONE"]
    /\ run(faulter, GsAfter(entry))
    /\ UNCHANGED <<mode, capabilityVars, ipc_request, ipc_request_pending, ipc_request_received,
                   delivered>>

(* Seeded fault: the correlation id of the reply is not compared.            *)
FaultyIpcReplyAnyId(entry, handle, response) ==
    /\ Enters(entry)
    /\ current = server
    /\ handle = endpoint[current]
    /\ has_endpoint_capability(capabilities[current], handle, "SEND")
    /\ state[client] = "WAIT_REPLY"
    /\ ipc_request_pending
    /\ ipc_request_received
    /\ response.service = ipc_request.service
    /\ ipc_reply' = response
    /\ ipc_request_pending' = FALSE
    /\ state' = [state EXCEPT ![client] = "DONE"]
    /\ run(faulter, GsAfter(entry))
    /\ UNCHANGED <<mode, capabilityVars, ipc_request, ipc_request_received, delivered>>

(* IPC_REPLY stores a matching reply and starts the fault task; the client   *)
(* is marked done and never entered again.                                   *)
IpcReply(entry, handle, response) ==
    /\ Enters(entry)
    /\ current = server
    /\ handle = endpoint[current]
    /\ has_endpoint_capability(capabilities[current], handle, "SEND")
    /\ state[client] = "WAIT_REPLY"
    /\ ipc_request_pending
    /\ ipc_request_received
    /\ response.service = ipc_request.service
    /\ response.correlation_id = ipc_request.correlation_id
    /\ ipc_reply' = response
    /\ ipc_request_pending' = FALSE
    /\ state' = [state EXCEPT ![client] = "DONE"]
    /\ run(faulter, GsAfter(entry))
    /\ UNCHANGED <<mode, capabilityVars, ipc_request, ipc_request_received, delivered>>

(* SHUTDOWN is one of the calls only the client may make, and only with a    *)
(* namespace capability.                                                     *)
Shutdown(entry, handle) ==
    /\ Enters(entry)
    /\ current = client
    /\ has_namespace_capability(capabilities[current], handle)
    /\ mode' = "halted"
    /\ UNCHANGED <<current, gs, state, capabilityVars, ipcVars>>

(* The client's exit starts the fault task; the exit of any other task stops *)
(* the processor with interrupts masked.                                     *)
TaskExit(entry) ==
    /\ Enters(entry)
    /\ state' = [state EXCEPT ![current] = "DONE"]
    /\ IF current = client
       THEN run(faulter, GsAfter(entry)) /\ UNCHANGED mode
       ELSE mode' = "halted" /\ UNCHANGED <<current, gs>>
    /\ UNCHANGED <<capabilityVars, ipcVars>>

(* Seeded fault: the fault task is started again after its own fault.        *)
FaultyUserFault ==
    /\ mode = "user"
    /\ state' = [state EXCEPT ![current] = "DONE"]
    /\ run(faulter, gs)
    /\ UNCHANGED <<mode, capabilityVars, ipcVars>>

(* A processor exception in ring 3, quanta_task_user_fault.                  *)
UserFault ==
    /\ mode = "user"
    /\ state' = [state EXCEPT ![current] = "DONE"]
    /\ IF current = faulter
       THEN mode' = "halted" /\ UNCHANGED <<current, gs>>
       ELSE run(faulter, gs) /\ UNCHANGED mode
    /\ UNCHANGED <<capabilityVars, ipcVars>>

-----------------------------------------------------------------------------
(* Kernel code grants and revokes between the system calls of the tasks.     *)
quanta_task_grant(t, kind) ==
    /\ mode = "user"
    /\ CanGrant(capabilities[t])
    /\ capabilities' = [capabilities EXCEPT ![t] = Granted(@, kind)]
    /\ endpoint' = IF kind = "ENDPOINT"
                   THEN [endpoint EXCEPT ![t] = NewHandle(capabilities[t])]
                   ELSE endpoint
    /\ UNCHANGED <<mode, current, gs, state, ipcVars>>

(* Seeded fault: revoking the endpoint leaves the endpoint field behind.     *)
Faulty_quanta_task_revoke(t, handle) ==
    /\ mode = "user"
    /\ CanRevoke(capabilities[t], handle)
    /\ capabilities' = [capabilities EXCEPT ![t] = Revoked(@, handle)]
    /\ UNCHANGED <<mode, current, gs, state, endpoint, ipcVars>>

(* A revoke takes the first entry with the handle out of the table.          *)
quanta_task_revoke(t, handle) ==
    /\ mode = "user"
    /\ CanRevoke(capabilities[t], handle)
    /\ capabilities' = [capabilities EXCEPT ![t] = Revoked(@, handle)]
    /\ endpoint' = IF endpoint[t] = handle
                   THEN [endpoint EXCEPT ![t] = InvalidHandle]
                   ELSE endpoint
    /\ UNCHANGED <<mode, current, gs, state, ipcVars>>

Syscall(entry) ==
    \/ \E handle \in Handles, request \in Message : IpcCall(entry, handle, request)
    \/ \E handle \in Handles, length \in 0..MaxPayload : IpcReceive(entry, handle, length)
    \/ \E handle \in Handles, response \in Message : IpcReply(entry, handle, response)
    \/ \E handle \in Handles : Shutdown(entry, handle)
    \/ TaskExit(entry)

Next ==
    \/ \E entry \in Entries : Syscall(entry)
    \/ SyscallEntryFaults
    \/ UserFault
    \/ \E t \in {client, server}, kind \in Kinds : quanta_task_grant(t, kind)
    \/ \E t \in {client, server}, handle \in Handles : quanta_task_revoke(t, handle)

Spec == Init /\ [][Next]_vars

-----------------------------------------------------------------------------
(* The task that has the processor is runnable: one that exited, faulted or  *)
(* waits for a reply is never entered again (run, TASK_EXIT, user_fault).    *)
RunningIsRunnable == mode = "user" => state[current] = "RUNNABLE"

(* The channel holds a request exactly while the client waits for its reply, *)
(* whatever faults, exits or revocations come in between.                    *)
PendingIffClientWaits == ipc_request_pending <=> state[client] = "WAIT_REPLY"

(* A request reaches the server at most once, in the order of the calls, and *)
(* the flag of the channel says whether the pending one has.                 *)
DeliveredAtMostOnce ==
    /\ Len(delivered) <= 1
    /\ ipc_request_received <=> delivered # <<>>
    /\ delivered # <<>> => Last(delivered) = ipc_request

(* A waiting client is released only by a reply that carries the service and *)
(* the correlation id of the request the server was handed last.             *)
ReplyMatchesDelivery ==
    [][state[client] = "WAIT_REPLY" /\ state'[client] # "WAIT_REPLY" =>
          /\ delivered # <<>>
          /\ ipc_reply'.service = Last(delivered).service
          /\ ipc_reply'.correlation_id = Last(delivered).correlation_id]_vars

(* The endpoint field of a task never outlives the capability it names: it   *)
(* is invalid, or an endpoint capability of the table has that handle, or it *)
(* is still the value bootstrap put there.                                   *)
EndpointIsLive ==
    \A t \in Tasks :
        \/ endpoint[t] \in {InvalidHandle, BootEndpoint[t]}
        \/ \E right \in GrantedRights : has_endpoint_capability(capabilities[t], endpoint[t], right)

(* While the client waits for its reply the server's system calls reach their *)
(* handlers: the processor does not fault in the system call entry with a      *)
(* request pending.                                                            *)
PendingRequestIsServed == ~(mode = "kernel_fault" /\ ipc_request_pending)

=============================================================================
