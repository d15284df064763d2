------------------------------ MODULE FramePool ------------------------------
(***************************************************************************)
(* What the physical frame allocator of kernel/mm promises its callers,    *)
(* with no free list, bitmap or bump pointer in sight: a frame has at most *)
(* one holder, a frame just handed out is clear, a held frame changes only *)
(* when its holder writes it, and a request fails only when every frame of *)
(* the pool is held.                                                       *)
(***************************************************************************)
EXTENDS Integers

CONSTANTS Clients,     \* the kernel subsystems that own frames
          MaxFrames,   \* upper bound on the number of frames of the pool
          Words        \* the values the first word of a frame can hold

Nil == 0
Frames == 1..MaxFrames
Failed == -1

VARIABLES pool,      \* the frames the boot memory map gave the allocator
          held,      \* held[c]: the frames client c holds
          content,   \* content[f]: first word of f while held, Nil otherwise
          result     \* result[c]: what c's last request returned

poolVars == <<pool, held, content, result>>

AllHeld == UNION {held[c] : c \in Clients}

Init ==
    /\ pool = {}
    /\ held = [c \in Clients |-> {}]
    /\ content = [f \in Frames |-> Nil]
    /\ result = [c \in Clients |-> Nil]

Open ==
    /\ pool = {}
    /\ pool' \in (SUBSET Frames) \ {{}}
    /\ UNCHANGED <<held, content, result>>

Take(c) ==
    \E f \in pool \ AllHeld :
        /\ held' = [held EXCEPT ![c] = @ \union {f}]
        /\ content' = [content EXCEPT ![f] = Nil]
        /\ result' = [result EXCEPT ![c] = f]
        /\ UNCHANGED pool

Refuse(c) ==
    /\ pool \subseteq AllHeld
    /\ result' = [result EXCEPT ![c] = Failed]
    /\ UNCHANGED <<pool, held, content>>

Give(c) ==
    \E f \in held[c] :
        /\ held' = [held EXCEPT ![c] = @ \ {f}]
        /\ content' = [content EXCEPT ![f] = Nil]
        /\ UNCHANGED <<pool, result>>

Store(c) ==
    \E f \in held[c], w \in Words :
        /\ content' = [content EXCEPT ![f] = w]
        /\ UNCHANGED <<pool, held, result>>

Next ==
    \/ Open
    \/ \E c \in Clients : Take(c) \/ Refuse(c) \/ Give(c) \/ Store(c)

Spec == Init /\ [][Next]_poolVars

=============================================================================
