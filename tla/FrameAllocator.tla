---------------------------- MODULE FrameAllocator ----------------------------
(***************************************************************************)
(* The physical frame allocator, kernel/mm/memory.c.  A frame is a page    *)
(* number: the pool starts at page 1 and Nil stands for address zero.  The *)
(* free list is intrusive: the link to the next free frame is the first    *)
(* word of the frame itself, the very word an owner may overwrite while it *)
(* holds the frame.  A call is one step: the kernel runs on one processor  *)
(* and no interrupt handler allocates.                                     *)
(*                                                                         *)
(* Clients are the callers.  A client writes only frames it holds and may  *)
(* call release with any address but a frame that somebody else holds:     *)
(* twice with the same one, misaligned, outside the pool, never allocated. *)
(***************************************************************************)
EXTENDS Integers

CONSTANTS Clients,     \* the kernel subsystems that own frames
          MaxFrames,   \* upper bound on the number of frames of the pool
          Words        \* the values the first word of a frame can hold

Nil == 0
Frames == 1..MaxFrames
Failed == -1

ASSUME MaxFramesAssumption == MaxFrames \in Nat \ {0}
ASSUME WordsAssumption == 0..MaxFrames \subseteq Words

VARIABLES pool_start,        \* first page of the pool, Nil before initialize
          pool_end,          \* first page past the pool
          next_frame,        \* first page never handed out
          free_frame_head,   \* first frame of the free list, or Nil
          allocated_frames,  \* the bitmap: pages whose bit is set
          word,              \* word[f]: the first word of frame f
          held,              \* held[c]: frames client c believes it owns
          result             \* result[c]: what c's last request returned

allocatorVars == <<pool_start, pool_end, next_frame, free_frame_head,
                   allocated_frames>>
vars == <<allocatorVars, word, held, result>>

TypeOK ==
    /\ pool_start \in {Nil, 1}
    /\ pool_end \in 0..MaxFrames + 1
    /\ next_frame \in 0..MaxFrames + 1
    /\ free_frame_head \in 0..MaxFrames
    /\ allocated_frames \subseteq Frames
    /\ word \in [Frames -> Words]
    /\ held \in [Clients -> SUBSET Frames]
    /\ result \in [Clients -> Frames \union {Nil, Failed}]

Init ==
    /\ pool_start = Nil
    /\ pool_end = 0
    /\ next_frame = 0
    /\ free_frame_head = Nil
    /\ allocated_frames = {}
    /\ word \in [Frames -> Words]
    /\ held = [c \in Clients |-> {}]
    /\ result = [c \in Clients |-> Nil]

-----------------------------------------------------------------------------
(* quanta_memory_initialize, called once by kernel_main: the largest usable *)
(* region, clipped and aligned, becomes the pool; without one it halts.     *)
Initialize ==
    /\ pool_start = Nil
    /\ \E last \in Frames : pool_end' = last + 1
    /\ pool_start' = 1
    /\ next_frame' = 1
    /\ free_frame_head' = Nil
    /\ allocated_frames' = {}
    /\ UNCHANGED <<word, held, result>>

(* Seeded fault: the page is not cleared before it is handed out.           *)
FaultyHandOut(c, allocated) ==
    /\ allocated_frames' = allocated_frames \union {allocated}
    /\ held' = [held EXCEPT ![c] = @ \union {allocated}]
    /\ result' = [result EXCEPT ![c] = allocated]
    /\ UNCHANGED word

(* The tail of quanta_frame_allocate: mark the bit, clear the page and give *)
(* the frame to its caller.                                                 *)
HandOut(c, allocated) ==
    /\ allocated_frames' = allocated_frames \union {allocated}
    /\ word' = [word EXCEPT ![allocated] = Nil]
    /\ held' = [held EXCEPT ![c] = @ \union {allocated}]
    /\ result' = [result EXCEPT ![c] = allocated]

(* quanta_frame_allocate: the link in the frame's own memory is the new head. *)
AllocateFromFreeList(c) ==
    /\ pool_start # Nil
    /\ free_frame_head # Nil
    /\ free_frame_head' = word[free_frame_head]
    /\ HandOut(c, free_frame_head)
    /\ UNCHANGED <<pool_start, pool_end, next_frame>>

(* Seeded fault: the bump pointer runs past the end of the pool.             *)
FaultyAllocateFresh(c) ==
    /\ pool_start # Nil
    /\ free_frame_head = Nil
    /\ next_frame <= pool_end
    /\ next_frame' = next_frame + 1
    /\ HandOut(c, next_frame)
    /\ UNCHANGED <<pool_start, pool_end, free_frame_head>>

(* quanta_frame_allocate with an empty free list: the next untouched frame.  *)
AllocateFresh(c) ==
    /\ pool_start # Nil
    /\ free_frame_head = Nil
    /\ next_frame < pool_end
    /\ next_frame' = next_frame + 1
    /\ HandOut(c, next_frame)
    /\ UNCHANGED <<pool_start, pool_end, free_frame_head>>

(* quanta_frame_allocate returning -1.                                       *)
AllocateFails(c) ==
    /\ \/ pool_start = Nil
       \/ free_frame_head = Nil /\ next_frame >= pool_end
    /\ result' = [result EXCEPT ![c] = Failed]
    /\ UNCHANGED <<allocatorVars, word, held>>

(* Seeded fault: the bitmap is not consulted.                               *)
Faulty_frame_is_allocated(page, aligned) ==
    /\ page >= pool_start
    /\ page < next_frame
    /\ aligned

(* frame_is_allocated: inside the part of the pool handed out so far, page  *)
(* aligned, and its bit set.                                                *)
frame_is_allocated(page, aligned) ==
    /\ page >= pool_start
    /\ page < next_frame
    /\ aligned
    /\ page \in allocated_frames

(* Seeded fault: the old head is not linked behind the released frame.      *)
FaultyReleaseFrame(c, page, aligned) ==
    /\ \A d \in Clients \ {c} : page \notin held[d]
    /\ frame_is_allocated(page, aligned)
    /\ allocated_frames' = allocated_frames \ {page}
    /\ free_frame_head' = page
    /\ held' = [held EXCEPT ![c] = @ \ {page}]
    /\ UNCHANGED <<pool_start, pool_end, next_frame, word, result>>

(* quanta_frame_release: an address that is not an allocated frame is       *)
(* ignored; otherwise clear the bit and push the frame on the free list.    *)
ReleaseFrame(c, page, aligned) ==
    /\ \A d \in Clients \ {c} : page \notin held[d]
    /\ frame_is_allocated(page, aligned)
    /\ allocated_frames' = allocated_frames \ {page}
    /\ word' = [word EXCEPT ![page] = free_frame_head]
    /\ free_frame_head' = page
    /\ held' = [held EXCEPT ![c] = @ \ {page}]
    /\ UNCHANGED <<pool_start, pool_end, next_frame, result>>

(* The owner of a frame stores through its own mapping of it.               *)
WriteFrame(c, frame, value) ==
    /\ frame \in held[c]
    /\ word' = [word EXCEPT ![frame] = value]
    /\ UNCHANGED <<allocatorVars, held, result>>

Next ==
    \/ Initialize
    \/ \E c \in Clients :
          \/ AllocateFromFreeList(c)
          \/ AllocateFresh(c)
          \/ AllocateFails(c)
          \/ \E page \in 0..MaxFrames + 1, aligned \in BOOLEAN :
                ReleaseFrame(c, page, aligned)
          \/ \E frame \in Frames, value \in Words : WriteFrame(c, frame, value)

Spec == Init /\ [][Next]_vars

-----------------------------------------------------------------------------
AllHeld == UNION {held[c] : c \in Clients}
Issued == {f \in Frames : f < next_frame}

(* A frame is never handed to two owners: two clients hold disjoint sets,   *)
(* however often either releases the same frame, and the bitmap is exactly  *)
(* what the clients hold (quanta_frame_allocate, quanta_frame_release).     *)
ExclusiveOwnership ==
    /\ \A c, d \in Clients : c # d => held[c] \intersect held[d] = {}
    /\ allocated_frames = AllHeld

(* The free list as a stack s of n frames: s[n] is the head, every frame    *)
(* links to the one below it, the bottom one to Nil, and none is repeated.  *)
IsFreeList(n, s) ==
    /\ free_frame_head = IF n = 0 THEN Nil ELSE s[n]
    /\ \A i \in 1..n : word[s[i]] = IF i = 1 THEN Nil ELSE s[i - 1]
    /\ \A i, j \in 1..n : s[i] = s[j] => i = j

(* The links stored inside free frames form a list with no cycle and no     *)
(* repetition that holds every issued frame nobody holds and no held one:   *)
(* nothing an owner wrote into a frame survives as a link, and no frame is  *)
(* lost (free_frame_head against the words of the free frames).             *)
FreeListWellFormed ==
    \E n \in 0..MaxFrames : \E s \in [1..n -> Frames] :
        /\ IsFreeList(n, s)
        /\ {s[i] : i \in 1..n} = Issued \ allocated_frames

(* The pool's promise to its callers, FramePool, with the free list hidden: *)
(* the first word of a frame is visible only while the frame is held.       *)
Pool == INSTANCE FramePool WITH
    pool <- {f \in Frames : f < pool_end},
    held <- held,
    content <- [f \in Frames |-> IF f \in AllHeld THEN word[f] ELSE Nil],
    result <- result

(* The allocator implements FramePool: exclusive holders, cleared frames,   *)
(* no write to a held frame but its holder's, refusal only on exhaustion.   *)
ImplementsFramePool == Pool!Spec

=============================================================================
