------------------------- MODULE FrameAllocatorProofs -------------------------
(***************************************************************************)
(* Proofs about the frame allocator for every number of frames, every set  *)
(* of clients and every set of words.                                      *)
(*                                                                         *)
(* TypeOK is not inductive: AllocateFromFreeList loads the head of the     *)
(* list from the memory of the frame it hands out, and only the shape of   *)
(* the whole list says that this word is a frame or Nil.  The list is the  *)
(* stack s of FreeListWellFormed: a release pushes onto it, an allocation  *)
(* pops it, and a store by an owner misses it because the stack holds only *)
(* frames nobody holds.                                                    *)
(***************************************************************************)
EXTENDS FrameAllocator, FiniteSetTheorems, TLAPS

USE DEF Nil, Frames, Failed

PoolBounds ==
    /\ pool_start = Nil => pool_end = 0 /\ next_frame = 0
    /\ pool_start # Nil => 1 <= next_frame /\ next_frame <= pool_end /\ 2 <= pool_end
    /\ allocated_frames \subseteq Issued

IInv ==
    /\ TypeOK
    /\ PoolBounds
    /\ ExclusiveOwnership
    /\ FreeListWellFormed

(* An injection of 1..n into the frames shows n to be at most MaxFrames.     *)
LEMMA PigeonHole ==
    ASSUME NEW n \in Nat, NEW t \in [1..n -> Frames],
           \A i, j \in 1..n : t[i] = t[j] => i = j
    PROVE  n \in 0..MaxFrames
<1>1. IsFiniteSet(Frames) /\ Cardinality(Frames) = MaxFrames
    BY MaxFramesAssumption, FS_Interval
<1>2. IsFiniteSet(1..n) /\ Cardinality(1..n) = n
    BY FS_Interval
<1>3. t \in Injection(1..n, Frames)
    BY DEF Injection, IsInjective
<1>4. Cardinality(1..n) <= Cardinality(Frames)
    BY <1>1, <1>2, <1>3, FS_Injection
<1> QED BY <1>1, <1>2, <1>4, MaxFramesAssumption

LEMMA InitIInv == Init => IInv
<1> SUFFICES ASSUME Init PROVE IInv
    OBVIOUS
<1> USE MaxFramesAssumption
<1>1. TypeOK
    BY WordsAssumption DEF Init, TypeOK
<1>2. PoolBounds
    BY DEF Init, PoolBounds, Issued
<1>3. ExclusiveOwnership
    BY DEF Init, ExclusiveOwnership, AllHeld
<1>4. FreeListWellFormed
    <2> DEFINE s == [i \in 1..0 |-> 1]
    <2>1. s \in [1..0 -> Frames]
        OBVIOUS
    <2>2. IsFreeList(0, s)
        BY DEF Init, IsFreeList
    <2>3. {s[i] : i \in 1..0} = Issued \ allocated_frames
        BY DEF Init, Issued
    <2> HIDE DEF s
    <2>4. 0 \in 0..MaxFrames
        OBVIOUS
    <2> QED BY <2>1, <2>2, <2>3, <2>4, Zenon DEF FreeListWellFormed
<1> QED BY <1>1, <1>2, <1>3, <1>4 DEF IInv

(* Handing out a frame nobody holds keeps the owners apart.                  *)
LEMMA HandOutOwnership ==
    ASSUME IInv, NEW c \in Clients, NEW frame \in Frames,
           frame \notin allocated_frames, HandOut(c, frame)
    PROVE  ExclusiveOwnership'
<1>1. \A d \in Clients : held'[d] = IF d = c THEN held[c] \union {frame} ELSE held[d]
    BY DEF IInv, TypeOK, HandOut
<1>2. \A d \in Clients : frame \notin held[d]
    BY DEF IInv, ExclusiveOwnership, AllHeld
<1>3. AllHeld' = AllHeld \union {frame}
    BY <1>1 DEF AllHeld
<1>4. allocated_frames' = AllHeld'
    BY <1>3 DEF IInv, ExclusiveOwnership, HandOut
<1>5. \A d, e \in Clients : d # e => held'[d] \intersect held'[e] = {}
    BY <1>1, <1>2 DEF IInv, ExclusiveOwnership
<1> QED BY <1>4, <1>5 DEF ExclusiveOwnership

LEMMA FreeListIInv ==
    ASSUME IInv, NEW c \in Clients, AllocateFromFreeList(c)
    PROVE  IInv'
<1> USE MaxFramesAssumption
<1> DEFINE h == free_frame_head
<1>1. PICK n \in 0..MaxFrames : \E s \in [1..n -> Frames] :
          IsFreeList(n, s) /\ {s[i] : i \in 1..n} = Issued \ allocated_frames
    BY DEF IInv, FreeListWellFormed
<1>2. PICK s \in [1..n -> Frames] :
          IsFreeList(n, s) /\ {s[i] : i \in 1..n} = Issued \ allocated_frames
    BY <1>1
<1>3. n # 0 /\ h = s[n] /\ h \in Frames
    BY <1>2 DEF AllocateFromFreeList, IsFreeList
<1>4. h \in Issued /\ h \notin allocated_frames
    BY <1>2, <1>3
<1>5. word[h] = IF n = 1 THEN Nil ELSE s[n - 1]
    BY <1>2, <1>3 DEF IsFreeList
<1>6. word[h] \in 0..MaxFrames
    <2>1. CASE n = 1 BY <2>1, <1>5
    <2>2. CASE n # 1
        <3>1. n - 1 \in 1..n BY <2>2, <1>3
        <3> QED BY <3>1, <2>2, <1>5
    <2> QED BY <2>1, <2>2
<1>7. TypeOK'
    <2>1. free_frame_head' \in 0..MaxFrames
        BY <1>6 DEF AllocateFromFreeList
    <2>2. word' \in [Frames -> Words]
        BY <1>3, WordsAssumption DEF AllocateFromFreeList, HandOut, IInv, TypeOK
    <2>3. held' \in [Clients -> SUBSET Frames] /\ result' \in [Clients -> Frames \union {Nil, Failed}]
        BY <1>3 DEF AllocateFromFreeList, HandOut, IInv, TypeOK
    <2>4. allocated_frames' \subseteq Frames
        BY <1>3 DEF AllocateFromFreeList, HandOut, IInv, TypeOK
    <2> QED BY <2>1, <2>2, <2>3, <2>4 DEF AllocateFromFreeList, IInv, TypeOK
<1>8. PoolBounds'
    BY <1>4 DEF AllocateFromFreeList, HandOut, IInv, PoolBounds, Issued
<1>9. ExclusiveOwnership'
    BY <1>3, <1>4, HandOutOwnership DEF AllocateFromFreeList
<1>10. FreeListWellFormed'
    <2> DEFINE t == [i \in 1..n - 1 |-> s[i]]
    <2>1. n - 1 \in 0..MaxFrames /\ t \in [1..n - 1 -> Frames]
        BY <1>3
    <2>2. \A i \in 1..n - 1 : s[i] # h /\ word'[s[i]] = word[s[i]]
        BY <1>2, <1>3 DEF IsFreeList, AllocateFromFreeList, HandOut, IInv, TypeOK
    <2>3. IsFreeList(n - 1, t)'
        <3>1. free_frame_head' = IF n - 1 = 0 THEN Nil ELSE t[n - 1]
            BY <1>3, <1>5 DEF AllocateFromFreeList
        <3>2. \A i \in 1..n - 1 : word'[t[i]] = IF i = 1 THEN Nil ELSE t[i - 1]
            <4> TAKE i \in 1..n - 1
            <4>1. i \in 1..n /\ t[i] = s[i]
                BY <1>3
            <4>2. word[s[i]] = IF i = 1 THEN Nil ELSE s[i - 1]
                BY <1>2, <4>1 DEF IsFreeList
            <4>3. i # 1 => t[i - 1] = s[i - 1]
                BY <1>3
            <4> QED BY <4>1, <4>2, <4>3, <2>2
        <3>3. \A i, j \in 1..n - 1 : t[i] = t[j] => i = j
            BY <1>2 DEF IsFreeList
        <3> QED BY <3>1, <3>2, <3>3 DEF IsFreeList
    <2>4. {t[i] : i \in 1..n - 1} = {s[i] : i \in 1..n} \ {h}
        <3>1. \A i \in 1..n - 1 : t[i] = s[i] /\ i \in 1..n
            BY <1>3
        <3>2. \A i \in 1..n : s[i] # h => i \in 1..n - 1
            BY <1>3
        <3> QED BY <3>1, <3>2, <2>2
    <2>5. (Issued \ allocated_frames)' = (Issued \ allocated_frames) \ {h}
        BY DEF AllocateFromFreeList, HandOut, Issued
    <2>6. {t[i] : i \in 1..n - 1} = (Issued \ allocated_frames)'
        BY <2>4, <2>5, <1>2
    <2> HIDE DEF t
    <2> QED BY <2>1, <2>3, <2>6, Zenon DEF FreeListWellFormed
<1> QED BY <1>7, <1>8, <1>9, <1>10 DEF IInv

(* A step that leaves the list, its words and the issued frames alone keeps  *)
(* the list well formed.                                                     *)
LEMMA FreeListUntouched ==
    ASSUME FreeListWellFormed,
           free_frame_head' = free_frame_head,
           (Issued \ allocated_frames)' = Issued \ allocated_frames,
           \A f \in Issued \ allocated_frames : word'[f] = word[f]
    PROVE  FreeListWellFormed'
<1>1. PICK n \in 0..MaxFrames : \E s \in [1..n -> Frames] :
          IsFreeList(n, s) /\ {s[i] : i \in 1..n} = Issued \ allocated_frames
    BY DEF FreeListWellFormed
<1>2. PICK s \in [1..n -> Frames] :
          IsFreeList(n, s) /\ {s[i] : i \in 1..n} = Issued \ allocated_frames
    BY <1>1
<1>3. \A i \in 1..n : word'[s[i]] = word[s[i]]
    BY <1>2
<1>4. IsFreeList(n, s)'
    BY <1>2, <1>3 DEF IsFreeList
<1> QED BY <1>2, <1>4, Zenon DEF FreeListWellFormed

LEMMA FreshIInv ==
    ASSUME IInv, NEW c \in Clients, AllocateFresh(c)
    PROVE  IInv'
<1> USE MaxFramesAssumption
<1> DEFINE f == next_frame
<1>1. f \in Frames /\ f \notin Issued /\ f \notin allocated_frames
    BY DEF AllocateFresh, IInv, TypeOK, PoolBounds, Issued
<1>2. TypeOK'
    <2>1. word' \in [Frames -> Words]
        BY WordsAssumption DEF AllocateFresh, HandOut, IInv, TypeOK
    <2>2. held' \in [Clients -> SUBSET Frames] /\ result' \in [Clients -> Frames \union {Nil, Failed}]
        BY <1>1 DEF AllocateFresh, HandOut, IInv, TypeOK
    <2>3. allocated_frames' \subseteq Frames /\ next_frame' \in 0..MaxFrames + 1
        BY <1>1 DEF AllocateFresh, HandOut, IInv, TypeOK
    <2> QED BY <2>1, <2>2, <2>3 DEF AllocateFresh, IInv, TypeOK
<1>3. Issued' = Issued \union {f}
    BY <1>1 DEF AllocateFresh, IInv, TypeOK, Issued
<1>4. PoolBounds'
    BY <1>1, <1>3 DEF AllocateFresh, HandOut, IInv, TypeOK, PoolBounds
<1>5. ExclusiveOwnership'
    BY <1>1, HandOutOwnership DEF AllocateFresh
<1>6. FreeListWellFormed'
    <2>1. (Issued \ allocated_frames)' = Issued \ allocated_frames
        BY <1>1, <1>3 DEF AllocateFresh, HandOut
    <2>2. \A g \in Issued \ allocated_frames : word'[g] = word[g]
        BY <1>1 DEF AllocateFresh, HandOut, IInv, TypeOK, Issued
    <2>3. free_frame_head' = free_frame_head
        BY DEF AllocateFresh
    <2> QED BY <2>1, <2>2, <2>3, FreeListUntouched DEF IInv
<1> QED BY <1>2, <1>4, <1>5, <1>6 DEF IInv

LEMMA ReleaseIInv ==
    ASSUME IInv, NEW c \in Clients, NEW page \in 0..MaxFrames + 1,
           NEW aligned \in BOOLEAN, ReleaseFrame(c, page, aligned)
    PROVE  IInv'
<1> USE MaxFramesAssumption
<1>1. page \in allocated_frames /\ page \in Frames /\ page \in Issued
    BY DEF ReleaseFrame, frame_is_allocated, IInv, TypeOK, PoolBounds
<1>2. TypeOK'
    <2>1. word' \in [Frames -> Words] /\ free_frame_head' \in 0..MaxFrames
        BY <1>1, WordsAssumption DEF ReleaseFrame, IInv, TypeOK
    <2>2. held' \in [Clients -> SUBSET Frames] /\ allocated_frames' \subseteq Frames
        BY DEF ReleaseFrame, IInv, TypeOK
    <2> QED BY <2>1, <2>2 DEF ReleaseFrame, IInv, TypeOK
<1>3. PoolBounds'
    BY DEF ReleaseFrame, IInv, TypeOK, PoolBounds, Issued
<1>4. ExclusiveOwnership'
    <2>1. \A d \in Clients : held'[d] = IF d = c THEN held[c] \ {page} ELSE held[d]
        BY DEF IInv, TypeOK, ReleaseFrame
    <2>2. \A d \in Clients : d # c => page \notin held[d]
        BY DEF ReleaseFrame
    <2>3. AllHeld' = AllHeld \ {page}
        BY <2>1, <2>2 DEF AllHeld
    <2>4. allocated_frames' = AllHeld'
        BY <2>3 DEF ReleaseFrame, IInv, ExclusiveOwnership
    <2>5. \A d, e \in Clients : d # e => held'[d] \intersect held'[e] = {}
        BY <2>1 DEF IInv, ExclusiveOwnership
    <2> QED BY <2>4, <2>5 DEF ExclusiveOwnership
<1>5. FreeListWellFormed'
    <2>1. PICK n \in 0..MaxFrames : \E s \in [1..n -> Frames] :
              IsFreeList(n, s) /\ {s[i] : i \in 1..n} = Issued \ allocated_frames
        BY DEF IInv, FreeListWellFormed
    <2>2. PICK s \in [1..n -> Frames] :
              IsFreeList(n, s) /\ {s[i] : i \in 1..n} = Issued \ allocated_frames
        BY <2>1
    <2> DEFINE t == [i \in 1..n + 1 |-> IF i = n + 1 THEN page ELSE s[i]]
    <2>3. \A i \in 1..n : s[i] # page /\ t[i] = s[i] /\ s[i] \in Frames
        BY <1>1, <2>2
    <2>4. t \in [1..n + 1 -> Frames] /\ t[n + 1] = page
        BY <1>1
    <2>10. \A i, j \in 1..n + 1 : t[i] = t[j] => i = j
        <3>1. \A i \in 1..n + 1 : i # n + 1 => i \in 1..n
            OBVIOUS
        <3>2. \A i, j \in 1..n : s[i] = s[j] => i = j
            BY <2>2 DEF IsFreeList
        <3> HIDE DEF t
        <3> TAKE i, j \in 1..n + 1
        <3>3. CASE i = n + 1 \/ j = n + 1
            BY <3>1, <3>3, <2>3, <2>4
        <3>4. CASE i # n + 1 /\ j # n + 1
            BY <3>1, <3>2, <3>4, <2>3
        <3> QED BY <3>3, <3>4
    <2>5. n + 1 \in 0..MaxFrames
        <3>1. n + 1 \in Nat
            OBVIOUS
        <3> HIDE DEF t
        <3> QED BY <3>1, <2>10, <2>4, PigeonHole
    <2>6. IsFreeList(n + 1, t)'
        <3>1. free_frame_head' = t[n + 1]
            BY <2>4 DEF ReleaseFrame
        <3>2. \A i \in 1..n + 1 : word'[t[i]] = IF i = 1 THEN Nil ELSE t[i - 1]
            <4> TAKE i \in 1..n + 1
            <4>1. CASE i = n + 1
                <5>1. word'[page] = free_frame_head
                    BY <1>1 DEF ReleaseFrame, IInv, TypeOK
                <5>2. n # 0 => t[n] = s[n]
                    BY <2>3
                <5> QED BY <4>1, <5>1, <5>2, <2>2, <2>4 DEF IsFreeList
            <4>2. CASE i # n + 1
                <5>1. i \in 1..n
                    BY <4>2
                <5>2. word'[s[i]] = word[s[i]]
                    BY <5>1, <2>3 DEF ReleaseFrame, IInv, TypeOK
                <5>3. i # 1 => t[i - 1] = s[i - 1]
                    BY <5>1
                <5> QED BY <5>1, <5>2, <5>3, <2>2, <2>3 DEF IsFreeList
            <4> QED BY <4>1, <4>2
        <3>3. \A i, j \in 1..n + 1 : t[i] = t[j] => i = j
            BY <2>10
        <3>4. n + 1 # 0
            OBVIOUS
        <3> HIDE DEF t
        <3> QED BY <3>1, <3>2, <3>3, <3>4 DEF IsFreeList
    <2>7. {t[i] : i \in 1..n + 1} = {s[i] : i \in 1..n} \union {page}
        <3>1. \A i \in 1..n + 1 : i = n + 1 \/ i \in 1..n
            OBVIOUS
        <3>2. \A i \in 1..n : i \in 1..n + 1
            OBVIOUS
        <3>3. n + 1 \in 1..n + 1
            OBVIOUS
        <3> HIDE DEF t
        <3> QED BY <3>1, <3>2, <3>3, <2>3, <2>4
    <2>8. (Issued \ allocated_frames)' = (Issued \ allocated_frames) \union {page}
        BY <1>1 DEF ReleaseFrame, Issued
    <2>9. {t[i] : i \in 1..n + 1} = (Issued \ allocated_frames)'
        BY <2>7, <2>8, <2>2
    <2> HIDE DEF t
    <2> QED BY <2>4, <2>5, <2>6, <2>9, Zenon DEF FreeListWellFormed
<1> QED BY <1>2, <1>3, <1>4, <1>5 DEF IInv

LEMMA StepIInv == IInv /\ [Next]_vars => IInv'
<1> SUFFICES ASSUME IInv, [Next]_vars PROVE IInv'
    OBVIOUS
<1>1. CASE Initialize
    <2> USE MaxFramesAssumption
    <2>1. allocated_frames = {} /\ Issued = {} /\ Issued' = {}
        BY <1>1 DEF Initialize, IInv, PoolBounds, TypeOK, Issued
    <2>2. TypeOK' /\ PoolBounds'
        BY <1>1, <2>1 DEF Initialize, IInv, TypeOK, PoolBounds
    <2>3. ExclusiveOwnership'
        BY <1>1, <2>1 DEF Initialize, IInv, ExclusiveOwnership, AllHeld
    <2>4. FreeListWellFormed'
        <3>1. (Issued \ allocated_frames)' = Issued \ allocated_frames
            BY <1>1, <2>1 DEF Initialize
        <3>2. free_frame_head = Nil
            <4>1. PICK n \in 0..MaxFrames : \E s \in [1..n -> Frames] :
                      IsFreeList(n, s) /\ {s[i] : i \in 1..n} = {}
                BY <2>1 DEF IInv, FreeListWellFormed
            <4>2. PICK s \in [1..n -> Frames] : IsFreeList(n, s) /\ {s[i] : i \in 1..n} = {}
                BY <4>1
            <4>3. n # 0 => 1 \in 1..n
                OBVIOUS
            <4>4. n = 0
                BY <4>2, <4>3
            <4> QED BY <4>2, <4>4 DEF IsFreeList
        <3>3. free_frame_head' = free_frame_head /\ word' = word
            BY <1>1, <3>2 DEF Initialize
        <3> QED BY <3>1, <3>3, FreeListUntouched DEF IInv
    <2> QED BY <2>2, <2>3, <2>4 DEF IInv
<1>2. ASSUME NEW c \in Clients, AllocateFromFreeList(c) PROVE IInv'
    BY <1>2, FreeListIInv
<1>3. ASSUME NEW c \in Clients, AllocateFresh(c) PROVE IInv'
    BY <1>3, FreshIInv
<1>4. ASSUME NEW c \in Clients, AllocateFails(c) PROVE IInv'
    <2>1. TypeOK' /\ PoolBounds' /\ ExclusiveOwnership'
        BY <1>4 DEF AllocateFails, IInv, TypeOK, PoolBounds, Issued, ExclusiveOwnership, AllHeld,
                    allocatorVars
    <2>2. FreeListWellFormed'
        BY <1>4, FreeListUntouched DEF AllocateFails, IInv, Issued, allocatorVars
    <2> QED BY <2>1, <2>2 DEF IInv
<1>5. ASSUME NEW c \in Clients, NEW page \in 0..MaxFrames + 1, NEW aligned \in BOOLEAN,
             ReleaseFrame(c, page, aligned)
      PROVE  IInv'
    BY <1>5, ReleaseIInv
<1>6. ASSUME NEW c \in Clients, NEW frame \in Frames, NEW value \in Words,
             WriteFrame(c, frame, value)
      PROVE  IInv'
    <2>1. TypeOK' /\ PoolBounds' /\ ExclusiveOwnership'
        BY <1>6 DEF WriteFrame, IInv, TypeOK, PoolBounds, Issued, ExclusiveOwnership, AllHeld,
                    allocatorVars
    <2>2. frame \in allocated_frames
        BY <1>6 DEF WriteFrame, IInv, ExclusiveOwnership, AllHeld
    <2>3. FreeListWellFormed'
        BY <1>6, <2>2, FreeListUntouched DEF WriteFrame, IInv, TypeOK, Issued, allocatorVars
    <2> QED BY <2>1, <2>3 DEF IInv
<1>7. CASE UNCHANGED vars
    <2>1. TypeOK' /\ PoolBounds' /\ ExclusiveOwnership'
        BY <1>7 DEF vars, IInv, TypeOK, PoolBounds, Issued, ExclusiveOwnership, AllHeld, allocatorVars
    <2>2. FreeListWellFormed'
        BY <1>7, FreeListUntouched DEF vars, IInv, Issued, allocatorVars
    <2> QED BY <2>1, <2>2 DEF IInv
<1> QED BY <1>1, <1>2, <1>3, <1>4, <1>5, <1>6, <1>7 DEF Next

(* The inductive invariant holds in every reachable state.                   *)
THEOREM Inductive == Spec => []IInv
<1>1. Init => IInv
    BY InitIInv
<1>2. IInv /\ [Next]_vars => IInv'
    BY StepIInv
<1> QED BY <1>1, <1>2, PTL DEF Spec

(* Every variable of the allocator keeps its type; in particular the head    *)
(* loaded from a frame's memory is always a frame of the pool or Nil.        *)
THEOREM TypeCorrect == Spec => []TypeOK
<1>1. IInv => TypeOK
    BY DEF IInv
<1> QED BY <1>1, Inductive, PTL

(* No frame has two owners, and the bitmap is exactly the owned frames.      *)
THEOREM Exclusive == Spec => []ExclusiveOwnership
<1>1. IInv => ExclusiveOwnership
    BY DEF IInv
<1> QED BY <1>1, Inductive, PTL

(* The intrusive free list always holds exactly the issued, unowned frames,  *)
(* each once.                                                                *)
THEOREM ListSound == Spec => []FreeListWellFormed
<1>1. IInv => FreeListWellFormed
    BY DEF IInv
<1> QED BY <1>1, Inductive, PTL

-----------------------------------------------------------------------------
(* Refinement of FramePool.                                                  *)

PoolFrames == {f \in Frames : f < pool_end}
Visible == [f \in Frames |-> IF f \in AllHeld THEN word[f] ELSE Nil]

LEMMA InitRefines == Init => Pool!Init
<1> SUFFICES ASSUME Init PROVE Pool!Init
    OBVIOUS
<1>1. AllHeld = {}
    BY DEF Init, AllHeld
<1> QED BY <1>1 DEF Init, Pool!Init, Pool!Frames, Pool!Nil

(* The frame a client is handed was free, was in the pool, and is clear.     *)
LEMMA HandOutRefines ==
    ASSUME IInv, NEW c \in Clients, NEW frame \in Frames, frame < pool_end,
           frame \notin allocated_frames, HandOut(c, frame), pool_end' = pool_end
    PROVE  Pool!Take(c)
<1>1. \A d \in Clients : held'[d] = IF d = c THEN held[c] \union {frame} ELSE held[d]
    BY DEF IInv, TypeOK, HandOut
<1>2. AllHeld' = AllHeld \union {frame} /\ frame \notin AllHeld
    BY <1>1 DEF AllHeld, IInv, ExclusiveOwnership
<1>3. Visible' = [Visible EXCEPT ![frame] = Nil]
    BY <1>2 DEF Visible, HandOut, IInv, TypeOK
<1>4. Pool!AllHeld = AllHeld
    BY DEF Pool!AllHeld, AllHeld
<1>5. frame \in PoolFrames \ AllHeld
    BY <1>2 DEF PoolFrames
<1>6. UNCHANGED PoolFrames
    BY DEF PoolFrames
<1> QED BY <1>3, <1>4, <1>5, <1>6 DEF Pool!Take, HandOut, PoolFrames, Visible, Pool!Nil

LEMMA StepRefines == IInv /\ [Next]_vars => [Pool!Next]_(Pool!poolVars)
<1> SUFFICES ASSUME IInv, [Next]_vars PROVE [Pool!Next]_(Pool!poolVars)
    OBVIOUS
<1> USE MaxFramesAssumption
<1>0. Pool!AllHeld = AllHeld
    BY DEF Pool!AllHeld, AllHeld
<1>1. CASE Initialize
    <2>1. PoolFrames = {} /\ PoolFrames' # {} /\ PoolFrames' \subseteq Frames
        BY <1>1 DEF Initialize, PoolFrames, IInv, PoolBounds
    <2>2. Visible' = Visible
        BY <1>1 DEF Initialize, Visible, AllHeld
    <2>3. Pool!Open
        BY <1>1, <2>1, <2>2 DEF Initialize, Pool!Open, PoolFrames, Visible, Pool!Frames
    <2> QED BY <2>3 DEF Pool!Next
<1>2. ASSUME NEW c \in Clients, AllocateFromFreeList(c) PROVE Pool!Next
    <2>1. PICK n \in 0..MaxFrames : \E s \in [1..n -> Frames] :
              IsFreeList(n, s) /\ {s[i] : i \in 1..n} = Issued \ allocated_frames
        BY DEF IInv, FreeListWellFormed
    <2>2. PICK s \in [1..n -> Frames] :
              IsFreeList(n, s) /\ {s[i] : i \in 1..n} = Issued \ allocated_frames
        BY <2>1
    <2>3. free_frame_head \in Issued \ allocated_frames
        BY <1>2, <2>2 DEF AllocateFromFreeList, IsFreeList
    <2>4. free_frame_head \in Frames /\ free_frame_head < pool_end
        BY <1>2, <2>3 DEF AllocateFromFreeList, Issued, IInv, TypeOK, PoolBounds
    <2>5. Pool!Take(c)
        BY <1>2, <2>3, <2>4, HandOutRefines DEF AllocateFromFreeList
    <2> QED BY <2>5 DEF Pool!Next
<1>3. ASSUME NEW c \in Clients, AllocateFresh(c) PROVE Pool!Next
    <2>1. next_frame \in Frames /\ next_frame < pool_end /\ next_frame \notin allocated_frames
        BY <1>3 DEF AllocateFresh, IInv, TypeOK, PoolBounds, Issued
    <2>2. Pool!Take(c)
        BY <1>3, <2>1, HandOutRefines DEF AllocateFresh
    <2> QED BY <2>2 DEF Pool!Next
<1>4. ASSUME NEW c \in Clients, AllocateFails(c) PROVE Pool!Next
    <2>1. PoolFrames \subseteq AllHeld
        <3>1. CASE pool_start = Nil
            BY <3>1 DEF PoolFrames, IInv, PoolBounds
        <3>2. CASE free_frame_head = Nil /\ next_frame >= pool_end
            <4>1. PICK n \in 0..MaxFrames : \E s \in [1..n -> Frames] :
                      IsFreeList(n, s) /\ {s[i] : i \in 1..n} = Issued \ allocated_frames
                BY DEF IInv, FreeListWellFormed
            <4>2. PICK s \in [1..n -> Frames] :
                      IsFreeList(n, s) /\ {s[i] : i \in 1..n} = Issued \ allocated_frames
                BY <4>1
            <4>3. n = 0
                BY <3>2, <4>2 DEF IsFreeList
            <4>4. Issued \subseteq allocated_frames
                BY <4>2, <4>3
            <4> QED BY <3>2, <4>4 DEF PoolFrames, Issued, IInv, TypeOK, ExclusiveOwnership
        <3> QED BY <1>4, <3>1, <3>2 DEF AllocateFails
    <2>2. Visible' = Visible /\ PoolFrames' = PoolFrames
        BY <1>4 DEF AllocateFails, Visible, PoolFrames, AllHeld, allocatorVars
    <2>3. Pool!Refuse(c)
        BY <1>4, <1>0, <2>1, <2>2
        DEF AllocateFails, Pool!Refuse, Visible, PoolFrames, Pool!Failed
    <2> QED BY <2>3 DEF Pool!Next
<1>5. ASSUME NEW c \in Clients, NEW page \in 0..MaxFrames + 1, NEW aligned \in BOOLEAN,
             ReleaseFrame(c, page, aligned)
      PROVE  Pool!Next
    <2>1. page \in allocated_frames /\ page \in Frames /\ page \in held[c]
        BY <1>5 DEF ReleaseFrame, frame_is_allocated, IInv, TypeOK, ExclusiveOwnership, AllHeld
    <2>2. \A d \in Clients : held'[d] = IF d = c THEN held[c] \ {page} ELSE held[d]
        BY <1>5 DEF IInv, TypeOK, ReleaseFrame
    <2>3. AllHeld' = AllHeld \ {page}
        BY <1>5, <2>2 DEF AllHeld, ReleaseFrame
    <2>4. Visible' = [Visible EXCEPT ![page] = Nil]
        BY <1>5, <2>1, <2>3 DEF Visible, ReleaseFrame, IInv, TypeOK
    <2>5. PoolFrames' = PoolFrames
        BY <1>5 DEF ReleaseFrame, PoolFrames
    <2>6. Pool!Give(c)
        BY <1>5, <2>1, <2>4, <2>5 DEF ReleaseFrame, Pool!Give, Visible, PoolFrames, Pool!Nil
    <2> QED BY <2>6 DEF Pool!Next
<1>6. ASSUME NEW c \in Clients, NEW frame \in Frames, NEW value \in Words,
             WriteFrame(c, frame, value)
      PROVE  Pool!Next
    <2>1. frame \in held[c] /\ frame \in AllHeld /\ AllHeld' = AllHeld
        BY <1>6 DEF WriteFrame, AllHeld
    <2>2. Visible' = [Visible EXCEPT ![frame] = value]
        BY <1>6, <2>1 DEF WriteFrame, Visible, IInv, TypeOK
    <2>3. PoolFrames' = PoolFrames
        BY <1>6 DEF WriteFrame, PoolFrames, allocatorVars
    <2>4. Pool!Store(c)
        BY <1>6, <2>1, <2>2, <2>3 DEF WriteFrame, Pool!Store, Visible, PoolFrames
    <2> QED BY <2>4 DEF Pool!Next
<1>7. CASE UNCHANGED vars
    BY <1>7 DEF vars, allocatorVars, Pool!poolVars, AllHeld
<1> QED BY <1>1, <1>2, <1>3, <1>4, <1>5, <1>6, <1>7 DEF Next

(* The allocator implements the abstract pool: exclusive holders, cleared    *)
(* frames, no change of a held frame but its holder's, refusal only when     *)
(* every frame of the pool is held.                                          *)
THEOREM Refinement == Spec => ImplementsFramePool
<1>1. Init => Pool!Init
    BY InitRefines
<1>2. IInv /\ [Next]_vars => [Pool!Next]_(Pool!poolVars)
    BY StepRefines
<1> QED BY <1>1, <1>2, Inductive, PTL DEF Spec, Pool!Spec, ImplementsFramePool

=============================================================================
