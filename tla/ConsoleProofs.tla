----------------------------- MODULE ConsoleProofs -----------------------------
(***************************************************************************)
(* The console's two sides in kernel/arch/x86_64/tables.c.  The display:   *)
(* the dirty rectangle covers every stale pixel and the visible page is    *)
(* never written, for every size of the screen and of the terminal, with   *)
(* one page or two, and however often a present fails half way.  The       *)
(* keyboard and the mouse: packets are kept and applied as they were sent  *)
(* unless a byte was taken for a key or for an acknowledge, and the        *)
(* keyboard stays on, for every set of codes, packets and configurations   *)
(* and every bound of the waits.                                           *)
(***************************************************************************)
EXTENDS Display, Input, SequenceTheorems, TLAPS

-----------------------------------------------------------------------------
(* The display.                                                              *)

(* What a present in progress has already done: at the retrace the hidden    *)
(* page is up to date, after the flip that page is the one on the screen.    *)
PresentSound ==
    /\ pc # "old" => shown = bga_front_y
    /\ pc = "retrace" => bga_page_flip /\ framebuffer_dirty /\ stale[BackPage] = {}
    /\ pc = "old" => bga_page_flip /\ framebuffer_dirty /\ shown = BackPage /\ stale[BackPage] = {}

DisplayInv == TypeOK /\ DirtyCoversStale /\ PresentSound

IntegerRect(r) == {r.left, r.top, r.right, r.bottom} \subseteq Int

(* A rectangle as a drawing primitive hands it over.                         *)
Drawn == [left : 0..Width + TerminalLeft, top : 0..Height + TerminalTop,
          right : 0..Larger(Width, TerminalLeft + TerminalWidth),
          bottom : 0..Larger(Height, TerminalTop + TerminalHeight)]

-----------------------------------------------------------------------------
(* Widening loses nothing of the rectangle there was and covers the new one. *)
LEMMA WidenedCovers ==
    ASSUME NEW r, IntegerRect(r), IntegerRect(dirty)
    PROVE  /\ Inside(r) \subseteq Inside(Widened(r))
           /\ framebuffer_dirty => Inside(dirty) \subseteq Inside(Widened(r))
<1>1. \A p \in Pixels : p[1] \in Int /\ p[2] \in Int
    BY DEF Pixels
<1>2. CASE framebuffer_dirty
    <2>1. /\ Widened(r).left = Smaller(dirty.left, r.left)
          /\ Widened(r).top = Smaller(dirty.top, r.top)
          /\ Widened(r).right = Larger(dirty.right, r.right)
          /\ Widened(r).bottom = Larger(dirty.bottom, r.bottom)
        BY <1>2 DEF Widened, Rect
    <2> QED BY <1>1, <2>1 DEF Inside, Smaller, Larger, IntegerRect
<1>3. CASE ~framebuffer_dirty
    BY <1>3 DEF Widened
<1> QED BY <1>2, <1>3

(* The bounds of the rectangle stay within those of screen and terminal.     *)
LEMMA WidenedType ==
    ASSUME dirty \in Drawn, NEW r \in Drawn
    PROVE  Widened(r) \in Drawn
<1> USE DisplayAssumption
<1>1. CASE framebuffer_dirty
    <2>1. /\ Smaller(dirty.left, r.left) \in 0..Width + TerminalLeft
          /\ Smaller(dirty.top, r.top) \in 0..Height + TerminalTop
        BY DEF Drawn, Smaller
    <2>2. /\ Larger(dirty.right, r.right) \in 0..Larger(Width, TerminalLeft + TerminalWidth)
          /\ Larger(dirty.bottom, r.bottom) \in 0..Larger(Height, TerminalTop + TerminalHeight)
        BY DEF Drawn, Larger
    <2> QED BY <1>1, <2>1, <2>2 DEF Widened, Rect, Drawn
<1>2. CASE ~framebuffer_dirty
    BY <1>2 DEF Widened
<1> QED BY <1>1, <1>2

LEMMA DrawnIsInteger == \A r \in Drawn : IntegerRect(r)
<1> USE DisplayAssumption
<1> QED BY DEF Drawn, IntegerRect, Larger

(* The rectangles that the primitives draw.                                  *)
LEMMA ClippedType ==
    ASSUME NEW left \in 0..Width, NEW top \in 0..Height,
           NEW width \in 0..Width, NEW height \in 0..Height, left < Width, top < Height
    PROVE  Clipped(left, top, width, height) \in Drawn
<1> USE DisplayAssumption
<1>1. /\ left + Smaller(width, Width - left) \in 0..Width
      /\ top + Smaller(height, Height - top) \in 0..Height
    BY DEF Smaller
<1>2. /\ left \in 0..Width + TerminalLeft /\ top \in 0..Height + TerminalTop
      /\ Width <= Larger(Width, TerminalLeft + TerminalWidth)
      /\ Height <= Larger(Height, TerminalTop + TerminalHeight)
      /\ Larger(Width, TerminalLeft + TerminalWidth) \in Int
      /\ Larger(Height, TerminalTop + TerminalHeight) \in Int
    BY DEF Larger
<1> QED BY <1>1, <1>2 DEF Clipped, Rect, Drawn

LEMMA WholeType == Whole \in Drawn
<1> USE DisplayAssumption
<1> QED BY DEF Whole, Rect, Drawn, Larger

LEMMA TerminalType ==
    Rect(TerminalLeft, TerminalTop, TerminalLeft + TerminalWidth, TerminalTop + TerminalHeight)
        \in Drawn
<1> USE DisplayAssumption
<1> QED BY DEF Rect, Drawn, Larger

-----------------------------------------------------------------------------
LEMMA InitDisplayInv == Init => DisplayInv
<1> SUFFICES ASSUME Init PROVE DisplayInv
    OBVIOUS
<1> USE DisplayAssumption
<1>1. 0 \in Pages
    BY DEF Pages
<1>2. TypeOK
    BY <1>1, WholeType DEF Init, TypeOK, Drawn
<1>3. Pixels \subseteq Inside(Whole)
    BY DEF Pixels, Inside, Whole, Rect
<1>4. DirtyCoversStale
    BY <1>3 DEF Init, DirtyCoversStale
<1> QED BY <1>2, <1>4 DEF Init, PresentSound, DisplayInv

(* Drawing between presents: what it makes stale it makes dirty.             *)
LEMMA DrawsDisplayInv ==
    ASSUME DisplayInv, pc = "idle", NEW r \in Drawn, Draws(r), workspace_visible' \in BOOLEAN,
           UNCHANGED <<bga_front_y, shown, bga_page_flip, pc>>
    PROVE  DisplayInv' /\ (bga_page_flip => stale[shown] \subseteq stale'[shown])
<1>1. Pages' = Pages
    BY DEF Pages
<1>2. dirty \in Drawn /\ stale \in [Pages -> SUBSET Pixels] /\ shown \in Pages
    BY DEF DisplayInv, TypeOK, Drawn
<1>3. \A p \in Pages : stale'[p] = stale[p] \union Inside(r)
    BY DEF Draws
<1>4. stale' \in [Pages -> SUBSET Pixels]
    BY <1>2 DEF Draws, Inside
<1>5. dirty' \in Drawn
    BY <1>2, WidenedType DEF Draws
<1>6. TypeOK'
    BY <1>1, <1>4, <1>5 DEF DisplayInv, TypeOK, Draws, Drawn
<1>7. IntegerRect(r) /\ IntegerRect(dirty)
    BY <1>2, DrawnIsInteger
<1>8. \A p \in Pages : stale'[p] \subseteq Inside(dirty')
    BY <1>3, <1>7, WidenedCovers DEF DisplayInv, DirtyCoversStale, Draws
<1>9. DirtyCoversStale'
    BY <1>1, <1>8 DEF DirtyCoversStale, Draws, Inside, Pixels
<1>10. PresentSound'
    BY DEF DisplayInv, PresentSound
<1> QED BY <1>2, <1>3, <1>6, <1>9, <1>10 DEF DisplayInv

(* Copying the rectangle brings a page up to date.                           *)
LEMMA CopiedPage ==
    ASSUME DisplayInv, framebuffer_dirty, NEW page \in Pages
    PROVE  /\ Copied(page) \in [Pages -> SUBSET Pixels]
           /\ Copied(page)[page] = {}
           /\ \A p \in Pages \ {page} : Copied(page)[p] = stale[p]
    BY DEF DisplayInv, TypeOK, DirtyCoversStale, Copied

(* One step of the display keeps the invariant and the visible page.         *)
LEMMA DisplayStepInv ==
    ASSUME DisplayInv, [Next]_vars
    PROVE  DisplayInv' /\ (bga_page_flip => stale[shown] \subseteq stale'[shown])
<1> USE DisplayAssumption
<1>1. ASSUME NEW left \in 0..Width, NEW top \in 0..Height,
             NEW width \in 0..Width, NEW height \in 0..Height,
             framebuffer_fill_rect(left, top, width, height)
      PROVE  DisplayInv' /\ (bga_page_flip => stale[shown] \subseteq stale'[shown])
    BY <1>1, ClippedType, DrawsDisplayInv DEF framebuffer_fill_rect, DisplayInv, TypeOK
<1>2. ASSUME NEW workspace \in BOOLEAN, desktop_view(workspace)
      PROVE  DisplayInv' /\ (bga_page_flip => stale[shown] \subseteq stale'[shown])
    BY <1>2, WholeType, DrawsDisplayInv DEF desktop_view
<1>3. CASE framebuffer_scroll
    BY <1>3, TerminalType, DrawsDisplayInv DEF framebuffer_scroll, DisplayInv, TypeOK
<1>4. CASE PresentUnsynced
    <2>1. Pages = {0} /\ Pages' = {0} /\ ~bga_page_flip
        BY <1>4 DEF PresentUnsynced, Presented, Pages
    <2>2. stale' \in [Pages -> SUBSET Pixels] /\ stale'[0] = {}
        BY <1>4, <2>1, CopiedPage DEF PresentUnsynced
    <2>3. TypeOK'
        BY <1>4, <2>1, <2>2 DEF DisplayInv, TypeOK, PresentUnsynced, Presented
    <2>4. DirtyCoversStale'
        BY <1>4, <2>1, <2>2 DEF DirtyCoversStale, PresentUnsynced, Presented
    <2>5. PresentSound'
        BY <1>4 DEF DisplayInv, PresentSound, PresentUnsynced, Presented
    <2> QED BY <2>1, <2>3, <2>4, <2>5 DEF DisplayInv
<1>5. BackPage \in {0, 1} /\ BackPage # bga_front_y
    BY DEF BackPage
<1>6. CASE PresentBackPage
    <2>1. Pages = {0, 1} /\ Pages' = {0, 1} /\ shown = bga_front_y /\ BackPage' = BackPage
        BY <1>6 DEF PresentBackPage, dirtyVars, Pages, DisplayInv, PresentSound, BackPage
    <2>2. /\ stale' \in [Pages -> SUBSET Pixels] /\ stale'[BackPage] = {}
          /\ \A p \in Pages \ {BackPage} : stale'[p] = stale[p]
        BY <1>5, <1>6, <2>1, CopiedPage DEF PresentBackPage, dirtyVars
    <2>3. TypeOK'
        BY <1>6, <2>1, <2>2 DEF DisplayInv, TypeOK, PresentBackPage, dirtyVars
    <2>4. \A p \in Pages : stale'[p] \subseteq Inside(dirty)
        BY <1>6, <2>2 DEF DisplayInv, DirtyCoversStale, PresentBackPage, dirtyVars
    <2>5. DirtyCoversStale'
        BY <1>6, <2>1, <2>4 DEF DirtyCoversStale, PresentBackPage, dirtyVars, Inside, Pixels
    <2>6. PresentSound'
        BY <1>6, <2>1, <2>2 DEF DisplayInv, PresentSound, PresentBackPage, dirtyVars
    <2>7. stale[shown] = stale'[shown]
        BY <1>5, <2>1, <2>2 DEF DisplayInv, TypeOK
    <2> QED BY <2>3, <2>5, <2>6, <2>7 DEF DisplayInv
<1>7. CASE PresentFails
    <2>1. TypeOK' /\ DirtyCoversStale'
        BY <1>7 DEF PresentFails, dirtyVars, DisplayInv, TypeOK, DirtyCoversStale, Pages, Inside
    <2>2. PresentSound'
        BY <1>7 DEF PresentFails, dirtyVars, DisplayInv, PresentSound
    <2> QED BY <1>7, <2>1, <2>2 DEF DisplayInv, PresentFails, dirtyVars
<1>8. CASE PresentFlips
    <2>1. Pages' = Pages /\ Pages = {0, 1} /\ BackPage' = BackPage
        BY <1>8 DEF PresentFlips, dirtyVars, Pages, DisplayInv, PresentSound, BackPage
    <2>2. TypeOK' /\ DirtyCoversStale'
        BY <1>5, <1>8, <2>1 DEF PresentFlips, dirtyVars, DisplayInv, TypeOK, DirtyCoversStale, Inside
    <2>3. PresentSound'
        BY <1>8, <2>1 DEF PresentFlips, dirtyVars, DisplayInv, PresentSound
    <2> QED BY <1>8, <2>2, <2>3 DEF DisplayInv, PresentFlips, dirtyVars
<1>9. CASE PresentOldPage
    <2>1. /\ Pages = {0, 1} /\ Pages' = {0, 1} /\ framebuffer_dirty
          /\ shown = BackPage /\ stale[BackPage] = {} /\ bga_front_y \in Pages
        BY <1>9 DEF PresentOldPage, Presented, Pages, DisplayInv, PresentSound, TypeOK
    <2>2. /\ stale' \in [Pages -> SUBSET Pixels] /\ stale'[bga_front_y] = {}
          /\ stale'[BackPage] = {}
        BY <1>5, <1>9, <2>1, CopiedPage DEF PresentOldPage
    <2>3. TypeOK'
        BY <1>5, <1>9, <2>1, <2>2 DEF DisplayInv, TypeOK, PresentOldPage, Presented
    <2>4. \A p \in Pages : stale'[p] = {}
        BY <2>1, <2>2 DEF BackPage
    <2>5. DirtyCoversStale'
        BY <1>9, <2>1, <2>4 DEF DirtyCoversStale, PresentOldPage, Presented
    <2>6. PresentSound'
        BY <1>9, <2>1 DEF PresentSound, PresentOldPage, Presented
    <2> QED BY <2>1, <2>3, <2>5, <2>6 DEF DisplayInv
<1>10. CASE UNCHANGED vars
    <2>1. TypeOK' /\ DirtyCoversStale'
        BY <1>10 DEF vars, dirtyVars, DisplayInv, TypeOK, DirtyCoversStale, Pages, Inside
    <2>2. PresentSound'
        BY <1>10 DEF vars, dirtyVars, DisplayInv, PresentSound, BackPage
    <2> QED BY <1>10, <2>1, <2>2 DEF DisplayInv, vars
<1> QED BY <1>1, <1>2, <1>3, <1>4, <1>6, <1>7, <1>8, <1>9, <1>10
        DEF Next, framebuffer_mark_dirty

(* The invariant holds in every state the display can reach.                 *)
THEOREM DisplayInductive == Spec => []DisplayInv
<1>1. Init => DisplayInv
    BY InitDisplayInv
<1>2. DisplayInv /\ [Next]_vars => DisplayInv'
    BY DisplayStepInv
<1> QED BY <1>1, <1>2, PTL DEF Spec

(* Every variable of the display keeps its type.                             *)
THEOREM TypeCorrect == Spec => []TypeOK
<1>1. DisplayInv => TypeOK
    BY DEF DisplayInv
<1> QED BY <1>1, DisplayInductive, PTL

(* Presenting the dirty rectangle alone is always enough.                    *)
THEOREM NothingForgotten == Spec => []DirtyCoversStale
<1>1. DisplayInv => DirtyCoversStale
    BY DEF DisplayInv
<1> QED BY <1>1, DisplayInductive, PTL

(* With two pages no step writes the page on the screen.                     *)
THEOREM Untorn == Spec => NeverTears
<1>1. DisplayInv /\ [Next]_vars =>
          [bga_page_flip => stale[shown] \subseteq stale'[shown]]_vars
    BY DisplayStepInv
<1> QED BY <1>1, DisplayInductive, PTL DEF Spec, NeverTears

-----------------------------------------------------------------------------
(* The keyboard and the mouse.                                               *)

(* What the input buffer may still hold at each step of the script.          *)
LastWritten == <<"none", "enable_port", "ask_config", "ask_config", "set_config", "config",
                 "to_mouse", "defaults", "defaults", "to_mouse", "report">>
OrderInv ==
    /\ step < Polling => input \in {"none", LastWritten[step]}
    /\ step < Polling => ~mouse_ready /\ mouse_packet = <<>> /\ ~stolen

(* The configuration byte on its way to the driver and back.                 *)
KeyboardInv ==
    /\ step <= 3 => ~mistaken
    /\ ~mistaken => ~Bit(config, 16) /\ ~Bit(response, 16) /\ (answer # NoByte => ~Bit(answer, 16))
    /\ step = 3 /\ input = "none" /\ answer = NoByte =>
          buffer # Empty /\ ~buffer.aux /\ ~Bit(buffer.byte, 16)

(* The mouse acknowledges what it was told, and unless a byte of a packet    *)
(* was taken for its first acknowledge it says nothing else between the      *)
(* acknowledge of "defaults" and that of "report".                           *)
Quiet == ~mouse.owes /\ ~mouse.reports /\ mouse.sent = 0
CommandInv ==
    /\ step <= 8 => ~misread
    /\ step <= 7 => ~mouse.owes
    /\ step <= 6 \/ (step = 7 /\ input # "none") => addressee # "mouse"
    /\ step = 7 /\ input = "none" => addressee = "mouse"
    /\ step = 8 /\ input = "none" => addressee # "mouse" /\ ~mouse.reports /\ mouse.sent = 0
    /\ step = 8 /\ input # "none" => addressee = "mouse" /\ ~mouse.owes
    /\ ~misread =>
          /\ step \in {9, 10} \/ (step = 11 /\ input = "report") => Quiet /\ ~buffer.aux
          /\ step = 9 => input = "none" /\ addressee # "mouse"
          /\ step = 10 /\ input # "none" => addressee # "mouse"
          /\ step = 11 /\ input = "none" => /\ mouse.sent = 0
                                            /\ mouse.reports => mouse.owes \/ buffer.aux
                                            /\ buffer.aux => buffer.byte = Ack /\ ~mouse.owes

(* Once the mouse is ready, unless that was a mistake, nothing is on its way *)
(* to it, and what comes from it are the bytes of packets.                   *)
ReadyInv ==
    /\ mouse_ready => step = Polling
    /\ mouse_ready /\ ~misread => input = "none" /\ ~mouse.owes
    /\ mouse_ready /\ ~misread /\ buffer.aux =>
          mouse.sent # 0 /\ buffer.byte = ByteOf(mouse.packet, mouse.sent)
    /\ mouse.sent # 0 => mouse.packet \in Packet

InputInv == InputTypeOK /\ OrderInv /\ KeyboardInv /\ CommandInv /\ ReadyInv /\ AlignedUnlessMisled

-----------------------------------------------------------------------------
(* Facts about the operators.                                                *)
LEMMA ScriptIs ==
    /\ Len(Script) = 11 /\ Polling = 12 /\ DOMAIN Script = 1..11
    /\ Script[1] = "enable_port" /\ Script[2] = "ask_config" /\ Script[3] = "read_config"
    /\ Script[4] = "set_config" /\ Script[5] = "config" /\ Script[6] = "to_mouse"
    /\ Script[7] = "defaults" /\ Script[8] = "acknowledged" /\ Script[9] = "to_mouse"
    /\ Script[10] = "report" /\ Script[11] = "acknowledged"
<1>1. Len(Script) = 11
    BY DEF Script
<1> QED BY <1>1 DEF Script, Polling

LEMMA LastWrittenIs ==
    /\ LastWritten[1] = "none" /\ LastWritten[2] = "enable_port" /\ LastWritten[3] = "ask_config"
    /\ LastWritten[4] = "ask_config" /\ LastWritten[5] = "set_config" /\ LastWritten[6] = "config"
    /\ LastWritten[7] = "to_mouse" /\ LastWritten[8] = "defaults" /\ LastWritten[9] = "defaults"
    /\ LastWritten[10] = "to_mouse" /\ LastWritten[11] = "report"
BY DEF LastWritten

(* Turning the port of the mouse on, or its interrupt, leaves the keyboard   *)
(* as it was.                                                                *)
LEMMA KeepsKeyboard ==
    ASSUME NEW v \in Byte
    PROVE  /\ With(v, 2) \in Byte /\ Without(v, 32) \in Byte
           /\ ~Bit(v, 16) => ~Bit(With(v, 2), 16) /\ ~Bit(Without(v, 32), 16)
<1>1. With(v, 2) \in Byte
    BY DEF With, Bit, Byte
<1>2. Without(v, 32) \in Byte
    BY DEF Without, Bit, Byte
<1>3. ~Bit(v, 16) => ~Bit(With(v, 2), 16)
    BY DEF With, Bit, Byte
<1>4. ~Bit(v, 16) => ~Bit(Without(v, 32), 16)
    BY DEF Without, Bit, Byte
<1> QED BY <1>1, <1>2, <1>3, <1>4

(* What the bytes of a packet are; the first one begins a packet.            *)
LEMMA PacketBytes ==
    ASSUME NEW packet \in Packet, NEW n \in 1..3
    PROVE  /\ ByteOf(packet, n) \in Byte
           /\ Begins(ByteOf(packet, 1))
           /\ ByteOf(packet, 1) = packet.flags /\ ByteOf(packet, 2) = packet.dx
           /\ ByteOf(packet, 3) = packet.dy
<1>1. packet.flags \in Flags /\ packet.dx \in Motions /\ packet.dy \in Motions
    BY DEF Packet
<1>2. /\ ByteOf(packet, 1) = packet.flags /\ ByteOf(packet, 2) = packet.dx
      /\ ByteOf(packet, 3) = packet.dy
    BY DEF ByteOf
<1>3. /\ packet.flags \in Byte /\ Bit(packet.flags, 8)
      /\ packet.dx \in Byte /\ packet.dy \in Byte
    BY <1>1, InputAssumption
<1>4. n = 1 \/ n = 2 \/ n = 3
    OBVIOUS
<1> QED BY <1>2, <1>3, <1>4 DEF Begins

-----------------------------------------------------------------------------
LEMMA InitInputInv == InputInit => InputInv
<1> SUFFICES ASSUME InputInit PROVE InputInv
    OBVIOUS
<1> USE ScriptIs, LastWrittenIs
<1>1. /\ buffer.aux = FALSE /\ buffer.byte = NoByte /\ NoByte = -1 /\ Ack = 250
      /\ mouse.sent = 0 /\ mouse.owes = FALSE /\ step = 1 /\ mouse_packet = <<>>
    BY DEF InputInit, Empty, NoByte, Ack
<1>2. InputTypeOK
    <2>1. mouse \in Mouse
        <3>1. PICK p \in BOOLEAN, q \in BOOLEAN :
                  mouse = [present |-> p, reports |-> q, owes |-> FALSE, packet |-> Still, sent |-> 0]
            BY DEF InputInit
        <3> QED BY <3>1 DEF Mouse
    <2>2. config \in Byte /\ response \in Byte
        BY InputAssumption DEF InputInit, Byte
    <2>3. mouse_x \in 0..ScreenWidth - 1
        BY InputAssumption DEF InputInit
    <2>4. attempts \in 0..MaxAttempts - 1
        BY InputAssumption DEF InputInit
    <2>5. mouse_packet \in Seq(Byte) /\ Len(mouse_packet) < 3
        BY DEF InputInit
    <2>6. step \in 1..Polling /\ mouse_buttons \in 0..7
        BY DEF InputInit
    <2> QED BY <2>1, <2>2, <2>3, <2>4, <2>5, <2>6 DEF InputInit, InputTypeOK
<1>3. OrderInv
    BY <1>1 DEF OrderInv, InputInit
<1>4. KeyboardInv
    <2>1. config \in Byte /\ ~Bit(config, 16)
        BY InputAssumption DEF InputInit
    <2>2. ~Bit(response, 16)
        BY DEF InputInit, Bit
    <2> QED BY <1>1, <2>1, <2>2 DEF KeyboardInv, InputInit
<1>5. CommandInv
    BY <1>1 DEF CommandInv, InputInit
<1>6. ReadyInv
    BY <1>1 DEF ReadyInv, InputInit
<1>7. AlignedUnlessMisled
    BY DEF AlignedUnlessMisled, InputInit
<1> QED BY <1>2, <1>3, <1>4, <1>5, <1>6, <1>7 DEF InputInv

-----------------------------------------------------------------------------
(* The devices.                                                              *)
LEMMA KeySentInv ==
    ASSUME InputInv, NEW code \in Keys, KeySent(code)
    PROVE  InputInv'
<1>1. InputTypeOK /\ OrderInv /\ KeyboardInv /\ CommandInv /\ ReadyInv /\ AlignedUnlessMisled
    BY DEF InputInv
<1>2. /\ buffer = Empty /\ ~buffer.aux
      /\ buffer'.byte = code /\ buffer'.aux = FALSE
      /\ buffer' \in [byte : Byte, aux : BOOLEAN]
    BY InputAssumption DEF KeySent, Empty
<1>3. UNCHANGED <<input, addressee, config, answer, mouse, step, attempts, response, mouse_ready,
                  mouse_packet, mouse_x, mouse_buttons, shift_down, alt_down, poll, stolen, mistaken, misread>>
    BY DEF KeySent, starting, driver, histories
<1>4. InputTypeOK'
    BY <1>1, <1>2, <1>3 DEF InputTypeOK
<1>5. OrderInv'
    BY <1>1, <1>3 DEF OrderInv
<1>6. KeyboardInv'
    BY <1>1, <1>2, <1>3 DEF KeyboardInv
<1>7. CommandInv'
    BY <1>1, <1>2, <1>3 DEF CommandInv, Quiet
<1>8. ReadyInv'
    BY <1>1, <1>2, <1>3 DEF ReadyInv
<1>9. AlignedUnlessMisled'
    BY <1>1, <1>2, <1>3 DEF AlignedUnlessMisled, Aligned, Taken
<1> QED BY <1>4, <1>5, <1>6, <1>7, <1>8, <1>9 DEF InputInv

LEMMA ConfigAnsweredInv ==
    ASSUME InputInv, ConfigAnswered
    PROVE  InputInv'
<1>1. InputTypeOK /\ OrderInv /\ KeyboardInv /\ CommandInv /\ ReadyInv /\ AlignedUnlessMisled
    BY DEF InputInv
<1>2. /\ buffer = Empty /\ ~buffer.aux /\ answer # NoByte /\ answer' = NoByte
      /\ buffer'.byte = answer /\ buffer'.aux = FALSE
      /\ buffer' \in [byte : Byte, aux : BOOLEAN]
    BY <1>1 DEF ConfigAnswered, Empty, InputTypeOK
<1>3. UNCHANGED <<input, addressee, config, mouse, step, attempts, response, mouse_ready,
                  mouse_packet, mouse_x, mouse_buttons, shift_down, alt_down, poll, stolen, mistaken, misread>>
    BY DEF ConfigAnswered, starting, driver, histories
<1>4. InputTypeOK'
    BY <1>1, <1>2, <1>3 DEF InputTypeOK
<1>5. OrderInv'
    BY <1>1, <1>3 DEF OrderInv
<1>6. KeyboardInv'
    <2>1. buffer' # Empty
        BY <1>2 DEF Empty
    <2>2. step <= 3 => ~Bit(answer, 16)
        BY <1>1, <1>2 DEF KeyboardInv
    <2>3. step = 3 => step <= 3
        OBVIOUS
    <2> QED BY <1>1, <1>2, <1>3, <2>1, <2>2, <2>3 DEF KeyboardInv
<1>7. CommandInv'
    BY <1>1, <1>2, <1>3 DEF CommandInv, Quiet
<1>8. ReadyInv'
    BY <1>1, <1>2, <1>3 DEF ReadyInv
<1>9. AlignedUnlessMisled'
    BY <1>1, <1>2, <1>3 DEF AlignedUnlessMisled, Aligned, Taken
<1> QED BY <1>4, <1>5, <1>6, <1>7, <1>8, <1>9 DEF InputInv

LEMMA MouseAcknowledgedInv ==
    ASSUME InputInv, MouseAcknowledged
    PROVE  InputInv'
<1>1. InputTypeOK /\ OrderInv /\ KeyboardInv /\ CommandInv /\ ReadyInv /\ AlignedUnlessMisled
    BY DEF InputInv
<1>2. /\ buffer = Empty /\ ~buffer.aux /\ buffer.byte = NoByte
      /\ buffer'.byte = Ack /\ buffer'.aux = TRUE
      /\ buffer' \in [byte : Byte, aux : BOOLEAN]
    BY DEF MouseAcknowledged, Empty, Ack, Byte
<1>3. UNCHANGED <<input, addressee, config, answer, step, attempts, response, mouse_ready,
                  mouse_packet, mouse_x, mouse_buttons, shift_down, alt_down, poll, stolen, mistaken, misread>>
    BY DEF MouseAcknowledged, starting, driver, histories
<1>4. /\ mouse.owes /\ mouse' \in Mouse /\ ~mouse'.owes
      /\ mouse'.sent = mouse.sent /\ mouse'.reports = mouse.reports /\ mouse'.packet = mouse.packet
    <2>1. mouse' = [mouse EXCEPT !.owes = FALSE] /\ mouse.owes
        BY DEF MouseAcknowledged
    <2>2. mouse \in Mouse
        BY <1>1 DEF InputTypeOK
    <2> QED BY <2>1, <2>2 DEF Mouse
<1>5. ~mouse_ready \/ misread
    BY <1>1, <1>4 DEF ReadyInv
<1>6. InputTypeOK'
    BY <1>1, <1>2, <1>3, <1>4 DEF InputTypeOK
<1>7. OrderInv'
    BY <1>1, <1>3 DEF OrderInv
<1>8. KeyboardInv'
    BY <1>1, <1>2, <1>3 DEF KeyboardInv
<1>9. CommandInv'
    BY <1>1, <1>2, <1>3, <1>4 DEF CommandInv, Quiet
<1>10. ReadyInv'
    BY <1>1, <1>3, <1>4, <1>5 DEF ReadyInv
<1>11. AlignedUnlessMisled'
    BY <1>3, <1>5 DEF AlignedUnlessMisled
<1> QED BY <1>6, <1>7, <1>8, <1>9, <1>10, <1>11 DEF InputInv

LEMMA MouseSentInv ==
    ASSUME InputInv, NEW packet \in Packet, MouseSent(packet)
    PROVE  InputInv'
<1>1. InputTypeOK /\ OrderInv /\ KeyboardInv /\ CommandInv /\ ReadyInv /\ AlignedUnlessMisled
    BY DEF InputInv
<1> DEFINE n == (mouse.sent % 3) + 1
<1>2. mouse \in Mouse /\ mouse.sent \in 0..3
    BY <1>1 DEF InputTypeOK, Mouse
<1>3. /\ n \in 1..3
      /\ mouse.sent \in {0, 3} => n = 1 /\ mouse.sent % 3 = 0
      /\ mouse.sent = 1 => n = 2 /\ mouse.sent % 3 = 1
      /\ mouse.sent = 2 => n = 3 /\ mouse.sent % 3 = 2
    BY <1>2
<1>4. UNCHANGED <<input, addressee, config, answer, step, attempts, response, mouse_ready,
                  mouse_packet, mouse_x, mouse_buttons, shift_down, alt_down, poll, stolen, mistaken, misread>>
    BY DEF MouseSent, starting, driver, histories
<1>5. /\ mouse.reports /\ ~mouse.owes
      /\ mouse.sent \in {1, 2} => packet = mouse.packet
      /\ mouse' = [mouse EXCEPT !.packet = packet, !.sent = n]
      /\ buffer' = [byte |-> ByteOf(packet, n), aux |-> TRUE]
      /\ buffer = Empty
    BY DEF MouseSent
<1> HIDE DEF n
<1>6. /\ mouse' \in Mouse /\ mouse'.sent = n /\ mouse'.packet = packet
      /\ mouse'.owes = mouse.owes /\ mouse'.reports = mouse.reports
    <2>1. mouse' = [mouse EXCEPT !.packet = packet, !.sent = n]
        BY <1>5
    <2>2. n \in 0..3
        BY <1>3
    <2>3. /\ mouse'.sent = n /\ mouse'.packet = packet
          /\ mouse'.owes = mouse.owes /\ mouse'.reports = mouse.reports
        BY <1>2, <2>1 DEF Mouse
    <2>4. mouse' \in Mouse
        BY <1>2, <2>1, <2>2 DEF Mouse
    <2> QED BY <2>3, <2>4
<1>7. /\ ~buffer.aux /\ buffer.byte = NoByte
      /\ buffer'.byte = ByteOf(packet, n) /\ buffer'.aux = TRUE
      /\ buffer' \in [byte : Byte, aux : BOOLEAN]
    BY <1>3, <1>5, PacketBytes DEF Empty
<1>8. InputTypeOK'
    BY <1>1, <1>4, <1>6, <1>7 DEF InputTypeOK
<1>9. OrderInv'
    BY <1>1, <1>4 DEF OrderInv
<1>10. KeyboardInv'
    BY <1>1, <1>4, <1>5, <1>7 DEF KeyboardInv
<1>11. CommandInv'
    <2>1. misread \/ step \notin {9, 10, 11}
        <3>1. step = 11 => input \in {"none", "report"}
            BY <1>1, LastWrittenIs, ScriptIs DEF OrderInv
        <3> QED BY <1>1, <1>5, <1>7, <3>1 DEF CommandInv, Quiet
    <2>2. step = 8 => input # "none"
        BY <1>1, <1>5 DEF CommandInv
    <2> QED BY <1>1, <1>4, <1>5, <1>6, <2>1, <2>2 DEF CommandInv
<1>12. ReadyInv'
    BY <1>1, <1>3, <1>4, <1>6, <1>7 DEF ReadyInv
<1>13. AlignedUnlessMisled'
    <2> SUFFICES ASSUME mouse_ready, ~stolen, ~misread
                 PROVE  /\ Len(mouse_packet) = Taken'
                        /\ \A k \in 1..Len(mouse_packet) : mouse_packet[k] = ByteOf(packet, k)
        BY <1>4, <1>6 DEF AlignedUnlessMisled, Aligned
    <2>1. /\ Len(mouse_packet) = mouse.sent % 3
          /\ \A k \in 1..Len(mouse_packet) : mouse_packet[k] = ByteOf(mouse.packet, k)
        <3>1. Taken = mouse.sent % 3
            BY <1>2, <1>7 DEF Taken
        <3> QED BY <1>1, <3>1 DEF AlignedUnlessMisled, Aligned
    <2>2. Taken' = mouse.sent % 3
        <3>1. Taken' = (n - 1) % 3
            BY <1>6, <1>7 DEF Taken
        <3> QED BY <1>2, <1>3, <3>1
    <2>3. CASE mouse.sent \in {1, 2}
        BY <1>5, <2>1, <2>2, <2>3
    <2>4. CASE mouse.sent \in {0, 3}
        <3>1. Len(mouse_packet) = 0
            BY <1>3, <2>1, <2>4
        <3> QED BY <2>1, <2>2, <3>1
    <2> QED BY <1>2, <2>3, <2>4
<1> QED BY <1>8, <1>9, <1>10, <1>11, <1>12, <1>13 DEF InputInv

LEMMA ControllerTookInv ==
    ASSUME InputInv, ControllerTook
    PROVE  InputInv'
<1>1. InputTypeOK /\ OrderInv /\ KeyboardInv /\ CommandInv /\ ReadyInv /\ AlignedUnlessMisled
    BY DEF InputInv
<1>2. /\ input # "none" /\ input' = "none"
      /\ addressee' = CASE input = "set_config" -> "config" [] input = "to_mouse" -> "mouse"
                        [] OTHER -> "none"
      /\ config' = CASE input = "enable_port" -> Without(config, 32)
                     [] input = "config" -> With(response, 2)
                     [] OTHER -> config
      /\ answer' = IF input = "ask_config" THEN config ELSE answer
    BY DEF ControllerTook
<1>3. UNCHANGED <<buffer, step, attempts, response, mouse_ready,
                  mouse_packet, mouse_x, mouse_buttons, shift_down, alt_down, poll, stolen, mistaken, misread>>
    BY DEF ControllerTook, starting, driver, histories
<1>4. ~mouse_ready \/ misread
    BY <1>1, <1>2 DEF ReadyInv
<1>5. mouse \in Mouse /\ config \in Byte /\ response \in Byte /\ answer \in Byte \union {NoByte}
    BY <1>1 DEF InputTypeOK
<1>6. /\ addressee # "mouse" => mouse' = mouse
      /\ addressee = "mouse" =>
            /\ mouse'.reports <=> input = "report"
            /\ mouse'.owes /\ mouse'.sent = 0
            /\ mouse'.packet = mouse.packet
      /\ mouse' \in Mouse
    <2>1. CASE addressee = "mouse"
        <3> DEFINE tells == input = "report"
        <3>1. mouse' = [mouse EXCEPT !.reports = tells, !.owes = TRUE, !.sent = 0]
            BY <2>1 DEF ControllerTook
        <3>2. tells \in BOOLEAN
            BY Zenon
        <3>3. tells <=> input = "report"
            OBVIOUS
        <3> HIDE DEF tells
        <3>4. mouse' \in Mouse
            <4>1. mouse.present \in BOOLEAN /\ mouse.packet \in Packet \union {Still}
                BY <1>5 DEF Mouse
            <4>2. mouse' = [present |-> mouse.present, reports |-> tells, owes |-> TRUE,
                            packet |-> mouse.packet, sent |-> 0]
                BY <1>5, <3>1 DEF Mouse
            <4>3. 0 \in 0..3
                OBVIOUS
            <4> QED BY <3>2, <4>1, <4>2, <4>3, Zenon DEF Mouse
        <3>5. /\ mouse'.reports = tells /\ mouse'.owes = TRUE /\ mouse'.sent = 0
              /\ mouse'.packet = mouse.packet
            BY <1>5, <3>1 DEF Mouse
        <3> QED BY <2>1, <3>3, <3>4, <3>5
    <2>2. CASE addressee # "mouse"
        BY <1>5, <2>2 DEF ControllerTook
    <2> QED BY <2>1, <2>2
<1>7. /\ With(response, 2) \in Byte /\ Without(config, 32) \in Byte
      /\ ~Bit(response, 16) => ~Bit(With(response, 2), 16)
      /\ ~Bit(config, 16) => ~Bit(Without(config, 32), 16)
    BY <1>5, KeepsKeyboard
<1>8. InputTypeOK'
    <2>1. config' \in Byte
        BY <1>2, <1>5, <1>7
    <2>2. answer' \in Byte \union {NoByte}
        BY <1>2, <1>5
    <2>3. addressee' \in {"none", "config", "mouse"}
        BY <1>2
    <2> QED BY <1>1, <1>2, <1>3, <1>6, <2>1, <2>2, <2>3 DEF InputTypeOK
<1>9. OrderInv'
    BY <1>1, <1>2, <1>3 DEF OrderInv
<1>10. KeyboardInv'
    <2>1. ~mistaken => ~Bit(config', 16)
        BY <1>1, <1>2, <1>7 DEF KeyboardInv
    <2>2. ~mistaken => (answer' # NoByte => ~Bit(answer', 16))
        BY <1>1, <1>2 DEF KeyboardInv
    <2>3. step = 3 => input = "ask_config"
        BY <1>1, <1>2, LastWrittenIs, ScriptIs DEF OrderInv
    <2>4. step = 3 => answer' # NoByte
        BY <1>2, <1>5, <2>3 DEF Byte, NoByte
    <2> QED BY <1>1, <1>3, <2>1, <2>2, <2>4 DEF KeyboardInv
<1>11. CommandInv'
    <2>1. /\ step = 1 => FALSE
          /\ step = 2 => input = "enable_port"
          /\ step \in {3, 4} => input = "ask_config"
          /\ step = 5 => input = "set_config"
          /\ step = 6 => input = "config"
          /\ step = 7 => input = "to_mouse"
          /\ step \in {8, 9} => input = "defaults"
          /\ step = 10 => input = "to_mouse"
          /\ step = 11 => input = "report"
        BY <1>1, <1>2, LastWrittenIs, ScriptIs DEF OrderInv
    <2>2. step \in 1..12
        BY <1>1, ScriptIs DEF InputTypeOK
    <2>3. step <= 7 => addressee # "mouse"
        BY <1>1, <1>2, <2>2 DEF CommandInv
    <2>4. step <= 6 => addressee' # "mouse"
        BY <1>2, <2>1, <2>2
    <2>5. CASE step <= 7
        <3>1. mouse' = mouse /\ ~mouse'.owes /\ ~misread' /\ step' = step /\ input' = "none"
            BY <1>1, <1>2, <1>3, <1>6, <2>2, <2>3, <2>5 DEF CommandInv
        <3>2. step = 7 => addressee' = "mouse"
            BY <1>2, <2>1
        <3> QED BY <2>2, <2>4, <2>5, <3>1, <3>2 DEF CommandInv
    <2>6. CASE step = 8
        <3>1. /\ input = "defaults" /\ addressee = "mouse" /\ ~misread'
              /\ addressee' = "none" /\ input' = "none" /\ step' = 8
            BY <1>1, <1>2, <1>3, <2>1, <2>6 DEF CommandInv
        <3>2. ~mouse'.reports /\ mouse'.sent = 0
            BY <1>6, <3>1
        <3> QED BY <3>1, <3>2 DEF CommandInv
    <2>7. CASE step = 9 \/ step = 10
        BY <1>1, <1>2, <1>3, <1>6, <2>1, <2>7 DEF CommandInv, Quiet
    <2>8. CASE step = 11
        BY <1>1, <1>2, <1>3, <1>6, <2>1, <2>8 DEF CommandInv, Quiet
    <2>9. CASE step = 12
        BY <1>3, <2>9 DEF CommandInv
    <2> QED BY <2>2, <2>5, <2>6, <2>7, <2>8, <2>9
<1>12. ReadyInv'
    BY <1>1, <1>3, <1>4, <1>6 DEF ReadyInv
<1>13. AlignedUnlessMisled'
    BY <1>3, <1>4 DEF AlignedUnlessMisled
<1> QED BY <1>8, <1>9, <1>10, <1>11, <1>12, <1>13 DEF InputInv


-----------------------------------------------------------------------------
(* ps2_mouse_initialize.                                                     *)
LEMMA AdvanceIs ==
    ASSUME Advance, step \in 1..11
    PROVE  /\ attempts' = 0 /\ step' = step + 1 /\ step' \in 1..12
           /\ mouse_ready' \in BOOLEAN
           /\ step < 11 => ~mouse_ready'
           /\ step = 11 => mouse_ready'
<1>1. attempts' = 0 /\ step' = step + 1 /\ step' \in 1..12
    BY DEF Advance
<1>2. step < 11 => step' # Polling
    BY <1>1, ScriptIs
<1>3. step = 11 => step' = Polling
    BY <1>1, ScriptIs
<1>4. mouse_ready' = (step' = Polling)
    BY DEF Advance
<1>5. mouse_ready' \in BOOLEAN
    BY <1>4, Zenon
<1>6. step < 11 => ~mouse_ready'
    BY <1>2, <1>4, Zenon
<1>7. step = 11 => mouse_ready'
    BY <1>3, <1>4, Zenon
<1> QED BY <1>1, <1>5, <1>6, <1>7

LEMMA WriteNextInv ==
    ASSUME InputInv, WriteNext
    PROVE  InputInv'
<1>1. InputTypeOK /\ OrderInv /\ KeyboardInv /\ CommandInv /\ ReadyInv /\ AlignedUnlessMisled
    BY DEF InputInv
<1>2. input = "none" /\ input' = Script[step]
    BY DEF WriteNext
<1>3. UNCHANGED <<buffer, addressee, config, answer, mouse, response, mistaken, misread,
                  mouse_packet, mouse_x, mouse_buttons, shift_down, alt_down, poll, stolen>>
    BY DEF WriteNext, Rest
<1>4. step \in {1, 2, 4, 5, 6, 7, 9, 10}
    <2>1. step \in 1..11
        BY <1>1, ScriptIs DEF WriteNext, InputTypeOK
    <2>2. Script[step] # "read_config" /\ Script[step] # "acknowledged"
        BY DEF WriteNext, Writes
    <2> QED BY <2>1, <2>2, ScriptIs
<1>5. /\ step' = step + 1 /\ step' \in 1..12 /\ attempts' = 0
      /\ ~mouse_ready' /\ mouse_ready' \in BOOLEAN
    BY <1>4, AdvanceIs DEF WriteNext
<1>6. /\ input' # "none" /\ input' = LastWritten[step']
      /\ step = 10 => input' = "report"
    BY <1>2, <1>4, <1>5, ScriptIs, LastWrittenIs
<1>7. InputTypeOK'
    <2>1. step' \in 1..Polling /\ input' \in {Script[s] : s \in DOMAIN Script}
        BY <1>2, <1>4, <1>5, ScriptIs
    <2>2. attempts' \in 0..MaxAttempts - 1
        BY <1>5, InputAssumption
    <2> QED BY <1>1, <1>3, <1>5, <2>1, <2>2 DEF InputTypeOK
<1>8. OrderInv'
    <2>1. step < Polling
        BY <1>4, ScriptIs
    <2> QED BY <1>1, <1>3, <1>5, <1>6, <2>1 DEF OrderInv
<1>9. KeyboardInv'
    BY <1>1, <1>2, <1>3, <1>4, <1>5, <1>6 DEF KeyboardInv
<1>10. CommandInv'
    <2>1. CASE step \in {1, 2, 4, 5}
        BY <1>1, <1>2, <1>3, <1>5, <1>6, <2>1 DEF CommandInv
    <2>2. CASE step = 6
        BY <1>1, <1>2, <1>3, <1>5, <1>6, <2>2 DEF CommandInv
    <2>3. CASE step = 7
        BY <1>1, <1>2, <1>3, <1>5, <1>6, <2>3 DEF CommandInv
    <2>4. CASE step = 9
        BY <1>1, <1>2, <1>3, <1>5, <1>6, <2>4 DEF CommandInv, Quiet
    <2>5. CASE step = 10
        BY <1>1, <1>2, <1>3, <1>5, <1>6, <2>5 DEF CommandInv, Quiet
    <2> QED BY <1>4, <2>1, <2>2, <2>3, <2>4, <2>5
<1>11. ReadyInv'
    BY <1>1, <1>3, <1>5 DEF ReadyInv
<1>12. AlignedUnlessMisled'
    BY <1>5 DEF AlignedUnlessMisled
<1> QED BY <1>7, <1>8, <1>9, <1>10, <1>11, <1>12 DEF InputInv

LEMMA ReadConfigInv ==
    ASSUME InputInv, ReadConfig
    PROVE  InputInv'
<1>1. InputTypeOK /\ OrderInv /\ KeyboardInv /\ CommandInv /\ ReadyInv /\ AlignedUnlessMisled
    BY DEF InputInv
<1>2. step = 3
    <2>1. step \in 1..11 /\ Script[step] = "read_config"
        BY <1>1, ScriptIs DEF ReadConfig, InputTypeOK
    <2> QED BY <2>1, ScriptIs
<1>3. /\ response' = buffer.byte /\ buffer' = Empty /\ attempts' = 0 /\ step' = 4
      /\ mouse_ready' \in BOOLEAN /\ ~mouse_ready'
      /\ mistaken' \in BOOLEAN
      /\ ~mistaken' => answer = NoByte /\ input = "none"
    <2>1. response' = buffer.byte /\ buffer' = Empty /\ Advance
        BY DEF ReadConfig
    <2>2. attempts' = 0 /\ step' = 4 /\ mouse_ready' \in BOOLEAN /\ ~mouse_ready'
        BY <1>2, <2>1, AdvanceIs
    <2>3. mistaken' = (answer # NoByte \/ input # "none")
        BY DEF ReadConfig
    <2>4. mistaken' \in BOOLEAN
        BY <2>3, Zenon
    <2>5. ~mistaken' => answer = NoByte /\ input = "none"
        BY <2>3, Zenon
    <2> QED BY <2>1, <2>2, <2>4, <2>5
<1>4. UNCHANGED <<input, addressee, config, answer, mouse, mouse_packet, mouse_x, mouse_buttons,
                  shift_down, alt_down, poll, stolen, misread>>
    BY DEF ReadConfig, Rest
<1>5. buffer.byte \in Byte /\ ~buffer'.aux /\ buffer' \in {Empty}
    <2>1. buffer \in [byte : Byte, aux : BOOLEAN]
        BY <1>1 DEF ReadConfig, Answered, InputTypeOK
    <2> QED BY <1>3, <2>1 DEF Empty
<1>6. InputTypeOK'
    <2>1. step' \in 1..Polling
        BY <1>3, ScriptIs
    <2>2. attempts' \in 0..MaxAttempts - 1
        BY <1>3, InputAssumption
    <2> QED BY <1>1, <1>3, <1>4, <1>5, <2>1, <2>2 DEF InputTypeOK
<1>7. OrderInv'
    <2>1. input' \in {"none", LastWritten[step']}
        BY <1>1, <1>2, <1>3, <1>4, ScriptIs, LastWrittenIs DEF OrderInv
    <2>2. mouse_packet' = <<>> /\ ~stolen'
        BY <1>1, <1>2, <1>4, ScriptIs DEF OrderInv
    <2> QED BY <1>3, <2>1, <2>2 DEF OrderInv
<1>8. KeyboardInv'
    <2>1. ~mistaken /\ ~Bit(config, 16)
        BY <1>1, <1>2 DEF KeyboardInv
    <2>2. ~mistaken' => answer = NoByte /\ ~Bit(buffer.byte, 16)
        BY <1>1, <1>2, <1>3 DEF KeyboardInv
    <2> QED BY <1>3, <1>4, <2>1, <2>2 DEF KeyboardInv
<1>9. CommandInv'
    BY <1>1, <1>2, <1>3, <1>4, <1>5 DEF CommandInv
<1>10. ReadyInv'
    BY <1>1, <1>3, <1>4 DEF ReadyInv
<1>11. AlignedUnlessMisled'
    BY <1>3 DEF AlignedUnlessMisled
<1> QED BY <1>6, <1>7, <1>8, <1>9, <1>10, <1>11 DEF InputInv

(* What holds once the start of the mouse was given up.                      *)
LEMMA GiveUpInv ==
    ASSUME InputInv, GiveUp, step < Polling, buffer' \in {buffer, Empty},
           UNCHANGED <<input, addressee, config, answer, mouse, response, mistaken, misread,
                       mouse_packet, mouse_x, mouse_buttons, shift_down, alt_down, poll, stolen>>
    PROVE  InputInv'
<1>1. InputTypeOK /\ OrderInv /\ KeyboardInv /\ CommandInv /\ ReadyInv /\ AlignedUnlessMisled
    BY DEF InputInv
<1>2. attempts' = 0 /\ step' = 12 /\ ~mouse_ready' /\ mouse_ready' \in BOOLEAN
    BY <1>1, ScriptIs DEF GiveUp, OrderInv, InputTypeOK
<1>3. InputTypeOK'
    <2>1. attempts' \in 0..MaxAttempts - 1
        BY <1>2, InputAssumption
    <2>2. buffer' \in [byte : Byte, aux : BOOLEAN] \union {Empty}
        BY <1>1 DEF InputTypeOK
    <2>3. step' \in 1..Polling
        BY <1>2, ScriptIs
    <2> QED BY <1>1, <1>2, <2>1, <2>2, <2>3 DEF InputTypeOK
<1>4. OrderInv'
    BY <1>2, ScriptIs DEF OrderInv
<1>5. KeyboardInv'
    BY <1>1, <1>2 DEF KeyboardInv
<1>6. CommandInv'
    BY <1>2 DEF CommandInv
<1>7. ReadyInv'
    BY <1>1, <1>2 DEF ReadyInv
<1>8. AlignedUnlessMisled'
    BY <1>2 DEF AlignedUnlessMisled
<1> QED BY <1>3, <1>4, <1>5, <1>6, <1>7, <1>8 DEF InputInv

LEMMA ReadAcknowledgeInv ==
    ASSUME InputInv, ReadAcknowledge
    PROVE  InputInv'
<1>1. InputTypeOK /\ OrderInv /\ KeyboardInv /\ CommandInv /\ ReadyInv /\ AlignedUnlessMisled
    BY DEF InputInv
<1>2. step = 8 \/ step = 11
    <2>1. step \in 1..11 /\ Script[step] = "acknowledged"
        BY <1>1, ScriptIs DEF ReadAcknowledge, InputTypeOK
    <2> QED BY <2>1, ScriptIs
<1>3. /\ buffer' = Empty /\ ~buffer'.aux /\ buffer.aux /\ step < Polling
      /\ UNCHANGED <<input, addressee, config, answer, mouse, response, mistaken, mouse_packet,
                     mouse_x, mouse_buttons, shift_down, alt_down, poll, stolen>>
    <2>1. buffer.aux
        BY DEF ReadAcknowledge, Answered
    <2> QED BY <2>1 DEF ReadAcknowledge, Rest, Empty
<1>4. /\ misread' \in BOOLEAN
      /\ misread' <=> misread \/ (buffer.byte = Ack /\ (input # "none" \/ mouse.owes))
    <2>1. misread' = (misread \/ (buffer.byte = Ack /\ (input # "none" \/ mouse.owes)))
        BY DEF ReadAcknowledge
    <2>2. misread' \in BOOLEAN
        BY <2>1, Zenon
    <2>3. misread' <=> misread \/ (buffer.byte = Ack /\ (input # "none" \/ mouse.owes))
        BY <2>1, Zenon
    <2> QED BY <2>2, <2>3
<1>5. CASE buffer.byte # Ack
    <2>1. misread' = misread
        <3>1. misread \in BOOLEAN
            BY <1>1 DEF InputTypeOK
        <3>2. misread' <=> misread
            BY <1>4, <1>5
        <3>3. misread = TRUE \/ misread = FALSE
            BY <3>1
        <3>4. misread' = TRUE \/ misread' = FALSE
            BY <1>4
        <3> QED BY <3>2, <3>3, <3>4, Zenon
    <2>2. GiveUp
        BY <1>5 DEF ReadAcknowledge
    <2>3. UNCHANGED <<input, addressee, config, answer, mouse, response, mistaken, misread,
                      mouse_packet, mouse_x, mouse_buttons, shift_down, alt_down, poll, stolen>>
        BY <1>3, <2>1
    <2>4. step < Polling /\ buffer' \in {buffer, Empty}
        BY <1>3
    <2> QED BY <2>2, <2>3, <2>4, GiveUpInv
<1>6. CASE buffer.byte = Ack
    <2>1. /\ attempts' = 0 /\ step' = step + 1 /\ mouse_ready' \in BOOLEAN
          /\ step = 8 => ~mouse_ready'
          /\ step = 11 => mouse_ready'
        BY <1>2, <1>6, AdvanceIs DEF ReadAcknowledge
    <2>2. ~mouse_ready /\ mouse_packet = <<>> /\ ~stolen
        BY <1>1, <1>3 DEF OrderInv
    <2>3. ~misread' => input = "none" /\ ~mouse.owes /\ ~misread
        BY <1>4, <1>6
    <2>4. InputTypeOK'
        <3>1. attempts' \in 0..MaxAttempts - 1
            BY <2>1, InputAssumption
        <3>2. buffer' \in [byte : Byte, aux : BOOLEAN] \union {Empty}
            BY <1>3
        <3>3. step' \in 1..Polling
            BY <1>2, <2>1, ScriptIs
        <3>4. mouse_ready' \in BOOLEAN
            BY <2>1
        <3> QED BY <1>1, <1>3, <1>4, <3>1, <3>2, <3>3, <3>4 DEF InputTypeOK
    <2>5. OrderInv'
        <3>1. step' < Polling => ~mouse_ready' /\ step = 8 /\ step' = 9
            BY <1>2, <2>1, ScriptIs
        <3>2. step = 8 => input \in {"none", LastWritten[9]}
            BY <1>1, <1>3, LastWrittenIs DEF OrderInv
        <3> QED BY <1>3, <2>2, <3>1, <3>2 DEF OrderInv
    <2>6. KeyboardInv'
        BY <1>1, <1>2, <1>3, <2>1 DEF KeyboardInv
    <2>7. CASE step = 8
        <3>1. ~mouse_ready' /\ step' = 9
            BY <2>1, <2>7, ScriptIs
        <3>2. ~misread' => Quiet /\ addressee # "mouse" /\ input = "none"
            BY <1>1, <2>3, <2>7 DEF CommandInv, Quiet
        <3>3. CommandInv'
            BY <1>3, <3>1, <3>2 DEF CommandInv, Quiet
        <3>4. ReadyInv'
            BY <1>1, <1>3, <3>1 DEF ReadyInv
        <3>5. AlignedUnlessMisled'
            BY <3>1 DEF AlignedUnlessMisled
        <3> QED BY <2>4, <2>5, <2>6, <3>3, <3>4, <3>5 DEF InputInv
    <2>8. CASE step = 11
        <3>1. mouse_ready' /\ step' = 12 /\ step' = Polling
            BY <2>1, <2>8, ScriptIs
        <3>2. ~misread' => mouse.sent = 0 /\ ~mouse.owes /\ input = "none"
            BY <1>1, <2>3, <2>8 DEF CommandInv
        <3>3. CommandInv'
            BY <3>1 DEF CommandInv
        <3>4. ReadyInv'
            BY <1>1, <1>3, <3>1, <3>2 DEF ReadyInv
        <3>5. AlignedUnlessMisled'
            <4>1. ~misread' => Taken' = 0
                BY <1>3, <3>2 DEF Taken
            <4>2. mouse_packet' = <<>> /\ Len(mouse_packet') = 0
                BY <1>3, <2>2
            <4> QED BY <4>1, <4>2 DEF AlignedUnlessMisled, Aligned
        <3> QED BY <2>4, <2>5, <2>6, <3>3, <3>4, <3>5 DEF InputInv
    <2> QED BY <1>2, <2>7, <2>8
<1> QED BY <1>5, <1>6

LEMMA WaitedInv ==
    ASSUME InputInv, Waited
    PROVE  InputInv'
<1>1. InputTypeOK /\ OrderInv /\ KeyboardInv /\ CommandInv /\ ReadyInv /\ AlignedUnlessMisled
    BY DEF InputInv
<1>2. /\ step < Polling
      /\ UNCHANGED <<buffer, input, addressee, config, answer, mouse, response, mistaken, misread,
                     mouse_packet, mouse_x, mouse_buttons, shift_down, alt_down, poll, stolen>>
    BY DEF Waited, Rest, controller
<1>3. CASE attempts + 1 = MaxAttempts
    BY <1>2, <1>3, GiveUpInv DEF Waited
<1>4. CASE attempts + 1 # MaxAttempts
    <2>1. attempts' = attempts + 1 /\ UNCHANGED <<step, mouse_ready>>
        BY <1>4 DEF Waited
    <2>2. attempts' \in 0..MaxAttempts - 1
        BY <1>1, <1>4, <2>1, InputAssumption DEF InputTypeOK
    <2>3. InputTypeOK'
        BY <1>1, <1>2, <2>1, <2>2 DEF InputTypeOK
    <2>4. OrderInv' /\ KeyboardInv'
        BY <1>1, <1>2, <2>1 DEF OrderInv, KeyboardInv
    <2>5. CommandInv'
        BY <1>1, <1>2, <2>1 DEF CommandInv, Quiet
    <2>6. ReadyInv'
        BY <1>1, <1>2, <2>1 DEF ReadyInv
    <2>7. AlignedUnlessMisled'
        BY <1>1, <1>2, <2>1 DEF AlignedUnlessMisled, Aligned, Taken
    <2> QED BY <2>3, <2>4, <2>5, <2>6, <2>7 DEF InputInv
<1> QED BY <1>3, <1>4

-----------------------------------------------------------------------------
(* quanta_arch_console_read_char: a byte of the mouse's is taken, and used   *)
(* unless it cannot begin the packet it would be the first of.               *)
TakesByte == buffer # Empty /\ buffer.aux
UsesByte == TakesByte /\ mouse_ready /\ (mouse_packet = <<>> => Begins(buffer.byte))
PacketRead == IF UsesByte THEN Append(mouse_packet, buffer.byte) ELSE mouse_packet

LEMMA PollMouseIs ==
    ASSUME PollMouse
    PROVE  /\ step = Polling
           /\ buffer' = IF TakesByte THEN Empty ELSE buffer
           /\ mouse_packet' = PacketAfter(PacketRead)
           /\ Len(PacketRead) = 3 => /\ mouse_buttons' = Buttons(PacketRead[1])
                                     /\ mouse_x' = Applied(PacketRead[1], PacketRead[2], mouse_x)
           /\ Len(PacketRead) # 3 => UNCHANGED <<mouse_buttons, mouse_x>>
           /\ poll' \in {"mouse", "keyboard"}
           /\ UNCHANGED <<input, addressee, config, answer, mouse, step, attempts, response,
                          mouse_ready, shift_down, alt_down, stolen, mistaken, misread>>
<1>1. step = Polling /\ poll' \in {"mouse", "keyboard"}
    BY DEF PollMouse
<1>2. UNCHANGED <<input, addressee, config, answer, mouse, step, attempts, response,
                  mouse_ready, shift_down, alt_down, stolen, mistaken, misread>>
    BY DEF PollMouse, starting, histories
<1>3. buffer' = IF TakesByte THEN Empty ELSE buffer
    BY DEF PollMouse, TakesByte
<1>4. mouse_packet' = PacketAfter(PacketRead)
    BY DEF PollMouse, TakesByte, UsesByte, PacketRead
<1>5. Len(PacketRead) = 3 => /\ mouse_buttons' = Buttons(PacketRead[1])
                             /\ mouse_x' = Applied(PacketRead[1], PacketRead[2], mouse_x)
    BY DEF PollMouse, TakesByte, UsesByte, PacketRead
<1>6. Len(PacketRead) # 3 => UNCHANGED <<mouse_buttons, mouse_x>>
    BY DEF PollMouse, TakesByte, UsesByte, PacketRead
<1> QED BY <1>1, <1>2, <1>3, <1>4, <1>5, <1>6

(* The packet read so far: at most one byte longer than the one held.        *)
LEMMA PacketReadIs ==
    ASSUME InputTypeOK
    PROVE  /\ PacketRead \in Seq(Byte) /\ Len(PacketRead) \in 0..3
           /\ UsesByte => /\ Len(PacketRead) = Len(mouse_packet) + 1
                          /\ PacketRead[Len(mouse_packet) + 1] = buffer.byte
           /\ ~UsesByte => PacketRead = mouse_packet
           /\ \A n \in 1..Len(mouse_packet) : PacketRead[n] = mouse_packet[n]
<1>1. mouse_packet \in Seq(Byte) /\ Len(mouse_packet) \in 0..2
    <2>1. mouse_packet \in Seq(Byte)
        BY DEF InputTypeOK
    <2>2. Len(mouse_packet) < 3
        BY DEF InputTypeOK
    <2>3. Len(mouse_packet) \in Nat
        BY <2>1, LenProperties, Zenon
    <2>4. \A l \in Nat : l < 3 => l \in 0..2
        OBVIOUS
    <2>5. Len(mouse_packet) \in 0..2
        BY <2>2, <2>3, <2>4, Zenon
    <2> QED BY <2>1, <2>5
<1>2. CASE UsesByte
    <2>1. PacketRead = Append(mouse_packet, buffer.byte)
        BY <1>2 DEF PacketRead
    <2>2. buffer.byte \in Byte
        BY <1>2 DEF UsesByte, TakesByte, InputTypeOK, Empty
    <2> QED BY <1>1, <1>2, <2>1, <2>2
<1>3. CASE ~UsesByte
    BY <1>1, <1>3 DEF PacketRead
<1> QED BY <1>2, <1>3

(* The pointer stays on the screen.                                          *)
LEMMA AppliedIs ==
    ASSUME NEW flags \in Byte, NEW dx \in Byte, NEW x \in 0..ScreenWidth - 1
    PROVE  Applied(flags, dx, x) \in 0..ScreenWidth - 1 /\ Buttons(flags) \in 0..7
<1>1. Buttons(flags) \in 0..7
    BY DEF Buttons, Byte
<1>2. Signed(dx) \in Int
    BY DEF Signed, Byte
<1>3. \A y \in Int : Clamped(y) \in 0..ScreenWidth - 1
    BY InputAssumption DEF Clamped
<1>4. x + Signed(dx) \in Int
    BY <1>2, InputAssumption
<1> QED BY <1>1, <1>3, <1>4 DEF Applied

(* With the mouse ready and the driver not misled, a byte taken is the next  *)
(* one of the mouse's packet, and it is used.                                *)
LEMMA NextByteIsUsed ==
    ASSUME InputInv, mouse_ready, ~stolen, ~misread, TakesByte
    PROVE  /\ UsesByte /\ mouse.sent = Len(mouse_packet) + 1 /\ mouse.packet \in Packet
           /\ mouse.sent \in 1..3 /\ Len(PacketRead) = mouse.sent
           /\ \A n \in 1..Len(PacketRead) : PacketRead[n] = ByteOf(mouse.packet, n)
<1>1. InputTypeOK /\ ReadyInv /\ AlignedUnlessMisled
    BY DEF InputInv
<1>2. /\ mouse.sent \in 1..3 /\ mouse.packet \in Packet
      /\ buffer.byte = ByteOf(mouse.packet, mouse.sent)
    <2>1. mouse.sent \in 0..3
        BY <1>1 DEF InputTypeOK, Mouse
    <2> QED BY <1>1, <2>1 DEF ReadyInv, TakesByte
<1>3. /\ Len(mouse_packet) = mouse.sent - 1
      /\ \A n \in 1..Len(mouse_packet) : mouse_packet[n] = ByteOf(mouse.packet, n)
    <2>1. Taken = (mouse.sent - 1) % 3
        BY DEF Taken, TakesByte
    <2>2. (mouse.sent - 1) % 3 = mouse.sent - 1
        BY <1>2
    <2> QED BY <1>1, <2>1, <2>2 DEF AlignedUnlessMisled, Aligned
<1>4. UsesByte
    <2>1. mouse_packet = <<>> => mouse.sent = 1
        BY <1>2, <1>3
    <2>2. Begins(ByteOf(mouse.packet, 1))
        BY <1>2, PacketBytes
    <2> QED BY <1>2, <2>1, <2>2 DEF UsesByte
<1>5. /\ Len(PacketRead) = Len(mouse_packet) + 1
      /\ PacketRead[Len(mouse_packet) + 1] = buffer.byte
      /\ \A n \in 1..Len(mouse_packet) : PacketRead[n] = mouse_packet[n]
    BY <1>1, <1>4, PacketReadIs
<1>6. ASSUME NEW n \in 1..Len(PacketRead)
      PROVE  PacketRead[n] = ByteOf(mouse.packet, n)
    <2>1. CASE n = mouse.sent
        BY <1>2, <1>3, <1>5, <2>1
    <2>2. CASE n # mouse.sent
        <3>1. n \in 1..Len(mouse_packet)
            BY <1>2, <1>3, <1>5, <2>2
        <3> QED BY <1>3, <1>5, <3>1
    <2> QED BY <2>1, <2>2
<1> QED BY <1>2, <1>3, <1>4, <1>5, <1>6

LEMMA PollMouseInv ==
    ASSUME InputInv, PollMouse
    PROVE  InputInv'
<1>1. InputTypeOK /\ OrderInv /\ KeyboardInv /\ CommandInv /\ ReadyInv /\ AlignedUnlessMisled
    BY DEF InputInv
<1>2. /\ step = 12 /\ mouse_packet' = PacketAfter(PacketRead)
      /\ buffer' = IF TakesByte THEN Empty ELSE buffer
      /\ poll' \in {"mouse", "keyboard"}
      /\ UNCHANGED <<input, addressee, config, answer, mouse, step, attempts, response,
                     mouse_ready, shift_down, alt_down, stolen, mistaken, misread>>
    BY PollMouseIs, ScriptIs
<1>3. ~buffer'.aux
    BY <1>2 DEF TakesByte, Empty
<1>4. /\ PacketRead \in Seq(Byte) /\ Len(PacketRead) \in 0..3
      /\ mouse_packet' \in Seq(Byte) /\ Len(mouse_packet') < 3
      /\ Len(PacketRead) < 3 => mouse_packet' = PacketRead
      /\ Len(PacketRead) = 3 => mouse_packet' = <<>> /\ Len(mouse_packet') = 0
    <2>1. PacketRead \in Seq(Byte)
        BY <1>1, PacketReadIs
    <2>2. Len(PacketRead) \in 0..3
        BY <1>1, PacketReadIs
    <2>3. Len(PacketRead) < 3 => mouse_packet' = PacketRead
        BY <1>2 DEF PacketAfter
    <2>4. Len(PacketRead) = 3 => mouse_packet' = <<>>
        BY <1>2 DEF PacketAfter
    <2>5. <<>> \in Seq(Byte)
        OBVIOUS
    <2>6. Len(<<>>) = 0
        OBVIOUS
    <2>7. Len(PacketRead) < 3 \/ Len(PacketRead) = 3
        <3>1. \A l \in 0..3 : l < 3 \/ l = 3
            OBVIOUS
        <3> QED BY <2>2, <3>1, Zenon
    <2>8. mouse_packet' \in Seq(Byte)
        BY <2>1, <2>3, <2>4, <2>5, <2>7, Zenon
    <2>9. Len(PacketRead) = 3 => Len(mouse_packet') = 0
        BY <2>4, <2>6, Zenon
    <2>10. Len(mouse_packet') < 3
        <3>1. CASE Len(PacketRead) < 3
            BY <2>3, <3>1, Zenon
        <3>2. CASE Len(PacketRead) = 3
            BY <2>9, <3>2
        <3> QED BY <2>7, <3>1, <3>2
    <2> QED BY <2>1, <2>2, <2>3, <2>4, <2>8, <2>9, <2>10, Zenon
<1>5. InputTypeOK'
    <2>1. mouse_x' \in 0..ScreenWidth - 1 /\ mouse_buttons' \in 0..7
        <3>1. mouse_x \in 0..ScreenWidth - 1 /\ mouse_buttons \in 0..7
            BY <1>1 DEF InputTypeOK
        <3>2. CASE Len(PacketRead) = 3
            <4>1. PacketRead[1] \in Byte /\ PacketRead[2] \in Byte
                <5>1. 1 \in 1..Len(PacketRead) /\ 2 \in 1..Len(PacketRead)
                    BY <3>2
                <5>2. PacketRead \in Seq(Byte)
                    BY <1>4, Zenon
                <5> QED BY <5>1, <5>2, ElementOfSeq
            <4> QED BY <3>1, <3>2, <4>1, PollMouseIs, AppliedIs
        <3>3. CASE Len(PacketRead) # 3
            BY <3>1, <3>3, PollMouseIs
        <3> QED BY <3>2, <3>3
    <2>2. buffer' \in [byte : Byte, aux : BOOLEAN] \union {Empty}
        BY <1>1, <1>2 DEF InputTypeOK
    <2> QED BY <1>1, <1>2, <1>4, <2>1, <2>2 DEF InputTypeOK
<1>6. OrderInv'
    BY <1>2, ScriptIs DEF OrderInv
<1>7. KeyboardInv'
    BY <1>1, <1>2 DEF KeyboardInv
<1>8. CommandInv'
    BY <1>2 DEF CommandInv
<1>9. ReadyInv'
    BY <1>1, <1>2, <1>3 DEF ReadyInv
<1>10. AlignedUnlessMisled'
    <2> SUFFICES ASSUME mouse_ready, ~stolen, ~misread
                 PROVE  /\ Len(mouse_packet') = Taken'
                        /\ \A n \in 1..Len(mouse_packet') : mouse_packet'[n] = ByteOf(mouse.packet, n)
        BY <1>2 DEF AlignedUnlessMisled, Aligned
    <2>1. Taken' = mouse.sent % 3
        <3>1. mouse.sent \in 0..3
            BY <1>1 DEF InputTypeOK, Mouse
        <3> QED BY <1>2, <1>3, <3>1 DEF Taken
    <2>2. CASE TakesByte
        <3>1. /\ mouse.sent \in 1..3 /\ Len(PacketRead) = mouse.sent
              /\ \A n \in 1..Len(PacketRead) : PacketRead[n] = ByteOf(mouse.packet, n)
            BY <2>2, NextByteIsUsed
        <3>2. CASE mouse.sent = 3
            BY <1>4, <2>1, <3>1, <3>2
        <3>3. CASE mouse.sent \in {1, 2}
            BY <1>4, <2>1, <3>1, <3>3
        <3> QED BY <3>1, <3>2, <3>3
    <2>3. CASE ~TakesByte
        <3>1. ~buffer.aux
            BY <1>2, <1>3, <2>3
        <3>2. Taken = mouse.sent % 3
            <4>1. mouse.sent \in 0..3
                BY <1>1 DEF InputTypeOK, Mouse
            <4> QED BY <3>1, <4>1 DEF Taken
        <3>3. PacketRead = mouse_packet /\ Len(mouse_packet) < 3
            BY <1>1, <2>3 DEF PacketRead, UsesByte, InputTypeOK
        <3>4. mouse_packet' = mouse_packet
            BY <1>4, <3>3
        <3> QED BY <1>1, <2>1, <3>2, <3>4 DEF AlignedUnlessMisled, Aligned
    <2> QED BY <2>2, <2>3
<1> QED BY <1>5, <1>6, <1>7, <1>8, <1>9, <1>10 DEF InputInv

LEMMA PollKeyboardInv ==
    ASSUME InputInv, PollKeyboard
    PROVE  InputInv'
<1>1. InputTypeOK /\ OrderInv /\ KeyboardInv /\ CommandInv /\ ReadyInv /\ AlignedUnlessMisled
    BY DEF InputInv
<1>2. /\ step = 12 /\ buffer' = Empty /\ ~buffer'.aux /\ poll' = "mouse"
      /\ UNCHANGED <<input, addressee, config, answer, mouse, step, attempts, response,
                     mouse_ready, mouse_packet, mouse_x, mouse_buttons, mistaken, misread>>
    BY ScriptIs DEF PollKeyboard, starting, Empty
<1>3. stolen' \in BOOLEAN /\ (stolen' <=> stolen \/ buffer.aux)
    <2>1. stolen' = (stolen \/ buffer.aux)
        BY DEF PollKeyboard
    <2>2. stolen' \in BOOLEAN
        BY <2>1, Zenon
    <2>3. stolen' <=> stolen \/ buffer.aux
        BY <2>1, Zenon
    <2> QED BY <2>2, <2>3
<1>4. shift_down' \in BOOLEAN /\ alt_down' \in BOOLEAN
    <2>1. shift_down \in BOOLEAN /\ alt_down \in BOOLEAN
        BY <1>1, Zenon DEF InputTypeOK
    <2>2. shift_down' \in {TRUE, FALSE, shift_down} /\ alt_down' \in {TRUE, FALSE, alt_down}
        BY DEF PollKeyboard
    <2> QED BY <2>1, <2>2
<1>5. InputTypeOK'
    <2>1. buffer' \in [byte : Byte, aux : BOOLEAN] \union {Empty}
        BY <1>2
    <2> QED BY <1>1, <1>2, <1>3, <1>4, <2>1 DEF InputTypeOK
<1>6. OrderInv'
    BY <1>2, ScriptIs DEF OrderInv
<1>7. KeyboardInv'
    BY <1>1, <1>2 DEF KeyboardInv
<1>8. CommandInv'
    BY <1>2 DEF CommandInv
<1>9. ReadyInv'
    BY <1>1, <1>2 DEF ReadyInv
<1>10. AlignedUnlessMisled'
    <2>1. ~buffer.aux => Taken' = Taken
        BY <1>2 DEF Taken
    <2> QED BY <1>1, <1>2, <1>3, <2>1 DEF AlignedUnlessMisled, Aligned
<1> QED BY <1>5, <1>6, <1>7, <1>8, <1>9, <1>10 DEF InputInv

-----------------------------------------------------------------------------
LEMMA InputStepInv == InputInv /\ [InputNext]_inputVars => InputInv'
<1> SUFFICES ASSUME InputInv, [InputNext]_inputVars PROVE InputInv'
    OBVIOUS
<1>1. CASE \E code \in Keys : KeySent(code)
    BY <1>1, KeySentInv
<1>2. CASE \E packet \in Packet : MouseSent(packet)
    BY <1>2, MouseSentInv
<1>3. CASE MouseAcknowledged
    BY <1>3, MouseAcknowledgedInv
<1>4. CASE ConfigAnswered
    BY <1>4, ConfigAnsweredInv
<1>5. CASE ControllerTook
    BY <1>5, ControllerTookInv
<1>6. CASE WriteNext
    BY <1>6, WriteNextInv
<1>7. CASE ReadConfig
    BY <1>7, ReadConfigInv
<1>8. CASE ReadAcknowledge
    BY <1>8, ReadAcknowledgeInv
<1>9. CASE Waited
    BY <1>9, WaitedInv
<1>10. CASE PollMouse
    BY <1>10, PollMouseInv
<1>11. CASE PollKeyboard
    BY <1>11, PollKeyboardInv
<1>12. CASE UNCHANGED inputVars
    <2>1. UNCHANGED <<buffer, input, addressee, config, answer, mouse, step, attempts, response,
                      mouse_ready, mouse_packet, mouse_x, mouse_buttons, shift_down, alt_down,
                      poll, stolen, mistaken, misread>>
        BY <1>12 DEF inputVars, controller, starting, driver, histories
    <2>2. InputTypeOK /\ OrderInv /\ KeyboardInv /\ CommandInv /\ ReadyInv /\ AlignedUnlessMisled
        BY DEF InputInv
    <2>3. InputTypeOK' /\ OrderInv' /\ KeyboardInv'
        BY <2>1, <2>2 DEF InputTypeOK, OrderInv, KeyboardInv
    <2>4. CommandInv'
        BY <2>1, <2>2 DEF CommandInv, Quiet
    <2>5. ReadyInv'
        BY <2>1, <2>2 DEF ReadyInv
    <2>6. AlignedUnlessMisled'
        BY <2>1, <2>2 DEF AlignedUnlessMisled, Aligned, Taken
    <2> QED BY <2>3, <2>4, <2>5, <2>6 DEF InputInv
<1> QED BY <1>1, <1>2, <1>3, <1>4, <1>5, <1>6, <1>7, <1>8, <1>9, <1>10, <1>11, <1>12
           DEF InputNext, Kernel

LEMMA InputInductive == InputSpec => []InputInv
BY InitInputInv, InputStepInv, PTL DEF InputSpec

(* Every variable of the exchange with the controller keeps its type: the    *)
(* script stays in order, a wait below its bound, the packet under three     *)
(* bytes and the pointer on the screen (ps2_mouse_initialize,                *)
(* quanta_arch_console_read_char).                                           *)
THEOREM InputTypeCorrect == InputSpec => []InputTypeOK
<1>1. InputInv => InputTypeOK
    BY DEF InputInv
<1> QED BY <1>1, InputInductive, PTL

(* With the mouse ready and no byte of its taken for a key or for an          *)
(* acknowledge, the driver's packet is what the mouse has sent of the        *)
(* current one (ps2_mouse_command, ps2_mouse_read_event).                    *)
THEOREM KeepsPlace == InputSpec => []AlignedUnlessMisled
<1>1. InputInv => AlignedUnlessMisled
    BY DEF InputInv
<1> QED BY <1>1, InputInductive, PTL

(* The exchange with the mouse leaves the keyboard on, unless a key was read *)
(* in place of the configuration byte (ps2_mouse_initialize).                *)
THEOREM LeavesKeyboardOn == InputSpec => []KeyboardStaysOn
<1>1. InputInv => KeyboardStaysOn
    BY DEF InputInv, KeyboardInv, KeyboardStaysOn
<1> QED BY <1>1, InputInductive, PTL

(* Unless a byte was taken for a key or for an acknowledge, the pointer and  *)
(* the buttons change only with the third byte of a packet and by what that  *)
(* packet says (ps2_mouse_read_event).                                       *)
THEOREM AppliesPackets == InputSpec => AppliesWhatWasSent
<1> DEFINE Changes == <<mouse_x, mouse_buttons>>' # <<mouse_x, mouse_buttons>>
           Applies == /\ mouse.sent = 3
                      /\ mouse_buttons' = Buttons(mouse.packet.flags)
                      /\ mouse_x' = Applied(mouse.packet.flags, mouse.packet.dx, mouse_x)
<1>1. ASSUME InputInv, [InputNext]_inputVars, ~stolen, ~misread, Changes
      PROVE  Applies
    <2>1. PollMouse
        BY <1>1 DEF InputNext, Kernel, KeySent, MouseSent, MouseAcknowledged, ConfigAnswered,
                    ControllerTook, WriteNext, ReadConfig, ReadAcknowledge, Waited, PollKeyboard,
                    Rest, driver, inputVars
    <2>2. Len(PacketRead) = 3
        BY <1>1, <2>1, PollMouseIs
    <2>3. InputTypeOK
        BY <1>1 DEF InputInv
    <2>4. UsesByte
        <3>1. Len(mouse_packet) < 3
            BY <2>3 DEF InputTypeOK
        <3>2. ~UsesByte => PacketRead = mouse_packet
            BY <2>3, PacketReadIs
        <3>3. PacketRead # mouse_packet
            BY <2>2, <3>1
        <3> QED BY <3>2, <3>3
    <2>5. /\ mouse.sent = 3 /\ mouse.packet \in Packet
          /\ \A n \in 1..3 : PacketRead[n] = ByteOf(mouse.packet, n)
        BY <1>1, <2>2, <2>4, NextByteIsUsed DEF UsesByte
    <2>6. PacketRead[1] = mouse.packet.flags /\ PacketRead[2] = mouse.packet.dx
        BY <2>5, PacketBytes
    <2> QED BY <2>1, <2>2, <2>5, <2>6, PollMouseIs
<1>2. InputInv /\ [InputNext]_inputVars => [~stolen /\ ~misread /\ Changes => Applies]_inputVars
    BY <1>1
<1> QED BY <1>2, InputInductive, PTL DEF InputSpec, AppliesWhatWasSent

=============================================================================
