-------------------------------- MODULE Display --------------------------------
(***************************************************************************)
(* The framebuffer of kernel/arch/x86_64/tables.c: drawing goes to a copy  *)
(* in memory and widens one dirty rectangle; DESKTOP_PRESENT copies that   *)
(* rectangle to the display.  With a Bochs adapter the display has two     *)
(* pages: the hidden one is brought up to date, shown at the next retrace, *)
(* and then the other one is brought up to date too.  Waiting for the      *)
(* retrace may time out and the adapter may refuse to switch; the call     *)
(* then fails half way and keeps the rectangle.                            *)
(*                                                                         *)
(* A pixel of a page is up to date or stale; colours do not matter.  Each  *)
(* drawing primitive is a step of its own: DESKTOP_DRAW runs a list of     *)
(* them and may stop at any one.                                           *)
(***************************************************************************)
EXTENDS Integers

CONSTANTS Width, Height,   \* framebuffer_width, framebuffer_height
          TerminalLeft, TerminalTop, TerminalWidth, TerminalHeight

ASSUME DisplayAssumption ==
    /\ {Width, Height, TerminalWidth, TerminalHeight} \subseteq Nat \ {0}
    /\ {TerminalLeft, TerminalTop} \subseteq Nat

Smaller(a, b) == IF a < b THEN a ELSE b
Larger(a, b) == IF a > b THEN a ELSE b

Pixels == (0..Width - 1) \X (0..Height - 1)
Rect(left, top, right, bottom) ==
    [left |-> left, top |-> top, right |-> right, bottom |-> bottom]
Whole == Rect(0, 0, Width, Height)
Inside(r) == {p \in Pixels : /\ r.left <= p[1] /\ p[1] < r.right
                             /\ r.top <= p[2] /\ p[2] < r.bottom}

VARIABLES framebuffer_dirty,
          dirty,               \* dirty_left, dirty_top, dirty_right, dirty_bottom
          stale,               \* stale[p]: pixels of page p unlike the copy in memory
          bga_front_y,         \* the page the kernel takes for the visible one
          shown,               \* the page the adapter shows
          workspace_visible,   \* framebuffer_workspace_visible
          bga_page_flip,       \* bga_initialize found an adapter with two pages
          pc                   \* "idle", or the step desktop_present is at

dirtyVars == <<framebuffer_dirty, dirty>>
vars == <<dirtyVars, stale, bga_front_y, shown, workspace_visible, bga_page_flip, pc>>

Pages == IF bga_page_flip THEN {0, 1} ELSE {0}

(* The dirty rectangle starts on the screen or in the terminal, the present   *)
(* is at one of its steps (desktop_present).                                 *)
TypeOK ==
    /\ framebuffer_dirty \in BOOLEAN
    /\ dirty \in [left : 0..Width + TerminalLeft, top : 0..Height + TerminalTop,
                  right : 0..Larger(Width, TerminalLeft + TerminalWidth),
                  bottom : 0..Larger(Height, TerminalTop + TerminalHeight)]
    /\ stale \in [Pages -> SUBSET Pixels]
    /\ bga_front_y \in Pages
    /\ shown \in Pages
    /\ workspace_visible \in BOOLEAN
    /\ bga_page_flip \in BOOLEAN
    /\ pc \in {"idle", "retrace", "old"}

(* quanta_arch_display_initialize: nothing of the screen is known, and the first frame   *)
(* drawn into the copy covers all of it.                                     *)
Init ==
    /\ bga_page_flip \in BOOLEAN
    /\ framebuffer_dirty = TRUE
    /\ dirty = Whole
    /\ stale = [p \in Pages |-> Pixels]
    /\ bga_front_y = 0
    /\ shown = 0
    /\ workspace_visible = FALSE
    /\ pc = "idle"

-----------------------------------------------------------------------------
(* The dirty rectangle once r has been drawn.                                *)
Widened(r) ==
    IF framebuffer_dirty
    THEN Rect(Smaller(dirty.left, r.left), Smaller(dirty.top, r.top),
              Larger(dirty.right, r.right), Larger(dirty.bottom, r.bottom))
    ELSE r

(* The part of a rectangle that is on the screen.                            *)
Clipped(left, top, width, height) ==
    Rect(left, top, left + Smaller(width, Width - left), top + Smaller(height, Height - top))

Draws(r) ==
    /\ framebuffer_dirty' = TRUE
    /\ dirty' = Widened(r)
    /\ stale' = [p \in Pages |-> stale[p] \union Inside(r)]

(* fill_rect, and rounded_rect line by line: an empty rectangle inside the   *)
(* screen still makes the framebuffer dirty.                                 *)
framebuffer_fill_rect(left, top, width, height) ==
    /\ pc = "idle"
    /\ left < Width /\ top < Height
    /\ Draws(Clipped(left, top, width, height))
    /\ UNCHANGED <<bga_front_y, shown, workspace_visible, bga_page_flip, pc>>

(* framebuffer_mark_dirty by the wallpaper, an icon or a character.          *)
framebuffer_mark_dirty(left, top, width, height) ==
    /\ width # 0 /\ height # 0
    /\ framebuffer_fill_rect(left, top, width, height)

(* show_workspace and show_terminal repaint everything and choose where the  *)
(* text of the console goes.                                                 *)
desktop_view(workspace) ==
    /\ pc = "idle"
    /\ workspace_visible' = workspace
    /\ Draws(Whole)
    /\ UNCHANGED <<bga_front_y, shown, bga_page_flip, pc>>

(* framebuffer_scroll, for a line feed at the bottom of the terminal.  It    *)
(* widens the rectangle a second time after mark_dirty, by the terminal as   *)
(* it is and not as much of it as the screen shows; then the last line is    *)
(* cleared.                                                                  *)
framebuffer_scroll ==
    LET terminal == Rect(TerminalLeft, TerminalTop, TerminalLeft + TerminalWidth,
                         TerminalTop + TerminalHeight)
    IN
    /\ pc = "idle"
    /\ ~workspace_visible
    /\ Draws(terminal)
    /\ UNCHANGED <<bga_front_y, shown, workspace_visible, bga_page_flip, pc>>

-----------------------------------------------------------------------------
Copied(page) == [stale EXCEPT ![page] = @ \ Inside(dirty)]

(* Seeded fault: the visible page is taken for the hidden one.               *)
FaultyBackPage == bga_front_y

(* The page that is not shown.                                               *)
BackPage == IF bga_front_y = 0 THEN 1 ELSE 0

(* The end of a present that succeeds.                                       *)
Presented ==
    /\ framebuffer_dirty' = FALSE
    /\ workspace_visible' = TRUE
    /\ pc' = "idle"
    /\ UNCHANGED <<dirty, bga_page_flip>>

(* quanta_arch_desktop_present: without two pages, one copy.                 *)
PresentUnsynced ==
    /\ pc = "idle"
    /\ framebuffer_dirty
    /\ ~bga_page_flip
    /\ stale' = Copied(0)
    /\ Presented
    /\ UNCHANGED <<bga_front_y, shown>>

(* With two pages, first a copy to the hidden one.                           *)
PresentBackPage ==
    /\ pc = "idle"
    /\ framebuffer_dirty
    /\ bga_page_flip
    /\ stale' = Copied(BackPage)
    /\ pc' = "retrace"
    /\ UNCHANGED <<dirtyVars, bga_front_y, shown, workspace_visible, bga_page_flip>>

(* No retrace in time, or the adapter kept the old page.                     *)
PresentFails ==
    /\ pc = "retrace"
    /\ pc' = "idle"
    /\ UNCHANGED <<dirtyVars, stale, bga_front_y, shown, workspace_visible, bga_page_flip>>

(* The adapter shows the other page.                                         *)
PresentFlips ==
    /\ pc = "retrace"
    /\ shown' = BackPage
    /\ pc' = "old"
    /\ UNCHANGED <<dirtyVars, stale, bga_front_y, workspace_visible, bga_page_flip>>

(* Seeded fault: the page just hidden is left as it was.                     *)
FaultyPresentOldPage ==
    /\ pc = "old"
    /\ bga_front_y' = BackPage
    /\ Presented
    /\ UNCHANGED <<stale, shown>>

(* Then the page just hidden is brought up to date as well.                  *)
PresentOldPage ==
    /\ pc = "old"
    /\ stale' = Copied(bga_front_y)
    /\ bga_front_y' = BackPage
    /\ Presented
    /\ UNCHANGED shown

Next ==
    \/ \E left \in 0..Width, top \in 0..Height, width \in 0..Width, height \in 0..Height :
          \/ framebuffer_fill_rect(left, top, width, height)
          \/ framebuffer_mark_dirty(left, top, width, height)
    \/ \E workspace \in BOOLEAN : desktop_view(workspace)
    \/ framebuffer_scroll
    \/ PresentUnsynced
    \/ PresentBackPage
    \/ PresentFails
    \/ PresentFlips
    \/ PresentOldPage

Spec == Init /\ [][Next]_vars

-----------------------------------------------------------------------------
(* Every pixel that any page of the display has wrong lies in the dirty      *)
(* rectangle, so that presenting that rectangle alone is enough: whatever    *)
(* was drawn, however the presents before it failed (mark_dirty, fill_rect,  *)
(* scroll, desktop_present).                                                 *)
DirtyCoversStale ==
    \A p \in Pages : stale[p] \subseteq IF framebuffer_dirty THEN Inside(dirty) ELSE {}

(* The page on the screen is never written: with two pages a picture appears *)
(* as a whole, also after a present that failed half way.                    *)
NeverTears ==
    [][bga_page_flip => stale[shown] \subseteq stale'[shown]]_vars

=============================================================================
