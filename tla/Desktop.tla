-------------------------------- MODULE Desktop --------------------------------
(***************************************************************************)
(* The windows of userspace/session.c: Files, Settings and the terminal,   *)
(* which of them has the focus, where the keyboard goes, and dragging,     *)
(* resizing, maximizing and closing with the mouse.                        *)
(*                                                                         *)
(* Screen positions are 32-bit words in the code and numbers modulo        *)
(* Modulus here; a glyph is one column wide.  Only the horizontal axis is  *)
(* kept: all windows share their rows, and the pointer is over the title   *)
(* bar, the body or the last row of the body of all of them.  The vertical *)
(* coordinate is computed in the same way.  The left button is the only    *)
(* one that does anything; the session knows it from the last event it     *)
(* looked at, and read_line, which asks for a line, looks at none.  Where  *)
(* the pointer was before an event matters to drawing only.                *)
(***************************************************************************)
EXTENDS Integers

CONSTANTS Modulus,                           \* 2^32
          ScreenWidth, DockWidth,
          FilesX, FilesWidth,                \* as draw_files computes them
          SettingsX, SettingsWidth, TerminalX, TerminalWidth,
          MinWidth, MaxWidth,                \* the limits of resizing
          PointerColumns,                    \* where the mouse moves
          Apps                               \* what the user launches

AppNames == {"settings", "files", "terminal"}

ASSUME DesktopAssumption ==
    /\ {Modulus, ScreenWidth, FilesWidth, SettingsWidth, TerminalWidth, MinWidth, MaxWidth}
            \subseteq Nat \ {0}
    /\ {DockWidth, FilesX, SettingsX, TerminalX} \subseteq Nat
    /\ DockWidth < ScreenWidth /\ ScreenWidth < Modulus
    /\ FilesX < Modulus /\ SettingsX < Modulus /\ TerminalX < Modulus
    /\ FilesWidth < Modulus /\ SettingsWidth < Modulus /\ TerminalWidth < Modulus
    /\ MinWidth <= MaxWidth /\ MaxWidth < Modulus
    /\ PointerColumns \subseteq 0..ScreenWidth - 1
    /\ Apps \subseteq AppNames

VARIABLES files, settings,    \* files_window, settings_window
          terminal,           \* terminal_open, terminal_x, ...
          pressed,            \* bit 0 of pointer_buttons
          desktop_view,
          desktop_selection,
          abandoned           \* history: a login ended with the button up in a gesture
                              \* that no event has ended since

windows == <<files, settings, terminal>>
vars == <<windows, pressed, desktop_view, desktop_selection, abandoned>>

Columns == 0..Modulus - 1
Widths == 1..Modulus - 1
Rows == {"title", "body", "last", "outside"}

(* A desktop_window: dragging is 1 while it moves and 2 while it is resized. *)
Window == [open : BOOLEAN, minimized : BOOLEAN, focused : BOOLEAN, dragging : 0..2,
           x : Columns, width : Widths, drag_x : Columns,
           maximized : BOOLEAN, restore_x : Columns, restore_width : Widths]

Terminal == [open : BOOLEAN, minimized : BOOLEAN, focused : BOOLEAN, dragging : 0..2,
             x : Columns, width : Widths, drag_x : Columns, resize_width : Widths]

ClosedWindow(x, width) ==
    [open |-> FALSE, minimized |-> FALSE, focused |-> FALSE, dragging |-> 0,
     x |-> x, width |-> width, drag_x |-> 0,
     maximized |-> FALSE, restore_x |-> 0, restore_width |-> width]

(* Every window keeps a shape that can be shown: a column of 32 bits, a      *)
(* width that is not zero, one gesture at most (struct desktop_window).      *)
TypeOK ==
    /\ files \in Window
    /\ settings \in Window
    /\ terminal \in Terminal
    /\ pressed \in BOOLEAN
    /\ desktop_view \in {"workspace", "settings", "files", "terminal"}
    /\ desktop_selection \in AppNames
    /\ abandoned \in BOOLEAN

(* As the first login leaves it: the button may be down.                     *)
Init ==
    /\ files = ClosedWindow(FilesX, FilesWidth)
    /\ settings = ClosedWindow(SettingsX, SettingsWidth)
    /\ terminal = [open |-> FALSE, minimized |-> FALSE, focused |-> FALSE, dragging |-> 0,
                   x |-> TerminalX, width |-> TerminalWidth, drag_x |-> 0,
                   resize_width |-> TerminalWidth]
    /\ pressed \in BOOLEAN
    /\ desktop_view = "workspace"
    /\ desktop_selection = "settings"
    /\ abandoned = FALSE

-----------------------------------------------------------------------------
Word(n) == n % Modulus
Shown(w) == w.open /\ ~w.minimized
Focused(w, yes) == [w EXCEPT !.focused = yes]
Between(low, n, high) == IF n < low THEN low ELSE IF n > high THEN high ELSE n

(* window_contains; the terminal has no other test.                          *)
window_contains(w, x) == Shown(w) /\ x >= w.x /\ x < Word(w.x + w.width)

(* The last columns of a title bar and of the last row.                      *)
AtRight(w, x, columns) == x >= Word(w.x + w.width - columns)

(* Both windows when draw_files, draw_settings or launch_terminal is called. *)
OpenedFiles(w) == [w EXCEPT !.x = FilesX, !.width = FilesWidth, !.open = TRUE,
                            !.minimized = FALSE, !.focused = TRUE]
OpenedSettings == [settings EXCEPT !.open = TRUE, !.minimized = FALSE, !.focused = TRUE]
OpenedTerminal == [terminal EXCEPT !.open = TRUE, !.minimized = FALSE, !.focused = TRUE]

(* Launching an application from the dock or with a key.                     *)
FilesAfter(app) ==
    CASE app = "files" -> OpenedFiles(files)
      [] app = "settings" -> files
      [] app = "terminal" -> Focused(files, FALSE)
SettingsAfter(app) == IF app = "settings" THEN OpenedSettings ELSE Focused(settings, FALSE)
TerminalAfter(app) == IF app = "terminal" THEN OpenedTerminal ELSE Focused(terminal, FALSE)

(* Seeded fault: drawing leaves the keyboard where it was.                   *)
FaultyDrawWorkspace == UNCHANGED desktop_view

(* draw_workspace, the end of nearly everything: it also names the desktop   *)
(* as the receiver of the keyboard.                                          *)
draw_workspace == desktop_view' = "workspace"

Restored(w) == [w EXCEPT !.x = w.restore_x, !.width = w.restore_width, !.maximized = FALSE]
Maximized(w) ==
    [w EXCEPT !.restore_x = w.x, !.restore_width = w.width, !.x = DockWidth,
              !.width = ScreenWidth - DockWidth, !.maximized = TRUE]

(* Seeded fault: minimizing a window leaves it the focus.                    *)
FaultyPointerDown(w, x, row) ==
    LET focused == Focused(w, TRUE) IN
    IF row # "title" THEN focused
    ELSE IF AtRight(w, x, 1) THEN [focused EXCEPT !.open = FALSE, !.focused = FALSE]
    ELSE IF AtRight(w, x, 3) THEN [focused EXCEPT !.minimized = TRUE] ELSE focused

(* window_pointer_down: close, maximize, minimize, drag or resize.           *)
PointerDown(w, x, row) ==
    LET focused == Focused(w, TRUE)
        grabbed == IF w.maximized THEN Restored(focused) ELSE focused
    IN
    IF row = "title"
    THEN IF AtRight(w, x, 1) THEN [focused EXCEPT !.open = FALSE, !.focused = FALSE]
         ELSE IF AtRight(w, x, 2) THEN IF w.maximized THEN Restored(focused) ELSE Maximized(focused)
         ELSE IF AtRight(w, x, 3) THEN [focused EXCEPT !.minimized = TRUE, !.focused = FALSE]
         ELSE [grabbed EXCEPT !.dragging = 1, !.drag_x = Word(x - grabbed.x)]
    ELSE IF row = "last" /\ AtRight(w, x, 1) THEN [focused EXCEPT !.dragging = 2, !.drag_x = x]
    ELSE focused

-----------------------------------------------------------------------------
(* What a mouse event does to a window that is being dragged or resized.     *)
MovedWindow(w, x) ==
    IF w.dragging = 1 THEN [w EXCEPT !.x = Word(x - w.drag_x)]
    ELSE IF w.dragging = 2
    THEN [w EXCEPT !.width = Between(MinWidth, w.width + x - w.drag_x, MaxWidth), !.drag_x = x]
    ELSE w

MovedTerminal(t, x) ==
    IF t.dragging = 1 THEN [t EXCEPT !.x = Word(x - t.drag_x)]
    ELSE IF t.dragging = 2
    THEN [t EXCEPT !.width = Between(MinWidth, t.resize_width + x - t.drag_x, MaxWidth)]
    ELSE t

(* Of the gestures in progress one has its window follow the pointer.        *)
Follower(f, s, t) ==
    CASE t.dragging = 1 -> "terminal"
      [] t.dragging # 1 /\ f.dragging = 1 -> "files"
      [] t.dragging # 1 /\ f.dragging # 1 /\ s.dragging = 1 -> "settings"
      [] OTHER -> IF f.dragging = 2 THEN "files" ELSE IF s.dragging = 2 THEN "settings" ELSE "terminal"

(* The end of an event with the button down, for the windows as the press,   *)
(* if it was one, has left them.                                             *)
Follow(f, s, t, x) ==
    /\ files' = IF Follower(f, s, t) = "files" THEN MovedWindow(f, x) ELSE f
    /\ settings' = IF Follower(f, s, t) = "settings" THEN MovedWindow(s, x) ELSE s
    /\ terminal' = IF Follower(f, s, t) = "terminal" THEN MovedTerminal(t, x) ELSE t

(* The button goes down: the first window of this fixed order that has the   *)
(* pointer in it gets the click, whichever is drawn on top.                  *)
PressFiles(x, row) ==
    /\ window_contains(files, x) /\ row # "outside"
    /\ LET clicked == PointerDown(files, x, row)
           Click(f) == Follow(f, Focused(settings, FALSE), Focused(terminal, FALSE), x)
       IN \/ Click(clicked) /\ UNCHANGED desktop_selection
          \/ (* files_pointer_down opens a directory, draw_files the window    *)
             (* again; a click that maximized it may fall on an entry, too.    *)
             /\ Shown(clicked) /\ clicked.dragging = 0
             /\ Click(OpenedFiles(clicked))
             /\ desktop_selection' = "files"

PressSettings(x, row) ==
    /\ ~window_contains(files, x)
    /\ window_contains(settings, x) /\ row # "outside"
    /\ Follow(Focused(files, FALSE), PointerDown(settings, x, row), Focused(terminal, FALSE), x)
    /\ UNCHANGED desktop_selection

(* Neither Files nor Settings has the pointer.                               *)
Past(x, row) == row = "outside" \/ (~window_contains(files, x) /\ ~window_contains(settings, x))

TitleDown(x) ==
    IF AtRight(terminal, x, 1) THEN [terminal EXCEPT !.open = FALSE, !.focused = FALSE]
    ELSE IF AtRight(terminal, x, 2) THEN [terminal EXCEPT !.minimized = TRUE, !.focused = FALSE]
    ELSE [terminal EXCEPT !.focused = TRUE, !.dragging = 1, !.drag_x = Word(x - terminal.x)]

PressTerminalTitle(x, row) ==
    /\ Past(x, row)
    /\ window_contains(terminal, x) /\ row = "title"
    /\ Follow(Focused(files, FALSE), Focused(settings, FALSE), TitleDown(x), x)
    /\ UNCHANGED desktop_selection

(* Without a test against the terminal's left edge, which may have wrapped.  *)
InTerminalCorner(x, row) ==
    /\ Shown(terminal) /\ row = "last"
    /\ AtRight(terminal, x, 1) /\ x < Word(terminal.x + terminal.width)

CornerDown(x) == [terminal EXCEPT !.dragging = 2, !.drag_x = x, !.resize_width = terminal.width]

PressTerminalCorner(x, row) ==
    /\ Past(x, row)
    /\ InTerminalCorner(x, row)
    /\ Follow(files, settings, CornerDown(x), x)
    /\ UNCHANGED desktop_selection

InDock(x, row) == x < DockWidth /\ row # "outside"

(* The dock goes before the body of the terminal.                            *)
PressDock(x, row) ==
    /\ Past(x, row)
    /\ ~(window_contains(terminal, x) /\ row = "title")
    /\ ~InTerminalCorner(x, row)
    /\ InDock(x, row)
    /\ \E app \in Apps : /\ Follow(FilesAfter(app), SettingsAfter(app), TerminalAfter(app), x)
                         /\ desktop_selection' = app

PressTerminalBody(x, row) ==
    /\ Past(x, row)
    /\ window_contains(terminal, x) /\ row \in {"body", "last"}
    /\ ~InTerminalCorner(x, row)
    /\ ~InDock(x, row)
    /\ Follow(files, settings, Focused(terminal, TRUE), x)
    /\ UNCHANGED desktop_selection

(* On the desktop only the terminal loses the focus.                         *)
PressDesktop(x, row) ==
    /\ Past(x, row)
    /\ row = "outside" \/ ~window_contains(terminal, x)
    /\ ~InTerminalCorner(x, row)
    /\ ~InDock(x, row)
    /\ Follow(files, settings, Focused(terminal, FALSE), x)
    /\ UNCHANGED desktop_selection

(* desktop_mouse_event when the button goes down; while the terminal is      *)
(* dragged or resized that is no press.                                      *)
Press(x, row) ==
    /\ ~pressed /\ terminal.dragging = 0
    /\ pressed' = TRUE
    /\ \/ PressFiles(x, row)
       \/ PressSettings(x, row)
       \/ PressTerminalTitle(x, row)
       \/ PressTerminalCorner(x, row)
       \/ PressDock(x, row)
       \/ PressTerminalBody(x, row)
       \/ PressDesktop(x, row)
    /\ draw_workspace
    /\ UNCHANGED abandoned

(* Any other event with the button down.  All is drawn when the terminal is  *)
(* dragged or resized or a button, perhaps another one, has changed.         *)
Move(x) ==
    /\ pressed \/ terminal.dragging # 0
    /\ pressed' = TRUE
    /\ Follow(files, settings, terminal, x)
    /\ draw_workspace \/ (pressed /\ terminal.dragging = 0 /\ UNCHANGED desktop_view)
    /\ UNCHANGED <<desktop_selection, abandoned>>

(* Seeded fault: the release forgets that a window is being resized.         *)
FaultyLetGo(w) == IF w.dragging = 1 THEN [w EXCEPT !.dragging = 0] ELSE w

LetGo(w) == [w EXCEPT !.dragging = 0]

(* An event with the button up, whether it was down before or not.           *)
Release(x) ==
    /\ pressed' = FALSE
    /\ files' = LetGo(files)
    /\ settings' = LetGo(settings)
    /\ terminal' = LetGo(terminal)
    /\ abandoned' = FALSE
    /\ draw_workspace \/ (~pressed /\ UNCHANGED desktop_view)
    /\ UNCHANGED desktop_selection

-----------------------------------------------------------------------------
(* Alt+F1 and Alt+F2, in every state of the windows.                         *)
AltF1 ==
    /\ terminal' = OpenedTerminal
    /\ draw_workspace
    /\ UNCHANGED <<files, settings, pressed, desktop_selection, abandoned>>

AltF2 ==
    /\ terminal' = Focused(terminal, FALSE)
    /\ draw_workspace
    /\ UNCHANGED <<files, settings, pressed, desktop_selection, abandoned>>

(* A line for the terminal, other than those of Logout.                      *)
Command ==
    /\ terminal.focused
    /\ draw_workspace
    /\ UNCHANGED <<windows, pressed, desktop_selection, abandoned>>

(* exit and logout: login() follows the mouse by itself until the user has   *)
(* signed in, and knows nothing of gestures.                                 *)
Logout(held) ==
    /\ terminal.focused
    /\ pressed' = held
    /\ abandoned' = (abandoned \/ (~held /\ \E w \in {files, settings, terminal} : w.dragging # 0))
    /\ draw_workspace
    /\ UNCHANGED <<windows, desktop_selection>>

(* desktop_dispatch: the launcher's keys.  Its branches for the other views  *)
(* are never taken, see OnlyTheLauncherListens.                              *)
LauncherListens == ~terminal.focused /\ desktop_view = "workspace"

SelectUp ==
    /\ LauncherListens
    /\ desktop_selection' = IF desktop_selection = "terminal" THEN "files" ELSE "settings"
    /\ draw_workspace
    /\ UNCHANGED <<windows, pressed, abandoned>>

SelectDown ==
    /\ LauncherListens
    /\ desktop_selection' = IF desktop_selection = "settings" THEN "files" ELSE "terminal"
    /\ draw_workspace
    /\ UNCHANGED <<windows, pressed, abandoned>>

(* Enter, f and s; launching the terminal draws nothing.                     *)
LaunchKey(app) ==
    /\ LauncherListens
    /\ app \in {desktop_selection, "files", "settings"}
    /\ files' = FilesAfter(app) /\ settings' = SettingsAfter(app) /\ terminal' = TerminalAfter(app)
    /\ desktop_selection' = app
    /\ IF app = "terminal" THEN desktop_view' = "terminal" ELSE draw_workspace
    /\ UNCHANGED <<pressed, abandoned>>

Next ==
    \/ \E x \in PointerColumns :
          \/ \E row \in Rows : Press(x, row)
          \/ Move(x)
          \/ Release(x)
    \/ AltF1
    \/ AltF2
    \/ Command
    \/ \E held \in BOOLEAN : Logout(held)
    \/ SelectUp
    \/ SelectDown
    \/ \E app \in Apps : LaunchKey(app)

Spec == Init /\ [][Next]_vars

-----------------------------------------------------------------------------
AllWindows == {files, settings, terminal}

(* Whatever is clicked and typed, a window that has the focus is on the      *)
(* screen: typing never goes to one that was closed or minimized             *)
(* (window_pointer_down, desktop_mouse_event).                               *)
FocusIsVisible == \A w \in AllWindows : w.focused => Shown(w)

(* One thing at most is dragged or resized, only while the button is held    *)
(* for all the session knows, and it can be seen: no window goes on          *)
(* following the pointer.  What may break this is a login that ends with the *)
(* button up during a gesture, and only until the next event without the     *)
(* button (login, desktop_mouse_event).                                      *)
OneGesture ==
    LET Moving(w) == w.dragging # 0
    IN ~abandoned =>
         /\ \A w \in AllWindows : Moving(w) => pressed /\ Shown(w)
         /\ ~(Moving(files) /\ Moving(settings))
         /\ ~(Moving(terminal) /\ (Moving(files) \/ Moving(settings)))

(* Keys reach the launcher or the terminal and nothing else: the branches of *)
(* desktop_dispatch for Files, Settings and the preview are dead, because    *)
(* draw_workspace takes the keyboard back at the end of every step that      *)
(* gives it to a window.                                                     *)
OnlyTheLauncherListens ==
    desktop_view = "workspace" \/ (desktop_view = "terminal" /\ terminal.focused)

=============================================================================
