----------------------------- MODULE SessionProofs -----------------------------
(***************************************************************************)
(* The session, userspace/session.c.                                        *)
(*                                                                         *)
(* Its windows, for every screen, every place of the windows and every      *)
(* pointer column: the focus and the gesture are always those of a window   *)
(* that can be seen, but for the gestures that a login has abandoned.       *)
(*                                                                         *)
(* Its file names, for every set of names and arguments and every bound on  *)
(* paths, listings, handles, nodes and disk errors: the current directory   *)
(* is one, and the Files window shows it.                                   *)
(***************************************************************************)
EXTENDS Desktop, SessionFiles, SequenceTheorems, WellFoundedInduction, TLAPS

(* A window that has the focus, or is dragged or resized, can be seen.       *)
Sound(w) == w.focused => Shown(w)
Grip(w) == w.dragging # 0 => Shown(w)
Single(f, s, t) ==
    /\ f.dragging = 0 \/ s.dragging = 0
    /\ t.dragging = 0 \/ (f.dragging = 0 /\ s.dragging = 0)

(* What a handler must leave of the windows.                                 *)
Fit(f, s, t) ==
    /\ f \in Window /\ s \in Window /\ t \in Terminal
    /\ Sound(f) /\ Sound(s) /\ Sound(t)
    /\ ~abandoned => Grip(f) /\ Grip(s) /\ Grip(t) /\ Single(f, s, t)

AtRest == files.dragging = 0 /\ settings.dragging = 0 /\ terminal.dragging = 0

DesktopInv ==
    /\ TypeOK
    /\ Fit(files, settings, terminal)
    /\ ~abandoned => AtRest \/ pressed
    /\ OnlyTheLauncherListens

-----------------------------------------------------------------------------
(* Numbers.                                                                  *)
LEMMA WordIsAColumn ==
    ASSUME NEW n \in Int
    PROVE  Word(n) \in Columns
<1>1. Modulus \in Nat \ {0}
    BY DesktopAssumption
<1> QED BY <1>1 DEF Word, Columns

LEMMA BetweenIsAWidth ==
    ASSUME NEW n \in Int
    PROVE  Between(MinWidth, n, MaxWidth) \in Widths
<1>1. /\ MinWidth \in Nat \ {0} /\ MaxWidth \in Nat \ {0} /\ Modulus \in Nat
      /\ MinWidth <= MaxWidth /\ MaxWidth < Modulus
    BY DesktopAssumption
<1> QED BY <1>1 DEF Between, Widths

LEMMA Pointer ==
    ASSUME NEW x \in PointerColumns
    PROVE  x \in Int /\ x \in Columns
BY DesktopAssumption DEF Columns

-----------------------------------------------------------------------------
(* What the handlers make of a window.                                       *)
LEMMA Unfocused ==
    /\ \A w \in Window : /\ Focused(w, FALSE) \in Window /\ Sound(Focused(w, FALSE))
                         /\ (Grip(w) => Grip(Focused(w, FALSE)))
                         /\ Focused(w, FALSE).dragging = w.dragging
    /\ \A t \in Terminal : /\ Focused(t, FALSE) \in Terminal /\ Sound(Focused(t, FALSE))
                           /\ (Grip(t) => Grip(Focused(t, FALSE)))
                           /\ Focused(t, FALSE).dragging = t.dragging
BY DEF Focused, Window, Terminal, Sound, Grip, Shown

LEMMA Moved ==
    ASSUME NEW w \in Window, NEW x \in PointerColumns
    PROVE  /\ MovedWindow(w, x) \in Window /\ (Sound(w) => Sound(MovedWindow(w, x)))
           /\ (Grip(w) => Grip(MovedWindow(w, x)))
           /\ MovedWindow(w, x).dragging = w.dragging
<1>1. CASE w.dragging = 1
    <2>1. Word(x - w.drag_x) \in Columns
        BY WordIsAColumn, Pointer DEF Window, Columns
    <2> DEFINE v == [w EXCEPT !.x = Word(x - w.drag_x)]
    <2>2. v \in Window /\ v.open = w.open /\ v.minimized = w.minimized /\ v.focused = w.focused
          /\ v.dragging = w.dragging
        BY <2>1 DEF Window
    <2>3. MovedWindow(w, x) = v
        BY <1>1 DEF MovedWindow
    <2> HIDE DEF v
    <2> QED BY <2>2, <2>3 DEF Sound, Grip, Shown
<1>2. CASE w.dragging = 2
    <2>1. Between(MinWidth, w.width + x - w.drag_x, MaxWidth) \in Widths
        BY BetweenIsAWidth, Pointer DEF Window, Columns, Widths
    <2>2. x \in Columns
        BY Pointer
    <2> DEFINE v == [w EXCEPT !.width = Between(MinWidth, w.width + x - w.drag_x, MaxWidth), !.drag_x = x]
    <2>3. v \in Window /\ v.open = w.open /\ v.minimized = w.minimized /\ v.focused = w.focused
          /\ v.dragging = w.dragging
        BY <2>1, <2>2 DEF Window
    <2>4. MovedWindow(w, x) = v
        BY <1>2 DEF MovedWindow
    <2> HIDE DEF v
    <2> QED BY <2>3, <2>4 DEF Sound, Grip, Shown
<1>3. CASE w.dragging \notin {1, 2}
    BY <1>3 DEF MovedWindow
<1> QED BY <1>1, <1>2, <1>3

LEMMA TerminalMoved ==
    ASSUME NEW t \in Terminal, NEW x \in PointerColumns
    PROVE  /\ MovedTerminal(t, x) \in Terminal /\ (Sound(t) => Sound(MovedTerminal(t, x)))
           /\ (Grip(t) => Grip(MovedTerminal(t, x)))
           /\ MovedTerminal(t, x).dragging = t.dragging /\ MovedTerminal(t, x).focused = t.focused
<1>1. CASE t.dragging = 1
    <2>1. Word(x - t.drag_x) \in Columns
        BY WordIsAColumn, Pointer DEF Terminal, Columns
    <2> QED BY <1>1, <2>1 DEF MovedTerminal, Terminal, Sound, Grip, Shown
<1>2. CASE t.dragging = 2
    <2>1. Between(MinWidth, t.resize_width + x - t.drag_x, MaxWidth) \in Widths
        BY BetweenIsAWidth, Pointer DEF Terminal, Columns, Widths
    <2> QED BY <1>2, <2>1 DEF MovedTerminal, Terminal, Sound, Grip, Shown
<1>3. CASE t.dragging \notin {1, 2}
    BY <1>3 DEF MovedTerminal
<1> QED BY <1>1, <1>2, <1>3

LEMMA Followed ==
    ASSUME NEW f, NEW s, NEW t, NEW x \in PointerColumns,
           Fit(f, s, t), Follow(f, s, t, x), abandoned' = abandoned
    PROVE  /\ Fit(files, settings, terminal)'
           /\ terminal'.focused = t.focused
<1>1. f \in Window /\ s \in Window /\ t \in Terminal /\ Sound(f) /\ Sound(s) /\ Sound(t)
    BY DEF Fit
<1>2. files' \in {f, MovedWindow(f, x)} /\ settings' \in {s, MovedWindow(s, x)}
      /\ terminal' \in {t, MovedTerminal(t, x)}
    BY DEF Follow
<1>3. /\ files' \in Window /\ Sound(files)' /\ files'.dragging = f.dragging /\ (Grip(f) => Grip(files)')
      /\ settings' \in Window /\ Sound(settings)' /\ settings'.dragging = s.dragging
      /\ (Grip(s) => Grip(settings)')
    BY <1>1, <1>2, Moved DEF Sound, Grip, Shown
<1>4. /\ terminal' \in Terminal /\ Sound(terminal)' /\ terminal'.dragging = t.dragging
      /\ terminal'.focused = t.focused /\ (Grip(t) => Grip(terminal)')
    BY <1>1, <1>2, TerminalMoved DEF Sound, Grip, Shown
<1>5. ~abandoned => Grip(f) /\ Grip(s) /\ Grip(t) /\ Single(f, s, t)
    BY DEF Fit
<1>6. ~abandoned' => Grip(files)' /\ Grip(settings)' /\ Grip(terminal)' /\ Single(files, settings, terminal)'
    BY <1>3, <1>4, <1>5 DEF Single
<1> QED BY <1>3, <1>4, <1>6 DEF Fit

LEMMA Clicked ==
    ASSUME NEW w \in Window, Shown(w), NEW x \in PointerColumns, NEW row \in Rows
    PROVE  /\ PointerDown(w, x, row) \in Window /\ Sound(PointerDown(w, x, row))
           /\ w.dragging = 0 => Grip(PointerDown(w, x, row))
<1> DEFINE focused == Focused(w, TRUE)
           grabbed == IF w.maximized THEN Restored(focused) ELSE focused
<1>1. focused \in Window /\ Shown(focused) /\ focused.dragging = w.dragging /\ focused.maximized = w.maximized
    BY DEF Focused, Window, Shown
<1> HIDE DEF focused
<1>2. Restored(focused) \in Window /\ Shown(Restored(focused))
    BY <1>1 DEF Restored, Window, Shown
<1>3. Maximized(focused) \in Window /\ Shown(Maximized(focused))
    <2>1. DockWidth \in Columns /\ ScreenWidth - DockWidth \in Widths
        BY DesktopAssumption DEF Columns, Widths
    <2>2. focused.x \in Columns /\ focused.width \in Widths
        BY <1>1 DEF Window
    <2> QED BY <1>1, <2>1, <2>2 DEF Maximized, Window, Shown
<1>4. grabbed \in Window /\ Shown(grabbed)
    BY <1>1, <1>2
<1> HIDE DEF grabbed
<1> DEFINE closed == [focused EXCEPT !.open = FALSE, !.focused = FALSE]
           hidden == [focused EXCEPT !.minimized = TRUE, !.focused = FALSE]
           dragged == [grabbed EXCEPT !.dragging = 1, !.drag_x = Word(x - grabbed.x)]
           resized == [focused EXCEPT !.dragging = 2, !.drag_x = x]
<1>5. /\ closed \in Window /\ closed.focused = FALSE /\ closed.dragging = w.dragging
      /\ hidden \in Window /\ hidden.focused = FALSE /\ hidden.dragging = w.dragging
    BY <1>1 DEF Window
<1>6. dragged \in Window /\ dragged.open = grabbed.open /\ dragged.minimized = grabbed.minimized
    <2>1. Word(x - grabbed.x) \in Columns /\ 1 \in 0..2
        BY <1>4, WordIsAColumn, Pointer DEF Window, Columns
    <2> QED BY <1>4, <2>1 DEF Window
<1>7. resized \in Window /\ resized.open = focused.open /\ resized.minimized = focused.minimized
    <2>1. x \in Columns /\ 2 \in 0..2
        BY Pointer
    <2> QED BY <1>1, <2>1 DEF Window
<1>8. PointerDown(w, x, row) \in
         {focused, Restored(focused), Maximized(focused), closed, hidden, dragged, resized}
    BY DEF PointerDown, focused, grabbed
<1> HIDE DEF closed, hidden, dragged, resized
<1>9. /\ Shown(dragged) /\ Shown(resized)
      /\ Sound(closed) /\ Sound(hidden)
      /\ w.dragging = 0 => Grip(closed) /\ Grip(hidden)
    BY <1>1, <1>4, <1>5, <1>6, <1>7 DEF Shown, Sound, Grip
<1>10. \A v : Shown(v) => Sound(v) /\ Grip(v)
    BY DEF Sound, Grip
<1> QED BY <1>1, <1>2, <1>3, <1>5, <1>6, <1>7, <1>8, <1>9, <1>10

LEMMA Opened ==
    /\ \A w \in Window : OpenedFiles(w) \in Window /\ Sound(OpenedFiles(w)) /\ Grip(OpenedFiles(w))
                         /\ OpenedFiles(w).dragging = w.dragging
    /\ settings \in Window => /\ OpenedSettings \in Window /\ Sound(OpenedSettings) /\ Grip(OpenedSettings)
                              /\ OpenedSettings.dragging = settings.dragging
    /\ terminal \in Terminal => /\ OpenedTerminal \in Terminal /\ Sound(OpenedTerminal) /\ Grip(OpenedTerminal)
                                /\ OpenedTerminal.focused /\ OpenedTerminal.dragging = terminal.dragging
<1>1. FilesX \in Columns /\ FilesWidth \in Widths
    BY DesktopAssumption DEF Columns, Widths
<1>2. ASSUME NEW w \in Window
      PROVE  OpenedFiles(w) \in Window /\ Sound(OpenedFiles(w)) /\ Grip(OpenedFiles(w))
             /\ OpenedFiles(w).dragging = w.dragging
    BY <1>1 DEF OpenedFiles, Window, Sound, Grip, Shown
<1>3. settings \in Window => /\ OpenedSettings \in Window /\ Sound(OpenedSettings) /\ Grip(OpenedSettings)
                             /\ OpenedSettings.dragging = settings.dragging
    BY DEF OpenedSettings, Window, Sound, Grip, Shown
<1>4. terminal \in Terminal => /\ OpenedTerminal \in Terminal /\ Sound(OpenedTerminal) /\ Grip(OpenedTerminal)
                               /\ OpenedTerminal.focused /\ OpenedTerminal.dragging = terminal.dragging
    BY DEF OpenedTerminal, Terminal, Sound, Grip, Shown
<1> QED BY <1>2, <1>3, <1>4

(* A launch leaves the gestures as they are.                                 *)
LEMMA Launched ==
    ASSUME DesktopInv, NEW app \in AppNames
    PROVE  /\ Fit(FilesAfter(app), SettingsAfter(app), TerminalAfter(app))
           /\ FilesAfter(app).dragging = files.dragging
           /\ SettingsAfter(app).dragging = settings.dragging
           /\ TerminalAfter(app).dragging = terminal.dragging
           /\ app = "terminal" => TerminalAfter(app).focused
<1>1. Fit(files, settings, terminal)
    BY DEF DesktopInv
<1>2. files \in Window /\ settings \in Window /\ terminal \in Terminal
      /\ Sound(files) /\ Sound(settings) /\ Sound(terminal)
    BY <1>1 DEF Fit
<1>3. FilesAfter(app) \in {files, OpenedFiles(files), Focused(files, FALSE)}
    BY DEF FilesAfter, AppNames
<1>4. SettingsAfter(app) \in {OpenedSettings, Focused(settings, FALSE)}
    BY DEF SettingsAfter
<1>5. TerminalAfter(app) \in {OpenedTerminal, Focused(terminal, FALSE)}
    BY DEF TerminalAfter
<1>6. /\ FilesAfter(app) \in Window /\ Sound(FilesAfter(app)) /\ (Grip(files) => Grip(FilesAfter(app)))
      /\ FilesAfter(app).dragging = files.dragging
    BY <1>2, <1>3, Opened, Unfocused
<1>7. /\ SettingsAfter(app) \in Window /\ Sound(SettingsAfter(app))
      /\ (Grip(settings) => Grip(SettingsAfter(app)))
      /\ SettingsAfter(app).dragging = settings.dragging
    BY <1>2, <1>4, Opened, Unfocused
<1>8. /\ TerminalAfter(app) \in Terminal /\ Sound(TerminalAfter(app))
      /\ (Grip(terminal) => Grip(TerminalAfter(app)))
      /\ TerminalAfter(app).dragging = terminal.dragging
    BY <1>2, <1>5, Opened, Unfocused
<1>9. app = "terminal" => TerminalAfter(app).focused
    BY <1>2, Opened DEF TerminalAfter
<1> QED BY <1>1, <1>6, <1>7, <1>8, <1>9 DEF Fit, Single

-----------------------------------------------------------------------------
LEMMA InitDesktopInv == Init => DesktopInv
<1> SUFFICES ASSUME Init PROVE DesktopInv
    OBVIOUS
<1>1. /\ FilesX \in Columns /\ SettingsX \in Columns /\ TerminalX \in Columns /\ 0 \in Columns
      /\ FilesWidth \in Widths /\ SettingsWidth \in Widths /\ TerminalWidth \in Widths
    BY DesktopAssumption DEF Columns, Widths
<1>2. files \in Window /\ settings \in Window /\ terminal \in Terminal
    BY <1>1 DEF Init, ClosedWindow, Window, Terminal
<1>3. /\ ~files.focused /\ ~settings.focused /\ ~terminal.focused
      /\ files.dragging = 0 /\ settings.dragging = 0 /\ terminal.dragging = 0
    BY DEF Init, ClosedWindow
<1>4. TypeOK
    BY <1>2 DEF Init, TypeOK, AppNames
<1>5. Fit(files, settings, terminal) /\ AtRest
    BY <1>2, <1>3 DEF Fit, Sound, Grip, Single, AtRest
<1> QED BY <1>4, <1>5 DEF Init, DesktopInv, OnlyTheLauncherListens

(* Without an abandoned gesture a press begins when nothing is dragged.      *)
LEMMA PressDesktopInv ==
    ASSUME DesktopInv, NEW x \in PointerColumns, NEW row \in Rows, Press(x, row)
    PROVE  DesktopInv'
<1>1. /\ files \in Window /\ settings \in Window /\ terminal \in Terminal /\ desktop_selection \in AppNames
      /\ Sound(files) /\ Sound(settings) /\ Sound(terminal)
      /\ ~abandoned => AtRest
    BY DEF DesktopInv, TypeOK, Fit, Press
<1>2. pressed' = TRUE /\ desktop_view' = "workspace" /\ abandoned' = abandoned
    BY DEF Press, draw_workspace
<1>3. abandoned \in BOOLEAN
    BY DEF DesktopInv, TypeOK
<1> SUFFICES ASSUME TRUE PROVE Fit(files, settings, terminal)' /\ desktop_selection' \in AppNames
    BY <1>2, <1>3 DEF DesktopInv, TypeOK, Fit, OnlyTheLauncherListens
<1>4. /\ \A w \in Window : w.dragging = 0 => Grip(w)
      /\ \A t \in Terminal : t.dragging = 0 => Grip(t)
    BY DEF Grip
<1>5. /\ Focused(files, FALSE) \in Window /\ Sound(Focused(files, FALSE))
      /\ Focused(files, FALSE).dragging = files.dragging
      /\ Focused(settings, FALSE) \in Window /\ Sound(Focused(settings, FALSE))
      /\ Focused(settings, FALSE).dragging = settings.dragging
      /\ Focused(terminal, FALSE) \in Terminal /\ Sound(Focused(terminal, FALSE))
      /\ Focused(terminal, FALSE).dragging = terminal.dragging
    BY <1>1, Unfocused
<1>6. CASE PressFiles(x, row)
    <2> DEFINE clicked == PointerDown(files, x, row)
               Ends(f) == Follow(f, Focused(settings, FALSE), Focused(terminal, FALSE), x)
    <2>1. Shown(files)
        BY <1>6 DEF PressFiles, window_contains
    <2>2. clicked \in Window /\ Sound(clicked) /\ (files.dragging = 0 => Grip(clicked))
        BY <1>1, <2>1, Clicked
    <2>3. Ends(clicked) \/ Ends(OpenedFiles(clicked))
        BY <1>6 DEF PressFiles
    <2>4. desktop_selection' = desktop_selection \/ desktop_selection' = "files"
        BY <1>6 DEF PressFiles
    <2> HIDE DEF clicked
    <2>5. \A f \in {clicked, OpenedFiles(clicked)} :
              f \in Window /\ Sound(f) /\ (files.dragging = 0 => Grip(f))
        BY <2>2, Opened
    <2>6. \A f \in {clicked, OpenedFiles(clicked)} : Fit(f, Focused(settings, FALSE), Focused(terminal, FALSE))
        BY <1>1, <1>4, <1>5, <2>5 DEF Fit, Single, AtRest
    <2> QED BY <1>1, <1>2, <2>3, <2>4, <2>6, Followed DEF AppNames
<1>7. CASE PressSettings(x, row)
    <2> DEFINE clicked == PointerDown(settings, x, row)
    <2>1. Shown(settings) /\ desktop_selection' = desktop_selection
        BY <1>7 DEF PressSettings, window_contains
    <2>2. clicked \in Window /\ Sound(clicked) /\ (settings.dragging = 0 => Grip(clicked))
        BY <1>1, <2>1, Clicked
    <2>3. Follow(Focused(files, FALSE), clicked, Focused(terminal, FALSE), x)
        BY <1>7 DEF PressSettings
    <2> HIDE DEF clicked
    <2>4. Fit(Focused(files, FALSE), clicked, Focused(terminal, FALSE))
        BY <1>1, <1>4, <1>5, <2>2 DEF Fit, Single, AtRest
    <2> QED BY <1>1, <1>2, <2>1, <2>3, <2>4, Followed
<1>8. CASE PressTerminalTitle(x, row)
    <2>1. /\ terminal.open = TRUE /\ terminal.minimized = FALSE /\ desktop_selection' = desktop_selection
          /\ Follow(Focused(files, FALSE), Focused(settings, FALSE), TitleDown(x), x)
        BY <1>1, <1>8 DEF PressTerminalTitle, window_contains, Shown, Terminal
    <2> DEFINE t == TitleDown(x)
    <2>2. t \in {[terminal EXCEPT !.open = FALSE, !.focused = FALSE],
                 [terminal EXCEPT !.minimized = TRUE, !.focused = FALSE],
                 [terminal EXCEPT !.focused = TRUE, !.dragging = 1, !.drag_x = Word(x - terminal.x)]}
        BY DEF TitleDown
    <2> HIDE DEF t
    <2>3. Word(x - terminal.x) \in Columns /\ 1 \in 0..2
        BY <1>1, WordIsAColumn, Pointer DEF Terminal, Columns
    <2>4. t \in Terminal
        BY <1>1, <2>2, <2>3 DEF Terminal
    <2>5. t.focused => t.open /\ ~t.minimized
        BY <1>1, <2>1, <2>2 DEF Terminal
    <2>6. terminal.dragging = 0 /\ t.dragging # 0 => t.open /\ ~t.minimized
        BY <1>1, <2>1, <2>2 DEF Terminal
    <2>7. Sound(t) /\ (terminal.dragging = 0 => Grip(t))
        BY <2>5, <2>6 DEF Sound, Grip, Shown
    <2>8. Fit(Focused(files, FALSE), Focused(settings, FALSE), t)
        BY <1>1, <1>4, <1>5, <2>4, <2>7 DEF Fit, Single, AtRest
    <2>9. Follow(Focused(files, FALSE), Focused(settings, FALSE), t, x)
        BY <2>1 DEF t
    <2> QED BY <1>1, <1>2, <2>1, <2>8, <2>9, Followed
<1>9. CASE PressTerminalCorner(x, row)
    <2> DEFINE t == CornerDown(x)
    <2>1. terminal.open /\ ~terminal.minimized /\ desktop_selection' = desktop_selection
          /\ Follow(files, settings, t, x)
        BY <1>9 DEF PressTerminalCorner, InTerminalCorner, Shown
    <2>2. t \in Terminal /\ t.open = terminal.open /\ t.minimized = terminal.minimized
        <3>1. 2 \in 0..2 /\ terminal.width \in Widths /\ x \in Columns
            BY <1>1, Pointer DEF Terminal
        <3> QED BY <1>1, <3>1 DEF CornerDown, Terminal
    <2> HIDE DEF t
    <2>3. Sound(t) /\ Grip(t)
        BY <2>1, <2>2 DEF Sound, Grip, Shown
    <2>4. Fit(files, settings, t)
        BY <1>1, <1>4, <2>2, <2>3 DEF Fit, Single, AtRest
    <2> QED BY <1>1, <1>2, <2>1, <2>4, Followed
<1>10. CASE PressDock(x, row)
    <2>1. PICK app \in Apps : /\ Follow(FilesAfter(app), SettingsAfter(app), TerminalAfter(app), x)
                              /\ desktop_selection' = app
        BY <1>10 DEF PressDock
    <2>2. app \in AppNames
        BY DesktopAssumption
    <2>3. Fit(FilesAfter(app), SettingsAfter(app), TerminalAfter(app))
        BY <2>2, Launched
    <2> QED BY <1>2, <2>1, <2>2, <2>3, Followed
<1>11. CASE PressTerminalBody(x, row)
    <2> DEFINE t == Focused(terminal, TRUE)
    <2>1. Shown(terminal) /\ Follow(files, settings, t, x) /\ desktop_selection' = desktop_selection
        BY <1>11 DEF PressTerminalBody, window_contains
    <2>2. t \in Terminal /\ Shown(t) /\ t.dragging = terminal.dragging
        BY <1>1, <2>1 DEF Focused, Terminal, Shown
    <2> HIDE DEF t
    <2>3. Sound(t) /\ Grip(t)
        BY <2>2 DEF Sound, Grip
    <2>4. Fit(files, settings, t)
        BY <1>1, <1>4, <2>2, <2>3 DEF Fit, Single, AtRest
    <2> QED BY <1>1, <1>2, <2>1, <2>4, Followed
<1>12. CASE PressDesktop(x, row)
    <2>1. Follow(files, settings, Focused(terminal, FALSE), x) /\ desktop_selection' = desktop_selection
        BY <1>12 DEF PressDesktop
    <2>2. Fit(files, settings, Focused(terminal, FALSE))
        BY <1>1, <1>4, <1>5 DEF Fit, Single, AtRest
    <2> QED BY <1>1, <1>2, <2>1, <2>2, Followed
<1> QED BY <1>6, <1>7, <1>8, <1>9, <1>10, <1>11, <1>12 DEF Press

LEMMA MoveDesktopInv ==
    ASSUME DesktopInv, NEW x \in PointerColumns, Move(x)
    PROVE  DesktopInv'
<1>1. Fit(files, settings, terminal) /\ abandoned \in BOOLEAN
    BY DEF DesktopInv, TypeOK
<1>2. /\ pressed' = TRUE /\ desktop_selection' = desktop_selection /\ abandoned' = abandoned
      /\ Follow(files, settings, terminal, x)
      /\ desktop_view' = "workspace" \/ desktop_view' = desktop_view
    BY DEF Move, draw_workspace
<1>3. Fit(files, settings, terminal)' /\ terminal'.focused = terminal.focused
    BY <1>1, <1>2, Followed
<1>4. files' \in Window /\ settings' \in Window /\ terminal' \in Terminal
    BY <1>3 DEF Fit
<1>5. TypeOK'
    BY <1>1, <1>2, <1>4 DEF DesktopInv, TypeOK
<1> QED BY <1>2, <1>3, <1>5 DEF DesktopInv, OnlyTheLauncherListens

LEMMA ReleaseDesktopInv ==
    ASSUME DesktopInv, NEW x \in PointerColumns, Release(x)
    PROVE  DesktopInv'
<1>1. /\ files \in Window /\ settings \in Window /\ terminal \in Terminal
      /\ Sound(files) /\ Sound(settings) /\ Sound(terminal)
    BY DEF DesktopInv, Fit
<1>2. /\ pressed' = FALSE /\ desktop_selection' = desktop_selection /\ abandoned' = FALSE
      /\ desktop_view' = "workspace" \/ desktop_view' = desktop_view
      /\ files' = LetGo(files) /\ settings' = LetGo(settings) /\ terminal' = LetGo(terminal)
    BY DEF Release, draw_workspace
<1>3. /\ \A w \in Window : LetGo(w) \in Window /\ LetGo(w).dragging = 0 /\ (Sound(w) => Sound(LetGo(w)))
      /\ \A t \in Terminal : LetGo(t) \in Terminal /\ LetGo(t).dragging = 0 /\ (Sound(t) => Sound(LetGo(t)))
                             /\ LetGo(t).focused = t.focused
    <2>1. 0 \in 0..2
        OBVIOUS
    <2> QED BY <2>1 DEF LetGo, Window, Terminal, Sound, Shown
<1>4. /\ files' \in Window /\ settings' \in Window /\ terminal' \in Terminal
      /\ Sound(files)' /\ Sound(settings)' /\ Sound(terminal)'
      /\ files'.dragging = 0 /\ settings'.dragging = 0 /\ terminal'.dragging = 0
      /\ terminal'.focused = terminal.focused
    BY <1>1, <1>2, <1>3 DEF Sound, Shown
<1>5. Fit(files, settings, terminal)' /\ AtRest'
    BY <1>4 DEF Fit, Grip, Single, AtRest
<1>6. TypeOK'
    BY <1>2, <1>4 DEF DesktopInv, TypeOK
<1> QED BY <1>2, <1>4, <1>5, <1>6 DEF DesktopInv, OnlyTheLauncherListens

LEMMA KeysDesktopInv ==
    ASSUME DesktopInv,
           AltF1 \/ AltF2 \/ Command \/ SelectUp \/ SelectDown \/ \E app \in Apps : LaunchKey(app)
    PROVE  DesktopInv'
<1>1. /\ Fit(files, settings, terminal) /\ files \in Window /\ settings \in Window /\ terminal \in Terminal
      /\ desktop_selection \in AppNames /\ pressed \in BOOLEAN /\ abandoned \in BOOLEAN
      /\ ~abandoned => AtRest \/ pressed
    BY DEF DesktopInv, TypeOK
<1>2. pressed' = pressed /\ abandoned' = abandoned
    BY DEF AltF1, AltF2, Command, SelectUp, SelectDown, LaunchKey
<1> DEFINE Same == /\ files'.dragging = files.dragging /\ settings'.dragging = settings.dragging
                   /\ terminal'.dragging = terminal.dragging
<1>3. /\ Fit(files, settings, terminal)' /\ Same /\ desktop_selection' \in AppNames
      /\ desktop_view' = "workspace" \/ (desktop_view' = "terminal" /\ terminal'.focused)
    <2>1. CASE AltF1
        <3>1. terminal' = OpenedTerminal /\ UNCHANGED <<files, settings, desktop_selection>>
              /\ desktop_view' = "workspace"
            BY <2>1 DEF AltF1, draw_workspace
        <3>2. /\ terminal' \in Terminal /\ Sound(terminal)' /\ Grip(terminal)'
              /\ terminal'.dragging = terminal.dragging
            BY <1>1, <3>1, Opened DEF Sound, Grip, Shown
        <3> QED BY <1>1, <1>2, <3>1, <3>2 DEF Fit, Single, Sound, Grip, Shown
    <2>2. CASE AltF2
        <3>1. terminal' = Focused(terminal, FALSE) /\ UNCHANGED <<files, settings, desktop_selection>>
              /\ desktop_view' = "workspace"
            BY <2>2 DEF AltF2, draw_workspace
        <3>2. /\ terminal' \in Terminal /\ Sound(terminal)' /\ (Grip(terminal) => Grip(terminal)')
              /\ terminal'.dragging = terminal.dragging
            BY <1>1, <3>1, Unfocused DEF Sound, Grip, Shown
        <3> QED BY <1>1, <1>2, <3>1, <3>2 DEF Fit, Single, Sound, Grip, Shown
    <2>3. CASE Command \/ SelectUp \/ SelectDown
        <3>1. UNCHANGED windows /\ desktop_selection' \in AppNames /\ desktop_view' = "workspace"
            BY <1>1, <2>3 DEF Command, SelectUp, SelectDown, draw_workspace, AppNames
        <3> QED BY <1>1, <1>2, <3>1 DEF windows, Fit, Single, Sound, Grip, Shown
    <2>4. ASSUME NEW app \in Apps, LaunchKey(app)
          PROVE  /\ Fit(files, settings, terminal)' /\ Same /\ desktop_selection' \in AppNames
                 /\ desktop_view' = "workspace" \/ (desktop_view' = "terminal" /\ terminal'.focused)
        <3>1. /\ app \in AppNames /\ desktop_selection' = app
              /\ files' = FilesAfter(app) /\ settings' = SettingsAfter(app) /\ terminal' = TerminalAfter(app)
            BY <2>4, DesktopAssumption DEF LaunchKey
        <3>2. /\ Fit(FilesAfter(app), SettingsAfter(app), TerminalAfter(app)) /\ Same
              /\ app = "terminal" => terminal'.focused
            BY <3>1, Launched
        <3>3. Fit(files, settings, terminal)'
            BY <1>2, <3>1, <3>2 DEF Fit, Single, Sound, Grip, Shown
        <3>4. desktop_view' = IF app = "terminal" THEN "terminal" ELSE "workspace"
            BY <2>4 DEF LaunchKey, draw_workspace
        <3> QED BY <3>1, <3>2, <3>3, <3>4
    <2> QED BY <2>1, <2>2, <2>3, <2>4
<1>4. TypeOK'
    BY <1>1, <1>2, <1>3 DEF TypeOK, Fit
<1>5. OnlyTheLauncherListens'
    BY <1>3 DEF OnlyTheLauncherListens
<1>6. ~abandoned' => AtRest' \/ pressed'
    BY <1>1, <1>2, <1>3 DEF AtRest
<1> QED BY <1>3, <1>4, <1>5, <1>6 DEF DesktopInv

(* A login leaves the gestures; one that the button no longer holds is       *)
(* abandoned.                                                                *)
LEMMA LogoutDesktopInv ==
    ASSUME DesktopInv, NEW held \in BOOLEAN, Logout(held)
    PROVE  DesktopInv'
<1>1. /\ UNCHANGED <<files, settings, terminal, desktop_selection>> /\ desktop_view' = "workspace"
      /\ pressed' = held
      /\ abandoned' = (abandoned \/ (~held /\ \E w \in {files, settings, terminal} : w.dragging # 0))
    BY DEF Logout, windows, draw_workspace
<1>2. abandoned' \in BOOLEAN /\ (~abandoned' => ~abandoned /\ (AtRest \/ held))
    <2>1. abandoned \in BOOLEAN
        BY DEF DesktopInv, TypeOK
    <2> QED BY <1>1, <2>1 DEF AtRest
<1>3. Fit(files, settings, terminal)'
    BY <1>1, <1>2 DEF DesktopInv, Fit, Single, Sound, Grip, Shown
<1>4. TypeOK'
    BY <1>1, <1>2 DEF DesktopInv, TypeOK
<1>5. ~abandoned' => AtRest' \/ pressed'
    BY <1>1, <1>2 DEF AtRest
<1>6. OnlyTheLauncherListens'
    BY <1>1 DEF OnlyTheLauncherListens
<1> QED BY <1>3, <1>4, <1>5, <1>6 DEF DesktopInv

LEMMA DesktopInductive == Spec => []DesktopInv
<1>1. DesktopInv /\ [Next]_vars => DesktopInv'
    <2> SUFFICES ASSUME DesktopInv, [Next]_vars PROVE DesktopInv'
        OBVIOUS
    <2>1. CASE UNCHANGED vars
        <3>1. UNCHANGED <<files, settings, terminal, pressed, desktop_view, desktop_selection, abandoned>>
            BY <2>1 DEF vars, windows
        <3>2. TypeOK' /\ OnlyTheLauncherListens'
            BY <3>1 DEF DesktopInv, TypeOK, OnlyTheLauncherListens
        <3>3. Fit(files, settings, terminal)' /\ (~abandoned' => AtRest' \/ pressed')
            BY <3>1 DEF DesktopInv, Fit, Single, Sound, Grip, Shown, AtRest
        <3> QED BY <3>2, <3>3 DEF DesktopInv
    <2> QED BY <2>1, PressDesktopInv, MoveDesktopInv, ReleaseDesktopInv, KeysDesktopInv, LogoutDesktopInv DEF Next
<1> QED BY InitDesktopInv, <1>1, PTL DEF Spec

-----------------------------------------------------------------------------
(* Positions stay words and widths are never zero, however a window is       *)
(* dragged past an edge or resized.                                          *)
THEOREM TypeCorrect == Spec => []TypeOK
<1>1. DesktopInv => TypeOK
    BY DEF DesktopInv
<1> QED BY DesktopInductive, <1>1, PTL

(* A window that has the focus is on the screen.                             *)
THEOREM FocusVisible == Spec => []FocusIsVisible
<1>1. DesktopInv => FocusIsVisible
    BY DEF DesktopInv, Fit, FocusIsVisible, AllWindows, Sound
<1> QED BY DesktopInductive, <1>1, PTL

(* One window at most follows the pointer, while the button is held, but for *)
(* a gesture that a login has abandoned.                                     *)
THEOREM Gesture == Spec => []OneGesture
<1>1. DesktopInv => OneGesture
    BY DEF DesktopInv, Fit, Single, AtRest, OneGesture, AllWindows, Grip
<1> QED BY DesktopInductive, <1>1, PTL

(* The keyboard's view is the launcher's or that of the focused terminal.    *)
THEOREM LauncherOnly == Spec => []OnlyTheLauncherListens
<1>1. DesktopInv => OnlyTheLauncherListens
    BY DEF DesktopInv
<1> QED BY DesktopInductive, <1>1, PTL

-----------------------------------------------------------------------------
(* A node names a directory that is there before it, and the places of the   *)
(* side bar are directories.                                                 *)
VolumeInv ==
    /\ nodes \in Seq(Node) /\ Len(nodes) <= MaxNodes
    /\ \A i \in DOMAIN nodes : nodes[i].path # <<>> /\ IsDirectory(Front(nodes[i].path))
    /\ \A place \in Places : IsDirectory(place)

(* The cached listing is that of the current directory, as it was at some    *)
(* time since it was entered, and the window shows what it draws of it.      *)
CacheInv ==
    explorer.valid =>
        /\ explorer.path = cwd
        /\ \E n \in entered..Len(nodes) : explorer.listing = Listing(cwd, SubSeq(nodes, 1, n))
ScreenInv ==
    shown.drawn => visible /\ explorer.valid /\ shown = Screen(explorer)

SessionInv ==
    SessionTypeOK /\ VolumeInv /\ CwdIsADirectory /\ CacheInv /\ ScreenInv /\ EachTouchKeepsAHandle

Explorer == [valid : BOOLEAN, path : Path, listing : Seq(Words), selection : 1..MaxListed]
Resolved == [valid : BOOLEAN, parts : Path]

-----------------------------------------------------------------------------
(* Facts about the operators.                                                *)

(* Induction over the numbers, told about a set so that no operator is a     *)
(* parameter.                                                                *)
LEMMA SetInduction ==
    ASSUME NEW S, 0 \in S, \A n \in Nat : n \in S => n + 1 \in S
    PROVE  Nat \subseteq S
<1> SUFFICES ASSUME Nat \ S # {} PROVE FALSE
    OBVIOUS
<1> DEFINE Missing == Nat \ S
           R == OpToRel(<, Nat)
<1>1. Missing \subseteq Nat /\ Missing # {}
    OBVIOUS
<1>2. PICK n \in Missing : \A m \in Missing : ~(<<m, n>> \in R)
    <2> HIDE DEF Missing, R
    <2>1. IsWellFoundedOn(R, Nat)
        BY NatLessThanWellFounded DEF R
    <2> QED BY <1>1, <2>1, WFMin
<1>3. n \in Nat /\ n \notin S /\ n # 0
    OBVIOUS
<1>4. n - 1 \in Nat /\ n - 1 < n /\ (n - 1) + 1 = n
    BY <1>3
<1>5. n - 1 \notin Missing
    BY <1>2, <1>3, <1>4 DEF OpToRel
<1> QED BY <1>3, <1>4, <1>5

(* The first of a set of places.                                             *)
LEMMA MinIs ==
    ASSUME NEW S \in SUBSET Nat, S # {}
    PROVE  Min(S) \in S /\ \A m \in S : Min(S) <= m
<1> DEFINE R == OpToRel(<, Nat)
<1>1. IsWellFoundedOn(R, Nat)
    BY NatLessThanWellFounded
<1>2. PICK n \in S : \A m \in S : ~(<<m, n>> \in R)
    <2> HIDE DEF R
    <2> QED BY <1>1, WFMin
<1>3. ASSUME NEW m \in S PROVE n <= m
    <2>1. m \in Nat /\ n \in Nat
        OBVIOUS
    <2>2. m < n => <<m, n>> \in R
        BY <2>1 DEF OpToRel
    <2> HIDE DEF R
    <2>3. ~(m < n)
        BY <1>2, <2>2
    <2> QED BY <2>1, <2>3
<1>4. \E x \in S : \A m \in S : x <= m
    BY <1>3
<1> QED BY <1>4 DEF Min

(* Paths are sequences of names.                                             *)
LEMMA PathIs ==
    /\ \A path \in Path : path \in Seq(AllNames) /\ Len(path) \in 0..MaxParts
    /\ \A path \in Seq(AllNames) : Len(path) <= MaxParts => path \in Path
<1>1. ASSUME NEW path \in Path PROVE path \in Seq(AllNames) /\ Len(path) \in 0..MaxParts
    <2>1. PICK n \in 0..MaxParts : path \in [1..n -> AllNames]
        BY DEF Path
    <2>2. n \in Nat
        BY SessionFilesAssumption
    <2>3. path \in Seq(AllNames)
        BY <2>1, <2>2
    <2>4. Len(path) = n
        BY <2>1, <2>2
    <2> QED BY <2>3, <2>4
<1>2. ASSUME NEW path \in Seq(AllNames), Len(path) <= MaxParts PROVE path \in Path
    <2>1. path \in [1..Len(path) -> AllNames] /\ Len(path) \in Nat
        BY LenProperties
    <2>2. Len(path) \in 0..MaxParts
        BY <1>2, <2>1, SessionFilesAssumption
    <2> QED BY <2>1, <2>2 DEF Path
<1> QED BY <1>1, <1>2

LEMMA NamesAre ==
    /\ <<"home">> \in AllNames /\ <<"quanta">> \in AllNames /\ <<"Desktop">> \in AllNames
    /\ AllNames \subseteq Seq(Words) /\ Up \notin AllNames /\ Here \notin AllNames
<1>1. <<"home">> \in AllNames /\ <<"quanta">> \in AllNames /\ <<"Desktop">> \in AllNames
    BY DEF AllNames
<1>2. \A name \in AllNames : \A i \in DOMAIN name : name[i] \in Words
    BY DEF Words
<1>3. "home" \in Words /\ "quanta" \in Words /\ "Desktop" \in Words
    BY <1>1, <1>2
<1>4. <<"home">> \in Seq(Words) /\ <<"quanta">> \in Seq(Words) /\ <<"Desktop">> \in Seq(Words)
    BY <1>3
<1>5. Names \subseteq Seq(Words) \ {Here, Up}
    BY SessionFilesAssumption
<1>6. AllNames \subseteq Seq(Words)
    BY <1>4, <1>5, Zenon DEF AllNames
<1>7. Up \notin AllNames
    <2>1. Up \notin {<<"home">>, <<"quanta">>, <<"Desktop">>}
        BY DEF Up
    <2> QED BY <1>5, <2>1, Zenon DEF AllNames
<1>8. Here \notin AllNames
    <2>1. Here \notin {<<"home">>, <<"quanta">>, <<"Desktop">>}
        BY DEF Here
    <2> QED BY <1>5, <2>1, Zenon DEF AllNames
<1> QED BY <1>1, <1>6, <1>7, <1>8

(* The beginning of a sequence.                                              *)
LEMMA Beginning ==
    ASSUME NEW S, NEW s \in Seq(S), NEW n \in 0..Len(s)
    PROVE  /\ SubSeq(s, 1, n) \in Seq(S) /\ Len(SubSeq(s, 1, n)) = n
           /\ \A i \in 1..n : SubSeq(s, 1, n)[i] = s[i]
<1>1. Len(s) \in Nat
    BY LenProperties
<1>2. n \in Nat /\ 1 \in Int /\ n \in Int /\ n <= Len(s)
    BY <1>1
<1>3. \A i \in 1..n : s[i] \in S
    BY <1>1, <1>2, ElementOfSeq
<1>4. /\ SubSeq(s, 1, n) \in Seq(S)
      /\ Len(SubSeq(s, 1, n)) = IF 1 <= n THEN n - 1 + 1 ELSE 0
      /\ \A i \in 1..n - 1 + 1 : SubSeq(s, 1, n)[i] = s[1 + i - 1]
    BY <1>2, <1>3, SubSeqProperties
<1>5. (IF 1 <= n THEN n - 1 + 1 ELSE 0) = n /\ n - 1 + 1 = n
    BY <1>2
<1>6. \A i \in 1..n : 1 + i - 1 = i
    BY <1>2
<1> QED BY <1>4, <1>5, <1>6

LEMMA FrontsAre ==
    ASSUME NEW S, NEW a \in S, NEW b \in S, NEW c \in S
    PROVE  /\ SubSeq(<<a>>, 1, 0) = <<>> /\ SubSeq(<<a, b>>, 1, 1) = <<a>>
           /\ SubSeq(<<a, b, c>>, 1, 2) = <<a, b>>
<1>1. SubSeq(<<a>>, 1, 0) = <<>>
    BY SubSeqEmpty
<1> DEFINE s1 == <<a>>
           s2 == <<a, b>>
           s3 == <<a, b, c>>
<1>2. s1 \in Seq(S) /\ Len(s1) = 1 /\ s1[1] = a
    OBVIOUS
<1>3. s2 \in Seq(S) /\ Len(s2) = 2 /\ s2[1] = a /\ s2[2] = b
    OBVIOUS
<1>4. s3 \in Seq(S) /\ Len(s3) = 3 /\ s3[1] = a /\ s3[2] = b
    OBVIOUS
<1> HIDE DEF s1, s2, s3
<1>5. SubSeq(s2, 1, 1) = s1
    <2>1. /\ SubSeq(s2, 1, 1) \in Seq(S) /\ Len(SubSeq(s2, 1, 1)) = 1
          /\ \A i \in 1..1 : SubSeq(s2, 1, 1)[i] = s2[i]
        BY <1>3, Beginning
    <2>2. \A i \in 1..1 : s2[i] = s1[i]
        BY <1>2, <1>3
    <2> QED BY <1>2, <2>1, <2>2, SeqEqual
<1>6. SubSeq(s3, 1, 2) = s2
    <2>1. /\ SubSeq(s3, 1, 2) \in Seq(S) /\ Len(SubSeq(s3, 1, 2)) = 2
          /\ \A i \in 1..2 : SubSeq(s3, 1, 2)[i] = s3[i]
        BY <1>4, Beginning
    <2>2. \A i \in 1..2 : s3[i] = s2[i]
        BY <1>3, <1>4
    <2> QED BY <1>3, <2>1, <2>2, SeqEqual
<1> QED BY <1>1, <1>5, <1>6 DEF s1, s2, s3

(* The places of the side bar and what is above them.                        *)
LEMMA PlacesAre ==
    /\ Home \in Path /\ DesktopDirectory \in Path /\ SubSeq(Home, 1, 1) \in Path /\ <<>> \in Path
    /\ SubSeq(Home, 1, 1) # <<>> /\ Home # <<>> /\ DesktopDirectory # <<>>
    /\ Front(SubSeq(Home, 1, 1)) = <<>> /\ Front(Home) = SubSeq(Home, 1, 1)
    /\ Front(DesktopDirectory) = Home
<1> DEFINE a == <<"home">>
           b == <<"quanta">>
           c == <<"Desktop">>
<1>1. a \in AllNames /\ b \in AllNames /\ c \in AllNames
    BY NamesAre
<1>2. Home = <<a, b>> /\ DesktopDirectory = <<a, b, c>>
    BY DEF Home, DesktopDirectory
<1> HIDE DEF a, b, c
<1>3. /\ <<>> \in Seq(AllNames) /\ <<a>> \in Seq(AllNames) /\ <<a, b>> \in Seq(AllNames)
      /\ <<a, b, c>> \in Seq(AllNames)
    BY <1>1
<1>4. Len(<<>>) = 0 /\ Len(<<a>>) = 1 /\ Len(<<a, b>>) = 2 /\ Len(<<a, b, c>>) = 3
    OBVIOUS
<1>5. 0 <= MaxParts /\ 1 <= MaxParts /\ 2 <= MaxParts /\ 3 <= MaxParts
    BY SessionFilesAssumption
<1>6. <<>> \in Path /\ <<a>> \in Path /\ <<a, b>> \in Path /\ <<a, b, c>> \in Path
    BY <1>3, <1>4, <1>5, PathIs
<1>7. SubSeq(<<a, b>>, 1, 1) = <<a>>
    BY <1>1, FrontsAre
<1>8. SubSeq(<<a>>, 1, 0) = <<>>
    BY <1>1, FrontsAre
<1>9. SubSeq(<<a, b, c>>, 1, 2) = <<a, b>>
    BY <1>1, FrontsAre
<1>10. <<a>> # <<>> /\ <<a, b>> # <<>> /\ <<a, b, c>> # <<>>
    BY <1>4
<1>11. Front(<<a>>) = <<>> /\ Front(<<a, b>>) = <<a>> /\ Front(<<a, b, c>>) = <<a, b>>
    BY <1>4, <1>7, <1>8, <1>9 DEF Front
<1> QED BY <1>2, <1>6, <1>7, <1>10, <1>11

LEMMA NoFileIsNoPath == NoFile \notin Path
<1> SUFFICES ASSUME NoFile \in Path PROVE FALSE
    OBVIOUS
<1>1. NoFile \in Seq(AllNames)
    BY PathIs
<1>2. Len(NoFile) = 1 /\ NoFile[1] = Up
    BY DEF NoFile
<1>3. NoFile[1] \in AllNames
    BY <1>1, <1>2, ElementOfSeq
<1> QED BY <1>2, <1>3, NamesAre

(* Cutting a path.                                                           *)
LEMMA FrontIs ==
    ASSUME NEW path \in Path, path # <<>>
    PROVE  Front(path) \in Path /\ Last(path) \in Seq(Words) /\ Len(path) >= 1
<1>1. path \in Seq(AllNames) /\ Len(path) \in 0..MaxParts
    BY PathIs
<1>2. Len(path) >= 1 /\ Len(path) \in Nat
    BY <1>1, EmptySeq
<1>3. Last(path) \in Seq(Words)
    <2>1. path[Len(path)] \in AllNames
        BY <1>1, <1>2, ElementOfSeq
    <2> QED BY <2>1, NamesAre DEF Last
<1>4. Front(path) \in Path
    <2>1. Len(path) - 1 \in 0..Len(path) /\ Len(path) - 1 <= MaxParts
        BY <1>1, <1>2, SessionFilesAssumption
    <2>2. Front(path) \in Seq(AllNames) /\ Len(Front(path)) = Len(path) - 1
        BY <1>1, <2>1, Beginning DEF Front
    <2> QED BY <2>1, <2>2, PathIs
<1> QED BY <1>2, <1>3, <1>4

(* What a listing computes, one node after the other.                        *)
LEMMA ListingIs ==
    ASSUME NEW dir, NEW volume, Len(volume) \in Nat
    PROVE  \E w : /\ w[0] = <<>>
                  /\ \A i \in 1..Len(volume) : w[i] = Listed(w[i - 1], dir, volume[i].path)
                  /\ Listing(dir, volume) = w[Len(volume)]
<1> DEFINE Down(x, i) == Listed(x, dir, volume[i].path)
           Start == <<>>
           Is(f, n) == f = [i \in 0..n |-> IF i = 0 THEN Start ELSE Down(f[i - 1], i)]
           S == {n \in Nat : \E f : Is(f, n)}
           W == CHOOSE f : Is(f, Len(volume))
<1>1. 0 \in S
    <2>1. Is([i \in 0..0 |-> Start], 0)
        <3> HIDE DEF Start, Down
        <3> QED OBVIOUS
    <2> HIDE DEF Start, Down
    <2> QED BY <2>1
<1>2. ASSUME NEW n \in Nat, n \in S PROVE n + 1 \in S
    <2>1. PICK f : Is(f, n)
        BY <1>2
    <2> DEFINE g == [i \in 0..n + 1 |-> IF i = 0 THEN Start ELSE Down(f[i - 1], i)]
    <2>2. ASSUME NEW i \in 0..n PROVE g[i] = f[i]
        <3>1. i \in 0..n + 1
            OBVIOUS
        <3>2. g[i] = IF i = 0 THEN Start ELSE Down(f[i - 1], i)
            <4> HIDE DEF Down, Start
            <4> QED BY <3>1
        <3>3. f[i] = IF i = 0 THEN Start ELSE Down(f[i - 1], i)
            <4>1. f = [b \in 0..n |-> IF b = 0 THEN Start ELSE Down(f[b - 1], b)]
                BY <2>1
            <4> HIDE DEF Down, Start
            <4> QED BY ONLY <4>1, i \in 0..n
        <3> QED BY <3>2, <3>3
    <2>3. ASSUME NEW i \in 0..n + 1 PROVE g[i] = IF i = 0 THEN Start ELSE Down(g[i - 1], i)
        <3>1. g[i] = IF i = 0 THEN Start ELSE Down(f[i - 1], i)
            <4> HIDE DEF Down, Start
            <4> QED OBVIOUS
        <3>2. i # 0 => g[i - 1] = f[i - 1]
            <4>1. i # 0 => i - 1 \in 0..n
                OBVIOUS
            <4> HIDE DEF g
            <4> QED BY <2>2, <4>1
        <3> HIDE DEF g, Down, Start
        <3> QED BY <3>1, <3>2
    <2>4. Is(g, n + 1)
        <3> HIDE DEF Down, Start
        <3> QED BY <2>3
    <2>5. \E h : Is(h, n + 1)
        <3> HIDE DEF Is, g
        <3> QED BY <2>4
    <2> HIDE DEF Is
    <2> QED BY <2>5
<1>3. Len(volume) \in S
    <2> HIDE DEF S
    <2>1. Nat \subseteq S
        BY <1>1, <1>2, SetInduction
    <2> QED BY <2>1
<1>4. Is(W, Len(volume))
    <2>1. \E f : Is(f, Len(volume))
        BY <1>3
    <2> HIDE DEF Is
    <2> QED BY <2>1
<1>5. Listing(dir, volume) = W[Len(volume)]
    BY DEF Listing
<1>6. W[0] = Start /\ \A i \in 1..Len(volume) : W[i] = Down(W[i - 1], i)
    <2> DEFINE N == Len(volume)
    <2>1. N \in Nat
        OBVIOUS
    <2> HIDE DEF Down, W, Start
    <2>2. W = [i \in 0..N |-> IF i = 0 THEN Start ELSE Down(W[i - 1], i)]
        BY <1>4
    <2>3. W[0] = Start /\ \A i \in 1..N : W[i] = Down(W[i - 1], i)
        <3> HIDE DEF N
        <3> QED BY <2>1, <2>2
    <2> QED BY <2>3
<1> HIDE DEF W
<1> QED BY <1>5, <1>6

(* What resolving computes, one component after the other.                   *)
LEMMA ResolveIs ==
    ASSUME NEW argument, Len(argument.parts) \in Nat
    PROVE  \E w : /\ w[0] = [valid |-> TRUE, parts |-> IF argument.absolute THEN <<>> ELSE cwd]
                  /\ \A i \in 1..Len(argument.parts) : w[i] = Added(w[i - 1], argument.parts[i])
                  /\ path_resolve(argument) = w[Len(argument.parts)]
<1> DEFINE Down(x, i) == Added(x, argument.parts[i])
           Start == [valid |-> TRUE, parts |-> IF argument.absolute THEN <<>> ELSE cwd]
           Is(f, n) == f = [i \in 0..n |-> IF i = 0 THEN Start ELSE Down(f[i - 1], i)]
           S == {n \in Nat : \E f : Is(f, n)}
           W == CHOOSE f : Is(f, Len(argument.parts))
<1>1. 0 \in S
    <2>1. Is([i \in 0..0 |-> Start], 0)
        <3> HIDE DEF Start, Down
        <3> QED OBVIOUS
    <2> HIDE DEF Start, Down
    <2> QED BY <2>1
<1>2. ASSUME NEW n \in Nat, n \in S PROVE n + 1 \in S
    <2>1. PICK f : Is(f, n)
        BY <1>2
    <2> DEFINE g == [i \in 0..n + 1 |-> IF i = 0 THEN Start ELSE Down(f[i - 1], i)]
    <2>2. ASSUME NEW i \in 0..n PROVE g[i] = f[i]
        <3>1. i \in 0..n + 1
            OBVIOUS
        <3>2. g[i] = IF i = 0 THEN Start ELSE Down(f[i - 1], i)
            <4> HIDE DEF Down, Start
            <4> QED BY <3>1
        <3>3. f[i] = IF i = 0 THEN Start ELSE Down(f[i - 1], i)
            <4>1. f = [b \in 0..n |-> IF b = 0 THEN Start ELSE Down(f[b - 1], b)]
                BY <2>1
            <4> HIDE DEF Down, Start
            <4> QED BY ONLY <4>1, i \in 0..n
        <3> QED BY <3>2, <3>3
    <2>3. ASSUME NEW i \in 0..n + 1 PROVE g[i] = IF i = 0 THEN Start ELSE Down(g[i - 1], i)
        <3>1. g[i] = IF i = 0 THEN Start ELSE Down(f[i - 1], i)
            <4> HIDE DEF Down, Start
            <4> QED OBVIOUS
        <3>2. i # 0 => g[i - 1] = f[i - 1]
            <4>1. i # 0 => i - 1 \in 0..n
                OBVIOUS
            <4> HIDE DEF g
            <4> QED BY <2>2, <4>1
        <3> HIDE DEF g, Down, Start
        <3> QED BY <3>1, <3>2
    <2>4. Is(g, n + 1)
        <3> HIDE DEF Down, Start
        <3> QED BY <2>3
    <2>5. \E h : Is(h, n + 1)
        <3> HIDE DEF Is, g
        <3> QED BY <2>4
    <2> HIDE DEF Is
    <2> QED BY <2>5
<1>3. Len(argument.parts) \in S
    <2> HIDE DEF S
    <2>1. Nat \subseteq S
        BY <1>1, <1>2, SetInduction
    <2> QED BY <2>1
<1>4. Is(W, Len(argument.parts))
    <2>1. \E f : Is(f, Len(argument.parts))
        BY <1>3
    <2> HIDE DEF Is
    <2> QED BY <2>1
<1>5. path_resolve(argument) = W[Len(argument.parts)]
    BY DEF path_resolve
<1>6. W[0] = Start /\ \A i \in 1..Len(argument.parts) : W[i] = Down(W[i - 1], i)
    <2> DEFINE N == Len(argument.parts)
    <2>1. N \in Nat
        OBVIOUS
    <2> HIDE DEF Down, W, Start
    <2>2. W = [i \in 0..N |-> IF i = 0 THEN Start ELSE Down(W[i - 1], i)]
        BY <1>4
    <2>3. W[0] = Start /\ \A i \in 1..N : W[i] = Down(W[i - 1], i)
        <3> HIDE DEF N
        <3> QED BY <2>1, <2>2
    <2> QED BY <2>3
<1> HIDE DEF W
<1> QED BY <1>5, <1>6

(* A listing is a sequence of words that fits in its buffer.                 *)
LEMMA ListingFits ==
    ASSUME NEW dir, NEW volume \in Seq(Node), \A i \in 1..Len(volume) : volume[i].path # <<>>
    PROVE  Listing(dir, volume) \in Seq(Words) /\ Len(Listing(dir, volume)) <= MaxListed
<1>1. Len(volume) \in Nat
    BY LenProperties
<1>2. PICK w : /\ w[0] = <<>>
               /\ \A i \in 1..Len(volume) : w[i] = Listed(w[i - 1], dir, volume[i].path)
               /\ Listing(dir, volume) = w[Len(volume)]
    BY <1>1, ListingIs
<1> DEFINE S == {n \in Nat : n <= Len(volume) => w[n] \in Seq(Words) /\ Len(w[n]) <= MaxListed}
<1>3. 0 \in S
    <2>1. <<>> \in Seq(Words) /\ Len(<<>>) = 0 /\ 0 <= MaxListed
        BY SessionFilesAssumption
    <2>2. w[0] \in Seq(Words) /\ Len(w[0]) <= MaxListed
        BY <1>2, <2>1
    <2> QED BY <2>2
<1>4. ASSUME NEW n \in Nat, n \in S PROVE n + 1 \in S
    <2> SUFFICES ASSUME n + 1 <= Len(volume)
                 PROVE  w[n + 1] \in Seq(Words) /\ Len(w[n + 1]) <= MaxListed
        OBVIOUS
    <2>1. w[n] \in Seq(Words) /\ Len(w[n]) <= MaxListed
        BY <1>1, <1>4
    <2>2. n + 1 \in 1..Len(volume) /\ (n + 1) - 1 = n
        BY <1>1
    <2>3. w[n + 1] = Listed(w[n], dir, volume[n + 1].path)
        BY <1>2, <2>2
    <2>4. volume[n + 1] \in Node
        BY <2>2, ElementOfSeq
    <2>5. volume[n + 1].path \in Path /\ volume[n + 1].path # <<>>
        BY <2>2, <2>4 DEF Node
    <2>6. Last(volume[n + 1].path) \in Seq(Words)
        BY <2>5, FrontIs
    <2> DEFINE last == Last(volume[n + 1].path)
               old == w[n]
    <2>7. old \o last \in Seq(Words) /\ Len(old \o last) = Len(old) + Len(last)
        <3> HIDE DEF last, old
        <3>1. old \in Seq(Words) /\ last \in Seq(Words)
            BY <2>1, <2>6 DEF last, old
        <3> QED BY <3>1, ConcatProperties
    <2> HIDE DEF last, old
    <2>8. w[n + 1] = old \/ (w[n + 1] = old \o last /\ Len(old) + Len(last) <= MaxListed)
        BY <2>3 DEF Listed, last, old
    <2> QED BY <2>1, <2>7, <2>8 DEF old
<1>5. Len(volume) \in S
    <2> HIDE DEF S
    <2> QED BY <1>1, <1>3, <1>4, SetInduction
<1> QED BY <1>1, <1>2, <1>5

(* A resolved path names nothing but nodes.                                  *)
LEMMA AddedKeeps ==
    ASSUME NEW path \in Resolved, NEW name \in AllNames \union {Here, Up}
    PROVE  Added(path, name) \in Resolved
<1>1. path.valid \in BOOLEAN /\ path.parts \in Path
    BY DEF Resolved
<1>2. CASE ~path.valid \/ name = Here
    BY <1>2 DEF Added
<1>3. CASE ~(~path.valid \/ name = Here) /\ name = Up
    <2> DEFINE up == IF path.parts = <<>> THEN path.parts ELSE Front(path.parts)
    <2>1. up \in Path
        BY <1>1, FrontIs
    <2>2. Added(path, name) = [path EXCEPT !.parts = up]
        BY <1>3 DEF Added
    <2> HIDE DEF up
    <2> QED BY <2>1, <2>2 DEF Resolved
<1>4. CASE ~(~path.valid \/ name = Here) /\ name # Up /\ Len(path.parts) >= MaxParts
    <2>1. Added(path, name) = [path EXCEPT !.valid = FALSE]
        BY <1>4 DEF Added
    <2> QED BY <2>1 DEF Resolved
<1>5. CASE ~(~path.valid \/ name = Here) /\ name # Up /\ ~(Len(path.parts) >= MaxParts)
    <2> DEFINE longer == Append(path.parts, name)
    <2>1. Added(path, name) = [path EXCEPT !.parts = longer]
        BY <1>5 DEF Added
    <2>2. name \in AllNames
        BY <1>5
    <2>3. path.parts \in Seq(AllNames) /\ Len(path.parts) \in 0..MaxParts
        BY <1>1, PathIs
    <2>4. longer \in Seq(AllNames) /\ Len(longer) = Len(path.parts) + 1
        BY <2>2, <2>3, AppendProperties
    <2>5. Len(longer) <= MaxParts
        BY <1>5, <2>3, <2>4, SessionFilesAssumption
    <2>6. longer \in Path
        BY <2>4, <2>5, PathIs
    <2> HIDE DEF longer
    <2> QED BY <2>1, <2>6 DEF Resolved
<1> QED BY <1>2, <1>3, <1>4, <1>5

LEMMA ResolveKeeps ==
    ASSUME NEW argument \in Arguments, cwd \in Path
    PROVE  path_resolve(argument) \in Resolved
<1> DEFINE parts == argument.parts
<1>1. parts \in Seq(AllNames \union {Here, Up}) /\ Len(parts) \in Nat
    <2>1. parts \in Seq(AllNames \union {Here, Up})
        BY SessionFilesAssumption
    <2> QED BY <2>1, LenProperties
<1>2. PICK w : /\ w[0] = [valid |-> TRUE, parts |-> IF argument.absolute THEN <<>> ELSE cwd]
               /\ \A i \in 1..Len(argument.parts) : w[i] = Added(w[i - 1], argument.parts[i])
               /\ path_resolve(argument) = w[Len(argument.parts)]
    BY <1>1, ResolveIs
<1> DEFINE S == {n \in Nat : n <= Len(parts) => w[n] \in Resolved}
<1>3. 0 \in S
    <2>1. <<>> \in Path
        BY PlacesAre
    <2>2. (IF argument.absolute THEN <<>> ELSE cwd) \in Path
        BY <2>1
    <2>3. w[0] \in Resolved
        BY <1>2, <2>2 DEF Resolved
    <2> QED BY <2>3
<1>4. ASSUME NEW n \in Nat, n \in S PROVE n + 1 \in S
    <2> SUFFICES ASSUME n + 1 <= Len(parts) PROVE w[n + 1] \in Resolved
        OBVIOUS
    <2>1. w[n] \in Resolved
        BY <1>1, <1>4
    <2>2. n + 1 \in 1..Len(parts) /\ (n + 1) - 1 = n
        BY <1>1
    <2>3. w[n + 1] = Added(w[n], parts[n + 1])
        BY <1>2, <2>2
    <2>4. parts[n + 1] \in AllNames \union {Here, Up}
        <3> HIDE DEF parts
        <3> QED BY <1>1, <2>2, ElementOfSeq
    <2> HIDE DEF parts
    <2> QED BY <2>1, <2>3, <2>4, AddedKeeps
<1>5. Len(parts) \in S
    <2> HIDE DEF S
    <2> QED BY <1>1, <1>3, <1>4, SetInduction
<1> QED BY <1>1, <1>2, <1>5

-----------------------------------------------------------------------------
(* The volume grows.                                                         *)
Extends ==
    \/ nodes' = nodes
    \/ \E node \in Node : MayCreate(node.path) /\ nodes' = Append(nodes, node)

(* The entry found first stays the entry found first.                        *)
LEMMA GrowsByOne ==
    ASSUME nodes \in Seq(Node), NEW node \in Node, nodes' = Append(nodes, node)
    PROVE  /\ nodes' \in Seq(Node) /\ Len(nodes) \in Nat /\ Len(nodes') = Len(nodes) + 1
           /\ \A i \in 1..Len(nodes) : nodes'[i] = nodes[i]
           /\ nodes'[Len(nodes) + 1] = node
           /\ \A n \in 0..Len(nodes) : SubSeq(nodes', 1, n) = SubSeq(nodes, 1, n)
           /\ \A path : IsDirectory(path) => IsDirectory(path)'
<1>1. /\ nodes' \in Seq(Node) /\ Len(nodes) \in Nat /\ Len(nodes') = Len(nodes) + 1
      /\ \A i \in 1..Len(nodes) : nodes'[i] = nodes[i]
      /\ nodes'[Len(nodes) + 1] = node
    BY AppendProperties, LenProperties
<1>2. DOMAIN nodes = 1..Len(nodes) /\ DOMAIN nodes' = 1..Len(nodes')
    BY <1>1, LenProperties
<1>3. ASSUME NEW n \in 0..Len(nodes) PROVE SubSeq(nodes', 1, n) = SubSeq(nodes, 1, n)
    <2> DEFINE old == nodes
               new == nodes'
    <2>1. old \in Seq(Node) /\ new \in Seq(Node) /\ n \in 0..Len(old) /\ n \in 0..Len(new)
        BY <1>1
    <2>2. \A i \in 1..n : new[i] = old[i]
        BY <1>1
    <2> HIDE DEF old, new
    <2>3. /\ SubSeq(old, 1, n) \in Seq(Node) /\ Len(SubSeq(old, 1, n)) = n
          /\ \A i \in 1..n : SubSeq(old, 1, n)[i] = old[i]
        BY <2>1, Beginning
    <2>4. /\ SubSeq(new, 1, n) \in Seq(Node) /\ Len(SubSeq(new, 1, n)) = n
          /\ \A i \in 1..n : SubSeq(new, 1, n)[i] = new[i]
        BY <2>1, Beginning
    <2> DEFINE a == SubSeq(old, 1, n)
               b == SubSeq(new, 1, n)
    <2>5. a \in Seq(Node) /\ b \in Seq(Node) /\ Len(a) = Len(b) /\ \A i \in 1..Len(a) : b[i] = a[i]
        BY <2>2, <2>3, <2>4
    <2> HIDE DEF a, b
    <2>6. b = a
        BY <2>5, SeqEqual
    <2> QED BY <2>6 DEF a, b, old, new
<1>4. ASSUME NEW path, IsDirectory(path), path # <<>> PROVE IsDirectory(path)'
    <2> DEFINE A == {i \in DOMAIN nodes : nodes[i].path = path}
               B == {i \in DOMAIN nodes' : nodes'[i].path = path}
    <2>1. A # {} /\ nodes[Min(A)].kind = "DIRECTORY"
        BY <1>4 DEF IsDirectory, Exists, Kind
    <2>2. \A i \in A : i \in B
        BY <1>1, <1>2
    <2>3. \A i \in B : i <= Len(nodes) => i \in A
        BY <1>1, <1>2
    <2>4. A \subseteq Nat /\ B \subseteq Nat /\ \A i \in A : i <= Len(nodes)
        BY <1>1, <1>2
    <2>5. \A i \in A : nodes'[i] = nodes[i]
        BY <1>1, <1>2
    <2>6. (\E i \in DOMAIN nodes' : nodes'[i].path = path) <=> B # {}
        OBVIOUS
    <2> HIDE DEF A, B
    <2>7. B # {}
        BY <2>1, <2>2
    <2>8. Min(A) \in A /\ \A m \in A : Min(A) <= m
        BY <2>1, <2>4, MinIs
    <2>9. Min(B) \in B /\ \A m \in B : Min(B) <= m
        BY <2>4, <2>7, MinIs
    <2>10. Min(B) = Min(A)
        <3> DEFINE a == Min(A)
                   b == Min(B)
        <3>1. a \in Nat /\ b \in Nat /\ a <= Len(nodes)
            BY <2>4, <2>8, <2>9
        <3>2. b <= a
            BY <2>2, <2>8, <2>9
        <3>3. b <= Len(nodes)
            <4> HIDE DEF a, b
            <4> QED BY <1>1, <3>1, <3>2
        <3>4. a <= b
            BY <2>3, <2>8, <2>9, <3>3
        <3> HIDE DEF a, b
        <3>5. b = a
            BY <3>1, <3>2, <3>4
        <3> QED BY <3>5 DEF a, b
    <2>11. nodes'[Min(B)].kind = "DIRECTORY"
        BY <2>1, <2>5, <2>8, <2>10
    <2> QED BY <2>6, <2>7, <2>11 DEF IsDirectory, Exists, Kind, B
<1>5. IsDirectory(<<>>)'
    BY DEF IsDirectory
<1> QED BY <1>1, <1>3, <1>4, <1>5

LEMMA Grown ==
    ASSUME VolumeInv, Extends
    PROVE  /\ VolumeInv' /\ Len(nodes) \in Nat /\ Len(nodes') \in Nat /\ Len(nodes) <= Len(nodes')
           /\ \A n \in 0..Len(nodes) : SubSeq(nodes', 1, n) = SubSeq(nodes, 1, n)
           /\ \A path : IsDirectory(path) => IsDirectory(path)'
<1>1. Len(nodes) \in Nat
    BY LenProperties DEF VolumeInv
<1>2. CASE nodes' = nodes
    <2>1. \A path : IsDirectory(path)' <=> IsDirectory(path)
        <3> SUFFICES ASSUME NEW path PROVE IsDirectory(path)' <=> IsDirectory(path)
            OBVIOUS
        <3> DEFINE A == {i \in DOMAIN nodes : nodes[i].path = path}
                   B == {i \in DOMAIN nodes' : nodes'[i].path = path}
        <3>1. A = B
            BY <1>2
        <3>2. Kind(path) = nodes[Min(A)].kind /\ Kind(path)' = nodes'[Min(B)].kind
            BY DEF Kind
        <3>3. Exists(path)' <=> Exists(path)
            BY <1>2 DEF Exists
        <3> HIDE DEF A, B
        <3>4. Kind(path)' = Kind(path)
            BY <1>2, <3>1, <3>2
        <3> QED BY <3>3, <3>4 DEF IsDirectory
    <2>2. VolumeInv'
        <3>1. (nodes \in Seq(Node) /\ Len(nodes) <= MaxNodes)'
            BY <1>2 DEF VolumeInv
        <3>2. (\A place \in Places : IsDirectory(place))'
            BY <2>1 DEF VolumeInv
        <3>3. ASSUME NEW i \in DOMAIN nodes'
              PROVE  (nodes[i].path # <<>> /\ IsDirectory(Front(nodes[i].path)))'
            <4> DEFINE front == Front(nodes[i].path)
            <4>1. nodes[i].path # <<>> /\ IsDirectory(front)
                BY <1>2 DEF VolumeInv
            <4>2. IsDirectory(front)'
                BY <1>2, <2>1, <4>1 DEF IsDirectory, Exists, Kind
            <4> QED BY <1>2, <4>1, <4>2
        <3> QED BY <3>1, <3>2, <3>3 DEF VolumeInv
    <2> QED BY <1>1, <1>2, <2>1, <2>2
<1>3. CASE \E node \in Node : MayCreate(node.path) /\ nodes' = Append(nodes, node)
    <2>1. PICK node \in Node : MayCreate(node.path) /\ nodes' = Append(nodes, node)
        BY <1>3
    <2>2. /\ nodes' \in Seq(Node) /\ Len(nodes') = Len(nodes) + 1
          /\ \A i \in 1..Len(nodes) : nodes'[i] = nodes[i]
          /\ nodes'[Len(nodes) + 1] = node
          /\ \A n \in 0..Len(nodes) : SubSeq(nodes', 1, n) = SubSeq(nodes, 1, n)
          /\ \A path : IsDirectory(path) => IsDirectory(path)'
        BY <2>1, GrowsByOne DEF VolumeInv
    <2>3. Len(nodes) < MaxNodes /\ node.path # <<>> /\ IsDirectory(Front(node.path))
        BY <2>1 DEF MayCreate
    <2>4. Len(nodes') <= MaxNodes
        BY <1>1, <2>2, <2>3, SessionFilesAssumption
    <2>5. ASSUME NEW i \in DOMAIN nodes'
          PROVE  (nodes[i].path # <<>> /\ IsDirectory(Front(nodes[i].path)))'
        <3>1. DOMAIN nodes' = 1..Len(nodes') /\ DOMAIN nodes = 1..Len(nodes)
            BY <2>2, LenProperties DEF VolumeInv
        <3>2. i \in DOMAIN nodes \/ i = Len(nodes) + 1
            BY <1>1, <2>2, <3>1
        <3>3. nodes'[i].path # <<>> /\ IsDirectory(Front(nodes'[i].path))
            <4>1. CASE i \in DOMAIN nodes
                BY <2>2, <3>1, <4>1 DEF VolumeInv
            <4>2. CASE i = Len(nodes) + 1
                BY <2>2, <2>3, <4>2
            <4> QED BY <3>2, <4>1, <4>2
        <3> DEFINE front == Front(nodes'[i].path)
        <3>4. IsDirectory(front)
            BY <3>3
        <3> QED BY <2>2, <3>3, <3>4 DEF IsDirectory, Exists, Kind
    <2>6. \A place \in Places : IsDirectory(place)'
        BY <2>2 DEF VolumeInv
    <2> QED BY <1>1, <2>2, <2>4, <2>5, <2>6 DEF VolumeInv
<1> QED BY <1>2, <1>3 DEF Extends

-----------------------------------------------------------------------------
(* The Files window's listing: e is a listing of the current directory as it *)
(* was since that was entered, before the step and after it.                 *)
OnScreen == [drawn : BOOLEAN, listing : Seq(Words), selection : 0..MaxListed]
Whole(e) == e \in Explorer /\ Len(e.listing) <= MaxListed
Cached(e) ==
    /\ Whole(e)
    /\ e.valid =>
         /\ e.path = cwd
         /\ \E n \in entered..Len(nodes) : e.listing = Listing(cwd, SubSeq(nodes, 1, n))
Fits(e) ==
    /\ Whole(e)
    /\ e.valid =>
         /\ e.path = cwd'
         /\ \E n \in entered'..Len(nodes') : e.listing = Listing(cwd', SubSeq(nodes', 1, n))

LEMMA StayFits ==
    ASSUME VolumeInv, entered \in Nat, Extends, Stays, NEW e, Cached(e)
    PROVE  Fits(e)
<1>1. /\ Len(nodes) \in Nat /\ Len(nodes') \in Nat /\ Len(nodes) <= Len(nodes')
      /\ \A n \in 0..Len(nodes) : SubSeq(nodes', 1, n) = SubSeq(nodes, 1, n)
    BY Grown
<1>2. Whole(e)
    BY DEF Cached
<1>3. cwd' = cwd /\ entered' = entered
    BY DEF Stays
<1>4. ASSUME e.valid
      PROVE  /\ e.path = cwd'
             /\ \E n \in entered'..Len(nodes') : e.listing = Listing(cwd', SubSeq(nodes', 1, n))
    <2>1. PICK n \in entered..Len(nodes) : e.listing = Listing(cwd, SubSeq(nodes, 1, n))
        BY <1>4 DEF Cached
    <2>2. n \in 0..Len(nodes) /\ n \in entered'..Len(nodes')
        BY <1>1, <1>3
    <2>3. SubSeq(nodes', 1, n) = SubSeq(nodes, 1, n)
        BY <1>1, <2>2
    <2>4. e.listing = Listing(cwd', SubSeq(nodes', 1, n))
        BY <1>3, <2>1, <2>3
    <2>5. e.path = cwd'
        BY <1>3, <1>4 DEF Cached
    <2> QED BY <2>2, <2>4, <2>5
<1> QED BY <1>2, <1>4 DEF Fits

LEMMA InvalidFits ==
    ASSUME NEW e, Whole(e)
    PROVE  Fits(Invalid(e)) /\ Fits([Invalid(e) EXCEPT !.selection = 1])
<1>1. 1 \in 1..MaxListed
    BY SessionFilesAssumption
<1>2. Whole(Invalid(e)) /\ ~Invalid(e).valid
    BY DEF Whole, Invalid, Explorer
<1> DEFINE first == [Invalid(e) EXCEPT !.selection = 1]
<1>3. Whole(first) /\ ~first.valid
    BY <1>1 DEF Whole, Invalid, Explorer
<1> HIDE DEF first
<1>4. Fits(first)
    BY <1>3 DEF Fits
<1>5. Fits(Invalid(e))
    BY <1>2 DEF Fits
<1> QED BY <1>4, <1>5 DEF first

LEMMA SelectKeeps ==
    ASSUME NEW e, Cached(e), NEW k \in 1..MaxListed
    PROVE  Cached([e EXCEPT !.selection = k])
<1> DEFINE new == [e EXCEPT !.selection = k]
<1>1. new \in Explorer /\ new.valid = e.valid /\ new.path = e.path /\ new.listing = e.listing
    BY DEF Cached, Whole, Explorer
<1> HIDE DEF new
<1>2. Cached(new)
    BY <1>1 DEF Cached, Whole
<1> QED BY <1>2 DEF new

(* explorer_refresh yields a listing of the directory it is asked for.       *)
LEMMA RefreshIs ==
    ASSUME NEW e, Whole(e), NEW dir \in Path, NEW volume \in Seq(Node),
           \A i \in DOMAIN volume : volume[i].path # <<>>, NEW reads \in BOOLEAN
    PROVE  /\ Whole(Refreshed(e, dir, volume, reads))
           /\ Refreshed(e, dir, volume, reads).selection = e.selection
           /\ Refreshed(e, dir, volume, reads).valid =>
                /\ Refreshed(e, dir, volume, reads).path = dir
                /\ \/ Refreshed(e, dir, volume, reads) = e
                   \/ Refreshed(e, dir, volume, reads).listing = Listing(dir, volume)
<1> DEFINE r == Refreshed(e, dir, volume, reads)
           listing == Listing(dir, volume)
<1>1. CASE e.valid /\ e.path = dir
    <2>1. r = e
        BY <1>1 DEF Refreshed
    <2> HIDE DEF r
    <2>2. Whole(r) /\ r.selection = e.selection /\ (r.valid => r.path = dir /\ r = e)
        BY <1>1, <2>1
    <2> QED BY <2>2 DEF r
<1>2. CASE ~(e.valid /\ e.path = dir) /\ reads
    <2>1. r = [e EXCEPT !.valid = TRUE, !.path = dir, !.listing = listing]
        BY <1>2 DEF Refreshed
    <2>2. listing \in Seq(Words) /\ Len(listing) <= MaxListed
        <3>1. DOMAIN volume = 1..Len(volume)
            BY LenProperties
        <3> HIDE DEF listing
        <3> QED BY <3>1, ListingFits DEF listing
    <2> HIDE DEF r, listing
    <2>3. Whole(r) /\ r.selection = e.selection /\ r.path = dir /\ r.listing = listing
        BY <2>1, <2>2 DEF Whole, Explorer
    <2> QED BY <2>3 DEF r, listing
<1>3. CASE ~(e.valid /\ e.path = dir) /\ ~reads
    <2>1. r = [e EXCEPT !.valid = FALSE, !.listing = <<>>]
        BY <1>3 DEF Refreshed
    <2>2. <<>> \in Seq(Words) /\ Len(<<>>) <= MaxListed
        BY SessionFilesAssumption
    <2> HIDE DEF r
    <2>3. Whole(r) /\ r.selection = e.selection /\ ~r.valid
        BY <2>1, <2>2 DEF Whole, Explorer
    <2> QED BY <2>3 DEF r
<1> QED BY <1>1, <1>2, <1>3

LEMMA ClampKeeps ==
    ASSUME NEW e, Whole(e)
    PROVE  /\ Whole(Clamped(e)) /\ Clamped(e).valid = e.valid
           /\ Clamped(e).path = e.path /\ Clamped(e).listing = e.listing
<1> DEFINE r == Clamped(e)
           last == Len(e.listing)
<1>1. CASE e.valid /\ e.listing # <<>> /\ e.selection > Len(e.listing)
    <2>1. r = [e EXCEPT !.selection = last]
        BY <1>1 DEF Clamped
    <2>2. e.listing \in Seq(Words)
        BY DEF Whole, Explorer
    <2>3. last \in Nat /\ last # 0
        BY <1>1, <2>2, EmptySeq, LenProperties
    <2>4. last \in 1..MaxListed
        <3>1. last <= MaxListed
            BY DEF Whole
        <3> HIDE DEF last
        <3> QED BY <2>3, <3>1, SessionFilesAssumption
    <2> HIDE DEF r, last
    <2>5. /\ r \in Explorer /\ r.valid = e.valid /\ r.path = e.path /\ r.listing = e.listing
        BY <2>1, <2>4 DEF Whole, Explorer
    <2>6. Len(r.listing) <= MaxListed
        BY <2>5 DEF Whole
    <2> QED BY <2>5, <2>6 DEF Whole, r
<1>2. CASE ~(e.valid /\ e.listing # <<>> /\ e.selection > Len(e.listing))
    <2>1. r = e
        BY <1>2 DEF Clamped
    <2> HIDE DEF r
    <2>2. Whole(r) /\ r.valid = e.valid /\ r.path = e.path /\ r.listing = e.listing
        BY <2>1
    <2> QED BY <2>2 DEF r
<1> QED BY <1>1, <1>2

(* The window draws the whole listing, or the first MaxDrawn entries of it.  *)
LEMMA FirstDrawnIs ==
    ASSUME NEW listing \in Seq(Words)
    PROVE  /\ FirstDrawn(listing) \in Seq(Words) /\ Len(listing) \in Nat
           /\ Len(FirstDrawn(listing)) =
                  IF Len(listing) <= MaxDrawn THEN Len(listing) ELSE MaxDrawn
           /\ DOMAIN FirstDrawn(listing) = 1..Len(FirstDrawn(listing))
           /\ \A i \in DOMAIN FirstDrawn(listing) : FirstDrawn(listing)[i] = listing[i]
<1> DEFINE length == Len(listing)
           k == Min({length, MaxDrawn})
<1>1. length \in Nat /\ MaxDrawn \in Nat
    BY LenProperties, SessionFilesAssumption
<1>2. k \in {length, MaxDrawn} /\ k <= length /\ k <= MaxDrawn
    <2> HIDE DEF length
    <2>1. {length, MaxDrawn} \in SUBSET Nat /\ {length, MaxDrawn} # {}
        BY <1>1
    <2> QED BY <2>1, MinIs
<1>3. k = IF length <= MaxDrawn THEN length ELSE MaxDrawn
    <2> HIDE DEF length, k
    <2> QED BY <1>1, <1>2
<1>4. k \in 0..length
    <2> HIDE DEF length, k
    <2> QED BY <1>1, <1>2
<1>5. /\ SubSeq(listing, 1, k) \in Seq(Words) /\ Len(SubSeq(listing, 1, k)) = k
      /\ \A i \in 1..k : SubSeq(listing, 1, k)[i] = listing[i]
    <2> HIDE DEF k
    <2> QED BY <1>4, Beginning
<1>6. DOMAIN SubSeq(listing, 1, k) = 1..k
    <2> HIDE DEF k
    <2> QED BY <1>5, LenProperties
<1> QED BY <1>1, <1>3, <1>5, <1>6 DEF FirstDrawn

(* What the window shows is of the right type; the highlighted entry is the  *)
(* selected one, and when none is highlighted the selected one is not drawn. *)
LEMMA ScreenIs ==
    ASSUME NEW e, Whole(e)
    PROVE  /\ Screen(e) \in OnScreen /\ Screen(e).drawn = e.valid
           /\ Screen(e).listing = FirstDrawn(e.listing)
           /\ Screen(e).selection # 0 =>
                /\ Screen(e).selection = e.selection
                /\ Screen(e).listing[e.selection] = e.listing[e.selection]
           /\ Screen(e).selection = 0 /\ e.selection \in DOMAIN e.listing =>
                Len(FirstDrawn(e.listing)) = MaxDrawn /\ e.selection > MaxDrawn
<1> DEFINE first == FirstDrawn(e.listing)
           length == Len(e.listing)
           selection == IF e.selection \in DOMAIN first THEN e.selection ELSE 0
<1>1. e.listing \in Seq(Words) /\ e.valid \in BOOLEAN /\ e.selection \in 1..MaxListed
    BY DEF Whole, Explorer
<1>2. /\ first \in Seq(Words) /\ length \in Nat /\ DOMAIN first = 1..Len(first)
      /\ Len(first) = (IF length <= MaxDrawn THEN length ELSE MaxDrawn)
      /\ \A i \in DOMAIN first : first[i] = e.listing[i]
    BY <1>1, FirstDrawnIs
<1>3. DOMAIN e.listing = 1..length
    BY <1>1, LenProperties
<1>4. Screen(e) = [drawn |-> e.valid, listing |-> first, selection |-> selection]
    BY DEF Screen
<1>5. MaxListed \in Nat /\ MaxDrawn \in Nat
    BY SessionFilesAssumption
<1> HIDE DEF first, length
<1>6. selection \in 0..MaxListed
    BY <1>1, <1>5
<1>7. selection # 0 => selection = e.selection /\ first[e.selection] = e.listing[e.selection]
    BY <1>1, <1>2
<1>8. selection = 0 /\ e.selection \in DOMAIN e.listing => Len(first) = MaxDrawn /\ e.selection > MaxDrawn
    BY <1>1, <1>2, <1>3, <1>5
<1> HIDE DEF selection
<1>9. Screen(e) \in OnScreen
    BY <1>1, <1>2, <1>4, <1>6 DEF OnScreen
<1>10. Screen(e).drawn = e.valid /\ Screen(e).listing = first /\ Screen(e).selection = selection
    BY <1>4
<1> QED BY <1>7, <1>8, <1>9, <1>10 DEF first

(* The redraw that ends an event: the screen shows the cache, and the cache  *)
(* fits the current directory.                                               *)
LEMMA Drawn ==
    ASSUME VolumeInv', cwd' \in Path, entered' \in 0..Len(nodes'), visible' \in BOOLEAN,
           NEW e, Fits(e), NEW disk, Draw(e, disk)
    PROVE  Whole(explorer') /\ shown' \in OnScreen /\ CacheInv' /\ ScreenInv'
<1> DEFINE reads == disk # "undrawn"
           r == Refreshed(e, cwd', nodes', reads)
           c == Clamped(r)
<1>1. nodes' \in Seq(Node) /\ Len(nodes') \in Nat /\ \A i \in DOMAIN nodes' : nodes'[i].path # <<>>
    BY LenProperties DEF VolumeInv
<1>2. Whole(e)
    BY DEF Fits
<1>3. /\ Whole(r)
      /\ r.valid => r.path = cwd' /\ (r = e \/ r.listing = Listing(cwd', nodes'))
    <2>1. reads \in BOOLEAN
        OBVIOUS
    <2> HIDE DEF reads
    <2> QED BY <1>1, <1>2, <2>1, RefreshIs
<1>4. ASSUME r.valid
      PROVE  /\ r.path = cwd'
             /\ \E n \in entered'..Len(nodes') : r.listing = Listing(cwd', SubSeq(nodes', 1, n))
    <2>1. CASE r = e
        <3> HIDE DEF r
        <3> QED BY <1>3, <1>4, <2>1 DEF Fits
    <2>2. CASE r.listing = Listing(cwd', nodes')
        <3>1. SubSeq(nodes', 1, Len(nodes')) = nodes'
            BY <1>1, SubSeqFull
        <3>2. Len(nodes') \in entered'..Len(nodes')
            BY <1>1
        <3> HIDE DEF r
        <3> QED BY <1>3, <1>4, <2>2, <3>1, <3>2
    <2> QED BY <1>3, <1>4, <2>1, <2>2
<1>5. /\ Whole(c) /\ c.valid = r.valid /\ c.path = r.path /\ c.listing = r.listing
    <2> HIDE DEF r
    <2> QED BY <1>3, ClampKeeps
<1>6. /\ explorer' = IF visible' THEN c ELSE e
      /\ shown' = IF visible' THEN Screen(c) ELSE Nothing
    BY DEF Draw
<1> HIDE DEF c, r
<1>7. CASE visible'
    <2>1. explorer' = c
        BY <1>6, <1>7
    <2>2. shown' = Screen(explorer')
        BY <1>6, <1>7, <2>1
    <2>3. Whole(explorer')
        BY <1>5, <2>1
    <2>4. shown' \in OnScreen /\ shown'.drawn = explorer'.valid
        BY <2>2, <2>3, ScreenIs
    <2>5. CacheInv'
        BY <1>4, <1>5, <2>1 DEF CacheInv
    <2>6. ScreenInv'
        <3>1. (shown = Screen(explorer))'
            BY <2>2 DEF Screen, FirstDrawn
        <3> QED BY <1>7, <2>4, <3>1 DEF ScreenInv
    <2> QED BY <2>3, <2>4, <2>5, <2>6
<1>8. CASE ~visible'
    <2>1. explorer' = e /\ shown' = Nothing
        BY <1>6, <1>8
    <2>2. Nothing \in OnScreen /\ ~Nothing.drawn
        <3>1. 0 \in 0..MaxListed /\ <<>> \in Seq(Words)
            BY SessionFilesAssumption
        <3> QED BY <3>1 DEF Nothing, OnScreen
    <2>3. CacheInv'
        BY <2>1 DEF CacheInv, Fits
    <2>4. ScreenInv'
        BY <2>1, <2>2 DEF ScreenInv
    <2> QED BY <1>2, <2>1, <2>2, <2>3, <2>4
<1> QED BY <1>7, <1>8

-----------------------------------------------------------------------------
(* The events.                                                               *)
LEMMA SessionFacts ==
    ASSUME SessionInv
    PROVE  /\ VolumeInv /\ cwd \in Path /\ IsDirectory(cwd) /\ Whole(explorer) /\ Cached(explorer)
           /\ visible \in BOOLEAN /\ entered \in 0..Len(nodes) /\ entered \in Nat
           /\ Len(nodes) \in Nat /\ nodes \in Seq(Node)
<1>1. nodes \in Seq(Node) /\ entered \in 0..Len(nodes)
    BY DEF SessionInv, SessionTypeOK
<1>2. Len(nodes) \in Nat
    BY <1>1, LenProperties
<1>3. Whole(explorer)
    BY DEF SessionInv, SessionTypeOK, Whole, Explorer
<1>4. Cached(explorer)
    BY <1>3 DEF SessionInv, CacheInv, Cached
<1> QED BY <1>1, <1>2, <1>3, <1>4 DEF SessionInv, SessionTypeOK, CwdIsADirectory

(* A path that exists is a path.                                             *)
LEMMA ExistsIsPath ==
    ASSUME VolumeInv, NEW path, Exists(path)
    PROVE  path \in Path /\ (path # <<>> => IsDirectory(Front(path)))
<1>1. CASE path = <<>>
    BY <1>1, PlacesAre
<1>2. CASE path # <<>>
    <2>1. PICK i \in DOMAIN nodes : nodes[i].path = path
        BY <1>2 DEF Exists
    <2>2. nodes \in Seq(Node) /\ DOMAIN nodes = 1..Len(nodes)
        BY LenProperties DEF VolumeInv
    <2>3. nodes[i] \in Node
        BY <2>1, <2>2, ElementOfSeq
    <2>4. path \in Path
        BY <2>1, <2>3 DEF Node
    <2>5. IsDirectory(Front(nodes[i].path))
        BY <2>1 DEF VolumeInv
    <2> QED BY <2>1, <2>4, <2>5
<1> QED BY <1>1, <1>2

LEMMA NothingGrows ==
    ASSUME nodes' = nodes
    PROVE  Extends
BY DEF Extends

LEMMA MeetsKeeps ==
    ASSUME mishaps \in 0..MaxMishaps, NEW disk, Meets(disk)
    PROVE  mishaps' \in 0..MaxMishaps
<1>1. MaxMishaps \in Nat
    BY SessionFilesAssumption
<1>2. mishaps' = mishaps \/ (mishaps < MaxMishaps /\ mishaps' = mishaps + 1)
    BY DEF Meets
<1> QED BY <1>1, <1>2

LEMMA SlotsStay ==
    ASSUME SessionInv, UNCHANGED <<slots, touches>>
    PROVE  /\ slots' \in [1..MaxHandles -> Path \union {NoFile}] /\ touches' \in 0..MaxHandles
           /\ EachTouchKeepsAHandle'
<1>1. slots' = slots /\ touches' = touches
    OBVIOUS
<1>2. {h \in 1..MaxHandles : slots[h] # NoFile} = 1..touches
    BY DEF SessionInv, EachTouchKeepsAHandle
<1>3. EachTouchKeepsAHandle'
    BY <1>1, <1>2 DEF EachTouchKeepsAHandle
<1> QED BY <1>1, <1>3 DEF SessionInv, SessionTypeOK

(* What every event comes to: the volume has grown by a node at most, the    *)
(* directory entered is one, and the screen is drawn from a listing that     *)
(* fits it.                                                                  *)
LEMMA EventKeeps ==
    ASSUME SessionInv, Extends, cwd' \in Path, IsDirectory(cwd'), entered' \in 0..Len(nodes'),
           NEW e, Fits(e), NEW disk, Meets(disk), Draw(e, disk),
           visible' \in BOOLEAN, reply' \in {"ok", "failed", "none"}, opened' \in Path \union {NoFile},
           slots' \in [1..MaxHandles -> Path \union {NoFile}], touches' \in 0..MaxHandles,
           EachTouchKeepsAHandle'
    PROVE  SessionInv'
<1>1. VolumeInv /\ mishaps \in 0..MaxMishaps
    BY DEF SessionInv, SessionTypeOK
<1>2. VolumeInv' /\ \A path : IsDirectory(path) => IsDirectory(path)'
    BY <1>1, Grown
<1>3. CwdIsADirectory'
    <2>1. IsDirectory(cwd') => IsDirectory(cwd)'
        <3>1. \A path : IsDirectory(path) => IsDirectory(path)'
            BY <1>2
        <3> QED BY <3>1, Zenon DEF IsDirectory, Exists, Kind
    <2> QED BY <2>1 DEF CwdIsADirectory
<1>4. Whole(explorer') /\ shown' \in OnScreen /\ CacheInv' /\ ScreenInv'
    BY <1>2, Drawn
<1>5. mishaps' \in 0..MaxMishaps
    BY <1>1, MeetsKeeps
<1>6. SessionTypeOK'
    <2>1. (nodes \in Seq(Node) /\ Len(nodes) <= MaxNodes)'
        BY <1>2 DEF VolumeInv
    <2>2. (/\ explorer \in [valid : BOOLEAN, path : Path, listing : Seq(Words), selection : 1..MaxListed]
           /\ Len(explorer.listing) <= MaxListed)'
        BY <1>4 DEF Whole, Explorer
    <2>3. (shown \in [drawn : BOOLEAN, listing : Seq(Words), selection : 0..MaxListed])'
        BY <1>4 DEF OnScreen
    <2> QED BY <1>5, <2>1, <2>2, <2>3 DEF SessionTypeOK
<1> QED BY <1>2, <1>3, <1>4, <1>6 DEF SessionInv

(* An event that stays in the directory, and one that enters another.        *)
LEMMA StayKeeps ==
    ASSUME SessionInv, Extends, Stays, NEW e, Cached(e), NEW disk, Meets(disk), Draw(e, disk),
           visible' \in BOOLEAN, reply' \in {"ok", "failed", "none"}, opened' \in Path \union {NoFile},
           slots' \in [1..MaxHandles -> Path \union {NoFile}], touches' \in 0..MaxHandles,
           EachTouchKeepsAHandle'
    PROVE  SessionInv'
<1>1. /\ VolumeInv /\ cwd \in Path /\ IsDirectory(cwd) /\ entered \in 0..Len(nodes) /\ entered \in Nat
      /\ Len(nodes) \in Nat
    BY SessionFacts
<1>2. cwd' = cwd /\ entered' = entered
    BY DEF Stays
<1>3. Len(nodes') \in Nat /\ Len(nodes) <= Len(nodes')
    BY <1>1, Grown
<1>4. Fits(e)
    BY <1>1, StayFits
<1>5. cwd' \in Path /\ IsDirectory(cwd') /\ entered' \in 0..Len(nodes')
    BY <1>1, <1>2, <1>3
<1> QED BY <1>4, <1>5, EventKeeps

LEMMA EnterKeeps ==
    ASSUME SessionInv, NEW path \in Path, IsDirectory(path), Enters(path),
           NEW e, Fits(e), NEW disk, Meets(disk), Draw(e, disk),
           visible' \in BOOLEAN, reply' \in {"ok", "failed", "none"}, opened' \in Path \union {NoFile},
           UNCHANGED <<nodes, slots, touches>>
    PROVE  SessionInv'
<1>1. Len(nodes) \in Nat /\ nodes' = nodes /\ Extends
    BY SessionFacts, NothingGrows
<1>2. cwd' = path /\ entered' = Len(nodes)
    BY DEF Enters
<1>3. cwd' \in Path /\ IsDirectory(cwd') /\ entered' \in 0..Len(nodes')
    BY <1>1, <1>2
<1>4. /\ slots' \in [1..MaxHandles -> Path \union {NoFile}] /\ touches' \in 0..MaxHandles
      /\ EachTouchKeepsAHandle'
    BY SlotsStay
<1> QED BY <1>1, <1>3, <1>4, EventKeeps

LEMMA QuietIs ==
    ASSUME Quiet
    PROVE  reply' \in {"ok", "failed", "none"} /\ opened' \in Path \union {NoFile}
BY DEF Quiet

(* cd, the login, the launch of the window and its side bar.                 *)
LEMMA CdKeeps ==
    ASSUME SessionInv, NEW argument \in Arguments, NEW disk, Cd(argument, disk)
    PROVE  SessionInv'
<1> DEFINE path == path_resolve(argument)
<1>1. /\ Meets(disk) /\ Quiet /\ UNCHANGED <<nodes, slots, visible, touches>>
      /\ IF path.valid /\ disk # "unread" /\ IsDirectory(path.parts)
         THEN Enters(path.parts) /\ Draw(Invalid(explorer), disk)
         ELSE Stays /\ Draw(explorer, disk)
    BY DEF Cd
<1>2. cwd \in Path /\ Whole(explorer) /\ Cached(explorer) /\ visible' \in BOOLEAN
    BY <1>1, SessionFacts
<1>3. path.parts \in Path
    <2>1. path \in Resolved
        BY <1>2, ResolveKeeps
    <2> QED BY <2>1 DEF Resolved
<1> DEFINE parts == path.parts
           may == path.valid /\ disk # "unread" /\ IsDirectory(path.parts)
<1>4. CASE may
    <2>1. Enters(parts) /\ Draw(Invalid(explorer), disk) /\ IsDirectory(parts)
        BY <1>1, <1>4
    <2> HIDE DEF path, parts
    <2>2. parts \in Path
        BY <1>3 DEF parts
    <2> QED BY <1>1, <1>2, <2>1, <2>2, InvalidFits, QuietIs, EnterKeeps
<1>5. CASE ~may
    <2>1. Stays /\ Draw(explorer, disk)
        BY <1>1, <1>5
    <2>2. Extends
        BY <1>1, NothingGrows
    <2> QED BY <1>1, <1>2, <2>1, <2>2, QuietIs, SlotsStay, StayKeeps
<1> HIDE DEF may
<1> QED BY <1>4, <1>5

LEMMA LoginKeeps ==
    ASSUME SessionInv, NEW disk, Login(disk)
    PROVE  SessionInv'
<1>1. /\ Meets(disk) /\ Quiet /\ UNCHANGED <<nodes, slots, visible, touches>>
      /\ Enters(Home) /\ Draw(Invalid(explorer), disk)
    BY DEF Login
<1>2. Home \in Path /\ IsDirectory(Home)
    BY PlacesAre DEF SessionInv, VolumeInv, Places
<1>3. Whole(explorer) /\ visible' \in BOOLEAN
    BY <1>1, SessionFacts
<1> QED BY <1>1, <1>2, <1>3, InvalidFits, QuietIs, EnterKeeps

LEMMA LaunchKeeps ==
    ASSUME SessionInv, NEW disk, launch_files(disk)
    PROVE  SessionInv'
<1>1. /\ Meets(disk) /\ Quiet /\ UNCHANGED <<nodes, slots, touches>> /\ visible' = TRUE
      /\ Enters(Home) /\ Draw([Invalid(explorer) EXCEPT !.selection = 1], disk)
    BY DEF launch_files
<1>2. Home \in Path /\ IsDirectory(Home)
    BY PlacesAre DEF SessionInv, VolumeInv, Places
<1>3. Fits([Invalid(explorer) EXCEPT !.selection = 1]) /\ visible' \in BOOLEAN
    BY <1>1, SessionFacts, InvalidFits
<1> QED BY <1>1, <1>2, <1>3, QuietIs, EnterKeeps

LEMMA GoToKeeps ==
    ASSUME SessionInv, NEW place \in Places, NEW disk, GoTo(place, disk)
    PROVE  SessionInv'
<1>1. /\ Meets(disk) /\ Quiet /\ UNCHANGED <<nodes, slots, visible, touches>>
      /\ Enters(place) /\ Draw([Invalid(explorer) EXCEPT !.selection = 1], disk)
    BY DEF GoTo
<1>2. place \in Path /\ IsDirectory(place)
    BY PlacesAre DEF SessionInv, VolumeInv, Places
<1>3. Fits([Invalid(explorer) EXCEPT !.selection = 1]) /\ visible' \in BOOLEAN
    BY <1>1, SessionFacts, InvalidFits
<1> QED BY <1>1, <1>2, <1>3, QuietIs, EnterKeeps

LEMMA BackKeeps ==
    ASSUME SessionInv, NEW disk, Back(disk)
    PROVE  SessionInv'
<1>1. /\ Meets(disk) /\ Quiet /\ UNCHANGED <<nodes, slots, visible, touches>>
      /\ IF Len(cwd) > 1
         THEN Enters(Front(cwd)) /\ Draw([Invalid(explorer) EXCEPT !.selection = 1], disk)
         ELSE Stays /\ Draw([explorer EXCEPT !.selection = 1], disk)
    BY DEF Back
<1>2. /\ VolumeInv /\ cwd \in Path /\ IsDirectory(cwd) /\ Whole(explorer) /\ Cached(explorer)
      /\ visible' \in BOOLEAN
    BY <1>1, SessionFacts
<1>3. CASE Len(cwd) > 1
    <2>1. cwd # <<>>
        <3>1. Len(<<>>) = 0 /\ ~(0 > 1)
            OBVIOUS
        <3> QED BY <1>3, <3>1
    <2>2. Front(cwd) \in Path /\ IsDirectory(Front(cwd))
        <3>1. Exists(cwd)
            BY <1>2, <2>1 DEF IsDirectory
        <3> QED BY <1>2, <2>1, <3>1, ExistsIsPath, FrontIs
    <2>3. Fits([Invalid(explorer) EXCEPT !.selection = 1])
        BY <1>2, InvalidFits
    <2> QED BY <1>1, <1>2, <1>3, <2>2, <2>3, QuietIs, EnterKeeps
<1>4. CASE ~(Len(cwd) > 1)
    <2>1. Cached([explorer EXCEPT !.selection = 1])
        <3>1. 1 \in 1..MaxListed
            BY SessionFilesAssumption
        <3> QED BY <1>2, <3>1, SelectKeeps
    <2>2. Extends
        BY <1>1, NothingGrows
    <2> QED BY <1>1, <1>2, <1>4, <2>1, <2>2, QuietIs, SlotsStay, StayKeeps
<1> QED BY <1>3, <1>4

LEMMA RedrawKeeps ==
    ASSUME SessionInv, NEW disk, Redraw(disk)
    PROVE  SessionInv'
<1>1. /\ Meets(disk) /\ Quiet /\ UNCHANGED <<nodes, slots, visible, touches>>
      /\ Stays /\ Draw(explorer, disk)
    BY DEF Redraw
<1>2. Cached(explorer) /\ visible' \in BOOLEAN /\ Extends
    BY <1>1, SessionFacts, NothingGrows
<1> QED BY <1>1, <1>2, QuietIs, SlotsStay, StayKeeps

LEMMA HideKeeps ==
    ASSUME SessionInv, Hide
    PROVE  SessionInv'
<1>1. /\ visible' = FALSE /\ Quiet /\ UNCHANGED <<nodes, slots, touches, mishaps>>
      /\ Stays /\ Draw(explorer, "ok")
    BY DEF Hide
<1>2. Cached(explorer) /\ visible' \in BOOLEAN /\ Extends /\ Meets("ok")
    BY <1>1, SessionFacts, NothingGrows DEF Meets
<1> QED BY <1>1, <1>2, QuietIs, SlotsStay, StayKeeps

LEMMA RefreshKeeps ==
    ASSUME SessionInv, NEW reads \in BOOLEAN
    PROVE  Cached(Refreshed(explorer, cwd, nodes, reads))
<1> DEFINE r == Refreshed(explorer, cwd, nodes, reads)
<1>1. /\ VolumeInv /\ cwd \in Path /\ Whole(explorer) /\ Cached(explorer)
      /\ nodes \in Seq(Node) /\ Len(nodes) \in Nat /\ entered \in 0..Len(nodes)
    BY SessionFacts
<1>2. /\ Whole(r)
      /\ r.valid => r.path = cwd /\ (r = explorer \/ r.listing = Listing(cwd, nodes))
    BY <1>1, RefreshIs DEF VolumeInv
<1> HIDE DEF r
<1>3. Cached(r)
    <2>1. CASE r.valid /\ r = explorer
        BY <1>1, <2>1
    <2>2. CASE r.valid /\ r.listing = Listing(cwd, nodes)
        <3>1. SubSeq(nodes, 1, Len(nodes)) = nodes
            BY <1>1, SubSeqFull
        <3>2. Len(nodes) \in entered..Len(nodes)
            BY <1>1
        <3> QED BY <1>2, <2>2, <3>1, <3>2 DEF Cached
    <2>3. CASE ~r.valid
        BY <1>2, <2>3 DEF Cached
    <2> QED BY <1>2, <2>1, <2>2, <2>3
<1> QED BY <1>3 DEF r

LEMMA ClickEntryKeeps ==
    ASSUME SessionInv, NEW entry \in 1..MaxListed, NEW disk, ClickEntry(entry, disk)
    PROVE  SessionInv'
<1> DEFINE reads == disk # "unread"
           e == Refreshed(explorer, cwd, nodes, reads)
           path == EntryPath(e, entry)
           chosen == entry \in DOMAIN e.listing /\ e.selection = entry /\ Exists(path)
<1>1. /\ Meets(disk) /\ reply' = "none" /\ UNCHANGED <<nodes, slots, visible, touches>>
      /\ \/ chosen /\ OpenSelected(e, path, disk)
         \/ /\ opened' = NoFile /\ Stays
            /\ Draw(IF entry \in DOMAIN e.listing THEN [e EXCEPT !.selection = entry] ELSE e, disk)
    BY DEF ClickEntry
<1>2. Cached(e)
    <2>1. reads \in BOOLEAN
        OBVIOUS
    <2> HIDE DEF reads
    <2> QED BY <2>1, RefreshKeeps
<1>3. VolumeInv /\ visible' \in BOOLEAN /\ Extends
    BY <1>1, SessionFacts, NothingGrows
<1>4. reply' \in {"ok", "failed", "none"}
    BY <1>1
<1>5. /\ slots' \in [1..MaxHandles -> Path \union {NoFile}] /\ touches' \in 0..MaxHandles
      /\ EachTouchKeepsAHandle'
    BY <1>1, SlotsStay
<1> HIDE DEF e, path
<1>6. CASE chosen /\ OpenSelected(e, path, disk)
    <2>1. path \in Path
        BY <1>3, <1>6, ExistsIsPath
    <2>2. opened' \in Path \union {NoFile}
        BY <1>6, <2>1 DEF OpenSelected
    <2>3. CASE IsDirectory(path)
        <3>1. Enters(path) /\ Draw([Invalid(e) EXCEPT !.selection = 1], disk)
            BY <1>6, <2>3 DEF OpenSelected
        <3>2. Fits([Invalid(e) EXCEPT !.selection = 1])
            BY <1>2, InvalidFits DEF Cached
        <3> QED BY <1>1, <1>3, <1>4, <2>1, <2>2, <2>3, <3>1, <3>2, EnterKeeps
    <2>4. CASE ~IsDirectory(path)
        <3>1. Stays /\ Draw(e, disk)
            BY <1>6, <2>4 DEF OpenSelected
        <3> QED BY <1>1, <1>2, <1>3, <1>4, <1>5, <2>2, <3>1, StayKeeps
    <2> QED BY <2>3, <2>4
<1>7. CASE /\ opened' = NoFile /\ Stays
           /\ Draw(IF entry \in DOMAIN e.listing THEN [e EXCEPT !.selection = entry] ELSE e, disk)
    <2> DEFINE new == IF entry \in DOMAIN e.listing THEN [e EXCEPT !.selection = entry] ELSE e
    <2>1. Cached(new)
        BY <1>2, SelectKeeps
    <2>2. Stays /\ Draw(new, disk) /\ opened' \in Path \union {NoFile}
        BY <1>7
    <2> HIDE DEF new
    <2> QED BY <1>1, <1>3, <1>4, <1>5, <2>1, <2>2, StayKeeps
<1> QED BY <1>1, <1>6, <1>7

(* mkdir and touch: the volume grows by the node that create_node allows.    *)
LEMMA MkdirKeeps ==
    ASSUME SessionInv, NEW argument \in Arguments, NEW disk, Mkdir(argument, disk)
    PROVE  SessionInv'
<1> DEFINE path == path_resolve(argument)
           parts == path.parts
           made == path.valid /\ MakesDirectory(parts, disk)
<1>1. /\ Meets(disk) /\ opened' = NoFile /\ UNCHANGED <<slots, visible, touches>>
      /\ nodes' = IF made THEN Append(nodes, Directory(parts)) ELSE nodes
      /\ reply' = IF made /\ disk # "late" THEN "ok" ELSE "failed"
      /\ Stays /\ Draw(explorer, disk)
    BY DEF Mkdir
<1>2. cwd \in Path /\ Cached(explorer) /\ visible' \in BOOLEAN
    BY <1>1, SessionFacts
<1>3. parts \in Path
    <2>1. path \in Resolved
        BY <1>2, ResolveKeeps
    <2> QED BY <2>1 DEF Resolved
<1>4. made => MayCreate(parts)
    BY DEF MakesDirectory
<1> HIDE DEF path, parts, made
<1>5. Extends
    <2>1. Directory(parts) \in Node /\ Directory(parts).path = parts
        BY <1>3 DEF Directory, Node
    <2>2. CASE made
        <3>1. nodes' = Append(nodes, Directory(parts)) /\ MayCreate(Directory(parts).path)
            BY <1>1, <1>4, <2>1, <2>2
        <3> QED BY <2>1, <3>1, Zenon DEF Extends
    <2>3. CASE ~made
        BY <1>1, <2>3 DEF Extends
    <2> QED BY <2>2, <2>3
<1>6. reply' \in {"ok", "failed", "none"} /\ opened' \in Path \union {NoFile}
    BY <1>1
<1> QED BY <1>1, <1>2, <1>5, <1>6, SlotsStay, StayKeeps

(* The slot a touch takes is the next one, and the FS_CLOSE leaves it taken. *)
LEMMA SlotIsTaken ==
    ASSUME SessionInv, FreeSlots # {}, NEW parts \in Path,
           slots' = FsClose([slots EXCEPT ![Min(FreeSlots)] = parts], Min(FreeSlots), 0),
           touches' = touches + 1
    PROVE  /\ slots' \in [1..MaxHandles -> Path \union {NoFile}] /\ touches' \in 0..MaxHandles
           /\ EachTouchKeepsAHandle'
<1> DEFINE slot == Min(FreeSlots)
           table == [slots EXCEPT ![slot] = parts]
<1>1. /\ slots \in [1..MaxHandles -> Path \union {NoFile}] /\ touches \in 0..MaxHandles
      /\ MaxHandles \in Nat
    BY SessionFilesAssumption DEF SessionInv, SessionTypeOK
<1>2. \A h \in 1..MaxHandles : slots[h] # NoFile <=> h \in 1..touches
    BY <1>1 DEF SessionInv, EachTouchKeepsAHandle
<1>3. slot \in FreeSlots /\ \A h \in FreeSlots : slot <= h
    <2>1. FreeSlots \in SUBSET Nat
        BY <1>1 DEF FreeSlots
    <2> QED BY <2>1, MinIs
<1> HIDE DEF slot
<1>4. slot \in 1..MaxHandles /\ slot = touches + 1
    <2>1. slot \in 1..MaxHandles /\ slots[slot] = NoFile
        BY <1>3 DEF FreeSlots
    <2>2. slot \notin 1..touches
        BY <1>2, <2>1
    <2>3. touches + 1 \in 1..MaxHandles /\ touches + 1 \notin 1..touches /\ touches + 1 <= slot
        BY <1>1, <2>1, <2>2
    <2>4. touches + 1 \in FreeSlots
        BY <1>2, <2>3 DEF FreeSlots
    <2>5. slot <= touches + 1
        BY <1>3, <2>4
    <2> QED BY <1>1, <2>1, <2>3, <2>5
<1>5. slots' = table
    <2>1. DOMAIN table = 1..MaxHandles
        BY <1>1
    <2>2. ~(0 \in DOMAIN table)
        BY <1>1, <2>1
    <2> HIDE DEF table
    <2>3. slots' = FsClose(table, slot, 0)
        BY DEF slot, table
    <2> QED BY <2>2, <2>3 DEF FsClose, FileForHandle
<1>6. slots' \in [1..MaxHandles -> Path \union {NoFile}]
    BY <1>1, <1>4, <1>5
<1>7. ASSUME NEW h \in 1..MaxHandles PROVE slots'[h] # NoFile <=> h \in 1..touches'
    <2>1. CASE h = slot
        <3>1. slots'[h] = parts
            BY <1>1, <1>4, <1>5, <2>1
        <3>2. slots'[h] # NoFile
            BY <3>1, NoFileIsNoPath
        <3> QED BY <1>1, <1>4, <2>1, <3>2
    <2>2. CASE h # slot
        <3>1. slots'[h] = slots[h]
            BY <1>1, <1>4, <1>5, <2>2
        <3>2. h \in 1..touches' <=> h \in 1..touches
            BY <1>1, <1>4, <2>2
        <3> QED BY <1>2, <3>1, <3>2
    <2> QED BY <2>1, <2>2
<1>8. touches' \in 0..MaxHandles
    BY <1>1, <1>4
<1>9. EachTouchKeepsAHandle'
    <2>1. 1..touches' \subseteq 1..MaxHandles
        BY <1>1, <1>8
    <2> QED BY <1>7, <2>1 DEF EachTouchKeepsAHandle
<1> QED BY <1>6, <1>8, <1>9

LEMMA TouchKeeps ==
    ASSUME SessionInv, NEW argument \in Arguments, NEW disk, Touch(argument, disk)
    PROVE  SessionInv'
<1> DEFINE path == path_resolve(argument)
           parts == path.parts
           node == [path |-> parts, kind |-> "FILE"]
           known == path.valid /\ Exists(parts) /\ disk # "unread"
           opens == path.valid /\ ~known /\ FsOpen(parts, disk)
           made == path.valid /\ MakesFile(parts, disk)
<1>1. /\ Meets(disk) /\ opened' = NoFile /\ UNCHANGED visible
      /\ nodes' = IF made THEN Append(nodes, node) ELSE nodes
      /\ IF opens
         THEN /\ slots' = FsClose([slots EXCEPT ![Min(FreeSlots)] = parts], Min(FreeSlots), 0)
              /\ touches' = touches + 1
         ELSE UNCHANGED <<slots, touches>>
      /\ reply' = IF known \/ opens THEN "ok" ELSE "failed"
      /\ Stays /\ Draw(explorer, disk)
    BY DEF Touch
<1>2. cwd \in Path /\ Cached(explorer) /\ visible' \in BOOLEAN
    BY <1>1, SessionFacts
<1>3. parts \in Path
    <2>1. path \in Resolved
        BY <1>2, ResolveKeeps
    <2> QED BY <2>1 DEF Resolved
<1>4. (made => MayCreate(parts)) /\ (opens => FreeSlots # {})
    BY DEF MakesFile, FsOpen
<1> HIDE DEF path, parts, known, opens, made
<1>5. Extends
    <2>1. node \in Node /\ node.path = parts
        BY <1>3 DEF Node
    <2>2. CASE made
        <3>1. nodes' = Append(nodes, node) /\ MayCreate(node.path)
            BY <1>1, <1>4, <2>1, <2>2
        <3> QED BY <2>1, <3>1, Zenon DEF Extends
    <2>3. CASE ~made
        BY <1>1, <2>3 DEF Extends
    <2> QED BY <2>2, <2>3
<1>6. /\ slots' \in [1..MaxHandles -> Path \union {NoFile}] /\ touches' \in 0..MaxHandles
      /\ EachTouchKeepsAHandle'
    <2>1. CASE opens
        BY <1>1, <1>3, <1>4, <2>1, SlotIsTaken
    <2>2. CASE ~opens
        BY <1>1, <2>2, SlotsStay
    <2> QED BY <2>1, <2>2
<1>7. reply' \in {"ok", "failed", "none"} /\ opened' \in Path \union {NoFile}
    BY <1>1
<1> QED BY <1>1, <1>2, <1>5, <1>6, <1>7, StayKeeps

-----------------------------------------------------------------------------
LEMMA SessionStarts ==
    SessionInit => SessionInv
<1> SUFFICES ASSUME SessionInit PROVE SessionInv
    OBVIOUS
<1> DEFINE a == Directory(SubSeq(Home, 1, 1))
           b == Directory(Home)
           c == Directory(DesktopDirectory)
<1>1. a \in Node /\ b \in Node /\ c \in Node
    BY PlacesAre DEF Directory, Node
<1>2. /\ a.path = SubSeq(Home, 1, 1) /\ b.path = Home /\ c.path = DesktopDirectory
      /\ a.kind = "DIRECTORY" /\ b.kind = "DIRECTORY" /\ c.kind = "DIRECTORY"
    BY DEF Directory
<1>3. nodes = <<a, b, c>>
    BY DEF SessionInit
<1> HIDE DEF a, b, c
<1>4. /\ nodes \in Seq(Node) /\ Len(nodes) = 3 /\ DOMAIN nodes = 1..3
      /\ nodes[1] = a /\ nodes[2] = b /\ nodes[3] = c
    BY <1>1, <1>3
<1>5. \A i \in DOMAIN nodes : nodes[i].kind = "DIRECTORY"
    BY <1>2, <1>4
<1>6. ASSUME NEW path, Exists(path) PROVE IsDirectory(path)
    <2>1. CASE path = <<>>
        BY <2>1 DEF IsDirectory
    <2>2. CASE path # <<>>
        <3> DEFINE A == {i \in DOMAIN nodes : nodes[i].path = path}
        <3>1. A # {}
            BY <1>6, <2>2 DEF Exists
        <3>2. A \in SUBSET Nat /\ A \subseteq DOMAIN nodes
            BY <1>4
        <3>3. Kind(path) = nodes[Min(A)].kind
            BY DEF Kind
        <3> HIDE DEF A
        <3>4. Min(A) \in DOMAIN nodes
            BY <3>1, <3>2, MinIs
        <3> QED BY <1>5, <1>6, <3>3, <3>4 DEF IsDirectory
    <2> QED BY <2>1, <2>2
<1>7. Exists(<<>>) /\ Exists(a.path) /\ Exists(b.path) /\ Exists(c.path)
    BY <1>4 DEF Exists
<1>8. VolumeInv
    <2>1. IsDirectory(<<>>) /\ IsDirectory(a.path) /\ IsDirectory(b.path) /\ IsDirectory(c.path)
        BY <1>6, <1>7
    <2>2. ASSUME NEW i \in DOMAIN nodes
          PROVE  nodes[i].path # <<>> /\ IsDirectory(Front(nodes[i].path))
        <3>1. i = 1 \/ i = 2 \/ i = 3
            BY <1>4
        <3>2. CASE i = 1
            BY <1>2, <1>4, <2>1, <3>2, PlacesAre
        <3>3. CASE i = 2
            BY <1>2, <1>4, <2>1, <3>3, PlacesAre
        <3>4. CASE i = 3
            BY <1>2, <1>4, <2>1, <3>4, PlacesAre
        <3> QED BY <3>1, <3>2, <3>3, <3>4
    <2>3. \A place \in Places : IsDirectory(place)
        BY <1>2, <2>1 DEF Places
    <2>4. Len(nodes) <= MaxNodes
        BY <1>4, SessionFilesAssumption
    <2> QED BY <1>4, <2>2, <2>3, <2>4 DEF VolumeInv
<1>9. 1 \in 1..MaxListed /\ <<>> \in Seq(Words) /\ Len(<<>>) = 0
    BY SessionFilesAssumption
<1>10. SessionTypeOK
    <2>1. cwd \in Path /\ opened \in Path \union {NoFile}
        BY PlacesAre DEF SessionInit
    <2>2. /\ explorer \in [valid : BOOLEAN, path : Path, listing : Seq(Words), selection : 1..MaxListed]
          /\ explorer.listing = <<>>
        BY <1>9, PlacesAre DEF SessionInit
    <2>3. Len(explorer.listing) <= MaxListed
        BY <1>9, <2>2, SessionFilesAssumption
    <2>4. shown \in [drawn : BOOLEAN, listing : Seq(Words), selection : 0..MaxListed]
        BY <1>9, SessionFilesAssumption DEF SessionInit, Nothing
    <2>5. entered \in 0..Len(nodes) /\ touches \in 0..MaxHandles /\ mishaps \in 0..MaxMishaps
        BY <1>4, SessionFilesAssumption DEF SessionInit
    <2>6. slots \in [1..MaxHandles -> Path \union {NoFile}]
        BY DEF SessionInit
    <2>7. nodes \in Seq(Node) /\ Len(nodes) <= MaxNodes
        BY <1>8 DEF VolumeInv
    <2>8. visible \in BOOLEAN /\ reply \in {"ok", "failed", "none"}
        BY DEF SessionInit
    <2> QED BY <2>1, <2>2, <2>3, <2>4, <2>5, <2>6, <2>7, <2>8 DEF SessionTypeOK
<1>11. CwdIsADirectory
    BY <1>8 DEF VolumeInv, Places, CwdIsADirectory, SessionInit
<1>12. CacheInv /\ ScreenInv
    BY DEF SessionInit, CacheInv, ScreenInv, Nothing
<1>13. EachTouchKeepsAHandle
    BY DEF SessionInit, EachTouchKeepsAHandle
<1> QED BY <1>8, <1>10, <1>11, <1>12, <1>13 DEF SessionInv

LEMMA SessionStepKeeps ==
    SessionInv /\ [SessionNext]_sessionVars => SessionInv'
<1> SUFFICES ASSUME SessionInv, [SessionNext]_sessionVars PROVE SessionInv'
    OBVIOUS
<1>1. ASSUME NEW disk, NEW argument \in Arguments, Cd(argument, disk) PROVE SessionInv'
    BY <1>1, CdKeeps
<1>2. ASSUME NEW disk, NEW entry \in 1..MaxListed, ClickEntry(entry, disk) PROVE SessionInv'
    BY <1>2, ClickEntryKeeps
<1>3. ASSUME NEW disk, NEW argument \in Arguments, Mkdir(argument, disk) PROVE SessionInv'
    BY <1>3, MkdirKeeps
<1>4. ASSUME NEW disk, NEW argument \in Arguments, Touch(argument, disk) PROVE SessionInv'
    BY <1>4, TouchKeeps
<1>5. ASSUME NEW disk, Login(disk) PROVE SessionInv'
    BY <1>5, LoginKeeps
<1>6. ASSUME NEW disk, launch_files(disk) PROVE SessionInv'
    BY <1>6, LaunchKeeps
<1>7. ASSUME NEW disk, Redraw(disk) PROVE SessionInv'
    BY <1>7, RedrawKeeps
<1>8. ASSUME NEW disk, Back(disk) PROVE SessionInv'
    BY <1>8, BackKeeps
<1>9. ASSUME NEW disk, NEW place \in Places, GoTo(place, disk) PROVE SessionInv'
    BY <1>9, GoToKeeps
<1>10. CASE Hide
    BY <1>10, HideKeeps
<1>11. CASE UNCHANGED sessionVars
    <2>1. /\ nodes' = nodes /\ slots' = slots /\ cwd' = cwd /\ explorer' = explorer
          /\ visible' = visible /\ shown' = shown /\ reply' = reply /\ opened' = opened
          /\ entered' = entered /\ touches' = touches /\ mishaps' = mishaps
        BY <1>11 DEF sessionVars
    <2>2. SessionTypeOK'
        BY <2>1 DEF SessionInv, SessionTypeOK
    <2>3. VolumeInv' /\ CwdIsADirectory'
        <3>1. VolumeInv' /\ \A path : IsDirectory(path) => IsDirectory(path)'
            BY <2>1, NothingGrows, Grown DEF SessionInv
        <3>2. IsDirectory(cwd')
            BY <2>1 DEF SessionInv, CwdIsADirectory
        <3>3. \A path : IsDirectory(path) => IsDirectory(path)'
            BY <3>1
        <3>4. IsDirectory(cwd)'
            BY <3>2, <3>3, Zenon DEF IsDirectory, Exists, Kind
        <3> QED BY <3>1, <3>4 DEF CwdIsADirectory
    <2>4. CacheInv' /\ EachTouchKeepsAHandle'
        BY <2>1 DEF SessionInv, CacheInv, EachTouchKeepsAHandle
    <2>5. ScreenInv'
        BY <2>1 DEF SessionInv, ScreenInv, Screen, FirstDrawn
    <2> QED BY <2>2, <2>3, <2>4, <2>5 DEF SessionInv
<1> QED BY <1>1, <1>2, <1>3, <1>4, <1>5, <1>6, <1>7, <1>8, <1>9, <1>10, <1>11 DEF SessionNext

LEMMA SessionInductive == SessionSpec => []SessionInv
<1>1. SessionInit => SessionInv
    BY SessionStarts
<1>2. SessionInv /\ [SessionNext]_sessionVars => SessionInv'
    BY SessionStepKeeps
<1> QED BY <1>1, <1>2, PTL DEF SessionSpec

(* The state of the paths, the slots and the Files window keeps its types    *)
(* (userspace/session.c).                                                    *)
THEOREM SessionTypeCorrect == SessionSpec => []SessionTypeOK
<1>1. SessionInv => SessionTypeOK
    BY DEF SessionInv
<1> QED BY <1>1, SessionInductive, PTL

(* Whatever the terminal and the Files window do, the current directory is   *)
(* a directory that exists (command "cd", files_pointer_down,                *)
(* explorer_open_selected, reset_home_cwd).                                  *)
THEOREM StaysInADirectory == SessionSpec => []CwdIsADirectory
<1>1. SessionInv => CwdIsADirectory
    BY DEF SessionInv
<1> QED BY <1>1, SessionInductive, PTL

(* What the Files window shows is drawn from a listing of the current        *)
(* directory no older than the entry into it (explorer_refresh,              *)
(* draw_files_window).                                                       *)
THEOREM ShowsCurrent == SessionSpec => []ShownIsCurrent
<1>1. ASSUME SessionInv, shown.drawn
      PROVE  \E n \in entered..Len(nodes) :
                 shown.listing = FirstDrawn(Listing(cwd, SubSeq(nodes, 1, n)))
    <2>1. explorer.valid /\ shown = Screen(explorer)
        BY <1>1 DEF SessionInv, ScreenInv
    <2>2. PICK n \in entered..Len(nodes) : explorer.listing = Listing(cwd, SubSeq(nodes, 1, n))
        BY <1>1, <2>1 DEF SessionInv, CacheInv
    <2>3. shown.listing = FirstDrawn(explorer.listing)
        BY <1>1, <2>1, SessionFacts, ScreenIs
    <2>4. shown.listing = FirstDrawn(Listing(cwd, SubSeq(nodes, 1, n)))
        BY <2>2, <2>3
    <2> QED BY <2>2, <2>4
<1>2. SessionInv => ShownIsCurrent
    BY <1>1 DEF ShownIsCurrent
<1> QED BY <1>2, SessionInductive, PTL

(* The slots in use are those of the touches that made their file            *)
(* (FS_OPEN, FS_CLOSE of kernel/core/task.c).                                *)
THEOREM HandlesAreKept == SessionSpec => []EachTouchKeepsAHandle
<1>1. SessionInv => EachTouchKeepsAHandle
    BY DEF SessionInv
<1> QED BY <1>1, SessionInductive, PTL

(* A press in the Files window opens the entry that was highlighted on the   *)
(* screen; with none highlighted, the selected one, which is past those the  *)
(* window draws (files_pointer_down, explorer_open_selected).                *)
THEOREM OpensShown == SessionSpec => OpensWhatIsShown
<1> DEFINE A == opened' # NoFile /\ shown.drawn =>
                    IF shown.selection # 0
                    THEN opened' = Append(cwd, <<shown.listing[shown.selection]>>)
                    ELSE /\ Len(shown.listing) = MaxDrawn /\ explorer.selection > MaxDrawn
                         /\ opened' = EntryPath(explorer, explorer.selection)
<1>1. SessionInv /\ [SessionNext]_sessionVars => [A]_sessionVars
    <2> SUFFICES ASSUME SessionInv, SessionNext PROVE A
        OBVIOUS
    <2>1. ASSUME NEW disk, NEW entry \in 1..MaxListed, ClickEntry(entry, disk) PROVE A
        <3> SUFFICES ASSUME opened' # NoFile, shown.drawn
                     PROVE  IF shown.selection # 0
                            THEN opened' = Append(cwd, <<shown.listing[shown.selection]>>)
                            ELSE /\ Len(shown.listing) = MaxDrawn /\ explorer.selection > MaxDrawn
                                 /\ opened' = EntryPath(explorer, explorer.selection)
            OBVIOUS
        <3> DEFINE e == Refreshed(explorer, cwd, nodes, disk # "unread")
        <3>1. explorer.valid /\ explorer.path = cwd /\ shown = Screen(explorer)
            BY DEF SessionInv, CacheInv, ScreenInv
        <3>2. e = explorer
            BY <3>1 DEF Refreshed
        <3>3. opened' = EntryPath(e, entry) /\ e.selection = entry /\ entry \in DOMAIN e.listing
            BY <2>1 DEF ClickEntry, OpenSelected
        <3> HIDE DEF e
        <3>4. /\ explorer.selection \in DOMAIN explorer.listing
              /\ opened' = EntryPath(explorer, explorer.selection)
            BY <3>2, <3>3
        <3>5. /\ shown.listing = FirstDrawn(explorer.listing)
              /\ shown.selection # 0 =>
                   /\ shown.selection = explorer.selection
                   /\ shown.listing[explorer.selection] = explorer.listing[explorer.selection]
              /\ shown.selection = 0 =>
                   Len(FirstDrawn(explorer.listing)) = MaxDrawn /\ explorer.selection > MaxDrawn
            BY <3>1, <3>4, SessionFacts, ScreenIs
        <3> QED BY <3>4, <3>5 DEF EntryPath
    <2>2. ASSUME opened' = NoFile PROVE A
        BY <2>2
    <2> HIDE DEF A
    <2>3. ASSUME NEW disk, NEW argument \in Arguments,
                 Cd(argument, disk) \/ Mkdir(argument, disk) \/ Touch(argument, disk)
          PROVE  A
        BY <2>2, <2>3 DEF Cd, Mkdir, Touch, Quiet
    <2>4. ASSUME NEW disk, Login(disk) \/ launch_files(disk) \/ Redraw(disk) \/ Back(disk)
          PROVE  A
        BY <2>2, <2>4 DEF Login, launch_files, Redraw, Back, Quiet
    <2>5. ASSUME NEW disk, NEW place \in Places, GoTo(place, disk) PROVE A
        BY <2>2, <2>5 DEF GoTo, Quiet
    <2>6. CASE Hide
        BY <2>2, <2>6 DEF Hide, Quiet
    <2> QED BY <2>1, <2>3, <2>4, <2>5, <2>6 DEF SessionNext
<1>2. SessionSpec => [][SessionNext]_sessionVars
    BY DEF SessionSpec
<1> QED BY <1>1, <1>2, SessionInductive, PTL DEF OpensWhatIsShown

(* A mkdir or touch that reports a failure and has changed the volume met a  *)
(* disk error, or found every slot in use (QUANTA_SYSCALL_FS_OPEN).          *)
THEOREM FailuresLeaveNothing == SessionSpec => FailureLeavesNothing
<1> DEFINE A == nodes' # nodes /\ reply' = "failed" =>
                    mishaps' # mishaps \/ \A h \in 1..MaxHandles : slots[h] # NoFile
<1>1. SessionInv /\ [SessionNext]_sessionVars => [A]_sessionVars
    <2> SUFFICES ASSUME SessionInv, SessionNext PROVE A
        OBVIOUS
    <2>1. ASSUME NEW disk, disk # "ok", Meets(disk) PROVE mishaps' # mishaps
        <3>1. mishaps \in 0..MaxMishaps /\ MaxMishaps \in Nat
            BY SessionFilesAssumption DEF SessionInv, SessionTypeOK
        <3> QED BY <2>1, <3>1 DEF Meets
    <2>2. ASSUME NEW disk, NEW argument \in Arguments, Mkdir(argument, disk) PROVE A
        <3> SUFFICES ASSUME nodes' # nodes, reply' = "failed" PROVE mishaps' # mishaps
            OBVIOUS
        <3>1. disk = "late" /\ Meets(disk)
            BY <2>2 DEF Mkdir
        <3> QED BY <2>1, <3>1
    <2>3. ASSUME NEW disk, NEW argument \in Arguments, Touch(argument, disk) PROVE A
        <3> SUFFICES ASSUME nodes' # nodes, reply' = "failed"
                     PROVE  mishaps' # mishaps \/ \A h \in 1..MaxHandles : slots[h] # NoFile
            OBVIOUS
        <3> DEFINE path == path_resolve(argument)
                   parts == path.parts
                   known == path.valid /\ Exists(parts) /\ disk # "unread"
                   opens == path.valid /\ ~known /\ FsOpen(parts, disk)
                   made == path.valid /\ MakesFile(parts, disk)
        <3>1. Meets(disk) /\ made /\ ~opens
            BY <2>3 DEF Touch
        <3>2. path.valid /\ ~Exists(parts) /\ MakesFile(parts, disk)
            BY <3>1 DEF MakesFile
        <3>3. disk = "late" \/ FreeSlots = {}
            BY <3>1, <3>2 DEF FsOpen
        <3>4. CASE disk = "late"
            BY <2>1, <3>1, <3>4
        <3>5. CASE FreeSlots = {}
            BY <3>5 DEF FreeSlots
        <3> QED BY <3>3, <3>4, <3>5
    <2>4. ASSUME nodes' = nodes PROVE A
        BY <2>4
    <2> HIDE DEF A
    <2>5. ASSUME NEW disk, NEW argument \in Arguments, Cd(argument, disk) PROVE A
        BY <2>4, <2>5 DEF Cd
    <2>6. ASSUME NEW disk, NEW entry \in 1..MaxListed, ClickEntry(entry, disk) PROVE A
        BY <2>4, <2>6 DEF ClickEntry
    <2>7. ASSUME NEW disk, Login(disk) \/ launch_files(disk) \/ Redraw(disk) \/ Back(disk)
          PROVE  A
        BY <2>4, <2>7 DEF Login, launch_files, Redraw, Back
    <2>8. ASSUME NEW disk, NEW place \in Places, GoTo(place, disk) PROVE A
        BY <2>4, <2>8 DEF GoTo
    <2>9. CASE Hide
        BY <2>4, <2>9 DEF Hide
    <2> QED BY <2>2, <2>3, <2>5, <2>6, <2>7, <2>8, <2>9 DEF SessionNext
<1>2. SessionSpec => [][SessionNext]_sessionVars
    BY DEF SessionSpec
<1> QED BY <1>1, <1>2, SessionInductive, PTL DEF FailureLeavesNothing

=============================================================================
