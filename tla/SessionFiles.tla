----------------------------- MODULE SessionFiles -----------------------------
(***************************************************************************)
(* File names in the session, userspace/session.c: the current directory,  *)
(* the commands cd, mkdir and touch, and the Files window with its cached   *)
(* listing; behind them the calls FS_OPEN, FS_CLOSE, FS_LIST, FS_STAT and   *)
(* FS_MKDIR of kernel/core/task.c and the handle slots of the task.         *)
(*                                                                         *)
(* A name is a sequence of words, since the listing the kernel returns      *)
(* separates names by spaces and nothing forbids a space in a name; a path  *)
(* is the sequence of names after the drive.  Every event ends in a         *)
(* draw_workspace.  The volume is what Qfs2 promises of it: it grows a node *)
(* at a time, and an operation that meets a disk error may have been done   *)
(* although it is reported as failed.                                       *)
(***************************************************************************)
EXTENDS Integers, Sequences, SequencesExt, FiniteSetsExt

CONSTANTS Names,        \* names of new nodes, sequences of words
          Arguments,    \* what is typed after a command
          MaxParts,     \* components of a path (8 in the code)
          MaxListed,    \* words that fit in the listing buffer
          MaxDrawn,     \* entries the window draws (24 in the code)
          MaxHandles,   \* TASK_MAX_FILE_HANDLES
          MaxNodes,     \* bound on the nodes of the volume
          MaxMishaps    \* bound on disk errors

Here == <<".">>
Up == <<"..">>
Home == <<<<"home">>, <<"quanta">>>>
DesktopDirectory == <<<<"home">>, <<"quanta">>, <<"Desktop">>>>
Places == {Home, DesktopDirectory}
NoFile == <<Up>>    \* no resolved path holds ".."
NamespaceCapability == 1
AllNames == Names \union {<<"home">>, <<"quanta">>, <<"Desktop">>}
Words == UNION {{name[i] : i \in DOMAIN name} : name \in AllNames}

ASSUME SessionFilesAssumption ==
    /\ Names \subseteq Seq(Words) \ {Here, Up}
    /\ \A a \in Arguments :
           a.absolute \in BOOLEAN /\ a.parts \in Seq(AllNames \union {Here, Up})
    /\ MaxListed \in Nat \ {0} /\ MaxDrawn \in Nat \ {0} /\ MaxHandles \in Nat \ {0} /\ MaxMishaps \in Nat
    /\ MaxParts \in Nat /\ MaxParts >= 3 /\ MaxNodes \in Nat /\ MaxNodes >= 3

VARIABLES
    nodes,      \* the nodes of the volume, in the order of their entries
    slots,      \* the task's files: the path opened, or NoFile
    cwd,
    explorer,   \* explorer_listing, its validity and cached path, and the selection
    visible,    \* the Files window is open and not minimized
    shown,      \* the entries on the screen and the highlighted one, or 0
    reply,      \* what the event, a mkdir or touch, reported
    opened,     \* the path the event opened in the Files window, or NoFile
    entered,    \* history: the number of nodes when cwd was last set
    touches,    \* history: the touches that were given a handle
    mishaps     \* disk errors so far

sessionVars == <<nodes, slots, cwd, explorer, visible, shown, reply, opened, entered, touches,
                 mishaps>>

(* The errors an event may meet: its first read fails, its write fails       *)
(* before or after it reached the disk, or the list call of the final        *)
(* redraw fails.                                                             *)
Errors == {"unread", "lost", "late", "undrawn"}

Path == UNION {[1..n -> AllNames] : n \in 0..MaxParts}
Node == [path : Path, kind : {"FILE", "DIRECTORY"}]
Directory(path) == [path |-> path, kind |-> "DIRECTORY"]
Nothing == [drawn |-> FALSE, listing |-> <<>>, selection |-> 0]

-----------------------------------------------------------------------------
(* The volume.                                                               *)
Exists(path) == path = <<>> \/ \E i \in DOMAIN nodes : nodes[i].path = path
Kind(path) == nodes[Min({i \in DOMAIN nodes : nodes[i].path = path})].kind
IsDirectory(path) == path = <<>> \/ (Exists(path) /\ Kind(path) = "DIRECTORY")

(* create_node's own checks.                                                 *)
MayCreate(path) == path # <<>> /\ IsDirectory(Front(path)) /\ Len(nodes) < MaxNodes

(* quanta_qfs2_list: names that no longer fit are left out.                  *)
Listed(text, dir, path) ==
    IF Front(path) = dir /\ Len(text) + Len(Last(path)) <= MaxListed
    THEN text \o Last(path) ELSE text
Listing(dir, volume) ==
    LET text[n \in 0..Len(volume)] ==
            IF n = 0 THEN <<>> ELSE Listed(text[n - 1], dir, volume[n].path)
    IN  text[Len(volume)]

(* path_add_components, one component.                                       *)
Added(path, name) ==
    IF ~path.valid \/ name = Here THEN path
    ELSE IF name = Up
    THEN [path EXCEPT !.parts = IF @ = <<>> THEN @ ELSE Front(@)]
    ELSE IF Len(path.parts) >= MaxParts
    THEN [path EXCEPT !.valid = FALSE]
    ELSE [path EXCEPT !.parts = Append(@, name)]

path_resolve(argument) ==
    LET path[n \in 0..Len(argument.parts)] ==
            IF n = 0 THEN [valid |-> TRUE, parts |-> IF argument.absolute THEN <<>> ELSE cwd]
            ELSE Added(path[n - 1], argument.parts[n])
    IN  path[Len(argument.parts)]

-----------------------------------------------------------------------------
(* The task's file slots.                                                    *)

(* file_for_handle: zero is never a handle.                                  *)
FileForHandle(table, handle) == handle \in DOMAIN table /\ table[handle] # NoFile

(* Seeded fault: the search ends one slot early.                             *)
FaultyFreeSlots == {h \in 1..MaxHandles - 1 : slots[h] = NoFile}

FreeSlots == {h \in 1..MaxHandles : slots[h] = NoFile}

(* Seeded fault: FS_CLOSE reads the handle where its callers put it.         *)
FaultyFsClose(table, handle, unused) ==
    IF FileForHandle(table, handle) THEN [table EXCEPT ![handle] = NoFile] ELSE table

(* FS_CLOSE takes a capability first and the handle second.                  *)
FsClose(table, capability, handle) ==
    IF capability = NamespaceCapability /\ FileForHandle(table, handle)
    THEN [table EXCEPT ![handle] = NoFile] ELSE table

-----------------------------------------------------------------------------
(* The Files window.                                                         *)

(* Seeded fault: set_cwd leaves the listing as it is.                        *)
FaultyInvalid(e) == e

Invalid(e) == [e EXCEPT !.valid = FALSE]

(* explorer_refresh: the listing is asked for only when there is none of     *)
(* this directory.                                                           *)
Refreshed(e, dir, volume, reads) ==
    IF e.valid /\ e.path = dir THEN e
    ELSE IF reads
    THEN [e EXCEPT !.valid = TRUE, !.path = dir, !.listing = Listing(dir, volume)]
    ELSE [e EXCEPT !.valid = FALSE, !.listing = <<>>]

Clamped(e) ==
    IF e.valid /\ e.listing # <<>> /\ e.selection > Len(e.listing)
    THEN [e EXCEPT !.selection = Len(e.listing)] ELSE e

(* The window draws the first entries of the listing; a selection past them  *)
(* highlights nothing.                                                       *)
FirstDrawn(listing) == SubSeq(listing, 1, Min({Len(listing), MaxDrawn}))
Screen(e) ==
    [drawn |-> e.valid, listing |-> FirstDrawn(e.listing),
     selection |-> IF e.selection \in DOMAIN FirstDrawn(e.listing) THEN e.selection ELSE 0]

(* Seeded fault: the screen is drawn again only if the window has come or    *)
(* gone.                                                                     *)
FaultyDraw(e, disk) ==
    LET drawn == IF visible' THEN Clamped(Refreshed(e, cwd', nodes', disk # "undrawn")) ELSE e IN
    /\ explorer' = drawn
    /\ shown' = IF visible' = visible THEN shown
                ELSE IF visible' THEN Screen(drawn) ELSE Nothing

(* draw_workspace, as far as the Files window goes: e is what the event has  *)
(* made of explorer.                                                         *)
Draw(e, disk) ==
    LET drawn == IF visible' THEN Clamped(Refreshed(e, cwd', nodes', disk # "undrawn")) ELSE e IN
    /\ explorer' = drawn
    /\ shown' = IF visible' THEN Screen(drawn) ELSE Nothing

Meets(disk) ==
    \/ disk = "ok" /\ UNCHANGED mishaps
    \/ disk # "ok" /\ mishaps < MaxMishaps /\ mishaps' = mishaps + 1

Enters(path) == cwd' = path /\ entered' = Len(nodes)
Stays == UNCHANGED <<cwd, entered>>
Quiet == reply' = "none" /\ opened' = NoFile

SessionInit ==
    /\ nodes = <<Directory(SubSeq(Home, 1, 1)), Directory(Home), Directory(DesktopDirectory)>>
    /\ slots = [h \in 1..MaxHandles |-> NoFile]
    /\ cwd = Home
    /\ explorer = [valid |-> FALSE, path |-> <<>>, listing |-> <<>>, selection |-> 1]
    /\ visible = FALSE /\ shown = Nothing
    /\ reply = "none" /\ opened = NoFile /\ entered = 0 /\ touches = 0 /\ mishaps = 0

-----------------------------------------------------------------------------
(* Seeded fault: cd does not ask whether the node is a directory.            *)
FaultyCd(argument, disk) ==
    LET path == path_resolve(argument) IN
    /\ Meets(disk)
    /\ Quiet /\ UNCHANGED <<nodes, slots, visible, touches>>
    /\ IF path.valid /\ disk # "unread" /\ Exists(path.parts)
       THEN Enters(path.parts) /\ Draw(Invalid(explorer), disk)
       ELSE Stays /\ Draw(explorer, disk)

(* The command cd.                                                           *)
Cd(argument, disk) ==
    LET path == path_resolve(argument) IN
    /\ Meets(disk)
    /\ Quiet /\ UNCHANGED <<nodes, slots, visible, touches>>
    /\ IF path.valid /\ disk # "unread" /\ IsDirectory(path.parts)
       THEN Enters(path.parts) /\ Draw(Invalid(explorer), disk)
       ELSE Stays /\ Draw(explorer, disk)

(* FS_MKDIR.  A failed read may hide an entry of that name: a second one is  *)
(* then made, which create_node finds out and reports.                       *)
MakesDirectory(path, disk) ==
    /\ MayCreate(path)
    /\ IF Exists(path) THEN disk = "late" ELSE disk \notin {"unread", "lost"}

(* The command mkdir.                                                        *)
Mkdir(argument, disk) ==
    LET path == path_resolve(argument)
        made == path.valid /\ MakesDirectory(path.parts, disk)
    IN  /\ Meets(disk)
        /\ opened' = NoFile /\ UNCHANGED <<slots, visible, touches>>
        /\ nodes' = IF made THEN Append(nodes, Directory(path.parts)) ELSE nodes
        /\ reply' = IF made /\ disk # "late" THEN "ok" ELSE "failed"
        /\ Stays /\ Draw(explorer, disk)

(* FS_OPEN with CREATE: the node is made before a slot is looked for.        *)
MakesFile(path, disk) == ~Exists(path) /\ MayCreate(path) /\ disk # "lost"
FsOpen(path, disk) ==
    /\ Exists(path) \/ (MakesFile(path, disk) /\ disk # "late")
    /\ FreeSlots # {}

(* The command touch: stat, FS_OPEN if that finds nothing, and an FS_CLOSE   *)
(* that passes the handle where the capability belongs.                      *)
Touch(argument, disk) ==
    LET path == path_resolve(argument)
        known == path.valid /\ Exists(path.parts) /\ disk # "unread"
        opens == path.valid /\ ~known /\ FsOpen(path.parts, disk)
        made == path.valid /\ MakesFile(path.parts, disk)
        slot == Min(FreeSlots)
    IN  /\ Meets(disk)
        /\ opened' = NoFile /\ UNCHANGED visible
        /\ nodes' = IF made THEN Append(nodes, [path |-> path.parts, kind |-> "FILE"]) ELSE nodes
        /\ IF opens
           THEN /\ slots' = FsClose([slots EXCEPT ![slot] = path.parts], slot, 0)
                /\ touches' = touches + 1
           ELSE UNCHANGED <<slots, touches>>
        /\ reply' = IF known \/ opens THEN "ok" ELSE "failed"
        /\ Stays /\ Draw(explorer, disk)

(* logout or exit, and the login after it.                                   *)
Login(disk) ==
    /\ Meets(disk)
    /\ Quiet /\ UNCHANGED <<nodes, slots, visible, touches>>
    /\ Enters(Home) /\ Draw(Invalid(explorer), disk)

-----------------------------------------------------------------------------
launch_files(disk) ==
    /\ Meets(disk)
    /\ Quiet /\ UNCHANGED <<nodes, slots, touches>>
    /\ visible' = TRUE
    /\ Enters(Home) /\ Draw([Invalid(explorer) EXCEPT !.selection = 1], disk)

(* The window is closed or minimized.                                        *)
Hide ==
    /\ visible
    /\ visible' = FALSE
    /\ Quiet /\ UNCHANGED <<nodes, slots, touches, mishaps>>
    /\ Stays /\ Draw(explorer, "ok")

(* A press anywhere else draws the screen again.                             *)
Redraw(disk) ==
    /\ visible
    /\ Meets(disk)
    /\ Quiet /\ UNCHANGED <<nodes, slots, visible, touches>>
    /\ Stays /\ Draw(explorer, disk)

(* The button "<" cuts the directory at its last separator.                  *)
Back(disk) ==
    /\ visible
    /\ Meets(disk)
    /\ Quiet /\ UNCHANGED <<nodes, slots, visible, touches>>
    /\ IF Len(cwd) > 1
       THEN Enters(Front(cwd)) /\ Draw([Invalid(explorer) EXCEPT !.selection = 1], disk)
       ELSE Stays /\ Draw([explorer EXCEPT !.selection = 1], disk)

(* A place of the side bar, entered without asking whether it is there.      *)
GoTo(place, disk) ==
    /\ visible
    /\ Meets(disk)
    /\ Quiet /\ UNCHANGED <<nodes, slots, visible, touches>>
    /\ Enters(place) /\ Draw([Invalid(explorer) EXCEPT !.selection = 1], disk)

EntryPath(e, entry) == Append(cwd, <<e.listing[entry]>>)

(* explorer_open_selected: a directory is entered, a file previewed until    *)
(* the redraw that ends the event.                                           *)
OpenSelected(e, path, disk) ==
    /\ opened' = path
    /\ IF IsDirectory(path)
       THEN Enters(path) /\ Draw([Invalid(e) EXCEPT !.selection = 1], disk)
       ELSE Stays /\ Draw(e, disk)

(* A press on an entry selects it, and opens it if it was selected and stat  *)
(* finds it; the place of an entry that is not drawn can be pressed too.     *)
ClickEntry(entry, disk) ==
    LET listed == explorer.valid /\ explorer.path = cwd
        e == Refreshed(explorer, cwd, nodes, disk # "unread")
        answers == (listed => disk # "unread") /\ Exists(EntryPath(e, entry))
    IN  /\ visible
        /\ Meets(disk)
        /\ reply' = "none" /\ UNCHANGED <<nodes, slots, visible, touches>>
        /\ IF entry \in DOMAIN e.listing /\ e.selection = entry /\ answers
           THEN OpenSelected(e, EntryPath(e, entry), disk)
           ELSE /\ opened' = NoFile
                /\ Stays
                /\ Draw(IF entry \in DOMAIN e.listing THEN [e EXCEPT !.selection = entry] ELSE e, disk)

SessionNext ==
    \/ \E disk \in {"ok", "unread", "undrawn"} :
           \/ \E argument \in Arguments : Cd(argument, disk)
           \/ \E entry \in 1..MaxListed : ClickEntry(entry, disk)
    \/ \E disk \in {"ok"} \union Errors, argument \in Arguments :
           Mkdir(argument, disk) \/ Touch(argument, disk)
    \/ \E disk \in {"ok", "undrawn"} :
           \/ Login(disk) \/ launch_files(disk) \/ Redraw(disk) \/ Back(disk)
           \/ \E place \in Places : GoTo(place, disk)
    \/ Hide

SessionSpec == SessionInit /\ [][SessionNext]_sessionVars

-----------------------------------------------------------------------------
SessionTypeOK ==
    /\ nodes \in Seq(Node) /\ Len(nodes) <= MaxNodes
    /\ slots \in [1..MaxHandles -> Path \union {NoFile}]
    /\ cwd \in Path /\ opened \in Path \union {NoFile}
    /\ explorer \in [valid : BOOLEAN, path : Path, listing : Seq(Words), selection : 1..MaxListed]
    /\ Len(explorer.listing) <= MaxListed
    /\ visible \in BOOLEAN /\ reply \in {"ok", "failed", "none"}
    /\ shown \in [drawn : BOOLEAN, listing : Seq(Words), selection : 0..MaxListed]
    /\ entered \in 0..Len(nodes) /\ touches \in 0..MaxHandles /\ mishaps \in 0..MaxMishaps

(* The current directory is a directory that exists, whoever of the terminal *)
(* and the Files window set it last (command "cd", files_pointer_down,       *)
(* explorer_open_selected, reset_home_cwd).                                  *)
CwdIsADirectory == IsDirectory(cwd)

(* What the Files window shows is the current directory, and it misses only  *)
(* what was made since that directory was entered, or does not fit the       *)
(* buffer or the window (explorer_refresh, draw_files_window).               *)
ShownIsCurrent ==
    shown.drawn => \E n \in entered..Len(nodes) :
                       shown.listing = FirstDrawn(Listing(cwd, SubSeq(nodes, 1, n)))

(* A press that opens an entry opens the one highlighted on the screen; with *)
(* none highlighted, it opens the selected entry of the listing, one past    *)
(* those the window draws.  Nothing is said of a listing that could not be   *)
(* read when the screen was drawn (files_pointer_down,                       *)
(* explorer_open_selected).                                                  *)
OpensWhatIsShown ==
    [][opened' # NoFile /\ shown.drawn =>
          IF shown.selection # 0
          THEN opened' = Append(cwd, <<shown.listing[shown.selection]>>)
          ELSE /\ Len(shown.listing) = MaxDrawn /\ explorer.selection > MaxDrawn
               /\ opened' = EntryPath(explorer, explorer.selection)]_sessionVars

(* No handle is ever given back: each touch that makes its file keeps one    *)
(* for as long as the session runs, and with the last slot taken every later *)
(* touch of a new name fails (FS_CLOSE called with the handle as its         *)
(* capability).                                                              *)
EachTouchKeepsAHandle == {h \in 1..MaxHandles : slots[h] # NoFile} = 1..touches

(* A command that reports a failure has changed nothing, unless the disk     *)
(* failed it or every slot was in use: then FS_OPEN leaves the new file      *)
(* behind.                                                                   *)
FailureLeavesNothing ==
    [][nodes' # nodes /\ reply' = "failed" =>
          mishaps' # mishaps \/ \A h \in 1..MaxHandles : slots[h] # NoFile]_sessionVars

=============================================================================
