# QuantaOS in TLA+

This directory holds a verification development of QuantaOS: TLA+ modules
translated from the C and assembly of the loader, the kernel and the session program,
configurations that model-check them with TLC, and theorems about them that
TLAPS proves. Paths are relative to the root of the repository.

Contents: [the system](#1-the-system) · [the modules](#2-the-modules) ·
[the runs](#3-the-runs) · [the proofs](#4-the-proofs) ·
[where code and documentation disagree](#5-where-code-and-documentation-disagree) ·
[what is not modelled](#6-what-is-not-modelled) · [the plan](#7-the-plan) ·
[working with it](#8-working-with-it)

## 1. The system

QuantaOS is a small x86-64 operating system. A BIOS chain or a UEFI loader puts
a kernel at the top of the address space and hands it a `boot_info`. The kernel
runs on one processor. There is no preemption: the only interrupt handler counts
timer ticks, the keyboard and the mouse are polled, and a task keeps the processor
until a system call or an exception of its own gives it up. Three boot tasks exist
(client, server, fault task); the client runs the session program with its login
screen, desktop and terminal. The disk holds a
QFS1 image to boot from, a QFS2 volume that can be written, and two account
records.

So the hard orders in this system are not those of threads. They are: sequences
of legal calls into data structures that keep links inside the memory they
manage; a disk that is written sector by sector while the power may go; a call
that fails after part of its work is done; a display that may refuse half way; devices
and firmware that go on by themselves between any two of the program's accesses;
and a user interface in which any click may follow any other.

### Components

| Component | Where | State | Operations | Hard part | What makes it correct |
|---|---|---|---|---|---|
| Frame allocator | `kernel/mm/memory.c:3-106` | pool bounds, bump pointer, free-list head, bitmap; the links of the free list lie in the free frames | initialize, allocate, release | links in memory their last owner wrote; double and bogus releases | one owner per frame, the list stays a list, a frame handed out is clear, failure only on exhaustion |
| Page tables | `kernel/mm/memory.c:108-165` | tables as frames, CR3 | create, map, destroy, activate | pool exhausted between two tables of one map; destroying shared tables | every frame has one role, spaces do not affect each other, the kernel half is everywhere the same |
| Tasks, capabilities, IPC | `kernel/core/task.c`, `kernel/arch/x86_64/transitions.S` | three tasks, capability tables, one-slot channel, GS base | CALL, RECEIVE, REPLY, EXIT, SHUTDOWN, grant, revoke, user fault | faults and exits between call and reply; two entry paths that treat GS differently; compaction of the tables | who runs is runnable, slot full iff client waits, one delivery per call, matching reply |
| QFS2 | `kernel/core/qfs2.c` | inode table and entry area on disk | mkdir, create, lookup, list, read | records across two sectors, crash between two writes, failing rollback | the directory is a tree; what was acknowledged stays; an entry never names a free inode |
| Account store | `kernel/core/account.c`, AUTH_* in `task.c` | two record slots, the task's authenticated flag | verify, change, logout | torn and late writes; two rules for which record counts | a valid record always exists; the acknowledged password is in force; a superseded one comes back only from a torn record |
| Display | `kernel/arch/x86_64/tables.c:40-780` | copy in memory, dirty rectangle, one or two adapter pages | drawing primitives, scroll, workspace/terminal, present | a present that stops half way; stale pixels in the other page | what is stale is dirty; the visible page is never written |
| Session desktop | `userspace/session.c:60-790`, `990-1070` | three windows, pointer, view, selection | mouse event, hotkeys, keys, launch | any order of clicks; 32-bit wrap-around | focus and gestures belong to visible windows; keys reach the window that has the focus |
| File handles | `kernel/core/task.c:272-336` | 16 slots per task | FS_OPEN, FS_CLOSE, FS_READ_HANDLE | create before the slot is found; slots never freed | handles are released; a refused open changes nothing |
| Session file names | `userspace/session.c:320-450, 790-990, 1290-1380` | cwd, cached listing, selection | path_resolve, load listing, clicks in Files, `cd`, `mkdir`, `touch` | a cache keyed by the directory's name; five writers of cwd | cwd is a directory; what is shown is what a press opens |
| Login, command interpreter | `userspace/session.c` | fields, line buffers | editing, parsing | text handling | calls the right system call |
| Keyboard, mouse, console | `kernel/arch/x86_64/tables.c:245-325, 1040-1113` | packet, modifiers, pointer | set up, poll, decode, find the place again | two devices behind one port; the status read twice a call | a packet is three bytes of the mouse; the place is found again; nothing blocks |
| Block devices, mount | `kernel/vfs` | registered devices, the boot mount | register, read, write, mount | kept as soon as there is a device, even after a failed read | the mount is of the volume that is there |
| ATA driver | `kernel/arch/x86_64/tables.c:859-993` | the drive found | probe, polled read, write, flush | bounded waits; commands written without looking at the status | an answer is true; only the sector meant is written |
| UEFI loader | `bootloader/uefi/loader.c` | allocations, the memory map and its key | allocate, load the kernel, leave boot services | the map changes under it; 64-bit bounds of program headers | the kernel is loaded inside its pages and its pool is free memory |
| Kernel start | `kernel/core/kernel_main.c` | — | initialize in order, or halt | every part may be missing | starting ends |
| QFS1, ELF | `kernel/core/qfs.c`, `kernel/core/elf.c` | none | lookup, list; validate | 64-bit bounds | nothing outside the image is read |
| BIOS chain, recovery shell, host tools, tests | `bootloader`, `kernel/core/shell.c`, `tools`, `scripts`, `tests` | — | — | — | the promised `boot_info` |


### How they interact

* The frame allocator serves the page tables, the task loader and the display's
  back buffer by direct calls. `AddressSpace` therefore takes its frames from a
  free set that behaves as `FramePool` promises, and `FrameAllocator` is shown
  to implement `FramePool`.
* Tasks reach everything else through system calls. Storage calls go to QFS2 or
  the account store, these to the block device and the ATA driver, whose failures
  appear in `Qfs2` and `Account` as the outcomes a sector write may have.
* `Startup` composes the loader, the drive's driver and the storage stack in one
  behaviour, from power-on to a mounted volume, with the firmware and the drive as
  actors of their own. Its end is where `FrameAllocator`, `Qfs2` and `Account` begin:
  `PoolIsFree` is what the allocator's `Initialize` may be given, `AnswersAreTrue` what
  a file system may believe of a sector write. `Qfs2` and `Account` believe more, see section 5.
* `SessionFiles` joins the session and the kernel's file calls over a volume that grows
  by whole nodes, which is what `Qfs2` is shown to be.
* The session draws through DESKTOP_DRAW and DESKTOP_PRESENT (`Display`) and
  reads the keyboard and the mouse through CONSOLE_READ; what `Input` decodes are the
  inputs of `Desktop`.

## 2. The modules

| Module | What it is | Code |
|---|---|---|
| `FramePool` | abstract: exclusive, cleared frames, refusal only on exhaustion | callers' view of `memory.c` |
| `FrameAllocator` | bump pointer, intrusive list, bitmap, owners that overwrite their frames | `memory.c:3-106` |
| `FrameAllocatorProofs`, `AddressSpaceProofs`, `TaskProofs`, `AccountProofs`, `Qfs2Proofs`, `ConsoleProofs`, `SessionProofs`, `StartupProofs` | the theorems of section 4 | — |
| `Capabilities` | capability table as a sequence of live entries: lookups, grant, revoke | `task.c`, `capability.h` |
| `Task` | scheduling, IPC, exits, faults, GS base | `task.c`, `transitions.S`, test programs |
| `DirectoryTree` | abstract: a tree that grows by whole nodes | callers' view of `qfs2.c` |
| `Qfs2` | `create_node`, one sector write per step | `qfs2.c`, initial volume from `tools/qfs2.py` |
| `Account` | the two slots, verify, change, logout | `account.c`, AUTH_* of `task.c` |
| `AddressSpaces` | abstract: a function from addresses to pages per space, one kernel half | callers' view of the paging code |
| `AddressSpace` | tables, a walk of `map_page` one level per step, destroy | `memory.c:108-165`, its callers |
| `Display` | dirty rectangle, pages, present step by step | framebuffer part of `tables.c` |
| `Desktop` | windows, focus, gestures, keyboard routing | `session.c` |
| `Input` | the controller, the mouse, setting them up, the two polls of a call | PS/2 part of `tables.c` |
| `SessionFiles` | paths, `cd`, `mkdir`, `touch`, the Files window, file slots | `session.c`, FS_* of `task.c` |
| `Loader` | `efi_main` against a firmware whose map changes; the choice of the pool | `bootloader/uefi/loader.c`, `memory.c:22-61` |
| `AtaDriver` | the polled driver and one drive | ATA part of `tables.c` |
| `Storage` | choice of the device, probe of the volume, mount, requests | `kernel/vfs`, `session.c`, `task.c` |
| `Startup` | composes `Loader`, `AtaDriver` and `Storage` | `kernel_main.c` |
| `MC*` | values of the constants for TLC | — |

Names of variables, actions and operators are those of the code wherever TLA+
allows it. Operators whose names begin with `Faulty`, placed just before the
definition they resemble and marked "Seeded fault", are that definition with a
plausible bug. No specification uses them. Substituting one for the definition
it imitates makes a property fail; it shows that the property depends on that
piece of code. Every checked property has one.

### State and actions, module by module

**FrameAllocator.** A frame is a page number; `Nil` is address zero. The one word
of a frame that matters, the first, is `word[f]`: while the frame is free it is
the link of the list, while it is held it is its owner's. `Initialize` is
`quanta_memory_initialize` after the choice of a region: any pool size up to
`MaxFrames`. `quanta_frame_allocate` has three outcomes and is three actions
(`AllocateFromFreeList`, `AllocateFresh`, `AllocateFails`) with a common tail
`HandOut`. `ReleaseFrame` takes any page and any alignment, excluding only a frame
that another client holds: nothing in the allocator could notice that, and
the callers do not do it. The ghost variables `held` and `result` are what the
callers believe. A call is one step because no interrupt handler allocates.

**Task, Capabilities.** An action is one system call or one fault from ring-3
instruction to the next entry into ring 3, including the switch `run()` makes. A
call refused by a guard only returns a status and is a stutter. `gs` is the GS
base ring 3 runs with. The syscall entry needs the user's base in it, because it
executes `swapgs`; `run()` enters the next task with whatever base the kernel has.
`delivered` is a history variable. Grant and revoke come at any time between
system calls: kernel code, not a task, calls them. `Capability` tables are
compacted on revoke and handles are not renumbered, as in the code.

**Qfs2.** `CreateBegins` holds all reads and decisions before the first write;
`WriteInode`, `WriteDentry` and `Rollback` write one sector each; `Verify` is the
read-back. `InodeParts` and `DentryParts` say which fields of a record each sector
write carries, from the layout of the disk (56-byte inodes, 66-byte entries, 512-byte
sectors): inode 10 has its number alone at the end of a sector, entry 23 its link
without its name, entry 7 everything but the padding of a short name. A write may
succeed, fail with the sector unchanged, or fail with the sector written (the
drive reports the error at the flush). A crash keeps the disk and nothing else.
`abandoned` is a history variable: entries that reached the disk although their
write failed, and whose inode the rollback then freed.

**Account.** A record is its magic, whether its checksum matches, its generation
and the password it matches. `quanta_account_change` is `AuthChange`, `WriteRecord`,
`ReadBack`; `quanta_account_verify` is the operator of that name, which picks a
record by magic and generation alone, while `Active` (used by the change) looks
at the checksum. "Torn" is a write that leaves the first bytes of the new record before the rest
of what the slot held: `TornHeaders` for a write that stops inside the header, `TornRecords` for one
that stops in or after the salt and digest, so that the slot may have the new generation and the salt and
digest of the password superseded before. SHA-256 and CRC-32 are abstracted to whether they match.

**AddressSpace.** An address is the sequence of its table indices. `map_page` is a
walk: `MapBegins`, then `TableForPresent` or `TableForAbsent` per level, `Panics` if
the pool is empty, `MapLeaf`. `Released` is the set of tables `destroy_table` visits.
The boot loader's tables are outside the pool.

**Display.** A pixel of a page is stale when it differs from the copy in memory.
Drawing makes a rectangle stale and widens the dirty rectangle; a present is
`PresentUnsynced` with one page and `PresentBackPage`, `PresentFlips` or
`PresentFails`, `PresentOldPage` with two.

**Desktop.** A mouse event is `Press`, `Move` or `Release`; which window gets a press
is decided by the same fixed sequence of tests as in `desktop_mouse_event`, and `Follow` is the
part after it, where one of the gestures in progress moves or resizes its window, in the event of the press already. Only
the horizontal axis is kept. Positions are words modulo `Modulus`. `Logout` is `exit` and `logout`: `login()` follows the
mouse until the user has signed in, leaves `pointer_buttons` as it last saw them and clears no gesture. The history variable
`abandoned` records that it ended with the button up in the middle of one. `read_line`, with which `man` and `passwd`
ask for a line, looks at no mouse event, so that a release may be missing anyway.
`draw_workspace` ends nearly every handler and assigns `desktop_view`, so it is part of
each action.

**Input.** The controller has one output buffer; `buffer` is the byte in it and whether it
came from the mouse. `KeySent`, `MouseSent`, `MouseAcknowledged`, `ConfigAnswered` and
`ControllerTook` are the devices, which move at any moment the buffers allow. A status
read and the data read after it are one step, because nothing but the processor empties
the buffer; the two status reads of a call, `PollMouse` and `PollKeyboard`, are two steps,
because a byte may arrive between them. `Script` is `ps2_mouse_initialize` as the list
of what it writes and where it waits; `Waited` counts polls in vain and `GiveUp` is what
the wait's failure does at each place. `stolen` records that a mouse byte was
taken for a key, `mistaken` that a key was taken for the configuration byte, `misread` that a byte of a packet
was taken for an acknowledge: 0xfa is also the motion -6, and the firmware may have left the mouse reporting.

**SessionFiles.** An action is one event of the session with every system call it makes and the
`draw_workspace` that ends it. A name is a sequence of words, since a listing separates names by
spaces and a name may contain one: `mkdir a b` makes one node whose listing reads as two
entries. `explorer` is the cached listing with the path it was read for, `shown` what is on the
screen: the first `MaxDrawn` entries and which of them is highlighted, if the selected one is among them. The press asks for no
more than that the entry is in the listing. `disk` says how the one disk error of an event goes: its first read fails, its write is
lost, its write is reported as failed too late, or the list call of the redraw fails.

**Loader.** The firmware's map is `owner`, one holder per page; `changes` counts how often it
changed after it was first read and is also the key the firmware would give out. Changes
before that are part of where things lie at the start (`FirmwareAtStart`,
`LoaderPages`). A descriptor is a longest run of pages with one owner, in the order of addresses.
The loader writes `boot_info` to 0x9000 and the regions to 0x5000 without asking the
firmware for these pages: the model assumes that the firmware hands neither to anyone
else. Program headers are words modulo `Modulus`, so that sums and differences wrap; the
virtual and the physical address of a segment are fields of their own, and `linked` records whether the segments that hold the
entry point relate them as `kernel.ld` does. Alignment and the ELF header's checks are one flag each. `Jump` stands for the new page
tables, which map the first GiB only (a loader above it faults), and for the choice of the
pool in `quanta_memory_initialize`.

**AtaDriver.** The driver is a call that runs (`call.phase`), the drive an actor (`DriveStep`).
Assumed of the drive: an access to a port takes longer than the 400 ns in which the busy bit may
still be down; a command written while it is busy is lost; one written while it hands over data
or waits for some is either lost or drops the data; what is written is kept in the drive's own memory (`cache`), from which
it answers, and reaches the `medium` with a flush or when the drive sees fit (`DriveWritesBack`). `late` records that a wait
was given up while the drive was at work, `masked` that the flush was written over an error nobody had read, `overtaken` that
it was written while the drive was still storing the data, and was lost. The
two waits of IDENTIFY are one, and a sector beyond the drive's size is refused before the
driver is entered.

**Storage.** `MountBegins`, `ProbeVolume` and `ProbeBoot` are `quanta_vfs_probe_boot` around its block
reads; `Serve` is a request of the file system. `active_drive` is the name the session puts before
a path and `DriveName` the one the kernel accepts.

**Startup.** Joins the three. The drives are probed before `quanta_memory_initialize` in the
code; neither reads what the other writes, so the model takes the pool first and then forgets
the loader's variables but the number of frames, which makes the state space a sum and not a product. After the probe
`Create` makes the three tasks and halts on a program that is empty or too long or when the frames run out;
`ConfigureSyscalls` lets interrupts in, and `RunSession` waits for the first `TimerInterrupt`. The frames that the kernel's page
tables take are counted with those of a task.

## 3. The runs

Properties are safety properties except `NothingBlocks`, `Realigns` and `NothingWaitsForEver`; the
fairness these assume is at the end of this section. States are distinct states. Every
module has a type invariant; the one of the frame allocator, which its links and bounds
may break, is a property of its run and a theorem. The others are aids to a reader; those of the
account store, QFS2, the display, the input, the desktop, the file names and the page tables are theorems too.

| Run | Instance | States | Properties |
|---|---|---|---|
| `frame_allocator` | 3 frames, 2 clients, words 0..3 | 20,712 | `TypeOK`, `ExclusiveOwnership`, `FreeListWellFormed`, `ImplementsFramePool` |
| `task_ipc` | 2 services, 2 correlation ids, payload 0..1, 2 capabilities per task | 78,932 | `RunningIsRunnable`, `PendingIffClientWaits`, `DeliveredAtMostOnce`, `EndpointIsLive`, `ReplyMatchesDelivery` |
| `task_gs` | the same | counterexample | `PendingRequestIsServed` |
| `qfs2` | 4 inodes, 3 entries, 2 names, one record of each layout, 3 mishaps | 75,617 | `AgreeUnlessAbandoned`, `LeaksAreBounded`, `AcknowledgedSurvives`, `ImplementsDirectoryTree` |
| `account` | 3 passwords, 5 generations, every outcome | 7,998 | `SlotAlwaysValid`, `PasswordInForce` |
| `account_torn` | the same | counterexample | `NeverLockedOut` |
| `address_space` | 5 interchangeable frames, a device page, 3 levels of 2 entries | 108,414 | `EveryFrameHasOneRole`, `KernelHalfShared`, `ImplementsAddressSpaces` |
| `display` | 3×2 pixels, terminal of 2×2, one or two pages | 3,269 | `DirtyCoversStale`, `NeverTears` |
| `desktop` | 14 columns modulo, screen of 7, three overlapping windows | 1,301,724 | `FocusIsVisible`, `OneGesture`, `OnlyTheLauncherListens` |
| `input` | 3 keys, 3 first bytes, 2 motions, screen of 5, 2 polls per wait | 641,046 | `AlignedUnlessMisled`, `KeyboardStaysOn`, `AppliesWhatWasSent`, `NothingBlocks`, `Realigns` |
| `session_files` | names of one and of two words, 4 arguments, paths of 3, 3 entries listed and 2 drawn, 2 handles, 5 nodes, 1 disk error | 327,720 | `CwdIsADirectory`, `ShownIsCurrent`, `EachTouchKeepsAHandle`, `OpensWhatIsShown`, `FailureLeavesNothing` |
| `startup` | 9 pages, 3 changes of the map, 4-bit addresses, 3 volumes, 2 polls per wait, 3 requests, programs of 1 to 3 pages | 633,072 | `PoolIsFree`, `OneChangeIsSurvived`, `KernelIsLoaded`, `AnswersAreTrue`, `MountIsWhatIsThere`, `OnlyTheSectorWritten`, `NothingWaitsForEver` |

### What they show, and why the bounds are enough

* **frame_allocator.** A frame is never owned twice, whatever is released how often,
  and no word an owner writes is ever followed as a link, although owners may write
  every possible link into their frames. Three frames give a list with a head, a
  middle and an end, and two clients an owner and a stranger. The theorems of
  section 4 remove the bound.
* **task_ipc.** The request/reply protocol holds under every interleaving of calls
  through either entry, faults, exits, grants and revocations. Two services and
  two ids give every kind of mismatch; two table slots give a full table, a compaction
  and a handle that is issued again.
* **qfs2.** A restart at any sector write finds a directory tree that contains
  everything acknowledged. No mishap costs more than one inode. The only
  exception is an entry whose second sector failed after the first had stored its link (section 5), and `AgreeUnlessAbandoned` says so
  precisely: it does not weaken the claim for other entries. A lookup whose read fails is taken for
  an absent name and a second entry is made; `AcknowledgedSurvives` shows that the first one stays the one that is found. The refinement is
  stated as long as no entry has been abandoned. Three inodes beside the root and
  three entries allow a full table, a freed inode taken again and a directory
  inside a directory, one record of each of the layouts the disk has; three mishaps
  allow a failed write, a failed rollback and a crash in one behaviour.
* **account.** Whatever goes wrong with the write, the other slot keeps a valid record,
  and the password last reported as in force opens the session, and no other does, until a change is
  tried. After a change that was not reported done, a superseded password can open it, but only out of a
  torn record (section 5). Five generations allow both slots to be overwritten twice.
* **address_space.** Three levels have a root, an inner and a leaf table, which is what
  the four levels of the processor consist of (the two inner levels run the same
  code); five frames hold one complete space, a page and a second root, and run out
  at every depth. Frames are interchangeable, so the run uses symmetry; all its
  properties are safety properties.
* **display.** The geometry allows rectangles that touch no edge, one or all of them,
  empty ones and ones beyond the screen, with a terminal that is not at the origin.
* **desktop.** The modulus is twice the screen, so that a window dragged off to the
  left has a position that is both wrapped and distinguishable. The columns of the pointer, 0, 2 and 4, are
  chosen with the windows so that each of the three windows is dragged, past both edges, Files and the terminal are resized, the
  terminal also when its left edge has wrapped, and each button is reached in some window. A login may come in the middle of
  each gesture; `OneGesture` excepts what follows until the next event without the button.
* **input.** Unless a byte was stolen or misread, the bytes the driver holds are the ones the mouse sent, and the
  pointer moves by them. A byte is stolen when it arrives between the two status reads, and misread when the mouse sends
  it while an acknowledge is awaited and it has the same value; 250 is therefore among the first bytes and among the motions,
  and the mouse may be reporting from the start.
  Keys are shift and its release, and Enter, whose code read as a configuration byte would turn the
  keyboard's clock off. The two histories except nothing but what the code gets wrong: with neither, nothing else
  loses the place. `Realigns` has premises because the code needs them: a mouse whose motions all look like first bytes keeps
  the driver misaligned for ever.
* **session_files.** The current directory is always a directory, because nothing can be deleted and
  the places of the side bar exist on the volume. What a press opens is what was highlighted on the screen, or an entry
  past those the window draws, with nothing highlighted (section 5). Two entries drawn of three listed make that possible, and
  opening either drawn one. One disk error in
  any call and two handles are enough for a refused open that leaves its file behind; five nodes
  for two new ones beside the three the volume begins with.
* **startup.** Whatever the firmware did, the pool is memory that was free when boot services
  were left; one change of the map is survived and only a second one stops the loader. Nine pages hold each
  allocation, a page below 4 MiB and one above 1 GiB; two regions are fewer than a fragmented map has. Header words of four
  bits wrap in each of the sums, and the virtual address takes values that have nothing to do with the physical one. As long as
  no wait was given up, reads are true and writes land where they
  should, on the medium too unless their flush was lost; afterwards the driver may read the data of the command before (section 5), which the properties
  except by `late`. Three requests allow a failure, a late answer and what follows.
  A page of the loader's maps is nine frames when it comes to the tasks: the smallest pool may or may not be enough for
  three of them. Starting ends, or the kernel waits for a timer that never interrupts.

`CHECK_DEADLOCK FALSE` appears where the system really may stop: the processor halts
on purpose (`Task`), a full volume accepts no create and mishaps are
bounded (`Qfs2`), the kernel panics without frames (`AddressSpace`), and the loader returns,
the kernel halts and the requests are bounded (`Startup`).

### Bounds that exist only for the checker

`MaxFrames`, `MaxCapabilities` and `MaxPayload` are sizes of the code, made small.
`MaxInodes`, `MaxDentries` likewise. `MaxMishaps` bounds crashes and failed writes and
`MaxDepth` the length of parent paths (a child of a child is still created);
`MaxGeneration` bounds password changes (the code's counter has 32 bits and
is not expected to wrap). `Modulus` stands for 2^32 in `Desktop` and 2^64 in `Loader`. `MaxAttempts` is the number of polls of a wait,
100,000 and 1,000,000 in the code. `MaxChanges` bounds the changes of the firmware's map (three: the loader reads
the map twice and leaves twice, so that each gap between these calls may have one); `MaxServed`
bounds requests and `MaxNodes` new nodes. `MaxRegions`, `MaxHandles`, `MaxParts`, `MaxListed`, `MaxDrawn` and `MaxCodePages` are sizes of the code, made small.

### Fairness

Two specifications assume weak fairness of the program alone. In `Input` it is
`WF_inputVars(Kernel)`: the set-up runs to its end with nothing that could preempt it, and
afterwards the loops of the session read a character again and again (`session.c:25, 1175, 1556`), so that a
poll always comes again until the user shuts the machine down. In `Startup` it is `WF_vars(Program)`: loader, kernel and driver
are sequential code on the only processor. Nothing is assumed of the devices, the
firmware, the drive, the timer or the user: a mouse may be silent, a drive busy for ever, and a machine whose timer
never interrupts stays where `task.c:202` waits for it, which `NothingWaitsForEver` says instead of assuming it away. That is
why `NothingBlocks` and `NothingWaitsForEver` depend on the bounds of the waits, which the seeded faults
remove. `Realigns` states what it needs of the mouse as premises.

The other modules assume no fairness. The kernel schedules nothing by itself, a user may stop
typing, and a client whose server exits without a reply waits forever: the code
then halts the processor (hazard at `task.c:521`).

## 4. The proofs

Eight modules of proofs. What they share is the layout: an inductive invariant,
one lemma for the initial states, one for each step that disturbs it, a lemma
that joins them, and theorems that take their property out of the invariant. Lemmas about
operators are stated once, apart from the steps.

### Frame allocator

`FrameAllocatorProofs` proves, for every number of frames, every set of clients
and every set of words, from two assumptions about constants,
`MaxFramesAssumption` (there is at least one page) and `WordsAssumption` (a word can hold
a link):

| Theorem | Statement |
|---|---|
| `TypeCorrect` | `Spec => []TypeOK` |
| `Exclusive` | `Spec => []ExclusiveOwnership` |
| `ListSound` | `Spec => []FreeListWellFormed` |
| `Refinement` | `Spec => ImplementsFramePool` |

None of the three invariants is inductive by itself, not even the type invariant:
`AllocateFromFreeList` loads the new head from the memory of a frame, and only the shape
of the list says that this word is a frame. The shape of the list is
kept only if an owner's store cannot hit a free frame, which is exclusive ownership;
exclusive ownership is kept only if the frame taken from the list is unowned, which is
again the shape of the list; and a fresh frame is new only while the
bitmap lies below the bump pointer. Hence the inductive invariant

    IInv == TypeOK /\ PoolBounds /\ ExclusiveOwnership /\ FreeListWellFormed

where `PoolBounds` orders the pool's bounds and puts the bitmap below the bump
pointer. The argument:

1. `InitIInv`: it holds initially.
2. One lemma per call that moves a frame: `FreeListIInv` pops the witness of the list,
   `FreshIInv` leaves it alone (`FreeListUntouched`) and `ReleaseIInv` pushes on it.
   `PigeonHole` bounds the length of the list, since the invariant quantifies over
   lists of at most `MaxFrames` frames; `HandOutOwnership` is shared by both ways
   of allocating. `StepIInv` joins them, with `Initialize`, `AllocateFails` and
   `WriteFrame` inline.
3. `Inductive` is the temporal step, the three invariants follow.
4. `InitRefines`, `HandOutRefines` and `StepRefines` map every step under `IInv` to a step
   of `FramePool` or to a stutter: `AllocateFails` is a `Refuse` because an empty list
   and an exhausted bump pointer leave no frame unheld, which once more is
   `FreeListWellFormed`.

### Page tables

`AddressSpaceProofs` proves `TypeCorrect`, `OneRole` (`EveryFrameHasOneRole`), `KernelShared`
(`KernelHalfShared`) and `Refinement` (`ImplementsAddressSpaces`) for every number of levels from two up, every
set of indices, every pool and every set of devices, from `AddressSpaceAssumption`. The inductive invariant

    IInv == TypeOK /\ \E rank : Tree(rank) /\ OnTheWay(rank)

gives each table a rank, the level of the walk it serves. `Tree` says that frames that are no table have rank 0 and roots
rank 1 (`Ranked`), that an entry leads one rank down and the last rank's to pages (`Branches`), that something leads to
every table that is not a root (`Reached`) and that it is one entry only, but for the kernel's table
(`OneWayIn`). Without the rank a page could be read as a table; without `OneWayIn` a destroy could give back a
table of another space. That nothing is lost is `Reached`. `OnTheWay` places a walk of
`map_page` in its tree.

1. `EntriesAre` and `LevelsAre` derive the equations of the two recursive functions, `Entries` (what the processor finds) and
   `VisitedByLevel` (what a destroy visits). The induction is `SetInduction`, a least counterexample
   by `WFMin`.
2. One lemma per step for the invariant; `DestroyIInv` rests on `Owned`, that what is visited is closed upwards
   and downwards.
3. `RolesAreExclusive` and `TheSameKernel` take the two properties out of it.
4. For the refinement, `OnlyOneWay` says that two addresses that meet in a table have come the same way, and
   `AtEntry` that a walk is where its address leads. Hence `NewTableEntries` (a new table is a
   stutter), `MapLeafEntries` (a leaf is a `Map` of one address), `CreateEntries`, `DestroyEntries`, and
   `StepRefines` joins them.

### Tasks

`TaskProofs` proves `Runnable` (`RunningIsRunnable`), `PendingIffWaits` (`PendingIffClientWaits`),
`AtMostOnce` (`DeliveredAtMostOnce`), `OnlyAMatchingReply` (`ReplyMatchesDelivery`, an action property)
and `EndpointsLive` (`EndpointIsLive`) for every set of services and ids and every length of the
tables, from `MaxCapabilitiesAssumption`. Two invariants carry it. `ProtocolInv` adds to the properties that
the tasks go one way: while the client runs the server is fresh, the fault task is fresh until it is
entered, and nobody comes back but the client, by its reply (`OneWay`); and it tells the
channel from the client's side (`ChannelSound`), because a second delivery is excluded only
by the client's being unable to call again. `TablesInv` is about the capability tables. Its lemmas,
`FirstExists` and `RevokedKeepsTheRest`, are about sequences: a lookup that succeeds returns the first
match, and the compaction of a revocation keeps every other entry.

### Account store

`AccountProofs` proves `TypeCorrect`, `AlwaysValid` (`SlotAlwaysValid`) and `InForce`
(`PasswordInForce`) for any passwords, any `MaxGeneration` and any subset of the
outcomes of a write, from `AccountAssumption`. The difficulty is that two rules pick a
record, `Active` by checksum and generation and `Chosen` by magic and generation, and after a
torn write they differ. The invariant adds `RecordsSound` (the active record is valid and holds
an acceptable password, the chosen one holds an acceptable password or is torn, and the two are the same
while no change is outstanding) and `ChangeSound` (during a change the record that is not being written is valid and older than
the new one). The second part is why a read-back that succeeds makes both rules agree.

### QFS2

`Qfs2Proofs` proves `TypeCorrect`, `Agree` (`AgreeUnlessAbandoned`), `Leaks` (`LeaksAreBounded`), `Survives`
(`AcknowledgedSurvives`) and `Refinement` (`ImplementsDirectoryTree`) for any number of inodes and
entries, any set of names, any length of a path, any number of mishaps and any layout of the records,
from `Qfs2Assumption`. That assumption lists what a layout can be, `Layouts`: a record lies in one sector, or in
two with both fields that matter in the first, in the second, or one in each.

The invariant, `IInv`, is what the order of the writes achieves. `DiskInv`: the linked entries come first and all
others are clear, because an operation takes the first free entry and nothing unlinks one. `Reserved`
says that the entry of an operation is that first free one and that only it may link to the operation's inode;
`InodePhase`, `DentryPhase`, `RollbackPhase` and `VerifyPhase` say how much of the two records has reached
the disk. `LeakInv` counts: the inode of an operation in progress is not lost yet (`Lost`), but a failed entry
write, which has been counted, may still lose it. `AckInv` says which entry stands for an acknowledged node
(`StandsFor`): the first of its name, before the one being written. Without the prefix of `DiskInv`
a later create could take an earlier place and hide an acknowledged node. `DoubledInv` says that a second
entry of a name comes after the first, and `ParentInv` that the parent of a create stays reachable.

1. One lemma per step. The three writers share `InodeRecordWritten`, `EntryWritten`, `OneInodeMore` (what a record
   written costs the count) and `AcknowledgedKept`.
2. `WalkIs` derives the equation of `find_path` from its recursive definition, and `PathLeads` that what it finds is
   reachable, both by `SetInduction`, a least counterexample.
3. For the refinement, `EntryAddsNode` shows that the write that completes an entry adds one node below a directory
   that exists; `SameNodes` makes every other step a stutter.

### Display and input

`ConsoleProofs` is about both halves of the console, which `tables.c` keeps in one file. From `DisplayAssumption`
it proves `TypeCorrect`, `NothingForgotten` (`DirtyCoversStale`) and `Untorn`
(`NeverTears`, an action property) for every size of screen and terminal, one page or
two. `DirtyCoversStale` says nothing of a present in
progress, so the invariant adds `PresentSound`: while the retrace is awaited the hidden page
is up to date, and after the flip that page is the one shown. `WidenedCovers` is the
lemma that the union of two rectangles covers both.

From `InputAssumption` it proves `InputTypeCorrect`, `KeepsPlace` (`AlignedUnlessMisled`), `LeavesKeyboardOn`
(`KeyboardStaysOn`) and `AppliesPackets` (`AppliesWhatWasSent`, an action property) for every set of keys,
packets and configurations and every bound of the waits. The assumption says of the hardware that the firmware
leaves the keyboard's clock on and that a first byte has bit 3; a byte of a packet may have any value, that of an
acknowledge included. Alignment is not inductive, because it says nothing before the mouse is ready,
and what makes the driver begin aligned is how the set-up goes:

* `OrderInv`: the input buffer holds what the step before has written, if anything.
* `KeyboardInv` follows the configuration byte to the driver and back.
* `CommandInv` places the acknowledges: until the first wait for one there is none, and unless a byte has been misread
  one in the buffer or owed answers the command written last, and between the
  answers to "defaults" and "report" the mouse is silent (`Quiet`). So the second acknowledge is taken when the
  mouse has sent nothing yet. A mouse that reported before it was told to is why the first wait may
  fail, and the step count as given up, or be answered by a byte of a packet, which is what `misread` says. That the second
  wait cannot be, without the first, is a part of this invariant.
* `ReadyInv`: once the mouse is ready, and that was no mistake, nothing is on its way to it and a byte of its in the buffer is
  the one it sent last.

`NextByteIsUsed` is the heart: aligned and with nothing stolen or misread, the byte taken is the next of the packet, and
it is not refused for want of bit 3. `AppliesPackets` follows from it.

### Session

`SessionProofs` is about both models of `session.c`. Of `Desktop` it proves `TypeCorrect`, `FocusVisible` (`FocusIsVisible`), `Gesture` (`OneGesture`) and
`LauncherOnly` (`OnlyTheLauncherListens`) for every screen, every place and width of the windows and every
set of pointer columns, from `DesktopAssumption`. The three properties hold each other up: a press may
begin a gesture because none is active, which is known because the button was up and no login has abandoned one; it may focus a window because the
branch that matched has made it visible. So the invariant is their conjunction with the type, window by
window: `Sound` for the focus, whatever was abandoned, `Grip` and `Single` for the gestures, joined in `Fit`. One lemma per
branch of `desktop_mouse_event` says what the branch makes of each window, `Follow` included.

Of `SessionFiles` it proves `SessionTypeCorrect`, `StaysInADirectory` (`CwdIsADirectory`), `ShowsCurrent`
(`ShownIsCurrent`), `HandlesAreKept` (`EachTouchKeepsAHandle`) and the action properties `OpensShown`
(`OpensWhatIsShown`) and `FailuresLeaveNothing` (`FailureLeavesNothing`), from `SessionFilesAssumption`: a path may
have three parts and the volume three nodes, which is what the image starts with, and no node is named "." or "..".
All three are true of the code (`MaxParts` is 8 there). The invariant, `SessionInv`, adds

* `VolumeInv`: a node lies below a directory that is there, and the places of the side bar are directories. The
  button "<" cuts `cwd` without asking the kernel; what is left is a directory for the first reason, and
  `reset_home_cwd` and the side bar assign paths unasked, which is right for the second.
* `CacheInv` and `ScreenInv`: a listing held to be valid is one of the current directory, of some time since it was
  entered, and what is on the screen is what the window draws of that listing (`shown = Screen(explorer)`), so that an
  entry is highlighted exactly if the selected one was drawn. `ShownIsCurrent` alone says nothing of a cache that is not on
  the screen, and it is the cache that the next redraw shows.

1. Operators: `MinIs`, `PathIs`, `FrontIs`; `ListingIs` and `ResolveIs` derive the equations of the two recursive
   functions by `SetInduction`; hence `ListingFits` (a listing fits its buffer) and `ResolveKeeps` (no resolved path is
   too long or holds "..").
2. `Grown`: a create adds a node at the end, so what was a directory stays one and older listings stay listings of a
   beginning of the volume.
3. `Drawn` is the redraw that ends every event, `StayKeeps` and `EnterKeeps` the two kinds of event; one lemma per
   action shows which it is. `SlotIsTaken` is the `FS_CLOSE` that closes nothing: the slot taken is the one after
   those in use and it stays taken.

### Loader

`StartupProofs` proves `PoolFree` (`PoolIsFree`), `ChangeSurvived` (`OneChangeIsSurvived`) and `KernelLoaded`
(`KernelIsLoaded`) for every width of the addresses, every memory map, kernel image and allocation, and any number of
changes of the map, from `LoaderAssumption`. `MapInv` says what the loader knows of the map at each of its
steps; the heart is that a key equal to the firmware's means that the regions copied are free
pages now, and that leaving boot services succeeds with that key only. `BestIsUsable` shows that the region the kernel
chooses is one of them and avoids what is loaded; it takes a largest element by well-founded
induction on a relation, `WFMin`, which needs no operator parameter. `StaysInside` and `EntryIsFilled` are the arithmetic of words: no segment
the tests let through leaves the allocation, although each sum may wrap, and the virtual addresses of one that is `Linked`
are those it was copied to. Nothing ties the two addresses of the others, so `KernelLoaded` claims the entry point
for `linked` images only, and that nothing is spilled for all.

### Drive and mount

`StartupProofs` also proves `TrueAnswers` (`AnswersAreTrue`), `WritesOnlyTheSector` (`OnlyTheSectorWritten`, an action
property) and `MountIsRight` (`MountIsWhatIsThere`) for every number of polls, every content and every
number of requests, from `AtaAssumption` and `StorageAssumption`. Unless a wait was given up, the driver and
the drive are at the same command (`InStep`): a fresh call finds a quiet drive; while it waits, the
drive has its command, its sector and its data; after the transfer what is stored is the
call's data (`Storing`), and once the flush was written (`Settling`) either the drive works on it, with the data in its cache and on
the medium when it has ended, or an error was masked, or the drive is still storing and has never seen the flush
(`overtaken`). `CallsInv` is what holds however late the drive is. The mount
keeps what it `Asked` and what it `Learned` from each answer (`MountInv`).

### What is left to TLC

Of the properties of the runs that hold: the three about liveness, `NothingBlocks`, `Realigns` and
`NothingWaitsForEver`. Out of the provers' reach are liveness under fairness, `ENABLED`, the library's
induction theorems, which take an operator as a parameter (hence the least counterexamples above),
and modules with `RECURSIVE` operators; there are none of these here.

## 5. Where code and documentation disagree

Two have a run that exhibits them.

1. **GS base** (`transitions.S:34`, run `task_gs`). A system call that switches tasks
   leaves through `quanta_arch_enter_user` without the second `swapgs`. The server's own
   `syscall` then stores through the user's null base inside the kernel while the
   client's request is pending. `tests/test_capability_task.py:95` expects that call to
   succeed; the hosted test replaces the switch by a `longjmp`. The client and the server
   of `userspace/test` both enter by the `syscall` instruction.
2. **Torn account record** (`account.c:59`, run `account_torn`). Verification picks the record
   with the larger generation before it looks at the checksum and then
   refuses every password, or, when the write stopped before the salt, accepts the password
   that slot held before, superseded two changes ago. The change looks at the checksum first.
   `tests/test_account.py:20,25` expect a bad record to be passed over.

Met while modelling, without a run of their own. In the kernel:

* When the second sector of an entry fails after the first has stored the whole link, the rollback
  frees the inode and leaves the entry (`qfs2.c:288`). `QuantaCloneDefinition.md:100`
  asks for inode and entry to be allocated consistently. `abandoned` in `Qfs2` marks such entries.
* The sequence grant, grant, revoke 1, grant gives the same handle to two capabilities
  (`task.c:546`: compaction keeps old handles, new ones come from the
  length). The only caller today grants once per task at boot.
* FS_OPEN creates the file before it looks for a slot (`task.c:290`), so that a refused open leaves it.
* The kernel reads a path's drive from the device's name (`task.c:129`, `prime` unless it begins with
  `l`), the session from whether the mount is read-only (`session.c:830`). For a QFS1 volume on a
  drive the session says `live` and every path is refused; for an unknown volume on the live
  image it says `prime`. `MountIsWhatIsThere` says for which volumes the two agree.
* The mount looks for the signature of QFS1 where a QFS2 volume begins (`mount.c:26`), while `qfs.c:5` reads
  its superblock at sector 258.
* A data sector's error is not read before the flush is written over it; and the flush is written without waiting
  for the drive, which ignores it while it is storing the data (`tables.c:957-958`), so that a success is reported
  with the data in the drive's memory only. `AnswersAreTrue` says that these two, `masked` and `overtaken`, are the only
  cases. `Qfs2` and `Account` take an acknowledged sector to be on the disk at a crash: what they promise across a loss of power
  holds for a drive that is faster than the next `out`, or that writes through.
* The start waits without a bound for the first tick of the timer (`task.c:202`), with the rest of the start bounded.
* The motion -6 is the byte 0xfa. A mouse that the firmware left reporting may send it while its acknowledge is awaited
  (`tables.c:269`); the acknowledges are then read one command late, and the last one, which has bit 3, begins a packet
  (`tables.c:300`). No byte was stolen, and the driver is out of step until bit 3 tells it so.
* A wait that is given up leaves the drive at work, and the next read may return the data of the
  command before. `late` marks this.
* `quanta_elf_validate` (`elf.c:33`) has no caller.
* On a screen smaller than the terminal (the display accepts 640×480) a scroll widens the
  dirty rectangle past the framebuffer (`tables.c:740`).
* A window dragged past the left edge has a position just below 2^32, `left + 8 * scale` wraps and the
  bounds test of the glyph routine passes (`tables.c:446`).

In the loader: its own code must lie below 1 GiB, which nothing asks the firmware for; `Loader` has the
fault as an end of its own (`faulted`). The entry point is tested against the virtual addresses of a segment, which is copied
by its physical address (`loader.c:176, 179`); nothing compares the two. A kernel not linked as `kernel.ld` links it passes the tests and is
entered where nothing was copied; `linked` in `KernelIsLoaded` marks these.

In the session:

* `draw_workspace` resets the view that `draw_settings` has just set (`session.c:334`), so Enter never
  toggles the theme as the window says (`session.c:728`), and the keyboard branches for Files and the preview
  are dead as well. `OnlyTheLauncherListens` states what is left.
* The Files preview is drawn by the press that opens a file and drawn over by the redraw that ends the
  same event (`session.c:697`).
* Clicks are offered to Files, Settings and the terminal in this order, whatever is
  drawn on top (`session.c:579`).
* A window dragged off to the left cannot be grabbed again, since `x + width` wraps
  (`session.c:448`); `draw_files` resets position and size but not `maximized`
  (`session.c:1002`); the click that maximizes Files may also open the entry that comes to
  lie under it (`session.c:587`).
* `exit` and `logout` typed during a drag run `login()`, which overwrites `pointer_buttons` and clears no gesture
  (`session.c:1185, 1537`). If the button was let go in the login screen, the window goes on following the pointer as soon as a
  button is pressed, a press is no press while the terminal is dragged (`session.c:578`), and a press in another window may add a
  second gesture, until an event without the button ends them all. `OneGesture` excepts that span.
* The corner of the terminal has no test against its left edge (`session.c:616-620`), so that with the edge wrapped it is still found.
* The Files window draws 24 entries (`session.c:270`); a press selects and opens any entry of the listing (`session.c:549`) and the
  selection is cut to the listing only, so that an entry that was never shown can be opened. `OpensWhatIsShown` says when.
* `touch` passes the handle of FS_CLOSE in the place of the capability (`session.c:1366`, against
  `task.c:312`), so that its slot is never freed; `quanta_close` and `quanta_read` of `userspace/lib.c:25-31` do
  the same. `EachTouchKeepsAHandle` counts the slots.
* `mkdir a b` makes one node named `a b`, although its usage says `mkdir PATH...` (`session.c:1270`).
* The Files window keeps a listing as long as the directory's name is the same (`session.c:925`);
  `ShownIsCurrent` says for how long that is right.

## 6. What is not modelled

* **Abstracted in modelled components:** colours, fonts, icons and text layout (display,
  desktop); page flags other than presence; checksums and digests (whether they
  match); timestamps, sizes and reserved fields of QFS2 records; validation of user
  pointers; the vertical axis of windows; the header checks of an ELF file beyond one flag.
* **Left out for later** (section 7): the login screen and the command interpreter's line editing, QFS1's
  lookup and listing, ELF validation, STORAGE_LIST, FS_STAT's times and sizes.
* **Left out for good:** the BIOS chain up to the jump (real-mode register code), constant
  tables and port initialization, the clock and the serial port, the recovery shell,
  wrapper programs of one system call,
  and host tools that write an image from beginning to end; their output is the
  initial state of `Qfs2` and `Account`. Assets and fonts have no behaviour.

## 7. The plan

Done, in this order: frame allocator with its proofs, tasks, QFS2, account store, address
spaces, display, desktop, input, session files, loader, drive, storage and their composition, the proofs of
tasks, desktop, loader, drive, address spaces, QFS2, input and session files.

| Next | What it says |
|---|---|
| `Qfs1`, `Elf` | lookup and validation as operators, with 64-bit wrap-around, against reference definitions on bounded images |
| login | fields, the attempts and what a logout leaves, over `Account` |

## 8. Working with it

    tlc -workers 2 -config MCQfs2.cfg MCQfs2      # a run: its cfg and its MC module
    tlapm FrameAllocatorProofs.tla                # the proofs of a component

`PROJECT.json` lists components, runs with their properties, the seeded fault of each
property, the source lines of every definition (`map`), the hazards of the code with
the properties aimed at them, and the theorems. The longest run, `session_files`,
takes about two minutes.
