-------------------------------- MODULE Startup --------------------------------
(***************************************************************************)
(* From power-on to a mounted volume: the UEFI loader or one of the two     *)
(* BIOS chains, quanta_kernel_main, the three tasks, the wait for the timer *)
(* and the storage stack under the first system calls.                      *)
(*                                                                          *)
(* quanta_arch_storage_initialize takes the live image from boot_info and   *)
(* probes the drives, and quanta_memory_initialize follows it; neither      *)
(* touches what the other reads, so that here the pool is chosen first, at  *)
(* the end of Loader's Jump, and what only the loader and the pool needed   *)
(* is forgotten in the next step, all but the number of frames.  That keeps *)
(* the state space a sum of its parts instead of their product.             *)
(***************************************************************************)
EXTENDS Loader, Storage

CONSTANTS ProgramPages, \* the numbers of pages a user program may take
          MaxCodePages, \* TASK_MAX_CODE_PAGES
          TaskFrames,   \* a task's tables and stack
          LiveFrames,   \* the tables that map the live image into it
          FrameScale    \* frames in a page of Loader, whose maps are on a larger scale

Tasks == 3
Stages == {"loader", "drives", "tasks", "timer", "running", "halted"}

ASSUME StartupAssumption ==
    ProgramPages \subseteq Nat /\ {MaxCodePages, TaskFrames, LiveFrames, FrameScale} \subseteq Nat

VARIABLES stage,   \* the loader, the probe of the drives, the making of the
                   \* tasks, the wait for the timer, the session, or a halt
          frames,  \* of the pool, while the tasks are made
          created, \* tasks so far
          ticked   \* the timer has interrupted

startVars == <<stage, frames, created, ticked>>
vars == <<loaderVars, ataVars, storageVars, startVars>>

TypeOK ==
    /\ LoaderTypeOK
    /\ AtaTypeOK
    /\ StorageTypeOK
    /\ stage \in Stages
    /\ frames \in Nat /\ created \in 0..Tasks /\ ticked \in BOOLEAN

(* The BIOS chains end in the kernel with a map of their own, on the         *)
(* installed disk without a live image, on the ISO with one below 4 MiB; the *)
(* kernel takes its pool or halts, as after Jump.                            *)
BiosInit ==
    /\ owner = [p \in Pages |-> "free"] /\ storage_address = 0
    /\ \E region \in Spans : regions = {region}
    /\ changes = 0 /\ map_key = 0 /\ map_size = 0
    /\ spilled = FALSE /\ entry = TRUE /\ linked = TRUE
    /\ pool = Best /\ loader = IF Best = NoPool THEN "halted" ELSE "pooled"
    /\ live \in LiveVolumes \union {NoImage}

Init ==
    /\ AtaInit /\ StorageInit
    /\ stage = "loader" /\ frames = 0 /\ created = 0 /\ ticked = FALSE
    /\ \/ LoaderInit /\ live = NoImage
       \/ BiosInit

(* quanta_arch_storage_initialize, as far as the first drive's probe.        *)
StorageInitialize ==
    /\ stage = "loader" /\ loader = "pooled"
    /\ IF storage_address # 0 THEN live' \in LiveVolumes ELSE UNCHANGED live
    /\ Begin("identify", "boot", "junk")
    /\ stage' = "drives"
    /\ frames' = FrameScale * Size(pool)
    /\ owner' = [p \in Pages |-> "free"] /\ regions' = {} /\ storage_address' = 0
    /\ changes' = 0 /\ map_key' = 0 /\ map_size' = 0
    /\ pool' = NoPool
    /\ UNCHANGED <<spilled, entry, linked, loader, drive, cache, medium, attempts, present, late,
                   masked, overtaken, mount, probing, failed, active_drive, served, created, ticked>>

(* The probe has come to an end: quanta_task_bootstrap.                      *)
TaskBootstrap ==
    /\ stage = "drives" /\ answer # NoCall
    /\ stage' = "tasks"
    /\ UNCHANGED <<loaderVars, ataVars, storageVars, frames, created, ticked>>

(* create: a program that is empty or too long halts the kernel, and so does *)
(* a frame that is not to be had.  The first grant to a fresh task always    *)
(* has handle 1, so that the check after it halts nothing.                   *)
Create ==
    /\ stage = "tasks" /\ created < Tasks
    /\ \E pages \in ProgramPages :
          LET needed == pages + TaskFrames + IF live = NoImage THEN 0 ELSE LiveFrames
          IN IF pages \in 1..MaxCodePages /\ needed <= frames
             THEN frames' = frames - needed /\ created' = created + 1 /\ UNCHANGED stage
             ELSE stage' = "halted" /\ UNCHANGED <<frames, created>>
    /\ UNCHANGED <<loaderVars, ataVars, storageVars, ticked>>

(* quanta_arch_configure_syscalls lets interrupts in; the frames are left to *)
(* the tasks.                                                                *)
ConfigureSyscalls ==
    /\ stage = "tasks" /\ created = Tasks
    /\ stage' = "timer" /\ frames' = 0
    /\ UNCHANGED <<loaderVars, ataVars, storageVars, created, ticked>>

(* quanta_arch_timer_interrupt; the kernel counts on, but asks only this.    *)
TimerInterrupt ==
    /\ stage = "timer" /\ ~ticked
    /\ ticked' = TRUE
    /\ UNCHANGED <<loaderVars, ataVars, storageVars, stage, frames, created>>

(* The loop over quanta_arch_timer_ticks ends, and the session runs.         *)
RunSession ==
    /\ stage = "timer" /\ ticked
    /\ stage' = "running"
    /\ UNCHANGED <<loaderVars, ataVars, storageVars, frames, created, ticked>>

InLoader(step) == stage = "loader" /\ step /\ UNCHANGED <<ataVars, storageVars, startVars>>
InDriver(step) == step /\ UNCHANGED <<loaderVars, storageVars, startVars>>
InKernel(step) == stage = "running" /\ step /\ UNCHANGED <<loaderVars, startVars>>

Program ==
    \/ InLoader(LoaderStep)
    \/ StorageInitialize
    \/ InDriver(DriverStep)
    \/ TaskBootstrap
    \/ Create
    \/ ConfigureSyscalls
    \/ RunSession
    \/ InKernel(MountBegins \/ ProbeVolume \/ ProbeBoot)

Next ==
    \/ Program
    \/ InLoader(FirmwareChanges)
    \/ InDriver(DriveStep)
    \/ InDriver(DriveWritesBack)
    \/ TimerInterrupt
    \/ InKernel(SelectBootDrive)
    \/ InKernel(Serve)

(* The processor runs the program; nothing is promised of the firmware, the  *)
(* drive, the timer or the user.                                             *)
Spec == Init /\ [][Next]_vars /\ WF_vars(Program)

-----------------------------------------------------------------------------
(* Starting ends: the loader gives up, the kernel halts, or the volume has   *)
(* been looked at, with whatever result; or the kernel stays before its      *)
(* first task with interrupts on and no timer (quanta_task_bootstrap), the   *)
(* only wait that has no bound.  Every call of the drive's driver comes      *)
(* back.  No firmware and no drive keeps the program in a retry or a wait    *)
(* (efi_main, ata_wait_ready, quanta_vfs_boot_mount).                        *)
NothingWaitsForEver ==
    /\ \/ <>(\/ loader \in {"returned", "faulted", "halted"}
             \/ stage = "halted"
             \/ stage = "running" /\ Tried)
       \/ <>[](stage = "timer" /\ ~ticked)
    /\ call # NoCall ~> call = NoCall

=============================================================================
