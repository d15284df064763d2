-------------------------------- MODULE Storage --------------------------------
(***************************************************************************)
(* The boot volume: kernel/vfs/storage.c chooses the device, the live image *)
(* in memory before the first drive; kernel/vfs/mount.c looks at it once    *)
(* and keeps what it saw; the file system then reads and writes through the *)
(* block device.  Session and kernel each derive the name of the drive,     *)
(* userspace/session.c from the mount's flags and kernel/core/task.c from   *)
(* the device's name.                                                       *)
(*                                                                          *)
(* Three sectors matter: "boot" (0), "volume" (QUANTA_DISK_QFS2_LBA) and    *)
(* "data", any sector of a file.  The size of a device is left out: both    *)
(* drivers refuse a sector beyond theirs.                                   *)
(***************************************************************************)
EXTENDS AtaDriver

CONSTANTS LiveVolumes, \* what a live image may hold
          Written,     \* what the file system writes
          MaxServed    \* its requests, a bound for the checker

NoImage == [none |-> TRUE]
Kinds == {"unknown", "QFS1", "QFS2", "FAT", "VFAT"}
Devices == {"none", "live", "disk0"}

ASSUME StorageAssumption ==
    /\ Sectors = {"boot", "volume", "data"}
    /\ LiveVolumes \subseteq [Sectors -> Contents]
    /\ Written \subseteq Contents
    /\ MaxServed \in Nat

VARIABLES
    live,          \* memory_storage: the image, or NoImage
    mount,         \* boot_mount
    probing,       \* how far quanta_vfs_probe_boot has got
    failed,        \* history: one of its reads failed
    active_drive,  \* of the session, "" before the login
    served         \* requests of the file system

storageVars == <<live, mount, probing, failed, active_drive, served>>

NoMount == [device |-> "none", kind |-> "unknown", read_only |-> FALSE]

StorageTypeOK ==
    /\ live \in [Sectors -> Contents] \union {NoImage}
    /\ mount \in [device : Devices, kind : Kinds, read_only : BOOLEAN]
    /\ probing \in {"untried", "volume", "boot", "done"}
    /\ failed \in BOOLEAN
    /\ active_drive \in {"", "live", "prime"}
    /\ served \in 0..MaxServed

StorageInit ==
    /\ mount = NoMount
    /\ probing = "untried"
    /\ failed = FALSE
    /\ active_drive = ""
    /\ served = 0

-----------------------------------------------------------------------------
(* Seeded fault: the first drive comes before the live image.                *)
Faulty_quanta_storage_boot_device ==
    IF present THEN "disk0" ELSE IF live # NoImage THEN "live" ELSE "none"

quanta_storage_boot_device ==
    IF live # NoImage THEN "live" ELSE IF present THEN "disk0" ELSE "none"

(* quanta_block_device_read: the live image answers at once, the drive's     *)
(* driver takes its time.                                                    *)
block_read(device, lba) ==
    IF device = "live"
    THEN answer' = [op |-> "live", lba |-> lba, data |-> live[lba], ok |-> TRUE] /\ UNCHANGED call
    ELSE Begin("read", lba, "junk")

KindOfVolume(data) == IF data \in {"QFS1", "QFS2"} THEN data ELSE "unknown"
KindOfBoot(data) == IF data \in {"FAT", "VFAT"} THEN data ELSE "unknown"

(* The first system call finds no device in the mount; without any device    *)
(* every later one looks again, and finds none again.                        *)
MountBegins ==
    /\ probing = "untried"
    /\ quanta_storage_boot_device # "none"
    /\ mount' = [mount EXCEPT !.device = quanta_storage_boot_device]
    /\ block_read(quanta_storage_boot_device, "volume")
    /\ probing' = "volume"
    /\ UNCHANGED <<drive, cache, medium, attempts, present, late, masked, overtaken, live, failed, active_drive, served>>

(* quanta_vfs_boot_mount after the probe; the live device cannot write.      *)
Mounted(kind) ==
    /\ mount' = [mount EXCEPT !.kind = kind,
                              !.read_only = kind = "QFS1" \/ (kind = "QFS2" /\ mount.device = "live")]
    /\ probing' = "done"

(* What the signature at QUANTA_DISK_QFS2_LBA says; if it says nothing, or   *)
(* cannot be read, the boot sector is asked.                                 *)
ProbeVolume ==
    /\ probing = "volume" /\ answer # NoCall
    /\ failed' = (failed \/ ~answer.ok)
    /\ LET kind == IF answer.ok THEN KindOfVolume(answer.data) ELSE "unknown"
       IN IF kind # "unknown"
          THEN Mounted(kind) /\ UNCHANGED <<call, answer>>
          ELSE block_read(mount.device, "boot") /\ probing' = "boot" /\ UNCHANGED mount
    /\ UNCHANGED <<drive, cache, medium, attempts, present, late, masked, overtaken, live, active_drive, served>>

ProbeBoot ==
    /\ probing = "boot" /\ answer # NoCall
    /\ failed' = (failed \/ ~answer.ok)
    /\ Mounted(IF answer.ok THEN KindOfBoot(answer.data) ELSE "unknown")
    /\ UNCHANGED <<drive, cache, medium, call, attempts, present, answer, late, masked, overtaken, live, active_drive, served>>

(* The mount has been tried by the time a system call is served.             *)
Tried == probing = "done" \/ (probing = "untried" /\ quanta_storage_boot_device = "none")

(* select_boot_drive, at the login.                                          *)
SelectBootDrive ==
    /\ Tried /\ active_drive = ""
    /\ active_drive' = IF mount.read_only THEN "live" ELSE "prime"
    /\ UNCHANGED <<ataVars, live, mount, probing, failed, served>>

(* filesystem_path_valid: the only name a path may begin with.               *)
DriveName == IF mount.device = "live" THEN "live" ELSE "prime"

(* A file is read, or written: quanta_block_device_write has no driver to    *)
(* call on the live device.                                                  *)
Serve ==
    /\ mount.kind = "QFS2" /\ probing = "done" /\ call = NoCall
    /\ served < MaxServed
    /\ served' = served + 1
    /\ \/ block_read(mount.device, "data")
       \/ mount.device = "disk0" /\ \E data \in Written : Begin("write", "data", data)
    /\ UNCHANGED <<drive, cache, medium, attempts, present, late, masked, overtaken, live, mount, probing, failed, active_drive>>

-----------------------------------------------------------------------------
(* What the device holds, as the probe would see it without any failure.     *)
KindOn(volume) == IF KindOfVolume(volume["volume"]) # "unknown"
                  THEN KindOfVolume(volume["volume"]) ELSE KindOfBoot(volume["boot"])

(* As long as no wait for the drive was given up: the mount is of the kind   *)
(* the device holds, or, if a read of the probe failed, at least never gets  *)
(* a QFS provider that the device is not a volume of, and the live image     *)
(* comes before the drive (quanta_vfs_boot_mount).  On a QFS2 volume session *)
(* and kernel agree on the name of the drive, which every path begins with,  *)
(* or no file could be opened (select_boot_drive, filesystem_path_valid).    *)
MountIsWhatIsThere ==
    /\ probing = "done" /\ ~late =>
          LET volume == IF mount.device = "live" THEN live ELSE cache
          IN /\ mount.device = "live" <=> live # NoImage
             /\ ~failed => mount.kind = KindOn(volume)
             /\ mount.kind \in {"QFS1", "QFS2"} => mount.kind = KindOn(volume)
    /\ active_drive # "" /\ mount.kind = "QFS2" => active_drive = DriveName

=============================================================================
