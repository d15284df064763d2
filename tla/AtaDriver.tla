------------------------------- MODULE AtaDriver -------------------------------
(***************************************************************************)
(* The polled ATA driver, kernel/arch/x86_64/tables.c: probe_ata_devices,   *)
(* quanta_arch_ata_read and quanta_arch_ata_write, and one drive.           *)
(*                                                                          *)
(* The drive goes on by itself between any two of the driver's accesses,    *)
(* and may take longer than the driver waits or never answer.  A command    *)
(* written while it is busy is lost; one written while it still has data to *)
(* hand over, or waits for some, is lost or drops that data, as the         *)
(* standard leaves open.  An access to a port takes longer than the 400 ns  *)
(* in which the busy bit may still be down.  What is written is kept in the *)
(* drive's own memory, from which it answers; it reaches the medium when    *)
(* the drive sees fit, or at the latest with a flush.  The data of a sector *)
(* is one value and its 256 words move in one step.                         *)
(***************************************************************************)
EXTENDS Integers, FiniteSets

CONSTANTS Sectors,     \* of the drive
          Contents,    \* what a sector may hold
          MaxAttempts, \* polls before a wait is given up (1000000 in the code)
          Volumes      \* what the drive may hold at first, a set of functions

ASSUME AtaAssumption ==
    /\ MaxAttempts \in Nat \ {0}
    /\ Volumes \subseteq [Sectors -> Contents]
    /\ "junk" \in Contents

Commands == {"identify", "read", "write", "store", "flush"}
States == {"absent", "idle", "busy", "data", "error"}
Phases == {"issue", "wait", "transfer", "flush", "settle"}
Call == [op : {"identify", "read", "write"}, lba : Sectors, data : Contents, phase : Phases]
Answer == [op : {"identify", "read", "write", "live"}, lba : Sectors, data : Contents, ok : BOOLEAN]
NoCall == [op |-> "none"]

VARIABLES
    drive,    \* its state, the command it works on, that command's sector and data
    cache,    \* what it answers with for each sector, lost with the power
    medium,   \* what its sectors hold
    call,     \* the driver's function that runs, or NoCall
    attempts, \* polls of the wait in progress
    present,  \* what the probe found
    answer,   \* what the last call returned, or NoCall
    late,     \* history: a wait was given up while the drive was at work
    masked,   \* history: the flush of this write was written over an error not yet read
    overtaken \* history: the flush of this write came while the drive was busy, and was lost

ataVars == <<drive, cache, medium, call, attempts, present, answer, late, masked, overtaken>>

AtaTypeOK ==
    /\ drive \in [state : States, command : Commands, lba : Sectors, data : Contents]
    /\ cache \in [Sectors -> Contents] /\ medium \in [Sectors -> Contents]
    /\ call \in Call \union {NoCall}
    /\ attempts \in 0..MaxAttempts
    /\ present \in BOOLEAN
    /\ answer \in Answer \union {NoCall}
    /\ late \in BOOLEAN /\ masked \in BOOLEAN /\ overtaken \in BOOLEAN

AtaInit ==
    /\ medium \in Volumes /\ cache = medium
    /\ \E state \in {"absent", "idle"} :
          drive = [state |-> state, command |-> "flush", lba |-> CHOOSE t \in Sectors : TRUE, data |-> "junk"]
    /\ call = NoCall /\ answer = NoCall
    /\ attempts = 0
    /\ present = FALSE
    /\ late = FALSE /\ masked = FALSE /\ overtaken = FALSE

-----------------------------------------------------------------------------
(* The drive comes to the end of what it is doing: it has data to hand over  *)
(* or waits for some, or has carried out the command, or failed; a write or  *)
(* a flush that fails may have been carried out all the same.                *)
DriveHas(data) == drive' = [drive EXCEPT !.state = "data", !.data = data] /\ UNCHANGED <<cache, medium>>
DriveEnds(state) == drive' = [drive EXCEPT !.state = state]
Stored == [cache EXCEPT ![drive.lba] = drive.data]

DriveStep ==
    /\ drive.state = "busy"
    /\ \/ drive.command \in {"identify", "write"} /\ DriveHas("junk")
       \/ drive.command = "read" /\ DriveHas(cache[drive.lba])
       \/ /\ drive.command = "store"
          /\ DriveEnds("idle") \/ DriveEnds("error")
          /\ cache' = Stored /\ UNCHANGED medium
       \/ /\ drive.command = "flush"
          /\ DriveEnds("idle") \/ DriveEnds("error")
          /\ medium' = cache /\ UNCHANGED cache
       \/ DriveEnds("error") /\ UNCHANGED <<cache, medium>>
    /\ UNCHANGED <<call, attempts, present, answer, late, masked, overtaken>>

(* Unasked, a sector of the cache is brought to the medium.                  *)
DriveWritesBack ==
    /\ \E s \in Sectors : medium[s] # cache[s] /\ medium' = [medium EXCEPT ![s] = cache[s]]
    /\ UNCHANGED <<drive, cache, call, attempts, present, answer, late, masked, overtaken>>

(* What becomes of the drive when a command is written.                      *)
Commanded(command, lba) ==
    LET taken == [state |-> "busy", command |-> command, lba |-> lba, data |-> "junk"]
    IN IF drive.state \in {"idle", "error"} THEN {taken}
       ELSE IF drive.state = "data" THEN {drive, taken} ELSE {drive}

-----------------------------------------------------------------------------
(* A call of the driver begins; the caller has looked at the drive's size.   *)
Begin(op, lba, data) ==
    /\ call = NoCall
    /\ call' = [op |-> op, lba |-> lba, data |-> data, phase |-> "issue"]
    /\ answer' = NoCall

Return(data, ok) ==
    /\ call' = NoCall
    /\ answer' = [op |-> call.op, lba |-> call.lba, data |-> data, ok |-> ok]

(* The drive is selected and the command written without looking at the      *)
(* status first.                                                             *)
Issue ==
    /\ call # NoCall /\ call.phase = "issue"
    /\ drive' \in Commanded(call.op, call.lba)
    /\ call' = [call EXCEPT !.phase = "wait"]
    /\ attempts' = 0
    /\ masked' = FALSE /\ overtaken' = FALSE
    /\ UNCHANGED <<cache, medium, present, answer, late>>

(* Seeded fault: the busy bit is not looked at.                              *)
FaultyReadyBusy(require_data) == drive.state = "data" \/ ~require_data

Ready(require_data) ==
    /\ drive.state \in {"idle", "data"}
    /\ require_data => drive.state = "data"

(* Seeded fault: the polls are not counted.                                  *)
FaultyPoll(require_data, next) ==
    IF drive.state \in {"absent", "error"}
    THEN Return(call.data, FALSE) /\ UNCHANGED <<attempts, late>>
    ELSE IF Ready(require_data) THEN next /\ attempts' = 0 /\ UNCHANGED late
    ELSE UNCHANGED <<call, answer, attempts, late>>

(* ata_wait_ready, one status read.                                          *)
Poll(require_data, next) ==
    IF drive.state \in {"absent", "error"}
    THEN Return(call.data, FALSE) /\ UNCHANGED <<attempts, late>>
    ELSE IF Ready(require_data) THEN next /\ attempts' = 0 /\ UNCHANGED late
    ELSE IF attempts + 1 < MaxAttempts
         THEN attempts' = attempts + 1 /\ UNCHANGED <<call, answer, late>>
         ELSE Return(call.data, FALSE) /\ attempts' = 0 /\ late' = TRUE

(* The wait for the data of a command.                                       *)
Wait ==
    /\ call # NoCall /\ call.phase = "wait"
    /\ Poll(TRUE, call' = [call EXCEPT !.phase = "transfer"] /\ UNCHANGED answer)
    /\ UNCHANGED <<drive, cache, medium, present, masked, overtaken>>

(* 256 words are read, whatever the drive has.                               *)
ReadWords ==
    /\ call # NoCall /\ call.phase = "transfer" /\ call.op \in {"identify", "read"}
    /\ LET has == drive.state = "data" /\ drive.command \in {"identify", "read"}
       IN Return(IF has THEN drive.data ELSE "junk", TRUE)
    /\ drive' = IF drive.state = "data" THEN [drive EXCEPT !.state = "idle"] ELSE drive
    /\ present' = (present \/ call.op = "identify")
    /\ UNCHANGED <<cache, medium, attempts, late, masked, overtaken>>

(* 256 words are written; a drive that asked for none keeps what it has.     *)
WriteWords ==
    /\ call # NoCall /\ call.phase = "transfer" /\ call.op = "write"
    /\ drive' = IF drive.state = "data" /\ drive.command = "write"
                THEN [drive EXCEPT !.state = "busy", !.command = "store", !.data = call.data]
                ELSE drive
    /\ call' = [call EXCEPT !.phase = "flush"]
    /\ UNCHANGED <<cache, medium, attempts, present, answer, late, masked, overtaken>>

(* Seeded fault: no flush.                                                   *)
FaultyNoFlush ==
    /\ call # NoCall /\ call.phase = "flush"
    /\ call' = [call EXCEPT !.phase = "settle"]
    /\ attempts' = 0
    /\ UNCHANGED <<drive, cache, medium, present, answer, late, masked, overtaken>>

(* The flush follows at once, whatever the drive is doing: it is lost while  *)
(* the data is being stored, and a drive that has failed forgets its error.  *)
Flush ==
    /\ call # NoCall /\ call.phase = "flush"
    /\ drive' \in Commanded("flush", call.lba)
    /\ call' = [call EXCEPT !.phase = "settle"]
    /\ attempts' = 0
    /\ masked' = (drive.state = "error")
    /\ overtaken' = (drive' = drive)
    /\ UNCHANGED <<cache, medium, present, answer, late>>

(* The wait for the flush, or for the write if the flush was lost.           *)
Settle ==
    /\ call # NoCall /\ call.phase = "settle"
    /\ Poll(FALSE, Return(call.data, TRUE))
    /\ UNCHANGED <<drive, cache, medium, present, masked, overtaken>>

DriverStep == Issue \/ Wait \/ ReadWords \/ WriteWords \/ Flush \/ Settle

-----------------------------------------------------------------------------
(* As long as no wait was given up, a sector read is the sector asked for,   *)
(* and one whose write was reported to have succeeded is what the drive will *)
(* answer with, and is on the medium.  Two things make the report of a write *)
(* wrong, both because its flush is written without waiting: the flush was   *)
(* written over the write's error, or was lost while the data was being      *)
(* stored, so that the sector is still in the drive's memory only            *)
(* (quanta_arch_ata_write).                                                  *)
AnswersAreTrue ==
    answer # NoCall /\ answer.ok /\ ~late =>
        /\ answer.op = "read" => answer.data = cache[answer.lba]
        /\ answer.op = "write" /\ ~masked =>
              /\ cache[answer.lba] = answer.data
              /\ medium[answer.lba] = answer.data \/ overtaken

(* As long as no wait was given up, what the drive answers with for a sector *)
(* changes only while a write is in progress, to what it writes and where    *)
(* (quanta_arch_ata_write).                                                  *)
OnlyTheSectorWritten ==
    [][\A s \in Sectors : cache'[s] # cache[s] /\ ~late =>
          call # NoCall /\ call.op = "write" /\ call.lba = s /\ call.data = cache'[s]]_ataVars

=============================================================================
