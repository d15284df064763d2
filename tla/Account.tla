-------------------------------- MODULE Account --------------------------------
(***************************************************************************)
(* The password of the only account: the two record slots on the disk,     *)
(* kernel/core/account.c, and the system calls AUTH_VERIFY, AUTH_CHANGE and *)
(* SESSION_LOGOUT of kernel/core/task.c that use them.                     *)
(*                                                                         *)
(* A record is what the code tells apart: its magic, whether its checksum  *)
(* matches, its generation and the password whose salted digest it holds.  *)
(* A change goes to the slot that is not in use, with the next generation. *)
(* The machine may stop at any step; the write may fail with the slot      *)
(* unchanged ("lost"), fail with the slot written ("late"), or leave the   *)
(* first bytes of the new record before the rest of what the slot held     *)
(* ("torn").  The fields lie in the order of Record, salt and digest after *)
(* the generation and the checksum last, so a torn slot may have the new   *)
(* generation and still hold the superseded password's salt and digest.    *)
(***************************************************************************)
EXTENDS Integers

CONSTANTS Passwords,      \* the passwords that can be typed
          Initial,        \* the password of the installed account
          Outcomes,       \* what the record write may do
          MaxGeneration   \* bound on the number of changes

NoPassword == "none"

ASSUME AccountAssumption ==
    /\ Initial \in Passwords /\ NoPassword \notin Passwords
    /\ Outcomes \subseteq {"ok", "lost", "late", "torn"}
    /\ MaxGeneration \in Nat \ {0}

Slots == {1, 2}
Record == [magic : BOOLEAN, checksum : BOOLEAN, generation : 0..MaxGeneration,
           password : Passwords \union {NoPassword}]
Blank == [magic |-> FALSE, checksum |-> FALSE, generation |-> 0, password |-> NoPassword]

VARIABLES slots,          \* the two sectors at ACCOUNT_LBA
          authenticated,  \* the task's flag
          pc,             \* "idle", or the step quanta_account_change is at
          next,           \* its new record
          target,         \* the slot it writes
          acknowledged,   \* the password last reported as in force
          attempts        \* passwords whose change was tried since and not reported done

vars == <<slots, authenticated, pc, next, target, acknowledged, attempts>>

TypeOK ==
    /\ slots \in [Slots -> Record]
    /\ authenticated \in BOOLEAN
    /\ pc \in {"idle", "write", "readback"}
    /\ next \in Record
    /\ target \in Slots
    /\ acknowledged \in Passwords
    /\ attempts \subseteq Passwords

(* The installed image: one record of generation one, the other slot blank.  *)
Init ==
    /\ slots = [s \in Slots |-> IF s = 1
                   THEN [magic |-> TRUE, checksum |-> TRUE, generation |-> 1, password |-> Initial]
                   ELSE Blank]
    /\ authenticated = FALSE
    /\ pc = "idle"
    /\ next = Blank
    /\ target = 2
    /\ acknowledged = Initial
    /\ attempts = {}

-----------------------------------------------------------------------------
record_valid(record) == record.magic /\ record.checksum

(* quanta_account_verify picks a record by its magic and generation alone.   *)
GenerationOf(record) == IF record.magic THEN record.generation ELSE 0
Chosen == IF GenerationOf(slots[2]) > GenerationOf(slots[1]) THEN 2 ELSE 1
quanta_account_verify(password) ==
    /\ GenerationOf(slots[Chosen]) # 0
    /\ slots[Chosen].password = password

(* quanta_account_change picks the record to supersede among the valid ones. *)
Active ==
    IF \/ ~record_valid(slots[1])
       \/ record_valid(slots[2]) /\ slots[2].generation > slots[1].generation
    THEN 2 ELSE 1

(* Seeded fault: the slot in use is overwritten.                             *)
FaultyTarget == Active

(* The slot a change writes: the one that is not in use.                     *)
Target == IF Active = 1 THEN 2 ELSE 1

(* AUTH_VERIFY with the right password; a wrong one changes nothing.         *)
AuthVerify(password) ==
    /\ pc = "idle"
    /\ quanta_account_verify(password)
    /\ authenticated' = TRUE
    /\ UNCHANGED <<slots, pc, next, target, acknowledged, attempts>>

SessionLogout ==
    /\ pc = "idle"
    /\ authenticated' = FALSE
    /\ UNCHANGED <<slots, pc, next, target, acknowledged, attempts>>

(* AUTH_CHANGE up to the write of the new record.                            *)
AuthChange(password) ==
    /\ pc = "idle"
    /\ authenticated
    /\ \E s \in Slots : record_valid(slots[s])
    /\ slots[Active].generation < MaxGeneration
    /\ next' = [magic |-> TRUE, checksum |-> TRUE,
                generation |-> slots[Active].generation + 1, password |-> password]
    /\ target' = Target
    /\ pc' = "write"
    /\ attempts' = attempts \union {password}
    /\ UNCHANGED <<slots, authenticated, acknowledged>>

(* What a write of next that stops part of the way makes of a slot.  Inside  *)
(* the header it can complete the magic; a generation of some new and some   *)
(* old bytes is below the one in use, as the old one is.  After the header   *)
(* the salt and digest are the old ones, a mixture no password matches, or   *)
(* the new ones, the checksum an old one.                                    *)
TornHeaders(old) == {old} \union {[old EXCEPT !.magic = magic, !.checksum = FALSE] : magic \in {old.magic, TRUE}}
TornRecords(old) ==
    {[next EXCEPT !.checksum = FALSE, !.password = password] :
        password \in {old.password, NoPassword, next.password}}

(* What the slot of the change can hold after the write, by its outcome.     *)
Written(outcome) ==
    CASE outcome = "lost" -> {slots[target]}
      [] outcome = "torn" -> TornHeaders(slots[target]) \union TornRecords(slots[target])
      [] OTHER -> {next}

(* account_write of the new record.  A write that reports an error ends the  *)
(* call there.                                                               *)
WriteRecord(outcome) ==
    /\ pc = "write"
    /\ \E record \in Written(outcome) : slots' = [slots EXCEPT ![target] = record]
    /\ pc' = IF outcome \in {"ok", "torn"} THEN "readback" ELSE "idle"
    /\ UNCHANGED <<authenticated, next, target, acknowledged, attempts>>

(* Seeded fault: the change counts as done without looking at the slot.      *)
FaultyReadBackUnchecked ==
    /\ pc = "readback"
    /\ acknowledged' = next.password
    /\ attempts' = {}
    /\ pc' = "idle"
    /\ UNCHANGED <<slots, authenticated, next, target>>

(* Read the slot back, compare it with what was meant, then verify the new   *)
(* password the way a login will.                                            *)
ReadBack ==
    /\ pc = "readback"
    /\ IF /\ record_valid(slots[target])
          /\ slots[target].generation = next.generation
          /\ slots[target].password = next.password
          /\ quanta_account_verify(next.password)
       THEN acknowledged' = next.password /\ attempts' = {}
       ELSE UNCHANGED <<acknowledged, attempts>>
    /\ pc' = "idle"
    /\ UNCHANGED <<slots, authenticated, next, target>>

(* Power off and boot again: the flag and the call in progress are gone.     *)
Crash ==
    /\ authenticated' = FALSE
    /\ pc' = "idle"
    /\ UNCHANGED <<slots, next, target, acknowledged, attempts>>

Next ==
    \/ \E password \in Passwords : AuthVerify(password) \/ AuthChange(password)
    \/ SessionLogout
    \/ \E outcome \in Outcomes : WriteRecord(outcome)
    \/ ReadBack
    \/ Crash

Spec == Init /\ [][Next]_vars

-----------------------------------------------------------------------------
(* A change never destroys the only good record: one slot always holds a     *)
(* valid one, wherever the machine stops and however the write goes wrong.   *)
SlotAlwaysValid == \E s \in Slots : record_valid(slots[s])

(* The password last reported as in force opens the session, and it alone,   *)
(* until another change is tried.  After a change that was tried and not     *)
(* reported done, nothing else opens it but the passwords tried since, unless *)
(* a torn record is the one verified: a superseded password comes back in no *)
(* other way.                                                                *)
PasswordInForce ==
    \A password \in Passwords :
        /\ attempts = {} => (quanta_account_verify(password) <=> password = acknowledged)
        /\ quanta_account_verify(password) =>
              password \in {acknowledged} \union attempts \/ ~record_valid(slots[Chosen])

(* Some password always opens the session: a record that fails its checksum  *)
(* is passed over in favour of a valid one.                                  *)
NeverLockedOut == \E password \in Passwords : quanta_account_verify(password)

=============================================================================
