----------------------------- MODULE AccountProofs -----------------------------
(***************************************************************************)
(* The account store keeps a valid record, and only a torn record revives  *)
(* a superseded password, for all passwords, any number of changes and     *)
(* every way a record write can go wrong.                                  *)
(*                                                                         *)
(* Two rules pick a record: Active, by checksum and generation, and        *)
(* Chosen, by magic and generation.  The invariant keeps Active on a valid *)
(* record with an acceptable password and Chosen on such a record or a     *)
(* torn one, and makes them agree while no change is outstanding.          *)
(***************************************************************************)
EXTENDS Account, TLAPS

Other(slot) == IF slot = 1 THEN 2 ELSE 1
Acceptable == {acknowledged} \union attempts

(* The record a login looks at has an acceptable password or is torn, the    *)
(* one a change supersedes is valid and has an acceptable one; with no       *)
(* change outstanding they are the same.                                     *)
RecordsSound ==
    /\ slots[Chosen].password \in Acceptable \/ ~record_valid(slots[Chosen])
    /\ record_valid(slots[Active])
    /\ slots[Active].password \in Acceptable
    /\ attempts = {} => Chosen = Active /\ quanta_account_verify(acknowledged)

(* A change in progress writes the slot that is not in use, and its record   *)
(* is newer than the one that stays.                                         *)
ChangeSound ==
    pc # "idle" =>
        /\ next.magic /\ next.checksum
        /\ next.password \in attempts
        /\ record_valid(slots[Other(target)])
        /\ slots[Other(target)].generation < next.generation
        /\ slots[Other(target)].password \in Acceptable

IInv == TypeOK /\ RecordsSound /\ ChangeSound

-----------------------------------------------------------------------------
LEMMA InitIInv == Init => IInv
<1> SUFFICES ASSUME Init PROVE IInv
    OBVIOUS
<1> USE AccountAssumption
<1>1. slots[1].magic /\ slots[1].checksum /\ slots[1].generation = 1 /\ slots[1].password = Initial
    BY DEF Init, Slots
<1>2. ~slots[2].magic /\ slots[2].generation = 0
    BY DEF Init, Slots, Blank
<1>3. Chosen = 1 /\ Active = 1
    BY <1>1, <1>2 DEF Chosen, Active, GenerationOf, record_valid
<1>4. TypeOK
    <2>1. Blank \in Record
        BY DEF Blank, Record
    <2>2. [magic |-> TRUE, checksum |-> TRUE, generation |-> 1, password |-> Initial] \in Record
        BY DEF Record
    <2>3. slots \in [Slots -> Record]
        BY <2>1, <2>2 DEF Init
    <2> QED BY <2>1, <2>3 DEF Init, TypeOK, Slots
<1>5. RecordsSound
    BY <1>1, <1>3 DEF Init, RecordsSound, Acceptable, record_valid, quanta_account_verify,
                      GenerationOf
<1>6. ChangeSound
    BY DEF Init, ChangeSound
<1> QED BY <1>4, <1>5, <1>6 DEF IInv

(* Two slots: the one a change writes and the one that stays.                *)
LEMMA TwoSlots ==
    ASSUME NEW slot \in Slots
    PROVE  Other(slot) \in Slots /\ Other(slot) # slot /\ \A s \in Slots : s \in {slot, Other(slot)}
    BY DEF Slots, Other

LEMMA Picked == Chosen \in Slots /\ Active \in Slots
    BY DEF Chosen, Active, Slots

(* A step that leaves the slots, the acknowledged password and the attempts  *)
(* alone leaves the rules' picks alone.                                      *)
LEMMA RecordsUntouched ==
    ASSUME RecordsSound, UNCHANGED <<slots, acknowledged, attempts>>
    PROVE  RecordsSound'
    BY DEF RecordsSound, Chosen, Active, GenerationOf, record_valid, Acceptable,
           quanta_account_verify

(* The change starts: its slot is the one that Active leaves alone.          *)
LEMMA AuthChangeIInv ==
    ASSUME IInv, NEW password \in Passwords, AuthChange(password)
    PROVE  IInv'
<1> USE AccountAssumption
<1>1. Active \in Slots /\ Target \in Slots /\ Other(Target) = Active
    BY Picked DEF Target, Other, Slots
<1>2. slots[Active] \in Record /\ slots[Active].generation \in 0..MaxGeneration
    BY <1>1 DEF IInv, TypeOK, Record
<1>3. TypeOK'
    BY <1>1, <1>2 DEF IInv, TypeOK, AuthChange, Record
<1>4. Acceptable' = Acceptable \union {password}
    BY DEF AuthChange, Acceptable
<1>5. UNCHANGED <<Chosen, Active>>
    BY DEF AuthChange, Chosen, Active, GenerationOf, record_valid
<1>6. RecordsSound'
    BY <1>4, <1>5 DEF IInv, RecordsSound, AuthChange, record_valid
<1>7. ChangeSound'
    BY <1>1, <1>2, <1>4 DEF IInv, RecordsSound, AuthChange, ChangeSound, record_valid
<1> QED BY <1>3, <1>6, <1>7 DEF IInv

(* The write: whatever it leaves in its slot, the other one is valid and     *)
(* older, so both rules pick either the new record or the one that stays.    *)
LEMMA WriteRecordIInv ==
    ASSUME IInv, NEW outcome \in Outcomes, WriteRecord(outcome)
    PROVE  IInv'
<1> USE AccountAssumption
<1> DEFINE new == slots'[target]
           kept == slots[Other(target)]
<1>1. target \in Slots /\ next \in Record /\ slots \in [Slots -> Record]
    BY DEF IInv, TypeOK
<1>2. /\ next.magic /\ next.checksum /\ next.password \in attempts
      /\ record_valid(kept) /\ kept.generation < next.generation /\ kept.password \in Acceptable
    BY DEF IInv, ChangeSound, WriteRecord
<1>3. slots'[Other(target)] = kept
    BY <1>1, TwoSlots DEF WriteRecord
<1>4. \/ slots' = slots
      \/ /\ slots' = [slots EXCEPT ![target] = next]
         /\ new = next
      \/ new \in Record /\ ~new.checksum
    <2>1. PICK record \in Written(outcome) : slots' = [slots EXCEPT ![target] = record]
        BY DEF WriteRecord
    <2>2. new = record
        BY <2>1, <1>1
    <2>3. CASE outcome = "lost"
        BY <2>1, <2>3, <1>1 DEF Written
    <2>4. CASE outcome = "torn"
        <3>1. slots[target] \in Record /\ slots[target].password \in Passwords \union {NoPassword}
              /\ next.password \in Passwords \union {NoPassword}
            BY <1>1 DEF Record
        <3>2. CASE record \in TornHeaders(slots[target])
            <4>1. CASE record = slots[target]
                BY <4>1, <2>1, <1>1
            <4>2. CASE \E magic \in {slots[target].magic, TRUE} :
                           record = [slots[target] EXCEPT !.magic = magic, !.checksum = FALSE]
                <5>1. slots[target].magic \in BOOLEAN
                    BY <3>1 DEF Record
                <5>2. record \in Record /\ ~record.checksum
                    BY <4>2, <5>1, <3>1 DEF Record
                <5> QED BY <5>2, <2>2
            <4> QED BY <3>2, <4>1, <4>2 DEF TornHeaders
        <3>3. CASE record \in TornRecords(slots[target])
            <4>1. record \in Record /\ ~record.checksum
                BY <3>3, <3>1, <1>1 DEF TornRecords, Record
            <4> QED BY <4>1, <2>2
        <3> QED BY <2>1, <2>4, <3>2, <3>3 DEF Written
    <2>5. CASE outcome \notin {"lost", "torn"}
        BY <2>1, <2>2, <2>5 DEF Written
    <2> QED BY <2>3, <2>4, <2>5
<1>5. slots' \in [Slots -> Record]
    <2>1. slots' = slots \/ new \in Record
        BY <1>1, <1>4
    <2>2. \E record : slots' = [slots EXCEPT ![target] = record]
        BY DEF WriteRecord
    <2> QED BY <2>1, <2>2, <1>1
<1>6. TypeOK'
    BY <1>5 DEF IInv, TypeOK, WriteRecord
<1>7. Acceptable' = Acceptable /\ next.password \in Acceptable /\ attempts' # {}
    BY <1>2 DEF WriteRecord, Acceptable
<1>8. Chosen' \in {target, Other(target)} /\ Active' \in {target, Other(target)}
    BY <1>1 DEF Chosen, Active, Other, Slots
<1>9. ASSUME slots' = slots PROVE RecordsSound'
    BY <1>9, <1>7 DEF IInv, RecordsSound, Chosen, Active, GenerationOf, record_valid,
                      ChangeSound, WriteRecord
<1>10. ASSUME new = next PROVE RecordsSound'
    <2>1. slots'[Chosen'].password \in Acceptable
        BY <1>10, <1>2, <1>3, <1>7, <1>8
    <2>2. slots'[Active'].password \in Acceptable
        BY <1>10, <1>2, <1>3, <1>7, <1>8
    <2>3. record_valid(slots'[Active'])
        BY <1>10, <1>2, <1>3, <1>8 DEF record_valid
    <2> QED BY <2>1, <2>2, <2>3, <1>7 DEF RecordsSound, record_valid
<1>11. ASSUME ~new.checksum PROVE RecordsSound'
    <2>2. slots'[Chosen'].password \in Acceptable \/ ~record_valid(slots'[Chosen'])
        BY <1>11, <1>2, <1>3, <1>8 DEF record_valid
    <2>3. Active' = Other(target)
        BY <1>11, <1>1, <1>2, <1>3 DEF Active, record_valid, Other, Slots
    <2> QED BY <2>2, <2>3, <1>2, <1>3, <1>7 DEF RecordsSound, record_valid
<1>12. RecordsSound'
    BY <1>4, <1>9, <1>10, <1>11
<1>13. ChangeSound'
    <2>1. Other(target)' = Other(target) /\ next' = next
        BY DEF Other, WriteRecord
    <2>2. (slots[Other(target)])' = kept
        BY <2>1, <1>3
    <2>3. record_valid(slots[Other(target)])'
        BY <2>2, <1>2 DEF record_valid
    <2>4. next'.password \in attempts'
        BY <1>2 DEF WriteRecord
    <2> QED BY <2>1, <2>2, <2>3, <2>4, <1>2, <1>7 DEF ChangeSound
<1> QED BY <1>6, <1>12, <1>13 DEF IInv

(* The read-back: a record that is what was meant is the newest valid one,   *)
(* so that both rules pick it from now on.                                   *)
LEMMA ReadBackIInv ==
    ASSUME IInv, ReadBack
    PROVE  IInv'
<1>1. target \in Slots /\ next \in Record /\ slots \in [Slots -> Record]
    BY DEF IInv, TypeOK
<1>2. /\ next.password \in attempts
      /\ record_valid(slots[Other(target)])
      /\ slots[Other(target)].generation < next.generation
    BY DEF IInv, ChangeSound, ReadBack
<1>3. next.password \in Passwords
    BY <1>2 DEF IInv, TypeOK
<1>4. TypeOK'
    BY <1>3 DEF IInv, TypeOK, ReadBack
<1>5. ChangeSound'
    BY DEF ReadBack, ChangeSound
<1>6. CASE UNCHANGED <<acknowledged, attempts>>
    BY <1>4, <1>5, <1>6, RecordsUntouched DEF IInv, ReadBack
<1>7. CASE /\ record_valid(slots[target])
           /\ slots[target].generation = next.generation
           /\ slots[target].password = next.password
           /\ quanta_account_verify(next.password)
           /\ acknowledged' = next.password /\ attempts' = {}
    <2>1. /\ slots[1].generation \in Nat /\ slots[2].generation \in Nat
          /\ slots[target].generation \in Nat /\ slots[Other(target)].generation \in Nat
        BY <1>1, TwoSlots DEF Slots, Record
    <2>2. Active = target
        BY <1>1, <1>2, <1>7, <2>1 DEF Active, record_valid, Other, Slots
    <2>3. UNCHANGED <<slots, Chosen, Active>>
        BY DEF ReadBack, Chosen, Active, GenerationOf, record_valid
    <2>4. slots[Chosen].password = next.password /\ Chosen = Active
        <3>1. Chosen = target
            BY <1>1, <1>2, <1>7, <2>1 DEF Chosen, GenerationOf, record_valid, Other, Slots
        <3> QED BY <3>1, <2>2, <1>7 DEF quanta_account_verify
    <2>5. quanta_account_verify(acknowledged)'
        BY <1>7, <2>3 DEF quanta_account_verify, GenerationOf
    <2>6. RecordsSound'
        BY <1>7, <2>2, <2>3, <2>4, <2>5 DEF RecordsSound, Acceptable, record_valid
    <2> QED BY <1>4, <1>5, <2>6 DEF IInv
<1> QED BY <1>6, <1>7 DEF ReadBack

LEMMA StepIInv == IInv /\ [Next]_vars => IInv'
<1> SUFFICES ASSUME IInv, [Next]_vars PROVE IInv'
    OBVIOUS
<1>1. ASSUME NEW password \in Passwords, AuthVerify(password) PROVE IInv'
    <2>1. TypeOK' /\ ChangeSound'
        BY <1>1 DEF IInv, TypeOK, ChangeSound, AuthVerify
    <2> QED BY <1>1, <2>1, RecordsUntouched DEF IInv, AuthVerify
<1>2. ASSUME NEW password \in Passwords, AuthChange(password) PROVE IInv'
    BY <1>2, AuthChangeIInv
<1>3. CASE SessionLogout
    <2>1. TypeOK' /\ ChangeSound'
        BY <1>3 DEF IInv, TypeOK, ChangeSound, SessionLogout
    <2> QED BY <1>3, <2>1, RecordsUntouched DEF IInv, SessionLogout
<1>4. ASSUME NEW outcome \in Outcomes, WriteRecord(outcome) PROVE IInv'
    BY <1>4, WriteRecordIInv
<1>5. CASE ReadBack
    BY <1>5, ReadBackIInv
<1>6. CASE Crash
    <2>1. TypeOK' /\ ChangeSound'
        BY <1>6 DEF IInv, TypeOK, ChangeSound, Crash
    <2> QED BY <1>6, <2>1, RecordsUntouched DEF IInv, Crash
<1>7. CASE UNCHANGED vars
    <2>1. TypeOK'
        BY <1>7 DEF IInv, TypeOK, vars
    <2>2. ChangeSound'
        BY <1>7 DEF IInv, ChangeSound, Acceptable, record_valid, vars
    <2> QED BY <1>7, <2>1, <2>2, RecordsUntouched DEF IInv, vars
<1> QED BY <1>1, <1>2, <1>3, <1>4, <1>5, <1>6, <1>7 DEF Next

(* The invariant holds in every state the account store can reach.           *)
THEOREM Inductive == Spec => []IInv
<1>1. Init => IInv
    BY InitIInv
<1>2. IInv /\ [Next]_vars => IInv'
    BY StepIInv
<1> QED BY <1>1, <1>2, PTL DEF Spec

(* Every variable of the account store keeps its type.                       *)
THEOREM TypeCorrect == Spec => []TypeOK
<1>1. IInv => TypeOK
    BY DEF IInv
<1> QED BY <1>1, Inductive, PTL

(* One slot holds a valid record, wherever a change is interrupted.          *)
THEOREM AlwaysValid == Spec => []SlotAlwaysValid
<1>1. IInv => SlotAlwaysValid
    BY Picked DEF IInv, RecordsSound, SlotAlwaysValid
<1> QED BY <1>1, Inductive, PTL

(* The acknowledged password, and no other, opens the session until another  *)
(* change is tried; after that a superseded one does only from a torn        *)
(* record.                                                                   *)
THEOREM InForce == Spec => []PasswordInForce
<1>1. IInv => PasswordInForce
    BY DEF IInv, RecordsSound, Acceptable, PasswordInForce, quanta_account_verify
<1> QED BY <1>1, Inductive, PTL

=============================================================================
