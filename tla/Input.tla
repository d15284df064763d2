--------------------------------- MODULE Input ---------------------------------
(***************************************************************************)
(* Keyboard and mouse behind the PS/2 controller, kernel/arch/x86_64/       *)
(* tables.c: ps2_mouse_initialize at boot, then the polling of              *)
(* quanta_arch_console_read_char, which reads the status register twice a   *)
(* call, first for the mouse and then for the keyboard.                     *)
(*                                                                          *)
(* The controller has one output buffer for both devices.  It is filled by  *)
(* a device or by an answer to a command at any moment it is empty, and     *)
(* emptied only by the processor's read, so that a status read and the data *)
(* read after it are one step, and the two status reads of a call are two.  *)
(* A byte is its value: a byte of a packet may look like the first one, like *)
(* a key or like an acknowledge.  The pointer is followed along one axis.   *)
(***************************************************************************)
EXTENDS Integers, Sequences

CONSTANTS Keys,         \* the codes the keyboard sends
          Flags,        \* first bytes of a packet
          Motions,      \* second and third bytes
          Configs,      \* configuration bytes the firmware may leave
          ScreenWidth,  \* of the screen, framebuffer_width
          MaxAttempts   \* polls before a wait is given up (100000 in the code)

Byte == 0..255
NoByte == -1
Ack == 250
Bit(value, mask) == (value \div mask) % 2 = 1

(* Seeded fault: the keyboard, turned off for the exchange, is not turned on *)
(* again.                                                                    *)
FaultyWith(value, mask) == IF Bit(value, 16) THEN value ELSE value + 16

With(value, mask) == IF Bit(value, mask) THEN value ELSE value + mask
Without(value, mask) == IF Bit(value, mask) THEN value - mask ELSE value

ASSUME InputAssumption ==
    /\ Keys \subseteq Byte
    /\ Configs \subseteq {c \in Byte : ~Bit(c, 16)}
    /\ Flags \subseteq {b \in Byte : Bit(b, 8)}
    /\ Motions \subseteq Byte
    /\ ScreenWidth \in Nat \ {0} /\ MaxAttempts \in Nat \ {0}

(* What ps2_mouse_initialize writes, in order, and where it waits for an     *)
(* answer in between.                                                        *)
Script == <<"enable_port", "ask_config", "read_config", "set_config", "config",
            "to_mouse", "defaults", "acknowledged", "to_mouse", "report", "acknowledged">>
Polling == Len(Script) + 1
Packet == [flags : Flags, dx : Motions, dy : Motions]
Still == [flags |-> CHOOSE f \in Flags : TRUE, dx |-> 0, dy |-> 0]
Mouse == [present : BOOLEAN, reports : BOOLEAN, owes : BOOLEAN,
          packet : Packet \union {Still}, sent : 0..3]

VARIABLES
    buffer,        \* the output buffer: a byte and whether the mouse sent it
    input,         \* the input buffer: what the processor wrote last, until taken
    addressee,     \* who gets the next data byte written: "none", "config", "mouse"
    config,        \* the controller's configuration byte
    answer,        \* configuration byte asked for and not yet in the buffer
    mouse,         \* the device: what it is sending and how far it got
    step,          \* the place in Script, or Polling
    attempts,      \* polls of the wait in progress
    response,      \* local of ps2_mouse_initialize
    mouse_ready, mouse_packet, mouse_x, mouse_buttons, shift_down, alt_down,
    poll,          \* which status read of the call comes next
    stolen,        \* history: a mouse byte was taken for a key
    mistaken,      \* history: a key was taken for the configuration byte
    misread        \* history: a byte of a packet was taken for an acknowledge

controller == <<buffer, input, addressee, config, answer>>
starting == <<step, attempts, response>>
driver == <<mouse_ready, mouse_packet, mouse_x, mouse_buttons, shift_down, alt_down, poll>>
histories == <<stolen, mistaken, misread>>
inputVars == <<controller, mouse, starting, driver, histories>>

Empty == [byte |-> NoByte, aux |-> FALSE]

Clamped(x) == IF x < 0 THEN 0 ELSE IF x >= ScreenWidth THEN ScreenWidth - 1 ELSE x
Signed(byte) == IF byte < 128 THEN byte ELSE byte - 256
Buttons(flags) == flags % 8

InputTypeOK ==
    /\ buffer \in [byte : Byte, aux : BOOLEAN] \union {Empty}
    /\ input \in {Script[s] : s \in DOMAIN Script} \union {"none"}
    /\ addressee \in {"none", "config", "mouse"}
    /\ config \in Byte /\ answer \in Byte \union {NoByte} /\ response \in Byte
    /\ mouse \in Mouse
    /\ step \in 1..Polling /\ attempts \in 0..MaxAttempts - 1
    /\ mouse_ready \in BOOLEAN /\ shift_down \in BOOLEAN /\ alt_down \in BOOLEAN
    /\ mouse_packet \in Seq(Byte) /\ Len(mouse_packet) < 3
    /\ mouse_x \in 0..ScreenWidth - 1 /\ mouse_buttons \in 0..7
    /\ poll \in {"mouse", "keyboard"}
    /\ stolen \in BOOLEAN /\ mistaken \in BOOLEAN /\ misread \in BOOLEAN

(* The firmware leaves the keyboard working, and the mouse absent, silent or *)
(* reporting.                                                                *)
InputInit ==
    /\ buffer = Empty /\ input = "none" /\ addressee = "none" /\ answer = NoByte
    /\ config \in Configs
    /\ mouse \in [present : BOOLEAN, reports : BOOLEAN, owes : {FALSE},
                  packet : {Still}, sent : {0}]
    /\ step = 1 /\ attempts = 0 /\ response = 0
    /\ mouse_ready = FALSE /\ mouse_packet = <<>>
    /\ mouse_x = ScreenWidth \div 2 /\ mouse_buttons = 0
    /\ shift_down = FALSE /\ alt_down = FALSE
    /\ poll = "mouse" /\ stolen = FALSE /\ mistaken = FALSE /\ misread = FALSE

-----------------------------------------------------------------------------
(* The devices.  A key is pressed or released: the code waits in the buffer. *)
KeySent(code) ==
    /\ buffer = Empty /\ ~Bit(config, 16)
    /\ buffer' = [byte |-> code, aux |-> FALSE]
    /\ UNCHANGED <<input, addressee, config, answer, mouse, starting, driver, histories>>

(* The next byte of a packet; the first one is sent when the mouse is moved. *)
ByteOf(packet, n) == CASE n = 1 -> packet.flags [] n = 2 -> packet.dx [] OTHER -> packet.dy
MouseSent(packet) ==
    /\ buffer = Empty /\ ~Bit(config, 32)
    /\ mouse.present /\ mouse.reports /\ ~mouse.owes
    /\ mouse.sent \in {1, 2} => packet = mouse.packet
    /\ LET n == (mouse.sent % 3) + 1 IN
           /\ mouse' = [mouse EXCEPT !.packet = packet, !.sent = n]
           /\ buffer' = [byte |-> ByteOf(packet, n), aux |-> TRUE]
    /\ UNCHANGED <<input, addressee, config, answer, starting, driver, histories>>

MouseAcknowledged ==
    /\ buffer = Empty /\ ~Bit(config, 32)
    /\ mouse.present /\ mouse.owes
    /\ mouse' = [mouse EXCEPT !.owes = FALSE]
    /\ buffer' = [byte |-> Ack, aux |-> TRUE]
    /\ UNCHANGED <<input, addressee, config, answer, starting, driver, histories>>

ConfigAnswered ==
    /\ buffer = Empty /\ answer # NoByte
    /\ buffer' = [byte |-> answer, aux |-> FALSE]
    /\ answer' = NoByte
    /\ UNCHANGED <<input, addressee, config, mouse, starting, driver, histories>>

(* The controller takes what the processor wrote.                            *)
ControllerTook ==
    /\ input # "none"
    /\ input' = "none"
    /\ addressee' = CASE input = "set_config" -> "config" [] input = "to_mouse" -> "mouse"
                      [] OTHER -> "none"
    /\ config' = CASE input = "enable_port" -> Without(config, 32)
                   [] input = "config" -> With(response, 2)
                   [] OTHER -> config
    /\ answer' = IF input = "ask_config" THEN config ELSE answer
    /\ mouse' = IF addressee = "mouse"
                THEN [mouse EXCEPT !.reports = input = "report", !.owes = TRUE, !.sent = 0]
                ELSE mouse
    /\ UNCHANGED <<buffer, starting, driver, histories>>

-----------------------------------------------------------------------------
(* ps2_mouse_initialize: each step waits a bounded number of polls.          *)
Writes(s) == Script[s] \notin {"read_config", "acknowledged"}

(* A byte from the device that was asked.                                    *)
Answered == buffer # Empty /\ buffer.aux = (Script[step] = "acknowledged")

Advance ==
    /\ attempts' = 0
    /\ step' = step + 1
    /\ mouse_ready' = (step' = Polling)

GiveUp ==
    /\ attempts' = 0
    /\ step' = Polling
    /\ UNCHANGED mouse_ready

Rest == <<mouse_packet, mouse_x, mouse_buttons, shift_down, alt_down, poll, stolen>>

(* ps2_wait_input_clear and the outb after it.                               *)
WriteNext ==
    /\ step < Polling /\ Writes(step) /\ input = "none"
    /\ input' = Script[step]
    /\ Advance
    /\ UNCHANGED <<buffer, addressee, config, answer, mouse, response, mistaken, misread, Rest>>

(* The answer to the command 0x20: the first byte that is not the mouse's.   *)
ReadConfig ==
    /\ step < Polling /\ Script[step] = "read_config" /\ Answered
    /\ response' = buffer.byte
    /\ mistaken' = (answer # NoByte \/ input # "none")
    /\ buffer' = Empty
    /\ Advance
    /\ UNCHANGED <<input, addressee, config, answer, mouse, misread, Rest>>

(* ps2_mouse_command: the first byte of the mouse's must be the acknowledge. *)
ReadAcknowledge ==
    /\ step < Polling /\ Script[step] = "acknowledged" /\ Answered
    /\ IF buffer.byte = Ack THEN Advance ELSE GiveUp
    /\ misread' = (misread \/ (buffer.byte = Ack /\ (input # "none" \/ mouse.owes)))
    /\ buffer' = Empty
    /\ UNCHANGED <<input, addressee, config, answer, mouse, response, mistaken, Rest>>

(* One more poll in vain.                                                    *)
Waited ==
    /\ step < Polling
    /\ IF Writes(step) THEN input # "none" ELSE ~Answered
    /\ IF attempts + 1 = MaxAttempts THEN GiveUp
       ELSE attempts' = attempts + 1 /\ UNCHANGED <<step, mouse_ready>>
    /\ UNCHANGED <<controller, mouse, response, mistaken, misread, Rest>>

-----------------------------------------------------------------------------
(* ps2_mouse_read_event with the third byte of a packet.                     *)
Applied(flags, dx, x) == IF Bit(flags, 64) \/ Bit(flags, 128) THEN x ELSE Clamped(x + Signed(dx))

(* Seeded fault: the call returns at once when the byte is from a mouse that *)
(* is not ready.                                                             *)
FaultyPollMouse ==
    /\ step = Polling /\ poll = "mouse"
    /\ poll' = IF buffer.aux /\ ~mouse_ready THEN "mouse" ELSE "keyboard"
    /\ UNCHANGED <<controller, mouse, starting, mouse_ready, mouse_packet, mouse_x,
                   mouse_buttons, shift_down, alt_down, histories>>

(* Seeded fault: a byte without bit 3 is taken for the first of a packet.    *)
FaultyBegins(byte) == TRUE

(* Only a byte with bit 3 begins a packet.                                   *)
Begins(byte) == Bit(byte, 8)

(* Seeded fault: the place in the packet is not reset after the third byte.  *)
FaultyPacketAfter(packet) == IF Len(packet) < 3 THEN packet ELSE SubSeq(packet, 1, 2)

(* The bytes kept of a packet: none once it is complete.                     *)
PacketAfter(packet) == IF Len(packet) < 3 THEN packet ELSE <<>>

(* The first status read of quanta_arch_console_read_char.  An event ends    *)
(* the call; anything else goes on to the keyboard.                          *)
PollMouse ==
    /\ step = Polling /\ poll = "mouse"
    /\ LET taken == buffer # Empty /\ buffer.aux
           used == taken /\ mouse_ready /\ (mouse_packet = <<>> => Begins(buffer.byte))
           packet == IF used THEN Append(mouse_packet, buffer.byte) ELSE mouse_packet
       IN  /\ buffer' = IF taken THEN Empty ELSE buffer
           /\ mouse_packet' = PacketAfter(packet)
           /\ IF Len(packet) = 3
              THEN /\ mouse_buttons' = Buttons(packet[1])
                   /\ mouse_x' = Applied(packet[1], packet[2], mouse_x)
              ELSE UNCHANGED <<mouse_buttons, mouse_x>>
           /\ poll' = IF <<mouse_buttons, mouse_x>>' # <<mouse_buttons, mouse_x>>
                      THEN "mouse" ELSE "keyboard"
    /\ UNCHANGED <<input, addressee, config, answer, mouse, starting, mouse_ready,
                   shift_down, alt_down, histories>>

(* The second status read: whatever is in the buffer is taken for a key.     *)
PollKeyboard ==
    /\ step = Polling /\ poll = "keyboard"
    /\ buffer' = Empty
    /\ shift_down' = IF buffer.byte \in {42, 54} THEN TRUE
                     ELSE IF buffer.byte \in {170, 182} THEN FALSE ELSE shift_down
    /\ alt_down' = IF buffer.byte = 56 THEN TRUE
                   ELSE IF buffer.byte = 184 THEN FALSE ELSE alt_down
    /\ stolen' = (stolen \/ buffer.aux)
    /\ poll' = "mouse"
    /\ UNCHANGED <<input, addressee, config, answer, mouse, starting, mouse_ready,
                   mouse_packet, mouse_x, mouse_buttons, mistaken, misread>>

Kernel == WriteNext \/ ReadConfig \/ ReadAcknowledge \/ Waited \/ PollMouse \/ PollKeyboard

InputNext ==
    \/ \E code \in Keys : KeySent(code)
    \/ \E packet \in Packet : MouseSent(packet)
    \/ MouseAcknowledged
    \/ ConfigAnswered
    \/ ControllerTook
    \/ Kernel

(* The kernel keeps polling: its waits are loops, and the session's main     *)
(* loop calls quanta_arch_console_read_char again and again.  Nothing is     *)
(* assumed of the devices: a controller may never answer.                    *)
InputSpec == InputInit /\ [][InputNext]_inputVars /\ WF_inputVars(Kernel)

-----------------------------------------------------------------------------
(* How many bytes of the packet in progress the processor has taken.         *)
Taken == (mouse.sent - (IF buffer.aux THEN 1 ELSE 0)) % 3
Aligned == Len(mouse_packet) = Taken

(* The driver loses its place in the mouse's packets in two ways only, by    *)
(* taking a mouse byte for a key and by having taken one for an acknowledge  *)
(* while it started: but for these the bytes it holds are the ones the mouse *)
(* has sent of the current packet, and none of them is a late acknowledge    *)
(* (ps2_mouse_command, ps2_mouse_read_event).                                *)
AlignedUnlessMisled ==
    mouse_ready /\ ~stolen /\ ~misread =>
        /\ Aligned
        /\ \A n \in 1..Len(mouse_packet) : mouse_packet[n] = ByteOf(mouse.packet, n)

(* The pointer moves and the buttons change only when a packet is complete,  *)
(* and then by what that packet says; only after a stolen byte or a mistaken *)
(* acknowledge can parts of two packets be combined, or an acknowledge with  *)
(* parts of one (ps2_mouse_read_event).                                      *)
AppliesWhatWasSent ==
    [][~stolen /\ ~misread /\ <<mouse_x, mouse_buttons>>' # <<mouse_x, mouse_buttons>> =>
          /\ mouse.sent = 3
          /\ mouse_buttons' = Buttons(mouse.packet.flags)
          /\ mouse_x' = Applied(mouse.packet.flags, mouse.packet.dx, mouse_x)]_inputVars

(* The configuration byte written back is the controller's own with the      *)
(* mouse's interrupt added, so that the keyboard stays on, unless a key that *)
(* was pressed in that moment was read in its place (ps2_mouse_initialize).  *)
KeyboardStaysOn == ~mistaken => ~Bit(config, 16)

(* Booting goes on whatever the controller and the mouse do or fail to do,   *)
(* since every wait of ps2_mouse_initialize ends; and no byte blocks the     *)
(* buffer, be it a key's, a mouse's that is not ready, or a late answer's:   *)
(* what waits is taken (quanta_arch_console_read_char).                      *)
NothingBlocks == <>(step = Polling) /\ (buffer # Empty ~> buffer = Empty)

(* A driver that lost its place finds it again: if from some time on no byte *)
(* is stolen and the mouse keeps reporting motions whose bytes cannot be     *)
(* taken for the first of a packet, it is aligned from some time on (bit 3   *)
(* in ps2_mouse_read_event).                                                 *)
Steals == PollKeyboard /\ buffer.aux
Realigns ==
    (/\ <>[][~Steals]_inputVars
     /\ <>[](~Bit(mouse.packet.dx, 8) /\ ~Bit(mouse.packet.dy, 8))
     /\ []<>(mouse.sent = 1) /\ []<>(mouse.sent = 3))
    => <>[](mouse_ready => Aligned)

=============================================================================
