---------------------------- MODULE Sio0Devices ----------------------------
(***************************************************************************)
(* The devices on the first serial port (Sio0Devices of sio.rs, sio/       *)
(* controllers.rs, sio/memcard.rs): digital controllers and DualShocks on  *)
(* both ports, a memory card on the first.  One step exchanges one byte    *)
(* with the selected device, which answers and says whether it goes on;    *)
(* between two bytes the user changes the inputs, the main loop saves the  *)
(* card, and software may select again.  SerialPort models when bytes are  *)
(* exchanged.                                                              *)
(*                                                                         *)
(* Abstractions.  Buttons and sticks of one moment are one value.  Bytes   *)
(* whose value no property needs (constants of the configuration commands, *)
(* the rumble configuration, the second identification byte) are "other".  *)
(***************************************************************************)
EXTENDS Integers, Sequences

CONSTANTS
  Inputs,             \* what the buttons and sticks of a controller can show
  InitialInputs,      \* no button pressed
  ControllerTypes(_), \* what the user may plug into a port, of "None", "Digital", "DualShock"
  SectorLen,          \* bytes of a memory card sector, 128
  Sectors,            \* the sectors that the addresses sent by the host stand for
  HostBytes(_)        \* the bytes the host sends to a device in some state

VARIABLES
  selected,   \* selected_port
  active,     \* active_device
  reply,      \* the byte received last
  pads,       \* p1_joypad_state and p2_joypad_state
  last,       \* last_p1_analog_button and last_p1_controller_type
  shock,      \* p1_dualshock_state
  card,       \* memory_card_1
  file,       \* the saved card
  talk,       \* history: the conversation since the port was selected
  configured, \* history: the analog mode software last set, or saw when it entered config mode
  confirmed   \* history: the sectors whose last write was confirmed, as the host sent them

vars == <<selected, active, reply, pads, last, shock, card, file, talk, configured, confirmed>>

Hex(high, low) == 16 * high + low

\* The exclusive or of two bytes, bit by bit.
Differ(m, n, bit) == IF (m \div bit) % 2 = (n \div bit) % 2 THEN 0 ELSE bit
Xor(m, n) ==
  Differ(m, n, 1) + Differ(m, n, 2) + Differ(m, n, 4) + Differ(m, n, 8)
    + Differ(m, n, 16) + Differ(m, n, 32) + Differ(m, n, 64) + Differ(m, n, 128)

Ports == {"One", "Two"}

\* The byte a device answers: a number, a part of its inputs, or one no property needs.
Byte(n) == [part |-> "byte", value |-> n]
ShowsCurrent(part, d) == [part |-> part, inputs |-> pads[selected].inputs]
Shows(part, d) == [part |-> part, inputs |-> d.inputs]
Other == [part |-> "other"]

\* SerialDevice
Unselected == [kind |-> "Unselected"]
NoDevice == [kind |-> "NoDevice"]
Disconnected == [kind |-> "Disconnected"]

DefaultShock == [mode |-> "Normal", analog_mode |-> "Digital", locked |-> FALSE,
                 config_mode_entered |-> FALSE, analog_mode_changed |-> FALSE]

\* A controller holds the inputs of the moment it was connected.
Controller(kind, inputs) == [kind |-> kind, step |-> "IdLow", inputs |-> inputs]
InitialCard == [kind |-> "MemoryCard", step |-> "AwaitingCommand", sector |-> 0, checksum |-> 0]

\* connect
Connect(tx, port) ==
  CASE tx = Hex(0, 1) /\ pads[port].type # "None" -> Controller(pads[port].type, pads[port].inputs)
    [] tx = Hex(8, 1) /\ port = "One" -> InitialCard
    [] OTHER -> NoDevice

Silence == [announced |-> 0, sent |-> 0, seen |-> {}, at_connect |-> {}, disturbed |-> FALSE,
            sum |-> 0, data |-> <<>>]

Init ==
  /\ selected = "One" /\ active = Unselected /\ reply = Byte(0)
  /\ pads = [p \in Ports |-> [type |-> IF p = "One" THEN "Digital" ELSE "None",
                              inputs |-> InitialInputs, analog_button |-> FALSE]]
  /\ last = [analog_button |-> FALSE, type |-> "Digital"]
  /\ shock = DefaultShock
  /\ card = [written_since_load |-> FALSE, dirty |-> TRUE,
             data |-> [s \in Sectors |-> [i \in 0 .. SectorLen - 1 |-> 0]]]
  /\ file = card.data
  /\ talk = Silence /\ configured = "Digital" /\ confirmed = {}
-----------------------------------------------------------------------------
\* What exchanging a byte leads to.
Answer(byte, device) == [reply |-> byte, device |-> device, shock |-> shock, card |-> card]
Goes(device, step) == [device EXCEPT !.step = step]
Counts(device, step, n) == [k \in DOMAIN device \union {"left"} |->
                              CASE k = "step" -> step [] k = "left" -> n
                                [] OTHER -> device[k]]

\* DigitalController::process
Digital(d, tx) ==
  CASE d.step = "IdLow" ->
         Answer(Byte(Hex(4, 1)), IF tx = Hex(4, 2) THEN Goes(d, "IdHigh") ELSE Disconnected)
    [] d.step = "IdHigh" -> Answer(Byte(Hex(5, 10)), Goes(d, "InputsLow"))
    [] d.step = "InputsLow" -> Answer(Shows("low", d), Goes(d, "InputsHigh"))
    [] d.step = "InputsHigh" -> Answer(Shows("high", d), Disconnected)

\* DualShock::process, the first byte: $43 enters or leaves config mode, the other commands
\* exist in config mode only.
IdLow == CASE shock.mode = "Config" -> Hex(15, 3)
           [] shock.mode = "Normal" /\ shock.analog_mode = "Analog" -> Hex(7, 3)
           [] shock.mode = "Normal" /\ shock.analog_mode = "Digital" -> Hex(4, 1)
ConfigCommands == {Hex(4, 3), Hex(4, 4), Hex(4, 5), Hex(4, 6), Hex(4, 7), Hex(4, 12), Hex(4, 13)}

ShockCommand(d, tx) ==
  CASE tx = Hex(4, 2) \/ (tx = Hex(4, 3) /\ shock.mode = "Normal") ->
         Goes(d, IF tx = Hex(4, 3) THEN "IdHighEntering" ELSE "IdHigh")
    [] tx \in ConfigCommands /\ shock.mode = "Config" ->
         Goes(d, CASE tx = Hex(4, 3) -> "ConfigIdMode" [] tx = Hex(4, 4) -> "ConfigIdLed"
                   [] OTHER -> "ConfigIdOther")
    [] OTHER -> Disconnected

EnterConfig == [shock EXCEPT !.mode = "Config", !.analog_mode_changed = FALSE,
                             !.config_mode_entered = TRUE]
SendsAnalog(s) == s.mode = "Config" \/ s.analog_mode = "Analog"

\* Buttons are sent first; whether sticks follow is decided before config mode is entered.
ShockButtonsLate(d, tx) ==
  LET enters == d.step = "LowEntering" /\ tx = Hex(0, 1)
      state  == IF enters THEN EnterConfig ELSE shock
  IN [Answer(Shows("low", d), Goes(d, IF SendsAnalog(state) THEN "HighAnalog" ELSE "High"))
      EXCEPT !.shock = state]

ShockButtons(d, tx) ==
  LET enters == d.step = "LowEntering" /\ tx = Hex(0, 1)
  IN [Answer(Shows("low", d), Goes(d, IF SendsAnalog(shock) THEN "HighAnalog" ELSE "High"))
      EXCEPT !.shock = IF enters THEN EnterConfig ELSE shock]

\* Some more bytes without effect.
Rest(d, part) ==
  Answer(IF part = "stick" THEN Shows("stick", d) ELSE Other,
         IF d.left > 1 THEN [d EXCEPT !.left = @ - 1] ELSE Disconnected)

DualShock(d, tx) ==
  CASE d.step = "IdLow" -> Answer(Byte(IdLow), ShockCommand(d, tx))
    [] d.step \in {"IdHigh", "IdHighEntering"} ->
         Answer(Byte(IF shock.analog_mode_changed /\ shock.config_mode_entered THEN 0 ELSE Hex(5, 10)),
                Goes(d, IF d.step = "IdHigh" THEN "Low" ELSE "LowEntering"))
    [] d.step = "ConfigIdMode" -> Answer(Byte(Hex(5, 10)), Goes(d, "ModeChange"))
    [] d.step = "ConfigIdLed" -> Answer(Byte(Hex(5, 10)), Goes(d, "Led"))
    [] d.step = "ConfigIdOther" -> Answer(Byte(Hex(5, 10)), Counts(d, "Zeroes", 6))
    [] d.step \in {"Low", "LowEntering"} -> ShockButtons(d, tx)
    [] d.step = "High" -> Answer(Shows("high", d), Disconnected)
    [] d.step = "HighAnalog" -> Answer(Shows("high", d), Counts(d, "Sticks", 4))
    [] d.step = "Sticks" -> Rest(d, "stick")
    [] d.step = "ModeChange" ->
         [Answer(Other, Counts(d, "Zeroes", 5))
          EXCEPT !.shock.mode = IF tx = 0 THEN "Normal" ELSE @]
    [] d.step = "Led" ->
         [Answer(Other, Goes(d, "LedLock"))
          EXCEPT !.shock.analog_mode = CASE tx = 0 -> "Digital" [] tx = 1 -> "Analog"
                                         [] OTHER -> @]
    [] d.step = "LedLock" ->
         [Answer(Other, Counts(d, "Zeroes", 4)) EXCEPT !.shock.locked = tx % 4 = 3]
    [] d.step = "Zeroes" -> Rest(d, "other")
-----------------------------------------------------------------------------
\* ConnectedMemoryCard::process, up to the address
CardCommand(d, tx) ==
  CASE tx = Hex(5, 2) -> [d EXCEPT !.step = "SendingId1Read"]
    [] tx = Hex(5, 7) -> [d EXCEPT !.step = "SendingId1Write"]
    [] OTHER -> Disconnected

High(sector) == sector \div 256
LowByte(sector) == sector % 256
WithSectorUnsummed(d, sector, step) == Counts([d EXCEPT !.sector = sector], step, SectorLen)
WithSector(d, sector, step) ==
  Counts([d EXCEPT !.sector = sector,
                   !.checksum = Xor(Xor(@, High(sector)), LowByte(sector))], step, SectorLen)

\* memory_card_address within the sector
Offset(d) == SectorLen - d.left

SendByte(d) ==
  LET byte == card.data[d.sector][Offset(d)]
      next == [d EXCEPT !.checksum = Xor(@, byte)]
  IN Answer(Byte(byte), IF d.left = 1 THEN Goes(next, "SendingChecksum")
                  ELSE [next EXCEPT !.left = @ - 1])

\* A byte is stored when it arrives, the card is dirty when the last one has.
ReceiveByteUnmarked(d, tx) ==
  LET next == [d EXCEPT !.checksum = Xor(@, tx)]
  IN [Answer(Other, IF d.left = 1 THEN Goes(next, "ReceivingChecksum")
                      ELSE [next EXCEPT !.left = @ - 1])
      EXCEPT !.card.data[d.sector][Offset(d)] = tx,
             !.card.dirty = @ \/ d.left = SectorLen,
             !.card.written_since_load = @ \/ d.left = SectorLen]

ReceiveByte(d, tx) ==
  LET next == [d EXCEPT !.checksum = Xor(@, tx)]
  IN [Answer(Other, IF d.left = 1 THEN Goes(next, "ReceivingChecksum")
                      ELSE [next EXCEPT !.left = @ - 1])
      EXCEPT !.card.data[d.sector][Offset(d)] = tx,
             !.card.dirty = @ \/ d.left = 1,
             !.card.written_since_load = @ \/ d.left = 1]

MemoryCard(d, tx) ==
  CASE d.step = "AwaitingCommand" ->
         Answer(Byte(IF card.written_since_load THEN 0 ELSE 8), CardCommand(d, tx))
    [] d.step = "SendingId1Read" -> Answer(Byte(Hex(5, 10)), Goes(d, "SendingId2Read"))
    [] d.step = "SendingId1Write" -> Answer(Byte(Hex(5, 10)), Goes(d, "SendingId2Write"))
    [] d.step = "SendingId2Read" -> Answer(Byte(Hex(5, 13)), Goes(d, "AddressHighRead"))
    [] d.step = "SendingId2Write" -> Answer(Byte(Hex(5, 13)), Goes(d, "AddressHighWrite"))
    [] d.step = "AddressHighRead" ->
         Answer(Byte(0), [d EXCEPT !.sector = tx * 256, !.step = "AddressLowRead"])
    [] d.step = "AddressHighWrite" ->
         Answer(Byte(0), [d EXCEPT !.sector = tx * 256, !.step = "AddressLowWrite"])
    [] d.step = "AddressLowRead" ->
         Answer(Other, WithSector(d, (d.sector + tx) % 1024, "ReadAcking1"))
    [] d.step = "AddressLowWrite" ->
         Answer(Other, WithSector(d, (d.sector + tx) % 1024, "ReceivingData"))
    [] d.step = "ReadAcking1" -> Answer(Byte(Hex(5, 12)), Goes(d, "ReadAcking2"))
    [] d.step = "ReadAcking2" -> Answer(Byte(Hex(5, 13)), Goes(d, "ConfirmingHigh"))
    [] d.step = "ConfirmingHigh" -> Answer(Byte(High(d.sector)), Goes(d, "ConfirmingLow"))
    [] d.step = "ConfirmingLow" -> Answer(Byte(LowByte(d.sector)), Goes(d, "SendingData"))
    [] d.step = "SendingData" -> SendByte(d)
    [] d.step = "SendingChecksum" -> Answer(Byte(d.checksum), Goes(d, "SendingEnd"))
    [] d.step = "SendingEnd" -> Answer(Byte(Hex(4, 7)), Disconnected)
    [] d.step = "ReceivingData" -> ReceiveByte(d, tx)
    [] d.step = "ReceivingChecksum" ->
         Answer(Other, Goes(d, IF tx = d.checksum THEN "Acking1Ok" ELSE "Acking1Invalid"))
    [] d.step = "Acking1Ok" -> Answer(Byte(Hex(5, 12)), Goes(d, "Acking2Ok"))
    [] d.step = "Acking1Invalid" -> Answer(Byte(Hex(5, 12)), Goes(d, "Acking2Invalid"))
    [] d.step = "Acking2Ok" -> Answer(Byte(Hex(5, 13)), Goes(d, "EndOk"))
    [] d.step = "Acking2Invalid" -> Answer(Byte(Hex(5, 13)), Goes(d, "EndInvalid"))
    [] d.step = "EndOk" -> Answer(Byte(Hex(4, 7)), Disconnected)
    [] d.step = "EndInvalid" -> Answer(Byte(Hex(4, 14)), Disconnected)
-----------------------------------------------------------------------------
\* process_tx_write of the port, and of the devices
Exchange(tx) ==
  CASE active.kind = "Unselected" -> Answer(Byte(0), Connect(tx, selected))
    [] active.kind = "NoDevice" -> Answer(Byte(0), NoDevice)
    [] active.kind = "Disconnected" -> Answer(reply, Disconnected)
    [] active.kind = "Digital" -> Digital(active, tx)
    [] active.kind = "DualShock" -> DualShock(active, tx)
    [] active.kind = "MemoryCard" -> MemoryCard(active, tx)

\* Histories.  A conversation with a controller announces a number of halfwords in its first
\* byte, which follow the second; data is what is written to the card, sum the exclusive or
\* of what the checksum covers, as the host knows it.
Halfwords(id) == CASE id = Hex(4, 1) -> 1 [] id \in {Hex(7, 3), Hex(15, 3)} -> 3 [] OTHER -> 0
IsId(d) == d.kind \in {"Digital", "DualShock"} /\ d.step = "IdLow"
IsIdHigh(d) ==
  d.step \in {"IdHigh", "IdHighEntering", "ConfigIdMode", "ConfigIdLed", "ConfigIdOther"}

TalkOf(tx, r) ==
  LET d == active
  IN CASE d.kind = "Unselected" /\ r.device.kind \in {"Digital", "DualShock"} ->
            [talk EXCEPT !.at_connect = {r.device.inputs}]
       [] d.kind \in {"Digital", "DualShock"} ->
            IF IsId(d) THEN [talk EXCEPT !.announced = Halfwords(r.reply.value)]
            ELSE IF IsIdHigh(d) THEN talk
            ELSE [talk EXCEPT !.sent = @ + 1,
                              !.seen = IF r.reply.part # "other" THEN @ \union {r.reply.inputs} ELSE @]
       [] d.kind = "MemoryCard" ->
            CASE d.step \in {"ConfirmingHigh", "ConfirmingLow", "SendingData", "SendingChecksum"} ->
                   [talk EXCEPT !.sum = Xor(@, r.reply.value)]
              [] d.step \in {"AddressHighWrite", "AddressLowWrite", "ReceivingChecksum"} ->
                   [talk EXCEPT !.sum = Xor(@, tx)]
              [] d.step = "ReceivingData" ->
                   [talk EXCEPT !.sum = Xor(@, tx), !.data = Append(@, tx)]
              [] OTHER -> talk
       [] OTHER -> talk

\* A sector stops being confirmed when a write to it begins.
ConfirmedBy(r) ==
  CASE active.kind = "MemoryCard" /\ active.step = "EndOk" ->
         confirmed \union {[sector |-> active.sector, data |-> talk.data]}
    [] active.kind = "MemoryCard" /\ active.step = "ReceivingData" ->
         {c \in confirmed : c.sector # active.sector}
    [] OTHER -> confirmed

\* Software enters config mode, or sets the analog mode in it.
SetsMode(r) ==
  active.kind = "DualShock" /\ (active.step = "Led" \/ (shock.mode = "Normal" /\ r.shock.mode = "Config"))

HostSends(tx) ==
  LET r == Exchange(tx)
  IN /\ tx \in HostBytes(active)
     /\ active' = r.device /\ reply' = r.reply /\ shock' = r.shock /\ card' = r.card
     /\ talk' = TalkOf(tx, r)
     /\ configured' = IF SetsMode(r) THEN r.shock.analog_mode ELSE configured
     /\ confirmed' = ConfirmedBy(r)
     /\ UNCHANGED <<selected, pads, last, file>>

\* write_control: the port is deselected, or the other one selected.
HostSelects(port) ==
  /\ active # Unselected \/ selected # port
  /\ selected' = port /\ active' = Unselected /\ talk' = Silence
  /\ UNCHANGED <<reply, pads, last, shock, card, file, configured, confirmed>>
-----------------------------------------------------------------------------
\* DualShockControllerState::toggle_analog_mode
ToggledUnlessConfig(s) ==
  IF s.locked THEN s
  ELSE [s EXCEPT !.analog_mode = IF @ = "Digital" THEN "Analog" ELSE "Digital",
                 !.analog_mode_changed = s.mode = "Normal"]

Toggled(s) ==
  IF s.locked THEN s
  ELSE [s EXCEPT !.analog_mode = IF @ = "Digital" THEN "Analog" ELSE "Digital",
                 !.analog_mode_changed = TRUE]

\* set_inputs, for each port
PressedAnalog(pad) == ~last.analog_button /\ pad.analog_button /\ pad.type = "DualShock"

SetInputs1(pad) ==
  LET fresh == IF last.type # pad.type THEN DefaultShock ELSE shock
      s     == IF PressedAnalog(pad) THEN Toggled(fresh) ELSE fresh
  IN /\ pads' = [pads EXCEPT !["One"] = pad]
     /\ last' = [analog_button |-> pad.analog_button, type |-> pad.type]
     /\ shock' = s
     /\ talk' = IF s.mode # shock.mode \/ s.analog_mode # shock.analog_mode
                THEN [talk EXCEPT !.disturbed = TRUE] ELSE talk
     /\ UNCHANGED <<selected, active, reply, card, file, configured, confirmed>>

\* The analog button of the second controller is stored and never read.
SetInputs2(pad) ==
  /\ ~pad.analog_button
  /\ pads' = [pads EXCEPT !["Two"] = pad]
  /\ UNCHANGED <<selected, active, reply, last, shock, card, file, talk, configured, confirmed>>

\* render_frame saves a dirty card.
SaveCard ==
  /\ card.dirty
  /\ card' = [card EXCEPT !.dirty = FALSE]
  /\ file' = card.data
  /\ UNCHANGED <<selected, active, reply, pads, last, shock, talk, configured, confirmed>>

Pads(types) == [type: types, inputs: Inputs, analog_button: BOOLEAN]

Next ==
  \/ \E tx \in HostBytes(active) : HostSends(tx)
  \/ \E port \in Ports : HostSelects(port)
  \/ \E pad \in Pads(ControllerTypes("One")) : SetInputs1(pad)
  \/ \E pad \in Pads(ControllerTypes("Two")) : SetInputs2(pad)
  \/ SaveCard

Spec == Init /\ [][Next]_vars
-----------------------------------------------------------------------------
TypeOK ==
  /\ selected \in Ports
  /\ active.kind \in {"Unselected", "NoDevice", "Disconnected", "Digital", "DualShock", "MemoryCard"}
  /\ active.kind = "MemoryCard" => active.sector \in 0 .. 1023 \union {1024}
  /\ pads \in [Ports -> Pads({"None", "Digital", "DualShock"})]
  /\ shock \in [mode: {"Normal", "Config"}, analog_mode: {"Digital", "Analog"}, locked: BOOLEAN,
                config_mode_entered: BOOLEAN, analog_mode_changed: BOOLEAN]
  /\ DOMAIN card.data = Sectors /\ DOMAIN file = Sectors

\* A controller sends as many halfwords as its identification announced, in every mode and
\* across a change of mode by software, unless the user presses the analog button or plugs
\* in another controller in the middle of it.
LengthAsAnnounced ==
  ~talk.disturbed =>
    /\ talk.sent <= 2 * talk.announced
    /\ active.kind = "Disconnected" /\ talk.sent > 0 => talk.sent = 2 * talk.announced

\* All bytes of one conversation show the buttons and sticks of the moment it began.
InputsAreOneSnapshot == talk.seen \subseteq talk.at_connect

\* A game that configured a DualShock learns of a change of analog mode that it did not ask
\* for: as long as the mode is another one than the game last set or saw, the controller
\* answers 0 for the second byte ("to signal to games that they may need to reconfigure the
\* controller", controllers.rs:217).
ModeChangeIsSignalled ==
  shock.config_mode_entered /\ shock.analog_mode # configured => shock.analog_mode_changed

\* A write that the card confirmed is in the card as the host sent it, and in the file or
\* going to be, until a write to the same sector begins.
ConfirmedWritesAreKept ==
  \A c \in confirmed : \A i \in 1 .. SectorLen :
    /\ Len(c.data) = SectorLen
    /\ card.data[c.sector][i - 1] = c.data[i]
    /\ card.dirty \/ file[c.sector][i - 1] = c.data[i]

\* The checksum the card sends covers the address and the data it sent, and a write to an
\* address inside the card is confirmed only when the bytes the host sent add up.
ChecksumsAgree ==
  active.kind = "MemoryCard" /\ active.step \in {"SendingEnd", "EndOk"} => talk.sum = 0
=============================================================================
