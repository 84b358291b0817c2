---------------------------- MODULE MCPeripherals ----------------------------
(* Parts that share nothing, part says which one a behaviour is about:          *)
(* the first serial port, its controllers and its memory card ("port",          *)
(* "controllers", "card"), the images of discs ("disc"), and the receive        *)
(* buffer, which does in a clever way what a queue does.                        *)
EXTENDS RxFifo, Sequences

CONSTANTS
  TransferCycles, AckCycles, RxLen, NoEvent, MaxAdvance, MaxBehind,  \* port
  Inputs, InitialInputs,                                             \* controllers
  CardSectorLen, CardSectors,                                        \* card
  None                                                               \* disc

VARIABLES
  part,
  port, behind, tx_event, irq_event, istat, delivered,
  selected, active, reply, pads, last, shock, card, file, talk, configured, confirmed,
  parser, lines, length, image, reader, got

Parts == {"fifo", "port", "controllers", "card", "disc"}
-----------------------------------------------------------------------------
Port == INSTANCE SerialPort WITH FifoLen <- RxLen

ASSUME PortIsValid == Port!PortAssumption
ASSUME InputsAreValid == InitialInputs \in Inputs

\* What the addresses that software sends stand for.
ASSUME CardIsValid == CardSectorLen \in Nat \ {0} /\ {0, 256} \subseteq CardSectors

Hex(high, low) == 16 * high + low

\* Software sends what a device understands in each step, and something it does not.
ControllerBytes(d) ==
  CASE d.kind = "Unselected" -> {Hex(0, 1)}
    [] d.kind = "Digital" /\ d.step = "IdLow" -> {Hex(4, 2), Hex(4, 3)}
    [] d.kind = "DualShock" /\ d.step = "IdLow" -> {Hex(4, 2), Hex(4, 3), Hex(4, 4), Hex(4, 5)}
    [] d.kind = "DualShock" /\ d.step \in {"LowEntering", "Led", "LedLock", "ModeChange"} ->
         {0, 1, 3}
    [] OTHER -> {0}

CardBytes(d) ==
  CASE d.kind = "Unselected" -> {Hex(8, 1)}
    [] d.kind = "MemoryCard" /\ d.step = "AwaitingCommand" -> {Hex(5, 2), Hex(5, 7), Hex(5, 3)}
    [] d.kind = "MemoryCard" /\ d.step = "AddressHighRead" -> {0, 1, 4}
    [] /\ d.kind = "MemoryCard"
       /\ d.step \in {"AddressHighWrite", "ReceivingData", "ReceivingChecksum"} -> {0, 1}
    [] OTHER -> {0}

\* A DualShock can be plugged into the second port for good.
PluggedTypes(p) == IF p = "One" THEN {"Digital", "DualShock"} ELSE {"DualShock"}
NoTypes(p) == {}

Controllers == INSTANCE Sio0Devices WITH
  ControllerTypes <- PluggedTypes,
  SectorLen <- 1, Sectors <- {0}, HostBytes <- ControllerBytes

Card == INSTANCE Sio0Devices WITH
  ControllerTypes <- NoTypes,
  SectorLen <- CardSectorLen, Sectors <- CardSectors, HostBytes <- CardBytes

\* Sheets of two tracks in one or two files of four sectors, an audio track with or without
\* pause and pregap, a second's worth of sectors being two; and what a parser must refuse.
Time(n) == [minutes |-> n \div 4, seconds |-> (n \div 2) % 2, frames |-> n % 2]
SheetLines ==
  {[kind |-> "FILE", name |-> name] : name \in {"a", "b"}}
    \union {[kind |-> "TRACK", number |-> 1, type |-> "Data"]}
    \union {[kind |-> "TRACK", number |-> n, type |-> "Audio"] : n \in {1, 2}}
    \union {[kind |-> "INDEX", index |-> 0, time |-> Time(n)] : n \in {0, 1}}
    \union {[kind |-> "INDEX", index |-> 1, time |-> Time(n)] : n \in {0, 3}}
    \union {[kind |-> "INDEX", index |-> 2, time |-> Time(0)],
            [kind |-> "PREGAP", time |-> Time(1)]}

ListedTrack(n, type, frames, pregap) ==
  [number |-> n, type |-> type, frames |-> frames, pregap |-> pregap]
ChdFiles ==
  {<<ListedTrack(2, "Audio", frames, pregap), ListedTrack(1, type, 3, 0)>> :
      frames \in {3, 4}, pregap \in {0, 2}, type \in {"Data", "Audio"}}
    \union {<<ListedTrack(2, "Audio", 4, 0)>>}

\* Times in the first track, in the pause or pregap of the second, and in the second.
TimesRead(disc) == IF Len(disc.tracks) = 2 THEN {Time(n) : n \in 3 .. 9} ELSE {}

Disc == INSTANCE DiscImage WITH
  FRAMES_PER_SECOND <- 2, SECONDS_PER_MINUTE <- 2, MAX_MINUTES <- 8,
  Files <- {"a", "b"}, Lengths <- {4}, Lines <- SheetLines, MaxLines <- 7,
  ChdTracks <- ChdFiles, HunkLen <- 2, ReadTimes <- TimesRead
ASSUME Disc!BasesAssumption

fifo_vars == <<values, write_idx, read_idx, len, read>>
port_vars == <<port, behind, tx_event, irq_event, istat, delivered>>
device_vars ==
  <<selected, active, reply, pads, last, shock, card, file, talk, configured, confirmed>>
disc_vars == <<parser, lines, length, image, reader, got>>
reference_vars == <<fifo_vars, disc_vars>>
mc_vars == <<part, reference_vars, port_vars, device_vars>>

MCInit ==
  /\ part \in Parts
  /\ Init /\ Port!Init /\ Disc!Init
  /\ IF part = "card" THEN Card!Init ELSE Controllers!Init

In(p) == part = p /\ UNCHANGED part

MCNext ==
  \/ In("fifo") /\ Next /\ UNCHANGED <<disc_vars, port_vars, device_vars>>
  \/ In("disc") /\ Disc!Next /\ UNCHANGED <<fifo_vars, port_vars, device_vars>>
  \/ In("port") /\ Port!Next /\ UNCHANGED <<reference_vars, device_vars>>
  \/ In("controllers") /\ Controllers!Next /\ UNCHANGED <<reference_vars, port_vars, card, file>>
  \/ In("card") /\ Card!Next /\ UNCHANGED <<reference_vars, port_vars>>

\* The fairness of FairSpec of SerialPort.
PortRuns == In("port") /\ Port!Runs /\ UNCHANGED <<reference_vars, device_vars>>
MCSpec == MCInit /\ [][MCNext]_mc_vars /\ WF_mc_vars(PortRuns)
-----------------------------------------------------------------------------
\* Of the port: its events are scheduled for the moment something happens and its interrupt
\* is delivered; and when software stops writing, it settles.
PortIsOnTime == part = "port" => Port!EventsAreOnTime /\ Port!InterruptIsDelivered
Settles == part = "port" => Port!PortSettles

\* Of the devices: what a controller sends in one conversation fits together, and what the
\* card confirmed it keeps.
ConversationsAreWhole ==
  /\ Controllers!LengthAsAnnounced
  /\ Controllers!InputsAreOneSnapshot
  /\ Controllers!ModeChangeIsSignalled
ConfirmedWritesAreKept == part = "card" => Card!ConfirmedWritesAreKept

\* A disc reads what its sheet says, from its first sector to its end and nothing twice; what
\* is looked up exists; and whatever was read or failed before, a read gives what is at its
\* time, or fails, unless an earlier failure left the reader elsewhere than it believes.
DiscReadsTrue ==
  part = "disc" =>
    Disc!LaysOutWhatTheSheetSays /\ Disc!PlacesExist /\ Disc!ReadsWhatIsThere
=============================================================================
