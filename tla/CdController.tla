---------------------------- MODULE CdController ----------------------------
(***************************************************************************)
(* The CD-ROM controller of ps1-core (cd.rs and cd/): a drive and a        *)
(* command processor that are clocked together at 44100 Hz, answer the     *)
(* host through one response FIFO and one interrupt flag register, and     *)
(* raise the CD-ROM bit of I_STAT on a 0->1 edge of the pending interrupt. *)
(* The host writes parameters and commands and acknowledges interrupts     *)
(* between any two clocks.                                                 *)
(*                                                                         *)
(* Abstractions.  The flag register is the set of its bits 0-2.  A         *)
(* response is the interrupt it came with and what generated it.  A        *)
(* sector is its absolute time, and sector_buffer and the data FIFO hold   *)
(* the time of the sector whose bytes they hold.  The parameter bytes of   *)
(* one command are one value that each command interprets its own way.     *)
(* Cycle counts are parameters.  Left out: the mute flag, the volumes and  *)
(* the flag that only changes a byte of one Test response.                 *)
(***************************************************************************)
EXTENDS Integers, Sequences, FiniteSetsExt

CONSTANTS
  HostCommands,       \* the commands the host may write
  Params,             \* the parameter values it may write before them
  AsTime,             \* SetLoc's reading of a parameter: a time, or Invalid
  AsMode,             \* SetMode's reading
  AsTrack,            \* Play's and GetTD's reading: a track number, 0 for none
  AsFilter,           \* SetFilter's reading: a file and channel
  TestSupported,      \* Test's reading: whether it is a subcommand the source implements
  Invalid,            \* a BCD time out of range
  None,               \* no parameter, no seek location, no response
  HasDisc,            \* disc.is_some()
  DiscEnd,            \* the absolute time after the last sector
  TrackStart,         \* start_time of each track
  TrackIndex1,        \* effective_start_time of each track
  XaChannel,          \* the file and channel of a real-time audio sector, or None
  AckMasks,           \* the sets of flag bits the host acknowledges at once
  EnableMasks,        \* the sets of interrupt bits the host enables
  ReceiveStopped, ReceiveRunning, InitCycles, SpinUpCycles, SecondCycles,
  MinSeekCycles, SectorsPerSeekCycle, SectorCycles, PrepareSectors,
  SamplesPerSector, SectorsBetweenReports

ASSUME CyclesArePositive ==
  /\ {ReceiveStopped, ReceiveRunning, InitCycles, SpinUpCycles, MinSeekCycles,
      SectorsPerSeekCycle, PrepareSectors, SamplesPerSector,
      SectorsBetweenReports} \subseteq Nat \ {0}
  /\ SecondCycles \in [{"GetId", "ReadToc", "Stop", "Init"} -> Nat \ {0}]
  /\ SectorCycles \in [BOOLEAN -> Nat \ {0}]

Modes == [double : BOOLEAN, adpcm : BOOLEAN, filter : BOOLEAN, report : BOOLEAN,
          auto_pause : BOOLEAN]

ASSUME ParametersAssumption ==
  /\ AsTime \in [Params -> Nat \union {Invalid}]
  /\ AsMode \in [Params -> Modes]
  /\ AsTrack \in [Params -> Nat]
  /\ None \notin Int

\* Every disc has a track, and times count from 0 (CdTime has no sign).
ASSUME DiscAssumption ==
  /\ HasDisc \in BOOLEAN
  /\ DiscEnd \in Nat
  /\ TrackStart \in Seq(Nat)
  /\ TrackIndex1 \in [1 .. Len(TrackStart) -> Nat]
  /\ HasDisc => TrackStart # <<>>

VARIABLES
  cd,      \* CdController, as a record
  istat,   \* the CD-ROM bit of I_STAT
  clear,   \* history: no interrupt was pending at some point since the last clock
  heard    \* history: the sectors the drive brought the host with an INT1 each, in their
           \* order, since it last began to read

vars == <<cd, istat, clear, heard>>

Times == 0 .. DiscEnd
Bits == 0 .. 2
Commands ==
  {"Demute", "GetId", "GetLocL", "GetLocP", "GetStat", "GetTD", "GetTN", "Init",
   "MotorOn", "Mute", "Pause", "Play", "ReadN", "ReadToc", "SeekL", "SetFilter",
   "SetLoc", "SetMode", "Stop", "Test"}

ASSUME HostAssumption == HostCommands \subseteq Commands /\ EnableMasks \subseteq SUBSET Bits

\* The bits of INT1 to INT5 in the flag register.
IntBits(int) == CASE int = 1 -> {0} [] int = 2 -> {1} [] int = 3 -> {0, 1}
                  [] int = 4 -> {2} [] int = 5 -> {0, 2}

-----------------------------------------------------------------------------
\* CdInterruptRegisters::pending and int_queued.
Pending(c) == c.enabled \intersect c.flags # {}
IntQueued(c) == c.flags # {}

\* generate_response: the response FIFO is replaced, the flags are merged.  "over" is
\* history: the flags still set, whose response the host can no longer read.
Respond(c, int, of) ==
  [c EXCEPT !.flags = @ \union IntBits(int),
            !.response = [int |-> int, of |-> of, over |-> c.flags]]

\* The constructors of DriveState and CommandState.
Stopped == [state |-> "Stopped"]
SpinningUp(n, next, dest) ==
  [state |-> "SpinningUp", cycles |-> n, next |-> next, dest |-> dest]
Seeking(dest, n, next) ==
  [state |-> "Seeking", time |-> dest, cycles |-> n, next |-> next]
PreparingToRead(t, n) == [state |-> "PreparingToRead", time |-> t, cycles |-> n]
Reading(t, int1, n) ==
  [state |-> "Reading", time |-> t, int1_generated |-> int1, cycles |-> n]
PreparingToPlay(t, n) == [state |-> "PreparingToPlay", time |-> t, cycles |-> n]
Playing(t, i, report) ==
  [state |-> "Playing", time |-> t, sample_idx |-> i, till_report |-> report]
Paused(t, int2) == [state |-> "Paused", time |-> t, int2_queued |-> int2]

Idle == [state |-> "Idle"]
Queued(command, n) == [state |-> "CommandQueued", command |-> command, cycles |-> n]
Receiving(command, n) == [state |-> "ReceivingCommand", command |-> command, cycles |-> n]
SecondResponse(command, n) ==
  [state |-> "GeneratingSecondResponse", command |-> command, cycles |-> n]

\* DriveState::current_time and is_stopped_or_spinning_up
IsStoppedOrSpinningUp(d) == d.state \in {"Stopped", "SpinningUp"}
CurrentTime(d) == IF IsStoppedOrSpinningUp(d) THEN 0 ELSE d.time

\* DriveSpeed::cycles_between_sectors
CyclesBetweenSectors(c) == SectorCycles[c.mode.double]

\* Cue::find_track_by_time
Tracks == 1 .. Len(TrackStart)
TracksAt(t) == IF t < DiscEnd THEN {k \in Tracks : TrackStart[k] <= t} ELSE {}
TrackAt(t) == Max(TracksAt(t))

\* estimate_seek_cycles, and the lower bound its callers apply
EstimateSeekCycles(from, to) ==
  LET diff == IF from < to THEN to - from ELSE from - to
  IN (diff + SectorsPerSeekCycle - 1) \div SectorsPerSeekCycle

\* Mutants are plausible bugs; each replaces the definition that follows it.
SeekCyclesUnbounded(from, to) == EstimateSeekCycles(from, to)

SeekCycles(from, to) == Max({MinSeekCycles, EstimateSeekCycles(from, to)})

\* determine_drive_state
SeekFrom(d, dest, next) ==
  CASE d.state = "Stopped" -> SpinningUp(SpinUpCycles, next, dest)
    [] d.state = "SpinningUp" -> SpinningUp(d.cycles, next, dest)
    [] OTHER -> Seeking(dest, SeekCycles(d.time, dest), next)
-----------------------------------------------------------------------------
\* A todo!() or panic!() of the source: the emulator thread is gone.
Panic(c) == [c EXCEPT !.panicked = TRUE]

\* read_sector_atime
CanRead(t) == HasDisc /\ TracksAt(t) # {}

\* read_data_sector: a real-time audio sector goes to the ADPCM decoder or nowhere
\* when the mode says so, and only the others wait for an INT1.
IsAudio(t) == XaChannel[t] # None
ForDecoder(c, t) ==
  IsAudio(t) /\ c.mode.adpcm /\ (~c.mode.filter \/ c.filter = XaChannel[t])
ForHostUnfiltered(c, t) == ~(IsAudio(t) /\ c.mode.filter)
ForHost(c, t) == ~ForDecoder(c, t) /\ ~(IsAudio(t) /\ c.mode.filter)

ReadDataSector(c, t) ==
  IF ~CanRead(t) THEN Panic(c)
  ELSE [c EXCEPT !.sector_buffer = t,
                 !.xa_sector = IF ForDecoder(c, t) THEN t ELSE @,
                 !.drive = Reading(t + 1, ~ForHost(c, t), CyclesBetweenSectors(c))]

\* progress_read_state: INT1 waits for a free flag register, and for a command that
\* is being received to be answered first.
Int1ReadyWhileReceiving(c) == ~c.drive.int1_generated /\ ~IntQueued(c)
Int1ReadyAgain(c) == ~IntQueued(c) /\ c.command.state # "ReceivingCommand"

Int1Ready(c) ==
  ~c.drive.int1_generated /\ ~IntQueued(c) /\ c.command.state # "ReceivingCommand"

ProgressRead(c) ==
  LET d == c.drive
  IN IF d.cycles = 1 THEN ReadDataSector(c, d.time)
     ELSE IF Int1Ready(c)
     THEN [Respond(c, 1, "Sector") EXCEPT !.data_fifo = c.sector_buffer,
                                          !.drive = Reading(d.time, TRUE, d.cycles - 1)]
     ELSE [c EXCEPT !.drive.cycles = @ - 1]

\* read_audio_sector: an INT4 at the end of the disc or, with auto-pause, of a track;
\* an INT1 report every few sectors.  None of them looks at the flags first.
ReadAudioSector(c, t, till_report, first) ==
  LET track   == TrackAt(t)
      report  == till_report = 1 /\ c.mode.report
      at_end  == IF Len(TrackStart) > 1 /\ c.mode.auto_pause
                 THEN Paused(t - 1, FALSE) ELSE Stopped
      next    == Playing(t + 1, 0, (IF till_report = 1 THEN SectorsBetweenReports
                                    ELSE till_report) - 1)
      new     == /\ c.mode.auto_pause /\ ~first
                 /\ track > 2 /\ t = TrackStart[track]
      reported == IF report THEN Respond(c, 1, "Report") ELSE c
  IN IF ~HasDisc THEN Panic(c)
     ELSE IF TracksAt(t) = {} THEN [Respond(c, 4, "DiscEnd") EXCEPT !.drive = at_end]
     ELSE IF new THEN [Respond(c, 4, "TrackEnd") EXCEPT !.drive = Paused(t - 1, FALSE)]
     ELSE [reported EXCEPT !.sector_buffer = t, !.drive = next]

\* progress_play_state
ProgressPlay(c) ==
  LET d == c.drive
  IN IF d.sample_idx + 1 = SamplesPerSector
     THEN ReadAudioSector(c, d.time, d.till_report, FALSE)
     ELSE [c EXCEPT !.drive.sample_idx = @ + 1]

\* The arms of advance_drive_state for a drive whose countdown has reached 1.
Arrive(c) ==
  LET d == c.drive
      prepare == PrepareSectors * CyclesBetweenSectors(c)
  IN CASE d.state = "SpinningUp" ->
            [c EXCEPT !.drive = IF d.dest = None THEN Paused(0, TRUE)
                                ELSE Seeking(d.dest, SeekCycles(0, d.dest), d.next)]
       [] d.state = "Seeking" ->
            [c EXCEPT !.drive = CASE d.next = "Pause" -> Paused(d.time, TRUE)
                                  [] d.next = "Read" -> PreparingToRead(d.time, prepare)
                                  [] d.next = "Play" -> PreparingToPlay(d.time, prepare)]
       [] d.state = "PreparingToRead" ->
            ReadDataSector([c EXCEPT !.xa_sector = None], d.time)
       [] d.state = "PreparingToPlay" -> ReadAudioSector(c, d.time, 1, TRUE)

\* A paused drive answers INT2 once the flag register is free.
Int2ReadyAlways(c) == c.drive.int2_queued
Int2Ready(c) == c.drive.int2_queued /\ ~IntQueued(c)

\* advance_drive_state
AdvanceDrive(c) ==
  LET d == c.drive
  IN CASE d.state = "Stopped" -> c
       [] d.state = "Paused" ->
            IF Int2Ready(c)
            THEN [Respond(c, 2, "Drive") EXCEPT !.drive.int2_queued = FALSE] ELSE c
       [] d.state = "Reading" -> ProgressRead(c)
       [] d.state = "Playing" -> ProgressPlay(c)
       [] OTHER -> IF d.cycles = 1 THEN Arrive(c) ELSE [c EXCEPT !.drive.cycles = @ - 1]
-----------------------------------------------------------------------------
\* The commands.  Each takes the controller and returns it with the response of the
\* command generated and the command state it continues in.
Becomes(c, state) == [c EXCEPT !.command = state]
Finished(c) == Becomes(c, Idle)
Ack(c, command) == Finished(Respond(c, 3, command))
Error(c, command) == Finished(Respond(c, 5, command))
Then(c, command, n) == Becomes(Respond(c, 3, command), SecondResponse(command, n))

\* self.seek_location.take().unwrap_or(self.drive_state.current_time())
Target(c) == IF c.seek_location = None THEN CurrentTime(c.drive) ELSE c.seek_location

\* Commands that need a parameter answer INT5 without one.
SetLoc(c) ==
  IF c.param = None \/ AsTime[c.param] = Invalid THEN Error(c, "SetLoc")
  ELSE Ack([c EXCEPT !.seek_location = AsTime[c.param]], "SetLoc")

SetMode(c) ==
  IF c.param = None THEN Error(c, "SetMode")
  ELSE Ack([c EXCEPT !.mode = AsMode[c.param]], "SetMode")

SetFilter(c) ==
  IF c.param = None THEN Error(c, "SetFilter")
  ELSE Ack([c EXCEPT !.filter = AsFilter[c.param]], "SetFilter")

GetTD(c) ==
  IF c.param = None THEN Error(c, "GetTD")
  ELSE IF ~HasDisc THEN Panic(c)
  ELSE IF AsTrack[c.param] > Len(TrackStart) THEN Error(c, "GetTD")
  ELSE Ack(c, "GetTD")

Test(c) ==
  IF c.param = None THEN Error(c, "Test")
  ELSE IF ~TestSupported[c.param] THEN Panic(c)
  ELSE Ack(c, "Test")

GetLocL(c) ==
  IF c.drive.state = "Reading" THEN Ack(c, "GetLocL") ELSE Error(c, "GetLocL")

GetLocP(c) == IF HasDisc THEN Ack(c, "GetLocP") ELSE Panic(c)

\* SeekL and SeekP
Seek(c) ==
  Ack([c EXCEPT !.seek_location = None,
                !.drive = SeekFrom(@, Target(c), "Pause")], "SeekL")

\* ReadN and ReadS: a drive that is already reading there goes on.
Read(c) ==
  LET there == c.drive.state = "Reading" /\ c.drive.time = Target(c)
  IN Ack([c EXCEPT !.seek_location = None,
                   !.drive = IF there THEN @ ELSE SeekFrom(@, Target(c), "Read")], "ReadN")

\* A track number above the last wraps around.
Play(c) ==
  LET track == IF c.param = None THEN 0 ELSE AsTrack[c.param]
      start == IF track = 0 THEN Target(c)
               ELSE TrackIndex1[((track - 1) % Len(TrackStart)) + 1]
  IN IF ~HasDisc THEN Panic(c)
     ELSE Ack([c EXCEPT !.seek_location = IF track = 0 THEN None ELSE @,
                        !.drive = SeekFrom(@, start, "Play")], "Play")

\* Pause pauses even a stopped drive.
Pause(c) ==
  Then([c EXCEPT !.drive = Paused(CurrentTime(@), FALSE)],
       "Pause", PrepareSectors * CyclesBetweenSectors(c))

Halt(c) ==
  [c EXCEPT !.drive = IF IsStoppedOrSpinningUp(@) THEN @ ELSE Paused(CurrentTime(@), FALSE)]

Stop(c) == Then(Halt(c), "Stop", SecondCycles["Stop"])

MotorOn(c) ==
  IF c.drive.state # "Stopped" THEN Error(c, "MotorOn")
  ELSE Ack([c EXCEPT !.drive = SpinningUp(SpinUpCycles, "Pause", None)], "MotorOn")

\* Mode $20: raw sectors at single speed.  A drive at rest answers INT2 once it spins.
InitMode == [double |-> FALSE, adpcm |-> FALSE, filter |-> FALSE,
             report |-> FALSE, auto_pause |-> FALSE]

InitCommand(c) ==
  LET h == [Halt(c) EXCEPT !.mode = InitMode]
  IN CASE c.drive.state = "Stopped" ->
            Ack([h EXCEPT !.drive = SpinningUp(SpinUpCycles, "Pause", None)], "Init")
       [] c.drive.state = "SpinningUp" ->
            Ack([h EXCEPT !.drive = SpinningUp(@.cycles, "Pause", None)], "Init")
       [] OTHER -> Then(h, "Init", SecondCycles["Init"])

\* execute_command: whatever the command did, its parameters are gone afterwards.
Execute(c, command) ==
  LET done ==
        CASE command \in {"GetStat", "GetTN", "Mute", "Demute"} -> Ack(c, command)
          [] command \in {"GetId", "ReadToc"} -> Then(c, command, SecondCycles[command])
          [] command = "SetLoc" -> SetLoc(c)
          [] command = "SetMode" -> SetMode(c)
          [] command = "SetFilter" -> SetFilter(c)
          [] command = "GetTD" -> GetTD(c)
          [] command = "Test" -> Test(c)
          [] command = "GetLocL" -> GetLocL(c)
          [] command = "GetLocP" -> GetLocP(c)
          [] command = "SeekL" -> Seek(c)
          [] command = "ReadN" -> Read(c)
          [] command = "Play" -> Play(c)
          [] command = "Pause" -> Pause(c)
          [] command = "Stop" -> Stop(c)
          [] command = "MotorOn" -> MotorOn(c)
          [] command = "Init" -> InitCommand(c)
  IN [done EXCEPT !.param = None]

\* generate_second_response
SecondResponseOf(c, command) ==
  CASE command = "GetId" -> Finished(Respond(c, IF HasDisc THEN 2 ELSE 5, "GetId"))
    [] command = "Stop" -> Finished(Respond([c EXCEPT !.drive = Stopped], 2, "Stop"))
    [] OTHER -> Finished(Respond(c, 2, command))

SecondReady(c) == ~IntQueued(c)

\* advance_command_state.  Only a queued command and a second response look at the
\* flags; a command being received is executed whatever they hold.
AdvanceCommand(c) ==
  LET k == c.command
      waiting == [c EXCEPT !.command.cycles = @ - 1]
  IN CASE k.state = "Idle" -> c
       [] k.state = "CommandQueued" ->
            IF IntQueued(c) THEN c ELSE Becomes(c, Receiving(k.command, k.cycles))
       [] k.state = "ReceivingCommand" ->
            IF k.cycles > 1 THEN waiting ELSE Execute(c, k.command)
       [] k.state = "GeneratingSecondResponse" ->
            IF k.cycles > 1 THEN waiting
            ELSE IF SecondReady(c) THEN SecondResponseOf(c, k.command) ELSE c
-----------------------------------------------------------------------------
Init ==
  /\ cd = [enabled |-> {}, flags |-> {}, prev_pending |-> FALSE, response |-> None,
           param |-> None, command |-> Idle, drive |-> Stopped, mode |-> InitMode,
           seek_location |-> None, filter |-> None,
           sector_buffer |-> None, xa_sector |-> None, data_fifo |-> None, panicked |-> FALSE]
  /\ istat = FALSE
  /\ clear = TRUE
  /\ heard = <<>>

\* The drive that was c and is d has raised an INT1 for a sector: the flags gain its bit,
\* or an INT1 the host has not heard of is replaced.
RaisedInt1(c, d) ==
  /\ d.flags # c.flags \/ d.response # c.response
  /\ d.response.of = "Sector"

\* What the host has heard when the drive has moved from c to d.
HeardAfter(c, d) ==
  IF c.drive.state # "Reading" THEN <<>>
  ELSE IF RaisedInt1(c, d) THEN Append(heard, d.data_fifo) ELSE heard

\* clock: the drive, then the command processor, then the edge detector.
Clock ==
  LET d == AdvanceDrive(cd)
      c == IF d.panicked THEN d ELSE AdvanceCommand(d)
  IN /\ ~cd.panicked
     /\ cd' = [c EXCEPT !.prev_pending = IF c.panicked THEN @ ELSE Pending(c)]
     /\ istat' = (istat \/ (~c.panicked /\ ~cd.prev_pending /\ Pending(c)))
     /\ clear' = ~Pending(c)
     /\ heard' = HeardAfter(cd, d)

\* A host access to the controller; clear remembers a moment without an interrupt.
HostAccess(c) ==
  /\ ~cd.panicked
  /\ cd' = c
  /\ clear' = (clear \/ ~Pending(c))
  /\ UNCHANGED <<istat, heard>>

\* write_command: replaces whatever command was in progress.
WriteCommand(command) ==
  LET n == IF command \in {"Init", "ReadToc"} THEN InitCycles
           ELSE IF cd.drive.state = "Stopped" THEN ReceiveStopped ELSE ReceiveRunning
  IN HostAccess(Becomes(cd, IF IntQueued(cd) THEN Queued(command, n)
                            ELSE Receiving(command, n)))

\* write_parameter_fifo: a command reads the value written first.
WriteParameter(p) ==
  /\ cd.param = None
  /\ HostAccess([cd EXCEPT !.param = p])

\* write_enabled and write_flags: an interrupt that stops being pending is forgotten
\* by the edge detector at once, not at the next clock.
ForgetAtNextClock(c) == c
Forget(c) == [c EXCEPT !.prev_pending = @ /\ Pending(c)]

WriteEnabled(mask) == HostAccess(Forget([cd EXCEPT !.enabled = mask]))

WriteEnabledFlags(mask, resetParameters) ==
  HostAccess(Forget([cd EXCEPT !.flags = @ \ (mask \intersect cd.enabled),
                               !.param = IF resetParameters THEN None ELSE @]))

WriteFlags(mask, resetParameters) ==
  HostAccess(Forget([cd EXCEPT !.flags = @ \ mask,
                               !.param = IF resetParameters THEN None ELSE @]))

\* The CPU clears the CD-ROM bit of I_STAT (InterruptRegisters::write_status).
AcknowledgeIStat ==
  /\ istat
  /\ istat' = FALSE
  /\ UNCHANGED <<cd, clear, heard>>

Next ==
  \/ Clock
  \/ \E command \in HostCommands : WriteCommand(command)
  \/ \E p \in Params : WriteParameter(p)
  \/ \E mask \in EnableMasks : WriteEnabled(mask)
  \/ \E mask \in AckMasks, reset \in BOOLEAN : WriteFlags(mask, reset)
  \/ AcknowledgeIStat

Spec == Init /\ [][Next]_vars

\* A host that looks at BUSYSTS (bit 7 of the status register, set while a command is
\* queued or being received) before it writes a command.
Busy == cd.command.state \in {"CommandQueued", "ReceivingCommand"}

\* It acknowledges what is queued before the next sector is read.
SectorIsNext == cd.drive.state = "Reading" /\ cd.drive.cycles = 1

PoliteNext ==
  \/ ~(IntQueued(cd) /\ SectorIsNext) /\ Clock
  \/ ~Busy /\ \E command \in HostCommands : WriteCommand(command)
  \/ \E p \in Params : WriteParameter(p)
  \/ \E mask \in EnableMasks : WriteEnabled(mask)
  \/ \E mask \in AckMasks, reset \in BOOLEAN : WriteFlags(mask, reset)
  \/ AcknowledgeIStat

\* The scheduler clocks the controller for ever; the host acknowledges what is queued.
PoliteSpec ==
  /\ Init /\ [][PoliteNext]_vars
  /\ WF_vars(Clock)
  /\ WF_vars(IntQueued(cd) /\ WriteFlags(Bits, FALSE))
-----------------------------------------------------------------------------
DriveStates ==
  {"Stopped", "SpinningUp", "Seeking", "PreparingToRead", "Reading", "PreparingToPlay",
   "Playing", "Paused"}

TypeOK ==
  /\ cd.enabled \subseteq Bits /\ cd.flags \subseteq Bits
  /\ cd.prev_pending \in BOOLEAN /\ cd.panicked \in BOOLEAN
  /\ cd.param \in Params \union {None}
  /\ cd.command.state \in {"Idle", "CommandQueued", "ReceivingCommand",
                           "GeneratingSecondResponse"}
  /\ cd.command.state # "Idle" => cd.command.command \in Commands /\ cd.command.cycles >= 1
  /\ cd.drive.state \in DriveStates
  /\ "cycles" \in DOMAIN cd.drive => cd.drive.cycles >= 1
  /\ cd.sector_buffer \in Times \union {None} /\ cd.data_fifo \in Times \union {None}
  /\ istat \in BOOLEAN /\ clear \in BOOLEAN /\ heard \in Seq(Times)

\* I_STAT is raised by a clock exactly when an interrupt is pending that was not there,
\* or had been acknowledged or disabled for a moment, since the clock before: an
\* interrupt that follows an acknowledgement is never swallowed ("Necessary to prevent a
\* freeze", cd.rs:83), and one that just stays pending is not raised again.
EveryInterruptRaisedOnce ==
  [][Clock /\ ~cd'.panicked => istat' = (istat \/ (clear /\ Pending(cd')))]_vars

\* A response is only generated when the host has acknowledged every earlier one, so
\* no interrupt number is merged into another and no response is overwritten unread.
NoResponseOverwritten == cd.response # None => cd.response.over = {}

\* Second responses and data sectors never overwrite an unacknowledged response,
\* whatever the drive and the command processor do in the same clock: only the answer to
\* a received command and the audio reports and INT4s may.
OnlyAcksAndAudioOverwrite ==
  cd.response # None /\ cd.response.over # {} =>
    \/ cd.response.of \in {"Report", "DiscEnd", "TrackEnd"}
    \/ cd.response.int = 3
    \/ cd.response.int = 5 /\ cd.response.of # "GetId"

\* The data FIFO is filled with the sector in the buffer at its INT1, and a sector that
\* went to the ADPCM decoder never reaches the host.
XaSectorsStayInside == [][cd'.data_fifo # cd.data_fifo => cd'.data_fifo # cd'.xa_sector]_vars

\* With auto-pause on, a playing drive never goes on into the next track ("If auto-pause
\* is enabled and the drive moved to a new audio track, pause at the end of the previous
\* track", audio.rs): the sector played next is of the track of the one played last.
AutoPausesAtTrackEnd ==
  [][/\ cd.mode.auto_pause
     /\ cd.drive.state = "Playing" /\ cd'.drive.state = "Playing"
     /\ cd'.drive.time # cd.drive.time
     => TrackAt(cd.drive.time) = TrackAt(cd.drive.time - 1)]_vars

\* While the drive reads on, each INT1 brings the host the sector read last, which lies
\* after every sector the INT1s before it brought: in disc order and never one twice, even
\* when the host is slow to acknowledge and sectors are skipped.  Nothing but an INT1 fills
\* the data FIFO (progress_read_state).
SectorsInOrder ==
  [][/\ heard' \notin {heard, <<>>} =>
          /\ cd'.data_fifo = cd.drive.time - 1
          /\ \A k \in DOMAIN heard : heard[k] < cd'.data_fifo
     /\ cd'.data_fifo # cd.data_fifo => heard' = Append(heard, cd'.data_fifo)]_vars

\* A host that waits for BUSYSTS and acknowledges interrupts before the next sector gets
\* every command executed: a queued command is not starved by the drive's own interrupts,
\* since the clock that reads a sector raises none.
CommandsAreExecuted == Busy ~> (~Busy \/ cd.panicked)
=============================================================================
