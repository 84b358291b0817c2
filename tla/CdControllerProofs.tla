------------------------- MODULE CdControllerProofs -------------------------
(***************************************************************************)
(* Proofs about CdController: its types, the interrupts it raises, the     *)
(* responses it generates and the sectors it delivers.                     *)
(***************************************************************************)
EXTENDS CdController, TLAPS

\* The values the controller's record takes.
Positive == Nat \ {0}
Origins == Commands \union {"Sector", "Report", "DiscEnd", "TrackEnd", "Drive"}
Responses == [int : 1 .. 5, of : Origins, over : SUBSET Bits]
Waiting == {"CommandQueued", "ReceivingCommand", "GeneratingSecondResponse"}
CommandValues ==
  [state : {"Idle"}] \union [state : Waiting, command : Commands, cycles : Positive]

Nexts == {"Pause", "Read", "Play"}
SpinningValues ==
  [state : {"SpinningUp"}, cycles : Positive, next : Nexts, dest : Int \union {None}]
SeekingValues == [state : {"Seeking"}, time : Int, cycles : Positive, next : Nexts]
PreparingValues ==
  [state : {"PreparingToRead", "PreparingToPlay"}, time : Int, cycles : Positive]
ReadingValues ==
  [state : {"Reading"}, time : Int, int1_generated : BOOLEAN, cycles : Positive]
PlayingValues == [state : {"Playing"}, time : Int, sample_idx : Nat, till_report : Int]
PausedValues == [state : {"Paused"}, time : Int, int2_queued : BOOLEAN]
DriveValues ==
  [state : {"Stopped"}] \union SpinningValues \union SeekingValues \union PreparingValues
    \union ReadingValues \union PlayingValues \union PausedValues

Controllers ==
  [enabled : SUBSET Bits, flags : SUBSET Bits, prev_pending : BOOLEAN,
   response : Responses \union {None}, param : Params \union {None},
   command : CommandValues, drive : DriveValues, mode : Modes,
   seek_location : Int \union {None}, filter : {AsFilter[p] : p \in Params} \union {None},
   sector_buffer : Times \union {None}, xa_sector : Times \union {None},
   data_fifo : Times \union {None}, panicked : BOOLEAN]

\* OnlyAcksAndAudioOverwrite, of a controller.
Answered(c) ==
  c.response # None /\ c.response.over # {} =>
    \/ c.response.of \in {"Report", "DiscEnd", "TrackEnd"}
    \/ c.response.int = 3
    \/ c.response.int = 5 /\ c.response.of # "GetId"

\* While the drive reads, the buffer holds the sector before the one it reads next, and
\* the ADPCM decoder's last sector is behind it, or is not the one that waits for INT1.
Ordered(c) ==
  c.drive.state = "Reading" =>
    /\ c.sector_buffer = c.drive.time - 1
    /\ c.xa_sector = None \/ c.xa_sector < c.drive.time
    /\ ~c.drive.int1_generated => c.xa_sector # c.drive.time - 1

Good(c) == c \in Controllers /\ Answered(c) /\ Ordered(c)

-----------------------------------------------------------------------------
\* The drives that determine_drive_state and the constructors make.
LEMMA PositiveProduct ==
  ASSUME NEW a \in Positive, NEW b \in Positive
  PROVE  a * b \in Positive
BY DEF Positive

LEMMA MaxOfTwo ==
  ASSUME NEW a \in Int, NEW b \in Int
  PROVE  Max({a, b}) \in Int /\ Max({a, b}) >= a
<1> DEFINE S == {a, b}
<1>1. \E m \in S : \A y \in S : m >= y
  <2>1. CASE a >= b
    BY <2>1
  <2>2. CASE ~(a >= b)
    BY <2>2
  <2> QED BY <2>1, <2>2
<1>2. Max(S) \in S /\ \A y \in S : Max(S) >= y
  BY <1>1 DEF Max
<1> QED BY <1>2

LEMMA SeekCyclesPositive ==
  ASSUME NEW from \in Int, NEW to \in Int
  PROVE  SeekCycles(from, to) \in Positive
<1>1. EstimateSeekCycles(from, to) \in Int
  BY CyclesArePositive DEF EstimateSeekCycles
<1>2. MinSeekCycles \in Int /\ MinSeekCycles >= 1
  BY CyclesArePositive
<1>3. SeekCycles(from, to) \in Int /\ SeekCycles(from, to) >= MinSeekCycles
  BY <1>1, <1>2, MaxOfTwo DEF SeekCycles
<1> QED BY <1>2, <1>3 DEF Positive

LEMMA SectorCyclesPositive ==
  ASSUME NEW c \in Controllers
  PROVE  CyclesBetweenSectors(c) \in Positive
BY CyclesArePositive DEF CyclesBetweenSectors, Controllers, Modes, Positive

LEMMA PreparePositive ==
  ASSUME NEW c \in Controllers
  PROVE  PrepareSectors * CyclesBetweenSectors(c) \in Positive
BY SectorCyclesPositive, PositiveProduct, CyclesArePositive DEF Positive

\* A drive's time and countdown, in the states that have them.
LEMMA DriveParts ==
  ASSUME NEW d \in DriveValues
  PROVE  /\ ~IsStoppedOrSpinningUp(d) => d.time \in Int
         /\ CurrentTime(d) \in Int
         /\ d.state \in {"SpinningUp", "Seeking", "PreparingToRead", "PreparingToPlay",
                         "Reading"} => d.cycles \in Positive
         /\ d.state = "SpinningUp" => d \in SpinningValues
         /\ d.state = "Seeking" => d \in SeekingValues
         /\ d.state = "Reading" => d \in ReadingValues
         /\ d.state = "Playing" => d \in PlayingValues
         /\ d.state = "Paused" => d \in PausedValues
         /\ d.state \in DriveStates
BY DEF DriveValues, SpinningValues, SeekingValues, PreparingValues, ReadingValues,
       PlayingValues, PausedValues, IsStoppedOrSpinningUp, CurrentTime, DriveStates

LEMMA MadeDrives ==
  /\ Stopped \in DriveValues
  /\ \A n \in Positive, next \in Nexts, dest \in Int \union {None} :
       SpinningUp(n, next, dest) \in DriveValues
  /\ \A t \in Int, n \in Positive, next \in Nexts : Seeking(t, n, next) \in DriveValues
  /\ \A t \in Int, n \in Positive : PreparingToRead(t, n) \in DriveValues
  /\ \A t \in Int, n \in Positive : PreparingToPlay(t, n) \in DriveValues
  /\ \A t \in Int, b \in BOOLEAN, n \in Positive : Reading(t, b, n) \in DriveValues
  /\ \A t \in Int, i \in Nat, r \in Int : Playing(t, i, r) \in DriveValues
  /\ \A t \in Int : Paused(t, TRUE) \in DriveValues /\ Paused(t, FALSE) \in DriveValues
BY DEF DriveValues, SpinningValues, SeekingValues, PreparingValues, ReadingValues,
       PlayingValues, PausedValues, Stopped, SpinningUp, Seeking, PreparingToRead,
       PreparingToPlay, Reading, Playing, Paused

LEMMA SeekFromDrives ==
  ASSUME NEW d \in DriveValues, NEW dest \in Int, NEW next \in Nexts
  PROVE  /\ SeekFrom(d, dest, next) \in DriveValues
         /\ SeekFrom(d, dest, next).state # "Reading"
<1>1. CASE d.state = "Stopped"
  <2>1. SpinUpCycles \in Positive
    BY CyclesArePositive DEF Positive
  <2>2. SpinningUp(SpinUpCycles, next, dest) \in DriveValues
    BY <2>1, MadeDrives
  <2> QED BY <1>1, <2>2 DEF SeekFrom, SpinningUp
<1>2. CASE d.state = "SpinningUp"
  <2>1. SpinningUp(d.cycles, next, dest) \in DriveValues
    BY <1>2, DriveParts, MadeDrives
  <2> QED BY <1>2, <2>1 DEF SeekFrom, SpinningUp
<1>3. CASE d.state \notin {"Stopped", "SpinningUp"}
  <2>1. SeekCycles(d.time, dest) \in Positive
    BY <1>3, DriveParts, SeekCyclesPositive DEF IsStoppedOrSpinningUp
  <2>2. Seeking(dest, SeekCycles(d.time, dest), next) \in DriveValues
    BY <2>1, MadeDrives
  <2> QED BY <1>3, <2>2 DEF SeekFrom, Seeking
<1> QED BY <1>1, <1>2, <1>3

-----------------------------------------------------------------------------
\* Changing one part of a controller.  What an operator may do to the response, the drive
\* and the two copies of sectors is what the invariants are about.
LEMMA Fields ==
  ASSUME NEW c \in Controllers
  PROVE  /\ c.flags \subseteq Bits /\ c.enabled \subseteq Bits
         /\ c.drive \in DriveValues /\ c.command \in CommandValues /\ c.mode \in Modes
         /\ c.response \in Responses \union {None} /\ c.panicked \in BOOLEAN
         /\ c.sector_buffer \in Times \union {None} /\ c.xa_sector \in Times \union {None}
         /\ c.data_fifo \in Times \union {None} /\ c.param \in Params \union {None}
         /\ c.seek_location \in Int \union {None} /\ c.prev_pending \in BOOLEAN
BY DEF Controllers

LEMMA RespondIsController ==
  ASSUME NEW c \in Controllers, NEW int \in 1 .. 5, NEW of \in Origins
  PROVE  Respond(c, int, of) \in Controllers
<1>1. IntBits(int) \subseteq Bits
  BY DEF IntBits, Bits
<1>2. [int |-> int, of |-> of, over |-> c.flags] \in Responses
  BY Fields DEF Responses
<1> QED BY <1>1, <1>2 DEF Respond, Controllers

LEMMA RespondFields ==
  ASSUME NEW c \in Controllers, NEW int, NEW of
  PROVE  LET e == Respond(c, int, of)
         IN /\ e.response.int = int /\ e.response.of = of /\ e.response.over = c.flags
            /\ e.flags = c.flags \union IntBits(int)
            /\ e.drive = c.drive /\ e.command = c.command /\ e.mode = c.mode
            /\ e.sector_buffer = c.sector_buffer /\ e.xa_sector = c.xa_sector
            /\ e.data_fifo = c.data_fifo /\ e.panicked = c.panicked /\ e.param = c.param
            /\ e.enabled = c.enabled /\ e.prev_pending = c.prev_pending
            /\ e.seek_location = c.seek_location
BY DEF Respond, Controllers

LEMMA DriveChange ==
  ASSUME NEW c \in Controllers, NEW d \in DriveValues
  PROVE  LET e == [c EXCEPT !.drive = d]
         IN /\ e \in Controllers /\ e.drive = d
            /\ e.response = c.response /\ e.flags = c.flags /\ e.command = c.command
            /\ e.sector_buffer = c.sector_buffer /\ e.xa_sector = c.xa_sector
            /\ e.data_fifo = c.data_fifo
BY DEF Controllers

LEMMA CommandChange ==
  ASSUME NEW c \in Controllers, NEW k \in CommandValues
  PROVE  LET e == Becomes(c, k)
         IN /\ e \in Controllers /\ e.drive = c.drive /\ e.command = k
            /\ e.response = c.response /\ e.flags = c.flags
            /\ e.sector_buffer = c.sector_buffer /\ e.xa_sector = c.xa_sector
            /\ e.data_fifo = c.data_fifo
BY DEF Controllers, Becomes

-----------------------------------------------------------------------------
\* The drive's half of a clock.
Delivers(c, e) ==
  e.data_fifo # c.data_fifo =>
    /\ e.data_fifo # e.xa_sector
    /\ c.drive.state = "Reading"

DriveKeeps(c, e) == Good(e) /\ Delivers(c, e)

\* A drive that moves without an answer, to a state in which it does not read.
LEMMA MovesKeep ==
  ASSUME NEW c \in Controllers, Good(c), NEW d \in DriveValues, d.state # "Reading"
  PROVE  DriveKeeps(c, [c EXCEPT !.drive = d])
BY DriveChange DEF DriveKeeps, Good, Answered, Ordered, Delivers

LEMMA PanicKeeps ==
  ASSUME NEW c \in Controllers, Good(c)
  PROVE  DriveKeeps(c, Panic(c)) /\ Panic(c).panicked
<1> DEFINE e == Panic(c)
<1>1. /\ e \in Controllers /\ e.panicked /\ e.drive = c.drive /\ e.response = c.response
      /\ e.sector_buffer = c.sector_buffer /\ e.xa_sector = c.xa_sector
      /\ e.data_fifo = c.data_fifo
  BY DEF Panic, Controllers
<1> HIDE DEF e
<1>2. Answered(e) /\ Ordered(e)
  BY <1>1 DEF Good, Answered, Ordered
<1> QED BY <1>1, <1>2 DEF DriveKeeps, Good, Delivers, e

\* A sector that can be read has a time of the disc.
LEMMA ReadableTimes ==
  ASSUME NEW t \in Int, TracksAt(t) # {}
  PROVE  t \in Times
<1>1. PICK k \in Tracks : t < DiscEnd /\ TrackStart[k] <= t
  BY DEF TracksAt
<1>2. TrackStart[k] \in Nat
  BY DiscAssumption DEF Tracks
<1> QED BY <1>1, <1>2, DiscAssumption DEF Times

\* A sector that goes to the decoder has no INT1 to wait for; for any other, the last
\* sector the decoder got lies further back.
LEMMA ReadDataSectorKeeps ==
  ASSUME NEW c \in Controllers, Good(c), NEW t \in Int,
         c.xa_sector = None \/ c.xa_sector < t
  PROVE  DriveKeeps(c, ReadDataSector(c, t))
<1>1. CASE ~CanRead(t)
  BY <1>1, PanicKeeps DEF ReadDataSector
<1>2. CASE CanRead(t)
  <2> DEFINE d == Reading(t + 1, ~ForHost(c, t), CyclesBetweenSectors(c))
             x == IF ForDecoder(c, t) THEN t ELSE c.xa_sector
             e == [c EXCEPT !.sector_buffer = t, !.xa_sector = x, !.drive = d]
  <2>1. t \in Times /\ x \in Times \union {None}
    BY <1>2, ReadableTimes, Fields DEF CanRead
  <2>2. d \in DriveValues
    <3> DEFINE b == ~ForHost(c, t)
    <3>1. b \in BOOLEAN
      OBVIOUS
    <3>2. CyclesBetweenSectors(c) \in Positive /\ t + 1 \in Int
      BY SectorCyclesPositive
    <3> HIDE DEF b
    <3>3. Reading(t + 1, b, CyclesBetweenSectors(c)) \in DriveValues
      BY <3>1, <3>2, MadeDrives
    <3> QED BY <3>3 DEF b
  <2>3. /\ e \in Controllers /\ e.drive = d /\ e.response = c.response
        /\ e.sector_buffer = t /\ e.xa_sector = x /\ e.data_fifo = c.data_fifo
    <3> HIDE DEF d, x
    <3> QED BY <2>1, <2>2 DEF Controllers
  <2>4. d.state = "Reading" /\ d.time = t + 1 /\ d.int1_generated = ~ForHost(c, t)
    BY DEF Reading
  <2>5. x = None \/ x < t + 1
    <3>1. CASE ForDecoder(c, t)
      BY <3>1
    <3>2. CASE ~ForDecoder(c, t)
      <4>1. x = c.xa_sector
        BY <3>2
      <4> QED BY <4>1, <2>1, ParametersAssumption DEF Times
    <3> QED BY <3>1, <3>2
  <2>6. ~d.int1_generated => x # t
    <3> SUFFICES ASSUME ForHost(c, t) PROVE c.xa_sector # t
      BY <2>4 DEF ForHost
    <3> QED BY ParametersAssumption, Fields DEF Times
  <2>7. Ordered(e)
    <3> HIDE DEF d, x, e
    <3> QED BY <2>3, <2>4, <2>5, <2>6 DEF Ordered
  <2>8. ReadDataSector(c, t) = e
    BY <1>2 DEF ReadDataSector
  <2> HIDE DEF e
  <2> QED BY <2>3, <2>7, <2>8 DEF DriveKeeps, Good, Answered, Delivers
<1> QED BY <1>1, <1>2

\* Counting down leaves the drive where it is.
LEMMA CountDownKeeps ==
  ASSUME NEW c \in Controllers, Good(c), "cycles" \in DOMAIN c.drive,
         c.drive.state \in {"SpinningUp", "Seeking", "PreparingToRead", "PreparingToPlay",
                            "Reading"},
         c.drive.cycles # 1
  PROVE  DriveKeeps(c, [c EXCEPT !.drive.cycles = @ - 1])
<1> DEFINE d == [c.drive EXCEPT !.cycles = @ - 1]
<1>1. d \in DriveValues
  BY Fields DEF DriveValues, SpinningValues, SeekingValues, PreparingValues, ReadingValues,
                PlayingValues, PausedValues, Positive
<1>2. /\ d.state = c.drive.state
      /\ d.state = "Reading" => /\ d.time = c.drive.time
                                /\ d.int1_generated = c.drive.int1_generated
  BY Fields DEF DriveValues, SpinningValues, SeekingValues, PreparingValues, ReadingValues,
                PlayingValues, PausedValues, Positive
<1>3. [c EXCEPT !.drive.cycles = @ - 1] = [c EXCEPT !.drive = d]
  OBVIOUS
<1> DEFINE e == [c EXCEPT !.drive = d]
<1>4. /\ e \in Controllers /\ e.drive = d /\ e.response = c.response
      /\ e.sector_buffer = c.sector_buffer /\ e.xa_sector = c.xa_sector
      /\ e.data_fifo = c.data_fifo
  <2> HIDE DEF d
  <2> QED BY <1>1, DriveChange
<1> HIDE DEF d, e
<1>5. Answered(e) /\ Ordered(e)
  BY <1>2, <1>4 DEF Good, Answered, Ordered
<1> QED BY <1>3, <1>4, <1>5 DEF DriveKeeps, Good, Delivers, e

LEMMA ProgressReadKeeps ==
  ASSUME NEW c \in Controllers, Good(c), c.drive.state = "Reading"
  PROVE  DriveKeeps(c, ProgressRead(c))
<1> DEFINE d == c.drive
<1>1. d \in ReadingValues
  BY Fields, DriveParts
<1>2. CASE d.cycles = 1
  <2>1. ProgressRead(c) = ReadDataSector(c, d.time)
    BY <1>2 DEF ProgressRead
  <2> QED BY <1>1, <2>1, ReadDataSectorKeeps DEF ReadingValues, Good, Ordered
<1>3. CASE d.cycles # 1 /\ Int1Ready(c)
  <2> DEFINE n == Reading(d.time, TRUE, d.cycles - 1)
             r == Respond(c, 1, "Sector")
             e == [r EXCEPT !.data_fifo = c.sector_buffer, !.drive = n]
  <2>1. ProgressRead(c) = e
    BY <1>3 DEF ProgressRead
  <2>2. r \in Controllers
    BY RespondIsController DEF Origins
  <2>3. n \in DriveValues
    <3>1. d.cycles - 1 \in Positive /\ d.time \in Int
      BY <1>1, <1>3 DEF ReadingValues, Positive
    <3> QED BY <3>1, MadeDrives
  <2>4. /\ e \in Controllers /\ e.data_fifo = c.sector_buffer /\ e.drive = n
        /\ e.response = r.response /\ e.xa_sector = r.xa_sector
        /\ e.sector_buffer = r.sector_buffer
    <3> DEFINE q == [r EXCEPT !.data_fifo = c.sector_buffer]
    <3>1. c.sector_buffer \in Times \union {None}
      BY Fields
    <3> HIDE DEF r, n
    <3>2. /\ q \in Controllers /\ q.data_fifo = c.sector_buffer
          /\ q.response = r.response /\ q.xa_sector = r.xa_sector
          /\ q.sector_buffer = r.sector_buffer
      BY <2>2, <3>1 DEF Controllers
    <3>3. e = [q EXCEPT !.drive = n]
      BY <2>2 DEF Controllers
    <3> HIDE DEF q, e
    <3> QED BY <2>3, <3>2, <3>3, DriveChange
  <2>5. /\ r.response.over = {} /\ r.xa_sector = c.xa_sector
        /\ r.sector_buffer = c.sector_buffer
    BY <1>3, RespondFields DEF Int1Ready, IntQueued
  <2>6. n.state = "Reading" /\ n.time = d.time /\ n.int1_generated
    BY DEF Reading
  <2>7. ~d.int1_generated
    BY <1>3 DEF Int1Ready
  <2> HIDE DEF e, r, n
  <2> QED BY <2>1, <2>4, <2>5, <2>6, <2>7 DEF DriveKeeps, Good, Answered, Ordered, Delivers
<1>4. CASE d.cycles # 1 /\ ~Int1Ready(c)
  <2>1. ProgressRead(c) = [c EXCEPT !.drive.cycles = @ - 1]
    BY <1>4 DEF ProgressRead
  <2>2. "cycles" \in DOMAIN c.drive
    BY <1>1 DEF ReadingValues
  <2> QED BY <1>4, <2>1, <2>2, CountDownKeeps
<1> QED BY <1>2, <1>3, <1>4

\* What a reading drive does in a clock: an INT1, the first for the sector read last and with
\* it in the data FIFO, or no INT1 and one sector on, or nothing.
ReadsOn(c, e) ==
  /\ e.drive.state = "Reading" /\ e.drive.time \in Int /\ c.drive.time \in Int
  /\ RaisedInt1(c, e) =>
       /\ e.data_fifo = c.drive.time - 1 /\ ~c.drive.int1_generated
       /\ e.drive.int1_generated /\ e.drive.time = c.drive.time
  /\ ~RaisedInt1(c, e) =>
       /\ e.data_fifo = c.data_fifo
       /\ \/ e.drive.time = c.drive.time + 1
          \/ /\ e.drive.time = c.drive.time
             /\ e.drive.int1_generated = c.drive.int1_generated

LEMMA ProgressReadReadsOn ==
  ASSUME NEW c \in Controllers, Good(c), c.drive.state = "Reading"
  PROVE  ReadsOn(c, ProgressRead(c))
<1> DEFINE d == c.drive
           e == ProgressRead(c)
<1> SUFFICES ReadsOn(c, e)
  OBVIOUS
<1>1. d \in ReadingValues /\ d.time \in Int
  BY Fields, DriveParts DEF ReadingValues
<1>2. CASE d.cycles = 1
  <2>1. e = ReadDataSector(c, d.time)
    BY <1>2 DEF ProgressRead
  <2>2. CASE ~CanRead(d.time)
    <3>1. e = Panic(c)
      BY <2>1, <2>2 DEF ReadDataSector
    <3>2. /\ e.drive = d /\ e.response = c.response /\ e.flags = c.flags
          /\ e.data_fifo = c.data_fifo
      BY <3>1 DEF Panic, Controllers
    <3> HIDE DEF e
    <3> QED BY <1>1, <3>2 DEF ReadsOn, RaisedInt1
  <2>3. CASE CanRead(d.time)
    <3> DEFINE n == Reading(d.time + 1, ~ForHost(c, d.time), CyclesBetweenSectors(c))
               x == IF ForDecoder(c, d.time) THEN d.time ELSE c.xa_sector
    <3>1. e = [c EXCEPT !.sector_buffer = d.time, !.xa_sector = x, !.drive = n]
      BY <2>1, <2>3 DEF ReadDataSector
    <3>2. n.state = "Reading" /\ n.time = d.time + 1
      BY DEF Reading
    <3> HIDE DEF n, x
    <3>3. /\ e.drive = n /\ e.response = c.response /\ e.flags = c.flags
          /\ e.data_fifo = c.data_fifo
      BY <3>1 DEF Controllers
    <3> HIDE DEF e
    <3> QED BY <1>1, <3>2, <3>3 DEF ReadsOn, RaisedInt1
  <2> QED BY <2>2, <2>3
<1>3. CASE d.cycles # 1 /\ Int1Ready(c)
  <2> DEFINE n == Reading(d.time, TRUE, d.cycles - 1)
             r == Respond(c, 1, "Sector")
  <2>1. e = [r EXCEPT !.data_fifo = c.sector_buffer, !.drive = n]
    BY <1>3 DEF ProgressRead
  <2>2. /\ r \in Controllers /\ r.response.of = "Sector"
        /\ r.flags = c.flags \union IntBits(1)
    BY RespondIsController, RespondFields DEF Origins
  <2>4. 0 \in r.flags /\ c.flags = {} /\ ~d.int1_generated
    BY <1>3, <2>2 DEF Int1Ready, IntQueued, IntBits
  <2>5. n.state = "Reading" /\ n.time = d.time /\ n.int1_generated
    BY DEF Reading
  <2>6. c.sector_buffer = d.time - 1
    BY DEF Good, Ordered
  <2> HIDE DEF n, r
  <2>7. /\ e.drive = n /\ e.response = r.response /\ e.flags = r.flags
        /\ e.data_fifo = c.sector_buffer
    BY <2>1, <2>2 DEF Controllers
  <2> HIDE DEF e
  <2> QED BY <1>1, <2>2, <2>4, <2>5, <2>6, <2>7 DEF ReadsOn, RaisedInt1
<1>4. CASE d.cycles # 1 /\ ~Int1Ready(c)
  <2> DEFINE n == [d EXCEPT !.cycles = @ - 1]
  <2>1. e = [c EXCEPT !.drive = n]
    BY <1>4 DEF ProgressRead
  <2>2. n.state = "Reading" /\ n.time = d.time /\ n.int1_generated = d.int1_generated
    BY <1>1 DEF ReadingValues
  <2> HIDE DEF n
  <2>3. /\ e.drive = n /\ e.response = c.response /\ e.flags = c.flags
        /\ e.data_fifo = c.data_fifo
    BY <2>1 DEF Controllers
  <2> HIDE DEF e
  <2> QED BY <1>1, <2>2, <2>3 DEF ReadsOn, RaisedInt1
<1> QED BY <1>2, <1>3, <1>4

\* An answer of the drive that comes with a move: it may overwrite only if it is audio's.
LEMMA AnswersKeep ==
  ASSUME NEW c \in Controllers, Good(c), NEW d \in DriveValues, d.state # "Reading",
         NEW int \in 1 .. 5, NEW of \in Origins,
         of \in {"Report", "DiscEnd", "TrackEnd"} \/ c.flags = {}
  PROVE  DriveKeeps(c, [Respond(c, int, of) EXCEPT !.drive = d])
<1> DEFINE r == Respond(c, int, of)
           e == [r EXCEPT !.drive = d]
<1>1. r \in Controllers
  BY RespondIsController
<1>2. /\ r.response.of = of /\ r.response.over = c.flags /\ r.data_fifo = c.data_fifo
  BY RespondFields
<1>3. e \in Controllers /\ e.drive = d /\ e.response = r.response /\ e.data_fifo = r.data_fifo
  <2> HIDE DEF r
  <2> QED BY <1>1, DriveChange
<1> HIDE DEF e, r
<1>4. Answered(e) /\ Ordered(e)
  BY <1>2, <1>3 DEF Answered, Ordered
<1> QED BY <1>2, <1>3, <1>4 DEF DriveKeeps, Good, Delivers, e, r

\* A sector of audio that is played: it reaches the buffer, and no data is delivered.
LEMMA PlayedKeeps ==
  ASSUME NEW c \in Controllers, Answered(c), NEW d \in DriveValues, d.state # "Reading",
         NEW t \in Times
  PROVE  LET e == [c EXCEPT !.sector_buffer = t, !.drive = d]
         IN Good(e) /\ e.data_fifo = c.data_fifo
<1> DEFINE q == [c EXCEPT !.sector_buffer = t]
           e == [q EXCEPT !.drive = d]
<1>1. q \in Controllers /\ q.response = c.response /\ q.data_fifo = c.data_fifo
  BY DEF Controllers
<1>2. e \in Controllers /\ e.drive = d /\ e.response = q.response /\ e.data_fifo = q.data_fifo
  <2> HIDE DEF q
  <2> QED BY <1>1, DriveChange
<1>3. e = [c EXCEPT !.sector_buffer = t, !.drive = d]
  BY DEF Controllers
<1> HIDE DEF e, q
<1>4. Answered(e) /\ Ordered(e)
  BY <1>1, <1>2 DEF Answered, Ordered
<1> QED BY <1>1, <1>2, <1>3, <1>4 DEF Good

LEMMA ReadAudioSectorKeeps ==
  ASSUME NEW c \in Controllers, Good(c), NEW t \in Int, NEW till \in Int,
         NEW first
  PROVE  DriveKeeps(c, ReadAudioSector(c, t, till, first))
<1> DEFINE n == (IF till = 1 THEN SectorsBetweenReports ELSE till) - 1
           end == IF Len(TrackStart) > 1 /\ c.mode.auto_pause
                  THEN Paused(t - 1, FALSE) ELSE Stopped
           pause == Paused(t - 1, FALSE)
           next == Playing(t + 1, 0, n)
           r == Respond(c, 1, "Report")
           e == ReadAudioSector(c, t, till, first)
<1>1. /\ pause \in DriveValues /\ pause.state # "Reading"
      /\ end \in DriveValues /\ end.state # "Reading"
  <2>1. t - 1 \in Int
    OBVIOUS
  <2>2. pause \in DriveValues /\ Stopped \in DriveValues
    BY <2>1, MadeDrives, Zenon
  <2> QED BY <2>2 DEF Paused, Stopped
<1>2. next \in DriveValues /\ next.state # "Reading"
  <2>1. n \in Int
    BY CyclesArePositive
  <2> HIDE DEF n
  <2>2. next \in DriveValues
    BY <2>1, MadeDrives
  <2> QED BY <2>2 DEF Playing
<1>3. /\ r \in Controllers /\ Answered(r) /\ r.data_fifo = c.data_fifo
  <2>1. r \in Controllers
    BY RespondIsController DEF Origins
  <2>2. r.response.of = "Report" /\ r.data_fifo = c.data_fifo
    BY RespondFields
  <2> QED BY <2>1, <2>2 DEF Answered
<1>4. \/ e = Panic(c)
      \/ e = [Respond(c, 4, "DiscEnd") EXCEPT !.drive = end]
      \/ e = [Respond(c, 4, "TrackEnd") EXCEPT !.drive = pause]
      \/ /\ TracksAt(t) # {}
         /\ \/ e = [r EXCEPT !.sector_buffer = t, !.drive = next]
            \/ e = [c EXCEPT !.sector_buffer = t, !.drive = next]
  BY DEF ReadAudioSector
<1>5. CASE e = Panic(c)
  BY <1>5, PanicKeeps
<1>6. CASE e = [Respond(c, 4, "DiscEnd") EXCEPT !.drive = end]
  <2> HIDE DEF e, end
  <2> QED BY <1>1, <1>6, AnswersKeep, SMTT(30) DEF Origins, e
<1>7. CASE e = [Respond(c, 4, "TrackEnd") EXCEPT !.drive = pause]
  <2> HIDE DEF e, pause
  <2> QED BY <1>1, <1>7, AnswersKeep, SMTT(30) DEF Origins, e
<1>8. CASE TracksAt(t) # {} /\ e = [r EXCEPT !.sector_buffer = t, !.drive = next]
  <2>1. t \in Times
    BY <1>8, ReadableTimes
  <2> HIDE DEF e, r, next
  <2>2. Good(e) /\ e.data_fifo = r.data_fifo
    BY <1>2, <1>3, <1>8, <2>1, PlayedKeeps
  <2> QED BY <1>3, <2>2 DEF DriveKeeps, Delivers, e
<1>9. CASE TracksAt(t) # {} /\ e = [c EXCEPT !.sector_buffer = t, !.drive = next]
  <2>1. t \in Times
    BY <1>9, ReadableTimes
  <2> HIDE DEF e, next
  <2>2. Good(e) /\ e.data_fifo = c.data_fifo
    BY <1>2, <1>9, <2>1, PlayedKeeps DEF Good
  <2> QED BY <2>2 DEF DriveKeeps, Delivers, e
<1> HIDE DEF e, r, end, next, pause
<1> QED BY <1>4, <1>5, <1>6, <1>7, <1>8, <1>9

LEMMA ProgressPlayKeeps ==
  ASSUME NEW c \in Controllers, Good(c), c.drive.state = "Playing"
  PROVE  DriveKeeps(c, ProgressPlay(c))
<1>1. c.drive \in PlayingValues
  BY Fields, DriveParts
<1>2. CASE c.drive.sample_idx + 1 = SamplesPerSector
  <2>1. ProgressPlay(c) = ReadAudioSector(c, c.drive.time, c.drive.till_report, FALSE)
    BY <1>2 DEF ProgressPlay
  <2>2. c.drive.time \in Int /\ c.drive.till_report \in Int
    BY <1>1 DEF PlayingValues
  <2> QED BY <2>1, <2>2, ReadAudioSectorKeeps
<1>3. CASE c.drive.sample_idx + 1 # SamplesPerSector
  <2> DEFINE d == [c.drive EXCEPT !.sample_idx = @ + 1]
  <2>1. ProgressPlay(c) = [c EXCEPT !.drive = d]
    BY <1>3 DEF ProgressPlay
  <2>2. d \in PlayingValues
    BY <1>1 DEF PlayingValues
  <2>3. d \in DriveValues /\ d.state # "Reading"
    BY <2>2 DEF DriveValues, PlayingValues
  <2> HIDE DEF d
  <2> QED BY <2>1, <2>3, MovesKeep
<1> QED BY <1>2, <1>3

LEMMA ArriveKeeps ==
  ASSUME NEW c \in Controllers, Good(c),
         c.drive.state \in {"SpinningUp", "Seeking", "PreparingToRead", "PreparingToPlay"}
  PROVE  DriveKeeps(c, Arrive(c))
<1> DEFINE d == c.drive
           prepare == PrepareSectors * CyclesBetweenSectors(c)
<1>1. prepare \in Positive
  BY PreparePositive
<1> HIDE DEF prepare
<1>2. CASE d.state = "SpinningUp"
  <2>1. d.dest \in Int \union {None} /\ d.next \in Nexts
    BY <1>2, Fields, DriveParts DEF SpinningValues
  <2> DEFINE n == IF d.dest = None THEN Paused(0, TRUE)
                  ELSE Seeking(d.dest, SeekCycles(0, d.dest), d.next)
  <2>2. Arrive(c) = [c EXCEPT !.drive = n]
    BY <1>2 DEF Arrive
  <2>3. n \in DriveValues
    <3>1. CASE d.dest = None
      <4>1. 0 \in Int
        OBVIOUS
      <4> QED BY <3>1, <4>1, MadeDrives, Zenon
    <3>2. CASE d.dest # None
      <4>1. d.dest \in Int /\ SeekCycles(0, d.dest) \in Positive
        BY <2>1, <3>2, SeekCyclesPositive
      <4> QED BY <2>1, <3>2, <4>1, MadeDrives
    <3> QED BY <3>1, <3>2
  <2>4. n.state # "Reading"
    BY DEF Paused, Seeking
  <2> HIDE DEF n
  <2> QED BY <2>2, <2>3, <2>4, MovesKeep
<1>3. CASE d.state = "Seeking"
  <2>1. d.time \in Int /\ d.next \in Nexts
    BY <1>3, Fields, DriveParts DEF SeekingValues
  <2>2. PICK n \in DriveValues : n.state # "Reading" /\ Arrive(c) = [c EXCEPT !.drive = n]
    <3>1. CASE d.next = "Pause"
      <4>1. Arrive(c) = [c EXCEPT !.drive = Paused(d.time, TRUE)]
        BY <1>3, <3>1 DEF Arrive
      <4>2. Paused(d.time, TRUE) \in DriveValues /\ Paused(d.time, TRUE).state # "Reading"
        BY <2>1, MadeDrives DEF Paused
      <4> QED BY <4>1, <4>2
    <3>2. CASE d.next = "Read"
      <4>1. Arrive(c) = [c EXCEPT !.drive = PreparingToRead(d.time, prepare)]
        BY <1>3, <3>2 DEF Arrive, prepare
      <4>2. PreparingToRead(d.time, prepare) \in DriveValues
        BY <1>1, <2>1, MadeDrives
      <4> QED BY <4>1, <4>2 DEF PreparingToRead
    <3>3. CASE d.next = "Play"
      <4>1. Arrive(c) = [c EXCEPT !.drive = PreparingToPlay(d.time, prepare)]
        BY <1>3, <3>3 DEF Arrive, prepare
      <4>2. PreparingToPlay(d.time, prepare) \in DriveValues
        BY <1>1, <2>1, MadeDrives
      <4> QED BY <4>1, <4>2 DEF PreparingToPlay
    <3> QED BY <2>1, <3>1, <3>2, <3>3 DEF Nexts
  <2> QED BY <2>2, MovesKeep
<1>4. CASE d.state = "PreparingToRead"
  <2> DEFINE q == [c EXCEPT !.xa_sector = None]
  <2>1. Arrive(c) = ReadDataSector(q, d.time)
    BY <1>4 DEF Arrive
  <2>2. d.time \in Int
    BY <1>4, Fields, DriveParts DEF IsStoppedOrSpinningUp
  <2>3. /\ q \in Controllers /\ q.xa_sector = None /\ q.drive = c.drive
        /\ q.response = c.response /\ q.data_fifo = c.data_fifo
    BY DEF Controllers
  <2> HIDE DEF q
  <2>4. Good(q)
    BY <1>4, <2>3 DEF Good, Answered, Ordered
  <2>5. DriveKeeps(q, ReadDataSector(q, d.time))
    BY <2>2, <2>3, <2>4, ReadDataSectorKeeps
  <2> QED BY <2>1, <2>3, <2>5 DEF DriveKeeps, Delivers
<1>5. CASE d.state = "PreparingToPlay"
  <2>1. Arrive(c) = ReadAudioSector(c, d.time, 1, TRUE)
    BY <1>5 DEF Arrive
  <2>2. d.time \in Int
    BY <1>5, Fields, DriveParts DEF IsStoppedOrSpinningUp
  <2>3. 1 \in Int
    OBVIOUS
  <2> QED BY <2>1, <2>2, <2>3, ReadAudioSectorKeeps, Zenon
<1> QED BY <1>2, <1>3, <1>4, <1>5

LEMMA AdvanceDriveKeeps ==
  ASSUME NEW c \in Controllers, Good(c)
  PROVE  DriveKeeps(c, AdvanceDrive(c))
<1> DEFINE d == c.drive
<1>1. CASE d.state = "Stopped"
  BY <1>1 DEF AdvanceDrive, DriveKeeps, Delivers
<1>2. CASE d.state = "Paused"
  <2>1. CASE Int2Ready(c)
    <3> DEFINE n == [d EXCEPT !.int2_queued = FALSE]
    <3>1. n \in PausedValues
      BY <1>2, Fields, DriveParts DEF PausedValues
    <3>2. n \in DriveValues /\ n.state # "Reading"
      BY <3>1 DEF DriveValues, PausedValues
    <3>3. AdvanceDrive(c) = [Respond(c, 2, "Drive") EXCEPT !.drive = n]
      <4>1. Respond(c, 2, "Drive").drive = d
        BY RespondFields
      <4> QED BY <1>2, <2>1, <4>1 DEF AdvanceDrive
    <3>4. c.flags = {}
      BY <2>1 DEF Int2Ready, IntQueued
    <3> HIDE DEF n
    <3> QED BY <3>2, <3>3, <3>4, AnswersKeep, SMTT(30) DEF Origins
  <2>2. CASE ~Int2Ready(c)
    BY <1>2, <2>2 DEF AdvanceDrive, DriveKeeps, Delivers
  <2> QED BY <2>1, <2>2
<1>3. CASE d.state = "Reading"
  BY <1>3, ProgressReadKeeps DEF AdvanceDrive
<1>4. CASE d.state = "Playing"
  BY <1>4, ProgressPlayKeeps DEF AdvanceDrive
<1>5. CASE d.state \in {"SpinningUp", "Seeking", "PreparingToRead", "PreparingToPlay"}
  <2>1. CASE d.cycles = 1
    BY <1>5, <2>1, ArriveKeeps DEF AdvanceDrive
  <2>2. CASE d.cycles # 1
    <3>1. "cycles" \in DOMAIN d
      BY <1>5, Fields DEF DriveValues, SpinningValues, SeekingValues, PreparingValues,
                          ReadingValues, PlayingValues, PausedValues
    <3>2. AdvanceDrive(c) = [c EXCEPT !.drive.cycles = @ - 1]
      BY <1>5, <2>2 DEF AdvanceDrive
    <3> QED BY <1>5, <2>2, <3>1, <3>2, CountDownKeeps
  <2> QED BY <2>1, <2>2
<1> QED BY <1>1, <1>2, <1>3, <1>4, <1>5, Fields, DriveParts DEF DriveStates

-----------------------------------------------------------------------------
\* The command processor's half of a clock: it delivers no sector, and the drive goes on as
\* it did or does not read.  A command may first set something, then it answers.
Sets(c, q) ==
  /\ q \in Controllers /\ Ordered(q)
  /\ q.data_fifo = c.data_fifo /\ q.xa_sector = c.xa_sector
  /\ q.drive = c.drive \/ q.drive.state # "Reading"

CommandKeeps(c, e) == Sets(c, e) /\ Answered(e)

LEMMA RespondSets ==
  ASSUME NEW c \in Controllers, NEW q \in Controllers, Sets(c, q),
         NEW int \in 1 .. 5, NEW of \in Origins,
         int = 3 \/ (int = 5 /\ of # "GetId") \/ q.flags = {}
  PROVE  CommandKeeps(c, Respond(q, int, of))
<1> DEFINE r == Respond(q, int, of)
<1>1. r \in Controllers
  BY RespondIsController
<1>2. /\ r.response.int = int /\ r.response.of = of /\ r.response.over = q.flags
      /\ r.drive = q.drive /\ r.sector_buffer = q.sector_buffer
      /\ r.xa_sector = q.xa_sector /\ r.data_fifo = q.data_fifo
  BY RespondFields
<1> HIDE DEF r
<1> QED BY <1>1, <1>2 DEF Sets, CommandKeeps, Answered, Ordered, r

LEMMA BecomesKeeps ==
  ASSUME NEW c \in Controllers, NEW e \in Controllers, CommandKeeps(c, e),
         NEW k \in CommandValues
  PROVE  CommandKeeps(c, Becomes(e, k))
BY CommandChange DEF CommandKeeps, Sets, Answered, Ordered

LEMMA MadeCommands ==
  /\ Idle \in CommandValues
  /\ \A k \in Commands, n \in Positive :
       /\ Receiving(k, n) \in CommandValues
       /\ Queued(k, n) \in CommandValues
       /\ SecondResponse(k, n) \in CommandValues
BY DEF Idle, Receiving, Queued, SecondResponse, CommandValues, Waiting

LEMMA AnswersOfCommands ==
  ASSUME NEW c \in Controllers, NEW q \in Controllers, Sets(c, q), NEW k \in Commands,
         NEW n \in Positive
  PROVE  /\ CommandKeeps(c, Ack(q, k))
         /\ k # "GetId" => CommandKeeps(c, Error(q, k))
         /\ CommandKeeps(c, Then(q, k, n))
<1>1. k \in Origins
  BY DEF Origins
<1>2. CommandKeeps(c, Respond(q, 3, k)) /\ Respond(q, 3, k) \in Controllers
  BY <1>1, RespondSets DEF CommandKeeps, Sets
<1>3. k # "GetId" => CommandKeeps(c, Respond(q, 5, k)) /\ Respond(q, 5, k) \in Controllers
  BY <1>1, RespondSets DEF CommandKeeps, Sets
<1>4. Idle \in CommandValues /\ SecondResponse(k, n) \in CommandValues
  BY MadeCommands
<1> QED BY <1>2, <1>3, <1>4, BecomesKeeps, Zenon DEF Ack, Error, Then, Finished

LEMMA SetsNothing ==
  ASSUME NEW c \in Controllers, Good(c)
  PROVE  Sets(c, c)
BY DEF Sets, Good

LEMMA SetsFields ==
  ASSUME NEW c \in Controllers, Good(c)
  PROVE  /\ \A l \in Int \union {None} : Sets(c, [c EXCEPT !.seek_location = l])
         /\ \A m \in Modes : Sets(c, [c EXCEPT !.mode = m])
         /\ \A f \in {AsFilter[p] : p \in Params} \union {None} :
              Sets(c, [c EXCEPT !.filter = f])
         /\ Sets(c, Panic(c))
<1>1. \A l \in Int \union {None} : Sets(c, [c EXCEPT !.seek_location = l])
  BY DEF Sets, Good, Ordered, Controllers
<1>2. \A m \in Modes : Sets(c, [c EXCEPT !.mode = m])
  BY DEF Sets, Good, Ordered, Controllers
<1>3. \A f \in {AsFilter[p] : p \in Params} \union {None} : Sets(c, [c EXCEPT !.filter = f])
  BY DEF Sets, Good, Ordered, Controllers
<1>4. Sets(c, Panic(c))
  BY ZenonT(30) DEF Sets, Good, Ordered, Controllers, Panic
<1> QED BY <1>1, <1>2, <1>3, <1>4

LEMMA SetsDrive ==
  ASSUME NEW c \in Controllers, Good(c), NEW d \in DriveValues,
         d.state # "Reading" \/ d = c.drive
  PROVE  /\ Sets(c, [c EXCEPT !.drive = d])
         /\ \A l \in Int \union {None} :
              Sets(c, [c EXCEPT !.seek_location = l, !.drive = d])
<1>1. Sets(c, [c EXCEPT !.drive = d])
  <2> DEFINE e == [c EXCEPT !.drive = d]
  <2>1. /\ e \in Controllers /\ e.drive = d /\ e.sector_buffer = c.sector_buffer
        /\ e.xa_sector = c.xa_sector /\ e.data_fifo = c.data_fifo
    BY DriveChange
  <2> HIDE DEF e
  <2> QED BY <2>1 DEF Sets, Good, Ordered, e
<1>2. ASSUME NEW l \in Int \union {None}
      PROVE  Sets(c, [c EXCEPT !.seek_location = l, !.drive = d])
  <2> DEFINE q == [c EXCEPT !.seek_location = l]
             e == [q EXCEPT !.drive = d]
  <2>1. /\ q \in Controllers /\ q.sector_buffer = c.sector_buffer
        /\ q.xa_sector = c.xa_sector /\ q.data_fifo = c.data_fifo /\ q.drive = c.drive
    BY DEF Controllers
  <2>2. /\ e \in Controllers /\ e.drive = d /\ e.sector_buffer = q.sector_buffer
        /\ e.xa_sector = q.xa_sector /\ e.data_fifo = q.data_fifo
    <3> HIDE DEF q
    <3> QED BY <2>1, DriveChange
  <2>3. e = [c EXCEPT !.seek_location = l, !.drive = d]
    BY DEF Controllers
  <2> HIDE DEF q, e
  <2>4. Ordered(e)
    BY <2>1, <2>2 DEF Good, Ordered
  <2> QED BY <2>1, <2>2, <2>3, <2>4 DEF Sets
<1> QED BY <1>1, <1>2

LEMMA PanicAnswers ==
  ASSUME NEW c \in Controllers, Good(c)
  PROVE  CommandKeeps(c, Panic(c))
<1>1. Answered(Panic(c))
  BY DEF Good, Answered, Controllers, Panic
<1> QED BY <1>1, SetsFields DEF CommandKeeps

LEMMA TargetIsTime ==
  ASSUME NEW c \in Controllers
  PROVE  Target(c) \in Int
BY Fields, DriveParts DEF Target

\* The commands that set something from their parameter.
LEMMA SettersKeep ==
  ASSUME NEW c \in Controllers, Good(c)
  PROVE  CommandKeeps(c, SetLoc(c)) /\ CommandKeeps(c, SetMode(c)) /\ CommandKeeps(c, SetFilter(c))
<1> DEFINE p == c.param
<1>1. p = None \/ p \in Params
  BY Fields
<1>2. {"SetLoc", "SetMode", "SetFilter"} \subseteq Commands
  BY DEF Commands
<1>3. 1 \in Positive
  BY DEF Positive
<1>4. \A k \in {"SetLoc", "SetMode", "SetFilter"} : CommandKeeps(c, Error(c, k))
  BY <1>2, <1>3, SetsNothing, AnswersOfCommands
<1>5. CommandKeeps(c, SetLoc(c))
  <2>1. CASE p = None \/ AsTime[p] = Invalid
    BY <1>4, <2>1 DEF SetLoc
  <2>2. CASE p # None /\ AsTime[p] # Invalid
    <3> DEFINE q == [c EXCEPT !.seek_location = AsTime[p]]
    <3>1. AsTime[p] \in Int \union {None}
      BY <1>1, <2>2, ParametersAssumption
    <3>2. Sets(c, q)
      BY <3>1, SetsFields, Zenon
    <3>3. SetLoc(c) = Ack(q, "SetLoc")
      BY <2>2 DEF SetLoc
    <3> HIDE DEF q
    <3> QED BY <1>2, <1>3, <3>2, <3>3, AnswersOfCommands DEF Sets
  <2> QED BY <2>1, <2>2
<1>6. CommandKeeps(c, SetMode(c))
  <2>1. CASE p = None
    BY <1>4, <2>1 DEF SetMode
  <2>2. CASE p # None
    <3> DEFINE q == [c EXCEPT !.mode = AsMode[p]]
    <3>1. AsMode[p] \in Modes
      BY <1>1, <2>2, ParametersAssumption
    <3>2. Sets(c, q)
      BY <3>1, SetsFields, Zenon
    <3>3. SetMode(c) = Ack(q, "SetMode")
      BY <2>2 DEF SetMode
    <3> HIDE DEF q
    <3> QED BY <1>2, <1>3, <3>2, <3>3, AnswersOfCommands DEF Sets
  <2> QED BY <2>1, <2>2
<1>7. CommandKeeps(c, SetFilter(c))
  <2>1. CASE p = None
    BY <1>4, <2>1 DEF SetFilter
  <2>2. CASE p # None
    <3> DEFINE q == [c EXCEPT !.filter = AsFilter[p]]
    <3>1. AsFilter[p] \in {AsFilter[x] : x \in Params} \union {None}
      BY <1>1, <2>2
    <3>2. Sets(c, q)
      BY <3>1, SetsFields, Zenon
    <3>3. SetFilter(c) = Ack(q, "SetFilter")
      BY <2>2 DEF SetFilter
    <3> HIDE DEF q
    <3> QED BY <1>2, <1>3, <3>2, <3>3, AnswersOfCommands DEF Sets
  <2> QED BY <2>1, <2>2
<1> QED BY <1>5, <1>6, <1>7

\* The commands that only answer, or end in a panic.
LEMMA AnswerersKeep ==
  ASSUME NEW c \in Controllers, Good(c)
  PROVE  /\ CommandKeeps(c, GetTD(c)) /\ CommandKeeps(c, Test(c))
         /\ CommandKeeps(c, GetLocL(c)) /\ CommandKeeps(c, GetLocP(c))
<1>1. CommandKeeps(c, Panic(c))
  BY PanicAnswers
<1>2. 1 \in Positive
  BY DEF Positive
<1>3. \A k \in {"GetTD", "Test", "GetLocL", "GetLocP"} :
        CommandKeeps(c, Ack(c, k)) /\ CommandKeeps(c, Error(c, k))
  <2>1. {"GetTD", "Test", "GetLocL", "GetLocP"} \subseteq Commands
    BY DEF Commands
  <2> QED BY <1>2, <2>1, SetsNothing, AnswersOfCommands
<1> QED BY <1>1, <1>3 DEF GetTD, Test, GetLocL, GetLocP

\* The commands that move the drive.
LEMMA SeekersKeep ==
  ASSUME NEW c \in Controllers, Good(c)
  PROVE  CommandKeeps(c, Seek(c)) /\ CommandKeeps(c, Read(c)) /\ CommandKeeps(c, Play(c))
<1>1. {"SeekL", "ReadN", "Play"} \subseteq Commands /\ 1 \in Positive
  BY DEF Commands, Positive
<1>2. \A q : Sets(c, q) => /\ CommandKeeps(c, Ack(q, "SeekL")) /\ CommandKeeps(c, Ack(q, "ReadN"))
                           /\ CommandKeeps(c, Ack(q, "Play"))
  BY <1>1, AnswersOfCommands DEF Sets
<1>3. \A t \in Int, next \in Nexts, l \in Int \union {None} :
        Sets(c, [c EXCEPT !.seek_location = l, !.drive = SeekFrom(c.drive, t, next)])
  <2> SUFFICES ASSUME NEW t \in Int, NEW next \in Nexts, NEW l \in Int \union {None}
               PROVE  Sets(c, [c EXCEPT !.seek_location = l,
                                        !.drive = SeekFrom(c.drive, t, next)])
    OBVIOUS
  <2>1. PICK d \in DriveValues : d = SeekFrom(c.drive, t, next) /\ d.state # "Reading"
    BY Fields, SeekFromDrives
  <2>2. Sets(c, [c EXCEPT !.seek_location = l, !.drive = d])
    BY <2>1, SetsDrive
  <2> QED BY <2>1, <2>2
<1>4. {"Pause", "Read", "Play"} \subseteq Nexts /\ None \in Int \union {None}
  BY DEF Nexts
<1>5. CommandKeeps(c, Seek(c))
  <2>1. Sets(c, [c EXCEPT !.seek_location = None, !.drive = SeekFrom(c.drive, Target(c), "Pause")])
    BY <1>3, <1>4, TargetIsTime
  <2> QED BY <1>2, <2>1 DEF Seek
<1>6. CommandKeeps(c, Read(c))
  <2>1. CASE c.drive.state = "Reading" /\ c.drive.time = Target(c)
    <3>1. Sets(c, [c EXCEPT !.seek_location = None, !.drive = c.drive])
      BY <1>4, Fields, SetsDrive
    <3> QED BY <1>2, <2>1, <3>1 DEF Read
  <2>2. CASE ~(c.drive.state = "Reading" /\ c.drive.time = Target(c))
    <3>1. Sets(c, [c EXCEPT !.seek_location = None, !.drive = SeekFrom(c.drive, Target(c), "Read")])
      BY <1>3, <1>4, TargetIsTime
    <3> QED BY <1>2, <2>2, <3>1 DEF Read
  <2> QED BY <2>1, <2>2
<1>7. CommandKeeps(c, Play(c))
  <2> DEFINE track == IF c.param = None THEN 0 ELSE AsTrack[c.param]
             start == IF track = 0 THEN Target(c)
                      ELSE TrackIndex1[((track - 1) % Len(TrackStart)) + 1]
             l == IF track = 0 THEN None ELSE c.seek_location
  <2>1. CASE ~HasDisc
    BY <2>1, PanicAnswers DEF Play
  <2>2. CASE HasDisc
    <3>1. track \in Nat
      BY Fields, ParametersAssumption
    <3>2. start \in Int
      <4>1. Len(TrackStart) \in Nat /\ Len(TrackStart) > 0
        BY <2>2, DiscAssumption
      <4>2. CASE track # 0
        <5>1. ((track - 1) % Len(TrackStart)) + 1 \in 1 .. Len(TrackStart)
          <6> HIDE DEF track
          <6>1. track - 1 \in Nat
            BY <3>1, <4>2
          <6> QED BY <4>1, <6>1
        <5>2. TrackIndex1[((track - 1) % Len(TrackStart)) + 1] \in Nat
          <6> HIDE DEF track
          <6> QED BY <5>1, DiscAssumption
        <5> HIDE DEF track
        <5> QED BY <4>2, <5>2
      <4> QED BY <4>2, TargetIsTime
    <3>3. l \in Int \union {None}
      BY Fields
    <3>4. Play(c) = Ack([c EXCEPT !.seek_location = l,
                                  !.drive = SeekFrom(c.drive, start, "Play")], "Play")
      BY <2>2 DEF Play
    <3> HIDE DEF track, start, l
    <3>5. Sets(c, [c EXCEPT !.seek_location = l, !.drive = SeekFrom(c.drive, start, "Play")])
      BY <1>3, <1>4, <3>2, <3>3
    <3> QED BY <1>2, <3>4, <3>5
  <2> QED BY <2>1, <2>2, DiscAssumption
<1> QED BY <1>5, <1>6, <1>7

LEMMA HaltSets ==
  ASSUME NEW c \in Controllers, Good(c)
  PROVE  /\ Sets(c, Halt(c)) /\ Answered(Halt(c)) /\ Halt(c).mode = c.mode
         /\ IsStoppedOrSpinningUp(c.drive) => Halt(c).drive = c.drive
         /\ ~IsStoppedOrSpinningUp(c.drive) => Halt(c).drive = Paused(CurrentTime(c.drive), FALSE)
<1>1. CurrentTime(c.drive) \in Int
  BY Fields, DriveParts
<1>2. Paused(CurrentTime(c.drive), FALSE) \in DriveValues
  BY <1>1, MadeDrives
<1>3. PICK d \in DriveValues :
        /\ d = IF IsStoppedOrSpinningUp(c.drive) THEN c.drive ELSE Paused(CurrentTime(c.drive), FALSE)
        /\ d.state # "Reading" \/ d = c.drive
  BY <1>2, Fields DEF Paused
<1>4. Halt(c) = [c EXCEPT !.drive = d]
  BY <1>3 DEF Halt
<1>5. Sets(c, [c EXCEPT !.drive = d])
  BY <1>3, SetsDrive
<1> QED BY <1>3, <1>4, <1>5, DriveChange, ZenonT(30) DEF Good, Answered, Controllers

\* The commands that stop the drive or start its motor.
LEMMA MotorsKeep ==
  ASSUME NEW c \in Controllers, Good(c)
  PROVE  /\ CommandKeeps(c, Pause(c)) /\ CommandKeeps(c, Stop(c))
         /\ CommandKeeps(c, MotorOn(c)) /\ CommandKeeps(c, InitCommand(c))
<1>1. {"Pause", "Stop", "MotorOn", "Init"} \subseteq Commands /\ 1 \in Positive
  BY DEF Commands, Positive
<1>2. ASSUME NEW q, Sets(c, q), NEW k \in {"Pause", "Stop", "MotorOn", "Init"},
             NEW n \in Positive
      PROVE  CommandKeeps(c, Ack(q, k)) /\ CommandKeeps(c, Error(q, k)) /\ CommandKeeps(c, Then(q, k, n))
  BY <1>1, <1>2, AnswersOfCommands DEF Sets
<1>3. SpinUpCycles \in Positive /\ SecondCycles["Stop"] \in Positive /\ SecondCycles["Init"] \in Positive
  BY CyclesArePositive DEF Positive
<1>4. "Pause" \in Nexts /\ None \in Int \union {None}
  BY DEF Nexts
<1>5. CommandKeeps(c, Pause(c))
  <2>1. CurrentTime(c.drive) \in Int
    BY Fields, DriveParts
  <2>2. PICK d \in DriveValues : d = Paused(CurrentTime(c.drive), FALSE) /\ d.state = "Paused"
    BY <2>1, MadeDrives DEF Paused
  <2>3. Sets(c, [c EXCEPT !.drive = d])
    BY <2>2, SetsDrive
  <2>4. Pause(c) = Then([c EXCEPT !.drive = d], "Pause", PrepareSectors * CyclesBetweenSectors(c))
    BY <2>2 DEF Pause
  <2> QED BY <1>2, <2>3, <2>4, PreparePositive
<1>6. CommandKeeps(c, Stop(c))
  BY <1>2, <1>3, HaltSets DEF Stop
<1>7. CommandKeeps(c, MotorOn(c))
  <2>1. CommandKeeps(c, Error(c, "MotorOn"))
    BY <1>1, <1>2, SetsNothing
  <2>2. PICK d \in DriveValues :
          d = SpinningUp(SpinUpCycles, "Pause", None) /\ d.state # "Reading"
    BY <1>3, <1>4, MadeDrives DEF SpinningUp
  <2>3. Sets(c, [c EXCEPT !.drive = d])
    BY <2>2, SetsDrive
  <2>4. CommandKeeps(c, Ack([c EXCEPT !.drive = d], "MotorOn"))
    BY <1>1, <1>2, <2>3
  <2> QED BY <2>1, <2>2, <2>4 DEF MotorOn
<1>8. CommandKeeps(c, InitCommand(c))
  <2> DEFINE h == [Halt(c) EXCEPT !.mode = InitMode]
  <2>1. Good(Halt(c)) /\ Halt(c) \in Controllers
    BY HaltSets DEF Good, Sets
  <2>2. InitMode \in Modes
    BY DEF InitMode, Modes
  <2>3. Sets(Halt(c), h)
    BY <2>1, <2>2, SetsFields
  <2>4. Answered(h) /\ h.drive = Halt(c).drive
    BY <2>1 DEF Good, Answered, Controllers
  <2>5. Sets(c, h) /\ Good(h) /\ h \in Controllers
    BY <2>3, <2>4, HaltSets DEF Sets, Good
  <2> HIDE DEF h
  <2>6. CASE c.drive.state = "Stopped"
    <3>1. PICK d \in DriveValues :
            d = SpinningUp(SpinUpCycles, "Pause", None) /\ d.state # "Reading"
      BY <1>3, <1>4, MadeDrives DEF SpinningUp
    <3>2. Sets(h, [h EXCEPT !.drive = d])
      BY <2>5, <3>1, SetsDrive
    <3>3. Sets(c, [h EXCEPT !.drive = d])
      BY <2>5, <3>2 DEF Sets
    <3>4. InitCommand(c) = Ack([h EXCEPT !.drive = d], "Init")
      BY <2>6, <3>1 DEF InitCommand, h
    <3> QED BY <1>1, <1>2, <3>3, <3>4
  <2>7. CASE c.drive.state = "SpinningUp"
    <3>1. h.drive = c.drive /\ c.drive.cycles \in Positive
      BY <2>4, <2>7, HaltSets, Fields, DriveParts DEF IsStoppedOrSpinningUp
    <3>2. PICK d \in DriveValues :
            d = SpinningUp(h.drive.cycles, "Pause", None) /\ d.state # "Reading"
      BY <1>4, <3>1, MadeDrives DEF SpinningUp
    <3>3. Sets(h, [h EXCEPT !.drive = d])
      BY <2>5, <3>2, SetsDrive
    <3>4. Sets(c, [h EXCEPT !.drive = d])
      BY <2>5, <3>3 DEF Sets
    <3>5. InitCommand(c) = Ack([h EXCEPT !.drive = d], "Init")
      BY <2>7, <3>2 DEF InitCommand, h
    <3> QED BY <1>1, <1>2, <3>4, <3>5
  <2>8. CASE c.drive.state \notin {"Stopped", "SpinningUp"}
    <3>1. InitCommand(c) = Then(h, "Init", SecondCycles["Init"])
      BY <2>8 DEF InitCommand, h
    <3> QED BY <1>2, <1>3, <2>5, <3>1
  <2> QED BY <2>6, <2>7, <2>8
<1> QED BY <1>5, <1>6, <1>7, <1>8

LEMMA ExecuteKeeps ==
  ASSUME NEW c \in Controllers, Good(c), NEW command \in Commands
  PROVE  CommandKeeps(c, Execute(c, command))
<1>1. Sets(c, c) /\ 1 \in Positive
  BY SetsNothing DEF Positive
<1>2. PICK done :
        /\ CommandKeeps(c, done)
        /\ Execute(c, command) = [done EXCEPT !.param = None]
  <2>1. CASE command \in {"GetStat", "GetTN", "Mute", "Demute"}
    <3>1. CommandKeeps(c, Ack(c, command))
      BY <1>1, AnswersOfCommands
    <3>2. Execute(c, command) = [Ack(c, command) EXCEPT !.param = None]
      BY <2>1 DEF Execute
    <3> QED BY <3>1, <3>2
  <2>2. CASE command \in {"GetId", "ReadToc"}
    <3>1. SecondCycles[command] \in Positive
      BY <2>2, CyclesArePositive DEF Positive
    <3>2. CommandKeeps(c, Then(c, command, SecondCycles[command]))
      BY <1>1, <3>1, AnswersOfCommands
    <3>3. Execute(c, command) = [Then(c, command, SecondCycles[command]) EXCEPT !.param = None]
      BY <2>2 DEF Execute
    <3> QED BY <3>2, <3>3
  <2>3. CASE command \in {"SetLoc", "SetMode", "SetFilter"}
    BY <2>3, SettersKeep DEF Execute
  <2>4. CASE command \in {"GetTD", "Test", "GetLocL", "GetLocP"}
    BY <2>4, AnswerersKeep DEF Execute
  <2>5. CASE command \in {"SeekL", "ReadN", "Play"}
    BY <2>5, SeekersKeep DEF Execute
  <2>6. CASE command \in {"Pause", "Stop", "MotorOn", "Init"}
    BY <2>6, MotorsKeep DEF Execute
  <2> QED BY <2>1, <2>2, <2>3, <2>4, <2>5, <2>6 DEF Commands
<1>3. done \in Controllers
  BY <1>2 DEF CommandKeeps, Sets
<1> DEFINE e == [done EXCEPT !.param = None]
<1>4. /\ e \in Controllers /\ e.drive = done.drive /\ e.response = done.response
      /\ e.sector_buffer = done.sector_buffer /\ e.xa_sector = done.xa_sector
      /\ e.data_fifo = done.data_fifo
  BY <1>3 DEF Controllers
<1> HIDE DEF e
<1> QED BY <1>2, <1>4 DEF CommandKeeps, Sets, Answered, Ordered, e

LEMMA SecondResponseKeeps ==
  ASSUME NEW c \in Controllers, Good(c), NEW command \in Commands, c.flags = {}
  PROVE  CommandKeeps(c, SecondResponseOf(c, command))
<1>1. \A e : CommandKeeps(c, e) => CommandKeeps(c, Finished(e))
  BY MadeCommands, BecomesKeeps DEF Finished, CommandKeeps, Sets
<1>2. command \in Origins /\ "GetId" \in Origins /\ "Stop" \in Origins
  BY DEF Origins, Commands
<1>3. CASE command = "GetId"
  <2>1. CommandKeeps(c, Respond(c, IF HasDisc THEN 2 ELSE 5, "GetId"))
    BY <1>2, SetsNothing, RespondSets
  <2> QED BY <1>1, <1>3, <2>1 DEF SecondResponseOf
<1>4. CASE command = "Stop"
  <2>1. Stopped \in DriveValues /\ Stopped.state # "Reading"
    BY MadeDrives DEF Stopped
  <2>2. Sets(c, [c EXCEPT !.drive = Stopped]) /\ [c EXCEPT !.drive = Stopped].flags = {}
    BY <2>1, SetsDrive, DriveChange
  <2>3. CommandKeeps(c, Respond([c EXCEPT !.drive = Stopped], 2, "Stop"))
    <3> DEFINE q == [c EXCEPT !.drive = Stopped]
    <3>1. q \in Controllers /\ Sets(c, q) /\ q.flags = {}
      BY <2>2 DEF Sets
    <3> HIDE DEF q
    <3>2. CommandKeeps(c, Respond(q, 2, "Stop"))
      BY <1>2, <3>1, RespondSets
    <3> QED BY <3>2 DEF q
  <2> QED BY <1>1, <1>4, <2>3 DEF SecondResponseOf
<1>5. CASE command \notin {"GetId", "Stop"}
  <2>1. CommandKeeps(c, Respond(c, 2, command))
    BY <1>2, SetsNothing, RespondSets
  <2> QED BY <1>1, <1>5, <2>1 DEF SecondResponseOf
<1> QED BY <1>3, <1>4, <1>5

LEMMA AdvanceCommandKeeps ==
  ASSUME NEW c \in Controllers, Good(c)
  PROVE  CommandKeeps(c, AdvanceCommand(c))
<1> DEFINE k == c.command
<1>1. CommandKeeps(c, c)
  BY SetsNothing DEF CommandKeeps, Good
<1>2. \/ k.state = "Idle"
      \/ k.state \in Waiting /\ k.command \in Commands /\ k.cycles \in Positive
  BY Fields DEF CommandValues
<1>3. CASE k.state = "Idle"
  BY <1>1, <1>3 DEF AdvanceCommand
<1>4. CASE k.state = "CommandQueued"
  <2>1. Receiving(k.command, k.cycles) \in CommandValues
    BY <1>2, <1>4, MadeCommands
  <2>2. CommandKeeps(c, Becomes(c, Receiving(k.command, k.cycles)))
    BY <1>1, <2>1, BecomesKeeps
  <2> QED BY <1>1, <1>4, <2>2 DEF AdvanceCommand
<1>5. CASE k.state \in {"ReceivingCommand", "GeneratingSecondResponse"} /\ k.cycles > 1
  <2> DEFINE n == [k EXCEPT !.cycles = @ - 1]
  <2>1. n \in CommandValues
    BY <1>5, Fields DEF CommandValues, Waiting, Positive
  <2>2. AdvanceCommand(c) = Becomes(c, n)
    BY <1>5 DEF AdvanceCommand, Becomes
  <2> HIDE DEF n
  <2> QED BY <1>1, <2>1, <2>2, BecomesKeeps
<1>6. CASE k.state = "ReceivingCommand" /\ ~(k.cycles > 1)
  BY <1>2, <1>6, ExecuteKeeps DEF AdvanceCommand
<1>7. CASE k.state = "GeneratingSecondResponse" /\ ~(k.cycles > 1)
  <2>1. CASE SecondReady(c)
    <3>1. c.flags = {}
      BY <2>1 DEF SecondReady, IntQueued
    <3> QED BY <1>2, <1>7, <2>1, <3>1, SecondResponseKeeps DEF AdvanceCommand
  <2>2. CASE ~SecondReady(c)
    BY <1>1, <1>7, <2>2 DEF AdvanceCommand
  <2> QED BY <2>1, <2>2
<1> QED BY <1>2, <1>3, <1>4, <1>5, <1>6, <1>7 DEF Waiting

-----------------------------------------------------------------------------
\* The edge detector remembers an interrupt exactly when one was pending all the time
\* since the last clock.
Edge(c, cl) == ~c.panicked => c.prev_pending = ~cl /\ (c.prev_pending => Pending(c))

\* The sectors the host has heard of lie before the next one, and before the last one too
\* as long as that one waits for its INT1.
Behind(c, h) ==
  c.drive.state = "Reading" =>
    \A k \in DOMAIN h : /\ h[k] < c.drive.time
                        /\ ~c.drive.int1_generated => h[k] < c.drive.time - 1

IInv ==
  /\ cd \in Controllers /\ Good(cd)
  /\ istat \in BOOLEAN /\ clear \in BOOLEAN
  /\ Edge(cd, clear)
  /\ heard \in Seq(Times) /\ Behind(cd, heard)

LEMMA InitIsGood == Init => IInv
<1> SUFFICES ASSUME Init PROVE IInv
  OBVIOUS
<1>1. InitMode \in Modes /\ Idle \in CommandValues /\ Stopped \in DriveValues
  BY MadeCommands, MadeDrives DEF InitMode, Modes
<1>2. cd \in Controllers
  BY <1>1 DEF Init, Controllers
<1>3. /\ cd.response = None /\ cd.drive = Stopped /\ cd.prev_pending = FALSE
      /\ istat = FALSE /\ clear = TRUE /\ heard = <<>>
  BY DEF Init
<1>4. Stopped.state # "Reading"
  BY DEF Stopped
<1>5. Good(cd)
  BY <1>2, <1>3, <1>4 DEF Good, Answered, Ordered
<1>6. Edge(cd, clear)
  BY <1>3 DEF Edge
<1>7. heard \in Seq(Times) /\ Behind(cd, heard)
  BY <1>3, <1>4 DEF Behind
<1> QED BY <1>2, <1>3, <1>5, <1>6, <1>7 DEF IInv

\* What a clock does to the controller, before the edge detector: d is the controller
\* after the drive's half, c the one after both.
LEMMA ClockParts ==
  ASSUME IInv, Clock
  PROVE  \E c \in Controllers, d \in Controllers :
           /\ Good(c) /\ Delivers(cd, c)
           /\ cd.drive.state = "Reading" => ReadsOn(cd, d)
           /\ c.data_fifo = d.data_fifo /\ (c.drive = d.drive \/ c.drive.state # "Reading")
           /\ cd' = [c EXCEPT !.prev_pending = IF c.panicked THEN @ ELSE Pending(c)]
           /\ istat' = (istat \/ (~c.panicked /\ ~cd.prev_pending /\ Pending(c)))
           /\ clear' = ~Pending(c)
           /\ heard' = HeardAfter(cd, d)
<1> DEFINE d == AdvanceDrive(cd)
           c == IF d.panicked THEN d ELSE AdvanceCommand(d)
<1>1. DriveKeeps(cd, d)
  BY AdvanceDriveKeeps DEF IInv
<1>2. Good(d) /\ Delivers(cd, d) /\ d \in Controllers
  BY <1>1 DEF DriveKeeps, Good
<1>3. cd.drive.state = "Reading" => ReadsOn(cd, d)
  BY ProgressReadReadsOn DEF IInv, AdvanceDrive
<1> HIDE DEF d
<1>4. CommandKeeps(d, AdvanceCommand(d))
  BY <1>2, AdvanceCommandKeeps
<1>5. /\ c \in Controllers /\ Good(c) /\ c.data_fifo = d.data_fifo /\ c.xa_sector = d.xa_sector
      /\ c.drive = d.drive \/ c.drive.state # "Reading"
  BY <1>2, <1>4 DEF CommandKeeps, Sets, Good
<1>6. Delivers(cd, c)
  BY <1>2, <1>5 DEF Delivers
<1>7. /\ cd' = [c EXCEPT !.prev_pending = IF c.panicked THEN @ ELSE Pending(c)]
      /\ istat' = (istat \/ (~c.panicked /\ ~cd.prev_pending /\ Pending(c)))
      /\ clear' = ~Pending(c)
      /\ heard' = HeardAfter(cd, d)
  BY DEF Clock, d
<1> HIDE DEF c
<1> QED BY <1>2, <1>3, <1>5, <1>6, <1>7

\* What the host hears in the drive's half of a clock.
InOrder(c, h, e, g) ==
  /\ g \notin {h, <<>>} =>
       /\ e.data_fifo = c.drive.time - 1
       /\ \A k \in DOMAIN h : h[k] < e.data_fifo
  /\ e.data_fifo # c.data_fifo => g = Append(h, e.data_fifo)

LEMMA HearsInOrder ==
  ASSUME IInv, NEW d \in Controllers, NEW c \in Controllers, Delivers(cd, c),
         cd.drive.state = "Reading" => ReadsOn(cd, d),
         c.data_fifo = d.data_fifo, c.drive = d.drive \/ c.drive.state # "Reading"
  PROVE  LET g == HeardAfter(cd, d)
         IN g \in Seq(Times) /\ Behind(c, g) /\ InOrder(cd, heard, c, g)
<1> DEFINE g == HeardAfter(cd, d)
<1>0. \A k \in DOMAIN heard : heard[k] \in Int
  <2>1. heard \in Seq(Times) /\ Times \subseteq Int
    BY DEF IInv, Times
  <2>2. \A k \in 1 .. Len(heard) : heard[k] \in Times
    BY <2>1
  <2>3. DOMAIN heard = 1 .. Len(heard)
    BY <2>1
  <2> QED BY <2>1, <2>2, <2>3
<1>1. CASE cd.drive.state # "Reading"
  <2>1. g = <<>> /\ c.data_fifo = cd.data_fifo
    BY <1>1 DEF HeardAfter, Delivers
  <2> QED BY <2>1 DEF Behind, InOrder
<1>2. CASE cd.drive.state = "Reading" /\ ~RaisedInt1(cd, d)
  <2>1. g = heard
    BY <1>2 DEF HeardAfter
  <2>2. /\ d.data_fifo = cd.data_fifo /\ d.drive.state = "Reading"
        /\ d.drive.time \in Int /\ cd.drive.time \in Int
        /\ \/ d.drive.time = cd.drive.time + 1
           \/ /\ d.drive.time = cd.drive.time
              /\ d.drive.int1_generated = cd.drive.int1_generated
    BY <1>2 DEF ReadsOn
  <2>3. \A k \in DOMAIN heard :
          /\ heard[k] \in Int
          /\ heard[k] < cd.drive.time
          /\ ~cd.drive.int1_generated => heard[k] < cd.drive.time - 1
    BY <1>0, <1>2 DEF IInv, Behind
  <2>4. Behind(d, heard)
    BY <2>2, <2>3 DEF Behind
  <2>5. Behind(c, heard)
    BY <2>4 DEF Behind
  <2> QED BY <2>1, <2>2, <2>5 DEF IInv, InOrder
<1>3. CASE cd.drive.state = "Reading" /\ RaisedInt1(cd, d)
  <2>1. g = Append(heard, d.data_fifo)
    BY <1>3 DEF HeardAfter
  <2>2. /\ d.data_fifo = cd.drive.time - 1 /\ ~cd.drive.int1_generated
        /\ d.drive.int1_generated /\ d.drive.time = cd.drive.time
        /\ cd.drive.time \in Int
    BY <1>3 DEF ReadsOn
  <2>3. d.data_fifo \in Times
    BY <2>2, Fields, ParametersAssumption
  <2>4. \A k \in DOMAIN heard : heard[k] \in Int /\ heard[k] < cd.drive.time - 1
    BY <1>0, <1>3, <2>2 DEF IInv, Behind
  <2>5. /\ g \in Seq(Times) /\ DOMAIN g = 1 .. Len(heard) + 1 /\ DOMAIN heard = 1 .. Len(heard)
        /\ \A k \in 1 .. Len(heard) : g[k] = heard[k]
        /\ g[Len(heard) + 1] = d.data_fifo /\ Len(heard) \in Nat
    BY <2>1, <2>3 DEF IInv
  <2> HIDE DEF g
  <2>6. \A k \in DOMAIN g : g[k] < cd.drive.time
    <3> SUFFICES ASSUME NEW k \in DOMAIN g PROVE g[k] < cd.drive.time
      OBVIOUS
    <3>1. CASE k \in 1 .. Len(heard)
      BY <2>2, <2>4, <2>5, <3>1
    <3>2. CASE k = Len(heard) + 1
      BY <2>2, <2>5, <3>2
    <3> QED BY <2>5, <3>1, <3>2
  <2>7. Behind(c, g)
    BY <2>2, <2>6 DEF Behind
  <2>8. InOrder(cd, heard, c, g)
    BY <2>1, <2>2, <2>4 DEF InOrder
  <2> QED BY <2>5, <2>7, <2>8 DEF g
<1> QED BY <1>1, <1>2, <1>3

LEMMA PendingFields ==
  ASSUME NEW c \in Controllers, NEW p \in BOOLEAN
  PROVE  LET e == [c EXCEPT !.prev_pending = p]
         IN /\ e \in Controllers /\ (Good(c) => Good(e)) /\ Pending(e) = Pending(c)
            /\ e.prev_pending = p /\ e.panicked = c.panicked /\ e.drive = c.drive
            /\ e.data_fifo = c.data_fifo /\ e.xa_sector = c.xa_sector
            /\ e.response = c.response /\ e.sector_buffer = c.sector_buffer
<1> DEFINE e == [c EXCEPT !.prev_pending = p]
<1>1. /\ e \in Controllers /\ e.prev_pending = p /\ e.panicked = c.panicked
      /\ e.drive = c.drive /\ e.data_fifo = c.data_fifo /\ e.xa_sector = c.xa_sector
      /\ e.response = c.response /\ e.sector_buffer = c.sector_buffer
      /\ e.enabled = c.enabled /\ e.flags = c.flags
  BY DEF Controllers
<1> HIDE DEF e
<1>2. Good(c) => Good(e)
  BY <1>1 DEF Good, Answered, Ordered
<1>3. Pending(e) = Pending(c)
  BY <1>1 DEF Pending
<1> QED BY <1>1, <1>2, <1>3 DEF e

LEMMA ClockStep ==
  ASSUME IInv, Clock
  PROVE  /\ IInv'
         /\ Delivers(cd, cd') /\ InOrder(cd, heard, cd', heard')
         /\ ~cd'.panicked => istat' = (istat \/ (clear /\ Pending(cd')))
<1>1. PICK c \in Controllers, d \in Controllers :
        /\ Good(c) /\ Delivers(cd, c)
        /\ cd.drive.state = "Reading" => ReadsOn(cd, d)
        /\ c.data_fifo = d.data_fifo /\ (c.drive = d.drive \/ c.drive.state # "Reading")
        /\ cd' = [c EXCEPT !.prev_pending = IF c.panicked THEN @ ELSE Pending(c)]
        /\ istat' = (istat \/ (~c.panicked /\ ~cd.prev_pending /\ Pending(c)))
        /\ clear' = ~Pending(c)
        /\ heard' = HeardAfter(cd, d)
  BY ClockParts
<1>2. PICK p \in BOOLEAN : p = IF c.panicked THEN c.prev_pending ELSE Pending(c)
  BY Fields DEF Pending
<1>3. cd' = [c EXCEPT !.prev_pending = p]
  BY <1>1, <1>2
<1>4. /\ cd' \in Controllers /\ Good(cd') /\ Pending(cd') = Pending(c)
      /\ cd'.prev_pending = p /\ cd'.panicked = c.panicked
      /\ cd'.data_fifo = c.data_fifo /\ cd'.xa_sector = c.xa_sector
      /\ cd'.drive = c.drive
  <2> DEFINE e == [c EXCEPT !.prev_pending = p]
  <2>1. /\ e \in Controllers /\ (Good(c) => Good(e)) /\ Pending(e) = Pending(c)
        /\ e.prev_pending = p /\ e.panicked = c.panicked
        /\ e.data_fifo = c.data_fifo /\ e.xa_sector = c.xa_sector
        /\ e.drive = c.drive
    BY PendingFields
  <2> HIDE DEF e
  <2>2. cd' = e
    BY <1>3 DEF e
  <2> QED BY <1>1, <2>1, <2>2
<1>5. ~cd.panicked /\ cd.prev_pending = ~clear /\ clear \in BOOLEAN
  BY DEF IInv, Edge, Clock
<1>6. Edge(cd', clear')
  BY <1>1, <1>2, <1>4 DEF Edge
<1>7. istat' \in BOOLEAN /\ clear' \in BOOLEAN
  BY <1>1 DEF IInv, Pending
<1>8. Delivers(cd, cd')
  BY <1>1, <1>4 DEF Delivers
<1>9. ~cd'.panicked => istat' = (istat \/ (clear /\ Pending(cd')))
  BY <1>1, <1>4, <1>5
<1>10. heard' \in Seq(Times) /\ Behind(c, heard') /\ InOrder(cd, heard, c, heard')
  BY <1>1, HearsInOrder
<1>11. Behind(cd', heard') /\ InOrder(cd, heard, cd', heard')
  BY <1>4, <1>10 DEF Behind, InOrder
<1> QED BY <1>4, <1>6, <1>7, <1>8, <1>9, <1>10, <1>11 DEF IInv

\* The host's accesses touch the registers and the command only.
LEMMA HostStep ==
  ASSUME IInv, NEW c \in Controllers, Good(c), HostAccess(c),
         c.drive = cd.drive,
         ~c.panicked => \/ /\ c.prev_pending = (cd.prev_pending /\ Pending(c))
                        \/ /\ c.prev_pending = cd.prev_pending
                           /\ Pending(c) = Pending(cd)
  PROVE  IInv'
<1>1. ~cd.panicked /\ cd' = c /\ clear' = (clear \/ ~Pending(c)) /\ istat' = istat
      /\ heard' = heard
  BY DEF HostAccess
<1>2. cd.prev_pending = ~clear /\ (cd.prev_pending => Pending(cd))
  BY <1>1 DEF IInv, Edge
<1>3. Edge(cd', clear')
  BY <1>1, <1>2 DEF IInv, Edge
<1>4. Behind(cd', heard')
  BY <1>1 DEF IInv, Behind
<1> QED BY <1>1, <1>3, <1>4 DEF IInv

LEMMA StepIsGood ==
  ASSUME IInv, [Next]_vars
  PROVE  IInv'
<1> USE DEF IInv
<1>1. CASE Clock
  BY <1>1, ClockStep
<1>2. ASSUME NEW command \in HostCommands, WriteCommand(command)
      PROVE  IInv'
  <2> DEFINE n == IF command \in {"Init", "ReadToc"} THEN InitCycles
                  ELSE IF cd.drive.state = "Stopped" THEN ReceiveStopped ELSE ReceiveRunning
             k == IF IntQueued(cd) THEN Queued(command, n) ELSE Receiving(command, n)
             c == Becomes(cd, k)
  <2>1. command \in Commands /\ n \in Positive
    BY HostAssumption, CyclesArePositive DEF Positive
  <2>2. k \in CommandValues
    <3> HIDE DEF n
    <3> QED BY <2>1, MadeCommands
  <2>3. HostAccess(c)
    BY <1>2 DEF WriteCommand
  <2>4. /\ c \in Controllers /\ c.drive = cd.drive /\ c.response = cd.response
        /\ c.sector_buffer = cd.sector_buffer /\ c.xa_sector = cd.xa_sector
        /\ c.flags = cd.flags /\ c.enabled = cd.enabled
        /\ c.prev_pending = cd.prev_pending
    <3> HIDE DEF k
    <3> QED BY <2>2 DEF Controllers, Becomes
  <2> HIDE DEF c
  <2>5. Good(c) /\ Pending(c) = Pending(cd)
    BY <2>4 DEF Good, Answered, Ordered, Pending
  <2> QED BY <2>3, <2>4, <2>5, HostStep
<1>3. ASSUME NEW p \in Params, WriteParameter(p)
      PROVE  IInv'
  <2> DEFINE c == [cd EXCEPT !.param = p]
  <2>1. /\ c \in Controllers /\ c.drive = cd.drive /\ c.response = cd.response
        /\ c.sector_buffer = cd.sector_buffer /\ c.xa_sector = cd.xa_sector
        /\ c.flags = cd.flags /\ c.enabled = cd.enabled
        /\ c.prev_pending = cd.prev_pending
    BY DEF Controllers
  <2>2. HostAccess(c)
    BY <1>3 DEF WriteParameter
  <2> HIDE DEF c
  <2>3. Good(c) /\ Pending(c) = Pending(cd)
    BY <2>1 DEF Good, Answered, Ordered, Pending
  <2> QED BY <2>1, <2>2, <2>3, HostStep
<1>4. ASSUME NEW q \in Controllers, q.drive = cd.drive, q.response = cd.response,
             q.sector_buffer = cd.sector_buffer, q.xa_sector = cd.xa_sector,
             q.prev_pending = cd.prev_pending, HostAccess(Forget(q))
      PROVE  IInv'
  <2>1. PICK p \in BOOLEAN : p = (q.prev_pending /\ Pending(q))
    BY DEF Pending, Controllers
  <2>2. Forget(q) = [q EXCEPT !.prev_pending = p]
    BY <2>1 DEF Forget
  <2>3. Good(q)
    BY <1>4 DEF Good, Answered, Ordered
  <2>4. /\ Forget(q) \in Controllers /\ Good(Forget(q)) /\ Pending(Forget(q)) = Pending(q)
        /\ Forget(q).prev_pending = p /\ Forget(q).drive = cd.drive
    BY <1>4, <2>2, <2>3, PendingFields
  <2>5. Forget(q).prev_pending = (cd.prev_pending /\ Pending(Forget(q)))
    BY <1>4, <2>1, <2>4
  <2> QED BY <1>4, <2>4, <2>5, HostStep
<1>5. ASSUME NEW mask \in EnableMasks, WriteEnabled(mask)
      PROVE  IInv'
  <2> DEFINE q == [cd EXCEPT !.enabled = mask]
  <2>1. mask \in SUBSET Bits
    BY HostAssumption
  <2>2. /\ q \in Controllers /\ q.drive = cd.drive /\ q.response = cd.response
        /\ q.sector_buffer = cd.sector_buffer /\ q.xa_sector = cd.xa_sector
        /\ q.prev_pending = cd.prev_pending
    BY <2>1 DEF Controllers
  <2>3. HostAccess(Forget(q))
    BY <1>5 DEF WriteEnabled
  <2> HIDE DEF q
  <2> QED BY <1>4, <2>2, <2>3
<1>6. ASSUME NEW mask \in AckMasks, NEW reset \in BOOLEAN, WriteFlags(mask, reset)
      PROVE  IInv'
  <2> DEFINE pa == IF reset THEN None ELSE cd.param
             q == [cd EXCEPT !.flags = @ \ mask, !.param = pa]
  <2>1. pa \in Params \union {None} /\ cd.flags \ mask \in SUBSET Bits
    BY Fields
  <2>2. /\ q \in Controllers /\ q.drive = cd.drive /\ q.response = cd.response
        /\ q.sector_buffer = cd.sector_buffer /\ q.xa_sector = cd.xa_sector
        /\ q.prev_pending = cd.prev_pending
    <3> HIDE DEF pa
    <3> QED BY <2>1, ZenonT(30) DEF Controllers
  <2>3. HostAccess(Forget(q))
    BY <1>6 DEF WriteFlags
  <2> HIDE DEF q
  <2> QED BY <1>4, <2>2, <2>3
<1>7. CASE AcknowledgeIStat
  BY <1>7 DEF AcknowledgeIStat
<1>8. CASE UNCHANGED vars
  BY <1>8 DEF vars
<1> QED BY <1>1, <1>2, <1>3, <1>5, <1>6, <1>7, <1>8 DEF Next

-----------------------------------------------------------------------------
\* In every reachable state of the controller a drive and a command have what their state
\* needs, and what they may still raise fits what the host has acknowledged (cd.rs: clock).
THEOREM IInvHolds == Spec => []IInv
BY InitIsGood, StepIsGood, PTL DEF Spec

\* The controller stays in the states its types allow: one of the four command states,
\* one of the eight drive states with a countdown that has not run out, and buffers that
\* hold nothing or a sector of the disc.
THEOREM TypesAreKept == Spec => []TypeOK
<1>1. IInv => TypeOK
  <2> SUFFICES ASSUME IInv PROVE TypeOK
    OBVIOUS
  <2>1. cd \in Controllers
    BY DEF IInv
  <2>2. /\ cd.command.state \in {"Idle"} \union Waiting
        /\ cd.command.state # "Idle" => cd.command.command \in Commands /\ cd.command.cycles >= 1
    BY <2>1, Fields DEF CommandValues, Waiting, Positive
  <2>3. /\ cd.drive.state \in DriveStates
        /\ "cycles" \in DOMAIN cd.drive => cd.drive.cycles >= 1
    BY <2>1, Fields DEF DriveStates, DriveValues, SpinningValues, SeekingValues, PreparingValues,
                        ReadingValues, PlayingValues, PausedValues, Positive
  <2> QED BY <2>1, <2>2, <2>3, Fields DEF TypeOK, IInv, Waiting
<1> QED BY <1>1, IInvHolds, PTL

\* Whatever the host writes and when, only the answer to a received command, an audio
\* report and an INT4 are ever generated while an earlier response is unacknowledged: INT1
\* sectors, the drive's INT2 and second responses wait for the flag register
\* (progress_read_state, advance_drive_state, advance_command_state).
THEOREM OthersWaitForTheHost == Spec => []OnlyAcksAndAudioOverwrite
<1>1. IInv => OnlyAcksAndAudioOverwrite
  BY DEF IInv, Good, Answered, OnlyAcksAndAudioOverwrite
<1> QED BY <1>1, IInvHolds, PTL

\* I_STAT gets the CD-ROM bit exactly for the interrupts that were not pending, or not
\* without a break, at the clock before (clock and the register writes that reset
\* prev_interrupt_pending).
THEOREM InterruptsAreRaisedOnce == Spec => EveryInterruptRaisedOnce
<1>1. IInv /\ [Next]_vars =>
        [Clock /\ ~cd'.panicked => istat' = (istat \/ (clear /\ Pending(cd')))]_vars
  BY ClockStep
<1> QED BY <1>1, IInvHolds, PTL DEF Spec, EveryInterruptRaisedOnce

\* Only a clock fills the data FIFO.
LEMMA OnlyClocksDeliver ==
  ASSUME IInv, [Next]_vars, cd'.data_fifo # cd.data_fifo
  PROVE  Clock
<1>1. \A k : Becomes(cd, k).data_fifo = cd.data_fifo
  BY DEF IInv, Becomes, Controllers
<1>2. \A p : [cd EXCEPT !.param = p].data_fifo = cd.data_fifo
  BY DEF IInv, Controllers
<1>3. \A mask : Forget([cd EXCEPT !.enabled = mask]).data_fifo = cd.data_fifo
  BY DEF IInv, Forget, Controllers
<1>4. \A mask, p :
        Forget([cd EXCEPT !.flags = @ \ mask, !.param = p]).data_fifo = cd.data_fifo
  BY DEF IInv, Forget, Controllers
<1>5. \A command : ~WriteCommand(command)
  BY <1>1 DEF WriteCommand, HostAccess
<1>6. \A p : ~WriteParameter(p)
  BY <1>2 DEF WriteParameter, HostAccess
<1>7. \A mask : ~WriteEnabled(mask)
  BY <1>3 DEF WriteEnabled, HostAccess
<1>8. \A mask, reset : ~WriteFlags(mask, reset)
  <2> SUFFICES ASSUME NEW mask, NEW reset, WriteFlags(mask, reset)
               PROVE  FALSE
    OBVIOUS
  <2> DEFINE pa == IF reset THEN None ELSE cd.param
  <2>1. cd' = Forget([cd EXCEPT !.flags = @ \ mask, !.param = pa])
    BY DEF WriteFlags, HostAccess
  <2> HIDE DEF pa
  <2> QED BY <1>4, <2>1
<1> QED BY <1>5, <1>6, <1>7, <1>8 DEF Next, AcknowledgeIStat, vars

\* A sector the ADPCM decoder got is never the one the host finds in the data FIFO
\* (read_data_sector, progress_read_state).
THEOREM DecoderSectorsStayInside == Spec => XaSectorsStayInside
<1>1. IInv /\ [Next]_vars => [cd'.data_fifo # cd.data_fifo => cd'.data_fifo # cd'.xa_sector]_vars
  BY OnlyClocksDeliver, ClockStep DEF Delivers
<1> QED BY <1>1, IInvHolds, PTL DEF Spec, XaSectorsStayInside

\* While a drive reads on, each INT1 brings the sector read last, and every INT1 a later one
\* than all before it, so none is brought twice; only an INT1 fills the data FIFO
\* (progress_read_state).
THEOREM SectorsArriveInOrder == Spec => SectorsInOrder
<1>1. ASSUME IInv, [Next]_vars
      PROVE  InOrder(cd, heard, cd', heard')
  <2>1. CASE Clock
    BY <2>1, <1>1, ClockStep
  <2>2. CASE ~Clock
    <3>1. heard' = heard
      BY <1>1, <2>2 DEF Next, WriteCommand, WriteParameter, WriteEnabled, WriteFlags,
                        HostAccess, AcknowledgeIStat, vars
    <3>2. cd'.data_fifo = cd.data_fifo
      BY <1>1, <2>2, OnlyClocksDeliver
    <3> QED BY <3>1, <3>2 DEF InOrder
  <2> QED BY <2>1, <2>2
<1>2. IInv /\ [Next]_vars =>
        [/\ heard' \notin {heard, <<>>} =>
              /\ cd'.data_fifo = cd.drive.time - 1
              /\ \A k \in DOMAIN heard : heard[k] < cd'.data_fifo
         /\ cd'.data_fifo # cd.data_fifo => heard' = Append(heard, cd'.data_fifo)]_vars
  BY <1>1 DEF InOrder
<1> QED BY <1>2, IInvHolds, PTL DEF Spec, SectorsInOrder

-----------------------------------------------------------------------------
\* A host that reads data.  The drive then only answers INT1, which waits for a command
\* that is being received, so no response is generated with one unacknowledged.
Movers == {"SeekL", "Play", "MotorOn", "Init"}

QuietDrive(d) ==
  /\ d.state \notin {"PreparingToPlay", "Playing"}
  /\ d.state \in {"SpinningUp", "Seeking"} => d.next = "Read"
  /\ d.state = "SpinningUp" => d.dest # None
  /\ d.state = "Paused" => ~d.int2_queued

QuietCommand(c) ==
  /\ c.command.state \in Waiting => c.command.command \notin Movers
  /\ c.command.state = "ReceivingCommand" => c.flags = {}

Unread(c) == c.response # None => c.response.over = {}

Quiet(c) == QuietDrive(c.drive) /\ QuietCommand(c) /\ Unread(c)

\* What leaves the drive, the command, the flags and the response alone stays quiet.
LEMMA QuietFields ==
  ASSUME NEW c, NEW e, Quiet(c), e.command = c.command, e.flags = c.flags,
         e.response = c.response, QuietDrive(e.drive)
  PROVE  Quiet(e)
BY DEF Quiet, QuietCommand, Unread

LEMMA ReadDataSectorQuiet ==
  ASSUME NEW c \in Controllers, Quiet(c), NEW t \in Int
  PROVE  Quiet(ReadDataSector(c, t))
<1>1. CASE ~CanRead(t)
  <2>1. /\ Panic(c).command = c.command /\ Panic(c).flags = c.flags
        /\ Panic(c).response = c.response /\ Panic(c).drive = c.drive
    BY DEF Panic, Controllers
  <2>2. ReadDataSector(c, t) = Panic(c)
    BY <1>1 DEF ReadDataSector
  <2> QED BY <2>1, <2>2, QuietFields DEF Quiet
<1>2. CASE CanRead(t)
  <2> DEFINE d == Reading(t + 1, ~ForHost(c, t), CyclesBetweenSectors(c))
             e == [c EXCEPT !.sector_buffer = t,
                            !.xa_sector = IF ForDecoder(c, t) THEN t ELSE c.xa_sector,
                            !.drive = d]
  <2>1. /\ e.command = c.command /\ e.flags = c.flags /\ e.response = c.response
        /\ e.drive = d
    BY DEF Controllers
  <2>2. QuietDrive(d)
    BY DEF QuietDrive, Reading
  <2>3. ReadDataSector(c, t) = e
    BY <1>2 DEF ReadDataSector
  <2> HIDE DEF e, d
  <2> QED BY <2>1, <2>2, <2>3, QuietFields
<1> QED BY <1>1, <1>2

LEMMA MovesQuiet ==
  ASSUME NEW c \in Controllers, Quiet(c), NEW d \in DriveValues, QuietDrive(d)
  PROVE  Quiet([c EXCEPT !.drive = d])
BY DriveChange, QuietFields

LEMMA ArriveQuiet ==
  ASSUME NEW c \in Controllers, Quiet(c),
         c.drive.state \in {"SpinningUp", "Seeking", "PreparingToRead", "PreparingToPlay"}
  PROVE  Quiet(Arrive(c))
<1> DEFINE d == c.drive
           prepare == PrepareSectors * CyclesBetweenSectors(c)
<1>1. QuietDrive(d) /\ d.state # "PreparingToPlay"
  BY DEF Quiet, QuietDrive
<1>2. CASE d.state = "SpinningUp"
  <2>1. d.dest \in Int /\ d.dest # None /\ d.next = "Read"
    BY <1>1, <1>2, Fields, DriveParts DEF SpinningValues, QuietDrive
  <2>2. SeekCycles(0, d.dest) \in Positive /\ "Read" \in Nexts
    BY <2>1, SeekCyclesPositive DEF Nexts
  <2>3. PICK n \in DriveValues : n = Seeking(d.dest, SeekCycles(0, d.dest), "Read")
    BY <2>1, <2>2, MadeDrives
  <2>4. QuietDrive(n)
    BY <2>3 DEF QuietDrive, Seeking
  <2>5. Arrive(c) = [c EXCEPT !.drive = n]
    BY <1>2, <2>1, <2>3 DEF Arrive
  <2> QED BY <2>4, <2>5, MovesQuiet
<1>3. CASE d.state = "Seeking"
  <2>1. d.time \in Int /\ d.next = "Read"
    BY <1>1, <1>3, Fields, DriveParts DEF SeekingValues, QuietDrive
  <2>2. PICK n \in DriveValues : n = PreparingToRead(d.time, prepare)
    BY <2>1, PreparePositive, MadeDrives
  <2>3. QuietDrive(n)
    BY <2>2 DEF QuietDrive, PreparingToRead
  <2>4. Arrive(c) = [c EXCEPT !.drive = n]
    BY <1>3, <2>1, <2>2 DEF Arrive
  <2> QED BY <2>3, <2>4, MovesQuiet
<1>4. CASE d.state = "PreparingToRead"
  <2> DEFINE q == [c EXCEPT !.xa_sector = None]
  <2>1. /\ q \in Controllers /\ q.drive = c.drive /\ q.command = c.command
        /\ q.flags = c.flags /\ q.response = c.response
    BY DEF Controllers
  <2>2. d.time \in Int
    BY <1>4, Fields, DriveParts DEF IsStoppedOrSpinningUp
  <2>3. Arrive(c) = ReadDataSector(q, d.time)
    BY <1>4 DEF Arrive
  <2> HIDE DEF q
  <2>4. Quiet(q)
    BY <1>1, <2>1, QuietFields
  <2> QED BY <2>1, <2>2, <2>3, <2>4, ReadDataSectorQuiet
<1> QED BY <1>1, <1>2, <1>3, <1>4

LEMMA CountDownQuiet ==
  ASSUME NEW c \in Controllers, Quiet(c), "cycles" \in DOMAIN c.drive
  PROVE  Quiet([c EXCEPT !.drive.cycles = @ - 1])
<1> DEFINE d == [c.drive EXCEPT !.cycles = @ - 1]
           e == [c EXCEPT !.drive = d]
<1>1. QuietDrive(d)
  BY Fields DEF Quiet, QuietDrive, DriveValues, SpinningValues, SeekingValues,
                PreparingValues, ReadingValues, PlayingValues, PausedValues
<1>2. /\ e.command = c.command /\ e.flags = c.flags /\ e.response = c.response
      /\ e.drive = d
  BY DEF Controllers
<1>3. [c EXCEPT !.drive.cycles = @ - 1] = e
  OBVIOUS
<1> HIDE DEF d, e
<1> QED BY <1>1, <1>2, <1>3, QuietFields

LEMMA ProgressReadQuiet ==
  ASSUME NEW c \in Controllers, Quiet(c), c.drive.state = "Reading"
  PROVE  Quiet(ProgressRead(c))
<1> DEFINE d == c.drive
<1>1. d \in ReadingValues
  BY Fields, DriveParts
<1>2. CASE d.cycles = 1
  <2>1. ProgressRead(c) = ReadDataSector(c, d.time)
    BY <1>2 DEF ProgressRead
  <2> QED BY <1>1, <2>1, ReadDataSectorQuiet DEF ReadingValues
<1>3. CASE d.cycles # 1 /\ Int1Ready(c)
  <2> DEFINE n == Reading(d.time, TRUE, d.cycles - 1)
             r == Respond(c, 1, "Sector")
             e == [r EXCEPT !.data_fifo = c.sector_buffer, !.drive = n]
  <2>1. ProgressRead(c) = e
    BY <1>3 DEF ProgressRead
  <2>2. r \in Controllers
    BY RespondIsController DEF Origins
  <2>3. r.response.over = {} /\ r.command = c.command
    BY <1>3, RespondFields DEF Int1Ready, IntQueued
  <2>4. e.drive = n /\ e.response = r.response /\ e.command = r.command
    <3> HIDE DEF r, n
    <3> QED BY <2>2 DEF Controllers
  <2>5. QuietDrive(n)
    BY DEF QuietDrive, Reading
  <2>6. c.command.state # "ReceivingCommand"
    BY <1>3 DEF Int1Ready
  <2> HIDE DEF e, r, n
  <2> QED BY <2>1, <2>3, <2>4, <2>5, <2>6 DEF Quiet, QuietCommand, Unread
<1>4. CASE d.cycles # 1 /\ ~Int1Ready(c)
  <2>1. ProgressRead(c) = [c EXCEPT !.drive.cycles = @ - 1]
    BY <1>4 DEF ProgressRead
  <2> QED BY <1>1, <2>1, CountDownQuiet DEF ReadingValues
<1> QED BY <1>2, <1>3, <1>4

LEMMA AdvanceDriveQuiet ==
  ASSUME NEW c \in Controllers, Quiet(c)
  PROVE  Quiet(AdvanceDrive(c))
<1> DEFINE d == c.drive
<1>1. QuietDrive(d)
  BY DEF Quiet
<1>2. CASE d.state = "Stopped"
  BY <1>2 DEF AdvanceDrive
<1>3. CASE d.state = "Paused"
  BY <1>1, <1>3 DEF AdvanceDrive, QuietDrive, Int2Ready
<1>4. CASE d.state = "Reading"
  BY <1>4, ProgressReadQuiet DEF AdvanceDrive
<1>5. CASE d.state \in {"SpinningUp", "Seeking", "PreparingToRead", "PreparingToPlay"}
  <2>1. CASE d.cycles = 1
    BY <1>5, <2>1, ArriveQuiet DEF AdvanceDrive
  <2>2. CASE d.cycles # 1
    <3>1. "cycles" \in DOMAIN d
      BY <1>5, Fields DEF DriveValues, SpinningValues, SeekingValues, PreparingValues,
                          ReadingValues, PlayingValues, PausedValues
    <3>2. AdvanceDrive(c) = [c EXCEPT !.drive.cycles = @ - 1]
      BY <1>5, <2>2 DEF AdvanceDrive
    <3> QED BY <3>1, <3>2, CountDownQuiet
  <2> QED BY <2>1, <2>2
<1> QED BY <1>1, <1>2, <1>3, <1>4, <1>5, Fields, DriveParts DEF DriveStates, QuietDrive

\* A command answered with no flag set, from a drive that is quiet.
Settled(q) == q \in Controllers /\ q.flags = {} /\ QuietDrive(q.drive)
Calm(e) == e \in Controllers /\ Quiet(e)

LEMMA AnswersQuiet ==
  ASSUME NEW q, Settled(q), NEW k \in Commands \ Movers, NEW n \in Positive
  PROVE  Calm(Ack(q, k)) /\ Calm(Error(q, k)) /\ Calm(Then(q, k, n))
<1>1. ASSUME NEW int \in 1 .. 5, NEW s \in CommandValues,
             s = Idle \/ s = SecondResponse(k, n)
      PROVE  Calm(Becomes(Respond(q, int, k), s))
  <2> DEFINE r == Respond(q, int, k)
  <2>1. r \in Controllers
    BY RespondIsController DEF Settled, Origins
  <2>2. r.response.over = {} /\ r.drive = q.drive
    BY RespondFields DEF Settled
  <2> HIDE DEF r
  <2> DEFINE e == Becomes(r, s)
  <2>3. /\ e \in Controllers /\ e.response = r.response /\ e.drive = r.drive
        /\ e.command = s
    BY <2>1, CommandChange
  <2>4. /\ s.state # "ReceivingCommand"
        /\ s.state \in Waiting => s.command \notin Movers
    BY <1>1 DEF Idle, SecondResponse, Waiting
  <2> HIDE DEF e
  <2>5. Calm(e)
    BY <2>2, <2>3, <2>4 DEF Calm, Quiet, QuietCommand, Unread, Settled
  <2> QED BY <2>5 DEF e, r
<1>2. Idle \in CommandValues /\ SecondResponse(k, n) \in CommandValues
  BY MadeCommands
<1>3. Calm(Becomes(Respond(q, 3, k), Idle))
  BY <1>1, <1>2
<1>4. Calm(Becomes(Respond(q, 5, k), Idle))
  BY <1>1, <1>2
<1>5. Calm(Becomes(Respond(q, 3, k), SecondResponse(k, n)))
  BY <1>1, <1>2
<1> QED BY <1>3, <1>4, <1>5, Zenon DEF Ack, Error, Then, Finished

\* What a command sets before it answers leaves the flags alone.
LEMMA SettledFields ==
  ASSUME NEW c, Settled(c)
  PROVE  /\ \A l \in Int \union {None} : Settled([c EXCEPT !.seek_location = l])
         /\ \A m \in Modes : Settled([c EXCEPT !.mode = m])
         /\ \A f \in {AsFilter[p] : p \in Params} \union {None} :
              Settled([c EXCEPT !.filter = f])
<1>1. \A l \in Int \union {None} : Settled([c EXCEPT !.seek_location = l])
  BY DEF Settled, Controllers
<1>2. \A m \in Modes : Settled([c EXCEPT !.mode = m])
  BY DEF Settled, Controllers
<1>3. \A f \in {AsFilter[p] : p \in Params} \union {None} : Settled([c EXCEPT !.filter = f])
  BY DEF Settled, Controllers
<1> QED BY <1>1, <1>2, <1>3

LEMMA SettledDrive ==
  ASSUME NEW c, Settled(c), NEW d \in DriveValues, QuietDrive(d)
  PROVE  /\ Settled([c EXCEPT !.drive = d])
         /\ \A l \in Int \union {None} :
              Settled([c EXCEPT !.seek_location = l, !.drive = d])
<1>1. Settled([c EXCEPT !.drive = d])
  <2>1. c \in Controllers
    BY DEF Settled
  <2> QED BY <2>1, DriveChange DEF Settled
<1>2. ASSUME NEW l \in Int \union {None}
      PROVE  Settled([c EXCEPT !.seek_location = l, !.drive = d])
  <2> DEFINE q == [c EXCEPT !.seek_location = l]
  <2>1. q \in Controllers /\ q.flags = {}
    BY DEF Settled, Controllers
  <2>2. [c EXCEPT !.seek_location = l, !.drive = d] = [q EXCEPT !.drive = d]
    BY DEF Settled, Controllers
  <2> HIDE DEF q
  <2> QED BY <2>1, <2>2, DriveChange DEF Settled
<1> QED BY <1>1, <1>2

LEMMA ExecuteQuiet ==
  ASSUME NEW c \in Controllers, Quiet(c), c.flags = {}, NEW command \in Commands \ Movers
  PROVE  Quiet(Execute(c, command))
<1>1. Settled(c) /\ 1 \in Positive /\ None \in Int \union {None}
  BY DEF Settled, Quiet, Positive
<1>2. \A q : Settled(q) => Calm(Ack(q, command)) /\ Calm(Error(q, command))
  BY <1>1, AnswersQuiet
<1>3. \A q : \A n \in Positive : Settled(q) => Calm(Then(q, command, n))
  BY AnswersQuiet
<1>4. Calm(Panic(c))
  <2>1. /\ Panic(c).command = c.command /\ Panic(c).flags = c.flags
        /\ Panic(c).response = c.response /\ Panic(c).drive = c.drive
        /\ Panic(c) \in Controllers
    BY DEF Panic, Controllers
  <2> QED BY <2>1, QuietFields DEF Quiet, Calm
<1>5. c.param = None \/ c.param \in Params
  BY Fields
<1>6. PICK done : Calm(done) /\ Execute(c, command) = [done EXCEPT !.param = None]
  <2>1. CASE command \in {"GetStat", "GetTN", "Mute", "Demute"}
    <3>1. Execute(c, command) = [Ack(c, command) EXCEPT !.param = None]
      BY <2>1 DEF Execute
    <3> QED BY <1>1, <1>2, <3>1
  <2>2. CASE command \in {"GetId", "ReadToc"}
    <3>1. SecondCycles[command] \in Positive
      BY <2>2, CyclesArePositive DEF Positive
    <3>2. Execute(c, command) = [Then(c, command, SecondCycles[command]) EXCEPT !.param = None]
      BY <2>2 DEF Execute
    <3> QED BY <1>1, <1>3, <3>1, <3>2
  <2>3. CASE command = "SetLoc"
    <3>1. Execute(c, command) = [SetLoc(c) EXCEPT !.param = None]
      BY <2>3 DEF Execute
    <3>2. CASE c.param = None \/ AsTime[c.param] = Invalid
      BY <1>1, <1>2, <2>3, <3>1, <3>2 DEF SetLoc
    <3>3. CASE c.param # None /\ AsTime[c.param] # Invalid
      <4>1. AsTime[c.param] \in Int \union {None}
        BY <1>5, <3>3, ParametersAssumption
      <4>2. Settled([c EXCEPT !.seek_location = AsTime[c.param]])
        BY <1>1, <4>1, SettledFields
      <4> QED BY <1>2, <2>3, <3>1, <3>3, <4>2 DEF SetLoc
    <3> QED BY <3>2, <3>3
  <2>4. CASE command = "SetMode"
    <3>1. Execute(c, command) = [SetMode(c) EXCEPT !.param = None]
      BY <2>4 DEF Execute
    <3>2. CASE c.param = None
      BY <1>1, <1>2, <2>4, <3>1, <3>2 DEF SetMode
    <3>3. CASE c.param # None
      <4>1. Settled([c EXCEPT !.mode = AsMode[c.param]])
        BY <1>1, <1>5, <3>3, SettledFields, ParametersAssumption
      <4> QED BY <1>2, <2>4, <3>1, <3>3, <4>1 DEF SetMode
    <3> QED BY <3>2, <3>3
  <2>5. CASE command = "SetFilter"
    <3>1. Execute(c, command) = [SetFilter(c) EXCEPT !.param = None]
      BY <2>5 DEF Execute
    <3>2. CASE c.param = None
      BY <1>1, <1>2, <2>5, <3>1, <3>2 DEF SetFilter
    <3>3. CASE c.param # None
      <4>1. Settled([c EXCEPT !.filter = AsFilter[c.param]])
        BY <1>1, <1>5, <3>3, SettledFields
      <4> QED BY <1>2, <2>5, <3>1, <3>3, <4>1 DEF SetFilter
    <3> QED BY <3>2, <3>3
  <2>6. CASE command \in {"GetTD", "Test"}
    BY <1>1, <1>2, <1>4, <2>6 DEF Execute, GetTD, Test
  <2>7. CASE command \in {"GetLocL", "GetLocP"}
    BY <1>1, <1>2, <1>4, <2>7 DEF Execute, GetLocL, GetLocP
  <2>8. CASE command = "ReadN"
    <3>1. PICK d \in DriveValues :
            /\ d = IF c.drive.state = "Reading" /\ c.drive.time = Target(c) THEN c.drive
                   ELSE SeekFrom(c.drive, Target(c), "Read")
            /\ QuietDrive(d)
      <4>1. "Read" \in Nexts
        BY DEF Nexts
      <4>2. SeekFrom(c.drive, Target(c), "Read") \in DriveValues /\ c.drive \in DriveValues
        BY <4>1, TargetIsTime, SeekFromDrives, Fields
      <4>3. QuietDrive(SeekFrom(c.drive, Target(c), "Read"))
        BY TargetIsTime, ParametersAssumption DEF SeekFrom, QuietDrive, SpinningUp, Seeking
      <4>4. QuietDrive(c.drive)
        BY DEF Quiet
      <4> QED BY <4>2, <4>3, <4>4
    <3>2. Settled([c EXCEPT !.seek_location = None, !.drive = d])
      BY <1>1, <3>1, SettledDrive
    <3>3. Read(c) = Ack([c EXCEPT !.seek_location = None, !.drive = d], "ReadN")
      BY <3>1 DEF Read
    <3>4. Execute(c, command) = [Read(c) EXCEPT !.param = None]
      BY <2>8 DEF Execute
    <3> QED BY <1>2, <2>8, <3>2, <3>3, <3>4
  <2>9. CASE command = "Pause"
    <3>1. CurrentTime(c.drive) \in Int
      BY Fields, DriveParts
    <3>2. PICK d \in DriveValues : d = Paused(CurrentTime(c.drive), FALSE)
      BY <3>1, MadeDrives
    <3>3. QuietDrive(d)
      BY <3>2 DEF QuietDrive, Paused
    <3>4. Settled([c EXCEPT !.drive = d])
      BY <1>1, <3>3, SettledDrive
    <3>5. Pause(c) = Then([c EXCEPT !.drive = d], "Pause", PrepareSectors * CyclesBetweenSectors(c))
      BY <3>2 DEF Pause
    <3>6. Execute(c, command) = [Pause(c) EXCEPT !.param = None]
      BY <2>9 DEF Execute
    <3> QED BY <1>3, <2>9, <3>4, <3>5, <3>6, PreparePositive
  <2>10. CASE command = "Stop"
    <3>1. CurrentTime(c.drive) \in Int
      BY Fields, DriveParts
    <3>2. PICK d \in DriveValues : d = Paused(CurrentTime(c.drive), FALSE)
      BY <3>1, MadeDrives
    <3>3. QuietDrive(d) /\ QuietDrive(c.drive) /\ c.drive \in DriveValues
      BY <3>2, Fields DEF QuietDrive, Paused, Quiet
    <3>4. Settled([c EXCEPT !.drive = d]) /\ Settled([c EXCEPT !.drive = c.drive])
      BY <1>1, <3>3, SettledDrive
    <3>5. Settled(Halt(c))
      BY <3>2, <3>4 DEF Halt
    <3>6. SecondCycles["Stop"] \in Positive
      BY CyclesArePositive DEF Positive
    <3>7. Execute(c, command) = [Then(Halt(c), "Stop", SecondCycles["Stop"]) EXCEPT !.param = None]
      BY <2>10 DEF Execute, Stop
    <3> QED BY <1>3, <2>10, <3>5, <3>6, <3>7
  <2> QED BY <2>1, <2>2, <2>3, <2>4, <2>5, <2>6, <2>7, <2>8, <2>9, <2>10 DEF Commands, Movers
<1> DEFINE e == [done EXCEPT !.param = None]
<1>7. e.command = done.command /\ e.flags = done.flags /\ e.response = done.response
      /\ e.drive = done.drive
  BY <1>6 DEF Calm, Controllers
<1> HIDE DEF e
<1>8. Quiet(e)
  BY <1>6, <1>7, QuietFields DEF Calm, Quiet
<1> QED BY <1>6, <1>8 DEF e

LEMMA SecondResponseQuiet ==
  ASSUME NEW c \in Controllers, Quiet(c), c.flags = {}, NEW command \in Commands \ Movers
  PROVE  Quiet(SecondResponseOf(c, command))
<1>1. ASSUME NEW q, Settled(q), NEW int \in 1 .. 5, NEW of \in Origins
      PROVE  Quiet(Finished(Respond(q, int, of)))
  <2> DEFINE r == Respond(q, int, of)
  <2>1. r \in Controllers
    BY <1>1, RespondIsController DEF Settled
  <2>2. r.response.over = {} /\ r.drive = q.drive
    BY <1>1, RespondFields DEF Settled
  <2> HIDE DEF r
  <2> DEFINE e == Becomes(r, Idle)
  <2>3. e.response = r.response /\ e.drive = r.drive /\ e.command = Idle
    BY <2>1, CommandChange, MadeCommands
  <2> HIDE DEF e
  <2>4. Quiet(e)
    BY <1>1, <2>2, <2>3 DEF Quiet, QuietCommand, Unread, Settled, Idle, Waiting
  <2> QED BY <2>4 DEF e, r, Finished
<1>2. Settled(c) /\ command \in Origins /\ "GetId" \in Origins /\ "Stop" \in Origins
  BY DEF Settled, Quiet, Origins, Commands
<1>3. CASE command = "GetId"
  BY <1>1, <1>2, <1>3 DEF SecondResponseOf
<1>4. CASE command = "Stop"
  <2>1. Stopped \in DriveValues /\ QuietDrive(Stopped)
    BY MadeDrives DEF Stopped, QuietDrive
  <2>2. Settled([c EXCEPT !.drive = Stopped])
    BY <1>2, <2>1, SettledDrive
  <2>3. Quiet(Finished(Respond([c EXCEPT !.drive = Stopped], 2, "Stop")))
    <3> DEFINE q == [c EXCEPT !.drive = Stopped]
    <3>1. Settled(q)
      BY <2>2
    <3> HIDE DEF q
    <3>2. Quiet(Finished(Respond(q, 2, "Stop")))
      BY <1>1, <1>2, <3>1
    <3> QED BY <3>2 DEF q
  <2> QED BY <1>4, <2>3 DEF SecondResponseOf
<1>5. CASE command \notin {"GetId", "Stop"}
  BY <1>1, <1>2, <1>5 DEF SecondResponseOf
<1> QED BY <1>3, <1>4, <1>5

LEMMA AdvanceCommandQuiet ==
  ASSUME NEW c \in Controllers, Quiet(c)
  PROVE  Quiet(AdvanceCommand(c))
<1> DEFINE k == c.command
<1>1. \/ k.state = "Idle"
      \/ k \in [state : Waiting, command : Commands, cycles : Positive]
  BY Fields DEF CommandValues
<1>2. /\ k.state \in Waiting => k.command \in Commands \ Movers /\ k.cycles \in Positive
      /\ k.state = "ReceivingCommand" => c.flags = {}
  BY <1>1 DEF Quiet, QuietCommand, Waiting
<1>3. ASSUME NEW n \in CommandValues, n.state \in Waiting, n.command = k.command,
             k.state \in Waiting, n.state = "ReceivingCommand" => c.flags = {}
      PROVE  Quiet(Becomes(c, n))
  BY <1>2, <1>3, CommandChange DEF Quiet, QuietCommand, Unread
<1>4. CASE k.state = "Idle"
  BY <1>4 DEF AdvanceCommand
<1>5. CASE k.state = "CommandQueued"
  <2>1. CASE IntQueued(c)
    BY <1>5, <2>1 DEF AdvanceCommand
  <2>2. CASE ~IntQueued(c)
    <3>1. PICK n \in CommandValues : n = Receiving(k.command, k.cycles)
      BY <1>2, <1>5, MadeCommands DEF Waiting
    <3>2. n.state \in Waiting /\ n.command = k.command
      BY <3>1 DEF Receiving, Waiting
    <3>3. c.flags = {} /\ k.state \in Waiting
      BY <1>5, <2>2 DEF IntQueued, Waiting
    <3>4. AdvanceCommand(c) = Becomes(c, n)
      BY <1>5, <2>2, <3>1 DEF AdvanceCommand
    <3> QED BY <1>3, <3>2, <3>3, <3>4
  <2> QED BY <2>1, <2>2
<1>6. CASE k.state \in {"ReceivingCommand", "GeneratingSecondResponse"} /\ k.cycles > 1
  <2> DEFINE n == [k EXCEPT !.cycles = @ - 1]
  <2>1. k \in [state : Waiting, command : Commands, cycles : Positive] /\ k.state \in Waiting
    BY <1>1, <1>6 DEF Waiting
  <2>2. /\ n \in CommandValues /\ n.state = k.state /\ n.command = k.command
    BY <1>6, <2>1 DEF CommandValues, Positive
  <2>3. AdvanceCommand(c) = Becomes(c, n)
    BY <1>6 DEF AdvanceCommand, Becomes
  <2> HIDE DEF n
  <2> QED BY <1>2, <1>3, <2>1, <2>2, <2>3
<1>7. CASE k.state = "ReceivingCommand" /\ ~(k.cycles > 1)
  BY <1>2, <1>7, ExecuteQuiet DEF AdvanceCommand, Waiting
<1>8. CASE k.state = "GeneratingSecondResponse" /\ ~(k.cycles > 1)
  <2>1. CASE SecondReady(c)
    <3>1. c.flags = {}
      BY <2>1 DEF SecondReady, IntQueued
    <3>2. k.command \in Commands \ Movers
      BY <1>2, <1>8 DEF Waiting
    <3> QED BY <1>8, <2>1, <3>1, <3>2, SecondResponseQuiet DEF AdvanceCommand
  <2>2. CASE ~SecondReady(c)
    BY <1>8, <2>2 DEF AdvanceCommand
  <2> QED BY <2>1, <2>2
<1> QED BY <1>1, <1>4, <1>5, <1>6, <1>7, <1>8 DEF Waiting

LEMMA QuietStep ==
  ASSUME HostCommands \intersect Movers = {}, IInv, Quiet(cd), [Next]_vars
  PROVE  Quiet(cd')
<1> USE DEF IInv
<1>1. CASE Clock
  <2> DEFINE d == AdvanceDrive(cd)
             c == IF d.panicked THEN d ELSE AdvanceCommand(d)
  <2>1. DriveKeeps(cd, d) /\ Quiet(d)
    BY AdvanceDriveKeeps, AdvanceDriveQuiet
  <2>2. d \in Controllers /\ Good(d)
    BY <2>1 DEF DriveKeeps, Good
  <2> HIDE DEF d
  <2>3. c \in Controllers /\ Quiet(c)
    BY <2>1, <2>2, AdvanceCommandKeeps, AdvanceCommandQuiet DEF CommandKeeps, Sets
  <2>4. cd' = [c EXCEPT !.prev_pending = IF c.panicked THEN @ ELSE Pending(c)]
    BY <1>1 DEF Clock, d
  <2> HIDE DEF c
  <2>5. /\ cd'.command = c.command /\ cd'.flags = c.flags /\ cd'.response = c.response
        /\ cd'.drive = c.drive
    BY <2>3, <2>4 DEF Controllers
  <2> QED BY <2>3, <2>5, QuietFields DEF Quiet
<1>2. ASSUME NEW command \in HostCommands, WriteCommand(command)
      PROVE  Quiet(cd')
  <2>1. PICK n : cd' = Becomes(cd, IF IntQueued(cd) THEN Queued(command, n)
                                   ELSE Receiving(command, n))
    BY <1>2 DEF WriteCommand, HostAccess
  <2>2. /\ cd'.flags = cd.flags /\ cd'.response = cd.response /\ cd'.drive = cd.drive
        /\ cd'.command = IF IntQueued(cd) THEN Queued(command, n) ELSE Receiving(command, n)
    BY <2>1 DEF Becomes, Controllers
  <2>3. command \notin Movers
    OBVIOUS
  <2>4. QuietCommand(cd')
    BY <2>2, <2>3 DEF QuietCommand, Queued, Receiving, IntQueued
  <2> QED BY <2>2, <2>4 DEF Quiet, Unread
<1>3. ASSUME NEW p \in Params, WriteParameter(p)
      PROVE  Quiet(cd')
  <2>1. cd' = [cd EXCEPT !.param = p]
    BY <1>3 DEF WriteParameter, HostAccess
  <2>2. /\ cd'.flags = cd.flags /\ cd'.response = cd.response /\ cd'.drive = cd.drive
        /\ cd'.command = cd.command
    BY <2>1 DEF Controllers
  <2> QED BY <2>2, QuietFields DEF Quiet
<1>4. ASSUME NEW mask \in EnableMasks, WriteEnabled(mask)
      PROVE  Quiet(cd')
  <2>1. cd' = Forget([cd EXCEPT !.enabled = mask])
    BY <1>4 DEF WriteEnabled, HostAccess
  <2>2. /\ cd'.flags = cd.flags /\ cd'.response = cd.response /\ cd'.drive = cd.drive
        /\ cd'.command = cd.command
    BY <2>1 DEF Controllers, Forget
  <2> QED BY <2>2, QuietFields DEF Quiet
<1>5. ASSUME NEW mask \in AckMasks, NEW reset \in BOOLEAN, WriteFlags(mask, reset)
      PROVE  Quiet(cd')
  <2> DEFINE pa == IF reset THEN None ELSE cd.param
  <2>1. cd' = Forget([cd EXCEPT !.flags = @ \ mask, !.param = pa])
    BY <1>5 DEF WriteFlags, HostAccess
  <2> HIDE DEF pa
  <2>2. /\ cd'.flags = cd.flags \ mask /\ cd'.response = cd.response
        /\ cd'.drive = cd.drive /\ cd'.command = cd.command
    BY <2>1 DEF Controllers, Forget
  <2> QED BY <2>2 DEF Quiet, QuietCommand, Unread
<1>6. CASE AcknowledgeIStat
  BY <1>6 DEF AcknowledgeIStat
<1>7. CASE UNCHANGED vars
  BY <1>7 DEF vars
<1> QED BY <1>1, <1>2, <1>3, <1>4, <1>5, <1>6, <1>7 DEF Next

\* A host that reads data, and so never seeks without reading, plays, or restarts the motor
\* or the controller, has every response to itself: whenever one is generated, it has
\* acknowledged all earlier ones, whatever it writes and however late it acknowledges.
THEOREM ReadersMissNoResponse ==
  ASSUME HostCommands \intersect Movers = {}
  PROVE  Spec => []NoResponseOverwritten
<1>1. Init => Quiet(cd)
  BY DEF Init, Quiet, QuietDrive, QuietCommand, Unread, Stopped, Idle, Waiting
<1>2. IInv /\ Quiet(cd) /\ [Next]_vars => Quiet(cd)'
  BY QuietStep
<1>3. Quiet(cd) => NoResponseOverwritten
  BY DEF Quiet, Unread, NoResponseOverwritten
<1> QED BY <1>1, <1>2, <1>3, IInvHolds, PTL DEF Spec
=============================================================================
