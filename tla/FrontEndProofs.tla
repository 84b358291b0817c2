--------------------------- MODULE FrontEndProofs ---------------------------
(* Invariants of the front end and of the main loop, for any number of        *)
(* threads, sizes, commands, thresholds and times: the audio queue is short   *)
(* (AudioIsBounded), a thread that was sent Stop saves its memory card at     *)
(* most once more (OneSaveAfterStop), a card write is lost only by a mishap   *)
(* (CardLossNeedsMishap), the renders in progress are counted exactly         *)
(* (SwapChainIsExact), and until the CD-ROM controller fails audio keeps pace *)
(* and frames are rendered in time (TimeIsKept).                              *)
EXTENDS MCFrontEnd, FiniteSetTheorems, TLAPS

(***************************************************************************)
(* The emulator threads.  Both properties are shown of one runner at a     *)
(* time: every step of the front end changes one runner, or ends them all. *)
(***************************************************************************)

T == Max(Thresholds)
Most == Max({2 * T, T + FrameSamples})

Fields == {"pc", "paused", "step_frame", "fast_forward", "sync_threshold", "commands",
           "samples", "left", "device", "card", "dirty", "cut", "clocked", "stopping", "late"}
Sent == Controls \cup {Command("Stop", 0)} \cup {Command("UpdateConfig", U) : U \in Thresholds}

Ran(e) == e.pc \in {"frame", "write", "tail"}

Shaped(e) ==
  /\ DOMAIN e = Fields
  /\ e.samples \in Nat /\ e.left \in 0 .. FrameSamples /\ e.late \in Nat
  /\ e.fast_forward \in BOOLEAN /\ e.stopping \in BOOLEAN
  /\ e.commands \in Seq(Sent)
  /\ e.pc \notin {"none", "ended"} => e.sync_threshold \in Thresholds

\* Without fast forward a frame begins below the threshold; in fast forward it begins with
\* what the last one left, and Trim makes up for it.
Short(e) ==
  /\ e.samples <= LongestQueue
  /\ e.pc \in {"loop", "drain", "saving"} => e.samples < Most
  /\ Ran(e) => e.samples + e.left < FrameSamples + (IF e.fast_forward THEN Most ELSE e.sync_threshold)
  /\ e.pc = "trim" /\ ~e.fast_forward => e.samples < Most

\* A Stop that was received stays in the queue until the thread ends; before the thread comes
\* to its queue it can save its card once.
StopsSoon(e) ==
  /\ e.late <= 1
  /\ e.stopping => \E i \in DOMAIN e.commands : e.commands[i].name = "Stop"
  /\ e.late = 1 => e.stopping /\ e.pc \notin {"none", "loop", "frame"}

Good(e) == Shaped(e) /\ Short(e) /\ StopsSoon(e)

\* A start that was begun has a thread left to start, which is not the running one.
GuiGood(g) ==
  /\ DOMAIN g = {"up", "pc", "running", "starts", "read", "sync_threshold", "queue_size", "device_size"}
  /\ g.sync_threshold \in Thresholds
  /\ g.running \in Threads \cup {0}
  /\ g.starts \in Nat /\ g.starts <= Starts /\ g.running <= g.starts
  /\ g.pc \in {"opening", "read"} => g.starts < Starts

IInv ==
  /\ GuiGood(gui)
  /\ DOMAIN emu = Threads
  /\ \A t \in Threads : Good(emu[t])
-----------------------------------------------------------------------------
LEMMA MaxOfPair ==
  ASSUME NEW a \in Nat, NEW b \in Nat
  PROVE  Max({a, b}) \in Nat /\ Max({a, b}) >= a /\ Max({a, b}) >= b
<1>1. \E x \in {a, b} : \A y \in {a, b} : x >= y
  OBVIOUS
<1>2. Max({a, b}) \in {a, b} /\ \A y \in {a, b} : Max({a, b}) >= y
  BY <1>1 DEF Max
<1> QED BY <1>2

LEMMA Bounds ==
  /\ T \in Thresholds /\ T \in Nat /\ FrameSamples \in Nat
  /\ \A U \in Thresholds : U \in Nat /\ 0 < U /\ U <= T
  /\ Most \in Nat /\ 2 * T <= Most /\ T + FrameSamples <= Most
  /\ LongestQueue = Most - 1 + FrameSamples
<1>1. \E U \in Thresholds : \A V \in Thresholds : U >= V
  BY ThreadAssumption
<1>2. T \in Thresholds /\ \A U \in Thresholds : T >= U
  BY <1>1 DEF T, Max
<1>3. T \in Nat /\ FrameSamples \in Nat /\ 2 * T \in Nat /\ T + FrameSamples \in Nat
  BY <1>2, ThreadAssumption
<1>4. Most \in Nat /\ Most >= 2 * T /\ Most >= T + FrameSamples
  BY <1>3, MaxOfPair DEF Most
<1>5. LongestQueue = Most - 1 + FrameSamples
  BY DEF LongestQueue, Most, T
<1> QED BY <1>2, <1>3, <1>4, <1>5, ThreadAssumption
-----------------------------------------------------------------------------
(* One runner.                                                               *)

LEMMA NewIsGood == Good(NotStarted)
<1>1. Shaped(NotStarted)
  BY Bounds DEF Shaped, NotStarted, Fields
<1>2. Short(NotStarted) /\ StopsSoon(NotStarted)
  BY Bounds DEF Short, StopsSoon, NotStarted, Ran
<1> QED BY <1>1, <1>2 DEF Good

LEMMA EndedIsGood == ASSUME NEW e, Good(e) PROVE Good(Ended(e))
<1>1. Shaped(Ended(e))
  BY Bounds DEF Good, Shaped, Ended, NotStarted, Fields
<1>2. Short(Ended(e)) /\ StopsSoon(Ended(e))
  BY Bounds DEF Good, Shaped, Short, StopsSoon, Ended, NotStarted, Ran, Fields
<1> QED BY <1>1, <1>2 DEF Good

\* What the audio device is told matters to neither property.
LEMMA DeviceIsFree ==
  ASSUME NEW e, NEW d, Good(e) PROVE Good([e EXCEPT !.device = d])
  BY DEF Good, Shaped, Short, StopsSoon, Ran, Fields

LEMMA SentCommands ==
  /\ \A c \in Controls : c \in Sent /\ c.name \notin {"Stop", "UpdateConfig"}
  /\ Command("Stop", 0) \in Sent /\ Command("Stop", 0).name = "Stop"
  /\ \A U \in Thresholds : /\ Command("UpdateConfig", U) \in Sent
                           /\ Command("UpdateConfig", U).name # "Stop"
  /\ \A c \in Sent : c.name = "UpdateConfig" => c.value \in Thresholds
<1>1. \A c \in Controls : c.name \in {"TogglePause", "StepFrame", "SaveState", "LoadState", "FastForward"}
  BY DEF Controls, Command
<1>2. \A c \in Controls : c.name \notin {"Stop", "UpdateConfig"}
  BY <1>1
<1>3. Command("Stop", 0).name = "Stop"
      /\ \A U : Command("UpdateConfig", U).name # "Stop" /\ Command("UpdateConfig", U).value = U
  BY DEF Command
<1> QED BY <1>2, <1>3 DEF Sent

LEMMA CommandsOnly ==
  ASSUME NEW e, Good(e), NEW cs \in Seq(Sent), NEW f,
         DOMAIN f = Fields, f.commands = cs,
         \A n \in Fields \ {"commands", "device", "stopping"} : f[n] = e[n],
         f.stopping \in BOOLEAN, e.stopping => f.stopping,
         f.stopping => \E i \in DOMAIN cs : cs[i].name = "Stop"
  PROVE  Good(f)
<1>1. f.samples = e.samples /\ f.left = e.left /\ f.late = e.late /\ f.pc = e.pc
      /\ f.fast_forward = e.fast_forward /\ f.sync_threshold = e.sync_threshold
  BY DEF Fields
<1>2. Shaped(f)
  BY <1>1 DEF Good, Shaped
<1>3. Short(f)
  BY <1>1 DEF Good, Short, Ran
<1>4. StopsSoon(f)
  BY <1>1 DEF Good, StopsSoon
<1> QED BY <1>2, <1>3, <1>4 DEF Good

LEMMA ReceivedIsGood ==
  ASSUME NEW t \in Threads, IInv, NEW c \in Sent PROVE Good(Received(t, c))
<1> DEFINE e == emu[t]
           f == [e EXCEPT !.commands = Append(@, c),
                          !.device = IF c.name = "Stop" THEN "paused" ELSE @,
                          !.stopping = @ \/ c.name = "Stop"]
           g == [e EXCEPT !.device = IF c.name = "Stop" THEN "paused" ELSE @]
<1>1. Good(e) /\ DOMAIN e = Fields /\ e.commands \in Seq(Sent) /\ e.stopping \in BOOLEAN
      /\ (e.stopping => \E i \in DOMAIN e.commands : e.commands[i].name = "Stop")
  BY DEF IInv, Good, Shaped, StopsSoon
<1>2. Good(g)
  BY <1>1, DeviceIsFree
<1>3. Good(f)
  <2>1. f.commands = Append(e.commands, c) /\ DOMAIN f = Fields
        /\ f.stopping = (e.stopping \/ c.name = "Stop")
    BY <1>1 DEF Fields
  <2>2. \A n \in Fields \ {"commands", "device", "stopping"} : f[n] = e[n]
    BY <1>1 DEF Fields
  <2>3. Append(e.commands, c) \in Seq(Sent)
        /\ Len(e.commands) + 1 \in DOMAIN Append(e.commands, c)
        /\ Append(e.commands, c)[Len(e.commands) + 1] = c
        /\ \A i \in DOMAIN e.commands : i \in DOMAIN Append(e.commands, c)
                                        /\ Append(e.commands, c)[i] = e.commands[i]
    BY <1>1
  <2>4. f.stopping => \E i \in DOMAIN Append(e.commands, c) : Append(e.commands, c)[i].name = "Stop"
    BY <1>1, <2>1, <2>3
  <2>5. f.stopping \in BOOLEAN /\ (e.stopping => f.stopping)
    BY <1>1, <2>1
  <2> HIDE DEF e, f
  <2> QED BY <1>1, <2>1, <2>2, <2>3, <2>4, <2>5, CommandsOnly
<1>4. Received(t, c) = f \/ Received(t, c) = g
  BY DEF Received
<1> QED BY <1>2, <1>3, <1>4
-----------------------------------------------------------------------------
(* The steps of a thread.                                                    *)

LEMMA SetKeeps ==
  ASSUME NEW t \in Threads, IInv, NEW r, Good(r), Set(t, r), GuiGood(gui')
  PROVE  IInv'
<1>1. DOMAIN emu' = Threads /\ \A u \in Threads : emu'[u] = IF u = t THEN r ELSE emu[u]
  BY DEF IInv, Set
<1>2. \A u \in Threads : Good(emu'[u])
  BY <1>1 DEF IInv
<1>3. \A u \in Threads : Good(emu[u])'
  BY <1>2 DEF Good, Shaped, Short, StopsSoon, Ran
<1> QED BY <1>1, <1>3 DEF IInv

\* What is known of a runner, and what a step that leaves its commands alone must show.
LEMMA RunnerParts ==
  ASSUME NEW e, Good(e)
  PROVE  /\ DOMAIN e = Fields /\ e.commands \in Seq(Sent) /\ e.stopping \in BOOLEAN
         /\ e.samples \in Nat /\ e.left \in Nat /\ e.left <= FrameSamples /\ e.late \in {0, 1}
         /\ e.fast_forward \in BOOLEAN /\ e.samples <= LongestQueue
         /\ e.pc \notin {"none", "ended"} => e.sync_threshold \in Thresholds
         /\ e.pc \in {"loop", "drain", "saving"} => e.samples < Most
         /\ e.pc \in {"frame", "write", "tail"} /\ e.fast_forward =>
              e.samples + e.left < FrameSamples + Most
         /\ e.pc \in {"frame", "write", "tail"} /\ ~e.fast_forward =>
              e.samples + e.left < FrameSamples + e.sync_threshold
         /\ e.pc = "trim" /\ ~e.fast_forward => e.samples < Most
         /\ e.stopping => \E i \in DOMAIN e.commands : e.commands[i].name = "Stop"
         /\ e.late = 1 => e.stopping /\ e.pc \notin {"none", "loop", "frame"}
<1>1. Shaped(e) /\ Short(e) /\ StopsSoon(e)
  BY DEF Good
<1>2. e.left \in Nat /\ e.left <= FrameSamples /\ e.late \in {0, 1}
  BY <1>1, Bounds DEF Shaped, StopsSoon
<1> QED BY <1>1, <1>2 DEF Shaped, Short, StopsSoon, Ran

LEMMA Numbers ==
  ASSUME NEW e, Good(e), e.pc \notin {"none", "ended"}
  PROVE  /\ e.samples \in Nat /\ e.left \in Nat /\ FrameSamples \in Nat /\ Most \in Nat
         /\ e.sync_threshold \in Thresholds /\ e.sync_threshold \in Nat /\ e.sync_threshold > 0
         /\ 2 * e.sync_threshold <= Most /\ e.sync_threshold + FrameSamples <= Most
         /\ LongestQueue = Most - 1 + FrameSamples
         /\ e.pc \in {"frame", "write", "tail"} => e.samples + e.left <= LongestQueue
<1>1. e.samples \in Nat /\ e.left \in Nat /\ e.sync_threshold \in Thresholds
  BY RunnerParts
<1>2. \A U \in Thresholds : U \in Nat /\ 0 < U /\ 2 * U <= Most /\ U + FrameSamples <= Most
  BY Bounds
<1>3. FrameSamples \in Nat /\ Most \in Nat /\ LongestQueue = Most - 1 + FrameSamples
  BY Bounds
<1>4. e.pc \in {"frame", "write", "tail"} => e.samples + e.left < FrameSamples + Most
  BY <1>1, <1>2, <1>3, RunnerParts, SMTT(30)
<1>5. e.pc \in {"frame", "write", "tail"} => e.samples + e.left <= LongestQueue
  BY <1>1, <1>3, <1>4
<1> QED BY <1>1, <1>2, <1>3, <1>5

LEMMA SameCommands ==
  ASSUME NEW e, Good(e), NEW f, DOMAIN f = Fields,
         f.commands = e.commands, f.stopping = e.stopping, f.fast_forward = e.fast_forward,
         f.sync_threshold = e.sync_threshold, e.pc \notin {"none", "ended"},
         f.samples \in Nat, f.left \in Nat, f.left <= FrameSamples, f.late \in {0, 1},
         f.late = 1 => e.stopping /\ f.pc \notin {"none", "loop", "frame"},
         f.samples <= LongestQueue,
         f.pc \in {"loop", "drain", "saving"} => f.samples < Most,
         f.pc \in {"frame", "write", "tail"} /\ e.fast_forward =>
           f.samples + f.left < FrameSamples + Most,
         f.pc \in {"frame", "write", "tail"} /\ ~e.fast_forward =>
           f.samples + f.left < FrameSamples + e.sync_threshold,
         f.pc = "trim" /\ ~e.fast_forward => f.samples < Most
  PROVE  Good(f)
<1>1. e.commands \in Seq(Sent) /\ e.stopping \in BOOLEAN /\ e.fast_forward \in BOOLEAN
      /\ (e.stopping => \E i \in DOMAIN e.commands : e.commands[i].name = "Stop")
      /\ e.sync_threshold \in Thresholds
  BY RunnerParts
<1>2. f.left \in 0 .. FrameSamples /\ f.late \in Nat /\ f.late <= 1
  BY Bounds
<1>3. Shaped(f)
  BY <1>1, <1>2 DEF Shaped
<1>4. Short(f)
  BY <1>1 DEF Short, Ran
<1>5. StopsSoon(f)
  BY <1>1, <1>2 DEF StopsSoon
<1> QED BY <1>3, <1>4, <1>5 DEF Good

LEMMA LoopKeeps ==
  ASSUME NEW t \in Threads, IInv, Loop(t) PROVE IInv'
<1> DEFINE e == emu[t]
           f == [e EXCEPT !.pc = "frame", !.left = FrameSamples]
           g == [e EXCEPT !.pc = "trim"]
<1>1. Good(e) /\ e.pc = "loop"
  BY DEF IInv, Loop, At
<1>2. Good(f) \/ ~(MayRun(e))
  <2>1. DOMAIN f = Fields /\ f.pc = "frame" /\ f.left = FrameSamples
        /\ f.samples = e.samples /\ f.late = e.late /\ f.commands = e.commands
        /\ f.stopping = e.stopping /\ f.fast_forward = e.fast_forward
        /\ f.sync_threshold = e.sync_threshold
    BY <1>1, RunnerParts DEF Fields
  <2> HIDE DEF e, f
  <2> QED BY <1>1, <2>1, RunnerParts, Numbers, SameCommands, SMTT(60) DEF MayRun
<1>3. Good(g)
  <2>1. DOMAIN g = Fields /\ g.pc = "trim"
        /\ g.samples = e.samples /\ g.left = e.left /\ g.late = e.late
        /\ g.commands = e.commands /\ g.stopping = e.stopping
        /\ g.fast_forward = e.fast_forward /\ g.sync_threshold = e.sync_threshold
    BY <1>1, RunnerParts DEF Fields
  <2> HIDE DEF e, g
  <2> QED BY <1>1, <2>1, RunnerParts, Numbers, SameCommands, SMTT(60)
<1> QED BY <1>1, <1>2, <1>3, SetKeeps DEF Loop, IInv

LEMMA QueueSamplesKeeps ==
  ASSUME NEW t \in Threads, IInv, QueueSamples(t) PROVE IInv'
<1> DEFINE e == emu[t]
           f == [e EXCEPT !.samples = @ + 1, !.left = @ - 1]
<1>1. Good(e) /\ e.pc \in {"frame", "tail"} /\ e.left > 0
  BY DEF IInv, QueueSamples, At
<1>2. Good(f)
  <2>1. DOMAIN f = Fields /\ f.samples = e.samples + 1 /\ f.left = e.left - 1
        /\ f.pc = e.pc /\ f.late = e.late /\ f.commands = e.commands
        /\ f.stopping = e.stopping /\ f.fast_forward = e.fast_forward
        /\ f.sync_threshold = e.sync_threshold
    BY <1>1, RunnerParts DEF Fields
  <2> HIDE DEF e, f
  <2>3. e.samples \in Nat /\ e.left \in Nat /\ e.left <= FrameSamples /\ FrameSamples \in Nat
        /\ LongestQueue \in Int /\ e.samples + e.left <= LongestQueue
    BY <1>1, RunnerParts, Numbers
  <2>2. f.samples \in Nat /\ f.left \in Nat /\ f.left <= FrameSamples /\ f.samples <= LongestQueue
        /\ f.samples + f.left = e.samples + e.left
    BY <1>1, <2>1, <2>3
  <2>4. /\ e.late \in {0, 1} /\ e.samples \in Nat
        /\ e.late = 1 => e.stopping /\ e.pc \notin {"none", "loop", "frame"}
        /\ e.fast_forward => e.samples + e.left < FrameSamples + Most
        /\ ~e.fast_forward => e.samples + e.left < FrameSamples + e.sync_threshold
    BY <1>1, RunnerParts
  <2> QED BY <1>1, <2>1, <2>2, <2>4, SameCommands, SMTT(60)
<1> QED BY <1>1, <1>2, SetKeeps DEF QueueSamples, IInv

LEMMA WriteCardKeeps ==
  ASSUME NEW t \in Threads, IInv, WriteCard(t) PROVE IInv'
<1> DEFINE e == emu[t]
           f == [e EXCEPT !.card = @ \cup {writes'}, !.dirty = TRUE, !.cut = @ \/ e.pc = "tail"]
<1>1. Good(e) /\ e.pc \in {"frame", "tail"}
  BY DEF IInv, WriteCard, At
<1>2. Good(f)
  <2>1. DOMAIN f = Fields /\ f.pc = e.pc
        /\ f.samples = e.samples /\ f.left = e.left /\ f.late = e.late
        /\ f.commands = e.commands /\ f.stopping = e.stopping
        /\ f.fast_forward = e.fast_forward /\ f.sync_threshold = e.sync_threshold
    BY <1>1, RunnerParts DEF Fields
  <2> HIDE DEF e, f
  <2> QED BY <1>1, <2>1, RunnerParts, Numbers, SameCommands, SMTT(60)
<1> QED BY <1>1, <1>2, SetKeeps DEF WriteCard, IInv

LEMMA RenderFrameKeeps ==
  ASSUME NEW t \in Threads, IInv, RenderFrame(t) PROVE IInv'
<1> DEFINE e == emu[t]
           f == SaveCard(e)
<1>1. Good(e) /\ e.pc = "frame"
  BY DEF IInv, RenderFrame, At
<1>2. Good(f)
  <2>1. DOMAIN f = Fields /\ f.pc = (IF e.dirty THEN "write" ELSE "tail")
        /\ f.late = (IF e.dirty /\ e.stopping THEN e.late + 1 ELSE e.late)
        /\ f.samples = e.samples /\ f.left = e.left /\ f.commands = e.commands
        /\ f.stopping = e.stopping /\ f.fast_forward = e.fast_forward
        /\ f.sync_threshold = e.sync_threshold
    BY <1>1, RunnerParts DEF Fields, SaveCard
  <2> HIDE DEF e, f
  <2>2. e.late = 0 /\ f.late \in {0, 1} /\ (f.late = 1 => e.stopping)
    BY <1>1, <2>1, RunnerParts
  <2> QED BY <1>1, <2>1, <2>2, RunnerParts, Numbers, SameCommands, SMTT(60)
<1> QED BY <1>1, <1>2, SetKeeps DEF RenderFrame, IInv

LEMMA CardWrittenKeeps ==
  ASSUME NEW t \in Threads, IInv, CardWritten(t) PROVE IInv'
<1> DEFINE e == emu[t]
           f == [e EXCEPT !.pc = "tail", !.cut = FALSE]
<1>1. Good(e) /\ e.pc = "write"
  BY DEF IInv, CardWritten, At
<1>2. Good(f)
  <2>1. DOMAIN f = Fields /\ f.pc = "tail"
        /\ f.samples = e.samples /\ f.left = e.left /\ f.late = e.late
        /\ f.commands = e.commands /\ f.stopping = e.stopping
        /\ f.fast_forward = e.fast_forward /\ f.sync_threshold = e.sync_threshold
    BY <1>1, RunnerParts DEF Fields
  <2> HIDE DEF e, f
  <2> QED BY <1>1, <2>1, RunnerParts, Numbers, SameCommands, SMTT(60)
<1> QED BY <1>1, <1>2, SetKeeps DEF CardWritten, IInv

LEMMA CardNotWrittenKeeps ==
  ASSUME NEW t \in Threads, IInv, CardNotWritten(t) PROVE IInv'
<1> DEFINE e == emu[t]
           f == EndFrame(e)
<1>1. Good(e) /\ e.pc = "write"
  BY DEF IInv, CardNotWritten, At
<1>2. Good(f)
  <2>1. DOMAIN f = Fields /\ f.pc = "trim"
        /\ f.samples = e.samples /\ f.left = e.left /\ f.late = e.late
        /\ f.commands = e.commands /\ f.stopping = e.stopping
        /\ f.fast_forward = e.fast_forward /\ f.sync_threshold = e.sync_threshold
    BY <1>1, RunnerParts DEF Fields, EndFrame
  <2> HIDE DEF e, f
  <2>2. e.samples \in Nat /\ e.left \in Nat /\ e.sync_threshold \in Nat /\ FrameSamples \in Nat
        /\ Most \in Nat /\ e.sync_threshold + FrameSamples <= Most
        /\ (~e.fast_forward => e.samples + e.left < FrameSamples + e.sync_threshold)
    BY <1>1, RunnerParts, Numbers
  <2>3. ~e.fast_forward => e.samples < Most
    BY <2>2
  <2> QED BY <1>1, <2>1, <2>3, RunnerParts, Numbers, SameCommands, SMTT(60)
<1> QED BY <1>1, <1>2, SetKeeps DEF CardNotWritten, IInv

LEMMA FrameRenderedKeeps ==
  ASSUME NEW t \in Threads, IInv, FrameRendered(t) PROVE IInv'
<1> DEFINE e == emu[t]
           f == EndFrame(e)
<1>1. Good(e) /\ e.pc = "tail"
  BY DEF IInv, FrameRendered, At
<1>2. Good(f)
  <2>1. DOMAIN f = Fields /\ f.pc = "trim"
        /\ f.samples = e.samples /\ f.left = e.left /\ f.late = e.late
        /\ f.commands = e.commands /\ f.stopping = e.stopping
        /\ f.fast_forward = e.fast_forward /\ f.sync_threshold = e.sync_threshold
    BY <1>1, RunnerParts DEF Fields, EndFrame
  <2> HIDE DEF e, f
  <2>2. e.samples \in Nat /\ e.left \in Nat /\ e.sync_threshold \in Nat /\ FrameSamples \in Nat
        /\ Most \in Nat /\ e.sync_threshold + FrameSamples <= Most
        /\ (~e.fast_forward => e.samples + e.left < FrameSamples + e.sync_threshold)
    BY <1>1, RunnerParts, Numbers
  <2>3. ~e.fast_forward => e.samples < Most
    BY <2>2
  <2> QED BY <1>1, <2>1, <2>3, RunnerParts, Numbers, SameCommands, SMTT(60)
<1> QED BY <1>1, <1>2, SetKeeps DEF FrameRendered, IInv

LEMMA CdRomErrorKeeps ==
  ASSUME NEW t \in Threads, IInv, CdRomError(t) PROVE IInv'
<1> DEFINE e == emu[t]
           f == [EndFrame(e) EXCEPT !.cut = TRUE, !.clocked = FALSE]
<1>1. Good(e) /\ e.pc \in {"frame", "tail"}
  BY DEF IInv, CdRomError, At
<1>2. Good(f)
  <2>1. DOMAIN f = Fields /\ f.pc = "trim"
        /\ f.samples = e.samples /\ f.left = e.left /\ f.late = e.late
        /\ f.commands = e.commands /\ f.stopping = e.stopping
        /\ f.fast_forward = e.fast_forward /\ f.sync_threshold = e.sync_threshold
    BY <1>1, RunnerParts DEF Fields, EndFrame
  <2> HIDE DEF e, f
  <2>2. e.samples \in Nat /\ e.left \in Nat /\ e.sync_threshold \in Nat /\ FrameSamples \in Nat
        /\ Most \in Nat /\ e.sync_threshold + FrameSamples <= Most
        /\ (~e.fast_forward => e.samples + e.left < FrameSamples + e.sync_threshold)
    BY <1>1, RunnerParts, Numbers
  <2>3. ~e.fast_forward => e.samples < Most
    BY <2>2
  <2>4. /\ e.samples \in Nat /\ e.left \in Nat /\ e.left <= FrameSamples /\ e.late \in {0, 1}
        /\ e.samples <= LongestQueue
        /\ e.late = 1 => e.stopping /\ e.pc \notin {"none", "loop", "frame"}
    BY <1>1, RunnerParts
  <2> QED BY <1>1, <2>1, <2>3, <2>4, SameCommands, SMTT(60)
<1> QED BY <1>1, <1>2, SetKeeps DEF CdRomError, IInv

LEMMA TrimKeeps ==
  ASSUME NEW t \in Threads, IInv, Trim(t) PROVE IInv'
<1> DEFINE e == emu[t]
           f == [e EXCEPT !.pc = "drain", !.samples = Truncated(e)]
<1>1. Good(e) /\ e.pc = "trim"
  BY DEF IInv, Trim, At
<1>2. Good(f)
  <2>1. DOMAIN f = Fields /\ f.pc = "drain" /\ f.samples = Truncated(e)
        /\ f.left = e.left /\ f.late = e.late /\ f.commands = e.commands
        /\ f.stopping = e.stopping /\ f.fast_forward = e.fast_forward
        /\ f.sync_threshold = e.sync_threshold
    BY <1>1, RunnerParts DEF Fields
  <2> HIDE DEF e, f
  <2>2. f.samples \in Nat /\ f.samples < Most /\ f.samples <= e.samples
    BY <1>1, <2>1, RunnerParts, Numbers, SMTT(30) DEF Truncated
  <2> QED BY <1>1, <2>1, <2>2, RunnerParts, Numbers, SameCommands, SMTT(60)
<1> QED BY <1>1, <1>2, SetKeeps DEF Trim, IInv

LEMMA StateSavedKeeps ==
  ASSUME NEW t \in Threads, IInv, StateSaved(t) PROVE IInv'
<1> DEFINE e == emu[t]
           f == [e EXCEPT !.pc = "drain"]
<1>1. Good(e) /\ e.pc = "saving"
  BY DEF IInv, StateSaved, At
<1>2. Good(f)
  <2>1. DOMAIN f = Fields /\ f.pc = "drain"
        /\ f.samples = e.samples /\ f.left = e.left /\ f.late = e.late
        /\ f.commands = e.commands /\ f.stopping = e.stopping
        /\ f.fast_forward = e.fast_forward /\ f.sync_threshold = e.sync_threshold
    BY <1>1, RunnerParts DEF Fields
  <2> HIDE DEF e, f
  <2> QED BY <1>1, <2>1, RunnerParts, Numbers, SameCommands, SMTT(60)
<1> QED BY <1>1, <1>2, SetKeeps DEF StateSaved, IInv

LEMMA NothingToReceiveKeeps ==
  ASSUME NEW t \in Threads, IInv, NothingToReceive(t) PROVE IInv'
<1> DEFINE e == emu[t]
           f == [e EXCEPT !.pc = "loop"]
<1>1. Good(e) /\ e.pc = "drain" /\ e.commands = <<>>
  BY DEF IInv, NothingToReceive, DrainIsOver, At
<1>2. Good(f)
  <2>1. DOMAIN f = Fields /\ f.pc = "loop"
        /\ f.samples = e.samples /\ f.left = e.left /\ f.late = e.late
        /\ f.commands = e.commands /\ f.stopping = e.stopping
        /\ f.fast_forward = e.fast_forward /\ f.sync_threshold = e.sync_threshold
    BY <1>1, RunnerParts DEF Fields
  <2> HIDE DEF e, f
  <2>2. e.late = 0
    BY <1>1, RunnerParts
  <2> QED BY <1>1, <2>1, <2>2, RunnerParts, Numbers, SameCommands, SMTT(60)
<1> QED BY <1>1, <1>2, SetKeeps DEF NothingToReceive, IInv

\* A command other than Stop is taken off the queue; it may change the switches.
LEMMA TailCommands ==
  ASSUME NEW e, Good(e), e.pc = "drain", e.commands # <<>>, Head(e.commands).name # "Stop",
         NEW f, DOMAIN f = Fields, f.commands = Tail(e.commands), f.pc \in {"drain", "saving"},
         f.samples = e.samples, f.left = e.left, f.late = e.late, f.stopping = e.stopping,
         f.fast_forward \in BOOLEAN, f.sync_threshold \in Thresholds
  PROVE  Good(f)
<1>1. Tail(e.commands) \in Seq(Sent) /\ Len(Tail(e.commands)) = Len(e.commands) - 1
      /\ \A i \in DOMAIN e.commands \ {1} : /\ i - 1 \in DOMAIN Tail(e.commands)
                                            /\ Tail(e.commands)[i - 1] = e.commands[i]
  BY RunnerParts
<1>2. e.commands[1].name # "Stop"
  BY RunnerParts
<1>3. ASSUME e.stopping
      PROVE  \E i \in DOMAIN Tail(e.commands) : Tail(e.commands)[i].name = "Stop"
  <2>1. PICK i \in DOMAIN e.commands : e.commands[i].name = "Stop"
    BY <1>3, RunnerParts
  <2>2. i # 1
    BY <1>2, <2>1
  <2> QED BY <1>1, <2>1, <2>2
<1>4. Shaped(f)
  BY <1>1, RunnerParts, Bounds DEF Shaped
<1>5. Short(f)
  BY RunnerParts DEF Short, Ran
<1>6. StopsSoon(f)
  BY <1>3, RunnerParts DEF StopsSoon
<1> QED BY <1>4, <1>5, <1>6 DEF Good

LEMMA HandledKeeps ==
  ASSUME NEW t \in Threads, IInv, At(t, "drain"), emu[t].commands # <<>>,
         Head(emu[t].commands).name # "Stop", gui' = gui,
         NEW f, DOMAIN f = Fields, f.commands = Tail(emu[t].commands), f.pc \in {"drain", "saving"},
         \A n \in {"samples", "left", "late", "stopping"} : f[n] = emu[t][n],
         f.fast_forward \in BOOLEAN, f.sync_threshold \in Thresholds, Set(t, f)
  PROVE  IInv'
<1>1. Good(emu[t]) /\ emu[t].pc = "drain"
  BY DEF IInv, At
<1>2. Good(f)
  BY <1>1, TailCommands
<1> QED BY <1>2, SetKeeps DEF IInv

LEMMA HandledShape ==
  ASSUME NEW t \in Threads, IInv, At(t, "drain"), emu[t].commands # <<>>
  PROVE  /\ DOMAIN emu[t] = Fields /\ DOMAIN Handled(t) = Fields /\ emu[t].pc = "drain"
         /\ Handled(t).commands = Tail(emu[t].commands)
         /\ \A n \in Fields \ {"commands"} : Handled(t)[n] = emu[t][n]
         /\ emu[t].fast_forward \in BOOLEAN /\ emu[t].sync_threshold \in Thresholds
         /\ Head(emu[t].commands) \in Sent
<1>1. Good(emu[t]) /\ emu[t].pc = "drain"
  BY DEF IInv, At
<1>2. DOMAIN emu[t] = Fields /\ emu[t].commands \in Seq(Sent)
      /\ emu[t].fast_forward \in BOOLEAN /\ emu[t].sync_threshold \in Thresholds
  BY <1>1, RunnerParts
<1>3. Head(emu[t].commands) \in Sent
  BY <1>2
<1>4. Handled(t) = [emu[t] EXCEPT !.commands = Tail(@)]
  BY DEF Handled
<1>5. DOMAIN Handled(t) = Fields /\ Handled(t).commands = Tail(emu[t].commands)
      /\ \A n \in Fields \ {"commands"} : Handled(t)[n] = emu[t][n]
  BY <1>2, <1>4 DEF Fields
<1> QED BY <1>1, <1>2, <1>3, <1>5

LEMMA SetFlagsKeeps ==
  ASSUME NEW t \in Threads, IInv, SetFlags(t) PROVE IInv'
<1> DEFINE h == Handled(t)
           pause == [h EXCEPT !.paused = ~@]
           frame == [h EXCEPT !.step_frame = TRUE]
           forward == [h EXCEPT !.fast_forward = NextCommand(t).value = 1]
           update == [h EXCEPT !.sync_threshold = NextCommand(t).value]
<1>1. At(t, "drain") /\ emu[t].commands # <<>> /\ NextCommand(t) = Head(emu[t].commands)
      /\ NextCommand(t).name # "Stop" /\ gui' = gui
  BY DEF SetFlags, Receives, NextCommand
<1>2. DOMAIN h = Fields /\ h.pc = "drain" /\ h.commands = Tail(emu[t].commands)
      /\ (\A n \in {"samples", "left", "late", "stopping"} : h[n] = emu[t][n])
      /\ h.fast_forward \in BOOLEAN /\ h.sync_threshold \in Thresholds
  BY <1>1, HandledShape DEF Fields
<1> HIDE DEF h
<1>3. CASE Set(t, pause)
  <2>1. DOMAIN pause = Fields /\ \A n \in Fields \ {"paused"} : pause[n] = h[n]
    BY <1>2 DEF Fields
  <2>2. pause.pc = "drain" /\ pause.commands = Tail(emu[t].commands)
        /\ (\A n \in {"samples", "left", "late", "stopping"} : pause[n] = emu[t][n])
        /\ pause.fast_forward \in BOOLEAN /\ pause.sync_threshold \in Thresholds
    BY <1>2, <2>1 DEF Fields
  <2> HIDE DEF pause
  <2> QED BY <1>1, <1>3, <2>1, <2>2, HandledKeeps
<1>4. CASE Set(t, frame)
  <2>1. DOMAIN frame = Fields /\ \A n \in Fields \ {"step_frame"} : frame[n] = h[n]
    BY <1>2 DEF Fields
  <2>2. frame.pc = "drain" /\ frame.commands = Tail(emu[t].commands)
        /\ (\A n \in {"samples", "left", "late", "stopping"} : frame[n] = emu[t][n])
        /\ frame.fast_forward \in BOOLEAN /\ frame.sync_threshold \in Thresholds
    BY <1>2, <2>1 DEF Fields
  <2> HIDE DEF frame
  <2> QED BY <1>1, <1>4, <2>1, <2>2, HandledKeeps
<1>5. CASE Set(t, forward)
  <2>1. DOMAIN forward = Fields /\ forward.fast_forward = (NextCommand(t).value = 1)
        /\ \A n \in Fields \ {"fast_forward"} : forward[n] = h[n]
    BY <1>2 DEF Fields
  <2>2. forward.pc = "drain" /\ forward.commands = Tail(emu[t].commands)
        /\ (\A n \in {"samples", "left", "late", "stopping"} : forward[n] = emu[t][n])
        /\ forward.fast_forward \in BOOLEAN /\ forward.sync_threshold \in Thresholds
    BY <1>2, <2>1 DEF Fields
  <2> HIDE DEF forward
  <2> QED BY <1>1, <1>5, <2>1, <2>2, HandledKeeps
<1>6. CASE NextCommand(t).name = "UpdateConfig" /\ Set(t, update)
  <2>1. NextCommand(t).value \in Thresholds
    BY <1>1, <1>6, HandledShape, SentCommands
  <2>2. DOMAIN update = Fields /\ update.sync_threshold \in Thresholds
        /\ \A n \in Fields \ {"sync_threshold"} : update[n] = h[n]
    BY <1>2, <2>1 DEF Fields
  <2>3. update.pc = "drain" /\ update.commands = Tail(emu[t].commands)
        /\ (\A n \in {"samples", "left", "late", "stopping"} : update[n] = emu[t][n])
        /\ update.fast_forward \in BOOLEAN
    BY <1>2, <2>2 DEF Fields
  <2> HIDE DEF update
  <2> QED BY <1>1, <1>6, <2>2, <2>3, HandledKeeps
<1> QED BY <1>3, <1>4, <1>5, <1>6 DEF SetFlags, Receives, h

LEMMA SaveStateKeeps ==
  ASSUME NEW t \in Threads, IInv, SaveState(t) PROVE IInv'
<1> DEFINE h == Handled(t)
           f == [h EXCEPT !.pc = "saving"]
<1>1. At(t, "drain") /\ emu[t].commands # <<>> /\ Head(emu[t].commands).name # "Stop" /\ gui' = gui
      /\ (Set(t, f) \/ Set(t, h))
  BY DEF SaveState, Receives, NextCommand
<1>2. DOMAIN h = Fields /\ h.pc = "drain" /\ h.commands = Tail(emu[t].commands)
      /\ (\A n \in {"samples", "left", "late", "stopping"} : h[n] = emu[t][n])
      /\ h.fast_forward \in BOOLEAN /\ h.sync_threshold \in Thresholds
  BY <1>1, HandledShape DEF Fields
<1> HIDE DEF h
<1>3. CASE Set(t, h)
  BY <1>1, <1>2, <1>3, HandledKeeps
<1>4. CASE Set(t, f)
  <2>1. DOMAIN f = Fields /\ f.pc = "saving" /\ \A n \in Fields \ {"pc"} : f[n] = h[n]
    BY <1>2 DEF Fields
  <2>2. f.commands = Tail(emu[t].commands)
        /\ (\A n \in {"samples", "left", "late", "stopping"} : f[n] = emu[t][n])
        /\ f.fast_forward \in BOOLEAN /\ f.sync_threshold \in Thresholds
    BY <1>2, <2>1 DEF Fields
  <2> HIDE DEF f
  <2> QED BY <1>1, <1>4, <2>1, <2>2, HandledKeeps
<1> QED BY <1>1, <1>3, <1>4

LEMMA LoadStateKeeps ==
  ASSUME NEW t \in Threads, IInv, LoadState(t) PROVE IInv'
<1> DEFINE h == Handled(t)
           f == FromState(h, state_file)
<1>1. At(t, "drain") /\ emu[t].commands # <<>> /\ Head(emu[t].commands).name # "Stop" /\ gui' = gui
      /\ (Set(t, f) \/ Set(t, h))
  BY DEF LoadState, Receives, NextCommand
<1>2. DOMAIN h = Fields /\ h.pc = "drain" /\ h.commands = Tail(emu[t].commands)
      /\ (\A n \in {"samples", "left", "late", "stopping"} : h[n] = emu[t][n])
      /\ h.fast_forward \in BOOLEAN /\ h.sync_threshold \in Thresholds
  BY <1>1, HandledShape DEF Fields
<1> HIDE DEF h
<1>3. CASE Set(t, h)
  BY <1>1, <1>2, <1>3, HandledKeeps
<1>4. CASE Set(t, f)
  <2>1. DOMAIN f = Fields /\ \A n \in Fields \ {"card", "dirty", "clocked"} : f[n] = h[n]
    BY <1>2 DEF Fields, FromState, Snapshot
  <2>2. f.pc = "drain" /\ f.commands = Tail(emu[t].commands)
        /\ (\A n \in {"samples", "left", "late", "stopping"} : f[n] = emu[t][n])
        /\ f.fast_forward \in BOOLEAN /\ f.sync_threshold \in Thresholds
    BY <1>2, <2>1 DEF Fields
  <2> HIDE DEF f
  <2> QED BY <1>1, <1>4, <2>1, <2>2, HandledKeeps
<1> QED BY <1>1, <1>3, <1>4

LEMMA StopKeeps ==
  ASSUME NEW t \in Threads, IInv, Stop(t) PROVE IInv'
<1>1. Good(Ended(emu[t]))
  BY EndedIsGood DEF IInv
<1> QED BY <1>1, SetKeeps DEF Stop, IInv

LEMMA ThreadStepKeeps ==
  ASSUME NEW t \in Threads, IInv, ThreadStep(t) PROVE IInv'
  BY LoopKeeps, QueueSamplesKeeps, WriteCardKeeps, RenderFrameKeeps, CardWrittenKeeps,
     CardNotWrittenKeeps, FrameRenderedKeeps, CdRomErrorKeeps, TrimKeeps, StopKeeps,
     SetFlagsKeeps, SaveStateKeeps, StateSavedKeeps, LoadStateKeeps, NothingToReceiveKeeps
  DEF ThreadStep

LEMMA CallbackKeeps ==
  ASSUME NEW t \in Threads, IInv, Callback(t) PROVE IInv'
<1> DEFINE e == emu[t]
           f == [e EXCEPT !.samples = @ - 1]
<1>1. Good(e) /\ e.samples > 0
  BY DEF IInv, Callback
<1>2. DOMAIN f = Fields /\ f.samples = e.samples - 1 /\ \A n \in Fields \ {"samples"} : f[n] = e[n]
  BY <1>1, RunnerParts DEF Fields
<1>3. f.pc = e.pc /\ f.left = e.left /\ f.late = e.late /\ f.commands = e.commands
      /\ f.stopping = e.stopping /\ f.fast_forward = e.fast_forward
      /\ f.sync_threshold = e.sync_threshold
  BY <1>2 DEF Fields
<1> HIDE DEF e, f
<1>4. Shaped(f)
  BY <1>1, <1>2, <1>3 DEF Good, Shaped
<1>5. Short(f)
  <2>1. f.samples \in Nat /\ f.samples < e.samples
    BY <1>2, <1>4, <1>1, RunnerParts DEF Shaped
  <2>2. e.samples \in Nat /\ e.left \in Nat /\ FrameSamples \in Nat /\ Most \in Nat
        /\ LongestQueue \in Int
    BY <1>1, RunnerParts, Bounds
  <2>3. Ran(e) => e.sync_threshold \in Nat
    BY <1>1, RunnerParts, Bounds DEF Ran
  <2> QED BY <1>1, <1>3, <2>1, <2>2, <2>3 DEF Good, Short, Ran
<1>6. StopsSoon(f)
  BY <1>1, <1>3 DEF Good, StopsSoon
<1>7. Good(f)
  BY <1>4, <1>5, <1>6 DEF Good
<1> QED BY <1>7, SetKeeps DEF Callback, IInv, e, f
-----------------------------------------------------------------------------
(* The steps of the GUI and of the process.                                  *)

LEMMA AllKeep ==
  ASSUME IInv, GuiGood(gui'), DOMAIN emu' = Threads, \A t \in Threads : Good(emu'[t])
  PROVE  IInv'
<1>1. \A t \in Threads : Good(emu[t])'
  BY DEF Good, Shaped, Short, StopsSoon, Ran
<1>2. GuiGood(gui)'
  BY DEF GuiGood
<1> QED BY <1>1, <1>2 DEF IInv

LEMMA GuiFields ==
  ASSUME IInv
  PROVE  /\ DOMAIN gui = {"up", "pc", "running", "starts", "read", "sync_threshold", "queue_size", "device_size"}
         /\ gui.sync_threshold \in Thresholds /\ gui.running \in Threads \cup {0}
         /\ gui.starts \in Nat /\ gui.starts <= Starts /\ gui.running <= gui.starts
         /\ (gui.pc \in {"opening", "read"} => gui.starts < Starts)
         /\ Starts \in Nat /\ Threads = 1 .. Starts
         /\ DOMAIN emu = Threads /\ \A t \in Threads : Good(emu[t])
  BY ThreadAssumption DEF IInv, GuiGood, Threads

LEMMA SendCommandKeeps ==
  ASSUME IInv, NEW c \in Controls, SendCommand(c) PROVE IInv'
<1>1. gui.running \in Threads
  BY GuiFields DEF SendCommand
<1>2. Good(Received(gui.running, c))
  BY <1>1, ReceivedIsGood, SentCommands
<1> QED BY <1>1, <1>2, SetKeeps DEF SendCommand, IInv

LEMMA CloseKeeps ==
  ASSUME IInv, Close PROVE IInv'
<1> DEFINE r == [Received(gui.running, Command("Stop", 0)) EXCEPT !.device = "closed"]
<1>1. gui.running \in Threads
  BY GuiFields DEF Close
<1>2. Good(r)
  BY <1>1, ReceivedIsGood, DeviceIsFree, SentCommands
<1>3. GuiGood(gui')
  BY GuiFields DEF GuiGood, Close
<1> QED BY <1>1, <1>2, <1>3, SetKeeps DEF Close

LEMMA ChangeConfigKeeps ==
  ASSUME IInv, NEW U \in Thresholds, NEW q, NEW opens \in BOOLEAN, ChangeConfig(U, q, opens)
  PROVE  IInv'
<1> DEFINE t == gui.running
           told == Received(t, Command("UpdateConfig", U))
<1>1. GuiGood(gui')
  BY GuiFields DEF GuiGood, ChangeConfig
<1>2. CASE t = 0
  <2>1. emu' = emu
    BY <1>2 DEF ChangeConfig
  <2> QED BY <1>1, <2>1, GuiFields, AllKeep
<1>3. CASE t # 0
  <2>1. t \in Threads
    BY <1>3, GuiFields
  <2>2. Good(told)
    BY <2>1, ReceivedIsGood, SentCommands
  <2>3. Good([told EXCEPT !.device = "playing"]) /\ Good([emu[t] EXCEPT !.device = "paused"])
    BY <2>1, <2>2, DeviceIsFree, GuiFields
  <2>4. \/ Set(t, told)
        \/ Set(t, [told EXCEPT !.device = "playing"])
        \/ Set(t, [emu[t] EXCEPT !.device = "paused"])
    BY <1>3 DEF ChangeConfig
  <2> HIDE DEF told, t
  <2> QED BY <1>1, <2>1, <2>2, <2>3, <2>4, SetKeeps
<1> QED BY <1>2, <1>3

LEMMA StartEmulatorKeeps ==
  ASSUME IInv, StartEmulator PROVE IInv'
<1>1. GuiGood(gui')
  BY GuiFields DEF GuiGood, StartEmulator, GuiIdle
<1>2. CASE gui.running = 0
  <2>1. emu' = emu
    BY <1>2 DEF StartEmulator
  <2> QED BY <1>1, <2>1, GuiFields, AllKeep
<1>3. CASE gui.running # 0
  <2>1. gui.running \in Threads /\ Good(Received(gui.running, Command("Stop", 0)))
    BY <1>3, GuiFields, ReceivedIsGood, SentCommands
  <2> QED BY <1>1, <1>3, <2>1, SetKeeps DEF StartEmulator
<1> QED BY <1>2, <1>3

LEMMA GuiOnlyKeeps ==
  ASSUME IInv, ReadCard \/ StartFails \/ Restart PROVE IInv'
<1>1. emu' = emu
  BY DEF ReadCard, StartFails, Restart
<1>2. ASSUME ReadCard PROVE GuiGood(gui')
  BY <1>2, GuiFields DEF GuiGood, ReadCard
<1>3. ASSUME StartFails PROVE GuiGood(gui')
  BY <1>3, GuiFields DEF GuiGood, StartFails
<1>4. ASSUME Restart PROVE GuiGood(gui')
  BY <1>4, GuiFields DEF GuiGood, Restart
<1> QED BY <1>1, <1>2, <1>3, <1>4, GuiFields, AllKeep

LEMMA SpawnKeeps ==
  ASSUME IInv, Spawn PROVE IInv'
<1> DEFINE n == gui.starts + 1
           new == [NotStarted EXCEPT !.pc = "loop", !.sync_threshold = gui.sync_threshold,
                     !.device = "playing", !.card = CardFrom(gui.read), !.dirty = TRUE]
<1>1. n \in Threads
  BY GuiFields DEF Spawn
<1>2. GuiGood(gui')
  BY <1>1, GuiFields DEF GuiGood, Spawn
<1>3. Good(new)
  <2>1. DOMAIN new = Fields /\ new.pc = "loop" /\ new.sync_threshold = gui.sync_threshold
        /\ new.samples = 0 /\ new.left = 0 /\ new.late = 0 /\ new.commands = <<>>
        /\ new.stopping = FALSE /\ new.fast_forward = FALSE
    BY DEF NotStarted, Fields
  <2> HIDE DEF new
  <2>2. Shaped(new)
    <3>1. new.samples \in Nat /\ new.left \in 0 .. FrameSamples /\ new.late \in Nat
          /\ <<>> \in Seq(Sent)
      BY <2>1, Bounds
    <3>2. new.sync_threshold \in Thresholds
      BY <2>1, GuiFields
    <3> QED BY <2>1, <3>1, <3>2 DEF Shaped
  <2>3. Most > 0 /\ LongestQueue >= 0
    BY Bounds
  <2>4. Short(new) /\ StopsSoon(new)
    BY <2>1, <2>3 DEF Short, StopsSoon, Ran
  <2> QED BY <2>2, <2>4 DEF Good
<1>4. DOMAIN emu' = Threads
      /\ \A u \in Threads : emu'[u] \in {new, [emu[u] EXCEPT !.device = "closed"], emu[u]}
  BY DEF Spawn
<1> HIDE DEF new
<1>5. \A u \in Threads : Good(emu'[u])
  <2> SUFFICES ASSUME NEW u \in Threads PROVE Good(emu'[u])
    OBVIOUS
  <2>1. Good(emu[u])
    BY GuiFields
  <2>2. Good([emu[u] EXCEPT !.device = "closed"])
    BY <2>1, DeviceIsFree
  <2> QED BY <1>3, <1>4, <2>1, <2>2
<1> QED BY <1>2, <1>4, <1>5, AllKeep

LEMMA ExitKeeps ==
  ASSUME IInv, Exit PROVE IInv'
<1>1. GuiGood(gui')
  BY GuiFields DEF GuiGood, Exit
<1>2. DOMAIN emu' = Threads
      /\ \A u \in Threads : emu'[u] \in {[Ended(emu[u]) EXCEPT !.device = "closed"],
                                         [emu[u] EXCEPT !.device = "closed"]}
  BY DEF Exit
<1>3. \A u \in Threads : Good(emu'[u])
  <2> SUFFICES ASSUME NEW u \in Threads PROVE Good(emu'[u])
    OBVIOUS
  <2>1. Good(emu[u]) /\ Good(Ended(emu[u]))
    BY GuiFields, EndedIsGood
  <2>2. Good([emu[u] EXCEPT !.device = "closed"])
        /\ Good([Ended(emu[u]) EXCEPT !.device = "closed"])
    BY <2>1, DeviceIsFree
  <2> QED BY <1>2, <2>2
<1> QED BY <1>1, <1>2, <1>3, AllKeep
-----------------------------------------------------------------------------
LEMMA InitIsGood == ASSUME Init PROVE IInv
<1>1. GuiGood(gui)
  BY ThreadAssumption DEF GuiGood, Init
<1>2. DOMAIN emu = Threads /\ \A t \in Threads : Good(emu[t])
  BY NewIsGood DEF Init
<1> QED BY <1>1, <1>2 DEF IInv

LEMMA StepIsGood == ASSUME IInv, [Next]_vars PROVE IInv'
<1>1. CASE UNCHANGED vars
  BY <1>1, GuiFields, AllKeep DEF vars, IInv
<1>2. CASE Next
  BY <1>2, SendCommandKeeps, CloseKeeps, ChangeConfigKeeps, StartEmulatorKeeps, GuiOnlyKeeps,
     SpawnKeeps, ThreadStepKeeps, CallbackKeeps, ExitKeeps
  DEF Next
<1> QED BY <1>1, <1>2

LEMMA IInvHolds == Spec => []IInv
  BY InitIsGood, StepIsGood, PTL DEF Spec

\* The queue between an emulator thread and the audio device never holds more than the largest
\* sync threshold, doubled or with a frame on top, and one more frame, whatever the user
\* switches at whatever moment (emuthread.rs: the loop of run, and its truncation).
THEOREM AudioQueueIsBounded == Spec => []AudioIsBounded
<1>1. IInv => AudioIsBounded
  BY DEF IInv, Good, Short, AudioIsBounded
<1> QED BY <1>1, IInvHolds, PTL

\* A thread that was sent Stop saves its card at most once before it ends, whatever was sent
\* before the Stop and however far it was in a frame.
THEOREM OneSaveIsLeft == Spec => []OneSaveAfterStop
<1>1. IInv => OneSaveAfterStop
  BY DEF IInv, Good, StopsSoon, OneSaveAfterStop
<1> QED BY <1>1, IInvHolds, PTL

(***************************************************************************)
(* The memory card file.  As long as nothing costs a write, one thread is  *)
(* alive at most, its card has every write, and the file has them too      *)
(* unless the thread is about to save or was cut short.                    *)
(***************************************************************************)
Cards == SUBSET (1..MaxWrites)
Files == {None, Partial} \cup Cards

\* The file has the first n writes.
Filed(n, file) == \A w \in 1..n : file \notin {None, Partial} /\ w \in file

\* Where a thread is that has saved all it wrote, unless it was cut short.
Settled == {"loop", "tail", "trim", "drain", "saving"}

Holds(e, n, file) ==
  /\ 1..n \subseteq e.card
  /\ e.dirty = FALSE /\ e.pc # "write" => Filed(n, file)
  /\ e.cut = FALSE /\ e.pc \in Settled => Filed(n, file)

Lives(e) == e.pc \notin {"none", "ended"}
Remembers(e) == e.card \in Cards /\ e.dirty \in BOOLEAN /\ e.cut \in BOOLEAN

CardTypes ==
  /\ writes \in 0..MaxWrites /\ mishap \in BOOLEAN
  /\ card_file \in Files /\ gui.read \in Files
  /\ \A t \in Threads : Remembers(emu[t])

NothingLost ==
  /\ \A t, u \in Threads : Lives(emu[t]) /\ Lives(emu[u]) => t = u
  /\ gui.pc = "read" => gui.read = card_file /\ \A t \in Threads : ~Lives(emu[t])
  /\ Filed(writes, card_file) \/ \E t \in Threads : Lives(emu[t])
  /\ \A t \in Threads : Lives(emu[t]) => Holds(emu[t], writes, card_file)

CardIInv == CardTypes /\ (mishap = FALSE => NothingLost)
-----------------------------------------------------------------------------
LEMMA CardInitIsGood == ASSUME Init PROVE CardIInv
<1>1. \A t \in Threads : emu[t] = NotStarted
  BY DEF Init
<1>2. NotStarted.pc = "none" /\ NotStarted.card = {} /\ NotStarted.dirty = FALSE
      /\ NotStarted.cut = FALSE
  BY DEF NotStarted
<1>3. {} \in Cards /\ 0 \in 0..MaxWrites /\ 1..0 = {}
  BY ThreadAssumption DEF Cards
<1>4. gui.read = None /\ card_file = None /\ writes = 0 /\ mishap = FALSE
  BY DEF Init
<1>5. CardTypes
  BY <1>1, <1>2, <1>3, <1>4 DEF CardTypes, Remembers, Files
<1>6. NothingLost
  BY <1>1, <1>2, <1>3 DEF NothingLost, Lives, Filed, Init
<1> QED BY <1>4, <1>5, <1>6 DEF CardIInv

\* A step that changes no runner's place and memory.
LEMMA MemoryKeeps ==
  ASSUME CardIInv, UNCHANGED <<card_file, writes, mishap>>,
         \A t \in Threads : /\ emu'[t].pc = emu[t].pc /\ emu'[t].card = emu[t].card
                            /\ emu'[t].dirty = emu[t].dirty /\ emu'[t].cut = emu[t].cut,
         gui'.read \in Files,
         gui'.pc = "read" => gui.pc = "read" /\ gui'.read = gui.read
  PROVE  CardIInv'
<1>1. CardTypes'
  BY DEF CardIInv, CardTypes, Remembers
<1>2. ASSUME NothingLost PROVE NothingLost'
  BY <1>2 DEF NothingLost, Lives, Holds
<1> QED BY <1>1, <1>2 DEF CardIInv

\* A step of a living thread.
LEMMA ThreadMemoryKeeps ==
  ASSUME CardIInv, DOMAIN emu = Threads, NEW t \in Threads, Lives(emu[t]), NEW r, Set(t, r),
         Remembers(r), gui' = gui, writes' \in 0..MaxWrites, card_file' \in Files,
         mishap' \in BOOLEAN, mishap' = FALSE => mishap = FALSE,
         mishap' = FALSE /\ Lives(r) => Holds(r, writes', card_file'),
         mishap' = FALSE /\ ~Lives(r) => Filed(writes', card_file')
  PROVE  CardIInv'
<1>1. \A u \in Threads : emu'[u] = IF u = t THEN r ELSE emu[u]
  BY DEF Set
<1>2. CardTypes'
  BY <1>1 DEF CardIInv, CardTypes, Remembers
<1>3. ASSUME mishap' = FALSE PROVE NothingLost'
  <2>1. NothingLost
    BY <1>3 DEF CardIInv
  <2>2. \A u \in Threads : Lives(emu[u]) => u = t
    BY <2>1 DEF NothingLost
  <2>3. \A u \in Threads : Lives(emu'[u]) => u = t /\ emu'[u] = r
    BY <1>1, <2>2
  <2>4. gui'.pc # "read"
    BY <2>1 DEF NothingLost
  <2>5. Filed(writes', card_file') \/ Lives(emu'[t])
    BY <1>1, <1>3
  <2>6. \A u \in Threads : Lives(emu'[u]) => Holds(emu'[u], writes', card_file')
    BY <1>3, <2>3
  <2> QED BY <2>3, <2>4, <2>5, <2>6 DEF NothingLost, Lives, Holds, Filed
<1> QED BY <1>2, <1>3 DEF CardIInv

\* What a living thread knows while nothing was lost.
LEMMA LivingThread ==
  ASSUME IInv, CardIInv, NEW t \in Threads, Lives(emu[t])
  PROVE  /\ DOMAIN emu = Threads /\ DOMAIN emu[t] = Fields /\ Remembers(emu[t])
         /\ mishap = FALSE => Holds(emu[t], writes, card_file)
         /\ writes \in 0..MaxWrites /\ card_file \in Files /\ mishap \in BOOLEAN
<1>1. Good(emu[t]) /\ DOMAIN emu = Threads
  BY DEF IInv
<1> QED BY <1>1, RunnerParts DEF CardIInv, CardTypes, NothingLost

\* A step of a thread that only goes to another place.
LEMMA MovedKeeps ==
  ASSUME IInv, CardIInv, NEW t \in Threads, emu[t].pc \in {"loop", "frame", "tail", "trim", "drain", "saving"},
         NEW r, Set(t, r),
         r.card = emu[t].card, r.dirty = emu[t].dirty, r.cut = emu[t].cut,
         r.pc \in {"loop", "frame", "tail", "trim", "drain", "saving"},
         r.pc \in Settled => emu[t].pc \in Settled,
         UNCHANGED <<gui, card_file, writes, mishap>>
  PROVE  CardIInv'
<1>1. Lives(emu[t]) /\ Lives(r)
  BY DEF Lives
<1>2. Remembers(r)
  BY <1>1, LivingThread DEF Remembers
<1>3. mishap = FALSE => Holds(r, writes, card_file)
  BY <1>1, LivingThread DEF Holds
<1> QED BY <1>1, <1>2, <1>3, LivingThread, ThreadMemoryKeeps

LEMMA MovesKeepCard ==
  ASSUME IInv, CardIInv, NEW t \in Threads,
         Loop(t) \/ QueueSamples(t) \/ FrameRendered(t) \/ Trim(t) \/ StateSaved(t) \/ NothingToReceive(t)
  PROVE  CardIInv'
<1>1. emu[t].pc \in {"loop", "frame", "tail", "trim", "drain", "saving"}
  BY DEF Loop, QueueSamples, FrameRendered, Trim, StateSaved, NothingToReceive, At
<1>2. DOMAIN emu[t] = Fields
  BY <1>1, LivingThread DEF Lives
<1>3. CASE Loop(t)
  <2>1. emu[t].pc = "loop" /\ UNCHANGED <<gui, card_file, writes, mishap>>
    BY <1>3 DEF Loop, At
  <2>2. PICK r \in {[emu[t] EXCEPT !.pc = "frame", !.left = FrameSamples], [emu[t] EXCEPT !.pc = "trim"]} :
          Set(t, r)
    BY <1>3 DEF Loop
  <2>3. r.card = emu[t].card /\ r.dirty = emu[t].dirty /\ r.cut = emu[t].cut
        /\ r.pc \in {"frame", "trim"}
    BY <1>2, <2>2 DEF Fields
  <2> QED BY <2>1, <2>2, <2>3, MovedKeeps DEF Settled
<1>4. CASE QueueSamples(t)
  <2> DEFINE r == [emu[t] EXCEPT !.samples = @ + 1, !.left = @ - 1]
  <2>1. r.card = emu[t].card /\ r.dirty = emu[t].dirty /\ r.cut = emu[t].cut /\ r.pc = emu[t].pc
    BY <1>2 DEF Fields
  <2>2. Set(t, r) /\ UNCHANGED <<gui, card_file, writes, mishap>>
    BY <1>4 DEF QueueSamples
  <2> HIDE DEF r
  <2> QED BY <1>1, <2>1, <2>2, MovedKeeps
<1>5. CASE FrameRendered(t)
  <2> DEFINE r == EndFrame(emu[t])
  <2>1. r.card = emu[t].card /\ r.dirty = emu[t].dirty /\ r.cut = emu[t].cut /\ r.pc = "trim"
    BY <1>2 DEF EndFrame, Fields
  <2>2. Set(t, r) /\ emu[t].pc = "tail" /\ UNCHANGED <<gui, card_file, writes, mishap>>
    BY <1>5 DEF FrameRendered, At
  <2> HIDE DEF r
  <2> QED BY <2>1, <2>2, MovedKeeps DEF Settled
<1>6. CASE Trim(t)
  <2> DEFINE r == [emu[t] EXCEPT !.pc = "drain", !.samples = Truncated(emu[t])]
  <2>1. r.card = emu[t].card /\ r.dirty = emu[t].dirty /\ r.cut = emu[t].cut /\ r.pc = "drain"
    BY <1>2 DEF Fields
  <2>2. Set(t, r) /\ emu[t].pc = "trim" /\ UNCHANGED <<gui, card_file, writes, mishap>>
    BY <1>6 DEF Trim, At
  <2> HIDE DEF r
  <2> QED BY <2>1, <2>2, MovedKeeps DEF Settled
<1>7. CASE StateSaved(t)
  <2> DEFINE r == [emu[t] EXCEPT !.pc = "drain"]
  <2>1. r.card = emu[t].card /\ r.dirty = emu[t].dirty /\ r.cut = emu[t].cut /\ r.pc = "drain"
    BY <1>2 DEF Fields
  <2>2. Set(t, r) /\ emu[t].pc = "saving" /\ UNCHANGED <<gui, card_file, writes, mishap>>
    BY <1>7 DEF StateSaved, At
  <2> HIDE DEF r
  <2> QED BY <2>1, <2>2, MovedKeeps DEF Settled
<1>8. CASE NothingToReceive(t)
  <2> DEFINE r == [emu[t] EXCEPT !.pc = "loop"]
  <2>1. r.card = emu[t].card /\ r.dirty = emu[t].dirty /\ r.cut = emu[t].cut /\ r.pc = "loop"
    BY <1>2 DEF Fields
  <2>2. Set(t, r) /\ emu[t].pc = "drain" /\ UNCHANGED <<gui, card_file, writes, mishap>>
    BY <1>8 DEF NothingToReceive, At
  <2> HIDE DEF r
  <2> QED BY <2>1, <2>2, MovedKeeps DEF Settled
<1> QED BY <1>3, <1>4, <1>5, <1>6, <1>7, <1>8

\* A command that is no Stop: a state that is loaded brings no memory card with it.
LEMMA CommandsKeepCard ==
  ASSUME IInv, CardIInv, NEW t \in Threads, SetFlags(t) \/ SaveState(t) \/ LoadState(t)
  PROVE  CardIInv'
<1> DEFINE h == Handled(t)
<1>1. At(t, "drain") /\ emu[t].commands # <<>> /\ UNCHANGED <<gui, card_file, writes, mishap>>
  BY DEF SetFlags, SaveState, LoadState, Receives
<1>2. DOMAIN h = Fields /\ h.card = emu[t].card /\ h.dirty = emu[t].dirty /\ h.cut = emu[t].cut
      /\ h.pc = "drain" /\ emu[t].pc = "drain"
  BY <1>1, HandledShape DEF Fields, At
<1>3. PICK r \in {[h EXCEPT !.paused = ~@], [h EXCEPT !.step_frame = TRUE],
                  [h EXCEPT !.fast_forward = NextCommand(t).value = 1],
                  [h EXCEPT !.sync_threshold = NextCommand(t).value],
                  [h EXCEPT !.pc = "saving"], h, FromState(h, state_file)} : Set(t, r)
  BY DEF SetFlags, SaveState, LoadState
<1> HIDE DEF h
<1>4. r.card = emu[t].card /\ r.dirty = emu[t].dirty /\ r.cut = emu[t].cut
      /\ r.pc \in {"drain", "saving"}
  BY <1>2, <1>3 DEF Fields, FromState, Snapshot
<1> QED BY <1>1, <1>2, <1>3, <1>4, MovedKeeps DEF Settled

LEMMA WriteCardKeepsCard ==
  ASSUME IInv, CardIInv, NEW t \in Threads, WriteCard(t) PROVE CardIInv'
<1> DEFINE e == emu[t]
           r == [e EXCEPT !.card = @ \cup {writes'}, !.dirty = TRUE, !.cut = @ \/ e.pc = "tail"]
<1>1. e.pc \in {"frame", "tail"} /\ Lives(e)
  BY DEF WriteCard, Lives
<1>2. /\ writes < MaxWrites /\ writes' = writes + 1 /\ Set(t, r)
      /\ UNCHANGED <<gui, card_file, mishap>>
  BY DEF WriteCard
<1>3. DOMAIN e = Fields /\ Remembers(e) /\ writes \in 0..MaxWrites /\ card_file \in Files
      /\ mishap \in BOOLEAN /\ DOMAIN emu = Threads
      /\ (mishap = FALSE => Holds(e, writes, card_file))
  BY <1>1, LivingThread
<1>4. r.card = e.card \cup {writes'} /\ r.dirty = TRUE /\ r.cut = (e.cut \/ e.pc = "tail")
      /\ r.pc = e.pc
  BY <1>3 DEF Fields
<1>5. writes' \in 1..MaxWrites /\ 1..writes' = (1..writes) \cup {writes'}
  BY <1>2, <1>3, ThreadAssumption
<1> HIDE DEF r, e
<1>6. Remembers(r)
  BY <1>3, <1>4, <1>5 DEF Remembers, Cards
<1>7. mishap = FALSE => Holds(r, writes', card_file)
  BY <1>1, <1>3, <1>4, <1>5 DEF Holds, Settled
<1>8. Lives(r)
  BY <1>1, <1>4 DEF Lives
<1>9. writes' \in 0..MaxWrites
  BY <1>5
<1> QED BY <1>1, <1>2, <1>3, <1>6, <1>7, <1>8, <1>9, ThreadMemoryKeeps DEF e

LEMMA RenderFrameKeepsCard ==
  ASSUME IInv, CardIInv, NEW t \in Threads, RenderFrame(t) PROVE CardIInv'
<1> DEFINE e == emu[t]
           r == SaveCard(e)
<1>1. e.pc = "frame" /\ Lives(e)
  BY DEF RenderFrame, At, Lives
<1>2. /\ Set(t, r) /\ UNCHANGED <<gui, writes, mishap>>
      /\ card_file' = IF r.pc = "write" THEN Partial ELSE card_file
  BY DEF RenderFrame
<1>3. DOMAIN e = Fields /\ Remembers(e) /\ writes \in 0..MaxWrites /\ card_file \in Files
      /\ mishap \in BOOLEAN /\ DOMAIN emu = Threads
      /\ (mishap = FALSE => Holds(e, writes, card_file))
  BY <1>1, LivingThread
<1>4. r.card = e.card /\ r.dirty = FALSE /\ r.cut = e.cut
      /\ r.pc = IF e.dirty THEN "write" ELSE "tail"
  BY <1>3 DEF SaveCard, Fields
<1> HIDE DEF r, e
<1>5. Remembers(r) /\ Lives(r) /\ card_file' \in Files
  BY <1>2, <1>3, <1>4 DEF Remembers, Lives, Files
<1>6. mishap = FALSE => Holds(r, writes, card_file')
  BY <1>1, <1>2, <1>3, <1>4 DEF Holds, Settled, Remembers
<1> QED BY <1>1, <1>2, <1>3, <1>5, <1>6, ThreadMemoryKeeps DEF e

LEMMA CardWrittenKeepsCard ==
  ASSUME IInv, CardIInv, NEW t \in Threads, CardWritten(t) PROVE CardIInv'
<1> DEFINE e == emu[t]
           r == [e EXCEPT !.pc = "tail", !.cut = FALSE]
<1>1. e.pc = "write" /\ Lives(e)
  BY DEF CardWritten, At, Lives
<1>2. Set(t, r) /\ card_file' = e.card /\ UNCHANGED <<gui, writes, mishap>>
  BY DEF CardWritten
<1>3. DOMAIN e = Fields /\ Remembers(e) /\ writes \in 0..MaxWrites /\ DOMAIN emu = Threads
      /\ mishap \in BOOLEAN /\ (mishap = FALSE => Holds(e, writes, card_file))
  BY <1>1, LivingThread
<1>4. r.card = e.card /\ r.dirty = e.dirty /\ r.cut = FALSE /\ r.pc = "tail"
  BY <1>3 DEF Fields
<1> HIDE DEF r, e
<1>5. Remembers(r) /\ Lives(r) /\ card_file' \in Files
  BY <1>2, <1>3, <1>4 DEF Remembers, Lives, Files
<1>6. e.card \notin {None, Partial}
  BY <1>3, ThreadAssumption DEF Remembers, Cards
<1>7. mishap = FALSE => Filed(writes, card_file')
  BY <1>2, <1>3, <1>6 DEF Holds, Filed
<1>8. mishap = FALSE => Holds(r, writes, card_file')
  BY <1>3, <1>4, <1>7 DEF Holds
<1> QED BY <1>1, <1>2, <1>3, <1>5, <1>8, ThreadMemoryKeeps DEF e

LEMMA CardNotWrittenKeepsCard ==
  ASSUME IInv, CardIInv, NEW t \in Threads, CardNotWritten(t) PROVE CardIInv'
<1> DEFINE e == emu[t]
           r == EndFrame(e)
<1>1. e.pc = "write" /\ Lives(e)
  BY DEF CardNotWritten, At, Lives
<1>2. Set(t, r) /\ mishap' = TRUE /\ UNCHANGED <<gui, card_file, writes>>
  BY DEF CardNotWritten
<1>3. DOMAIN e = Fields /\ Remembers(e) /\ writes \in 0..MaxWrites /\ DOMAIN emu = Threads
      /\ card_file \in Files
  BY <1>1, LivingThread
<1>4. Remembers(r)
  BY <1>3 DEF EndFrame, Fields, Remembers
<1> HIDE DEF r, e
<1> QED BY <1>1, <1>2, <1>3, <1>4, ThreadMemoryKeeps DEF e

LEMMA CdRomErrorKeepsCard ==
  ASSUME IInv, CardIInv, NEW t \in Threads, CdRomError(t) PROVE CardIInv'
<1> DEFINE e == emu[t]
           r == [EndFrame(e) EXCEPT !.cut = TRUE, !.clocked = FALSE]
<1>1. e.pc \in {"frame", "tail"} /\ Lives(e)
  BY DEF CdRomError, Lives
<1>2. Set(t, r) /\ UNCHANGED <<gui, card_file, writes, mishap>>
  BY DEF CdRomError
<1>3. DOMAIN e = Fields /\ Remembers(e) /\ writes \in 0..MaxWrites /\ card_file \in Files
      /\ mishap \in BOOLEAN /\ DOMAIN emu = Threads
      /\ (mishap = FALSE => Holds(e, writes, card_file))
  BY <1>1, LivingThread
<1>4. r.card = e.card /\ r.dirty = e.dirty /\ r.cut = TRUE /\ r.pc = "trim"
  BY <1>3 DEF EndFrame, Fields
<1> HIDE DEF r, e
<1>5. Remembers(r) /\ Lives(r)
  BY <1>3, <1>4 DEF Remembers, Lives
<1>6. mishap = FALSE => Holds(r, writes, card_file)
  BY <1>1, <1>3, <1>4 DEF Holds
<1> QED BY <1>1, <1>2, <1>3, <1>5, <1>6, ThreadMemoryKeeps DEF e

\* Stop is received outside of a frame: what was not saved is a mishap.
LEMMA StopKeepsCard ==
  ASSUME IInv, CardIInv, NEW t \in Threads, Stop(t) PROVE CardIInv'
<1> DEFINE e == emu[t]
           r == Ended(e)
<1>1. e.pc = "drain" /\ Lives(e)
  BY DEF Stop, Receives, At, Lives
<1>2. Set(t, r) /\ mishap' = (mishap \/ (e.dirty /\ e.cut)) /\ UNCHANGED <<gui, card_file, writes>>
  BY DEF Stop
<1>3. Remembers(e) /\ writes \in 0..MaxWrites /\ card_file \in Files
      /\ mishap \in BOOLEAN /\ DOMAIN emu = Threads
      /\ (mishap = FALSE => Holds(e, writes, card_file))
  BY <1>1, LivingThread
<1>4. r.card = {} /\ r.dirty = FALSE /\ r.cut = FALSE /\ r.pc = "ended"
  BY DEF Ended, NotStarted
<1> HIDE DEF r, e
<1>5. Remembers(r) /\ ~Lives(r)
  BY <1>4 DEF Remembers, Lives, Cards
<1>6. mishap' \in BOOLEAN /\ (mishap' = FALSE => mishap = FALSE /\ (e.dirty = FALSE \/ e.cut = FALSE))
  BY <1>2, <1>3 DEF Remembers
<1>7. mishap' = FALSE => Filed(writes, card_file)
  BY <1>1, <1>3, <1>6 DEF Holds, Settled
<1> QED BY <1>1, <1>2, <1>3, <1>5, <1>6, <1>7, ThreadMemoryKeeps DEF e

LEMMA ThreadStepKeepsCard ==
  ASSUME IInv, CardIInv, NEW t \in Threads, ThreadStep(t) PROVE CardIInv'
  BY MovesKeepCard, CommandsKeepCard, WriteCardKeepsCard, RenderFrameKeepsCard,
     CardWrittenKeepsCard, CardNotWrittenKeepsCard, CdRomErrorKeepsCard, StopKeepsCard
  DEF ThreadStep
-----------------------------------------------------------------------------
\* Commands, the audio device and its callback touch no memory card.
LEMMA SendingKeepsCard ==
  ASSUME IInv, CardIInv, NEW t \in Threads,
         NEW r \in {Received(t, c) : c \in Sent} \cup {emu[t]}, NEW f, Set(t, f),
         f = r \/ \E d : f = [r EXCEPT !.device = d],
         UNCHANGED <<card_file, writes, mishap>>, gui'.read = gui.read,
         gui'.pc = "read" => gui.pc = "read"
  PROVE  CardIInv'
<1>1. DOMAIN emu = Threads /\ DOMAIN emu[t] = Fields
  BY RunnerParts DEF IInv
<1>2. DOMAIN r = Fields /\ r.pc = emu[t].pc /\ r.card = emu[t].card /\ r.dirty = emu[t].dirty
      /\ r.cut = emu[t].cut
  BY <1>1 DEF Received, Fields
<1>3. f.pc = emu[t].pc /\ f.card = emu[t].card /\ f.dirty = emu[t].dirty /\ f.cut = emu[t].cut
  BY <1>2 DEF Fields
<1>4. \A u \in Threads : emu'[u] = IF u = t THEN f ELSE emu[u]
  BY <1>1 DEF Set
<1>5. \A u \in Threads : /\ emu'[u].pc = emu[u].pc /\ emu'[u].card = emu[u].card
                         /\ emu'[u].dirty = emu[u].dirty /\ emu'[u].cut = emu[u].cut
  BY <1>3, <1>4
<1>6. gui'.read \in Files
  BY DEF CardIInv, CardTypes
<1> QED BY <1>5, <1>6, MemoryKeeps

LEMMA TalkKeepsCard ==
  ASSUME IInv, CardIInv,
         \/ \E c \in Controls : SendCommand(c)
         \/ Close
         \/ \E U \in Thresholds, q \in QueueSizes, opens \in BOOLEAN : ChangeConfig(U, q, opens)
         \/ StartEmulator
         \/ \E t \in Threads : Callback(t)
         \/ StartFails
         \/ Restart
         \/ UNCHANGED vars
  PROVE  CardIInv'
<1>1. CASE emu' = emu /\ UNCHANGED <<card_file, writes, mishap>> /\ gui'.read \in Files
           /\ (gui'.pc = "read" => gui.pc = "read" /\ gui'.read = gui.read)
  BY <1>1, MemoryKeeps
<1>2. gui.read \in Files /\ None \in Files
  BY DEF CardIInv, CardTypes, Files
<1>3. CASE \E c \in Controls : SendCommand(c)
  <2>1. PICK c \in Controls : SendCommand(c)
    BY <1>3
  <2>2. gui.running \in Threads /\ c \in Sent /\ Set(gui.running, Received(gui.running, c))
        /\ UNCHANGED <<gui, card_file, writes, mishap>>
    BY <2>1, GuiFields, SentCommands DEF SendCommand
  <2> QED BY <2>2, SendingKeepsCard
<1>4. CASE Close
  <2>1. gui.running \in Threads /\ Command("Stop", 0) \in Sent
        /\ Set(gui.running, [Received(gui.running, Command("Stop", 0)) EXCEPT !.device = "closed"])
        /\ UNCHANGED <<card_file, writes, mishap>>
    BY <1>4, GuiFields, SentCommands DEF Close
  <2>2. gui'.read = gui.read /\ gui'.pc = gui.pc
    BY <1>4, GuiFields DEF Close
  <2> QED BY <2>1, <2>2, SendingKeepsCard
<1>5. CASE \E U \in Thresholds, q \in QueueSizes, opens \in BOOLEAN : ChangeConfig(U, q, opens)
  <2>1. PICK U \in Thresholds, q \in QueueSizes, opens \in BOOLEAN : ChangeConfig(U, q, opens)
    BY <1>5
  <2> DEFINE t == gui.running
             told == Received(t, Command("UpdateConfig", U))
  <2>2. UNCHANGED <<card_file, writes, mishap>>
    BY <2>1 DEF ChangeConfig
  <2>3. gui'.read = gui.read /\ gui'.pc = gui.pc
    BY <2>1, GuiFields DEF ChangeConfig, GuiIdle
  <2>4. CASE t = 0
    <3>1. emu' = emu
      BY <2>1, <2>4 DEF ChangeConfig
    <3> QED BY <1>1, <1>2, <2>2, <2>3, <3>1
  <2>5. CASE t # 0
    <3>1. t \in Threads /\ Command("UpdateConfig", U) \in Sent
      BY <2>5, GuiFields, SentCommands
    <3>2. \/ Set(t, told)
          \/ Set(t, [told EXCEPT !.device = "playing"])
          \/ Set(t, [emu[t] EXCEPT !.device = "paused"])
      BY <2>1, <2>5 DEF ChangeConfig
    <3>3. told \in {Received(t, c) : c \in Sent}
      BY <3>1
    <3> HIDE DEF told, t
    <3>4. CASE Set(t, told)
      BY <2>2, <2>3, <3>1, <3>3, <3>4, SendingKeepsCard
    <3>5. CASE Set(t, [told EXCEPT !.device = "playing"])
      BY <2>2, <2>3, <3>1, <3>3, <3>5, SendingKeepsCard
    <3>6. CASE Set(t, [emu[t] EXCEPT !.device = "paused"])
      BY <2>2, <2>3, <3>1, <3>6, SendingKeepsCard
    <3> QED BY <3>2, <3>4, <3>5, <3>6
  <2> QED BY <2>4, <2>5
<1>6. CASE StartEmulator
  <2>1. gui'.read = gui.read /\ gui'.pc = "opening" /\ UNCHANGED <<card_file, writes, mishap>>
    BY <1>6, GuiFields DEF StartEmulator
  <2>2. CASE gui.running = 0
    BY <1>1, <1>2, <1>6, <2>1, <2>2 DEF StartEmulator
  <2>3. CASE gui.running # 0
    BY <1>6, <2>1, <2>3, GuiFields, SentCommands, SendingKeepsCard DEF StartEmulator
  <2> QED BY <2>2, <2>3
<1>7. CASE \E t \in Threads : Callback(t)
  <2>1. PICK t \in Threads : Callback(t)
    BY <1>7
  <2> DEFINE f == [emu[t] EXCEPT !.samples = @ - 1]
  <2>2. DOMAIN emu = Threads /\ DOMAIN emu[t] = Fields
    BY RunnerParts DEF IInv
  <2>3. \A u \in Threads : emu'[u] = IF u = t THEN f ELSE emu[u]
    BY <2>1, <2>2 DEF Callback, Set
  <2>4. f.pc = emu[t].pc /\ f.card = emu[t].card /\ f.dirty = emu[t].dirty /\ f.cut = emu[t].cut
    BY <2>2 DEF Fields
  <2>5. \A u \in Threads : /\ emu'[u].pc = emu[u].pc /\ emu'[u].card = emu[u].card
                           /\ emu'[u].dirty = emu[u].dirty /\ emu'[u].cut = emu[u].cut
    BY <2>3, <2>4
  <2>6. UNCHANGED <<gui, card_file, writes, mishap>>
    BY <2>1 DEF Callback
  <2> QED BY <1>2, <2>5, <2>6, MemoryKeeps
<1>8. CASE StartFails
  <2>1. gui'.read = None /\ gui'.pc = "idle" /\ emu' = emu /\ UNCHANGED <<card_file, writes, mishap>>
    BY <1>8, GuiFields DEF StartFails
  <2> QED BY <1>1, <1>2, <2>1
<1>9. CASE Restart
  <2>1. gui'.read = gui.read /\ gui'.pc = gui.pc /\ emu' = emu /\ UNCHANGED <<card_file, writes, mishap>>
    BY <1>9, GuiFields DEF Restart
  <2> QED BY <1>1, <1>2, <2>1
<1>10. CASE UNCHANGED vars
  BY <1>1, <1>2, <1>10 DEF vars
<1> QED BY <1>3, <1>4, <1>5, <1>6, <1>7, <1>8, <1>9, <1>10

\* The file is read for a thread that is not there yet, while no other may write it.
LEMMA ReadCardKeepsCard ==
  ASSUME IInv, CardIInv, ReadCard PROVE CardIInv'
<1>1. gui'.read = card_file /\ emu' = emu /\ UNCHANGED <<card_file, writes>>
      /\ mishap' = (mishap \/ \E t \in Threads : Alive(t))
  BY GuiFields DEF ReadCard
<1>2. CardTypes'
  BY <1>1 DEF CardIInv, CardTypes, Remembers
<1>3. ASSUME mishap' = FALSE PROVE NothingLost'
  <2>1. NothingLost /\ \A t \in Threads : ~Lives(emu[t])
    BY <1>1, <1>3 DEF CardIInv, CardTypes, Alive, Lives
  <2> QED BY <1>1, <2>1 DEF NothingLost, Lives
<1> QED BY <1>2, <1>3 DEF CardIInv

LEMMA SpawnKeepsCard ==
  ASSUME IInv, CardIInv, Spawn PROVE CardIInv'
<1> DEFINE n == gui.starts + 1
           new == [NotStarted EXCEPT !.pc = "loop", !.sync_threshold = gui.sync_threshold,
                     !.device = "playing", !.card = CardFrom(gui.read), !.dirty = TRUE]
<1>1. n \in Threads /\ gui.pc = "read"
  BY GuiFields DEF Spawn
<1>2. gui'.pc = "idle" /\ gui'.read = None /\ UNCHANGED <<card_file, writes, mishap>>
  BY GuiFields DEF Spawn
<1>3. new.pc = "loop" /\ new.card = CardFrom(gui.read) /\ new.dirty = TRUE /\ new.cut = FALSE
  BY DEF NotStarted
<1>4. /\ emu'[n] = new
      /\ \A u \in Threads : u # n => emu'[u] \in {[emu[u] EXCEPT !.device = "closed"], emu[u]}
  <2>1. emu' = [u \in Threads |-> CASE u = n -> new
                                   [] u = gui.running -> [emu[u] EXCEPT !.device = "closed"]
                                   [] OTHER -> emu[u]]
    BY DEF Spawn
  <2>2. n # gui.running
    BY GuiFields
  <2> HIDE DEF new, n
  <2> QED BY <1>1, <2>1, <2>2
<1> HIDE DEF new, n
<1>5. \A u \in Threads : u # n => /\ emu'[u].pc = emu[u].pc /\ emu'[u].card = emu[u].card
                                  /\ emu'[u].dirty = emu[u].dirty /\ emu'[u].cut = emu[u].cut
  <2> SUFFICES ASSUME NEW u \in Threads, u # n
               PROVE  /\ emu'[u].pc = emu[u].pc /\ emu'[u].card = emu[u].card
                      /\ emu'[u].dirty = emu[u].dirty /\ emu'[u].cut = emu[u].cut
    OBVIOUS
  <2>1. DOMAIN emu[u] = Fields
    BY RunnerParts DEF IInv
  <2> QED BY <1>4, <2>1 DEF Fields
<1>6. CardFrom(gui.read) \in Cards
  BY DEF CardFrom, CardIInv, CardTypes, Files, Cards
<1>7. CardTypes'
  BY <1>2, <1>3, <1>4, <1>5, <1>6, ZenonT(30) DEF CardIInv, CardTypes, Remembers, Files
<1>8. ASSUME mishap' = FALSE PROVE NothingLost'
  <2>1. NothingLost
    BY <1>2, <1>8 DEF CardIInv
  <2>2. gui.read = card_file /\ (\A u \in Threads : ~Lives(emu[u])) /\ Filed(writes, card_file)
    BY <1>1, <2>1 DEF NothingLost
  <2>3. \A u \in Threads : Lives(emu'[u]) => u = n
    BY <1>5, <2>2 DEF Lives
  <2>4. 1..writes \subseteq CardFrom(card_file)
    BY <2>2 DEF Filed, CardFrom
  <2>5. Holds(new, writes, card_file)
    BY <1>3, <2>2, <2>4 DEF Holds
  <2>6. \A u \in Threads : Lives(emu'[u]) => Holds(emu'[u], writes, card_file)
    BY <1>4, <2>3, <2>5
  <2> QED BY <1>2, <2>2, <2>3, <2>6 DEF NothingLost, Lives, Holds, Filed
<1> QED BY <1>7, <1>8 DEF CardIInv

LEMMA ExitKeepsCard ==
  ASSUME IInv, CardIInv, Exit PROVE CardIInv'
<1>1. gui'.read = None /\ gui'.pc = "idle" /\ UNCHANGED <<card_file, writes>>
      /\ mishap' = (mishap \/ \E t \in Threads : Alive(t) /\ (emu[t].dirty \/ emu[t].pc = "write"))
  BY GuiFields DEF Exit
<1>2. \A t \in Threads : emu'[t] = IF Lives(emu[t]) THEN [Ended(emu[t]) EXCEPT !.device = "closed"]
                                   ELSE [emu[t] EXCEPT !.device = "closed"]
  BY DEF Exit, Alive, Lives
<1>3. \A t \in Threads : Remembers(emu'[t]) /\ ~Lives(emu'[t])
  <2> SUFFICES ASSUME NEW t \in Threads PROVE Remembers(emu'[t]) /\ ~Lives(emu'[t])
    OBVIOUS
  <2>1. DOMAIN emu[t] = Fields /\ Remembers(emu[t])
    BY RunnerParts DEF IInv, CardIInv, CardTypes
  <2>2. CASE Lives(emu[t])
    <3> DEFINE r == [Ended(emu[t]) EXCEPT !.device = "closed"]
    <3>1. r.pc = "ended" /\ r.card = {} /\ r.dirty = FALSE /\ r.cut = FALSE
      BY DEF Ended, NotStarted
    <3> HIDE DEF r
    <3> QED BY <1>2, <2>2, <3>1 DEF Remembers, Lives, Cards, r
  <2>3. CASE ~Lives(emu[t])
    <3> DEFINE r == [emu[t] EXCEPT !.device = "closed"]
    <3>1. r.pc = emu[t].pc /\ r.card = emu[t].card /\ r.dirty = emu[t].dirty /\ r.cut = emu[t].cut
      BY <2>1 DEF Fields
    <3> HIDE DEF r
    <3> QED BY <1>2, <2>1, <2>3, <3>1 DEF Remembers, Lives, r
  <2> QED BY <2>2, <2>3
<1>4. CardTypes'
  BY <1>1, <1>3 DEF CardIInv, CardTypes, Remembers, Files
<1>5. ASSUME mishap' = FALSE PROVE NothingLost'
  <2>1. NothingLost
    BY <1>1, <1>5 DEF CardIInv, CardTypes
  <2>2. \A t \in Threads : Lives(emu[t]) => emu[t].dirty = FALSE /\ emu[t].pc # "write"
    BY <1>1, <1>5 DEF CardIInv, CardTypes, Remembers, Alive, Lives
  <2>3. Filed(writes, card_file)
    BY <2>1, <2>2 DEF NothingLost, Holds
  <2> QED BY <1>1, <1>3, <2>3 DEF NothingLost, Lives, Filed
<1> QED BY <1>4, <1>5 DEF CardIInv

LEMMA CardStepIsGood == ASSUME IInv, CardIInv, [Next]_vars PROVE CardIInv'
<1>1. CASE UNCHANGED vars
  BY <1>1, TalkKeepsCard
<1>2. CASE Next
  BY <1>2, TalkKeepsCard, ReadCardKeepsCard, SpawnKeepsCard, ThreadStepKeepsCard, ExitKeepsCard
  DEF Next
<1> QED BY <1>1, <1>2

\* A write to the memory card is lost only where the code can lose one: a save that fails, two
\* threads over one file, a process that is killed before a save, a thread that is stopped behind
\* a frame that was cut short or wrote the card after its save (emuthread.rs, memcard.rs).
THEOREM NoCardWriteIsLost == Spec => []CardLossNeedsMishap
<1>1. Init => CardIInv
  BY CardInitIsGood
<1>2. IInv /\ CardIInv /\ [Next]_vars => CardIInv'
  BY CardStepIsGood
<1>3. CardIInv => CardLossNeedsMishap
  <2> SUFFICES ASSUME CardIInv, mishap = FALSE, NEW w \in 1..writes PROVE IsKept(w)
    BY DEF CardLossNeedsMishap, CardIInv, CardTypes
  <2>1. NothingLost
    BY DEF CardIInv
  <2>2. CASE Filed(writes, card_file)
    BY <2>2 DEF Filed, IsKept
  <2>3. CASE ~Filed(writes, card_file)
    <3>1. PICK t \in Threads : Lives(emu[t])
      BY <2>1, <2>3 DEF NothingLost
    <3>2. Holds(emu[t], writes, card_file) /\ emu[t].dirty \in BOOLEAN
      BY <2>1, <3>1 DEF NothingLost, CardIInv, CardTypes, Remembers
    <3>3. w \in emu[t].card /\ (emu[t].dirty \/ emu[t].pc = "write")
      BY <2>3, <3>2 DEF Holds
    <3> QED BY <3>1, <3>3 DEF IsKept, Alive, Lives
  <2> QED BY <2>2, <2>3
<1> QED BY <1>1, <1>2, <1>3, IInvHolds, PTL DEF Spec

(***************************************************************************)
(* The swap chain.                                                         *)
(***************************************************************************)
Works == {Swap!Notify} \cup [kind : Swap!Submissions, frame : Nat]

ChainTypes ==
  /\ gpu \in Seq(Works) /\ rendered_frames \in Seq(Nat) /\ Len(rendered_frames) <= SWAP_CHAIN_LEN
  /\ surface \in Nat \cup {None}
  /\ renderer \in [pc : {"idle", "submitted", "register", "poll"}, frame : Nat]
  /\ in_progress_renders \in Nat /\ notified \in Nat
  /\ Swap!Count(gpu, Swap!Submissions) <= MaxSubmissions

Chained == ChainTypes /\ Swap!CounterIsExact /\ Swap!PresentsDrawnFrames
-----------------------------------------------------------------------------
LEMMA ChainConstants ==
  /\ SWAP_CHAIN_LEN \in Nat /\ SWAP_CHAIN_LEN > 0 /\ MaxSubmissions \in Nat /\ Frames \in Nat
  /\ Frames > SWAP_CHAIN_LEN + MaxSubmissions + 1
  BY ChainAssumption DEF Swap!SwapAssumption

LEMMA CountIsCardinality ==
  \A q, K : Swap!Count(q, K) = Cardinality({i \in DOMAIN q : q[i].kind \in K})
<1>1. \A S : Swap!Cardinality(S) = Cardinality(S)
  BY DEF Swap!Cardinality, Cardinality
<1> QED BY <1>1 DEF Swap!Count

LEMMA KindsOfWorks ==
  /\ \A w \in Works : w.kind \in {"draw", "present", "notify"} /\ w.frame \in Nat
  /\ \A w \in Works : w.kind = "notify" <=> w = Swap!Notify
  /\ Swap!Notify \in Works /\ Swap!Notify.kind = "notify" /\ Swap!Notify.frame = 0
  /\ \A f \in Nat : /\ Swap!Draw(f) \in Works /\ Swap!Draw(f).kind = "draw" /\ Swap!Draw(f).frame = f
                    /\ Swap!Present(f) \in Works /\ Swap!Present(f).kind = "present"
                    /\ Swap!Present(f).frame = f
  BY DEF Works, Swap!Notify, Swap!Submissions, Swap!Draw, Swap!Present

LEMMA CountIsNat ==
  ASSUME NEW q \in Seq(Works), NEW K
  PROVE  /\ IsFiniteSet({i \in DOMAIN q : q[i].kind \in K})
         /\ Swap!Count(q, K) \in Nat
<1>1. IsFiniteSet(1..Len(q))
  BY FS_Interval
<1>2. {i \in DOMAIN q : q[i].kind \in K} \in SUBSET (1..Len(q))
  OBVIOUS
<1>3. IsFiniteSet({i \in DOMAIN q : q[i].kind \in K})
  BY <1>1, <1>2, FS_Subset
<1> QED BY <1>3, FS_CardinalityType, CountIsCardinality

LEMMA AppendCounts ==
  ASSUME NEW q \in Seq(Works), NEW w \in Works, NEW K
  PROVE  Swap!Count(Append(q, w), K) = Swap!Count(q, K) + (IF w.kind \in K THEN 1 ELSE 0)
<1> DEFINE A == {i \in DOMAIN q : q[i].kind \in K}
           r == Append(q, w)
           B == {i \in DOMAIN r : r[i].kind \in K}
<1>1. DOMAIN r = 1..Len(q) + 1 /\ DOMAIN q = 1..Len(q) /\ Len(q) \in Nat
      /\ (\A i \in 1..Len(q) : r[i] = q[i]) /\ r[Len(q) + 1] = w
  OBVIOUS
<1>2. IsFiniteSet(A) /\ Cardinality(A) \in Nat /\ Len(q) + 1 \notin A
  <2>1. Len(q) + 1 \notin A
    BY <1>1
  <2>2. IsFiniteSet(A)
    BY CountIsNat
  <2> HIDE DEF A
  <2> QED BY <2>1, <2>2, FS_CardinalityType
<1>3. CASE w.kind \in K
  <2>1. B = A \cup {Len(q) + 1}
    BY <1>1, <1>3
  <2>2. Cardinality(B) = Cardinality(A) + 1
    BY <1>2, <2>1, FS_AddElement
  <2> QED BY <1>2, <1>3, <2>2, CountIsCardinality
<1>4. CASE w.kind \notin K
  <2>1. B = A
    BY <1>1, <1>4
  <2>2. Swap!Count(q, K) = Cardinality(A) /\ Swap!Count(r, K) = Cardinality(B)
    BY CountIsCardinality
  <2> HIDE DEF A, B, r
  <2> QED BY <1>2, <1>4, <2>1, <2>2 DEF r
<1> QED BY <1>3, <1>4

LEMMA TailCounts ==
  ASSUME NEW q \in Seq(Works), q # <<>>, NEW K
  PROVE  Swap!Count(Tail(q), K) = Swap!Count(q, K) - (IF Head(q).kind \in K THEN 1 ELSE 0)
<1> DEFINE A == {i \in DOMAIN q : q[i].kind \in K}
           r == Tail(q)
           B == {i \in DOMAIN r : r[i].kind \in K}
           f == [i \in B |-> i + 1]
<1>1. Len(q) \in Nat /\ Len(q) > 0 /\ DOMAIN q = 1..Len(q) /\ DOMAIN r = 1..Len(q) - 1
      /\ (\A i \in 1..Len(q) - 1 : r[i] = q[i + 1]) /\ Head(q) = q[1] /\ r \in Seq(Works)
  OBVIOUS
<1>2. IsFiniteSet(A) /\ Cardinality(A) \in Nat /\ IsFiniteSet(B)
  BY <1>1, CountIsNat, FS_CardinalityType
<1>3. f \in Bijection(B, A \ {1})
  <2>1. \A i \in B : i \in Nat /\ i + 1 \in A \ {1}
    BY <1>1
  <2>2. \A j \in A \ {1} : j - 1 \in B /\ (j - 1) + 1 = j
    BY <1>1
  <2>3. f \in [B -> A \ {1}]
    BY <2>1
  <2>4. \A i, j \in B : f[i] = f[j] => i = j
    BY <2>1
  <2>5. \A j \in A \ {1} : \E i \in B : f[i] = j
    BY <2>2
  <2> HIDE DEF A, B, f
  <2> QED BY <2>3, <2>4, <2>5 DEF Bijection, Injection, Surjection, IsInjective
<1>4. Cardinality(A \ {1}) = Cardinality(B)
  BY <1>2, <1>3, FS_Bijection, ZenonT(30) DEF ExistsBijection
<1>5. Cardinality(A \ {1}) = IF 1 \in A THEN Cardinality(A) - 1 ELSE Cardinality(A)
  BY <1>2, FS_RemoveElement
<1>6. 1 \in A <=> Head(q).kind \in K
  BY <1>1
<1>7. Swap!Count(q, K) = Cardinality(A) /\ Swap!Count(r, K) = Cardinality(B)
  BY CountIsCardinality
<1> HIDE DEF A, B, r
<1> QED BY <1>2, <1>4, <1>5, <1>6, <1>7 DEF r

\* There is always a number for a frame that nothing in flight has.
LEMMA FrameIsNew ==
  ASSUME ChainTypes
  PROVE  Swap!NewFrame \in 1..Frames /\ Swap!NewFrame \notin Swap!InFlight
<1> DEFINE D == {i \in DOMAIN gpu : gpu[i].kind \in Swap!Submissions}
           P == Swap!Range(rendered_frames)
           G == {gpu[i].frame : i \in D}
           U == {surface} \cup P
<1>1. IsFiniteSet(D) /\ Cardinality(D) \in Nat /\ Cardinality(D) <= MaxSubmissions
  BY CountIsNat, CountIsCardinality DEF ChainTypes
<1>2. IsFiniteSet(G) /\ Cardinality(G) <= MaxSubmissions /\ Cardinality(G) \in Nat
  <2>1. [i \in D |-> gpu[i].frame] \in Surjection(D, G)
    BY DEF Surjection
  <2>2. IsFiniteSet(G) /\ Cardinality(G) <= Cardinality(D)
    BY <1>1, <2>1, FS_Surjection
  <2> HIDE DEF D, G
  <2> QED BY <1>1, <2>2, ChainConstants, FS_CardinalityType
<1>3. IsFiniteSet(P) /\ Cardinality(P) <= SWAP_CHAIN_LEN /\ Cardinality(P) \in Nat
  <2>1. rendered_frames \in Surjection(1..Len(rendered_frames), P)
    <3>1. rendered_frames \in [1..Len(rendered_frames) -> Nat]
      BY DEF ChainTypes
    <3>2. P = {rendered_frames[i] : i \in 1..Len(rendered_frames)}
      BY <3>1 DEF Swap!Range
    <3> HIDE DEF P
    <3> QED BY <3>1, <3>2 DEF Surjection
  <2>2. Len(rendered_frames) \in Nat /\ Len(rendered_frames) <= SWAP_CHAIN_LEN
    BY DEF ChainTypes
  <2>3. IsFiniteSet(1..Len(rendered_frames)) /\ Cardinality(1..Len(rendered_frames)) = Len(rendered_frames)
    BY <2>2, FS_Interval, SMTT(30)
  <2>4. IsFiniteSet(P) /\ Cardinality(P) <= Cardinality(1..Len(rendered_frames))
    BY <2>1, <2>3, FS_Surjection
  <2> HIDE DEF P
  <2> QED BY <2>2, <2>3, <2>4, ChainConstants, FS_CardinalityType
<1> HIDE DEF P, G
<1>4. IsFiniteSet(U) /\ Cardinality(U) <= SWAP_CHAIN_LEN + 1 /\ Cardinality(U) \in Nat
  <2>1. IsFiniteSet(P \cup {surface}) /\ Cardinality(P \cup {surface}) <= Cardinality(P) + 1
    BY <1>3, FS_AddElement
  <2>2. U = P \cup {surface}
    OBVIOUS
  <2> HIDE DEF U
  <2> QED BY <1>3, <2>1, <2>2, ChainConstants, FS_CardinalityType
<1> HIDE DEF U
<1>5. IsFiniteSet(U \cup G) /\ Cardinality(U \cup G) <= SWAP_CHAIN_LEN + 1 + MaxSubmissions
      /\ Cardinality(U \cup G) \in Nat
  <2>1. IsFiniteSet(U \cup G)
        /\ Cardinality(U \cup G) = Cardinality(U) + Cardinality(G) - Cardinality(U \cap G)
    BY <1>2, <1>4, FS_Union
  <2>2. Cardinality(U \cap G) \in Nat
    BY <1>2, <1>4, FS_Intersection, FS_CardinalityType
  <2> QED BY <1>2, <1>4, <2>1, <2>2, ChainConstants, FS_CardinalityType
<1>6. ~(1..Frames \subseteq U \cup G)
  <2>1. IsFiniteSet(1..Frames) /\ Cardinality(1..Frames) = Frames
    BY ChainConstants, FS_Interval
  <2>2. 1..Frames \subseteq U \cup G => Frames <= Cardinality(U \cup G)
    <3> DEFINE W == U \cup G
    <3> HIDE DEF W
    <3>1. IsFiniteSet(W) => (1..Frames \subseteq W => Cardinality(1..Frames) <= Cardinality(W))
      BY FS_Subset
    <3> QED BY <1>5, <2>1, <3>1 DEF W
  <2> QED BY <1>5, <2>2, ChainConstants
<1>7. PICK f \in 1..Frames : f \notin U \cup G
  BY <1>6
<1>8. \A i \in DOMAIN gpu : gpu[i].frame # f
  <2>1. \A i \in DOMAIN gpu : gpu[i] \in Works
    BY DEF ChainTypes
  <2>2. \A i \in DOMAIN gpu : i \in D \/ gpu[i].frame = 0
    BY <2>1, KindsOfWorks DEF Swap!Submissions
  <2>3. f # 0
    BY <1>7
  <2> QED BY <1>7, <2>2, <2>3 DEF G
<1>9. f \notin Swap!InFlight
  BY <1>7, <1>8 DEF Swap!InFlight, U, P
<1> QED BY <1>7, <1>9 DEF Swap!NewFrame

\* No present of a frame is ahead of its draw.
Ordered(q) ==
  \A i, j \in 1..Len(q) : q[i].kind = "present" /\ q[j].kind = "draw" /\ i < j => q[i].frame # q[j].frame

Uncounted == IF renderer.pc = "idle" THEN 0 ELSE 1

LEMMA ChainedMeans ==
  /\ Chained <=> /\ ChainTypes /\ Ordered(gpu) /\ in_progress_renders <= SWAP_CHAIN_LEN
                 /\ in_progress_renders = Swap!Count(gpu, {"notify"}) + notified + Uncounted
  /\ Chained' <=> /\ ChainTypes' /\ Ordered(gpu') /\ in_progress_renders' <= SWAP_CHAIN_LEN
                  /\ in_progress_renders' = Swap!Count(gpu', {"notify"}) + notified' + Uncounted'
  BY DEF Chained, Swap!CounterIsExact, Swap!PresentsDrawnFrames, Ordered, Uncounted

LEMMA AppendIsOrdered ==
  ASSUME NEW q \in Seq(Works), NEW w \in Works, Ordered(q),
         w.kind = "draw" => \A i \in DOMAIN q : q[i].frame # w.frame
  PROVE  Ordered(Append(q, w))
<1> DEFINE r == Append(q, w)
<1>1. Len(r) = Len(q) + 1 /\ Len(q) \in Nat /\ DOMAIN q = 1..Len(q)
      /\ (\A i \in 1..Len(q) : r[i] = q[i]) /\ r[Len(q) + 1] = w
  OBVIOUS
<1> HIDE DEF r
<1>2. ASSUME NEW i \in 1..Len(r), NEW j \in 1..Len(r), i < j, r[i].kind = "present", r[j].kind = "draw"
      PROVE  r[i].frame # r[j].frame
  <2>1. i \in 1..Len(q) /\ r[i] = q[i]
    BY <1>1, <1>2
  <2>2. CASE j \in 1..Len(q)
    BY <1>1, <1>2, <2>1, <2>2 DEF Ordered
  <2>3. CASE j = Len(q) + 1
    BY <1>1, <1>2, <2>1, <2>3
  <2> QED BY <1>1, <2>2, <2>3
<1> QED BY <1>2 DEF Ordered, r

LEMMA TailIsOrdered ==
  ASSUME NEW q \in Seq(Works), q # <<>>, Ordered(q) PROVE Ordered(Tail(q))
<1>1. Len(q) \in Nat /\ Len(Tail(q)) = Len(q) - 1
      /\ \A i \in 1..Len(Tail(q)) : i + 1 \in 1..Len(q) /\ Tail(q)[i] = q[i + 1]
  OBVIOUS
<1>2. \A i, j \in 1..Len(Tail(q)) : i < j => i + 1 < j + 1
  BY <1>1
<1> QED BY <1>1, <1>2 DEF Ordered

\* What a submission does to the queue: the number of callbacks in it stays.
LEMMA SubmitKeeps ==
  ASSUME Chained, NEW w \in Works, w.kind \in Swap!Submissions, Swap!Submit(w),
         w.kind = "draw" => \A i \in DOMAIN gpu : gpu[i].frame # w.frame
  PROVE  /\ gpu' \in Seq(Works) /\ Ordered(gpu') /\ notified' = 0
         /\ Swap!Count(gpu', Swap!Submissions) <= MaxSubmissions
         /\ Swap!Count(gpu', {"notify"}) = Swap!Count(gpu, {"notify"})
<1>1. gpu \in Seq(Works) /\ Ordered(gpu)
  BY ChainedMeans DEF Chained, ChainTypes
<1>2. gpu' = Append(gpu, w) /\ notified' = 0 /\ Swap!Count(gpu, Swap!Submissions) < MaxSubmissions
  BY DEF Swap!Submit, Swap!HasRoom
<1>3. gpu' \in Seq(Works) /\ Ordered(gpu')
  BY <1>1, <1>2, AppendIsOrdered
<1>4. Swap!Count(gpu', Swap!Submissions) = Swap!Count(gpu, Swap!Submissions) + 1
  BY <1>1, <1>2, AppendCounts
<1>5. Swap!Count(gpu', {"notify"}) = Swap!Count(gpu, {"notify"}) + 0
  BY <1>1, <1>2, AppendCounts DEF Swap!Submissions
<1>6. Swap!Count(gpu, Swap!Submissions) \in Nat /\ Swap!Count(gpu, {"notify"}) \in Nat
  BY <1>1, CountIsNat
<1> QED BY <1>2, <1>3, <1>4, <1>5, <1>6, ChainConstants

\* The parts of the chain, as numbers and sequences.
LEMMA ChainFacts ==
  ASSUME Chained
  PROVE  /\ gpu \in Seq(Works) /\ rendered_frames \in Seq(Nat) /\ Len(rendered_frames) <= SWAP_CHAIN_LEN
         /\ surface \in Nat \cup {None} /\ in_progress_renders \in Nat /\ notified \in Nat
         /\ renderer.pc \in {"idle", "submitted", "register", "poll"} /\ renderer.frame \in Nat
         /\ DOMAIN renderer = {"pc", "frame"}
         /\ Swap!Count(gpu, Swap!Submissions) <= MaxSubmissions
         /\ Swap!Count(gpu, {"notify"}) \in Nat /\ Swap!Count(gpu, Swap!Submissions) \in Nat
         /\ Ordered(gpu) /\ in_progress_renders <= SWAP_CHAIN_LEN
         /\ in_progress_renders = Swap!Count(gpu, {"notify"}) + notified + Uncounted
  BY ChainedMeans, CountIsNat DEF ChainTypes

LEMMA RenderFrameIsChained ==
  ASSUME Chained, Swap!RenderFrame PROVE Chained'
<1> DEFINE f == Swap!NewFrame
           count == Swap!Count(gpu, {"notify"})
<1>1. f \in Nat /\ \A i \in DOMAIN gpu : gpu[i].frame # f
  BY FrameIsNew, ChainConstants DEF Chained, Swap!InFlight
<1> HIDE DEF f
<1>2. Swap!Draw(f) \in Works /\ Swap!Draw(f).kind = "draw" /\ Swap!Draw(f).frame = f
      /\ "draw" \in Swap!Submissions
  BY <1>1, KindsOfWorks DEF Swap!Submissions
<1>3. renderer.pc = "idle" /\ Swap!Submit(Swap!Draw(f)) /\ UNCHANGED <<rendered_frames, surface>>
  BY DEF Swap!RenderFrame, Swap!SkipSubmits, f
<1>4. gpu' \in Seq(Works) /\ Ordered(gpu') /\ notified' = 0
      /\ Swap!Count(gpu', Swap!Submissions) <= MaxSubmissions /\ Swap!Count(gpu', {"notify"}) = count
  BY <1>1, <1>2, <1>3, SubmitKeeps
<1>5. count \in Nat /\ in_progress_renders = count + notified /\ notified \in Nat
      /\ in_progress_renders \in Nat /\ in_progress_renders <= SWAP_CHAIN_LEN
  BY <1>3, ChainFacts DEF Uncounted
<1> HIDE DEF count
<1>6. CASE in_progress_renders >= SWAP_CHAIN_LEN
  <2>1. renderer' = renderer /\ in_progress_renders' = in_progress_renders - notified
    BY <1>6 DEF Swap!RenderFrame, Swap!SkipSubmits
  <2>2. in_progress_renders' = count + notified' + Uncounted' /\ in_progress_renders' \in Nat
        /\ in_progress_renders' <= SWAP_CHAIN_LEN
    BY <1>3, <1>4, <1>5, <2>1, ChainConstants DEF Uncounted
  <2> QED BY <1>3, <1>4, <2>1, <2>2, ChainFacts, ChainedMeans DEF ChainTypes, Chained
<1>7. CASE ~(in_progress_renders >= SWAP_CHAIN_LEN)
  <2>1. renderer' = [pc |-> "submitted", frame |-> f]
        /\ in_progress_renders' = in_progress_renders + 1 - notified
    BY <1>7 DEF Swap!RenderFrame, f
  <2>2. in_progress_renders' = count + notified' + Uncounted' /\ in_progress_renders' \in Nat
        /\ in_progress_renders' <= SWAP_CHAIN_LEN
    BY <1>4, <1>5, <1>7, <2>1, ChainConstants DEF Uncounted
  <2>3. renderer' \in [pc : {"idle", "submitted", "register", "poll"}, frame : Nat]
    BY <1>1, <2>1
  <2> QED BY <1>3, <1>4, <2>2, <2>3, ChainFacts, ChainedMeans DEF ChainTypes
<1> QED BY <1>6, <1>7

LEMMA PushFrameIsChained ==
  ASSUME Chained, Swap!PushFrame PROVE Chained'
<1>1. /\ renderer.pc = "submitted" /\ UNCHANGED <<surface, in_progress_renders, gpu, notified>>
      /\ renderer' \in [pc : {"idle", "submitted", "register", "poll"}, frame : Nat]
      /\ renderer'.pc # "idle"
  BY ChainFacts DEF Swap!PushFrame, Chained, ChainTypes
<1>2. rendered_frames' \in Seq(Nat) /\ Len(rendered_frames') <= SWAP_CHAIN_LEN
  <2>1. rendered_frames' = Append(IF Len(rendered_frames) = SWAP_CHAIN_LEN THEN Tail(rendered_frames)
                                  ELSE rendered_frames, renderer.frame)
    BY DEF Swap!PushFrame, Swap!Pushed
  <2>2. CASE Len(rendered_frames) = SWAP_CHAIN_LEN
    <3>1. Tail(rendered_frames) \in Seq(Nat) /\ Len(Tail(rendered_frames)) = SWAP_CHAIN_LEN - 1
      BY <2>2, ChainFacts, ChainConstants
    <3> QED BY <2>1, <2>2, <3>1, ChainFacts, ChainConstants
  <2>3. CASE Len(rendered_frames) # SWAP_CHAIN_LEN
    BY <2>1, <2>3, ChainFacts, ChainConstants
  <2> QED BY <2>2, <2>3
<1>3. Uncounted' = Uncounted
  BY <1>1 DEF Uncounted
<1> QED BY <1>1, <1>2, <1>3, ChainFacts, ChainedMeans DEF ChainTypes

LEMMA RegisterCallbackIsChained ==
  ASSUME Chained, Swap!RegisterCallback PROVE Chained'
<1>1. /\ renderer.pc = "register" /\ gpu' = Append(gpu, Swap!Notify)
      /\ renderer' = [pc |-> "idle", frame |-> 0]
      /\ UNCHANGED <<rendered_frames, surface, in_progress_renders, notified>>
  BY DEF Swap!RegisterCallback
<1>2. gpu' \in Seq(Works) /\ Ordered(gpu')
  BY <1>1, ChainFacts, AppendIsOrdered, KindsOfWorks
<1>3. Swap!Count(gpu', {"notify"}) = Swap!Count(gpu, {"notify"}) + 1
  BY <1>1, ChainFacts, AppendCounts, KindsOfWorks
<1>4. Swap!Count(gpu', Swap!Submissions) = Swap!Count(gpu, Swap!Submissions) + 0
  BY <1>1, ChainFacts, AppendCounts, KindsOfWorks, SMTT(30) DEF Swap!Submissions
<1>5. Uncounted = 1 /\ Uncounted' = 0
  BY <1>1 DEF Uncounted
<1>6. in_progress_renders' = Swap!Count(gpu', {"notify"}) + notified' + Uncounted'
      /\ Swap!Count(gpu', Swap!Submissions) <= MaxSubmissions
  BY <1>1, <1>3, <1>4, <1>5, ChainFacts, ChainConstants
<1> QED BY <1>1, <1>2, <1>6, ChainFacts, ChainedMeans DEF ChainTypes

LEMMA PollIsChained ==
  ASSUME Chained, Swap!PollForDraw PROVE Chained'
<1>1. /\ renderer.pc = "poll" /\ renderer' = [pc |-> "idle", frame |-> 0] /\ notified' = 0
      /\ in_progress_renders' = in_progress_renders - notified - 1
      /\ UNCHANGED <<rendered_frames, surface, gpu>>
  BY DEF Swap!PollForDraw, Swap!Finished
<1>2. Uncounted = 1 /\ Uncounted' = 0
  BY <1>1 DEF Uncounted
<1>3. in_progress_renders' = Swap!Count(gpu', {"notify"}) + notified' + Uncounted'
      /\ in_progress_renders' \in Nat /\ in_progress_renders' <= SWAP_CHAIN_LEN
  BY <1>1, <1>2, ChainFacts, ChainConstants, SMTT(30)
<1> QED BY <1>1, <1>3, ChainFacts, ChainedMeans DEF ChainTypes

LEMMA PresentIsChained ==
  ASSUME Chained, Swap!PresentFrame PROVE Chained'
<1>1. surface \in Nat /\ surface' = None /\ UNCHANGED <<rendered_frames, renderer>>
  BY ChainFacts DEF Swap!PresentFrame
<1>2. Uncounted' = Uncounted
  BY <1>1 DEF Uncounted
<1>3. CASE UNCHANGED <<gpu, notified, in_progress_renders>>
  BY <1>1, <1>2, <1>3, ChainFacts, ChainedMeans DEF ChainTypes, Chained
<1>4. CASE Swap!Submit(Swap!Present(surface)) /\ in_progress_renders' = in_progress_renders - notified
  <2>1. Swap!Present(surface) \in Works /\ Swap!Present(surface).kind = "present"
        /\ "present" \in Swap!Submissions
    BY <1>1, KindsOfWorks DEF Swap!Submissions
  <2>2. gpu' \in Seq(Works) /\ Ordered(gpu') /\ notified' = 0
        /\ Swap!Count(gpu', Swap!Submissions) <= MaxSubmissions
        /\ Swap!Count(gpu', {"notify"}) = Swap!Count(gpu, {"notify"})
    BY <1>4, <2>1, SubmitKeeps
  <2>3. Uncounted \in Nat
    BY DEF Uncounted
  <2>4. in_progress_renders' = Swap!Count(gpu', {"notify"}) + notified' + Uncounted'
        /\ in_progress_renders' \in Nat /\ in_progress_renders' <= SWAP_CHAIN_LEN
    BY <1>2, <1>4, <2>2, <2>3, ChainFacts, ChainConstants, SMTT(30)
  <2> QED BY <1>1, <2>2, <2>4, ChainFacts, ChainedMeans DEF ChainTypes, Chained
<1> QED BY <1>3, <1>4 DEF Swap!PresentFrame

\* The GPU goes on: a callback that leaves the queue is due.
LEMMA GpuStepIsChained ==
  ASSUME Chained, Swap!GpuStep PROVE Chained'
<1>1. /\ gpu # <<>> /\ gpu' = Tail(gpu)
      /\ notified' = IF Head(gpu) = Swap!Notify THEN notified + 1 ELSE notified
      /\ UNCHANGED <<rendered_frames, in_progress_renders, renderer, surface>>
  BY DEF Swap!GpuStep
<1>2. gpu \in Seq(Works) /\ Head(gpu) \in Works /\ gpu' \in Seq(Works)
  BY <1>1, ChainFacts
<1>3. Ordered(gpu')
  BY <1>1, ChainFacts, TailIsOrdered
<1>4. Head(gpu).kind = "notify" <=> Head(gpu) = Swap!Notify
  BY <1>2, KindsOfWorks
<1>5. Swap!Count(gpu', {"notify"}) =
        Swap!Count(gpu, {"notify"}) - (IF Head(gpu) = Swap!Notify THEN 1 ELSE 0)
  BY <1>1, <1>2, <1>4, TailCounts
<1>6. Swap!Count(gpu', Swap!Submissions) =
        Swap!Count(gpu, Swap!Submissions) - (IF Head(gpu).kind \in Swap!Submissions THEN 1 ELSE 0)
  BY <1>1, <1>2, TailCounts
<1>7. Swap!Count(gpu', Swap!Submissions) <= MaxSubmissions
  BY <1>6, ChainFacts, ChainConstants
<1>8. Uncounted' = Uncounted /\ Uncounted \in Nat
  BY <1>1 DEF Uncounted
<1>9. in_progress_renders' = Swap!Count(gpu', {"notify"}) + notified' + Uncounted' /\ notified' \in Nat
  BY <1>1, <1>5, <1>8, ChainFacts, SMTT(30)
<1> QED BY <1>1, <1>2, <1>3, <1>7, <1>9, ChainFacts, ChainedMeans DEF ChainTypes, Chained

LEMMA QuietStepIsChained ==
  ASSUME Chained, Swap!ClearSwapChain \/ Swap!PopFrame \/ Swap!UpdateConfig \/ UNCHANGED frames
  PROVE  Chained'
<1>1. UNCHANGED <<in_progress_renders, renderer, gpu, notified>>
  BY DEF Swap!ClearSwapChain, Swap!PopFrame, Swap!UpdateConfig, frames
<1>2. \/ rendered_frames' \in {<<>>, rendered_frames}
      \/ rendered_frames # <<>> /\ rendered_frames' = Tail(rendered_frames)
  BY DEF Swap!ClearSwapChain, Swap!PopFrame, Swap!UpdateConfig, frames
<1>3. rendered_frames' \in Seq(Nat) /\ Len(rendered_frames') <= SWAP_CHAIN_LEN
  <2>1. rendered_frames \in Seq(Nat) /\ Len(rendered_frames) <= SWAP_CHAIN_LEN
    BY ChainFacts
  <2>2. CASE rendered_frames' = <<>>
    <3>1. rendered_frames' \in Seq(Nat) /\ Len(rendered_frames') = 0
      BY <2>2
    <3> QED BY <3>1, ChainConstants
  <2>3. CASE rendered_frames' = rendered_frames
    BY <2>1, <2>3
  <2>4. CASE rendered_frames # <<>> /\ rendered_frames' = Tail(rendered_frames)
    <3>1. Tail(rendered_frames) \in Seq(Nat) /\ Len(Tail(rendered_frames)) = Len(rendered_frames) - 1
      BY <2>1, <2>4
    <3> QED BY <2>1, <2>4, <3>1, ChainConstants
  <2> QED BY <1>2, <2>2, <2>3, <2>4
<1>4. surface' \in Nat \cup {None}
  BY ChainFacts DEF Swap!ClearSwapChain, Swap!PopFrame, Swap!UpdateConfig, frames
<1>5. Uncounted' = Uncounted
  BY <1>1 DEF Uncounted
<1> QED BY <1>1, <1>3, <1>4, <1>5, ChainFacts, ChainedMeans DEF ChainTypes, Chained

LEMMA InitIsChained == ASSUME Swap!Init PROVE Chained
<1>1. gpu = <<>> /\ rendered_frames = <<>> /\ surface = None /\ in_progress_renders = 0
      /\ notified = 0 /\ renderer = [pc |-> "idle", frame |-> 0]
  BY DEF Swap!Init
<1>2. \A K : Swap!Count(gpu, K) = 0
  <2> SUFFICES ASSUME NEW K PROVE Swap!Count(gpu, K) = 0
    OBVIOUS
  <2>1. {i \in DOMAIN gpu : gpu[i].kind \in K} = {}
    BY <1>1
  <2> QED BY <2>1, CountIsCardinality, FS_EmptySet
<1>3. Ordered(gpu)
  BY <1>1 DEF Ordered
<1>4. ChainTypes
  BY <1>1, <1>2, ChainConstants DEF ChainTypes
<1>5. Uncounted = 0 /\ 0 + 0 + 0 = 0
  BY <1>1 DEF Uncounted
<1> QED BY <1>1, <1>2, <1>3, <1>4, <1>5, ChainedMeans, ChainConstants

LEMMA StepIsChained == ASSUME Chained, [Swap!Next]_frames PROVE Chained'
  BY RenderFrameIsChained, PushFrameIsChained, RegisterCallbackIsChained, PollIsChained,
     PresentIsChained, GpuStepIsChained, QuietStepIsChained
  DEF Swap!Next, Swap!Renderer

\* The emulator thread, the GUI thread and the GPU share a counter of renders in progress that
\* three of them change: it is exact in every interleaving, never more than the swap chain holds,
\* and no frame is presented before it is drawn (renderer.rs, emuthread.rs).
THEOREM SwapChainIsAlwaysExact == MCSpec => []SwapChainIsExact
<1>1. MCInit => Chained
  BY InitIsChained DEF MCInit
<1>2. Chained /\ [MCNext]_mc_vars => Chained'
  BY StepIsChained DEF MCNext, mc_vars
<1>3. Chained => SwapChainIsExact
  BY DEF Chained, SwapChainIsExact
<1> QED BY <1>1, <1>2, <1>3, PTL DEF MCSpec

(***************************************************************************)
(* The main loop.                                                          *)
(***************************************************************************)

\* While the loop works towards the next SPU and CD-ROM clock, that event is never far from
\* the last render; behind the events of a tick the render itself is not long ago.
Paced ==
  /\ generated \in Nat
  /\ due["SpuAndCdClock"] = ClockDivider * (generated + 1)
  /\ due["SpuAndCdClock"] \in Nat
  /\ due["SpuAndCdClock"] <= now + ClockDivider
  /\ now - last_render_cycles < Tick!LongestFrame
  /\ pc = "wait" => now - last_render_cycles < RenderTimeout
  /\ pc # "events" => due["SpuAndCdClock"] - last_render_cycles < RenderTimeout + ClockDivider

Timed ==
  /\ now \in Nat /\ last_render_cycles \in Nat
  /\ DOMAIN due = Tick!Events
  /\ pc \in {"wait", "run", "events"}
  /\ cd_failed \/ Paced
-----------------------------------------------------------------------------
LEMMA Sums ==
  /\ ClockDivider \in Nat /\ ClockDivider > 0 /\ RenderTimeout \in Nat /\ RenderTimeout > 0
  /\ MaxInstruction \in Nat /\ MaxWait \in Nat /\ Never \notin Nat
  /\ Tick!LongestFrame = RenderTimeout + ClockDivider + MaxInstruction + MaxWait
  /\ Tick!LongestFrame > RenderTimeout
  BY TickAssumption DEF Tick!LoopAssumption, Tick!LongestFrame

LEMMA InitIsPaced == ASSUME Tick!Init PROVE Timed
<1>1. due["SpuAndCdClock"] = ClockDivider /\ DOMAIN due = Tick!Events
  BY DEF Tick!Init, Tick!Events
<1>2. ClockDivider * (0 + 1) = ClockDivider
  BY Sums
<1>3. Paced
  BY <1>1, <1>2, Sums DEF Tick!Init, Paced
<1> QED BY <1>1, <1>3 DEF Tick!Init, Timed

\* An instruction that begins before the clock event is due ends in time.
LEMMA Overrun ==
  ASSUME NEW time \in Nat, NEW clock \in Nat, NEW start \in Nat, NEW end \in Nat,
         time < clock, clock - start < RenderTimeout + ClockDivider, end <= time + MaxInstruction
  PROVE  end - start < Tick!LongestFrame
<1>1. end - start < (RenderTimeout + ClockDivider) + MaxInstruction
  BY Sums
<1> QED BY <1>1, Sums

\* The CPU runs only while no event is due.
LEMMA StepIsPaced == ASSUME Timed, [Tick!Next]_ticks PROVE Timed'
<1> DEFINE clock == due["SpuAndCdClock"]
<1>1. CASE Tick!WaitForDma
  BY <1>1, Sums DEF Tick!WaitForDma, Timed, Paced
<1>2. CASE Tick!Execute
  <2>1. PICK cycles \in 1 .. MaxInstruction : now' = now + cycles
    BY <1>2 DEF Tick!Execute
  <2>2. DOMAIN due' = Tick!Events /\ due'["SpuAndCdClock"] = clock
    BY <1>2 DEF Tick!Execute, Timed, Tick!Events
  <2>3. now' \in Nat /\ now' > now /\ now' <= now + MaxInstruction
    BY <2>1, Sums DEF Timed
  <2>4. pc = "run" /\ UNCHANGED <<pc, last_render_cycles, generated, cd_failed>>
    BY <1>2 DEF Tick!Execute
  <2>5. ASSUME ~cd_failed PROVE Paced'
    <3>1. now < clock
      BY <1>2, <2>5, Sums DEF Tick!Execute, Tick!IsEventReady, Tick!IsReady, Timed, Paced, Tick!Events
    <3>2. /\ now \in Nat /\ clock \in Nat /\ last_render_cycles \in Nat
          /\ clock <= now + ClockDivider
          /\ clock - last_render_cycles < RenderTimeout + ClockDivider
      BY <2>4, <2>5 DEF Timed, Paced
    <3>3. now' - last_render_cycles < Tick!LongestFrame
      BY <2>3, <3>1, <3>2, Overrun
    <3>4. clock <= now' + ClockDivider
      BY <2>3, <3>2, Sums
    <3> QED BY <2>2, <2>4, <2>5, <3>3, <3>4 DEF Timed, Paced
  <2> QED BY <2>2, <2>3, <2>4, <2>5 DEF Timed
<1>3. CASE Tick!StartEvents
  BY <1>3 DEF Tick!StartEvents, Timed, Paced
<1>4. CASE Tick!VBlank
  <2>1. DOMAIN due' = Tick!Events /\ due'["SpuAndCdClock"] = clock
    BY <1>4 DEF Tick!VBlank, Timed, Tick!Events
  <2>2. now' = now /\ last_render_cycles' = now /\ pc' \in {"events", "wait"}
        /\ UNCHANGED <<generated, cd_failed>>
    BY <1>4 DEF Tick!VBlank, Tick!Rendered
  <2> QED BY <2>1, <2>2, Sums DEF Timed, Paced
<1>5. CASE Tick!SpuAndCdClock
  <2>1. DOMAIN due' = Tick!Events /\ UNCHANGED <<now, last_render_cycles>> /\ pc = "events"
    BY <1>5 DEF Tick!SpuAndCdClock, Timed
  <2>2. CASE cd_failed' = TRUE /\ pc' = "wait"
    BY <2>1, <2>2 DEF Timed
  <2>3. CASE /\ generated' = generated + 1 /\ UNCHANGED <<pc, cd_failed>>
             /\ due' = [due EXCEPT !["SpuAndCdClock"] = Tick!NextClock(clock)]
    <3>1. due'["SpuAndCdClock"] = clock + ClockDivider
      BY <2>3 DEF Tick!NextClock, Timed, Tick!Events
    <3>2. clock \in Nat => clock <= now
      BY <1>5 DEF Tick!SpuAndCdClock, Tick!IsFirst, Tick!IsReady
    <3>3. ASSUME ~cd_failed PROVE Paced'
      <4>1. generated \in Nat /\ clock \in Nat /\ clock = ClockDivider * (generated + 1)
        BY <3>3 DEF Timed, Paced
      <4>2. ClockDivider * (generated' + 1) = clock + ClockDivider
        BY <2>3, <4>1, Sums
      <4> QED BY <2>1, <2>3, <3>1, <3>2, <3>3, <4>1, <4>2, Sums DEF Timed, Paced
    <3> QED BY <2>1, <2>3, <3>3 DEF Timed
  <2> QED BY <1>5, <2>2, <2>3 DEF Tick!SpuAndCdClock
<1>6. CASE Tick!OtherEvent
  <2>1. DOMAIN due' = Tick!Events /\ due'["SpuAndCdClock"] = clock
    BY <1>6 DEF Tick!OtherEvent, Timed, Tick!Events
  <2> QED BY <1>6, <2>1 DEF Tick!OtherEvent, Timed, Paced
<1>7. CASE Tick!EndTick
  BY <1>7, Sums DEF Tick!EndTick, Tick!Rendered, Timed, Paced
<1>8. CASE UNCHANGED ticks
  BY <1>8 DEF ticks, Timed, Paced
<1> QED BY <1>1, <1>2, <1>3, <1>4, <1>5, <1>6, <1>7, <1>8 DEF Tick!Next

\* However late its events are handled, the SPU generates one sample in every ClockDivider
\* cycles, and the main loop comes back to the emulator thread within the time after which a
\* render is forced, a clock period, an instruction and a wait (api.rs: tick, render_frame).
THEOREM TimeIsAlwaysKept == MCSpec => []TimeIsKept
<1>1. MCInit => Timed
  BY InitIsPaced DEF MCInit
<1>2. Timed /\ [MCNext]_mc_vars => Timed'
  BY StepIsPaced DEF MCNext, mc_vars
<1>3. Timed => TimeIsKept
  BY DEF Timed, Paced, TimeIsKept, Tick!TimeIsKept, Tick!SamplesKeepPace, Tick!FrameInTime
<1> QED BY <1>1, <1>2, <1>3, PTL DEF MCSpec
=============================================================================
