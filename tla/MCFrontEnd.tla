----------------------------- MODULE MCFrontEnd -----------------------------
(* The front end and the main loop, in four parts that share nothing: an      *)
(* emulator thread and its audio ("sound"), two emulator threads and their    *)
(* files ("files"), the swap chain ("frames") and the main loop ("loop").     *)
EXTENDS EmuThread

CONSTANTS SWAP_CHAIN_LEN, Frames, MaxSubmissions,
          ClockDivider, RenderTimeout, FramePeriod, MaxInstruction, MaxWait, Never, MaxTime

VARIABLES part,
          rendered_frames, async_rendering, in_progress_renders, renderer, surface, gpu, notified,
          now, due, pc, last_render_cycles, generated, cd_failed

Swap == INSTANCE SwapChain
Tick == INSTANCE MainLoop
ASSUME TickAssumption == Tick!LoopAssumption
ASSUME ChainAssumption == Swap!SwapAssumption

threads == vars
frames == <<rendered_frames, async_rendering, in_progress_renders, renderer, surface, gpu, notified>>
ticks == <<now, due, pc, last_render_cycles, generated, cd_failed>>
mc_vars == <<threads, frames, ticks, part>>

Parts == {"sound", "files", "frames", "loop"}

MCInit ==
  /\ part \in Parts
  /\ Init
  /\ part # "sound" => gui.sync_threshold = Max(Thresholds) /\ gui.queue_size = Max(QueueSizes)
  /\ Swap!Init /\ Tick!Init
  /\ part # "frames" => ~async_rendering
  /\ part # "loop" => due["VBlank"] = 1

Named(names) == {c \in Controls : c.name \in names}
Starting == StartEmulator \/ ReadCard \/ Spawn \/ StartFails

\* One start, and no memory card: the samples and the switches.
SoundStep ==
  \/ \E c \in Named({"TogglePause", "StepFrame", "FastForward"}) : SendCommand(c)
  \/ \E T \in Thresholds, q \in QueueSizes, opens \in BOOLEAN : ChangeConfig(T, q, opens)
  \/ gui.starts = 0 /\ Starting
  \/ Close
  \/ ThreadStep(1) /\ writes' = 0
  \/ Callback(1)

\* Silent threads: the memory card, the save states and the process.  Only the first meets
\* CD-ROM errors.
FilesStep ==
  \/ \E c \in Named({"SaveState", "LoadState"}) : SendCommand(c)
  \/ Starting \/ Close \/ Exit \/ Restart
  \/ \E t \in Threads : ThreadStep(t) /\ emu'[t].samples = 0 /\ (t = 1 \/ ~CdRomError(t))

In(p) == part = p /\ part' = part

MCNext ==
  \/ In("sound") /\ SoundStep /\ UNCHANGED <<frames, ticks>>
  \/ In("files") /\ FilesStep /\ UNCHANGED <<frames, ticks>>
  \/ In("frames") /\ Swap!Next /\ UNCHANGED <<threads, ticks>>
  \/ In("loop") /\ Tick!Next /\ now' <= MaxTime /\ UNCHANGED <<threads, frames>>

MCFairness ==
  /\ WF_threads(In("sound") /\ writes' = 0 /\ ThreadStep(1) /\ ~MayHang(1)
                /\ UNCHANGED <<frames, ticks>>)
  /\ WF_threads(In("sound") /\ Callback(1) /\ UNCHANGED <<frames, ticks>>)
  /\ WF_frames(In("frames") /\ Swap!Renderer /\ UNCHANGED <<threads, ticks>>)
  /\ WF_frames(In("frames") /\ Swap!GpuStep /\ UNCHANGED <<threads, ticks>>)

MCSpec == MCInit /\ [][MCNext]_mc_vars /\ MCFairness

SwapChainIsExact == part = "frames" => Swap!CounterIsExact /\ Swap!PresentsDrawnFrames
SkippingEnds == Swap!SkippingEnds
TimeIsKept == part = "loop" => Tick!TimeIsKept
ThreadGoesOn == part = "sound" => KeepsGoing
=============================================================================
