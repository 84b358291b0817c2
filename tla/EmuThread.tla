----------------------------- MODULE EmuThread -----------------------------
(* The front end of ps1-emu around one memory card file and one save state    *)
(* file: the GUI thread (EmulatorState), the emulator threads it starts       *)
(* (EmulatorRunner), the SDL audio callback of each, and the process they run *)
(* in, which may be killed and started again.  Starting a game sends Stop to  *)
(* the emulator thread before it and does not wait, so that two may be alive; *)
(* the worst case is modelled, where both use the same files.                 *)
(*                                                                            *)
(* A memory card is the set of the writes it contains.  What the emulated     *)
(* machine does in a frame is left open: it queues some samples, may write    *)
(* its card, and may meet a CD-ROM error, which takes the clock of the SPU    *)
(* and of the CD-ROM with it: from then on a frame need not end, because a    *)
(* machine whose VBlank is not scheduled has no event left to end it with.    *)
EXTENDS Naturals, Sequences, FiniteSetsExt

CONSTANTS Starts,         \* how often the user may start a game
          Thresholds,     \* the audio sync thresholds the user may set
          FrameSamples,   \* the most samples one frame queues
          QueueSizes,     \* the sizes of the audio device's buffer
          MaxCommands,    \* how many commands the user sends
          MaxWrites,      \* how often the programs write the memory card
          None, Partial   \* no file, a file that was not written to its end

ASSUME ThreadAssumption ==
  /\ {Starts, FrameSamples, MaxWrites} \subseteq Nat
  /\ Thresholds \subseteq Nat \ {0}
  /\ \E T \in Thresholds : \A U \in Thresholds : U <= T
  /\ \A card \in SUBSET (1..MaxWrites) : card \notin {None, Partial}

VARIABLES gui,         \* the GUI thread: EmulatorState and AppConfig
          emu,         \* one EmulatorRunner and its audio device per start
          card_file, state_file,
          sent, writes,   \* commands sent and card writes so far
          mishap       \* history: what happened that may cost a card write

vars == <<gui, emu, card_file, state_file, sent, writes, mishap>>

Threads == 1..Starts
Command(name, value) == [name |-> name, value |-> value]
Controls == {Command(n, 0) : n \in {"TogglePause", "StepFrame", "SaveState", "LoadState"}}
              \cup {Command("FastForward", e) : e \in {0, 1}}

NotStarted == [pc |-> "none", paused |-> FALSE, step_frame |-> FALSE, fast_forward |-> FALSE,
               sync_threshold |-> 1, commands |-> <<>>, samples |-> 0, left |-> 0,
               device |-> "closed", card |-> {}, dirty |-> FALSE,
               cut |-> FALSE, clocked |-> TRUE, stopping |-> FALSE, late |-> 0]

Alive(t) == emu[t].pc \notin {"none", "ended"}
Set(t, r) == emu' = [emu EXCEPT ![t] = r]
At(t, pc) == gui.up /\ emu[t].pc = pc

Init ==
  /\ \E T \in Thresholds, q \in QueueSizes :
       gui = [up |-> TRUE, pc |-> "idle", running |-> 0, starts |-> 0, read |-> None,
              sync_threshold |-> T, queue_size |-> q, device_size |-> q]
  /\ emu = [t \in Threads |-> NotStarted]
  /\ card_file = None /\ state_file = None
  /\ sent = 0 /\ writes = 0 /\ mishap = FALSE

(***************************************************************************)
(* The GUI thread.                                                         *)
(***************************************************************************)

\* send_command: Stop silences the audio device first; a thread that has
\* ended has dropped its receiver.
Received(t, c) ==
  IF Alive(t)
  THEN [emu[t] EXCEPT !.commands = Append(@, c),
                      !.device = IF c.name = "Stop" THEN "paused" ELSE @,
                      !.stopping = @ \/ c.name = "Stop"]
  ELSE [emu[t] EXCEPT !.device = IF c.name = "Stop" THEN "paused" ELSE @]

GuiIdle == gui.up /\ gui.pc = "idle"

SendCommand(c) ==
  /\ GuiIdle /\ gui.running # 0 /\ sent < MaxCommands
  /\ Set(gui.running, Received(gui.running, c))
  /\ sent' = sent + 1
  /\ UNCHANGED <<gui, card_file, state_file, writes, mishap>>

\* CloseRequested and Quit: dropping the handle closes the audio device.
Close ==
  /\ GuiIdle /\ gui.running # 0
  /\ Set(gui.running, [Received(gui.running, Command("Stop", 0)) EXCEPT !.device = "closed"])
  /\ gui' = [gui EXCEPT !.running = 0]
  /\ UNCHANGED <<card_file, state_file, sent, writes, mishap>>

\* handle_config_change: a new device is opened over the old queue; when that
\* fails the old device stays paused and the thread is not told.
ChangeConfig(T, q, opens) ==
  /\ GuiIdle /\ sent < MaxCommands /\ sent' = sent + 1
  /\ LET t == gui.running
         reopen == q # gui.device_size
         told == Received(t, Command("UpdateConfig", T))
     IN IF t = 0
        THEN gui' = [gui EXCEPT !.sync_threshold = T, !.queue_size = q] /\ emu' = emu
        ELSE /\ gui' = [gui EXCEPT !.sync_threshold = T, !.queue_size = q,
                                   !.device_size = IF reopen /\ opens THEN q ELSE @]
             /\ Set(t, CASE ~reopen -> told
                         [] reopen /\ opens -> [told EXCEPT !.device = "playing"]
                         [] OTHER -> [emu[t] EXCEPT !.device = "paused"])
  /\ UNCHANGED <<card_file, state_file, writes, mishap>>

\* start_emulator: Stop for the old thread, then a window, the files, a thread.
StartEmulator ==
  /\ GuiIdle /\ gui.starts < Starts
  /\ gui' = [gui EXCEPT !.pc = "opening"]
  /\ IF gui.running = 0 THEN emu' = emu
     ELSE Set(gui.running, Received(gui.running, Command("Stop", 0)))
  /\ UNCHANGED <<card_file, state_file, sent, writes, mishap>>

\* spawn reads the card; MemoryCard::new formats it when the size is wrong.
ReadCard ==
  /\ gui.up /\ gui.pc = "opening"
  /\ gui' = [gui EXCEPT !.pc = "read", !.read = card_file]
  /\ mishap' = (mishap \/ \E t \in Threads : Alive(t))
  /\ UNCHANGED <<emu, card_file, state_file, sent, writes>>

CardFrom(file) == IF file \in {None, Partial} THEN {} ELSE file

Spawn ==
  /\ gui.up /\ gui.pc = "read"
  /\ LET t == gui.starts + 1
         new == [NotStarted EXCEPT !.pc = "loop", !.sync_threshold = gui.sync_threshold,
                   !.device = "playing", !.card = CardFrom(gui.read), !.dirty = TRUE]
     IN /\ gui' = [gui EXCEPT !.pc = "idle", !.running = t, !.starts = t, !.read = None,
                              !.device_size = gui.queue_size]
        /\ emu' = [u \in Threads |-> CASE u = t -> new
                                       [] u = gui.running -> [emu[u] EXCEPT !.device = "closed"]
                                       [] OTHER -> emu[u]]
  /\ UNCHANGED <<card_file, state_file, sent, writes, mishap>>

\* The window, the disc or the audio device cannot be opened: the stopped
\* thread stays the running one.
StartFails ==
  /\ gui.up /\ gui.pc \in {"opening", "read"}
  /\ gui' = [gui EXCEPT !.pc = "idle", !.read = None, !.starts = @ + 1]
  /\ UNCHANGED <<emu, card_file, state_file, sent, writes, mishap>>

(***************************************************************************)
(* An emulator thread.                                                     *)
(***************************************************************************)

MayRunThrottled(e) == (~e.paused \/ e.step_frame) /\ e.samples < e.sync_threshold
MayRun(e) == (~e.paused \/ e.step_frame) /\ (e.fast_forward \/ e.samples < e.sync_threshold)

Loop(t) ==
  /\ At(t, "loop")
  /\ Set(t, IF MayRun(emu[t]) THEN [emu[t] EXCEPT !.pc = "frame", !.left = FrameSamples]
            ELSE [emu[t] EXCEPT !.pc = "trim"])
  /\ UNCHANGED <<gui, card_file, state_file, sent, writes, mishap>>

QueueSamples(t) ==
  /\ gui.up /\ emu[t].pc \in {"frame", "tail"} /\ emu[t].left > 0
  /\ Set(t, [emu[t] EXCEPT !.samples = @ + 1, !.left = @ - 1])
  /\ UNCHANGED <<gui, card_file, state_file, sent, writes, mishap>>

\* The program writes its card; in the tail of a frame, after the save.
WriteCard(t) ==
  /\ gui.up /\ emu[t].pc \in {"frame", "tail"} /\ writes < MaxWrites
  /\ writes' = writes + 1
  /\ Set(t, [emu[t] EXCEPT !.card = @ \cup {writes'}, !.dirty = TRUE,
                           !.cut = @ \/ emu[t].pc = "tail"])
  /\ UNCHANGED <<gui, card_file, state_file, sent, mishap>>

\* render_frame: the dirty flag is cleared, then fs::write truncates the file.
SaveCard(e) == [e EXCEPT !.dirty = FALSE, !.pc = IF e.dirty THEN "write" ELSE "tail",
                         !.late = IF e.dirty /\ e.stopping THEN @ + 1 ELSE @]

RenderFrame(t) ==
  /\ At(t, "frame")
  /\ Set(t, SaveCard(emu[t]))
  /\ card_file' = IF SaveCard(emu[t]).pc = "write" THEN Partial ELSE card_file
  /\ UNCHANGED <<gui, state_file, sent, writes, mishap>>

CardWritten(t) ==
  /\ At(t, "write")
  /\ card_file' = emu[t].card
  /\ Set(t, [emu[t] EXCEPT !.pc = "tail", !.cut = FALSE])
  /\ UNCHANGED <<gui, state_file, sent, writes, mishap>>

EndFrame(e) == [e EXCEPT !.pc = "trim", !.step_frame = FALSE]

\* The error ends the frame; the flag stays cleared.
CardNotWritten(t) ==
  /\ At(t, "write")
  /\ Set(t, EndFrame(emu[t]))
  /\ mishap' = TRUE
  /\ UNCHANGED <<gui, card_file, state_file, sent, writes>>

FrameRendered(t) ==
  /\ At(t, "tail")
  /\ Set(t, EndFrame(emu[t]))
  /\ UNCHANGED <<gui, card_file, state_file, sent, writes, mishap>>

\* The event of the SPU and CD-ROM clock was popped and is not pushed again.
CdRomError(t) ==
  /\ gui.up /\ emu[t].pc \in {"frame", "tail"} /\ emu[t].clocked
  /\ Set(t, [EndFrame(emu[t]) EXCEPT !.cut = TRUE, !.clocked = FALSE])
  /\ UNCHANGED <<gui, card_file, state_file, sent, writes, mishap>>

NeverTruncated(e) == e.samples

\* Fast forward drops the oldest samples instead of waiting for the device.
Truncated(e) == IF e.fast_forward /\ e.samples >= 2 * e.sync_threshold
                THEN e.sync_threshold ELSE e.samples

Trim(t) ==
  /\ At(t, "trim")
  /\ Set(t, [emu[t] EXCEPT !.pc = "drain", !.samples = Truncated(emu[t])])
  /\ UNCHANGED <<gui, card_file, state_file, sent, writes, mishap>>

NextCommand(t) == Head(emu[t].commands)
Handled(t) == [emu[t] EXCEPT !.commands = Tail(@)]
Receives(t, name) == At(t, "drain") /\ emu[t].commands # <<>> /\ NextCommand(t).name = name

\* The runner is dropped; the device and its queue belong to the GUI's handle.
Ended(e) == [NotStarted EXCEPT !.pc = "ended", !.device = e.device, !.samples = e.samples]

Stop(t) ==
  /\ Receives(t, "Stop")
  /\ Set(t, Ended(emu[t]))
  /\ mishap' = (mishap \/ (emu[t].dirty /\ emu[t].cut))
  /\ UNCHANGED <<gui, card_file, state_file, sent, writes>>

SetFlags(t) ==
  /\ \/ /\ Receives(t, "TogglePause")
        /\ Set(t, [Handled(t) EXCEPT !.paused = ~@])
     \/ /\ Receives(t, "StepFrame")
        /\ Set(t, [Handled(t) EXCEPT !.step_frame = TRUE])
     \/ /\ Receives(t, "FastForward")
        /\ Set(t, [Handled(t) EXCEPT !.fast_forward = NextCommand(t).value = 1])
     \/ /\ Receives(t, "UpdateConfig")
        /\ Set(t, [Handled(t) EXCEPT !.sync_threshold = NextCommand(t).value])
  /\ UNCHANGED <<gui, card_file, state_file, sent, writes, mishap>>

\* save_state truncates the file and then encodes into it.
SaveState(t) ==
  /\ Receives(t, "SaveState")
  /\ \/ Set(t, [Handled(t) EXCEPT !.pc = "saving"]) /\ state_file' = Partial
     \/ Set(t, Handled(t)) /\ state_file' = state_file
  /\ UNCHANGED <<gui, card_file, sent, writes, mishap>>

Snapshot(e) == [card |-> e.card, dirty |-> e.dirty, clocked |-> e.clocked]

StateSaved(t) ==
  /\ At(t, "saving")
  /\ Set(t, [emu[t] EXCEPT !.pc = "drain"])
  /\ state_file' \in {Snapshot(emu[t]), Partial}
  /\ UNCHANGED <<gui, card_file, sent, writes, mishap>>

FromStateWithItsCard(e, state) ==
  [e EXCEPT !.card = state.card, !.dirty = state.dirty, !.clocked = state.clocked]

\* load_state: a file that cannot be decoded changes nothing; the memory card
\* is taken from the emulator that is replaced, not from the state.
FromState(e, state) ==
  LET unserialized == Snapshot(e)
  IN [e EXCEPT !.card = unserialized.card, !.dirty = unserialized.dirty,
               !.clocked = state.clocked]
LoadState(t) ==
  /\ Receives(t, "LoadState")
  /\ Set(t, IF state_file \in {None, Partial} THEN Handled(t)
            ELSE FromState(Handled(t), state_file))
  /\ UNCHANGED <<gui, card_file, state_file, sent, writes, mishap>>

OneReceiveOnly(t) == TRUE
DrainIsOver(t) == emu[t].commands = <<>>

NothingToReceive(t) ==
  /\ At(t, "drain") /\ DrainIsOver(t)
  /\ Set(t, [emu[t] EXCEPT !.pc = "loop"])
  /\ UNCHANGED <<gui, card_file, state_file, sent, writes, mishap>>

ThreadStep(t) ==
  \/ Loop(t) \/ QueueSamples(t) \/ WriteCard(t) \/ RenderFrame(t) \/ CardWritten(t)
  \/ CardNotWritten(t) \/ FrameRendered(t) \/ CdRomError(t) \/ Trim(t) \/ Stop(t)
  \/ SetFlags(t) \/ SaveState(t) \/ StateSaved(t) \/ LoadState(t) \/ NothingToReceive(t)

(***************************************************************************)
(* The audio callback, and the process.                                    *)
(***************************************************************************)

Callback(t) ==
  /\ gui.up /\ emu[t].device = "playing" /\ emu[t].samples > 0
  /\ Set(t, [emu[t] EXCEPT !.samples = @ - 1])
  /\ UNCHANGED <<gui, card_file, state_file, sent, writes, mishap>>

\* The main window is closed, Ctrl-C, or a crash: threads stop where they are.
Exit ==
  /\ gui.up
  /\ gui' = [gui EXCEPT !.up = FALSE, !.pc = "idle", !.running = 0, !.read = None]
  /\ emu' = [t \in Threads |-> IF Alive(t) THEN [Ended(emu[t]) EXCEPT !.device = "closed"]
                               ELSE [emu[t] EXCEPT !.device = "closed"]]
  /\ mishap' = (mishap \/ \E t \in Threads : Alive(t) /\ (emu[t].dirty \/ emu[t].pc = "write"))
  /\ UNCHANGED <<card_file, state_file, sent, writes>>

Restart ==
  /\ ~gui.up /\ gui' = [gui EXCEPT !.up = TRUE]
  /\ UNCHANGED <<emu, card_file, state_file, sent, writes, mishap>>

Next ==
  \/ \E c \in Controls : SendCommand(c)
  \/ Close
  \/ \E T \in Thresholds, q \in QueueSizes, opens \in BOOLEAN : ChangeConfig(T, q, opens)
  \/ StartEmulator \/ ReadCard \/ Spawn \/ StartFails
  \/ \E t \in Threads : ThreadStep(t)
  \/ \E t \in Threads : Callback(t)
  \/ Exit \/ Restart

\* The threads and the audio device run; the user need not do anything.  A frame ends, but
\* not of need in a machine without its clock.
MayHang(t) == emu[t].pc = "frame" /\ ~emu[t].clocked
Fairness ==
  \A t \in Threads : WF_vars(ThreadStep(t) /\ ~MayHang(t)) /\ WF_vars(Callback(t))

Spec == Init /\ [][Next]_vars /\ Fairness

(***************************************************************************)
(* Properties.                                                             *)
(***************************************************************************)

TypeOK ==
  /\ gui.running \in 0..Starts /\ gui.starts \in 0..Starts
  /\ gui.sync_threshold \in Thresholds
  /\ \A t \in Threads : /\ emu[t].samples \in Nat /\ emu[t].left \in 0..FrameSamples
                        /\ emu[t].sync_threshold \in Nat \ {0}

\* The queue between the emulator thread and the audio device has no bound of
\* its own: the sync threshold, and in fast forward the truncation, keep it
\* short whatever the user switches and whenever the callback comes.
LongestQueue == LET T == Max(Thresholds)
                IN Max({2 * T, T + FrameSamples}) - 1 + FrameSamples
AudioIsBounded == \A t \in Threads : emu[t].samples <= LongestQueue

\* What a program wrote to its memory card is in the file, or in the card of a
\* living thread that is going to write it, unless one of four things happened:
\* a save failed, two threads shared the file, the process was killed with a
\* save pending, or a thread was stopped behind a frame that an error cut short
\* or that wrote the card after its save.  Loading a state loses nothing.
IsKept(w) ==
  \/ card_file \notin {None, Partial} /\ w \in card_file
  \/ \E t \in Threads : Alive(t) /\ w \in emu[t].card /\ (emu[t].dirty \/ emu[t].pc = "write")
CardLossNeedsMishap == ~mishap => \A w \in 1..writes : IsKept(w)

\* The time in which two threads may write one card file is short: a thread
\* that was sent Stop saves its card at most once more, however many commands
\* are queued before the Stop.
OneSaveAfterStop == \A t \in Threads : emu[t].late <= 1

\* Unless it hangs in a frame that a CD-ROM error robbed of its clock, a thread hears every
\* command, whether it is paused, throttled by a silenced device or failing, and ends after
\* Stop; and a thread that is neither paused nor silenced goes on running frames, at the
\* pace of the audio device or in fast forward.
Silenced(t) == emu[t].device # "playing" /\ ~emu[t].fast_forward
KeepsGoing ==
  \A t \in Threads :
    \/ <>[]MayHang(t)
    \/ /\ emu[t].stopping ~> ~Alive(t)
       /\ []<>(emu[t].commands = <<>>)
       /\ []<>(emu[t].pc = "frame" \/ ~Alive(t) \/ emu[t].paused \/ Silenced(t))
=============================================================================
