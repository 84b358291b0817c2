----------------------------- MODULE SwapChain -----------------------------
(* The way of a frame from the emulator thread to the window: SwapChainRenderer *)
(* pushes it into the swap chain, SurfaceRenderer pops it on the GUI thread and  *)
(* presents it.  The wgpu queue executes the submissions of both threads in      *)
(* order and at its own pace; the callbacks of on_submitted_work_done run when   *)
(* somebody submits or polls (external).  A frame has a number nothing else in   *)
(* flight has.                                                                   *)
EXTENDS Naturals, SequencesExt

CONSTANTS SWAP_CHAIN_LEN,
          Frames,            \* numbers for the frames in flight
          MaxSubmissions,    \* bound on the submissions the GPU has not finished
          None

SwapAssumption ==
  /\ SWAP_CHAIN_LEN \in Nat \ {0} /\ MaxSubmissions \in Nat
  /\ Frames \in Nat /\ Frames > SWAP_CHAIN_LEN + MaxSubmissions + 1

VARIABLES rendered_frames,   \* the swap chain
          async_rendering,
          in_progress_renders,
          renderer,          \* the emulator thread in SwapChainRenderer
          surface,           \* the frame the GUI thread is about to present
          gpu,               \* the wgpu queue: what it has yet to execute
          notified           \* callbacks that are due at the next submit or poll

vars == <<rendered_frames, async_rendering, in_progress_renders, renderer, surface, gpu, notified>>

Draw(f) == [kind |-> "draw", frame |-> f]
Present(f) == [kind |-> "present", frame |-> f]
Notify == [kind |-> "notify", frame |-> 0]
Submissions == {"draw", "present"}

Init ==
  /\ rendered_frames = <<>> /\ async_rendering \in BOOLEAN /\ in_progress_renders = 0
  /\ renderer = [pc |-> "idle", frame |-> 0]
  /\ surface = None /\ gpu = <<>> /\ notified = 0

Count(queue, kinds) == Cardinality({i \in DOMAIN queue : queue[i].kind \in kinds})
HasRoom == Count(gpu, Submissions) < MaxSubmissions

\* queue.submit: runs the callbacks that are due, then appends.
Submit(s) ==
  /\ HasRoom
  /\ gpu' = Append(gpu, s)
  /\ notified' = 0

SkipDoesNotSubmit(f) == UNCHANGED <<gpu, notified, in_progress_renders>>

\* Too many renders in progress: the commands are submitted, the frame is dropped.
SkipSubmits(f) == Submit(Draw(f)) /\ in_progress_renders' = in_progress_renders - notified

InFlight == {surface} \cup Range(rendered_frames) \cup {gpu[i].frame : i \in DOMAIN gpu}
NewFrame == CHOOSE f \in 1..Frames : f \notin InFlight

RenderFrame ==
  /\ renderer.pc = "idle"
  /\ IF in_progress_renders >= SWAP_CHAIN_LEN
     THEN SkipSubmits(NewFrame) /\ renderer' = renderer
     ELSE /\ Submit(Draw(NewFrame))
          /\ in_progress_renders' = in_progress_renders + 1 - notified
          /\ renderer' = [pc |-> "submitted", frame |-> NewFrame]
  /\ UNCHANGED <<rendered_frames, async_rendering, surface>>

\* FixedSizeDeque::push_back drops the oldest frame of a full deque.
Pushed(frames, f) ==
  Append(IF Len(frames) = SWAP_CHAIN_LEN THEN Tail(frames) ELSE frames, f)

PushFrame ==
  /\ renderer.pc = "submitted"
  /\ rendered_frames' = Pushed(rendered_frames, renderer.frame)
  /\ renderer' = [renderer EXCEPT !.pc = IF async_rendering THEN "register" ELSE "poll"]
  /\ UNCHANGED <<async_rendering, in_progress_renders, surface, gpu, notified>>

RegisterCallback ==
  /\ renderer.pc = "register"
  /\ gpu' = Append(gpu, Notify)
  /\ renderer' = [pc |-> "idle", frame |-> 0]
  /\ UNCHANGED <<rendered_frames, async_rendering, in_progress_renders, surface, notified>>

FinishedUncounted == in_progress_renders - notified
Finished == in_progress_renders - notified - 1

\* poll(WaitForSubmissionIndex): waits for the draw and runs the callbacks due.
PollForDraw ==
  /\ renderer.pc = "poll"
  /\ ~Contains(gpu, Draw(renderer.frame))
  /\ in_progress_renders' = Finished
  /\ notified' = 0
  /\ renderer' = [pc |-> "idle", frame |-> 0]
  /\ UNCHANGED <<rendered_frames, async_rendering, surface, gpu>>

\* The end of fast forward.
ClearSwapChain ==
  /\ renderer.pc = "idle"
  /\ rendered_frames' = <<>>
  /\ UNCHANGED <<async_rendering, in_progress_renders, renderer, surface, gpu, notified>>

PopFrame ==
  /\ surface = None /\ rendered_frames # <<>>
  /\ surface' = Head(rendered_frames) /\ rendered_frames' = Tail(rendered_frames)
  /\ UNCHANGED <<async_rendering, in_progress_renders, renderer, gpu, notified>>

\* When the surface has no texture the frame is lost.
PresentFrame ==
  /\ surface # None /\ surface' = None
  /\ \/ /\ Submit(Present(surface))
        /\ in_progress_renders' = in_progress_renders - notified
     \/ UNCHANGED <<gpu, notified, in_progress_renders>>
  /\ UNCHANGED <<rendered_frames, async_rendering, renderer>>

UpdateConfig ==
  /\ async_rendering' \in BOOLEAN
  /\ UNCHANGED <<rendered_frames, in_progress_renders, renderer, surface, gpu, notified>>

GpuStep ==
  /\ gpu # <<>> /\ gpu' = Tail(gpu)
  /\ notified' = IF Head(gpu) = Notify THEN notified + 1 ELSE notified
  /\ UNCHANGED <<rendered_frames, async_rendering, in_progress_renders, renderer, surface>>

Renderer == RenderFrame \/ PushFrame \/ RegisterCallback \/ PollForDraw

Next == Renderer \/ ClearSwapChain \/ PopFrame \/ PresentFrame \/ UpdateConfig \/ GpuStep

Fairness == WF_vars(Renderer) /\ WF_vars(GpuStep)

Spec == Init /\ [][Next]_vars /\ Fairness

\* The counter of renders in progress is what it says in every interleaving of
\* the two threads and the GPU, under every switch between the two ways to
\* render, and never exceeds the length of the swap chain.
CounterIsExact ==
  /\ in_progress_renders <= SWAP_CHAIN_LEN
  /\ in_progress_renders =
       Count(gpu, {"notify"}) + notified + IF renderer.pc = "idle" THEN 0 ELSE 1

\* A frame is presented only after the commands that draw it.
PresentsDrawnFrames ==
  \A i, j \in 1..Len(gpu) :
    gpu[i].kind = "present" /\ gpu[j].kind = "draw" /\ i < j => gpu[i].frame # gpu[j].frame

\* Skipping frames ends: a swap chain that has as many renders in progress as
\* it may have gets out of it although nobody polls for their completion.
SkippingEnds == in_progress_renders = SWAP_CHAIN_LEN ~> in_progress_renders < SWAP_CHAIN_LEN
=============================================================================
