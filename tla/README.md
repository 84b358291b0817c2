# Verification of ps1-emu

TLA+ models of the parts of ps1-emu whose correctness depends on order: the event scheduler and
the main loop, the CPU, the CD-ROM controller and the readers of disc images, the DMA controller,
the timers, the serial port with its devices, the GPU's command processor and the VRAM of its wgpu
rasterizer, the SPU, the MDEC, and the threads of the front end. Each module is written from the
Rust source and checked with TLC on small instances; eight modules hold theorems proved with TLAPS
for every value of their constants. `PROJECT.json` maps every definition to the lines it stands
for.

Run a model with `tlc -workers 2 -config <cfg> <module>`, a proof with `tlapm <module>`.

## 1. The system

One emulator thread runs everything in `ps1-core`. `Ps1Emulator::tick` (`api.rs`) lets the CPU
execute instructions until the earliest scheduled event is due, then dispatches the events.
Devices never run on threads of their own: concurrency is the interleaving of bus accesses made by
the emulated program, which may come in any order at any cycle, with the handlers of scheduler
events. The front end (`ps1-gui`) has three threads, the GUI, the emulator thread and the SDL
audio callback, which share a command channel, a swap chain and an audio queue.

| Component | State | Operations | Interacts with | Hard behaviour | Correct when |
|---|---|---|---|---|---|
| Event scheduler (`scheduler.rs`, `scheduler/heap.rs`) | cycle counter, array heap of events | push/update/min/remove/pop, `is_event_ready` | every device schedules, the main loop pops | hand-written sifting, an in-place replace that may go either way, a sentinel instead of an emptiness test | one event per type, earliest first, no overflow |
| Main loop (`api.rs`) | audio buffer, last render cycle, the devices | `tick`, `process_scheduler_events`, `render_frame`, save/load state | all devices, the front end's `Renderer`, `AudioOutput`, `SaveWriter` | an error in the middle of event dispatch, forced rendering, DMA stalls | periodic events are never lost, the CPU pays for DMA, what must be saved is saved |
| CD-ROM controller (`cd.rs`, `cd/`) | drive state, command state, interrupt flags/enable/edge, one response FIFO, parameter and data FIFOs, sector buffer | `clock` at 44100 Hz, register reads and writes, 20 commands | `I_STAT`, DMA channel 3, SPU (CD audio), disc reader | drive and command processor share the response FIFO; a command may come at any time | responses are not overwritten, sectors come in order and once, an interrupt after an acknowledge is seen |
| DMA controller (`dma.rs`) | DPCR with the sorted channel order, DICR, 7 channels, two counters of CPU stall | register writes, `process` | bus, GPU, MDEC, CD-ROM, SPU, scheduler, main loop, `I_STAT` | time-sliced block transfers, start/enable/stop in any order, polling of the MDEC | no transfer is forgotten, priority is respected, the CPU pays once, completion is reported |
| Interrupt registers (`interrupts.rs`) | `I_STAT`, `I_MASK` | set flag, acknowledge | all devices, CPU | devices raise edges, not levels | no edge is lost |
| SIO0/SIO1, controllers, memory card (`sio.rs`, `sio/`) | tx state, rx FIFO, ack and IRQ timing, active device, per-device protocol state | register accesses, lazy `catch_up` | scheduler, `I_STAT`, front end inputs, saved card | writes during a transfer, deselect in the middle of a transfer, an aborted card write | one acknowledge per byte, stale events have no effect, card data and dirty flag agree |
| Timers (`timers.rs`) | three counters with modes, GPU line/dot timing | lazy `catch_up`, register accesses, prediction of the next interrupt | scheduler, GPU (display mode), main loop (VBlank) | closed-form counting over many cycles, prediction against counting, rescheduling on display changes | the lazy count equals counting one by one, interrupts come when predicted, VBlank while the range is valid |
| GPU command processor (`gpu/gp0.rs`, `gp1.rs`) | command state, parameter buffer, VRAM transfer cursor | GP0/GP1 writes, VRAM reads | DMA, rasterizer, timers | a stream cut by a reset, transfers in both directions, variable-length commands | parameter buffer never overflows, each transfer moves exactly its halfwords |
| Rasterizers (`gpu/rasterizer/`) | VRAM (and its scaled copy), batched draw commands, hazard bitmap | draw, blit, copy, sync | GP0, front end textures | batching draws that read what earlier ones wrote | every read of VRAM sees all earlier writes |
| MDEC (`mdec.rs`) | command state, data in/out queues, tables | command and data writes, reads | DMA channels 0 and 1 | decoding restarts at block boundaries, requests drive DMA | output follows input, requests match queues |
| SPU (`spu.rs`, `spu/`) | 24 voices, envelopes, reverb, sound RAM, IRQ latch | clocked at 44100 Hz, register accesses, DMA | CD audio, `I_STAT` | key-on/off latched until the next clock, edge-detected address interrupt | a key-on/off is not lost, one interrupt per edge |
| CPU, GTE (`cpu.rs`, `cpu/`) | registers, load and branch delay slots, COP0, instruction cache | execute one instruction | bus, interrupts | exceptions in delay slots | load/branch delay and EPC are exact |
| Memory map, PGXP (`bus.rs`, `memory.rs`, `pgxp.rs`) | RAM, scratchpad, memory control | reads and writes | all | none of its own | |
| Disc images (`cdrom/`) | cue sheet, file or CHD handle, cached hunk | `read_sector`, track lookup | CD-ROM controller | sector numbering over several files | each sector of each track is found |
| Emulator thread (`ps1-gui/src/emuthread.rs`, `emustate.rs`, `emuthread/`) | runner state, command channel, swap chain, audio queue, files | command handling, frame pacing, audio callback | GUI, SDL, file system | queue throttling, start/stop without joining, truncated save states | commands apply in order, the newest frame wins, one writer per file |
| GUI (`app.rs`, `guistate.rs`, `config.rs`, `main.rs`), `SaveState` macro | windows and configuration | | | none | |

The list of hazards, each at its source line and with the properties that cover it, is in
`PROJECT.json`.

## 2. Plan

Modules, in order; a checked box exists.

1. [x] `EventQueue` (abstract) and `SchedulerHeap` (the array heap, refines it),
   `SchedulerHeapProofs`.
2. [x] `CdController`: drive, command processor and interrupts; `CdControllerProofs`.
3. [x] `DmaController` with the part of `tick` that decides when it runs, `DmaControllerProofs`.
4. [x] `MainLoop`: periodic events, errors in dispatch, rendering. Saving the memory card is in
   `EmuThread`.
5. [x] `TimerCounter` (operators) and `SystemTimer`: counting against a one-clock reference,
   interrupt prediction; `Timers`: the video clock, synchronization, VBlank scheduling.
6. [x] `ReceiveQueue` (abstract) and `RxFifo` (the ring, refines it); `SerialPort` (timing);
   `Sio0Devices` (controllers and memory card); `PeripheralsProofs`.
7. [x] `EmuThread`: command channel, audio throttling, start and stop, save files; `SwapChain`:
   the way of a frame to the window; `FrontEndProofs`, with those about `MainLoop`.
8. [x] `Gp0`: command parser, VRAM transfers, GP1 and the status register; `Mdec`; `Envelope` and
   `Spu`: a voice, its envelope, sound RAM and interrupt; `MediaProofs`, also about `WgpuVram`.
9. [x] `Isa` (operators), `Program` (abstract) and `Cpu` (refines it: an interrupt is invisible to
   the program it interrupts), `CpuProofs`.
10. [x] `WgpuVram`: batches, hazards and the copies of VRAM; `CdTime`, `DiscImage`: cue sheets,
    track layout, readers; `CountingProofs`, also about `SystemTimer` and `Timers`. [ ] `CdXa`
    (resampler ring).

Abstract specifications: the event queue, the queue of bytes, the timer that counts one by one and
the program that nothing interrupts are modules or operators of their own; the sheet a disc is
made from (`Contents` of `DiscImage`), the single copy of VRAM (`vram` of `WgpuVram`) and the
commands software sent (`Gp0`, `Mdec`) are references inside their modules. Not stated: an
interrupt line that counts edges.

Theorems worth proving are those of section 5. Three would come next: that the kernel's handler
gives the registers back (which with `InstructionsFollowProgram` makes `ProgramUndisturbed` a
theorem), that a disc reads what its sheet says (the lookup is a search over tracks laid out one
after another), and that pictures of any number of blocks come out of the MDEC whole.

## 3. What each module models

### EventQueue, SchedulerHeap

`EventQueue` is what the rest of the emulator may assume: a set of events, at most one per type,
popped earliest first and only when due. `SchedulerHeap` is the source's array: `heap` has all
`CAPACITY` slots, `len` are in use, a slot out of use keeps its old event, and `op`/`sift` say
which method is running and where its loop is. One step is one edit or one iteration of
`reheapify_down`/`reheapify_up` (named as in the source: "down" is towards index 0). `Push`,
`Update`, `LowerTime`, `Remove`, `PopReady` are the branches of `update_or_push`, `min_or_push`,
`remove_one`, `pop`; `Return` ends the loop and resets the root of an emptied heap to the sentinel
that `is_event_ready` relies on.

### CdController

One record `cd` holds the controller. `Clock` is `CdController::clock`: `AdvanceDrive` then
`AdvanceCommand`, then the edge detector, with a `?` or `todo!` in the drive's part skipping the
rest. The host's actions are `WriteCommand`, `WriteParameter`, `WriteEnabled`, `WriteFlags` and
`AcknowledgeIStat`; they may come between any two clocks. A response is the interrupt it came with
and what generated it, plus a history field `over`, the flags unacknowledged at that moment;
`clear` is history too, it says whether there was a moment since the last clock without a pending
interrupt; so is `heard`, the sectors the INT1s brought since the drive began to read. Sectors are
their absolute times; the buffer and the FIFO hold the time of the sector whose bytes they hold.
All 20 commands are modelled with their guards and errors. Left out: the contents of responses,
volumes, the register index, invalid command bytes (a `todo!`).

### DmaController

`Process` is the ProcessDma event handler, `TakeCpuWaitCycles` and `ExecuteInstruction` are
`tick`, the `Write...` actions are the register writes, each with the call of
`maybe_schedule_process_dma` or of the scheduler that the source makes. Cycle numbers are kept as
the cycles left until them, which is all the source ever compares. `Visits` is what one look at a
channel does; the words moved are abstracted to a number of blocks or nodes. `AccessMdec` stands
for software that feeds or drains the MDEC between transfers. A `panic!` (GPU burst mode, a linked
list from the GPU to RAM, channel 5) sets `panicked` and stops.

### TimerCounter, SystemTimer, Timers

`TimerCounter` has one operator per method of `struct SystemTimer`, from the timer and a number of
clocks to the timer afterwards; `istat` is the timer's bit of `I_STAT`. Loops that trigger an
interrupt per turn become a number of triggers. `CountOne` and `Count` are the reference, one
clock at a time. `SystemTimer` runs the timer beside the reference under every sequence of
register accesses and catch-ups.

`Timers` composes three of them with the video clock (`tm.gpu`). Cycle numbers are kept as
distances: `behind` is how far `last_update_cycles` lies in the past, `vblank` and `irq_event` are
the cycles left until the scheduler's events, `phase` is what `/ 8` needs of the absolute number.
`Now` is `catch_up` applied to the state; every register action starts from it.
`catch_up_gpu_no_sync` and `catch_up_gpu_with_sync` are a repeated step, `WalkLine` to the end of
the line and `WalkPart` to the next border. `ExecuteInstruction` is the CPU, which runs only while
no event is due. `beam` and `one_by_one` are histories: the same clock and timers advanced one
cycle at a time. Timer 2 with the divided clock is compared with one that ticks at every eighth
CPU cycle since power on, whatever cuts the cycles into catch-ups; `cycle` is their number modulo
the divider, kept apart from `phase`, which the code's division is made of.

### ReceiveQueue, RxFifo

`ReceiveQueue` is what reading the port promises, as the sequence of bytes that the next reads
return: pushed bytes in order, an overflow replaces the last, an empty buffer repeats the last
byte until it has been read round once. `RxFifo` is the source's ring of `values` with
`write_idx`, `read_idx` and `len`; `View` maps it to the queue.

### SerialPort, Sio0Devices

`SerialPort` is the port's timing. `CatchUp` is `catch_up` (the acknowledge line first, then at
most one byte) and starts every register action; `ProcessTxEvent` and `ProcessIrqEvent` are the
scheduler events, whose times are kept as cycles left, as in `Timers`. Bytes have no value there:
`AfterByte` lets a device answer and stay, or not. `delivered` is history: whether `I_STAT` was
raised since the port's irq flag was last clear.

`Sio0Devices` is the other side: `HostSends` exchanges one byte with `process` of the device
connected (`Digital`, `DualShock`, `MemoryCard`, one branch per state of the source), and between
two bytes there may come `SetInputs1`/`SetInputs2` (the main loop sets the inputs at every tick),
`HostSelects` (a conversation is cut off) and `SaveCard` (`render_frame`). Buttons and sticks of
one moment are one value, the bytes of configuration answers "other". `talk`, `configured` and
`confirmed` are histories: the conversation, the analog mode software last set or saw, and the
sector writes it was told have succeeded.

### Gp0

`command_state`, `parameters`, `settings`, `blit_buffer` and `gpu_read_buffer` are the fields of
the same names (`settings` the drawing settings of GP0, `registers` those of GP1); `drawn` is the
sequence of calls to the rasterizer made by the last step. A word stands for its contents: as a
vertex, colour, texture word or position it is itself, so two words of a behaviour are never
equal, and what the control depends on (the command, the size of a transfer in halfwords, the end
marker of a polyline) is in its fields. `HostWrites` is `handle_gp0_write`, one operator per state
it matches on; `ReadPort` is a read of GPUREAD, `ResetCommandBuffer`, `Reset`, `WriteRegister` and
`GetGpuInfo` the GP1 commands. `received`, `returned` and `sent` are what software knows of its
own stream: the words of the command it is sending, the halfwords it has read, the commands sent.
`Meaning` is the reference: it reads the words of a command all at once, by their position, where
the code shuffles its buffer of eleven words as they arrive.

A GP0 write before all halfwords of a transfer are read is a `panic!` of the source, so software
reads first. Left out: GP0($1F) and invalid commands, PGXP, the choice of rasterizer, colour and
coordinate formats, and what GP1 does to the timers (`Timers` has it). A polyline puts its last
vertex back into the buffer as a packed word; coordinates have eleven bits and are sign-extended,
so that unpacking it gives the vertex again, and the model keeps the word.

### Isa, Cpu, Program

`Isa` has what instructions compute, as functions of words of four bytes; `Cpu` is
`execute_instruction` with the registers, coprocessor 0, the load and branch delays, exceptions
and the instruction cache, one instruction a step. An instruction that raises an exception after
it has begun is the state before it with the exception. `FetchMisaligned` is a fetch at an address
that is no word's, `RaiseIrq` a device that raises the line, which a write to `IrqAck` lowers.
Registers 6 and 7 of coprocessor 0 read as 0. A command of the geometry coprocessor advances one
register. `stale` is history: the words written since their line was filled or flushed. `Program`
is what a program may rely on: one instruction after the other, a load behind the next
instruction, and an interrupt anywhere, of which only an early load and a repeated branch can be
seen. `UnalignedWords` states what the pairs LWL/LWR and SWL/SWR do.

Two conventions of software are preconditions: no branch or geometry command in the delay slot of
a branch, and a handler that skips a geometry command an interrupt has executed already. Left out:
cycle counts, the arithmetic of the GTE, bus timing; the `todo!()` of unknown opcodes and
addresses is a step that is not enabled. SWCz raises AddressErrorLoad where the other stores raise
AddressErrorStore, as in the source.

### Envelope, Spu

`Envelope` has the rates and steps of `spu/envelope.rs` as operators; the constants keep the
relations of the source's (15 bits, a unit shift of 11, shifts up to 31). `Spu` is one voice with
its volume, the sound RAM as a ring of ADPCM blocks of which only loop flags are kept, the
interrupt address, the data port, the capture buffers and the noise timer. `Clock` is one 44100 Hz
clock of all of them in the order of the source; the other actions are register writes. `told` and
`owed` are histories: what software said last of keys and repeat addresses, and an access to the
interrupt address not answered yet. The other 23 voices are the same code and share only sound
RAM; reading ENDX is a `todo!`, and a block at the very end of sound RAM makes the source index
past it (`voice.rs:209`), so blocks wrap.

### Mdec

`command_state`, `data_in`, `data_out` and the tables are the fields of `mdec.rs`. A halfword is
its run of zeros and what coefficient it carries, a block the coefficients at its positions with
the table they are multiplied by. `host` is software: a picture as the sequence of its blocks'
positions, sent with padding before and behind blocks and with or without end marks; `Reset` may
come at any word.

### WgpuVram

VRAM is a row of halfwords (columns) in tiles; a tile holds the number of the command that wrote
it. `mem` has the three copies, `marked` the tiles of the hazard tracker, `draw_commands` the
queue; `FlushDrawCommands` runs it in batches of one type as `execute_draw` and its siblings do,
with what each pass copies for itself: `BatchStart` is where the batch of a command starts,
`Painted` what a pass over a batch leaves on each tile. `vram` is the single memory they should
look like. The triangles, rectangles and blits are what a run gives as constants.

A textured draw has a mapping: the depth of its texels, the column of the page, the texels it goes
over (those of a rectangle around the end of the page), whether there is a texture window, and
`clut_x`. `AnyMarkedRendered` is the source's check as it stands, `CheckedTexture` and
`CheckedPalette` the columns it looks at. What must be current is computed apart from it, from
what the shaders sample (`draw_common.wgsl`): `TextureTiles` and `PaletteTiles`, texel by texel
and halfword by halfword. The two agree less than the source seems to intend, and `MustBeFresh`
promises what they agree on: the halfwords that a texture without a window fills from their first
texel to their last, and a palette whose `clut_x` is 0. Outside of that the source samples what it
has not checked:

- `check_clut_bounding_box` (`wgpuhardware.rs:921`) takes `clut_x` for a column; it counts units
  of 16 halfwords (`draw.rs:98`, `gp0.rs:993`), so that a palette anywhere but in the first
  columns is looked for in the wrong place.
- `check_texture_bounding_box` (882) knows no texture window, which the shader applies to each
  coordinate (`draw_common.wgsl:178`).
- It shifts the width of a range in texels (899) where it would have to count the halfwords the
  range is in: one that begins or ends inside a halfword may leave out the last.

A fill or a blit that goes around the right or the lower end of VRAM does so in the native copy
(`vramfill.wgsl`, `cpuvramblit.wgsl:23`), but `NativeScaledSyncPipeline` (`sync.rs:136`) and its
shader do not, so that the part behind the end never reaches the scaled one. `Blits` gives the
tiles of a blit that are reached, and `missed` the tiles whose native copy alone has the last
blit, which the properties excuse until something is drawn over them or copied there.

Left out, and so excluded from what the run shows, where the source was seen to differ from a
single memory: a blit from the CPU that checks the mask bit reads the native copy, which may be
older (`cpuvramblit.wgsl`); copies inside VRAM that overlap run in an order the GPU chooses;
`copy_scaled_vram` wraps at the bottom by a height where it needs a position (`wgpuhardware.rs`,
about line 724); `mark_vram_copy_rendered` adds a width to the vertical position (about 977);
lines mark nothing, which `lines` excuses.

### CdTime, DiscImage

`CdTime` adds, subtracts and compares times digit by digit as `cdtime.rs`. In `DiscImage` the
parser takes one line of a CUE sheet a step (`ParseLine`, with every error), `OpenCueBin` and
`OpenChd` lay out the tracks, `ReadSector` finds the track and the place in the file, and the
readers keep what the source keeps: the position of the file, the hunk in memory. A read may fail
anywhere and leaves the reader torn. `Contents` is the reference: the sectors the sheet says, one
after the other.

Well-formed sheets, whose index times ascend within a file, are a precondition of the layout
property. Behaviours of the source met here: after a failed read `cuebin.rs:81` keeps `position`,
so that reading on does not seek, and `chd.rs` keeps the number of a hunk whose buffer is half
overwritten, which is why `ReadsWhatIsThere` has its third case; sheets with an INDEX 02 are
refused, tracks before the first FILE go to the next; a CHD audio pregap counts as padding and as
pause; times beyond the longest disc wrap, and parsing does not check that seconds and frames are
below their bases; a time at the end of the disc is in the last track, and a later one is a
`todo!`.

### MainLoop

`tick` and the dispatch of events: `now` is the scheduler's clock, `due` the time of three kinds
of events (VBlank, the SPU and CD-ROM clock, any other), `pc` where in `tick` the emulator is. An
instruction may move or remove VBlank and schedule other events. The two `?` of the loop, the
CD-ROM's read and the save of the memory card, leave it where they stand: after the first, the
clock of SPU and CD-ROM is gone for good (`cd_failed`), and if VBlank is not scheduled either,
`tick` never returns: the render it forces (`api.rs:395`, for a GPU without VBlanks) is behind the
loop that waits for an event. What is shown of a machine whose clock is gone is in `EmuThread`.

### EmuThread

One record per emulator thread (`EmulatorRunner` with its audio device and queue) beside the GUI
thread, one memory card file, one save state file. A card is the set of writes in it; a frame
queues some samples, may write the card and may meet an error. A thread's loop is divided where
another thread can see the difference: commands are taken one at a time, files are truncated and
written in two steps, `Callback` drains the queue under its lock. `Exit` is the end of the process
at any moment, `Restart` the next start. `clocked` is whether the machine still has its clock,
which `CdRomError` takes and no frame gives back: without it a frame ends only if VBlank is
scheduled, so it may not end at all (`MayHang`). A loaded state brings the clock it was saved
with. `late`, `stopping`, `cut` and `mishap` are histories.

Behaviours of the source met here: an audio device that cannot be opened again leaves the old one
paused and the thread without its new configuration (`emuthread.rs:263`); a start that fails
leaves the stopped thread as the running one; a card file of the wrong size is replaced by a
formatted card; `StartEmulator` does not wait for the thread it stops, so that two may write the
card file; a thread that hangs in a frame hears no command, Stop included. Inputs, the window,
drawing and the disc are left out.

### SwapChain

The renderer, the surface, the queue of submissions to the GPU and the callbacks of
`on_submitted_work_done`, which run when anyone submits or polls (wgpu is external). A frame has a
number of its own; the textures behind them are one per size (`wgpuhardware.rs:1422`,
`software.rs:167`), so that a queued frame shows the newest picture of its size, which the model
does not describe.

## 4. Runs

| Run | Instance | What it shows |
|---|---|---|
| `scheduler_heap` | six types, two times | every interleaving of calls keeps an earliest event in front, and the heap implements `EventQueue`; six events are the fewest with which `remove_one` can need the other sift direction |
| `cd_reading` | 3 sectors, the second XA; parts: any host, a polite host | reading while software sends commands: no response overwritten, sectors in order and once, XA audio stays inside; a host that waits for BUSYSTS and acknowledges has every command executed |
| `cd_control` | 10 commands, 3 tracks of one sector, acknowledge all or bit 0 only | seeking, stopping and playing with reports and auto-pause: which responses may overwrite which; `I_STAT` sees each new interrupt once |
| `cd_auto_pause` | expected violation | auto-pause does not pause at the end of track 1 |
| `dma` | channels 1, 2, 6 | no transfer forgotten, bus paid once, completion flags; with fairness every transfer completes |
| `timers` | frames of 3 or 4 lines of 8 or 9 cycles; parts: a counter of two bits with catch-ups of up to 9 clocks, in every mode and target but one combination; the video clock; timer 2 on both its clocks; timers 0 and 1 synchronized, modes 0, 1, 3 and 0, 2 | closed-form counting is counting one by one and interrupts are predicted exactly; the beam is exact and VBlank due at the next start of Y2 through every change of mode and ranges; no cycle lost or doubled, nor a part of one of the divided clock, interrupt events never late; a timer that pauses in its blanking period stands still in it |
| `timers_lost_vblank` | expected violation | VBlank lost after a change of Y1 |
| `peripherals` | parts: port with transfers of 3 cycles, lines low for 2; both controllers, plugged and pressed at any byte; a card of two sectors of two bytes; a ring of four bytes; discs of one or two tracks | events in time, no interrupt lost, the port settles; announced lengths kept, one snapshot of inputs, mode changes signalled; confirmed writes kept, checksums right; the ring implements `ReceiveQueue`; a disc reads what its sheet says |
| `cpu` | parts: programs of three of 19 instructions with one interrupt, programs of four of eight that patch code and cache, pairs of unaligned accesses | an interrupt is invisible to the program; what is fetched is what memory holds, unless software wrote it without a flush; unaligned words are whole |
| `front_end` | parts: one thread with sound, two threads with files, the swap chain, the main loop | samples in flight are bounded; a card write is lost only by a mishap; a stopped thread saves once at most; threads go on and stopped ones end; the counter of renders is exact and skipped frames end; audio keeps its rate and `tick` returns |
| `media` | parts: any two of 17 GPU commands; five parts of the SPU; pictures of one or two blocks and colour macroblocks; four draws, blits or copies on three tiles of four halfwords | each word is taken for what software sent it as and what is drawn is what was sent; a key off is heard, loops go where told, each access to the interrupt address is answered, attacks and releases end; pictures and tables survive resets; three copies of VRAM look like one |
| `spu_sweep` | expected violation | a slow volume sweep updates in two clocks in a row |

A run of parts has a variable `part`, which never changes and says which component, or which side
of one, a behaviour is about: the state spaces of parts add up instead of multiplying, and the
invariants of a part are stated for it alone. In `timers` a VIEW leaves out what cannot matter to
a part: the timers in the part of the video clock, where none has a source; the video clock in
that of timer 2, which has no valid range; the parity of the frame where timers are synchronized,
and the borders of a line where none is; and the history `one_by_one` in all but that of timer 2.
An ACTION_CONSTRAINT bounds how far the clock may lag in each part, and gives all but that of
timer 2 instructions of one cycle.

**Bounds.** The heap only compares times and tests types for equality, so two times give every
order of equal and unequal, and types other than the sentinel's are symmetric. CD-ROM countdowns
are 1 to 3 clocks, long enough for the host to act before, in the middle of and at the end of
each; the disc is three sectors so that a read can pass a sector that was not delivered and run
off the end. The DMA channels chosen are one of each kind of visit (polling, time-sliced in two
modes, burst); waits are long enough for a poll, a block and a delay to end at different times. A
timer that wraps after three and catch-ups of up to nine clocks pass target and maximum more than
once from every position. `cd_reading` and `cd_control` divide the commands between them by what
the drive is doing; commands that only answer (GetStat, Mute, Test...) are interchangeable and
appear once or twice. The frames have odd and even lines, the short last line of an interlaced
frame and a mode with a line more, and three GPU cycles per two CPU cycles leave a remainder;
`MaxBehind` exceeds a line, so that a catch-up crosses several borders. `MaxUnits`, `MaxAdvance`,
`MaxClocks`, `MaxBehind`, `MaxCommands`, `MaxWords`, `MaxWrites`, `MaxIrqs`, `MaxSubmissions`,
`MaxLines`, `Starts`, `DiscEnd`, `MaxTime` and the cycle constants are the only bounds. Deadlock
checking is off where a `todo!` or `panic!` of the source really ends the emulator thread, and
where the commands of a behaviour are bounded.

Transfers and the low line of the serial port have different lengths, and a catch-up may be later
than both; a receive buffer of one byte overflows. Sector addresses are two of the card's 1024,
reached through three of four first address bytes; a write address outside the card (masked by the
code, but counted in the host's checksum) is left out. Sheets have at most seven lines, enough for
two files with a track each and all of a track's times; a second is two sectors and a minute two
seconds, so that carries happen at every sector. CHD files have one or two tracks listed out of
order with hunks of two sectors, so that tracks end inside hunks. The sectors read are the last of
the first track to the end of the second, pauses and pregaps included.

Two GPU commands in a row are enough for a command to find what the one before it, complete or
abandoned, left in the buffers and settings. Twelve words are the longest command (a textured,
shaded quadrilateral) and six vertices of a shaded polyline; transfers of one, three and four
halfwords end in the lower and in the upper half of a word. Four commands of the wgpu rasterizer
are a draw, a hazard, a second draw within `SyncDelay` and one after it; three tiles give an area
inside, beside and across the bounding box of what is marked. A page has eight texels and starts
late enough that textures go around the end of VRAM or of the page, or both; there is one texture
of each depth, and palettes are a tile or half of one long. The palette of one texture is where
the check does not look. One blit goes around the end.

A byte of the CPU has eight values, so that a word of four still has a sign, carries and twelve
bits to shift; segments of 128 bytes hold a program, the kernel's handler and data in lines of a
cache of two lines, so that handler and program evict each other. Three instructions are a load,
what its delay touches and a third that reads it, or a branch, its slot and its target. The SPU's
volumes have five bits, with which every rate and mode reaches its end; blocks have three samples
and the greatest step takes two. A volume of five bits also keeps the quarter above which
increases slow down.

The front end has two threads at most, because a start sends Stop to the thread before; its
thresholds are one and two samples, a frame queues at most one, so that a queue is below, at and
above its threshold and twice it. The main loop runs for `MaxTime` cycles, five clocks of the SPU
and three forced renders.

**Fairness.** The polite host of `cd_reading`: the main loop keeps clocking the controller (the
SPU/CD event reschedules itself) and the host acknowledges what is queued; it acknowledges before
the next sector is read, and reads BUSYSTS before it writes a command. A host that acknowledges
later than that can be kept from its command by one sector after another. `FairSpec` of
`DmaController` assumes that the main loop goes on: a ready event is processed, a stall is paid,
an instruction executes. `TransfersComplete` asks for it only when software stops interfering with
the channel. `Settles` (`PortSettles`) assumes the same of the serial port's events, and
`EnvelopesEnd` of the SPU's clock. In `front_end` the operating system runs the emulator thread,
SDL its callback, and the GPU finishes what was submitted; the user owes nothing, and sends a
bounded number of commands. No fairness makes a frame end in a machine that has lost its clock
(`MayHang`). `ThreadGoesOn` asks of every thread that does not hang there that it hears every
command and ends after Stop, also when frames fail, when it is paused, or when its device was left
paused; and of one that is neither paused nor waiting for such a device (`Silenced`) that it runs
frame after frame. In the run only the first of two threads meets errors of the CD-ROM.

## 5. Proofs

All theorems hold for every value of the constants under the named assumptions of the modules:
types of the constants, for the heap that there are no more event types than slots (ten and twenty
in the source), for a disc that one that is inserted has a track. The assumptions on the clocks
(`ClockAssumption`, `FrameAssumption` of `Timers`) are those of `timers.rs` 407 to 430: the GPU's
clock is faster than the CPU's, a line is thousands of GPU cycles long and an instruction not half
a line, an NTSC frame has an odd number of lines (263), and no frame has more lines when it is
interlaced. A stall for a DMA transfer (`api.rs:374`) may be longer than half a line; it makes a
VBlank that falls into it late by as much, which `FrameAssumption` excludes. Three theorems have a
hypothesis of their own: `ReadersMissNoResponse`, about the commands a host sends,
`VideoClockIsAlwaysExact`, about the vertical ranges it sets, and `DiscsReadWhatIsThere`, about
the layout of a disc.

`SchedulerHeapProofs`. The inductive invariant is `SiftOrder` (a heap except at the index being
sifted, whose parent and children are in order across it) with the type invariant and uniqueness
of types; `HeapIsOrdered` is the step from Init and every action. `PeekIsAlwaysEarliest` follows
by the least counterexample in the array: an event earlier than the root would have an earlier
parent. `PushAlwaysHasRoom` maps slots injectively to types. `HeapImplementsQueue` shows that each
edit is one abstract operation and that each swap of a loop is a stutter of the set of events.

`CdControllerProofs`. `IInv` has the record of the controller with what each state of the drive
and of the command processor keeps (a countdown is never 0 between clocks), and four parts beside
the types: a response that was generated over unacknowledged flags is one of those
`OnlyAcksAndAudioOverwrite` allows; the sector in the buffer is the one before the drive's, and if
it went to the decoder it is not going to the host (`Ordered`); the edge detector is high exactly
when an interrupt has been pending ever since the clock before (`Edge`); and the sectors the INT1s
of a reading drive have brought lie before its next one, and before the one in the buffer as long
as that waits for its INT1 (`Behind`), so that none can be brought again. A clock is divided into
the drive's part, the command's and the edge detector, each a function from a controller to
another with its own lemma, because the second may find what the first has just queued. From
`IInv` follow `OthersWaitForTheHost` and, step by step, the three action properties
`InterruptsAreRaisedOnce`, `DecoderSectorsStayInside` and `SectorsArriveInOrder`.
`ReadersMissNoResponse` is about hosts that send no command of `Movers` (those that seek, play, or
restart the motor or the controller): for them the invariant adds that the drive owes no INT2,
plays nothing and seeks only to read, and that a command being received finds the flags
acknowledged (`Quiet`). With a mover the statement is false (section 6).

`DmaControllerProofs`. The invariant is `TypeOK` with `CpuPaysForBus` (so that `process` never
finds the bus busy), `SortedByPriority` (so that stopping at the first disabled channel misses
none) and `TransfersAreScheduled`. The two action properties are proved from it.

`PeripheralsProofs`. Of the ring (`RingIsQueue`): the two indices are `len` apart modulo the
length. Sums of two indices are below twice the length, so the modulus is one subtraction
(`Around`), and `FilledByDepth` says that `push` writes exactly the positions read after the bytes
in use; with it each operation is that operation of the queue. Of a port (`PortIsAlwaysOnTime`):
`PortIsOnTime` is inductive with the types. Every operation is a function from one result (port,
events, interrupt) to another, and catching up makes a result good, whatever it was, as long as
the port is no later than its events; what follows it, a write or a handler, keeps it good. Of the
controllers (`ConversationsAlwaysWhole`): `ToCome` says how many bytes each step of the protocol
still sends, and with those sent they are the ones announced, unless the user has interfered. The
byte that enters config mode may change the mode in the middle of a conversation, so a controller
that may still enter it is in normal mode. Of the memory card (`ConfirmedWritesStay`): `Holds`
says the same of a write in progress as the property of a confirmed one, the bytes that came are
in the card, and once all have come the file has them or the card is dirty; storing a byte changes
no other sector and ends the confirmation of its own. Of the readers of a disc
(`DiscsReadWhatIsThere`, for any sheets, CHD files, times and lengths of a hunk): the file stands
at the position the reader believes, or the reader is torn, and likewise the hunk it holds
(`ReaderKnows`), so that a read that does not seek or decompress finds what one that does would.
The hypothesis, `PlacesExist`, is that the layout gives every time a sector of a file of the disc;
the run checks it as a part of `DiscReadsTrue`.

`MediaProofs`, of `Gp0`. `ParametersNeverOverflow`: the invariant is `TypeOK` itself, whose
`CommandStates` say that a command which waits for parameters has index plus remaining words at
most eleven and at least one to come, and that a transfer under way has halfwords left.
`WordCount` is bounded for every command (`ParametersFit`), a shaded polyline continues at index 2
with one word to come, and a size is never zero (the source turns it into the full width or
height); so no write is out of the buffer and no countdown passes zero. `WordsAreFollowed`:
`Follows` says, for each stage of a command, where in the buffer its words are and what else of
them is kept: the parameters received, the last vertex of a polyline with its colour, what a
transfer has taken or given so far. There is one lemma per stage, which compares what the stage
draws with `Meaning` of all the words. `ProcessorFollowsWords` and `CommandsAreDrawn` follow from
it: the second for any length of polyline, any size of transfer and any number of commands.

`MediaProofs`, of `Spu`. `SoundInv` relates the voice, the noise and the interrupt to what
software said last: after a key off no start is pending that would forget it, and the release is
pending or has begun; a voice that loops to an address of software's is locked on it; the noise
timer is below its period; what is owed an interrupt has its flag raised and the line low at the
clock before. `VoicesAlwaysObey` is part of it, `SoundRamIsAlwaysObserved` follows step by step.

`MediaProofs`, of `WgpuVram`. The property speaks of an empty queue; the invariant, `VramInv`,
says of any queue that running it on the three copies as they are gives the single memory in the
scaled copy and, on the tiles that are neither marked nor lines, in the two others, except on
those a blit wrote in the native copy alone, and samples no old texture. What makes it inductive
is `OneAfterTheOther`: to run a queue batch by batch (a pass over the scaled VRAM per batch, the
last of the commands over a tile counting) is to run its commands one after the other, so that
pushing a command is one more command on what the queue leaves. It is shown for every prefix of
the queue, the batch of its last command at a time (`RanIs`, `BatchStartIs`). Draws, blits, copies
and syncs have a lemma each (`DrawAgrees`, `BlitAgrees`, `CopyAgrees`, `SyncedLooksLike`), and a
flush one (`FlushesAgree`). What a draw must find current is what its check has looked at, for
pages, palettes, tiles and a VRAM of any size: each halfword that texels of a range fill is one of
the columns of its box, around the end or not (`TexturesAreChecked`), and so is each of the
palette (`PalettesAreChecked`); that the bounds of the check are counted in halfwords and tiles
while the shader goes texel by texel is a matter of division (`FilledHalfwords`,
`BoxesHoldColumns`).

`CpuProofs`. `CacheIsCurrent`: a valid word of the cache is the word of memory its tag and line
give, unless it is in `stale`. The invariant adds the shape of the machine's record, which every
operator from `HandleException` to the last instruction keeps; only fetches that fill a line,
stores and the isolated cache touch what it is about, and each of them is a lemma.
`AllUnalignedWordsAreWhole` is about LWL, LWR, SWL and SWR themselves: bytes have any number of
values, so that a shift is a division by a power of it, and the four offsets are one identity
each; `UnalignedWordsStayWhole` is the invariant of the run. `InstructionsFollowProgram` is the
refinement of `Program`, step by step: an instruction that is `Ordinary` (not one of the kernel's,
in memory or a current line of the cache, and no store to a device) is one step of `Program`,
where a program whose last instruction entered the kernel is mapped to where the kernel will
return to. The invariant is that of the cache, for the opcode, with the fields of the registers
(`ShapesKept`): outside a delay slot the next instruction is the one behind, and no load is left
over from two instructions before. Each kind of instruction has a lemma that says what it makes of
the machine (`ArithmeticIs`, `LoadIs`, `StoreIs`, ...) and one that this is the step of `Program`
(`ArithmeticFollows`, ...); writing a register or loading it lets the load on its way land as
`Program` says (`LandedIs`, `LandedLate`), and `EntriesInterrupt` takes an exception back to the
instruction or the branch before it, whatever the instruction has done to the program counter.
That registers hold words is a part of `Ordinary` where it is needed, for the program counter and
the addresses of stores: `Logical` is a fold over bits, of which no bound can be proved.

`FrontEndProofs`. `AudioQueueIsBounded` and `OneSaveIsLeft`, by an invariant of one runner at a
time (`Good`), as every step changes one runner or ends them all. `Short` bounds the queue by
where the runner is in its loop: a frame begins below the threshold without fast forward, and in
fast forward with what the truncation left. The bound alone is not inductive, because the
threshold changes while samples of the old one are queued. `StopsSoon` keeps the received Stop in
the queue until the thread ends. `NoCardWriteIsLost` is about the card file and all runners at
once: as long as there was no mishap there is at most one thread alive, none while a start reads
the file, every write is in that thread's card, and in the file too unless the card is dirty or
the thread is between the write and the save of one frame (`NothingLost`).
`SwapChainIsAlwaysExact`: the counter's exactness is inductive with the types, and that a frame is
presented after it was drawn with it; the lemmas count the callbacks and submissions in the GPU's
queue as it grows and shrinks (`AppendCounts`), and a frame number is always free for a new frame
because fewer are in use than there are. `TimeIsAlwaysKept`, from `Paced`: until a CD-ROM error
the SPU's clock is due exactly one period after the last sample, and never more than a period
behind a render that would be forced. It is not inductive without the place in `tick`.

`CountingProofs`, of `SystemTimer`. `ClockCountsOneByOne`: the four methods of `clock` and
counting one by one are both compared with a closed form (`After`): where n clocks take a counter
that goes round (`CountAt`), whether they meet the target and the maximum (`TargetBy`, `MaxBy`),
and how many interrupts they raise (`IrqsBy`). `CountsAlwaysAndPredicts`: the invariant,
`TimersAgree`, is that the two timers agree but for the reached-max flag, that they are of their
type, and that host and mode are of those the closed form is right for; `Predicted` shows for each
mode that the clocks asked for end exactly with the next interrupt.

`CountingProofs`, of the video clock in `Timers`. A walk over n GPU cycles, line by line or border
by border, is n walks of one cycle (`Steps` of either kind), and the two kinds agree on the beam;
a catch-up of n CPU cycles is n catch-ups of one, because the product that is left over goes on
into the next. The invariant is `BeamFollows`: the clock as it is, caught up by `behind`, is the
beam. From it `VideoClockCountsOneByOne`; whatever changes a mode or a range catches up first, so
that the two change at the same place.

`VideoClockIsAlwaysExact` adds VBlank. `Distance` is the number of GPU cycles to the start of line
Y2 as the source computes it, over the lines that are left in this frame and those of the next,
whose number depends on the frame (`LinesToVBlank`). It falls by one with each GPU cycle
(`DistanceStep`) until the beam arrives, so the scheduled time, rounded up to CPU cycles, is the
first at which the beam is there, or one later (`ScheduledIsAwaited`). The invariant,
`VBlankIsKept`, says that VBlank is either awaited at such a time or due with the beam on Y2
(`Awaited`, `Arrived`), and that the range in use is one of those software sets (`KnownRange`).
The hypothesis `RangesKeepValidity` says that no two of them have the same Y2 and differ in being
valid; the run's ranges keep to it, and it excludes no more than the finding `timers_lost_vblank`:
the source schedules VBlank again only when Y2 changes.

`SyncedTimersAlwaysStandStill` is about every state a walk passes: a part of a line in which a
timer stands adds nothing to what it counts (`StandsStill`), however the walk is cut.
`CpuTimerIsAlwaysExact`: the invariant, `CpuInv`, is that the timers count CPU cycles alone and no
interrupt toggles (`CpuTimers`), that each of them caught up is the one that counts every cycle
(`OneByOneFollows`), and that if the cycles up to any n ahead raise an interrupt its event comes
within n (`OnTime`). For the divided clock the invariant says besides that `phase` and the cycles
behind make the cycles since power on, modulo the divider; the ticks of n cycles are the multiples
of the divider they pass, which add up however n is cut.

`CountingProofs`, of `CdTime`. Addition, subtraction and comparison of times are those of sector
numbers, for all bases: each digit with its carry is the sum of the digits, and the three
equations combine. Sums wrap at the longest disc, which the theorems state.

Induction. The library states it with an operator as parameter, which the provers cannot
instantiate. Where a number of clocks, a queue or a path grows, the proofs take the least
counterexample instead: a set of natural numbers that is not empty has a least member
(`LeastNumber`, from the well-foundedness of `<`), and the step before it gives the contradiction.

Proofs about instances: what the run of a module of parts (`MCFrontEnd`, `MCPeripherals`,
`MCTimerParts`, `MCMedia`, `MCCpu`) checks of a part is proved of that part with the constants the
module gives it, which are constants of its own wherever the property depends on them. The bytes a
host sends to a device are those of `MCPeripherals`.

Only model-checked. Liveness (`PoliteCommandsAreExecuted`, `TransfersComplete`, `Settles`,
`EnvelopesEnd`, `ThreadGoesOn`, `SkippingEnds`), which the prover cannot do under fairness. Of
what is safety: `ProgramUndisturbed`, whose mapping runs the concrete handler of the kernel at the
end of `Cpu`'s trace (`InstructionsFollowProgram` proves its steps outside the handler, for all
programs); the layout in `DiscReadsTrue`, which is a fold over the lines of a sheet, and
`PicturesAreWhole`, whose blocks are computed from paths of words of any length: both need
induction over data. Every other property of a passing run is a theorem.

Proved though no run states it: `OrderFollowsControl` (the DMA channels are sorted as DPCR says),
`ParametersNeverOverflow`, `WordsAreFollowed`, `ClockCountsOneByOne`, `AllUnalignedWordsAreWhole`,
`InstructionsFollowProgram`, `DiscsReadWhatIsThere` and those about CD times.
`VideoClockCountsOneByOne` is the half of `VideoClockIsAlwaysExact` that needs no hypothesis.

## 6. Findings

Shown by runs:

- `cd_auto_pause`: `track.number > 2` (`cd/audio.rs:138`) excludes the transition from track 1 to
  2 that the comment above it (134) describes; right for a disc whose first track is data, wrong
  for an audio disc.
- `timers_lost_vblank`: `timers.rs:918` reschedules VBlank only if Y2 changed. The range may be
  invalid because of Y1, VBlank then unschedules itself, and nothing brings it back.
- `spu_sweep`: the counter of a volume sweep (`spu/envelope.rs:176`) is not set again once it is
  0, so that a slow sweep goes on at one step a clock, which the comment at line 42 excludes and
  the envelope of a voice (372) does not do.

Met while modelling, and excluded by the bounds or the wording of the properties named:

- A paused drive queues INT2 without looking at the command state (`cd.rs:358`), unlike INT1
  (`cd/read.rs:60`); if a command is being received, its INT3 is merged with it and the response
  of the seek is lost. `NoResponseOverwritten` is checked without seeks (`cd_reading`); with them
  (`cd_control`), `OnlyAcksAndAudioOverwrite` says what may happen.
- `timers.rs:270` sets `reached_target` but not `reached_max` in a full turn, hence the exception
  in `CountsAndPredicts`.
- `timers.rs:242` triggers the target interrupt of a repeating toggle timer that resets at its
  maximum without asking `reached_target`, hence `Exact` in `MCTimerParts`.
- With one of timers 0 and 1 synchronized, the other is clocked with GPU cycles converted back,
  truncated at every catch-up (`timers.rs:517`, 533), so `UnsyncedTimersCountCpuCycles` is checked
  without synchronization.
- The estimate for the dot clock is an overestimate, not the underestimate its comment says
  (`timers.rs:963`), so its interrupt is late by up to a dot; `TimerIrqsAreOnTime` is checked
  without dots.
- `SIO0_CTRL` is written with the receive interrupt enable in bit 10 and the transmit one in bit
  11 (`sio.rs:580`) and read back with the two exchanged (`sio.rs:549`).
- A DualShock on the second port shares `p1_dualshock_state` (`sio.rs:187`).
- Pressing the analog button in the middle of a conversation changes how many bytes follow the
  length announced (`controllers.rs:253`); `ConversationsAreWhole` excludes it.
- A card write that is cut off has changed data without marking the card dirty (`memcard.rs:189`);
  nothing was confirmed, so `ConfirmedWritesAreKept` holds.
- The dirty flag is cleared before a save that may fail (`api.rs:426`); the write is then lost
  with the thread, one of the mishaps `CardLossNeedsMishap` names.
- A key off before the first clock of a restart is forgotten (`spu/voice.rs:70`), the case
  `KeyOffIsHeard` leaves out.
- The wgpu rasterizer looks for palettes in the wrong columns (`wgpuhardware.rs:921`), ignores
  texture windows and may miss the last halfword of a texture (882, 899), and does not take the
  part of a blit around the end of VRAM to its scaled copy (`sync.rs:136`); `MustBeFresh` and
  `missed` say what is excluded (section 3).
- Without VBlanks and the clock of SPU and CD-ROM no frame ends, and the thread never receives
  Stop (`api.rs:472`); `ThreadGoesOn` leaves that thread out.
- Others of the CPU, the rasterizer, the disc readers and the front end are with their modules in
  section 3.

## 7. Not modelled

Sample, pixel and geometry arithmetic (ADPCM, interpolation and reverb of the SPU, the inverse
transform of the MDEC, what the rasterizers draw, the GTE's commands) and checksums and
compression of disc images: functions of their inputs without order-dependent state, better served
by tests. Of the rasterizers only the wgpu one has state beyond VRAM; the naive and the SIMD one
draw a command at once, and the shaders run on the GPU. The address decoding of the bus keeps no
state; PGXP carries precise coordinates beside the words and changes no control. The FIFOs of the
CD-ROM and the resampler ring of its XA decoder hold what `CdController` keeps as the sector they
are from. The GUI's windows are presentation, and the SaveState macro generates code at compile
time.

A save state restores the fields it serializes; that it is taken and loaded between frames, and
what that does to the memory card, is in `EmuThread`. Inputs and the window of the front end are
left out.
