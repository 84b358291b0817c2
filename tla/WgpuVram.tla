------------------------------ MODULE WgpuVram ------------------------------
(* The three copies of VRAM of the wgpu rasterizer                            *)
(* (gpu/rasterizer/wgpuhardware.rs, hazards.rs, blit.rs): scaled_vram, which  *)
(* primitives are drawn to; scaled_vram_copy, which 15-bit textures are       *)
(* sampled from; native_vram, which other textures and the CPU read.          *)
(* Commands queue up and run in batches; tiles drawn to are marked, and are   *)
(* synced to the other copies before a texture is sampled from them - unless  *)
(* that happened a few draws ago - and before the CPU reads.                  *)
(*                                                                            *)
(* VRAM is a row of halfwords, the columns, in tiles of TileWidth; an area is *)
(* a set of tiles, and the contents of a tile the number of the command that  *)
(* wrote it. `vram` holds what a single copy would hold: it is what the       *)
(* rasterizer must look like from outside.                                    *)
EXTENDS Integers, Sequences, FiniteSets, FiniteSetsExt

CONSTANTS
  Tiles,        \* 0 .. n - 1
  TileWidth,    \* columns in a tile of the atlas: 8
  VramWidth,    \* VRAM_WIDTH, in columns
  Texels,       \* in a row of a texture page: 256
  PaletteUnit,  \* the unit of clut_x, and the length of the palettes of 4-bit textures: 16
  LongPalette,  \* the length of the palettes of 8-bit textures: 256
  Triangles,    \* the sets of draws: [area: SUBSET Tiles, masked: BOOLEAN, texture: {} or
  Rectangles,   \*   the set of one mapping]
  Areas,        \* what lines cover
  Blits,        \* [area, reached: SUBSET Tiles]: what fills and blits of the CPU cover, and
                \*   what of it is not around the end of VRAM
  Copies,       \* [source: Tiles, dest: Tiles]: blits inside VRAM, of one tile
  SyncDelay,    \* SCALED_NATIVE_SYNC_DELAY
  MaxCommands   \* bound on the commands of a run

VARIABLES
  draw_commands,
  marked,                     \* the tiles of hazard_tracker.atlas
  scaled_native_sync_delay,
  out_of_sync,
  ram_buffer,
  mem,                        \* [scaled, copy, native: Tiles -> Nat]
  vram,                       \* the reference
  issued,                     \* the number of commands so far
  lines,                      \* unmarked tiles a line was drawn to
  missed,                     \* tiles that a blit wrote to the native VRAM alone
  since,                      \* draws since software last sampled what was not synced
  stale                       \* a draw that had no excuse sampled old contents

vars == <<draw_commands, marked, scaled_native_sync_delay, out_of_sync, ram_buffer, mem,
          vram, issued, lines, missed, since, stale>>

Written(contents, area, value) == [t \in Tiles |-> IF t \in area THEN value ELSE contents[t]]
Taken(contents, area, from) == [t \in Tiles |-> IF t \in area THEN from[t] ELSE contents[t]]
Copied(contents, copy) == [contents EXCEPT ![copy.dest] = contents[copy.source]]

\* HazardTracker::bounding_box, over the marked tiles
BoundingBox(tiles) == {t \in Tiles : Min(tiles) <= t /\ t <= Max(tiles)}

Init ==
  /\ draw_commands = <<>> /\ marked = {} /\ scaled_native_sync_delay = 0 /\ out_of_sync = TRUE
  /\ ram_buffer = <<>>
  /\ mem = [scaled |-> [t \in Tiles |-> 0], copy |-> [t \in Tiles |-> 0], native |-> [t \in Tiles |-> 0]]
  /\ vram = [t \in Tiles |-> 0] /\ issued = 0 /\ lines = {} /\ missed = {}
  /\ since = SyncDelay /\ stale = FALSE
-----------------------------------------------------------------------------
(* The commands at work.                                                      *)

\* DrawCommand::to_type, what batches are made of
TypeOf(command) ==
  IF command.kind # "Draw" THEN command.kind
  ELSE IF command.masked THEN "DrawCheckMaskBit" ELSE "Draw"

\* What a draw samples: the copy of the scaled VRAM or the native one. expected is what was
\* in VRAM when the draw was issued.
Sampled(m, command) == IF command.direct THEN m.copy ELSE m.native
SamplesOld(m, command) == \E t \in DOMAIN command.expected : Sampled(m, command)[t] # command.expected[t]

\* What is behind the commands of a range: the value of the last one over each tile.
Painted(contents, queue, range) ==
  [t \in Tiles |-> LET over == {i \in range : t \in queue[i].area}
                   IN IF over = {} THEN contents[t] ELSE queue[Max(over)].value]

\* execute_draw, execute_mask_bit_draw: one pass over the scaled VRAM
ExecuteDraws(m, queue, range) ==
  [m EXCEPT !.scaled = Painted(@, queue, range), !.stale = @ \/ \E i \in range : SamplesOld(m, queue[i])]

\* execute_blits: all native writes, then the areas to the scaled VRAM, and from it to its copy.
\* The first and the last go around the end of VRAM; NativeScaledSyncPipeline does not.
ExecuteBlits(m, queue, range) ==
  LET native == Painted(m.native, queue, range)
      covered == UNION {queue[i].area : i \in range}
      scaled == Taken(m.scaled, UNION {queue[i].reached : i \in range}, native)
  IN [m EXCEPT !.native = native, !.scaled = scaled, !.copy = Taken(@, covered, scaled)]

\* execute_copy: inside the scaled VRAM alone
ExecuteCopy(m, copy) == [m EXCEPT !.scaled = Copied(@, copy)]

\* execute_scaled_native_sync: the marked tiles to the native VRAM, their bounding box to the copy
ExecuteSync(m, tiles) ==
  [m EXCEPT !.native = Taken(@, tiles, m.scaled), !.copy = Taken(@, BoundingBox(tiles), m.scaled)]

\* flush_draw_commands runs the queue batch by batch, a batch being a stretch of one type. The
\* copies of a batch run one after the other, as do the syncs, so that each is one of its own.
OwnBatch == {"Copy", "ScaledNativeSync"}
BatchStart(queue, i) ==
  Max({j \in 1 .. i : j = 1 \/ TypeOf(queue[j]) # TypeOf(queue[j - 1]) \/ TypeOf(queue[j]) \in OwnBatch})

ExecuteBatch(m, queue, first, last) ==
  CASE queue[first].kind = "Draw" -> ExecuteDraws(m, queue, first .. last)
    [] queue[first].kind = "Blit" -> ExecuteBlits(m, queue, first .. last)
    [] queue[first].kind = "Copy" -> ExecuteCopy(m, queue[first].copy)
    [] queue[first].kind = "ScaledNativeSync" -> ExecuteSync(m, queue[first].area)

\* What the first i commands of a queue make of the copies of VRAM.
Ran(m, queue) ==
  LET ran[i \in 0 .. Len(queue)] ==
        IF i = 0 THEN m
        ELSE ExecuteBatch(ran[BatchStart(queue, i) - 1], queue, BatchStart(queue, i), i)
  IN ran

\* At the end what is marked is synced.
Loaded == [scaled |-> mem.scaled, copy |-> mem.copy, native |-> mem.native, stale |-> stale]
Executed ==
  LET ran == Ran(Loaded, draw_commands)[Len(draw_commands)]
  IN IF marked = {} THEN ran ELSE ExecuteSync(ran, marked)

FlushDrawCommands ==
  IF draw_commands = <<>> THEN
    UNCHANGED <<draw_commands, marked, scaled_native_sync_delay, mem, since, stale>>
  ELSE
    /\ LET ran == Executed
       IN /\ mem' = [scaled |-> ran.scaled, copy |-> ran.copy, native |-> ran.native]
          /\ stale' = ran.stale
    /\ draw_commands' = <<>> /\ marked' = {} /\ scaled_native_sync_delay' = 0
    /\ since' = SyncDelay
-----------------------------------------------------------------------------
(* The commands GP0 issues.                                                   *)

Serial == issued + 1
Issue == issued < MaxCommands /\ issued' = Serial
Push(commands) == draw_commands' = draw_commands \o commands

\* push_scaled_native_sync_command
SyncCommand == IF marked = {} THEN <<>> ELSE <<[kind |-> "ScaledNativeSync", area |-> marked]>>

\* The tiles of the box from one column up to another (x_tile_coordinates).
Box(first, end) == {t \in Tiles : first < TileWidth * t + TileWidth /\ TileWidth * t < end}
BoxAround(first, width) ==
  IF first + width > VramWidth THEN Box(first, VramWidth) \union Box(0, first + width - VramWidth)
  ELSE Box(first, first + width)

\* A mapping is [depth, base, u, width, window, clut_x]: base is 64 * x_base, the texels go from u
\* on - those of a rectangle around the end of the page - and window is whether there is a
\* texture window.
TexelsInColumn(mapping) ==
  CASE mapping.depth = "Four" -> 4 [] mapping.depth = "Eight" -> 2 [] mapping.depth = "Fifteen" -> 1
Around(column) == IF column < VramWidth THEN column ELSE column - VramWidth
ColumnOf(mapping, u) == Around(mapping.base + u \div TexelsInColumn(mapping))
Ranges(mapping) ==
  LET end == mapping.u + mapping.width
  IN IF end <= Texels THEN {[lo |-> mapping.u, hi |-> end - 1]}
     ELSE {[lo |-> mapping.u, hi |-> Texels - 1],
           [lo |-> 0, hi |-> (IF end - Texels < Texels THEN end - Texels ELSE Texels) - 1]}

\* check_texture_bounding_box: of the halfwords a range is in, as many as it fills. check_clut_
\* bounding_box takes clut_x for a column; a texture of 15 bits has no palette.
CheckedTexture(mapping) ==
  UNION {BoxAround(ColumnOf(mapping, r.lo), (r.hi - r.lo + 1) \div TexelsInColumn(mapping)) : r \in Ranges(mapping)}
CheckedPalette(mapping) ==
  CASE mapping.depth = "Four" -> Box(mapping.clut_x, mapping.clut_x + PaletteUnit)
    [] mapping.depth = "Eight" -> BoxAround(mapping.clut_x, LongPalette)
    [] mapping.depth = "Fifteen" -> {}

\* Sampling from marked tiles is a hazard. It syncs the VRAMs first, unless one did a few draws ago.
AnyMarkedRendered(draw) ==
  \E mapping \in draw.texture : (CheckedTexture(mapping) \union CheckedPalette(mapping)) \intersect marked # {}
DelayLeft == IF scaled_native_sync_delay = 0 THEN 0 ELSE scaled_native_sync_delay - 1
SyncsFirst(draw) == AnyMarkedRendered(draw) /\ DelayLeft = 0

\* A draw that forgets to mark the tiles it is drawn to when it syncs those it samples.
MarkedAtUnlessSyncing(draw) == IF SyncsFirst(draw) THEN {} ELSE marked \union draw.area
MarkedAt(draw) == (IF SyncsFirst(draw) THEN {} ELSE marked) \union draw.area

\* What a draw must find current: the halfwords of which it samples every texel, from the first of
\* one on, unless it does so through a texture window, and the palette in the first columns.
\* (Elsewhere the shaders sample what is not checked.)
InTile(t, column) == TileWidth * t <= column /\ column < TileWidth * t + TileWidth
FilledTexels(mapping, r) ==
  LET n == TexelsInColumn(mapping)
  IN {u \in r.lo .. r.hi : ~mapping.window /\ r.lo % n = 0 /\ (u \div n) * n + n <= r.hi + 1}
PaletteLen(mapping) ==
  CASE mapping.depth = "Four" -> PaletteUnit [] mapping.depth = "Eight" -> LongPalette [] mapping.depth = "Fifteen" -> 0
TextureTiles(mapping) ==
  {t \in Tiles : \E r \in Ranges(mapping) : \E u \in FilledTexels(mapping, r) : InTile(t, ColumnOf(mapping, u))}
PaletteTiles(mapping) ==
  {t \in Tiles : mapping.clut_x = 0 /\ \E column \in 0 .. PaletteLen(mapping) - 1 : InTile(t, column)}

\* A draw of a series of hazards is excused; so are tiles that differ anyway.
MustBeFresh(draw) ==
  IF AnyMarkedRendered(draw) /\ since + 1 < SyncDelay THEN {}
  ELSE (UNION {TextureTiles(mapping) \union PaletteTiles(mapping) : mapping \in draw.texture}) \ (lines \union missed)
DrawCommand(draw) ==
  [kind |-> "Draw", area |-> draw.area, masked |-> draw.masked, value |-> Serial,
   direct |-> \E mapping \in draw.texture : mapping.depth = "Fifteen",
   expected |-> [t \in MustBeFresh(draw) |-> vram[t]]]

DrawPrimitive(draw) ==
  /\ Issue
  /\ Push((IF SyncsFirst(draw) THEN SyncCommand ELSE <<>>) \o <<DrawCommand(draw)>>)
  /\ scaled_native_sync_delay' = IF AnyMarkedRendered(draw) THEN SyncDelay ELSE DelayLeft
  /\ marked' = MarkedAt(draw)
  /\ since' = IF AnyMarkedRendered(draw) THEN 0 ELSE Min({since + 1, SyncDelay})
  /\ lines' = lines \ draw.area /\ missed' = missed \ draw.area
  /\ vram' = Written(vram, draw.area, Serial)
  /\ UNCHANGED <<out_of_sync, ram_buffer, mem, stale>>

\* A triangle outside of the drawing area is queued all the same, a rectangle is not. (The other
\* half of a tiny triangle is drawn inside the box of the first.)
DrawTriangle == \E draw \in Triangles : DrawPrimitive(draw)
DrawRectangle == \E draw \in Rectangles : draw.area # {} /\ DrawPrimitive(draw)

\* A line marks nothing (a TODO of the source).
DrawLine ==
  \E area \in Areas :
    /\ Issue
    /\ Push(<<DrawCommand([area |-> area, masked |-> FALSE, texture |-> {}])>>)
    /\ lines' = lines \union (area \ marked) /\ missed' = missed \ area
    /\ vram' = Written(vram, area, Serial)
    /\ UNCHANGED <<marked, scaled_native_sync_delay, out_of_sync, ram_buffer, mem, since, stale>>

\* vram_fill, and cpu_to_vram_blit without a check of mask bits
Blit ==
  \E blit \in Blits :
    /\ Issue
    /\ Push(<<[kind |-> "Blit", area |-> blit.area, reached |-> blit.reached, value |-> Serial]>>)
    /\ lines' = lines \ blit.area
    /\ missed' = (missed \union blit.area) \ blit.reached
    /\ vram' = Written(vram, blit.area, Serial)
    /\ UNCHANGED <<marked, scaled_native_sync_delay, out_of_sync, ram_buffer, mem, since, stale>>

\* mark_vram_copy_rendered
CopyMarks(copy) == marked \union {copy.dest}

VramToVramBlit ==
  \E copy \in Copies :
    /\ Issue
    /\ Push(<<[kind |-> "Copy", copy |-> copy]>>)
    /\ marked' = CopyMarks(copy)
    /\ lines' = lines \ {copy.dest}
    /\ missed' = IF copy.source \in missed THEN missed \union {copy.dest} ELSE missed \ {copy.dest}
    /\ vram' = Copied(vram, copy)
    /\ UNCHANGED <<scaled_native_sync_delay, out_of_sync, ram_buffer, mem, since, stale>>

\* vram_to_cpu_blit reads the whole native VRAM back if anything ran since it last did.
VramToCpuBlit ==
  /\ FlushDrawCommands
  /\ out_of_sync' = FALSE
  /\ ram_buffer' = IF out_of_sync \/ draw_commands # <<>> THEN mem'.native ELSE ram_buffer
  /\ UNCHANGED <<vram, issued, lines, missed>>

\* generate_frame_texture and clone_vram: the commands run, and the scaled VRAM is displayed or
\* the native one (24-bit pictures, saved states)
Flush ==
  /\ draw_commands # <<>>
  /\ FlushDrawCommands
  /\ out_of_sync' = TRUE
  /\ UNCHANGED <<ram_buffer, vram, issued, lines, missed>>

\* clear_texture_cache: the next texture is synced whatever was synced before.
ClearTextureCache ==
  /\ scaled_native_sync_delay' = 0 /\ since' = SyncDelay
  /\ UNCHANGED <<draw_commands, marked, out_of_sync, ram_buffer, mem, vram, issued, lines, missed, stale>>

Next ==
  \/ DrawTriangle \/ DrawRectangle \/ DrawLine \/ Blit \/ VramToVramBlit
  \/ VramToCpuBlit \/ Flush \/ ClearTextureCache

Spec == Init /\ [][Next]_vars
-----------------------------------------------------------------------------
\* Batches leave in VRAM what the commands would leave one after the other, and what is not
\* queued is in all copies, except for lines and for what a blit wrote around the end of VRAM.
BatchesKeepTheOrder ==
  draw_commands = <<>> =>
    \A t \in Tiles \ missed :
      mem.scaled[t] = vram[t] /\ (t \in lines \/ (mem.native[t] = vram[t] /\ mem.copy[t] = vram[t]))

\* The CPU reads what was drawn, filled and copied before: the buffer it reads from is never
\* older than the commands that ran.
CpuReadsCurrent ==
  draw_commands = <<>> /\ ~out_of_sync => \A t \in Tiles \ (lines \union missed) : ram_buffer[t] = vram[t]

\* A texture without a window and its palette in the first columns are sampled in the state the
\* draws before left them in, unless the hazard is one of a series; clearing the texture cache
\* ends a series.
TexturesAreFresh == ~stale
=============================================================================
