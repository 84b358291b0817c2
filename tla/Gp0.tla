-------------------------------- MODULE Gp0 ---------------------------------
(* The GPU's command processor: the state machine behind GP0, which collects   *)
(* the words of a command and then calls the rasterizer, VRAM transfers in     *)
(* both directions, the control commands of GP1 and the GPU status register.   *)
(*                                                                             *)
(* A word stands for its contents: as a vertex, a colour, texture coordinates, *)
(* a position or a setting it is itself, so that two words always differ; what *)
(* it says as a command, as the size of a transfer (in halfwords) or as the    *)
(* end of a polyline is in its fields.                                         *)
EXTENDS Integers, Sequences

CONSTANTS
  Commands,        \* the commands software sends
  Sizes,           \* the sizes of its transfers, in halfwords
  RegisterWrites,  \* its writes to the display registers: records [name, value]
  MaxCommands,     \* bound on the commands of a behaviour
  MaxWords         \* bound on the words of a command

ASSUME SizesAssumption == Sizes \subseteq Nat \ {0}

VARIABLES
  command_state, parameters, settings, blit_buffer, gpu_read_buffer, registers,
  drawn,           \* the rasterizer calls of the last step
  \* What software knows: the words of the command it is sending, the halfwords
  \* it read of a transfer, and how many commands it sent.
  received, returned, sent

vars ==
  <<command_state, parameters, settings, blit_buffer, gpu_read_buffer, registers, drawn,
    received, returned, sent>>
-----------------------------------------------------------------------------
(* Words and commands. *)

LineCommands == [kind: {"Line"}, gouraud: BOOLEAN, polyline: BOOLEAN]
PolygonCommands == [kind: {"Polygon"}, vertices: {3, 4}, gouraud: BOOLEAN, textured: BOOLEAN]
RectangleCommands == [kind: {"Rectangle"}, variable: BOOLEAN, textured: BOOLEAN]
SettingCommands == [kind: {"Setting"}, name: {"E1", "E2", "E3", "E4", "E5", "E6"}]
PlainCommands == [kind: {"Nop", "Fill", "VramToVram", "CpuToVram", "VramToCpu"}]
AllCommands ==
  LineCommands \union PolygonCommands \union RectangleCommands \union SettingCommands
    \union PlainCommands

ASSUME CommandsAssumption == Commands \subseteq AllCommands

Nop == [kind |-> "Nop"]
Word == [nr: Nat, at: Nat, op: AllCommands, size: Nat \ {0}, end: BOOLEAN]
Zero == [nr |-> 0, at |-> 0, op |-> Nop, size |-> 1, end |-> FALSE]

\* The i-th halfword of the VRAM area a transfer reads.
Vram(i) == [vram |-> i]
NoHalfword == Vram(0)
\* The two halfwords of a word from the CPU.
Halves(w) == <<[word |-> w, high |-> FALSE], [word |-> w, high |-> TRUE]>>

PARAMETERS_LEN == 11
Flag(b) == IF b THEN 1 ELSE 0

\* Mutant: the first vertex of a shaded polygon sends a colour as well.
WordCountFirstColor(op) ==
  CASE op.kind = "Fill" -> 2
    [] op.kind = "Line" -> 2 + Flag(op.gouraud)
    [] op.kind = "Polygon" -> op.vertices * (1 + Flag(op.textured) + Flag(op.gouraud))
    [] op.kind = "Rectangle" -> 1 + Flag(op.textured) + Flag(op.variable)
    [] op.kind = "VramToVram" -> 3
    [] op.kind \in {"CpuToVram", "VramToCpu"} -> 2
    [] OTHER -> 0

\* The words a command takes after its first one; settings and no-ops take none.
WordCount(op) ==
  CASE op.kind = "Fill" -> 2
    [] op.kind = "Line" -> 2 + Flag(op.gouraud)
    [] op.kind = "Polygon" ->
         op.vertices * (1 + Flag(op.textured)) + (op.vertices - 1) * Flag(op.gouraud)
    [] op.kind = "Rectangle" -> 1 + Flag(op.textured) + Flag(op.variable)
    [] op.kind = "VramToVram" -> 3
    [] op.kind \in {"CpuToVram", "VramToCpu"} -> 2
    [] OTHER -> 0

\* A command with the colour in its first word.
Command == [op: AllCommands, color: Word]

Waiting == [state |-> "WaitingForCommand"]
Parameters(command, index, remaining) ==
  [state |-> "WaitingForParameters", command |-> command, index |-> index,
   remaining |-> remaining]
Polyline(command) == [state |-> "WaitingForPolyline", command |-> command]
Receiving(position, size, remaining) ==
  [state |-> "ReceivingFromCpu", position |-> position, size |-> size, remaining |-> remaining]
Sending(buffer_idx, remaining) ==
  [state |-> "SendingToCpu", buffer_idx |-> buffer_idx, remaining |-> remaining]

In(state) == command_state.state = state
-----------------------------------------------------------------------------
(* The calls a complete command makes. *)

\* Mutant: the buffer is not cleared before a transfer.
FetchedUncleared(size) == blit_buffer \o [i \in 1 .. size |-> Vram(i)]

\* The buffer is cleared, then the rasterizer fills it.
Fetched(size) == [i \in 1 .. size |-> Vram(i)]

InitSettings ==
  [page |-> Zero, flips |-> Zero, draw_mode |-> Zero, window |-> Zero, top_left |-> Zero,
   bottom_right |-> Zero, offset |-> Zero, mask |-> Zero]

\* E1 sets the texture page, its flips and the draw mode.
Execute(name, w) ==
  CASE name = "E1" -> [settings EXCEPT !.page = w, !.flips = w, !.draw_mode = w]
    [] name = "E2" -> [settings EXCEPT !.window = w]
    [] name = "E3" -> [settings EXCEPT !.top_left = w]
    [] name = "E4" -> [settings EXCEPT !.bottom_right = w]
    [] name = "E5" -> [settings EXCEPT !.offset = w]
    [] name = "E6" -> [settings EXCEPT !.mask = w]

\* Mutant: the second vertex of a shaded line is taken from the place of its colour.
LineCallUnshaded(c, p) ==
  [call |-> "draw_line", vertices |-> <<p[0], p[1]>>,
   colors |-> IF c.op.gouraud THEN <<c.color, p[1]>> ELSE <<c.color>>, page |-> settings.page]

\* The semi-transparency mode is part of the texture page.
LineCall(c, p) ==
  LET second == IF c.op.gouraud THEN 2 ELSE 1
  IN  [call |-> "draw_line", vertices |-> <<p[0], p[second]>>,
       colors |-> IF c.op.gouraud THEN <<c.color, p[1]>> ELSE <<c.color>>,
       page |-> settings.page]

\* A cursor walks over the words: each vertex has its colour, but for the first, whose colour
\* came with the command, then its coordinates, then its texture coordinates.
ReadVertex(c, p, read, i) ==
  LET colored == i # 0 /\ c.op.gouraud
      at == read.next + Flag(colored)
  IN  [next |-> at + 1 + Flag(c.op.textured),
       vertices |-> Append(read.vertices, p[at]),
       colors |-> IF colored THEN Append(read.colors, p[read.next]) ELSE read.colors,
       uvs |-> IF c.op.textured THEN Append(read.uvs, p[at + 1]) ELSE read.uvs]

ReadVertices(c, p) ==
  LET start == [next |-> 0, vertices |-> <<>>, colors |-> <<c.color>>, uvs |-> <<>>]
      three == ReadVertex(c, p, ReadVertex(c, p, ReadVertex(c, p, start, 0), 1), 2)
  IN  IF c.op.vertices = 3 THEN three ELSE ReadVertex(c, p, three, 3)

\* The colour table is named in the first texture word and the page in the second.
TriangleCall(c, read, first) ==
  [call |-> "draw_triangle",
   vertices |-> SubSeq(read.vertices, first, first + 2),
   colors |-> IF c.op.gouraud THEN SubSeq(read.colors, first, first + 2) ELSE <<read.colors[1]>>,
   texture |-> IF c.op.textured
               THEN [uvs |-> SubSeq(read.uvs, first, first + 2), clut |-> <<read.uvs[1]>>,
                     window |-> settings.window]
               ELSE [uvs |-> <<>>, clut |-> <<>>, window |-> Zero],
   page |-> IF c.op.textured THEN read.uvs[2] ELSE settings.page]

PolygonCalls(c, p) ==
  LET read == ReadVertices(c, p)
  IN  [i \in 1 .. c.op.vertices - 2 |-> TriangleCall(c, read, i)]

\* A textured polygon leaves its page behind, but not the flips.
PageAfter(c, p) ==
  IF c.op.textured THEN [settings EXCEPT !.page = ReadVertices(c, p).uvs[2]] ELSE settings

RectangleCall(c, p) ==
  [call |-> "draw_rectangle", top_left |-> p[0], color |-> c.color,
   texture |-> IF c.op.textured THEN <<p[1], settings.flips, settings.window>> ELSE <<>>,
   page |-> settings.page,
   size |-> IF c.op.variable THEN <<p[1 + Flag(c.op.textured)]>> ELSE <<>>]

Quiet == UNCHANGED <<settings, blit_buffer, parameters>>

\* A line of a polyline leaves its second vertex and colour behind as the first of the next.
DrawLine(c, p) ==
  LET call == LineCall(c, p)
  IN  /\ drawn' = <<call>>
      /\ parameters' = IF c.op.polyline THEN [p EXCEPT ![0] = call.vertices[2]] ELSE p
      /\ command_state' = IF c.op.polyline
                          THEN Polyline([c EXCEPT !.color = call.colors[Len(call.colors)]])
                          ELSE Waiting
      /\ UNCHANGED <<settings, blit_buffer>>

ExecuteDrawCommand(c, p) ==
  CASE c.op.kind = "Line" -> DrawLine(c, p)
    [] c.op.kind = "CpuToVram" ->
         /\ blit_buffer' = <<>>
         /\ command_state' = Receiving(p[0], p[1], p[1].size)
         /\ parameters' = p
         /\ drawn' = <<>>
         /\ UNCHANGED settings
    [] c.op.kind = "VramToCpu" ->
         /\ blit_buffer' = Fetched(p[1].size)
         /\ command_state' = Sending(0, p[1].size)
         /\ parameters' = p
         /\ drawn' = <<[call |-> "vram_to_cpu_blit", position |-> p[0], size |-> p[1]]>>
         /\ UNCHANGED settings
    [] OTHER ->
         /\ drawn' =
              CASE c.op.kind = "Fill" ->
                     <<[call |-> "vram_fill", position |-> p[0], size |-> p[1],
                        color |-> c.color]>>
                [] c.op.kind = "Polygon" -> PolygonCalls(c, p)
                [] c.op.kind = "Rectangle" -> <<RectangleCall(c, p)>>
                [] c.op.kind = "VramToVram" ->
                     <<[call |-> "vram_to_vram_blit", source |-> p[0], dest |-> p[1],
                        size |-> p[2], mask |-> settings.mask]>>
         /\ settings' = IF c.op.kind = "Polygon" THEN PageAfter(c, p) ELSE settings
         /\ command_state' = Waiting
         /\ parameters' = p
         /\ UNCHANGED blit_buffer
-----------------------------------------------------------------------------
(* What the words of a command mean, read all at once. *)

Op == received[1].op

\* The k-th vertex of a line or polygon is ws[VertexAt(op, k)], its colour, if vertices have
\* their own, the word before and its texture coordinates the word after.
Stride(op) == 1 + Flag(op.gouraud) + Flag(op.kind = "Polygon" /\ op.textured)
VertexAt(op, k) == 2 + (k - 1) * Stride(op)

\* The number of words of a command whose words are the same number each time.
Length(op) ==
  CASE op.kind = "Line" -> VertexAt(op, 2)
    [] op.kind = "Polygon" -> VertexAt(op, op.vertices) + Flag(op.textured)
    [] op.kind = "Rectangle" -> 2 + Flag(op.textured) + Flag(op.variable)
    [] op.kind \in {"Fill", "CpuToVram", "VramToCpu"} -> 3
    [] op.kind = "VramToVram" -> 4
    [] OTHER -> 1

\* Halfwords sent after the first three words of a transfer to VRAM.
DataOf(ws) ==
  [i \in 1 .. 2 * (Len(ws) - 3) |-> Halves(ws[3 + ((i + 1) \div 2)])[IF i % 2 = 1 THEN 1 ELSE 2]]

\* A polyline ends at an end marker where a new vertex (or its colour) would begin.
Ends(ws) ==
  LET op == ws[1].op
      n == Len(ws)
  IN  CASE op.kind = "Line" /\ op.polyline ->
             n > Length(op) /\ (n - Length(op) - 1) % Stride(op) = 0 /\ ws[n].end
        [] op.kind = "CpuToVram" -> n >= 3 /\ Len(DataOf(ws)) >= ws[3].size
        [] op.kind = "VramToCpu" -> FALSE
        [] OTHER -> n = Length(op)

Corners(ws, which) == [k \in DOMAIN which |-> ws[VertexAt(ws[1].op, which[k])]]
Colors(ws, which) == [k \in DOMAIN which |-> ws[VertexAt(ws[1].op, which[k]) - 1]]
Uvs(ws, which) == [k \in DOMAIN which |-> ws[VertexAt(ws[1].op, which[k]) + 1]]

\* The calls due when the last word of ws arrives.
Meaning(ws) ==
  LET op == ws[1].op
      n == Len(ws)
      Shades(which) == IF op.gouraud THEN Colors(ws, which) ELSE <<ws[1]>>
      Segment(k) ==
        [call |-> "draw_line", vertices |-> Corners(ws, <<k - 1, k>>),
         colors |-> Shades(<<k - 1, k>>), page |-> settings.page]
      Triangle(which) ==
        [call |-> "draw_triangle", vertices |-> Corners(ws, which), colors |-> Shades(which),
         texture |-> IF op.textured
                     THEN [uvs |-> Uvs(ws, which), clut |-> Uvs(ws, <<1>>),
                           window |-> settings.window]
                     ELSE [uvs |-> <<>>, clut |-> <<>>, window |-> Zero],
         page |-> IF op.textured THEN Uvs(ws, <<2>>)[1] ELSE settings.page]
  IN  CASE op.kind = "Line" ->
             IF Ends(ws) /\ op.polyline THEN <<>>
             ELSE [i \in 1 .. Flag(\E k \in 2 .. n : n = VertexAt(op, k)) |->
                     Segment(CHOOSE k \in 2 .. n : n = VertexAt(op, k))]
        [] op.kind = "CpuToVram" /\ Ends(ws) ->
             <<[call |-> "cpu_to_vram_blit", position |-> ws[2], size |-> ws[3],
                mask |-> settings.mask, data |-> SubSeq(DataOf(ws), 1, ws[3].size)]>>
        [] op.kind = "CpuToVram" /\ ~Ends(ws) -> <<>>
        [] op.kind \notin {"Line", "CpuToVram"} /\ n # Length(op) -> <<>>
        [] op.kind = "Polygon" /\ n = Length(op) ->
             IF op.vertices = 3 THEN <<Triangle(<<1, 2, 3>>)>>
             ELSE <<Triangle(<<1, 2, 3>>), Triangle(<<2, 3, 4>>)>>
        [] op.kind = "Rectangle" /\ n = Length(op) ->
             <<[call |-> "draw_rectangle", top_left |-> ws[2], color |-> ws[1],
                texture |-> IF op.textured
                            THEN <<ws[3], settings.flips, settings.window>> ELSE <<>>,
                page |-> settings.page,
                size |-> IF op.variable THEN <<ws[n]>> ELSE <<>>]>>
        [] op.kind = "Fill" /\ n = Length(op) ->
             <<[call |-> "vram_fill", position |-> ws[2], size |-> ws[3], color |-> ws[1]]>>
        [] op.kind = "VramToVram" /\ n = Length(op) ->
             <<[call |-> "vram_to_vram_blit", source |-> ws[2], dest |-> ws[3], size |-> ws[4],
                mask |-> settings.mask]>>
        [] op.kind = "VramToCpu" /\ n = Length(op) ->
             <<[call |-> "vram_to_cpu_blit", position |-> ws[2], size |-> ws[3]]>>
        [] OTHER -> <<>>

\* Whether software is to read the halfwords it asked for.
ToRead == received # <<>> /\ Op.kind = "VramToCpu" /\ Len(received) = 3
-----------------------------------------------------------------------------
(* GP0 writes. *)

Init ==
  /\ command_state = Waiting
  /\ parameters = [i \in 0 .. PARAMETERS_LEN - 1 |-> Zero]
  /\ settings = InitSettings
  /\ blit_buffer = <<>>
  /\ gpu_read_buffer = [halves |-> <<NoHalfword, NoHalfword>>, info |-> Zero]
  /\ registers = [display_enabled |-> 0, dma_mode |-> 0, display_area |-> 0, x_range |-> 0,
                  y_range |-> 0, display_mode |-> 0]
  /\ drawn = <<>>
  /\ received = <<>>
  /\ returned = 0
  /\ sent = 0

\* The words software may send next.
NextWords ==
  LET W(op, size, end) ==
        [nr |-> IF received = <<>> THEN sent + 1 ELSE sent, at |-> Len(received) + 1,
         op |-> op, size |-> size, end |-> end]
  IN  IF received = <<>> THEN {W(op, 1, FALSE) : op \in Commands}
      ELSE IF Op.kind \in {"CpuToVram", "VramToCpu"} /\ Len(received) = 2
           THEN {W(Nop, size, FALSE) : size \in Sizes}
      ELSE IF Op.kind = "Line" THEN {W(Nop, 1, end) : end \in BOOLEAN}
      ELSE {W(Nop, 1, FALSE)}

NewCommand(w) ==
  /\ In("WaitingForCommand")
  /\ command_state' =
       IF WordCount(w.op) > 0 THEN Parameters([op |-> w.op, color |-> w], 0, WordCount(w.op))
       ELSE Waiting
  /\ settings' = IF w.op.kind = "Setting" THEN Execute(w.op.name, w) ELSE settings
  /\ drawn' = <<>>
  /\ UNCHANGED <<parameters, blit_buffer>>

Parameter(w) ==
  LET s == command_state
  IN  /\ In("WaitingForParameters")
      /\ IF s.remaining = 1 THEN ExecuteDrawCommand(s.command, [parameters EXCEPT ![s.index] = w])
         ELSE /\ parameters' = [parameters EXCEPT ![s.index] = w]
              /\ command_state' = Parameters(s.command, s.index + 1, s.remaining - 1)
              /\ drawn' = <<>>
              /\ UNCHANGED <<settings, blit_buffer>>

PolylineWord(w) ==
  LET c == command_state.command
      p == [parameters EXCEPT ![1] = w]
  IN  /\ In("WaitingForPolyline")
      /\ CASE w.end -> command_state' = Waiting /\ drawn' = <<>> /\ Quiet
           [] ~w.end /\ c.op.gouraud ->
                /\ parameters' = p
                /\ command_state' = Parameters(c, 2, 1)
                /\ drawn' = <<>>
                /\ UNCHANGED <<settings, blit_buffer>>
           [] OTHER -> DrawLine(c, p)

\* The second half of the last word is dropped when the size is odd.
ReceiveVramWord(w) ==
  LET s == command_state
      taken == SubSeq(Halves(w), 1, IF s.remaining = 1 THEN 1 ELSE 2)
      buffer == blit_buffer \o taken
      done == s.remaining = Len(taken)
  IN  /\ In("ReceivingFromCpu")
      /\ blit_buffer' = buffer
      /\ drawn' = IF done
                  THEN <<[call |-> "cpu_to_vram_blit", position |-> s.position, size |-> s.size,
                          mask |-> settings.mask, data |-> buffer]>>
                  ELSE <<>>
      /\ command_state' = IF done THEN Waiting
                          ELSE Receiving(s.position, s.size, s.remaining - 2)
      /\ UNCHANGED <<parameters, settings>>

\* A write while VRAM is sent to the CPU panics: software reads all it asked for first.
WriteGp0(w) ==
  /\ NewCommand(w) \/ Parameter(w) \/ PolylineWord(w) \/ ReceiveVramWord(w)
  /\ received' = LET ws == Append(received, w) IN IF Ends(ws) THEN <<>> ELSE ws
  /\ sent' = w.nr
  /\ returned' = 0
  /\ UNCHANGED <<gpu_read_buffer, registers>>

HostWrites ==
  /\ received = <<>> => sent < MaxCommands
  /\ Len(received) < MaxWords
  /\ ~ToRead
  /\ \E w \in NextWords : WriteGp0(w)
-----------------------------------------------------------------------------
(* Reads, GP1 and the status register. *)

\* Two halfwords at a time, the upper half of the last word empty when the size is odd.
ReadPort ==
  LET s == command_state
      Halfword(i) == IF i \in DOMAIN blit_buffer THEN blit_buffer[i] ELSE NoHalfword
      last == s.remaining <= 2
      read == [halves |-> <<Halfword(s.buffer_idx + 1),
                            IF s.remaining = 1 THEN NoHalfword ELSE Halfword(s.buffer_idx + 2)>>,
               info |-> Zero]
  IN  /\ IF In("SendingToCpu")
         THEN /\ gpu_read_buffer' = read
              /\ command_state' = IF last THEN Waiting
                                  ELSE Sending(s.buffer_idx + 2, s.remaining - 2)
         ELSE UNCHANGED <<gpu_read_buffer, command_state>>
      /\ IF ToRead /\ returned + 2 >= received[3].size
         THEN received' = <<>> /\ returned' = 0
         ELSE /\ returned' = IF ToRead THEN returned + 2 ELSE returned
              /\ UNCHANGED received
      /\ drawn' = <<>>
      /\ UNCHANGED <<parameters, settings, blit_buffer, registers, sent>>

Abandoned == received' = <<>> /\ returned' = 0

\* Mutant: a reset leaves a polyline open.
ResetOpenPolyline ==
  /\ command_state' = IF In("WaitingForPolyline") THEN command_state ELSE Waiting
  /\ drawn' = <<>>
  /\ Abandoned
  /\ UNCHANGED <<parameters, settings, blit_buffer, gpu_read_buffer, registers, sent>>

\* GP1($01): whatever was being sent is dropped.
ResetCommandBuffer ==
  /\ command_state' = Waiting
  /\ drawn' = <<>>
  /\ Abandoned
  /\ UNCHANGED <<parameters, settings, blit_buffer, gpu_read_buffer, registers, sent>>

\* GP1($00) also sets every display register, and sends GP0($E1) to GP0($E6) with zeros.
Reset ==
  /\ command_state' = Waiting
  /\ registers' = [display_enabled |-> 0, dma_mode |-> 0, display_area |-> 0, x_range |-> 0,
                   y_range |-> 0, display_mode |-> 0]
  /\ settings' = InitSettings
  /\ drawn' = <<>>
  /\ Abandoned
  /\ UNCHANGED <<parameters, blit_buffer, gpu_read_buffer, sent>>

\* GP1($03) to GP1($08).
WriteRegister(write) ==
  /\ registers' = [registers EXCEPT ![write.name] = write.value]
  /\ drawn' = <<>>
  /\ UNCHANGED <<command_state, parameters, settings, blit_buffer, gpu_read_buffer, received,
                 returned, sent>>

\* GP1($10): the next read gives a setting, unless a transfer is under way.
GetGpuInfo(field) ==
  /\ gpu_read_buffer' = [halves |-> <<NoHalfword, NoHalfword>>, info |-> settings[field]]
  /\ drawn' = <<>>
  /\ UNCHANGED <<command_state, parameters, settings, blit_buffer, registers, received, returned,
                 sent>>

\* Mutant: no DMA request while VRAM data is received.
ReadyForDmaUnlessReceiving == command_state.state \in {"WaitingForCommand", "SendingToCpu"}

ReadyForDma == command_state.state \in {"WaitingForCommand", "SendingToCpu", "ReceivingFromCpu"}

Status ==
  [command |-> In("WaitingForCommand"), vram |-> In("SendingToCpu"), dma |-> ReadyForDma,
   request |-> CASE registers.dma_mode = 0 -> FALSE
                 [] registers.dma_mode = 1 -> TRUE
                 [] registers.dma_mode = 2 -> ReadyForDma
                 [] registers.dma_mode = 3 -> In("SendingToCpu")]

Next ==
  \/ HostWrites
  \/ ReadPort
  \/ ResetCommandBuffer
  \/ Reset
  \/ \E write \in RegisterWrites : WriteRegister(write)
  \/ \E field \in {"window", "top_left", "bottom_right", "offset"} : GetGpuInfo(field)

Spec == Init /\ [][Next]_vars
-----------------------------------------------------------------------------
CommandStates ==
  {Waiting}
    \union {s \in [state: {"WaitingForParameters"}, command: Command,
                   index: 0 .. PARAMETERS_LEN - 1, remaining: 1 .. PARAMETERS_LEN] :
              s.index + s.remaining <= PARAMETERS_LEN}
    \union [state: {"WaitingForPolyline"}, command: [op: LineCommands, color: Word]]
    \union [state: {"ReceivingFromCpu"}, position: Word, size: Word, remaining: Nat \ {0}]
    \union [state: {"SendingToCpu"}, buffer_idx: Nat, remaining: Nat \ {0}]

\* Every parameter a command still lacks has its place in the buffer, only lines are continued,
\* and a transfer under way has halfwords left.
TypeOK ==
  /\ command_state \in CommandStates
  /\ parameters \in [0 .. PARAMETERS_LEN - 1 -> Word]
  /\ received \in Seq(Word)
  /\ returned \in Nat
  /\ sent \in Nat

\* The processor is where the words since the last complete command say: it waits for a
\* command exactly when none has begun, has as many parameters left as the command still
\* lacks, and has received or sent as much of a transfer as software sent or read.
StateFollowsWords ==
  CASE received = <<>> -> In("WaitingForCommand")
    [] ToRead -> /\ In("SendingToCpu")
                 /\ command_state.buffer_idx = returned
                 /\ command_state.remaining = received[3].size - returned
    [] received # <<>> /\ Len(received) < Length(Op) ->
         In("WaitingForParameters") /\ command_state.remaining = Length(Op) - Len(received)
    [] OTHER ->
         \/ /\ Op.kind = "CpuToVram"
            /\ In("ReceivingFromCpu")
            /\ command_state.remaining = received[3].size - Len(DataOf(received))
         \/ /\ Op.kind = "Line" /\ Op.polyline
            /\ IF (Len(received) - Length(Op)) % Stride(Op) = 0 THEN In("WaitingForPolyline")
               ELSE In("WaitingForParameters") /\ command_state.remaining = 1

\* The status register is ready for a command only between commands, offers VRAM data until the
\* last word of it has been read, and requests DMA to the GPU unless a command lacks
\* parameters.
StatusTellsProgress ==
  /\ Status.command <=> received = <<>>
  /\ Status.vram <=> ToRead
  /\ registers.dma_mode = 3 => (Status.request <=> ToRead)
  /\ registers.dma_mode = 2 =>
       (Status.request <=> \/ received = <<>>
                           \/ ToRead
                           \/ Op.kind = "CpuToVram" /\ Len(received) >= 3)

\* However commands, polylines, transfers and resets follow each other, the processor and the
\* software that sends it words agree on what comes next, and the status register says so.
InStepWithSoftware == StateFollowsWords /\ StatusTellsProgress

\* Every word makes the rasterizer calls the command it belongs to calls for, with the words of
\* that command alone: vertices, colours and texture coordinates are not taken from what an
\* earlier or abandoned command left in the buffers, and each segment of a polyline begins where
\* the last one ended, in its colour.
DrawsWhatWasSent ==
  [][\A w \in NextWords : WriteGp0(w) => drawn' = Meaning(Append(received, w))]_vars

\* A transfer to the CPU gives it each halfword once and in order, whatever else it does in
\* between, and a read outside a transfer gives what the last one gave or GP1($10) asked for.
ReadsAreInOrder ==
  [][ReadPort =>
       gpu_read_buffer' =
         IF ToRead
         THEN [halves |-> <<Vram(returned + 1), IF returned + 2 <= received[3].size
                                                  THEN Vram(returned + 2) ELSE NoHalfword>>,
               info |-> Zero]
         ELSE gpu_read_buffer]_vars

\* The GPU draws what was sent, and reads are answered in order.
CommandsDrawWhatWasSent == DrawsWhatWasSent /\ ReadsAreInOrder

=============================================================================
