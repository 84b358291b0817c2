----------------------------- MODULE MediaProofs ------------------------------
(* What is proved of the GPU's command processor, of the SPU and of the         *)
(* rasterizer that draws in scaled VRAM, in that order.                         *)
(*                                                                              *)
(* GP0: the parameters of every command fit the buffer, whatever software sends *)
(* and whenever it resets the processor; the processor is where the words since *)
(* the last command say; and every word makes the calls that the words of its   *)
(* command, read all at once, mean.  The invariant, Follows, says for each      *)
(* stage of a command what the processor has kept of its words; one lemma per   *)
(* stage compares what the stage draws with what the words mean.                *)
(*                                                                              *)
(* SPU: a voice obeys the last key off and the last loop address, the noise its *)
(* last rate, and an access to the address software named interrupts.  The      *)
(* invariant, SoundInv, relates the voice, the noise and the interrupt to what  *)
(* software said last.                                                          *)
(*                                                                              *)
(* wgpu: the copies of VRAM look like one.  What a queue of commands leaves     *)
(* behind, batch by batch, is what its commands do one after the other          *)
(* (OneAfterTheOther), so the invariant, VramInv, says that running the queue   *)
(* on VRAM as it is gives the contents software asked for.                      *)
EXTENDS MCMedia, SequenceTheorems, WellFoundedInduction, TLAPS

\* A command has at most as many parameters as the buffer holds.
LEMMA ParametersFit ==
  ASSUME NEW op \in AllCommands
  PROVE  WordCount(op) \in 0 .. PARAMETERS_LEN
<1>1. CASE op \in PolygonCommands
  <2>1. op.kind = "Polygon" /\ op.vertices \in {3, 4}
    BY <1>1 DEF PolygonCommands
  <2>2. /\ Flag(op.textured) \in {0, 1}
        /\ Flag(op.gouraud) \in {0, 1}
    BY DEF Flag
  <2>3. /\ op.vertices * (1 + Flag(op.textured)) \in 3 .. 8
        /\ (op.vertices - 1) * Flag(op.gouraud) \in 0 .. 3
    BY <2>1, <2>2
  <2>4. QED
    BY <2>1, <2>3 DEF WordCount, PARAMETERS_LEN
<1>2. CASE op \in LineCommands
  BY <1>2 DEF LineCommands, WordCount, Flag, PARAMETERS_LEN
<1>3. CASE op \in RectangleCommands
  BY <1>3 DEF RectangleCommands, WordCount, Flag, PARAMETERS_LEN
<1>4. CASE op \in SettingCommands \union PlainCommands
  BY <1>4 DEF SettingCommands, PlainCommands, WordCount, PARAMETERS_LEN
<1>5. QED
  BY <1>1, <1>2, <1>3, <1>4 DEF AllCommands

\* The states the processor goes to are command states.
LEMMA StatesOfCommands ==
  /\ Waiting \in CommandStates
  /\ \A c \in Command, index \in 0 .. PARAMETERS_LEN - 1, remaining \in 1 .. PARAMETERS_LEN :
       index + remaining <= PARAMETERS_LEN => Parameters(c, index, remaining) \in CommandStates
  /\ \A c \in [op: LineCommands, color: Word] : Polyline(c) \in CommandStates
  /\ \A position, size \in Word, remaining \in Nat \ {0} :
       Receiving(position, size, remaining) \in CommandStates
  /\ \A index \in Nat, remaining \in Nat \ {0} : Sending(index, remaining) \in CommandStates
BY DEF CommandStates, Waiting, Parameters, Polyline, Receiving, Sending, PARAMETERS_LEN

\* What the state of the processor says about its fields.
LEMMA FieldsOfStates ==
  ASSUME NEW s \in CommandStates
  PROVE  /\ s.state = "WaitingForParameters" =>
              /\ s.command \in Command
              /\ s.index \in 0 .. PARAMETERS_LEN - 1
              /\ s.remaining \in 1 .. PARAMETERS_LEN
              /\ s.index + s.remaining <= PARAMETERS_LEN
         /\ s.state = "WaitingForPolyline" => s.command \in [op: LineCommands, color: Word]
         /\ s.state = "ReceivingFromCpu" =>
              s.position \in Word /\ s.size \in Word /\ s.remaining \in Nat \ {0}
         /\ s.state = "SendingToCpu" => s.buffer_idx \in Nat /\ s.remaining \in Nat \ {0}
BY DEF CommandStates, Waiting

\* Only line commands are of kind "Line".
LEMMA LinesAreLines ==
  ASSUME NEW op \in AllCommands, op.kind = "Line"
  PROVE  op \in LineCommands
BY DEF AllCommands, PolygonCommands, RectangleCommands, SettingCommands, PlainCommands

\* What software sends are words.
LEMMA NextWordsAreWords ==
  ASSUME TypeOK, NEW w \in NextWords
  PROVE  w \in Word
<1> DEFINE W(op, size, end) ==
      [nr |-> IF received = <<>> THEN sent + 1 ELSE sent, at |-> Len(received) + 1,
       op |-> op, size |-> size, end |-> end]
<1>1. Nop \in AllCommands
  BY DEF Nop, AllCommands, PlainCommands
<1>2. \A op \in Commands : W(op, 1, FALSE) \in Word
  BY CommandsAssumption DEF TypeOK, Word
<1>3. /\ \A size \in Sizes : W(Nop, size, FALSE) \in Word
      /\ \A end \in BOOLEAN : W(Nop, 1, end) \in Word
  BY <1>1, SizesAssumption DEF TypeOK, Word
<1>4. w \in {W(op, 1, FALSE) : op \in Commands} \union {W(Nop, size, FALSE) : size \in Sizes}
              \union {W(Nop, 1, end) : end \in BOOLEAN} \union {W(Nop, 1, FALSE)}
  <2>1. NextWords \subseteq
          {W(op, 1, FALSE) : op \in Commands} \union {W(Nop, size, FALSE) : size \in Sizes}
            \union {W(Nop, 1, end) : end \in BOOLEAN} \union {W(Nop, 1, FALSE)}
    BY DEF NextWords
  <2>2. QED
    BY <2>1
<1>5. QED
  <2> HIDE DEF W
  <2> QED
    BY <1>2, <1>3, <1>4

-----------------------------------------------------------------------------
ParameterBuffers == [0 .. PARAMETERS_LEN - 1 -> Word]

\* A line is followed by the rest of its polyline or by a command, and its last vertex stays
\* in the buffer.
LEMMA DrawLineTypes ==
  ASSUME NEW c \in [op: LineCommands, color: Word], NEW p \in ParameterBuffers, DrawLine(c, p)
  PROVE  command_state' \in CommandStates /\ parameters' \in ParameterBuffers
<1> DEFINE call == LineCall(c, p)
<1>1. \A i \in 0 .. 2 : p[i] \in Word
  BY DEF ParameterBuffers, PARAMETERS_LEN
<1>2. /\ call.vertices[2] \in Word
      /\ call.colors[Len(call.colors)] \in Word
  <2>1. CASE c.op.gouraud
    BY <1>1, <2>1 DEF LineCall
  <2>2. CASE ~c.op.gouraud
    BY <1>1, <2>2 DEF LineCall
  <2>3. QED
    BY <2>1, <2>2
<1>3. parameters' \in ParameterBuffers
  <2>1. parameters' = IF c.op.polyline THEN [p EXCEPT ![0] = call.vertices[2]] ELSE p
    BY DEF DrawLine
  <2> HIDE DEF call
  <2>2. QED
    BY <1>2, <2>1 DEF ParameterBuffers, PARAMETERS_LEN
<1>4. command_state' \in CommandStates
  <2>1. command_state' = IF c.op.polyline
                         THEN Polyline([c EXCEPT !.color = call.colors[Len(call.colors)]])
                         ELSE Waiting
    BY DEF DrawLine
  <2> HIDE DEF call
  <2>2. [c EXCEPT !.color = call.colors[Len(call.colors)]] \in [op: LineCommands, color: Word]
    BY <1>2
  <2>3. QED
    BY <2>1, <2>2, StatesOfCommands
<1>5. QED
  BY <1>3, <1>4

\* A complete command is followed by another one, a polyline or a transfer of some halfwords.
LEMMA ExecuteTypes ==
  ASSUME NEW c \in Command, NEW p \in ParameterBuffers, ExecuteDrawCommand(c, p)
  PROVE  command_state' \in CommandStates /\ parameters' \in ParameterBuffers
<1>1. CASE c.op.kind = "Line"
  <2>1. c \in [op: LineCommands, color: Word]
    BY <1>1, LinesAreLines DEF Command
  <2>2. DrawLine(c, p)
    BY <1>1 DEF ExecuteDrawCommand
  <2>3. QED
    BY <2>1, <2>2, DrawLineTypes
<1>2. p[0] \in Word /\ p[1] \in Word /\ p[1].size \in Nat \ {0}
  BY DEF ParameterBuffers, PARAMETERS_LEN, Word
<1>3. CASE c.op.kind = "CpuToVram"
  <2>1. parameters' = p /\ command_state' = Receiving(p[0], p[1], p[1].size)
    BY <1>3 DEF ExecuteDrawCommand
  <2>2. QED
    BY <1>2, <2>1, StatesOfCommands
<1>4. CASE c.op.kind = "VramToCpu"
  <2>1. parameters' = p /\ command_state' = Sending(0, p[1].size)
    BY <1>4 DEF ExecuteDrawCommand
  <2>2. QED
    BY <1>2, <2>1, StatesOfCommands
<1>5. CASE c.op.kind \notin {"Line", "CpuToVram", "VramToCpu"}
  <2>1. parameters' = p /\ command_state' = Waiting
    BY <1>5 DEF ExecuteDrawCommand
  <2>2. QED
    BY <2>1, StatesOfCommands
<1>6. QED
  BY <1>1, <1>3, <1>4, <1>5

\* Whatever it waits for, a word leaves the processor in a state that has room for the next one.
LEMMA WriteTypes ==
  ASSUME TypeOK, NEW w \in Word, WriteGp0(w)
  PROVE  command_state' \in CommandStates /\ parameters' \in ParameterBuffers
<1> DEFINE s == command_state
<1>1. parameters \in ParameterBuffers /\ s \in CommandStates
  BY DEF TypeOK, ParameterBuffers
<1>2. \A i \in 0 .. PARAMETERS_LEN - 1 : [parameters EXCEPT ![i] = w] \in ParameterBuffers
  BY <1>1 DEF ParameterBuffers
<1>3. CASE NewCommand(w)
  <2>1. parameters' \in ParameterBuffers
    BY <1>1, <1>3 DEF NewCommand
  <2>2. w.op \in AllCommands /\ [op |-> w.op, color |-> w] \in Command
    BY DEF Word, Command
  <2>3. WordCount(w.op) \in 0 .. PARAMETERS_LEN
    BY <2>2, ParametersFit
  <2>4. WordCount(w.op) > 0 =>
          Parameters([op |-> w.op, color |-> w], 0, WordCount(w.op)) \in CommandStates
    BY <2>2, <2>3, StatesOfCommands DEF PARAMETERS_LEN
  <2>5. QED
    BY <1>3, <2>1, <2>4, StatesOfCommands DEF NewCommand
<1>4. CASE Parameter(w)
  <2>1. s.state = "WaitingForParameters"
    BY <1>4 DEF Parameter, In
  <2>2. /\ s.command \in Command
        /\ s.index \in 0 .. PARAMETERS_LEN - 1
        /\ s.remaining \in 1 .. PARAMETERS_LEN
        /\ s.index + s.remaining <= PARAMETERS_LEN
    BY <1>1, <2>1, FieldsOfStates
  <2>3. [parameters EXCEPT ![s.index] = w] \in ParameterBuffers
    BY <1>2, <2>2
  <2>4. CASE s.remaining = 1
    <3>1. ExecuteDrawCommand(s.command, [parameters EXCEPT ![s.index] = w])
      BY <1>4, <2>4 DEF Parameter
    <3>2. QED
      BY <2>2, <2>3, <3>1, ExecuteTypes
  <2>5. CASE s.remaining # 1
    <3>1. /\ parameters' = [parameters EXCEPT ![s.index] = w]
          /\ command_state' = Parameters(s.command, s.index + 1, s.remaining - 1)
      BY <1>4, <2>5 DEF Parameter
    <3>2. /\ s.index + 1 \in 0 .. PARAMETERS_LEN - 1
          /\ s.remaining - 1 \in 1 .. PARAMETERS_LEN
          /\ (s.index + 1) + (s.remaining - 1) <= PARAMETERS_LEN
      BY <2>2, <2>5 DEF PARAMETERS_LEN
    <3>3. command_state' \in CommandStates
      BY <2>2, <3>1, <3>2, StatesOfCommands
    <3>4. QED
      BY <2>3, <3>1, <3>3
  <2>6. QED
    BY <2>4, <2>5
<1>5. CASE PolylineWord(w)
  <2>1. s.command \in [op: LineCommands, color: Word]
    BY <1>1, <1>5, FieldsOfStates DEF PolylineWord, In
  <2>2. [parameters EXCEPT ![1] = w] \in ParameterBuffers
    BY <1>2 DEF PARAMETERS_LEN
  <2>3. CASE w.end
    BY <1>1, <1>5, <2>3, StatesOfCommands DEF PolylineWord, Quiet
  <2>4. CASE ~w.end /\ s.command.op.gouraud
    <3>1. /\ parameters' = [parameters EXCEPT ![1] = w]
          /\ command_state' = Parameters(s.command, 2, 1)
      BY <1>5, <2>4 DEF PolylineWord
    <3>2. s.command \in Command
      BY <2>1 DEF Command, AllCommands
    <3>3. command_state' \in CommandStates
      BY <3>1, <3>2, StatesOfCommands DEF PARAMETERS_LEN
    <3>4. QED
      BY <2>2, <3>1, <3>3
  <2>5. CASE ~w.end /\ ~s.command.op.gouraud
    <3>1. DrawLine(s.command, [parameters EXCEPT ![1] = w])
      BY <1>5, <2>5 DEF PolylineWord
    <3>2. QED
      BY <2>1, <2>2, <3>1, DrawLineTypes
  <2>6. QED
    BY <2>3, <2>4, <2>5
<1>6. CASE ReceiveVramWord(w)
  <2>1. s.state = "ReceivingFromCpu"
    BY <1>6 DEF ReceiveVramWord, In
  <2>2. s.position \in Word /\ s.size \in Word /\ s.remaining \in Nat \ {0}
    BY <1>1, <2>1, FieldsOfStates
  <2>3. Len(SubSeq(Halves(w), 1, IF s.remaining = 1 THEN 1 ELSE 2))
          = IF s.remaining = 1 THEN 1 ELSE 2
    BY DEF Halves
  <2>4. command_state' = IF s.remaining \in {1, 2} THEN Waiting
                         ELSE Receiving(s.position, s.size, s.remaining - 2)
    BY <1>6, <2>2, <2>3 DEF ReceiveVramWord
  <2>5. command_state' \in CommandStates
    <3>1. CASE s.remaining \in {1, 2}
      BY <2>4, <3>1, StatesOfCommands
    <3>2. CASE s.remaining \notin {1, 2}
      <4>1. s.remaining - 2 \in Nat \ {0}
        BY <2>2, <3>2
      <4>2. QED
        BY <2>2, <2>4, <3>2, <4>1, StatesOfCommands
    <3>3. QED
      BY <3>1, <3>2
  <2>6. parameters' = parameters
    BY <1>6 DEF ReceiveVramWord
  <2>7. QED
    BY <1>1, <2>5, <2>6
<1>7. QED
  BY <1>3, <1>4, <1>5, <1>6 DEF WriteGp0
-----------------------------------------------------------------------------
\* The parameter buffer never overflows: at every word of every command, continued polylines
\* and resets included, the index is in bounds and the words still to come fit; and a transfer
\* under way has halfwords left, so that its countdown never passes zero.
THEOREM ParametersNeverOverflow == Spec => []TypeOK
<1>1. Init => TypeOK
  <2> SUFFICES ASSUME Init PROVE TypeOK
    OBVIOUS
  <2>1. Zero \in Word
    BY DEF Zero, Word, Nop, AllCommands, PlainCommands
  <2>2. parameters \in [0 .. PARAMETERS_LEN - 1 -> Word]
    BY <2>1 DEF Init
  <2>3. command_state \in CommandStates
    BY StatesOfCommands DEF Init
  <2>4. received \in Seq(Word) /\ returned \in Nat /\ sent \in Nat
    BY DEF Init
  <2>5. QED
    BY <2>2, <2>3, <2>4 DEF TypeOK
<1>2. TypeOK /\ [Next]_vars => TypeOK'
  <2> SUFFICES ASSUME TypeOK, [Next]_vars PROVE TypeOK'
    OBVIOUS
  <2>1. CASE HostWrites
    <3>1. PICK w \in NextWords : WriteGp0(w)
      BY <2>1 DEF HostWrites
    <3>2. w \in Word
      BY NextWordsAreWords
    <3>3. command_state' \in CommandStates /\ parameters' \in ParameterBuffers
      BY <3>1, <3>2, WriteTypes
    <3>4. received' \in Seq(Word)
      <4>1. Append(received, w) \in Seq(Word)
        BY <3>2 DEF TypeOK
      <4>2. QED
        BY <3>1, <4>1 DEF WriteGp0
    <3>5. returned' \in Nat /\ sent' \in Nat
      BY <3>1, <3>2 DEF WriteGp0, Word
    <3>6. QED
      BY <3>3, <3>4, <3>5 DEF TypeOK, ParameterBuffers
  <2>2. CASE ReadPort
    <3>1. command_state' \in CommandStates
      <4> DEFINE s == command_state
      <4>1. CASE In("SendingToCpu") /\ s.remaining > 2
        <5>1. s.buffer_idx \in Nat /\ s.remaining \in Nat
          BY <4>1, FieldsOfStates DEF TypeOK, In
        <5>2. s.buffer_idx + 2 \in Nat /\ s.remaining - 2 \in Nat \ {0}
          BY <4>1, <5>1
        <5>3. command_state' = Sending(s.buffer_idx + 2, s.remaining - 2)
          BY <2>2, <4>1, <5>1 DEF ReadPort
        <5>4. QED
          BY <5>2, <5>3, StatesOfCommands
      <4>2. CASE In("SendingToCpu") /\ ~(s.remaining > 2)
        <5>1. s.remaining \in Nat
          BY <4>2, FieldsOfStates DEF TypeOK, In
        <5>2. command_state' = Waiting
          BY <2>2, <4>2, <5>1 DEF ReadPort
        <5>3. QED
          BY <5>2, StatesOfCommands
      <4>3. CASE ~In("SendingToCpu")
        BY <2>2, <4>3 DEF ReadPort, TypeOK
      <4>4. QED
        BY <4>1, <4>2, <4>3
    <3>2. /\ received' \in Seq(Word)
          /\ returned' \in Nat
          /\ parameters' = parameters
          /\ sent' = sent
      <4>1. /\ received' = <<>> \/ received' = received
            /\ returned' \in {0, returned, returned + 2}
        BY <2>2 DEF ReadPort
      <4>2. parameters' = parameters /\ sent' = sent
        BY <2>2 DEF ReadPort
      <4>3. returned' \in Nat
        BY <4>1 DEF TypeOK
      <4>4. received' \in Seq(Word)
        <5>1. <<>> \in Seq(Word) /\ received \in Seq(Word)
          BY DEF TypeOK
        <5>2. received' = <<>> \/ received' = received
          BY <4>1
        <5>3. QED
          BY <5>1, <5>2, Zenon
      <4>5. QED
        BY <4>2, <4>3, <4>4
    <3>3. QED
      BY <3>1, <3>2 DEF TypeOK
  <2>3. CASE ResetCommandBuffer
    BY <2>3, StatesOfCommands DEF ResetCommandBuffer, Abandoned, TypeOK
  <2>4. CASE Reset
    BY <2>4, StatesOfCommands DEF Reset, Abandoned, TypeOK
  <2>5. CASE \E write \in RegisterWrites : WriteRegister(write)
    BY <2>5 DEF WriteRegister, TypeOK
  <2>6. CASE \E field \in {"window", "top_left", "bottom_right", "offset"} : GetGpuInfo(field)
    BY <2>6 DEF GetGpuInfo, TypeOK
  <2>7. CASE UNCHANGED vars
    BY <2>7 DEF vars, TypeOK
  <2>8. QED
    BY <2>1, <2>2, <2>3, <2>4, <2>5, <2>6, <2>7 DEF Next
<1>3. QED
  BY <1>1, <1>2, PTL DEF Spec
-----------------------------------------------------------------------------
(* Where the processor is, and what it has kept, after the words of a command. *)

\* A command that lacks parameters: the words after the first are in the buffer, in order.
Collecting ==
  /\ received # <<>> /\ Len(received) < Length(Op)
  /\ In("WaitingForParameters")
  /\ command_state.command = [op |-> Op, color |-> received[1]]
  /\ command_state.index = Len(received) - 1
  /\ command_state.remaining = Length(Op) - Len(received)
  /\ \A i \in 0 .. Len(received) - 2 : parameters[i] = received[i + 2]

\* A polyline after its first segment: the last vertex is kept as the first parameter, its
\* colour as the colour of the command, and the colour of the next one, if it was sent, as
\* the second parameter.
Continuing ==
  /\ received # <<>> /\ Len(received) >= Length(Op)
  /\ Op \in LineCommands /\ Op.polyline = TRUE
  /\ command_state.command.op = Op
  /\ IF (Len(received) - Length(Op)) % Stride(Op) = 0
     THEN /\ In("WaitingForPolyline")
          /\ parameters[0] = received[Len(received)]
          /\ command_state.command.color =
               IF Op.gouraud THEN received[Len(received) - 1] ELSE received[1]
     ELSE /\ In("WaitingForParameters")
          /\ command_state.index = 2 /\ command_state.remaining = 1
          /\ parameters[0] = received[Len(received) - 1]
          /\ parameters[1] = received[Len(received)]
          /\ command_state.command.color = received[Len(received) - 2]

\* A transfer to VRAM: what was sent of it is in the buffer.
FillingVram ==
  /\ received # <<>> /\ Len(received) >= Length(Op)
  /\ Op.kind = "CpuToVram"
  /\ In("ReceivingFromCpu")
  /\ command_state.position = received[2]
  /\ command_state.size = received[3]
  /\ command_state.remaining = received[3].size - 2 * (Len(received) - 3)
  /\ blit_buffer = DataOf(received)

\* A transfer from VRAM: all of it is in the buffer.
OfferingVram ==
  /\ received # <<>> /\ Len(received) = 3
  /\ Op.kind = "VramToCpu"
  /\ In("SendingToCpu")
  /\ command_state.buffer_idx = returned
  /\ command_state.remaining = received[3].size - returned
  /\ blit_buffer = Fetched(received[3].size)

Idle == received = <<>> /\ In("WaitingForCommand") /\ returned = 0

Follows == Idle \/ Collecting \/ Continuing \/ FillingVram \/ OfferingVram
-----------------------------------------------------------------------------
(* The lengths of commands, and where their words end. *)

\* A command is as long as its first word and its parameters.
LEMMA LengthsOfCommands ==
  ASSUME NEW op \in AllCommands
  PROVE  /\ Length(op) = WordCount(op) + 1
         /\ Length(op) \in 1 .. 12
         /\ op.kind = "Line" => /\ Stride(op) \in {1, 2}
                                /\ op.gouraud => Stride(op) = 2
                                /\ ~op.gouraud => Stride(op) = 1
                                /\ Length(op) = 2 + Stride(op)
<1>1. CASE op \in PolygonCommands
  <2>1. op.kind = "Polygon" /\ op.vertices \in {3, 4}
    BY <1>1 DEF PolygonCommands
  <2>2. /\ Flag(op.textured) \in {0, 1}
        /\ Flag(op.gouraud) \in {0, 1}
        /\ Flag(op.kind = "Polygon" /\ op.textured) = Flag(op.textured)
    BY <2>1 DEF Flag
  <2>3. Length(op) = 2 + (op.vertices - 1) * (1 + Flag(op.gouraud) + Flag(op.textured))
                       + Flag(op.textured)
    BY <2>1, <2>2 DEF Length, VertexAt, Stride
  <2>4. WordCount(op) = op.vertices * (1 + Flag(op.textured)) + (op.vertices - 1) * Flag(op.gouraud)
    BY <2>1 DEF WordCount
  <2>5. CASE op.vertices = 3
    BY <2>1, <2>2, <2>3, <2>4, <2>5
  <2>6. CASE op.vertices = 4
    BY <2>1, <2>2, <2>3, <2>4, <2>6
  <2>7. QED
    BY <2>1, <2>5, <2>6
<1>2. CASE op \in LineCommands
  <2>1. op.kind = "Line" /\ Flag(op.kind = "Polygon" /\ op.textured) = 0
    BY <1>2 DEF LineCommands, Flag
  <2>2. Flag(op.gouraud) \in {0, 1} /\ (Flag(op.gouraud) = 1 <=> op.gouraud)
    BY DEF Flag
  <2>3. Stride(op) = 1 + Flag(op.gouraud) /\ Length(op) = 2 + Stride(op)
    BY <2>1, <2>2 DEF Stride, Length, VertexAt
  <2>4. WordCount(op) = 2 + Flag(op.gouraud)
    BY <2>1 DEF WordCount
  <2>5. QED
    BY <2>1, <2>2, <2>3, <2>4
<1>3. CASE op \in RectangleCommands
  BY <1>3 DEF RectangleCommands, WordCount, Length, Flag
<1>4. CASE op \in SettingCommands \union PlainCommands
  BY <1>4 DEF SettingCommands, PlainCommands, WordCount, Length
<1>5. QED
  BY <1>1, <1>2, <1>3, <1>4 DEF AllCommands

\* Two halfwords came with every word of a transfer.
LEMMA DataLength ==
  ASSUME NEW ws \in Seq(Word), Len(ws) >= 3
  PROVE  /\ Len(DataOf(ws)) = 2 * (Len(ws) - 3)
         /\ DOMAIN DataOf(ws) = 1 .. 2 * (Len(ws) - 3)
BY DEF DataOf

\* Which words end a command.
LEMMA EndsOfCommands ==
  ASSUME NEW ws \in Seq(Word), ws # <<>>
  PROVE  LET op == ws[1].op
             n == Len(ws)
         IN  /\ n < Length(op) => ~Ends(ws)
             /\ op.kind \notin {"Line", "CpuToVram", "VramToCpu"} => (Ends(ws) <=> n = Length(op))
             /\ op.kind = "Line" /\ op.polyline = FALSE => (Ends(ws) <=> n = Length(op))
             /\ op.kind = "Line" /\ op.polyline = TRUE =>
                  (Ends(ws) <=> n > Length(op) /\ (n - Length(op) - 1) % Stride(op) = 0 /\ ws[n].end)
             /\ op.kind = "CpuToVram" /\ n >= 3 => (Ends(ws) <=> 2 * (n - 3) >= ws[3].size)
             /\ op.kind = "VramToCpu" => ~Ends(ws)
<1> DEFINE op == ws[1].op
           n == Len(ws)
<1>1. n \in Nat /\ n >= 1 /\ ws[1] \in Word
  OBVIOUS
<1>2. op \in AllCommands
  BY <1>1 DEF Word
<1>3. Length(op) \in 1 .. 12
  BY <1>2, LengthsOfCommands
<1>4. op.kind = "CpuToVram" \/ op.kind = "VramToCpu" => Length(op) = 3
  BY DEF Length
<1>5. op.kind = "CpuToVram" => (Ends(ws) <=> n >= 3 /\ Len(DataOf(ws)) >= ws[3].size)
  BY DEF Ends
<1>6. n >= 3 => Len(DataOf(ws)) = 2 * (n - 3)
  BY DataLength
<1>7. op.kind = "VramToCpu" => ~Ends(ws)
  BY DEF Ends
<1>8. op.kind = "Line" => op.polyline \in BOOLEAN
  BY <1>2, LinesAreLines DEF LineCommands
<1>9. op.kind = "Line" /\ op.polyline = TRUE =>
        (Ends(ws) <=> n > Length(op) /\ (n - Length(op) - 1) % Stride(op) = 0 /\ ws[n].end)
  BY DEF Ends
<1>10. (op.kind = "Line" /\ op.polyline = FALSE) \/ op.kind \notin {"Line", "CpuToVram", "VramToCpu"}
         => (Ends(ws) <=> n = Length(op))
  BY DEF Ends
<1> HIDE DEF op, n
<1>11. /\ n < Length(op) => ~Ends(ws)
       /\ op.kind \notin {"Line", "CpuToVram", "VramToCpu"} => (Ends(ws) <=> n = Length(op))
       /\ op.kind = "Line" /\ op.polyline = FALSE => (Ends(ws) <=> n = Length(op))
       /\ op.kind = "Line" /\ op.polyline = TRUE =>
            (Ends(ws) <=> n > Length(op) /\ (n - Length(op) - 1) % Stride(op) = 0 /\ ws[n].end)
       /\ op.kind = "CpuToVram" /\ n >= 3 => (Ends(ws) <=> 2 * (n - 3) >= ws[3].size)
       /\ op.kind = "VramToCpu" => ~Ends(ws)
  <2>1. op.kind = "CpuToVram" /\ n < Length(op) => ~Ends(ws)
    BY <1>1, <1>4, <1>5
  <2>2. op.kind = "Line" /\ n < Length(op) => ~Ends(ws)
    BY <1>1, <1>3, <1>8, <1>9, <1>10
  <2>3. op.kind \notin {"Line", "CpuToVram", "VramToCpu"} /\ n < Length(op) => ~Ends(ws)
    BY <1>1, <1>3, <1>10
  <2>4. n < Length(op) => ~Ends(ws)
    BY <2>1, <2>2, <2>3, <1>7
  <2>5. op.kind = "CpuToVram" /\ n >= 3 => (Ends(ws) <=> 2 * (n - 3) >= ws[3].size)
    BY <1>5, <1>6
  <2>6. QED
    BY <2>4, <2>5, <1>7, <1>9, <1>10
<1>12. QED
  BY <1>11 DEF op, n
-----------------------------------------------------------------------------
(* What commands mean, kind by kind. *)

\* The places of the vertices of a line.
LEMMA PlacesOfLines ==
  ASSUME NEW op \in AllCommands, op.kind = "Line", NEW n \in Nat, n >= 1
  PROVE  /\ n < Length(op) => \A k \in 2 .. n : n # VertexAt(op, k)
         /\ n >= Length(op) /\ (n - Length(op)) % Stride(op) # 0 =>
              \A k \in 2 .. n : n # VertexAt(op, k)
         /\ n >= Length(op) /\ (n - Length(op)) % Stride(op) = 0 =>
              \E k \in 2 .. n : /\ n = VertexAt(op, k)
                                /\ VertexAt(op, k - 1) = n - Stride(op)
                                /\ \A j \in 2 .. n : n = VertexAt(op, j) => j = k
<1>1. Stride(op) \in {1, 2} /\ Length(op) = 2 + Stride(op)
  BY LengthsOfCommands
<1>2. CASE Stride(op) = 1
  <2>1. Length(op) = 3 /\ \A k \in Int : VertexAt(op, k) = k + 1
    BY <1>1, <1>2 DEF VertexAt
  <2>2. (n - Length(op)) % Stride(op) = 0
    BY <1>2, <2>1
  <2>3. n >= 3 => /\ n - 1 \in 2 .. n
                  /\ n = VertexAt(op, n - 1)
                  /\ VertexAt(op, (n - 1) - 1) = n - 1
                  /\ \A j \in 2 .. n : n = VertexAt(op, j) => j = n - 1
    BY <2>1
  <2>4. n < 3 => \A k \in 2 .. n : n # VertexAt(op, k)
    BY <2>1
  <2>5. QED
    BY <1>2, <2>1, <2>2, <2>3, <2>4
<1>3. CASE Stride(op) = 2
  <2>1. Length(op) = 4 /\ \A k \in Int : VertexAt(op, k) = 2 * k
    BY <1>1, <1>3 DEF VertexAt
  <2>2. (n - Length(op)) % Stride(op) = (n - 4) % 2
    BY <1>3, <2>1
  <2>3. n < 4 => \A k \in 2 .. n : n # VertexAt(op, k)
    BY <2>1
  <2>4. n >= 4 /\ (n - 4) % 2 # 0 => \A k \in 2 .. n : n # VertexAt(op, k)
    <3> SUFFICES ASSUME n >= 4, NEW k \in 2 .. n, n = 2 * k
                 PROVE  (n - 4) % 2 = 0
      BY <2>1
    <3>1. QED
      OBVIOUS
  <2>5. ASSUME n >= 4, (n - 4) % 2 = 0
        PROVE  \E k \in 2 .. n : /\ n = VertexAt(op, k)
                                 /\ VertexAt(op, k - 1) = n - Stride(op)
                                 /\ \A j \in 2 .. n : n = VertexAt(op, j) => j = k
    <3>1. PICK k \in 2 .. n : n = 2 * k
      <4>1. n \div 2 \in 2 .. n /\ n = 2 * (n \div 2)
        BY <2>5
      <4>2. QED
        BY <4>1
    <3>2. n = VertexAt(op, k) /\ VertexAt(op, k - 1) = n - 2
      BY <2>1, <3>1
    <3>3. \A j \in 2 .. n : n = VertexAt(op, j) => j = k
      BY <2>1, <3>1
    <3>4. QED
      BY <1>3, <3>2, <3>3
  <2>6. QED
    BY <2>1, <2>2, <2>3, <2>4, <2>5
<1>4. QED
  BY <1>1, <1>2, <1>3

\* The segment whose second vertex is the last of ws.
LastSegment(ws) ==
  LET op == ws[1].op
      n == Len(ws)
      stride == Stride(op)
  IN  [call |-> "draw_line", vertices |-> <<ws[n - stride], ws[n]>>,
       colors |-> IF op.gouraud THEN <<ws[n - stride - 1], ws[n - 1]>> ELSE <<ws[1]>>,
       page |-> settings.page]

\* A line is drawn at each of its vertices after the first.
LEMMA MeaningOfLines ==
  ASSUME NEW ws \in Seq(Word), ws # <<>>, ws[1].op.kind = "Line"
  PROVE  LET op == ws[1].op
             n == Len(ws)
         IN  /\ n < Length(op) => Meaning(ws) = <<>>
             /\ n >= Length(op) /\ (n - Length(op)) % Stride(op) # 0 => Meaning(ws) = <<>>
             /\ op.polyline = TRUE /\ Ends(ws) => Meaning(ws) = <<>>
             /\ n >= Length(op) /\ (n - Length(op)) % Stride(op) = 0
                  /\ ~(op.polyline = TRUE /\ Ends(ws)) => Meaning(ws) = <<LastSegment(ws)>>
<1> DEFINE op == ws[1].op
           n == Len(ws)
           there == \E k \in 2 .. n : n = VertexAt(op, k)
           at == CHOOSE k \in 2 .. n : n = VertexAt(op, k)
           Shades(which) == IF op.gouraud THEN Colors(ws, which) ELSE <<ws[1]>>
           Segment(k) ==
             [call |-> "draw_line", vertices |-> Corners(ws, <<k - 1, k>>),
              colors |-> Shades(<<k - 1, k>>), page |-> settings.page]
           calls == [i \in 1 .. Flag(there) |-> Segment(at)]
<1>1. n \in Nat /\ n >= 1 /\ ws[1] \in Word
  OBVIOUS
<1>2. op \in AllCommands
  BY <1>1 DEF Word
<1>3. op.kind = "Line" /\ op.polyline \in BOOLEAN
  BY <1>2, LinesAreLines DEF LineCommands
<1>4. Meaning(ws) = IF Ends(ws) /\ op.polyline THEN <<>> ELSE calls
  BY <1>3 DEF Meaning
<1>5. /\ ~there => calls = <<>>
      /\ there => calls = <<Segment(at)>>
  <2> DEFINE call == Segment(at)
  <2>1. /\ ~there => Flag(there) = 0
        /\ there => Flag(there) = 1
    BY DEF Flag
  <2> HIDE DEF there, call
  <2>2. /\ [i \in 1 .. 0 |-> call] = <<>>
        /\ [i \in 1 .. 1 |-> call] = <<call>>
    OBVIOUS
  <2>3. QED
    BY <2>1, <2>2 DEF call
<1>7. n < Length(op) => ~there
  BY <1>1, <1>2, <1>3, PlacesOfLines
<1>8. n >= Length(op) /\ (n - Length(op)) % Stride(op) # 0 => ~there
  BY <1>1, <1>2, <1>3, PlacesOfLines
<1>9. n >= Length(op) /\ (n - Length(op)) % Stride(op) = 0 =>
        there /\ Segment(at) = LastSegment(ws)
  <2> HAVE n >= Length(op) /\ (n - Length(op)) % Stride(op) = 0
  <2>1. PICK k \in 2 .. n : /\ n = VertexAt(op, k)
                            /\ VertexAt(op, k - 1) = n - Stride(op)
                            /\ \A j \in 2 .. n : n = VertexAt(op, j) => j = k
    <3> HIDE DEF op, n
    <3> QED
      BY <1>1, <1>2, <1>3, PlacesOfLines
  <2>2. there /\ at = k
    BY <2>1
  <2>3. /\ Corners(ws, <<k - 1, k>>) = <<ws[n - Stride(op)], ws[n]>>
        /\ Colors(ws, <<k - 1, k>>) = <<ws[n - Stride(op) - 1], ws[n - 1]>>
    BY <2>1 DEF Corners, Colors
  <2>4. Segment(k) = LastSegment(ws)
    BY <2>3 DEF LastSegment
  <2>5. QED
    BY <2>2, <2>4
<1> HIDE DEF calls, there, Segment, at
<1>10. QED
  BY <1>3, <1>4, <1>5, <1>7, <1>8, <1>9

\* One word more makes a tuple one word longer.
LEMMA AppendedTuples ==
  /\ \A x \in Word : Append(<<>>, x) = <<x>>
  /\ \A x, y \in Word : Append(<<x>>, y) = <<x, y>>
  /\ \A x, y, z \in Word : Append(<<x, y>>, z) = <<x, y, z>>
  /\ \A x, y, z, w \in Word : Append(<<x, y, z>>, w) = <<x, y, z, w>>
<1>1. ASSUME NEW x \in Word PROVE Append(<<>>, x) = <<x>>
  <2>1. Append(<<>>, x) \in Seq(Word) /\ <<x>> \in Seq(Word)
    OBVIOUS
  <2>2. Len(Append(<<>>, x)) = 1 /\ Append(<<>>, x)[1] = x
    OBVIOUS
  <2>3. QED
    BY <2>1, <2>2, SeqEqual
<1>2. ASSUME NEW x \in Word, NEW y \in Word PROVE Append(<<x>>, y) = <<x, y>>
  <2>1. Append(<<x>>, y) \in Seq(Word) /\ <<x, y>> \in Seq(Word)
    OBVIOUS
  <2>2. Len(Append(<<x>>, y)) = 2 /\ \A i \in 1 .. 2 : Append(<<x>>, y)[i] = <<x, y>>[i]
    OBVIOUS
  <2>3. QED
    BY ONLY <2>1, <2>2, SeqEqual
<1>3. ASSUME NEW x \in Word, NEW y \in Word, NEW z \in Word
      PROVE  Append(<<x, y>>, z) = <<x, y, z>>
  <2>1. Append(<<x, y>>, z) \in Seq(Word) /\ <<x, y, z>> \in Seq(Word)
    OBVIOUS
  <2>2. /\ Len(Append(<<x, y>>, z)) = 3
        /\ \A i \in 1 .. 3 : Append(<<x, y>>, z)[i] = <<x, y, z>>[i]
    OBVIOUS
  <2>3. QED
    BY ONLY <2>1, <2>2, SeqEqual
<1>4. ASSUME NEW x \in Word, NEW y \in Word, NEW z \in Word, NEW w \in Word
      PROVE  Append(<<x, y, z>>, w) = <<x, y, z, w>>
  <2>1. Append(<<x, y, z>>, w) \in Seq(Word) /\ <<x, y, z, w>> \in Seq(Word)
    OBVIOUS
  <2>2. /\ Len(Append(<<x, y, z>>, w)) = 4
        /\ \A i \in 1 .. 4 : Append(<<x, y, z>>, w)[i] = <<x, y, z, w>>[i]
    OBVIOUS
  <2>3. QED
    BY ONLY <2>1, <2>2, SeqEqual
<1>5. QED
  BY <1>1, <1>2, <1>3, <1>4

\* The first vertices of a polygon, each with its colour and texture coordinates.
LEMMA PolygonIsRead ==
  ASSUME NEW c \in Command, c.op \in PolygonCommands, NEW p \in ParameterBuffers
  PROVE  LET s == Stride(c.op)
             read == ReadVertices(c, p)
         IN  /\ s \in 1 .. 3
             /\ c.op.vertices = 3 =>
                  /\ read.vertices = <<p[0], p[s], p[2 * s]>>
                  /\ c.op.gouraud = TRUE => read.colors = <<c.color, p[s - 1], p[2 * s - 1]>>
                  /\ c.op.textured = TRUE => read.uvs = <<p[1], p[s + 1], p[2 * s + 1]>>
             /\ c.op.vertices = 4 =>
                  /\ read.vertices = <<p[0], p[s], p[2 * s], p[3 * s]>>
                  /\ c.op.gouraud = TRUE =>
                       read.colors = <<c.color, p[s - 1], p[2 * s - 1], p[3 * s - 1]>>
                  /\ c.op.textured = TRUE =>
                       read.uvs = <<p[1], p[s + 1], p[2 * s + 1], p[3 * s + 1]>>
             /\ c.op.gouraud = FALSE => read.colors = <<c.color>>
<1>1. /\ c.op.kind = "Polygon" /\ c.op.vertices \in {3, 4}
      /\ c.op.gouraud \in BOOLEAN /\ c.op.textured \in BOOLEAN
  BY DEF PolygonCommands
<1>2. Stride(c.op) = 1 + (IF c.op.gouraud THEN 1 ELSE 0) + (IF c.op.textured THEN 1 ELSE 0)
  BY <1>1 DEF Stride, Flag
<1>3. /\ \A x \in Word : Append(<<>>, x) = <<x>>
      /\ \A x, y \in Word : Append(<<x>>, y) = <<x, y>>
      /\ \A x, y, z \in Word : Append(<<x, y>>, z) = <<x, y, z>>
      /\ \A x, y, z, w \in Word : Append(<<x, y, z>>, w) = <<x, y, z, w>>
  BY AppendedTuples
<1>0. c.color \in Word /\ \A i \in 0 .. 10 : p[i] \in Word
  BY DEF Command, ParameterBuffers, PARAMETERS_LEN
<1> DEFINE start == [next |-> 0, vertices |-> <<>>, colors |-> <<c.color>>, uvs |-> <<>>]
           one == ReadVertex(c, p, start, 0)
           two == ReadVertex(c, p, one, 1)
           three == ReadVertex(c, p, two, 2)
           four == ReadVertex(c, p, three, 3)
<1>4. ReadVertices(c, p) = IF c.op.vertices = 3 THEN three ELSE four
  BY DEF ReadVertices
<1>5. CASE c.op.gouraud = FALSE /\ c.op.textured = FALSE
  <2>1. /\ one.next = 1 /\ one.vertices = <<p[0]>>
        /\ one.colors = <<c.color>>
        /\ one.uvs = <<>>
    BY <1>0, <1>3, <1>5 DEF ReadVertex, Flag
  <2> HIDE DEF one
  <2>2. /\ two.next = 2 /\ two.vertices = <<p[0], p[1]>>
        /\ two.colors = <<c.color>>
        /\ two.uvs = <<>>
    BY <1>0, <1>3, <1>5, <2>1 DEF ReadVertex, Flag
  <2> HIDE DEF two
  <2>3. /\ three.next = 3 /\ three.vertices = <<p[0], p[1], p[2]>>
        /\ three.colors = <<c.color>>
        /\ three.uvs = <<>>
    BY <1>0, <1>3, <1>5, <2>2 DEF ReadVertex, Flag
  <2> HIDE DEF three
  <2>4. /\ four.next = 4 /\ four.vertices = <<p[0], p[1], p[2], p[3]>>
        /\ four.colors = <<c.color>>
        /\ four.uvs = <<>>
    BY <1>0, <1>3, <1>5, <2>3 DEF ReadVertex, Flag
  <2> HIDE DEF four
  <2>5. Stride(c.op) = 1
    BY <1>2, <1>5
  <2>6. QED
    BY <1>1, <1>4, <1>5, <2>3, <2>4, <2>5
<1>6. CASE c.op.gouraud = FALSE /\ c.op.textured = TRUE
  <2>1. /\ one.next = 2 /\ one.vertices = <<p[0]>>
        /\ one.colors = <<c.color>>
        /\ one.uvs = <<p[1]>>
    BY <1>0, <1>3, <1>6 DEF ReadVertex, Flag
  <2> HIDE DEF one
  <2>2. /\ two.next = 4 /\ two.vertices = <<p[0], p[2]>>
        /\ two.colors = <<c.color>>
        /\ two.uvs = <<p[1], p[3]>>
    BY <1>0, <1>3, <1>6, <2>1 DEF ReadVertex, Flag
  <2> HIDE DEF two
  <2>3. /\ three.next = 6 /\ three.vertices = <<p[0], p[2], p[4]>>
        /\ three.colors = <<c.color>>
        /\ three.uvs = <<p[1], p[3], p[5]>>
    BY <1>0, <1>3, <1>6, <2>2 DEF ReadVertex, Flag
  <2> HIDE DEF three
  <2>4. /\ four.next = 8 /\ four.vertices = <<p[0], p[2], p[4], p[6]>>
        /\ four.colors = <<c.color>>
        /\ four.uvs = <<p[1], p[3], p[5], p[7]>>
    BY <1>0, <1>3, <1>6, <2>3, SMTT(30) DEF ReadVertex, Flag
  <2> HIDE DEF four
  <2>5. Stride(c.op) = 2
    BY <1>2, <1>6
  <2>6. QED
    BY <1>1, <1>4, <1>6, <2>3, <2>4, <2>5
<1>7. CASE c.op.gouraud = TRUE /\ c.op.textured = FALSE
  <2>1. /\ one.next = 1 /\ one.vertices = <<p[0]>>
        /\ one.colors = <<c.color>>
        /\ one.uvs = <<>>
    BY <1>0, <1>3, <1>7 DEF ReadVertex, Flag
  <2> HIDE DEF one
  <2>2. /\ two.next = 3 /\ two.vertices = <<p[0], p[2]>>
        /\ two.colors = <<c.color, p[1]>>
        /\ two.uvs = <<>>
    BY <1>0, <1>3, <1>7, <2>1 DEF ReadVertex, Flag
  <2> HIDE DEF two
  <2>3. /\ three.next = 5 /\ three.vertices = <<p[0], p[2], p[4]>>
        /\ three.colors = <<c.color, p[1], p[3]>>
        /\ three.uvs = <<>>
    BY <1>0, <1>3, <1>7, <2>2, SMTT(30) DEF ReadVertex, Flag
  <2> HIDE DEF three
  <2>4. /\ four.next = 7 /\ four.vertices = <<p[0], p[2], p[4], p[6]>>
        /\ four.colors = <<c.color, p[1], p[3], p[5]>>
        /\ four.uvs = <<>>
    BY <1>0, <1>3, <1>7, <2>3, SMTT(30) DEF ReadVertex, Flag
  <2> HIDE DEF four
  <2>5. Stride(c.op) = 2
    BY <1>2, <1>7
  <2>6. QED
    BY <1>1, <1>4, <1>7, <2>3, <2>4, <2>5
<1>8. CASE c.op.gouraud = TRUE /\ c.op.textured = TRUE
  <2>1. /\ one.next = 2 /\ one.vertices = <<p[0]>>
        /\ one.colors = <<c.color>>
        /\ one.uvs = <<p[1]>>
    BY <1>0, <1>3, <1>8 DEF ReadVertex, Flag
  <2> HIDE DEF one
  <2>2. /\ two.next = 5 /\ two.vertices = <<p[0], p[3]>>
        /\ two.colors = <<c.color, p[2]>>
        /\ two.uvs = <<p[1], p[4]>>
    BY <1>0, <1>3, <1>8, <2>1, SMTT(30) DEF ReadVertex, Flag
  <2> HIDE DEF two
  <2>3. /\ three.next = 8 /\ three.vertices = <<p[0], p[3], p[6]>>
        /\ three.colors = <<c.color, p[2], p[5]>>
        /\ three.uvs = <<p[1], p[4], p[7]>>
    BY <1>0, <1>3, <1>8, <2>2 DEF ReadVertex, Flag
  <2> HIDE DEF three
  <2>4. /\ four.next = 11 /\ four.vertices = <<p[0], p[3], p[6], p[9]>>
        /\ four.colors = <<c.color, p[2], p[5], p[8]>>
        /\ four.uvs = <<p[1], p[4], p[7], p[10]>>
    BY <1>0, <1>3, <1>8, <2>3, SMTT(30) DEF ReadVertex, Flag
  <2> HIDE DEF four
  <2>5. Stride(c.op) = 3
    BY <1>2, <1>8
  <2>6. QED
    BY <1>1, <1>4, <1>8, <2>3, <2>4, <2>5
<1>9. QED
  BY <1>1, <1>5, <1>6, <1>7, <1>8

\* Three of three or four words.
LEMMA PartsOfTuples ==
  /\ \A x, y, z \in Word : SubSeq(<<x, y, z>>, 1, 3) = <<x, y, z>>
  /\ \A x, y, z, w \in Word : /\ SubSeq(<<x, y, z, w>>, 1, 3) = <<x, y, z>>
                              /\ SubSeq(<<x, y, z, w>>, 2, 4) = <<y, z, w>>
<1>1. ASSUME NEW x \in Word, NEW y \in Word, NEW z \in Word
      PROVE  SubSeq(<<x, y, z>>, 1, 3) = <<x, y, z>>
  <2> DEFINE piece == SubSeq(<<x, y, z>>, 1, 3)
  <2>1. piece \in Seq(Word) /\ <<x, y, z>> \in Seq(Word)
    OBVIOUS
  <2>2. Len(piece) = 3 /\ \A i \in 1 .. 3 : piece[i] = <<x, y, z>>[i]
    OBVIOUS
  <2>3. QED
    BY ONLY <2>1, <2>2, SeqEqual
<1>2. ASSUME NEW x \in Word, NEW y \in Word, NEW z \in Word, NEW w \in Word
      PROVE  SubSeq(<<x, y, z, w>>, 1, 3) = <<x, y, z>>
  <2> DEFINE piece == SubSeq(<<x, y, z, w>>, 1, 3)
  <2>1. piece \in Seq(Word) /\ <<x, y, z>> \in Seq(Word)
    OBVIOUS
  <2>2. Len(piece) = 3 /\ \A i \in 1 .. 3 : piece[i] = <<x, y, z>>[i]
    OBVIOUS
  <2>3. QED
    BY ONLY <2>1, <2>2, SeqEqual
<1>3. ASSUME NEW x \in Word, NEW y \in Word, NEW z \in Word, NEW w \in Word
      PROVE  SubSeq(<<x, y, z, w>>, 2, 4) = <<y, z, w>>
  <2> DEFINE piece == SubSeq(<<x, y, z, w>>, 2, 4)
  <2>1. piece \in Seq(Word) /\ <<y, z, w>> \in Seq(Word)
    OBVIOUS
  <2>2. Len(piece) = 3 /\ \A i \in 1 .. 3 : piece[i] = <<y, z, w>>[i]
    OBVIOUS
  <2>3. QED
    BY ONLY <2>1, <2>2, SeqEqual
<1>4. QED
  BY <1>1, <1>2, <1>3

\* The triangle a polygon's words name, at three of its corners.
Shades(ws, which) == IF ws[1].op.gouraud THEN Colors(ws, which) ELSE <<ws[1]>>
Triangle(ws, which) ==
  LET op == ws[1].op
  IN  [call |-> "draw_triangle", vertices |-> Corners(ws, which), colors |-> Shades(ws, which),
       texture |-> IF op.textured
                   THEN [uvs |-> Uvs(ws, which), clut |-> Uvs(ws, <<1>>),
                         window |-> settings.window]
                   ELSE [uvs |-> <<>>, clut |-> <<>>, window |-> Zero],
       page |-> IF op.textured THEN Uvs(ws, <<2>>)[1] ELSE settings.page]

\* What a call reads from places m to n is what a triangle's words name.
Named(ws, c, read, which, m, n) ==
  /\ SubSeq(read.vertices, m, n) = Corners(ws, which)
  /\ (IF c.op.gouraud THEN SubSeq(read.colors, m, n) ELSE <<read.colors[1]>>)
       = Shades(ws, which)
  /\ c.op.textured = TRUE => /\ SubSeq(read.uvs, m, n) = Uvs(ws, which)
                             /\ <<read.uvs[1]>> = Uvs(ws, <<1>>)
                             /\ read.uvs[2] = Uvs(ws, <<2>>)[1]

\* A call draws the triangle if its corners, shades and texture are the triangle's.
LEMMA SameTriangle ==
  ASSUME NEW ws, NEW c, NEW read, NEW which, c.op = ws[1].op, c.op.textured \in BOOLEAN
  PROVE  /\ Named(ws, c, read, which, 1, 3) => TriangleCall(c, read, 1) = Triangle(ws, which)
         /\ Named(ws, c, read, which, 2, 4) => TriangleCall(c, read, 2) = Triangle(ws, which)
<1>1. ASSUME Named(ws, c, read, which, 1, 3)
      PROVE  TriangleCall(c, read, 1) = Triangle(ws, which)
  <2>1. CASE c.op.textured = TRUE
    <3>1. TriangleCall(c, read, 1) =
            [call |-> "draw_triangle", vertices |-> Corners(ws, which),
             colors |-> Shades(ws, which),
             texture |-> [uvs |-> Uvs(ws, which), clut |-> Uvs(ws, <<1>>),
                          window |-> settings.window],
             page |-> Uvs(ws, <<2>>)[1]]
      BY <1>1, <2>1 DEF TriangleCall, Named
    <3>2. QED
      BY <2>1, <3>1 DEF Triangle
  <2>2. CASE c.op.textured = FALSE
    <3>1. TriangleCall(c, read, 1) =
            [call |-> "draw_triangle", vertices |-> Corners(ws, which),
             colors |-> Shades(ws, which),
             texture |-> [uvs |-> <<>>, clut |-> <<>>, window |-> Zero],
             page |-> settings.page]
      BY <1>1, <2>2 DEF TriangleCall, Named
    <3>2. QED
      BY <2>2, <3>1 DEF Triangle
  <2>3. QED
    BY <2>1, <2>2
<1>2. ASSUME Named(ws, c, read, which, 2, 4)
      PROVE  TriangleCall(c, read, 2) = Triangle(ws, which)
  <2>1. CASE c.op.textured = TRUE
    <3>1. TriangleCall(c, read, 2) =
            [call |-> "draw_triangle", vertices |-> Corners(ws, which),
             colors |-> Shades(ws, which),
             texture |-> [uvs |-> Uvs(ws, which), clut |-> Uvs(ws, <<1>>),
                          window |-> settings.window],
             page |-> Uvs(ws, <<2>>)[1]]
      BY <1>2, <2>1 DEF TriangleCall, Named
    <3>2. QED
      BY <2>1, <3>1 DEF Triangle
  <2>2. CASE c.op.textured = FALSE
    <3>1. TriangleCall(c, read, 2) =
            [call |-> "draw_triangle", vertices |-> Corners(ws, which),
             colors |-> Shades(ws, which),
             texture |-> [uvs |-> <<>>, clut |-> <<>>, window |-> Zero],
             page |-> settings.page]
      BY <1>2, <2>2 DEF TriangleCall, Named
    <3>2. QED
      BY <2>2, <3>1 DEF Triangle
  <2>3. QED
    BY <2>1, <2>2
<1>3. QED
  BY <1>1, <1>2

\* The triangles of a polygon whose words are in the buffer are those its words name.
LEMMA PolygonDrawn ==
  ASSUME NEW ws \in Seq(Word), ws # <<>>, ws[1].op \in PolygonCommands,
         Len(ws) = Length(ws[1].op), NEW p \in ParameterBuffers,
         \A i \in 0 .. Len(ws) - 2 : p[i] = ws[i + 2]
  PROVE  PolygonCalls([op |-> ws[1].op, color |-> ws[1]], p) =
           IF ws[1].op.vertices = 3 THEN <<Triangle(ws, <<1, 2, 3>>)>>
           ELSE <<Triangle(ws, <<1, 2, 3>>), Triangle(ws, <<2, 3, 4>>)>>
<1> DEFINE op == ws[1].op
           n == Len(ws)
           c == [op |-> op, color |-> ws[1]]
           read == ReadVertices(c, p)
           s == Stride(op)
           T == IF op.textured THEN 1 ELSE 0
<1>1. /\ op.kind = "Polygon" /\ op.vertices \in {3, 4}
      /\ op.gouraud \in BOOLEAN /\ op.textured \in BOOLEAN
  BY DEF PolygonCommands
<1>2. /\ ws[1] \in Word /\ c \in Command /\ c.op = op /\ c.color = ws[1]
  <2>1. ws[1] \in Word
    OBVIOUS
  <2>2. ws[1].op \in AllCommands
    BY <2>1 DEF Word
  <2>3. QED
    BY <2>1, <2>2 DEF Command
<1>3. /\ s \in 1 .. 3
      /\ op.vertices = 3 =>
           /\ read.vertices = <<p[0], p[s], p[2 * s]>>
           /\ op.gouraud = TRUE => read.colors = <<ws[1], p[s - 1], p[2 * s - 1]>>
           /\ op.textured = TRUE => read.uvs = <<p[1], p[s + 1], p[2 * s + 1]>>
      /\ op.vertices = 4 =>
           /\ read.vertices = <<p[0], p[s], p[2 * s], p[3 * s]>>
           /\ op.gouraud = TRUE =>
                read.colors = <<ws[1], p[s - 1], p[2 * s - 1], p[3 * s - 1]>>
           /\ op.textured = TRUE =>
                read.uvs = <<p[1], p[s + 1], p[2 * s + 1], p[3 * s + 1]>>
      /\ op.gouraud = FALSE => read.colors = <<ws[1]>>
  <2>1. c.op \in PolygonCommands
    BY <1>2
  <2> HIDE DEF c, op
  <2>2. QED
    BY <1>2, <2>1, PolygonIsRead, ZenonT(30)
<1>4. \A k \in 1 .. 4 : VertexAt(op, k) = 2 + (k - 1) * s
  BY DEF VertexAt
<1>5. /\ VertexAt(op, 1) = 2 /\ VertexAt(op, 2) = 2 + s
      /\ VertexAt(op, 3) = 2 + 2 * s /\ VertexAt(op, 4) = 2 + 3 * s
  <2> HIDE DEF op, s
  <2> QED
    BY <1>3, <1>4
<1>6. /\ op.vertices = 3 => n = 2 + 2 * s + T
      /\ op.vertices = 4 => n = 2 + 3 * s + T
  <2>1. n = VertexAt(op, op.vertices) + Flag(op.textured)
    BY <1>1 DEF Length
  <2>2. QED
    BY <1>1, <1>3, <1>5, <2>1 DEF Flag
<1>7. /\ op.gouraud = TRUE => s >= 2
      /\ op.gouraud = TRUE /\ op.textured = TRUE => s = 3
  BY <1>1 DEF Stride, Flag
<1>8. n \in Nat /\ \A i \in 0 .. n - 2 : p[i] = ws[i + 2]
  OBVIOUS
<1> HIDE DEF op, n, c, read, s
<1>9. op.vertices = 3 => /\ p[0] = ws[2] /\ p[s] = ws[s + 2]
                         /\ p[2 * s] = ws[(2 * s) + 2]
  BY <1>3, <1>6, <1>8
<1>10. op.vertices = 3 /\ op.gouraud = TRUE => /\ p[s - 1] = ws[(s - 1) + 2]
                                               /\ p[2 * s - 1] = ws[(2 * s - 1) + 2]
  BY <1>3, <1>6, <1>7, <1>8
<1>11. op.vertices = 3 /\ op.textured = TRUE => /\ p[1] = ws[3] /\ p[s + 1] = ws[(s + 1) + 2]
                                                /\ p[2 * s + 1] = ws[(2 * s + 1) + 2]
  BY <1>3, <1>6, <1>7, <1>8
<1>12. op.vertices = 4 => /\ p[0] = ws[2] /\ p[s] = ws[s + 2]
                          /\ p[2 * s] = ws[(2 * s) + 2]
                          /\ p[3 * s] = ws[(3 * s) + 2]
  <2>1. T \in {0, 1}
    OBVIOUS
  <2> HIDE DEF T
  <2>2. op.vertices = 4 => /\ 0 \in 0 .. n - 2 /\ s \in 0 .. n - 2 /\ 2 * s \in 0 .. n - 2
                           /\ 3 * s \in 0 .. n - 2
    <3>1. s \in 1 .. 3
      BY <1>3
    <3>2. op.vertices = 4 => n - 2 = 3 * s + T
      BY <1>6, <2>1, <3>1
    <3>3. QED
      BY <2>1, <3>1, <3>2, SMTT(30)
  <2>3. op.vertices = 4 => \A i \in {0, s, 2 * s, 3 * s} : p[i] = ws[i + 2]
    <3>1. \A i \in 0 .. n - 2 : p[i] = ws[i + 2]
      BY <1>8
    <3>2. QED
      BY <2>2, <3>1
  <2>4. QED
    BY <2>3
<1>13. op.vertices = 4 /\ op.gouraud = TRUE => /\ p[s - 1] = ws[(s - 1) + 2]
                                               /\ p[2 * s - 1] = ws[(2 * s - 1) + 2]
                                               /\ p[3 * s - 1] = ws[(3 * s - 1) + 2]
  BY <1>3, <1>6, <1>7, <1>8
<1>14. op.vertices = 4 /\ op.textured = TRUE => /\ p[1] = ws[3] /\ p[s + 1] = ws[(s + 1) + 2]
                                                /\ p[2 * s + 1] = ws[(2 * s + 1) + 2]
  BY <1>3, <1>6, <1>7, <1>8
<1>15. /\ Corners(ws, <<1, 2, 3>>) = <<ws[2], ws[s + 2], ws[(2 * s) + 2]>>
       /\ Corners(ws, <<2, 3, 4>>) = <<ws[s + 2], ws[(2 * s) + 2], ws[(3 * s) + 2]>>
  BY <1>3, <1>5 DEF Corners, op
<1>16. /\ Colors(ws, <<1, 2, 3>>) = <<ws[1], ws[(s - 1) + 2], ws[(2 * s - 1) + 2]>>
       /\ Colors(ws, <<2, 3, 4>>)
            = <<ws[(s - 1) + 2], ws[(2 * s - 1) + 2], ws[(3 * s - 1) + 2]>>
  <2>1. s \in 1 .. 3
    BY <1>3
  <2>2. /\ VertexAt(op, 1) - 1 = 1 /\ VertexAt(op, 2) - 1 = (s - 1) + 2
        /\ VertexAt(op, 3) - 1 = (2 * s - 1) + 2 /\ VertexAt(op, 4) - 1 = (3 * s - 1) + 2
    BY <1>5, <2>1
  <2>3. /\ <<1, 2, 3>>[1] = 1 /\ <<1, 2, 3>>[2] = 2 /\ <<1, 2, 3>>[3] = 3
        /\ <<2, 3, 4>>[1] = 2 /\ <<2, 3, 4>>[2] = 3 /\ <<2, 3, 4>>[3] = 4
        /\ DOMAIN <<1, 2, 3>> = 1 .. 3 /\ DOMAIN <<2, 3, 4>> = 1 .. 3
    OBVIOUS
  <2>4. \A which : Colors(ws, which) = [k \in DOMAIN which |-> ws[VertexAt(op, which[k]) - 1]]
    BY DEF Colors, op
  <2>5. Colors(ws, <<1, 2, 3>>) = <<ws[1], ws[(s - 1) + 2], ws[(2 * s - 1) + 2]>>
    BY <2>2, <2>3, <2>4
  <2>6. QED
    BY <2>2, <2>3, <2>4, <2>5
<1>17. /\ Uvs(ws, <<1, 2, 3>>) = <<ws[3], ws[(s + 1) + 2], ws[(2 * s + 1) + 2]>>
       /\ Uvs(ws, <<2, 3, 4>>)
            = <<ws[(s + 1) + 2], ws[(2 * s + 1) + 2], ws[(3 * s + 1) + 2]>>
       /\ Uvs(ws, <<1>>) = <<ws[3]>> /\ Uvs(ws, <<2>>)[1] = ws[(s + 1) + 2]
  BY <1>3, <1>5, SMTT(30) DEF Uvs, op
<1>18. \A j \in 0 .. 10 : p[j] \in Word
  BY DEF ParameterBuffers, PARAMETERS_LEN
<1>19. CASE op.vertices = 3
  <2>1. PolygonCalls(c, p) = [i \in 1 .. 1 |-> TriangleCall(c, read, i)]
    BY <1>2, <1>19 DEF PolygonCalls, read
  <2>2. TriangleCall(c, read, 1) = Triangle(ws, <<1, 2, 3>>)
    <3>1. SubSeq(read.vertices, 1, 3) = Corners(ws, <<1, 2, 3>>)
      <4>1. p[0] \in Word /\ p[s] \in Word /\ p[2 * s] \in Word
        BY <1>3, <1>18
      <4>2. SubSeq(<<p[0], p[s], p[2 * s]>>, 1, 3) = <<p[0], p[s], p[2 * s]>>
        BY <4>1, PartsOfTuples
      <4>3. QED
        BY <1>3, <1>9, <1>15, <1>19, <4>2
    <3>2. op.gouraud = TRUE => SubSeq(read.colors, 1, 3) = Colors(ws, <<1, 2, 3>>)
      <4> HAVE op.gouraud = TRUE
      <4>1. p[s - 1] \in Word /\ p[2 * s - 1] \in Word
        BY <1>3, <1>18
      <4>2. SubSeq(<<ws[1], p[s - 1], p[2 * s - 1]>>, 1, 3) = <<ws[1], p[s - 1], p[2 * s - 1]>>
        BY <1>2, <4>1, PartsOfTuples
      <4>3. QED
        BY <1>3, <1>10, <1>16, <1>19, <4>2
    <3>3. op.textured = TRUE => /\ SubSeq(read.uvs, 1, 3) = Uvs(ws, <<1, 2, 3>>)
                               /\ <<read.uvs[1]>> = Uvs(ws, <<1>>)
                               /\ read.uvs[2] = Uvs(ws, <<2>>)[1]
      <4> HAVE op.textured = TRUE
      <4>1. p[1] \in Word /\ p[s + 1] \in Word /\ p[2 * s + 1] \in Word
        BY <1>3, <1>18
      <4>2. SubSeq(<<p[1], p[s + 1], p[2 * s + 1]>>, 1, 3) = <<p[1], p[s + 1], p[2 * s + 1]>>
        BY <4>1, PartsOfTuples
      <4>3. QED
        BY <1>3, <1>11, <1>17, <1>19, <4>2, SMTT(30)
    <3>4. op.gouraud = FALSE => <<read.colors[1]>> = <<ws[1]>>
      BY <1>3
    <3>5. QED
      <4>1. (IF c.op.gouraud THEN SubSeq(read.colors, 1, 3) ELSE <<read.colors[1]>>)
              = Shades(ws, <<1, 2, 3>>)
        BY <1>1, <1>2, <3>2, <3>4 DEF Shades, op
      <4>2. c.op = ws[1].op /\ c.op.textured \in BOOLEAN
        BY <1>1, <1>2 DEF op
      <4> DEFINE which == <<1, 2, 3>>
      <4>3. Named(ws, c, read, which, 1, 3)
        BY <1>2, <3>1, <3>3, <4>1, <4>2 DEF Named
      <4> HIDE DEF which
      <4>4. TriangleCall(c, read, 1) = Triangle(ws, which)
        BY ONLY <4>2, <4>3, SameTriangle
      <4>5. QED
        BY <4>4 DEF which
  <2>3. [i \in 1 .. 1 |-> TriangleCall(c, read, i)] = <<TriangleCall(c, read, 1)>>
    OBVIOUS
  <2>4. QED
    BY <1>19, <2>1, <2>2, <2>3 DEF op, c
<1>20. CASE op.vertices = 4
  <2>1. PolygonCalls(c, p) = [i \in 1 .. 2 |-> TriangleCall(c, read, i)]
    BY <1>2, <1>20 DEF PolygonCalls, read
  <2>2. /\ SubSeq(read.vertices, 1, 3) = Corners(ws, <<1, 2, 3>>)
        /\ SubSeq(read.vertices, 2, 4) = Corners(ws, <<2, 3, 4>>)
    <3>1. p[0] \in Word /\ p[s] \in Word /\ p[2 * s] \in Word /\ p[3 * s] \in Word
      BY <1>3, <1>18, SMTT(30)
    <3>2. /\ SubSeq(<<p[0], p[s], p[2 * s], p[3 * s]>>, 1, 3) = <<p[0], p[s], p[2 * s]>>
          /\ SubSeq(<<p[0], p[s], p[2 * s], p[3 * s]>>, 2, 4) = <<p[s], p[2 * s], p[3 * s]>>
      BY <3>1, PartsOfTuples
    <3>3. QED
      BY <1>3, <1>12, <1>15, <1>20, <3>2
  <2>3. op.gouraud = TRUE => /\ SubSeq(read.colors, 1, 3) = Colors(ws, <<1, 2, 3>>)
                            /\ SubSeq(read.colors, 2, 4) = Colors(ws, <<2, 3, 4>>)
    <3> HAVE op.gouraud = TRUE
    <3>1. p[s - 1] \in Word /\ p[2 * s - 1] \in Word /\ p[3 * s - 1] \in Word
      BY <1>3, <1>18
    <3>2. /\ SubSeq(<<ws[1], p[s - 1], p[2 * s - 1], p[3 * s - 1]>>, 1, 3)
               = <<ws[1], p[s - 1], p[2 * s - 1]>>
          /\ SubSeq(<<ws[1], p[s - 1], p[2 * s - 1], p[3 * s - 1]>>, 2, 4)
               = <<p[s - 1], p[2 * s - 1], p[3 * s - 1]>>
      BY <1>2, <3>1, PartsOfTuples
    <3>3. QED
      BY <1>3, <1>13, <1>16, <1>20, <3>2
  <2>4. op.textured = TRUE => /\ SubSeq(read.uvs, 1, 3) = Uvs(ws, <<1, 2, 3>>)
                             /\ SubSeq(read.uvs, 2, 4) = Uvs(ws, <<2, 3, 4>>)
                             /\ <<read.uvs[1]>> = Uvs(ws, <<1>>)
                             /\ read.uvs[2] = Uvs(ws, <<2>>)[1]
    <3> HAVE op.textured = TRUE
    <3>1. p[1] \in Word /\ p[s + 1] \in Word /\ p[2 * s + 1] \in Word /\ p[3 * s + 1] \in Word
      <4>1. op.gouraud = FALSE \/ op.gouraud = TRUE => 3 * s + 1 \in 0 .. 10
        BY <1>1, <1>3
      <4>2. QED
        BY <1>1, <1>3, <1>18, <4>1
    <3>2. /\ SubSeq(<<p[1], p[s + 1], p[2 * s + 1], p[3 * s + 1]>>, 1, 3)
               = <<p[1], p[s + 1], p[2 * s + 1]>>
          /\ SubSeq(<<p[1], p[s + 1], p[2 * s + 1], p[3 * s + 1]>>, 2, 4)
               = <<p[s + 1], p[2 * s + 1], p[3 * s + 1]>>
      BY <3>1, PartsOfTuples
    <3>3. p[3 * s + 1] = ws[(3 * s + 1) + 2]
      BY <1>3, <1>6, <1>8, <1>20 DEF T
    <3>4. read.uvs = <<p[1], p[s + 1], p[2 * s + 1], p[3 * s + 1]>>
      BY <1>3, <1>20
    <3>5. /\ <<p[1], p[s + 1], p[2 * s + 1]>> = Uvs(ws, <<1, 2, 3>>)
          /\ <<p[s + 1], p[2 * s + 1], p[3 * s + 1]>> = Uvs(ws, <<2, 3, 4>>)
      BY <1>14, <1>17, <1>20, <3>3
    <3>6. /\ <<read.uvs[1]>> = Uvs(ws, <<1>>)
          /\ read.uvs[2] = Uvs(ws, <<2>>)[1]
      BY <1>14, <1>17, <1>20, <3>4
    <3>7. QED
      BY <3>2, <3>4, <3>5, <3>6
  <2>5. op.gouraud = FALSE => <<read.colors[1]>> = <<ws[1]>>
    BY <1>3
  <2>6. TriangleCall(c, read, 1) = Triangle(ws, <<1, 2, 3>>)
    <3>1. (IF c.op.gouraud THEN SubSeq(read.colors, 1, 3) ELSE <<read.colors[1]>>)
            = Shades(ws, <<1, 2, 3>>)
      BY <1>1, <1>2, <2>3, <2>5 DEF Shades, op
    <3>2. c.op = ws[1].op /\ c.op.textured \in BOOLEAN
      BY <1>1, <1>2 DEF op
    <3> DEFINE which == <<1, 2, 3>>
    <3>3. Named(ws, c, read, which, 1, 3)
      BY <1>2, <2>2, <2>4, <3>1, <3>2 DEF Named
    <3> HIDE DEF which
    <3>4. TriangleCall(c, read, 1) = Triangle(ws, which)
      BY ONLY <3>2, <3>3, SameTriangle
    <3>5. QED
      BY <3>4 DEF which
  <2>7. TriangleCall(c, read, 2) = Triangle(ws, <<2, 3, 4>>)
    <3>1. (IF c.op.gouraud THEN SubSeq(read.colors, 2, 4) ELSE <<read.colors[1]>>)
            = Shades(ws, <<2, 3, 4>>)
      BY <1>1, <1>2, <2>3, <2>5 DEF Shades, op
    <3>2. c.op = ws[1].op /\ c.op.textured \in BOOLEAN
      BY <1>1, <1>2 DEF op
    <3> DEFINE which == <<2, 3, 4>>
    <3>3. Named(ws, c, read, which, 2, 4)
      BY <1>2, <2>2, <2>4, <3>1, <3>2 DEF Named
    <3> HIDE DEF which
    <3>4. TriangleCall(c, read, 2) = Triangle(ws, which)
      BY ONLY <3>2, <3>3, SameTriangle
    <3>5. QED
      BY <3>4 DEF which
  <2>8. [i \in 1 .. 2 |-> TriangleCall(c, read, i)]
          = <<TriangleCall(c, read, 1), TriangleCall(c, read, 2)>>
    OBVIOUS
  <2>9. QED
    BY <1>20, <2>1, <2>6, <2>7, <2>8 DEF op, c
<1>21. QED
  BY <1>1, <1>19, <1>20

\* A command whose words are not all there draws nothing, and neither does one that only
\* changes settings.
LEMMA MeaningOfOthers ==
  ASSUME NEW ws \in Seq(Word), ws # <<>>
  PROVE  LET op == ws[1].op
             n == Len(ws)
         IN  /\ op.kind \notin {"Line", "CpuToVram"} /\ n # Length(op) => Meaning(ws) = <<>>
             /\ op.kind \in {"Nop", "Setting"} => Meaning(ws) = <<>>
             /\ op.kind = "CpuToVram" /\ ~Ends(ws) => Meaning(ws) = <<>>
             /\ op.kind = "CpuToVram" /\ Ends(ws) => Meaning(ws) =
                  <<[call |-> "cpu_to_vram_blit", position |-> ws[2], size |-> ws[3],
                     mask |-> settings.mask, data |-> SubSeq(DataOf(ws), 1, ws[3].size)]>>
<1> DEFINE op == ws[1].op
           n == Len(ws)
<1>1. op.kind = "CpuToVram" /\ ~Ends(ws) => Meaning(ws) = <<>>
  BY DEF Meaning
<1>2. op.kind = "CpuToVram" /\ Ends(ws) => Meaning(ws) =
        <<[call |-> "cpu_to_vram_blit", position |-> ws[2], size |-> ws[3],
           mask |-> settings.mask, data |-> SubSeq(DataOf(ws), 1, ws[3].size)]>>
  BY DEF Meaning
<1>3. op.kind \notin {"Line", "CpuToVram"} /\ n # Length(op) => Meaning(ws) = <<>>
  BY DEF Meaning
<1>4. op.kind \in {"Nop", "Setting"} /\ n = Length(op) => Meaning(ws) = <<>>
  BY DEF Meaning
<1>5. QED
  BY <1>1, <1>2, <1>3, <1>4

\* What a command that is complete draws is what its words mean.
LEMMA DrawnAsMeant ==
  ASSUME NEW ws \in Seq(Word), ws # <<>>, Len(ws) = Length(ws[1].op),
         ws[1].op.kind \in {"Fill", "Polygon", "Rectangle", "VramToVram", "VramToCpu"},
         NEW p \in ParameterBuffers, \A i \in 0 .. Len(ws) - 2 : p[i] = ws[i + 2],
         ExecuteDrawCommand([op |-> ws[1].op, color |-> ws[1]], p)
  PROVE  drawn' = Meaning(ws)
<1> DEFINE op == ws[1].op
           n == Len(ws)
           c == [op |-> op, color |-> ws[1]]
<1>1. c.op = op /\ c.color = ws[1] /\ n \in Nat /\ op \in AllCommands
  <2>1. ws[1] \in Word
    OBVIOUS
  <2>2. QED
    BY <2>1 DEF Word
<1>2. \A i \in 0 .. n - 2 : p[i] = ws[i + 2]
  OBVIOUS
<1>3. CASE op.kind = "Fill"
  <2>1. n = 3
    BY <1>3 DEF Length
  <2>2. p[0] = ws[2] /\ p[1] = ws[3]
    BY <1>2, <2>1
  <2>3. drawn' = <<[call |-> "vram_fill", position |-> p[0], size |-> p[1], color |-> c.color]>>
    BY <1>1, <1>3 DEF ExecuteDrawCommand
  <2>4. Meaning(ws) = <<[call |-> "vram_fill", position |-> ws[2], size |-> ws[3],
                         color |-> ws[1]]>>
    BY <1>3 DEF Meaning
  <2>5. QED
    BY <1>1, <2>2, <2>3, <2>4
<1>4. CASE op.kind = "VramToVram"
  <2>1. n = 4
    BY <1>4 DEF Length
  <2>2. p[0] = ws[2] /\ p[1] = ws[3] /\ p[2] = ws[4]
    BY <1>2, <2>1
  <2>3. drawn' = <<[call |-> "vram_to_vram_blit", source |-> p[0], dest |-> p[1],
                    size |-> p[2], mask |-> settings.mask]>>
    BY <1>1, <1>4 DEF ExecuteDrawCommand
  <2>4. Meaning(ws) = <<[call |-> "vram_to_vram_blit", source |-> ws[2], dest |-> ws[3],
                         size |-> ws[4], mask |-> settings.mask]>>
    BY <1>4 DEF Meaning
  <2>5. QED
    BY <2>2, <2>3, <2>4
<1>5. CASE op.kind = "VramToCpu"
  <2>1. n = 3
    BY <1>5 DEF Length
  <2>2. p[0] = ws[2] /\ p[1] = ws[3]
    BY <1>2, <2>1
  <2>3. drawn' = <<[call |-> "vram_to_cpu_blit", position |-> p[0], size |-> p[1]]>>
    BY <1>1, <1>5 DEF ExecuteDrawCommand
  <2>4. Meaning(ws) = <<[call |-> "vram_to_cpu_blit", position |-> ws[2], size |-> ws[3]]>>
    BY <1>5 DEF Meaning
  <2>5. QED
    BY <2>2, <2>3, <2>4
<1>6. CASE op.kind = "Rectangle"
  <2>1. op.textured \in BOOLEAN /\ op.variable \in BOOLEAN
    BY <1>1, <1>6
       DEF AllCommands, LineCommands, PolygonCommands, RectangleCommands, SettingCommands,
           PlainCommands
  <2>2. /\ n = 2 + Flag(op.textured) + Flag(op.variable)
        /\ op.textured = TRUE => Flag(op.textured) = 1
        /\ op.textured = FALSE => Flag(op.textured) = 0
        /\ op.variable = TRUE => Flag(op.variable) = 1
        /\ op.variable = FALSE => Flag(op.variable) = 0
    BY <1>6, <2>1 DEF Length, Flag
  <2>3. p[0] = ws[2]
    BY <1>2, <2>1, <2>2
  <2>4. op.textured = TRUE => p[1] = ws[3]
    BY <1>2, <2>1, <2>2
  <2>5. op.variable = TRUE => p[1 + Flag(op.textured)] = ws[n]
    <3>1. CASE op.textured = TRUE /\ op.variable = TRUE
      BY <1>2, <2>2, <3>1
    <3>2. CASE op.textured = FALSE /\ op.variable = TRUE
      BY <1>2, <2>2, <3>2
    <3>3. QED
      BY <2>1, <3>1, <3>2
  <2>6. drawn' = <<RectangleCall(c, p)>>
    BY <1>1, <1>6 DEF ExecuteDrawCommand
  <2> DEFINE call == [call |-> "draw_rectangle", top_left |-> ws[2], color |-> ws[1],
                      texture |-> IF op.textured
                                  THEN <<ws[3], settings.flips, settings.window>> ELSE <<>>,
                      page |-> settings.page,
                      size |-> IF op.variable THEN <<ws[n]>> ELSE <<>>]
  <2>7. Meaning(ws) = <<call>>
    BY <1>6 DEF Meaning
  <2>8. RectangleCall(c, p) = call
    <3>1. (IF op.textured THEN <<p[1], settings.flips, settings.window>> ELSE <<>>)
            = IF op.textured THEN <<ws[3], settings.flips, settings.window>> ELSE <<>>
      BY <2>1, <2>4
    <3>2. (IF op.variable THEN <<p[1 + Flag(op.textured)]>> ELSE <<>>)
            = IF op.variable THEN <<ws[n]>> ELSE <<>>
      BY <2>1, <2>5
    <3>3. QED
      BY <1>1, <2>3, <3>1, <3>2 DEF RectangleCall
  <2>9. QED
    BY <2>6, <2>7, <2>8
<1>7. CASE op.kind = "Polygon"
  <2>1. op \in PolygonCommands
    BY <1>1, <1>7 DEF AllCommands, LineCommands, RectangleCommands, SettingCommands, PlainCommands
  <2>2. drawn' = PolygonCalls(c, p)
    BY <1>1, <1>7 DEF ExecuteDrawCommand
  <2>3. PolygonCalls(c, p) = IF op.vertices = 3 THEN <<Triangle(ws, <<1, 2, 3>>)>>
                             ELSE <<Triangle(ws, <<1, 2, 3>>), Triangle(ws, <<2, 3, 4>>)>>
    BY <2>1, PolygonDrawn
  <2>4. Meaning(ws) = IF op.vertices = 3 THEN <<Triangle(ws, <<1, 2, 3>>)>>
                      ELSE <<Triangle(ws, <<1, 2, 3>>), Triangle(ws, <<2, 3, 4>>)>>
    BY <1>7 DEF Meaning, Triangle, Shades
  <2>5. QED
    BY <2>2, <2>3, <2>4
<1>8. QED
  BY <1>3, <1>4, <1>5, <1>6, <1>7
-----------------------------------------------------------------------------
(* What a word does to what the processor has kept. *)

\* The words of a command with one more.
LEMMA OneMoreWord ==
  ASSUME received \in Seq(Word), NEW w \in Word
  PROVE  LET ws == Append(received, w)
             n == Len(received)
         IN  /\ ws \in Seq(Word) /\ ws # <<>> /\ Len(ws) = n + 1 /\ n \in Nat
             /\ \A i \in 1 .. n : ws[i] = received[i]
             /\ ws[n + 1] = w
             /\ received # <<>> => n >= 1 /\ ws[1] = received[1]
             /\ received = <<>> => n = 0 /\ ws[1] = w
OBVIOUS

\* The kinds of commands.
LEMMA KindsOfCommands ==
  ASSUME NEW op \in AllCommands
  PROVE  /\ op.kind \in {"Line", "Polygon", "Rectangle", "Setting", "Nop", "Fill", "VramToVram",
                         "CpuToVram", "VramToCpu"}
         /\ op.kind = "Line" => /\ op \in LineCommands
                                /\ op.polyline \in BOOLEAN /\ op.gouraud \in BOOLEAN
BY DEF AllCommands, LineCommands, PolygonCommands, RectangleCommands, SettingCommands,
       PlainCommands

\* The call a line makes, and what it leaves behind.
LEMMA LineIsDrawn ==
  ASSUME NEW c \in [op: LineCommands, color: Word], NEW p \in ParameterBuffers, DrawLine(c, p)
  PROVE  /\ drawn' = <<[call |-> "draw_line", vertices |-> <<p[0], p[Stride(c.op)]>>,
                        colors |-> IF c.op.gouraud THEN <<c.color, p[1]>> ELSE <<c.color>>,
                        page |-> settings.page]>>
         /\ c.op.polyline = FALSE => command_state' = Waiting
         /\ c.op.polyline = TRUE =>
              /\ command_state'.state = "WaitingForPolyline"
              /\ command_state'.command.op = c.op
              /\ command_state'.command.color = IF c.op.gouraud THEN p[1] ELSE c.color
              /\ parameters'[0] = p[Stride(c.op)]
<1> DEFINE call == LineCall(c, p)
<1>1. /\ c.op \in LineCommands /\ c.op \in AllCommands /\ c.op.kind = "Line"
      /\ c.op.gouraud \in BOOLEAN /\ c.op.polyline \in BOOLEAN
  BY DEF LineCommands, AllCommands
<1>2. /\ c.op.gouraud = TRUE => Stride(c.op) = 2
      /\ c.op.gouraud = FALSE => Stride(c.op) = 1
  BY <1>1, LengthsOfCommands
<1>3. call = [call |-> "draw_line", vertices |-> <<p[0], p[Stride(c.op)]>>,
              colors |-> IF c.op.gouraud THEN <<c.color, p[1]>> ELSE <<c.color>>,
              page |-> settings.page]
  <2>1. CASE c.op.gouraud = TRUE
    BY <1>2, <2>1 DEF LineCall
  <2>2. CASE c.op.gouraud = FALSE
    BY <1>2, <2>2 DEF LineCall
  <2>3. QED
    BY <1>1, <2>1, <2>2
<1>4. /\ call.vertices[2] = p[Stride(c.op)]
      /\ call.colors[Len(call.colors)] = IF c.op.gouraud THEN p[1] ELSE c.color
  <2>1. CASE c.op.gouraud = TRUE
    BY <1>2, <2>1 DEF LineCall
  <2>2. CASE c.op.gouraud = FALSE
    BY <1>2, <2>2 DEF LineCall
  <2>3. QED
    BY <1>1, <2>1, <2>2
<1>5. /\ drawn' = <<call>>
      /\ parameters' = IF c.op.polyline THEN [p EXCEPT ![0] = call.vertices[2]] ELSE p
      /\ command_state' = IF c.op.polyline
                          THEN Polyline([c EXCEPT !.color = call.colors[Len(call.colors)]])
                          ELSE Waiting
  BY DEF DrawLine
<1> HIDE DEF call
<1>6. c.op.polyline = TRUE =>
        /\ command_state'.state = "WaitingForPolyline"
        /\ command_state'.command.op = c.op
        /\ command_state'.command.color = IF c.op.gouraud THEN p[1] ELSE c.color
  BY <1>4, <1>5 DEF Polyline
<1>7. c.op.polyline = TRUE => parameters'[0] = p[Stride(c.op)]
  BY <1>4, <1>5 DEF ParameterBuffers, PARAMETERS_LEN
<1>8. QED
  BY <1>3, <1>5, <1>6, <1>7

\* The first word of a command.
LEMMA FirstWord ==
  ASSUME TypeOK, Idle, NEW w \in Word, WriteGp0(w)
  PROVE  Follows' /\ drawn' = Meaning(Append(received, w))
<1> DEFINE ws == Append(received, w)
           op == w.op
<1>1. /\ ws \in Seq(Word) /\ ws # <<>> /\ Len(ws) = 1 /\ ws[1] = w /\ ws[1].op = op
  BY OneMoreWord DEF TypeOK, Idle
<1>2. op \in AllCommands
  BY DEF Word
<1>3. NewCommand(w)
  BY DEF Idle, WriteGp0, Parameter, PolylineWord, ReceiveVramWord, In
<1>4. /\ received' = IF Ends(ws) THEN <<>> ELSE ws
      /\ returned' = 0
  BY DEF WriteGp0
<1>5. drawn' = <<>>
  BY <1>3 DEF NewCommand
<1>6. Length(op) = WordCount(op) + 1 /\ Length(op) \in 1 .. 12 /\ WordCount(op) \in Nat
  BY <1>2, LengthsOfCommands, ParametersFit DEF PARAMETERS_LEN
<1> HIDE DEF ws, op
<1>7. CASE WordCount(op) = 0
  <2>1. op.kind \in {"Nop", "Setting"}
    <3>1. CASE op \in PolygonCommands
      <4>1. /\ op.kind = "Polygon" /\ op.vertices \in {3, 4}
            /\ Flag(op.textured) \in {0, 1} /\ Flag(op.gouraud) \in {0, 1}
        BY <3>1 DEF PolygonCommands, Flag
      <4>2. op.vertices * (1 + Flag(op.textured)) >= 3 /\ (op.vertices - 1) * Flag(op.gouraud) >= 0
        BY <4>1
      <4>3. QED
        BY <1>7, <4>1, <4>2 DEF WordCount
    <3>2. CASE op \notin PolygonCommands
      BY <1>2, <1>7, <3>2
         DEF AllCommands, LineCommands, RectangleCommands, SettingCommands, PlainCommands,
             WordCount, Flag
    <3>3. QED
      BY <3>1, <3>2
  <2>2. Ends(ws)
    <3>1. Len(ws) = Length(ws[1].op) /\ ws[1].op.kind \notin {"Line", "CpuToVram", "VramToCpu"}
      BY <1>1, <1>6, <1>7, <2>1
    <3>2. QED
      BY ONLY <1>1, <3>1, EndsOfCommands
  <2>3. Meaning(ws) = <<>>
    BY <1>1, <2>1, MeaningOfOthers
  <2>4. command_state' = Waiting
    BY <1>3, <1>7 DEF NewCommand, op
  <2>5. Idle'
    BY <1>4, <2>2, <2>4 DEF Idle, In, Waiting
  <2>6. QED
    BY <1>5, <2>3, <2>5 DEF Follows, ws
<1>8. CASE WordCount(op) > 0
  <2>0. Len(ws) < Length(ws[1].op)
    BY <1>1, <1>6, <1>8
  <2>1. ~Ends(ws)
    BY ONLY <1>1, <2>0, EndsOfCommands
  <2>2. Meaning(ws) = <<>>
    <3>1. CASE op.kind = "Line"
      BY <1>1, <2>0, <3>1, MeaningOfLines
    <3>2. CASE op.kind = "CpuToVram"
      BY <1>1, <2>1, <3>2, MeaningOfOthers
    <3>3. CASE op.kind \notin {"Line", "CpuToVram"}
      <4>1. Len(ws) # Length(ws[1].op) /\ ws[1].op.kind \notin {"Line", "CpuToVram"}
        BY <1>1, <1>6, <1>8, <3>3
      <4>2. QED
        BY ONLY <1>1, <4>1, MeaningOfOthers
    <3>4. QED
      BY <3>1, <3>2, <3>3
  <2>3. command_state' = Parameters([op |-> op, color |-> w], 0, WordCount(op))
    BY <1>3, <1>8 DEF NewCommand, op
  <2>4. received' = ws
    BY <1>4, <2>1
  <2>5. Collecting'
    <3>1. received' # <<>> /\ Len(received') = 1 /\ received'[1] = w /\ Op' = op
      BY <1>1, <2>4 DEF Op
    <3>2. /\ command_state'.state = "WaitingForParameters"
          /\ command_state'.command = [op |-> op, color |-> w]
          /\ command_state'.index = 0
          /\ command_state'.remaining = WordCount(op)
      BY <2>3 DEF Parameters
    <3>3. QED
      BY <1>6, <1>8, <3>1, <3>2 DEF Collecting, In
  <2>6. QED
    BY <1>5, <2>2, <2>5 DEF Follows, ws
<1>9. QED
  BY <1>6, <1>7, <1>8

\* A word that is not the last a command lacks.
LEMMA ParameterKept ==
  ASSUME TypeOK, Collecting, NEW w \in Word, WriteGp0(w), command_state.remaining # 1
  PROVE  Follows' /\ drawn' = Meaning(Append(received, w))
<1> DEFINE ws == Append(received, w)
           n == Len(received)
           s == command_state
<1>1. /\ ws \in Seq(Word) /\ ws # <<>> /\ Len(ws) = n + 1 /\ n \in Nat /\ n >= 1
      /\ \A i \in 1 .. n : ws[i] = received[i]
      /\ ws[n + 1] = w
      /\ ws[1] = received[1] /\ ws[1].op = Op
  BY OneMoreWord DEF TypeOK, Collecting, Op
<1>2. /\ s.state = "WaitingForParameters"
      /\ s.command = [op |-> Op, color |-> received[1]]
      /\ s.index = n - 1
      /\ s.remaining = Length(Op) - n
      /\ n < Length(Op)
      /\ \A i \in 0 .. n - 2 : parameters[i] = received[i + 2]
  BY DEF Collecting, In
<1>3. Op \in AllCommands /\ Length(Op) \in 1 .. 12
  <2>1. received[1] \in Word
    BY <1>1 DEF TypeOK
  <2>2. Op \in AllCommands
    BY <2>1 DEF Word, Op
  <2>3. QED
    BY <2>2, LengthsOfCommands
<1>4. Parameter(w)
  BY <1>2 DEF WriteGp0, NewCommand, PolylineWord, ReceiveVramWord, In
<1>5. /\ parameters' = [parameters EXCEPT ![n - 1] = w]
      /\ command_state' = Parameters(s.command, (n - 1) + 1, s.remaining - 1)
      /\ drawn' = <<>>
  BY <1>2, <1>4 DEF Parameter
<1>6. Len(ws) < Length(ws[1].op)
  <2> HIDE DEF ws, n, s
  <2> QED
    BY <1>1, <1>2, <1>3 DEF s
<1>7. ~Ends(ws)
  BY ONLY <1>1, <1>6, EndsOfCommands
<1>8. received' = ws
  BY <1>7 DEF WriteGp0
<1> HIDE DEF ws
<1>9. Meaning(ws) = <<>>
  <2>1. CASE ws[1].op.kind = "Line"
    BY ONLY <1>1, <1>6, <2>1, MeaningOfLines
  <2>2. CASE ws[1].op.kind = "CpuToVram"
    BY ONLY <1>1, <1>7, <2>2, MeaningOfOthers
  <2>3. CASE ws[1].op.kind \notin {"Line", "CpuToVram"}
    <3>1. Len(ws) # Length(ws[1].op)
      BY <1>1, <1>3, <1>6
    <3>2. QED
      BY ONLY <1>1, <2>3, <3>1, MeaningOfOthers
  <2>4. QED
    BY <2>1, <2>2, <2>3
<1>10. Collecting'
  <2>1. received' # <<>> /\ Len(received') < Length(Op') /\ Op' = Op
    BY <1>1, <1>6, <1>8 DEF Op
  <2>2. /\ command_state'.state = "WaitingForParameters"
        /\ command_state'.command = [op |-> Op', color |-> received'[1]]
        /\ command_state'.index = Len(received') - 1
        /\ command_state'.remaining = Length(Op') - Len(received')
    BY <1>1, <1>2, <1>3, <1>5, <1>8, <2>1, SMTT(30) DEF Parameters
  <2>3. \A i \in 0 .. Len(received') - 2 : parameters'[i] = received'[i + 2]
    <3>1. n - 1 \in 0 .. PARAMETERS_LEN - 1
      <4>1. n \in Nat /\ n >= 1 /\ n < Length(Op) /\ Length(Op) \in 1 .. 12
        BY <1>1, <1>2, <1>3
      <4> HIDE DEF n
      <4>2. QED
        BY <4>1 DEF PARAMETERS_LEN
    <3>2. \A i \in 0 .. PARAMETERS_LEN - 1 :
            parameters'[i] = IF i = n - 1 THEN w ELSE parameters[i]
      BY <1>5 DEF TypeOK
    <3>3. SUFFICES ASSUME NEW i \in 0 .. n - 1
                   PROVE  parameters'[i] = ws[i + 2]
      BY <1>1, <1>8
    <3>4. CASE i = n - 1
      BY <1>1, <3>1, <3>2, <3>4
    <3>5. CASE i # n - 1
      <4>1. i \in 0 .. PARAMETERS_LEN - 1 /\ i \in 0 .. n - 2 /\ i + 2 \in 1 .. n
        BY <1>1, <3>1, <3>5, SMTT(30) DEF PARAMETERS_LEN
      <4>2. QED
        BY <1>1, <1>2, <3>2, <3>5, <4>1
    <3>6. QED
      BY <3>4, <3>5
  <2>4. QED
    BY <2>1, <2>2, <2>3 DEF Collecting, In
<1>11. QED
  BY <1>5, <1>9, <1>10 DEF Follows, ws

\* The last word a command lacks: the command is executed, with its words in the buffer.
LEMMA LastParameter ==
  ASSUME TypeOK, Collecting, NEW w \in Word, WriteGp0(w), command_state.remaining = 1
  PROVE  Follows' /\ drawn' = Meaning(Append(received, w))
<1> DEFINE ws == Append(received, w)
           n == Len(received)
           op == Op
           c == [op |-> op, color |-> ws[1]]
           p == [parameters EXCEPT ![n - 1] = w]
<1>1. /\ ws \in Seq(Word) /\ ws # <<>> /\ Len(ws) = n + 1 /\ n \in Nat /\ n >= 1
      /\ \A i \in 1 .. n : ws[i] = received[i]
      /\ ws[n + 1] = w
      /\ ws[1] = received[1] /\ ws[1].op = op
  BY OneMoreWord DEF TypeOK, Collecting, Op
<1>2. /\ command_state.state = "WaitingForParameters"
      /\ command_state.command = c
      /\ command_state.index = n - 1
      /\ n < Length(op) /\ Length(op) - n = 1
      /\ \A i \in 0 .. n - 2 : parameters[i] = received[i + 2]
  BY <1>1 DEF Collecting, In
<1>3. op \in AllCommands /\ Length(op) \in 1 .. 12 /\ Length(op) = n + 1
  <2>1. ws[1] \in Word
    BY <1>1
  <2>2. op \in AllCommands
    BY <1>1, <2>1 DEF Word
  <2>3. Length(op) \in 1 .. 12
    BY <2>2, LengthsOfCommands
  <2> HIDE DEF op, n
  <2>4. QED
    BY <1>1, <1>2, <2>2, <2>3, SMTT(30)
<1>4. Parameter(w)
  BY <1>2 DEF WriteGp0, NewCommand, PolylineWord, ReceiveVramWord, In
<1>5. ExecuteDrawCommand(c, p)
  BY <1>2, <1>4 DEF Parameter
<1>6. /\ received' = IF Ends(ws) THEN <<>> ELSE ws
      /\ returned' = 0
  BY DEF WriteGp0
<1> HIDE DEF ws, op
<1>7. n - 1 \in 0 .. PARAMETERS_LEN - 1
  <2> HIDE DEF n
  <2> QED
    BY <1>1, <1>3 DEF PARAMETERS_LEN
<1>8. /\ p \in ParameterBuffers
      /\ p[n - 1] = w
      /\ \A i \in 0 .. PARAMETERS_LEN - 1 : i # n - 1 => p[i] = parameters[i]
  <2> HIDE DEF n
  <2> QED
    BY <1>7 DEF TypeOK, ParameterBuffers
<1>9. Len(ws) = Length(ws[1].op) /\ \A i \in 0 .. Len(ws) - 2 : p[i] = ws[i + 2]
  <2> HIDE DEF p, n
  <2>1. Len(ws) = Length(ws[1].op) /\ Len(ws) - 2 = n - 1
    BY <1>1, <1>3
  <2>2. SUFFICES ASSUME NEW i \in 0 .. n - 1
                 PROVE  p[i] = ws[i + 2]
    BY <2>1
  <2>3. CASE i = n - 1
    BY <1>1, <1>8, <2>3
  <2>4. CASE i # n - 1
    <3>1. i \in 0 .. PARAMETERS_LEN - 1 /\ i \in 0 .. n - 2 /\ i + 2 \in 1 .. n
      BY <1>1, <1>7, <2>4 DEF PARAMETERS_LEN
    <3>2. p[i] = parameters[i] /\ parameters[i] = received[i + 2] /\ ws[i + 2] = received[i + 2]
      BY <1>1, <1>2, <1>8, <2>4, <3>1
    <3>3. QED
      BY <3>2
  <2>5. QED
    BY <2>3, <2>4
<1>10. \A i \in 0 .. 10 : p[i] \in Word
  BY <1>8 DEF ParameterBuffers, PARAMETERS_LEN
<1>11. c \in Command /\ c.op = op /\ c.color = ws[1] /\ op.kind = ws[1].op.kind
  <2>1. ws[1] \in Word
    BY <1>1
  <2>2. QED
    BY <1>1, <1>3, <2>1 DEF Command
<1> HIDE DEF p, n
<1>12. CASE op.kind = "Line"
  <2>1. /\ op \in LineCommands /\ op.polyline \in BOOLEAN /\ op.gouraud \in BOOLEAN
        /\ c \in [op: LineCommands, color: Word]
    BY <1>3, <1>11, <1>12, KindsOfCommands DEF Command
  <2>2. /\ Stride(op) \in {1, 2} /\ Length(op) = 2 + Stride(op)
        /\ op.gouraud = TRUE => Stride(op) = 2
        /\ op.gouraud = FALSE => Stride(op) = 1
    BY <1>3, <1>12, <2>1, LengthsOfCommands
  <2>3. Len(ws) = 2 + Stride(op)
    BY <1>1, <1>9, <2>2
  <2>4. DrawLine(c, p)
    BY <1>5, <1>11, <1>12 DEF ExecuteDrawCommand
  <2> HIDE DEF c
  <2>5. /\ drawn' = <<[call |-> "draw_line", vertices |-> <<p[0], p[Stride(op)]>>,
                       colors |-> IF op.gouraud THEN <<ws[1], p[1]>> ELSE <<ws[1]>>,
                       page |-> settings.page]>>
        /\ op.polyline = FALSE => command_state' = Waiting
        /\ op.polyline = TRUE =>
             /\ command_state'.state = "WaitingForPolyline"
             /\ command_state'.command.op = op
             /\ command_state'.command.color = IF op.gouraud THEN p[1] ELSE ws[1]
             /\ parameters'[0] = p[Stride(op)]
    BY <1>8, <1>11, <2>1, <2>4, LineIsDrawn
  <2>6. /\ p[0] = ws[2]
        /\ p[Stride(op)] = ws[Len(ws)]
        /\ op.gouraud = TRUE => p[1] = ws[Len(ws) - 1]
        /\ Len(ws) - Stride(op) = 2 /\ Len(ws) - Stride(op) - 1 = 1
    <3>1. \A i \in 0 .. Len(ws) - 2 : p[i] = ws[i + 2]
      BY <1>9
    <3>2. CASE Stride(op) = 1
      <4>1. Len(ws) = 3 /\ p[0] = ws[2] /\ p[1] = ws[3]
        BY <2>3, <3>1, <3>2
      <4>2. QED
        BY <2>2, <3>2, <4>1
    <3>3. CASE Stride(op) = 2
      <4>1. Len(ws) = 4 /\ p[0] = ws[2] /\ p[1] = ws[3] /\ p[2] = ws[4]
        BY <2>3, <3>1, <3>3
      <4>2. QED
        BY <3>3, <4>1
    <3>4. QED
      BY <2>2, <3>2, <3>3
  <2>7. op.polyline = TRUE => ~Ends(ws)
    <3>1. ~(Len(ws) > Length(ws[1].op))
      BY <1>3, <1>9, <1>1
    <3>2. QED
      BY <1>1, <1>11, <1>12, <3>1, EndsOfCommands
  <2>8. op.polyline = FALSE => Ends(ws)
    BY <1>1, <1>9, <1>11, <1>12, EndsOfCommands
  <2>9. (Len(ws) - Length(op)) % Stride(op) = 0 /\ Len(ws) >= Length(op)
    BY <2>2, <2>3
  <2>10. Meaning(ws) = <<LastSegment(ws)>>
    BY <1>1, <1>12, <2>1, <2>7, <2>9, MeaningOfLines
  <2>11. LastSegment(ws) =
           [call |-> "draw_line", vertices |-> <<ws[2], ws[Len(ws)]>>,
            colors |-> IF op.gouraud THEN <<ws[1], ws[Len(ws) - 1]>> ELSE <<ws[1]>>,
            page |-> settings.page]
    BY <1>1, <2>6 DEF LastSegment
  <2>12. drawn' = Meaning(ws)
    <3>1. CASE op.gouraud = TRUE
      BY <2>5, <2>6, <2>10, <2>11, <3>1
    <3>2. CASE op.gouraud = FALSE
      BY <2>5, <2>6, <2>10, <2>11, <3>2
    <3>3. QED
      BY <2>1, <3>1, <3>2
  <2>13. CASE op.polyline = TRUE
    <3>1. received' = ws /\ Op' = op
      BY <1>1, <1>6, <2>7, <2>13 DEF Op
    <3>2. /\ command_state'.state = "WaitingForPolyline"
          /\ command_state'.command.op = op
          /\ command_state'.command.color = IF op.gouraud THEN ws[Len(ws) - 1] ELSE ws[1]
          /\ parameters'[0] = ws[Len(ws)]
      BY <2>1, <2>5, <2>6, <2>13
    <3>3. Continuing'
      BY <1>1, <2>1, <2>9, <2>13, <3>1, <3>2 DEF Continuing, In
    <3>4. QED
      BY <2>12, <3>3 DEF Follows, ws
  <2>14. CASE op.polyline = FALSE
    <3>1. Idle'
      BY <1>6, <2>5, <2>8, <2>14 DEF Idle, In, Waiting
    <3>2. QED
      BY <2>12, <3>1 DEF Follows, ws
  <2>15. QED
    BY <2>1, <2>13, <2>14
<1>13. CASE op.kind = "CpuToVram"
  <2>1. Length(op) = 3 /\ Len(ws) = 3
    BY <1>1, <1>3, <1>13 DEF Length
  <2>2. p[0] = ws[2] /\ p[1] = ws[3] /\ p[0] \in Word /\ p[1] \in Word
    BY <1>9, <1>10, <2>1
  <2>3. p[1].size \in Nat \ {0}
    BY <2>2 DEF Word
  <2>4. ~Ends(ws)
    <3>1. /\ ws[1].op.kind = "CpuToVram" /\ Len(ws) >= 3
          /\ ~(2 * (Len(ws) - 3) >= ws[3].size)
      BY <1>11, <1>13, <2>1, <2>2, <2>3
    <3>2. QED
      BY ONLY <1>1, <3>1, EndsOfCommands
  <2>5. received' = ws /\ Op' = op
    BY <1>1, <1>6, <2>4 DEF Op
  <2>6. /\ blit_buffer' = <<>>
        /\ command_state' = Receiving(p[0], p[1], p[1].size)
        /\ drawn' = <<>>
    BY <1>5, <1>11, <1>13 DEF ExecuteDrawCommand
  <2>7. Meaning(ws) = <<>>
    BY <1>1, <1>11, <1>13, <2>4, MeaningOfOthers
  <2>8. DataOf(ws) = <<>>
    <3>1. DataOf(ws) = [i \in 1 .. 0 |-> Halves(ws[3 + ((i + 1) \div 2)])[IF i % 2 = 1 THEN 1 ELSE 2]]
      BY <2>1 DEF DataOf
    <3>2. QED
      BY <3>1
  <2>9. FillingVram'
    <3>1. received' # <<>> /\ Len(received') >= Length(Op') /\ Op'.kind = "CpuToVram"
      <4>1. received' # <<>> /\ Len(received') = 3
        BY <1>1, <2>1, <2>5
      <4>2. Length(Op') = Length(op) /\ Op'.kind = op.kind
        BY <2>5
      <4>3. QED
        BY <1>13, <2>1, <4>1, <4>2
    <3>2. /\ command_state'.state = "ReceivingFromCpu"
          /\ command_state'.position = ws[2] /\ command_state'.size = ws[3]
          /\ command_state'.remaining = ws[3].size
      BY <2>2, <2>6 DEF Receiving
    <3>3. ws[3].size - 2 * (Len(received') - 3) = ws[3].size
      <4>1. Len(received') = 3 /\ ws[3].size \in Nat
        BY <2>1, <2>2, <2>3, <2>5
      <4>2. QED
        BY ONLY <4>1
    <3>4. QED
      BY <2>5, <2>6, <2>8, <3>1, <3>2, <3>3 DEF FillingVram, In
  <2>10. QED
    BY <2>6, <2>7, <2>9 DEF Follows, ws
<1>14. CASE op.kind = "VramToCpu"
  <2>1. Length(op) = 3 /\ Len(ws) = 3
    BY <1>1, <1>3, <1>14 DEF Length
  <2>2. p[1] = ws[3] /\ p[1] \in Word
    BY <1>9, <1>10, <2>1
  <2>3. p[1].size \in Nat \ {0}
    BY <2>2 DEF Word
  <2>4. ~Ends(ws)
    BY <1>1, <1>11, <1>14, EndsOfCommands
  <2>5. received' = ws /\ Op' = op
    BY <1>1, <1>6, <2>4 DEF Op
  <2>6. /\ blit_buffer' = Fetched(p[1].size)
        /\ command_state' = Sending(0, p[1].size)
    BY <1>5, <1>11, <1>14 DEF ExecuteDrawCommand
  <2>7. drawn' = Meaning(ws)
    BY <1>1, <1>5, <1>8, <1>9, <1>14, DrawnAsMeant
  <2>8. OfferingVram'
    <3>1. received' # <<>> /\ Len(received') = 3 /\ Op'.kind = "VramToCpu"
      BY <1>1, <1>14, <2>1, <2>5
    <3>2. /\ command_state'.state = "SendingToCpu"
          /\ command_state'.buffer_idx = returned'
          /\ command_state'.remaining = received'[3].size - returned'
      BY <1>6, <2>2, <2>3, <2>5, <2>6 DEF Sending
    <3>3. blit_buffer' = Fetched(received'[3].size)
      BY <2>2, <2>5, <2>6
    <3>4. QED
      BY <3>1, <3>2, <3>3 DEF OfferingVram, In, Fetched
  <2>9. QED
    BY <2>7, <2>8 DEF Follows, ws
<1>15. CASE op.kind \notin {"Line", "CpuToVram", "VramToCpu"}
  <2>1. op.kind \in {"Fill", "Polygon", "Rectangle", "VramToVram"}
    <3>1. op.kind \in {"Nop", "Setting"} => Length(op) = 1
      BY DEF Length
    <3>2. Length(op) >= 2
      BY <1>1, <1>3
    <3>3. op.kind \notin {"Nop", "Setting"}
      BY <3>1, <3>2
    <3>4. QED
      BY <1>3, <1>15, <3>3, KindsOfCommands
  <2>2. Ends(ws)
    BY <1>1, <1>9, <1>11, <1>15, EndsOfCommands
  <2>3. command_state' = Waiting
    BY <1>5, <1>11, <1>15 DEF ExecuteDrawCommand
  <2>4. drawn' = Meaning(ws)
    BY <1>1, <1>5, <1>8, <1>9, <2>1, DrawnAsMeant
  <2>5. Idle'
    BY <1>6, <2>2, <2>3 DEF Idle, In, Waiting
  <2>6. QED
    BY <2>4, <2>5 DEF Follows, ws
<1>16. QED
  BY <1>12, <1>13, <1>14, <1>15

\* The words of a polyline that goes on: what is known of the next one.
LEMMA PolylineWords ==
  ASSUME TypeOK, Continuing, NEW w \in Word
  PROVE  LET ws == Append(received, w)
             n == Len(received)
         IN  /\ ws \in Seq(Word) /\ ws # <<>> /\ Len(ws) = n + 1 /\ n \in Nat
             /\ \A i \in 1 .. n : ws[i] = received[i]
             /\ ws[Len(ws)] = w
             /\ ws[1] = received[1] /\ ws[1].op = Op /\ Op.kind = "Line"
             /\ Op \in LineCommands /\ Op.polyline = TRUE /\ Op.gouraud \in BOOLEAN
             /\ Op.gouraud = TRUE => Stride(Op) = 2 /\ Length(Op) = 4
             /\ Op.gouraud = FALSE => Stride(Op) = 1 /\ Length(Op) = 3
             /\ n >= Length(Op)
             /\ Ends(ws) <=> (n - Length(Op)) % Stride(Op) = 0 /\ w.end
<1> DEFINE ws == Append(received, w)
           n == Len(received)
<1>1. /\ ws \in Seq(Word) /\ ws # <<>> /\ Len(ws) = n + 1 /\ n \in Nat
      /\ \A i \in 1 .. n : ws[i] = received[i]
      /\ ws[n + 1] = w
      /\ ws[1] = received[1] /\ ws[1].op = Op
  BY OneMoreWord DEF TypeOK, Continuing, Op
<1>2. /\ Op \in LineCommands /\ Op \in AllCommands /\ Op.kind = "Line" /\ Op.polyline = TRUE
      /\ Op.gouraud \in BOOLEAN
      /\ n >= Length(Op)
  BY DEF Continuing, LineCommands, AllCommands
<1>3. /\ Op.gouraud = TRUE => Stride(Op) = 2 /\ Length(Op) = 4
      /\ Op.gouraud = FALSE => Stride(Op) = 1 /\ Length(Op) = 3
  BY <1>2, LengthsOfCommands
<1> HIDE DEF ws, n
<1>4. Ends(ws) <=> /\ Len(ws) > Length(ws[1].op)
                   /\ (Len(ws) - Length(ws[1].op) - 1) % Stride(ws[1].op) = 0
                   /\ ws[Len(ws)].end
  <2>1. ws[1].op.kind = "Line" /\ ws[1].op.polyline = TRUE
    BY <1>1, <1>2
  <2>2. QED
    BY ONLY <1>1, <2>1, EndsOfCommands
<1>5. /\ Len(ws) > Length(Op)
      /\ Len(ws) - Length(Op) - 1 = n - Length(Op)
      /\ ws[Len(ws)] = w
  BY <1>1, <1>2, <1>3
<1>6. Ends(ws) <=> (n - Length(Op)) % Stride(Op) = 0 /\ w.end
  BY <1>1, <1>4, <1>5
<1>7. QED
  BY <1>1, <1>2, <1>3, <1>5, <1>6 DEF ws, n

\* Where a vertex or its colour may begin: the polyline ends, or goes on.
LEMMA PolylineBegins ==
  ASSUME TypeOK, Continuing, NEW w \in Word, WriteGp0(w), In("WaitingForPolyline")
  PROVE  Follows' /\ drawn' = Meaning(Append(received, w))
<1> DEFINE ws == Append(received, w)
           n == Len(received)
           op == Op
           c == command_state.command
           p == [parameters EXCEPT ![1] = w]
<1>1. /\ ws \in Seq(Word) /\ ws # <<>> /\ Len(ws) = n + 1 /\ n \in Nat
      /\ \A i \in 1 .. n : ws[i] = received[i]
      /\ ws[Len(ws)] = w
      /\ ws[1] = received[1] /\ ws[1].op = op /\ op.kind = "Line"
      /\ op \in LineCommands /\ op.polyline = TRUE /\ op.gouraud \in BOOLEAN
      /\ op.gouraud = TRUE => Stride(op) = 2 /\ Length(op) = 4
      /\ op.gouraud = FALSE => Stride(op) = 1 /\ Length(op) = 3
      /\ n >= Length(op)
      /\ Ends(ws) <=> (n - Length(op)) % Stride(op) = 0 /\ w.end
  BY PolylineWords
<1>2. /\ c.op = op
      /\ (n - Length(op)) % Stride(op) = 0
      /\ parameters[0] = received[n]
      /\ c.color = IF op.gouraud THEN received[n - 1] ELSE received[1]
  BY DEF Continuing, In
<1>3. c \in [op: LineCommands, color: Word]
  BY FieldsOfStates DEF TypeOK, In
<1>4. PolylineWord(w)
  BY DEF WriteGp0, NewCommand, Parameter, ReceiveVramWord, In
<1>5. /\ received' = IF Ends(ws) THEN <<>> ELSE ws
      /\ returned' = 0
  BY DEF WriteGp0
<1>6. /\ p \in ParameterBuffers
      /\ p[0] = parameters[0] /\ p[1] = w
  BY DEF TypeOK, ParameterBuffers, PARAMETERS_LEN
<1>7. w.end \in BOOLEAN
  BY DEF Word
<1>8. CASE w.end = TRUE
  <2>1. command_state' = Waiting /\ drawn' = <<>>
    BY <1>4, <1>8 DEF PolylineWord
  <2>2. Ends(ws)
    BY <1>1, <1>2, <1>8
  <2>3. Meaning(ws) = <<>>
    <3> HIDE DEF ws
    <3> QED
      BY <1>1, <2>2, MeaningOfLines
  <2>4. Idle'
    BY <1>5, <2>1, <2>2 DEF Idle, In, Waiting
  <2>5. QED
    BY <2>1, <2>3, <2>4 DEF Follows
<1>9. CASE w.end = FALSE /\ op.gouraud = TRUE
  <2>1. /\ parameters' = p
        /\ command_state' = Parameters(c, 2, 1)
        /\ drawn' = <<>>
    BY <1>2, <1>4, <1>9 DEF PolylineWord
  <2>2. ~Ends(ws)
    BY <1>1, <1>9
  <2>3. received' = ws /\ Op' = op
    BY <1>1, <1>5, <2>2 DEF Op
  <2>4. /\ Len(ws) >= Length(op) /\ n >= 4
        /\ (Len(ws) - Length(op)) % Stride(op) # 0
    <3>1. (n - 4) % 2 = 0 /\ n >= 4 /\ n \in Nat
      BY <1>1, <1>2, <1>9
    <3>2. ((n + 1) - 4) % 2 # 0 /\ n + 1 >= 4
      <4> HIDE DEF n
      <4> QED
        BY <3>1
    <3>3. QED
      BY <1>1, <1>9, <3>1, <3>2
  <2> HIDE DEF ws, n, op, p, c
  <2>5. Meaning(ws) = <<>>
    BY <1>1, <2>4, MeaningOfLines
  <2>6. /\ command_state'.state = "WaitingForParameters"
        /\ command_state'.command = c
        /\ command_state'.index = 2 /\ command_state'.remaining = 1
    BY <2>1 DEF Parameters
  <2>7. /\ parameters'[0] = ws[Len(ws) - 1]
        /\ parameters'[1] = ws[Len(ws)]
        /\ c.color = ws[Len(ws) - 2]
    <3>1. n \in 1 .. n /\ n - 1 \in 1 .. n
      BY <1>1, <2>4
    <3>2. ws[n] = received[n] /\ ws[n - 1] = received[n - 1]
      BY <1>1, <3>1
    <3>3. Len(ws) - 1 = n /\ Len(ws) - 2 = n - 1
      BY <1>1
    <3>4. QED
      BY <1>1, <1>2, <1>6, <1>9, <2>1, <3>2, <3>3
  <2>8. received' # <<>> /\ Len(received') >= Length(Op')
    <3>1. Length(Op') = Length(op)
      BY <2>3
    <3>2. QED
      BY <1>1, <2>3, <2>4, <3>1
  <2>9. Continuing'
    BY <1>1, <1>2, <2>3, <2>4, <2>6, <2>7, <2>8 DEF Continuing, In
  <2>10. QED
    BY <2>1, <2>5, <2>9 DEF Follows, ws
<1>10. CASE w.end = FALSE /\ op.gouraud = FALSE
  <2>1. DrawLine(c, p)
    BY <1>2, <1>4, <1>10 DEF PolylineWord
  <2>2. ~Ends(ws)
    BY <1>1, <1>10
  <2>3. received' = ws /\ Op' = op
    BY <1>1, <1>5, <2>2 DEF Op
  <2>4. /\ Len(ws) >= Length(op) /\ n >= 3
        /\ (Len(ws) - Length(op)) % Stride(op) = 0
    BY <1>1, <1>10
  <2> HIDE DEF ws, n, op, p, c
  <2>5. Meaning(ws) = <<LastSegment(ws)>>
    BY <1>1, <2>2, <2>4, MeaningOfLines
  <2>6. /\ drawn' = <<[call |-> "draw_line", vertices |-> <<p[0], p[1]>>,
                       colors |-> <<c.color>>, page |-> settings.page]>>
        /\ command_state'.state = "WaitingForPolyline"
        /\ command_state'.command.op = op
        /\ command_state'.command.color = c.color
        /\ parameters'[0] = p[1]
    <3>1. /\ drawn' = <<[call |-> "draw_line", vertices |-> <<p[0], p[Stride(c.op)]>>,
                         colors |-> IF c.op.gouraud THEN <<c.color, p[1]>> ELSE <<c.color>>,
                         page |-> settings.page]>>
          /\ c.op.polyline = TRUE =>
               /\ command_state'.state = "WaitingForPolyline"
               /\ command_state'.command.op = c.op
               /\ command_state'.command.color = IF c.op.gouraud THEN p[1] ELSE c.color
               /\ parameters'[0] = p[Stride(c.op)]
      BY ONLY <1>3, <1>6, <2>1, LineIsDrawn
    <3>2. /\ c.op = op /\ c.op.gouraud = FALSE /\ c.op.polyline = TRUE
          /\ Stride(c.op) = 1
      BY <1>1, <1>2, <1>10
    <3>3. QED
      BY ONLY <3>1, <3>2
  <2>7. ws[Len(ws) - 1] = p[0] /\ Len(ws) - Stride(op) = Len(ws) - 1 /\ c.color = ws[1]
    BY <1>1, <1>2, <1>6, <1>10, <2>4
  <2>8. LastSegment(ws) =
          [call |-> "draw_line", vertices |-> <<ws[Len(ws) - 1], ws[Len(ws)]>>,
           colors |-> <<ws[1]>>, page |-> settings.page]
    BY <1>1, <1>10, <2>7 DEF LastSegment
  <2>9. drawn' = Meaning(ws)
    BY <1>1, <1>6, <2>5, <2>6, <2>7, <2>8
  <2>10. received' # <<>> /\ Len(received') >= Length(Op')
    <3>1. Length(Op') = Length(op)
      BY <2>3
    <3>2. QED
      BY <1>1, <2>3, <2>4, <3>1
  <2>11. Continuing'
    BY <1>1, <1>6, <1>10, <2>3, <2>4, <2>6, <2>7, <2>10 DEF Continuing, In
  <2>12. QED
    BY <2>9, <2>11 DEF Follows, ws
<1>11. QED
  BY <1>1, <1>7, <1>8, <1>9, <1>10

\* Where the vertex follows its colour: the next segment is drawn.
LEMMA PolylineGoesOn ==
  ASSUME TypeOK, Continuing, NEW w \in Word, WriteGp0(w), In("WaitingForParameters")
  PROVE  Follows' /\ drawn' = Meaning(Append(received, w))
<1> DEFINE ws == Append(received, w)
           n == Len(received)
           op == Op
           c == command_state.command
           p == [parameters EXCEPT ![2] = w]
<1>1. /\ ws \in Seq(Word) /\ ws # <<>> /\ Len(ws) = n + 1 /\ n \in Nat
      /\ \A i \in 1 .. n : ws[i] = received[i]
      /\ ws[Len(ws)] = w
      /\ ws[1] = received[1] /\ ws[1].op = op /\ op.kind = "Line"
      /\ op \in LineCommands /\ op.polyline = TRUE /\ op.gouraud \in BOOLEAN
      /\ op.gouraud = TRUE => Stride(op) = 2 /\ Length(op) = 4
      /\ op.gouraud = FALSE => Stride(op) = 1 /\ Length(op) = 3
      /\ n >= Length(op)
      /\ Ends(ws) <=> (n - Length(op)) % Stride(op) = 0 /\ w.end
  BY PolylineWords
<1>2. /\ c.op = op
      /\ (n - Length(op)) % Stride(op) # 0
      /\ command_state.index = 2 /\ command_state.remaining = 1
      /\ parameters[0] = received[n - 1] /\ parameters[1] = received[n]
      /\ c.color = received[n - 2]
  BY DEF Continuing, In
<1>3. op.gouraud = TRUE
  <2>1. op.gouraud = FALSE => (n - Length(op)) % Stride(op) = 0
    BY <1>1
  <2>2. QED
    BY <1>1, <1>2, <2>1
<1>4. c \in [op: LineCommands, color: Word]
  BY <1>1, <1>2, FieldsOfStates DEF TypeOK, In, Command
<1>5. DrawLine(c, p)
  <2>1. Parameter(w)
    BY DEF WriteGp0, NewCommand, PolylineWord, ReceiveVramWord, In
  <2>2. ExecuteDrawCommand(c, p)
    BY <1>2, <2>1 DEF Parameter
  <2>3. QED
    BY <1>1, <1>2, <2>2 DEF ExecuteDrawCommand
<1>6. /\ p \in ParameterBuffers
      /\ p[0] = parameters[0] /\ p[1] = parameters[1] /\ p[2] = w
  BY DEF TypeOK, ParameterBuffers, PARAMETERS_LEN
<1>7. ~Ends(ws)
  BY <1>1, <1>2
<1>8. received' = ws /\ Op' = op
  BY <1>1, <1>7 DEF Op, WriteGp0
<1>9. /\ Len(ws) >= Length(op) /\ n >= 4
      /\ (Len(ws) - Length(op)) % Stride(op) = 0
  <2>1. (n - 4) % 2 # 0 /\ n >= 4 /\ n \in Nat
    BY <1>1, <1>2, <1>3
  <2>2. ((n + 1) - 4) % 2 = 0 /\ n + 1 >= 4
    <3> HIDE DEF n
    <3> QED
      BY <2>1
  <2>3. QED
    BY <1>1, <1>3, <2>1, <2>2
<1> HIDE DEF ws, n, op, p, c
<1>10. Meaning(ws) = <<LastSegment(ws)>>
  BY <1>1, <1>7, <1>9, MeaningOfLines
<1>11. /\ drawn' = <<[call |-> "draw_line", vertices |-> <<p[0], p[2]>>,
                      colors |-> <<c.color, p[1]>>, page |-> settings.page]>>
       /\ command_state'.state = "WaitingForPolyline"
       /\ command_state'.command.op = op
       /\ command_state'.command.color = p[1]
       /\ parameters'[0] = p[2]
  <2>1. /\ drawn' = <<[call |-> "draw_line", vertices |-> <<p[0], p[Stride(c.op)]>>,
                       colors |-> IF c.op.gouraud THEN <<c.color, p[1]>> ELSE <<c.color>>,
                       page |-> settings.page]>>
        /\ c.op.polyline = TRUE =>
             /\ command_state'.state = "WaitingForPolyline"
             /\ command_state'.command.op = c.op
             /\ command_state'.command.color = IF c.op.gouraud THEN p[1] ELSE c.color
             /\ parameters'[0] = p[Stride(c.op)]
    BY ONLY <1>4, <1>5, <1>6, LineIsDrawn
  <2>2. /\ c.op = op /\ c.op.gouraud = TRUE /\ c.op.polyline = TRUE
        /\ Stride(c.op) = 2
    BY <1>1, <1>2, <1>3
  <2>3. QED
    BY ONLY <2>1, <2>2
<1>12. /\ p[0] = ws[Len(ws) - 2] /\ p[1] = ws[Len(ws) - 1] /\ c.color = ws[Len(ws) - 3]
       /\ Len(ws) - Stride(op) = Len(ws) - 2 /\ Len(ws) - Stride(op) - 1 = Len(ws) - 3
  <2>1. n - 2 \in 1 .. n /\ n - 1 \in 1 .. n /\ n \in 1 .. n
    BY <1>1, <1>9
  <2>2. ws[n - 2] = received[n - 2] /\ ws[n - 1] = received[n - 1] /\ ws[n] = received[n]
    BY <1>1, <2>1
  <2>3. Len(ws) - 1 = n /\ Len(ws) - 2 = n - 1 /\ Len(ws) - 3 = n - 2
    BY <1>1
  <2>4. QED
    BY <1>1, <1>2, <1>3, <1>6, <2>2, <2>3
<1>13. LastSegment(ws) =
         [call |-> "draw_line", vertices |-> <<ws[Len(ws) - 2], ws[Len(ws)]>>,
          colors |-> <<ws[Len(ws) - 3], ws[Len(ws) - 1]>>, page |-> settings.page]
  BY <1>1, <1>3, <1>12 DEF LastSegment
<1>14. drawn' = Meaning(ws)
  BY <1>1, <1>6, <1>10, <1>11, <1>12, <1>13
<1>15. received' # <<>> /\ Len(received') >= Length(Op')
  <2>1. Length(Op') = Length(op)
    BY <1>8
  <2>2. QED
    BY <1>1, <1>8, <1>9, <2>1
<1>16. Continuing'
  BY <1>1, <1>3, <1>6, <1>8, <1>9, <1>11, <1>12, <1>15 DEF Continuing, In
<1>17. QED
  BY <1>14, <1>16 DEF Follows, ws

Halfword == [word: Word, high: BOOLEAN]

\* A word adds its two halfwords, the lower one first.
LEMMA DataGrows ==
  ASSUME NEW ws \in Seq(Word), Len(ws) >= 3, NEW w \in Word
  PROVE  /\ DataOf(ws) \in Seq(Halfword)
         /\ Halves(w) \in Seq(Halfword) /\ Len(Halves(w)) = 2
         /\ DataOf(Append(ws, w)) = DataOf(ws) \o Halves(w)
<1> DEFINE n == Len(ws)
           more == Append(ws, w)
<1>1. n \in Nat /\ n >= 3
  OBVIOUS
<1>2. \A v \in Word : Halves(v) \in Seq(Halfword) /\ Len(Halves(v)) = 2
  BY DEF Halves, Halfword
<1>3. \A v \in Word : Halves(v)[1] \in Halfword /\ Halves(v)[2] \in Halfword
  BY DEF Halves, Halfword
<1>4. ASSUME NEW all \in Seq(Word), NEW m \in Nat, m >= 3, Len(all) = m
      PROVE  /\ DataOf(all) \in Seq(Halfword)
             /\ Len(DataOf(all)) = 2 * (m - 3)
             /\ \A i \in 1 .. 2 * (m - 3) :
                  /\ 3 + ((i + 1) \div 2) \in 4 .. m
                  /\ DataOf(all)[i]
                       = Halves(all[3 + ((i + 1) \div 2)])[IF i % 2 = 1 THEN 1 ELSE 2]
  <2>1. \A i \in 1 .. 2 * (m - 3) : 3 + ((i + 1) \div 2) \in 4 .. m
    BY <1>4
  <2>2. \A j \in 4 .. m : all[j] \in Word
    BY <1>4
  <2>3. \A i \in 1 .. 2 * (m - 3) :
          Halves(all[3 + ((i + 1) \div 2)])[IF i % 2 = 1 THEN 1 ELSE 2] \in Halfword
    BY <1>3, <2>1, <2>2
  <2>4. DataOf(all) = [i \in 1 .. 2 * (m - 3) |->
                         Halves(all[3 + ((i + 1) \div 2)])[IF i % 2 = 1 THEN 1 ELSE 2]]
    BY <1>4 DEF DataOf
  <2>5. 2 * (m - 3) \in Nat
    BY <1>4
  <2> DEFINE half(i) == Halves(all[3 + ((i + 1) \div 2)])[IF i % 2 = 1 THEN 1 ELSE 2]
             l == 2 * (m - 3)
  <2>6. [i \in 1 .. l |-> half(i)] \in Seq(Halfword) /\ Len([i \in 1 .. l |-> half(i)]) = l
    <3>1. l \in Nat /\ \A i \in 1 .. l : half(i) \in Halfword
      BY <2>3, <2>5
    <3> HIDE DEF l, half
    <3>2. QED
      BY <3>1
  <2>7. QED
    BY <2>1, <2>4, <2>6
<1>5. /\ more \in Seq(Word) /\ Len(more) = n + 1
      /\ \A i \in 1 .. n : more[i] = ws[i]
      /\ more[n + 1] = w
  OBVIOUS
<1> HIDE DEF n, more
<1>6. /\ DataOf(ws) \in Seq(Halfword) /\ Len(DataOf(ws)) = 2 * (n - 3)
      /\ \A i \in 1 .. 2 * (n - 3) :
           /\ 3 + ((i + 1) \div 2) \in 4 .. n
           /\ DataOf(ws)[i] = Halves(ws[3 + ((i + 1) \div 2)])[IF i % 2 = 1 THEN 1 ELSE 2]
  BY <1>1, <1>4 DEF n
<1>7. /\ DataOf(more) \in Seq(Halfword) /\ Len(DataOf(more)) = 2 * ((n + 1) - 3)
      /\ \A i \in 1 .. 2 * ((n + 1) - 3) :
           DataOf(more)[i] = Halves(more[3 + ((i + 1) \div 2)])[IF i % 2 = 1 THEN 1 ELSE 2]
  <2>1. n + 1 \in Nat /\ n + 1 >= 3
    BY <1>1
  <2>2. QED
    BY <1>4, <1>5, <2>1
<1>8. DataOf(more) = DataOf(ws) \o Halves(w)
  <2> DEFINE l == 2 * (n - 3)
             both == DataOf(ws) \o Halves(w)
  <2>1. l \in Nat /\ 2 * ((n + 1) - 3) = l + 2
    BY <1>1
  <2>2. /\ both \in Seq(Halfword) /\ Len(both) = l + 2
        /\ \A i \in 1 .. l : both[i] = DataOf(ws)[i]
        /\ both[l + 1] = Halves(w)[1] /\ both[l + 2] = Halves(w)[2]
    <3>1. DataOf(ws) \in Seq(Halfword) /\ Halves(w) \in Seq(Halfword) /\ Len(Halves(w)) = 2
          /\ Len(DataOf(ws)) = l
      BY <1>2, <1>6
    <3> DEFINE s == DataOf(ws)
               t == Halves(w)
    <3> HIDE DEF l, s, t
    <3>2. s \in Seq(Halfword) /\ t \in Seq(Halfword) /\ Len(t) = 2 /\ Len(s) = l
      BY <3>1 DEF s, t
    <3>3. /\ s \o t \in Seq(Halfword) /\ Len(s \o t) = l + 2
          /\ \A i \in 1 .. l + 2 : (s \o t)[i] = IF i <= l THEN s[i] ELSE t[i - l]
      <4>1. /\ s \o t \in Seq(Halfword) /\ Len(s \o t) = Len(s) + Len(t)
            /\ \A i \in 1 .. Len(s) + Len(t) :
                 (s \o t)[i] = IF i <= Len(s) THEN s[i] ELSE t[i - Len(s)]
        BY ONLY <3>2, ConcatProperties
      <4>2. QED
        BY ONLY <3>2, <4>1
    <3>4. /\ \A i \in 1 .. l : i \in 1 .. l + 2 /\ i <= l
          /\ l + 1 \in 1 .. l + 2 /\ ~(l + 1 <= l) /\ (l + 1) - l = 1
          /\ l + 2 \in 1 .. l + 2 /\ ~(l + 2 <= l) /\ (l + 2) - l = 2
      BY ONLY <2>1
    <3>5. \A i \in 1 .. l : (s \o t)[i] = s[i]
      BY ONLY <3>3, <3>4
    <3>6. (s \o t)[l + 1] = t[1] /\ (s \o t)[l + 2] = t[2]
      BY ONLY <3>3, <3>4
    <3>7. QED
      BY <3>3, <3>5, <3>6 DEF s, t
  <2> HIDE DEF both
  <2>3. \A i \in 1 .. l : DataOf(more)[i] = both[i]
    <3>1. SUFFICES ASSUME NEW i \in 1 .. l
                   PROVE  DataOf(more)[i] = both[i]
      OBVIOUS
    <3>2. i \in 1 .. 2 * ((n + 1) - 3) /\ 3 + ((i + 1) \div 2) \in 1 .. n
      BY <1>1, <1>6
    <3>3. more[3 + ((i + 1) \div 2)] = ws[3 + ((i + 1) \div 2)]
      BY <1>5, <3>2
    <3>4. QED
      BY <1>6, <1>7, <2>2, <3>2, <3>3
  <2>4. DataOf(more)[l + 1] = both[l + 1]
    <3>1. /\ l + 1 \in 1 .. 2 * ((n + 1) - 3)
          /\ 3 + (((l + 1) + 1) \div 2) = n + 1 /\ (l + 1) % 2 = 1
      BY <1>1
    <3>2. DataOf(more)[l + 1] = Halves(more[n + 1])[1]
      BY <1>7, <3>1
    <3>3. QED
      BY <1>5, <2>2, <3>2
  <2>5. DataOf(more)[l + 2] = both[l + 2]
    <3>1. /\ l + 2 \in 1 .. 2 * ((n + 1) - 3)
          /\ 3 + (((l + 2) + 1) \div 2) = n + 1 /\ (l + 2) % 2 # 1
      BY <1>1
    <3>2. DataOf(more)[l + 2] = Halves(more[n + 1])[2]
      BY <1>7, <3>1
    <3>3. QED
      BY <1>5, <2>2, <3>2
  <2>6. \A i \in 1 .. l + 2 : DataOf(more)[i] = both[i]
    <3> HIDE DEF l
    <3> QED
      BY <2>1, <2>3, <2>4, <2>5
  <2>7. Len(DataOf(more)) = l + 2
    BY <1>7, <2>1
  <2> HIDE DEF l
  <2>8. Len(DataOf(more)) = Len(both) /\ \A i \in 1 .. Len(DataOf(more)) : DataOf(more)[i] = both[i]
    BY <2>2, <2>6, <2>7
  <2>9. both \in Seq(Halfword)
    BY <2>2
  <2>10. QED
    BY ONLY <1>7, <2>8, <2>9, SeqEqual DEF both
<1>9. QED
  BY <1>2, <1>6, <1>8 DEF more

\* The lower half of a word after other halfwords.
LEMMA LowerHalf ==
  ASSUME NEW s \in Seq(Halfword), NEW t \in Seq(Halfword), Len(t) = 2
  PROVE  /\ SubSeq(s \o t, 1, Len(s) + 1) = s \o SubSeq(t, 1, 1)
         /\ SubSeq(s \o t, 1, Len(s) + 2) = s \o t
         /\ SubSeq(t, 1, 2) = t
         /\ Len(SubSeq(t, 1, 1)) = 1
<1> DEFINE k == Len(s)
           both == s \o t
           low == SubSeq(t, 1, 1)
           left == SubSeq(both, 1, k + 1)
           right == s \o low
<1>1. k \in Nat
  OBVIOUS
<1>2. /\ both \in Seq(Halfword) /\ Len(both) = k + 2
      /\ \A i \in 1 .. k + 2 : both[i] = IF i <= k THEN s[i] ELSE t[i - k]
  <2>1. /\ both \in Seq(Halfword) /\ Len(both) = Len(s) + Len(t)
        /\ \A i \in 1 .. Len(s) + Len(t) : both[i] = IF i <= Len(s) THEN s[i] ELSE t[i - Len(s)]
    BY ONLY s \in Seq(Halfword), t \in Seq(Halfword), ConcatProperties
  <2>2. QED
    BY ONLY <2>1, Len(t) = 2
<1>3. low \in Seq(Halfword) /\ Len(low) = 1 /\ low[1] = t[1]
  <2>1. t[1] \in Halfword
    <3>1. 1 \in 1 .. Len(t)
      OBVIOUS
    <3>2. QED
      BY ONLY <3>1, t \in Seq(Halfword), ElementOfSeq
  <2>2. \A i \in 1 .. 1 : t[i] \in Halfword
    BY <2>1
  <2>3. /\ low \in Seq(Halfword) /\ Len(low) = (IF 1 <= 1 THEN 1 - 1 + 1 ELSE 0)
        /\ \A i \in 1 .. 1 - 1 + 1 : low[i] = t[1 + i - 1]
    BY <2>2, SubSeqProperties
  <2>4. QED
    BY ONLY <2>3
<1>4. /\ right \in Seq(Halfword) /\ Len(right) = k + 1
      /\ \A i \in 1 .. k + 1 : right[i] = IF i <= k THEN s[i] ELSE low[i - k]
  <2>1. /\ right \in Seq(Halfword) /\ Len(right) = Len(s) + Len(low)
        /\ \A i \in 1 .. Len(s) + Len(low) :
             right[i] = IF i <= Len(s) THEN s[i] ELSE low[i - Len(s)]
    BY ONLY s \in Seq(Halfword), <1>3, ConcatProperties
  <2>2. QED
    BY ONLY <2>1, <1>3
<1> HIDE DEF k, both, low, left, right
<1>5. /\ left \in Seq(Halfword) /\ Len(left) = k + 1
      /\ \A i \in 1 .. k + 1 : left[i] = both[i]
  <2>1. \A i \in 1 .. k + 1 : both[i] \in Halfword
    BY <1>1, <1>2
  <2>2. /\ SubSeq(both, 1, k + 1) \in Seq(Halfword)
        /\ Len(SubSeq(both, 1, k + 1)) = IF 1 <= k + 1 THEN ((k + 1) - 1) + 1 ELSE 0
        /\ \A i \in 1 .. ((k + 1) - 1) + 1 : SubSeq(both, 1, k + 1)[i] = both[(1 + i) - 1]
    <3>1. k + 1 \in Int /\ 1 \in Int
      BY <1>1
    <3>2. QED
      BY ONLY <2>1, <3>1, SubSeqProperties
  <2>3. QED
    BY <1>1, <2>2 DEF left
<1>6. left = right
  <2>1. \A i \in 1 .. k : left[i] = right[i]
    BY <1>1, <1>2, <1>4, <1>5
  <2>2. left[k + 1] = right[k + 1]
    <3>1. k + 1 \in 1 .. k + 1 /\ k + 1 \in 1 .. k + 2 /\ ~(k + 1 <= k) /\ (k + 1) - k = 1
      BY <1>1
    <3>2. QED
      BY ONLY <1>2, <1>3, <1>4, <1>5, <3>1
  <2>3. \A i \in 1 .. k + 1 : left[i] = right[i]
    BY <1>1, <2>1, <2>2
  <2>4. Len(left) = Len(right) /\ \A i \in 1 .. Len(left) : left[i] = right[i]
    BY ONLY <1>4, <1>5, <2>3
  <2>5. QED
    BY ONLY <1>4, <1>5, <2>4, SeqEqual
<1>7. SubSeq(both, 1, k + 2) = both /\ SubSeq(t, 1, 2) = t
  BY <1>2, SubSeqFull
<1>8. QED
  BY <1>3, <1>6, <1>7 DEF k, both, low, left, right

\* A word of a transfer to VRAM: the area is drawn when its last halfword came, which may be
\* in the lower half of the word.
LEMMA VramWord ==
  ASSUME TypeOK, FillingVram, NEW w \in Word, WriteGp0(w)
  PROVE  Follows' /\ drawn' = Meaning(Append(received, w))
<1> DEFINE ws == Append(received, w)
           n == Len(received)
           r == command_state.remaining
           d == DataOf(received)
           h == Halves(w)
           size == received[3].size
<1>1. /\ ws \in Seq(Word) /\ ws # <<>> /\ Len(ws) = n + 1 /\ n \in Nat
      /\ \A i \in 1 .. n : ws[i] = received[i]
      /\ received \in Seq(Word) /\ received[1] \in Word
  BY OneMoreWord DEF TypeOK, FillingVram
<1>2. Op.kind = "CpuToVram" /\ Length(Op) = 3 /\ n >= 3
  BY <1>1 DEF FillingVram, Length
<1>3. /\ ws[1] = received[1] /\ ws[2] = received[2] /\ ws[3] = received[3]
      /\ received[3] \in Word /\ size \in Nat
      /\ ws[1].op = Op
  <2>1. 1 \in 1 .. n /\ 2 \in 1 .. n /\ 3 \in 1 .. n
    BY <1>1, <1>2
  <2>2. ws[1] = received[1] /\ ws[2] = received[2] /\ ws[3] = received[3]
    BY <1>1, <2>1
  <2>3. received[3] \in Word
    BY <1>1, <2>1
  <2>4. size \in Nat
    BY <2>3 DEF Word
  <2>5. QED
    BY <2>2, <2>3, <2>4 DEF Op
<1>4. /\ r \in Nat /\ r >= 1 /\ r = size - 2 * (n - 3)
      /\ command_state.position = received[2] /\ command_state.size = received[3]
      /\ blit_buffer = d
  BY FieldsOfStates DEF FillingVram, In, TypeOK
<1>5. d \in Seq(Halfword) /\ h \in Seq(Halfword) /\ Len(h) = 2 /\ DataOf(ws) = d \o h
  BY <1>1, <1>2, DataGrows
<1>6. Len(d) = 2 * (n - 3)
  BY <1>1, <1>2, DataLength
<1>7. Ends(ws) <=> 2 * ((n + 1) - 3) >= size
  <2>1. ws[1].op.kind = "CpuToVram" /\ Len(ws) >= 3
    BY <1>1, <1>2, <1>3
  <2>2. Ends(ws) <=> 2 * (Len(ws) - 3) >= ws[3].size
    BY ONLY <1>1, <2>1, EndsOfCommands
  <2>3. QED
    BY <1>1, <1>3, <2>2
<1>8. ReceiveVramWord(w)
  BY DEF FillingVram, WriteGp0, NewCommand, Parameter, PolylineWord, In
<1>9. received' = (IF Ends(ws) THEN <<>> ELSE ws) /\ returned' = 0
  BY DEF WriteGp0
<1>10. /\ SubSeq(d \o h, 1, Len(d) + 1) = d \o SubSeq(h, 1, 1)
       /\ SubSeq(d \o h, 1, Len(d) + 2) = d \o h
       /\ SubSeq(h, 1, 2) = h
       /\ Len(SubSeq(h, 1, 1)) = 1
  BY <1>5, LowerHalf
<1>11. Ends(ws) => Meaning(ws) =
         <<[call |-> "cpu_to_vram_blit", position |-> ws[2], size |-> ws[3],
            mask |-> settings.mask, data |-> SubSeq(DataOf(ws), 1, ws[3].size)]>>
  <2>1. ws[1].op.kind = "CpuToVram"
    BY <1>2, <1>3
  <2>2. QED
    BY ONLY <1>1, <2>1, MeaningOfOthers
<1>12. ~Ends(ws) => Meaning(ws) = <<>>
  <2>1. ws[1].op.kind = "CpuToVram"
    BY <1>2, <1>3
  <2>2. QED
    BY ONLY <1>1, <2>1, MeaningOfOthers
<1> DEFINE taken == SubSeq(h, 1, IF r = 1 THEN 1 ELSE 2)
           call(data) == [call |-> "cpu_to_vram_blit", position |-> command_state.position,
                          size |-> command_state.size, mask |-> settings.mask, data |-> data]
<1>13. /\ blit_buffer' = blit_buffer \o taken
       /\ r = Len(taken) => /\ drawn' = <<call(blit_buffer \o taken)>>
                            /\ command_state' = Waiting
       /\ r # Len(taken) => /\ drawn' = <<>>
                            /\ command_state' = Receiving(command_state.position,
                                                          command_state.size, r - 2)
  BY <1>8 DEF ReceiveVramWord
<1>14. CASE r = 1
  <2>1. taken = SubSeq(h, 1, 1) /\ r = Len(taken)
    BY <1>10, <1>14
  <2>2. size = Len(d) + 1 /\ Ends(ws)
    BY <1>1, <1>2, <1>3, <1>4, <1>6, <1>7, <1>14
  <2>3. drawn' = Meaning(ws)
    BY <1>3, <1>4, <1>5, <1>10, <1>11, <1>13, <2>1, <2>2
  <2>4. Idle'
    BY <1>9, <1>13, <2>1, <2>2 DEF Idle, In, Waiting
  <2>5. QED
    BY <2>3, <2>4 DEF Follows
<1>15. CASE r = 2
  <2>1. taken = h /\ r = Len(taken)
    BY <1>5, <1>10, <1>15
  <2>2. size = Len(d) + 2 /\ Ends(ws)
    BY <1>1, <1>2, <1>3, <1>4, <1>6, <1>7, <1>15
  <2>3. drawn' = Meaning(ws)
    BY <1>3, <1>4, <1>5, <1>10, <1>11, <1>13, <2>1, <2>2
  <2>4. Idle'
    BY <1>9, <1>13, <2>1, <2>2 DEF Idle, In, Waiting
  <2>5. QED
    BY <2>3, <2>4 DEF Follows
<1>16. CASE r > 2
  <2>1. taken = h /\ r # Len(taken)
    BY <1>4, <1>5, <1>10, <1>16
  <2>2. r - 2 = size - 2 * ((n + 1) - 3) /\ ~Ends(ws)
    <3> HIDE DEF n, r, size
    <3> QED
      BY <1>1, <1>2, <1>3, <1>4, <1>7, <1>16
  <2>3. received' = ws /\ Op' = Op /\ Len(received') = n + 1
    BY <1>1, <1>3, <1>9, <2>2 DEF Op
  <2>4. drawn' = Meaning(ws)
    BY <1>12, <1>13, <2>1, <2>2
  <2>5. command_state' = Receiving(command_state.position, command_state.size, r - 2)
    BY <1>13, <2>1
  <2>6. /\ command_state'.state = "ReceivingFromCpu"
        /\ command_state'.position = received'[2]
        /\ command_state'.size = received'[3]
        /\ command_state'.remaining = received'[3].size - 2 * (Len(received') - 3)
    BY <1>3, <1>4, <2>2, <2>3, <2>5 DEF Receiving
  <2>7. blit_buffer' = DataOf(received')
    BY <1>4, <1>5, <1>13, <2>1, <2>3
  <2>8. received' # <<>> /\ Len(received') >= Length(Op') /\ Op'.kind = "CpuToVram"
    <3>1. Length(Op') = 3
      BY <1>2, <2>3
    <3>2. QED
      BY <1>1, <1>2, <2>3, <3>1
  <2>9. FillingVram'
    <3> HIDE DEF r, d, h, size
    <3> QED
      BY <2>6, <2>7, <2>8 DEF FillingVram, In
  <2>10. QED
    BY <2>4, <2>9 DEF Follows
<1>17. QED
  BY <1>4, <1>14, <1>15, <1>16

\* Every word keeps the processor where the words say, and makes the calls they mean.
LEMMA WordStep ==
  ASSUME TypeOK, Follows, NEW w \in Word, WriteGp0(w)
  PROVE  Follows' /\ drawn' = Meaning(Append(received, w))
<1>1. CASE Idle
  BY <1>1, FirstWord
<1>2. CASE Collecting
  <2>1. CASE command_state.remaining = 1
    BY <1>2, <2>1, LastParameter
  <2>2. CASE command_state.remaining # 1
    BY <1>2, <2>2, ParameterKept
  <2>3. QED
    BY <2>1, <2>2
<1>3. CASE Continuing
  <2>1. In("WaitingForPolyline") \/ In("WaitingForParameters")
    BY <1>3 DEF Continuing
  <2>2. CASE In("WaitingForPolyline")
    BY <1>3, <2>2, PolylineBegins
  <2>3. CASE In("WaitingForParameters")
    BY <1>3, <2>3, PolylineGoesOn
  <2>4. QED
    BY <2>1, <2>2, <2>3
<1>4. CASE FillingVram
  BY <1>4, VramWord
<1>5. CASE OfferingVram
  BY <1>5 DEF OfferingVram, WriteGp0, NewCommand, Parameter, PolylineWord, ReceiveVramWord, In
<1>6. QED
  BY <1>1, <1>2, <1>3, <1>4, <1>5 DEF Follows

\* Halfwords are offered exactly when software is to read them.
LEMMA OffersWhatIsDue ==
  ASSUME TypeOK, Follows
  PROVE  /\ OfferingVram => ToRead /\ In("SendingToCpu")
         /\ ~OfferingVram => ~ToRead /\ ~In("SendingToCpu")
<1>1. OfferingVram => ToRead /\ In("SendingToCpu")
  BY DEF OfferingVram, ToRead
<1>2. Idle => ~ToRead /\ ~In("SendingToCpu")
  BY DEF Idle, ToRead, In
<1>3. Collecting => ~ToRead /\ ~In("SendingToCpu")
  <2>1. Collecting /\ Op.kind = "VramToCpu" => Len(received) < 3
    BY DEF Collecting, Length
  <2>2. Collecting => ~In("SendingToCpu")
    BY DEF Collecting, In
  <2>3. QED
    BY <2>1, <2>2, SMTT(30) DEF ToRead, TypeOK
<1>4. Continuing => ~ToRead /\ ~In("SendingToCpu")
  BY DEF Continuing, ToRead, LineCommands, In
<1>5. FillingVram => ~ToRead /\ ~In("SendingToCpu")
  BY DEF FillingVram, ToRead, In
<1>6. QED
  BY <1>1, <1>2, <1>3, <1>4, <1>5 DEF Follows

\* Every read of a transfer takes the next two halfwords, and the last one ends it.
LEMMA ReadStep ==
  ASSUME TypeOK, Follows, ReadPort
  PROVE  /\ Follows'
         /\ gpu_read_buffer' =
              IF ToRead
              THEN [halves |-> <<Vram(returned + 1), IF returned + 2 <= received[3].size
                                                       THEN Vram(returned + 2) ELSE NoHalfword>>,
                    info |-> Zero]
              ELSE gpu_read_buffer
<1>1. CASE OfferingVram
  <2> DEFINE size == received[3].size
             r == command_state.remaining
             first == returned + 1
             second == returned + 2
  <2>1. ToRead /\ In("SendingToCpu")
    BY <1>1, OffersWhatIsDue
  <2>2. /\ command_state.buffer_idx = returned /\ r = size - returned
        /\ blit_buffer = [i \in 1 .. size |-> Vram(i)]
    BY <1>1 DEF OfferingVram, Fetched
  <2>3. r \in Nat /\ r >= 1 /\ returned \in Nat
    BY <2>1, FieldsOfStates DEF TypeOK, In
  <2>4. size \in Nat
    <3>1. received \in Seq(Word) /\ 3 \in 1 .. Len(received)
      BY <1>1 DEF OfferingVram, TypeOK
    <3>2. received[3] \in Word
      BY ONLY <3>1, ElementOfSeq
    <3>3. QED
      BY <3>2 DEF Word
  <2>5. /\ gpu_read_buffer' =
             [halves |-> <<IF first \in DOMAIN blit_buffer THEN blit_buffer[first] ELSE NoHalfword,
                           IF r = 1 THEN NoHalfword
                           ELSE IF second \in DOMAIN blit_buffer THEN blit_buffer[second]
                           ELSE NoHalfword>>,
              info |-> Zero]
        /\ r <= 2 => command_state' = Waiting
        /\ ~(r <= 2) => command_state' = Sending(returned + 2, r - 2)
    BY <2>1, <2>2 DEF ReadPort
  <2>6. /\ second >= size => received' = <<>> /\ returned' = 0
        /\ ~(second >= size) => received' = received /\ returned' = second
        /\ blit_buffer' = blit_buffer
    BY <2>1 DEF ReadPort
  <2>7. /\ first \in 1 .. size
        /\ second <= size <=> r # 1
        /\ second >= size <=> r <= 2
        /\ second \in Nat /\ 1 <= second
    <3> HIDE DEF r, size
    <3> QED
      BY <2>2, <2>3, <2>4
  <2>8. blit_buffer[first] = Vram(first) /\ first \in DOMAIN blit_buffer
    BY <2>2, <2>7
  <2>9. second <= size => second \in DOMAIN blit_buffer /\ blit_buffer[second] = Vram(second)
    BY <2>2, <2>4, <2>7
  <2> HIDE DEF r, size, first, second
  <2>10. gpu_read_buffer' =
           [halves |-> <<Vram(first), IF second <= size THEN Vram(second) ELSE NoHalfword>>,
            info |-> Zero]
    <3>1. CASE r = 1
      BY <2>5, <2>7, <2>8, <3>1
    <3>2. CASE r # 1
      BY <2>5, <2>7, <2>8, <2>9, <3>2
    <3>3. QED
      BY <3>1, <3>2
  <2>11. Follows'
    <3>1. CASE r <= 2
      <4>1. command_state' = Waiting /\ received' = <<>> /\ returned' = 0
        BY <2>5, <2>6, <2>7, <3>1
      <4>2. Idle'
        BY <4>1 DEF Idle, In, Waiting
      <4>3. QED
        BY <4>2 DEF Follows
    <3>2. CASE ~(r <= 2)
      <4>1. /\ command_state' = Sending(second, r - 2)
            /\ received' = received /\ returned' = second /\ blit_buffer' = blit_buffer
            /\ Op' = Op
        BY <2>5, <2>6, <2>7, <3>2 DEF second, Op
      <4>2. r - 2 = size - second
        BY <2>2, <2>3, <2>4 DEF second
      <4>3. /\ command_state'.state = "SendingToCpu"
            /\ command_state'.buffer_idx = returned'
            /\ command_state'.remaining = received'[3].size - returned'
        BY <4>1, <4>2 DEF Sending, size
      <4>4. OfferingVram'
        BY <1>1, <4>1, <4>3 DEF OfferingVram, In
      <4>5. QED
        BY <4>4 DEF Follows
    <3>3. QED
      BY <3>1, <3>2
  <2>12. QED
    BY <2>1, <2>10, <2>11 DEF first, second, size
<1>2. CASE ~OfferingVram
  <2>1. ~ToRead /\ ~In("SendingToCpu")
    BY <1>2, OffersWhatIsDue
  <2>2. /\ gpu_read_buffer' = gpu_read_buffer /\ command_state' = command_state
        /\ received' = received /\ returned' = returned
        /\ parameters' = parameters /\ blit_buffer' = blit_buffer
    BY <2>1 DEF ReadPort
  <2>3. Follows'
    BY <2>2 DEF Follows, Idle, Collecting, Continuing, FillingVram, OfferingVram, In, Op
  <2>4. QED
    BY <2>1, <2>2, <2>3
<1>3. QED
  BY <1>1, <1>2
-----------------------------------------------------------------------------
\* The processor is always where the words since the last command say, with those words kept.
THEOREM WordsAreFollowed == Spec => []Follows
<1>1. Init => Follows
  BY DEF Init, Follows, Idle, In, Waiting
<1>2. TypeOK /\ Follows /\ [Next]_vars => Follows'
  <2> SUFFICES ASSUME TypeOK, Follows, [Next]_vars PROVE Follows'
    OBVIOUS
  <2>1. CASE HostWrites
    <3>1. PICK w \in NextWords : WriteGp0(w)
      BY <2>1 DEF HostWrites
    <3>2. w \in Word
      BY NextWordsAreWords
    <3>3. QED
      BY <3>1, <3>2, WordStep
  <2>2. CASE ReadPort
    BY <2>2, ReadStep
  <2>3. CASE ResetCommandBuffer \/ Reset
    <3>1. Idle'
      BY <2>3 DEF ResetCommandBuffer, Reset, Abandoned, Idle, In, Waiting
    <3>2. QED
      BY <3>1 DEF Follows
  <2>4. CASE \/ \E write \in RegisterWrites : WriteRegister(write)
             \/ \E field \in {"window", "top_left", "bottom_right", "offset"} : GetGpuInfo(field)
             \/ UNCHANGED vars
    <3>1. UNCHANGED <<command_state, parameters, blit_buffer, received, returned>>
      BY <2>4 DEF WriteRegister, GetGpuInfo, vars
    <3>2. QED
      BY <3>1 DEF Follows, Idle, Collecting, Continuing, FillingVram, OfferingVram, In, Op
  <2>5. QED
    BY <2>1, <2>2, <2>3, <2>4 DEF Next
<1>3. QED
  BY <1>1, <1>2, ParametersNeverOverflow, PTL DEF Spec

\* What is proved of the processor's place is what software can tell from the words it sent.
LEMMA PlaceIsKnown ==
  ASSUME TypeOK, Follows
  PROVE  StateFollowsWords
<1>1. CASE Idle
  BY <1>1 DEF Idle, StateFollowsWords, ToRead
<1>2. CASE OfferingVram
  <2>1. ToRead
    BY <1>2, OffersWhatIsDue
  <2>2. received # <<>> /\ ~(Len(received) < Length(Op))
    BY <1>2 DEF OfferingVram, Length
  <2>3. QED
    BY <1>2, <2>1, <2>2 DEF OfferingVram, StateFollowsWords
<1>3. CASE Collecting
  <2>1. ~ToRead
    BY <1>3, OffersWhatIsDue DEF Collecting, OfferingVram, In
  <2>2. QED
    BY <1>3, <2>1 DEF Collecting, StateFollowsWords
<1>4. CASE FillingVram \/ Continuing
  <2>1. ~ToRead
    BY <1>4, OffersWhatIsDue DEF FillingVram, Continuing, OfferingVram, In
  <2>2. /\ received # <<>> /\ Len(received) >= Length(Op)
        /\ received \in Seq(Word) /\ received[1] \in Word
    BY <1>4 DEF FillingVram, Continuing, TypeOK
  <2>3. ~(Len(received) < Length(Op))
    <3>1. Op \in AllCommands
      BY <2>2 DEF Op, Word
    <3>2. Length(Op) \in 1 .. 12
      BY ONLY <3>1, LengthsOfCommands
    <3>3. QED
      BY <2>2, <3>2
  <2>4. CASE FillingVram
    <3>1. Len(received) >= 3
      BY <2>2, <2>4 DEF FillingVram, Length
    <3>2. Len(DataOf(received)) = 2 * (Len(received) - 3)
      BY <2>2, <3>1, DataLength
    <3>3. QED
      BY <2>1, <2>2, <2>3, <2>4, <3>2 DEF FillingVram, StateFollowsWords
  <2>5. CASE Continuing
    <3>1. Op.kind = "Line" /\ Op.polyline
      BY <2>5 DEF Continuing, LineCommands
    <3>2. QED
      BY <2>1, <2>2, <2>3, <2>5, <3>1 DEF Continuing, StateFollowsWords
  <2>6. QED
    BY <1>4, <2>4, <2>5
<1>5. QED
  BY <1>1, <1>2, <1>3, <1>4 DEF Follows

\* The same place, as the status register tells it.
LEMMA StatusIsTrue ==
  ASSUME TypeOK, Follows
  PROVE  StatusTellsProgress
<1>1. In("WaitingForCommand") <=> received = <<>>
  BY DEF Follows, Idle, Collecting, Continuing, FillingVram, OfferingVram, In
<1>2. In("SendingToCpu") <=> ToRead
  BY OffersWhatIsDue
<1>3. In("ReceivingFromCpu") <=> FillingVram
  BY DEF Follows, Idle, Collecting, Continuing, FillingVram, OfferingVram, In
<1>4. FillingVram <=> received # <<>> /\ Op.kind = "CpuToVram" /\ Len(received) >= 3
  <2>1. Op.kind = "CpuToVram" => Length(Op) = 3
    BY DEF Length
  <2>2. FillingVram => received # <<>> /\ Op.kind = "CpuToVram" /\ Len(received) >= 3
    BY <2>1 DEF FillingVram
  <2>3. Op.kind = "CpuToVram" /\ Len(received) >= 3 => ~Collecting
    BY <2>1 DEF Collecting, TypeOK
  <2>4. Op.kind = "CpuToVram" => ~Continuing /\ ~OfferingVram
    BY DEF Continuing, LineCommands, OfferingVram
  <2>5. QED
    BY <2>2, <2>3, <2>4 DEF Follows, Idle
<1>5. ReadyForDma <=> \/ received = <<>>
                      \/ ToRead
                      \/ received # <<>> /\ Op.kind = "CpuToVram" /\ Len(received) >= 3
  BY <1>1, <1>2, <1>3, <1>4 DEF ReadyForDma, In
<1>6. /\ Status.command <=> In("WaitingForCommand")
      /\ Status.vram <=> In("SendingToCpu")
      /\ registers.dma_mode = 2 => (Status.request <=> ReadyForDma)
      /\ registers.dma_mode = 3 => (Status.request <=> In("SendingToCpu"))
  <2> DEFINE command == In("WaitingForCommand")
             offers == In("SendingToCpu")
             ready == ReadyForDma
             mode == registers.dma_mode
  <2>1. Status = [command |-> command, vram |-> offers, dma |-> ready,
                  request |-> CASE mode = 0 -> FALSE [] mode = 1 -> TRUE
                                [] mode = 2 -> ready [] mode = 3 -> offers]
    BY DEF Status
  <2>2. command \in BOOLEAN /\ offers \in BOOLEAN /\ ready \in BOOLEAN
    BY DEF In, ReadyForDma
  <2> HIDE DEF command, offers, ready, mode
  <2>3. Status.command = command /\ Status.vram = offers
    BY <2>1, <2>2
  <2>4. mode = 2 => Status.request = ready
    BY <2>1, <2>2
  <2>5. mode = 3 => Status.request = offers
    BY <2>1, <2>2
  <2>6. QED
    BY <2>3, <2>4, <2>5 DEF command, offers, ready, mode
<1>7. QED
  BY <1>1, <1>2, <1>5, <1>6 DEF StatusTellsProgress

\* Whatever commands, polylines, transfers and resets follow each other, and however long they
\* are, the processor and software agree on what comes next, and the status register says so.
THEOREM ProcessorFollowsWords == Spec => []InStepWithSoftware
<1>1. TypeOK /\ Follows => InStepWithSoftware
  BY PlaceIsKnown, StatusIsTrue DEF InStepWithSoftware
<1>2. QED
  BY <1>1, ParametersNeverOverflow, WordsAreFollowed, PTL

\* Every word makes the calls its command calls for, with that command's words alone, and a
\* transfer to the CPU gives it each halfword once and in order.
THEOREM CommandsAreDrawn == Spec => CommandsDrawWhatWasSent
<1>1. TypeOK /\ Follows =>
        \A w \in NextWords : WriteGp0(w) => drawn' = Meaning(Append(received, w))
  BY NextWordsAreWords, WordStep
<1>2. TypeOK /\ Follows =>
        (ReadPort =>
           gpu_read_buffer' =
             IF ToRead
             THEN [halves |-> <<Vram(returned + 1), IF returned + 2 <= received[3].size
                                                      THEN Vram(returned + 2) ELSE NoHalfword>>,
                   info |-> Zero]
             ELSE gpu_read_buffer)
  BY ReadStep
<1>3. Spec => DrawsWhatWasSent
  BY <1>1, ParametersNeverOverflow, WordsAreFollowed, PTL DEF DrawsWhatWasSent
<1>4. Spec => ReadsAreInOrder
  BY <1>2, ParametersNeverOverflow, WordsAreFollowed, PTL DEF ReadsAreInOrder
<1>5. QED
  BY <1>3, <1>4 DEF CommandsDrawWhatWasSent

-----------------------------------------------------------------------------
\* The state of a voice, and what holds of it and of what software told it.
VoiceFields == {"start", "repeat", "locked", "current", "restart_pending", "restart_delay",
                "release_pending", "soft_reset", "adsr", "settings", "left", "pitch_counter",
                "rate", "modulated"}
AdsrFields == {"level", "phase", "counter"}

IsAdsr(e) == DOMAIN e = AdsrFields
IsVoice(v) ==
  /\ DOMAIN v = VoiceFields /\ IsAdsr(v.adsr)
  /\ v.restart_delay \in 0 .. 5
  /\ v.restart_pending \in BOOLEAN /\ v.release_pending \in BOOLEAN /\ v.locked \in BOOLEAN

\* A key off is heard: the voice releases or is about to, and no start is left that forgets it.
Releases(v) == v.release_pending \/ v.adsr.phase = "Release"
Hears(v) == ~v.restart_pending /\ v.restart_delay # 5 /\ Releases(v)
LoopsTo(v, a) == v.locked /\ v.repeat = a /\ v.restart_delay = 0

SoundTypeOK ==
  /\ IsVoice(voice)
  /\ DOMAIN irq = {"enabled", "address", "flag", "last"}
  /\ DOMAIN told = {"off", "repeat", "moved"}
  /\ noise.shift \in NoiseShifts /\ noise.step \in NoiseSteps
  /\ DOMAIN noise = {"timer", "shift", "step"}
  /\ owed \in BOOLEAN

\* What software said last holds of the voice, the noise and the interrupt.
SoundAgrees ==
  /\ told.off = "heard" => Hears(voice)
  /\ told.repeat # SoundBlocks => LoopsTo(voice, told.repeat)
  /\ Sound!NoiseRateIsCurrent
  /\ owed => irq.flag /\ ~irq.last

SoundInv == SoundTypeOK /\ SoundAgrees

\* What the voice keeps of what software said while it decodes a block.
LEMMA DecodedKeeps ==
  ASSUME NEW v, IsVoice(v)
  PROVE  LET w == Sound!Decoded(v)
         IN /\ IsVoice(w)
            /\ w.restart_pending = v.restart_pending /\ w.restart_delay = v.restart_delay
            /\ w.release_pending = v.release_pending /\ w.locked = v.locked
            /\ v.adsr.phase = "Release" => w.adsr.phase = "Release"
            /\ v.locked => w.repeat = v.repeat
            /\ v.locked /\ ram[v.current].loop_end => w.current = v.repeat
<1> DEFINE header == ram[v.current]
           repeat == IF header.loop_start /\ ~v.locked THEN v.current ELSE v.repeat
           current == IF header.loop_end THEN repeat ELSE (v.current + 1) % SoundBlocks
           adsr == IF header.loop_end /\ ~header.loop_repeat THEN Sound!Silenced(v.adsr) ELSE v.adsr
           w == Sound!Decoded(v)
<1>1. w = [v EXCEPT !.repeat = repeat, !.current = current, !.adsr = adsr]
  BY DEF Sound!Decoded
<1>2. IsAdsr(adsr) /\ (v.adsr.phase = "Release" => adsr.phase = "Release")
  BY DEF Sound!Silenced, IsVoice, IsAdsr, AdsrFields
<1> HIDE DEF adsr, w
<1>3. v.locked => repeat = v.repeat
  OBVIOUS
<1>4. v.locked /\ header.loop_end => current = v.repeat
  OBVIOUS
<1> HIDE DEF repeat, current, header
<1>5. /\ DOMAIN w = VoiceFields
      /\ w.repeat = repeat /\ w.current = current /\ w.adsr = adsr /\ w.locked = v.locked
      /\ w.restart_pending = v.restart_pending /\ w.restart_delay = v.restart_delay
      /\ w.release_pending = v.release_pending
  BY <1>1 DEF IsVoice, VoiceFields
<1>6. QED
  BY <1>2, <1>3, <1>4, <1>5 DEF IsVoice, w, header

\* The envelope of a voice that is released stays released.
LEMMA ReleaseLasts ==
  ASSUME NEW e, NEW s, IsAdsr(e)
  PROVE  LET f == Sound!ClockAdsr(e, s)
         IN IsAdsr(f) /\ (e.phase = "Release" => f.phase = "Release")
<1> DEFINE f == Sound!ClockAdsr(e, s)
           phase == Sound!NextPhase(e, s)
<1>1. PICK counter, level :
        f = [e EXCEPT !.phase = phase, !.counter = counter]
        \/ f = [phase |-> phase, counter |-> counter, level |-> level]
  BY DEF Sound!ClockAdsr
<1>2. e.phase = "Release" => phase = "Release"
  BY DEF Sound!NextPhase, Sound!AfterAttack
<1> HIDE DEF f, phase
<1>3. DOMAIN f = AdsrFields /\ f.phase = phase
  <2>1. CASE f = [e EXCEPT !.phase = phase, !.counter = counter]
    BY <2>1 DEF IsAdsr, AdsrFields
  <2>2. CASE f = [phase |-> phase, counter |-> counter, level |-> level]
    BY <2>2 DEF AdsrFields
  <2>3. QED
    BY <1>1, <2>1, <2>2
<1>4. QED
  BY <1>2, <1>3 DEF IsAdsr, f

\* A voice that plays moves its samples and nothing that software said.
LEMMA PlayingKeeps ==
  ASSUME NEW v, NEW step, IsVoice(v), v.restart_delay = 0, ~v.restart_pending
  PROVE  LET w == Sound!Playing(v, step)
         IN /\ IsVoice(w)
            /\ Hears(v) => Hears(w)
            /\ \A a : LoopsTo(v, a) => LoopsTo(w, a)
            /\ \A a : LoopsTo(v, a) /\ ram[v.current].loop_end => w.current \in {v.current, a}
<1> DEFINE r == Sound!Released(v)
           adsr == Sound!ClockAdsr(r.adsr, r.settings)
           p == [r EXCEPT !.adsr = adsr]
           pitch == p.pitch_counter + step
           moved == [p EXCEPT !.pitch_counter = pitch % PitchUnit]
           taken == pitch \div PitchUnit
           w == Sound!Playing(v, step)
<1>1. w = IF taken < p.left THEN [moved EXCEPT !.left = @ - taken]
          ELSE [Sound!Decoded(moved) EXCEPT !.left = SamplesPerBlock - (taken - p.left)]
  BY DEF Sound!Playing, Sound!Advanced
<1>2. /\ IsVoice(r) /\ (Releases(v) => r.adsr.phase = "Release")
      /\ r.restart_pending = v.restart_pending /\ r.restart_delay = 0
      /\ r.locked = v.locked /\ r.repeat = v.repeat /\ r.current = v.current
  BY DEF IsVoice, Sound!Released, Sound!KeyOffAdsr, Releases, VoiceFields, AdsrFields, IsAdsr
<1> HIDE DEF r
<1>3. IsAdsr(adsr) /\ (Releases(v) => adsr.phase = "Release")
  BY <1>2, ReleaseLasts DEF IsVoice
<1> HIDE DEF adsr
<1>4. /\ IsVoice(p) /\ p.adsr = adsr
      /\ p.restart_pending = v.restart_pending /\ p.restart_delay = 0
      /\ p.locked = v.locked /\ p.repeat = v.repeat /\ p.current = v.current
  BY <1>2, <1>3 DEF IsVoice, VoiceFields
<1> HIDE DEF p, pitch, taken
<1>5. /\ IsVoice(moved) /\ moved.adsr = adsr
      /\ moved.restart_pending = v.restart_pending /\ moved.restart_delay = 0
      /\ moved.locked = v.locked /\ moved.repeat = v.repeat /\ moved.current = v.current
  BY <1>4 DEF IsVoice, VoiceFields
<1> HIDE DEF moved
<1>6. CASE taken < p.left
  <2>1. w = [moved EXCEPT !.left = moved.left - taken]
    BY <1>1, <1>6
  <2> HIDE DEF w
  <2>2. /\ IsVoice(w) /\ w.adsr = adsr
        /\ w.restart_pending = v.restart_pending /\ w.restart_delay = 0
        /\ w.locked = v.locked /\ w.repeat = v.repeat /\ w.current = v.current
    BY <2>1, <1>5 DEF IsVoice, VoiceFields
  <2>3. QED
    BY <2>2, <1>3 DEF Hears, Releases, LoopsTo, w
<1>7. CASE ~(taken < p.left)
  <2> DEFINE d == Sound!Decoded(moved)
             left == SamplesPerBlock - (taken - p.left)
  <2>1. w = [d EXCEPT !.left = left]
    BY <1>1, <1>7
  <2>2. /\ IsVoice(d)
        /\ d.restart_pending = v.restart_pending /\ d.restart_delay = 0
        /\ d.locked = v.locked
        /\ v.locked => d.repeat = v.repeat
        /\ v.locked /\ ram[v.current].loop_end => d.current = v.repeat
        /\ Releases(v) => d.adsr.phase = "Release"
    BY <1>5, <1>3, DecodedKeeps
  <2> HIDE DEF w, d, left
  <2>3. /\ IsVoice(w) /\ w.adsr = d.adsr
        /\ w.restart_pending = d.restart_pending /\ w.restart_delay = d.restart_delay
        /\ w.locked = d.locked /\ w.repeat = d.repeat /\ w.current = d.current
    BY <2>1, <2>2 DEF IsVoice, VoiceFields
  <2>4. QED
    BY <2>2, <2>3 DEF Hears, Releases, LoopsTo, w
<1>8. QED
  BY <1>6, <1>7

\* A clock of the voice: it restarts, waits or plays, and a key off that it is to hear and a
\* repeat address that it is to keep survive all three.
LEMMA ClockKeeps ==
  ASSUME NEW v, NEW step, IsVoice(v)
  PROVE  LET w == Sound!ClockVoice(v, step)
         IN /\ IsVoice(w)
            /\ Hears(v) => Hears(w)
            /\ \A a : ~v.restart_pending /\ LoopsTo(v, a) =>
                 /\ LoopsTo(w, a)
                 /\ ram[v.current].loop_end => w.current \in {v.current, a}
<1> DEFINE w == Sound!ClockVoice(v, step)
<1>1. CASE v.restart_pending
  <2> DEFINE u == [Sound!Unlocked(v) EXCEPT !.restart_pending = FALSE, !.restart_delay = 5,
                     !.adsr = Sound!KeyOnAdsr(@), !.current = v.start,
                     !.left = SamplesPerBlock, !.pitch_counter = 0]
  <2>1. w = Sound!Decoded(u)
    BY <1>1 DEF Sound!ClockVoice, Sound!Restarted
  <2>2. IsVoice(u)
    BY DEF IsVoice, Sound!Unlocked, Sound!KeyOnAdsr, VoiceFields, AdsrFields, IsAdsr
  <2>3. IsVoice(w)
    <3> HIDE DEF u, w
    <3> QED
      BY <2>1, <2>2, DecodedKeeps
  <2>4. QED
    BY <1>1, <2>3 DEF Hears
<1>2. CASE ~v.restart_pending /\ v.restart_delay # 0
  <2> DEFINE delay == v.restart_delay - 1
             adsr == IF Sound!PreventsStart(v, delay) THEN Sound!KeyOffAdsr(v.adsr) ELSE v.adsr
  <2>1. w = [v EXCEPT !.restart_delay = delay, !.release_pending = FALSE, !.adsr = adsr]
    BY <1>2 DEF Sound!ClockVoice, Sound!Delayed
  <2>2. delay \in 0 .. 4 /\ (v.restart_delay # 5 => delay \in 0 .. 3)
    BY <1>2 DEF IsVoice
  <2>3. IsAdsr(adsr) /\ (Hears(v) => adsr.phase = "Release")
    BY <2>2 DEF IsVoice, IsAdsr, AdsrFields, Hears, Releases, Sound!PreventsStart, Sound!KeyOffAdsr
  <2> HIDE DEF delay, adsr, w
  <2>4. /\ DOMAIN w = VoiceFields /\ w.restart_delay = delay /\ ~w.release_pending
        /\ w.release_pending \in BOOLEAN /\ w.adsr = adsr
        /\ w.restart_pending = v.restart_pending /\ w.locked = v.locked
    BY <2>1 DEF IsVoice, VoiceFields
  <2>5. IsVoice(w)
    BY <2>2, <2>3, <2>4 DEF IsVoice
  <2>6. Hears(v) => Hears(w)
    BY <2>2, <2>3, <2>4 DEF Hears, Releases
  <2>7. QED
    BY <2>5, <2>6, <1>2 DEF LoopsTo, w
<1>3. CASE ~v.restart_pending /\ v.restart_delay = 0
  <2>1. w = Sound!Playing(v, step)
    BY <1>3 DEF Sound!ClockVoice
  <2> HIDE DEF w
  <2>2. QED
    BY <2>1, <1>3, PlayingKeeps DEF w
<1>4. QED
  BY <1>1, <1>2, <1>3

-----------------------------------------------------------------------------
\* The noise generator never waits for longer than a period of its frequency.
LEMMA NoiseKeepsItsPeriod ==
  ASSUME NEW timer, NEW shift \in NoiseShifts
  PROVE  /\ timer \in 0 .. Sound!NoisePeriod(noise.shift) /\ noise.shift \in NoiseShifts =>
              Sound!NoiseTimer(timer, shift) \in 0 .. Sound!NoisePeriod(shift)
         /\ timer \in Int => timer % Sound!NoisePeriod(shift) \in 0 .. Sound!NoisePeriod(shift)
<1>1. Sound!NoisePeriod(shift) \in Nat \ {0}
  BY SoundAssumption DEF Sound!NoisePeriod
<1>2. noise.shift \in NoiseShifts => Sound!NoisePeriod(noise.shift) \in Nat
  BY SoundAssumption DEF Sound!NoisePeriod
<1> DEFINE now == Sound!NoisePeriod(noise.shift)
           period == Sound!NoisePeriod(shift)
<1>3. (timer \in 0 .. now /\ now \in Nat) => Sound!NoiseTimer(timer, shift) \in 0 .. period
  <2> HIDE DEF now
  <2> QED
    BY <1>1 DEF Sound!NoiseTimer, Sound!Smaller
<1>4. timer \in Int => timer % period \in 0 .. period
  <2> HIDE DEF period
  <2> QED
    BY <1>1 DEF period
<1>5. QED
  BY <1>2, <1>3, <1>4

LEMMA SoundStarts == MCInit => SoundInv
<1> SUFFICES ASSUME MCInit
             PROVE  SoundInv
  OBVIOUS
<1>1. Sound!Init
  BY DEF MCInit
<1>2. IsVoice(voice)
  BY <1>1 DEF Sound!Init, IsVoice, IsAdsr, VoiceFields, AdsrFields, Sound!NewAdsr
<1>3. noise.timer \in 0 .. Sound!NoisePeriod(noise.shift)
  BY <1>1, SoundAssumption DEF Sound!Init, Sound!NoisePeriod
<1>4. QED
  BY <1>1, <1>2, <1>3, SoundAssumption
     DEF Sound!Init, SoundInv, SoundTypeOK, SoundAgrees, Sound!NoiseRateIsCurrent

\* What a step does with a loop and with an access that is owed an interrupt.
LoopsNow ==
  told.repeat # SoundBlocks /\ ~voice.restart_pending /\ voice'.current # voice.current
    /\ ram[voice.current].loop_end => voice'.current = told.repeat
AnswersNow == owed /\ owed' = FALSE => istat' \/ ~irq'.enabled
StepAgrees == SoundInv' /\ LoopsNow /\ AnswersNow

\* Every clock keeps what was said and answers what is owed.
LEMMA ClockAgrees ==
  ASSUME SoundInv, Sound!Clock
  PROVE  StepAgrees
<1>1. PICK step, reverb :
        LET flag == Sound!Flagged(Sound!Reads(voice, step) \cup Sound!CaptureWrites \cup reverb)
        IN /\ voice' = Sound!ClockVoice(voice, step)
           /\ irq' = [irq EXCEPT !.flag = flag, !.last = Sound!LastBit(flag)]
           /\ istat' = (istat \/ (flag /\ ~irq.last))
           /\ told' = [told EXCEPT !.repeat = IF voice.restart_pending THEN SoundBlocks ELSE @,
                                    !.moved = volume'.volume # volume.volume]
  BY DEF Sound!Clock
<1>2. noise' = Sound!ClockNoise /\ owed' = FALSE
  BY DEF Sound!Clock
<1> DEFINE flag == Sound!Flagged(Sound!Reads(voice, step) \cup Sound!CaptureWrites \cup reverb)
<1>3. /\ IsVoice(voice')
      /\ Hears(voice) => Hears(voice')
      /\ ~voice.restart_pending /\ LoopsTo(voice, told.repeat) =>
           /\ LoopsTo(voice', told.repeat)
           /\ ram[voice.current].loop_end => voice'.current \in {voice.current, told.repeat}
  <2>1. voice' = Sound!ClockVoice(voice, step)
    BY <1>1
  <2>2. QED
    BY <2>1, ClockKeeps DEF SoundInv, SoundTypeOK
<1>4. /\ DOMAIN told' = {"off", "repeat", "moved"}
      /\ told'.off = told.off
      /\ told'.repeat = IF voice.restart_pending THEN SoundBlocks ELSE told.repeat
  BY <1>1 DEF SoundInv, SoundTypeOK
<1>5. /\ DOMAIN irq' = {"enabled", "address", "flag", "last"}
      /\ irq.flag => istat' \/ irq.last
  <2>1. irq.flag => flag
    BY DEF Sound!Flagged
  <2> HIDE DEF flag
  <2>2. /\ DOMAIN irq' = DOMAIN irq
        /\ istat' = (istat \/ (flag /\ ~irq.last))
    BY <1>1 DEF flag
  <2>3. QED
    BY <2>1, <2>2 DEF SoundInv, SoundTypeOK
<1>6. /\ DOMAIN noise' = {"timer", "shift", "step"}
      /\ noise'.shift = noise.shift /\ noise'.step = noise.step
      /\ Sound!NoiseRateIsCurrent'
  <2> DEFINE timer == noise.timer - (noise.step + 4)
             period == Sound!NoisePeriod(noise.shift)
             next == IF timer >= 0 THEN timer ELSE timer % period
  <2>1. noise' = [noise EXCEPT !.timer = next]
    BY <1>2 DEF Sound!ClockNoise
  <2>2. /\ period \in Nat \ {0} /\ noise.timer \in 0 .. period
        /\ noise.step \in Nat /\ noise.shift \in NoiseShifts
    BY SoundAssumption DEF Sound!NoisePeriod, SoundInv, SoundTypeOK, SoundAgrees, Sound!NoiseRateIsCurrent
  <2>3. timer \in Int /\ timer <= noise.timer
    BY <2>2
  <2>4. timer % period \in 0 .. period
    BY <2>2, <2>3, NoiseKeepsItsPeriod
  <2>5. next \in 0 .. period
    BY <2>2, <2>3, <2>4
  <2> HIDE DEF next, period
  <2>6. /\ DOMAIN noise' = {"timer", "shift", "step"}
        /\ noise'.shift = noise.shift /\ noise'.step = noise.step /\ noise'.timer = next
    BY <2>1 DEF SoundInv, SoundTypeOK
  <2>7. QED
    BY <2>5, <2>6 DEF Sound!NoiseRateIsCurrent, period, Sound!NoisePeriod
<1>7. SoundTypeOK'
  BY <1>2, <1>3, <1>4, <1>5, <1>6 DEF SoundInv, SoundTypeOK
<1>8. told'.off = "heard" => Hears(voice')
  BY <1>3, <1>4 DEF SoundInv, SoundAgrees
<1>9. told'.repeat # SoundBlocks => LoopsTo(voice', told'.repeat)
  BY <1>3, <1>4 DEF SoundInv, SoundAgrees
<1>10. SoundInv'
  BY <1>2, <1>6, <1>7, <1>8, <1>9 DEF SoundInv, SoundAgrees
<1>11. LoopsNow
  BY <1>3, <1>4 DEF SoundInv, SoundAgrees, LoopsNow
<1>12. AnswersNow
  BY <1>5 DEF SoundInv, SoundAgrees, AnswersNow
<1>13. QED
  BY <1>10, <1>11, <1>12 DEF StepAgrees

\* A write that leaves the voice, the interrupt and what was said alone, or changes fields of
\* the voice that no one was told about.
OtherFields == {"start", "rate", "modulated", "settings"}
LEMMA OtherWritesAgree ==
  ASSUME SoundInv, UNCHANGED <<irq, istat, noise, owed>>,
         DOMAIN voice' = VoiceFields, \A f \in VoiceFields \ OtherFields : voice'[f] = voice[f],
         DOMAIN told' = DOMAIN told, told'.off = told.off, told'.repeat = told.repeat
  PROVE  StepAgrees
<1>1. /\ voice'.restart_pending = voice.restart_pending /\ voice'.restart_delay = voice.restart_delay
      /\ voice'.release_pending = voice.release_pending /\ voice'.locked = voice.locked
      /\ voice'.adsr = voice.adsr /\ voice'.repeat = voice.repeat /\ voice'.current = voice.current
  BY DEF VoiceFields, OtherFields
<1>2. SoundTypeOK'
  BY <1>1 DEF SoundInv, SoundTypeOK, IsVoice
<1>3. SoundAgrees'
  BY <1>1 DEF SoundInv, SoundAgrees, Hears, Releases, LoopsTo, Sound!NoiseRateIsCurrent, Sound!NoisePeriod
<1>4. QED
  BY <1>1, <1>2, <1>3 DEF StepAgrees, SoundInv, SoundTypeOK, LoopsNow, AnswersNow

\* Keys: a key on forgets the key off before it, and a key off is heard unless a start is on
\* its way that has not run for a clock.
LEMMA KeysAgree ==
  ASSUME SoundInv, Sound!KeyWrites
  PROVE  StepAgrees
<1>1. /\ DOMAIN voice' = VoiceFields /\ voice'.restart_delay = voice.restart_delay
      /\ voice'.locked = voice.locked /\ voice'.adsr = voice.adsr /\ voice'.repeat = voice.repeat
      /\ voice'.current = voice.current /\ voice'.restart_pending \in BOOLEAN
      /\ voice'.release_pending \in BOOLEAN
      /\ DOMAIN told' = {"off", "repeat", "moved"} /\ told'.repeat = told.repeat
      /\ UNCHANGED <<irq, istat, noise, owed>>
  BY DEF Sound!KeyWrites, Sound!WriteKeyOn, Sound!WriteKeyOff, SoundInv, SoundTypeOK, IsVoice, VoiceFields
<1>2. told'.off = "heard" => Hears(voice')
  <2>1. Sound!WriteKeyOn => told'.off = "none"
    BY DEF Sound!WriteKeyOn, SoundInv, SoundTypeOK
  <2>2. Sound!WriteKeyOff =>
          /\ voice'.release_pending /\ voice'.restart_pending = voice.restart_pending
          /\ told'.off = "heard" => ~voice.restart_pending /\ voice.restart_delay # 5
    BY DEF Sound!WriteKeyOff, SoundInv, SoundTypeOK, IsVoice, VoiceFields
  <2>3. QED
    BY <1>1, <2>1, <2>2 DEF Sound!KeyWrites, Hears, Releases
<1>3. SoundTypeOK'
  BY <1>1 DEF SoundInv, SoundTypeOK, IsVoice
<1>4. SoundAgrees'
  BY <1>1, <1>2 DEF SoundInv, SoundAgrees, LoopsTo, Sound!NoiseRateIsCurrent, Sound!NoisePeriod
<1>5. QED
  BY <1>1, <1>3, <1>4 DEF StepAgrees, SoundInv, SoundTypeOK, LoopsNow, AnswersNow

\* A repeat address: it is kept from then on if the voice plays.
LEMMA RepeatAgrees ==
  ASSUME SoundInv, Sound!WriteRepeatAddress
  PROVE  StepAgrees
<1>1. PICK a \in Sound!Addresses :
        /\ voice' = [voice EXCEPT !.repeat = a, !.locked = Sound!Locks(voice)]
        /\ told' = [told EXCEPT !.repeat = IF voice.restart_delay = 0 THEN a ELSE @]
  BY DEF Sound!WriteRepeatAddress
<1>2. UNCHANGED <<irq, istat, noise, owed>>
  BY DEF Sound!WriteRepeatAddress
<1>3. /\ DOMAIN voice' = VoiceFields /\ voice'.restart_delay = voice.restart_delay
      /\ voice'.adsr = voice.adsr /\ voice'.current = voice.current
      /\ voice'.restart_pending = voice.restart_pending
      /\ voice'.release_pending = voice.release_pending
      /\ voice'.repeat = a /\ voice'.locked = Sound!Locks(voice)
  BY <1>1 DEF SoundInv, SoundTypeOK, IsVoice, VoiceFields
<1>4. /\ DOMAIN told' = {"off", "repeat", "moved"} /\ told'.off = told.off
      /\ told'.repeat = IF voice.restart_delay = 0 THEN a ELSE told.repeat
  BY <1>1 DEF SoundInv, SoundTypeOK
<1>5. Sound!Locks(voice) = (voice.locked \/ voice.restart_delay = 0)
  BY DEF Sound!Locks
<1>6. SoundTypeOK'
  BY <1>2, <1>3, <1>4, <1>5 DEF SoundInv, SoundTypeOK, IsVoice
<1>7. told'.repeat # SoundBlocks => LoopsTo(voice', told'.repeat)
  BY <1>3, <1>4, <1>5 DEF SoundInv, SoundAgrees, LoopsTo
<1>8. SoundAgrees'
  BY <1>2, <1>3, <1>4, <1>7
     DEF SoundInv, SoundAgrees, Hears, Releases, Sound!NoiseRateIsCurrent, Sound!NoisePeriod
<1>9. QED
  BY <1>2, <1>3, <1>6, <1>8 DEF StepAgrees, SoundInv, SoundTypeOK, LoopsNow, AnswersNow

\* SPUCNT: a soft reset releases the voice, the noise takes its new frequency at once, and what
\* is owed is dropped with the interrupt.
LEMMA SpucntAgrees ==
  ASSUME SoundInv, NEW reset \in BOOLEAN, NEW enabled \in BOOLEAN,
         NEW shift \in NoiseShifts, NEW step \in NoiseSteps,
         Sound!WriteSpucnt(reset, enabled, shift, step)
  PROVE  StepAgrees
<1> DEFINE adsr == IF reset THEN Sound!Silenced(voice.adsr) ELSE voice.adsr
<1>1. /\ voice' = [voice EXCEPT !.soft_reset = reset, !.adsr = adsr]
      /\ noise' = [timer |-> Sound!NoiseTimer(noise.timer, shift), shift |-> shift, step |-> step]
      /\ irq' = [irq EXCEPT !.enabled = enabled, !.flag = irq.flag /\ enabled]
      /\ owed' = (owed /\ enabled) /\ UNCHANGED <<istat, told>>
  BY DEF Sound!WriteSpucnt, Sound!SoftReset
<1>2. IsAdsr(adsr) /\ (voice.adsr.phase = "Release" => adsr.phase = "Release")
  BY DEF Sound!Silenced, SoundInv, SoundTypeOK, IsVoice, IsAdsr, AdsrFields
<1> HIDE DEF adsr
<1>3. /\ DOMAIN voice' = VoiceFields /\ voice'.restart_delay = voice.restart_delay
      /\ voice'.adsr = adsr /\ voice'.current = voice.current
      /\ voice'.restart_pending = voice.restart_pending
      /\ voice'.release_pending = voice.release_pending
      /\ voice'.repeat = voice.repeat /\ voice'.locked = voice.locked
  BY <1>1 DEF SoundInv, SoundTypeOK, IsVoice, VoiceFields
<1>4. /\ noise'.shift = shift /\ noise'.step = step /\ DOMAIN noise' = {"timer", "shift", "step"}
      /\ noise'.timer = Sound!NoiseTimer(noise.timer, shift)
  BY <1>1
<1>5. Sound!NoiseRateIsCurrent'
  <2>1. Sound!NoiseTimer(noise.timer, shift) \in 0 .. Sound!NoisePeriod(shift)
    BY NoiseKeepsItsPeriod DEF SoundInv, SoundTypeOK, SoundAgrees, Sound!NoiseRateIsCurrent
  <2>2. QED
    BY <1>4, <2>1 DEF Sound!NoiseRateIsCurrent, Sound!NoisePeriod
<1>6. /\ DOMAIN irq' = {"enabled", "address", "flag", "last"}
      /\ irq'.enabled = enabled /\ irq'.flag = (irq.flag /\ enabled) /\ irq'.last = irq.last
  BY <1>1 DEF SoundInv, SoundTypeOK
<1>7. SoundTypeOK'
  BY <1>1, <1>2, <1>3, <1>4, <1>6 DEF SoundInv, SoundTypeOK, IsVoice
<1>8. SoundAgrees'
  BY <1>1, <1>2, <1>3, <1>5, <1>6 DEF SoundInv, SoundAgrees, Hears, Releases, LoopsTo
<1>9. AnswersNow
  BY <1>1, <1>6 DEF AnswersNow, SoundInv, SoundTypeOK
<1>10. QED
  BY <1>3, <1>7, <1>8, <1>9 DEF StepAgrees, SoundInv, LoopsNow

\* The data port and the IRQ address: an access that is owed an interrupt has raised the flag.
LEMMA RamAgrees ==
  ASSUME SoundInv, Sound!RamAccesses \/ Sound!WriteIrqAddress \/ Sound!AcknowledgeIrq
  PROVE  StepAgrees
<1>1. UNCHANGED <<voice, noise, told>>
  BY DEF Sound!RamAccesses, Sound!WriteTransferAddress, Sound!WriteDataPort, Sound!ReadDataPort,
         Sound!WriteIrqAddress, Sound!AcknowledgeIrq
<1>2. /\ DOMAIN irq' = {"enabled", "address", "flag", "last"}
      /\ owed' \in BOOLEAN /\ (owed' => irq'.flag /\ ~irq'.last) /\ (owed => owed')
  <2>1. CASE UNCHANGED <<irq, owed>>
    BY <2>1 DEF SoundInv, SoundTypeOK, SoundAgrees
  <2>2. CASE Sound!Access(port)
    <3> DEFINE flag == Sound!Flagged({port})
               touched == Sound!Touched({port})
    <3>1. irq' = [irq EXCEPT !.flag = flag] /\ owed' = (owed \/ (touched /\ ~irq.last))
      BY <2>2 DEF Sound!Access
    <3>2. flag = (irq.flag \/ touched)
      BY DEF Sound!Flagged
    <3> HIDE DEF flag, touched
    <3>3. DOMAIN irq' = DOMAIN irq /\ irq'.flag = flag /\ irq'.last = irq.last
      BY <3>1 DEF SoundInv, SoundTypeOK
    <3>4. QED
      BY <3>1, <3>2, <3>3 DEF SoundInv, SoundTypeOK, SoundAgrees
  <2>3. CASE Sound!WriteIrqAddress
    <3>1. PICK a : irq' = [irq EXCEPT !.address = a]
      BY <2>3 DEF Sound!WriteIrqAddress
    <3>2. owed' = owed
      BY <2>3 DEF Sound!WriteIrqAddress
    <3>3. DOMAIN irq' = DOMAIN irq /\ irq'.flag = irq.flag /\ irq'.last = irq.last
      BY <3>1 DEF SoundInv, SoundTypeOK
    <3>4. QED
      BY <3>2, <3>3 DEF SoundInv, SoundTypeOK, SoundAgrees
  <2>4. QED
    BY <2>1, <2>2, <2>3
       DEF Sound!RamAccesses, Sound!WriteTransferAddress, Sound!WriteDataPort, Sound!ReadDataPort,
           Sound!AcknowledgeIrq
<1>3. SoundTypeOK'
  BY <1>1, <1>2 DEF SoundInv, SoundTypeOK
<1>4. SoundAgrees'
  BY <1>1, <1>2 DEF SoundInv, SoundAgrees, Sound!NoiseRateIsCurrent, Sound!NoisePeriod
<1>5. QED
  BY <1>1, <1>2, <1>3, <1>4 DEF StepAgrees, SoundInv, SoundTypeOK, LoopsNow, AnswersNow

\* A write of a register that nothing else above is about.
LEMMA RegistersAgree ==
  ASSUME SoundInv,
         \/ Sound!WriteStartAddress \/ Sound!WriteSampleRate \/ Sound!WriteAdsrSettings
         \/ Sound!WriteVolume \/ UNCHANGED sound
  PROVE  StepAgrees
<1>1. DOMAIN voice = VoiceFields /\ DOMAIN told = {"off", "repeat", "moved"}
  BY DEF SoundInv, SoundTypeOK, IsVoice
<1>2. UNCHANGED <<irq, istat, noise, owed>>
  BY DEF Sound!WriteStartAddress, Sound!WriteSampleRate, Sound!WriteAdsrSettings,
         Sound!WriteVolume, sound
<1>3. DOMAIN told' = DOMAIN told /\ told'.off = told.off /\ told'.repeat = told.repeat
  BY <1>1 DEF Sound!WriteStartAddress, Sound!WriteSampleRate, Sound!WriteAdsrSettings,
         Sound!WriteVolume, sound
<1>4. \/ UNCHANGED voice
      \/ \E x : \/ voice' = [voice EXCEPT !.start = x]
                \/ voice' = [voice EXCEPT !.rate = x]
                \/ voice' = [voice EXCEPT !.modulated = x]
                \/ voice' = [voice EXCEPT !.settings = x]
  BY DEF Sound!WriteStartAddress, Sound!WriteSampleRate, Sound!WriteAdsrSettings,
         Sound!WriteVolume, sound
<1>5. DOMAIN voice' = VoiceFields /\ \A f \in VoiceFields \ OtherFields : voice'[f] = voice[f]
  BY <1>1, <1>4 DEF VoiceFields, OtherFields
<1>6. QED
  BY <1>2, <1>3, <1>5, OtherWritesAgree

\* Every step of every part.
LEMMA SoundSteps ==
  ASSUME SoundInv, [MCNext]_mc_vars
  PROVE  StepAgrees
<1>1. CASE SoundStep
  <2>1. CASE KeysStep
    BY <2>1, KeysAgree, RegistersAgree, SpucntAgrees, SoundAssumption DEF KeysStep
  <2>2. CASE LoopsStep
    <3>1. Sound!WriteKeyOn => Sound!KeyWrites
      BY DEF Sound!KeyWrites
    <3>2. Sound!WriteDataPort => Sound!RamAccesses
      BY DEF Sound!RamAccesses
    <3>3. Sound!LoopWrites => StepAgrees
      BY RegistersAgree, RepeatAgrees DEF Sound!LoopWrites
    <3>4. QED
      BY <2>2, <3>1, <3>2, <3>3, KeysAgree, RamAgrees DEF LoopsStep
  <2>3. CASE IrqStep
    BY <2>3, RegistersAgree, RamAgrees, SpucntAgrees, SoundAssumption DEF IrqStep
  <2>4. CASE Sound!WriteVolume
    BY <2>4, RegistersAgree
  <2>5. CASE \E shift \in NoiseShifts, step \in NoiseSteps : Sound!WriteSpucnt(TRUE, FALSE, shift, step)
    BY <2>5, SpucntAgrees
  <2>6. CASE Sound!Clock
    BY <2>6, ClockAgrees
  <2>7. QED
    BY <1>1, <2>1, <2>2, <2>3, <2>4, <2>5, <2>6 DEF SoundStep
<1>2. CASE UNCHANGED sound
  BY <1>2, RegistersAgree
<1>3. QED
  BY <1>1, <1>2 DEF MCNext, mc_vars

\* The invariant holds in every state.
LEMMA SoundIsAgreed == MCSpec => []SoundInv
<1>1. SoundInv /\ [MCNext]_mc_vars => SoundInv'
  BY SoundSteps DEF StepAgrees
<1>2. QED
  BY <1>1, SoundStarts, PTL DEF MCSpec

\* A key off is heard, however many key ons and clocks came before it: the voice releases, or is
\* told to at its next clock.  And the noise is never further from its next sample than the
\* period of the frequency software chose last.
THEOREM VoicesAlwaysObey == MCSpec => []VoicesObey
<1>1. SoundInv => VoicesObey
  BY DEF SoundInv, SoundAgrees, VoicesObey, Hears, Releases, Sound!KeyOffIsHeard
<1>2. QED
  BY <1>1, SoundIsAgreed, PTL

\* A voice loops to the address that software wrote while it played, whatever loop starts its
\* samples mark, and an access to the IRQ address interrupts at the next clock unless software
\* disables the interrupt first.
THEOREM SoundRamIsAlwaysObserved == MCSpec => SoundRamIsObserved
<1>1. SoundInv /\ [MCNext]_mc_vars => LoopsNow /\ AnswersNow
  BY SoundSteps DEF StepAgrees
<1>2. MCSpec => [][LoopsNow]_(Sound!vars) /\ [][AnswersNow]_(Sound!vars)
  BY <1>1, SoundIsAgreed, PTL DEF MCSpec
<1>3. QED
  BY <1>2 DEF SoundRamIsObserved, Sound!LoopsWhereTold, Sound!AccessInterrupts, LoopsNow, AnswersNow

-----------------------------------------------------------------------------
\* Every set of numbers has a least one, which stands for induction.
LEMMA LeastNumber ==
  ASSUME NEW S \in SUBSET Nat, S # {}
  PROVE  \E k \in S : \A i \in S : k <= i
<1>1. PICK k \in S : \A i \in S : ~(<<i, k>> \in OpToRel(<, Nat))
  BY NatLessThanWellFounded, WFMin
<1>2. \A i \in S : ~(i < k)
  BY <1>1 DEF OpToRel
<1>3. QED
  BY <1>2

LEMMA MaxIs ==
  ASSUME NEW n \in Nat, NEW S \in SUBSET (0 .. n), S # {}
  PROVE  Wgpu!Max(S) \in S /\ \A y \in S : y <= Wgpu!Max(S)
<1> DEFINE Below == {n - y : y \in S}
<1>1. Below \in SUBSET Nat /\ Below # {}
  <2>1. \A y \in S : n - y \in Nat
    OBVIOUS
  <2>2. QED
    BY <2>1
<1>2. PICK k \in Below : \A i \in Below : k <= i
  <2> HIDE DEF Below
  <2> QED
    BY <1>1, LeastNumber
<1>3. PICK x \in S : k = n - x
  OBVIOUS
<1>4. \A y \in S : x >= y
  <2> TAKE y \in S
  <2>1. n - y \in Below
    OBVIOUS
  <2>2. x \in Nat /\ y \in Nat
    OBVIOUS
  <2>3. n - x <= n - y
    BY <1>2, <1>3, <2>1
  <2>4. QED
    BY <2>2, <2>3
<1>5. Wgpu!Max(S) \in S /\ \A y \in S : Wgpu!Max(S) >= y
  BY <1>4 DEF Wgpu!Max
<1>6. QED
  BY <1>5

LEMMA MinIs ==
  ASSUME NEW S \in SUBSET Nat, S # {}
  PROVE  Wgpu!Min(S) \in S /\ \A y \in S : Wgpu!Min(S) <= y
BY LeastNumber DEF Wgpu!Min

\* A function that takes each of its values from one before it exists, and there is only one.
IsPath(f, n, S, b, from, step) ==
  /\ f \in [0 .. n -> S] /\ f[0] = b
  /\ \A i \in 1 .. n : f[i] = step[i][f[from[i]]]

LEMMA PathsExist ==
  ASSUME NEW S, NEW b \in S, NEW n \in Nat, NEW from, \A i \in 1 .. n : from[i] \in 0 .. i - 1,
         NEW step, \A i \in 1 .. n : \A x \in S : step[i][x] \in S
  PROVE  \E f : IsPath(f, n, S, b, from, step)
<1> DEFINE Missing == {k \in 0 .. n : ~ \E f : IsPath(f, k, S, b, from, step)}
<1>1. SUFFICES ASSUME Missing # {} PROVE FALSE
  OBVIOUS
<1>2. PICK k \in Missing : \A i \in Missing : k <= i
  <2>1. Missing \in SUBSET Nat
    OBVIOUS
  <2> HIDE DEF Missing
  <2>2. QED
    BY <1>1, <2>1, LeastNumber
<1>3. k # 0
  <2>1. IsPath([i \in 0 .. 0 |-> b], 0, S, b, from, step)
    BY DEF IsPath
  <2>2. QED
    BY <2>1
<1>4. k - 1 \in 0 .. n /\ k - 1 \notin Missing
  BY <1>2, <1>3
<1>5. PICK f : IsPath(f, k - 1, S, b, from, step)
  BY <1>4
<1> DEFINE next == step[k][f[from[k]]]
           g == [i \in 0 .. k |-> IF i = k THEN next ELSE f[i]]
<1>6. k \in 1 .. n /\ from[k] \in 0 .. k - 1
  BY <1>3
<1>7. next \in S
  BY <1>5, <1>6 DEF IsPath
<1>8. \A i \in 1 .. k : from[i] \in 0 .. k - 1
  BY <1>6
<1> HIDE DEF next, Missing
<1>9. g \in [0 .. k -> S] /\ g[0] = b
  BY <1>5, <1>6, <1>7 DEF IsPath
<1>10. \A i \in 1 .. k : g[i] = step[i][g[from[i]]]
  <2> TAKE i \in 1 .. k
  <2>1. g[from[i]] = f[from[i]]
    BY <1>8, <1>6
  <2>2. CASE i = k
    BY <2>1, <2>2, <1>6 DEF next
  <2>3. CASE i # k
    <3>1. i \in 1 .. k - 1
      BY <2>3, <1>6
    <3>2. g[i] = f[i]
      BY <2>3, <1>6
    <3>3. f[i] = step[i][f[from[i]]]
      BY <3>1, <1>5 DEF IsPath
    <3>4. QED
      BY <2>1, <3>2, <3>3
  <2>4. QED
    BY <2>2, <2>3
<1>11. IsPath(g, k, S, b, from, step)
  BY <1>9, <1>10 DEF IsPath
<1>12. QED
  BY <1>11 DEF Missing

GoTogether(n, from, f, g) ==
  /\ f[0] = g[0]
  /\ \A i \in 1 .. n : from[i] \in 0 .. i - 1 /\ (f[from[i]] = g[from[i]] => f[i] = g[i])

LEMMA PathsAgree ==
  ASSUME NEW n \in Nat, NEW from, NEW f, NEW g, GoTogether(n, from, f, g)
  PROVE  \A i \in 0 .. n : f[i] = g[i]
<1> DEFINE Differ == {k \in 0 .. n : f[k] # g[k]}
<1>1. SUFFICES ASSUME Differ # {} PROVE FALSE
  OBVIOUS
<1>2. PICK k \in Differ : \A i \in Differ : k <= i
  <2>1. Differ \in SUBSET Nat
    OBVIOUS
  <2> HIDE DEF Differ
  <2>2. QED
    BY <1>1, <2>1, LeastNumber
<1>3. k \in 1 .. n
  BY DEF GoTogether
<1>4. from[k] \in 0 .. k - 1
  BY <1>3 DEF GoTogether
<1>5. from[k] \notin Differ
  BY <1>2, <1>3, <1>4
<1>6. from[k] \in 0 .. n
  BY <1>3, <1>4
<1>7. QED
  BY <1>3, <1>5, <1>6 DEF GoTogether

-----------------------------------------------------------------------------
\* What VRAM holds, a number per tile for what was drawn there last, and the queue of commands.
Contents == [Tiles -> Nat]
Memory == [scaled: Contents, copy: Contents, native: Contents, stale: BOOLEAN]
DrawnCommands ==
  [kind: {"Draw"}, area: SUBSET Tiles, masked: BOOLEAN, value: Nat, direct: BOOLEAN,
   expected: UNION {[S -> Nat] : S \in SUBSET Tiles}]
BlitCommands ==
  {c \in [kind: {"Blit"}, area: SUBSET Tiles, reached: SUBSET Tiles, value: Nat] : c.reached \subseteq c.area}
CopyCommands == [kind: {"Copy"}, copy: [source: Tiles, dest: Tiles]]
SyncCommands == [kind: {"ScaledNativeSync"}, area: SUBSET Tiles]
Queueable == DrawnCommands \union BlitCommands \union CopyCommands \union SyncCommands
Paints == DrawnCommands \union BlitCommands

\* A queued command is of one kind, which is that of its batch.
LEMMA KindsOfQueued ==
  ASSUME NEW c \in Queueable
  PROVE  /\ c.kind \in {"Draw", "Blit", "Copy", "ScaledNativeSync"}
         /\ c.kind = "Draw" <=> c \in DrawnCommands
         /\ c.kind = "Blit" <=> c \in BlitCommands
         /\ c.kind = "Copy" <=> c \in CopyCommands
         /\ c.kind = "ScaledNativeSync" <=> c \in SyncCommands
         /\ Wgpu!TypeOf(c) \in Wgpu!OwnBatch <=> c.kind \in {"Copy", "ScaledNativeSync"}
         /\ \A d \in Queueable : Wgpu!TypeOf(c) = Wgpu!TypeOf(d) => c.kind = d.kind
<1>1. \A d \in Queueable :
        /\ d.kind \in {"Draw", "Blit", "Copy", "ScaledNativeSync"}
        /\ d.kind = "Draw" <=> d \in DrawnCommands
        /\ d.kind = "Blit" <=> d \in BlitCommands
        /\ d.kind = "Copy" <=> d \in CopyCommands
        /\ d.kind = "ScaledNativeSync" <=> d \in SyncCommands
  BY DEF Queueable, DrawnCommands, BlitCommands, CopyCommands, SyncCommands
<1>2. \A d \in Queueable :
        Wgpu!TypeOf(d) = IF d.kind # "Draw" THEN d.kind
                         ELSE IF d.masked THEN "DrawCheckMaskBit" ELSE "Draw"
  BY DEF Wgpu!TypeOf
<1>3. QED
  BY <1>1, <1>2 DEF Wgpu!OwnBatch

\* Where the batch of a command starts.
LEMMA BatchStartIs ==
  ASSUME NEW q \in Seq(Queueable), NEW i \in 1 .. Len(q)
  PROVE  LET s == Wgpu!BatchStart(q, i)
         IN /\ s \in 1 .. i
            /\ s = 1 \/ Wgpu!TypeOf(q[s]) # Wgpu!TypeOf(q[s - 1]) \/ Wgpu!TypeOf(q[s]) \in Wgpu!OwnBatch
            /\ \A j \in s + 1 .. i : /\ Wgpu!TypeOf(q[j]) = Wgpu!TypeOf(q[j - 1])
                                     /\ Wgpu!TypeOf(q[j]) \notin Wgpu!OwnBatch
<1> DEFINE S == {j \in 1 .. i : \/ j = 1 \/ Wgpu!TypeOf(q[j]) # Wgpu!TypeOf(q[j - 1])
                                \/ Wgpu!TypeOf(q[j]) \in Wgpu!OwnBatch}
<1>1. Wgpu!BatchStart(q, i) = Wgpu!Max(S)
  BY DEF Wgpu!BatchStart
<1>2. 1 \in S /\ S \in SUBSET (0 .. i) /\ i \in Nat
  OBVIOUS
<1>3. Wgpu!Max(S) \in S /\ \A y \in S : y <= Wgpu!Max(S)
  <2> HIDE DEF S
  <2> QED
    BY <1>2, MaxIs
<1> DEFINE s == Wgpu!BatchStart(q, i)
<1>4. s \in S /\ \A y \in S : y <= s
  BY <1>1, <1>3
<1> HIDE DEF s
<1>5. s \in 1 .. i
  BY <1>4
<1>6. \A j \in s + 1 .. i : j \in 1 .. i /\ j # 1 /\ j \notin S
  BY <1>4, <1>5
<1>7. QED
  BY <1>4, <1>5, <1>6 DEF s

\* The commands of a batch are of one kind.
LEMMA BatchesAreOfOneKind ==
  ASSUME NEW q \in Seq(Queueable), NEW i \in 1 .. Len(q), NEW j \in Wgpu!BatchStart(q, i) .. i
  PROVE  /\ Wgpu!TypeOf(q[j]) = Wgpu!TypeOf(q[Wgpu!BatchStart(q, i)])
         /\ q[j].kind = q[Wgpu!BatchStart(q, i)].kind
<1> DEFINE s == Wgpu!BatchStart(q, i)
           Bad == {k \in s .. i : Wgpu!TypeOf(q[k]) # Wgpu!TypeOf(q[s])}
<1>1. s \in 1 .. i /\ \A k \in s + 1 .. i : Wgpu!TypeOf(q[k]) = Wgpu!TypeOf(q[k - 1])
  BY BatchStartIs
<1> HIDE DEF s
<1>2. Bad = {}
  <2>1. SUFFICES ASSUME Bad # {} PROVE FALSE
    OBVIOUS
  <2>2. PICK k \in Bad : \A m \in Bad : k <= m
    <3>1. Bad \in SUBSET Nat
      BY <1>1
    <3>2. QED
      BY <2>1, <3>1, LeastNumber
  <2>3. k \in s + 1 .. i
    BY <1>1
  <2>4. k - 1 \notin Bad /\ k - 1 \in s .. i
    BY <1>1, <2>2, <2>3
  <2>5. QED
    BY <1>1, <2>3, <2>4
<1>3. Wgpu!TypeOf(q[j]) = Wgpu!TypeOf(q[s])
  BY <1>2 DEF s
<1>4. q[j] \in Queueable /\ q[s] \in Queueable
  <2>1. j \in 1 .. Len(q) /\ s \in 1 .. Len(q)
    BY <1>1 DEF s
  <2>2. QED
    BY <2>1, ElementOfSeq
<1>5. QED
  BY <1>3, <1>4, KindsOfQueued DEF s

\* Behind the commands of a queue, a command starts a batch of its own or goes on with the
\* last one, and the batches before it stay.
LEMMA BatchesStay ==
  ASSUME NEW q \in Seq(Queueable), NEW c \in Queueable
  PROVE  LET more == Append(q, c)
             n == Len(q)
         IN /\ \A i \in 1 .. n : Wgpu!BatchStart(more, i) = Wgpu!BatchStart(q, i)
            /\ \/ Wgpu!BatchStart(more, n + 1) = n + 1
               \/ n # 0 /\ Wgpu!BatchStart(more, n + 1) = Wgpu!BatchStart(q, n)
<1> DEFINE more == Append(q, c)
           n == Len(q)
           StartsAt(x, j) == \/ j = 1 \/ Wgpu!TypeOf(x[j]) # Wgpu!TypeOf(x[j - 1])
                             \/ Wgpu!TypeOf(x[j]) \in Wgpu!OwnBatch
           S(x, i) == {j \in 1 .. i : StartsAt(x, j)}
<1>1. \A x, i : Wgpu!BatchStart(x, i) = Wgpu!Max(S(x, i))
  BY DEF Wgpu!BatchStart
<1>2. n \in Nat /\ \A j \in 1 .. n : more[j] = q[j]
  OBVIOUS
<1>3. \A j \in 1 .. n : StartsAt(more, j) <=> StartsAt(q, j)
  BY <1>2
<1> HIDE DEF StartsAt, more, n
<1>4. \A i \in 1 .. n : S(more, i) = S(q, i)
  BY <1>2, <1>3
<1>5. CASE StartsAt(more, n + 1)
  <2>1. n + 1 \in S(more, n + 1) /\ S(more, n + 1) \in SUBSET (0 .. n + 1) /\ n + 1 \in Nat
    BY <1>2, <1>5
  <2>2. Wgpu!Max(S(more, n + 1)) \in S(more, n + 1) /\ \A y \in S(more, n + 1) : y <= Wgpu!Max(S(more, n + 1))
    <3> HIDE DEF S
    <3> QED
      BY <2>1, MaxIs
  <2>3. Wgpu!Max(S(more, n + 1)) = n + 1
    BY <1>2, <2>1, <2>2
  <2>4. QED
    BY <1>1, <1>4, <2>3 DEF more, n
<1>6. CASE ~StartsAt(more, n + 1)
  <2>1. n # 0
    BY <1>6 DEF StartsAt
  <2>2. S(more, n + 1) = S(more, n)
    BY <1>2, <1>6
  <2>3. S(more, n) = S(q, n)
    BY <1>2, <1>4, <2>1
  <2>4. Wgpu!BatchStart(more, n + 1) = Wgpu!BatchStart(q, n)
    BY <1>1, <2>2, <2>3
  <2>5. QED
    BY <1>1, <1>4, <2>1, <2>4 DEF more, n
<1>7. QED
  BY <1>5, <1>6
-----------------------------------------------------------------------------
\* A stretch of paints leaves numbers on every tile.
LEMMA PaintedTypes ==
  ASSUME NEW x \in Contents, NEW q, NEW first \in Nat, NEW last \in Nat,
         \A i \in first .. last : q[i] \in Paints
  PROVE  Wgpu!Painted(x, q, first .. last) \in Contents
<1> SUFFICES ASSUME NEW t \in Tiles
             PROVE  (LET over == {i \in first .. last : t \in q[i].area}
                     IN IF over = {} THEN x[t] ELSE q[Wgpu!Max(over)].value) \in Nat
  BY DEF Wgpu!Painted, Contents
<1> DEFINE over == {i \in first .. last : t \in q[i].area}
<1>1. x[t] \in Nat
  BY DEF Contents
<1>2. CASE over # {}
  <2>1. over \in SUBSET (0 .. last)
    OBVIOUS
  <2>2. Wgpu!Max(over) \in over
    <3> HIDE DEF over
    <3> QED
      BY <1>2, <2>1, MaxIs
  <2>3. q[Wgpu!Max(over)] \in Paints
    BY <2>2
  <2>4. QED
    BY <1>2, <2>3 DEF Paints, DrawnCommands, BlitCommands
<1>3. QED
  BY <1>1, <1>2

\* One more paint covers what is there.
LEMMA PaintedOver ==
  ASSUME NEW x \in Contents, NEW q \in Seq(Queueable), NEW c \in Paints, NEW first \in 1 .. Len(q) + 1
  PROVE  Wgpu!Painted(x, Append(q, c), first .. Len(q) + 1)
           = Wgpu!Written(Wgpu!Painted(x, q, first .. Len(q)), c.area, c.value)
<1> DEFINE n == Len(q)
           more == Append(q, c)
           Over(z, last, t) == {i \in first .. last : t \in z[i].area}
           At(z, last, t) == IF Over(z, last, t) = {} THEN x[t] ELSE z[Wgpu!Max(Over(z, last, t))].value
<1>1. n \in Nat /\ more[n + 1] = c /\ \A i \in 1 .. n : more[i] = q[i]
  OBVIOUS
<1>2. ASSUME NEW t \in Tiles
      PROVE  At(more, n + 1, t) = IF t \in c.area THEN c.value ELSE At(q, n, t)
  <2> HIDE DEF n, more
  <2>1. CASE t \in c.area
    <3> DEFINE over == Over(more, n + 1, t)
    <3>1. n + 1 \in over /\ over \in SUBSET (0 .. n + 1) /\ n + 1 \in Nat
      BY <1>1, <2>1 DEF n
    <3>2. Wgpu!Max(over) \in over /\ \A y \in over : y <= Wgpu!Max(over)
      <4> HIDE DEF over
      <4> QED
        BY <3>1, MaxIs
    <3>3. Wgpu!Max(over) = n + 1
      BY <1>1, <3>1, <3>2
    <3>4. QED
      BY <1>1, <2>1, <3>1, <3>3
  <2>2. CASE t \notin c.area
    <3>1. Over(more, n + 1, t) = Over(q, n, t)
      BY <1>1, <2>2 DEF n
    <3> DEFINE over == Over(q, n, t)
    <3>2. CASE over = {}
      BY <2>2, <3>1, <3>2
    <3>3. CASE over # {}
      <4>1. over \in SUBSET (0 .. n)
        BY <1>1
      <4>2. Wgpu!Max(over) \in over
        <5> HIDE DEF over
        <5> QED
          BY <1>1, <3>3, <4>1, MaxIs
      <4>3. more[Wgpu!Max(over)] = q[Wgpu!Max(over)]
        BY <1>1, <4>2
      <4>4. QED
        <5> HIDE DEF Over
        <5> QED BY <2>2, <3>1, <3>3, <4>3 DEF over
    <3>4. QED
      BY <3>2, <3>3
  <2>3. QED
    BY <2>1, <2>2
<1>3. /\ Wgpu!Painted(x, more, first .. n + 1) = [t \in Tiles |-> At(more, n + 1, t)]
      /\ Wgpu!Painted(x, q, first .. n) = [t \in Tiles |-> At(q, n, t)]
  BY DEF Wgpu!Painted
<1> HIDE DEF At
<1>4. Wgpu!Written(Wgpu!Painted(x, q, first .. n), c.area, c.value)
        = [t \in Tiles |-> IF t \in c.area THEN c.value ELSE At(q, n, t)]
  BY <1>3 DEF Wgpu!Written
<1>5. QED
  BY <1>2, <1>3, <1>4

\* The tiles of an area are in its box.
LEMMA BoxesCover ==
  ASSUME NEW S \in SUBSET Tiles
  PROVE  S \subseteq Wgpu!BoundingBox(S)
<1> SUFFICES ASSUME NEW t \in S
             PROVE  t \in Wgpu!BoundingBox(S)
  OBVIOUS
<1>1. TileCount \in Nat
  BY WgpuAssumption
<1>2. S \in SUBSET (0 .. TileCount) /\ S \in SUBSET Nat /\ S # {}
  BY <1>1 DEF Tiles
<1>3. Wgpu!Min(S) <= t
  BY <1>2, MinIs
<1>4. t <= Wgpu!Max(S)
  BY <1>1, <1>2, MaxIs
<1>5. QED
  BY <1>3, <1>4 DEF Wgpu!BoundingBox

LEMMA WrittenTypes ==
  ASSUME NEW x \in Contents, NEW y \in Contents, NEW area, NEW value \in Nat,
         NEW copy \in [source: Tiles, dest: Tiles]
  PROVE  /\ Wgpu!Written(x, area, value) \in Contents
         /\ Wgpu!Taken(x, area, y) \in Contents
         /\ Wgpu!Copied(x, copy) \in Contents
BY DEF Wgpu!Written, Wgpu!Taken, Wgpu!Copied, Contents

LEMMA SyncIs ==
  ASSUME NEW m \in Memory, NEW area
  PROVE  LET w == Wgpu!ExecuteSync(m, area)
         IN /\ w \in Memory
            /\ w.scaled = m.scaled /\ w.stale = m.stale
            /\ w.native = Wgpu!Taken(m.native, area, m.scaled)
            /\ w.copy = Wgpu!Taken(m.copy, Wgpu!BoundingBox(area), m.scaled)
<1>1. /\ Wgpu!Taken(m.native, area, m.scaled) \in Contents
      /\ Wgpu!Taken(m.copy, Wgpu!BoundingBox(area), m.scaled) \in Contents
  BY DEF Wgpu!Taken, Contents, Memory
<1>2. QED
  BY <1>1 DEF Wgpu!ExecuteSync, Memory

\* What a batch makes of the copies of VRAM.
LEMMA BatchIs ==
  ASSUME NEW m \in Memory, NEW q \in Seq(Queueable), NEW last \in 1 .. Len(q)
  PROVE  LET first == Wgpu!BatchStart(q, last)
             w == Wgpu!ExecuteBatch(m, q, first, last)
             painted(x) == Wgpu!Painted(x, q, first .. last)
             covered == UNION {q[i].area : i \in first .. last}
             reached == UNION {q[i].reached : i \in first .. last}
         IN /\ w \in Memory
            /\ q[first].kind = "Draw" =>
                 /\ w.scaled = painted(m.scaled) /\ w.copy = m.copy /\ w.native = m.native
                 /\ w.stale = (m.stale \/ \E i \in first .. last : Wgpu!SamplesOld(m, q[i]))
            /\ q[first].kind = "Blit" =>
                 /\ w.native = painted(m.native) /\ w.scaled = Wgpu!Taken(m.scaled, reached, w.native)
                 /\ w.copy = Wgpu!Taken(m.copy, covered, w.scaled) /\ w.stale = m.stale
            /\ q[first].kind = "Copy" =>
                 /\ w.scaled = Wgpu!Copied(m.scaled, q[first].copy)
                 /\ w.copy = m.copy /\ w.native = m.native /\ w.stale = m.stale
            /\ q[first].kind = "ScaledNativeSync" => w = Wgpu!ExecuteSync(m, q[first].area)
<1> DEFINE first == Wgpu!BatchStart(q, last)
           c == q[first]
           w == Wgpu!ExecuteBatch(m, q, first, last)
           painted(x) == Wgpu!Painted(x, q, first .. last)
           covered == UNION {q[i].area : i \in first .. last}
           reached == UNION {q[i].reached : i \in first .. last}
<1>1. first \in 1 .. last /\ last \in 1 .. Len(q) /\ Len(q) \in Nat
  BY BatchStartIs
<1>2. \A i \in first .. last : q[i] \in Queueable /\ q[i].kind = c.kind
  <2> TAKE i \in first .. last
  <2>1. q[i].kind = c.kind
    BY BatchesAreOfOneKind
  <2> HIDE DEF first
  <2>2. i \in 1 .. Len(q)
    BY <1>1
  <2>3. QED
    BY <2>1, <2>2, ElementOfSeq
<1>3. first \in first .. last
  <2> HIDE DEF first
  <2> QED
    BY <1>1
<1>4. c \in Queueable
  BY <1>2, <1>3
<1>5. c.kind \in {"Draw", "Blit"} => \A i \in first .. last : q[i] \in Paints
  BY <1>2, KindsOfQueued DEF Paints
<1>6. c.kind \in {"Draw", "Blit"} => \A x \in Contents : painted(x) \in Contents
  <2> HIDE DEF first
  <2> QED
    BY <1>1, <1>5, PaintedTypes
<1>7. /\ c.kind = "Draw" => w = Wgpu!ExecuteDraws(m, q, first .. last)
      /\ c.kind = "Blit" => w = Wgpu!ExecuteBlits(m, q, first .. last)
      /\ c.kind = "Copy" => w = Wgpu!ExecuteCopy(m, c.copy)
      /\ c.kind = "ScaledNativeSync" => w = Wgpu!ExecuteSync(m, c.area)
  BY DEF Wgpu!ExecuteBatch
<1>8. m.scaled \in Contents /\ m.copy \in Contents /\ m.native \in Contents /\ m.stale \in BOOLEAN
  BY DEF Memory
<1>9. CASE c.kind = "Draw"
  <2> DEFINE old == \E i \in first .. last : Wgpu!SamplesOld(m, q[i])
             scaled == painted(m.scaled)
  <2>1. w = [m EXCEPT !.scaled = scaled, !.stale = m.stale \/ old]
    BY <1>7, <1>9 DEF Wgpu!ExecuteDraws
  <2>2. scaled \in Contents
    BY <1>6, <1>8, <1>9
  <2> HIDE DEF w, old, scaled
  <2>3. /\ w \in Memory
        /\ w.scaled = scaled /\ w.copy = m.copy /\ w.native = m.native /\ w.stale = (m.stale \/ old)
    BY <2>1, <2>2 DEF Memory
  <2>4. QED
    BY <1>9, <2>3 DEF w, old, scaled
<1>10. CASE c.kind = "Blit"
  <2> DEFINE native == painted(m.native)
             scaled == Wgpu!Taken(m.scaled, reached, native)
             copy == Wgpu!Taken(m.copy, covered, scaled)
  <2>1. w = [m EXCEPT !.native = native, !.scaled = scaled, !.copy = copy]
    BY <1>7, <1>10 DEF Wgpu!ExecuteBlits
  <2>2. native \in Contents
    BY <1>6, <1>8, <1>10
  <2> HIDE DEF native, covered, reached
  <2>3. scaled \in Contents
    BY <1>8, <2>2 DEF Wgpu!Taken, Contents
  <2>4. copy \in Contents
    <3> HIDE DEF scaled
    <3> QED
      BY <1>8, <2>3 DEF Wgpu!Taken, Contents
  <2> HIDE DEF w, scaled, copy
  <2>5. /\ w \in Memory
        /\ w.scaled = scaled /\ w.copy = copy /\ w.native = native /\ w.stale = m.stale
    BY <2>1, <2>2, <2>3, <2>4 DEF Memory
  <2>6. QED
    BY <1>10, <2>5 DEF w, scaled, copy, native, covered, reached
<1>11. CASE c.kind = "Copy"
  <2> DEFINE scaled == Wgpu!Copied(m.scaled, c.copy)
  <2>1. w = [m EXCEPT !.scaled = scaled]
    BY <1>7, <1>11 DEF Wgpu!ExecuteCopy
  <2>2. c.copy \in [source: Tiles, dest: Tiles]
    <3>1. c \in CopyCommands
      BY <1>4, <1>11, KindsOfQueued
    <3>2. QED
      BY <3>1 DEF CopyCommands
  <2>3. scaled \in Contents
    <3> HIDE DEF c
    <3> QED BY <1>8, <2>2 DEF Wgpu!Copied, Contents
  <2> HIDE DEF w, scaled
  <2>4. /\ w \in Memory
        /\ w.scaled = scaled /\ w.copy = m.copy /\ w.native = m.native /\ w.stale = m.stale
    BY <2>1, <2>3 DEF Memory
  <2>5. QED
    BY <1>11, <2>4 DEF w, scaled
<1>12. CASE c.kind = "ScaledNativeSync"
  <2>1. w = Wgpu!ExecuteSync(m, c.area)
    BY <1>7, <1>12
  <2>2. w \in Memory
    BY <2>1, SyncIs
  <2>3. QED
    BY <1>12, <2>1, <2>2
<1>13. QED
  BY <1>4, <1>9, <1>10, <1>11, <1>12, KindsOfQueued
-----------------------------------------------------------------------------
\* What a queue leaves behind is what its last batch makes of what the batches before left.
LEMMA RanIs ==
  ASSUME NEW m \in Memory, NEW q \in Seq(Queueable)
  PROVE  LET r == Wgpu!Ran(m, q)
         IN /\ r \in [0 .. Len(q) -> Memory] /\ r[0] = m
            /\ \A i \in 1 .. Len(q) :
                 r[i] = Wgpu!ExecuteBatch(r[Wgpu!BatchStart(q, i) - 1], q, Wgpu!BatchStart(q, i), i)
<1> DEFINE n == Len(q)
           Next1(f, i) == Wgpu!ExecuteBatch(f[Wgpu!BatchStart(q, i) - 1], q, Wgpu!BatchStart(q, i), i)
           Rec(f) == f = [i \in 0 .. n |-> IF i = 0 THEN m ELSE Next1(f, i)]
           from == [i \in 1 .. n |-> Wgpu!BatchStart(q, i) - 1]
           step == [i \in 1 .. n |-> [x \in Memory |-> Wgpu!ExecuteBatch(x, q, Wgpu!BatchStart(q, i), i)]]
           r == Wgpu!Ran(m, q)
<1>1. n \in Nat
  OBVIOUS
<1>2. \A i \in 1 .. n : from[i] \in 0 .. i - 1
  <2> TAKE i \in 1 .. n
  <2>1. Wgpu!BatchStart(q, i) \in 1 .. i
    BY BatchStartIs
  <2>2. QED
    BY <1>1, <2>1
<1>3. \A i \in 1 .. n : \A x \in Memory : step[i][x] \in Memory
  BY BatchIs
<1>4. PICK f : IsPath(f, n, Memory, m, from, step)
  <2> HIDE DEF n, from, step
  <2> QED
    BY <1>1, <1>2, <1>3, PathsExist
<1>5. /\ f \in [0 .. n -> Memory] /\ f[0] = m
      /\ \A i \in 1 .. n : f[from[i]] \in Memory /\ f[i] = step[i][f[from[i]]]
  <2> HIDE DEF from, step
  <2>1. f \in [0 .. n -> Memory] /\ f[0] = m /\ \A i \in 1 .. n : f[i] = step[i][f[from[i]]]
    BY <1>4 DEF IsPath
  <2>2. \A i \in 1 .. n : from[i] \in 0 .. n
    BY <1>1, <1>2
  <2>3. QED
    BY <2>1, <2>2
<1>6. \A i \in 1 .. n : f[i] = Next1(f, i)
  BY <1>5
<1>7. Rec(f)
  <2> HIDE DEF Next1, from, step
  <2> QED
    BY <1>5, <1>6
<1>8. r = CHOOSE g : Rec(g)
  BY DEF Wgpu!Ran
<1>9. Rec(r)
  <2> HIDE DEF Rec, r
  <2> QED
    BY <1>7, <1>8
<1>10. r[0] = m /\ \A i \in 1 .. n : r[i] = Next1(r, i)
  <2> HIDE DEF Next1, r
  <2> QED
    BY <1>1, <1>9
<1>11. \A i \in 1 .. n : f[from[i]] = r[from[i]] => f[i] = r[i]
  <2> HIDE DEF r
  <2> QED
    BY <1>6, <1>10
<1>12. \A i \in 0 .. n : f[i] = r[i]
  <2>1. f[0] = r[0]
    BY <1>5, <1>10
  <2> HIDE DEF n, from, step, r
  <2>2. GoTogether(n, from, f, r)
    BY <1>2, <2>1, <1>11 DEF GoTogether
  <2>3. QED
    BY <1>1, <2>2, PathsAgree
<1>13. r = f
  <2> HIDE DEF Next1, r, from, step
  <2>1. DOMAIN r = 0 .. n /\ r = [i \in 0 .. n |-> r[i]]
    BY <1>9
  <2>2. QED
    BY <1>5, <1>12, <2>1
<1>14. QED
  BY <1>5, <1>10, <1>13

\* The batches of a queue are not changed by what comes behind them.
LEMMA RanBefore ==
  ASSUME NEW m \in Memory, NEW q \in Seq(Queueable), NEW c \in Queueable
  PROVE  \A i \in 0 .. Len(q) : Wgpu!Ran(m, Append(q, c))[i] = Wgpu!Ran(m, q)[i]
<1> DEFINE n == Len(q)
           more == Append(q, c)
           from == [i \in 1 .. n |-> Wgpu!BatchStart(q, i) - 1]
           f == Wgpu!Ran(m, q)
           g == Wgpu!Ran(m, more)
<1>1. n \in Nat /\ more \in Seq(Queueable) /\ Len(more) = n + 1 /\ \A i \in 1 .. n : more[i] = q[i]
  OBVIOUS
<1>2. \A i \in 1 .. n : Wgpu!BatchStart(q, i) \in 1 .. i /\ from[i] \in 0 .. i - 1
  <2> TAKE i \in 1 .. n
  <2>1. Wgpu!BatchStart(q, i) \in 1 .. i
    BY BatchStartIs
  <2>2. QED
    BY <1>1, <2>1
<1>3. ASSUME NEW i \in 1 .. n, NEW x
      PROVE  Wgpu!ExecuteBatch(x, more, Wgpu!BatchStart(more, i), i)
               = Wgpu!ExecuteBatch(x, q, Wgpu!BatchStart(q, i), i)
  <2> DEFINE s == Wgpu!BatchStart(q, i)
  <2>1. Wgpu!BatchStart(more, i) = s
    BY BatchesStay
  <2>2. s \in 1 .. i
    BY <1>2
  <2> HIDE DEF s, more, n
  <2>3. \A j \in s .. i : more[j] = q[j]
    BY <1>1, <2>2
  <2>4. more[s] = q[s]
    BY <2>2, <2>3
  <2>5. \A y : Wgpu!Painted(y, more, s .. i) = Wgpu!Painted(y, q, s .. i)
    <3> TAKE y
    <3>1. \A t : {j \in s .. i : t \in more[j].area} = {j \in s .. i : t \in q[j].area}
      BY <2>3
    <3>2. \A t : LET over == {j \in s .. i : t \in q[j].area}
                 IN over # {} => more[Wgpu!Max(over)] = q[Wgpu!Max(over)]
      <4> TAKE t
      <4> DEFINE over == {j \in s .. i : t \in q[j].area}
      <4>1. SUFFICES ASSUME over # {} PROVE more[Wgpu!Max(over)] = q[Wgpu!Max(over)]
        OBVIOUS
      <4>2. over \in SUBSET (0 .. i) /\ i \in Nat
        BY <1>1, <2>2
      <4>3. Wgpu!Max(over) \in over
        <5> HIDE DEF over
        <5> QED
          BY <4>1, <4>2, MaxIs
      <4>4. QED
        BY <2>3, <4>3
    <3> DEFINE A(z, t) == IF {j \in s .. i : t \in z[j].area} = {} THEN y[t]
                          ELSE z[Wgpu!Max({j \in s .. i : t \in z[j].area})].value
    <3>3. \A t : A(more, t) = A(q, t)
      BY <3>1, <3>2
    <3>4. /\ Wgpu!Painted(y, more, s .. i) = [t \in Tiles |-> A(more, t)]
          /\ Wgpu!Painted(y, q, s .. i) = [t \in Tiles |-> A(q, t)]
      BY DEF Wgpu!Painted
    <3> HIDE DEF A
    <3>5. QED
      BY <3>3, <3>4
  <2>6. /\ UNION {more[j].area : j \in s .. i} = UNION {q[j].area : j \in s .. i}
        /\ UNION {more[j].reached : j \in s .. i} = UNION {q[j].reached : j \in s .. i}
    BY <2>3
  <2>7. (\E j \in s .. i : Wgpu!SamplesOld(x, more[j])) <=> (\E j \in s .. i : Wgpu!SamplesOld(x, q[j]))
    BY <2>3
  <2>8. /\ Wgpu!ExecuteDraws(x, more, s .. i) = Wgpu!ExecuteDraws(x, q, s .. i)
        /\ Wgpu!ExecuteBlits(x, more, s .. i) = Wgpu!ExecuteBlits(x, q, s .. i)
    BY <2>5, <2>6, <2>7, Zenon DEF Wgpu!ExecuteDraws, Wgpu!ExecuteBlits
  <2>9. Wgpu!ExecuteBatch(x, more, s, i) = Wgpu!ExecuteBatch(x, q, s, i)
    BY <2>4, <2>8 DEF Wgpu!ExecuteBatch
  <2>10. QED
    BY <2>1, <2>9 DEF s
<1>4. /\ f[0] = m /\ g[0] = m
      /\ \A i \in 1 .. n : f[i] = Wgpu!ExecuteBatch(f[from[i]], q, Wgpu!BatchStart(q, i), i)
      /\ \A i \in 1 .. n : g[i] = Wgpu!ExecuteBatch(g[Wgpu!BatchStart(more, i) - 1], more, Wgpu!BatchStart(more, i), i)
  <2> HIDE DEF f, g, more
  <2>1. \A i \in 1 .. n : i \in 1 .. n + 1
    BY <1>1
  <2>2. QED
    BY <1>1, <2>1, RanIs DEF f, g
<1>5. \A i \in 1 .. n : Wgpu!BatchStart(more, i) - 1 = from[i]
  BY BatchesStay
<1>6. \A i \in 1 .. n : f[from[i]] = g[from[i]] => f[i] = g[i]
  <2> HIDE DEF f, g, more, from, n
  <2> QED
    BY <1>3, <1>4, <1>5
<1>7. \A i \in 0 .. n : f[i] = g[i]
  <2>1. f[0] = g[0]
    BY <1>4
  <2>2. \A i \in 1 .. n : from[i] \in 0 .. i - 1
    BY <1>2
  <2> HIDE DEF f, g, more, from, n
  <2>3. GoTogether(n, from, f, g)
    BY <2>1, <2>2, <1>6 DEF GoTogether
  <2>4. QED
    BY <1>1, <2>3, PathsAgree
<1>8. QED
  BY <1>7

\* One command after the other: what a queue leaves behind when c is put behind it is what c,
\* on its own, makes of what the queue left before. Only where a blit does not reach the scaled
\* VRAM is that not so: there a blit of the same batch may take its contents along.
Applied(c, e, w) ==
  /\ w \in Memory
  /\ c.kind = "Draw" =>
       /\ w.scaled = Wgpu!Written(e.scaled, c.area, c.value)
       /\ w.copy = e.copy /\ w.native = e.native
       /\ w.stale = (e.stale \/ Wgpu!SamplesOld(e, c))
  /\ c.kind = "Blit" =>
       /\ w.native = Wgpu!Written(e.native, c.area, c.value) /\ w.stale = e.stale
       /\ \A t \in Tiles : t \notin c.area \ c.reached =>
            /\ w.scaled[t] = Wgpu!Written(e.scaled, c.area, c.value)[t]
            /\ w.copy[t] = Wgpu!Written(e.copy, c.area, c.value)[t]
  /\ c.kind = "Copy" =>
       /\ w.scaled = Wgpu!Copied(e.scaled, c.copy)
       /\ w.copy = e.copy /\ w.native = e.native /\ w.stale = e.stale
  /\ c.kind = "ScaledNativeSync" => w = Wgpu!ExecuteSync(e, c.area)

LeftBehind(m, q) == Wgpu!Ran(m, q)[Len(q)]

\* A blit behind others of its batch that covered an area and reached a part of it, from x on.
LEMMA BlitApplied ==
  ASSUME NEW x \in Memory, NEW e \in Memory, NEW w \in Memory, NEW area, NEW reach,
         NEW c \in Queueable, c.kind = "Blit",
         e.scaled = Wgpu!Taken(x.scaled, reach, e.native), e.copy = Wgpu!Taken(x.copy, area, e.scaled),
         w.native = Wgpu!Written(e.native, c.area, c.value), w.stale = x.stale, e.stale = x.stale,
         w.scaled = Wgpu!Taken(x.scaled, reach \union c.reached, w.native),
         w.copy = Wgpu!Taken(x.copy, area \union c.area, w.scaled)
  PROVE  Applied(c, e, w)
<1>1. c \in BlitCommands /\ c.value \in Nat /\ c.reached \subseteq c.area
  <2>1. c \in BlitCommands
    BY KindsOfQueued
  <2>2. QED
    BY <2>1 DEF BlitCommands
<1>2. \A m \in Memory : m.scaled \in Contents /\ m.copy \in Contents /\ m.native \in Contents
  BY DEF Memory
<1>3. ASSUME NEW t \in Tiles, t \notin c.area \ c.reached
      PROVE  /\ w.scaled[t] = Wgpu!Written(e.scaled, c.area, c.value)[t]
             /\ w.copy[t] = Wgpu!Written(e.copy, c.area, c.value)[t]
  <2>1. \A y : Wgpu!Written(y, c.area, c.value)[t] = IF t \in c.area THEN c.value ELSE y[t]
    BY DEF Wgpu!Written
  <2>2. \A y, over, z : Wgpu!Taken(y, over, z)[t] = IF t \in over THEN z[t] ELSE y[t]
    BY DEF Wgpu!Taken
  <2>3. t \in c.area <=> t \in c.reached
    BY <1>1, <1>3
  <2>4. w.native[t] = IF t \in c.area THEN c.value ELSE e.native[t]
    BY <2>1
  <2>5. /\ e.scaled[t] = IF t \in reach THEN e.native[t] ELSE x.scaled[t]
        /\ w.scaled[t] = IF t \in reach \union c.reached THEN w.native[t] ELSE x.scaled[t]
        /\ e.copy[t] = IF t \in area THEN e.scaled[t] ELSE x.copy[t]
        /\ w.copy[t] = IF t \in area \union c.area THEN w.scaled[t] ELSE x.copy[t]
    BY <2>2
  <2>6. w.scaled[t] = IF t \in c.area THEN c.value ELSE e.scaled[t]
    BY <2>3, <2>4, <2>5
  <2>7. w.copy[t] = IF t \in c.area THEN c.value ELSE e.copy[t]
    BY <2>5, <2>6
  <2>8. QED
    BY <2>1, <2>6, <2>7
<1>4. QED
  BY <1>3 DEF Applied

LEMMA OneAfterTheOther ==
  ASSUME NEW m \in Memory, NEW q \in Seq(Queueable), NEW c \in Queueable
  PROVE  Applied(c, LeftBehind(m, q), LeftBehind(m, Append(q, c)))
<1> DEFINE n == Len(q)
           more == Append(q, c)
           f == Wgpu!Ran(m, q)
           g == Wgpu!Ran(m, more)
           e == f[n]
           w == g[n + 1]
           s == Wgpu!BatchStart(more, n + 1)
           x == f[s - 1]
           painted(y) == Wgpu!Painted(y, more, s .. n + 1)
           covered == UNION {more[i].area : i \in s .. n + 1}
           area == UNION {q[i].area : i \in s .. n}
           reached == UNION {more[i].reached : i \in s .. n + 1}
           reach == UNION {q[i].reached : i \in s .. n}
<1>1. /\ n \in Nat /\ more \in Seq(Queueable) /\ Len(more) = n + 1 /\ n + 1 \in 1 .. Len(more)
      /\ more[n + 1] = c /\ \A i \in 1 .. n : more[i] = q[i]
  OBVIOUS
<1>2. s \in 1 .. n + 1
  <2>1. Wgpu!BatchStart(more, n + 1) \in 1 .. n + 1
    <3> HIDE DEF more, n
    <3> QED
      BY <1>1, BatchStartIs
  <2>2. QED
    BY <2>1
<1>3. f \in [0 .. n -> Memory] /\ x \in Memory /\ e \in Memory
  <2>1. f \in [0 .. n -> Memory]
    BY RanIs
  <2> HIDE DEF f, s, n
  <2>2. QED
    BY <1>1, <1>2, <2>1
<1>4. w = Wgpu!ExecuteBatch(x, more, s, n + 1)
  <2>1. g[n + 1] = Wgpu!ExecuteBatch(g[s - 1], more, s, n + 1)
    <3> HIDE DEF more, n
    <3> QED
      BY <1>1, RanIs
  <2>2. g[s - 1] = f[s - 1]
    <3>1. \A i \in 0 .. n : g[i] = f[i]
      BY RanBefore
    <3> HIDE DEF f, g, s, n
    <3>2. QED
      BY <1>1, <1>2, <3>1
  <2>3. QED
    BY <2>1, <2>2
<1>5. more[s].kind = c.kind
  <2>1. n + 1 \in s .. n + 1
    <3> HIDE DEF s, n
    <3> QED
      BY <1>1, <1>2
  <2>2. more[n + 1].kind = more[s].kind
    <3> HIDE DEF more, n
    <3> QED
      BY <1>1, <2>1, BatchesAreOfOneKind
  <2>3. QED
    BY <1>1, <2>2
<1>6. /\ w \in Memory
      /\ c.kind = "Draw" =>
           /\ w.scaled = painted(x.scaled) /\ w.copy = x.copy /\ w.native = x.native
           /\ w.stale = (x.stale \/ \E i \in s .. n + 1 : Wgpu!SamplesOld(x, more[i]))
      /\ c.kind = "Blit" =>
           /\ w.native = painted(x.native) /\ w.scaled = Wgpu!Taken(x.scaled, reached, w.native)
           /\ w.copy = Wgpu!Taken(x.copy, covered, w.scaled) /\ w.stale = x.stale
      /\ c.kind = "Copy" =>
           /\ w.scaled = Wgpu!Copied(x.scaled, more[s].copy)
           /\ w.copy = x.copy /\ w.native = x.native /\ w.stale = x.stale
      /\ c.kind = "ScaledNativeSync" => w = Wgpu!ExecuteSync(x, more[s].area)
  <2> HIDE DEF x, more, n, w
  <2>1. QED
    BY <1>1, <1>3, <1>4, <1>5, BatchIs
<1>7. x.scaled \in Contents /\ x.native \in Contents /\ x.copy \in Contents
  BY <1>3 DEF Memory
<1>8. c.kind \in {"Draw", "Blit"} =>
        /\ c \in Paints /\ c.value \in Nat
        /\ \A y \in Contents :
             painted(y) = Wgpu!Written(Wgpu!Painted(y, q, s .. n), c.area, c.value)
  <2>1. c.kind \in {"Draw", "Blit"} => c \in Paints
    BY KindsOfQueued DEF Paints
  <2>2. c \in Paints => c.value \in Nat
    BY DEF Paints, DrawnCommands, BlitCommands
  <2> HIDE DEF s
  <2>3. QED
    BY <1>2, <2>1, <2>2, PaintedOver
<1>9. covered = area \union c.area /\ reached = reach \union c.reached
  <2> HIDE DEF s, more, n
  <2>1. s .. n + 1 = (s .. n) \union {n + 1} /\ \A i \in s .. n : more[i] = q[i]
    BY <1>1, <1>2
  <2>2. more[n + 1] = c
    BY <1>1
  <2> DEFINE before == s .. n
             through == s .. n + 1
             last == n + 1
  <2>3. through = before \union {last} /\ (\A i \in before : more[i] = q[i]) /\ more[last] = c
    BY <2>1, <2>2
  <2> HIDE DEF before, through, last
  <2>4. UNION {more[i].area : i \in through} = (UNION {q[i].area : i \in before}) \union c.area
    BY <2>3
  <2>5. UNION {more[i].reached : i \in through} = (UNION {q[i].reached : i \in before}) \union c.reached
    BY <2>3
  <2>6. QED
    BY <2>4, <2>5 DEF before, through
<1>10. (\E i \in s .. n + 1 : Wgpu!SamplesOld(x, more[i]))
         <=> (\E i \in s .. n : Wgpu!SamplesOld(x, q[i])) \/ Wgpu!SamplesOld(x, c)
  <2> HIDE DEF s, more, n, x
  <2>1. s .. n + 1 = (s .. n) \union {n + 1} /\ \A i \in s .. n : more[i] = q[i]
    BY <1>1, <1>2
  <2>2. \A i \in s .. n : Wgpu!SamplesOld(x, more[i]) <=> Wgpu!SamplesOld(x, q[i])
    BY <2>1
  <2>3. Wgpu!SamplesOld(x, more[n + 1]) <=> Wgpu!SamplesOld(x, c)
    BY <1>1
  <2>4. QED
    BY <2>1, <2>2, <2>3, Zenon
<1>11. CASE s = n + 1
  <2>1. x = e
    <3> HIDE DEF f, s, n
    <3> QED BY <1>1, <1>11
  <2>2. s .. n = {}
    <3> HIDE DEF s, n
    <3> QED BY <1>1, <1>11
  <2>3. \A y \in Contents : Wgpu!Painted(y, q, {}) = y
    BY DEF Wgpu!Painted, Contents
  <2>4. area = {} /\ reach = {}
    <3> HIDE DEF s, n
    <3> QED
      BY <2>2
  <2>5. more[s] = c
    BY <1>1, <1>11
  <2> HIDE DEF covered, reached, area, reach, s, n, x, w, e, more
  <2>6. c.kind = "Draw" => Applied(c, e, w)
    BY <1>6, <1>7, <1>8, <1>10, <2>1, <2>2, <2>3 DEF Applied
  <2>7. c.kind = "Blit" => Applied(c, e, w)
    <3>1. SUFFICES ASSUME c.kind = "Blit" PROVE Applied(c, e, w)
      OBVIOUS
    <3>2. w.native = Wgpu!Written(e.native, c.area, c.value)
      BY <1>6, <1>7, <1>8, <2>1, <2>2, <2>3, <3>1
    <3>3. e.scaled = Wgpu!Taken(x.scaled, reach, e.native) /\ e.copy = Wgpu!Taken(x.copy, area, e.scaled)
      BY <1>7, <2>1, <2>4 DEF Wgpu!Taken, Contents
    <3>4. QED
      BY <1>3, <1>6, <1>8, <1>9, <2>1, <3>1, <3>2, <3>3, BlitApplied
  <2>8. c.kind \in {"Copy", "ScaledNativeSync"} => Applied(c, e, w)
    BY <1>6, <2>1, <2>5 DEF Applied
  <2>9. QED
    BY <2>6, <2>7, <2>8, <1>1, KindsOfQueued DEF LeftBehind, e, w, n, more
<1>12. CASE s # n + 1
  <2>1. n # 0 /\ s = Wgpu!BatchStart(q, n) /\ n \in 1 .. Len(q)
    <3>1. s = n + 1 \/ (n # 0 /\ s = Wgpu!BatchStart(q, n))
      BY BatchesStay
    <3>2. n # 0 /\ s = Wgpu!BatchStart(q, n)
      BY <1>12, <3>1
    <3>3. n # 0 => n \in 1 .. Len(q)
      BY <1>1
    <3>4. QED
      BY <3>2, <3>3
  <2>2. s \in 1 .. n
    <3> HIDE DEF s, n
    <3> QED
      BY <1>1, <1>2, <1>12
  <2>3. e = Wgpu!ExecuteBatch(x, q, s, n)
    <3>1. f[n] = Wgpu!ExecuteBatch(f[Wgpu!BatchStart(q, n) - 1], q, Wgpu!BatchStart(q, n), n)
      <4> HIDE DEF n
      <4> QED
        BY <2>1, RanIs DEF n
    <3>2. QED
      BY <2>1, <3>1
  <2>4. q[s].kind = c.kind
    <3> HIDE DEF s, n, more
    <3> QED
      BY <1>1, <1>5, <2>2
  <2>5. c.kind \in {"Draw", "Blit"}
    <3>1. \A j \in s + 1 .. n + 1 : Wgpu!TypeOf(more[j]) \notin Wgpu!OwnBatch
      <4> HIDE DEF more, n
      <4> QED
        BY <1>1, BatchStartIs
    <3>2. n + 1 \in s + 1 .. n + 1
      <4> HIDE DEF s, n
      <4> QED
        BY <1>1, <2>2
    <3>3. Wgpu!TypeOf(c) \notin Wgpu!OwnBatch
      BY <1>1, <3>1, <3>2
    <3>4. QED
      BY <3>3, KindsOfQueued
  <2> DEFINE before(y) == Wgpu!Painted(y, q, s .. n)
  <2>6. /\ e \in Memory
        /\ c.kind = "Draw" =>
             /\ e.scaled = before(x.scaled) /\ e.copy = x.copy /\ e.native = x.native
             /\ e.stale = (x.stale \/ \E i \in s .. n : Wgpu!SamplesOld(x, q[i]))
        /\ c.kind = "Blit" =>
             /\ e.native = before(x.native) /\ e.scaled = Wgpu!Taken(x.scaled, reach, e.native)
             /\ e.copy = Wgpu!Taken(x.copy, area, e.scaled) /\ e.stale = x.stale
    <3> HIDE DEF s, x, e, n
    <3> QED
      BY <1>3, <2>1, <2>3, <2>4, BatchIs
  <2>7. e.scaled \in Contents /\ e.native \in Contents /\ e.copy \in Contents
    BY <2>6 DEF Memory
  <2> HIDE DEF covered, reached, area, reach, s, n, x, w, e, more
  <2>9. c.kind = "Draw" => Applied(c, e, w)
    <3>1. SUFFICES ASSUME c.kind = "Draw" PROVE Applied(c, e, w)
      OBVIOUS
    <3>2. Wgpu!SamplesOld(x, c) <=> Wgpu!SamplesOld(e, c)
      BY <2>6, <3>1 DEF Wgpu!SamplesOld, Wgpu!Sampled
    <3>3. w.scaled = Wgpu!Written(e.scaled, c.area, c.value)
      BY <1>6, <1>7, <1>8, <2>6, <3>1
    <3>4. w.stale = (e.stale \/ Wgpu!SamplesOld(e, c))
      BY <1>6, <1>10, <2>6, <3>1, <3>2
    <3>5. QED
      BY <1>6, <2>6, <3>1, <3>3, <3>4 DEF Applied
  <2>10. c.kind = "Blit" => Applied(c, e, w)
    <3>1. SUFFICES ASSUME c.kind = "Blit" PROVE Applied(c, e, w)
      OBVIOUS
    <3>2. w.native = Wgpu!Written(e.native, c.area, c.value)
      BY <1>6, <1>7, <1>8, <2>6, <3>1
    <3>3. QED
      BY <1>3, <1>6, <1>8, <1>9, <2>6, <3>1, <3>2, BlitApplied
  <2>11. QED
    BY <2>5, <2>9, <2>10, <1>1 DEF LeftBehind, e, w, n, more
<1>13. QED
  BY <1>11, <1>12
-----------------------------------------------------------------------------
\* Copies of VRAM that look like one with the contents v, except for some tiles that only the
\* scaled VRAM has and some that not even it has.
LooksLike(e, v, except, gone) ==
  /\ e \in Memory /\ ~e.stale
  /\ \A t \in Tiles : t \notin gone =>
       /\ e.scaled[t] = v[t]
       /\ t \notin except => e.native[t] = v[t] /\ e.copy[t] = v[t]

VramTypeOK ==
  /\ draw_commands \in Seq(Queueable)
  /\ mem \in [scaled: Contents, copy: Contents, native: Contents] /\ stale \in BOOLEAN
  /\ marked \in SUBSET Tiles /\ lines \in SUBSET Tiles /\ missed \in SUBSET Tiles
  /\ vram \in Contents /\ issued \in Nat
  /\ scaled_native_sync_delay \in 0 .. SyncDelay /\ since \in 0 .. SyncDelay

\* What the queue is going to leave behind looks like one VRAM, but for the tiles that are
\* marked, for lines and for what blits did not reach; the delay of the next sync is what is left of the series of draws.
VramAgrees ==
  /\ LooksLike(LeftBehind(Wgpu!Loaded, draw_commands), vram, lines \union marked, missed)
  /\ ~stale
  /\ draw_commands = <<>> => marked = {}
  /\ since + scaled_native_sync_delay = SyncDelay
  /\ draw_commands = <<>> /\ ~out_of_sync =>
       \A t \in Tiles : t \notin lines \union missed => ram_buffer[t] = vram[t]

VramInv == VramTypeOK /\ VramAgrees

LEMMA NothingLeftBehind ==
  ASSUME NEW m \in Memory
  PROVE  LeftBehind(m, <<>>) = m
<1>1. <<>> \in Seq(Queueable) /\ Len(<<>>) = 0
  OBVIOUS
<1>2. Wgpu!Ran(m, <<>>)[0] = m
  BY <1>1, RanIs
<1>3. QED
  BY <1>1, <1>2 DEF LeftBehind

LEMMA SyncedLooksLike ==
  ASSUME NEW v \in Contents, NEW S \in SUBSET Tiles, NEW other, NEW gone, NEW e,
         LooksLike(e, v, other \union S, gone)
  PROVE  LooksLike(Wgpu!ExecuteSync(e, S), v, other, gone)
<1> DEFINE w == Wgpu!ExecuteSync(e, S)
<1>1. e \in Memory /\ ~e.stale /\ \A t \in Tiles : t \notin gone => e.scaled[t] = v[t]
  BY DEF LooksLike
<1>2. /\ w \in Memory /\ w.scaled = e.scaled /\ w.stale = e.stale
      /\ w.native = Wgpu!Taken(e.native, S, e.scaled)
      /\ w.copy = Wgpu!Taken(e.copy, Wgpu!BoundingBox(S), e.scaled)
  BY <1>1, SyncIs
<1>3. S \subseteq Wgpu!BoundingBox(S)
  BY BoxesCover
<1>4. ASSUME NEW t \in Tiles, t \notin other, t \notin gone
      PROVE  w.native[t] = v[t] /\ w.copy[t] = v[t]
  <2>1. w.native[t] = IF t \in S THEN v[t] ELSE e.native[t]
    BY <1>1, <1>2, <1>4 DEF Wgpu!Taken
  <2>2. w.copy[t] = IF t \in Wgpu!BoundingBox(S) THEN v[t] ELSE e.copy[t]
    BY <1>1, <1>2, <1>4 DEF Wgpu!Taken
  <2>3. t \notin S => e.native[t] = v[t] /\ e.copy[t] = v[t]
    BY <1>4 DEF LooksLike
  <2>4. QED
    BY <1>3, <2>1, <2>2, <2>3
<1> HIDE DEF w
<1>5. QED
  BY <1>1, <1>2, <1>4 DEF LooksLike, w

LEMMA DrawnLooksLike ==
  ASSUME NEW v \in Contents, NEW other, NEW gone, NEW e, LooksLike(e, v, other, gone),
         NEW c \in DrawnCommands, ~Wgpu!SamplesOld(e, c), NEW w, Applied(c, e, w)
  PROVE  LooksLike(w, Wgpu!Written(v, c.area, c.value), other \union c.area, gone \ c.area)
<1>1. c.kind = "Draw"
  BY DEF DrawnCommands
<1>2. /\ w \in Memory /\ w.scaled = Wgpu!Written(e.scaled, c.area, c.value)
      /\ w.copy = e.copy /\ w.native = e.native /\ w.stale = (e.stale \/ Wgpu!SamplesOld(e, c))
  BY <1>1 DEF Applied
<1>3. \A t \in Tiles : \A x : Wgpu!Written(x, c.area, c.value)[t] = IF t \in c.area THEN c.value ELSE x[t]
  BY DEF Wgpu!Written
<1>4. e \in Memory /\ ~w.stale
  BY <1>2 DEF LooksLike
<1>5. ASSUME NEW t \in Tiles, t \notin gone \ c.area
      PROVE  /\ w.scaled[t] = Wgpu!Written(v, c.area, c.value)[t]
             /\ t \notin other \union c.area =>
                  w.native[t] = Wgpu!Written(v, c.area, c.value)[t] /\ w.copy[t] = Wgpu!Written(v, c.area, c.value)[t]
  <2>1. t \in c.area => w.scaled[t] = c.value /\ Wgpu!Written(v, c.area, c.value)[t] = c.value
    BY <1>2, <1>3
  <2>2. ASSUME t \notin c.area
        PROVE  /\ w.scaled[t] = v[t] /\ Wgpu!Written(v, c.area, c.value)[t] = v[t]
               /\ t \notin other => w.native[t] = v[t] /\ w.copy[t] = v[t]
    <3>1. /\ e.scaled[t] = v[t]
          /\ t \notin other => e.native[t] = v[t] /\ e.copy[t] = v[t]
      BY <1>5, <2>2 DEF LooksLike
    <3>2. w.scaled[t] = e.scaled[t] /\ Wgpu!Written(v, c.area, c.value)[t] = v[t]
      BY <1>2, <1>3, <2>2
    <3>3. QED
      BY <1>2, <3>1, <3>2
  <2>3. QED
    BY <2>1, <2>2
<1>6. QED
  BY <1>2, <1>4, <1>5 DEF LooksLike

LEMMA BlittedLooksLike ==
  ASSUME NEW v \in Contents, NEW other, NEW gone, NEW e, LooksLike(e, v, other, gone),
         NEW c \in BlitCommands, NEW w, Applied(c, e, w)
  PROVE  LooksLike(w, Wgpu!Written(v, c.area, c.value), other \ c.area, (gone \union c.area) \ c.reached)
<1>1. c.kind = "Blit" /\ c.reached \subseteq c.area
  BY DEF BlitCommands
<1>2. /\ w \in Memory /\ w.native = Wgpu!Written(e.native, c.area, c.value) /\ w.stale = e.stale
      /\ \A t \in Tiles : t \notin c.area \ c.reached =>
           /\ w.scaled[t] = Wgpu!Written(e.scaled, c.area, c.value)[t]
           /\ w.copy[t] = Wgpu!Written(e.copy, c.area, c.value)[t]
  BY <1>1 DEF Applied
<1>3. \A t \in Tiles : \A x : Wgpu!Written(x, c.area, c.value)[t] = IF t \in c.area THEN c.value ELSE x[t]
  BY DEF Wgpu!Written
<1>4. QED
  BY <1>1, <1>2, <1>3 DEF LooksLike

LEMMA CopiedLooksLike ==
  ASSUME NEW v \in Contents, NEW other, NEW gone, NEW e, LooksLike(e, v, other, gone),
         NEW c \in CopyCommands, NEW w, Applied(c, e, w)
  PROVE  LooksLike(w, Wgpu!Copied(v, c.copy), other \union {c.copy.dest},
                   IF c.copy.source \in gone THEN gone \union {c.copy.dest} ELSE gone \ {c.copy.dest})
<1>1. c.kind = "Copy" /\ c.copy \in [source: Tiles, dest: Tiles]
  BY DEF CopyCommands
<1>2. /\ w \in Memory /\ w.scaled = Wgpu!Copied(e.scaled, c.copy)
      /\ w.copy = e.copy /\ w.native = e.native /\ w.stale = e.stale
  BY <1>1 DEF Applied
<1>3. \A t \in Tiles : \A x \in Contents :
        Wgpu!Copied(x, c.copy)[t] = IF t = c.copy.dest THEN x[c.copy.source] ELSE x[t]
  BY <1>1 DEF Wgpu!Copied, Contents
<1>4. e.scaled \in Contents /\ c.copy.source \in Tiles
  BY <1>1 DEF LooksLike, Memory
<1>5. QED
  BY <1>2, <1>3, <1>4 DEF LooksLike

\* More tiles are excepted.
LEMMA LooksLikeMore ==
  ASSUME NEW e, NEW v, NEW few, NEW many, NEW gone, LooksLike(e, v, few, gone), few \subseteq many
  PROVE  LooksLike(e, v, many, gone)
BY DEF LooksLike

LEMMA LoadedType ==
  ASSUME VramTypeOK
  PROVE  Wgpu!Loaded \in Memory /\ LeftBehind(Wgpu!Loaded, draw_commands) \in Memory
<1>1. Wgpu!Loaded \in Memory
  BY DEF VramTypeOK, Wgpu!Loaded, Memory
<1>2. draw_commands \in Seq(Queueable) /\ Len(draw_commands) \in 0 .. Len(draw_commands)
  BY DEF VramTypeOK
<1> DEFINE q == draw_commands
           r == Wgpu!Ran(Wgpu!Loaded, q)
<1>3. r \in [0 .. Len(q) -> Memory]
  <2> HIDE DEF q
  <2> QED
    BY <1>1, <1>2, RanIs DEF q
<1>4. QED
  <2> HIDE DEF r
  <2> QED BY <1>1, <1>2, <1>3 DEF LeftBehind, r

\* A command that is pushed runs behind the queue.
LEMMA PushedIsApplied ==
  ASSUME VramTypeOK, NEW c \in Queueable, UNCHANGED <<mem, stale>>, draw_commands' = Append(draw_commands, c)
  PROVE  /\ draw_commands' \in Seq(Queueable) /\ draw_commands' # <<>>
         /\ Applied(c, LeftBehind(Wgpu!Loaded, draw_commands), LeftBehind(Wgpu!Loaded, draw_commands)')
<1>1. Wgpu!Loaded' = Wgpu!Loaded
  BY DEF Wgpu!Loaded
<1>2. draw_commands \in Seq(Queueable) /\ Wgpu!Loaded \in Memory
  BY LoadedType DEF VramTypeOK
<1> DEFINE q == draw_commands
           m == Wgpu!Loaded
<1>3. Applied(c, LeftBehind(m, q), LeftBehind(m, Append(q, c)))
  <2> HIDE DEF q, m
  <2> QED
    BY <1>2, OneAfterTheOther DEF q, m
<1>4. LeftBehind(Wgpu!Loaded, draw_commands)' = LeftBehind(m, Append(q, c))
  BY <1>1
<1>5. Append(q, c) \in Seq(Queueable) /\ Append(q, c) # <<>>
  BY <1>2
<1>6. QED
  BY <1>3, <1>4, <1>5
-----------------------------------------------------------------------------
\* The invariant VramInv: at first, after every command and after every flush.
LEMMA VramStarts == MCInit => VramInv
<1> SUFFICES ASSUME MCInit
             PROVE  VramInv
  OBVIOUS
<1>1. Wgpu!Init
  BY DEF MCInit
<1>2. SyncDelay \in Nat
  BY WgpuAssumption
<1>3. VramTypeOK
  <2>1. [t \in Tiles |-> 0] \in Contents /\ <<>> \in Seq(Queueable)
    BY DEF Contents
  <2>2. /\ draw_commands = <<>> /\ marked = {} /\ scaled_native_sync_delay = 0 /\ since = SyncDelay
        /\ vram \in Contents /\ issued = 0 /\ lines = {} /\ missed = {} /\ stale = FALSE
        /\ mem \in [scaled: Contents, copy: Contents, native: Contents]
    BY <1>1, <2>1 DEF Wgpu!Init
  <2>3. draw_commands \in Seq(Queueable)
    BY <2>1, <2>2, Zenon
  <2>4. /\ scaled_native_sync_delay \in 0 .. SyncDelay /\ since \in 0 .. SyncDelay
        /\ marked \in SUBSET Tiles /\ lines \in SUBSET Tiles /\ missed \in SUBSET Tiles
        /\ issued \in Nat /\ stale \in BOOLEAN
    <3>1. 0 \in 0 .. SyncDelay /\ SyncDelay \in 0 .. SyncDelay
      BY <1>2
    <3>2. {} \in SUBSET Tiles
      OBVIOUS
    <3>3. QED
      BY <2>2, <3>1, <3>2, Zenon
  <2>5. QED
    BY <2>2, <2>3, <2>4, Zenon DEF VramTypeOK
<1>4. LeftBehind(Wgpu!Loaded, draw_commands) = Wgpu!Loaded
  BY <1>1, <1>3, LoadedType, NothingLeftBehind DEF Wgpu!Init
<1>5. LooksLike(Wgpu!Loaded, vram, lines \union marked, missed)
  BY <1>1, <1>3, LoadedType DEF Wgpu!Init, Wgpu!Loaded, LooksLike
<1>6. QED
  BY <1>1, <1>2, <1>3, <1>4, <1>5 DEF Wgpu!Init, VramInv, VramAgrees

-----------------------------------------------------------------------------
\* What is checked of textures, and what is sampled of them.
LEMMA VramSize ==
  /\ VramWidth \in Nat /\ Texels \in Nat /\ Texels <= VramWidth
  /\ PaletteUnit \in Nat /\ LongPalette \in Nat /\ PaletteUnit <= VramWidth /\ LongPalette <= VramWidth
  /\ TileWidth \in Nat /\ \A t \in Tiles : TileWidth * t \in Nat
<1>1. TileWidth \in Nat /\ TileCount \in Nat
  BY WgpuAssumption
<1>2. VramWidth \in Nat
  BY <1>1 DEF VramWidth
<1>3. \A t \in Tiles : TileWidth * t \in Nat
  BY <1>1 DEF Tiles
<1>4. QED
  BY <1>1, <1>2, <1>3, WgpuAssumption

\* The tiles of a box are those of its columns, around the end of VRAM too.
LEMMA BoxesHoldColumns ==
  ASSUME NEW first \in Nat, NEW width \in Nat, NEW column \in Nat, NEW t \in Tiles,
         first <= column, column < first + width
  PROVE  /\ Wgpu!InTile(t, column) => t \in Wgpu!Box(first, first + width)
         /\ Wgpu!InTile(t, Wgpu!Around(column)) => t \in Wgpu!BoxAround(first, width)
<1> DEFINE start == TileWidth * t
<1>1. start \in Nat /\ TileWidth \in Nat /\ VramWidth \in Nat
  BY VramSize
<1>2. ASSUME NEW from \in Nat, NEW end \in Nat, NEW c \in Nat, from <= c, c < end, Wgpu!InTile(t, c)
      PROVE  t \in Wgpu!Box(from, end)
  <2>1. start <= c /\ c < start + TileWidth
    BY <1>2 DEF Wgpu!InTile
  <2> HIDE DEF start
  <2>2. from < start + TileWidth /\ start < end
    BY <1>1, <1>2, <2>1
  <2>3. QED
    BY <2>2 DEF Wgpu!Box, start
<1>3. ASSUME Wgpu!InTile(t, Wgpu!Around(column))
      PROVE  t \in Wgpu!BoxAround(first, width)
  <2>1. CASE column < VramWidth
    <3>1. Wgpu!InTile(t, column)
      BY <1>3, <2>1 DEF Wgpu!Around
    <3>2. t \in Wgpu!Box(first, VramWidth) /\ t \in Wgpu!Box(first, first + width)
      BY <1>1, <1>2, <2>1, <3>1
    <3>3. QED
      BY <3>2 DEF Wgpu!BoxAround
  <2>2. CASE ~(column < VramWidth)
    <3>1. Wgpu!InTile(t, column - VramWidth)
      BY <1>3, <2>2 DEF Wgpu!Around
    <3>2. column - VramWidth \in Nat /\ first + width - VramWidth \in Nat
          /\ column - VramWidth < first + width - VramWidth /\ first + width > VramWidth
      BY <1>1, <2>2
    <3>3. t \in Wgpu!Box(0, first + width - VramWidth)
      BY <1>2, <3>1, <3>2
    <3>4. QED
      BY <3>2, <3>3 DEF Wgpu!BoxAround
  <2>3. QED
    BY <2>1, <2>2
<1>4. QED
  BY <1>2, <1>3

LEMMA RangesInPage ==
  ASSUME NEW mapping \in Mappings, NEW range \in Wgpu!Ranges(mapping)
  PROVE  range.lo \in Nat /\ range.hi \in Nat /\ range.lo <= range.hi /\ range.hi < Texels
<1>1. mapping.u \in 0 .. Texels - 1 /\ mapping.width \in Nat \ {0} /\ Texels \in Nat
  BY VramSize DEF Mappings
<1>2. QED
  BY <1>1 DEF Wgpu!Ranges

\* As many halfwords as a range fills are those it fills from the first one on.
LEMMA FilledHalfwords ==
  ASSUME NEW lo \in Nat, NEW hi \in Nat, NEW u \in lo .. hi, NEW n \in {1, 2, 4},
         lo % n = 0, (u \div n) * n + n <= hi + 1
  PROVE  /\ lo \div n \in Nat /\ u \div n \in Nat /\ (hi - lo + 1) \div n \in Nat
         /\ lo \div n <= u \div n /\ u \div n < lo \div n + (hi - lo + 1) \div n /\ u \div n <= u
<1>1. CASE n = 1
  BY <1>1
<1>2. CASE n = 2
  BY <1>2
<1>3. CASE n = 4
  BY <1>3
<1>4. QED
  BY <1>1, <1>2, <1>3

LEMMA GoesAround ==
  ASSUME NEW base \in Nat, NEW k \in Nat, ~(base + k < VramWidth)
  PROVE  Wgpu!Around(base + k) = base + k - VramWidth
BY VramSize DEF Wgpu!Around

\* The check of a texture looks at every tile of the halfwords that are sampled whole from the
\* first one on, wherever they are in VRAM and in the page.
LEMMA TexturesAreChecked ==
  ASSUME NEW mapping \in Mappings
  PROVE  Wgpu!TextureTiles(mapping) \subseteq Wgpu!CheckedTexture(mapping)
<1> SUFFICES ASSUME NEW t \in Wgpu!TextureTiles(mapping)
             PROVE  t \in Wgpu!CheckedTexture(mapping)
  OBVIOUS
<1> DEFINE n == Wgpu!TexelsInColumn(mapping)
<1>1. PICK r \in Wgpu!Ranges(mapping) : \E u \in Wgpu!FilledTexels(mapping, r) : Wgpu!InTile(t, Wgpu!ColumnOf(mapping, u))
  BY DEF Wgpu!TextureTiles
<1>2. PICK u \in Wgpu!FilledTexels(mapping, r) : Wgpu!InTile(t, Wgpu!ColumnOf(mapping, u))
  BY <1>1
<1>3. n \in {1, 2, 4}
  BY DEF Wgpu!TexelsInColumn, Mappings
<1>4. t \in Tiles /\ mapping.base \in Nat /\ mapping.base < VramWidth
  BY VramSize DEF Wgpu!TextureTiles, Mappings
<1>5. r.lo \in Nat /\ r.hi \in Nat /\ r.lo <= r.hi /\ r.hi < Texels /\ Texels \in Nat
  BY RangesInPage, VramSize
<1>6. u \in r.lo .. r.hi /\ r.lo % n = 0 /\ (u \div n) * n + n <= r.hi + 1
  BY DEF Wgpu!FilledTexels
<1> DEFINE a == r.lo \div n
           b == u \div n
           width == (r.hi - r.lo + 1) \div n
<1>7. a \in Nat /\ b \in Nat /\ width \in Nat /\ a <= b /\ b < a + width /\ b <= u
  <2> HIDE DEF n
  <2> QED
    BY <1>3, <1>5, <1>6, FilledHalfwords
<1>8. /\ Wgpu!ColumnOf(mapping, r.lo) = Wgpu!Around(mapping.base + a)
      /\ Wgpu!ColumnOf(mapping, u) = Wgpu!Around(mapping.base + b)
  BY DEF Wgpu!ColumnOf
<1>9. t \in Wgpu!BoxAround(Wgpu!ColumnOf(mapping, r.lo), width)
  <2>1. VramWidth \in Nat /\ b < VramWidth
    <3> HIDE DEF b
    <3> QED
      BY <1>5, <1>6, <1>7, VramSize
  <2> HIDE DEF a, b, width
  <2>2. CASE mapping.base + a < VramWidth
    <3>1. Wgpu!ColumnOf(mapping, r.lo) = mapping.base + a
      BY <1>8, <2>2 DEF Wgpu!Around
    <3>2. /\ mapping.base + a \in Nat /\ mapping.base + b \in Nat
          /\ mapping.base + a <= mapping.base + b /\ mapping.base + b < (mapping.base + a) + width
      BY <1>4, <1>7
    <3>3. QED
      BY <1>2, <1>4, <1>7, <1>8, <3>1, <3>2, BoxesHoldColumns
  <2>3. CASE ~(mapping.base + a < VramWidth)
    <3> DEFINE x == mapping.base + a - VramWidth
               y == mapping.base + b - VramWidth
    <3>1. x \in Nat /\ y \in Nat /\ x <= y /\ y < x + width /\ y < VramWidth /\ ~(mapping.base + b < VramWidth)
      BY <1>4, <1>7, <2>1, <2>3
    <3>2. Wgpu!ColumnOf(mapping, r.lo) = x /\ Wgpu!ColumnOf(mapping, u) = y
      <4>1. Wgpu!Around(mapping.base + a) = x /\ Wgpu!Around(mapping.base + b) = y
        BY <1>4, <1>7, <2>3, <3>1, GoesAround
      <4>2. QED
        BY <1>8, <4>1
    <3> HIDE DEF x, y
    <3>3. Wgpu!Around(y) = y
      BY <3>1 DEF Wgpu!Around
    <3>4. QED
      BY <1>2, <1>4, <1>7, <3>1, <3>2, <3>3, BoxesHoldColumns
  <2>4. QED
    BY <2>2, <2>3
<1>10. QED
  BY <1>9 DEF Wgpu!CheckedTexture

\* The check of a palette in the first columns looks at every tile of it.
LEMMA PalettesAreChecked ==
  ASSUME NEW mapping \in Mappings
  PROVE  Wgpu!PaletteTiles(mapping) \subseteq Wgpu!CheckedPalette(mapping)
<1> SUFFICES ASSUME NEW t \in Wgpu!PaletteTiles(mapping)
             PROVE  t \in Wgpu!CheckedPalette(mapping)
  OBVIOUS
<1>1. t \in Tiles /\ mapping.clut_x = 0
  BY DEF Wgpu!PaletteTiles
<1>2. PICK column \in 0 .. Wgpu!PaletteLen(mapping) - 1 : Wgpu!InTile(t, column)
  BY DEF Wgpu!PaletteTiles
<1>3. mapping.depth \in {"Four", "Eight", "Fifteen"}
  BY DEF Mappings
<1>4. CASE mapping.depth = "Four"
  <2>1. column \in Nat /\ column < 0 + PaletteUnit /\ PaletteUnit \in Nat
    BY <1>2, <1>4, VramSize DEF Wgpu!PaletteLen
  <2>2. t \in Wgpu!Box(0, 0 + PaletteUnit)
    BY <1>1, <1>2, <2>1, BoxesHoldColumns
  <2>3. QED
    BY <1>1, <1>4, <2>2 DEF Wgpu!CheckedPalette
<1>5. CASE mapping.depth = "Eight"
  <2>1. column \in Nat /\ column < 0 + LongPalette /\ LongPalette \in Nat /\ LongPalette <= VramWidth
    BY <1>2, <1>5, VramSize DEF Wgpu!PaletteLen
  <2>2. Wgpu!Around(column) = column
    BY <2>1, VramSize DEF Wgpu!Around
  <2>3. t \in Wgpu!BoxAround(0, LongPalette)
    BY <1>1, <1>2, <2>1, <2>2, BoxesHoldColumns
  <2>4. QED
    BY <1>1, <1>5, <2>3 DEF Wgpu!CheckedPalette
<1>6. CASE mapping.depth = "Fifteen"
  BY <1>2, <1>6 DEF Wgpu!PaletteLen
<1>7. QED
  BY <1>3, <1>4, <1>5, <1>6

\* What a draw is to find current is current, where it is in the queue.
LEMMA DrawFindsCurrent ==
  ASSUME VramTypeOK, NEW draw \in [area: SUBSET Tiles, masked: BOOLEAN, texture: SUBSET Mappings],
         NEW other, NEW gone, NEW e, LooksLike(e, vram, other, gone),
         \A t \in Wgpu!MustBeFresh(draw) : t \notin other /\ t \notin gone
  PROVE  /\ Wgpu!DrawCommand(draw) \in DrawnCommands
         /\ ~Wgpu!SamplesOld(e, Wgpu!DrawCommand(draw))
<1> DEFINE fresh == Wgpu!MustBeFresh(draw)
           expected == [t \in fresh |-> vram[t]]
           c == Wgpu!DrawCommand(draw)
           direct == \E mapping \in draw.texture : mapping.depth = "Fifteen"
<1>1. fresh \in SUBSET Tiles
  BY DEF Wgpu!MustBeFresh, Wgpu!TextureTiles, Wgpu!PaletteTiles
<1>2. c = [kind |-> "Draw", area |-> draw.area, masked |-> draw.masked, value |-> Wgpu!Serial,
           direct |-> direct, expected |-> expected]
  BY DEF Wgpu!DrawCommand
<1>3. Wgpu!Serial \in Nat
  BY DEF Wgpu!Serial, VramTypeOK
<1> HIDE DEF fresh, c, direct
<1>4. expected \in [fresh -> Nat]
  BY <1>1 DEF VramTypeOK, Contents
<1>5. expected \in UNION {[S -> Nat] : S \in SUBSET Tiles}
  <2> HIDE DEF expected
  <2> QED
    BY <1>1, <1>4
<1>6. c.expected = expected
  BY <1>2
<1>7. c \in DrawnCommands
  <2>1. direct \in BOOLEAN
    BY DEF direct
  <2> HIDE DEF expected
  <2> QED
    BY <1>2, <1>3, <1>5, <2>1 DEF DrawnCommands
<1>8. \A t \in fresh : Wgpu!Sampled(e, c)[t] = vram[t]
  BY <1>1 DEF LooksLike, Wgpu!Sampled, fresh
<1>9. ~Wgpu!SamplesOld(e, c)
  BY <1>6, <1>8 DEF Wgpu!SamplesOld
<1>10. QED
  BY <1>7, <1>9 DEF c

\* The next draw of a series, and what it is excused for.
LEMMA SeriesGoOn ==
  ASSUME VramInv, NEW draw
  PROVE  /\ Wgpu!DelayLeft \in 0 .. SyncDelay
         /\ Wgpu!Min({since + 1, SyncDelay}) \in 0 .. SyncDelay
         /\ Wgpu!Min({since + 1, SyncDelay}) + Wgpu!DelayLeft = SyncDelay
         /\ Wgpu!DelayLeft # 0 => since + 1 < SyncDelay
<1>1. /\ SyncDelay \in Nat /\ since \in 0 .. SyncDelay /\ scaled_native_sync_delay \in 0 .. SyncDelay
      /\ since + scaled_native_sync_delay = SyncDelay
  BY WgpuAssumption DEF VramInv, VramTypeOK, VramAgrees
<1> DEFINE m == Wgpu!Min({since + 1, SyncDelay})
<1>2. m \in {since + 1, SyncDelay} /\ m <= since + 1 /\ m <= SyncDelay
  <2>1. {since + 1, SyncDelay} \in SUBSET Nat /\ {since + 1, SyncDelay} # {}
    BY <1>1
  <2>2. QED
    BY <2>1, MinIs
<1>3. Wgpu!DelayLeft = IF scaled_native_sync_delay = 0 THEN 0 ELSE scaled_native_sync_delay - 1
  BY DEF Wgpu!DelayLeft
<1> HIDE DEF m
<1>4. QED
  BY <1>1, <1>2, <1>3 DEF m

\* A draw: after a sync if one is due, and otherwise with an excuse or with current contents.
LEMMA DrawAgrees ==
  ASSUME VramInv, NEW draw \in Triangles \union Rectangles, Wgpu!DrawPrimitive(draw)
  PROVE  VramInv'
<1> DEFINE q == draw_commands
           m == Wgpu!Loaded
           e == LeftBehind(m, q)
           c == Wgpu!DrawCommand(draw)
           after == LeftBehind(Wgpu!Loaded, draw_commands)'
<1>1. /\ draw \in [area: SUBSET Tiles, masked: BOOLEAN, texture: SUBSET Mappings]
      /\ draw.area \in SUBSET Tiles /\ draw.texture \in SUBSET Mappings
  BY WgpuAssumption
<1>2. /\ q \in Seq(Queueable) /\ m \in Memory /\ e \in Memory /\ vram \in Contents
      /\ marked \in SUBSET Tiles /\ lines \in SUBSET Tiles /\ missed \in SUBSET Tiles
      /\ LooksLike(e, vram, lines \union marked, missed) /\ ~stale
  BY LoadedType DEF VramInv, VramTypeOK, VramAgrees
<1>3. /\ issued' = Wgpu!Serial /\ lines' = lines \ draw.area /\ missed' = missed \ draw.area
      /\ vram' = Wgpu!Written(vram, draw.area, Wgpu!Serial)
      /\ UNCHANGED <<out_of_sync, ram_buffer, mem, stale>>
      /\ marked' = (IF Wgpu!SyncsFirst(draw) THEN {} ELSE marked) \union draw.area
      /\ draw_commands' = q \o ((IF Wgpu!SyncsFirst(draw) THEN Wgpu!SyncCommand ELSE <<>>) \o <<c>>)
  BY DEF Wgpu!DrawPrimitive, Wgpu!Issue, Wgpu!MarkedAt, Wgpu!Push
<1>4. Wgpu!Loaded' = m
  BY <1>3 DEF Wgpu!Loaded
<1>5. c.area = draw.area /\ c.value = Wgpu!Serial
  BY DEF Wgpu!DrawCommand
<1> DEFINE Looks == /\ draw_commands' \in Seq(Queueable) /\ draw_commands' # <<>>
                    /\ LooksLike(after, vram', lines' \union marked', missed')
<1>6. ASSUME Wgpu!SyncsFirst(draw)
      PROVE  Looks
  <2> DEFINE sync == [kind |-> "ScaledNativeSync", area |-> marked]
             synced == LeftBehind(m, Append(q, sync))
  <2>1. marked # {}
    BY <1>6 DEF Wgpu!SyncsFirst, Wgpu!AnyMarkedRendered
  <2>2. draw_commands' = Append(Append(q, sync), c)
    <3>1. draw_commands' = q \o (<<sync>> \o <<c>>)
      BY <1>3, <1>6, <2>1 DEF Wgpu!SyncCommand
    <3> HIDE DEF q, c, sync
    <3>2. q \o (<<sync>> \o <<c>>) = Append(Append(q, sync), c)
      BY <1>2
    <3>3. QED
      BY <3>1, <3>2
  <2>3. sync \in Queueable /\ sync.kind = "ScaledNativeSync" /\ sync.area = marked
    BY <1>2 DEF Queueable, SyncCommands
  <2> HIDE DEF sync
  <2>4. Append(q, sync) \in Seq(Queueable)
    <3> HIDE DEF q
    <3> QED
      BY <1>2, <2>3
  <2>5. synced = Wgpu!ExecuteSync(e, marked)
    <3>1. Applied(sync, e, synced)
      <4> HIDE DEF q, m
      <4> QED
        BY <1>2, <2>3, OneAfterTheOther
    <3> HIDE DEF synced, e
    <3>2. QED
      BY <2>3, <3>1 DEF Applied
  <2>6. LooksLike(synced, vram, lines, missed)
    <3> HIDE DEF synced, e
    <3> QED
      BY <1>2, <2>5, SyncedLooksLike
  <2>7. c \in DrawnCommands /\ ~Wgpu!SamplesOld(synced, c)
    <3>1. \A t \in Wgpu!MustBeFresh(draw) : t \notin lines /\ t \notin missed
      BY DEF Wgpu!MustBeFresh
    <3> HIDE DEF synced
    <3>2. QED
      BY <1>1, <2>6, <3>1, DrawFindsCurrent DEF VramInv
  <2>8. Applied(c, synced, after)
    <3>1. c \in Queueable
      BY <2>7 DEF Queueable
    <3> DEFINE s == Append(q, sync)
    <3>2. Applied(c, LeftBehind(m, s), LeftBehind(m, Append(s, c)))
      <4> HIDE DEF s, m, c
      <4> QED
        BY <1>2, <2>4, <3>1, OneAfterTheOther DEF s
    <3>3. after = LeftBehind(m, Append(s, c))
      BY <1>4, <2>2
    <3>4. QED
      BY <3>2, <3>3
  <2>9. LooksLike(after, vram', lines \union draw.area, missed')
    <3> HIDE DEF synced, after, c
    <3>1. LooksLike(after, Wgpu!Written(vram, c.area, c.value), lines \union c.area, missed \ c.area)
      BY <1>2, <2>6, <2>7, <2>8, DrawnLooksLike
    <3>2. QED
      BY <1>3, <1>5, <3>1
  <2>10. LooksLike(after, vram', lines' \union marked', missed')
    <3>1. lines \union draw.area \subseteq lines' \union marked'
      BY <1>3, <1>6
    <3> HIDE DEF after
    <3>2. QED
      BY <2>9, <3>1, LooksLikeMore
  <2>11. draw_commands' \in Seq(Queueable) /\ draw_commands' # <<>>
    <3>1. c \in Queueable
      BY <2>7 DEF Queueable
    <3> DEFINE s == Append(q, sync)
    <3> HIDE DEF s, c
    <3>2. Append(s, c) \in Seq(Queueable) /\ Append(s, c) # <<>>
      BY <2>4, <3>1 DEF s
    <3>3. QED
      BY <2>2, <3>2 DEF s, c
  <2>12. QED
    BY <2>10, <2>11
<1>7. ASSUME ~Wgpu!SyncsFirst(draw)
      PROVE  Looks
  <2>1. draw_commands' = Append(q, c)
    <3>1. draw_commands' = q \o (<<>> \o <<c>>)
      BY <1>3, <1>7
    <3> HIDE DEF q, c
    <3>2. q \o (<<>> \o <<c>>) = Append(q, c)
      BY <1>2
    <3>3. QED
      BY <3>1, <3>2
  <2>2. \A t \in Wgpu!MustBeFresh(draw) : t \notin lines \union marked /\ t \notin missed
    <3>1. Wgpu!AnyMarkedRendered(draw) => since + 1 < SyncDelay
      BY <1>7, SeriesGoOn DEF Wgpu!SyncsFirst
    <3>2. Wgpu!MustBeFresh(draw) # {} => ~Wgpu!AnyMarkedRendered(draw)
      BY <3>1 DEF Wgpu!MustBeFresh
    <3>3. \A mapping \in draw.texture :
            /\ Wgpu!TextureTiles(mapping) \subseteq Wgpu!CheckedTexture(mapping)
            /\ Wgpu!PaletteTiles(mapping) \subseteq Wgpu!CheckedPalette(mapping)
      BY <1>1, TexturesAreChecked, PalettesAreChecked
    <3>4. ASSUME NEW t \in Wgpu!MustBeFresh(draw)
          PROVE  t \notin lines /\ t \notin missed /\ t \notin marked
      <4>1. /\ t \notin lines /\ t \notin missed
            /\ \E mapping \in draw.texture : t \in Wgpu!TextureTiles(mapping) \union Wgpu!PaletteTiles(mapping)
        BY DEF Wgpu!MustBeFresh
      <4>2. ~Wgpu!AnyMarkedRendered(draw)
        BY <3>2
      <4>3. QED
        BY <3>3, <4>1, <4>2 DEF Wgpu!AnyMarkedRendered
    <3>5. QED
      BY <3>4
  <2>3. c \in DrawnCommands /\ ~Wgpu!SamplesOld(e, c)
    <3> HIDE DEF e
    <3> QED
      BY <1>1, <1>2, <2>2, DrawFindsCurrent DEF VramInv
  <2>4. /\ draw_commands' \in Seq(Queueable) /\ draw_commands' # <<>>
        /\ Applied(c, e, after)
    <3>1. c \in Queueable
      BY <2>3 DEF Queueable
    <3> HIDE DEF c
    <3>2. QED
      BY <1>3, <2>1, <3>1, PushedIsApplied DEF VramInv
  <2>5. LooksLike(after, vram', (lines \union marked) \union draw.area, missed')
    <3> HIDE DEF e, after, c
    <3>1. LooksLike(after, Wgpu!Written(vram, c.area, c.value), (lines \union marked) \union c.area,
                    missed \ c.area)
      BY <1>2, <2>3, <2>4, DrawnLooksLike
    <3>2. QED
      BY <1>3, <1>5, <3>1
  <2>6. LooksLike(after, vram', lines' \union marked', missed')
    <3>1. (lines \union marked) \union draw.area \subseteq lines' \union marked'
      BY <1>3, <1>7
    <3> HIDE DEF after
    <3>2. QED
      BY <2>5, <3>1, LooksLikeMore
  <2>7. QED
    BY <2>4, <2>6
<1>8. /\ scaled_native_sync_delay' \in 0 .. SyncDelay /\ since' \in 0 .. SyncDelay
      /\ since' + scaled_native_sync_delay' = SyncDelay
  <2>1. SyncDelay \in Nat
    BY WgpuAssumption
  <2>2. \/ scaled_native_sync_delay' = SyncDelay /\ since' = 0
        \/ scaled_native_sync_delay' = Wgpu!DelayLeft /\ since' = Wgpu!Min({since + 1, SyncDelay})
    BY DEF Wgpu!DrawPrimitive
  <2>3. QED
    BY <2>1, <2>2, SeriesGoOn
<1>9. /\ vram' \in Contents /\ issued' \in Nat
      /\ marked' \in SUBSET Tiles /\ lines' \in SUBSET Tiles /\ missed' \in SUBSET Tiles
      /\ mem' = mem /\ stale' = stale
  <2>1. Wgpu!Serial \in Nat
    BY DEF Wgpu!Serial, VramInv, VramTypeOK
  <2>2. vram' \in Contents
    BY <1>2, <1>3, <2>1 DEF Wgpu!Written, Contents
  <2>3. QED
    BY <1>1, <1>2, <1>3, <2>1, <2>2
<1>10. /\ draw_commands' \in Seq(Queueable) /\ draw_commands' # <<>>
       /\ LooksLike(after, vram', lines' \union marked', missed')
  BY <1>6, <1>7
<1>11. VramTypeOK'
  BY <1>8, <1>9, <1>10 DEF VramInv, VramTypeOK
<1>12. VramAgrees'
  BY <1>2, <1>8, <1>9, <1>10 DEF VramAgrees
<1>13. QED
  BY <1>11, <1>12 DEF VramInv
\* A line, a fill or a write of the CPU, and a copy inside VRAM.
LEMMA LineAgrees ==
  ASSUME VramInv, Wgpu!DrawLine
  PROVE  VramInv'
<1> DEFINE LineDraw(area) == [area |-> area, masked |-> FALSE, texture |-> {}]
<1>1. PICK area \in Areas :
        /\ draw_commands' = draw_commands \o <<Wgpu!DrawCommand(LineDraw(area))>>
        /\ issued' = Wgpu!Serial /\ lines' = lines \union (area \ marked) /\ missed' = missed \ area
        /\ vram' = Wgpu!Written(vram, area, Wgpu!Serial)
        /\ UNCHANGED <<marked, scaled_native_sync_delay, out_of_sync, ram_buffer, mem, since, stale>>
  BY DEF Wgpu!DrawLine, Wgpu!Issue, Wgpu!Push
<1> DEFINE draw == LineDraw(area)
           c == Wgpu!DrawCommand(draw)
           e == LeftBehind(Wgpu!Loaded, draw_commands)
           after == LeftBehind(Wgpu!Loaded, draw_commands)'
<1>2. /\ draw \in [area: SUBSET Tiles, masked: BOOLEAN, texture: SUBSET Mappings]
      /\ area \in SUBSET Tiles
  BY WgpuAssumption
<1>3. c.area = area /\ c.value = Wgpu!Serial /\ Wgpu!MustBeFresh(draw) = {}
  BY DEF Wgpu!DrawCommand, Wgpu!MustBeFresh
<1>4. VramTypeOK /\ LooksLike(e, vram, lines \union marked, missed) /\ vram \in Contents
  BY DEF VramInv, VramAgrees, VramTypeOK
<1> HIDE DEF draw
<1>5. c \in DrawnCommands /\ ~Wgpu!SamplesOld(e, c)
  <2> HIDE DEF e
  <2> QED
    BY <1>2, <1>3, <1>4, DrawFindsCurrent
<1>6. c \in Queueable /\ draw_commands' = Append(draw_commands, c)
  BY <1>1, <1>4, <1>5 DEF Queueable, VramTypeOK, draw
<1>7. draw_commands' \in Seq(Queueable) /\ draw_commands' # <<>> /\ Applied(c, e, after)
  <2> HIDE DEF c
  <2> QED
    BY <1>1, <1>4, <1>6, PushedIsApplied
<1>8. LooksLike(after, vram', lines' \union marked', missed')
  <2> HIDE DEF e, after, c
  <2>1. LooksLike(after, Wgpu!Written(vram, c.area, c.value), (lines \union marked) \union c.area, missed \ c.area)
    BY <1>4, <1>5, <1>7, DrawnLooksLike
  <2>2. (lines \union marked) \union c.area = lines' \union marked'
    BY <1>1, <1>3
  <2>3. QED
    BY <1>1, <1>3, <2>1, <2>2
<1>9. VramTypeOK'
  <2>1. Wgpu!Serial \in Nat
    BY <1>4 DEF Wgpu!Serial, VramTypeOK
  <2>2. vram' \in Contents
    BY <1>1, <1>4, <2>1 DEF Wgpu!Written, Contents
  <2>3. QED
    BY <1>1, <1>2, <1>4, <1>7, <2>1, <2>2 DEF VramTypeOK
<1>10. VramAgrees'
  BY <1>1, <1>7, <1>8 DEF VramInv, VramAgrees
<1>11. QED
  BY <1>9, <1>10 DEF VramInv

LEMMA BlitAgrees ==
  ASSUME VramInv, Wgpu!Blit
  PROVE  VramInv'
<1>1. PICK blit \in Blits :
        /\ draw_commands' = draw_commands \o
             <<[kind |-> "Blit", area |-> blit.area, reached |-> blit.reached, value |-> Wgpu!Serial]>>
        /\ issued' = Wgpu!Serial /\ lines' = lines \ blit.area
        /\ missed' = (missed \union blit.area) \ blit.reached
        /\ vram' = Wgpu!Written(vram, blit.area, Wgpu!Serial)
        /\ UNCHANGED <<marked, scaled_native_sync_delay, out_of_sync, ram_buffer, mem, since, stale>>
  BY DEF Wgpu!Blit, Wgpu!Issue, Wgpu!Push
<1> DEFINE c == [kind |-> "Blit", area |-> blit.area, reached |-> blit.reached, value |-> Wgpu!Serial]
           e == LeftBehind(Wgpu!Loaded, draw_commands)
           after == LeftBehind(Wgpu!Loaded, draw_commands)'
<1>2. blit.area \in SUBSET Tiles /\ blit.reached \in SUBSET Tiles /\ blit.reached \subseteq blit.area
  BY WgpuAssumption
<1>3. VramTypeOK /\ LooksLike(e, vram, lines \union marked, missed) /\ vram \in Contents /\ Wgpu!Serial \in Nat
  BY DEF VramInv, VramAgrees, VramTypeOK, Wgpu!Serial
<1>4. c \in BlitCommands /\ c.area = blit.area /\ c.reached = blit.reached /\ c.value = Wgpu!Serial
  BY <1>2, <1>3 DEF BlitCommands
<1>5. c \in Queueable /\ draw_commands' = Append(draw_commands, c)
  BY <1>1, <1>3, <1>4 DEF Queueable, VramTypeOK
<1> HIDE DEF c
<1>6. draw_commands' \in Seq(Queueable) /\ draw_commands' # <<>> /\ Applied(c, e, after)
  BY <1>1, <1>3, <1>5, PushedIsApplied
<1>7. LooksLike(after, vram', lines' \union marked', missed')
  <2> HIDE DEF e, after
  <2>1. LooksLike(after, Wgpu!Written(vram, c.area, c.value), (lines \union marked) \ c.area,
                  (missed \union c.area) \ c.reached)
    BY <1>3, <1>4, <1>6, BlittedLooksLike
  <2>2. (lines \union marked) \ c.area \subseteq lines' \union marked'
    BY <1>1, <1>4
  <2>3. LooksLike(after, vram', (lines \union marked) \ c.area, missed')
    BY <1>1, <1>4, <2>1
  <2>4. QED
    BY <2>2, <2>3, LooksLikeMore
<1>8. VramTypeOK'
  <2>1. vram' \in Contents
    BY <1>1, <1>3 DEF Wgpu!Written, Contents
  <2>2. QED
    BY <1>1, <1>2, <1>3, <1>6, <2>1 DEF VramTypeOK
<1>9. VramAgrees'
  BY <1>1, <1>6, <1>7 DEF VramInv, VramAgrees
<1>10. QED
  BY <1>8, <1>9 DEF VramInv

LEMMA CopyAgrees ==
  ASSUME VramInv, Wgpu!VramToVramBlit
  PROVE  VramInv'
<1>1. PICK copy \in Copies :
        /\ draw_commands' = draw_commands \o <<[kind |-> "Copy", copy |-> copy]>>
        /\ issued' = Wgpu!Serial /\ lines' = lines \ {copy.dest}
        /\ missed' = IF copy.source \in missed THEN missed \union {copy.dest} ELSE missed \ {copy.dest}
        /\ marked' = marked \union {copy.dest}
        /\ vram' = Wgpu!Copied(vram, copy)
        /\ UNCHANGED <<scaled_native_sync_delay, out_of_sync, ram_buffer, mem, since, stale>>
  BY DEF Wgpu!VramToVramBlit, Wgpu!Issue, Wgpu!Push, Wgpu!CopyMarks
<1> DEFINE c == [kind |-> "Copy", copy |-> copy]
           e == LeftBehind(Wgpu!Loaded, draw_commands)
           after == LeftBehind(Wgpu!Loaded, draw_commands)'
<1>2. copy \in [source: Tiles, dest: Tiles] /\ copy.dest \in Tiles
  BY WgpuAssumption
<1>3. VramTypeOK /\ LooksLike(e, vram, lines \union marked, missed) /\ vram \in Contents /\ Wgpu!Serial \in Nat
  BY DEF VramInv, VramAgrees, VramTypeOK, Wgpu!Serial
<1>4. c \in CopyCommands /\ c.copy = copy
  BY <1>2 DEF CopyCommands
<1>5. c \in Queueable /\ draw_commands' = Append(draw_commands, c)
  BY <1>1, <1>3, <1>4 DEF Queueable, VramTypeOK
<1> HIDE DEF c
<1>6. draw_commands' \in Seq(Queueable) /\ draw_commands' # <<>> /\ Applied(c, e, after)
  BY <1>1, <1>3, <1>5, PushedIsApplied
<1>7. LooksLike(after, vram', lines' \union marked', missed')
  <2> HIDE DEF e, after
  <2>1. LooksLike(after, Wgpu!Copied(vram, c.copy), (lines \union marked) \union {c.copy.dest},
                  IF c.copy.source \in missed THEN missed \union {c.copy.dest} ELSE missed \ {c.copy.dest})
    BY <1>3, <1>4, <1>6, CopiedLooksLike
  <2>2. (lines \union marked) \union {c.copy.dest} \subseteq lines' \union marked'
    BY <1>1, <1>4
  <2>3. LooksLike(after, vram', (lines \union marked) \union {c.copy.dest}, missed')
    BY <1>1, <1>4, <2>1
  <2>4. QED
    BY <2>2, <2>3, LooksLikeMore
<1>8. VramTypeOK'
  <2>1. vram' \in Contents
    BY <1>1, <1>2, <1>3 DEF Wgpu!Copied, Contents
  <2>2. QED
    BY <1>1, <1>2, <1>3, <1>6, <2>1 DEF VramTypeOK
<1>9. VramAgrees'
  BY <1>1, <1>6, <1>7 DEF VramInv, VramAgrees
<1>10. QED
  BY <1>8, <1>9 DEF VramInv

\* A flush leaves one VRAM in all copies, but for lines.
LEMMA FlushLeavesOne ==
  ASSUME VramInv, Wgpu!FlushDrawCommands
  PROVE  /\ draw_commands' = <<>> /\ marked' = {} /\ stale' = FALSE
         /\ mem' \in [scaled: Contents, copy: Contents, native: Contents]
         /\ LooksLike(Wgpu!Loaded', vram, lines, missed)
         /\ scaled_native_sync_delay' \in 0 .. SyncDelay /\ since' \in 0 .. SyncDelay
         /\ since' + scaled_native_sync_delay' = SyncDelay
         /\ draw_commands = <<>> => mem' = mem
<1> DEFINE e == LeftBehind(Wgpu!Loaded, draw_commands)
<1>1. /\ VramTypeOK /\ LooksLike(e, vram, lines \union marked, missed) /\ vram \in Contents
      /\ marked \in SUBSET Tiles /\ e \in Memory /\ Wgpu!Loaded \in Memory
      /\ ~stale /\ draw_commands = <<>> => marked = {}
      /\ SyncDelay \in Nat /\ since + scaled_native_sync_delay = SyncDelay
  <2>1. VramTypeOK
    BY DEF VramInv
  <2>2. e \in Memory /\ Wgpu!Loaded \in Memory
    BY <2>1, LoadedType
  <2> HIDE DEF e
  <2>3. QED
    BY <2>1, <2>2, WgpuAssumption DEF VramInv, VramAgrees, VramTypeOK, e
<1>2. CASE draw_commands = <<>>
  <2>1. UNCHANGED <<draw_commands, marked, scaled_native_sync_delay, mem, since, stale>>
    BY <1>2 DEF Wgpu!FlushDrawCommands
  <2>2. Wgpu!Loaded' = Wgpu!Loaded
    BY <2>1 DEF Wgpu!Loaded
  <2>3. e = Wgpu!Loaded /\ marked = {}
    BY <1>1, <1>2, NothingLeftBehind DEF VramInv, VramAgrees
  <2>4. LooksLike(Wgpu!Loaded, vram, lines, missed)
    <3>1. lines \union marked = lines
      BY <2>3
    <3>2. QED
      BY <1>1, <2>3, <3>1
  <2>5. QED
    BY <1>1, <1>2, <2>1, <2>2, <2>3, <2>4 DEF VramTypeOK, VramInv, VramAgrees
<1>3. CASE draw_commands # <<>>
  <2> DEFINE ran == Wgpu!Executed
  <2>1. /\ mem' = [scaled |-> ran.scaled, copy |-> ran.copy, native |-> ran.native]
        /\ stale' = ran.stale /\ draw_commands' = <<>> /\ marked' = {}
        /\ scaled_native_sync_delay' = 0 /\ since' = SyncDelay
    BY <1>3 DEF Wgpu!FlushDrawCommands
  <2>2. ran = IF marked = {} THEN e ELSE Wgpu!ExecuteSync(e, marked)
    BY DEF Wgpu!Executed, LeftBehind
  <2>3. LooksLike(ran, vram, lines, missed)
    <3>1. CASE marked = {}
      <4>1. lines \union marked = lines /\ ran = e
        BY <2>2, <3>1
      <4>2. QED
        BY <1>1, <4>1
    <3>2. CASE marked # {}
      <4>1. ran = Wgpu!ExecuteSync(e, marked)
        BY <2>2, <3>2
      <4> HIDE DEF ran, e
      <4>2. QED
        BY <1>1, <4>1, SyncedLooksLike
    <3>3. QED
      BY <3>1, <3>2
  <2> HIDE DEF ran
  <2>4. ran \in Memory /\ ran.stale = FALSE
    BY <2>3 DEF LooksLike, Memory
  <2>5. Wgpu!Loaded' = ran
    <3>1. Wgpu!Loaded' = [scaled |-> mem'.scaled, copy |-> mem'.copy, native |-> mem'.native, stale |-> stale']
      BY DEF Wgpu!Loaded
    <3>2. Wgpu!Loaded' = [scaled |-> ran.scaled, copy |-> ran.copy, native |-> ran.native, stale |-> ran.stale]
      BY <2>1, <3>1
    <3>3. QED
      BY <2>4, <3>2 DEF Memory
  <2>6. mem' \in [scaled: Contents, copy: Contents, native: Contents]
    BY <2>1, <2>4 DEF Memory
  <2>7. QED
    BY <1>1, <1>3, <2>1, <2>3, <2>4, <2>5, <2>6
<1>4. QED
  BY <1>2, <1>3

LEMMA FlushesAgree ==
  ASSUME VramInv, Wgpu!VramToCpuBlit \/ Wgpu!Flush
  PROVE  VramInv'
<1>1. Wgpu!FlushDrawCommands /\ UNCHANGED <<vram, issued, lines, missed>>
  BY DEF Wgpu!VramToCpuBlit, Wgpu!Flush
<1>2. /\ draw_commands' = <<>> /\ marked' = {} /\ stale' = FALSE
      /\ mem' \in [scaled: Contents, copy: Contents, native: Contents]
      /\ LooksLike(Wgpu!Loaded', vram, lines, missed)
      /\ scaled_native_sync_delay' \in 0 .. SyncDelay /\ since' \in 0 .. SyncDelay
      /\ since' + scaled_native_sync_delay' = SyncDelay
      /\ draw_commands = <<>> => mem' = mem
  BY <1>1, FlushLeavesOne
<1>3. \A t \in Tiles : t \notin lines \union missed => mem'.native[t] = vram[t]
  <2>1. Wgpu!Loaded'.native = mem'.native
    BY DEF Wgpu!Loaded
  <2>2. QED
    BY <1>2, <2>1 DEF LooksLike
<1>4. ~out_of_sync' => \A t \in Tiles : t \notin lines \union missed => ram_buffer'[t] = vram[t]
  <2>1. CASE Wgpu!Flush
    BY <2>1 DEF Wgpu!Flush
  <2>2. CASE Wgpu!VramToCpuBlit
    <3>1. ram_buffer' = IF out_of_sync \/ draw_commands # <<>> THEN mem'.native ELSE ram_buffer
      BY <2>2 DEF Wgpu!VramToCpuBlit
    <3>2. QED
      BY <1>3, <3>1 DEF VramInv, VramAgrees
  <2>3. QED
    BY <2>1, <2>2
<1>5. <<>> \in Seq(Queueable) /\ draw_commands' \in Seq(Queueable)
  <2>1. <<>> \in Seq(Queueable)
    OBVIOUS
  <2>2. QED
    BY <1>2, <2>1, Zenon
<1>6. VramTypeOK'
  BY <1>1, <1>2, <1>5 DEF VramInv, VramTypeOK
<1>7. LooksLike(LeftBehind(Wgpu!Loaded, draw_commands)', vram', lines' \union marked', missed')
  <2>1. Wgpu!Loaded' \in Memory
    BY <1>2 DEF LooksLike
  <2>2. LeftBehind(Wgpu!Loaded, draw_commands)' = LeftBehind(Wgpu!Loaded', <<>>)
    BY <1>2
  <2>3. LeftBehind(Wgpu!Loaded', <<>>) = Wgpu!Loaded'
    BY <2>1, NothingLeftBehind
  <2>4. lines' \union marked' = lines /\ vram' = vram /\ missed' = missed
    BY <1>1, <1>2
  <2>5. QED
    BY <1>2, <2>2, <2>3, <2>4
<1>8. VramAgrees'
  BY <1>1, <1>2, <1>4, <1>7 DEF VramAgrees
<1>9. QED
  BY <1>6, <1>8 DEF VramInv

LEMMA VramUnchanged ==
  ASSUME VramInv, UNCHANGED wgpu \/ Wgpu!ClearTextureCache
  PROVE  VramInv'
<1>1. /\ UNCHANGED <<draw_commands, marked, out_of_sync, ram_buffer, mem, vram, issued, lines, missed, stale>>
      /\ \/ UNCHANGED <<scaled_native_sync_delay, since>>
         \/ scaled_native_sync_delay' = 0 /\ since' = SyncDelay
  BY DEF wgpu, Wgpu!ClearTextureCache
<1>2. SyncDelay \in Nat
  BY WgpuAssumption
<1>3. Wgpu!Loaded' = Wgpu!Loaded
  BY <1>1 DEF Wgpu!Loaded
<1>4. LeftBehind(Wgpu!Loaded, draw_commands)' = LeftBehind(Wgpu!Loaded, draw_commands)
  BY <1>1, <1>3
<1>5. VramTypeOK'
  BY <1>1, <1>2 DEF VramInv, VramTypeOK
<1>6. VramAgrees'
  BY <1>1, <1>2, <1>4 DEF VramInv, VramAgrees
<1>7. QED
  BY <1>5, <1>6 DEF VramInv

LEMMA VramStays == MCSpec => []VramInv
<1>1. VramInv /\ [MCNext]_mc_vars => VramInv'
  <2> SUFFICES ASSUME VramInv, [MCNext]_mc_vars
               PROVE  VramInv'
    OBVIOUS
  <2>1. Wgpu!Next \/ UNCHANGED wgpu
    BY DEF MCNext, mc_vars
  <2>2. Wgpu!DrawTriangle \/ Wgpu!DrawRectangle => VramInv'
    BY DrawAgrees DEF Wgpu!DrawTriangle, Wgpu!DrawRectangle
  <2>3. QED
    BY <2>1, <2>2, LineAgrees, BlitAgrees, CopyAgrees, FlushesAgree, VramUnchanged DEF Wgpu!Next
<1>2. QED
  BY <1>1, VramStarts, PTL DEF MCSpec

\* Whatever is drawn, blitted and copied, and whenever the queue is run, the copies of VRAM that
\* the rasterizer keeps look like one: once the queue is empty they hold what one command after
\* the other leaves - lines and what blits write around the end of VRAM aside -, the buffer the CPU
\* reads from is as new unless it is marked as old, and the halfwords a texture without a window
\* fills, and a palette in the first columns, are sampled as the draws before left them, except in
\* a series of hazards.
THEOREM VramIsAlwaysOne == MCSpec => []VramIsOne
<1>1. VramInv => VramIsOne
  <2> SUFFICES ASSUME VramInv
               PROVE  VramIsOne
    OBVIOUS
  <2>1. ASSUME draw_commands = <<>>
        PROVE  LooksLike(Wgpu!Loaded, vram, lines, missed)
    <3>1. LeftBehind(Wgpu!Loaded, draw_commands) = Wgpu!Loaded
      BY <2>1, LoadedType, NothingLeftBehind DEF VramInv
    <3>2. lines \union marked = lines
      BY <2>1 DEF VramInv, VramAgrees
    <3>3. QED
      BY <3>1, <3>2 DEF VramInv, VramAgrees
  <2>2. Wgpu!Loaded.scaled = mem.scaled /\ Wgpu!Loaded.native = mem.native /\ Wgpu!Loaded.copy = mem.copy
    BY DEF Wgpu!Loaded
  <2>3. Wgpu!BatchesKeepTheOrder
    BY <2>1, <2>2 DEF Wgpu!BatchesKeepTheOrder, LooksLike
  <2>4. Wgpu!CpuReadsCurrent /\ Wgpu!TexturesAreFresh
    BY DEF VramInv, VramAgrees, Wgpu!CpuReadsCurrent, Wgpu!TexturesAreFresh
  <2>5. QED
    BY <2>3, <2>4 DEF VramIsOne
<1>2. QED
  BY <1>1, VramStays, PTL
=============================================================================
