-------------------------------- MODULE Mdec --------------------------------
(* The macroblock decoder (mdec.rs): its commands, the data they collect, the *)
(* division of compressed data into blocks and macroblocks, the output and    *)
(* its register.  A halfword keeps its upper six bits, skip, and what it is a *)
(* coefficient of; a block is the halfwords at its positions and the quant    *)
(* table they are multiplied with.  The transform and the colors of a         *)
(* macroblock are functions of its blocks, and are left out.                  *)
(*                                                                            *)
(* Software sends pictures: sequences of blocks, each a set of positions.     *)
EXTENDS Integers, Sequences, FiniteSets, SequencesExt

CONSTANTS
  BlockLen,       \* coefficients of a block: 64
  QuantWords,     \* words of a quant table: 16; the scale table has twice as many
  OutputWords,    \* words of a macroblock's output in each depth
  Pictures,       \* records [depth, blocks]: what software decodes
  Gaps,           \* how much padding it sends behind each block
  MaxCommands     \* bound on the commands of a behaviour

VARIABLES
  command_state, decode_config, data_in, data_out, tables,
  \* The macroblocks of the last decode command and their depth, the picture they are of,
  \* and whether they took the place of unread ones.
  decoded,
  \* Software: the halfwords of its command, the picture, how many words it sent,
  \* whether the decoder was not busy before; the tables it set; how many commands.
  host, wanted, begun

vars == <<command_state, decode_config, data_in, data_out, tables, decoded,
          host, wanted, begun>>

Colored(depth) == depth \in {"Fifteen", "TwentyFour"}
ScaleWords == 2 * QuantWords

\* $FE00: as the first halfword of a block it is skipped, behind it it ends the block.
Padding == [skip |-> BlockLen - 1, of |-> <<>>]

Idle == [name |-> "Idle"]
Data == [name |-> "CompressedData"]
Luminance(words, color_after) == [name |-> "Luminance", words |-> words, color_after |-> color_after]
Color(words) == [name |-> "Color", words |-> words]
Scale(words) == [name |-> "Scale", words |-> words]

DefaultConfig == [depth |-> "Four", parameters_remaining |-> 1]
NoTables == [Luminance |-> <<>>, Color |-> <<>>, Scale |-> <<>>]
Nothing == [macroblocks |-> <<>>, depth |-> "Four", picture |-> <<>>, over |-> FALSE]

Init ==
  /\ command_state = Idle /\ decode_config = DefaultConfig
  /\ data_in = <<>> /\ data_out = <<>> /\ tables = NoTables
  /\ decoded = Nothing
  /\ host = [stream |-> <<>>, picture |-> <<>>, at |-> 0, waited |-> TRUE]
  /\ wanted = NoTables /\ begun = 0
-----------------------------------------------------------------------------
(* Blocks. *)

First(S) == CHOOSE i \in S : \A j \in S : i <= j

\* The data from the first halfword that is no padding.
AfterPadding(data) ==
  LET begins == {i \in DOMAIN data : data[i] # Padding}
  IN IF begins = {} THEN <<>> ELSE SubSeq(data, First(begins), Len(data))

\* Where each halfword goes: the first one to position 0, the others behind the positions
\* they skip.
Positions(in) ==
  LET k[i \in 1 .. Len(in)] == IF i = 1 THEN 0 ELSE k[i - 1] + in[i].skip + 1 IN k

\* A variant in which a block whose last position is filled waits for its end.
BlockEndBeyond(in, k) ==
  LET ends == {i \in DOMAIN in : k[i] >= BlockLen}
  IN IF ends = {} THEN Len(in) ELSE First(ends)

\* The last halfword taken: the first one at or beyond the end.
BlockEnd(in, k) ==
  LET ends == {i \in DOMAIN in : k[i] >= BlockLen - 1}
  IN IF ends = {} THEN Len(in) ELSE First(ends)

\* decode_block.  The end of the data ends a block; without any data the block is empty.
DecodeBlock(data, table) ==
  LET in == AfterPadding(data)
      k == Positions(in)
      last == IF in = <<>> THEN 0 ELSE BlockEnd(in, k)
      stored == {i \in 1 .. last : k[i] < BlockLen}
  IN [block |-> [table |-> table, values |-> [p \in {k[i] : i \in stored} |->
                                               in[CHOOSE i \in stored : k[i] = p].of]],
      rest |-> SubSeq(in, last + 1, Len(in))]

\* Cr, Cb and four times Y, or Y only.
BlockTables(depth) ==
  IF Colored(depth) THEN <<"Color", "Color", "Luminance", "Luminance", "Luminance", "Luminance">>
  ELSE <<"Luminance">>

DecodeMacroblock(data, depth) ==
  FoldLeft(LAMBDA done, table :
             LET d == DecodeBlock(done.rest, tables[table])
             IN [blocks |-> Append(done.blocks, d.block), rest |-> d.rest],
           [blocks |-> <<>>, rest |-> data], BlockTables(depth))

\* Another macroblock is decoded when its first block is there; each takes a halfword at least.
DecodeMacroblocks(data, depth) ==
  LET next(done) ==
        LET m == DecodeMacroblock(done.rest, depth)
        IN [macroblocks |-> Append(done.macroblocks, m.blocks), rest |-> m.rest]
  IN FoldLeft(LAMBDA done, halfword : IF AfterPadding(done.rest) = <<>> THEN done ELSE next(done),
              [macroblocks |-> <<>>, rest |-> data], data).macroblocks

Output(macroblocks, depth) ==
  FlattenSeq([i \in DOMAIN macroblocks |-> [w \in 1 .. OutputWords[depth] |-> <<i, w>>]])
-----------------------------------------------------------------------------
(* What software sends. *)

\* The halfwords of block nr with coefficients at the positions in P; the first one holds
\* the quantization scale, which is not 0, where the others have what they skip.
Encoded(nr, P) ==
  LET at == SetToSortSeq(P, <)
  IN [i \in DOMAIN at |-> [skip |-> IF i = 1 THEN 1 ELSE at[i] - at[i - 1] - 1, of |-> <<nr, at[i]>>]]
     \o IF BlockLen - 1 \in P THEN <<>> ELSE <<Padding>>

Padded(stream) == IF Len(stream) % 2 = 0 THEN stream ELSE Append(stream, Padding)
EncodedPicture(blocks, gap) ==
  Padded(FlattenSeq([nr \in DOMAIN blocks |-> Encoded(nr, blocks[nr]) \o [i \in 1 .. gap |-> Padding]]))

\* The end of a picture need not be marked.
WithoutEnd(stream) ==
  IF stream # <<>> /\ stream[Len(stream)] = Padding /\ stream[Len(stream) - 1] = Padding
  THEN SubSeq(stream, 1, Len(stream) - 2) ELSE stream

Table(words) == [i \in 1 .. 2 * words |-> [skip |-> 0, of |-> <<begun, i>>]]

CommandBusy == command_state # Idle \/ data_out # <<>>

BeginCommand(state, config, stream, picture) ==
  /\ command_state = Idle
  /\ begun < MaxCommands /\ begun' = begun + 1
  /\ command_state' = state /\ decode_config' = config
  /\ host' = [stream |-> stream, picture |-> picture, at |-> 0, waited |-> ~CommandBusy]
  /\ UNCHANGED <<data_in, data_out, tables, decoded, wanted>>

\* write_command in the idle state.
DecodeCommand(picture, stream) ==
  LET config == [depth |-> picture.depth, parameters_remaining |-> Len(stream) \div 2]
  IN BeginCommand(IF stream # <<>> THEN Data ELSE Idle, config, stream, picture.blocks)

ReceiveCommand ==
  \/ \E p \in Pictures, gap \in Gaps :
       \/ DecodeCommand(p, EncodedPicture(p.blocks, gap))
       \/ DecodeCommand(p, WithoutEnd(EncodedPicture(p.blocks, gap)))
  \/ \E color_after \in BOOLEAN :
       BeginCommand(Luminance(QuantWords, color_after), decode_config, Table(QuantWords), <<>>)
  \/ BeginCommand(Scale(ScaleWords), decode_config, Table(ScaleWords), <<>>)
-----------------------------------------------------------------------------
(* The words behind a command. *)

PushDataWord == data_in \o SubSeq(host.stream, 2 * host.at + 1, 2 * host.at + 2)

ReceiveData ==
  /\ command_state = Data
  /\ decode_config' = [decode_config EXCEPT !.parameters_remaining = @ - 1]
  /\ host' = [host EXCEPT !.at = @ + 1]
  /\ IF decode_config.parameters_remaining # 1
     THEN data_in' = PushDataWord /\ UNCHANGED <<command_state, data_out, decoded>>
     ELSE /\ command_state' = Idle /\ data_in' = <<>>
          /\ decoded' = [macroblocks |-> DecodeMacroblocks(PushDataWord, decode_config.depth),
                         depth |-> decode_config.depth, picture |-> host.picture,
                         over |-> data_out # <<>> /\ host.waited]
          /\ data_out' = Output(decoded'.macroblocks, decode_config.depth)
  /\ UNCHANGED <<tables, wanted, begun>>

\* A table is collected in data_in, and filled with all that is there.
ReceiveTable(name) ==
  /\ command_state.name = name
  /\ IF command_state.words # 1
     THEN /\ data_in' = PushDataWord
          /\ command_state' = [command_state EXCEPT !.words = @ - 1]
          /\ host' = [host EXCEPT !.at = @ + 1]
          /\ UNCHANGED <<tables, wanted>>
     ELSE /\ data_in' = <<>>
          /\ tables' = [tables EXCEPT ![name] = PushDataWord]
          /\ wanted' = [wanted EXCEPT ![name] = host.stream]
          /\ IF name = "Luminance" /\ command_state.color_after
             THEN command_state' = Color(QuantWords) /\ host' = [host EXCEPT !.at = 0]
             ELSE command_state' = Idle /\ host' = [host EXCEPT !.at = @ + 1]
  /\ UNCHANGED <<decode_config, data_out, decoded, begun>>

\* read_data, by software or by DMA; the last word read is not kept.
ReadData ==
  /\ data_out # <<>> /\ data_out' = Tail(data_out)
  /\ UNCHANGED <<command_state, decode_config, data_in, tables, decoded, host, wanted, begun>>

Dropped == [state |-> Idle, in |-> <<>>, out |-> <<>>]

\* write_control with the reset bit; the other two only enable requests.
Reset ==
  /\ command_state' = Dropped.state /\ decode_config' = DefaultConfig
  /\ data_in' = Dropped.in /\ data_out' = Dropped.out
  /\ UNCHANGED <<tables, decoded, host, wanted, begun>>

Next ==
  \/ ReceiveCommand
  \/ ReceiveData
  \/ \E name \in {"Luminance", "Color", "Scale"} : ReceiveTable(name)
  \/ ReadData
  \/ Reset

Spec == Init /\ [][Next]_vars
-----------------------------------------------------------------------------
\* Whatever was dropped by a reset before: the data that is there is that of the command
\* under way, and the tables hold what software sent for them.
DataIsTheCommands ==
  /\ data_in = IF command_state = Idle THEN <<>> ELSE SubSeq(host.stream, 1, 2 * host.at)
  /\ tables = wanted

\* A picture is decoded into its blocks: every coefficient at its position, every block in
\* its place in its macroblock, with padding between blocks and without an end mark.
DecodesPictures ==
  LET nr(m, b) == (m - 1) * Len(BlockTables(decoded.depth)) + b
  IN /\ Len(decoded.macroblocks) * Len(BlockTables(decoded.depth)) = Len(decoded.picture)
     /\ \A m \in DOMAIN decoded.macroblocks : \A b \in DOMAIN decoded.macroblocks[m] :
          decoded.macroblocks[m][b].values =
            [p \in decoded.picture[nr(m, b)] |-> <<nr(m, b), p>>]

\* A picture is lost unread only when software begins the next command while the status
\* register says that the decoder is busy, or resets it.
ReadBeforeNext == ~decoded.over
=============================================================================
