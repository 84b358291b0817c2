-------------------------------- MODULE MCCpu --------------------------------
(* The CPU in parts.  program: all programs of three instructions, followed by *)
(* a loop, under the kernel's interrupt handler, which lies in lines of the    *)
(* cache that the program needs, too.  cache: all programs of four             *)
(* instructions that change their own code, the cache and its control.         *)
(* unaligned: the instructions for words at any address.                       *)
EXTENDS Cpu, Sequences

K0 == 26
K1 == 27
Ra == 31
MCRegisters == {0, 1, 2, K0, K1, Ra}

\* Segments of 128 bytes.
MCSegmentSize == 128
Kseg(n, address) == n * MCSegmentSize + address
ProgramAt == 0
HandlerAt == 32
DataAt == 80
IrqAckAt == 96

Reg(op, rd, rs, rt) == [op |-> op, rd |-> rd, rs |-> rs, rt |-> rt, imm |-> 0]
Imm(op, rd, rs, imm) == [op |-> op, rd |-> rd, rs |-> rs, rt |-> Immediate, imm |-> imm]
StoreOf(op, rt, rs, imm) == [op |-> op, rd |-> 0, rs |-> rs, rt |-> rt, imm |-> imm]

Nop == Imm("SLL", 0, 0, 0)
GteCommand == Imm("COP2", 0, 0, 0)

\* By opcode, from 0 on.  The kernel's part comes first.
KernelCode ==
  <<Nop,
    GteCommand,
    Imm("MFC0", K0, 0, "EPC"),
    StoreOf("SW", 0, 0, IrqAckAt),
    Imm("LW", K1, K0, 0),
    Imm("XOR", K1, K1, 1),
    [Imm("BNE", 0, K1, 8) EXCEPT !.rt = 0],
    Imm("ADDU", K0, K0, 4),
    Imm("JR", 0, K0, 0),
    Imm("RFE", 0, 0, 0),
    \* the loop behind every program
    [Imm("BEQ", 0, 0, -4) EXCEPT !.rt = 0]>>

\* Opcodes of the handler.  The command of the geometry coprocessor that an interrupt has
\* run already is skipped.
Handler == <<2, 3, 4, 0, 5, 6, 0, 7, 8, 9>>
Idle == 10

UserCode ==
  <<Imm("ADDU", 1, 1, 5),
    Reg("ADDU", 2, 1, 1),
    Imm("ADD", 1, 1, 2040),
    Reg("MULT", 0, 1, 1),
    Imm("MFLO", 2, 0, 0),
    Imm("SYSCALL", 0, 0, 0),
    Imm("LW", 1, 0, DataAt),
    Imm("LW", 2, 0, DataAt + 2),
    Imm("LWL", 1, 0, DataAt + 5),
    Imm("LWR", 1, 0, DataAt + 2),
    StoreOf("SW", 1, 0, DataAt),
    StoreOf("SB", 1, 0, DataAt + 1),
    Imm("MFC2", 2, 0, 0),
    StoreOf("MTC2", 1, 0, 0),
    [Imm("BNE", 0, 1, 8) EXCEPT !.rt = 2],
    Imm("BGEZAL", 0, 1, 4),
    Imm("JAL", 0, 0, 8),
    Imm("JR", 0, Ra, 0)>>

\* Patches of the code and of the line it shares the cache with, the cache's control, a
\* jump to no instruction's address, and two jumps between the lines.
CacheCode ==
  <<StoreOf("SW", 1, 0, 4), StoreOf("SW", 1, 0, 68),
    StoreOf("MTC0", 2, 0, 0), StoreOf("MTC0", 0, 0, 0),
    StoreOf("SW", 1, 0, 4092), StoreOf("SW", 0, 0, 4092),
    Imm("JR", 0, Ra, 0), Imm("J", 0, 0, 64), Imm("J", 0, 0, 0)>>

Code == KernelCode \o UserCode \o [c \in DOMAIN CacheCode |->
  IF CacheCode[c].op = "MTC0" THEN [CacheCode[c] EXCEPT !.imm = "SR"] ELSE CacheCode[c]]
MCDecode == [w \in 0 .. Len(Code) - 1 |-> Code[w + 1]]

FirstUser == Len(KernelCode)
FirstCache == FirstUser + Len(UserCode)
UserOpcodes == {1} \cup FirstUser .. FirstCache - 1
PatchOpcodes == {0} \cup FirstCache .. FirstCache + 6
ToAlias == FirstCache + 7
ToStart == FirstCache + 8

\* Branches and commands of the geometry coprocessor are not put behind a branch.
IsBranch(i) == i.op \in Branches \cup Jumps
Conventional(p) ==
  /\ \A n \in 1 .. 2 : IsBranch(MCDecode[p[n]]) =>
       ~IsBranch(MCDecode[p[n + 1]]) /\ MCDecode[p[n + 1]].op # "COP2"
  /\ \A n \in 1 .. 3 : MCDecode[p[n]].op = "JR" => n = 3 /\ MCDecode[p[1]].op = "JAL"

Loaded(at, words, w) == w \in at .. at + Len(words) - 1
MCMemoryOf(start) ==
  [w \in 0 .. 31 |->
    IF Loaded(0, start.program, w) THEN start.program[w + 1]
    ELSE IF Loaded(HandlerAt \div 4, Handler, w) THEN Handler[w - HandlerAt \div 4 + 1]
    ELSE IF w = DataAt \div 4 THEN 1234 ELSE IF w = DataAt \div 4 + 1 THEN 3501
    ELSE IF w = 16 THEN ToStart ELSE 0]

ProgramStarts ==
  {[pc |-> 0, gpr |-> [r \in MCRegisters |-> 0], status |-> 131,
    program |-> p \o <<0, Idle, 0, Idle, 0>>] :
     p \in {q \in [1 .. 3 -> UserOpcodes] : Conventional(q)}}

\* The register the programs store holds 4: the opcode of a harmless load in the code, and
\* the bit of the tag test in the cache's control.
CacheStarts ==
  {[pc |-> 0, gpr |-> [r \in MCRegisters |-> CASE r = 1 -> 4 [] r = 2 -> 256 [] r = Ra -> 6 [] OTHER -> 0],
    status |-> 0, program |-> p \o <<ToAlias, 0>>] : p \in [1 .. 4 -> PatchOpcodes]}

MCStarts == ProgramStarts \cup CacheStarts

CONSTANT UnalignedData   \* what the words of the unaligned part hold
ASSUME UnalignedDataAssumption == ByteSize \in Nat \ {0} /\ UnalignedData \subseteq Word

VARIABLES
  part,
  words            \* of the unaligned part: two words of memory, a register, an address
mc_vars == <<part, words, vars>>

MCInit ==
  /\ Init
  /\ \/ part = "program" /\ cp0.status.interrupts_enabled /\ words = <<>>
     \/ part = "cache" /\ ~cp0.status.interrupts_enabled /\ words = <<>>
     \/ /\ part = "unaligned"
        /\ \A w \in 0 .. 3 : memory[w] = 0
        /\ words \in [1 .. 3 -> UnalignedData] \X (0 .. 3)

MCNext ==
  \/ part # "unaligned" /\ ExecuteInstruction /\ UNCHANGED <<part, words>>
  \/ part # "unaligned" /\ FetchMisaligned /\ UNCHANGED <<part, words>>
  \/ part # "unaligned" /\ RaiseIrq /\ UNCHANGED <<part, words>>
  \/ part = "unaligned" /\ UNCHANGED mc_vars
MCSpec == MCInit /\ [][MCNext]_mc_vars
-----------------------------------------------------------------------------
(* The program that runs is what the CPU has in its registers, or what it will *)
(* go back to when the kernel's handler returns.                               *)
InHandler == registers.pc - Kseg(1, HandlerAt) \in 0 .. 4 * Len(Handler) - 1
Resume == IF MCDecode[memory[WordOf(cp0.epc)]].op = "COP2" THEN cp0.epc + 4 ELSE cp0.epc
UserMode ==
  IF InHandler THEN <<cp0.status.kernel_mode_previous, cp0.status.interrupts_enabled_previous>>
  ELSE <<cp0.status.kernel_mode, cp0.status.interrupts_enabled>>

Running == INSTANCE Program WITH
  Decode <- MCDecode, MemoryAt <- WordOf, Region <- Base,
  pc <- IF InHandler THEN Resume ELSE registers.pc,
  next_pc <- IF InHandler THEN Resume + 4 ELSE registers.next_pc,
  slot <- ~InHandler /\ registers.in_delay_slot,
  gpr <- [r \in {0, 1, 2, Ra} |-> registers.gpr[r]],
  loading <- IF registers.delayed_load[1] \in {0, K0, K1} THEN NoLoad ELSE registers.delayed_load,
  hi <- registers.hi, lo <- registers.lo, mode <- UserMode

\* The CPU keeps its promise to the program, whenever interrupts come.
ProgramUndisturbed == [][part = "program" => Running!Next]_<<Running!vars>>

\* The pairs of instructions for unaligned words put every byte where it belongs.
UnalignedWordsAreWhole ==
  part = "unaligned" => UnalignedWords(words[1][1], words[1][2], words[1][3], words[2])
=============================================================================
