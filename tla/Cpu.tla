--------------------------------- MODULE Cpu ---------------------------------
(* The CPU (src/ps1-core/src/cpu.rs and cpu/): an instruction in a step, with  *)
(* its delay slots, load delays, exceptions, instruction cache and coprocessor *)
(* 0.  What instructions compute is in Isa.  The geometry coprocessor is one   *)
(* register that each of its commands advances.                                *)
(*                                                                             *)
(* Addresses count bytes in three segments of SegmentSize bytes over one       *)
(* physical memory, of which only the last is not cached.  The code's todo!()  *)
(* on other addresses, opcodes and coprocessor registers ends the emulator: no *)
(* step is enabled there.                                                      *)
EXTENDS Isa

CONSTANTS
  Registers,       \* numbers of the general registers, 0 and Link among them
  Link,            \* the register JAL writes (31)
  SegmentSize,
  Lines,           \* lines of the instruction cache
  Decode,          \* the instructions that words stand for
  Starts,          \* what the kernel may leave: records with pc, gpr, status
  MemoryOf(_),     \* and the words of memory
  ExceptionVector, BootExceptionVector,
  CacheControlAddress,
  IrqAck,          \* the word a write to which makes the interrupt line fall
  MaxIrqs          \* how often devices raise the line

VARIABLES
  registers, cp0, i_cache, gte,   \* R3000
  memory,          \* by word of the physical address
  irq,             \* Bus::hardware_interrupt_pending
  irqs,            \* how often devices have raised it
  stale            \* words written since their line was last filled or flushed

\* Segments are whole words.
ASSUME SegmentAssumption == SegmentSize \in Nat \ {0} /\ SegmentSize % 4 = 0

\* What the cache needs of the constants.
ASSUME CacheAssumption ==
  /\ Lines \in Nat \ {0}
  /\ \A start \in Starts :
       /\ DOMAIN MemoryOf(start) \subseteq Nat
       /\ MemoryOf(start) = [w \in DOMAIN MemoryOf(start) |-> MemoryOf(start)[w]]

vars == <<registers, cp0, i_cache, gte, memory, irq, irqs, stale>>

Segment(address) == address \div SegmentSize
Base(address) == Segment(address) * SegmentSize
Physical(address) == address % SegmentSize
WordOf(address) == Physical(address) \div 4
Uncached(address) == Segment(address) = 2
Mapped(address) == Segment(address) \in 0 .. 2 /\ WordOf(address) \in DOMAIN memory
-----------------------------------------------------------------------------
(* General registers.  A load's value is in delayed_load while the instruction *)
(* after it runs, and lands behind that instruction.                           *)
NoLoad == <<0, 0>>

InitRegisters(pc, gpr) ==
  [gpr |-> gpr, pc |-> pc, next_pc |-> Wrap(pc + 4), in_delay_slot |-> FALSE, hi |-> 0, lo |-> 0,
   delayed_load |-> NoLoad, delayed_load_next |-> NoLoad]

ReadLwlLwr(regs, r) ==
  IF regs.delayed_load[1] = r THEN regs.delayed_load[2] ELSE regs.gpr[r]

Cancel(load, r) == IF load[1] = r THEN NoLoad ELSE load

WriteGpr(regs, r, value) ==
  IF r = 0 THEN regs
  ELSE [regs EXCEPT !.gpr[r] = value, !.delayed_load = Cancel(@, r)]

WriteGprDelayed(regs, r, value) ==
  IF r = 0 THEN regs
  ELSE [regs EXCEPT !.delayed_load = Cancel(@, r), !.delayed_load_next = <<r, value>>]

Landed(gpr, load) == IF load[1] = 0 THEN gpr ELSE [gpr EXCEPT ![load[1]] = load[2]]

ProcessDelayedLoads(regs) ==
  [regs EXCEPT !.gpr = Landed(@, regs.delayed_load),
               !.delayed_load = regs.delayed_load_next,
               !.delayed_load_next = NoLoad]

SetPc(regs, pc) == [regs EXCEPT !.pc = pc, !.next_pc = Wrap(pc + 4), !.in_delay_slot = FALSE]

Advance(regs) == SetPc(regs, regs.next_pc)
Jump(regs, target) == [regs EXCEPT !.next_pc = target, !.in_delay_slot = TRUE]
LinkTo(regs, r) == WriteGpr(regs, r, Wrap(regs.pc + 4))
-----------------------------------------------------------------------------
(* Coprocessor 0.  The fields of the status register from its lowest bit on,   *)
(* the coprocessor-enable bits and the interrupt mask's unused bits left out;  *)
(* the fields of kernel mode are inverted.                                     *)
StatusFields ==
  <<"interrupts_enabled", "kernel_mode", "interrupts_enabled_previous",
    "kernel_mode_previous", "interrupts_enabled_old", "kernel_mode_old",
    "software_mask", "hardware_mask", "isolate_cache", "boot_exception_vectors">>
Inverted == {"kernel_mode", "kernel_mode_previous", "kernel_mode_old"}

ReadStatus(status) ==
  MapThenSumSet(
    LAMBDA b : IF status[StatusFields[b]] = (StatusFields[b] \in Inverted) THEN 0 ELSE 2 ^ (b - 1),
    DOMAIN StatusFields)

WriteStatus(value) ==
  [f \in {StatusFields[b] : b \in DOMAIN StatusFields} |->
    LET b == CHOOSE b \in DOMAIN StatusFields : StatusFields[b] = f
    IN (Bit(value, b - 1) = 1) # (f \in Inverted)]

PushExceptionStack(status) ==
  [status EXCEPT
    !.kernel_mode_old = status.kernel_mode_previous,
    !.interrupts_enabled_old = status.interrupts_enabled_previous,
    !.kernel_mode_previous = status.kernel_mode,
    !.interrupts_enabled_previous = status.interrupts_enabled,
    !.kernel_mode = TRUE, !.interrupts_enabled = FALSE]

RestoreFromException(status) ==
  [status EXCEPT
    !.kernel_mode = status.kernel_mode_previous,
    !.interrupts_enabled = status.interrupts_enabled_previous,
    !.kernel_mode_previous = status.kernel_mode_old,
    !.interrupts_enabled_previous = status.interrupts_enabled_old]

\* Bits of the cause register: the code in bits 2 to 5, pending interrupts, branch delay.
ExceptionCode ==
  [Interrupt |-> 0, AddressErrorLoad |-> 4, AddressErrorStore |-> 5, Syscall |-> 8,
   Breakpoint |-> 9, ReservedInstruction |-> 10, ArithmeticOverflow |-> 12]
SoftwareBit == 6
HardwareBit == 7
BranchDelayBit == 11
BitIf(condition, b) == IF condition THEN 2 ^ b ELSE 0

ReadCause(cause) ==
  4 * ExceptionCode[cause.exception_code] + BitIf(cause.software, SoftwareBit)
    + BitIf(cause.hardware, HardwareBit) + BitIf(cause.branch_delay, BranchDelayBit)

CodeFromBits(bits) ==
  IF \E e \in DOMAIN ExceptionCode : ExceptionCode[e] = bits
  THEN CHOOSE e \in DOMAIN ExceptionCode : ExceptionCode[e] = bits ELSE "Interrupt"

WriteCause(cause, value) ==
  [cause EXCEPT !.branch_delay = Bit(value, BranchDelayBit) = 1,
                !.software = Bit(value, SoftwareBit) = 1,
                !.exception_code = CodeFromBits((value \div 4) % 16)]

InterruptPending(c) ==
  /\ c.status.interrupts_enabled
  /\ \/ c.status.software_mask /\ c.cause.software
     \/ c.status.hardware_mask /\ c.cause.hardware

InitCp0(status) ==
  [tag_test_mode |-> FALSE, status |-> WriteStatus(status),
   cause |-> [branch_delay |-> FALSE, software |-> FALSE, hardware |-> FALSE,
              exception_code |-> "Interrupt"],
   epc |-> 0, bad_v_addr |-> 0]

\* Reads of the jump destination and of the breakpoint control are not implemented.
ReadCp0(c, register) ==
  CASE register = "BadVaddr" -> c.bad_v_addr
    [] register = "SR" -> ReadStatus(c.status)
    [] register = "CAUSE" -> ReadCause(c.cause)
    [] register = "EPC" -> c.epc
    [] register = "PRID" -> 2
    [] register \in {"JumpDest", "BreakpointControl"} -> 0

WriteCp0(c, register, value) ==
  CASE register = "SR" -> [c EXCEPT !.status = WriteStatus(value)]
    [] register = "CAUSE" -> [c EXCEPT !.cause = WriteCause(@, value)]
    [] register = "Breakpoint" -> c
-----------------------------------------------------------------------------
(* The instruction cache, by number of the word: lines of four words with one  *)
(* tag each, and the words by line and place in it.                            *)
NoTag == -1
LineOf(w) == (w \div 4) % Lines
TagOf(w) == (w \div 4) \div Lines
SlotOf(w) == <<LineOf(w), w % 4>>
LineWords(w) == {4 * (w \div 4) + k : k \in 0 .. 3}

InitCache ==
  [opcodes |-> [s \in (0 .. Lines - 1) \X (0 .. 3) |-> 0],
   tags |-> [l \in 0 .. Lines - 1 |-> NoTag]]

Hit(cache, w) == cache.tags[LineOf(w)] = TagOf(w)

\* Mutant: a line is filled from the missing word on only.
FillLineFromWord(cache, w) ==
  [opcodes |-> [s \in DOMAIN cache.opcodes |->
                  IF s[1] = LineOf(w) /\ s[2] >= w % 4 THEN memory[4 * (w \div 4) + s[2]]
                  ELSE cache.opcodes[s]],
   tags |-> [cache.tags EXCEPT ![LineOf(w)] = TagOf(w)]]

FillLine(cache, w) ==
  [opcodes |-> [s \in DOMAIN cache.opcodes |->
                  IF s[1] = LineOf(w) THEN memory[4 * (w \div 4) + s[2]]
                  ELSE cache.opcodes[s]],
   tags |-> [cache.tags EXCEPT ![LineOf(w)] = TagOf(w)]]

WriteOpcode(cache, w, value) == [cache EXCEPT !.opcodes[SlotOf(w)] = value]
InvalidateTag(cache, w) == [cache EXCEPT !.tags[LineOf(w)] = NoTag]
-----------------------------------------------------------------------------
(* The machine as a record, which an instruction's steps pass on.              *)
NoException == [code |-> "none", bad |-> 0]

Machine ==
  [registers |-> registers, cp0 |-> cp0, i_cache |-> i_cache, gte |-> gte,
   memory |-> memory, irq |-> irq, stale |-> stale, exception |-> NoException]

Raise(s, code, bad) == [s EXCEPT !.exception = [code |-> code, bad |-> bad]]

\* fetch_opcode: the cache afterwards, and the opcode read.
Fetched(s, address) ==
  LET w == WordOf(address)
  IN IF Uncached(address) \/ Hit(s.i_cache, w) THEN s
     ELSE [s EXCEPT !.i_cache = FillLine(s.i_cache, w), !.stale = @ \ LineWords(w)]

OpcodeAt(s, address) ==
  IF Uncached(address) THEN s.memory[WordOf(address)]
  ELSE s.i_cache.opcodes[SlotOf(WordOf(address))]

IsGteCommand(i) == i.op = "COP2"

BusRead(s, address) == s.memory[WordOf(address)]

\* impl_bus_write: an isolated cache takes every write, whatever the segment.
WriteToCache(s, w, value) ==
  IF s.cp0.tag_test_mode
  THEN [s EXCEPT !.i_cache = InvalidateTag(@, w),
                 !.stale = {p \in @ : LineOf(p) # LineOf(w)}]
  ELSE [s EXCEPT !.i_cache = WriteOpcode(@, w, value),
                 !.stale = @ \cup {p \in DOMAIN s.memory : SlotOf(p) = SlotOf(w)}]

WriteToMemory(s, op, w, k, value) ==
  [s EXCEPT !.memory[w] = StoredWord(op, @, k, value), !.stale = @ \cup {w}]

BusWrite(s, op, address, value) ==
  CASE s.cp0.status.isolate_cache -> WriteToCache(s, address \div 4, value)
    [] ~s.cp0.status.isolate_cache /\ address = CacheControlAddress ->
         [s EXCEPT !.cp0.tag_test_mode = Bit(value, 2) = 1]
    [] ~s.cp0.status.isolate_cache /\ WordOf(address) = IrqAck -> [s EXCEPT !.irq = FALSE]
    [] OTHER -> WriteToMemory(s, op, WordOf(address), address % 4, value)

HandleException(s, exception, pc, in_delay_slot) ==
  LET c == [s.cp0 EXCEPT
             !.status = PushExceptionStack(@),
             !.cause.branch_delay = in_delay_slot,
             !.cause.exception_code = exception.code,
             !.epc = IF in_delay_slot THEN Wrap(pc - 4) ELSE pc,
             !.bad_v_addr = IF exception.code \in {"AddressErrorLoad", "AddressErrorStore"}
                            THEN exception.bad ELSE @]
  IN [s EXCEPT !.cp0 = c,
               !.registers = SetPc(@, IF c.status.boot_exception_vectors
                                      THEN BootExceptionVector ELSE ExceptionVector)]
-----------------------------------------------------------------------------
(* execute_opcode, by kind of instruction: the machine s after instruction i,  *)
(* whose registers have advanced to the instruction after it already.          *)
SetRegisters(s, regs) == [s EXCEPT !.registers = regs]
Write(s, i, value) == SetRegisters(s, WriteGpr(s.registers, i.rd, value))
WriteDelayed(s, i, value) == SetRegisters(s, WriteGprDelayed(s.registers, i.rd, value))
L(s, i) == Left(i, s.registers.gpr)
R(s, i) == Right(i, s.registers.gpr)
AddressOf(s, i) == Address(i, s.registers.gpr)

ExecuteArithmetic(s, i) ==
  CASE i.op \in AluOps -> Write(s, i, Alu(i.op, L(s, i), R(s, i)))
    [] i.op \in TrappingOps ->
         IF Overflows(i.op, L(s, i), R(s, i)) THEN Raise(s, "ArithmeticOverflow", 0)
         ELSE Write(s, i, Wrap(Exact(i.op, L(s, i), R(s, i))))
    [] i.op \in MulDivOps ->
         LET p == MulDiv(i.op, L(s, i), R(s, i))
         IN [s EXCEPT !.registers.hi = p.hi, !.registers.lo = p.lo]
    [] i.op = "MFHI" -> Write(s, i, s.registers.hi)
    [] i.op = "MFLO" -> Write(s, i, s.registers.lo)
    [] i.op = "MTHI" -> [s EXCEPT !.registers.hi = L(s, i)]
    [] i.op = "MTLO" -> [s EXCEPT !.registers.lo = L(s, i)]

Arithmetic == AluOps \cup TrappingOps \cup MulDivOps \cup {"MFHI", "MFLO", "MTHI", "MTLO"}

\* Branches link whether or not they are taken; only a taken one has a delay slot.
ExecuteBranch(s, i) ==
  LET branched == IF Taken(i.op, L(s, i), R(s, i))
                  THEN Jump(s.registers, Wrap(s.registers.pc + i.imm)) ELSE s.registers
  IN SetRegisters(s, IF i.op \in Links THEN LinkTo(branched, Link) ELSE branched)

Jumps == {"J", "JAL", "JR", "JALR"}
ExecuteJump(s, i) ==
  LET target == IF i.op \in {"JR", "JALR"} THEN L(s, i)
                ELSE Base(s.registers.pc) + i.imm
      jumped == Jump(s.registers, target)
  IN SetRegisters(s, CASE i.op = "JAL" -> LinkTo(jumped, Link)
                       [] i.op = "JALR" -> LinkTo(jumped, i.rd)
                       [] OTHER -> jumped)

Traps == {"SYSCALL", "BREAK"}
ExecuteTrap(s, i) == Raise(s, IF i.op = "SYSCALL" THEN "Syscall" ELSE "Breakpoint", 0)

ExecuteLoad(s, i) ==
  IF ~Aligned(i.op, AddressOf(s, i)) THEN Raise(s, "AddressErrorLoad", AddressOf(s, i))
  ELSE LET existing == ReadLwlLwr(s.registers, i.rd)
           word == BusRead(s, AddressOf(s, i))
       IN IF i.op = "LWC2" THEN [s EXCEPT !.gte = word]
          ELSE WriteDelayed(s, i, LoadedValue(i.op, word, AddressOf(s, i) % 4, existing))

\* SWCz raises the exception of a load, unlike the other stores.
ExecuteStore(s, i) ==
  LET address == AddressOf(s, i)
      value == IF i.op = "SWC2" THEN s.gte ELSE s.registers.gpr[i.rt]
  IN CASE ~Aligned(i.op, address) ->
            Raise(s, IF i.op = "SWC2" THEN "AddressErrorLoad" ELSE "AddressErrorStore", address)
       [] Aligned(i.op, address) /\ i.op \in {"SWL", "SWR"} ->
            BusWrite(s, "SW", address - (address % 4),
                     StoredWord(i.op, BusRead(s, address), address % 4, value))
       [] OTHER -> BusWrite(s, i.op, address, value)

Coprocessor == {"MFC0", "MTC0", "RFE", "MFC2", "CFC2", "MTC2", "CTC2", "COP2"}
ExecuteCoprocessor(s, i) ==
  CASE i.op = "MFC0" -> WriteDelayed(s, i, ReadCp0(s.cp0, i.imm))
    [] i.op = "MTC0" -> [s EXCEPT !.cp0 = WriteCp0(@, i.imm, s.registers.gpr[i.rt])]
    [] i.op = "RFE" -> [s EXCEPT !.cp0.status = RestoreFromException(@)]
    [] i.op \in {"MFC2", "CFC2"} -> WriteDelayed(s, i, s.gte)
    [] i.op \in {"MTC2", "CTC2"} -> [s EXCEPT !.gte = s.registers.gpr[i.rt]]
    [] i.op = "COP2" -> [s EXCEPT !.gte = Wrap(@ + 1)]
-----------------------------------------------------------------------------
Become(s) ==
  /\ registers' = ProcessDelayedLoads(s.registers)
  /\ cp0' = s.cp0
  /\ i_cache' = s.i_cache
  /\ gte' = s.gte
  /\ memory' = s.memory
  /\ irq' = s.irq
  /\ stale' = s.stale
  /\ UNCHANGED irqs

\* The opcode is read and the interrupt line sampled before anything else.
FetchOpcode == [Fetched(Machine, registers.pc) EXCEPT !.cp0.cause.hardware = irq]

ExecuteOpcode(s, i) ==
  CASE i.op \in Arithmetic -> ExecuteArithmetic(s, i)
    [] i.op \in Branches -> ExecuteBranch(s, i)
    [] i.op \in Jumps -> ExecuteJump(s, i)
    [] i.op \in Traps -> ExecuteTrap(s, i)
    [] i.op \in Loads \cup {"LWC2"} -> ExecuteLoad(s, i)
    [] i.op \in Stores \cup {"SWC2"} -> ExecuteStore(s, i)
    [] i.op \in Coprocessor -> ExecuteCoprocessor(s, i)

Operations ==
  Arithmetic \cup Branches \cup Jumps \cup Traps \cup Loads \cup {"LWC2"}
    \cup Stores \cup {"SWC2"} \cup Coprocessor
\* Of instructions, and of the registers of coprocessor 0 that MTC0 writes, those that the code
\* knows.
ASSUME DecodeAssumption ==
  \A w \in DOMAIN Decode :
    /\ Decode[w].op \in Operations
    /\ Decode[w].op = "MTC0" => Decode[w].imm \in {"SR", "CAUSE", "Breakpoint"}

Accessible(i) ==
  i.op \in Loads \cup Stores \cup {"LWC2", "SWC2"} =>
    LET address == AddressOf(Machine, i)
    IN \/ ~Aligned(i.op, address)
       \/ Mapped(address)
       \/ i.op \in Stores /\ address = CacheControlAddress

FetchMisaligned ==
  /\ registers.pc % 4 # 0
  /\ Become(HandleException(Machine, [code |-> "AddressErrorLoad", bad |-> registers.pc],
                            registers.pc, registers.in_delay_slot))

\* Mutant: the interrupt comes before a command of the geometry coprocessor.
TakeInterruptFirst(s, i) ==
  HandleException(s, [code |-> "Interrupt", bad |-> 0], registers.pc, registers.in_delay_slot)

\* A command of the geometry coprocessor runs before the interrupt it coincides with.
TakeInterrupt(s, i) ==
  HandleException(IF IsGteCommand(i) THEN ExecuteOpcode(s, i) ELSE s,
                  [code |-> "Interrupt", bad |-> 0], registers.pc, registers.in_delay_slot)

Execute(s, i) ==
  LET done == ExecuteOpcode(SetRegisters(s, Advance(registers)), i)
  IN IF done.exception = NoException THEN done
     ELSE HandleException(done, done.exception, registers.pc, registers.in_delay_slot)

ExecuteInstruction ==
  /\ registers.pc % 4 = 0
  /\ Mapped(registers.pc)
  /\ LET s == FetchOpcode
         opcode == OpcodeAt(s, registers.pc)
     IN /\ opcode \in DOMAIN Decode
        /\ \/ InterruptPending(s.cp0) /\ Become(TakeInterrupt(s, Decode[opcode]))
           \/ /\ ~InterruptPending(s.cp0)
              /\ Accessible(Decode[opcode])
              /\ Become(Execute(s, Decode[opcode]))

\* Devices raise the line at any time, MaxIrqs times.
RaiseIrq ==
  /\ ~irq
  /\ irqs < MaxIrqs
  /\ irq' = TRUE
  /\ irqs' = irqs + 1
  /\ UNCHANGED <<registers, cp0, i_cache, gte, memory, stale>>

Init ==
  /\ \E start \in Starts :
       /\ registers = InitRegisters(start.pc, start.gpr)
       /\ cp0 = InitCp0(start.status)
       /\ memory = MemoryOf(start)
  /\ i_cache = InitCache
  /\ gte = 0
  /\ irq = FALSE
  /\ irqs = 0
  /\ stale = {}

Next == FetchMisaligned \/ ExecuteInstruction \/ RaiseIrq

Spec == Init /\ [][Next]_vars
-----------------------------------------------------------------------------
(* What the cache would return is what memory holds, but for words stored to   *)
(* since their line was filled or flushed: lines are filled whole, tags tell   *)
(* addresses that share a line apart, and a flush leaves nothing behind.       *)
FetchIsCurrent ==
  \A p \in DOMAIN memory \ stale : Hit(i_cache, p) => i_cache.opcodes[SlotOf(p)] = memory[p]
=============================================================================
