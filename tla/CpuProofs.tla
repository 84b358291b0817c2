------------------------------ MODULE CpuProofs ------------------------------
(* The instruction cache returns what memory holds, whatever program runs, for *)
(* every number of lines: the invariant FetchIsCurrent of Cpu.  The pairs of   *)
(* instructions for unaligned words put every byte where it belongs, for all   *)
(* words: the invariant UnalignedWordsAreWhole of MCCpu.  And each instruction *)
(* of a program, whatever it is, is a step of Program: it takes effect as a    *)
(* whole, or an exception or an interrupt comes first.                         *)
EXTENDS MCCpu, TLAPS

Fields == {"registers", "cp0", "i_cache", "gte", "memory", "irq", "stale", "exception"}
Slots == (0 .. Lines - 1) \X (0 .. 3)

\* A machine whose cache and memory have their shape, and what its cache returns.
Shaped(s) ==
  /\ DOMAIN s = Fields
  /\ s = [f \in DOMAIN s |-> s[f]]
  /\ DOMAIN s.memory \subseteq Nat
  /\ s.memory = [p \in DOMAIN s.memory |-> s.memory[p]]
  /\ DOMAIN s.i_cache = {"opcodes", "tags"}
  /\ s.i_cache = [f \in DOMAIN s.i_cache |-> s.i_cache[f]]
  /\ DOMAIN s.i_cache.opcodes = Slots
  /\ s.i_cache.opcodes = [x \in Slots |-> s.i_cache.opcodes[x]]
  /\ DOMAIN s.i_cache.tags = 0 .. Lines - 1
  /\ s.i_cache.tags = [l \in 0 .. Lines - 1 |-> s.i_cache.tags[l]]

Current(s) ==
  \A p \in DOMAIN s.memory \ s.stale :
    Hit(s.i_cache, p) => s.i_cache.opcodes[SlotOf(p)] = s.memory[p]

Good(s) == Shaped(s) /\ Current(s)

\* What most instructions leave alone.
Keeps(s, t) ==
  /\ DOMAIN t = Fields
  /\ t = [f \in DOMAIN t |-> t[f]]
  /\ t.memory = s.memory /\ t.i_cache = s.i_cache /\ t.stale = s.stale

LEMMA KeepsGood == ASSUME NEW s, NEW t, Good(s), Keeps(s, t) PROVE Good(t)
  BY DEF Good, Shaped, Current, Keeps

LEMMA ShapedParts ==
  ASSUME NEW t, NEW c,
         t.i_cache = c, DOMAIN t = Fields, t = [f \in DOMAIN t |-> t[f]],
         DOMAIN t.memory \subseteq Nat, t.memory = [p \in DOMAIN t.memory |-> t.memory[p]],
         DOMAIN c = {"opcodes", "tags"}, c = [f \in DOMAIN c |-> c[f]],
         DOMAIN c.opcodes = Slots, c.opcodes = [x \in Slots |-> c.opcodes[x]],
         DOMAIN c.tags = 0 .. Lines - 1, c.tags = [l \in 0 .. Lines - 1 |-> c.tags[l]]
  PROVE  Shaped(t)
  BY DEF Shaped

LEMMA KeepsTrans ==
  ASSUME NEW s, NEW t, NEW u, Keeps(s, t), Keeps(t, u) PROVE Keeps(s, u)
  BY DEF Keeps
-----------------------------------------------------------------------------
\* Words of one line with one tag are words of the same four.
LEMMA SameLine ==
  ASSUME NEW p \in Nat, NEW w \in Nat, LineOf(p) = LineOf(w), TagOf(p) = TagOf(w)
  PROVE  p = 4 * (w \div 4) + (p % 4)
<1> DEFINE x == p \div 4
           y == w \div 4
<1>1. x \in Nat /\ y \in Nat /\ Lines \in Nat /\ Lines > 0
  BY CacheAssumption
<1>2. x % Lines = y % Lines /\ x \div Lines = y \div Lines
  BY DEF LineOf, TagOf
<1>3. \A n \in Nat : n = Lines * (n \div Lines) + (n % Lines)
  BY <1>1
<1>4. x = y
  BY <1>1, <1>2, <1>3
<1>5. p = 4 * x + (p % 4)
  OBVIOUS
<1> QED BY <1>4, <1>5

LEMMA LineInRange == ASSUME NEW p \in Nat PROVE LineOf(p) \in 0 .. Lines - 1
  BY CacheAssumption DEF LineOf

LEMMA TagInRange == ASSUME NEW p \in Nat PROVE TagOf(p) # NoTag
<1> DEFINE x == p \div 4
<1>1. x \in Nat /\ Lines \in Nat /\ Lines > 0
  BY CacheAssumption
<1>2. x \div Lines >= 0
  BY <1>1
<1> QED BY <1>2 DEF TagOf, NoTag

LEMMA SlotInRange == ASSUME NEW p \in Nat PROVE SlotOf(p) \in Slots
  BY LineInRange DEF SlotOf, Slots
-----------------------------------------------------------------------------
\* The three ways in which the cache and memory change.
LEMMA FillGood ==
  ASSUME NEW s, Good(s), s.memory = memory, NEW w \in Nat
  PROVE  Good([s EXCEPT !.i_cache = FillLine(s.i_cache, w), !.stale = @ \ LineWords(w)])
<1> DEFINE t == [s EXCEPT !.i_cache = FillLine(s.i_cache, w), !.stale = @ \ LineWords(w)]
           c == FillLine(s.i_cache, w)
<1> USE DEF Good
<1>1. /\ t.i_cache = c /\ t.stale = s.stale \ LineWords(w) /\ t.memory = s.memory
      /\ DOMAIN t = Fields /\ t = [f \in DOMAIN t |-> t[f]]
  BY ZenonT(30) DEF Shaped, Fields
<1>2. /\ \A x \in Slots : c.opcodes[x] = IF x[1] = LineOf(w) THEN memory[4 * (w \div 4) + x[2]]
                                         ELSE s.i_cache.opcodes[x]
      /\ DOMAIN c.opcodes = Slots
      /\ c.opcodes = [x \in Slots |-> c.opcodes[x]]
  BY DEF FillLine, Shaped
<1>3. /\ DOMAIN c = {"opcodes", "tags"} /\ c = [f \in DOMAIN c |-> c[f]]
      /\ c.tags = [s.i_cache.tags EXCEPT ![LineOf(w)] = TagOf(w)]
  BY DEF FillLine
<1>4. Shaped(t)
  <2>1. DOMAIN c.tags = 0 .. Lines - 1 /\ c.tags = [l \in 0 .. Lines - 1 |-> c.tags[l]]
    BY <1>3 DEF Shaped
  <2>2. DOMAIN t.memory \subseteq Nat /\ t.memory = [p \in DOMAIN t.memory |-> t.memory[p]]
    <3> HIDE DEF t
    <3> QED BY <1>1 DEF Shaped
  <2> HIDE DEF c, t
  <2> QED BY <1>1, <1>2, <1>3, <2>1, <2>2, ShapedParts
<1>5. ASSUME NEW p \in DOMAIN t.memory \ t.stale, Hit(c, p)
      PROVE  c.opcodes[SlotOf(p)] = s.memory[p]
  <2>1. p \in Nat /\ SlotOf(p) \in Slots /\ LineOf(p) \in 0 .. Lines - 1
    BY <1>1, SlotInRange, LineInRange DEF Shaped
  <2>2. SlotOf(p)[1] = LineOf(p) /\ SlotOf(p)[2] = p % 4
    BY DEF SlotOf
  <2>3. CASE LineOf(p) = LineOf(w)
    <3>1. TagOf(p) = TagOf(w)
      BY <2>1, <2>3, <1>3, <1>5 DEF Hit, Shaped
    <3>2. p = 4 * (w \div 4) + (p % 4)
      BY <2>1, <2>3, <3>1, SameLine
    <3> QED BY <2>1, <2>2, <2>3, <3>2, <1>2
  <2>4. CASE LineOf(p) # LineOf(w)
    <3>1. Hit(s.i_cache, p)
      BY <2>1, <2>4, <1>3, <1>5, LineInRange DEF Hit, Shaped
    <3>2. p \notin LineWords(w)
      <4>1. SUFFICES ASSUME NEW k \in 0 .. 3, p = 4 * (w \div 4) + k PROVE FALSE
        BY DEF LineWords
      <4>2. p \div 4 = w \div 4
        <5> DEFINE q == w \div 4
        <5>1. q \in Nat
          OBVIOUS
        <5>2. (4 * q + k) \div 4 = q
          BY <5>1
        <5> QED BY <4>1, <5>2
      <4> QED BY <4>2, <2>4 DEF LineOf
    <3>3. s.i_cache.opcodes[SlotOf(p)] = s.memory[p]
      BY <3>1, <3>2, <1>1, <1>5 DEF Current
    <3> QED BY <2>1, <2>2, <2>4, <3>3, <1>2
  <2> QED BY <2>3, <2>4
<1>6. Current(t)
  BY <1>1, <1>5 DEF Current
<1> QED BY <1>4, <1>6

LEMMA WriteToCacheGood ==
  ASSUME NEW s, Good(s), NEW w, NEW value
  PROVE  Good(WriteToCache(s, w, value))
<1> USE DEF Good
<1> DEFINE t == WriteToCache(s, w, value)
<1>1. CASE s.cp0.tag_test_mode
  <2>1. /\ t.i_cache = InvalidateTag(s.i_cache, w) /\ t.memory = s.memory
        /\ t.stale = {p \in s.stale : LineOf(p) # LineOf(w)}
        /\ DOMAIN t = Fields /\ t = [f \in DOMAIN t |-> t[f]]
    BY <1>1, ZenonT(30) DEF WriteToCache, Shaped, Fields
  <2>2. Shaped(t)
    BY <2>1, ZenonT(30) DEF Shaped, InvalidateTag
  <2>3. ASSUME NEW p \in DOMAIN t.memory \ t.stale, Hit(t.i_cache, p)
        PROVE  t.i_cache.opcodes[SlotOf(p)] = t.memory[p]
    <3>1. p \in Nat /\ LineOf(p) \in 0 .. Lines - 1 /\ TagOf(p) # NoTag
      BY <2>1, LineInRange, TagInRange DEF Shaped
    <3>2. LineOf(p) # LineOf(w)
      BY <3>1, <2>1, <2>3 DEF Hit, InvalidateTag, Shaped
    <3>3. Hit(s.i_cache, p) /\ p \notin s.stale
      BY <3>1, <3>2, <2>1, <2>3 DEF Hit, InvalidateTag, Shaped
    <3> QED BY <3>3, <2>1, <2>3 DEF Current, InvalidateTag, Shaped
  <2> QED BY <2>2, <2>3 DEF Current
<1>2. CASE ~s.cp0.tag_test_mode
  <2>1. /\ t.i_cache = WriteOpcode(s.i_cache, w, value) /\ t.memory = s.memory
        /\ t.stale = s.stale \cup {p \in DOMAIN s.memory : SlotOf(p) = SlotOf(w)}
        /\ DOMAIN t = Fields /\ t = [f \in DOMAIN t |-> t[f]]
    BY <1>2, ZenonT(30) DEF WriteToCache, Shaped, Fields
  <2>2. Shaped(t)
    BY <2>1, ZenonT(60) DEF Shaped, WriteOpcode
  <2>3. ASSUME NEW p \in DOMAIN t.memory \ t.stale, Hit(t.i_cache, p)
        PROVE  t.i_cache.opcodes[SlotOf(p)] = t.memory[p]
    <3>1. SlotOf(p) # SlotOf(w) /\ SlotOf(p) \in Slots
      BY <2>1, <2>3, SlotInRange DEF Shaped
    <3>2. Hit(s.i_cache, p) /\ p \notin s.stale
      BY <2>1, <2>3 DEF Hit, WriteOpcode, Shaped
    <3> QED BY <3>1, <3>2, <2>1, <2>3, ZenonT(30) DEF Current, WriteOpcode, Shaped
  <2> QED BY <2>2, <2>3 DEF Current
<1> QED BY <1>1, <1>2

LEMMA WriteToMemoryGood ==
  ASSUME NEW s, Good(s), NEW w, NEW op, NEW k, NEW value
  PROVE  Good(WriteToMemory(s, op, w, k, value))
<1> USE DEF Good
<1> DEFINE t == WriteToMemory(s, op, w, k, value)
<1>1. \E v : /\ t.memory = [s.memory EXCEPT ![w] = v]
             /\ t.i_cache = s.i_cache /\ t.stale = s.stale \cup {w}
             /\ DOMAIN t = Fields /\ t = [f \in DOMAIN t |-> t[f]]
  BY ZenonT(30) DEF WriteToMemory, Shaped, Fields
<1>2. DOMAIN t.memory = DOMAIN s.memory /\ \A p \in DOMAIN s.memory \ {w} : t.memory[p] = s.memory[p]
  BY <1>1 DEF Shaped
<1>3. Shaped(t)
  BY <1>1 DEF Shaped
<1>4. Current(t)
  BY <1>1, <1>2 DEF Current
<1> QED BY <1>3, <1>4
-----------------------------------------------------------------------------
\* Instructions.  All but stores keep the cache and memory.
LEMMA SetKeeps ==
  ASSUME NEW s, Shaped(s), NEW regs PROVE Keeps(s, SetRegisters(s, regs))
  BY DEF SetRegisters, Keeps, Shaped, Fields

LEMMA SetCp0Keeps ==
  ASSUME NEW s, Shaped(s), NEW c PROVE Keeps(s, [s EXCEPT !.cp0 = c])
  BY ZenonT(30) DEF Keeps, Shaped, Fields

LEMMA KeepsShaped == ASSUME NEW s, NEW t, Shaped(s), Keeps(s, t) PROVE Shaped(t)
  BY ZenonT(30) DEF Keeps, Shaped

LEMMA RaiseKeeps ==
  ASSUME NEW s, Shaped(s), NEW code, NEW bad PROVE Keeps(s, Raise(s, code, bad))
  BY DEF Raise, Keeps, Shaped, Fields

LEMMA ArithmeticKeeps ==
  ASSUME NEW s, Shaped(s), NEW i, i.op \in Arithmetic PROVE Keeps(s, ExecuteArithmetic(s, i))
<1>1. CASE i.op \in AluOps
  <2>1. ExecuteArithmetic(s, i) = Write(s, i, Alu(i.op, L(s, i), R(s, i)))
    BY <1>1 DEF ExecuteArithmetic, AluOps, LogicalOps, ShiftOps, CompareOps, TrappingOps, MulDivOps
  <2> QED BY <2>1, SetKeeps DEF Write
<1>2. CASE i.op \in TrappingOps
  <2>1. ExecuteArithmetic(s, i) =
          IF Overflows(i.op, L(s, i), R(s, i)) THEN Raise(s, "ArithmeticOverflow", 0)
          ELSE Write(s, i, Wrap(Exact(i.op, L(s, i), R(s, i))))
    BY <1>2 DEF ExecuteArithmetic, AluOps, LogicalOps, ShiftOps, CompareOps, TrappingOps, MulDivOps
  <2> QED BY <2>1, SetKeeps, RaiseKeeps DEF Write
<1>3. CASE i.op \in MulDivOps
  <2>1. \E hi, lo : ExecuteArithmetic(s, i) = [s EXCEPT !.registers.hi = hi, !.registers.lo = lo]
    BY <1>3 DEF ExecuteArithmetic, AluOps, LogicalOps, ShiftOps, CompareOps, TrappingOps, MulDivOps
  <2>2. ASSUME NEW hi, NEW lo
        PROVE  Keeps(s, [s EXCEPT !.registers.hi = hi, !.registers.lo = lo])
    <3>1. "registers" \in DOMAIN s
      BY DEF Shaped, Fields
    <3>2. [s EXCEPT !.registers.hi = hi, !.registers.lo = lo]
            = SetRegisters(s, [s.registers EXCEPT !.hi = hi, !.lo = lo])
      BY <3>1 DEF SetRegisters
    <3> QED BY <3>2, SetKeeps
  <2>3. PICK hi, lo : ExecuteArithmetic(s, i)
                        = [s EXCEPT !.registers.hi = hi, !.registers.lo = lo]
    BY <2>1
  <2>4. Keeps(s, [s EXCEPT !.registers.hi = hi, !.registers.lo = lo])
    BY <2>2
  <2> QED BY <2>3, <2>4
<1>4. CASE i.op \in {"MFHI", "MFLO"}
  <2>1. \E v : ExecuteArithmetic(s, i) = Write(s, i, v)
    BY <1>4 DEF ExecuteArithmetic, AluOps, LogicalOps, ShiftOps, CompareOps, TrappingOps, MulDivOps
  <2> QED BY <2>1, SetKeeps DEF Write
<1>5. CASE i.op \in {"MTHI", "MTLO"}
  <2>1. \/ \E v : ExecuteArithmetic(s, i) = [s EXCEPT !.registers.hi = v]
        \/ \E v : ExecuteArithmetic(s, i) = [s EXCEPT !.registers.lo = v]
    BY <1>5 DEF ExecuteArithmetic, AluOps, LogicalOps, ShiftOps, CompareOps, TrappingOps, MulDivOps
  <2> QED BY <2>1 DEF Keeps, Shaped, Fields
<1> QED BY <1>1, <1>2, <1>3, <1>4, <1>5 DEF Arithmetic

LEMMA LoadKeeps ==
  ASSUME NEW s, Shaped(s), NEW i PROVE Keeps(s, ExecuteLoad(s, i))
<1>1. \/ \E code, bad : ExecuteLoad(s, i) = Raise(s, code, bad)
      \/ \E v : ExecuteLoad(s, i) = [s EXCEPT !.gte = v]
      \/ \E v : ExecuteLoad(s, i) = WriteDelayed(s, i, v)
  BY DEF ExecuteLoad
<1>2. ASSUME NEW v PROVE Keeps(s, [s EXCEPT !.gte = v])
  BY DEF Keeps, Shaped, Fields
<1> QED BY <1>1, <1>2, SetKeeps, RaiseKeeps DEF WriteDelayed

LEMMA CoprocessorKeeps ==
  ASSUME NEW s, Shaped(s), NEW i, i.op \in Coprocessor PROVE Keeps(s, ExecuteCoprocessor(s, i))
<1>1. ASSUME NEW v PROVE Keeps(s, [s EXCEPT !.gte = v]) /\ Keeps(s, [s EXCEPT !.cp0 = v])
  BY DEF Keeps, Shaped, Fields
<1>2. \/ \E v : ExecuteCoprocessor(s, i) = WriteDelayed(s, i, v)
      \/ \E v : ExecuteCoprocessor(s, i) = [s EXCEPT !.cp0 = v]
      \/ \E v : ExecuteCoprocessor(s, i) = [s EXCEPT !.gte = v]
  BY DEF ExecuteCoprocessor, Coprocessor
<1> QED BY <1>1, <1>2, SetKeeps DEF WriteDelayed

LEMMA BusWriteGood ==
  ASSUME NEW s, Good(s), NEW op, NEW address, NEW value PROVE Good(BusWrite(s, op, address, value))
<1>1. ASSUME NEW v PROVE Keeps(s, [s EXCEPT !.irq = v]) /\ Keeps(s, [s EXCEPT !.cp0.tag_test_mode = v])
  BY DEF Good, Keeps, Shaped, Fields
<1>2. \/ \E w : BusWrite(s, op, address, value) = WriteToCache(s, w, value)
      \/ \E v : BusWrite(s, op, address, value) = [s EXCEPT !.cp0.tag_test_mode = v]
      \/ \E v : BusWrite(s, op, address, value) = [s EXCEPT !.irq = v]
      \/ \E w, k : BusWrite(s, op, address, value) = WriteToMemory(s, op, w, k, value)
  <2>1. CASE s.cp0.status.isolate_cache
    BY <2>1 DEF BusWrite
  <2>2. CASE ~s.cp0.status.isolate_cache /\ address = CacheControlAddress
    <3>1. BusWrite(s, op, address, value) = [s EXCEPT !.cp0.tag_test_mode = Bit(value, 2) = 1]
          \/ BusWrite(s, op, address, value) = [s EXCEPT !.irq = FALSE]
      BY <2>2 DEF BusWrite
    <3> QED BY <3>1
  <2>3. CASE ~s.cp0.status.isolate_cache /\ address # CacheControlAddress /\ WordOf(address) = IrqAck
    <3>1. BusWrite(s, op, address, value) = [s EXCEPT !.irq = FALSE]
      BY <2>3 DEF BusWrite
    <3> QED BY <3>1
  <2>4. CASE ~s.cp0.status.isolate_cache /\ address # CacheControlAddress /\ WordOf(address) # IrqAck
    <3>1. BusWrite(s, op, address, value) =
            WriteToMemory(s, op, WordOf(address), address % 4, value)
      BY <2>4 DEF BusWrite
    <3> QED BY <3>1
  <2> QED BY <2>1, <2>2, <2>3, <2>4
<1>3. ASSUME NEW v PROVE Good([s EXCEPT !.irq = v]) /\ Good([s EXCEPT !.cp0.tag_test_mode = v])
  BY <1>1, KeepsGood
<1>4. ASSUME NEW w
      PROVE  Good(WriteToCache(s, w, value)) /\ \A k : Good(WriteToMemory(s, op, w, k, value))
  BY WriteToCacheGood, WriteToMemoryGood
<1> QED BY <1>2, <1>3, <1>4

LEMMA StoreGood == ASSUME NEW s, Good(s), NEW i PROVE Good(ExecuteStore(s, i))
<1>1. \/ \E code, bad : ExecuteStore(s, i) = Raise(s, code, bad)
      \/ \E op, address, value : ExecuteStore(s, i) = BusWrite(s, op, address, value)
  BY DEF ExecuteStore
<1> QED BY <1>1, BusWriteGood, RaiseKeeps, KeepsGood DEF Good

LEMMA OpcodeGood ==
  ASSUME NEW s, Good(s), NEW i, i.op \in Operations PROVE Good(ExecuteOpcode(s, i))
<1> USE DEF Good
<1>1. \/ i.op \in Arithmetic /\ ExecuteOpcode(s, i) = ExecuteArithmetic(s, i)
      \/ ExecuteOpcode(s, i) = ExecuteBranch(s, i)
      \/ ExecuteOpcode(s, i) = ExecuteJump(s, i)
      \/ ExecuteOpcode(s, i) = ExecuteTrap(s, i)
      \/ ExecuteOpcode(s, i) = ExecuteLoad(s, i)
      \/ ExecuteOpcode(s, i) = ExecuteStore(s, i)
      \/ i.op \in Coprocessor /\ ExecuteOpcode(s, i) = ExecuteCoprocessor(s, i)
  BY DEF ExecuteOpcode, Operations
<1>2. Keeps(s, ExecuteBranch(s, i)) /\ Keeps(s, ExecuteJump(s, i)) /\ Keeps(s, ExecuteTrap(s, i))
  BY SetKeeps, RaiseKeeps DEF ExecuteBranch, ExecuteJump, ExecuteTrap
<1> QED BY <1>1, <1>2, ArithmeticKeeps, LoadKeeps, CoprocessorKeeps, StoreGood, KeepsGood

LEMMA ExceptionKeeps ==
  ASSUME NEW s, Shaped(s), NEW exception, NEW pc, NEW slot
  PROVE  Keeps(s, HandleException(s, exception, pc, slot))
<1>1. \E c, regs : HandleException(s, exception, pc, slot) = [s EXCEPT !.cp0 = c, !.registers = regs]
  BY DEF HandleException
<1>2. ASSUME NEW c, NEW regs PROVE Keeps(s, [s EXCEPT !.cp0 = c, !.registers = regs])
  <2> DEFINE r == [s EXCEPT !.cp0 = c]
  <2>1. Keeps(s, r) /\ DOMAIN s = Fields
    BY SetCp0Keeps DEF Shaped
  <2>2. [s EXCEPT !.cp0 = c, !.registers = regs] = SetRegisters(r, regs)
    BY DEF SetRegisters
  <2> HIDE DEF r
  <2>3. Keeps(r, SetRegisters(r, regs))
    BY <2>1, KeepsShaped, SetKeeps
  <2> QED BY <2>1, <2>2, <2>3, KeepsTrans
<1>3. PICK c, regs : HandleException(s, exception, pc, slot)
                       = [s EXCEPT !.cp0 = c, !.registers = regs]
  BY <1>1
<1>4. Keeps(s, [s EXCEPT !.cp0 = c, !.registers = regs])
  BY <1>2
<1> QED BY <1>3, <1>4
-----------------------------------------------------------------------------
IInv == Good(Machine)

LEMMA MachineFields ==
  /\ DOMAIN Machine = Fields /\ Machine = [f \in DOMAIN Machine |-> Machine[f]]
  /\ Machine.memory = memory /\ Machine.i_cache = i_cache /\ Machine.stale = stale
  /\ Machine.cp0 = cp0
  BY DEF Machine, Fields

LEMMA BecomeGood == ASSUME NEW s, Good(s), Become(s) PROVE IInv'
<1>1. memory' = s.memory /\ i_cache' = s.i_cache /\ stale' = s.stale
  BY DEF Become
<1>2. /\ DOMAIN Machine' = Fields /\ Machine' = [f \in DOMAIN Machine' |-> Machine'[f]]
      /\ Machine'.memory = memory' /\ Machine'.i_cache = i_cache' /\ Machine'.stale = stale'
  BY DEF Machine, Fields
<1>3. Keeps(s, Machine')
  BY <1>1, <1>2 DEF Keeps
<1>4. Good(Machine')
  BY <1>3, KeepsGood
<1> QED BY <1>4 DEF IInv, Good, Shaped, Current, Hit, Machine

LEMMA FetchGood ==
  ASSUME IInv, Mapped(registers.pc) PROVE Good(FetchOpcode)
<1> DEFINE w == WordOf(registers.pc)
           f == Fetched(Machine, registers.pc)
<1>1. w \in Nat
  BY MachineFields DEF IInv, Good, Shaped, Mapped
<1>2. f = Machine \/ f = [Machine EXCEPT !.i_cache = FillLine(Machine.i_cache, w),
                                         !.stale = @ \ LineWords(w)]
  BY DEF Fetched
<1>3. Good(f)
  <2>1. Good(Machine) /\ Machine.memory = memory
    BY MachineFields DEF IInv
  <2>2. Good([Machine EXCEPT !.i_cache = FillLine(Machine.i_cache, w), !.stale = @ \ LineWords(w)])
    BY <1>1, <2>1, FillGood
  <2> QED BY <1>2, <2>1, <2>2
<1>4. Keeps(f, FetchOpcode)
  BY <1>3 DEF FetchOpcode, Good, Keeps, Shaped, Fields
<1> QED BY <1>3, <1>4, KeepsGood

LEMMA StepGood ==
  ASSUME IInv, [Next]_vars PROVE IInv'
<1>1. CASE FetchMisaligned
  <2>1. PICK s : Become(s) /\ s = HandleException(Machine,
                   [code |-> "AddressErrorLoad", bad |-> registers.pc],
                   registers.pc, registers.in_delay_slot)
    BY <1>1 DEF FetchMisaligned
  <2>2. Good(s)
    BY <2>1, ExceptionKeeps, KeepsGood DEF IInv, Good
  <2> QED BY <2>1, <2>2, BecomeGood
<1>2. CASE ExecuteInstruction
  <2> DEFINE s == FetchOpcode
  <2>1. Good(s)
    BY <1>2, FetchGood DEF ExecuteInstruction
  <2>2. PICK o \in DOMAIN Decode :
          Become(TakeInterrupt(s, Decode[o])) \/ Become(Execute(s, Decode[o]))
    BY <1>2 DEF ExecuteInstruction
  <2> DEFINE i == Decode[o]
  <2>3. i.op \in Operations
    BY DecodeAssumption
  <2>4. Good(TakeInterrupt(s, i))
    BY <2>1, <2>3, OpcodeGood, ExceptionKeeps, KeepsGood DEF TakeInterrupt, Good
  <2>5. Good(Execute(s, i))
    <3> DEFINE advanced == SetRegisters(s, Advance(registers))
    <3>1. Good(advanced)
      BY <2>1, SetKeeps, KeepsGood DEF Good
    <3>2. Good(ExecuteOpcode(advanced, i))
      BY <2>3, <3>1, OpcodeGood
    <3> QED BY <3>2, ExceptionKeeps, KeepsGood DEF Execute, Good
  <2> QED BY <2>2, <2>4, <2>5, BecomeGood
<1>3. CASE RaiseIrq
  <2>1. memory' = memory /\ i_cache' = i_cache /\ stale' = stale
    BY <1>3 DEF RaiseIrq
  <2> QED BY <2>1, MachineFields DEF IInv, Good, Shaped, Current, Hit, Machine, Fields
<1>4. CASE UNCHANGED vars
  BY <1>4 DEF vars, IInv, Good, Shaped, Current, Hit, Machine
<1> QED BY <1>1, <1>2, <1>3, <1>4 DEF Next

LEMMA InitGood == Init => IInv
<1> SUFFICES ASSUME Init PROVE IInv
  OBVIOUS
<1>1. DOMAIN memory \subseteq Nat /\ memory = [p \in DOMAIN memory |-> memory[p]]
  BY CacheAssumption DEF Init
<1>2. i_cache = InitCache /\ stale = {}
  BY DEF Init
<1>3. Shaped(Machine)
  BY <1>1, <1>2, MachineFields DEF Shaped, InitCache, Slots
<1>4. ASSUME NEW p \in DOMAIN memory PROVE ~Hit(i_cache, p)
  BY <1>1, <1>2, <1>4, LineInRange, TagInRange DEF InitCache, Hit
<1> QED BY <1>3, <1>4, MachineFields DEF IInv, Good, Current

\* FetchIsCurrent for every program, memory and number of lines: cpu.rs fetch_opcode, the
\* writes to an isolated cache, and the stores between them.
THEOREM CacheIsCurrent == Spec => []FetchIsCurrent
<1>1. IInv => FetchIsCurrent
  <2> SUFFICES ASSUME IInv PROVE FetchIsCurrent
    OBVIOUS
  <2>1. Current(Machine)
    BY DEF IInv, Good
  <2> HIDE DEF Machine
  <2> QED BY <2>1, MachineFields DEF Current, FetchIsCurrent
<1> QED BY InitGood, StepGood, <1>1, PTL DEF Spec
-----------------------------------------------------------------------------
\* Quotient and remainder, and that there are no others.
LEMMA Division ==
  ASSUME NEW P \in Nat \ {0}, NEW n \in Nat
  PROVE  n \div P \in Nat /\ n % P \in 0 .. P - 1 /\ n = P * (n \div P) + (n % P)
<1>1. P \in Nat /\ P > 0
  OBVIOUS
<1>2. n % P \in 0 .. P - 1
  BY <1>1
<1>3. \A i \in Nat : i = P * (i \div P) + (i % P)
  BY <1>1
<1> DEFINE d == n \div P
<1>4. d >= 0
  BY <1>1
<1>5. d \in Int
  BY <1>1
<1>6. d \in Nat
  <2> HIDE DEF d
  <2> QED BY <1>4, <1>5
<1>7. n = P * d + (n % P)
  BY <1>3, Zenon
<1> QED BY <1>2, <1>6, <1>7, Zenon

LEMMA DivisionIs ==
  ASSUME NEW P \in Nat \ {0}, NEW n \in Nat, NEW q \in Nat, NEW r \in 0 .. P - 1, n = P * q + r
  PROVE  n \div P = q /\ n % P = r
<1> DEFINE d == n \div P
           m == n % P
<1>1. d \in Nat /\ m \in 0 .. P - 1 /\ n = P * d + m
  BY Division
<1> HIDE DEF d, m
<1>2. \A i, j \in Nat : i < j => P * i + P <= P * j
  <2> SUFFICES ASSUME NEW i \in Nat, NEW j \in Nat, i < j PROVE P * i + P <= P * j
    OBVIOUS
  <2>1. j - i - 1 \in Nat
    OBVIOUS
  <2>2. P * j = P * i + P + P * (j - i - 1)
    OBVIOUS
  <2>3. P * (j - i - 1) \in Nat
    BY <2>1
  <2> QED BY <2>2, <2>3
<1>3. P * d \in Nat /\ P * q \in Nat
  BY <1>1
<1>4. ~(d < q)
  BY <1>1, <1>2, <1>3
<1>5. ~(q < d)
  BY <1>1, <1>2, <1>3
<1>6. d = q
  BY <1>1, <1>4, <1>5
<1> QED BY <1>1, <1>3, <1>6 DEF d, m

LEMMA ProductIs ==
  ASSUME NEW M \in Nat \ {0}, NEW N \in Nat \ {0}
  PROVE  M * N \in Nat \ {0} /\ M * N = N * M
OBVIOUS

LEMMA Remains ==
  ASSUME NEW N \in Nat \ {0}, NEW a \in 0 .. N - 1
  PROVE  a % N = a
OBVIOUS

\* A number below M * N is a quotient below N and a remainder.
LEMMA QuotientIsBelow ==
  ASSUME NEW M \in Nat \ {0}, NEW N \in Nat \ {0}, NEW x \in 0 .. M * N - 1
  PROVE  x \div M \in 0 .. N - 1
<1> DEFINE d == x \div M
           m == x % M
<1>1. x \in Nat /\ M * N \in Nat
  BY ProductIs
<1>2. d \in Nat /\ m \in 0 .. M - 1 /\ x = M * d + m
  BY <1>1, Division
<1> HIDE DEF d, m
<1>3. ASSUME d >= N PROVE FALSE
  <2> DEFINE e == d - N
  <2>1. e \in Nat /\ d = N + e
    BY <1>2, <1>3
  <2> HIDE DEF e
  <2>2. M * d = M * N + M * e /\ M * e \in Nat
    BY <2>1
  <2> QED BY <1>1, <1>2, <2>2
<1> QED BY <1>2, <1>3 DEF d

LEMMA Joined ==
  ASSUME NEW M \in Nat \ {0}, NEW N \in Nat \ {0}, NEW a \in 0 .. N - 1, NEW c \in 0 .. M - 1
  PROVE  /\ c * N + a \in 0 .. M * N - 1
         /\ (c * N + a) % N = a /\ (c * N + a) \div N = c
<1>1. c * N \in Nat /\ c * N = N * c /\ c * N + a \in Nat
  OBVIOUS
<1>2. c * N + N <= M * N
  <2> DEFINE e == M - 1 - c
  <2>1. e \in Nat /\ M = c + 1 + e
    OBVIOUS
  <2> HIDE DEF e
  <2>2. M * N = c * N + N + e * N /\ e * N \in Nat
    BY <2>1
  <2> QED BY <1>1, <2>2
<1>3. (c * N + a) % N = a /\ (c * N + a) \div N = c
  BY <1>1, DivisionIs
<1> QED BY <1>1, <1>2, <1>3

JoinOf(c, N, a) == c * N + a

LEMMA JoinIs ==
  ASSUME NEW N \in Nat \ {0}, NEW a \in 0 .. N - 1, NEW c \in Nat
  PROVE  JoinOf(c, N, a) % N = a /\ JoinOf(c, N, a) \div N = c
<1>1. c * N \in Nat /\ c * N = N * c /\ c * N + a \in Nat
  OBVIOUS
<1>2. (c * N + a) % N = a /\ (c * N + a) \div N = c
  BY <1>1, DivisionIs
<1> QED BY <1>2 DEF JoinOf

\* Shifting a word left drops its high part.
LEMMA ShiftDrops ==
  ASSUME NEW M \in Nat \ {0}, NEW N \in Nat \ {0}, NEW s \in Nat
  PROVE  (s * N) % (M * N) = (s % M) * N /\ s % M \in 0 .. M - 1
<1> DEFINE q == s \div M
           r == s % M
           P == M * N
<1>1. q \in Nat /\ r \in 0 .. M - 1 /\ s = M * q + r
  BY Division
<1>2. P \in Nat \ {0}
  BY ProductIs
<1>3. r * N \in 0 .. P - 1
  <2>1. 0 \in 0 .. N - 1
    OBVIOUS
  <2>2. r * N + 0 \in 0 .. M * N - 1
    BY <1>1, <2>1, Joined
  <2>3. r * N \in Nat
    BY <1>1
  <2> QED BY <2>2, <2>3
<1> HIDE DEF q, r
<1>4. s * N = P * q + r * N /\ s * N \in Nat
  BY <1>1
<1> HIDE DEF P
<1>5. (s * N) % P = r * N
  BY <1>1, <1>2, <1>3, <1>4, DivisionIs
<1> QED BY <1>1, <1>5 DEF P, r

\* The words first and second hold, from M on and below M, what a pair of instructions loads
\* into a register that holds x, and what one stores from it.
Paired(M, N, W, f, s, x, l, r, a, low, high) ==
  /\ l = (x % N) + ((s * N) % W) /\ r = (x \div N) * N + (f \div M)
  /\ a = ((f \div M) % N) + ((s % M) * N)
  /\ low = (f % M) + ((x * M) % W) /\ high = (s \div M) * M + (x \div N)
Whole(M, N, W, f, s, x, l, r, a, low, high) ==
  /\ (l \div N) * N + (f \div M) = a
  /\ (r % N) + ((s * N) % W) = a
  /\ ((low \div M) % N) + ((high % M) * N) = x
  /\ low % M = f % M /\ high \div M = s \div M

LEMMA PairsAreWhole ==
  ASSUME NEW M \in Nat \ {0}, NEW N \in Nat \ {0}, NEW W, W = M * N,
         NEW f \in 0 .. W - 1, NEW s \in 0 .. W - 1, NEW x \in 0 .. W - 1,
         NEW l, NEW r, NEW a, NEW low, NEW high, Paired(M, N, W, f, s, x, l, r, a, low, high)
  PROVE  Whole(M, N, W, f, s, x, l, r, a, low, high)
<1> DEFINE fh == f \div M
           fl == f % M
           sh == s \div M
           sl == s % M
           xh == x \div N
           xl == x % N
<1>1. W \in Nat \ {0} /\ W = N * M /\ f \in Nat /\ s \in Nat /\ x \in Nat
  BY ProductIs
<1>2. fh \in 0 .. N - 1 /\ sh \in 0 .. N - 1 /\ xh \in 0 .. M - 1
  BY <1>1, QuotientIsBelow
<1>3. fl \in 0 .. M - 1 /\ sl \in 0 .. M - 1 /\ xl \in 0 .. N - 1 /\ x = N * xh + xl
  BY <1>1, Division
<1>4. (s * N) % W = sl * N /\ (x * M) % W = xl * M
  <2>1. (s * N) % (M * N) = (s % M) * N
    BY <1>1, ShiftDrops
  <2>2. (x * M) % (N * M) = (x % N) * M
    BY <1>1, ShiftDrops
  <2> QED BY <1>1, <2>1, <2>2
<1>5. fh % N = fh /\ xl % N = xl
  <2> HIDE DEF fh, xl
  <2> QED BY <1>2, <1>3, Remains
<1>6. l = sl * N + xl /\ r = xh * N + fh /\ a = sl * N + fh /\ low = xl * M + fl /\ high = sh * M + xh
  <2>1. l = xl + sl * N /\ r = xh * N + fh /\ a = fh + sl * N /\ low = fl + xl * M /\ high = sh * M + xh
    BY <1>4, <1>5 DEF Paired
  <2>2. sl * N \in Nat /\ xl * M \in Nat
    BY <1>3
  <2> HIDE DEF fh, fl, sh, sl, xh, xl
  <2> QED BY <1>2, <1>3, <2>1, <2>2
<1> HIDE DEF fh, fl, sh, sl, xh, xl
<1>0. /\ l = JoinOf(sl, N, xl) /\ r = JoinOf(xh, N, fh)
      /\ low = JoinOf(xl, M, fl) /\ high = JoinOf(sh, M, xh)
  BY <1>6 DEF JoinOf
<1>7. l \div N = sl /\ r % N = fh
  BY <1>0, <1>2, <1>3, JoinIs
<1>8. low \div M = xl /\ low % M = fl /\ high % M = xh /\ high \div M = sh
  BY <1>0, <1>2, <1>3, JoinIs
<1>9. (l \div N) * N + fh = a
  BY <1>6, <1>7
<1>10. (r % N) + ((s * N) % W) = a
  <2>1. sl * N \in Nat /\ fh \in Nat
    BY <1>2, <1>3
  <2> QED BY <1>4, <1>6, <1>7, <2>1
<1>11. ((low \div M) % N) + ((high % M) * N) = x
  <2>1. xh * N \in Nat /\ xl \in Nat /\ xh * N = N * xh
    BY <1>2, <1>3
  <2>2. ((low \div M) % N) + ((high % M) * N) = xl + xh * N
    BY <1>5, <1>8
  <2> QED BY <1>3, <2>1, <2>2
<1> QED BY <1>8, <1>9, <1>10, <1>11 DEF fh, fl, sh, Whole

\* A word is k bytes and 4 - k bytes.
LEMMA BytesAre ==
  ASSUME ByteSize \in Nat \ {0}, NEW k \in 1 .. 3
  PROVE  /\ Bytes(k) \in Nat \ {0} /\ Bytes(4 - k) \in Nat \ {0}
         /\ WordSize = Bytes(k) * Bytes(4 - k) /\ WordSize \in Nat \ {0}
<1> DEFINE b2 == ByteSize * ByteSize
           b3 == ByteSize * ByteSize * ByteSize
           b4 == ByteSize * ByteSize * ByteSize * ByteSize
<1>1. /\ Bytes(0) = 1 /\ Bytes(1) = ByteSize /\ Bytes(2) = b2 /\ Bytes(3) = b3 /\ WordSize = b4
  BY DEF Bytes, WordSize
<1>2. b2 \in Nat \ {0} /\ b3 \in Nat \ {0} /\ b4 \in Nat \ {0}
  <2>1. b2 \in Nat \ {0}
    BY ProductIs
  <2>2. b3 \in Nat \ {0}
    BY <2>1, ProductIs
  <2>3. b4 \in Nat \ {0}
    BY <2>2, ProductIs
  <2> QED BY <2>1, <2>2, <2>3
<1>3. b4 = ByteSize * b3 /\ b4 = b3 * ByteSize /\ b4 = b2 * b2
  OBVIOUS
<1> HIDE DEF b2, b3, b4
<1>4. CASE k = 1
  <2>1. Bytes(k) = ByteSize /\ 4 - k = 3 /\ Bytes(4 - k) = b3
    BY <1>1, <1>4
  <2> QED BY <1>1, <1>2, <1>3, <2>1
<1>5. CASE k = 2
  <2>1. Bytes(k) = b2 /\ 4 - k = 2 /\ Bytes(4 - k) = b2
    BY <1>1, <1>5
  <2> QED BY <1>1, <1>2, <1>3, <2>1
<1>6. CASE k = 3
  <2>1. Bytes(k) = b3 /\ 4 - k = 1 /\ Bytes(4 - k) = ByteSize
    BY <1>1, <1>6
  <2> QED BY <1>1, <1>2, <1>3, <2>1
<1> QED BY <1>4, <1>5, <1>6

\* LWR and LWL in either order load the four bytes that start at any address, and SWR and
\* SWL store them and leave the bytes around them alone: for all words, in memory and in the
\* register, and for bytes of any size (instructions.rs: lwl, lwr, swl, swr).
THEOREM AllUnalignedWordsAreWhole ==
  ASSUME ByteSize \in Nat \ {0},
         NEW first \in Word, NEW second \in Word, NEW existing \in Word, NEW k \in 0 .. 3
  PROVE  UnalignedWords(first, second, existing, k)
<1> DEFINE end == IF k = 0 THEN first ELSE second
           Right1(r) == LoadedValue("LWR", first, k, r)
           Left1(r) == LoadedValue("LWL", end, (k + 3) % 4, r)
           low == StoredWord("SWR", first, k, existing)
           high == StoredWord("SWL", second, k - 1, existing)
<1>0. UnalignedWords(first, second, existing, k) <=>
        /\ Right1(Left1(existing)) = Across(first, second, k)
        /\ Left1(Right1(existing)) = Across(first, second, k)
        /\ k # 0 => /\ Across(low, high, k) = existing
                    /\ low % Bytes(k) = first % Bytes(k)
                    /\ high \div Bytes(k) = second \div Bytes(k)
  BY DEF UnalignedWords
<1>1. \A r : Right1(r) = ShiftedRight(r, first, k) /\ Left1(r) = ShiftedLeft(r, end, 3 - ((k + 3) % 4))
  BY DEF LoadedValue
<1>2. low = ShiftedLeft(first, existing, k) /\ high = ShiftedRight(second, existing, 3 - (k - 1))
  BY DEF StoredWord
<1> HIDE DEF Right1, Left1, low, high
<1>3. CASE k = 0
  <2>1. WordSize \in Nat \ {0} /\ Bytes(0) = 1 /\ Bytes(4) = WordSize
    <3>1. 1 \in 1 .. 3
      OBVIOUS
    <3> QED BY <3>1, BytesAre DEF Bytes, WordSize
  <2>2. /\ first \in 0 .. WordSize - 1 /\ second \in 0 .. WordSize - 1
        /\ existing \in 0 .. WordSize - 1
    BY DEF Word
  <2>3. first % WordSize = first /\ first \div 1 = first /\ second % 1 = 0 /\ existing % 1 = 0
    BY <2>1, <2>2
  <2>4. \A r \in 0 .. WordSize - 1 : r \div WordSize = 0 /\ r % 1 = 0
    BY <2>1
  <2>5. 3 - ((k + 3) % 4) = 0 /\ 4 - k = 4 /\ end = first
    BY <1>3
  <2>6. \A r \in 0 .. WordSize - 1 : Right1(r) = first /\ Left1(r) = first
    <3> TAKE r \in 0 .. WordSize - 1
    <3>1. Right1(r) = (r \div Bytes(4)) * Bytes(4) + (first \div Bytes(0))
      BY <1>1, <1>3, <2>5 DEF ShiftedRight
    <3>2. Left1(r) = (r % Bytes(0)) + Wrap(first * Bytes(0))
      BY <1>1, <2>5 DEF ShiftedLeft
    <3> QED BY <2>1, <2>2, <2>3, <2>4, <3>1, <3>2 DEF Wrap
  <2>7. Across(first, second, k) = first
    BY <1>3, <2>1, <2>2, <2>3, <2>5 DEF Across, Part
  <2> QED BY <1>0, <1>3, <2>2, <2>6, <2>7
<1>4. CASE k # 0
  <2> DEFINE M == Bytes(k)
             N == Bytes(4 - k)
  <2>1. /\ M \in Nat \ {0} /\ N \in Nat \ {0} /\ WordSize = M * N
        /\ first \in 0 .. WordSize - 1 /\ second \in 0 .. WordSize - 1
        /\ existing \in 0 .. WordSize - 1
    BY <1>4, BytesAre DEF Word
  <2>2. 3 - ((k + 3) % 4) = 4 - k /\ 3 - (k - 1) = 4 - k /\ end = second /\ 4 - (4 - k) = k
    BY <1>4
  <2> DEFINE l == (existing % N) + ((second * N) % WordSize)
             r == (existing \div N) * N + (first \div M)
             a == ((first \div M) % N) + ((second % M) * N)
  <2>3. Left1(existing) = l /\ Right1(existing) = r
    BY <1>1, <2>2 DEF ShiftedLeft, ShiftedRight, Wrap
  <2>4. /\ Right1(l) = (l \div N) * N + (first \div M)
        /\ Left1(r) = (r % N) + ((second * N) % WordSize)
    BY <1>1, <2>2 DEF ShiftedLeft, ShiftedRight, Wrap
  <2>5. Across(first, second, k) = a
    BY DEF Across, Part
  <2>6. /\ low = (first % M) + ((existing * M) % WordSize)
        /\ high = (second \div M) * M + (existing \div N)
    BY <1>2, <2>2 DEF ShiftedLeft, ShiftedRight, Wrap
  <2>7. Across(low, high, k) = ((low \div M) % N) + ((high % M) * N)
    BY DEF Across, Part
  <2> HIDE DEF M, N, l, r, a
  <2>8. Paired(M, N, WordSize, first, second, existing, l, r, a, low, high)
    BY <2>6 DEF Paired, l, r, a
  <2>9. Whole(M, N, WordSize, first, second, existing, l, r, a, low, high)
    BY <2>1, <2>8, PairsAreWhole
  <2>10. /\ (l \div N) * N + (first \div M) = a
         /\ (r % N) + ((second * N) % WordSize) = a
         /\ ((low \div M) % N) + ((high % M) * N) = existing
         /\ low % M = first % M /\ high \div M = second \div M
    BY <2>9 DEF Whole
  <2> QED BY <1>0, <2>3, <2>4, <2>5, <2>7, <2>10 DEF M
<1> QED BY <1>3, <1>4

\* In every state the instructions for unaligned words load and store whole words: the words and
\* the address that a run starts with never change (instructions.rs: lwl, lwr, swl, swr).
THEOREM UnalignedWordsStayWhole == MCSpec => []UnalignedWordsAreWhole
<1> DEFINE Data == part = "unaligned" => words \in [1 .. 3 -> UnalignedData] \X (0 .. 3)
<1>1. MCInit => Data
  BY DEF MCInit
<1>2. Data /\ [MCNext]_mc_vars => Data'
  BY DEF MCNext, mc_vars
<1>3. Data => UnalignedWordsAreWhole
  <2> SUFFICES ASSUME Data, part = "unaligned"
               PROVE  UnalignedWords(words[1][1], words[1][2], words[1][3], words[2])
    BY DEF UnalignedWordsAreWhole
  <2>1. words[1] \in [1 .. 3 -> UnalignedData] /\ words[2] \in 0 .. 3
    OBVIOUS
  <2>2. words[1][1] \in Word /\ words[1][2] \in Word /\ words[1][3] \in Word
    BY <2>1, UnalignedDataAssumption
  <2> HIDE DEF Data
  <2> QED BY <2>1, <2>2, UnalignedDataAssumption, AllUnalignedWordsAreWhole
<1> QED BY <1>1, <1>2, <1>3, PTL DEF MCSpec
-----------------------------------------------------------------------------
\* The addresses at which the kernel is entered, and where it returns to: behind a command of
\* the geometry coprocessor, which has run.
Vectors == {ExceptionVector, BootExceptionVector}
Entered == registers.pc \in Vectors
ReturnsTo ==
  IF cp0.epc % 4 = 0 /\ Decode[memory[WordOf(cp0.epc)]].op = "COP2" THEN Wrap(cp0.epc + 4)
  ELSE cp0.epc

\* Where the program is: at the next instruction or, if its last one entered the kernel, where
\* the kernel returns to.
ProgramPc == IF Entered THEN ReturnsTo ELSE registers.pc
ProgramNextPc == IF Entered THEN Wrap(ReturnsTo + 4) ELSE registers.next_pc
ProgramSlot == ~Entered /\ registers.in_delay_slot
ProgramMode ==
  IF Entered THEN <<cp0.status.kernel_mode_previous, cp0.status.interrupts_enabled_previous>>
  ELSE <<cp0.status.kernel_mode, cp0.status.interrupts_enabled>>

Alone == INSTANCE Program WITH
  MemoryAt <- WordOf, Region <- Base,
  pc <- ProgramPc, next_pc <- ProgramNextPc, slot <- ProgramSlot,
  gpr <- registers.gpr, loading <- registers.delayed_load, hi <- registers.hi, lo <- registers.lo,
  mode <- ProgramMode

\* An instruction of a program that is not the kernel: in a word that is not stale, not one of
\* the kernel's and with no address of a device.
CurrentInstruction == Decode[memory[WordOf(registers.pc)]]
Ordinary ==
  /\ registers.pc \in Word
  /\ registers.pc \notin Vectors /\ registers.next_pc \notin Vectors
  /\ Uncached(registers.pc) \/ WordOf(registers.pc) \notin stale
  /\ ~cp0.status.isolate_cache
  /\ CurrentInstruction.op \notin {"MFC0", "MTC0", "RFE"}
  /\ CurrentInstruction.op = "COP2" => ~registers.in_delay_slot
  /\ registers.in_delay_slot => Decode[memory[WordOf(Wrap(registers.pc - 4))]].op # "COP2"
  /\ CurrentInstruction.op \in Stores \union {"SWC2"} =>
       LET address == Address(CurrentInstruction, registers.gpr)
       IN /\ address \in Word
          /\ WordOf(address) # IrqAck
          /\ CacheControlAddress \notin {address, address - (address % 4)}
-----------------------------------------------------------------------------
\* Program has the same words and operations as Cpu.
LEMMA SameBytes ==
  /\ \A n : Alone!Bytes(n) = Bytes(n) /\ Alone!Wrap(n) = Wrap(n)
  /\ \A a, b, c : Alone!Part(a, b, c) = Part(a, b, c)
  BY DEF Alone!Bytes, Bytes, Alone!Wrap, Wrap, Alone!WordSize, WordSize, Alone!Part, Part

LEMMA SameSigns ==
  \A n : Alone!IsNegative(n) = IsNegative(n) /\ Alone!Signed(n) = Signed(n)
  BY SameBytes DEF Alone!IsNegative, IsNegative, Alone!Signed, Signed, Alone!WordSize, WordSize

LEMMA SameLogical ==
  ASSUME NEW op, NEW l, NEW r PROVE Alone!Logical(op, l, r) = Logical(op, l, r)
  BY DEF Alone!Logical, Logical, Alone!ForEachBit, ForEachBit, Alone!Bit, Bit,
         Alone!MapThenSumSet, MapThenSumSet, Alone!MapThenFoldSet, MapThenFoldSet,
         Alone!BitPositions, BitPositions, Alone!WordSize, WordSize, Alone!Bytes, Bytes

LEMMA SameShiftBy == ASSUME NEW n PROVE Alone!ShiftBy(n) = ShiftBy(n)
  BY Zenon DEF Alone!ShiftBy, ShiftBy, Alone!Cardinality, Cardinality,
               Alone!BitPositions, BitPositions, Alone!WordSize, WordSize, Alone!Bytes, Bytes

LEMMA SameShift ==
  ASSUME NEW op, NEW l, NEW r PROVE Alone!Shift(op, l, r) = Shift(op, l, r)
  BY SameBytes, SameSigns, SameShiftBy DEF Alone!Shift, Shift

LEMMA SameCompare ==
  ASSUME NEW op, NEW l, NEW r PROVE Alone!Compare(op, l, r) = Compare(op, l, r)
  BY SameSigns DEF Alone!Compare, Compare

LEMMA SameOps ==
  /\ Alone!AluOps = AluOps /\ Alone!TrappingOps = TrappingOps /\ Alone!MulDivOps = MulDivOps
  /\ Alone!Branches = Branches /\ Alone!Loads = Loads /\ Alone!Stores = Stores
  /\ Alone!LogicalOps = LogicalOps /\ Alone!ShiftOps = ShiftOps /\ Alone!CompareOps = CompareOps
  BY DEF Alone!AluOps, AluOps, Alone!TrappingOps, TrappingOps, Alone!MulDivOps, MulDivOps,
         Alone!Branches, Branches, Alone!Loads, Loads, Alone!Stores, Stores,
         Alone!LogicalOps, LogicalOps, Alone!ShiftOps, ShiftOps, Alone!CompareOps, CompareOps

LEMMA SameAlu ==
  ASSUME NEW op, NEW l, NEW r PROVE Alone!Alu(op, l, r) = Alu(op, l, r)
  BY SameOps, SameBytes, SameLogical, SameShift, SameCompare DEF Alone!Alu, Alu

LEMMA SameExact ==
  ASSUME NEW op, NEW l, NEW r
  PROVE  Alone!Exact(op, l, r) = Exact(op, l, r) /\ (Alone!Overflows(op, l, r) <=> Overflows(op, l, r))
  BY SameBytes, SameSigns DEF Alone!Exact, Exact, Alone!Overflows, Overflows

LEMMA SameMulDiv ==
  ASSUME NEW op, NEW l, NEW r PROVE Alone!MulDiv(op, l, r) = MulDiv(op, l, r)
  BY Zenon DEF Alone!MulDiv, MulDiv, Alone!HiLo, HiLo, Alone!Truncated, Truncated, Alone!Abs, Abs,
     Alone!Signed, Signed, Alone!IsNegative, IsNegative, Alone!Wrap, Wrap,
     Alone!WordSize, WordSize, Alone!Bytes, Bytes

LEMMA SameTaken ==
  ASSUME NEW op, NEW l, NEW r PROVE Alone!Taken(op, l, r) = Taken(op, l, r)
  BY Zenon DEF Alone!Taken, Taken, Alone!IsNegative, IsNegative, Alone!WordSize, WordSize, Alone!Bytes, Bytes

LEMMA SameLoaded ==
  ASSUME NEW op, NEW word, NEW k, NEW existing
  PROVE  Alone!LoadedValue(op, word, k, existing) = LoadedValue(op, word, k, existing)
  BY Zenon DEF Alone!LoadedValue, LoadedValue, Alone!SignExtend, SignExtend, Alone!Part, Part, Alone!Wrap, Wrap,
     Alone!ShiftedLeft, ShiftedLeft, Alone!ShiftedRight, ShiftedRight,
     Alone!WordSize, WordSize, Alone!Bytes, Bytes

LEMMA SameStored ==
  ASSUME NEW op, NEW word, NEW k, NEW value
  PROVE  Alone!StoredWord(op, word, k, value) = StoredWord(op, word, k, value)
  BY Zenon DEF Alone!StoredWord, StoredWord, Alone!Replace, Replace, Alone!Part, Part, Alone!Wrap, Wrap,
     Alone!ShiftedLeft, ShiftedLeft, Alone!ShiftedRight, ShiftedRight,
     Alone!WordSize, WordSize, Alone!Bytes, Bytes

LEMMA SameAccess ==
  ASSUME NEW i, NEW g
  PROVE  /\ Alone!Left(i, g) = Left(i, g) /\ Alone!Right(i, g) = Right(i, g)
         /\ Alone!Address(i, g) = Address(i, g)
         /\ \A op, a : Alone!Aligned(op, a) <=> Aligned(op, a)
  BY SameBytes DEF Alone!Left, Left, Alone!Right, Right, Alone!Immediate, Immediate,
     Alone!Address, Address, Alone!Aligned, Aligned
-----------------------------------------------------------------------------
\* The registers between instructions and within one, and the shape of coprocessor 0.
RegisterNames ==
  {"gpr", "pc", "next_pc", "in_delay_slot", "hi", "lo", "delayed_load", "delayed_load_next"}
ControlNames == {"tag_test_mode", "status", "cause", "epc", "bad_v_addr"}
StatusNames == {StatusFields[b] : b \in DOMAIN StatusFields}
ModeNames ==
  {"interrupts_enabled", "kernel_mode", "interrupts_enabled_previous", "kernel_mode_previous",
   "interrupts_enabled_old", "kernel_mode_old"}

IsPair(p) == p = <<p[1], p[2]>>
Within(r) ==
  /\ DOMAIN r = RegisterNames
  /\ IsPair(r.delayed_load) /\ IsPair(r.delayed_load_next)
  /\ r.in_delay_slot \in BOOLEAN
  /\ ~r.in_delay_slot => r.next_pc = Wrap(r.pc + 4)
Between(r) == Within(r) /\ r.delayed_load_next = NoLoad
ControlOK(c) == DOMAIN c = ControlNames /\ DOMAIN c.status = StatusNames
Formed(s) == DOMAIN s = Fields /\ Within(s.registers) /\ ControlOK(s.cp0)

LEMMA ModesAreNamed ==
  ModeNames \union {"isolate_cache", "boot_exception_vectors"} \subseteq StatusNames
<1> DEFINE F == StatusFields
<1>1. /\ 1 \in DOMAIN F /\ 2 \in DOMAIN F /\ 3 \in DOMAIN F /\ 4 \in DOMAIN F /\ 5 \in DOMAIN F
      /\ 6 \in DOMAIN F /\ 9 \in DOMAIN F /\ 10 \in DOMAIN F
      /\ F[1] = "interrupts_enabled" /\ F[2] = "kernel_mode"
      /\ F[3] = "interrupts_enabled_previous" /\ F[4] = "kernel_mode_previous"
      /\ F[5] = "interrupts_enabled_old" /\ F[6] = "kernel_mode_old"
      /\ F[9] = "isolate_cache" /\ F[10] = "boot_exception_vectors"
  BY DEF StatusFields
<1> HIDE DEF F
<1>2. StatusNames = {F[b] : b \in DOMAIN F}
  BY DEF StatusNames, F
<1> QED BY <1>1, <1>2 DEF ModeNames

LEMMA PairsArePairs ==
  /\ IsPair(NoLoad)
  /\ \A a, b : IsPair(<<a, b>>)
  /\ \A p, r : IsPair(p) => IsPair(Cancel(p, r))
  BY DEF IsPair, NoLoad, Cancel

LEMMA SetPcWithin ==
  ASSUME NEW r, Within(r), NEW pc
  PROVE  /\ Within(SetPc(r, pc))
         /\ SetPc(r, pc).pc = pc /\ SetPc(r, pc).next_pc = Wrap(pc + 4)
         /\ SetPc(r, pc).in_delay_slot = FALSE
         /\ SetPc(r, pc).gpr = r.gpr /\ SetPc(r, pc).hi = r.hi /\ SetPc(r, pc).lo = r.lo
         /\ SetPc(r, pc).delayed_load = r.delayed_load
         /\ SetPc(r, pc).delayed_load_next = r.delayed_load_next
  BY DEF SetPc, Within, RegisterNames

LEMMA JumpWithin ==
  ASSUME NEW r, Within(r), NEW target
  PROVE  /\ Within(Jump(r, target))
         /\ Jump(r, target).pc = r.pc /\ Jump(r, target).next_pc = target
         /\ Jump(r, target).in_delay_slot = TRUE
         /\ Jump(r, target).gpr = r.gpr /\ Jump(r, target).hi = r.hi /\ Jump(r, target).lo = r.lo
         /\ Jump(r, target).delayed_load = r.delayed_load
         /\ Jump(r, target).delayed_load_next = r.delayed_load_next
  BY DEF Jump, Within, RegisterNames

LEMMA WriteWithin ==
  ASSUME NEW r, Within(r), NEW n, NEW value
  PROVE  /\ Within(WriteGpr(r, n, value))
         /\ WriteGpr(r, n, value).pc = r.pc /\ WriteGpr(r, n, value).next_pc = r.next_pc
         /\ WriteGpr(r, n, value).in_delay_slot = r.in_delay_slot
         /\ WriteGpr(r, n, value).hi = r.hi /\ WriteGpr(r, n, value).lo = r.lo
         /\ WriteGpr(r, n, value).delayed_load_next = r.delayed_load_next
         /\ n = 0 => WriteGpr(r, n, value) = r
         /\ n # 0 => /\ WriteGpr(r, n, value).gpr = [r.gpr EXCEPT ![n] = value]
                     /\ WriteGpr(r, n, value).delayed_load = Cancel(r.delayed_load, n)
<1>1. CASE n = 0
  BY <1>1 DEF WriteGpr
<1>2. CASE n # 0
  <2> DEFINE w == [r EXCEPT !.gpr[n] = value, !.delayed_load = Cancel(@, n)]
  <2>1. WriteGpr(r, n, value) = w
    BY <1>2 DEF WriteGpr
  <2>2. /\ DOMAIN w = RegisterNames
        /\ w.gpr = [r.gpr EXCEPT ![n] = value] /\ w.delayed_load = Cancel(r.delayed_load, n)
        /\ w.pc = r.pc /\ w.next_pc = r.next_pc /\ w.in_delay_slot = r.in_delay_slot
        /\ w.hi = r.hi /\ w.lo = r.lo /\ w.delayed_load_next = r.delayed_load_next
    BY DEF Within, RegisterNames
  <2> HIDE DEF w
  <2>3. Within(w)
    BY <2>2, PairsArePairs DEF Within
  <2> QED BY <1>2, <2>1, <2>2, <2>3
<1> QED BY <1>1, <1>2

LEMMA DelayedWithin ==
  ASSUME NEW r, Within(r), NEW n, NEW value
  PROVE  /\ Within(WriteGprDelayed(r, n, value))
         /\ WriteGprDelayed(r, n, value).pc = r.pc
         /\ WriteGprDelayed(r, n, value).next_pc = r.next_pc
         /\ WriteGprDelayed(r, n, value).in_delay_slot = r.in_delay_slot
         /\ WriteGprDelayed(r, n, value).hi = r.hi /\ WriteGprDelayed(r, n, value).lo = r.lo
         /\ WriteGprDelayed(r, n, value).gpr = r.gpr
         /\ n = 0 => WriteGprDelayed(r, n, value) = r
         /\ n # 0 => /\ WriteGprDelayed(r, n, value).delayed_load = Cancel(r.delayed_load, n)
                     /\ WriteGprDelayed(r, n, value).delayed_load_next = <<n, value>>
<1>1. CASE n = 0
  BY <1>1 DEF WriteGprDelayed
<1>2. CASE n # 0
  <2> DEFINE w == [r EXCEPT !.delayed_load = Cancel(@, n), !.delayed_load_next = <<n, value>>]
  <2>1. WriteGprDelayed(r, n, value) = w
    BY <1>2 DEF WriteGprDelayed
  <2>2. /\ DOMAIN w = RegisterNames
        /\ w.gpr = r.gpr /\ w.delayed_load = Cancel(r.delayed_load, n)
        /\ w.pc = r.pc /\ w.next_pc = r.next_pc /\ w.in_delay_slot = r.in_delay_slot
        /\ w.hi = r.hi /\ w.lo = r.lo /\ w.delayed_load_next = <<n, value>>
    BY DEF Within, RegisterNames
  <2> HIDE DEF w
  <2>3. Within(w)
    BY <2>2, PairsArePairs DEF Within
  <2> QED BY <1>2, <2>1, <2>2, <2>3
<1> QED BY <1>1, <1>2

LEMMA ProcessedBetween ==
  ASSUME NEW r, Within(r)
  PROVE  /\ Between(ProcessDelayedLoads(r))
         /\ ProcessDelayedLoads(r).gpr = Landed(r.gpr, r.delayed_load)
         /\ ProcessDelayedLoads(r).delayed_load = r.delayed_load_next
         /\ ProcessDelayedLoads(r).pc = r.pc /\ ProcessDelayedLoads(r).next_pc = r.next_pc
         /\ ProcessDelayedLoads(r).in_delay_slot = r.in_delay_slot
         /\ ProcessDelayedLoads(r).hi = r.hi /\ ProcessDelayedLoads(r).lo = r.lo
<1> DEFINE p == ProcessDelayedLoads(r)
<1>1. /\ DOMAIN p = RegisterNames
      /\ p.gpr = Landed(r.gpr, r.delayed_load) /\ p.delayed_load = r.delayed_load_next
      /\ p.delayed_load_next = NoLoad
      /\ p.pc = r.pc /\ p.next_pc = r.next_pc /\ p.in_delay_slot = r.in_delay_slot
      /\ p.hi = r.hi /\ p.lo = r.lo
  BY DEF ProcessDelayedLoads, Within, RegisterNames
<1> HIDE DEF p
<1>2. Between(p)
  BY <1>1, PairsArePairs DEF Between, Within
<1> QED BY <1>1, <1>2 DEF p
-----------------------------------------------------------------------------
\* What an operation changes of the machine, and that it keeps its shape.
Leaves(s, t, fields) == DOMAIN t = Fields /\ \A f \in Fields \ fields : t[f] = s[f]

LEMMA LeavesFormed ==
  ASSUME NEW s, Formed(s), NEW t, NEW fields, Leaves(s, t, fields),
         "registers" \notin fields, "cp0" \notin fields
  PROVE  Formed(t)
  BY DEF Leaves, Formed, Fields

LEMMA LeavesMore ==
  ASSUME NEW s, NEW t, NEW fields, NEW more, Leaves(s, t, fields), fields \subseteq more
  PROVE  Leaves(s, t, more)
  BY DEF Leaves

LEMMA SetFormed ==
  ASSUME NEW s, Formed(s), NEW regs, Within(regs)
  PROVE  /\ Formed(SetRegisters(s, regs))
         /\ Leaves(s, SetRegisters(s, regs), {"registers"})
         /\ SetRegisters(s, regs).registers = regs
  BY DEF SetRegisters, Leaves, Formed, Fields

LEMMA ControlFormed ==
  ASSUME NEW s, Formed(s), NEW c, ControlOK(c)
  PROVE  Formed([s EXCEPT !.cp0 = c])
  BY DEF Formed, Fields

WithGte(s, v) == [s EXCEPT !.gte = v]
LEMMA GteFormed ==
  ASSUME NEW s, Formed(s), NEW v
  PROVE  /\ Formed(WithGte(s, v)) /\ Leaves(s, WithGte(s, v), {"gte"})
         /\ WithGte(s, v).gte = v
  BY DEF Formed, Fields, Leaves, WithGte

LEMMA RaiseFormed ==
  ASSUME NEW s, Formed(s), NEW code, NEW bad
  PROVE  /\ Formed(Raise(s, code, bad)) /\ Leaves(s, Raise(s, code, bad), {"exception"})
         /\ Raise(s, code, bad).exception = [code |-> code, bad |-> bad]
  BY DEF Raise, Formed, Fields, Leaves

WithHiLo(s, hi, lo) == [s EXCEPT !.registers.hi = hi, !.registers.lo = lo]
WithHi(s, hi) == [s EXCEPT !.registers.hi = hi]
WithLo(s, lo) == [s EXCEPT !.registers.lo = lo]
SameButHiLo(r, x) ==
  /\ x.gpr = r.gpr /\ x.pc = r.pc /\ x.next_pc = r.next_pc /\ x.in_delay_slot = r.in_delay_slot
  /\ x.delayed_load = r.delayed_load /\ x.delayed_load_next = r.delayed_load_next

LEMMA HiLoFormed ==
  ASSUME NEW s, Formed(s), NEW hi, NEW lo
  PROVE  LET t == WithHiLo(s, hi, lo)
         IN /\ Formed(t) /\ Leaves(s, t, {"registers"}) /\ SameButHiLo(s.registers, t.registers)
            /\ t.registers.hi = hi /\ t.registers.lo = lo
<1> DEFINE t == WithHiLo(s, hi, lo)
<1>1. t.registers = [s.registers EXCEPT !.hi = hi, !.lo = lo] /\ Leaves(s, t, {"registers"})
  BY DEF WithHiLo, Formed, Fields, Leaves
<1> HIDE DEF t
<1>2. /\ DOMAIN t.registers = RegisterNames /\ SameButHiLo(s.registers, t.registers)
      /\ t.registers.hi = hi /\ t.registers.lo = lo
  BY <1>1 DEF Formed, Within, RegisterNames, SameButHiLo
<1>3. Formed(t)
  BY <1>1, <1>2 DEF Formed, Within, SameButHiLo, Leaves, Fields
<1> QED BY <1>1, <1>2, <1>3 DEF t

LEMMA HiFormed ==
  ASSUME NEW s, Formed(s), NEW hi
  PROVE  LET t == WithHi(s, hi)
         IN /\ Formed(t) /\ Leaves(s, t, {"registers"}) /\ SameButHiLo(s.registers, t.registers)
            /\ t.registers.hi = hi /\ t.registers.lo = s.registers.lo
<1> DEFINE t == WithHi(s, hi)
<1>1. t.registers = [s.registers EXCEPT !.hi = hi] /\ Leaves(s, t, {"registers"})
  BY DEF WithHi, Formed, Fields, Leaves
<1> HIDE DEF t
<1>2. /\ DOMAIN t.registers = RegisterNames /\ SameButHiLo(s.registers, t.registers)
      /\ t.registers.hi = hi /\ t.registers.lo = s.registers.lo
  BY <1>1 DEF Formed, Within, RegisterNames, SameButHiLo
<1>3. Formed(t)
  BY <1>1, <1>2 DEF Formed, Within, SameButHiLo, Leaves, Fields
<1> QED BY <1>1, <1>2, <1>3 DEF t

LEMMA LoFormed ==
  ASSUME NEW s, Formed(s), NEW lo
  PROVE  LET t == WithLo(s, lo)
         IN /\ Formed(t) /\ Leaves(s, t, {"registers"}) /\ SameButHiLo(s.registers, t.registers)
            /\ t.registers.lo = lo /\ t.registers.hi = s.registers.hi
<1> DEFINE t == WithLo(s, lo)
<1>1. t.registers = [s.registers EXCEPT !.lo = lo] /\ Leaves(s, t, {"registers"})
  BY DEF WithLo, Formed, Fields, Leaves
<1> HIDE DEF t
<1>2. /\ DOMAIN t.registers = RegisterNames /\ SameButHiLo(s.registers, t.registers)
      /\ t.registers.lo = lo /\ t.registers.hi = s.registers.hi
  BY <1>1 DEF Formed, Within, RegisterNames, SameButHiLo
<1>3. Formed(t)
  BY <1>1, <1>2 DEF Formed, Within, SameButHiLo, Leaves, Fields
<1> QED BY <1>1, <1>2, <1>3 DEF t

LEMMA PushedModes ==
  ASSUME NEW status, DOMAIN status = StatusNames
  PROVE  /\ DOMAIN PushExceptionStack(status) = StatusNames
         /\ PushExceptionStack(status).kernel_mode_previous = status.kernel_mode
         /\ PushExceptionStack(status).interrupts_enabled_previous = status.interrupts_enabled
  BY ModesAreNamed DEF PushExceptionStack, ModeNames

LEMMA RestoredModes ==
  ASSUME NEW status, DOMAIN status = StatusNames
  PROVE  DOMAIN RestoreFromException(status) = StatusNames
  BY DEF RestoreFromException

\* The control registers when the kernel is entered.
EntryControl(s, exception, pc, slot) ==
  [s.cp0 EXCEPT
    !.status = PushExceptionStack(@),
    !.cause.branch_delay = slot,
    !.cause.exception_code = exception.code,
    !.epc = IF slot THEN Wrap(pc - 4) ELSE pc,
    !.bad_v_addr = IF exception.code \in {"AddressErrorLoad", "AddressErrorStore"}
                   THEN exception.bad ELSE @]

EntryVector(s, exception, pc, slot) ==
  IF EntryControl(s, exception, pc, slot).status.boot_exception_vectors
  THEN BootExceptionVector ELSE ExceptionVector

LEMMA EntryControlIs ==
  ASSUME NEW s, Formed(s), NEW exception, NEW pc, NEW slot
  PROVE  /\ ControlOK(EntryControl(s, exception, pc, slot))
         /\ EntryControl(s, exception, pc, slot).status = PushExceptionStack(s.cp0.status)
         /\ EntryControl(s, exception, pc, slot).epc = IF slot THEN Wrap(pc - 4) ELSE pc
<1> DEFINE c == EntryControl(s, exception, pc, slot)
<1>1. /\ DOMAIN c = ControlNames /\ c.status = PushExceptionStack(s.cp0.status)
      /\ c.epc = IF slot THEN Wrap(pc - 4) ELSE pc
  BY DEF EntryControl, Formed, ControlOK, ControlNames
<1> HIDE DEF c
<1>2. DOMAIN c.status = StatusNames
  BY <1>1, PushedModes DEF Formed, ControlOK
<1> QED BY <1>1, <1>2 DEF ControlOK, c

\* The machine when the kernel is entered.
LEMMA EntryIs ==
  ASSUME NEW s, Formed(s), NEW exception, NEW pc, NEW slot
  PROVE  LET t == HandleException(s, exception, pc, slot)
         IN /\ Formed(t) /\ Leaves(s, t, {"registers", "cp0"})
            /\ t.cp0 = EntryControl(s, exception, pc, slot)
            /\ t.registers = SetPc(s.registers, EntryVector(s, exception, pc, slot))
            /\ EntryVector(s, exception, pc, slot) \in Vectors
<1> DEFINE c == EntryControl(s, exception, pc, slot)
           v == EntryVector(s, exception, pc, slot)
           t == HandleException(s, exception, pc, slot)
<1>1. t = [s EXCEPT !.cp0 = c, !.registers = SetPc(@, v)]
  BY Zenon DEF HandleException, EntryControl, EntryVector
<1>2. v \in Vectors
  BY DEF Vectors, EntryVector
<1>3. ControlOK(c)
  BY EntryControlIs
<1> HIDE DEF c, v
<1>4. /\ DOMAIN t = Fields /\ t.cp0 = c /\ t.registers = SetPc(s.registers, v)
      /\ \A f \in Fields \ {"registers", "cp0"} : t[f] = s[f]
  BY <1>1 DEF Formed, Fields
<1>5. Within(SetPc(s.registers, v))
  BY SetPcWithin DEF Formed
<1> HIDE DEF t
<1>6. Formed(t) /\ Leaves(s, t, {"registers", "cp0"})
  BY <1>3, <1>4, <1>5 DEF Formed, Leaves
<1> QED BY <1>2, <1>4, <1>6 DEF c, t, v
-----------------------------------------------------------------------------
\* What each kind of instruction makes of the machine.
LEMMA ArithmeticIs ==
  ASSUME NEW s, NEW i, i.op \in Arithmetic
  PROVE  LET t == ExecuteArithmetic(s, i)
             l == L(s, i)
             r == R(s, i)
         IN \/ i.op \in AluOps /\ t = Write(s, i, Alu(i.op, l, r))
            \/ i.op \in TrappingOps /\ Overflows(i.op, l, r) /\ t = Raise(s, "ArithmeticOverflow", 0)
            \/ /\ i.op \in TrappingOps /\ ~Overflows(i.op, l, r)
               /\ t = Write(s, i, Wrap(Exact(i.op, l, r)))
            \/ /\ i.op \in MulDivOps
               /\ t = WithHiLo(s, MulDiv(i.op, l, r).hi, MulDiv(i.op, l, r).lo)
            \/ i.op = "MFHI" /\ t = Write(s, i, s.registers.hi)
            \/ i.op = "MFLO" /\ t = Write(s, i, s.registers.lo)
            \/ i.op = "MTHI" /\ t = WithHi(s, l)
            \/ i.op = "MTLO" /\ t = WithLo(s, l)
<1> USE DEF AluOps, LogicalOps, ShiftOps, CompareOps, TrappingOps, MulDivOps
<1>1. CASE i.op \in AluOps
  BY <1>1 DEF ExecuteArithmetic
<1>2. CASE i.op \in TrappingOps
  BY <1>2 DEF ExecuteArithmetic
<1>3. CASE i.op \in MulDivOps
  BY <1>3 DEF ExecuteArithmetic, WithHiLo
<1>4. CASE i.op \in {"MFHI", "MFLO"}
  BY <1>4 DEF ExecuteArithmetic
<1>5. CASE i.op \in {"MTHI", "MTLO"}
  BY <1>5 DEF ExecuteArithmetic, WithHi, WithLo
<1> QED BY <1>1, <1>2, <1>3, <1>4, <1>5 DEF Arithmetic

LEMMA WriteFormed ==
  ASSUME NEW s, Formed(s), NEW i, NEW v
  PROVE  /\ Formed(Write(s, i, v)) /\ Leaves(s, Write(s, i, v), {"registers"})
         /\ Write(s, i, v).registers = WriteGpr(s.registers, i.rd, v)
         /\ Formed(WriteDelayed(s, i, v)) /\ Leaves(s, WriteDelayed(s, i, v), {"registers"})
         /\ WriteDelayed(s, i, v).registers = WriteGprDelayed(s.registers, i.rd, v)
<1> DEFINE n == i.rd
           a == WriteGpr(s.registers, n, v)
           b == WriteGprDelayed(s.registers, n, v)
<1>1. Within(a) /\ Within(b)
  <2> HIDE DEF n
  <2>1. Within(s.registers)
    BY DEF Formed
  <2> QED BY <2>1, WriteWithin, DelayedWithin
<1>2. Write(s, i, v) = SetRegisters(s, a) /\ WriteDelayed(s, i, v) = SetRegisters(s, b)
  BY DEF Write, WriteDelayed
<1> HIDE DEF a, b
<1>3. /\ Formed(SetRegisters(s, a)) /\ Leaves(s, SetRegisters(s, a), {"registers"})
      /\ SetRegisters(s, a).registers = a
      /\ Formed(SetRegisters(s, b)) /\ Leaves(s, SetRegisters(s, b), {"registers"})
      /\ SetRegisters(s, b).registers = b
  BY <1>1, SetFormed
<1> QED BY <1>2, <1>3 DEF a, b, n

LEMMA ArithmeticFormed ==
  ASSUME NEW s, Formed(s), NEW i, i.op \in Arithmetic
  PROVE  Formed(ExecuteArithmetic(s, i))
<1> DEFINE t == ExecuteArithmetic(s, i)
<1>1. \/ \E v : t = Write(s, i, v)
      \/ t = Raise(s, "ArithmeticOverflow", 0)
      \/ \E hi, lo : t = WithHiLo(s, hi, lo)
      \/ \E hi : t = WithHi(s, hi)
      \/ \E lo : t = WithLo(s, lo)
  BY ArithmeticIs, Zenon
<1> SUFFICES Formed(t)
  OBVIOUS
<1> HIDE DEF t
<1>2. CASE \E v : t = Write(s, i, v)
  BY <1>2, WriteFormed
<1>3. CASE t = Raise(s, "ArithmeticOverflow", 0)
  BY <1>3, RaiseFormed
<1>4. CASE \E hi, lo : t = WithHiLo(s, hi, lo)
  BY <1>4, HiLoFormed
<1>5. CASE (\E hi : t = WithHi(s, hi)) \/ \E lo : t = WithLo(s, lo)
  BY <1>5, HiFormed, LoFormed
<1> QED BY <1>1, <1>2, <1>3, <1>4, <1>5

LEMMA BranchIs ==
  ASSUME NEW s, Formed(s), NEW i
  PROVE  LET t == ExecuteBranch(s, i)
             branched == IF Taken(i.op, L(s, i), R(s, i))
                         THEN Jump(s.registers, Wrap(s.registers.pc + i.imm)) ELSE s.registers
         IN /\ Formed(t) /\ Leaves(s, t, {"registers"})
            /\ Within(branched)
            /\ t.registers = IF i.op \in Links THEN LinkTo(branched, Link) ELSE branched
<1> DEFINE branched == IF Taken(i.op, L(s, i), R(s, i))
                       THEN Jump(s.registers, Wrap(s.registers.pc + i.imm)) ELSE s.registers
           regs == IF i.op \in Links THEN LinkTo(branched, Link) ELSE branched
<1>1. Within(branched)
  BY JumpWithin DEF Formed
<1>2. ExecuteBranch(s, i) = SetRegisters(s, regs)
  BY Zenon DEF ExecuteBranch
<1> HIDE DEF branched
<1>3. Within(regs)
  BY <1>1, WriteWithin DEF LinkTo
<1> HIDE DEF regs
<1>4. /\ Formed(SetRegisters(s, regs)) /\ Leaves(s, SetRegisters(s, regs), {"registers"})
      /\ SetRegisters(s, regs).registers = regs
  BY <1>3, SetFormed
<1> QED BY <1>1, <1>2, <1>4 DEF regs, branched

JumpTarget(s, i) == IF i.op \in {"JR", "JALR"} THEN L(s, i) ELSE Base(s.registers.pc) + i.imm
JumpLink(i) == CASE i.op = "JAL" -> Link [] i.op = "JALR" -> i.rd [] OTHER -> 0

LEMMA JumpIs ==
  ASSUME NEW s, Formed(s), NEW i
  PROVE  LET t == ExecuteJump(s, i)
         IN /\ Formed(t) /\ Leaves(s, t, {"registers"})
            /\ t.registers = LinkTo(Jump(s.registers, JumpTarget(s, i)), JumpLink(i))
<1> DEFINE jumped == Jump(s.registers, JumpTarget(s, i))
           regs == CASE i.op = "JAL" -> LinkTo(jumped, Link)
                     [] i.op = "JALR" -> LinkTo(jumped, i.rd)
                     [] OTHER -> jumped
<1>1. ExecuteJump(s, i) = SetRegisters(s, regs)
  BY Zenon DEF ExecuteJump, JumpTarget
<1>2. Within(jumped)
  BY JumpWithin DEF Formed
<1> HIDE DEF jumped
<1>3. regs = LinkTo(jumped, JumpLink(i))
  <2>1. LinkTo(jumped, 0) = jumped
    BY <1>2, WriteWithin DEF LinkTo
  <2> QED BY <2>1 DEF JumpLink
<1>4. Within(LinkTo(jumped, JumpLink(i)))
  BY <1>2, WriteWithin DEF LinkTo
<1> HIDE DEF regs
<1>5. /\ Formed(SetRegisters(s, regs)) /\ Leaves(s, SetRegisters(s, regs), {"registers"})
      /\ SetRegisters(s, regs).registers = regs
  BY <1>3, <1>4, SetFormed
<1> QED BY <1>1, <1>3, <1>5 DEF jumped

LEMMA LoadIs ==
  ASSUME NEW s, Formed(s), NEW i
  PROVE  LET t == ExecuteLoad(s, i)
             a == AddressOf(s, i)
             v == LoadedValue(i.op, BusRead(s, a), a % 4, ReadLwlLwr(s.registers, i.rd))
         IN /\ Formed(t)
            /\ ~Aligned(i.op, a) => t = Raise(s, "AddressErrorLoad", a)
            /\ Aligned(i.op, a) /\ i.op = "LWC2" => t = WithGte(s, BusRead(s, a))
            /\ Aligned(i.op, a) /\ i.op # "LWC2" => t = WriteDelayed(s, i, v)
<1> DEFINE t == ExecuteLoad(s, i)
           a == AddressOf(s, i)
           v == LoadedValue(i.op, BusRead(s, a), a % 4, ReadLwlLwr(s.registers, i.rd))
<1>1. /\ ~Aligned(i.op, a) => t = Raise(s, "AddressErrorLoad", a)
      /\ Aligned(i.op, a) /\ i.op = "LWC2" => t = WithGte(s, BusRead(s, a))
      /\ Aligned(i.op, a) /\ i.op # "LWC2" => t = WriteDelayed(s, i, v)
  BY Zenon DEF ExecuteLoad, WithGte
<1> HIDE DEF v, a, t
<1>2. \/ t = Raise(s, "AddressErrorLoad", a) \/ t = WithGte(s, BusRead(s, a))
      \/ t = WriteDelayed(s, i, v)
  BY <1>1
<1>3. /\ Formed(Raise(s, "AddressErrorLoad", a)) /\ Formed(WithGte(s, BusRead(s, a)))
      /\ Formed(WriteDelayed(s, i, v))
  BY RaiseFormed, GteFormed, WriteFormed
<1> QED BY <1>1, <1>2, <1>3 DEF v, a, t

\* Stores to memory, and those to the cache and to devices.
MemoryWith(s, op, a, value) ==
  [s.memory EXCEPT ![WordOf(a)] = StoredWord(op, s.memory[WordOf(a)], a % 4, value)]

LEMMA BusWriteIs ==
  ASSUME NEW s, Formed(s), NEW op, NEW a, NEW value
  PROVE  LET t == BusWrite(s, op, a, value)
         IN /\ Formed(t)
            /\ ~s.cp0.status.isolate_cache /\ a # CacheControlAddress /\ WordOf(a) # IrqAck =>
                 /\ Leaves(s, t, {"memory", "stale"})
                 /\ t.memory = MemoryWith(s, op, a, value)
<1> DEFINE t == BusWrite(s, op, a, value)
<1> SUFFICES /\ Formed(t)
             /\ ~s.cp0.status.isolate_cache /\ a # CacheControlAddress /\ WordOf(a) # IrqAck =>
                 /\ Leaves(s, t, {"memory", "stale"})
                 /\ t.memory = MemoryWith(s, op, a, value)
  OBVIOUS
<1>1. CASE s.cp0.status.isolate_cache
  <2> DEFINE w == a \div 4
  <2>1. t = WriteToCache(s, w, value)
    BY <1>1 DEF BusWrite
  <2> HIDE DEF w, t
  <2>2. Formed(WriteToCache(s, w, value))
    BY DEF WriteToCache, Formed, Fields
  <2> QED BY <1>1, <2>1, <2>2
<1>2. CASE ~s.cp0.status.isolate_cache /\ a = CacheControlAddress
  <2> DEFINE b == (Bit(value, 2) = 1)
  <2>1. t = [s EXCEPT !.cp0.tag_test_mode = b] \/ t = [s EXCEPT !.irq = FALSE]
    BY <1>2 DEF BusWrite
  <2> HIDE DEF t, b
  <2>2. ControlOK([s.cp0 EXCEPT !.tag_test_mode = b])
    BY DEF Formed, ControlOK, ControlNames
  <2>3. Formed(t)
    BY <2>1, <2>2 DEF Formed, Fields
  <2> QED BY <1>2, <2>3
<1>3. CASE ~s.cp0.status.isolate_cache /\ a # CacheControlAddress /\ WordOf(a) = IrqAck
  <2>1. t = [s EXCEPT !.irq = FALSE]
    BY <1>3 DEF BusWrite
  <2> HIDE DEF t
  <2>2. Formed(t)
    BY <2>1 DEF Formed, Fields
  <2> QED BY <1>3, <2>2
<1>4. CASE ~s.cp0.status.isolate_cache /\ a # CacheControlAddress /\ WordOf(a) # IrqAck
  <2> DEFINE k == a % 4
             w == WordOf(a)
             v == StoredWord(op, s.memory[w], k, value)
  <2>1. t = WriteToMemory(s, op, w, k, value)
    BY <1>4 DEF BusWrite
  <2>2. t = [s EXCEPT !.memory[w] = v, !.stale = @ \union {w}]
    BY <2>1, Zenon DEF WriteToMemory
  <2> HIDE DEF t, v, w
  <2>3. t.memory = [s.memory EXCEPT ![w] = v] /\ Leaves(s, t, {"memory", "stale"})
    BY <2>2 DEF Formed, Fields, Leaves
  <2>4. Formed(t)
    BY <2>3, LeavesFormed
  <2> QED BY <1>4, <2>3, <2>4 DEF v, w, k, MemoryWith
<1> QED BY <1>1, <1>2, <1>3, <1>4

StoredFrom(s, i) == IF i.op = "SWC2" THEN s.gte ELSE s.registers.gpr[i.rt]
StoreFault(i) == IF i.op = "SWC2" THEN "AddressErrorLoad" ELSE "AddressErrorStore"
LEMMA StoreIs ==
  ASSUME NEW s, Formed(s), NEW i
  PROVE  LET t == ExecuteStore(s, i)
             a == AddressOf(s, i)
             v == StoredFrom(s, i)
         IN /\ Formed(t)
            /\ ~Aligned(i.op, a) => t = Raise(s, StoreFault(i), a)
            /\ Aligned(i.op, a) /\ i.op \in {"SWL", "SWR"} =>
                 t = BusWrite(s, "SW", a - (a % 4), StoredWord(i.op, BusRead(s, a), a % 4, v))
            /\ Aligned(i.op, a) /\ i.op \notin {"SWL", "SWR"} => t = BusWrite(s, i.op, a, v)
<1> DEFINE t == ExecuteStore(s, i)
           a == AddressOf(s, i)
           v == StoredFrom(s, i)
           o == StoredWord(i.op, BusRead(s, a), a % 4, v)
           b == a - (a % 4)
<1>1. /\ ~Aligned(i.op, a) => t = Raise(s, StoreFault(i), a)
      /\ Aligned(i.op, a) /\ i.op \in {"SWL", "SWR"} => t = BusWrite(s, "SW", b, o)
      /\ Aligned(i.op, a) /\ i.op \notin {"SWL", "SWR"} => t = BusWrite(s, i.op, a, v)
  BY DEF ExecuteStore, StoredFrom, StoreFault
<1> HIDE DEF v, a, o, b, t
<1>2. \/ t = Raise(s, StoreFault(i), a) \/ t = BusWrite(s, "SW", b, o) \/ t = BusWrite(s, i.op, a, v)
  BY <1>1
<1>3. /\ Formed(Raise(s, StoreFault(i), a)) /\ Formed(BusWrite(s, "SW", b, o))
      /\ Formed(BusWrite(s, i.op, a, v))
  BY RaiseFormed, BusWriteIs
<1> QED BY <1>1, <1>2, <1>3 DEF v, a, o, b, t

LEMMA CoprocessorIs ==
  ASSUME NEW s, Formed(s), NEW i, i.op \in Coprocessor
  PROVE  LET t == ExecuteCoprocessor(s, i)
         IN /\ (i.op = "MTC0" => i.imm \in {"SR", "CAUSE", "Breakpoint"}) => Formed(t)
            /\ i.op \in {"MFC2", "CFC2"} => t = WriteDelayed(s, i, s.gte)
            /\ i.op \in {"MTC2", "CTC2"} => t = WithGte(s, s.registers.gpr[i.rt])
            /\ i.op = "COP2" => t = WithGte(s, Wrap(s.gte + 1))
<1> DEFINE t == ExecuteCoprocessor(s, i)
           x == s.registers.gpr[i.rt]
           c == WriteCp0(s.cp0, i.imm, x)
           e == [s.cp0 EXCEPT !.status = RestoreFromException(@)]
           n == ReadCp0(s.cp0, i.imm)
           g == Wrap(s.gte + 1)
<1>0. DOMAIN s = Fields
  BY DEF Formed
<1>1. /\ i.op = "MFC0" => t = WriteDelayed(s, i, n)
      /\ i.op = "MTC0" => t = [s EXCEPT !.cp0 = WriteCp0(@, i.imm, x)]
      /\ i.op = "RFE" => t = [s EXCEPT !.cp0.status = RestoreFromException(@)]
      /\ i.op \in {"MFC2", "CFC2"} => t = WriteDelayed(s, i, s.gte)
      /\ i.op \in {"MTC2", "CTC2"} => t = WithGte(s, x)
      /\ i.op = "COP2" => t = WithGte(s, g)
  BY DEF ExecuteCoprocessor, WithGte
<1>2. (i.op = "MTC0" => t = [s EXCEPT !.cp0 = c]) /\ (i.op = "RFE" => t = [s EXCEPT !.cp0 = e])
  BY <1>0, <1>1, Zenon DEF Fields
<1>3. ASSUME i.imm \in {"SR", "CAUSE", "Breakpoint"} PROVE ControlOK(c)
  <2>1. c = [s.cp0 EXCEPT !.status = WriteStatus(x)]
          \/ c = [s.cp0 EXCEPT !.cause = WriteCause(@, x)] \/ c = s.cp0
    BY <1>3 DEF WriteCp0
  <2>2. DOMAIN WriteStatus(x) = StatusNames
    BY DEF WriteStatus, StatusNames
  <2> HIDE DEF c
  <2> QED BY <2>1, <2>2 DEF Formed, ControlOK, ControlNames
<1>4. ControlOK(e)
  BY RestoredModes DEF Formed, ControlOK, ControlNames
<1> HIDE DEF t, c, e, g, x, n
<1>5. ASSUME i.op = "MTC0" => i.imm \in {"SR", "CAUSE", "Breakpoint"} PROVE Formed(t)
  <2>1. CASE i.op = "MTC0"
    BY <1>2, <1>3, <1>5, <2>1, ControlFormed
  <2>2. CASE i.op = "RFE"
    BY <1>2, <1>4, <2>2, ControlFormed
  <2>3. CASE i.op \notin {"MTC0", "RFE"}
    <3>1. t = WriteDelayed(s, i, n) \/ t = WriteDelayed(s, i, s.gte) \/ t = WithGte(s, x)
            \/ t = WithGte(s, g)
      BY <1>1, <2>3 DEF Coprocessor
    <3>2. /\ Formed(WriteDelayed(s, i, n)) /\ Formed(WriteDelayed(s, i, s.gte))
          /\ Formed(WithGte(s, x)) /\ Formed(WithGte(s, g))
      BY WriteFormed, GteFormed
    <3> QED BY <3>1, <3>2
  <2> QED BY <2>1, <2>2, <2>3
<1> QED BY <1>1, <1>5 DEF t, g, x

LEMMA OpcodeFormed ==
  ASSUME NEW s, Formed(s), NEW i, i.op \in Operations,
         i.op = "MTC0" => i.imm \in {"SR", "CAUSE", "Breakpoint"}
  PROVE  Formed(ExecuteOpcode(s, i))
<1>1. \/ i.op \in Arithmetic /\ ExecuteOpcode(s, i) = ExecuteArithmetic(s, i)
      \/ ExecuteOpcode(s, i) = ExecuteBranch(s, i)
      \/ ExecuteOpcode(s, i) = ExecuteJump(s, i)
      \/ ExecuteOpcode(s, i) = ExecuteTrap(s, i)
      \/ ExecuteOpcode(s, i) = ExecuteLoad(s, i)
      \/ ExecuteOpcode(s, i) = ExecuteStore(s, i)
      \/ i.op \in Coprocessor /\ ExecuteOpcode(s, i) = ExecuteCoprocessor(s, i)
  BY DEF ExecuteOpcode, Operations
<1>2. Formed(ExecuteTrap(s, i))
  BY RaiseFormed DEF ExecuteTrap
<1>3. Formed(ExecuteBranch(s, i)) /\ Formed(ExecuteJump(s, i)) /\ Formed(ExecuteLoad(s, i))
      /\ Formed(ExecuteStore(s, i)) /\ (i.op \in Arithmetic => Formed(ExecuteArithmetic(s, i)))
      /\ (i.op \in Coprocessor => Formed(ExecuteCoprocessor(s, i)))
  BY BranchIs, JumpIs, LoadIs, StoreIs, ArithmeticFormed, CoprocessorIs, Zenon
<1> QED BY <1>1, <1>2, <1>3
-----------------------------------------------------------------------------
\* The machine is well formed at every instruction.
ShapesKept == Between(registers) /\ ControlOK(cp0)

LEMMA MachineFormed ==
  ASSUME ShapesKept
  PROVE  Formed(Machine) /\ Machine.registers = registers /\ Machine.gte = gte
  BY DEF ShapesKept, Between, Formed, Machine, Fields

LEMMA FetchIs ==
  ASSUME ShapesKept
  PROVE  LET s == FetchOpcode
         IN /\ Formed(s) /\ ControlOK(s.cp0) /\ s.cp0.status = cp0.status
            /\ s.registers = registers /\ s.gte = gte /\ s.memory = memory
            /\ s.exception = NoException
<1> DEFINE f == Fetched(Machine, registers.pc)
           s == FetchOpcode
           c == [f.cp0 EXCEPT !.cause.hardware = irq]
           w == WordOf(registers.pc)
           fill == FillLine(Machine.i_cache, w)
<1>1. /\ DOMAIN Machine = Fields /\ Machine.registers = registers /\ Machine.gte = gte
      /\ Machine.memory = memory /\ Machine.cp0 = cp0 /\ Machine.exception = NoException
  BY DEF Machine, Fields
<1>2. \/ f = Machine
      \/ f = [Machine EXCEPT !.i_cache = fill, !.stale = @ \ LineWords(w)]
  BY DEF Fetched
<1> HIDE DEF f, fill
<1>3. /\ DOMAIN f = Fields /\ f.registers = registers /\ f.gte = gte
      /\ f.memory = memory /\ f.cp0 = cp0 /\ f.exception = NoException
  <2> HIDE DEF Machine
  <2> QED BY <1>1, <1>2 DEF Fields
<1>4. s = [f EXCEPT !.cp0 = c]
  BY <1>3, Zenon DEF FetchOpcode, Fields, f
<1>5. ControlOK(c) /\ c.status = cp0.status
  BY <1>3 DEF ShapesKept, ControlOK, ControlNames
<1> HIDE DEF s, c
<1>6. /\ DOMAIN s = Fields /\ s.registers = registers /\ s.gte = gte
      /\ s.memory = memory /\ s.cp0 = c /\ s.exception = NoException
  BY <1>3, <1>4 DEF Fields
<1>7. Formed(s)
  BY <1>5, <1>6 DEF Formed, ShapesKept, Between
<1> QED BY <1>5, <1>6, <1>7 DEF s

LEMMA AdvancedIs ==
  ASSUME ShapesKept, NEW s, Formed(s)
  PROVE  LET a == Advance(registers)
             t == SetRegisters(s, a)
         IN /\ Formed(t) /\ Leaves(s, t, {"registers"}) /\ t.registers = a
            /\ Within(a) /\ a.pc = registers.next_pc /\ a.next_pc = Wrap(registers.next_pc + 4)
            /\ a.in_delay_slot = FALSE /\ a.gpr = registers.gpr
            /\ a.hi = registers.hi /\ a.lo = registers.lo
            /\ a.delayed_load = registers.delayed_load /\ a.delayed_load_next = NoLoad
<1> DEFINE a == Advance(registers)
<1>1. Within(registers) /\ registers.delayed_load_next = NoLoad
  BY DEF ShapesKept, Between
<1>2. /\ Within(a) /\ a.pc = registers.next_pc /\ a.next_pc = Wrap(registers.next_pc + 4)
      /\ a.in_delay_slot = FALSE /\ a.gpr = registers.gpr
      /\ a.hi = registers.hi /\ a.lo = registers.lo
      /\ a.delayed_load = registers.delayed_load
      /\ a.delayed_load_next = registers.delayed_load_next
  BY <1>1 DEF Advance, SetPc, Within, RegisterNames
<1> HIDE DEF a
<1>3. /\ Formed(SetRegisters(s, a)) /\ Leaves(s, SetRegisters(s, a), {"registers"})
      /\ SetRegisters(s, a).registers = a
  BY <1>2, SetFormed
<1> QED BY <1>1, <1>2, <1>3 DEF a

LEMMA BecomeShapes == ASSUME NEW s, Formed(s), Become(s) PROVE ShapesKept'
<1>1. registers' = ProcessDelayedLoads(s.registers) /\ cp0' = s.cp0
  BY DEF Become
<1>2. Between(ProcessDelayedLoads(s.registers)) /\ ControlOK(s.cp0)
  BY ProcessedBetween DEF Formed
<1>3. Between(registers') /\ ControlOK(cp0')
  BY <1>1, <1>2
<1> QED BY <1>3 DEF ShapesKept, Between, Within, IsPair, ControlOK

LEMMA ShapesStep == ASSUME ShapesKept, [Next]_vars PROVE ShapesKept'
<1>1. CASE FetchMisaligned
  <2> DEFINE e == [code |-> "AddressErrorLoad", bad |-> registers.pc]
  <2>1. Become(HandleException(Machine, e, registers.pc, registers.in_delay_slot))
    BY <1>1 DEF FetchMisaligned
  <2> HIDE DEF e
  <2>2. Formed(HandleException(Machine, e, registers.pc, registers.in_delay_slot))
    BY MachineFormed, EntryIs, Zenon
  <2> QED BY <2>1, <2>2, BecomeShapes
<1>2. CASE ExecuteInstruction
  <2> DEFINE s == FetchOpcode
             t == SetRegisters(s, Advance(registers))
  <2>1. PICK o \in DOMAIN Decode :
          Become(TakeInterrupt(s, Decode[o])) \/ Become(Execute(s, Decode[o]))
    BY <1>2 DEF ExecuteInstruction
  <2> DEFINE i == Decode[o]
             e == [code |-> "Interrupt", bad |-> 0]
             x == ExecuteOpcode(s, i)
             done == ExecuteOpcode(t, i)
  <2>2. /\ i.op \in Operations
        /\ i.op = "MTC0" => i.imm \in {"SR", "CAUSE", "Breakpoint"}
    BY DecodeAssumption
  <2>3. Formed(s) /\ Formed(t)
    BY FetchIs, AdvancedIs, Zenon
  <2> HIDE DEF s, t
  <2>4. Formed(x) /\ Formed(done)
    BY <2>2, <2>3, OpcodeFormed
  <2>5. \/ TakeInterrupt(s, i) = HandleException(x, e, registers.pc, registers.in_delay_slot)
        \/ TakeInterrupt(s, i) = HandleException(s, e, registers.pc, registers.in_delay_slot)
    BY DEF TakeInterrupt
  <2>6. \/ Execute(s, i) = done
        \/ Execute(s, i) = HandleException(done, done.exception, registers.pc,
                                           registers.in_delay_slot)
    BY DEF Execute, t
  <2> HIDE DEF e, x, done
  <2>7. /\ Formed(HandleException(x, e, registers.pc, registers.in_delay_slot))
        /\ Formed(HandleException(s, e, registers.pc, registers.in_delay_slot))
        /\ Formed(HandleException(done, done.exception, registers.pc, registers.in_delay_slot))
    BY <2>3, <2>4, EntryIs, Zenon
  <2>8. Formed(TakeInterrupt(s, i)) /\ Formed(Execute(s, i))
    BY <2>4, <2>5, <2>6, <2>7
  <2> QED BY <2>1, <2>8, BecomeShapes
<1>3. CASE RaiseIrq
  BY <1>3 DEF RaiseIrq, ShapesKept, Between, Within, IsPair, ControlOK
<1>4. CASE UNCHANGED vars
  BY <1>4 DEF vars, ShapesKept, Between, Within, IsPair, ControlOK
<1> QED BY <1>1, <1>2, <1>3, <1>4 DEF Next

LEMMA ShapesInit == Init => ShapesKept
<1> SUFFICES ASSUME Init PROVE ShapesKept
  OBVIOUS
<1>1. PICK start \in Starts :
        registers = InitRegisters(start.pc, start.gpr) /\ cp0 = InitCp0(start.status)
  BY DEF Init
<1>2. Between(registers)
  BY <1>1, PairsArePairs DEF InitRegisters, Between, Within, RegisterNames
<1>3. ControlOK(cp0)
  BY <1>1 DEF InitCp0, ControlOK, ControlNames, WriteStatus, StatusNames
<1> QED BY <1>2, <1>3 DEF ShapesKept
-----------------------------------------------------------------------------
\* Steps of the CPU as steps of the program.
LEMMA LandedIs ==
  ASSUME NEW n, n # 0, NEW v
  PROVE  Landed([registers.gpr EXCEPT ![n] = v], Cancel(registers.delayed_load, n))
           = Alone!Set(Alone!LandsUnless(n), n, v)
<1> DEFINE g == registers.gpr
           d == registers.delayed_load[1]
           x == registers.delayed_load[2]
<1>1. Alone!LandsUnless(n) = IF d \in {0, n} THEN g ELSE [g EXCEPT ![d] = x]
  BY DEF Alone!LandsUnless
<1>2. CASE d = n
  <2>1. Landed([g EXCEPT ![n] = v], Cancel(registers.delayed_load, n)) = [g EXCEPT ![n] = v]
    BY <1>2 DEF Landed, Cancel, NoLoad
  <2> QED BY <1>1, <1>2, <2>1 DEF Alone!Set
<1>3. CASE d # n /\ d = 0
  <2>1. Landed([g EXCEPT ![n] = v], Cancel(registers.delayed_load, n)) = [g EXCEPT ![n] = v]
    BY <1>3 DEF Landed, Cancel
  <2> QED BY <1>1, <1>3, <2>1 DEF Alone!Set
<1>4. CASE d # n /\ d # 0
  <2>1. Landed([g EXCEPT ![n] = v], Cancel(registers.delayed_load, n))
          = [[g EXCEPT ![n] = v] EXCEPT ![d] = x]
    BY <1>4, Zenon DEF Landed, Cancel
  <2>2. Alone!Set(Alone!LandsUnless(n), n, v) = [[g EXCEPT ![d] = x] EXCEPT ![n] = v]
    BY <1>1, <1>4 DEF Alone!Set
  <2> HIDE DEF g, d, x
  <2>3. [[g EXCEPT ![n] = v] EXCEPT ![d] = x] = [[g EXCEPT ![d] = x] EXCEPT ![n] = v]
    BY <1>4
  <2> QED BY <2>1, <2>2, <2>3 DEF g, d, x
<1> QED BY <1>2, <1>3, <1>4

LEMMA LandedNothing ==
  Landed(registers.gpr, registers.delayed_load) = Alone!Set(Alone!LandsUnless(0), 0, 0)
  BY DEF Landed, Alone!Set, Alone!LandsUnless

LEMMA LandedLate ==
  ASSUME NEW n, n # 0
  PROVE  Landed(registers.gpr, Cancel(registers.delayed_load, n)) = Alone!LandsUnless(n)
  BY DEF Landed, Cancel, NoLoad, Alone!LandsUnless

\* An instruction that does not enter the kernel.
LEMMA SteppedIs ==
  ASSUME ShapesKept, Ordinary, NEW t, Formed(t), Become(t),
         t.registers.pc = registers.next_pc, t.cp0.status = cp0.status
  PROVE  /\ ProgramPc' = ProgramNextPc /\ ProgramNextPc' = t.registers.next_pc
         /\ ProgramSlot' = t.registers.in_delay_slot /\ ProgramMode' = ProgramMode
         /\ registers'.gpr = Landed(t.registers.gpr, t.registers.delayed_load)
         /\ registers'.delayed_load = t.registers.delayed_load_next
         /\ registers'.hi = t.registers.hi /\ registers'.lo = t.registers.lo
         /\ gte' = t.gte /\ memory' = t.memory
<1> DEFINE r == ProcessDelayedLoads(t.registers)
<1>1. registers' = r /\ cp0' = t.cp0 /\ gte' = t.gte /\ memory' = t.memory
  BY DEF Become
<1>2. /\ r.gpr = Landed(t.registers.gpr, t.registers.delayed_load)
      /\ r.delayed_load = t.registers.delayed_load_next
      /\ r.pc = t.registers.pc /\ r.next_pc = t.registers.next_pc
      /\ r.in_delay_slot = t.registers.in_delay_slot
      /\ r.hi = t.registers.hi /\ r.lo = t.registers.lo
  BY ProcessedBetween DEF Formed
<1> HIDE DEF r
<1>3. registers'.pc = registers.next_pc /\ ~Entered /\ ~Entered'
  BY <1>1, <1>2 DEF Entered, Ordinary
<1>4. ProgramPc' = registers'.pc /\ ProgramNextPc' = registers'.next_pc /\ ProgramNextPc = registers.next_pc
  BY <1>3 DEF ProgramPc, ProgramNextPc
<1>5. ProgramSlot' = registers'.in_delay_slot
  BY <1>1, <1>2, <1>3 DEF ProgramSlot, Formed, Within
<1>6. ProgramMode' = ProgramMode
  BY <1>1, <1>3 DEF ProgramMode
<1> QED BY <1>1, <1>2, <1>3, <1>4, <1>5, <1>6

\* An instruction that does.
LEMMA EnteredIs ==
  ASSUME ShapesKept, Ordinary, NEW s, Formed(s), NEW e,
         s.cp0.status = cp0.status, s.memory = memory,
         SameButHiLo(registers, s.registers) \/ SameButHiLo(Advance(registers), s.registers),
         s.registers.hi = registers.hi, s.registers.lo = registers.lo,
         Become(HandleException(s, e, registers.pc, registers.in_delay_slot))
  PROVE  /\ Entered' /\ memory' = memory /\ gte' = s.gte
         /\ cp0'.epc = IF registers.in_delay_slot THEN Wrap(registers.pc - 4) ELSE registers.pc
         /\ ~ProgramSlot' /\ ProgramMode' = ProgramMode
         /\ registers'.gpr = Landed(registers.gpr, registers.delayed_load)
         /\ registers'.delayed_load = NoLoad
         /\ registers'.hi = registers.hi /\ registers'.lo = registers.lo
<1> DEFINE pc == registers.pc
           slot == registers.in_delay_slot
           t == HandleException(s, e, pc, slot)
           c == EntryControl(s, e, pc, slot)
           v == EntryVector(s, e, pc, slot)
<1>1. /\ Formed(t) /\ Leaves(s, t, {"registers", "cp0"}) /\ t.cp0 = c
      /\ t.registers = SetPc(s.registers, v) /\ v \in Vectors
  <2> HIDE DEF pc, slot
  <2>1. Formed(t)
    BY EntryIs, Zenon
  <2>2. Leaves(s, t, {"registers", "cp0"})
    BY EntryIs, Zenon
  <2>3. t.cp0 = c
    BY EntryIs, Zenon
  <2>4. t.registers = SetPc(s.registers, v) /\ v \in Vectors
    BY EntryIs, Zenon
  <2> QED BY <2>1, <2>2, <2>3, <2>4
<1>2. c.status = PushExceptionStack(s.cp0.status) /\ c.epc = IF slot THEN Wrap(pc - 4) ELSE pc
  <2> HIDE DEF pc, slot
  <2> QED BY EntryControlIs
<1>3. Become(t)
  OBVIOUS
<1> HIDE DEF t, c, v
<1>5. /\ t.registers.pc = v /\ t.registers.gpr = s.registers.gpr
      /\ t.registers.in_delay_slot = FALSE
      /\ t.registers.hi = s.registers.hi /\ t.registers.lo = s.registers.lo
      /\ t.registers.delayed_load = s.registers.delayed_load
      /\ t.registers.delayed_load_next = s.registers.delayed_load_next
  <2>1. Within(s.registers)
    BY DEF Formed
  <2> QED BY <1>1, <2>1 DEF SetPc, Within, RegisterNames
<1>6. /\ s.registers.gpr = registers.gpr /\ s.registers.delayed_load = registers.delayed_load
      /\ s.registers.delayed_load_next = NoLoad
  <2>1. /\ Advance(registers).gpr = registers.gpr
        /\ Advance(registers).delayed_load = registers.delayed_load
        /\ Advance(registers).delayed_load_next = NoLoad /\ registers.delayed_load_next = NoLoad
    BY MachineFormed, AdvancedIs, Zenon DEF ShapesKept, Between
  <2> QED BY <2>1 DEF SameButHiLo
<1> DEFINE r == ProcessDelayedLoads(t.registers)
<1>7. registers' = r /\ cp0' = t.cp0 /\ gte' = t.gte /\ memory' = t.memory
  BY <1>3 DEF Become
<1>8. /\ r.gpr = Landed(t.registers.gpr, t.registers.delayed_load)
      /\ r.delayed_load = t.registers.delayed_load_next
      /\ r.pc = t.registers.pc /\ r.hi = t.registers.hi /\ r.lo = t.registers.lo
  BY <1>1, ProcessedBetween DEF Formed
<1> HIDE DEF r
<1>9. Entered' /\ ~Entered
  BY <1>1, <1>5, <1>7, <1>8 DEF Entered, Ordinary
<1>10. t.gte = s.gte /\ t.memory = s.memory
  BY <1>1 DEF Leaves, Fields
<1>11. ProgramMode' = ProgramMode
  <2>1. DOMAIN cp0.status = StatusNames
    BY DEF ShapesKept, ControlOK
  <2>2. /\ cp0'.status.kernel_mode_previous = cp0.status.kernel_mode
        /\ cp0'.status.interrupts_enabled_previous = cp0.status.interrupts_enabled
    BY <1>1, <1>2, <1>7, <2>1, PushedModes
  <2> QED BY <1>9, <2>2 DEF ProgramMode
<1>12. ~ProgramSlot'
  BY <1>9 DEF ProgramSlot
<1> QED BY <1>1, <1>2, <1>5, <1>6, <1>7, <1>8, <1>9, <1>10, <1>11, <1>12
-----------------------------------------------------------------------------
\* The opcode of an ordinary instruction is the word in memory.
LEMMA FetchReturns ==
  ASSUME IInv, ShapesKept, Ordinary, Mapped(registers.pc)
  PROVE  OpcodeAt(FetchOpcode, registers.pc) = memory[WordOf(registers.pc)]
<1> DEFINE s == FetchOpcode
           w == WordOf(registers.pc)
<1>1. s.memory = memory
  BY FetchIs
<1>2. CASE Uncached(registers.pc)
  BY <1>1, <1>2 DEF OpcodeAt
<1>3. CASE ~Uncached(registers.pc)
  <2>1. Good(s) /\ w \in DOMAIN memory /\ w \notin stale /\ Good(Machine)
    BY <1>3, FetchGood DEF Mapped, Ordinary, IInv
  <2>2. w \in Nat /\ LineOf(w) \in 0 .. Lines - 1
    BY <1>1, <2>1, LineInRange DEF Good, Shaped
  <2> DEFINE f == Fetched(Machine, registers.pc)
             fill == FillLine(Machine.i_cache, w)
  <2>3. \/ f = Machine /\ Hit(Machine.i_cache, w)
        \/ f = [Machine EXCEPT !.i_cache = fill, !.stale = @ \ LineWords(w)]
    BY <1>3 DEF Fetched
  <2>4. Hit(fill, w)
    BY <2>1, <2>2 DEF FillLine, Hit, Good, Shaped
  <2> HIDE DEF f, fill, w
  <2>5. DOMAIN f = Fields /\ f.stale \subseteq stale /\ Hit(f.i_cache, w)
    BY <2>3, <2>4, MachineFields DEF Fields
  <2>6. s.stale = f.stale /\ s.i_cache = f.i_cache
    BY <2>5 DEF FetchOpcode, f, Fields
  <2> HIDE DEF s
  <2>7. s.i_cache.opcodes[SlotOf(w)] = s.memory[w]
    BY <1>1, <2>1, <2>5, <2>6 DEF Good, Current
  <2> QED BY <1>1, <1>3, <2>7 DEF OpcodeAt, s, w
<1> QED BY <1>2, <1>3

LEMMA InstructionIs ==
  ASSUME Ordinary
  PROVE  /\ ProgramPc = registers.pc /\ ProgramNextPc = registers.next_pc
         /\ Alone!Instruction = CurrentInstruction
         /\ Alone!Operand1 = Left(CurrentInstruction, registers.gpr)
         /\ Alone!Operand2 = Right(CurrentInstruction, registers.gpr)
         /\ Alone!Target = Address(CurrentInstruction, registers.gpr)
<1>1. ~Entered
  BY DEF Ordinary, Entered
<1>2. ProgramPc = registers.pc /\ ProgramNextPc = registers.next_pc
  BY <1>1 DEF ProgramPc, ProgramNextPc
<1>3. Alone!Instruction = CurrentInstruction
  BY <1>2 DEF Alone!Instruction, CurrentInstruction
<1> QED BY <1>2, <1>3, SameAccess DEF Alone!Operand1, Alone!Operand2, Alone!Target

\* The machine in which an instruction executes, and what leads from there to the next one.
Advanced(t) ==
  /\ Formed(t) /\ t.registers = Advance(registers) /\ t.cp0.status = cp0.status
  /\ t.gte = gte /\ t.memory = memory /\ t.exception = NoException

LEMMA AdvancedRegisters ==
  ASSUME ShapesKept
  PROVE  /\ Within(Advance(registers))
         /\ Advance(registers).pc = registers.next_pc
         /\ Advance(registers).next_pc = Wrap(registers.next_pc + 4)
         /\ Advance(registers).in_delay_slot = FALSE
         /\ Advance(registers).gpr = registers.gpr
         /\ Advance(registers).hi = registers.hi /\ Advance(registers).lo = registers.lo
         /\ Advance(registers).delayed_load = registers.delayed_load
         /\ Advance(registers).delayed_load_next = NoLoad
<1>1. Within(registers) /\ registers.delayed_load_next = NoLoad
  BY DEF ShapesKept, Between
<1> QED BY <1>1 DEF Advance, SetPc, Within, RegisterNames

LEMMA WriteKeeps ==
  ASSUME NEW r, Within(r), NEW n, NEW v, NEW w, w = WriteGpr(r, n, v)
  PROVE  /\ w.pc = r.pc /\ w.next_pc = r.next_pc /\ w.in_delay_slot = r.in_delay_slot
         /\ w.hi = r.hi /\ w.lo = r.lo /\ w.delayed_load_next = r.delayed_load_next
<1>1. CASE n = 0
  BY <1>1 DEF WriteGpr
<1>2. CASE n # 0
  <2>1. w = [r EXCEPT !.gpr[n] = v, !.delayed_load = Cancel(@, n)]
    BY <1>2 DEF WriteGpr
  <2> QED BY <2>1 DEF Within, RegisterNames
<1> QED BY <1>1, <1>2

\* An instruction that writes a register, with branched the registers otherwise.
LEMMA WrittenIs ==
  ASSUME ShapesKept, Ordinary, NEW t, Advanced(t), NEW u, Formed(u), Become(u),
         Leaves(t, u, {"registers"}), NEW branched, Within(branched),
         branched.pc = registers.next_pc, branched.gpr = registers.gpr,
         branched.hi = registers.hi, branched.lo = registers.lo,
         branched.delayed_load = registers.delayed_load, branched.delayed_load_next = NoLoad,
         NEW n, NEW v, u.registers = WriteGpr(branched, n, v)
  PROVE  /\ Alone!Returns(n, v)
         /\ ProgramPc' = ProgramNextPc /\ ProgramNextPc' = branched.next_pc
         /\ ProgramSlot' = branched.in_delay_slot /\ ProgramMode' = ProgramMode
         /\ registers'.hi = registers.hi /\ registers'.lo = registers.lo
         /\ gte' = gte /\ memory' = memory
<1> DEFINE g == registers.gpr
           d == registers.delayed_load
<1>2. u.gte = gte /\ u.memory = memory /\ u.cp0.status = cp0.status
  BY DEF Leaves, Advanced, Fields
<1>4. /\ u.registers.pc = registers.next_pc
      /\ u.registers.next_pc = branched.next_pc
      /\ u.registers.in_delay_slot = branched.in_delay_slot
      /\ u.registers.hi = registers.hi /\ u.registers.lo = registers.lo
      /\ u.registers.delayed_load_next = NoLoad
  BY WriteKeeps
<1>5. Landed(u.registers.gpr, u.registers.delayed_load) = Alone!Set(Alone!LandsUnless(n), n, v)
  <2>1. CASE n = 0
    <3>1. u.registers.gpr = g /\ u.registers.delayed_load = d
      BY <2>1 DEF WriteGpr
    <3>2. Landed(g, d) = Alone!Set(Alone!LandsUnless(0), 0, v)
      BY DEF Landed, Alone!Set, Alone!LandsUnless
    <3> QED BY <2>1, <3>1, <3>2
  <2>2. CASE n # 0
    <3>1. u.registers.gpr = [g EXCEPT ![n] = v] /\ u.registers.delayed_load = Cancel(d, n)
      <4>1. u.registers = [branched EXCEPT !.gpr[n] = v, !.delayed_load = Cancel(@, n)]
        BY <2>2 DEF WriteGpr
      <4> QED BY <4>1 DEF Within, RegisterNames
    <3>2. Landed([g EXCEPT ![n] = v], Cancel(d, n)) = Alone!Set(Alone!LandsUnless(n), n, v)
      BY <2>2, LandedIs
    <3> QED BY <3>1, <3>2
  <2> QED BY <2>1, <2>2
<1>6. /\ ProgramPc' = ProgramNextPc /\ ProgramNextPc' = u.registers.next_pc
      /\ ProgramSlot' = u.registers.in_delay_slot /\ ProgramMode' = ProgramMode
      /\ registers'.gpr = Landed(u.registers.gpr, u.registers.delayed_load)
      /\ registers'.delayed_load = u.registers.delayed_load_next
      /\ registers'.hi = u.registers.hi /\ registers'.lo = u.registers.lo
      /\ gte' = u.gte /\ memory' = u.memory
  BY <1>2, <1>4, SteppedIs
<1>8. Alone!Returns(n, v)
  BY <1>4, <1>5, <1>6 DEF Alone!Returns, NoLoad
<1> QED BY <1>2, <1>4, <1>6, <1>8

LEMMA WritesReturn ==
  ASSUME ShapesKept, Ordinary, NEW t, Advanced(t), NEW i, NEW v, Become(Write(t, i, v))
  PROVE  /\ Alone!Returns(i.rd, v) /\ Alone!GoOn
         /\ registers'.hi = registers.hi /\ registers'.lo = registers.lo
         /\ gte' = gte /\ memory' = memory /\ ProgramMode' = ProgramMode
<1> DEFINE u == Write(t, i, v)
           n == i.rd
           a == Advance(registers)
<1>1. /\ Formed(u) /\ Leaves(t, u, {"registers"}) /\ u.registers = WriteGpr(a, n, v)
      /\ Become(u)
  BY WriteFormed DEF Advanced
<1>2. /\ Within(a) /\ a.pc = registers.next_pc /\ a.next_pc = Wrap(registers.next_pc + 4)
      /\ a.in_delay_slot = FALSE /\ a.gpr = registers.gpr
      /\ a.hi = registers.hi /\ a.lo = registers.lo
      /\ a.delayed_load = registers.delayed_load /\ a.delayed_load_next = NoLoad
  BY AdvancedRegisters
<1> HIDE DEF u, n, a
<1>3. /\ Alone!Returns(n, v)
      /\ ProgramPc' = ProgramNextPc /\ ProgramNextPc' = a.next_pc
      /\ ProgramSlot' = a.in_delay_slot /\ ProgramMode' = ProgramMode
      /\ registers'.hi = registers.hi /\ registers'.lo = registers.lo
      /\ gte' = gte /\ memory' = memory
  BY <1>1, <1>2, WrittenIs
<1>4. Alone!GoOn
  BY <1>2, <1>3, InstructionIs, SameBytes DEF Alone!GoOn
<1> QED BY <1>3, <1>4 DEF n
LEMMA DelayedKeeps ==
  ASSUME NEW r, Within(r), NEW n, NEW v, NEW w, w = WriteGprDelayed(r, n, v)
  PROVE  /\ w.pc = r.pc /\ w.next_pc = r.next_pc /\ w.in_delay_slot = r.in_delay_slot
         /\ w.hi = r.hi /\ w.lo = r.lo /\ w.gpr = r.gpr
<1>1. CASE n = 0
  BY <1>1 DEF WriteGprDelayed
<1>2. CASE n # 0
  <2>1. w = [r EXCEPT !.delayed_load = Cancel(@, n), !.delayed_load_next = <<n, v>>]
    BY <1>2 DEF WriteGprDelayed
  <2> QED BY <2>1 DEF Within, RegisterNames
<1> QED BY <1>1, <1>2

LEMMA LoadsReturnLate ==
  ASSUME ShapesKept, Ordinary, NEW t, Advanced(t), NEW i, NEW v, Become(WriteDelayed(t, i, v))
  PROVE  /\ Alone!ReturnsLate(i.rd, v) /\ Alone!GoOn
         /\ registers'.hi = registers.hi /\ registers'.lo = registers.lo
         /\ gte' = gte /\ memory' = memory /\ ProgramMode' = ProgramMode
<1> DEFINE u == WriteDelayed(t, i, v)
           n == i.rd
           a == Advance(registers)
           g == registers.gpr
           d == registers.delayed_load
<1>1. /\ Formed(u) /\ Leaves(t, u, {"registers"}) /\ u.registers = WriteGprDelayed(a, n, v)
      /\ Become(u)
  BY WriteFormed DEF Advanced
<1>2. /\ Within(a) /\ a.pc = registers.next_pc /\ a.next_pc = Wrap(registers.next_pc + 4)
      /\ a.in_delay_slot = FALSE /\ a.gpr = g /\ a.hi = registers.hi /\ a.lo = registers.lo
      /\ a.delayed_load = d /\ a.delayed_load_next = NoLoad
  BY AdvancedRegisters
<1> HIDE DEF u, n, a
<1>3. u.gte = gte /\ u.memory = memory /\ u.cp0.status = cp0.status
  BY <1>1 DEF Leaves, Advanced, Fields
<1>4. /\ u.registers.pc = registers.next_pc
      /\ u.registers.next_pc = Wrap(registers.next_pc + 4)
      /\ u.registers.in_delay_slot = FALSE
      /\ u.registers.hi = registers.hi /\ u.registers.lo = registers.lo
      /\ u.registers.gpr = g
  BY <1>1, <1>2, DelayedKeeps
<1>5. /\ Landed(g, u.registers.delayed_load) = Alone!LandsUnless(n)
      /\ u.registers.delayed_load_next = IF n = 0 THEN <<0, 0>> ELSE <<n, v>>
  <2>1. CASE n = 0
    <3>1. u.registers.delayed_load = d /\ u.registers.delayed_load_next = NoLoad
      BY <1>1, <1>2, <2>1 DEF WriteGprDelayed
    <3>2. Landed(g, d) = Alone!LandsUnless(0)
      BY DEF Landed, Alone!LandsUnless
    <3> QED BY <2>1, <3>1, <3>2 DEF NoLoad
  <2>2. CASE n # 0
    <3>1. /\ u.registers.delayed_load = Cancel(d, n)
          /\ u.registers.delayed_load_next = <<n, v>>
      <4>1. u.registers = [a EXCEPT !.delayed_load = Cancel(@, n), !.delayed_load_next = <<n, v>>]
        BY <1>1, <2>2 DEF WriteGprDelayed
      <4> QED BY <1>2, <4>1 DEF Within, RegisterNames
    <3>2. Landed(g, Cancel(d, n)) = Alone!LandsUnless(n)
      BY <2>2, LandedLate
    <3> QED BY <2>2, <3>1, <3>2
  <2> QED BY <2>1, <2>2
<1>6. /\ ProgramPc' = ProgramNextPc /\ ProgramNextPc' = u.registers.next_pc
      /\ ProgramSlot' = u.registers.in_delay_slot /\ ProgramMode' = ProgramMode
      /\ registers'.gpr = Landed(u.registers.gpr, u.registers.delayed_load)
      /\ registers'.delayed_load = u.registers.delayed_load_next
      /\ registers'.hi = u.registers.hi /\ registers'.lo = u.registers.lo
      /\ gte' = u.gte /\ memory' = u.memory
  BY <1>1, <1>3, <1>4, SteppedIs
<1>7. Alone!GoOn
  BY <1>4, <1>6, InstructionIs, SameBytes DEF Alone!GoOn
<1>8. Alone!ReturnsLate(n, v)
  BY <1>4, <1>5, <1>6 DEF Alone!ReturnsLate
<1> QED BY <1>3, <1>4, <1>6, <1>7, <1>8 DEF n

\* An instruction that writes no general register.
LEMMA NothingReturns ==
  ASSUME ShapesKept, Ordinary, NEW u, Formed(u), Become(u), u.cp0.status = cp0.status,
         SameButHiLo(Advance(registers), u.registers)
  PROVE  /\ Alone!ReturnsNothing /\ Alone!GoOn
         /\ registers'.hi = u.registers.hi /\ registers'.lo = u.registers.lo
         /\ gte' = u.gte /\ memory' = u.memory /\ ProgramMode' = ProgramMode
<1>1. /\ u.registers.pc = registers.next_pc
      /\ u.registers.next_pc = Wrap(registers.next_pc + 4)
      /\ u.registers.in_delay_slot = FALSE
      /\ u.registers.gpr = registers.gpr
      /\ u.registers.delayed_load = registers.delayed_load
      /\ u.registers.delayed_load_next = NoLoad
  BY AdvancedRegisters DEF SameButHiLo
<1>2. /\ ProgramPc' = ProgramNextPc /\ ProgramNextPc' = u.registers.next_pc
      /\ ProgramSlot' = u.registers.in_delay_slot /\ ProgramMode' = ProgramMode
      /\ registers'.gpr = Landed(u.registers.gpr, u.registers.delayed_load)
      /\ registers'.delayed_load = u.registers.delayed_load_next
      /\ registers'.hi = u.registers.hi /\ registers'.lo = u.registers.lo
      /\ gte' = u.gte /\ memory' = u.memory
  BY <1>1, SteppedIs
<1>3. Alone!GoOn
  BY <1>1, <1>2, InstructionIs, SameBytes DEF Alone!GoOn
<1>4. Alone!ReturnsNothing
  BY <1>1, <1>2, LandedNothing DEF Alone!ReturnsNothing, Alone!Returns, NoLoad
<1> QED BY <1>2, <1>3, <1>4
-----------------------------------------------------------------------------
\* Four back and four on is where one was.
LEMMA WrapsBack ==
  ASSUME NEW W \in Nat \ {0}, NEW p \in 0 .. W - 1
  PROVE  (((p - 4) % W) + 4) % W = p
<1> DEFINE r == (p - 4) % W
           q == (p - 4) \div W
           n == r + 4
           d == n \div W
           m == n % W
<1>1. q \in Int /\ r \in 0 .. W - 1 /\ p - 4 = W * q + r
  <2>1. W \in Int /\ W > 0 /\ p - 4 \in Int
    OBVIOUS
  <2>2. \A i \in Int : i % W \in 0 .. W - 1 /\ i \div W \in Int /\ i = W * (i \div W) + (i % W)
    BY <2>1
  <2> QED BY <2>1, <2>2
<1>2. n \in Nat
  BY <1>1
<1>3. d \in Nat /\ m \in 0 .. W - 1 /\ n = W * d + m
  BY <1>2, Division
<1> HIDE DEF r, q, d, m
<1>4. p = W * (q + d) + m
  BY <1>1, <1>3
<1>5. q + d = 0
  <2> DEFINE k == q + d
  <2>1. k \in Int /\ p = W * k + m
    BY <1>1, <1>3, <1>4
  <2> HIDE DEF k
  <2>2. ASSUME k >= 1 PROVE FALSE
    <3>1. W * k = W + W * (k - 1) /\ W * (k - 1) >= 0
      BY <2>1, <2>2
    <3> QED BY <1>3, <2>1, <3>1
  <2>3. ASSUME k <= -1 PROVE FALSE
    <3>1. W * k = -W - W * (-1 - k) /\ W * (-1 - k) >= 0
      BY <2>1, <2>3
    <3> QED BY <1>3, <2>1, <3>1
  <2> QED BY <2>1, <2>2, <2>3 DEF k
<1> QED BY <1>3, <1>4, <1>5 DEF m, r

LEMMA WordsWrapBack ==
  ASSUME NEW p \in Word PROVE Wrap(Wrap(p - 4) + 4) = p
<1>1. WordSize \in Nat \ {0}
  <2>1. 1 \in 1 .. 3
    OBVIOUS
  <2> QED BY <2>1, BytesAre, UnalignedDataAssumption
<1>2. p \in 0 .. WordSize - 1
  BY DEF Word
<1> QED BY <1>1, <1>2, WrapsBack DEF Wrap

\* An exception or an interrupt, in which the instruction has no effect.
LEMMA EntriesInterrupt ==
  ASSUME ShapesKept, Ordinary, NEW s, Formed(s), NEW e,
         s.cp0.status = cp0.status, s.memory = memory, s.gte = gte,
         SameButHiLo(registers, s.registers) \/ SameButHiLo(Advance(registers), s.registers),
         s.registers.hi = registers.hi, s.registers.lo = registers.lo,
         registers.pc % 4 # 0 \/ CurrentInstruction.op # "COP2",
         Become(HandleException(s, e, registers.pc, registers.in_delay_slot))
  PROVE  Alone!Interrupted
<1> DEFINE pc == registers.pc
           slot == registers.in_delay_slot
<1>1. /\ Entered' /\ memory' = memory /\ gte' = s.gte
      /\ cp0'.epc = IF slot THEN Wrap(pc - 4) ELSE pc
      /\ ~ProgramSlot' /\ ProgramMode' = ProgramMode
      /\ registers'.gpr = Landed(registers.gpr, registers.delayed_load)
      /\ registers'.delayed_load = NoLoad
      /\ registers'.hi = registers.hi /\ registers'.lo = registers.lo
  BY EnteredIs
<1>2. ~Entered /\ ProgramPc = pc /\ ProgramNextPc = registers.next_pc /\ pc \in Word
  BY InstructionIs DEF Ordinary, Entered
<1>3. ReturnsTo' = cp0'.epc
  <2>1. cp0'.epc % 4 # 0 \/ Decode[memory[WordOf(cp0'.epc)]].op # "COP2"
    BY <1>1 DEF Ordinary, CurrentInstruction
  <2> QED BY <1>1, <2>1 DEF ReturnsTo
<1>4. ProgramPc' = cp0'.epc /\ ProgramNextPc' = Wrap(cp0'.epc + 4)
  BY <1>1, <1>3 DEF ProgramPc, ProgramNextPc
<1>5. Alone!ReturnsNothing
  BY <1>1, LandedNothing DEF Alone!ReturnsNothing, Alone!Returns, NoLoad
<1>6. CASE slot
  <2>1. ProgramSlot
    BY <1>2, <1>6 DEF ProgramSlot
  <2>2. ProgramPc' = Wrap(ProgramPc - 4) /\ ProgramNextPc' = ProgramPc
    BY <1>1, <1>2, <1>4, <1>6, WordsWrapBack
  <2> QED BY <1>1, <1>5, <2>1, <2>2, SameBytes DEF Alone!Interrupted
<1>7. CASE ~slot
  <2>1. ~ProgramSlot
    BY <1>7 DEF ProgramSlot
  <2>2. registers.next_pc = Wrap(pc + 4)
    BY <1>7 DEF ShapesKept, Between, Within
  <2>3. ProgramPc' = ProgramPc /\ ProgramNextPc' = ProgramNextPc
    BY <1>1, <1>2, <1>4, <1>7, <2>2
  <2> QED BY <1>1, <1>5, <2>1, <2>3, SameBytes DEF Alone!Interrupted, ProgramSlot
<1> QED BY <1>6, <1>7

\* An interrupt behind a command of the geometry coprocessor, which runs.
LEMMA CommandRunsFirst ==
  ASSUME ShapesKept, Ordinary, NEW s, Formed(s), NEW e,
         s.cp0.status = cp0.status, s.memory = memory, s.gte = Wrap(gte + 1),
         s.registers = registers, registers.pc % 4 = 0, CurrentInstruction.op = "COP2",
         Become(HandleException(s, e, registers.pc, registers.in_delay_slot))
  PROVE  Alone!UseGte
<1> DEFINE pc == registers.pc
           slot == registers.in_delay_slot
<1>0. SameButHiLo(registers, s.registers)
  BY DEF SameButHiLo
<1>1. /\ Entered' /\ memory' = memory /\ gte' = s.gte
      /\ cp0'.epc = IF slot THEN Wrap(pc - 4) ELSE pc
      /\ ~ProgramSlot' /\ ProgramMode' = ProgramMode
      /\ registers'.gpr = Landed(registers.gpr, registers.delayed_load)
      /\ registers'.delayed_load = NoLoad
      /\ registers'.hi = registers.hi /\ registers'.lo = registers.lo
  BY <1>0, EnteredIs
<1>2. ~slot /\ registers.next_pc = Wrap(pc + 4)
  BY DEF Ordinary, ShapesKept, Between, Within
<1>3. ReturnsTo' = Wrap(pc + 4)
  BY <1>1, <1>2 DEF ReturnsTo, CurrentInstruction
<1>4. ProgramPc' = ProgramNextPc /\ ProgramNextPc' = Wrap(ProgramNextPc + 4)
  BY <1>1, <1>2, <1>3, InstructionIs DEF ProgramPc, ProgramNextPc
<1>5. Alone!GoOn
  BY <1>1, <1>4, SameBytes DEF Alone!GoOn, ProgramSlot
<1>6. Alone!ReturnsNothing
  BY <1>1, LandedNothing DEF Alone!ReturnsNothing, Alone!Returns, NoLoad
<1> QED BY <1>1, <1>5, <1>6, InstructionIs, SameBytes DEF Alone!UseGte
-----------------------------------------------------------------------------
\* The machine after an instruction: in the kernel if it raised an exception.
Outcome(u) ==
  IF u.exception = NoException THEN u
  ELSE HandleException(u, u.exception, registers.pc, registers.in_delay_slot)

LEMMA OutcomeIs ==
  ASSUME NEW t, Advanced(t), NEW u, NEW fields, Leaves(t, u, fields), "exception" \notin fields
  PROVE  Outcome(u) = u
  BY DEF Outcome, Advanced, Leaves, Fields

LEMMA RaisesInterrupt ==
  ASSUME ShapesKept, Ordinary, NEW t, Advanced(t), NEW code, code # "none", NEW bad,
         CurrentInstruction.op # "COP2", Become(Outcome(Raise(t, code, bad)))
  PROVE  Alone!Interrupted
<1> DEFINE u == Raise(t, code, bad)
           e == u.exception
<1>1. /\ Formed(u) /\ Leaves(t, u, {"exception"}) /\ u.exception = [code |-> code, bad |-> bad]
  BY RaiseFormed DEF Advanced
<1>2. Become(Outcome(u))
  OBVIOUS
<1> HIDE DEF u
<1>3. u.exception # NoException
  BY <1>1 DEF NoException
<1>4. Become(HandleException(u, e, registers.pc, registers.in_delay_slot))
  BY <1>2, <1>3 DEF Outcome
<1>5. /\ u.cp0.status = cp0.status /\ u.memory = memory /\ u.gte = gte
      /\ u.registers = Advance(registers)
  BY <1>1 DEF Leaves, Fields, Advanced
<1>6. SameButHiLo(Advance(registers), u.registers)
  BY <1>5 DEF SameButHiLo
<1>7. u.registers.hi = registers.hi /\ u.registers.lo = registers.lo
  BY <1>5, AdvancedRegisters
<1> HIDE DEF e
<1> QED BY <1>1, <1>4, <1>5, <1>6, <1>7, EntriesInterrupt

LEMMA OperandsAre ==
  ASSUME Ordinary, ShapesKept, NEW t, Advanced(t)
  PROVE  /\ L(t, CurrentInstruction) = Alone!Operand1 /\ R(t, CurrentInstruction) = Alone!Operand2
         /\ AddressOf(t, CurrentInstruction) = Alone!Target
         /\ t.registers.gpr = registers.gpr /\ t.registers.pc = registers.next_pc
         /\ t.registers.hi = registers.hi /\ t.registers.lo = registers.lo
         /\ t.registers.delayed_load = registers.delayed_load
  BY InstructionIs, AdvancedRegisters DEF Advanced, L, R, AddressOf

LEMMA ArithmeticFollows ==
  ASSUME ShapesKept, Ordinary, NEW t, Advanced(t), CurrentInstruction.op \in Arithmetic,
         Become(Outcome(ExecuteArithmetic(t, CurrentInstruction)))
  PROVE  Alone!Calculate \/ Alone!Interrupted
<1> DEFINE i == CurrentInstruction
           op == i.op
           u == ExecuteArithmetic(t, i)
           l == L(t, i)
           r == R(t, i)
<1>1. \/ op \in AluOps /\ u = Write(t, i, Alu(op, l, r))
      \/ op \in TrappingOps /\ Overflows(op, l, r) /\ u = Raise(t, "ArithmeticOverflow", 0)
      \/ /\ op \in TrappingOps /\ ~Overflows(op, l, r)
         /\ u = Write(t, i, Wrap(Exact(op, l, r)))
      \/ op \in MulDivOps /\ u = WithHiLo(t, MulDiv(op, l, r).hi, MulDiv(op, l, r).lo)
      \/ op = "MFHI" /\ u = Write(t, i, t.registers.hi)
      \/ op = "MFLO" /\ u = Write(t, i, t.registers.lo)
      \/ op = "MTHI" /\ u = WithHi(t, l)
      \/ op = "MTLO" /\ u = WithLo(t, l)
  BY ArithmeticIs, Zenon
<1>2. /\ Alone!Instruction = i /\ Alone!Operand1 = l /\ Alone!Operand2 = r
      /\ t.registers.hi = registers.hi /\ t.registers.lo = registers.lo
  BY InstructionIs, OperandsAre
<1>3. Become(Outcome(u)) /\ op # "COP2" /\ Formed(t)
  BY DEF Arithmetic, AluOps, TrappingOps, MulDivOps, LogicalOps, ShiftOps, CompareOps, Advanced
<1> SUFFICES Alone!Calculate \/ Alone!Interrupted
  OBVIOUS
<1> HIDE DEF u, l, r
<1>4. ASSUME NEW v, u = Write(t, i, v)
      PROVE  /\ Alone!Returns(i.rd, v) /\ Alone!GoOn
             /\ registers'.hi = registers.hi /\ registers'.lo = registers.lo
             /\ gte' = gte /\ memory' = memory /\ ProgramMode' = ProgramMode
  <2>1. Leaves(t, Write(t, i, v), {"registers"})
    BY <1>3, WriteFormed
  <2>2. Become(Write(t, i, v))
    BY <1>3, <1>4, <2>1, OutcomeIs
  <2> QED BY <2>2, WritesReturn
<1>5. ASSUME NEW hi, NEW lo, Formed(u), Leaves(t, u, {"registers"}),
             SameButHiLo(t.registers, u.registers),
             u.registers.hi = hi, u.registers.lo = lo
      PROVE  /\ Alone!ReturnsNothing /\ Alone!GoOn
             /\ registers'.hi = hi /\ registers'.lo = lo
             /\ gte' = gte /\ memory' = memory /\ ProgramMode' = ProgramMode
  <2>1. Become(u)
    BY <1>3, <1>5, OutcomeIs
  <2>2. u.cp0.status = cp0.status /\ u.gte = gte /\ u.memory = memory
    BY <1>5 DEF Leaves, Fields, Advanced
  <2>3. SameButHiLo(Advance(registers), u.registers)
    BY <1>5 DEF Advanced
  <2> QED BY <1>5, <2>1, <2>2, <2>3, NothingReturns
<1>6. CASE op \in AluOps /\ u = Write(t, i, Alu(op, l, r))
  BY <1>2, <1>4, <1>6, SameAlu, SameOps DEF Alone!Calculate
<1>7. CASE op \in TrappingOps /\ Overflows(op, l, r) /\ u = Raise(t, "ArithmeticOverflow", 0)
  <2>1. Become(Outcome(Raise(t, "ArithmeticOverflow", 0)))
    BY <1>3, <1>7
  <2> QED BY <1>3, <2>1, RaisesInterrupt
<1>8. CASE op \in TrappingOps /\ ~Overflows(op, l, r) /\ u = Write(t, i, Wrap(Exact(op, l, r)))
  BY <1>2, <1>4, <1>8, SameExact, SameBytes, SameOps DEF Alone!Calculate
<1>9. CASE op \in MulDivOps /\ u = WithHiLo(t, MulDiv(op, l, r).hi, MulDiv(op, l, r).lo)
  <2> DEFINE hi == MulDiv(op, l, r).hi
             lo == MulDiv(op, l, r).lo
  <2>1. hi = Alone!MulDiv(op, l, r).hi /\ lo = Alone!MulDiv(op, l, r).lo
    BY SameMulDiv
  <2>2. u = WithHiLo(t, hi, lo)
    BY <1>9
  <2> HIDE DEF hi, lo
  <2>3. /\ Formed(u) /\ Leaves(t, u, {"registers"}) /\ SameButHiLo(t.registers, u.registers)
        /\ u.registers.hi = hi /\ u.registers.lo = lo
    BY <1>3, <2>2, HiLoFormed
  <2> QED BY <1>2, <1>5, <1>9, <2>1, <2>3, SameOps DEF Alone!Calculate
<1>10. CASE op = "MFHI" /\ u = Write(t, i, t.registers.hi)
  BY <1>2, <1>4, <1>10 DEF Alone!Calculate
<1>11. CASE op = "MFLO" /\ u = Write(t, i, t.registers.lo)
  BY <1>2, <1>4, <1>11 DEF Alone!Calculate
<1>12. CASE op = "MTHI" /\ u = WithHi(t, l)
  <2>1. /\ Formed(u) /\ Leaves(t, u, {"registers"}) /\ SameButHiLo(t.registers, u.registers)
        /\ u.registers.hi = l /\ u.registers.lo = registers.lo
    BY <1>2, <1>3, <1>12, HiFormed
  <2> QED BY <1>2, <1>5, <1>12, <2>1 DEF Alone!Calculate
<1>13. CASE op = "MTLO" /\ u = WithLo(t, l)
  <2>1. /\ Formed(u) /\ Leaves(t, u, {"registers"}) /\ SameButHiLo(t.registers, u.registers)
        /\ u.registers.hi = registers.hi /\ u.registers.lo = l
    BY <1>2, <1>3, <1>13, LoFormed
  <2> QED BY <1>2, <1>5, <1>13, <2>1 DEF Alone!Calculate
<1> QED BY <1>1, <1>6, <1>7, <1>8, <1>9, <1>10, <1>11, <1>12, <1>13

\* A branch or a jump, with branched the registers before the link register is written.
LEMMA TransfersFollow ==
  ASSUME ShapesKept, Ordinary, NEW t, Advanced(t), NEW u, Formed(u), Become(Outcome(u)),
         Leaves(t, u, {"registers"}), NEW target, NEW taken \in BOOLEAN, NEW n,
         NEW branched, branched = IF taken THEN Jump(t.registers, target) ELSE t.registers,
         u.registers = LinkTo(branched, n)
  PROVE  /\ Alone!Returns(n, Wrap(ProgramNextPc + 4))
         /\ IF taken THEN Alone!GoTo(target) ELSE Alone!GoOn
         /\ registers'.hi = registers.hi /\ registers'.lo = registers.lo
         /\ gte' = gte /\ memory' = memory /\ ProgramMode' = ProgramMode
<1> DEFINE a == Advance(registers)
           v == Wrap(ProgramNextPc + 4)
<1>1. /\ Within(a) /\ a.pc = registers.next_pc /\ a.next_pc = Wrap(registers.next_pc + 4)
      /\ a.in_delay_slot = FALSE /\ a.gpr = registers.gpr
      /\ a.hi = registers.hi /\ a.lo = registers.lo
      /\ a.delayed_load = registers.delayed_load /\ a.delayed_load_next = NoLoad
  BY AdvancedRegisters
<1>2. branched = IF taken THEN Jump(a, target) ELSE a
  BY DEF Advanced
<1> HIDE DEF a
<1>3. /\ Within(branched) /\ branched.pc = registers.next_pc /\ branched.gpr = registers.gpr
      /\ branched.hi = registers.hi /\ branched.lo = registers.lo
      /\ branched.delayed_load = registers.delayed_load /\ branched.delayed_load_next = NoLoad
      /\ branched.next_pc = IF taken THEN target ELSE Wrap(registers.next_pc + 4)
      /\ branched.in_delay_slot = taken
  <2>1. CASE taken
    <3>1. branched = Jump(a, target)
      BY <1>2, <2>1
    <3> QED BY <1>1, <2>1, <3>1 DEF Jump, Within, RegisterNames
  <2>2. CASE ~taken
    BY <1>1, <1>2, <2>2
  <2> QED BY <2>1, <2>2
<1>4. u.registers = WriteGpr(branched, n, v)
  BY <1>3, InstructionIs DEF LinkTo
<1>5. Become(u)
  BY OutcomeIs
<1> HIDE DEF v
<1>6. /\ Alone!Returns(n, v)
      /\ ProgramPc' = ProgramNextPc /\ ProgramNextPc' = branched.next_pc
      /\ ProgramSlot' = branched.in_delay_slot /\ ProgramMode' = ProgramMode
      /\ registers'.hi = registers.hi /\ registers'.lo = registers.lo
      /\ gte' = gte /\ memory' = memory
  BY <1>3, <1>4, <1>5, WrittenIs
<1>7. IF taken THEN Alone!GoTo(target) ELSE Alone!GoOn
  <2>1. CASE taken
    BY <1>3, <1>6, <2>1 DEF Alone!GoTo
  <2>2. CASE ~taken
    BY <1>3, <1>6, <2>2, InstructionIs, SameBytes DEF Alone!GoOn
  <2> QED BY <2>1, <2>2
<1> QED BY <1>6, <1>7 DEF v

LEMMA BranchFollows ==
  ASSUME ShapesKept, Ordinary, NEW t, Advanced(t), CurrentInstruction.op \in Branches,
         Become(Outcome(ExecuteBranch(t, CurrentInstruction)))
  PROVE  Alone!Branch
<1> DEFINE i == CurrentInstruction
           op == i.op
           u == ExecuteBranch(t, i)
           l == L(t, i)
           r == R(t, i)
           taken == Taken(op, l, r)
           target == Wrap(t.registers.pc + i.imm)
           branched == IF taken THEN Jump(t.registers, target) ELSE t.registers
           n == IF op \in Links THEN Link ELSE 0
<1>1. /\ Formed(u) /\ Leaves(t, u, {"registers"}) /\ Within(branched)
      /\ u.registers = IF op \in Links THEN LinkTo(branched, Link) ELSE branched
  <2>1. Formed(t)
    BY DEF Advanced
  <2>2. Formed(u)
    BY <2>1, BranchIs, Zenon
  <2>3. Leaves(t, u, {"registers"})
    BY <2>1, BranchIs, Zenon
  <2>4. Within(branched)
    BY <2>1, BranchIs, Zenon
  <2>5. u.registers = IF op \in Links THEN LinkTo(branched, Link) ELSE branched
    BY <2>1, BranchIs, Zenon
  <2> QED BY <2>2, <2>3, <2>4, <2>5
<1>2. /\ Alone!Instruction = i /\ Alone!Operand1 = l /\ Alone!Operand2 = r
      /\ ProgramNextPc = registers.next_pc /\ t.registers.pc = registers.next_pc
  BY InstructionIs, OperandsAre
<1>3. Become(Outcome(u))
  OBVIOUS
<1>4. taken \in BOOLEAN
  <2> HIDE DEF l, r
  <2>1. \/ taken = (l = r) \/ taken = (l # r) \/ taken = ~IsNegative(l)
        \/ taken = (l # 0 /\ ~IsNegative(l)) \/ taken = (l = 0 \/ IsNegative(l))
        \/ taken = IsNegative(l)
    BY Zenon DEF Taken, Branches
  <2>2. IsNegative(l) \in BOOLEAN
    BY DEF IsNegative
  <2> HIDE DEF taken
  <2> QED BY <2>1, <2>2
<1>5. u.registers = LinkTo(branched, n)
  <2> HIDE DEF branched, u, taken
  <2>1. LinkTo(branched, 0) = branched
    BY DEF LinkTo, WriteGpr
  <2> QED BY <1>1, <2>1
<1>6. branched = IF taken THEN Jump(t.registers, target) ELSE t.registers
  OBVIOUS
<1>7. Alone!LinkRegister = n
  BY <1>2 DEF Alone!LinkRegister, Links, Branches
<1>8. target = Alone!Wrap(ProgramNextPc + i.imm)
  BY <1>2, SameBytes
<1>9. Alone!Taken(op, l, r) = taken
  BY SameTaken
<1> HIDE DEF u, branched, taken, target, n, l, r
<1>10. /\ Alone!Returns(n, Wrap(ProgramNextPc + 4))
       /\ IF taken THEN Alone!GoTo(target) ELSE Alone!GoOn
       /\ registers'.hi = registers.hi /\ registers'.lo = registers.lo
       /\ gte' = gte /\ memory' = memory /\ ProgramMode' = ProgramMode
  BY <1>1, <1>3, <1>4, <1>5, <1>6, TransfersFollow
<1> QED BY <1>2, <1>7, <1>8, <1>9, <1>10, SameBytes, SameOps DEF Alone!Branch

LEMMA JumpFollows ==
  ASSUME ShapesKept, Ordinary, NEW t, Advanced(t), CurrentInstruction.op \in Jumps,
         Become(Outcome(ExecuteJump(t, CurrentInstruction)))
  PROVE  Alone!Branch
<1> DEFINE i == CurrentInstruction
           op == i.op
           u == ExecuteJump(t, i)
           l == L(t, i)
           target == JumpTarget(t, i)
           n == JumpLink(i)
           taken == TRUE
           branched == IF taken THEN Jump(t.registers, target) ELSE t.registers
<1>1. Formed(u) /\ Leaves(t, u, {"registers"}) /\ u.registers = LinkTo(branched, n)
  <2>1. Formed(t)
    BY DEF Advanced
  <2>2. Formed(u)
    BY <2>1, JumpIs, Zenon
  <2>3. Leaves(t, u, {"registers"})
    BY <2>1, JumpIs, Zenon
  <2>4. u.registers = LinkTo(branched, n)
    BY <2>1, JumpIs, Zenon
  <2> QED BY <2>2, <2>3, <2>4
<1>2. /\ Alone!Instruction = i /\ Alone!Operand1 = l
      /\ ProgramNextPc = registers.next_pc /\ t.registers.pc = registers.next_pc
  BY InstructionIs, OperandsAre
<1>3. Become(Outcome(u))
  OBVIOUS
<1>4. taken \in BOOLEAN
  OBVIOUS
<1>6. branched = IF taken THEN Jump(t.registers, target) ELSE t.registers
  OBVIOUS
<1>7. Alone!LinkRegister = n
  BY <1>2 DEF Alone!LinkRegister, JumpLink, Jumps
<1>8. target = IF op \in {"JR", "JALR"} THEN l ELSE Base(ProgramNextPc) + i.imm
  BY <1>2 DEF JumpTarget
<1> HIDE DEF u, branched, taken, target, n, l
<1>10. /\ Alone!Returns(n, Wrap(ProgramNextPc + 4))
       /\ IF taken THEN Alone!GoTo(target) ELSE Alone!GoOn
       /\ registers'.hi = registers.hi /\ registers'.lo = registers.lo
       /\ gte' = gte /\ memory' = memory /\ ProgramMode' = ProgramMode
  BY <1>1, <1>3, <1>4, <1>6, TransfersFollow
<1>11. Alone!GoTo(target)
  BY <1>10 DEF taken
<1> QED BY <1>2, <1>7, <1>8, <1>10, <1>11, SameBytes DEF Alone!Branch, Jumps

LEMMA LoadFollows ==
  ASSUME ShapesKept, Ordinary, NEW t, Advanced(t), CurrentInstruction.op \in Loads \union {"LWC2"},
         Become(Outcome(ExecuteLoad(t, CurrentInstruction)))
  PROVE  Alone!Load \/ Alone!UseGte \/ Alone!Interrupted
<1> DEFINE i == CurrentInstruction
           op == i.op
           u == ExecuteLoad(t, i)
           a == AddressOf(t, i)
           word == BusRead(t, a)
           existing == ReadLwlLwr(t.registers, i.rd)
           v == LoadedValue(op, word, a % 4, existing)
<1>0. Formed(t)
  BY DEF Advanced
<1>1. ~Aligned(op, a) => u = Raise(t, "AddressErrorLoad", a)
  BY <1>0, LoadIs, Zenon
<1>2. Aligned(op, a) /\ op = "LWC2" => u = WithGte(t, word)
  BY <1>0, LoadIs, Zenon
<1>3. Aligned(op, a) /\ op # "LWC2" => u = WriteDelayed(t, i, v)
  BY <1>0, LoadIs, Zenon
<1>4. Alone!Instruction = i /\ Alone!Target = a
  BY InstructionIs, OperandsAre
<1>5. /\ word = memory[WordOf(a)]
      /\ existing = IF registers.delayed_load[1] = i.rd THEN registers.delayed_load[2]
                    ELSE registers.gpr[i.rd]
  BY OperandsAre DEF BusRead, ReadLwlLwr, Advanced
<1>6. Become(Outcome(u)) /\ op # "COP2"
  BY DEF Loads
<1> SUFFICES Alone!Load \/ Alone!UseGte \/ Alone!Interrupted
  OBVIOUS
<1>7. Alone!Aligned(op, a) <=> Aligned(op, a)
  BY SameAccess
<1>8. Alone!LoadedValue(op, word, a % 4, existing) = v
  BY SameLoaded
<1> HIDE DEF u, a, word, existing, v
<1>9. CASE ~Aligned(op, a)
  BY <1>1, <1>6, <1>9, RaisesInterrupt
<1>10. CASE Aligned(op, a) /\ op = "LWC2"
  <2>1. u = WithGte(t, word)
    BY <1>2, <1>10
  <2>2. Formed(u) /\ Leaves(t, u, {"gte"}) /\ u.gte = word
    BY <1>0, <2>1, GteFormed
  <2>3. Become(u)
    BY <1>6, <2>2, OutcomeIs
  <2>4. u.cp0.status = cp0.status /\ u.memory = memory /\ u.registers = Advance(registers)
    BY <2>2 DEF Leaves, Fields, Advanced
  <2>5. SameButHiLo(Advance(registers), u.registers)
    BY <2>4 DEF SameButHiLo
  <2>6. u.registers.hi = registers.hi /\ u.registers.lo = registers.lo
    BY <2>4, AdvancedRegisters
  <2>7. /\ Alone!ReturnsNothing /\ Alone!GoOn
        /\ registers'.hi = registers.hi /\ registers'.lo = registers.lo
        /\ gte' = word /\ memory' = memory /\ ProgramMode' = ProgramMode
    BY <2>2, <2>3, <2>4, <2>5, <2>6, NothingReturns
  <2> QED BY <1>4, <1>5, <1>7, <1>10, <2>7 DEF Alone!UseGte
<1>11. CASE Aligned(op, a) /\ op # "LWC2"
  <2>1. u = WriteDelayed(t, i, v)
    BY <1>3, <1>11
  <2>2. Leaves(t, u, {"registers"})
    BY <1>0, <2>1, WriteFormed
  <2>3. Become(WriteDelayed(t, i, v))
    BY <1>6, <2>1, <2>2, OutcomeIs
  <2>4. /\ Alone!ReturnsLate(i.rd, v) /\ Alone!GoOn
        /\ registers'.hi = registers.hi /\ registers'.lo = registers.lo
        /\ gte' = gte /\ memory' = memory /\ ProgramMode' = ProgramMode
    BY <2>3, LoadsReturnLate
  <2>5. op \in Loads
    BY <1>11
  <2> QED BY <1>4, <1>5, <1>7, <1>8, <1>11, <2>4, <2>5, SameOps DEF Alone!Load
<1> QED BY <1>9, <1>10, <1>11

\* An address and the start of its word are in one word.
LEMMA SameWord ==
  ASSUME NEW a \in Word
  PROVE  WordOf(a - (a % 4)) = WordOf(a) /\ (a - (a % 4)) % 4 = 0
<1> DEFINE S == SegmentSize
           q == S \div 4
           d == a \div S
           m == a % S
           k == m \div 4
           r == m % 4
<1>1. S \in Nat \ {0} /\ q \in Nat /\ S = 4 * q
  BY SegmentAssumption
<1>2. a \in Nat
  BY DEF Word
<1>3. d \in Nat /\ m \in 0 .. S - 1 /\ a = S * d + m
  BY <1>1, <1>2, Division
<1>4. k \in Nat /\ r \in 0 .. 3 /\ m = 4 * k + r
  BY <1>3
<1> HIDE DEF S, q, d, m, k, r
<1>5. q * d \in Nat /\ S * d = 4 * (q * d)
  BY <1>1, <1>3
<1> DEFINE x == q * d
<1>6. x \in Nat /\ a = 4 * (x + k) + r
  BY <1>3, <1>4, <1>5
<1> HIDE DEF x
<1>7. a % 4 = r
  BY <1>4, <1>6
<1>8. a - r = S * d + 4 * k /\ 4 * k \in 0 .. S - 1 /\ a - r \in Nat
  BY <1>1, <1>2, <1>3, <1>4, <1>5, <1>6
<1>9. (a - r) % S = 4 * k
  BY <1>1, <1>3, <1>8, DivisionIs
<1>10. WordOf(a - r) = k /\ WordOf(a) = k
  <2>1. WordOf(a) = k
    BY DEF WordOf, Physical, S, m, k
  <2>2. (4 * k) \div 4 = k
    BY <1>4
  <2>3. WordOf(a - r) = (4 * k) \div 4
    BY <1>9 DEF WordOf, Physical, S
  <2> QED BY <2>1, <2>2, <2>3
<1>11. (a - r) % 4 = 0
  BY <1>4, <1>6
<1> QED BY <1>7, <1>10, <1>11

LEMMA StoreFollows ==
  ASSUME ShapesKept, Ordinary, NEW t, Advanced(t),
         CurrentInstruction.op \in Stores \union {"SWC2"},
         Become(Outcome(ExecuteStore(t, CurrentInstruction)))
  PROVE  Alone!Store \/ Alone!Interrupted
<1> DEFINE i == CurrentInstruction
           op == i.op
           u == ExecuteStore(t, i)
           a == AddressOf(t, i)
           b == a - (a % 4)
           w == WordOf(a)
           k == a % 4
           v == StoredFrom(t, i)
           x == StoredWord(op, memory[w], k, v)
<1>0. Formed(t) /\ t.memory = memory /\ t.cp0.status = cp0.status
  BY DEF Advanced
<1>1. ~Aligned(op, a) => u = Raise(t, StoreFault(i), a)
  BY <1>0, StoreIs, Zenon
<1>2. Aligned(op, a) /\ op \in {"SWL", "SWR"} =>
        u = BusWrite(t, "SW", b, StoredWord(op, BusRead(t, a), k, v))
  BY <1>0, StoreIs, Zenon
<1>3. Aligned(op, a) /\ op \notin {"SWL", "SWR"} => u = BusWrite(t, op, a, v)
  BY <1>0, StoreIs, Zenon
<1>4. Alone!Instruction = i /\ Alone!Target = a
  BY InstructionIs, OperandsAre
<1>5. BusRead(t, a) = memory[w] /\ v = IF op = "SWC2" THEN gte ELSE registers.gpr[i.rt]
  BY OperandsAre DEF BusRead, StoredFrom, Advanced
<1>6. Become(Outcome(u)) /\ op # "COP2" /\ StoreFault(i) # "none"
  BY DEF Stores, StoreFault
<1>7. /\ a \in Word /\ w # IrqAck /\ a # CacheControlAddress /\ b # CacheControlAddress
      /\ ~cp0.status.isolate_cache
  <2>1. a = Address(i, registers.gpr)
    BY <1>4, InstructionIs
  <2> HIDE DEF a
  <2> QED BY <2>1 DEF Ordinary
<1>8. Alone!Aligned(op, a) <=> Aligned(op, a)
  BY SameAccess
<1>9. Alone!StoredWord(op, memory[w], k, v) = x
  BY SameStored
<1>10. WordOf(b) = w /\ b % 4 = 0
  BY <1>7, SameWord
<1> SUFFICES Alone!Store \/ Alone!Interrupted
  OBVIOUS
<1> HIDE DEF u, a, b, v
<1>11. CASE ~Aligned(op, a)
  BY <1>1, <1>6, <1>11, RaisesInterrupt
<1>12. CASE Aligned(op, a)
  <2>1. /\ Formed(u) /\ Leaves(t, u, {"memory", "stale"})
        /\ u.memory = [memory EXCEPT ![w] = x]
    <3>1. CASE op \in {"SWL", "SWR"}
      <4> HIDE DEF x, w
      <4>1. u = BusWrite(t, "SW", b, x)
        BY <1>2, <1>5, <1>12, <3>1 DEF x
      <4>2. Formed(BusWrite(t, "SW", b, x))
        BY <1>0, BusWriteIs, Zenon
      <4>3. Leaves(t, BusWrite(t, "SW", b, x), {"memory", "stale"})
        BY <1>0, <1>7, <1>10, BusWriteIs, Zenon
      <4>4. BusWrite(t, "SW", b, x).memory = [memory EXCEPT ![w] = x]
        <5>1. StoredWord("SW", memory[WordOf(b)], b % 4, x) = x
          BY DEF StoredWord
        <5>2. BusWrite(t, "SW", b, x).memory = MemoryWith(t, "SW", b, x)
          BY <1>0, <1>7, <1>10, BusWriteIs, Zenon
        <5> QED BY <1>0, <1>10, <5>1, <5>2 DEF MemoryWith
      <4> QED BY <4>1, <4>2, <4>3, <4>4
    <3>2. CASE op \notin {"SWL", "SWR"}
      <4>1. u = BusWrite(t, op, a, v)
        BY <1>3, <1>12, <3>2
      <4>2. Formed(BusWrite(t, op, a, v))
        BY <1>0, BusWriteIs, Zenon
      <4>3. Leaves(t, BusWrite(t, op, a, v), {"memory", "stale"})
        BY <1>0, <1>7, BusWriteIs, Zenon
      <4>4. BusWrite(t, op, a, v).memory = MemoryWith(t, op, a, v)
        BY <1>0, <1>7, BusWriteIs, Zenon
      <4> QED BY <1>0, <4>1, <4>2, <4>3, <4>4 DEF MemoryWith
    <3> QED BY <3>1, <3>2
  <2> HIDE DEF x, w, k
  <2>2. Become(u)
    BY <1>6, <2>1, OutcomeIs
  <2>3. u.cp0.status = cp0.status /\ u.gte = gte /\ u.registers = Advance(registers)
    BY <2>1 DEF Leaves, Fields, Advanced
  <2>4. SameButHiLo(Advance(registers), u.registers)
    BY <2>3 DEF SameButHiLo
  <2>5. u.registers.hi = registers.hi /\ u.registers.lo = registers.lo
    BY <2>3, AdvancedRegisters
  <2>6. /\ Alone!ReturnsNothing /\ Alone!GoOn
        /\ registers'.hi = registers.hi /\ registers'.lo = registers.lo
        /\ gte' = gte /\ memory' = u.memory /\ ProgramMode' = ProgramMode
    BY <2>1, <2>2, <2>3, <2>4, <2>5, NothingReturns
  <2>7. memory' = [memory EXCEPT ![w] = x]
    BY <2>1, <2>6
  <2> QED BY <1>4, <1>5, <1>8, <1>9, <1>12, <2>6, <2>7, SameOps DEF Alone!Store, w, k
<1> QED BY <1>11, <1>12

LEMMA CoprocessorFollows ==
  ASSUME ShapesKept, Ordinary, NEW t, Advanced(t), CurrentInstruction.op \in Coprocessor,
         Become(Outcome(ExecuteCoprocessor(t, CurrentInstruction)))
  PROVE  Alone!UseGte
<1> DEFINE i == CurrentInstruction
           op == i.op
           u == ExecuteCoprocessor(t, i)
           x == t.registers.gpr[i.rt]
           g == Wrap(t.gte + 1)
<1>0. Formed(t) /\ t.gte = gte
  BY DEF Advanced
<1>1. op \in {"MFC2", "CFC2"} => u = WriteDelayed(t, i, t.gte)
  BY <1>0, CoprocessorIs, Zenon
<1>2. op \in {"MTC2", "CTC2"} => u = WithGte(t, x)
  BY <1>0, CoprocessorIs, Zenon
<1>3. op = "COP2" => u = WithGte(t, g)
  BY <1>0, CoprocessorIs, Zenon
<1>4. Alone!Instruction = i /\ x = registers.gpr[i.rt]
  BY InstructionIs, OperandsAre
<1>5. Become(Outcome(u))
  OBVIOUS
<1>6. op \in {"MFC2", "CFC2", "MTC2", "CTC2", "COP2"}
  BY DEF Ordinary, Coprocessor
<1> SUFFICES Alone!UseGte
  OBVIOUS
<1> HIDE DEF u, x, g
<1>7. ASSUME NEW v, u = WithGte(t, v)
      PROVE  /\ Alone!ReturnsNothing /\ Alone!GoOn
             /\ registers'.hi = registers.hi /\ registers'.lo = registers.lo
             /\ gte' = v /\ memory' = memory /\ ProgramMode' = ProgramMode
  <2>1. Formed(u) /\ Leaves(t, u, {"gte"}) /\ u.gte = v
    BY <1>0, <1>7, GteFormed
  <2>2. Become(u)
    BY <1>5, <2>1, OutcomeIs
  <2>3. u.cp0.status = cp0.status /\ u.memory = memory /\ u.registers = Advance(registers)
    BY <2>1 DEF Leaves, Fields, Advanced
  <2>4. SameButHiLo(Advance(registers), u.registers)
    BY <2>3 DEF SameButHiLo
  <2>5. u.registers.hi = registers.hi /\ u.registers.lo = registers.lo
    BY <2>3, AdvancedRegisters
  <2> QED BY <2>1, <2>2, <2>3, <2>4, <2>5, NothingReturns
<1>8. CASE op \in {"MFC2", "CFC2"}
  <2>1. u = WriteDelayed(t, i, gte)
    BY <1>0, <1>1, <1>8
  <2>2. Leaves(t, u, {"registers"})
    BY <1>0, <2>1, WriteFormed
  <2>3. Become(WriteDelayed(t, i, gte))
    BY <1>5, <2>1, <2>2, OutcomeIs
  <2>4. /\ Alone!ReturnsLate(i.rd, gte) /\ Alone!GoOn
        /\ registers'.hi = registers.hi /\ registers'.lo = registers.lo
        /\ gte' = gte /\ memory' = memory /\ ProgramMode' = ProgramMode
    BY <2>3, LoadsReturnLate
  <2> QED BY <1>4, <1>8, <2>4 DEF Alone!UseGte
<1>9. CASE op \in {"MTC2", "CTC2"}
  BY <1>2, <1>4, <1>7, <1>9 DEF Alone!UseGte
<1>10. CASE op = "COP2"
  <2>1. g = Alone!Wrap(gte + 1)
    BY <1>0, SameBytes DEF g
  <2> QED BY <1>3, <1>4, <1>7, <1>10, <2>1 DEF Alone!UseGte
<1> QED BY <1>6, <1>8, <1>9, <1>10

LEMMA ExecutionFollows ==
  ASSUME ShapesKept, Ordinary, NEW t, Advanced(t), CurrentInstruction.op \in Operations,
         Become(Outcome(ExecuteOpcode(t, CurrentInstruction)))
  PROVE  Alone!Next
<1> DEFINE i == CurrentInstruction
           op == i.op
<1>1. \/ op \in Arithmetic /\ ExecuteOpcode(t, i) = ExecuteArithmetic(t, i)
      \/ op \in Branches /\ ExecuteOpcode(t, i) = ExecuteBranch(t, i)
      \/ op \in Jumps /\ ExecuteOpcode(t, i) = ExecuteJump(t, i)
      \/ op \in Traps /\ ExecuteOpcode(t, i) = ExecuteTrap(t, i)
      \/ op \in Loads \union {"LWC2"} /\ ExecuteOpcode(t, i) = ExecuteLoad(t, i)
      \/ op \in Stores \union {"SWC2"} /\ ExecuteOpcode(t, i) = ExecuteStore(t, i)
      \/ op \in Coprocessor /\ ExecuteOpcode(t, i) = ExecuteCoprocessor(t, i)
  BY DEF ExecuteOpcode, Operations
<1>2. CASE op \in Arithmetic /\ ExecuteOpcode(t, i) = ExecuteArithmetic(t, i)
  BY <1>2, ArithmeticFollows DEF Alone!Next
<1>3. CASE op \in Branches /\ ExecuteOpcode(t, i) = ExecuteBranch(t, i)
  BY <1>3, BranchFollows DEF Alone!Next
<1>4. CASE op \in Jumps /\ ExecuteOpcode(t, i) = ExecuteJump(t, i)
  BY <1>4, JumpFollows DEF Alone!Next
<1>5. CASE op \in Traps /\ ExecuteOpcode(t, i) = ExecuteTrap(t, i)
  <2> DEFINE code == IF op = "SYSCALL" THEN "Syscall" ELSE "Breakpoint"
  <2>1. Become(Outcome(Raise(t, code, 0))) /\ op # "COP2" /\ code # "none"
    BY <1>5 DEF ExecuteTrap, Traps
  <2> HIDE DEF code
  <2>2. Alone!Interrupted
    BY <2>1, RaisesInterrupt
  <2> QED BY <2>2 DEF Alone!Next
<1>6. CASE op \in Loads \union {"LWC2"} /\ ExecuteOpcode(t, i) = ExecuteLoad(t, i)
  BY <1>6, LoadFollows DEF Alone!Next
<1>7. CASE op \in Stores \union {"SWC2"} /\ ExecuteOpcode(t, i) = ExecuteStore(t, i)
  BY <1>7, StoreFollows DEF Alone!Next
<1>8. CASE op \in Coprocessor /\ ExecuteOpcode(t, i) = ExecuteCoprocessor(t, i)
  BY <1>8, CoprocessorFollows DEF Alone!Next
<1> QED BY <1>1, <1>2, <1>3, <1>4, <1>5, <1>6, <1>7, <1>8

LEMMA MisalignedFollows ==
  ASSUME ShapesKept, Ordinary, FetchMisaligned PROVE Alone!Next
<1> DEFINE s == Machine
           e == [code |-> "AddressErrorLoad", bad |-> registers.pc]
<1>1. /\ registers.pc % 4 # 0
      /\ Become(HandleException(s, e, registers.pc, registers.in_delay_slot))
  BY DEF FetchMisaligned
<1>2. /\ Formed(s) /\ s.registers = registers /\ s.gte = gte /\ s.memory = memory
      /\ s.cp0.status = cp0.status
  BY MachineFormed DEF Machine
<1> HIDE DEF s, e
<1>3. SameButHiLo(registers, s.registers)
  BY <1>2 DEF SameButHiLo
<1>4. s.registers.hi = registers.hi /\ s.registers.lo = registers.lo
  BY <1>2
<1>5. Alone!Interrupted
  BY <1>1, <1>2, <1>3, <1>4, EntriesInterrupt
<1> QED BY <1>5 DEF Alone!Next

LEMMA InstructionFollows ==
  ASSUME IInv, ShapesKept, Ordinary, ExecuteInstruction PROVE Alone!Next
<1> DEFINE s == FetchOpcode
           t == SetRegisters(s, Advance(registers))
           i == CurrentInstruction
           o == memory[WordOf(registers.pc)]
           e == [code |-> "Interrupt", bad |-> 0]
<1>1. Mapped(registers.pc) /\ registers.pc % 4 = 0
  BY DEF ExecuteInstruction
<1>2. OpcodeAt(s, registers.pc) = o
  BY <1>1, FetchReturns
<1>3. o \in DOMAIN Decode /\ (Become(TakeInterrupt(s, i)) \/ Become(Execute(s, i)))
  BY <1>2 DEF ExecuteInstruction, CurrentInstruction
<1>4. i.op \in Operations
  BY <1>3, DecodeAssumption DEF CurrentInstruction
<1>5. Formed(s) /\ s.cp0.status = cp0.status /\ s.registers = registers
  BY FetchIs, Zenon
<1>6. s.gte = gte /\ s.memory = memory /\ s.exception = NoException
  BY FetchIs, Zenon
<1> HIDE DEF s
<1>7. CASE Become(Execute(s, i))
  <2>1. Formed(t)
    BY <1>5, AdvancedIs, Zenon
  <2>2. Leaves(s, t, {"registers"})
    BY <1>5, AdvancedIs, Zenon
  <2>3. t.registers = Advance(registers)
    BY <1>5, AdvancedIs, Zenon
  <2>4. Execute(s, i) = Outcome(ExecuteOpcode(t, i))
    BY Zenon DEF Execute, Outcome
  <2> HIDE DEF t
  <2>5. Advanced(t)
    BY <1>5, <1>6, <2>1, <2>2, <2>3 DEF Advanced, Leaves, Fields
  <2>6. Become(Outcome(ExecuteOpcode(t, i)))
    BY <1>7, <2>4
  <2> QED BY <1>4, <2>5, <2>6, ExecutionFollows
<1>8. CASE Become(TakeInterrupt(s, i)) /\ i.op = "COP2"
  <2> DEFINE u == WithGte(s, Wrap(s.gte + 1))
  <2>1. ExecuteOpcode(s, i) = ExecuteCoprocessor(s, i)
    BY <1>8 DEF ExecuteOpcode, Arithmetic, AluOps, LogicalOps, ShiftOps, CompareOps, TrappingOps,
                MulDivOps, Branches, Jumps, Traps, Loads, Stores, Coprocessor
  <2>2. ExecuteCoprocessor(s, i) = u
    BY <1>8 DEF ExecuteCoprocessor, WithGte
  <2>3. TakeInterrupt(s, i) =
          HandleException(ExecuteOpcode(s, i), e, registers.pc, registers.in_delay_slot)
    BY <1>8 DEF TakeInterrupt, IsGteCommand
  <2>4. Become(HandleException(u, e, registers.pc, registers.in_delay_slot))
    BY <1>8, <2>1, <2>2, <2>3
  <2>5. Formed(u) /\ Leaves(s, u, {"gte"}) /\ u.gte = Wrap(gte + 1)
    BY <1>5, <1>6, GteFormed
  <2> HIDE DEF u, e
  <2>6. u.cp0.status = cp0.status /\ u.memory = memory /\ u.registers = registers
    BY <1>5, <1>6, <2>5 DEF Leaves, Fields
  <2>7. Alone!UseGte
    BY <1>1, <1>8, <2>4, <2>5, <2>6, CommandRunsFirst
  <2> QED BY <2>7 DEF Alone!Next
<1>9. CASE Become(TakeInterrupt(s, i)) /\ i.op # "COP2"
  <2>1. Become(HandleException(s, e, registers.pc, registers.in_delay_slot))
    BY <1>9 DEF TakeInterrupt, IsGteCommand
  <2> HIDE DEF e
  <2>2. SameButHiLo(registers, s.registers)
    BY <1>5 DEF SameButHiLo
  <2>3. s.registers.hi = registers.hi /\ s.registers.lo = registers.lo
    BY <1>5
  <2>4. Alone!Interrupted
    BY <1>5, <1>6, <1>9, <2>1, <2>2, <2>3, EntriesInterrupt
  <2> QED BY <2>4 DEF Alone!Next
<1> QED BY <1>3, <1>7, <1>8, <1>9

LEMMA UnchangedProgram ==
  ASSUME UNCHANGED <<registers, cp0, gte, memory>> PROVE UNCHANGED Alone!vars
  BY DEF Alone!vars, ProgramPc, ProgramNextPc, ProgramSlot, ProgramMode, Entered, ReturnsTo

\* Every instruction of a program that is not the kernel is one step of Program: it takes effect
\* as a whole, a taken branch behind the instruction that follows it and a load behind the
\* instruction that follows it, and an exception or an interrupt keeps it from having any effect
\* and returns to it, to the branch before it or, behind a command of the geometry coprocessor
\* that has run, to the one after it; for all programs, registers and memories, and interrupts
\* between any two instructions (cpu.rs: execute_instruction, handle_exception;
\* cpu/instructions.rs: execute_opcode).
THEOREM InstructionsFollowProgram == Spec => [][Ordinary => [Alone!Next]_(Alone!vars)]_vars
<1> DEFINE Inv == IInv /\ ShapesKept
           Follows == Ordinary => [Alone!Next]_(Alone!vars)
<1>1. Init => Inv
  BY InitGood, ShapesInit
<1>2. Inv /\ [Next]_vars => Inv'
  BY StepGood, ShapesStep
<1>3. Inv /\ [Next]_vars => [Follows]_vars
  <2> SUFFICES ASSUME IInv, ShapesKept, Next, Ordinary
               PROVE  Alone!Next \/ UNCHANGED Alone!vars
    OBVIOUS
  <2>1. CASE FetchMisaligned
    BY <2>1, MisalignedFollows
  <2>2. CASE ExecuteInstruction
    BY <2>2, InstructionFollows
  <2>3. CASE RaiseIrq
    BY <2>3, UnchangedProgram DEF RaiseIrq
  <2> QED BY <2>1, <2>2, <2>3 DEF Next
<1> HIDE DEF Inv, Follows
<1>4. Spec => [][Follows]_vars
  BY <1>1, <1>2, <1>3, PTL DEF Spec
<1> QED BY <1>4 DEF Follows
=============================================================================
