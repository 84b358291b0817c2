------------------------------- MODULE Program -------------------------------
(* What the CPU promises the program it runs: instructions take effect one     *)
(* after the other, a taken branch behind the instruction that follows it, a   *)
(* load behind the instruction that follows it.  An interrupt or an exception  *)
(* may come between any two instructions.  All the program sees of it is that  *)
(* a load on its way lands early, and that a branch whose slot was due is      *)
(* taken again; an instruction that raises an exception has no effect.         *)
EXTENDS Isa

CONSTANTS
  Decode, Link,
  MemoryAt(_),     \* the word of memory an address is in
  Region(_)        \* the start of the region it is in, within which J and JAL jump

VARIABLES pc, next_pc, slot, gpr, loading, hi, lo, gte, memory, mode

vars == <<pc, next_pc, slot, gpr, loading, hi, lo, gte, memory, mode>>

Instruction == Decode[memory[MemoryAt(pc)]]
Operand1 == Left(Instruction, gpr)
Operand2 == Right(Instruction, gpr)
Target == Address(Instruction, gpr)

\* A load that is overwritten while on its way never lands.
LandsUnless(r) ==
  IF loading[1] \in {0, r} THEN gpr ELSE [gpr EXCEPT ![loading[1]] = loading[2]]
Set(g, r, value) == IF r = 0 THEN g ELSE [g EXCEPT ![r] = value]

GoOn == pc' = next_pc /\ next_pc' = Wrap(next_pc + 4) /\ slot' = FALSE
GoTo(target) == pc' = next_pc /\ next_pc' = target /\ slot' = TRUE
Returns(r, value) == gpr' = Set(LandsUnless(r), r, value) /\ loading' = <<0, 0>>
ReturnsLate(r, value) ==
  gpr' = LandsUnless(r) /\ loading' = IF r = 0 THEN <<0, 0>> ELSE <<r, value>>
ReturnsNothing == Returns(0, 0)

Calculate ==
  LET op == Instruction.op
  IN /\ \/ op \in AluOps /\ Returns(Instruction.rd, Alu(op, Operand1, Operand2)) /\ UNCHANGED <<hi, lo>>
        \/ /\ op \in TrappingOps /\ ~Overflows(op, Operand1, Operand2)
           /\ Returns(Instruction.rd, Wrap(Exact(op, Operand1, Operand2)))
           /\ UNCHANGED <<hi, lo>>
        \/ /\ op \in MulDivOps
           /\ LET p == MulDiv(op, Operand1, Operand2) IN hi' = p.hi /\ lo' = p.lo
           /\ ReturnsNothing
        \/ op = "MFHI" /\ Returns(Instruction.rd, hi) /\ UNCHANGED <<hi, lo>>
        \/ op = "MFLO" /\ Returns(Instruction.rd, lo) /\ UNCHANGED <<hi, lo>>
        \/ op = "MTHI" /\ hi' = Operand1 /\ ReturnsNothing /\ UNCHANGED lo
        \/ op = "MTLO" /\ lo' = Operand1 /\ ReturnsNothing /\ UNCHANGED hi
  /\ GoOn
  /\ UNCHANGED <<gte, memory, mode>>

LinkRegister ==
  CASE Instruction.op \in {"JAL", "BGEZAL", "BLTZAL"} -> Link
    [] Instruction.op = "JALR" -> Instruction.rd
    [] OTHER -> 0

Branch ==
  /\ \/ /\ Instruction.op \in Branches
        /\ IF Taken(Instruction.op, Operand1, Operand2)
           THEN GoTo(Wrap(next_pc + Instruction.imm)) ELSE GoOn
     \/ Instruction.op \in {"J", "JAL"} /\ GoTo(Region(next_pc) + Instruction.imm)
     \/ Instruction.op \in {"JR", "JALR"} /\ GoTo(Operand1)
  /\ Returns(LinkRegister, Wrap(next_pc + 4))
  /\ UNCHANGED <<hi, lo, gte, memory, mode>>

Load ==
  /\ Instruction.op \in Loads
  /\ Aligned(Instruction.op, Target)
  /\ LET r == Instruction.rd
         existing == IF loading[1] = r THEN loading[2] ELSE gpr[r]
     IN ReturnsLate(r, LoadedValue(Instruction.op, memory[MemoryAt(Target)], Target % 4, existing))
  /\ GoOn
  /\ UNCHANGED <<hi, lo, gte, memory, mode>>

Store ==
  /\ Instruction.op \in Stores \cup {"SWC2"}
  /\ Aligned(Instruction.op, Target)
  /\ LET value == IF Instruction.op = "SWC2" THEN gte ELSE gpr[Instruction.rt]
     IN memory' = [memory EXCEPT ![MemoryAt(Target)] =
                     StoredWord(Instruction.op, @, Target % 4, value)]
  /\ ReturnsNothing /\ GoOn
  /\ UNCHANGED <<hi, lo, gte, mode>>

\* Each command of the geometry coprocessor runs once.
UseGte ==
  LET i == Instruction
  IN /\ \/ i.op = "COP2" /\ gte' = Wrap(gte + 1) /\ ReturnsNothing
        \/ i.op = "LWC2" /\ Aligned(i.op, Target) /\ gte' = memory[MemoryAt(Target)] /\ ReturnsNothing
        \/ i.op \in {"MTC2", "CTC2"} /\ gte' = gpr[i.rt] /\ ReturnsNothing
        \/ i.op \in {"MFC2", "CFC2"} /\ ReturnsLate(i.rd, gte) /\ UNCHANGED gte
     /\ GoOn
     /\ UNCHANGED <<hi, lo, memory, mode>>

Interrupted ==
  /\ ReturnsNothing
  /\ IF slot THEN pc' = Wrap(pc - 4) /\ next_pc' = pc /\ slot' = FALSE
     ELSE UNCHANGED <<pc, next_pc, slot>>
  /\ UNCHANGED <<hi, lo, gte, memory, mode>>

Next == Calculate \/ Branch \/ Load \/ Store \/ UseGte \/ Interrupted

Spec == [][Next]_vars
=============================================================================
