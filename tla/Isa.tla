--------------------------------- MODULE Isa ---------------------------------
(* What the instructions of the CPU compute (src/ps1-core/src/cpu/             *)
(* instructions.rs), apart from where their operands come from and when their  *)
(* results are written: the word they return as a function of words.  A word   *)
(* has four bytes of ByteSize values each (256 in the source).                 *)
EXTENDS Integers, FiniteSetsExt

CONSTANT ByteSize

(* An instruction is a record [op, rs, rt, rd, imm]: the registers it reads,   *)
(* the one it writes, and its immediate, which stands for rt when rt is        *)
(* Immediate and is sign-extended, shifted or scaled already.                  *)
Immediate == -1
Left(i, gpr) == gpr[i.rs]
Right(i, gpr) == IF i.rt = Immediate THEN i.imm ELSE gpr[i.rt]

\* How many values 0 to 4 bytes have.
Bytes(n) ==
  CASE n = 0 -> 1
    [] n = 1 -> ByteSize
    [] n = 2 -> ByteSize * ByteSize
    [] n = 3 -> ByteSize * ByteSize * ByteSize
    [] n = 4 -> ByteSize * ByteSize * ByteSize * ByteSize
WordSize == Bytes(4)
Word == 0 .. WordSize - 1

Wrap(n) == n % WordSize
IsNegative(w) == 2 * w >= WordSize
Signed(w) == IF IsNegative(w) THEN w - WordSize ELSE w
SignExtend(v, size) == IF 2 * v >= size THEN Wrap(v - size) ELSE v

BitPositions == {i \in 0 .. 30 : 2 ^ i < WordSize}
Bit(w, i) == (w \div 2 ^ i) % 2
ForEachBit(op(_, _), l, r) ==
  MapThenSumSet(LAMBDA i : op(Bit(l, i), Bit(r, i)) * 2 ^ i, BitPositions)

\* Shift amounts wrap at the width of a word.
ShiftBy(amount) == 2 ^ (amount % Cardinality(BitPositions))
-----------------------------------------------------------------------------
\* The operations that only return a word; r is a register or an immediate.
LogicalOps == {"AND", "OR", "XOR", "NOR"}
Logical(op, l, r) ==
  CASE op = "AND" -> ForEachBit(LAMBDA a, b : a * b, l, r)
    [] op = "OR" -> ForEachBit(LAMBDA a, b : a + b - a * b, l, r)
    [] op = "XOR" -> ForEachBit(LAMBDA a, b : (a + b) % 2, l, r)
    [] op = "NOR" -> ForEachBit(LAMBDA a, b : (1 - a) * (1 - b), l, r)

ShiftOps == {"SLL", "SRL", "SRA"}
Shift(op, l, r) ==
  CASE op = "SLL" -> Wrap(l * ShiftBy(r))
    [] op = "SRL" -> l \div ShiftBy(r)
    [] op = "SRA" -> Wrap(Signed(l) \div ShiftBy(r))

CompareOps == {"SLT", "SLTU"}
Compare(op, l, r) ==
  IF (IF op = "SLT" THEN Signed(l) < Signed(r) ELSE l < r) THEN 1 ELSE 0

AluOps == LogicalOps \cup ShiftOps \cup CompareOps \cup {"ADDU", "SUBU", "LUI"}
Alu(op, l, r) ==
  CASE op \in LogicalOps -> Logical(op, l, r)
    [] op \in ShiftOps -> Shift(op, l, r)
    [] op \in CompareOps -> Compare(op, l, r)
    [] op = "ADDU" -> Wrap(l + r)
    [] op = "SUBU" -> Wrap(l - r)
    [] op = "LUI" -> Wrap(r * Bytes(2))

\* ADD, ADDI and SUB trap when the signed result does not fit.
TrappingOps == {"ADD", "SUB"}
Exact(op, l, r) == IF op = "ADD" THEN Signed(l) + Signed(r) ELSE Signed(l) - Signed(r)
Overflows(op, l, r) == Signed(Wrap(Exact(op, l, r))) # Exact(op, l, r)

\* Division truncates toward zero and the remainder has the sign of the dividend.
Abs(n) == IF n < 0 THEN -n ELSE n
Truncated(n, d) == (IF (n < 0) = (d < 0) THEN 1 ELSE -1) * (Abs(n) \div Abs(d))

HiLo(hi, lo) == [hi |-> Wrap(hi), lo |-> Wrap(lo)]
MulDivOps == {"MULT", "MULTU", "DIV", "DIVU"}
MulDiv(op, l, r) ==
  CASE op = "MULT" -> HiLo((Signed(l) * Signed(r)) \div WordSize, Signed(l) * Signed(r))
    [] op = "MULTU" -> HiLo((l * r) \div WordSize, l * r)
    [] op = "DIV" /\ r = 0 -> HiLo(l, IF IsNegative(l) THEN 1 ELSE -1)
    [] op = "DIVU" /\ r = 0 -> HiLo(l, -1)
    [] op = "DIV" /\ r # 0 ->
         LET q == Truncated(Signed(l), Signed(r)) IN HiLo(Signed(l) - q * Signed(r), q)
    [] op = "DIVU" /\ r # 0 -> HiLo(l % r, l \div r)

Branches == {"BEQ", "BNE", "BGEZ", "BGEZAL", "BGTZ", "BLEZ", "BLTZ", "BLTZAL"}
Links == {"BGEZAL", "BLTZAL", "JAL", "JALR"}
Taken(op, l, r) ==
  CASE op = "BEQ" -> l = r
    [] op = "BNE" -> l # r
    [] op \in {"BGEZ", "BGEZAL"} -> ~IsNegative(l)
    [] op = "BGTZ" -> l # 0 /\ ~IsNegative(l)
    [] op = "BLEZ" -> l = 0 \/ IsNegative(l)
    [] op \in {"BLTZ", "BLTZAL"} -> IsNegative(l)
-----------------------------------------------------------------------------
(* Loads and stores.  word is the aligned word that holds the address, k the   *)
(* address in it (memory is little endian).  LWL and LWR replace a part of     *)
(* what the register holds, SWL and SWR a part of the word in memory.          *)
Loads == {"LB", "LBU", "LH", "LHU", "LW", "LWL", "LWR"}
Stores == {"SB", "SH", "SW", "SWL", "SWR"}

Address(i, gpr) == Wrap(gpr[i.rs] + i.imm)

Aligned(op, address) ==
  /\ op \in {"LH", "LHU", "SH"} => address % 2 = 0
  /\ op \in {"LW", "SW", "LWC2", "SWC2"} => address % 4 = 0

Part(word, k, n) == (word \div Bytes(k)) % Bytes(n)
Replace(word, k, n, v) == word + ((v % Bytes(n)) - Part(word, k, n)) * Bytes(k)

\* Mutant: the mask of the bytes that stay is not inverted.
ShiftedRightKeepsLow(existing, word, n) == (existing % Bytes(4 - n)) + (word \div Bytes(n))

\* word shifted left or right by n bytes, over what is existing.
ShiftedLeft(existing, word, n) == (existing % Bytes(n)) + Wrap(word * Bytes(n))
ShiftedRight(existing, word, n) ==
  (existing \div Bytes(4 - n)) * Bytes(4 - n) + (word \div Bytes(n))

LoadedValue(op, word, k, existing) ==
  CASE op = "LB" -> SignExtend(Part(word, k, 1), Bytes(1))
    [] op = "LBU" -> Part(word, k, 1)
    [] op = "LH" -> SignExtend(Part(word, k, 2), Bytes(2))
    [] op = "LHU" -> Part(word, k, 2)
    [] op \in {"LW", "LWC2"} -> word
    [] op = "LWL" -> ShiftedLeft(existing, word, 3 - k)
    [] op = "LWR" -> ShiftedRight(existing, word, k)

StoredWord(op, word, k, value) ==
  CASE op = "SB" -> Replace(word, k, 1, value)
    [] op = "SH" -> Replace(word, k, 2, value)
    [] op \in {"SW", "SWC2"} -> value
    [] op = "SWL" -> ShiftedRight(word, value, 3 - k)
    [] op = "SWR" -> ShiftedLeft(word, value, k)
-----------------------------------------------------------------------------
(* A pair LWR address / LWL address + 3, in either order, loads the four bytes *)
(* that start at any address, whatever the register held; SWR and SWL store    *)
(* them and leave the bytes around them alone.                                 *)
Across(first, second, k) == Part(first, k, 4 - k) + (second % Bytes(k)) * Bytes(4 - k)

UnalignedWords(first, second, existing, k) ==
  LET end == IF k = 0 THEN first ELSE second
      right(r) == LoadedValue("LWR", first, k, r)
      left(r) == LoadedValue("LWL", end, (k + 3) % 4, r)
  IN /\ right(left(existing)) = Across(first, second, k)
     /\ left(right(existing)) = Across(first, second, k)
     /\ k # 0 =>
          LET low == StoredWord("SWR", first, k, existing)
              high == StoredWord("SWL", second, k - 1, existing)
          IN /\ Across(low, high, k) = existing
             /\ low % Bytes(k) = first % Bytes(k)
             /\ high \div Bytes(k) = second \div Bytes(k)
=============================================================================
