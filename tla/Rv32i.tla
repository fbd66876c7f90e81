------------------------------- MODULE Rv32i -------------------------------
(***************************************************************************)
(* The arithmetic and the memories of packages/core/src/std/rv32i.ts, for  *)
(* words of four bytes of ByteBits bits.  The code has bytes of 8 bits;    *)
(* with fewer, every word, address and program can be enumerated.          *)
(***************************************************************************)
EXTENDS Integers, Bitwise

CONSTANT ByteBits

Byte == 2^ByteBits
Width == 4 * ByteBits
Wrap == 2^Width
MachineWords == 0..(Wrap - 1)

SignedAt(w, wrap) == IF 2 * w >= wrap THEN w - wrap ELSE w
Signed(w) == SignedAt(w, Wrap)

Add(a, b) == (a + b) % Wrap
WithoutBit0(w) == w - (w % 2)

\* RV32I_ALU
AluResult(op, a, b) ==
  LET shift == 2^(b % Width)
  IN CASE op = "ADD"  -> Add(a, b)
       [] op = "SUB"  -> (a - b) % Wrap
       [] op = "AND"  -> a & b
       [] op = "OR"   -> a | b
       [] op = "XOR"  -> a ^^ b
       [] op = "SLL"  -> (a * shift) % Wrap
       [] op = "SRL"  -> a \div shift
       [] op = "SRA"  -> (Signed(a) \div shift) % Wrap
       [] op = "SLT"  -> IF Signed(a) < Signed(b) THEN 1 ELSE 0
       [] op = "SLTU" -> IF a < b THEN 1 ELSE 0

\* RV32I_BranchComp
BranchTaken(f3, a, b) ==
  CASE f3 = 0 -> a = b
    [] f3 = 1 -> a # b
    [] f3 = 4 -> Signed(a) < Signed(b)
    [] f3 = 5 -> Signed(a) >= Signed(b)
    [] f3 = 6 -> a < b
    [] f3 = 7 -> a >= b
    [] OTHER  -> FALSE

-----------------------------------------------------------------------------
(* Memories: bytes by address.  RV32I_DataMem reads the aligned word around *)
(* an address, of which RV32I_LoadAlignFull takes the byte or half.  In the *)
(* upper half of the address space it reads 0 whatever was stored, for     *)
(* `a & ~3` is negative there: those addresses are left out of a memory.   *)

Bytes == 0..(Byte - 1)
DataMemories == [0..((Wrap \div 2) - 1) -> Bytes]
At(m, a) == IF a \in DOMAIN m THEN m[a] ELSE 0
WordAt(m, a) ==
  LET w == a - (a % 4)
  IN At(m, w) + (At(m, w + 1) * Byte) + (At(m, w + 2) * Byte^2) + (At(m, w + 3) * Byte^3)
ByteOffset(a) == a % 4

AlignedLoad(raw, offset, f3) ==
  LET byte == (raw \div Byte^offset) % Byte
      half == (raw \div Byte^(2 * (offset \div 2))) % Byte^2
  IN CASE f3 = 0 -> SignedAt(byte, Byte) % Wrap
       [] f3 = 1 -> SignedAt(half, Byte^2) % Wrap
       [] f3 = 4 -> byte
       [] f3 = 5 -> half
       [] OTHER  -> raw

\* How many bytes SB, SH and SW write.
Stored(f3) == CASE f3 = 0 -> 1 [] f3 = 1 -> 2 [] f3 = 2 -> 4 [] OTHER -> 0

AfterStore(m, a, f3, w) ==
  [x \in DOMAIN m |->
     IF x \in a..(a + Stored(f3) - 1) THEN (w \div Byte^(x - a)) % Byte ELSE m[x]]

\* RV32I_InstrMem: the word of a program at an address.
InstructionAt(p, a) == p[a \div 4]

-----------------------------------------------------------------------------

\* What a load reads, said of the bytes: one, or two or four from the address
\* rounded down to a multiple of the width.
LoadedAt(m, a, f3) ==
  LET half == At(m, WithoutBit0(a)) + (At(m, WithoutBit0(a) + 1) * Byte)
  IN CASE f3 = 0 -> SignedAt(At(m, a), Byte) % Wrap
       [] f3 = 1 -> SignedAt(half, Byte^2) % Wrap
       [] f3 = 4 -> At(m, a)
       [] f3 = 5 -> half
       [] OTHER  -> WordAt(m, a)
=============================================================================
