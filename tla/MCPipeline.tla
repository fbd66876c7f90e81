----------------------------- MODULE MCPipeline -----------------------------
(***************************************************************************)
(* Every program of four instructions out of those below, on words of four *)
(* bits: a byte is one bit, and the program fills the address space.       *)
(***************************************************************************)
EXTENDS Pipeline, Rv32i

MCAluOps == {"ADD", "SUB", "AND", "OR", "XOR", "SLL", "SRL", "SRA", "SLT", "SLTU"}

I(op, rd, rs1, rs2, imm, funct3, fn) ==
  [op |-> op, rd |-> rd, rs1 |-> rs1, rs2 |-> rs2, imm |-> imm, funct3 |-> funct3, fn |-> fn]

\* rs2 of an immediate, rs1 and rs2 of LUI and JAL, rd of a store and a branch
\* are bits of the immediate.
MCInstructions == {
  I("op-imm", 1, 0, 1, 5, 0, "ADD"),
  I("op-imm", 2, 1, 1, 3, 0, "ADD"),
  I("op",     1, 1, 2, 0, 0, "SUB"),
  I("op",     2, 1, 2, 0, 5, "SRA"),
  I("load",   1, 2, 1, 4, 2, "ADD"),
  I("load",   2, 1, 0, 1, 0, "ADD"),
  I("load",   0, 1, 2, 2, 5, "ADD"),
  I("store",  1, 2, 1, 1, 0, "ADD"),
  I("store",  2, 1, 2, 2, 1, "ADD"),
  I("branch", 1, 1, 2, 12, 1, "ADD"),
  I("branch", 2, 2, 1, 8, 4, "ADD"),
  I("jal",    1, 2, 1, 8, 0, "ADD"),
  I("jalr",   2, 1, 2, 3, 0, "ADD"),
  I("lui",    2, 1, 2, 12, 0, "ADD"),
  I("auipc",  1, 2, 0, 4, 0, "ADD")}

MCPrograms == [0..3 -> MCInstructions]
MCContents == {[w \in 0..7 |-> IF w \in {0, 3, 5, 6} THEN 1 ELSE 0]}
=============================================================================
