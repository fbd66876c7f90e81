------------------------------ MODULE Pipeline ------------------------------
(***************************************************************************)
(* RV32I_Core (packages/core/src/std/rv32i-cpu.ts): five stages, IF, ID,   *)
(* EX, MEM and WB, with a bank of registers between each and the next, and *)
(* the units of rv32i.ts that keep five instructions under way from seeing *)
(* each other: hazard unit, forwarding unit and write-back bypass.         *)
(*                                                                         *)
(* Everything happens on the clock, so there is one action: the next state *)
(* of every register from what the combinational logic makes of them all.  *)
(* The memories are outside the core: RV32I_InstrMem and RV32I_DataMem,    *)
(* which answer an address in the cycle it is given.                       *)
(*                                                                         *)
(* An instruction is what RV32I_Decode, RV32I_ImmGen and the ALU decoding  *)
(* of RV32I_Control make of its word.  Every instruction has rs1, rs2 and  *)
(* rd, whatever bits of its word they are cut from.                        *)
(***************************************************************************)
EXTENDS Naturals

CONSTANTS
  Words, Zero, Regs, x0, Programs,
  Memories, Contents,  \* data memories, and those a program may start with
  AluOps, Functs,
  Fetch(_, _), Plus(_, _), Four, Even(_), Alu(_, _, _), Take(_, _, _),
  ReadWord(_, _), Offset(_), Align(_, _, _), Store(_, _, _, _), Offsets,
  Load(_, _, _)

Ops == {"none", "op", "op-imm", "load", "store", "branch", "jal", "jalr", "lui", "auipc"}
Instructions ==
  [op : Ops, rd : Regs, rs1 : Regs, rs2 : Regs, imm : Words, funct3 : Functs, fn : AluOps]

\* The word 0.
Nothing == [op |-> "none", rd |-> x0, rs1 |-> x0, rs2 |-> x0, imm |-> Zero, funct3 |-> 0, fn |-> "ADD"]

ASSUME PipelineAssumption ==
  /\ x0 \in Regs /\ Contents \subseteq Memories /\ Zero \in Words /\ Four \in Words /\ 0 \in Functs
  /\ {"ADD", "SUB"} \subseteq AluOps
  /\ \A p \in Programs, a \in Words : Fetch(p, a) \in Instructions
  /\ \A a, b \in Words : Plus(a, b) \in Words /\ Alu("ADD", a, b) = Plus(a, b)
  /\ \A w \in Words : Even(w) \in Words /\ Even(Even(w)) = Even(w) /\ Offset(w) \in Offsets
  /\ \A op \in AluOps, a, b \in Words : Alu(op, a, b) \in Words
  /\ \A f \in Functs, a, b \in Words : Take(f, a, b) \in BOOLEAN
  /\ \A m \in Memories, a, w \in Words, f \in Functs :
       /\ Store(m, a, f, w) \in Memories
       /\ ReadWord(m, a) \in Words
       /\ Align(ReadWord(m, a), Offset(a), f) = Load(m, a, f)
  /\ \A w \in Words, o \in Offsets, f \in Functs : Align(w, o, f) \in Words

VARIABLES
  program,  \* the instruction memory
  mem,      \* the data memory
  regfile,  \* RV32I_RegisterFile
  PC, IFID, IDEX, EXMEM, MEMWB,
  live      \* auxiliary: whether IFID and IDEX hold an instruction fetched, not a bubble

banks == <<PC, IFID, IDEX, EXMEM, MEMWB>>
vars  == <<program, mem, regfile, banks, live>>

-----------------------------------------------------------------------------
(* The units *)

\* RV32I_Control
Control(i) ==
  [alu_op     |-> CASE i.op \in {"op", "op-imm"} -> i.fn [] i.op = "branch" -> "SUB" [] OTHER -> "ADD",
   alu_src    |-> i.op \in {"op-imm", "load", "store", "jalr"},
   mem_read   |-> i.op = "load",
   mem_write  |-> i.op = "store",
   reg_write  |-> i.op \notin {"none", "store", "branch"},
   mem_to_reg |-> i.op = "load",
   branch     |-> i.op = "branch",
   jump       |-> i.op \in {"jal", "jalr"},
   lui        |-> i.op = "lui",
   auipc      |-> i.op = "auipc",
   is_jalr    |-> i.op = "jalr"]

NoControl == Control(Nothing)
Controls == {Control(i) : i \in Instructions}

\* RV32I_RegisterFile
Read(file, r) == IF r = x0 THEN Zero ELSE file[r]
Written(file, we, rd, data) == IF we /\ rd # x0 THEN [file EXCEPT ![rd] = data] ELSE file

\* RV32I_WBBypass
Bypassed(r, value, we, rd, data) == IF we /\ rd # x0 /\ rd = r THEN data ELSE value

\* RV32I_WritebackMux
WriteData(ctl, alu, load, pc4, imm, sum) ==
  IF ctl.jump THEN pc4 ELSE IF ctl.auipc THEN sum ELSE IF ctl.lui THEN imm
  ELSE IF ctl.mem_to_reg THEN load ELSE alu

-----------------------------------------------------------------------------
(* The stages, as the combinational logic of one cycle *)

\* WB
wb == WriteData(MEMWB.ctl, MEMWB.alu_result, Align(MEMWB.load_data, MEMWB.byte_offset, MEMWB.funct3),
                MEMWB.pc4, MEMWB.imm, MEMWB.pc_plus_imm)

\* A mutant: the older of two results is forwarded.
OlderForwarded(r, value) ==
  IF MEMWB.ctl.reg_write /\ MEMWB.rd # x0 /\ MEMWB.rd = r THEN wb
  ELSE IF EXMEM.ctl.reg_write /\ EXMEM.rd # x0 /\ EXMEM.rd = r THEN EXMEM.result ELSE value

\* RV32I_ForwardingUnit and the muxes before the ALU: a register an
\* instruction in MEM or WB has yet to write, the younger first.
Forwarded(r, value) ==
  IF EXMEM.ctl.reg_write /\ EXMEM.rd # x0 /\ EXMEM.rd = r THEN EXMEM.result
  ELSE IF MEMWB.ctl.reg_write /\ MEMWB.rd # x0 /\ MEMWB.rd = r THEN wb ELSE value

\* EX
a == Forwarded(IDEX.rs1, IDEX.read1)
b == Forwarded(IDEX.rs2, IDEX.read2)
alu_result == Alu(IDEX.ctl.alu_op, a, IF IDEX.ctl.alu_src THEN IDEX.imm ELSE b)
pc_plus_imm == Plus(IDEX.pc, IDEX.imm)
branch_taken == IDEX.ctl.branch /\ Take(IDEX.funct3, a, b)
redirect_target ==
  IF IDEX.ctl.jump THEN IF IDEX.ctl.is_jalr THEN Even(Even(alu_result)) ELSE pc_plus_imm
  ELSE IF branch_taken THEN pc_plus_imm ELSE IDEX.pc4

\* Mutants: the second source is not looked at; the load is looked for in ID.
StallOnFirst == IDEX.ctl.mem_read /\ IDEX.rd # x0 /\ IDEX.rd = IFID.instruction.rs1
StallOnSelf ==
  Control(IFID.instruction).mem_read /\ IFID.instruction.rd \notin {x0} /\
  IFID.instruction.rd \in {IFID.instruction.rs1, IFID.instruction.rs2}

\* RV32I_HazardUnit
Stall ==
  IDEX.ctl.mem_read /\ IDEX.rd # x0 /\ IDEX.rd \in {IFID.instruction.rs1, IFID.instruction.rs2}
Flush == branch_taken \/ IDEX.ctl.jump

-----------------------------------------------------------------------------
(* The banks *)

\* RV32I_IF_Stage
NextPC ==
  IF Stall THEN PC ELSE IF Flush THEN redirect_target ELSE Plus(PC, Four)

\* A mutant: a redirect leaves the instruction fetched behind it.
Unflushed ==
  IF Stall THEN IFID
  ELSE [instruction |-> Fetch(program, PC), pc |-> PC, pc4 |-> Plus(PC, Four)]

\* RV32I_IFID_Regs
NextIFID ==
  IF Stall THEN IFID
  ELSE IF Flush THEN [instruction |-> Nothing, pc |-> Zero, pc4 |-> Zero]
  ELSE [instruction |-> Fetch(program, PC), pc |-> PC, pc4 |-> Plus(PC, Four)]

\* RV32I_ID_Stage and RV32I_IDEX_Regs
NextIDEX ==
  LET i == IFID.instruction
      bubble == Flush \/ Stall
      read(r) == Bypassed(r, Read(regfile, r), MEMWB.ctl.reg_write, MEMWB.rd, wb)
  IN [ctl    |-> IF bubble THEN NoControl ELSE Control(i),
      rs1    |-> IF bubble THEN x0 ELSE i.rs1,
      rs2    |-> IF bubble THEN x0 ELSE i.rs2,
      rd     |-> IF bubble THEN x0 ELSE i.rd,
      funct3 |-> IF bubble THEN 0 ELSE i.funct3,
      pc     |-> IFID.pc, pc4 |-> IFID.pc4,
      read1  |-> read(i.rs1), read2 |-> read(i.rs2), imm |-> i.imm]

\* RV32I_EXMEM_Regs
NextEXMEM ==
  [ctl |-> IDEX.ctl, rd |-> IDEX.rd, funct3 |-> IDEX.funct3, alu_result |-> alu_result,
   pc4 |-> IDEX.pc4, imm |-> IDEX.imm, pc_plus_imm |-> pc_plus_imm,
   result |-> WriteData(IDEX.ctl, alu_result, Zero, IDEX.pc4, IDEX.imm, pc_plus_imm), store_data |-> b]

\* What RV32I_LoadAlignFull will need of the address.
byte_offset == Offset(EXMEM.alu_result)

\* RV32I_MEMWB_Regs, and the read of RV32I_DataMem
data_read == IF EXMEM.ctl.mem_read THEN ReadWord(mem, EXMEM.alu_result) ELSE Zero
NextMEMWB ==
  [ctl |-> EXMEM.ctl, rd |-> EXMEM.rd, funct3 |-> EXMEM.funct3, alu_result |-> EXMEM.alu_result,
   pc4 |-> EXMEM.pc4, imm |-> EXMEM.imm, pc_plus_imm |-> EXMEM.pc_plus_imm,
   load_data |-> data_read, byte_offset |-> byte_offset]

\* The write of RV32I_DataMem
NextMem ==
  IF EXMEM.ctl.mem_write THEN Store(mem, EXMEM.alu_result, EXMEM.funct3, EXMEM.store_data) ELSE mem

Init ==
  /\ program \in Programs /\ mem \in Contents
  /\ regfile = [r \in Regs |-> Zero]
  /\ PC = Zero
  /\ IFID = [instruction |-> Nothing, pc |-> Zero, pc4 |-> Zero]
  /\ IDEX = [ctl |-> NoControl, rs1 |-> x0, rs2 |-> x0, rd |-> x0, funct3 |-> 0, pc |-> Zero, pc4 |-> Zero,
             read1 |-> Zero, read2 |-> Zero, imm |-> Zero]
  /\ EXMEM = [ctl |-> NoControl, rd |-> x0, funct3 |-> 0, alu_result |-> Zero, pc4 |-> Zero,
              imm |-> Zero, pc_plus_imm |-> Zero, result |-> Zero, store_data |-> Zero]
  /\ MEMWB = [ctl |-> NoControl, rd |-> x0, funct3 |-> 0, alu_result |-> Zero, pc4 |-> Zero,
              imm |-> Zero, pc_plus_imm |-> Zero, load_data |-> Zero, byte_offset |-> Offset(Zero)]
  /\ live = [IFID |-> FALSE, IDEX |-> FALSE]

Clock ==
  /\ regfile' = Written(regfile, MEMWB.ctl.reg_write, MEMWB.rd, wb)
  /\ mem' = NextMem
  /\ PC' = NextPC /\ IFID' = NextIFID /\ IDEX' = NextIDEX /\ EXMEM' = NextEXMEM /\ MEMWB' = NextMEMWB
  /\ live' = [IFID |-> IF Stall THEN live.IFID ELSE ~Flush, IDEX |-> live.IFID /\ ~Stall /\ ~Flush]
  /\ UNCHANGED program

Spec == Init /\ [][Clock]_vars

\* The clock never stops for good.
FairSpec == Spec /\ WF_vars(Clock)

-----------------------------------------------------------------------------
(* Properties *)

\* The registers have their widths.
TypeOK ==
  /\ program \in Programs /\ mem \in Memories /\ regfile \in [Regs -> Words] /\ PC \in Words
  /\ IFID \in [instruction : Instructions, pc : Words, pc4 : Words]
  /\ IDEX \in [ctl : Controls, rs1 : Regs, rs2 : Regs, rd : Regs, funct3 : Functs,
               pc : Words, pc4 : Words, read1 : Words, read2 : Words, imm : Words]
  /\ EXMEM \in [ctl : Controls, rd : Regs, funct3 : Functs, alu_result : Words, pc4 : Words,
                imm : Words, pc_plus_imm : Words, result : Words, store_data : Words]
  /\ MEMWB \in [ctl : Controls, rd : Regs, funct3 : Functs, alu_result : Words, pc4 : Words,
                imm : Words, pc_plus_imm : Words, load_data : Words, byte_offset : Offsets]
  /\ live \in [IFID : BOOLEAN, IDEX : BOOLEAN]

\* An instruction never needs, in EX, what a load in MEM has not read yet: the
\* forwarding unit would serve it the 0 that stands for the load's result
\* (RV32I_HazardUnit, RV32I_EX_Stage's ex_result).
LoadsAreAwaited ==
  (live.IDEX /\ EXMEM.ctl.mem_to_reg /\ EXMEM.rd # x0) => EXMEM.rd \notin {IDEX.rs1, IDEX.rs2}

\* What is in the pipeline behind a redirect never gets to EX, and what does
\* follows the instruction before it: IFID and IDEX hold the instructions of
\* consecutive addresses, or bubbles that write nothing (the flush of
\* RV32I_IFID_Regs and RV32I_IDEX_Regs).
OnPath ==
  /\ IF live.IFID THEN /\ IFID.instruction = Fetch(program, IFID.pc)
                       /\ IFID.pc4 = Plus(IFID.pc, Four) /\ PC = IFID.pc4
     ELSE IFID.instruction = Nothing
  /\ IF live.IDEX THEN live.IFID /\ IDEX.pc4 = Plus(IDEX.pc, Four) /\ IFID.pc = IDEX.pc4
     ELSE IDEX.ctl = NoControl

\* The state the program sees: an instruction has taken effect once it has
\* left EX, though its register is written two cycles later.
ArchPc == IF live.IDEX THEN IDEX.pc ELSE IF live.IFID THEN IFID.pc ELSE PC
ArchRegs ==
  Written(Written(regfile, MEMWB.ctl.reg_write, MEMWB.rd, wb),
          EXMEM.ctl.reg_write, EXMEM.rd,
          WriteData(EXMEM.ctl, EXMEM.alu_result,
                    Align(data_read, Offset(EXMEM.alu_result), EXMEM.funct3),
                    EXMEM.pc4, EXMEM.imm, EXMEM.pc_plus_imm))

\* The pipeline runs a program as if one instruction were executed at a time.
Arch == INSTANCE Isa WITH pc <- ArchPc, regs <- ArchRegs, mem <- NextMem
ImplementsIsa == Arch!Spec

\* The core keeps executing: it neither stalls nor flushes for ever.
KeepsExecuting == []<>live.IDEX
=============================================================================
