--------------------------- MODULE PipelineProofs ---------------------------
(***************************************************************************)
(* Proofs about Pipeline, for any program, register file, arithmetic,      *)
(* memory and word: the invariants its run checks, and that the pipeline   *)
(* executes what Isa says.                                                 *)
(***************************************************************************)
EXTENDS Pipeline, TLAPS

\* What is in EX is the instruction its address says, with the registers as
\* they are in the register file; what is not live has no effect.
Decoded ==
  IF live.IDEX
  THEN LET i == Fetch(program, IDEX.pc)
       IN /\ IDEX.ctl = Control(i) /\ IDEX.rs1 = i.rs1 /\ IDEX.rs2 = i.rs2 /\ IDEX.rd = i.rd
          /\ IDEX.funct3 = i.funct3 /\ IDEX.imm = i.imm
          /\ IDEX.read1 = Read(regfile, i.rs1) /\ IDEX.read2 = Read(regfile, i.rs2)
  ELSE IDEX.ctl = NoControl

\* What MEM forwards is what the write-back mux will give, but for a load.
ResultSound ==
  EXMEM.result = WriteData(EXMEM.ctl, EXMEM.alu_result, Zero, EXMEM.pc4, EXMEM.imm, EXMEM.pc_plus_imm)

ZeroRegister == regfile[x0] = Zero

IInv == TypeOK /\ LoadsAreAwaited /\ OnPath /\ Decoded /\ ResultSound /\ ZeroRegister

ControlType ==
  [alu_op : AluOps, alu_src : BOOLEAN, mem_read : BOOLEAN, mem_write : BOOLEAN, reg_write : BOOLEAN,
   mem_to_reg : BOOLEAN, branch : BOOLEAN, jump : BOOLEAN, lui : BOOLEAN, auipc : BOOLEAN, is_jalr : BOOLEAN]

-----------------------------------------------------------------------------
(* The units *)

LEMMA NothingIs == Nothing \in Instructions
BY PipelineAssumption DEF Nothing, Instructions, Ops

LEMMA ControlIs ==
  ASSUME NEW i \in Instructions
  PROVE  /\ Control(i) \in Controls /\ Control(i) \in ControlType
         /\ Control(i).mem_to_reg = Control(i).mem_read
         /\ Control(i).mem_read => ~Control(i).branch /\ ~Control(i).jump
<1>1. Control(i) \in ControlType
  BY PipelineAssumption DEF Control, ControlType, Instructions
<1>2. QED
  BY <1>1 DEF Control, Controls

LEMMA ControlFields ==
  ASSUME NEW i \in Instructions
  PROVE  /\ i.op \in {"op", "op-imm"} => Control(i).alu_op = i.fn
         /\ i.op \in {"load", "store", "jalr"} => Control(i).alu_op = "ADD"
         /\ Control(i).alu_src <=> i.op \in {"op-imm", "load", "store", "jalr"}
         /\ Control(i).mem_read <=> i.op = "load"
         /\ Control(i).mem_write <=> i.op = "store"
         /\ Control(i).reg_write <=> i.op \notin {"none", "store", "branch"}
         /\ Control(i).mem_to_reg <=> i.op = "load"
         /\ Control(i).branch <=> i.op = "branch"
         /\ Control(i).jump <=> i.op \in {"jal", "jalr"}
         /\ Control(i).lui <=> i.op = "lui"
         /\ Control(i).auipc <=> i.op = "auipc"
         /\ Control(i).is_jalr <=> i.op = "jalr"
BY DEF Control

LEMMA NoControlIs ==
  /\ NoControl \in Controls
  /\ ~NoControl.mem_read /\ ~NoControl.mem_write /\ ~NoControl.reg_write
  /\ ~NoControl.branch /\ ~NoControl.jump
BY NothingIs, ControlIs DEF NoControl, Control, Nothing

LEMMA ControlsAre ==
  ASSUME NEW c \in Controls
  PROVE  c \in ControlType /\ c.mem_to_reg = c.mem_read /\ (c.mem_read => ~c.branch /\ ~c.jump)
BY ControlIs DEF Controls

LEMMA WriteDataType ==
  ASSUME NEW c, NEW alu \in Words, NEW load \in Words, NEW pc4 \in Words, NEW imm \in Words, NEW sum \in Words
  PROVE  WriteData(c, alu, load, pc4, imm, sum) \in Words
BY DEF WriteData

\* What is read through the bypass is what the register file will hold.
LEMMA BypassedReads ==
  ASSUME NEW file \in [Regs -> Words], NEW we \in BOOLEAN, NEW rd \in Regs, NEW data \in Words,
         NEW r \in Regs
  PROVE  /\ Written(file, we, rd, data) \in [Regs -> Words]
         /\ Bypassed(r, Read(file, r), we, rd, data) = Read(Written(file, we, rd, data), r)
         /\ Bypassed(r, Read(file, r), we, rd, data) \in Words
         /\ Written(file, we, rd, data)[x0] = file[x0]
BY PipelineAssumption DEF Written, Read, Bypassed

\* The values of the combinational logic have their widths.
LEMMA LogicType ==
  ASSUME TypeOK
  PROVE  /\ wb \in Words /\ a \in Words /\ b \in Words /\ alu_result \in Words /\ pc_plus_imm \in Words
         /\ branch_taken \in BOOLEAN /\ redirect_target \in Words
         /\ Stall \in BOOLEAN /\ Flush \in BOOLEAN
         /\ byte_offset \in Offsets /\ data_read \in Words /\ NextMem \in Memories
<1> USE PipelineAssumption
<1>1. /\ MEMWB.ctl \in ControlType /\ EXMEM.ctl \in ControlType /\ IDEX.ctl \in ControlType
  BY ControlsAre DEF TypeOK
<1>2. wb \in Words
  BY WriteDataType DEF wb, TypeOK
<1>3. a \in Words /\ b \in Words
  BY <1>2 DEF a, b, Forwarded, TypeOK
<1>4. alu_result \in Words /\ pc_plus_imm \in Words
  BY <1>1, <1>3 DEF alu_result, pc_plus_imm, TypeOK, ControlType
<1>5. branch_taken \in BOOLEAN /\ redirect_target \in Words
  BY <1>1, <1>3, <1>4 DEF branch_taken, redirect_target, TypeOK, ControlType
<1>6. Stall \in BOOLEAN /\ Flush \in BOOLEAN
  BY <1>1, <1>5 DEF Stall, Flush, TypeOK, ControlType
<1>7. byte_offset \in Offsets /\ data_read \in Words /\ NextMem \in Memories
  BY <1>1 DEF byte_offset, data_read, NextMem, TypeOK
<1>8. QED
  BY <1>2, <1>3, <1>4, <1>5, <1>6, <1>7

-----------------------------------------------------------------------------
(* The invariant *)

LEMMA InitIInv == Init => IInv
<1> SUFFICES ASSUME Init PROVE IInv
  OBVIOUS
<1> USE PipelineAssumption, NothingIs, NoControlIs
<1>1. TypeOK
  BY DEF Init, TypeOK
<1>2. OnPath /\ Decoded /\ LoadsAreAwaited
  BY DEF Init, OnPath, Decoded, LoadsAreAwaited
<1>3. ResultSound
  BY DEF Init, ResultSound, WriteData
<1>4. ZeroRegister
  BY DEF Init, ZeroRegister
<1>5. QED
  BY <1>1, <1>2, <1>3, <1>4 DEF IInv

LEMMA TypePreserved == IInv /\ Clock => TypeOK'
<1> SUFFICES ASSUME IInv, Clock PROVE TypeOK'
  OBVIOUS
<1> USE PipelineAssumption
<1>1. TypeOK
  BY DEF IInv
<1>2. program' \in Programs /\ mem' \in Memories /\ regfile' \in [Regs -> Words]
  <2>1. MEMWB.ctl.reg_write \in BOOLEAN /\ MEMWB.rd \in Regs /\ wb \in Words
    BY <1>1, LogicType, ControlsAre DEF TypeOK, ControlType
  <2>2. QED
    BY <1>1, <2>1, LogicType, BypassedReads DEF TypeOK, Clock
<1>3. PC' \in Words /\ IFID' \in [instruction : Instructions, pc : Words, pc4 : Words]
  BY <1>1, LogicType, NothingIs DEF TypeOK, Clock, NextPC, NextIFID
<1>4. IDEX' \in [ctl : Controls, rs1 : Regs, rs2 : Regs, rd : Regs, funct3 : Functs,
                 pc : Words, pc4 : Words, read1 : Words, read2 : Words, imm : Words]
  <2>1. /\ MEMWB.ctl.reg_write \in BOOLEAN /\ MEMWB.rd \in Regs /\ wb \in Words
        /\ regfile \in [Regs -> Words] /\ IFID.pc \in Words /\ IFID.pc4 \in Words
        /\ IFID.instruction \in Instructions
    BY <1>1, LogicType, ControlsAre DEF TypeOK, ControlType
  <2>2. \A r \in Regs : Bypassed(r, Read(regfile, r), MEMWB.ctl.reg_write, MEMWB.rd, wb) \in Words
    BY <2>1, BypassedReads
  <2>3. /\ IFID.instruction.rs1 \in Regs /\ IFID.instruction.rs2 \in Regs /\ IFID.instruction.rd \in Regs
        /\ IFID.instruction.funct3 \in Functs /\ IFID.instruction.imm \in Words
    BY <2>1 DEF Instructions
  <2>4. Control(IFID.instruction) \in Controls /\ NoControl \in Controls
    BY <2>1, ControlIs, NoControlIs
  <2>5. IDEX' = NextIDEX
    BY DEF Clock
  <2>6. QED
    BY <2>1, <2>2, <2>3, <2>4, <2>5 DEF NextIDEX
<1>5. EXMEM' \in [ctl : Controls, rd : Regs, funct3 : Functs, alu_result : Words, pc4 : Words,
                  imm : Words, pc_plus_imm : Words, result : Words, store_data : Words]
  <2>1. WriteData(IDEX.ctl, alu_result, Zero, IDEX.pc4, IDEX.imm, pc_plus_imm) \in Words
    BY <1>1, LogicType, WriteDataType DEF TypeOK
  <2>2. b \in Words /\ alu_result \in Words /\ pc_plus_imm \in Words
    BY <1>1, LogicType
  <2>3. EXMEM' = NextEXMEM
    BY DEF Clock
  <2>4. QED
    BY <1>1, <2>1, <2>2, <2>3 DEF TypeOK, NextEXMEM
<1>6. MEMWB' \in [ctl : Controls, rd : Regs, funct3 : Functs, alu_result : Words, pc4 : Words,
                  imm : Words, pc_plus_imm : Words, load_data : Words, byte_offset : Offsets]
  <2>1. byte_offset \in Offsets /\ data_read \in Words
    BY <1>1, LogicType
  <2>2. MEMWB' = NextMEMWB
    BY DEF Clock
  <2>3. QED
    BY <1>1, <2>1, <2>2 DEF TypeOK, NextMEMWB
<1>7. live' \in [IFID : BOOLEAN, IDEX : BOOLEAN]
  BY <1>1, LogicType DEF TypeOK, Clock
<1>8. QED
  BY <1>2, <1>3, <1>4, <1>5, <1>6, <1>7 DEF TypeOK

\* A redirect comes only from what is live in EX, and never with a stall.
LEMMA StallOrFlush ==
  ASSUME IInv
  PROVE  /\ Stall => ~Flush /\ live.IDEX
         /\ Flush => live.IDEX
         /\ live.IDEX => live.IFID
<1>1. TypeOK /\ IDEX.ctl \in Controls
  BY DEF IInv, TypeOK
<1>2. ~live.IDEX => IDEX.ctl = NoControl
  BY DEF IInv, Decoded
<1>3. Stall => ~Flush
  BY <1>1, ControlsAre DEF Stall, Flush, branch_taken
<1>4. ~live.IDEX => ~Stall /\ ~Flush
  BY <1>2, NoControlIs DEF Stall, Flush, branch_taken
<1>5. live.IDEX => live.IFID
  BY DEF IInv, OnPath
<1>6. QED
  BY <1>3, <1>4, <1>5

LEMMA ClockIInv == IInv /\ Clock => IInv'
<1> SUFFICES ASSUME IInv, Clock PROVE IInv'
  OBVIOUS
<1> USE PipelineAssumption
<1>1. TypeOK /\ TypeOK'
  BY TypePreserved DEF IInv
<1>2. /\ PC' = NextPC /\ IFID' = NextIFID /\ IDEX' = NextIDEX /\ EXMEM' = NextEXMEM
      /\ live'.IFID = (IF Stall THEN live.IFID ELSE ~Flush)
      /\ live'.IDEX = (live.IFID /\ ~Stall /\ ~Flush)
      /\ program' = program /\ regfile' = Written(regfile, MEMWB.ctl.reg_write, MEMWB.rd, wb)
  BY DEF Clock
<1>3. live'.IDEX => /\ live.IFID /\ ~Stall /\ ~Flush
                    /\ IDEX'.ctl = Control(IFID.instruction) /\ IDEX'.pc = IFID.pc /\ IDEX'.pc4 = IFID.pc4
                    /\ IDEX'.rs1 = IFID.instruction.rs1 /\ IDEX'.rs2 = IFID.instruction.rs2
                    /\ IDEX'.rd = IFID.instruction.rd /\ IDEX'.funct3 = IFID.instruction.funct3
                    /\ IDEX'.imm = IFID.instruction.imm
  BY <1>2 DEF NextIDEX
<1>4. ~live'.IDEX => IDEX'.ctl = NoControl
  BY <1>2 DEF NextIDEX, IInv, OnPath, NoControl
<1>5. LoadsAreAwaited'
  <2> SUFFICES ASSUME live'.IDEX, EXMEM'.ctl.mem_to_reg, EXMEM'.rd # x0
               PROVE  EXMEM'.rd \notin {IDEX'.rs1, IDEX'.rs2}
    BY DEF LoadsAreAwaited
  <2>1. EXMEM'.ctl = IDEX.ctl /\ EXMEM'.rd = IDEX.rd
    BY <1>2 DEF NextEXMEM
  <2>2. IDEX.ctl.mem_read
    BY <2>1, <1>1, ControlsAre DEF TypeOK
  <2>3. QED
    BY <1>3, <2>1, <2>2 DEF Stall
<1>6. OnPath'
  <2>1. CASE Stall
    BY <2>1, <1>1, <1>2, <1>4, StallOrFlush DEF IInv, OnPath, NextPC, NextIFID
  <2>2. CASE ~Stall /\ Flush
    BY <2>2, <1>2, <1>4 DEF OnPath, NextIFID
  <2>3. CASE ~Stall /\ ~Flush
    <3>1. /\ IFID' = [instruction |-> Fetch(program, PC), pc |-> PC, pc4 |-> Plus(PC, Four)]
          /\ PC' = Plus(PC, Four) /\ live'.IFID /\ live'.IDEX = live.IFID
      BY <2>3, <1>1, <1>2 DEF NextIFID, NextPC, TypeOK
    <3>2. live.IFID => IFID.pc4 = Plus(IFID.pc, Four) /\ PC = IFID.pc4
      BY DEF IInv, OnPath
    <3>3. QED
      BY <1>2, <1>3, <1>4, <3>1, <3>2 DEF OnPath
  <2>4. QED
    BY <2>1, <2>2, <2>3, LogicType, <1>1
<1>7. Decoded'
  <2>1. CASE live'.IDEX
    <3>1. IFID.instruction = Fetch(program, IFID.pc) /\ IFID.instruction \in Instructions
      BY <2>1, <1>1, <1>3 DEF IInv, OnPath, TypeOK
    <3>2. /\ regfile \in [Regs -> Words] /\ wb \in Words /\ MEMWB.rd \in Regs /\ MEMWB.ctl.reg_write \in BOOLEAN
          /\ IFID.instruction.rs1 \in Regs /\ IFID.instruction.rs2 \in Regs
      BY <3>1, <1>1, LogicType, ControlsAre DEF TypeOK, ControlType, Instructions
    <3>3. /\ IDEX'.read1 = Bypassed(IFID.instruction.rs1, Read(regfile, IFID.instruction.rs1),
                                    MEMWB.ctl.reg_write, MEMWB.rd, wb)
          /\ IDEX'.read2 = Bypassed(IFID.instruction.rs2, Read(regfile, IFID.instruction.rs2),
                                    MEMWB.ctl.reg_write, MEMWB.rd, wb)
      BY <1>2 DEF NextIDEX
    <3>4. IDEX'.read1 = Read(regfile', IFID.instruction.rs1) /\ IDEX'.read2 = Read(regfile', IFID.instruction.rs2)
      <4>1. regfile' = Written(regfile, MEMWB.ctl.reg_write, MEMWB.rd, wb)
        BY <1>2
      <4>2. \A r \in Regs : Bypassed(r, Read(regfile, r), MEMWB.ctl.reg_write, MEMWB.rd, wb)
                             = Read(Written(regfile, MEMWB.ctl.reg_write, MEMWB.rd, wb), r)
        BY <3>2 DEF Bypassed, Read, Written
      <4>3. QED
        BY <3>2, <3>3, <4>1, <4>2
    <3>5. QED
      BY <2>1, <1>2, <1>3, <3>1, <3>4 DEF Decoded
  <2>2. CASE ~live'.IDEX
    BY <2>2, <1>4 DEF Decoded
  <2>3. QED
    BY <2>1, <2>2
<1>8. ResultSound'
  BY <1>2 DEF ResultSound, NextEXMEM
<1>9. ZeroRegister'
  <2>1. regfile \in [Regs -> Words] /\ wb \in Words /\ MEMWB.rd \in Regs /\ MEMWB.ctl.reg_write \in BOOLEAN
    BY <1>1, LogicType, ControlsAre DEF TypeOK, ControlType
  <2>2. regfile'[x0] = regfile[x0]
    <3>1. regfile' = Written(regfile, MEMWB.ctl.reg_write, MEMWB.rd, wb)
      BY <1>2
    <3>2. Written(regfile, MEMWB.ctl.reg_write, MEMWB.rd, wb)[x0] = regfile[x0]
      BY <2>1 DEF Written
    <3>3. QED
      BY <3>1, <3>2
  <2>3. QED
    BY <2>2 DEF IInv, ZeroRegister
<1>10. QED
  BY <1>1, <1>5, <1>6, <1>7, <1>8, <1>9 DEF IInv

LEMMA StutterIInv == IInv /\ UNCHANGED vars => IInv'
<1> SUFFICES ASSUME IInv, UNCHANGED vars PROVE IInv'
  OBVIOUS
<1> USE DEF vars, banks, IInv
<1>1. TypeOK' /\ LoadsAreAwaited' /\ OnPath'
  BY DEF TypeOK, LoadsAreAwaited, OnPath
<1>2. Decoded' /\ ResultSound' /\ ZeroRegister'
  BY DEF Decoded, ResultSound, ZeroRegister
<1>3. QED
  BY <1>1, <1>2

LEMMA Invariance == Spec => []IInv
BY InitIInv, ClockIInv, StutterIInv, PTL DEF Spec

\* The registers have their widths.
THEOREM TypeCorrect == Spec => []TypeOK
BY Invariance, PTL DEF IInv

\* The hazard unit keeps every instruction that needs a load's result out of EX
\* for as long as the result is not there (RV32I_HazardUnit).
THEOREM LoadsAwaited == Spec => []LoadsAreAwaited
BY Invariance, PTL DEF IInv

\* Only instructions that belong to the program's path are executed, in their
\* order; what a redirect overtakes becomes bubbles (RV32I_IFID_Regs, RV32I_IDEX_Regs).
THEOREM StaysOnPath == Spec => []OnPath
BY Invariance, PTL DEF IInv

-----------------------------------------------------------------------------
(* The pipeline implements Isa *)

final == WriteData(EXMEM.ctl, EXMEM.alu_result, Align(data_read, Offset(EXMEM.alu_result), EXMEM.funct3),
                   EXMEM.pc4, EXMEM.imm, EXMEM.pc_plus_imm)
retired == Written(regfile, MEMWB.ctl.reg_write, MEMWB.rd, wb)

LEMMA FinalType == TypeOK => final \in Words /\ retired \in [Regs -> Words]
<1> SUFFICES ASSUME TypeOK PROVE final \in Words /\ retired \in [Regs -> Words]
  OBVIOUS
<1>1. Align(data_read, Offset(EXMEM.alu_result), EXMEM.funct3) \in Words
  BY PipelineAssumption, LogicType DEF TypeOK
<1>2. final \in Words
  BY <1>1, WriteDataType DEF final, TypeOK
<1>3. retired \in [Regs -> Words]
  BY LogicType DEF retired, Written, TypeOK
<1>4. QED
  BY <1>2, <1>3

\* Forwarding gives an instruction in EX the registers as the program sees them.
LEMMA OperandsAreArch ==
  ASSUME IInv, live.IDEX
  PROVE  /\ ArchRegs \in [Regs -> Words]
         /\ a = ArchRegs[IDEX.rs1] /\ b = ArchRegs[IDEX.rs2]
<1>1. TypeOK
  BY DEF IInv
<1>2. ArchRegs = Written(retired, EXMEM.ctl.reg_write, EXMEM.rd, final)
  BY DEF ArchRegs, retired, final
<1>3. /\ retired \in [Regs -> Words] /\ final \in Words /\ regfile \in [Regs -> Words] /\ wb \in Words
      /\ EXMEM.rd \in Regs /\ MEMWB.rd \in Regs /\ IDEX.rs1 \in Regs /\ IDEX.rs2 \in Regs
  BY <1>1, FinalType, LogicType DEF TypeOK
<1>4. IDEX.read1 = Read(regfile, IDEX.rs1) /\ IDEX.read2 = Read(regfile, IDEX.rs2)
  BY DEF IInv, Decoded
<1>5. ASSUME EXMEM.rd # x0, EXMEM.rd \in {IDEX.rs1, IDEX.rs2} PROVE EXMEM.result = final
  <2>1. ~EXMEM.ctl.mem_to_reg
    BY <1>5 DEF IInv, LoadsAreAwaited
  <2>2. QED
    BY <2>1 DEF IInv, ResultSound, final, WriteData
<1>6. ASSUME NEW r \in {IDEX.rs1, IDEX.rs2}
      PROVE  Forwarded(r, Read(regfile, r)) = Written(retired, EXMEM.ctl.reg_write, EXMEM.rd, final)[r]
  <2>1. CASE EXMEM.ctl.reg_write /\ EXMEM.rd # x0 /\ EXMEM.rd = r
    BY <2>1, <1>3, <1>5 DEF Forwarded, Written
  <2>2. CASE ~(EXMEM.ctl.reg_write /\ EXMEM.rd # x0 /\ EXMEM.rd = r)
    <3>1. Written(retired, EXMEM.ctl.reg_write, EXMEM.rd, final)[r] = retired[r]
      BY <2>2, <1>3 DEF Written
    <3>2. CASE MEMWB.ctl.reg_write /\ MEMWB.rd # x0 /\ MEMWB.rd = r
      BY <2>2, <3>1, <3>2, <1>3 DEF Forwarded, Written, retired
    <3>3. CASE ~(MEMWB.ctl.reg_write /\ MEMWB.rd # x0 /\ MEMWB.rd = r)
      <4>1. retired[r] = regfile[r]
        BY <3>3, <1>3 DEF retired, Written
      <4>2. Forwarded(r, Read(regfile, r)) = Read(regfile, r)
        BY <2>2, <3>3 DEF Forwarded
      <4>3. Read(regfile, r) = regfile[r]
        BY DEF Read, IInv, ZeroRegister
      <4>4. QED
        BY <3>1, <4>1, <4>2, <4>3
    <3>4. QED
      BY <3>2, <3>3
  <2>3. QED
    BY <2>1, <2>2
<1>7. ArchRegs \in [Regs -> Words]
  BY <1>2, <1>3 DEF Written
<1>8. QED
  BY <1>2, <1>4, <1>6, <1>7 DEF a, b

\* What is in MEM is written to its register as WB gives it a cycle later.
LEMMA ArchRegsIsRetired == Clock => ArchRegs = retired'
<1> SUFFICES ASSUME Clock PROVE ArchRegs = retired'
  OBVIOUS
<1>1. regfile' = retired /\ MEMWB' = NextMEMWB
  BY DEF Clock, retired
<1>2. wb' = final
  BY <1>1 DEF wb, final, NextMEMWB, byte_offset
<1>3. MEMWB'.ctl = EXMEM.ctl /\ MEMWB'.rd = EXMEM.rd
  BY <1>1 DEF NextMEMWB
<1>4. retired' = Written(regfile', MEMWB'.ctl.reg_write, MEMWB'.rd, wb')
  BY DEF retired
<1>5. QED
  BY <1>1, <1>2, <1>3, <1>4 DEF ArchRegs, retired, final

\* A cycle with a bubble in EX changes nothing the program sees.
LEMMA BubbleRefines == IInv /\ Clock /\ ~live.IDEX => UNCHANGED Arch!vars
<1> SUFFICES ASSUME IInv, Clock, ~live.IDEX PROVE UNCHANGED Arch!vars
  OBVIOUS
<1>1. IDEX.ctl = NoControl /\ ~Stall /\ ~Flush
  BY StallOrFlush DEF IInv, Decoded
<1>2. EXMEM'.ctl = NoControl
  BY <1>1 DEF Clock, NextEXMEM
<1>3. ArchRegs' = ArchRegs
  <2>1. ArchRegs' = Written(retired', EXMEM'.ctl.reg_write, EXMEM'.rd, final')
    BY DEF ArchRegs, retired, final
  <2>2. QED
    BY <1>2, <2>1, NoControlIs, ArchRegsIsRetired DEF Written
<1>4. NextMem' = NextMem
  <2>1. NextMem' = mem'
    BY <1>2, NoControlIs DEF NextMem
  <2>2. QED
    BY <2>1 DEF Clock
<1>5. ArchPc' = ArchPc
  <2>1. live'.IFID /\ live'.IDEX = live.IFID
    BY <1>1 DEF Clock, IInv, TypeOK
  <2>2. IFID'.pc = PC /\ IDEX'.pc = IFID.pc
    BY <1>1 DEF Clock, NextIFID, NextIDEX
  <2>3. QED
    BY <2>1, <2>2 DEF ArchPc
<1>6. QED
  BY <1>3, <1>4, <1>5 DEF Arch!vars, Clock

\* An instruction takes effect as it leaves EX.
LEMMA ExecuteRefines == IInv /\ Clock /\ live.IDEX => Arch!Step
<1> SUFFICES ASSUME IInv, Clock, live.IDEX PROVE Arch!Step
  OBVIOUS
<1> USE PipelineAssumption
<1> DEFINE i == Fetch(program, IDEX.pc)
<1>1. TypeOK /\ TypeOK' /\ ArchPc = IDEX.pc /\ live.IFID
  BY TypePreserved, StallOrFlush DEF IInv, ArchPc
<1>2. /\ IDEX.ctl = Control(i) /\ IDEX.rs1 = i.rs1 /\ IDEX.rs2 = i.rs2 /\ IDEX.rd = i.rd
      /\ IDEX.funct3 = i.funct3 /\ IDEX.imm = i.imm
  BY DEF IInv, Decoded
<1>3. i \in Instructions /\ IDEX.pc \in Words /\ i.imm \in Words /\ i.funct3 \in Functs /\ i.rd \in Regs /\ i.op \in Ops
  <2>1. i \in Instructions /\ IDEX.pc \in Words
    BY <1>1 DEF TypeOK
  <2>2. QED
    BY <2>1 DEF Instructions
<1>4. a = ArchRegs[i.rs1] /\ b = ArchRegs[i.rs2] /\ a \in Words /\ b \in Words
  BY <1>1, <1>2, OperandsAreArch, LogicType
<1>5. IDEX.pc4 = Plus(IDEX.pc, Four) /\ IFID.pc = IDEX.pc4
  BY DEF IInv, OnPath
<1> HIDE DEF i
<1>6. /\ i.op = "op" => alu_result = Alu(i.fn, a, b)
      /\ i.op = "op-imm" => alu_result = Alu(i.fn, a, i.imm)
      /\ i.op \in {"load", "store", "jalr"} => alu_result = Plus(a, i.imm)
      /\ pc_plus_imm = Plus(IDEX.pc, i.imm)
  <2>1. i.fn \in AluOps
    BY <1>3 DEF Instructions
  <2>2. QED
    BY <1>2, <1>3, <1>4, <2>1, ControlFields DEF alu_result, pc_plus_imm
<1>7. ArchPc' = Arch!NextPc(i, a, b)
  <2>1. CASE Stall
    <3>1. IDEX.ctl.mem_read
      BY <2>1 DEF Stall
    <3>2. i.op = "load"
      BY <3>1, <1>2, <1>3, ControlFields
    <3>3. ArchPc' = IFID.pc
      BY <2>1, <1>1 DEF Clock, NextIFID, ArchPc
    <3>4. QED
      BY <3>2, <3>3, <1>1, <1>5 DEF Arch!NextPc
  <2>2. CASE Flush
    <3>1. ArchPc' = redirect_target
      BY <2>2, StallOrFlush DEF Clock, NextPC, ArchPc
    <3>2. redirect_target = Arch!NextPc(i, a, b)
      BY <2>2, <1>1, <1>2, <1>3, <1>4, <1>6, ControlFields
         DEF Flush, redirect_target, branch_taken, Arch!NextPc
    <3>3. QED
      BY <3>1, <3>2
  <2>3. CASE ~Stall /\ ~Flush
    <3>1. ArchPc' = IFID.pc
      BY <2>3, <1>1 DEF Clock, NextIDEX, ArchPc
    <3>2. Arch!NextPc(i, a, b) = Plus(IDEX.pc, Four)
      BY <2>3, <1>1, <1>2, <1>3, ControlFields DEF Flush, branch_taken, Arch!NextPc
    <3>3. QED
      BY <3>1, <3>2, <1>5
  <2>4. QED
    BY <2>1, <2>2, <2>3
<1>8. /\ EXMEM'.ctl = Control(i) /\ EXMEM'.rd = i.rd /\ EXMEM'.funct3 = i.funct3
      /\ EXMEM'.alu_result = alu_result /\ EXMEM'.pc4 = IDEX.pc4 /\ EXMEM'.imm = i.imm
      /\ EXMEM'.pc_plus_imm = pc_plus_imm /\ EXMEM'.store_data = b
      /\ mem' = NextMem /\ mem' \in Memories
  BY <1>1, <1>2 DEF Clock, NextEXMEM, TypeOK
<1>9. NextMem' = IF i.op = "store" THEN Store(NextMem, Plus(a, i.imm), i.funct3, b) ELSE NextMem
  BY <1>3, <1>6, <1>8, ControlFields DEF NextMem
<1>10. i.op \in Arch!Writers => final' = Arch!Result(i, a, b)
  <2>1. final' = WriteData(Control(i), alu_result, Align(data_read', Offset(alu_result), i.funct3),
                           IDEX.pc4, i.imm, pc_plus_imm)
    BY <1>8 DEF final
  <2>2. i.op = "load" => Align(data_read', Offset(alu_result), i.funct3) = Load(NextMem, Plus(a, i.imm), i.funct3)
    <3>1. i.op = "load" => data_read' = ReadWord(mem', alu_result)
      BY <1>3, <1>8, ControlFields DEF data_read
    <3>2. alu_result \in Words
      BY <1>1, LogicType
    <3>3. QED
      BY <3>1, <3>2, <1>3, <1>6, <1>8
  <2>3. QED
    BY <2>1, <2>2, <1>1, <1>3, <1>5, <1>6, ControlFields DEF WriteData, Arch!Writers, Arch!Result
<1>11. ArchRegs' = IF i.op \in Arch!Writers /\ i.rd # x0
                   THEN [ArchRegs EXCEPT ![i.rd] = Arch!Result(i, a, b)] ELSE ArchRegs
  <2>1. ArchRegs' = Written(ArchRegs, Control(i).reg_write, i.rd, final')
    <3>1. ArchRegs' = Written(retired', EXMEM'.ctl.reg_write, EXMEM'.rd, final')
      BY DEF ArchRegs, retired, final
    <3>2. QED
      BY <3>1, <1>8, ArchRegsIsRetired
  <2>2. Control(i).reg_write <=> i.op \in Arch!Writers
    BY <1>3, ControlFields DEF Ops, Arch!Writers
  <2>3. QED
    BY <2>1, <2>2, <1>10 DEF Written
<1>12. QED
  BY <1>1, <1>4, <1>7, <1>9, <1>11 DEF Arch!Step, Clock, i

LEMMA InitRefines == Init => Arch!Init
<1> SUFFICES ASSUME Init PROVE Arch!Init
  OBVIOUS
<1>1. ArchPc = Zero /\ NextMem = mem
  BY NoControlIs DEF Init, ArchPc, NextMem
<1>2. ArchRegs = regfile
  BY NoControlIs DEF Init, ArchRegs, Written
<1>3. QED
  BY <1>1, <1>2 DEF Init, Arch!Init

LEMMA NextRefines == IInv /\ [Clock]_vars => [Arch!Step]_Arch!vars
<1>1. IInv /\ Clock => [Arch!Step]_Arch!vars
  BY BubbleRefines, ExecuteRefines
<1>2. UNCHANGED vars => UNCHANGED Arch!vars
  BY DEF vars, banks, Arch!vars, ArchPc, ArchRegs, NextMem, wb, data_read
<1>3. QED
  BY <1>1, <1>2

\* The pipelined core computes what executing one instruction after another
\* computes, for every program (RV32I_Core).
THEOREM PipelineImplementsIsa == Spec => ImplementsIsa
BY Invariance, InitRefines, NextRefines, PTL DEF Spec, ImplementsIsa, Arch!Spec
=============================================================================
