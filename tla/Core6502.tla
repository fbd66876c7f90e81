------------------------------ MODULE Core6502 ------------------------------
(***************************************************************************)
(* MOS6502_Core, one clock cycle at a time.  Every cycle is a bus cycle:   *)
(* the core reads or writes the byte at the address it registered on the   *)
(* cycle before, and the decode PLA turns the instruction register and the *)
(* T state into what every block does on this clock edge.                  *)
(***************************************************************************)
EXTENDS Mos6502

CONSTANTS
  Machines,    \* programs and their data: functions from addresses to bytes
  Fill,        \* the byte that memory holds elsewhere
  PinCycles    \* in how many cycles irq, nmi or reset may be high, by machine

ASSUME MachineAssumption ==
  /\ \A m \in Machines : DOMAIN m \subseteq Words /\ m \in [DOMAIN m -> Bytes]
  /\ Fill \in Bytes

VARIABLES
  timing,      \* the registers of TimingGenerator
  instr,       \* the instruction register, as the opcode table decodes it
  pc, ab,      \* the program counter and the address bus registers
  latch,       \* the input latch, the byte to write, and whether to write it
  regs, p,     \* A, X, Y and S, and the status register
  mem,         \* the memory outside the core
  pins,        \* cycles left in which a pin may be high
  bus,         \* history: the bus cycles since the last opcode fetch
  outcome,     \* history: what was left when the last opcode fetch began
  owed         \* history: an edge on nmi whose vector has not been read

core == <<timing, instr, pc, ab, latch, regs, p>>
vars == <<core, mem, pins, bus, outcome, owed>>

ByteAt(m, addr) == IF addr \in DOMAIN m THEN m[addr] ELSE Fill

hw == timing.kind # "brk"
resetting == timing.kind = "reset"

-----------------------------------------------------------------------------
(* The decode PLA: the control lines of a cycle, given as what differs from *)
(* an idle cycle, in which the core reads the byte at PC.                   *)

Idle == [end |-> FALSE, inc |-> FALSE, load |-> FALSE, adl |-> "PC", adh |-> "PC",
         sb |-> "0", db |-> "0", op |-> "ADD", cin |-> 0, dec |-> FALSE, dst |-> "none",
         dlLoad |-> FALSE, write |-> FALSE, dor |-> "A", pushB |-> 0,
         pLoad |-> FALSE, flags |-> {}, fop |-> <<>>,
         acrLoad |-> FALSE, acrBranch |-> FALSE, intTake |-> FALSE]

End == [end |-> TRUE]
Operand == [inc |-> TRUE, dlLoad |-> TRUE]
Address(adl, adh) == [adl |-> adl, adh |-> adh]
Jump == [load |-> TRUE] ++ Address("DL", "DATA")
Hold == Address("ABL", "ABH")
Stack == Address("S", "STACK")
\* The ALU adds a register to DL, counts one on, or fixes a high byte.
Add(sb) == [sb |-> sb, db |-> "DL"]
OneOn == [sb |-> "ABL", cin |-> 1]
FixHigh == [sb |-> "ABH", cin |-> timing.acr, adl |-> "ABL", adh |-> "ALU"]
\* The stack pointer goes one up or down, through the ALU to the address bus.
Up == [sb |-> "S", cin |-> 1, dst |-> "S"]
Down == [sb |-> "S", op |-> "SUB", dst |-> "S"]
OnStack == Address("ALU", "STACK")
Write(source) == [write |-> TRUE, dor |-> source]

\* The instruction's own operation.
Exec == [op |-> instr.op, sb |-> instr.sb, db |-> instr.db, dec |-> instr.dec /\ p.d = 1, dst |-> instr.dst,
         cin |-> CASE instr.cin = "1" -> 1 [] instr.cin = "C" -> p.c [] OTHER -> 0,
         pLoad |-> instr.dst = "P", flags |-> instr.flags, fop |-> instr.fop]

\* A taken branch that stays on its page fetches on its fourth cycle.
fetch == timing.t = 0 \/ (instr.mode = "REL" /\ timing.t = 3 /\ timing.acr = 0)

index == IF instr.mode \in {"ZPY", "ABY", "IZY"} THEN "Y" ELSE "X"
\* A mutant: writes, too, are spared the cycle when the index stays on the page.
crossOnly == timing.acr = 1
crossOrNotRead == timing.acr = 1 \/ instr.access # "READ"
Fix == IF crossOrNotRead THEN <<FixHigh>> ELSE <<>>
Indexed == Add(index) ++ Address("ALU", "DATA") ++ [acrLoad |-> TRUE]
ZeroPage(adl) == Address(adl, "ZERO")

\* The cycles that bring the effective address of an operand in memory onto
\* the address bus.
Addressing ==
  CASE instr.mode = "ZP" -> <<[inc |-> TRUE] ++ ZeroPage("DATA")>>
    [] instr.mode \in {"ZPX", "ZPY"} -> <<Operand ++ ZeroPage("DATA"), Add(index) ++ ZeroPage("ALU")>>
    [] instr.mode = "ABS" -> <<Operand, [inc |-> TRUE] ++ Address("DL", "DATA")>>
    [] instr.mode \in {"ABX", "ABY"} -> <<Operand, [inc |-> TRUE] ++ Indexed>> \o Fix
    [] instr.mode = "IZX" -> <<Operand ++ ZeroPage("DATA"), Add("X") ++ ZeroPage("ALU"),
                           [dlLoad |-> TRUE] ++ OneOn ++ ZeroPage("ALU"), Address("DL", "DATA")>>
    [] instr.mode = "IZY" -> <<[inc |-> TRUE] ++ ZeroPage("DATA"),
                           [dlLoad |-> TRUE] ++ OneOn ++ ZeroPage("ALU"), Indexed>> \o Fix

MemoryModes == {"ZP", "ZPX", "ZPY", "ABS", "ABX", "ABY", "IZX", "IZY"}

\* What follows on it: a read, a write, or a read, the same byte written back
\* and the result written.
Accessing ==
  CASE instr.access = "READ"  -> <<Exec ++ End>>
    [] instr.access = "WRITE" -> <<End>>
    [] instr.access = "RMW"   -> <<[dlLoad |-> TRUE] ++ Write("DATA") ++ Hold,
                               Exec ++ Write("ALU") ++ Hold, End>>

MemorySteps ==
  LET toEa == Len(Addressing)
  IN [k \in 1..toEa |-> IF k = toEa /\ instr.access = "WRITE"
                        THEN Write(instr.store) ++ Addressing[k] ELSE Addressing[k]] \o Accessing

BranchSteps ==
  LET back == timing.adir = 1
  IN <<Operand ++ [end |-> ~Taken(instr.cond, p)],
       Add("PCL") ++ Address("ALU", "PC") ++ [load |-> TRUE, acrLoad |-> TRUE, acrBranch |-> TRUE],
       Address("PC", "ALU") ++ [load |-> TRUE, sb |-> "PCH", op |-> IF back THEN "SUB" ELSE "ADD",
                                cin |-> IF back THEN 0 ELSE 1] ++ End>>

\* BRK, IRQ, NMI and reset share one sequence; reset turns its pushes into reads.
InterruptSteps ==
  LET push(source) == [write |-> ~resetting, dor |-> source]
  IN <<[inc |-> ~hw] ++ Stack ++ push("PCH"),
       Down ++ OnStack ++ push("PCL"),
       Down ++ OnStack ++ push("P") ++ [pushB |-> IF hw THEN 0 ELSE 1],
       Down ++ Address("VECTOR", "FF") ++ [intTake |-> TRUE, fop |-> <<"i", 1>>],
       [dlLoad |-> TRUE] ++ OneOn ++ Address("ALU", "ABH"),
       Jump ++ End>>

Steps ==
  CASE instr.mode \in MemoryModes -> MemorySteps
    [] instr.mode = "IMP" -> <<Exec ++ End>>
    [] instr.mode = "IMM" -> <<Exec ++ End ++ [inc |-> TRUE]>>
    [] instr.mode = "REL" -> BranchSteps
    [] instr.mode = "JMP_ABS" -> <<Operand, Jump ++ End>>
    [] instr.mode = "JMP_IND" -> <<Operand, Address("DL", "DATA"),
                               [dlLoad |-> TRUE] ++ OneOn ++ Address("ALU", "ABH"), Jump ++ End>>
    [] instr.mode = "JSR_ABS" -> <<Operand ++ Stack, Hold ++ Write("PCH"),
                               Down ++ OnStack ++ Write("PCL"), Down, Jump ++ End>>
    [] instr.mode = "RTS_IMP" -> <<Stack, Up ++ OnStack, [dlLoad |-> TRUE] ++ Up ++ OnStack,
                               Jump, [inc |-> TRUE] ++ End>>
    [] instr.mode = "RTI_IMP" -> <<Stack, Up ++ OnStack, [pLoad |-> TRUE] ++ Up ++ OnStack,
                               [dlLoad |-> TRUE] ++ Up ++ OnStack, Jump ++ End>>
    [] instr.mode = "BRK_IMP" -> InterruptSteps
    [] instr.mode = "PUSH" -> <<Stack ++ Write(instr.store) ++ [pushB |-> 1], Down ++ End>>
    [] instr.mode = "PULL" -> <<Stack, Up ++ OnStack, Exec ++ End>>

Control ==
  IF fetch THEN [inc |-> ~timing.pending] ++ Idle
  ELSE IF timing.t \in DOMAIN Steps THEN Steps[timing.t] ++ Idle
  ELSE Idle

-----------------------------------------------------------------------------
(* What the blocks do with them.                                           *)

data == ByteAt(mem, ab)
rw == ~latch.wr

SB(c) ==
  CASE c.sb \in {"A", "X", "Y", "S"} -> regs[c.sb]
    [] c.sb = "DL"  -> latch.dl
    [] c.sb = "PCL" -> Low(pc)
    [] c.sb = "PCH" -> High(pc)
    [] c.sb = "ABL" -> Low(ab)
    [] c.sb = "ABH" -> High(ab)
    [] c.sb = "0"   -> 0

DB(c) ==
  CASE c.db = "DATA" -> data
    [] c.db = "DL"   -> latch.dl
    [] c.db = "0"    -> 0

\* PC, plus one when it is incremented.
PCS(c) == IF c.inc THEN (pc + 1) % 65536 ELSE pc

\* An NMI that arrives during the sequence takes over its vector.
vec == IF timing.nmi_latch THEN \hfa ELSE IF resetting THEN \hfc ELSE \hfe

ADL(c, alu) ==
  CASE c.adl = "PC"     -> Low(PCS(c))
    [] c.adl = "DL"     -> latch.dl
    [] c.adl = "DATA"   -> data
    [] c.adl = "ALU"    -> alu.result
    [] c.adl = "S"      -> regs.S
    [] c.adl = "VECTOR" -> vec
    [] c.adl = "ABL"    -> Low(ab)

ADH(c, alu) ==
  CASE c.adh = "PC"    -> High(PCS(c))
    [] c.adh = "DATA"  -> data
    [] c.adh = "ALU"   -> alu.result
    [] c.adh = "ZERO"  -> \h00
    [] c.adh = "STACK" -> \h01
    [] c.adh = "FF"    -> \hff
    [] c.adh = "ABH"   -> High(ab)

\* The byte to write on the next cycle.
DOR(c, alu) ==
  CASE c.dor \in {"A", "X", "Y"} -> regs[c.dor]
    [] c.dor = "P"    -> Pack(p, c.pushB)
    [] c.dor = "PCH"  -> High(PCS(c))
    [] c.dor = "PCL"  -> Low(PCS(c))
    [] c.dor = "ALU"  -> alu.result
    [] c.dor = "DATA" -> data

\* A mutant: taking the vector wins over an edge in the same cycle.
NmiLatchDropped(c, edge, reset) == ~reset /\ ~c.intTake /\ (edge \/ timing.nmi_latch)
NmiLatch(c, edge, reset) == ~reset /\ (edge \/ (timing.nmi_latch /\ ~c.intTake))

\* Interrupts are polled in the last cycle of an instruction; the fetch that
\* follows then loads BRK.
TimingLogic(c, alu, irq, nmi, reset) ==
  LET edge == nmi /\ ~timing.nmi_prev
      neg == Bit(DB(c), 7)
  IN [t |-> IF reset \/ fetch THEN 1 ELSE IF c.end THEN 0 ELSE (timing.t + 1) % 8,
      acr |-> IF ~c.acrLoad THEN timing.acr
              ELSE IF c.acrBranch THEN (alu.c + neg) % 2 ELSE alu.c,
      adir |-> IF ~c.acrLoad THEN timing.adir ELSE IF c.acrBranch THEN neg ELSE 0,
      pending |-> /\ ~reset
                  /\ IF c.end THEN timing.nmi_latch \/ edge \/ (irq /\ p.i = 0)
                     ELSE timing.pending /\ ~fetch,
      kind |-> IF reset THEN "reset"
               ELSE IF ~fetch THEN timing.kind
               ELSE IF ~timing.pending THEN "brk"
               ELSE IF timing.nmi_latch THEN "nmi" ELSE "irq",
      nmi_prev |-> nmi,
      nmi_latch |-> NmiLatch(c, edge, reset)]

-----------------------------------------------------------------------------
(* The blocks with registers, on a clock edge.                             *)

TimingGenerator(c, alu, irq, nmi, reset) == timing' = TimingLogic(c, alu, irq, nmi, reset)

\* An interrupt, or reset, puts BRK in the place of the opcode.
InstructionDecode(reset) ==
  LET brk == reset \/ (fetch /\ timing.pending)
  IN instr' = IF brk \/ fetch THEN Decoded[IF brk THEN 0 ELSE data] ELSE instr

ProgramCounter(c, next) == pc' = IF c.load THEN next ELSE PCS(c)
AddressBus(next) == ab' = next

DataLatch(c, alu) ==
  latch' = [dl |-> IF c.dlLoad THEN data ELSE latch.dl, dor |-> DOR(c, alu), wr |-> c.write]

Registers(c, alu) ==
  regs' = IF c.dst \in DOMAIN regs THEN [regs EXCEPT ![c.dst] = alu.result] ELSE regs

StatusRegister(c, alu) == p' = Status(p, alu, data, c.pLoad, c.flags, c.fop)

\* A clock cycle, with what is on the interrupt and reset pins.
Cycle(irq, nmi, reset) ==
  \E c \in {Control} : \E alu \in {ALU(c.op, SB(c), DB(c), c.cin, c.dec)} :
  \E next \in {Word(ADL(c, alu), ADH(c, alu))} :
     /\ TimingGenerator(c, alu, irq, nmi, reset) /\ InstructionDecode(reset)
     /\ ProgramCounter(c, next) /\ AddressBus(next) /\ DataLatch(c, alu)
     /\ Registers(c, alu) /\ StatusRegister(c, alu)

\* The memory takes the byte of a write cycle.
Memory == mem' = IF rw THEN mem ELSE [addr \in {ab} |-> latch.dor] ++ mem

-----------------------------------------------------------------------------
(* The core with its memory, and pins that are high now and then.          *)

\* What an instruction, an interrupt or reset has come to, when an opcode fetch
\* follows.
due == IF ~timing.pending THEN "none" ELSE IF timing.nmi_latch THEN "nmi" ELSE "irq"
Outcome == [pc |-> pc, regs |-> regs, p |-> p, mem |-> mem, due |-> due, bus |-> bus]
NmiVector == \hfffa
BusCycle == IF rw THEN <<"read", ab>> ELSE <<"write", ab, latch.dor>>

Tick ==
  /\ \E irq, nmi, reset \in BOOLEAN :
       LET used == IF irq \/ nmi \/ reset THEN 1 ELSE 0
       IN /\ pins >= used /\ pins' = pins - used
          /\ Cycle(irq, nmi, reset)
          /\ owed' = (~reset /\ ((nmi /\ ~timing.nmi_prev) \/ (owed /\ ab # NmiVector)))
  /\ Memory
  /\ bus' = IF fetch THEN <<BusCycle>> ELSE Append(bus, BusCycle)
  /\ outcome' = IF fetch' THEN Outcome' ELSE outcome

\* Power-on is T1 of the reset sequence.
Init ==
  /\ timing = [t |-> 1, kind |-> "reset", acr |-> 0, adir |-> 0, pending |-> FALSE,
               nmi_prev |-> FALSE, nmi_latch |-> FALSE]
  /\ instr = Decoded[0] /\ pc = 0 /\ ab = 0
  /\ latch = [dl |-> 0, dor |-> 0, wr |-> FALSE]
  /\ regs = [A |-> 0, X |-> 0, Y |-> 0, S |-> 0]
  /\ p = Unpack(\h24)
  /\ mem \in Machines /\ pins = PinCycles[mem]
  /\ bus = <<>>
  /\ outcome = Outcome /\ owed = FALSE

Spec == Init /\ [][Tick]_vars /\ WF_vars(Tick)

-----------------------------------------------------------------------------
\* The cycles of the core add up to the instructions of a 6502, interrupts taken
\* between two of them and resets, with the bus cycles the datasheet gives each.
Arch == INSTANCE Isa6502 WITH
         pc <- outcome.pc, regs <- outcome.regs, p <- outcome.p, mem <- outcome.mem,
         due <- outcome.due, bus <- outcome.bus
ImplementsIsa == Arch!Spec

\* An NMI is not lost: after an edge on the pin the core comes to read its
\* vector, whatever sequence the edge falls in, unless reset intervenes.  A
\* program whose last loop is one branch to itself is deaf (Isa6502, Branch), so
\* the programs end in a jump to itself.
NmiServed == owed ~> ~owed
=============================================================================
