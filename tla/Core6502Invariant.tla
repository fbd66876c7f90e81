-------------------------- MODULE Core6502Invariant -------------------------
(* What holds of the clocked core between two edges of its clock: its types, and  *)
(* where it is in an instruction.  outcome is what the instruction before it left *)
(* (Isa6502's state): on each cycle the invariant says which bus cycles have been *)
(* made since, in what order, and what is in the registers and the latches, as a  *)
(* function of the outcome and of the instruction.  Core6502Proofs proves that it *)
(* holds, and that the end of each instruction is a step of Isa6502.              *)
EXTENDS Core6502

-----------------------------------------------------------------------------
(* Sets of values                                                          *)

\* What the ALU adds up to, and a bit.
Sums == {n \in Nat : n <= 511}
Bin == {0, 1}

\* The fields of the registers and of the status.
RegNames == {"A", "X", "Y", "S"}
FlagNames == {"n", "v", "d", "i", "z", "c"}

\* What the ALU gives, and is asked.
Flagged == [result : Bytes, c : Bin, v : Bin, n : Bin, z : Bin]
Ops == {"ADD", "SUB", "AND", "OR", "EOR", "SL", "SR"}

\* The lines that load flags, the flag operations, and the status.
FlagLines == {"n", "z", "c", "v", "bit"}
Fops == {<<>>} \cup ({"c", "i", "v", "d"} \X Bin)
Statuses == [FlagNames -> Bin]
-----------------------------------------------------------------------------
(* Records of control, and what the opcode table holds                     *)

\* The fields f has of a record of sets are each in its set.
Fits(f, sets) == \A x \in DOMAIN f : x \in DOMAIN sets => f[x] \in sets[x]

\* The addressing modes of the table, and instructions the decoder treats alike.
Modes == MemoryModes \cup {"IMP", "IMM", "REL", "JMP_ABS", "JMP_IND", "JSR_ABS", "RTS_IMP", "RTI_IMP",
                           "BRK_IMP", "PUSH", "PULL"}

Shifted == {"ASL", "ROL", "LSR", "ROR"}
Counted == {"INC", "DEC"}
Stored == {"STA", "STX", "STY"}

\* What the table says of an instruction n in a mode m.
Allowed(n, m) ==
  /\ m \in Modes
  /\ n \in Shifted \cup Counted => m \in MemoryModes \cup {"IMP"}
  /\ n \in Counted \cup Stored => m \in MemoryModes
  /\ m = "PULL" => n \in {"PLA", "PLP"}
  /\ m = "PUSH" => n \in {"PHA", "PHP"}

\* The fields of a decoded instruction.
InstrSets == [mode |-> Modes, cond |-> 0..7, op |-> Ops, sb |-> {"A", "X", "Y", "S", "0", "DL"},
  db |-> {"DATA", "0"}, cin |-> {"0", "1", "C"},
  dst |-> {"none", "A", "X", "Y", "S", "P", "MEM"}, flags |-> SUBSET FlagLines, fop |-> Fops,
  store |-> {"A", "X", "Y", "P"}, access |-> {"READ", "WRITE", "RMW"}]

\* What an operation f says when it is that of an instruction.
Sound(ins, f) ==
  /\ Fits(f, InstrSets)
  /\ {"mode", "cond"} \cap DOMAIN f = {}
  /\ IF ins \in Stored
     THEN DOMAIN f = {"store", "access"} /\ f.access = "WRITE" /\ f.store \in {"A", "X", "Y"}
     ELSE "access" \in DOMAIN f => f.access = "READ"
  /\ IF ins \in Counted
     THEN {"sb", "dst"} \subseteq DOMAIN f /\ f.sb = "DL" /\ f.dst = "MEM"
     ELSE ("sb" \in DOMAIN f => f.sb # "DL") /\ ("dst" \in DOMAIN f => f.dst # "MEM")
  /\ ins \in {"PLA", "PLP"} /\ "sb" \in DOMAIN f => f.sb = "0"
  /\ ins \in {"PHA", "PHP"} /\ "store" \in DOMAIN f => f.store \in {"A", "P"}

\* What every decoded instruction is.
Instr(d) ==
  /\ d.mode \in Modes /\ d.cond \in 0..7 /\ d.op \in Ops /\ d.sb \in {"A", "X", "Y", "S", "0", "DL"}
  /\ d.db \in {"DATA", "0"} /\ d.cin \in {"0", "1", "C"}
  /\ d.dst \in {"none", "A", "X", "Y", "S", "P", "MEM"} /\ d.flags \in SUBSET FlagLines /\ d.fop \in Fops
  /\ d.store \in {"A", "X", "Y", "P"} /\ d.access \in {"READ", "WRITE", "RMW"}
  /\ d.access = "WRITE" => d.mode \in MemoryModes /\ d.store \in {"A", "X", "Y"}
  /\ d.access = "RMW" => d.mode \in MemoryModes /\ d.dst = "MEM" /\ d.sb = "DL"
  /\ d.access # "RMW" => d.sb # "DL"
  /\ d.mode = "PULL" => d.sb = "0"
  /\ d.mode = "PUSH" => d.store \in {"A", "P"}

-----------------------------------------------------------------------------
(* Sequences, element by element, and the memory after some bus cycles     *)

\* Chains: a sequence of whatever elements, one element more, and short ones.
IsSeq(s) == \E S : s \in Seq(S)
s ## e == Append(s, e)
Nil == <<>>
One(a) == <<a>>
Two(a, b) == <<a, b>>
Three(a, b, c) == <<a, b, c>>
Four(a, b, c, d) == <<a, b, c, d>>
Five(a, b, c, d, e) == <<a, b, c, d, e>>
Six(a, b, c, d, e, f) == <<a, b, c, d, e, f>>

\* What is asked of s and t to add t, and then e, to s.
Chainable(s, t, e) == IsSeq(s) /\ IsSeq(t)

\* Cycle k of c writes to a, is the last to, and there is a last one to each.
WritesAt(c, a, k) == k \in DOMAIN c /\ c[k][1] = "write" /\ c[k][2] = a
IsLast(c, a, k) == WritesAt(c, a, k) /\ \A j \in DOMAIN c : j > k => ~WritesAt(c, a, j)
HasLasts(c) == \A a : (\E k : WritesAt(c, a, k)) => \E k : IsLast(c, a, k)

\* The memory m after the cycles c.
Wrote(m, c) ==
  LET written == {c[k][2] : k \in {k \in DOMAIN c : c[k][1] = "write"}}
      last(a) == CHOOSE k \in DOMAIN c :
                   /\ c[k][1] = "write" /\ c[k][2] = a
                   /\ \A j \in DOMAIN c : j > k => ~(c[j][1] = "write" /\ c[j][2] = a)
  IN [a \in written |-> c[last(a)][3]] ++ m

\* What the memory is after the cycles c on m.
Results(f, c, m) ==
  /\ f = [x \in DOMAIN f |-> f[x]]
  /\ \A x : x \in DOMAIN f <=> x \in DOMAIN m \/ \E k : WritesAt(c, x, k)
  /\ \A x \in DOMAIN f : /\ \A k : IsLast(c, x, k) => f[x] = c[k][3]
                         /\ ~(\E k : WritesAt(c, x, k)) => f[x] = m[x]

-----------------------------------------------------------------------------
(* Types                                                                   *)

\* A memory, the bus cycles, and what starts an instruction.
IsMemory(m) == DOMAIN m \subseteq Words /\ m \in [DOMAIN m -> Bytes]
BusCycles == {<<"read", a>> : a \in Words} \cup {<<"write", a, b>> : a \in Words, b \in Bytes}
Kinds == {"brk", "irq", "nmi", "reset"}

\* The Boolean registers are left out: they are tested, and never used as values.
TypeOK ==
  /\ timing.t \in 0..7 /\ timing.kind \in Kinds /\ timing.acr \in Bin /\ timing.adir \in Bin
  /\ \E op \in Bytes : instr = Decoded[op]
  /\ pc \in Words /\ ab \in Words
  /\ latch.dl \in Bytes /\ latch.dor \in Bytes
  /\ regs \in [RegNames -> Bytes] /\ p \in Statuses
  /\ IsMemory(mem)
  /\ bus \in Seq(BusCycles)
  /\ outcome.pc \in Words /\ outcome.regs \in [RegNames -> Bytes] /\ outcome.p \in Statuses
  /\ IsMemory(outcome.mem)

\* The control lines that are values, and records of some of them.
CtrlSets == [
  adl |-> {"PC", "DL", "DATA", "ALU", "S", "VECTOR", "ABL"},
  adh |-> {"PC", "DATA", "ALU", "ZERO", "STACK", "FF", "ABH"},
  sb |-> {"A", "X", "Y", "S", "DL", "PCL", "PCH", "ABL", "ABH", "0"},
  db |-> {"DATA", "DL", "0"}, op |-> Ops, cin |-> Bin,
  dst |-> {"none", "A", "X", "Y", "S", "P", "MEM"},
  dor |-> {"A", "X", "Y", "P", "PCH", "PCL", "ALU", "DATA"}, pushB |-> Bin,
  flags |-> SUBSET FlagLines, fop |-> Fops]

Line(f) == Fits(f, CtrlSets)
Lines(s) == \A k \in DOMAIN s : Line(s[k])
-----------------------------------------------------------------------------
(* The terms of a clock cycle                                              *)

\* The cycles of Addressing: an index that stays on its page spares a read the last.
Reach(d, acr) ==
  CASE d.mode = "ZP" -> 1
    [] d.mode \in {"ZPX", "ZPY", "ABS"} -> 2
    [] d.mode \in {"ABX", "ABY"} -> IF acr = 1 \/ d.access # "READ" THEN 3 ELSE 2
    [] d.mode = "IZX" -> 4
    [] d.mode = "IZY" -> IF acr = 1 \/ d.access # "READ" THEN 4 ELSE 3

\* The result under the lines c, and the address they make.
Alu(c) == ALU(c.op, SB(c), DB(c), c.cin, c.dec)
Next(c) == Word(ADL(c, Alu(c)), ADH(c, Alu(c)))

\* What the control lines c do to the blocks.
Clocks(c, reset) ==
  /\ pc' = IF c.load THEN Next(c) ELSE PCS(c)
  /\ ab' = Next(c)
  /\ latch'.dl = IF c.dlLoad THEN data ELSE latch.dl
  /\ latch'.dor = DOR(c, Alu(c))
  /\ latch'.wr <=> c.write
  /\ regs' = IF c.dst \in DOMAIN regs THEN [regs EXCEPT ![c.dst] = Alu(c).result] ELSE regs
  /\ p' = Status(p, Alu(c), data, c.pLoad, c.flags, c.fop)
  /\ timing'.t = IF reset \/ fetch THEN 1 ELSE IF c.end THEN 0 ELSE (timing.t + 1) % 8
  /\ timing'.acr = IF ~c.acrLoad THEN timing.acr
                   ELSE IF c.acrBranch THEN (Alu(c).c + Bit(DB(c), 7)) % 2 ELSE Alu(c).c
  /\ timing'.adir = IF ~c.acrLoad THEN timing.adir ELSE IF c.acrBranch THEN Bit(DB(c), 7) ELSE 0
  /\ instr' = IF reset \/ (fetch /\ timing.pending) THEN Decoded[0]
              ELSE IF fetch THEN Decoded[data] ELSE instr
  /\ timing'.kind = IF reset THEN "reset" ELSE IF ~fetch THEN timing.kind
                    ELSE IF ~timing.pending THEN "brk" ELSE IF timing.nmi_latch THEN "nmi" ELSE "irq"

\* The lines that leave the registers and the status alone.
Quiet(c) == c.dst = "none" /\ ~c.pLoad /\ c.flags = {} /\ c.fop = <<>>

\* What the instruction d computes from the registers r, the status q, the
\* latch and the byte read.
Ran(d, r, q, dl, byte) ==
  ALU(d.op, CASE d.sb = "DL" -> dl [] d.sb = "0" -> 0 [] OTHER -> r[d.sb],
      IF d.db = "DATA" THEN byte ELSE 0,
      CASE d.cin = "C" -> q.c [] d.cin = "1" -> 1 [] OTHER -> 0, d.dec /\ q.d = 1)

\* The lines of an operation.
Runs(c) ==
  /\ c.op = instr.op /\ c.sb = instr.sb /\ c.db = instr.db /\ (c.dec <=> instr.dec /\ p.d = 1) /\ c.dst = instr.dst
  /\ c.cin = (CASE instr.cin = "1" -> 1 [] instr.cin = "C" -> p.c [] OTHER -> 0)
  /\ (c.pLoad <=> instr.dst = "P") /\ c.flags = instr.flags /\ c.fop = instr.fop

-----------------------------------------------------------------------------
(* What an instruction d finds in the outcome o of the one before          *)

\* Bus cycles.
Rd(a) == <<"read", a>>
Wr(a, b) == <<"write", a, b>>

\* The address k after the opcode, a byte, and the operand bytes.
Pc(o, k) == (o.pc + k) % 65536
B(o, a) == ByteAt(o.mem, a)
A1(o) == B(o, Pc(o, 1))
A2(o) == B(o, Pc(o, 2))

\* The stack k bytes up.
Sp(o, k) == Word((o.regs.S + k) % 256, 1)

\* The index.
X(o, d) == o.regs[IF d.mode \in {"ZPY", "ABY", "IZY"} THEN "Y" ELSE "X"]

\* The next byte on the page, a pointer at an address, and one at an operand with X.
Nip(a) == Word((Low(a) + 1) % 256, High(a))
Ptr(o, a) == Word(B(o, a), B(o, Nip(a)))
Zp(o, d) == (X(o, d) + A1(o)) % 256

\* An address to be indexed, its low byte with the index and the carry out of it.
Base(o, d) == IF d.mode = "IZY" THEN Ptr(o, A1(o)) ELSE Word(A1(o), A2(o))
Sum(o, d) == X(o, d) + Low(Base(o, d))
Carry(o, d) == Bit(Sum(o, d), 8)

\* The address before and after the carry goes to its high byte, and whether it does.
Near(o, d) == Word(Sum(o, d) % 256, High(Base(o, d)))
Far(o, d) == Word(Sum(o, d) % 256, (High(Base(o, d)) + Carry(o, d)) % 256)
Crosses(o, d) == Carry(o, d) = 1 \/ d.access # "READ"

\* The bytes of an instruction, and the address of its operand.
Size(d) == IF d.mode = "IMP" THEN 1 ELSE IF d.mode \in {"ABS", "ABX", "ABY"} THEN 3 ELSE 2

Ea(o, d) ==
  CASE d.mode = "ZP" -> A1(o)
    [] d.mode \in {"ZPX", "ZPY"} -> Zp(o, d)
    [] d.mode = "ABS" -> Base(o, d)
    [] d.mode \in {"ABX", "ABY", "IZY"} -> Far(o, d)
    [] d.mode = "IZX" -> Ptr(o, Zp(o, d))

\* The bus cycles, from the opcode fetch on.
Bus0(o) == Nil ## Rd(o.pc)
Bus1(o) == Bus0(o) ## Rd(Pc(o, 1))
Bus2(o) == Bus1(o) ## Rd(Pc(o, 2))
BusPage(o) == Bus1(o) ## Rd(A1(o))

\* Those that have found the address of the operand.
BusFound(o, d) ==
  CASE d.mode = "ZP" -> Bus1(o)
    [] d.mode \in {"ZPX", "ZPY"} -> BusPage(o)
    [] d.mode = "ABS" -> Bus2(o)
    [] d.mode \in {"ABX", "ABY"} -> IF Crosses(o, d) THEN Bus2(o) ## Rd(Near(o, d)) ELSE Bus2(o)
    [] d.mode = "IZX" -> BusPage(o) ## Rd(Zp(o, d)) ## Rd(Nip(Zp(o, d)))
    [] d.mode = "IZY" -> IF Crosses(o, d) THEN BusPage(o) ## Rd(Nip(A1(o))) ## Rd(Near(o, d))
                         ELSE BusPage(o) ## Rd(Nip(A1(o)))

-----------------------------------------------------------------------------
(* Where the core is on each cycle of an instruction                       *)

\* The cycle is a read, or a write.
Reading(a) == ~latch.wr /\ ab = a
Writing(a, b) == latch.wr /\ ab = a /\ latch.dor = b

\* The registers and the memory are as the instruction found them.
Kept == regs = outcome.regs /\ p = outcome.p /\ mem = outcome.mem

\* The bus cycles so far, and the bytes of the instruction taken.
Made(b, n) == bus = b /\ pc = Pc(outcome, n)

\* The start of an instruction, the low byte of its operand read, and a byte in page
\* zero addressed.
Started == Made(Bus0(outcome), 1) /\ Reading(Pc(outcome, 1)) /\ Kept
HasLow == Made(Bus1(outcome), 2) /\ Reading(Pc(outcome, 2)) /\ latch.dl = A1(outcome) /\ Kept
HasPage == Made(Bus1(outcome), 2) /\ Reading(A1(outcome)) /\ Kept

\* The operation on a byte.
Op(byte) == Ran(instr, outcome.regs, outcome.p, byte, byte)

\* The operand is addressed, written back as it was read, and written with the result.
AtOperand ==
  /\ Made(BusFound(outcome, instr), Size(instr)) /\ Kept
  /\ instr.access = "WRITE" => Writing(Ea(outcome, instr), outcome.regs[instr.store])
  /\ instr.access # "WRITE" => Reading(Ea(outcome, instr))

WritingBack ==
  /\ instr.access = "RMW" /\ Made(BusFound(outcome, instr) ## Rd(Ea(outcome, instr)), Size(instr)) /\ Kept
  /\ latch.dl = B(outcome, Ea(outcome, instr)) /\ Writing(Ea(outcome, instr), B(outcome, Ea(outcome, instr)))

WritingResult ==
  /\ instr.access = "RMW" /\ Made(BusFound(outcome, instr) ## Rd(Ea(outcome, instr)) ## Wr(Ea(outcome, instr), B(outcome, Ea(outcome, instr))), Size(instr))
  /\ regs = outcome.regs
  /\ p = Status(outcome.p, Op(B(outcome, Ea(outcome, instr))), B(outcome, Ea(outcome, instr)), FALSE, instr.flags, instr.fop)
  /\ Writing(Ea(outcome, instr), Op(B(outcome, Ea(outcome, instr))).result)

\* From the cycle on that has the operand on the address bus.
Accesses(n) ==
  /\ timing.t <= n + 3
  /\ timing.t = n + 1 => AtOperand
  /\ timing.t = n + 2 => WritingBack
  /\ timing.t = n + 3 => WritingResult

\* An operand in memory: the cycles that find it, and those that access it.
ZeroPagePhase == (timing.t = 1 => Started) /\ Accesses(1)
ZeroIndexedPhase == (timing.t = 1 => Started) /\ (timing.t = 2 => HasPage /\ latch.dl = A1(outcome)) /\ Accesses(2)
AbsolutePhase == (timing.t = 1 => Started) /\ (timing.t = 2 => HasLow) /\ Accesses(2)

\* The address has its high byte not yet put right.
Uncorrected == Reading(Near(outcome, instr)) /\ timing.acr = Carry(outcome, instr) /\ Kept

AbsoluteIndexedPhase ==
  /\ timing.t = 1 => Started
  /\ timing.t = 2 => HasLow
  /\ timing.t = 3 /\ Crosses(outcome, instr) => Made(Bus2(outcome), 3) /\ Uncorrected
  /\ timing.t >= 3 => timing.acr = Carry(outcome, instr)
  /\ timing.t >= 3 /\ Crosses(outcome, instr) => Accesses(3)
  /\ timing.t >= 3 /\ ~Crosses(outcome, instr) => Accesses(2)

IndexedIndirectPhase ==
  /\ timing.t = 1 => Started
  /\ timing.t = 2 => HasPage /\ latch.dl = A1(outcome)
  /\ timing.t = 3 => Made(BusPage(outcome), 2) /\ Reading(Zp(outcome, instr)) /\ Kept
  /\ timing.t = 4 => /\ Made(BusPage(outcome) ## Rd(Zp(outcome, instr)), 2) /\ Reading(Nip(Zp(outcome, instr))) /\ Kept
                     /\ latch.dl = B(outcome, Zp(outcome, instr))
  /\ Accesses(4)

IndirectIndexedPhase ==
  /\ timing.t = 1 => Started
  /\ timing.t = 2 => HasPage
  /\ timing.t = 3 => Made(BusPage(outcome), 2) /\ Reading(Nip(A1(outcome))) /\ Kept /\ latch.dl = B(outcome, A1(outcome))
  /\ timing.t = 4 /\ Crosses(outcome, instr) => Made(BusPage(outcome) ## Rd(Nip(A1(outcome))), 2) /\ Uncorrected
  /\ timing.t >= 4 => timing.acr = Carry(outcome, instr)
  /\ timing.t >= 4 /\ Crosses(outcome, instr) => Accesses(4)
  /\ timing.t >= 4 /\ ~Crosses(outcome, instr) => Accesses(3)

\* A branch: the address after it, the offset added to its low byte, and whether
\* that leaves the page.
Leap(o) == Low(Pc(o, 2)) + A1(o)
Leaves(o) == (Bit(Leap(o), 8) + Bit(A1(o), 7)) % 2

BranchPhase ==
  /\ timing.t <= 3
  /\ timing.t = 1 => Started
  /\ timing.t = 2 => HasLow /\ Taken(instr.cond, outcome.p)
  /\ timing.t = 3 => /\ bus = Bus2(outcome) /\ pc = Word(Leap(outcome) % 256, High(Pc(outcome, 2))) /\ Reading(pc) /\ Kept
                     /\ timing.acr = 1 /\ Leaves(outcome) = 1 /\ timing.adir = Bit(A1(outcome), 7) /\ Taken(instr.cond, outcome.p)

\* Jumps.
Target(o) == Word(A1(o), A2(o))

JumpPhase ==
  /\ timing.t <= 2
  /\ timing.t = 1 => Started
  /\ timing.t = 2 => HasLow

IndirectPhase ==
  /\ timing.t <= 4
  /\ timing.t = 1 => Started
  /\ timing.t = 2 => HasLow
  /\ timing.t = 3 => bus = Bus2(outcome) /\ Reading(Target(outcome)) /\ Kept
  /\ timing.t = 4 => /\ bus = Bus2(outcome) ## Rd(Target(outcome)) /\ Reading(Nip(Target(outcome))) /\ Kept
                     /\ latch.dl = B(outcome, Target(outcome))

\* The stack: how far its pointer has moved, and the cycles that JSR, RTS, RTI, pushes
\* and pulls have made.
Moved(k) == regs = [outcome.regs EXCEPT !.S = (outcome.regs.S + k) % 256]
BusCall(o) == Bus1(o) ## Rd(Sp(o, 0))
BusCalled(o) == BusCall(o) ## Wr(Sp(o, 0), High(Pc(o, 2))) ## Wr(Sp(o, -1), Low(Pc(o, 2)))

CallPhase ==
  /\ timing.t <= 5
  /\ timing.t = 1 => Started
  /\ timing.t \in 2..5 => latch.dl = A1(outcome) /\ pc = Pc(outcome, 2) /\ p = outcome.p
  /\ timing.t = 2 => bus = Bus1(outcome) /\ Reading(Sp(outcome, 0)) /\ regs = outcome.regs
  /\ timing.t = 3 => bus = BusCall(outcome) /\ Writing(Sp(outcome, 0), High(Pc(outcome, 2))) /\ regs = outcome.regs
  /\ timing.t = 4 => /\ bus = BusCall(outcome) ## Wr(Sp(outcome, 0), High(Pc(outcome, 2)))
                     /\ Writing(Sp(outcome, -1), Low(Pc(outcome, 2))) /\ Moved(-1)
  /\ timing.t = 5 => bus = BusCalled(outcome) /\ Reading(Pc(outcome, 2)) /\ Moved(-2)

\* Where RTS returns to.
ReturnTo(o) == Word(B(o, Sp(o, 1)), B(o, Sp(o, 2)))

ReturnPhase ==
  /\ timing.t <= 5
  /\ timing.t = 1 => Started
  /\ timing.t \in 2..5 => p = outcome.p /\ mem = outcome.mem
  /\ timing.t = 2 => bus = Bus1(outcome) /\ Reading(Sp(outcome, 0)) /\ regs = outcome.regs
  /\ timing.t = 3 => bus = BusCall(outcome) /\ Reading(Sp(outcome, 1)) /\ Moved(1)
  /\ timing.t = 4 => bus = BusCall(outcome) ## Rd(Sp(outcome, 1)) /\ Reading(Sp(outcome, 2)) /\ Moved(2) /\ latch.dl = B(outcome, Sp(outcome, 1))
  /\ timing.t = 5 => /\ bus = BusCall(outcome) ## Rd(Sp(outcome, 1)) ## Rd(Sp(outcome, 2))
                     /\ Reading(ReturnTo(outcome)) /\ pc = ReturnTo(outcome) /\ Moved(2)

ReturnFromInterruptPhase ==
  /\ timing.t <= 5
  /\ timing.t = 1 => Started
  /\ timing.t \in 2..5 => mem = outcome.mem
  /\ timing.t = 2 => bus = Bus1(outcome) /\ Reading(Sp(outcome, 0)) /\ regs = outcome.regs /\ p = outcome.p
  /\ timing.t = 3 => bus = BusCall(outcome) /\ Reading(Sp(outcome, 1)) /\ Moved(1) /\ p = outcome.p
  /\ timing.t = 4 => /\ bus = BusCall(outcome) ## Rd(Sp(outcome, 1)) /\ Reading(Sp(outcome, 2)) /\ Moved(2)
                     /\ p = Unpack(B(outcome, Sp(outcome, 1)))
  /\ timing.t = 5 => /\ bus = BusCall(outcome) ## Rd(Sp(outcome, 1)) ## Rd(Sp(outcome, 2)) /\ Reading(Sp(outcome, 3)) /\ Moved(3)
                     /\ p = Unpack(B(outcome, Sp(outcome, 1))) /\ latch.dl = B(outcome, Sp(outcome, 2))

PushPhase ==
  /\ timing.t <= 2
  /\ timing.t = 1 => Started
  /\ timing.t = 2 => /\ Made(Bus1(outcome), 1) /\ Kept
                     /\ Writing(Sp(outcome, 0), IF instr.store = "P" THEN Pack(outcome.p, 1) ELSE outcome.regs[instr.store])

PullPhase ==
  /\ timing.t <= 3
  /\ timing.t = 1 => Started
  /\ timing.t \in 2..3 => pc = Pc(outcome, 1) /\ p = outcome.p /\ mem = outcome.mem
  /\ timing.t = 2 => bus = Bus1(outcome) /\ Reading(Sp(outcome, 0)) /\ regs = outcome.regs
  /\ timing.t = 3 => bus = BusCall(outcome) /\ Reading(Sp(outcome, 1)) /\ Moved(1)

\* BRK and the interrupts, by the kind k of the sequence.
Brk(k) == IF k = "brk" THEN 1 ELSE 0
Back(o, k) == IF k = "brk" THEN Pc(o, 2) ELSE o.pc
Vectors(k) == IF k = "nmi" THEN {\hfffa} ELSE {\hfffe, \hfffa}
BusEnter(o, k) == Bus0(o) ## Rd(Pc(o, Brk(k)))

BusPushed(o, k) == BusEnter(o, k) ## Wr(Sp(o, 0), High(Back(o, k))) ## Wr(Sp(o, -1), Low(Back(o, k)))
                      ## Wr(Sp(o, -2), Pack(o.p, Brk(k)))

EnterPhase ==
  /\ timing.t <= 6
  /\ timing.t = 1 => Made(Bus0(outcome), Brk(timing.kind)) /\ Reading(Pc(outcome, Brk(timing.kind))) /\ Kept
  /\ timing.t \in 2..4 => pc = Back(outcome, timing.kind) /\ p = outcome.p
  /\ timing.t = 2 => bus = BusEnter(outcome, timing.kind) /\ Writing(Sp(outcome, 0), High(Back(outcome, timing.kind))) /\ regs = outcome.regs
  /\ timing.t = 3 => /\ bus = BusEnter(outcome, timing.kind) ## Wr(Sp(outcome, 0), High(Back(outcome, timing.kind)))
                     /\ Writing(Sp(outcome, -1), Low(Back(outcome, timing.kind))) /\ Moved(-1)
  /\ timing.t = 4 => /\ bus = BusEnter(outcome, timing.kind) ## Wr(Sp(outcome, 0), High(Back(outcome, timing.kind))) ## Wr(Sp(outcome, -1), Low(Back(outcome, timing.kind)))
                     /\ Writing(Sp(outcome, -2), Pack(outcome.p, Brk(timing.kind))) /\ Moved(-2)
  /\ timing.t \in 5..6 => Moved(-3) /\ p = [outcome.p EXCEPT !.i = 1]
  /\ timing.t = 5 => \E v \in Vectors(timing.kind) : bus = BusPushed(outcome, timing.kind) /\ Reading(v)
  /\ timing.t = 6 => \E v \in Vectors(timing.kind) : /\ bus = BusPushed(outcome, timing.kind) ## Rd(v) /\ Reading(v + 1)
                                              /\ latch.dl = ByteAt(mem, v)

\* Reset: the stack pointer goes down by three, and nothing is written.
StackAt(s) == Word(s % 256, 1)
Ago(s, i) == s[Len(s) - i]

ResetPhase ==
  /\ timing.t \in 1..6
  /\ timing.t \in 2..4 => Reading(StackAt(regs.S))
  /\ timing.t = 3 => Len(bus) >= 1 /\ Ago(bus, 0) = Rd(StackAt(regs.S + 1))
  /\ timing.t = 4 => /\ Len(bus) >= 2
                     /\ Ago(bus, 1) = Rd(StackAt(regs.S + 2)) /\ Ago(bus, 0) = Rd(StackAt(regs.S + 1))
  /\ timing.t \in 5..6 => p.i = 1
  /\ timing.t = 5 => /\ Len(bus) >= 3 /\ ~latch.wr /\ ab \in {\hfffc, \hfffa}
                     /\ Ago(bus, 2) = Rd(StackAt(regs.S + 3)) /\ Ago(bus, 1) = Rd(StackAt(regs.S + 2))
                     /\ Ago(bus, 0) = Rd(StackAt(regs.S + 1))
  /\ timing.t = 6 => \E v \in {\hfffc, \hfffa} :
                     /\ Len(bus) >= 4 /\ Reading(v + 1) /\ latch.dl = ByteAt(mem, v)
                     /\ Ago(bus, 3) = Rd(StackAt(regs.S + 3)) /\ Ago(bus, 2) = Rd(StackAt(regs.S + 2))
                     /\ Ago(bus, 1) = Rd(StackAt(regs.S + 1)) /\ Ago(bus, 0) = Rd(v)

\* Where an instruction is, by its mode.
Phase ==
  /\ timing.t >= 1
  /\ instr.mode = "IMP" => timing.t = 1 /\ Started
  /\ instr.mode = "IMM" => timing.t = 1 /\ Started
  /\ instr.mode = "ZP" => ZeroPagePhase
  /\ instr.mode \in {"ZPX", "ZPY"} => ZeroIndexedPhase
  /\ instr.mode = "ABS" => AbsolutePhase
  /\ instr.mode \in {"ABX", "ABY"} => AbsoluteIndexedPhase
  /\ instr.mode = "IZX" => IndexedIndirectPhase
  /\ instr.mode = "IZY" => IndirectIndexedPhase
  /\ instr.mode = "REL" => BranchPhase
  /\ instr.mode = "JMP_ABS" => JumpPhase
  /\ instr.mode = "JMP_IND" => IndirectPhase
  /\ instr.mode = "JSR_ABS" => CallPhase
  /\ instr.mode = "RTS_IMP" => ReturnPhase
  /\ instr.mode = "RTI_IMP" => ReturnFromInterruptPhase
  /\ instr.mode = "PUSH" => PushPhase
  /\ instr.mode = "PULL" => PullPhase
  /\ instr.mode = "BRK_IMP" => EnterPhase

\* An instruction is the one the opcode names, and an interrupt is BRK.
Begun ==
  /\ outcome.due = IF timing.kind = "brk" THEN "none" ELSE timing.kind
  /\ instr = IF timing.kind = "brk" THEN Decoded[B(outcome, outcome.pc)] ELSE Decoded[0]
  /\ timing.kind = "nmi" /\ timing.t <= 4 => timing.nmi_latch

-----------------------------------------------------------------------------
(* The invariant                                                           *)

\* An opcode fetch finds the core as the last instruction left it.
Fetching == outcome.pc = pc /\ outcome.regs = regs /\ outcome.p = p /\ outcome.mem = mem /\ outcome.due = due /\ Reading(pc)

\* The inductive invariant: the cycles since the last opcode fetch are those of the
\* instruction, so far, and have done to the registers and memory what it does, so far.
CoreInv ==
  /\ timing.pending => timing.t = 0
  /\ fetch => Fetching
  /\ ~fetch => mem = Wrote(outcome.mem, bus) /\ HasLasts(bus)
  /\ ~fetch /\ timing.kind = "reset" => instr = Decoded[0] /\ ResetPhase
  /\ ~fetch /\ timing.kind # "reset" => Begun /\ Phase

-----------------------------------------------------------------------------
(* What the steps of the proof say                                         *)

\* What a cycle does that is not an opcode fetch.
Passes == ~fetch /\ Memory /\ bus' = bus ## BusCycle

\* Another cycle of the instruction follows it.
Onward ==
  /\ Passes /\ timing'.t # 0
  /\ outcome' = outcome /\ instr' = instr /\ timing'.kind = timing.kind

\* The opcode fetch follows, with its address on the address bus.
Ready == ab' = pc' /\ ~latch'.wr

\* The last cycle of an instruction.
Finished == Control.end /\ ~Control.intTake /\ Ready

\* What an operation on a byte leaves, from the registers r.
Computed(r, byte) ==
  /\ regs' = IF instr.dst \in RegNames THEN [r EXCEPT ![instr.dst] = Op(byte).result] ELSE r
  /\ p' = Status(outcome.p, Op(byte), byte, instr.dst = "P", instr.flags, instr.fop)

\* An instruction with an operand in memory ends after its access.
Accessed == \E n \in 1..4 : n = Reach(instr, timing.acr) /\ timing.t > n /\ Accesses(n)

\* The last cycle of an instruction, or of the sequence of an interrupt or reset.
Ends ==
  /\ Passes /\ fetch'
  /\ outcome'.pc = pc' /\ outcome'.regs = regs' /\ outcome'.p = p' /\ outcome'.mem = mem' /\ outcome'.bus = bus'
  /\ mem' = Wrote(outcome.mem, bus') /\ HasLasts(bus')
  /\ outcome'.due \in {"none", "nmi", "irq"}
  /\ outcome'.due = "irq" => p.i = 0 \/ Control.intTake
  /\ outcome'.due # "none" => Control.end

\* The sequence u is s, and then t.
Joins(s, t, u) == IsSeq(s) /\ IsSeq(t) /\ IsSeq(u) /\ s \o t = u

\* The cycles t are the reads of the addresses s.
ReadsAs(s, t) == IsSeq(s) /\ IsSeq(t) /\ Arch!ReadAll(s) = t

\* The operand of Isa6502 is where the core reads or writes it, and is found
\* with the reads the core makes.
Located(reads) ==
  /\ Arch!Operand.at = Ea(outcome, instr) /\ Ea(outcome, instr) \in Words
  /\ ReadsAs(Arch!Operand.found, reads) /\ Joins(Bus0(outcome), reads, BusFound(outcome, instr))
=============================================================================
