------------------------------ MODULE Isa6502 ------------------------------
(***************************************************************************)
(* What MOS6502_Core promises: instructions take effect one after another, *)
(* each making the bus cycles the datasheet gives it, the dummy reads and  *)
(* writes among them; an interrupt is taken between two instructions; and  *)
(* reset ends whatever goes on.  There are no control lines and no         *)
(* registers here but those a program sees.                                *)
(***************************************************************************)
EXTENDS Mos6502

CONSTANTS Machines, Fill

VARIABLES
  pc, regs, p, mem,
  due,     \* the interrupt that is taken before the next instruction
  bus      \* the bus cycles of the last instruction, interrupt or reset

vars == <<pc, regs, p, mem, due, bus>>

At(m, addr) == IF addr \in DOMAIN m THEN m[addr] ELSE Fill
Byte(addr) == At(mem, addr % 65536)
WordAt(addr) == Word(Byte(addr), Byte(addr + 1))
\* A pointer does not leave its page.
NextInPage(addr) == Word((addr + 1) % 256, High(addr))
Pointer(addr) == Word(Byte(addr), Byte(NextInPage(addr)))
\* An index is added to an address, and to its low byte alone at first.
Indexed(addr, i) == (addr + i) % 65536
SamePage(addr, i) == Word((Low(addr) + i) % 256, High(addr))

R(addr) == <<"read", addr % 65536>>
W(addr, byte) == <<"write", addr % 65536, byte>>
ReadAll(addrs) == [k \in DOMAIN addrs |-> R(addrs[k])]
\* The memory after the writes of some bus cycles.
After(cycles) ==
  LET written == {cycles[k][2] : k \in {k \in DOMAIN cycles : cycles[k][1] = "write"}}
      last(addr) == CHOOSE k \in DOMAIN cycles :
                      /\ cycles[k][1] = "write" /\ cycles[k][2] = addr
                      /\ \A j \in DOMAIN cycles : j > k => ~(cycles[j][1] = "write" /\ cycles[j][2] = addr)
  IN [addr \in written |-> cycles[last(addr)][3]] ++ mem

\* The stack: a byte that is k below, or above, the one S names.
StackOf(r, k) == Word((r.S + k) % 256, 1)
Stack(k) == StackOf(regs, k)
Pushed(k, byte) == W(Stack(-k), byte)
MovedBy(k) == [regs EXCEPT !.S = (regs.S + k) % 256]

instr == Decoded[Byte(pc)]
index == regs[IF instr.mode \in {"ZPY", "ABY", "IZY"} THEN "Y" ELSE "X"]

-----------------------------------------------------------------------------
(* Operands in memory: where they are, and the reads made to find them.    *)

zp == (Byte(pc + 1) + index) % 256
Base == IF instr.mode = "IZY" THEN Pointer(Byte(pc + 1)) ELSE WordAt(pc + 1)

\* A read at the address with its high byte not yet put right, which a read
\* operand that stays on the page is spared.
Uncorrected ==
  IF Indexed(Base, index) = SamePage(Base, index) /\ instr.access = "READ"
  THEN <<>> ELSE <<SamePage(Base, index)>>

Operand ==
  CASE instr.mode = "IMM" -> [at |-> pc + 1, found |-> <<>>]
    [] instr.mode = "ZP"  -> [at |-> Byte(pc + 1), found |-> <<pc + 1>>]
    [] instr.mode \in {"ZPX", "ZPY"} -> [at |-> zp, found |-> <<pc + 1, Byte(pc + 1)>>]
    [] instr.mode = "ABS" -> [at |-> Base, found |-> <<pc + 1, pc + 2>>]
    [] instr.mode \in {"ABX", "ABY"} ->
         [at |-> Indexed(Base, index), found |-> <<pc + 1, pc + 2>> \o Uncorrected]
    [] instr.mode = "IZX" ->
         [at |-> Pointer(zp), found |-> <<pc + 1, Byte(pc + 1), zp, NextInPage(zp)>>]
    [] instr.mode = "IZY" ->
         [at |-> Indexed(Base, index),
          found |-> <<pc + 1, Byte(pc + 1), NextInPage(Byte(pc + 1))>> \o Uncorrected]

Size == CASE instr.mode = "IMP" -> 1
          [] instr.mode \in {"ABS", "ABX", "ABY"} -> 3
          [] OTHER -> 2

\* The registers and flags an operation leaves, on the byte it reads.
Source(byte) == CASE instr.sb = "DL" -> byte
                  [] instr.sb = "0"  -> 0
                  [] OTHER -> regs[instr.sb]
CarryIn == CASE instr.cin = "C" -> p.c [] instr.cin = "1" -> 1 [] OTHER -> 0
Result(byte) == ALU(instr.op, Source(byte), IF instr.db = "DATA" THEN byte ELSE 0,
                    CarryIn, instr.dec /\ p.d = 1)
Computes(byte, r) ==
  /\ regs' = IF instr.dst \in DOMAIN r THEN [r EXCEPT ![instr.dst] = Result(byte).result] ELSE r
  /\ p' = Status(p, Result(byte), byte, instr.dst = "P", instr.flags, instr.fop)

\* What is polled in the last cycle of an instruction: CLI, SEI and PLP come
\* too late to count in their own.
Polled(q) == due' \in {"none", "nmi"} \cup (IF q.i = 0 THEN {"irq"} ELSE {})

Makes(cycles) == /\ bus' = <<R(pc)>> \o cycles
                 /\ mem' = After(cycles)
Keeps == UNCHANGED <<regs, p>>

-----------------------------------------------------------------------------
(* The instructions.                                                       *)

Implied ==
  /\ instr.mode = "IMP"
  /\ pc' = Indexed(pc, Size) /\ Makes(<<R(pc + 1)>>)
  /\ Computes(Byte(pc + 1), regs) /\ Polled(p)

ReadsOperand ==
  /\ instr.mode \in {"IMM", "ZP", "ZPX", "ZPY", "ABS", "ABX", "ABY", "IZX", "IZY"}
  /\ instr.access = "READ"
  /\ pc' = Indexed(pc, Size) /\ Makes(ReadAll(Append(Operand.found, Operand.at)))
  /\ Computes(Byte(Operand.at), regs) /\ Polled(p)

StoresRegister ==
  /\ instr.access = "WRITE"
  /\ pc' = Indexed(pc, Size)
  /\ Makes(Append(ReadAll(Operand.found), W(Operand.at, regs[instr.store])))
  /\ Keeps /\ Polled(p)

\* A byte that is modified is first written back as it was.
Modifies ==
  LET byte == Byte(Operand.at)
  IN /\ instr.access = "RMW"
     /\ pc' = Indexed(pc, Size)
     /\ Makes(ReadAll(Append(Operand.found, Operand.at)) \o
                <<W(Operand.at, byte), W(Operand.at, Result(byte).result)>>)
     /\ Computes(byte, regs) /\ Polled(p')

\* A branch polls when it is not taken and when it leaves its page, and not
\* when it is taken to an address on its page.
Branch ==
  LET following == (pc + 2) % 65536
      offset == Byte(pc + 1) - 256 * Bit(Byte(pc + 1), 7)
      target == (following + offset) % 65536
      near == High(target) = High(following)
  IN /\ instr.mode = "REL"
     /\ IF ~Taken(instr.cond, p)
        THEN pc' = following /\ Makes(<<R(pc + 1)>>) /\ Polled(p)
        ELSE /\ pc' = target
             /\ Makes(ReadAll(<<pc + 1, following>>) \o
                        IF near THEN <<>> ELSE <<R(Word(Low(target), High(following)))>>)
             /\ IF near THEN due' = "none" ELSE Polled(p)
     /\ Keeps

Jump ==
  /\ instr.mode \in {"JMP_ABS", "JMP_IND"}
  /\ IF instr.mode = "JMP_ABS"
     THEN pc' = WordAt(pc + 1) /\ Makes(ReadAll(<<pc + 1, pc + 2>>))
     ELSE /\ pc' = Pointer(WordAt(pc + 1))
          /\ Makes(ReadAll(<<pc + 1, pc + 2, WordAt(pc + 1), NextInPage(WordAt(pc + 1))>>))
  /\ Keeps /\ Polled(p)

\* The high byte of the address is read when the return address is on the stack.
Call ==
  LET back == (pc + 2) % 65536
      pushes == <<Pushed(0, High(back)), Pushed(1, Low(back))>>
  IN /\ instr.mode = "JSR_ABS"
     /\ pc' = Word(Byte(pc + 1), At(After(pushes), back))
     /\ Makes(<<R(pc + 1), R(Stack(0))>> \o pushes \o <<R(back)>>)
     /\ regs' = MovedBy(-2) /\ p' = p /\ Polled(p)

Return ==
  LET back == Word(Byte(Stack(1)), Byte(Stack(2)))
  IN /\ instr.mode = "RTS_IMP"
     /\ pc' = Indexed(back, 1)
     /\ Makes(ReadAll(<<pc + 1, Stack(0), Stack(1), Stack(2), back>>))
     /\ regs' = MovedBy(2) /\ p' = p /\ Polled(p)

ReturnFromInterrupt ==
  /\ instr.mode = "RTI_IMP"
  /\ pc' = Word(Byte(Stack(2)), Byte(Stack(3)))
  /\ Makes(ReadAll(<<pc + 1, Stack(0), Stack(1), Stack(2), Stack(3)>>))
  /\ regs' = MovedBy(3) /\ p' = Unpack(Byte(Stack(1))) /\ Polled(p')

Push ==
  LET byte == IF instr.store = "P" THEN Pack(p, 1) ELSE regs[instr.store]
  IN /\ instr.mode = "PUSH"
     /\ pc' = (pc + 1) % 65536 /\ Makes(<<R(pc + 1), Pushed(0, byte)>>)
     /\ regs' = MovedBy(-1) /\ p' = p /\ Polled(p)

Pull ==
  /\ instr.mode = "PULL"
  /\ pc' = (pc + 1) % 65536 /\ Makes(ReadAll(<<pc + 1, Stack(0), Stack(1)>>))
  /\ Computes(Byte(Stack(1)), MovedBy(1)) /\ Polled(p)

\* BRK and the interrupts push where to return to, and P, and take a vector:
\* their own, or that of an NMI that arrives meanwhile.
Enters(back, b, vectors) ==
  LET pushes == <<Pushed(0, High(back)), Pushed(1, Low(back)), Pushed(2, Pack(p, b))>>
  IN /\ \E v \in vectors :
          /\ pc' = Word(At(After(pushes), v), At(After(pushes), v + 1))
          /\ Makes(<<R(pc + b)>> \o pushes \o ReadAll(<<v, v + 1>>))
     /\ regs' = MovedBy(-3) /\ p' = [p EXCEPT !.i = 1] /\ Polled(p')

Break == instr.mode = "BRK_IMP" /\ Enters((pc + 2) % 65536, 1, {\hfffe, \hfffa})

Instruction ==
  /\ due = "none"
  /\ \/ Implied \/ ReadsOperand \/ StoresRegister \/ Modifies
     \/ Branch \/ Jump \/ Call \/ Return \/ ReturnFromInterrupt
     \/ Push \/ Pull \/ Break

Interrupt ==
  \/ due = "irq" /\ Enters(pc, 0, {\hfffe, \hfffa})
  \/ due = "nmi" /\ Enters(pc, 0, {\hfffa})

LastFive(s) == SubSeq(s, Len(s) - 4, Len(s))

\* Whatever it cuts short, reset reads where it would push and takes its
\* vector, or that of an NMI that arrives meanwhile.
Restart ==
  /\ Len(bus') >= 5
  /\ \E v \in {\hfffc, \hfffa} :
       /\ LastFive(bus') = ReadAll(<<StackOf(regs', 3), StackOf(regs', 2), StackOf(regs', 1), v, v + 1>>)
       /\ pc' = Word(At(mem', v), At(mem', v + 1))
  /\ mem' = After(bus') /\ p'.i = 1 /\ Polled(p')

Init ==
  /\ pc = 0 /\ regs = [A |-> 0, X |-> 0, Y |-> 0, S |-> 0] /\ p = Unpack(\h24)
  /\ mem \in Machines /\ due = "none" /\ bus = <<>>

Next == Instruction \/ Interrupt \/ Restart

Spec == Init /\ [][Next]_vars
=============================================================================
