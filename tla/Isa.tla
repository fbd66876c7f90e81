-------------------------------- MODULE Isa --------------------------------
(***************************************************************************)
(* What RV32I_Core promises: the instructions of a program take effect one *)
(* after another, each on the state the one before it left.  There are no  *)
(* stages here, and nothing is known of when an instruction is fetched.    *)
(***************************************************************************)
CONSTANTS
  Programs, Contents, Regs, x0, Zero,
  Fetch(_, _),         \* the instruction of a program at an address
  Plus(_, _), Four, Even(_),
  Alu(_, _, _),        \* an operation of the ALU
  Take(_, _, _),       \* whether a branch is taken
  Load(_, _, _),       \* what a load of a width reads at an address of a memory
  Store(_, _, _, _)    \* a memory after a store

VARIABLES program, pc, regs, mem

vars == <<program, pc, regs, mem>>

Init ==
  /\ program \in Programs /\ mem \in Contents
  /\ pc = Zero /\ regs = [r \in Regs |-> Zero]

Writers == {"op", "op-imm", "load", "jal", "jalr", "lui", "auipc"}

Result(i, a, b) ==
  CASE i.op = "op"              -> Alu(i.fn, a, b)
    [] i.op = "op-imm"          -> Alu(i.fn, a, i.imm)
    [] i.op = "load"            -> Load(mem, Plus(a, i.imm), i.funct3)
    [] i.op \in {"jal", "jalr"} -> Plus(pc, Four)
    [] i.op = "lui"             -> i.imm
    [] i.op = "auipc"           -> Plus(pc, i.imm)

NextPc(i, a, b) ==
  CASE i.op = "jal" \/ (i.op = "branch" /\ Take(i.funct3, a, b)) -> Plus(pc, i.imm)
    [] i.op = "jalr" -> Even(Plus(a, i.imm))
    [] OTHER -> Plus(pc, Four)

Step ==
  LET i == Fetch(program, pc)
      a == regs[i.rs1]
      b == regs[i.rs2]
  IN /\ pc' = NextPc(i, a, b)
     /\ regs' = IF i.op \in Writers /\ i.rd # x0
                THEN [regs EXCEPT ![i.rd] = Result(i, a, b)] ELSE regs
     /\ mem' = IF i.op = "store" THEN Store(mem, Plus(a, i.imm), i.funct3, b) ELSE mem
     /\ UNCHANGED program

Spec == Init /\ [][Step]_vars
=============================================================================
