------------------------------ MODULE Mos6502 ------------------------------
(***************************************************************************)
(* What the cycle-level core and the instruction set of the 6502 share:    *)
(* the opcode table, the ALU and the status register.  Registers hold      *)
(* bytes; the status register is a record of its six flags, and is a byte  *)
(* only where it is pushed or pulled.                                      *)
(***************************************************************************)
EXTENDS Integers, Sequences

Bytes == {n \in Nat : n <= 255}
Words == {n \in Nat : n <= 65535}

Low(w) == w % 256
High(w) == w \div 256
Word(lo, hi) == 256 * hi + lo
Bit(byte, n) == (byte \div 2^n) % 2

\* f where it is defined, and g elsewhere.
f ++ g == [x \in DOMAIN f \cup DOMAIN g |-> IF x \in DOMAIN f THEN f[x] ELSE g[x]]

-----------------------------------------------------------------------------
(* The opcode table.                                                       *)

Opcodes == [
  ADC |-> [IMM |-> \h69, ZP |-> \h65, ZPX |-> \h75, ABS |-> \h6d, ABX |-> \h7d, ABY |-> \h79, IZX |-> \h61, IZY |-> \h71],
  AND |-> [IMM |-> \h29, ZP |-> \h25, ZPX |-> \h35, ABS |-> \h2d, ABX |-> \h3d, ABY |-> \h39, IZX |-> \h21, IZY |-> \h31],
  CMP |-> [IMM |-> \hc9, ZP |-> \hc5, ZPX |-> \hd5, ABS |-> \hcd, ABX |-> \hdd, ABY |-> \hd9, IZX |-> \hc1, IZY |-> \hd1],
  EOR |-> [IMM |-> \h49, ZP |-> \h45, ZPX |-> \h55, ABS |-> \h4d, ABX |-> \h5d, ABY |-> \h59, IZX |-> \h41, IZY |-> \h51],
  LDA |-> [IMM |-> \ha9, ZP |-> \ha5, ZPX |-> \hb5, ABS |-> \had, ABX |-> \hbd, ABY |-> \hb9, IZX |-> \ha1, IZY |-> \hb1],
  ORA |-> [IMM |-> \h09, ZP |-> \h05, ZPX |-> \h15, ABS |-> \h0d, ABX |-> \h1d, ABY |-> \h19, IZX |-> \h01, IZY |-> \h11],
  SBC |-> [IMM |-> \he9, ZP |-> \he5, ZPX |-> \hf5, ABS |-> \hed, ABX |-> \hfd, ABY |-> \hf9, IZX |-> \he1, IZY |-> \hf1],
  STA |-> [ZP |-> \h85, ZPX |-> \h95, ABS |-> \h8d, ABX |-> \h9d, ABY |-> \h99, IZX |-> \h81, IZY |-> \h91],
  ASL |-> [IMP |-> \h0a, ZP |-> \h06, ZPX |-> \h16, ABS |-> \h0e, ABX |-> \h1e],
  LSR |-> [IMP |-> \h4a, ZP |-> \h46, ZPX |-> \h56, ABS |-> \h4e, ABX |-> \h5e],
  ROL |-> [IMP |-> \h2a, ZP |-> \h26, ZPX |-> \h36, ABS |-> \h2e, ABX |-> \h3e],
  ROR |-> [IMP |-> \h6a, ZP |-> \h66, ZPX |-> \h76, ABS |-> \h6e, ABX |-> \h7e],
  DEC |-> [ZP |-> \hc6, ZPX |-> \hd6, ABS |-> \hce, ABX |-> \hde],
  INC |-> [ZP |-> \he6, ZPX |-> \hf6, ABS |-> \hee, ABX |-> \hfe],
  LDX |-> [IMM |-> \ha2, ZP |-> \ha6, ZPY |-> \hb6, ABS |-> \hae, ABY |-> \hbe],
  LDY |-> [IMM |-> \ha0, ZP |-> \ha4, ZPX |-> \hb4, ABS |-> \hac, ABX |-> \hbc],
  STX |-> [ZP |-> \h86, ZPY |-> \h96, ABS |-> \h8e],
  STY |-> [ZP |-> \h84, ZPX |-> \h94, ABS |-> \h8c],
  CPX |-> [IMM |-> \he0, ZP |-> \he4, ABS |-> \hec],
  CPY |-> [IMM |-> \hc0, ZP |-> \hc4, ABS |-> \hcc],
  BIT |-> [ZP |-> \h24, ABS |-> \h2c],
  JMP |-> [JMP_ABS |-> \h4c, JMP_IND |-> \h6c],
  JSR |-> [JSR_ABS |-> \h20], RTS |-> [RTS_IMP |-> \h60], RTI |-> [RTI_IMP |-> \h40], BRK |-> [BRK_IMP |-> \h00],
  PHA |-> [PUSH |-> \h48], PHP |-> [PUSH |-> \h08], PLA |-> [PULL |-> \h68], PLP |-> [PULL |-> \h28],
  CLC |-> [IMP |-> \h18], CLD |-> [IMP |-> \hd8], CLI |-> [IMP |-> \h58], CLV |-> [IMP |-> \hb8],
  SEC |-> [IMP |-> \h38], SED |-> [IMP |-> \hf8], SEI |-> [IMP |-> \h78], NOP |-> [IMP |-> \hea],
  DEX |-> [IMP |-> \hca], DEY |-> [IMP |-> \h88], INX |-> [IMP |-> \he8], INY |-> [IMP |-> \hc8],
  TAX |-> [IMP |-> \haa], TAY |-> [IMP |-> \ha8], TSX |-> [IMP |-> \hba],
  TXA |-> [IMP |-> \h8a], TXS |-> [IMP |-> \h9a], TYA |-> [IMP |-> \h98]]

\* The opcodes xxx10000 are the branches, and one that is not listed is a NOP.
Named(op) ==
  IF op % 32 = 16 THEN <<"BRANCH", "REL">>
  ELSE IF \E n \in DOMAIN Opcodes : \E m \in DOMAIN Opcodes[n] : Opcodes[n][m] = op
  THEN CHOOSE nm \in UNION {{n} \X DOMAIN Opcodes[n] : n \in DOMAIN Opcodes} :
         Opcodes[nm[1]][nm[2]] = op
  ELSE <<"NOP", "IMP">>

\* What an instruction computes: an operation of the ALU on a register (sb) and
\* the byte read (db), where the result goes, and the flags it sets.
Nothing == [op |-> "OR", sb |-> "0", db |-> "0", cin |-> "0", dec |-> FALSE, dst |-> "none",
            flags |-> {}, fop |-> <<>>, store |-> "A", access |-> "READ"]
Reads(op, sb, dst, flags) == [op |-> op, sb |-> sb, db |-> "DATA", dst |-> dst, flags |-> flags]
Moves(sb, dst) == [sb |-> sb, dst |-> dst, flags |-> {"n", "z"}]
Counts(op, cin, r, dst) == [op |-> op, sb |-> r, cin |-> cin, dst |-> dst, flags |-> {"n", "z"}]
Shifts(op, cin) == [op |-> op, sb |-> "A", cin |-> cin, dst |-> "A", flags |-> {"n", "z", "c"}]
Stores(r) == [store |-> r, access |-> "WRITE"]
Sets(flag, to) == [fop |-> <<flag, to>>]

Operation(ins) ==
  CASE ins = "ADC" -> [cin |-> "C", dec |-> TRUE] ++ Reads("ADD", "A", "A", {"n", "z", "c", "v"})
    [] ins = "SBC" -> [cin |-> "C", dec |-> TRUE] ++ Reads("SUB", "A", "A", {"n", "z", "c", "v"})
    [] ins = "AND" -> Reads("AND", "A", "A", {"n", "z"})
    [] ins = "ORA" -> Reads("OR", "A", "A", {"n", "z"})
    [] ins = "EOR" -> Reads("EOR", "A", "A", {"n", "z"})
    [] ins = "BIT" -> Reads("AND", "A", "none", {"bit"})
    [] ins = "CMP" -> [cin |-> "1"] ++ Reads("SUB", "A", "none", {"n", "z", "c"})
    [] ins = "CPX" -> [cin |-> "1"] ++ Reads("SUB", "X", "none", {"n", "z", "c"})
    [] ins = "CPY" -> [cin |-> "1"] ++ Reads("SUB", "Y", "none", {"n", "z", "c"})
    [] ins \in {"LDA", "PLA"} -> Reads("OR", "0", "A", {"n", "z"})
    [] ins = "LDX" -> Reads("OR", "0", "X", {"n", "z"})
    [] ins = "LDY" -> Reads("OR", "0", "Y", {"n", "z"})
    [] ins = "PLP" -> [dst |-> "P"]
    [] ins = "STA" -> Stores("A")
    [] ins = "STX" -> Stores("X")
    [] ins = "STY" -> Stores("Y")
    [] ins = "PHP" -> [store |-> "P"]
    [] ins = "ASL" -> Shifts("SL", "0")
    [] ins = "ROL" -> Shifts("SL", "C")
    [] ins = "LSR" -> Shifts("SR", "0")
    [] ins = "ROR" -> Shifts("SR", "C")
    [] ins = "INC" -> Counts("ADD", "1", "DL", "MEM")
    [] ins = "DEC" -> Counts("SUB", "0", "DL", "MEM")
    [] ins = "INX" -> Counts("ADD", "1", "X", "X")
    [] ins = "INY" -> Counts("ADD", "1", "Y", "Y")
    [] ins = "DEX" -> Counts("SUB", "0", "X", "X")
    [] ins = "DEY" -> Counts("SUB", "0", "Y", "Y")
    [] ins = "TAX" -> Moves("A", "X")
    [] ins = "TAY" -> Moves("A", "Y")
    [] ins = "TXA" -> Moves("X", "A")
    [] ins = "TYA" -> Moves("Y", "A")
    [] ins = "TSX" -> Moves("S", "X")
    [] ins = "TXS" -> [sb |-> "X", dst |-> "S"]
    [] ins = "CLC" -> Sets("c", 0)
    [] ins = "SEC" -> Sets("c", 1)
    [] ins = "CLI" -> Sets("i", 0)
    [] ins = "SEI" -> Sets("i", 1)
    [] ins = "CLV" -> Sets("v", 0)
    [] ins = "CLD" -> Sets("d", 0)
    [] ins = "SED" -> Sets("d", 1)
    [] OTHER -> Nothing

\* A shift of a memory byte works on the byte read, as INC and DEC do.
Decode(op) ==
  LET ins == Named(op)[1]
      mode == Named(op)[2]
      d == Operation(ins) ++ Nothing
      inMemory == d.dst = "MEM" \/ (ins \in {"ASL", "ROL", "LSR", "ROR"} /\ mode # "IMP")
  IN [mode |-> mode, cond |-> op \div 32] ++
     IF inMemory THEN [sb |-> "DL", dst |-> "MEM", access |-> "RMW"] ++ d ELSE d

Decoded == [op \in 0..255 |-> Decode(op)]

-----------------------------------------------------------------------------
(* The ALU: its result, and the flags it hands to the status register.     *)

Flags(result, c, v) ==
  [result |-> result, c |-> c, v |-> v, n |-> Bit(result, 7), z |-> IF result = 0 THEN 1 ELSE 0]

\* Subtraction is addition of the complement.
Binary(x, y, ci) ==
  LET sum == x + y + ci
      differs == Bit(x, 7) = Bit(y, 7) /\ Bit(x, 7) # Bit(sum, 7)
  IN Flags(sum % 256, Bit(sum, 8), IF differs THEN 1 ELSE 0)

\* With D set, N and V of a sum come from the half-adjusted one and Z from the
\* binary one; a difference has the flags of the binary one.
DecimalSum(x, y, ci) ==
  LET digits == (x % 16) + (y % 16) + ci
      lo == IF digits >= 10 THEN ((digits + 6) % 16) + 16 ELSE digits
      upper(b) == b - (b % 16)
      signed(b) == upper(b) - 256 * Bit(b, 7)
      half == upper(x) + upper(y) + lo
      full == IF half >= \ha0 THEN half + \h60 ELSE half
      sum == signed(x) + signed(y) + lo
  IN [result |-> full % 256, c |-> IF full >= 256 THEN 1 ELSE 0, n |-> Bit(half, 7),
      v |-> IF sum < -128 \/ sum > 127 THEN 1 ELSE 0, z |-> Binary(x, y, ci).z]

DecimalDifference(x, y, ci) ==
  LET digits == (x % 16) - (y % 16) + ci - 1
      lo == IF digits < 0 THEN ((digits - 6) % 16) - 16 ELSE digits
      half == (x - (x % 16)) - (y - (y % 16)) + lo
  IN [Binary(x, 255 - y, ci) EXCEPT !.result = (IF half < 0 THEN half - \h60 ELSE half) % 256]

\* The byte whose bits are those for which f holds of the bits of x and y.
Bits(f(_, _), x, y) ==
  LET bit(n) == IF f(Bit(x, n) = 1, Bit(y, n) = 1) THEN 2^n ELSE 0
  IN bit(0) + bit(1) + bit(2) + bit(3) + bit(4) + bit(5) + bit(6) + bit(7)

ALU(op, x, y, ci, decimal) ==
  CASE op = "ADD" -> IF decimal THEN DecimalSum(x, y, ci) ELSE Binary(x, y, ci)
    [] op = "SUB" -> IF decimal THEN DecimalDifference(x, y, ci) ELSE Binary(x, 255 - y, ci)
    [] op = "AND" -> Flags(Bits(LAMBDA a, b : a /\ b, x, y), 0, 0)
    [] op = "OR"  -> Flags(Bits(LAMBDA a, b : a \/ b, x, y), 0, 0)
    [] op = "EOR" -> Flags(Bits(LAMBDA a, b : a # b, x, y), 0, 0)
    [] op = "SL"  -> Flags((2 * x + ci) % 256, Bit(x, 7), 0)
    [] op = "SR"  -> Flags((x \div 2) + 128 * ci, Bit(x, 0), 0)

-----------------------------------------------------------------------------
(* The status register.                                                    *)

Pack(p, b) == 128 * p.n + 64 * p.v + 32 + 16 * b + 8 * p.d + 4 * p.i + 2 * p.z + p.c
Unpack(byte) == [n |-> Bit(byte, 7), v |-> Bit(byte, 6), d |-> Bit(byte, 3),
                 i |-> Bit(byte, 2), z |-> Bit(byte, 1), c |-> Bit(byte, 0)]

\* The status after an operation: a pulled byte, then the flags of the ALU (of
\* the byte read for BIT), then the flag the instruction names.
Status(p, alu, data, pulled, flags, fop) ==
  LET q == IF pulled THEN Unpack(data) ELSE p
      r == [f \in DOMAIN q |-> IF f \in flags THEN alu[f] ELSE q[f]]
      b == IF "bit" \in flags
           THEN [r EXCEPT !.n = Bit(data, 7), !.v = Bit(data, 6), !.z = alu.z] ELSE r
  IN IF fop = <<>> THEN b ELSE [b EXCEPT ![fop[1]] = fop[2]]

\* Bits 7 and 6 of a branch name its flag, and bit 5 the value it is taken on.
Taken(cond, p) == <<p.n, p.v, p.c, p.z>>[(cond \div 2) + 1] = cond % 2
=============================================================================
