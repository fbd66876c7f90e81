--------------------------- MODULE Core6502Proofs ---------------------------
(* The core of the 6502 runs the instructions of Isa6502, for every memory and    *)
(* program and every course of the interrupt and reset pins.  Bottom up: words and *)
(* the ALU; the opcode table; the memory that bus cycles make; types; what each   *)
(* word of control does to the registers; the lines of each cycle; TypesHold; the *)
(* step of each phase, and InvariantHolds; the terms of Isa6502 in those of the   *)
(* core, the end of each instruction, and CoreImplementsIsa.                      *)
EXTENDS Core6502Invariant, SequenceTheorems, TLAPS

-----------------------------------------------------------------------------
(* Numbers *)

\* A word is made of its two bytes.
LEMMA WordParts ==
  ASSUME NEW w \in Words
  PROVE  Low(w) \in Bytes /\ High(w) \in Bytes /\ Word(Low(w), High(w)) = w
BY DEF Low, High, Word, Words, Bytes

\* Two bytes make a word, and are its parts.
LEMMA PartsWord ==
  ASSUME NEW l \in Bytes, NEW h \in Bytes
  PROVE  Word(l, h) \in Words /\ Low(Word(l, h)) = l /\ High(Word(l, h)) = h
BY DEF Low, High, Word, Bytes, Words

\* A word is what is left of a number after it wraps.
LEMMA Wraps ==
  ASSUME NEW w \in Int
  PROVE  w % 65536 \in Words /\ (w \in Words => w % 65536 = w)
BY DEF Words

\* Wrapping early changes no sum.
LEMMA WrapsTwice ==
  ASSUME NEW w \in Int, NEW k \in Int
  PROVE  ((w % 65536) + k) % 65536 = (w + k) % 65536
OBVIOUS

\* The same of bytes.
LEMMA ByteWraps ==
  ASSUME NEW w \in Int
  PROVE  w % 256 \in Bytes /\ (w \in Bytes => w % 256 = w)
BY DEF Bytes

\* And of their sums.
LEMMA ByteWrapsTwice ==
  ASSUME NEW w \in Int, NEW k \in Int
  PROVE  ((w % 256) + k) % 256 = (w + k) % 256
OBVIOUS

\* A byte is a word with no high byte.
LEMMA BytesAreWords ==
  /\ Bytes \subseteq Words /\ Words \subseteq Int
  /\ \A b \in Bytes : Word(b, 0) = b /\ Low(b) = b /\ High(b) = 0
BY DEF Bytes, Words, Word, Low, High

\* The carry, and the sign, of a number.
LEMMA BitIs ==
  /\ \A x \in Sums : Bit(x, 8) = IF x >= 256 THEN 1 ELSE 0
  /\ \A x \in Bytes : Bit(x, 7) = IF x >= 128 THEN 1 ELSE 0
<1>1. \A x \in Sums : Bit(x, 8) = IF x >= 256 THEN 1 ELSE 0
  BY DEF Bit, Sums
<1>2. \A x \in Bytes : Bit(x, 7) = IF x >= 128 THEN 1 ELSE 0
  BY DEF Bit, Bytes
<1>3. QED
  BY <1>1, <1>2

\* A bit is 0 or 1.
LEMMA BitType ==
  ASSUME NEW x \in Int
  PROVE  /\ Bit(x, 0) \in Bin /\ Bit(x, 1) \in Bin /\ Bit(x, 2) \in Bin /\ Bit(x, 3) \in Bin
         /\ Bit(x, 6) \in Bin /\ Bit(x, 7) \in Bin /\ Bit(x, 8) \in Bin
BY 2^0 = 1, 2^1 = 2, 2^2 = 4, 2^3 = 8, 2^6 = 64, 2^7 = 128, 2^8 = 256 DEF Bit, Bin

\* What is in a number of two bytes.
LEMMA SplitIs ==
  ASSUME NEW h \in Int, NEW l \in Bytes
  PROVE  (256 * h + l) % 256 = l /\ (256 * h + l) \div 256 = h
BY DEF Bytes

\* A carry into the high byte, or out of it, wraps.
LEMMA WordWraps ==
  ASSUME NEW h \in Int, -1 <= h, h <= 256, NEW l \in Bytes
  PROVE  (256 * h + l) % 65536 = Word(l, h % 256)
BY DEF Bytes, Word

\* An index on an address: the carry out of its low byte goes to the high one.
LEMMA IndexedIs ==
  ASSUME NEW base \in Words, NEW i \in Bytes,
         NEW sum \in Int, sum = Low(base) + i, NEW carry \in Int, carry = sum \div 256
  PROVE  /\ carry \in Bin /\ carry = Bit(sum, 8) /\ sum % 256 \in Bytes
         /\ (base + i) % 65536 = Word(sum % 256, (High(base) + carry) % 256)
         /\ (base + i) % 65536 = Word(sum % 256, High(base)) <=> carry = 0
<1>1. Low(base) \in Bytes /\ High(base) \in Bytes /\ base = 256 * High(base) + Low(base)
  BY WordParts DEF Word
<1>2. sum \in Sums
  BY <1>1 DEF Bytes, Sums
<1>3. carry = IF sum >= 256 THEN 1 ELSE 0
  BY <1>2 DEF Sums
<1>4. sum % 256 = IF sum >= 256 THEN sum - 256 ELSE sum
  BY <1>2 DEF Sums
<1>5. carry = Bit(sum, 8)
  BY <1>2, <1>3, BitIs
<1>6. carry \in Bin /\ carry \in Int /\ sum % 256 \in Bytes
  BY <1>2, <1>3, <1>4 DEF Bin, Bytes, Sums
<1>9. sum = 256 * carry + (sum % 256)
  BY <1>2, <1>3, <1>4 DEF Sums
<1>7. ASSUME NEW h \in Int, h = High(base), NEW l \in Int, l = sum % 256
      PROVE  /\ (base + i) % 65536 = Word(l, (h + carry) % 256)
             /\ Word(l, (h + carry) % 256) = Word(l, h) <=> carry = 0
  <2>1. l \in Bytes /\ h \in Bytes /\ h + carry \in Int /\ h + carry >= -1 /\ h + carry <= 256 /\ carry \in {0, 1}
    BY <1>1, <1>6, <1>7 DEF Bytes, Bin
  <2>2. base + i = 256 * (h + carry) + l
    <3>1. base \in Int /\ i \in Int /\ Low(base) \in Int
      BY <1>1 DEF Bytes, Words
    <3>2. QED
      BY <1>1, <1>7, <1>9, <2>1, <3>1
  <2>3. (base + i) % 65536 = Word(l, (h + carry) % 256)
    BY <2>1, <2>2, WordWraps
  <2>4. (h + carry) % 256 = IF carry = 0 THEN h ELSE IF h = 255 THEN 0 ELSE h + 1
    BY <2>1 DEF Bytes
  <2>5. QED
    BY <2>1, <2>3, <2>4 DEF Word, Bytes
<1>8. QED
  <2>1. High(base) \in Int /\ sum % 256 \in Int
    BY <1>1, <1>6 DEF Bytes
  <2>2. QED
    BY <1>5, <1>6, <1>7, <2>1

\* A signed offset to an address, as the core adds it: the carry of the low
\* byte against the sign says whether the high byte has to follow.
LEMMA OffsetIs ==
  ASSUME NEW f \in Words, NEW d \in Bytes, NEW sum \in Int, sum = Low(f) + d,
         NEW leaves \in Int, leaves = (Bit(sum, 8) + Bit(d, 7)) % 2,
         NEW target \in Int, target = (f + (d - 256 * Bit(d, 7))) % 65536
  PROVE  /\ target \in Words /\ leaves \in Bin /\ sum % 256 \in Bytes
         /\ leaves = 0 => target = Word(sum % 256, High(f)) /\ High(target) = High(f)
         /\ leaves = 1 => /\ High(target) # High(f) /\ Low(target) = sum % 256
                          /\ target = Word(sum % 256, (High(f) + (IF Bit(d, 7) = 1 THEN 255 ELSE 1)) % 256)
<1>1. Low(f) \in Bytes /\ High(f) \in Bytes /\ f = 256 * High(f) + Low(f)
  BY WordParts DEF Word
<1>2. sum \in Sums
  BY <1>1 DEF Bytes, Sums
<1>3. /\ Bit(d, 7) = IF d >= 128 THEN 1 ELSE 0
      /\ Bit(sum, 8) = IF sum >= 256 THEN 1 ELSE 0
  BY <1>2, BitIs
<1>4. sum % 256 = IF sum >= 256 THEN sum - 256 ELSE sum
  BY <1>2 DEF Sums
<1>5. sum % 256 \in Bytes /\ Bit(sum, 8) \in {0, 1} /\ Bit(d, 7) \in {0, 1}
  BY <1>2, <1>3, <1>4 DEF Bytes, Sums
<1>6. leaves = IF Bit(sum, 8) = Bit(d, 7) THEN 0 ELSE 1
  BY <1>5
<1>7. ASSUME NEW h \in Int, h = High(f) + Bit(sum, 8) - Bit(d, 7), NEW l \in Int, l = sum % 256, NEW g \in Int, g = High(f)
      PROVE  /\ target = Word(l, h % 256) /\ target \in Words
             /\ High(target) = h % 256 /\ Low(target) = l
             /\ leaves = 0 => h % 256 = g
             /\ leaves = 1 => h % 256 # g /\ h % 256 = (g + (IF Bit(d, 7) = 1 THEN 255 ELSE 1)) % 256
  <2>1. g \in Bytes /\ h \in Int /\ -1 <= h /\ h <= 256 /\ l \in Bytes
    BY <1>1, <1>5, <1>7 DEF Bytes
  <2>2. f + (d - 256 * Bit(d, 7)) = 256 * h + l
    <3>1. f \in Int /\ d \in Int /\ Low(f) \in Int /\ sum \in Int
      BY <1>1, <1>2 DEF Bytes, Words, Sums
    <3>2. sum = 256 * Bit(sum, 8) + l
      BY <1>3, <1>4, <1>7, <3>1
    <3>3. QED
      BY <1>1, <1>5, <1>7, <2>1, <3>1, <3>2
  <2>3. target = Word(l, h % 256)
    BY <2>1, <2>2, WordWraps
  <2>4. h % 256 = IF h = -1 THEN 255 ELSE IF h = 256 THEN 0 ELSE h
    BY <2>1
  <2>5. h % 256 \in Bytes
    BY <2>1, <2>4 DEF Bytes
  <2>6. target \in Words /\ High(target) = h % 256 /\ Low(target) = l
    BY <2>1, <2>3, <2>5, PartsWord
  <2>7. h = IF leaves = 0 THEN g ELSE IF Bit(d, 7) = 1 THEN g - 1 ELSE g + 1
    BY <1>5, <1>6, <1>7, <2>1 DEF Bytes
  <2>8. (g + 255) % 256 = (IF g = 0 THEN 255 ELSE g - 1) /\ (g + 1) % 256 = (IF g = 255 THEN 0 ELSE g + 1)
    BY <2>1 DEF Bytes
  <2>9. QED
    BY <2>1, <2>3, <2>4, <2>6, <2>7, <2>8 DEF Bytes
<1>8. QED
  <2>1. High(f) \in Int /\ sum % 256 \in Int /\ High(f) + Bit(sum, 8) - Bit(d, 7) \in Int
    BY <1>1, <1>5 DEF Bytes
  <2>2. leaves \in Bin
    BY <1>6 DEF Bin
  <2>3. QED
    BY <1>5, <1>6, <1>7, <2>1, <2>2

-----------------------------------------------------------------------------
(* The ALU *)

\* The flags of a result are of their type.
LEMMA FlagsType ==
  ASSUME NEW r \in Bytes, NEW c \in Bin, NEW v \in Bin
  PROVE  Flags(r, c, v) \in Flagged /\ Flags(r, c, v).result = r /\ Flags(r, c, v).c = c
<1>1. Bit(r, 7) \in Bin
  BY BitType DEF Bytes
<1>2. QED
  BY <1>1 DEF Flags, Flagged, Bin

\* A bitwise operation makes a byte.
LEMMA BitsType ==
  ASSUME NEW f(_, _), NEW x, NEW y
  PROVE  Bits(f, x, y) \in Bytes
<1>1. /\ 2^0 = 1 /\ 2^1 = 2 /\ 2^2 = 4 /\ 2^3 = 8
      /\ 2^4 = 16 /\ 2^5 = 32 /\ 2^6 = 64 /\ 2^7 = 128
  OBVIOUS
<1>2. QED
  BY <1>1 DEF Bits, Bytes

\* A binary addition.
LEMMA BinaryType ==
  ASSUME NEW x \in Int, NEW y \in Int, NEW ci \in Int
  PROVE  /\ Binary(x, y, ci) \in Flagged
         /\ Binary(x, y, ci).result = (x + y + ci) % 256 /\ Binary(x, y, ci).c = Bit(x + y + ci, 8)
<1>1. (x + y + ci) % 256 \in Bytes /\ Bit(x + y + ci, 8) \in Bin
  BY ByteWraps, BitType
<1>2. \A v \in Bin : LET b == Flags((x + y + ci) % 256, Bit(x + y + ci, 8), v)
                     IN b \in Flagged /\ b.result = (x + y + ci) % 256 /\ b.c = Bit(x + y + ci, 8)
  BY <1>1, FlagsType
<1>3. QED
  BY <1>2 DEF Binary, Bin

\* A decimal addition or subtraction makes a byte and flags.
LEMMA DecimalType ==
  ASSUME NEW x \in Bytes, NEW y \in Bytes, NEW ci \in Bin
  PROVE  DecimalSum(x, y, ci) \in Flagged /\ DecimalDifference(x, y, ci) \in Flagged
<1>1. x \in Int /\ y \in Int /\ ci \in Int
  BY DEF Bytes, Bin
<1>2. DecimalSum(x, y, ci) \in Flagged
  <2>1. Binary(x, y, ci).z \in Bin
    BY <1>1, BinaryType DEF Flagged
  <2>2. \A h \in Int : h % 256 \in Bytes /\ Bit(h, 7) \in Bin
    BY ByteWraps, BitType
  <2> DEFINE digits == (x % 16) + (y % 16) + ci
             lo == IF digits >= 10 THEN ((digits + 6) % 16) + 16 ELSE digits
             half == (x - (x % 16)) + (y - (y % 16)) + lo
             full == IF half >= \ha0 THEN half + \h60 ELSE half
  <2>3. digits \in Int
    BY <1>1
  <2>4. lo \in Int
    BY <2>3
  <2>5. half \in Int
    BY <2>4, <1>1
  <2>6. full \in Int
    BY <2>5
  <2>7. full % 256 \in Bytes /\ Bit(half, 7) \in Bin
    BY <2>2, <2>5, <2>6
  <2>8. QED
    BY <2>1, <2>7 DEF DecimalSum, Flagged, Bin
<1>3. DecimalDifference(x, y, ci) \in Flagged
  <2> DEFINE digits == (x % 16) - (y % 16) + ci - 1
             lo == IF digits < 0 THEN ((digits - 6) % 16) - 16 ELSE digits
             half == (x - (x % 16)) - (y - (y % 16)) + lo
             res == (IF half < 0 THEN half - \h60 ELSE half) % 256
  <2>1. digits \in Int
    BY <1>1
  <2>2. lo \in Int
    BY <2>1
  <2>3. half \in Int
    BY <2>2, <1>1
  <2>4. res \in Bytes
    BY <2>3, ByteWraps
  <2>5. Binary(x, 255 - y, ci) \in Flagged
    BY <1>1, BinaryType
  <2>6. DecimalDifference(x, y, ci) = [Binary(x, 255 - y, ci) EXCEPT !.result = res]
    BY DEF DecimalDifference
  <2> HIDE DEF res
  <2>7. QED
    BY <2>4, <2>5, <2>6 DEF Flagged
<1>4. QED
  BY <1>2, <1>3

\* Whatever the ALU is asked, it makes a byte and flags.
LEMMA AluType ==
  ASSUME NEW op \in Ops, NEW x \in Bytes, NEW y \in Bytes, NEW ci \in Bin, NEW decimal
  PROVE  ALU(op, x, y, ci, decimal) \in Flagged
<1>1. x \in Int /\ y \in Int /\ ci \in Int /\ 255 - y \in Int
  BY DEF Bytes, Bin
<1>2. CASE op \in {"ADD", "SUB"}
  BY <1>1, <1>2, BinaryType, DecimalType DEF ALU
<1>3. CASE op = "AND"
  BY <1>3, FlagsType, BitsType DEF ALU, Bin
<1>4. CASE op = "OR"
  BY <1>4, FlagsType, BitsType DEF ALU, Bin
<1>5. CASE op = "EOR"
  BY <1>5, FlagsType, BitsType DEF ALU, Bin
<1>6. CASE op = "SL"
  <2>1. (2 * x + ci) % 256 \in Bytes /\ Bit(x, 7) \in Bin
    BY <1>1, ByteWraps, BitType
  <2>2. QED
    BY <1>6, <2>1, FlagsType DEF ALU, Bin
<1>7. CASE op = "SR"
  <2>1. (x \div 2) + 128 * ci \in Bytes
    BY DEF Bytes, Bin
  <2>2. Bit(x, 0) \in Bin
    BY <1>1, BitType
  <2>3. QED
    BY <1>7, <2>1, <2>2, FlagsType DEF ALU, Bin
<1>8. QED
  BY <1>2, <1>3, <1>4, <1>5, <1>6, <1>7 DEF Ops

\* What the core's own cycles ask of the ALU.
LEMMA AddIs ==
  ASSUME NEW x \in Bytes, NEW y \in Bytes, NEW ci \in Bin
  PROVE  LET alu == ALU("ADD", x, y, ci, FALSE)
         IN alu.result = (x + y + ci) % 256 /\ alu.c = Bit(x + y + ci, 8)
<1>1. x \in Int /\ y \in Int /\ ci \in Int
  BY DEF Bytes, Bin
<1>2. ALU("ADD", x, y, ci, FALSE) = Binary(x, y, ci)
  BY DEF ALU
<1>3. /\ Binary(x, y, ci).result = (x + y + ci) % 256
      /\ Binary(x, y, ci).c = Bit(x + y + ci, 8)
  BY <1>1, BinaryType
<1>4. QED
  BY <1>2, <1>3

\* The stack pointer goes down by one.
LEMMA TakeOneIs ==
  ASSUME NEW x \in Bytes
  PROVE  ALU("SUB", x, 0, 0, FALSE).result = (x + 255) % 256
<1>1. x \in Int
  BY DEF Bytes
<1>2. ALU("SUB", x, 0, 0, FALSE) = Binary(x, 255 - 0, 0)
  BY DEF ALU
<1>3. Binary(x, 255 - 0, 0).result = (x + (255 - 0) + 0) % 256
  BY <1>1, BinaryType
<1>4. x + (255 - 0) + 0 = x + 255
  BY <1>1
<1>5. QED
  BY <1>2, <1>3, <1>4

-----------------------------------------------------------------------------
(* The status register *)

\* A byte unpacks to a status.
LEMMA UnpackType ==
  ASSUME NEW b \in Bytes
  PROVE  Unpack(b) \in Statuses
<1>1. b \in Int
  BY DEF Bytes
<1>2. QED
  BY <1>1, BitType DEF Unpack, Statuses, FlagNames

\* A status packs to a byte.
LEMMA PackType ==
  ASSUME NEW q \in Statuses, NEW b \in Bin
  PROVE  Pack(q, b) \in Bytes
<1>1. q.n \in Bin /\ q.v \in Bin /\ q.d \in Bin /\ q.i \in Bin /\ q.z \in Bin /\ q.c \in Bin
  BY DEF Statuses, FlagNames
<1>2. QED
  BY <1>1 DEF Pack, Bytes, Bin

\* Whatever loads the status, it stays one.
LEMMA StatusType ==
  ASSUME NEW q \in Statuses, NEW alu \in Flagged, NEW b \in Bytes, NEW pulled,
         NEW flags \in SUBSET FlagLines, NEW fop \in Fops
  PROVE  Status(q, alu, b, pulled, flags, fop) \in Statuses
<1> DEFINE u == IF pulled THEN Unpack(b) ELSE q
           r == [f \in DOMAIN u |-> IF f \in flags THEN alu[f] ELSE u[f]]
           s == IF "bit" \in flags THEN [r EXCEPT !.n = Bit(b, 7), !.v = Bit(b, 6), !.z = alu.z] ELSE r
<1>1. u \in Statuses
  BY UnpackType
<1>2. \A f \in flags \cap FlagNames : alu[f] \in Bin
  BY DEF FlagLines, FlagNames, Flagged
<1>3. DOMAIN u = FlagNames /\ \A f \in FlagNames : u[f] \in Bin
  BY <1>1 DEF Statuses
<1> HIDE DEF u
<1>4. r \in Statuses
  BY <1>2, <1>3 DEF Statuses
<1> HIDE DEF r
<1>5. alu.z \in Bin /\ Bit(b, 7) \in Bin /\ Bit(b, 6) \in Bin
  BY BitType DEF Flagged, Bytes
<1>6. s \in Statuses
  BY <1>4, <1>5 DEF Statuses
<1>7. Status(q, alu, b, pulled, flags, fop) = IF fop = <<>> THEN s ELSE [s EXCEPT ![fop[1]] = fop[2]]
  BY DEF Status, u, r
<1> HIDE DEF s
<1>8. CASE fop = <<>>
  BY <1>6, <1>7, <1>8
<1>9. CASE fop # <<>>
  <2>1. fop[2] \in Bin
    BY <1>9 DEF Fops
  <2>2. QED
    BY <1>6, <1>7, <1>9, <2>1 DEF Statuses
<1>10. QED
  BY <1>8, <1>9

\* What the status is after some of the cycles.
LEMMA StatusKept ==
  ASSUME NEW q \in Statuses, NEW alu, NEW b
  PROVE  /\ Status(q, alu, b, FALSE, {}, <<>>) = q
         /\ Status(q, alu, b, FALSE, {}, <<"i", 1>>) = [q EXCEPT !.i = 1]
         /\ Status(q, alu, b, TRUE, {}, <<>>) = Unpack(b)
<1>1. \A u : [f \in DOMAIN u |-> u[f]] = [f \in DOMAIN u |-> IF f \in {} THEN alu[f] ELSE u[f]]
  OBVIOUS
<1>2. q = [f \in DOMAIN q |-> q[f]]
  BY DEF Statuses
<1>3. Unpack(b) = [f \in DOMAIN Unpack(b) |-> Unpack(b)[f]]
  BY DEF Unpack
<1>4. <<"i", 1>> # <<>> /\ <<"i", 1>>[1] = "i" /\ <<"i", 1>>[2] = 1
  OBVIOUS
<1>5. QED
  BY <1>1, <1>2, <1>3, <1>4 DEF Status

\* Merged records stay in their sets.
LEMMA MergeFits ==
  ASSUME NEW f, NEW g, NEW sets, Fits(f, sets), Fits(g, sets)
  PROVE  Fits(f ++ g, sets)
BY DEF Fits, ++

\* Of two merged records the first has its say.
LEMMA MergeIs ==
  ASSUME NEW f, NEW g
  PROVE  /\ \A x : x \in DOMAIN (f ++ g) <=> x \in DOMAIN f \/ x \in DOMAIN g
         /\ \A x \in DOMAIN f : (f ++ g)[x] = f[x]
         /\ \A x \in DOMAIN g : x \notin DOMAIN f => (f ++ g)[x] = g[x]
BY DEF ++

-----------------------------------------------------------------------------
(* The opcode table *)

\* What the opcode table holds.
LEMMA TableAllows ==
  \A n \in DOMAIN Opcodes : \A m \in DOMAIN Opcodes[n] :
    Allowed(n, m) /\ (Opcodes[n][m] = 0 => n = "BRK" /\ m = "BRK_IMP")
BY DEF Opcodes, Allowed, Modes, MemoryModes, Shifted, Counted, Stored

\* BRK is opcode 0.
LEMMA BreakIsZero ==
  "BRK" \in DOMAIN Opcodes /\ "BRK_IMP" \in DOMAIN Opcodes["BRK"] /\ Opcodes["BRK"]["BRK_IMP"] = 0
BY DEF Opcodes

\* What an opcode names is in the table.
LEMMA NamedIs ==
  ASSUME NEW op \in Bytes
  PROVE  /\ Allowed(Named(op)[1], Named(op)[2])
         /\ op = 0 => Named(op)[1] = "BRK" /\ Named(op)[2] = "BRK_IMP"
<1> DEFINE Pairs == UNION {{n} \X DOMAIN Opcodes[n] : n \in DOMAIN Opcodes}
           Listed == \E n \in DOMAIN Opcodes : \E m \in DOMAIN Opcodes[n] : Opcodes[n][m] = op
           nm == CHOOSE nm \in Pairs : Opcodes[nm[1]][nm[2]] = op
<1>1. CASE op % 32 = 16
  <2>1. Named(op) = <<"BRANCH", "REL">> /\ op # 0
    BY <1>1 DEF Named
  <2>2. QED
    BY <2>1 DEF Allowed, Modes, MemoryModes, Shifted, Counted, Stored
<1>2. CASE op % 32 # 16 /\ Listed
  <2>1. Named(op) = nm
    BY <1>2 DEF Named
  <2>2. \E q \in Pairs : Opcodes[q[1]][q[2]] = op
    <3>0. PICK n \in DOMAIN Opcodes : \E m \in DOMAIN Opcodes[n] : Opcodes[n][m] = op
      BY <1>2
    <3>1. PICK m \in DOMAIN Opcodes[n] : Opcodes[n][m] = op
      BY <3>0
    <3>2. <<n, m>> \in Pairs /\ <<n, m>>[1] = n /\ <<n, m>>[2] = m
      OBVIOUS
    <3>3. QED
      BY <3>1, <3>2
  <2>3. nm \in Pairs /\ Opcodes[nm[1]][nm[2]] = op
    BY <2>2
  <2> HIDE DEF nm
  <2>4. nm[1] \in DOMAIN Opcodes /\ nm[2] \in DOMAIN Opcodes[nm[1]]
    <3>1. PICK n \in DOMAIN Opcodes : nm \in {n} \X DOMAIN Opcodes[n]
      BY <2>3
    <3>2. nm[1] = n /\ nm[2] \in DOMAIN Opcodes[n]
      BY <3>1
    <3>3. QED
      BY <3>2
  <2> HIDE DEF Pairs
  <2>5. Allowed(nm[1], nm[2]) /\ (op = 0 => nm[1] = "BRK" /\ nm[2] = "BRK_IMP")
    BY <2>3, <2>4, TableAllows
  <2>6. QED
    BY <2>1, <2>5
<1>3. CASE op % 32 # 16 /\ ~Listed
  <2>1. Named(op) = <<"NOP", "IMP">>
    BY <1>3 DEF Named
  <2>2. op # 0
    BY <1>3, BreakIsZero
  <2>3. QED
    BY <2>1, <2>2 DEF Allowed, Modes, MemoryModes, Shifted, Counted, Stored
<1>4. QED
  BY <1>1, <1>2, <1>3

\* The operations are sound, one by one.
LEMMA OperationIs ==
  ASSUME NEW ins
  PROVE  Sound(ins, Operation(ins))
<1> DEFINE f == Operation(ins)
<1> SUFFICES Sound(ins, f)
  OBVIOUS
<1>1. CASE ins \in {"ADC", "SBC", "CMP", "CPX", "CPY"}
  <2>1. f \in {[cin |-> "C", dec |-> TRUE] ++ Reads("ADD", "A", "A", {"n", "z", "c", "v"}),
               [cin |-> "C", dec |-> TRUE] ++ Reads("SUB", "A", "A", {"n", "z", "c", "v"}),
               [cin |-> "1"] ++ Reads("SUB", "A", "none", {"n", "z", "c"}),
               [cin |-> "1"] ++ Reads("SUB", "X", "none", {"n", "z", "c"}),
               [cin |-> "1"] ++ Reads("SUB", "Y", "none", {"n", "z", "c"})}
    BY <1>1 DEF Operation
  <2> HIDE DEF f
  <2>2. QED
    <3>1. PICK g, h : f = g ++ h /\ g \in {[cin |-> "C", dec |-> TRUE], [cin |-> "1"]} /\
                      h \in {Reads("ADD", "A", "A", {"n", "z", "c", "v"}), Reads("SUB", "A", "A", {"n", "z", "c", "v"}),
                             Reads("SUB", "A", "none", {"n", "z", "c"}), Reads("SUB", "X", "none", {"n", "z", "c"}),
                             Reads("SUB", "Y", "none", {"n", "z", "c"})}
      BY <2>1
    <3>2. Fits(g, InstrSets) /\ DOMAIN g \subseteq {"cin", "dec"}
      BY <3>1 DEF Fits, InstrSets
    <3>3. Fits(h, InstrSets) /\ DOMAIN h = {"op", "sb", "db", "dst", "flags"} /\ h.sb # "DL" /\ h.dst # "MEM"
      BY <3>1 DEF Reads, Fits, InstrSets, Ops, FlagLines
    <3>4. DOMAIN f \subseteq {"cin", "dec", "op", "sb", "db", "dst", "flags"} /\ f.sb = h.sb /\ f.dst = h.dst
      BY <3>1, <3>2, <3>3, MergeIs
    <3>5. Fits(f, InstrSets)
      BY <3>1, <3>2, <3>3, MergeFits
    <3>6. ins \notin Stored /\ ins \notin Counted /\ ins \notin {"PLA", "PLP"} /\ ins \notin {"PHA", "PHP"}
      BY <1>1 DEF Stored, Counted
    <3>7. QED
      BY <3>3, <3>4, <3>5, <3>6 DEF Sound
<1>2. CASE ins \in {"AND", "ORA", "EOR", "BIT", "LDA", "PLA", "LDX", "LDY"}
  <2>1. \/ ins \in {"AND", "ORA", "EOR", "BIT"} /\ f \in {Reads("AND", "A", "A", {"n", "z"}), Reads("OR", "A", "A", {"n", "z"}),
             Reads("EOR", "A", "A", {"n", "z"}), Reads("AND", "A", "none", {"bit"})}
        \/ f \in {Reads("OR", "0", "A", {"n", "z"}), Reads("OR", "0", "X", {"n", "z"}), Reads("OR", "0", "Y", {"n", "z"})}
    BY <1>2 DEF Operation
  <2> HIDE DEF f
  <2>2. QED
    BY <1>2, <2>1 DEF Reads, Sound, Stored, Counted, Fits, InstrSets, FlagLines, Ops
<1>3. CASE ins \in {"PLP", "PHP", "STA", "STX", "STY"}
  <2>1. \/ ins = "PLP" /\ f = [dst |-> "P"]
        \/ ins = "PHP" /\ f = [store |-> "P"]
        \/ ins \in Stored /\ f \in {Stores("A"), Stores("X"), Stores("Y")}
    BY <1>3 DEF Operation, Stored
  <2> HIDE DEF f
  <2>2. QED
    BY <2>1 DEF Stores, Sound, Stored, Counted, Fits, InstrSets
<1>4. CASE ins \in {"ASL", "ROL", "LSR", "ROR"}
  <2>1. f \in {Shifts("SL", "0"), Shifts("SL", "C"), Shifts("SR", "0"), Shifts("SR", "C")}
    BY <1>4 DEF Operation
  <2> HIDE DEF f
  <2>2. QED
    BY <1>4, <2>1 DEF Shifts, Sound, Stored, Counted, Fits, InstrSets, FlagLines, Ops
<1>5. CASE ins \in {"INC", "DEC", "INX", "INY", "DEX", "DEY"}
  <2>1. \/ ins \in Counted /\ f \in {Counts("ADD", "1", "DL", "MEM"), Counts("SUB", "0", "DL", "MEM")}
        \/ ins \notin Counted /\ f \in {Counts("ADD", "1", "X", "X"), Counts("ADD", "1", "Y", "Y"),
                                        Counts("SUB", "0", "X", "X"), Counts("SUB", "0", "Y", "Y")}
    BY <1>5 DEF Operation, Counted
  <2> HIDE DEF f
  <2>2. QED
    BY <1>5, <2>1 DEF Counts, Sound, Stored, Fits, InstrSets, FlagLines, Ops
<1>6. CASE ins \in {"TAX", "TAY", "TXA", "TYA", "TSX", "TXS"}
  <2>1. f \in {Moves("A", "X"), Moves("A", "Y"), Moves("X", "A"), Moves("Y", "A"), Moves("S", "X"),
               [sb |-> "X", dst |-> "S"]}
    BY <1>6 DEF Operation
  <2> HIDE DEF f
  <2>2. QED
    BY <1>6, <2>1 DEF Moves, Sound, Stored, Counted, Fits, InstrSets, FlagLines
<1>7. CASE ins \in {"CLC", "SEC", "CLI", "SEI", "CLV", "CLD", "SED"}
  <2>1. f \in {Sets("c", 0), Sets("c", 1), Sets("i", 0), Sets("i", 1), Sets("v", 0), Sets("d", 0), Sets("d", 1)}
    BY <1>7 DEF Operation
  <2> HIDE DEF f
  <2>2. QED
    BY <1>7, <2>1 DEF Sets, Sound, Stored, Counted, Fits, InstrSets, Fops, Bin
<1>8. CASE ins \notin Stored \cup Counted /\ f = Nothing
  <2>1. DOMAIN Nothing = {"op", "sb", "db", "cin", "dec", "dst", "flags", "fop", "store", "access"}
    BY DEF Nothing
  <2>2. Fits(Nothing, InstrSets)
    BY DEF Nothing, Fits, InstrSets, Ops, FlagLines, Fops
  <2> HIDE DEF f
  <2>3. QED
    BY <1>8, <2>1, <2>2 DEF Sound, Nothing
<1>9. QED
  BY <1>1, <1>2, <1>3, <1>4, <1>5, <1>6, <1>7, <1>8 DEF Operation, Stored, Counted

\* What an opcode decodes to.
LEMMA DecodeIs ==
  ASSUME NEW op \in Bytes
  PROVE  Instr(Decode(op)) /\ (op = 0 => Decode(op).mode = "BRK_IMP")
<1> DEFINE ins == Named(op)[1]
           mode == Named(op)[2]
           f == Operation(ins)
           d == f ++ Nothing
           inMemory == d.dst = "MEM" \/ (ins \in Shifted /\ mode # "IMP")
           top == [sb |-> "DL", dst |-> "MEM", access |-> "RMW"]
           rest == IF inMemory THEN top ++ d ELSE d
           first == [mode |-> mode, cond |-> op \div 32]
<1>1. Decode(op) = first ++ rest
  BY DEF Decode, Shifted
<1>2. Allowed(ins, mode) /\ Sound(ins, f) /\ (op = 0 => mode = "BRK_IMP")
  BY NamedIs, OperationIs
<1>3. op \div 32 \in 0..7
  BY DEF Bytes
<1> HIDE DEF ins, mode, f
<1>4. /\ DOMAIN Nothing = {"op", "sb", "db", "cin", "dec", "dst", "flags", "fop", "store", "access"}
      /\ Nothing.op = "OR" /\ Nothing.sb = "0" /\ Nothing.db = "0" /\ Nothing.cin = "0" /\ Nothing.dst = "none"
      /\ Nothing.flags = {} /\ Nothing.fop = <<>> /\ Nothing.store = "A" /\ Nothing.access = "READ"
  BY DEF Nothing
<1>5. /\ \A x : x \in DOMAIN f => x \in DOMAIN d /\ d[x] = f[x]
      /\ \A x : x \notin DOMAIN f /\ x \in DOMAIN Nothing => x \in DOMAIN d /\ d[x] = Nothing[x]
      /\ \A x : x \in DOMAIN d => x \in DOMAIN f \/ x \in DOMAIN Nothing
  BY MergeIs
<1> HIDE DEF d
<1>6. /\ d.op \in Ops /\ d.sb \in {"A", "X", "Y", "S", "0", "DL"}
      /\ d.db \in {"DATA", "0"} /\ d.cin \in {"0", "1", "C"}
      /\ d.dst \in {"none", "A", "X", "Y", "S", "P", "MEM"} /\ d.flags \in SUBSET FlagLines /\ d.fop \in Fops
      /\ d.store \in {"A", "X", "Y", "P"} /\ d.access \in {"READ", "WRITE", "RMW"}
      /\ "mode" \notin DOMAIN d /\ "cond" \notin DOMAIN d
      /\ {"op", "sb", "db", "cin", "dec", "dst", "flags", "fop", "store", "access"} \subseteq DOMAIN d
  BY <1>2, <1>4, <1>5 DEF Sound, Fits, InstrSets, Ops, Fops
<1>7. /\ IF ins \in Stored THEN d.access = "WRITE" /\ d.store \in {"A", "X", "Y"} /\ d.dst = "none" ELSE d.access = "READ"
      /\ IF ins \in Counted THEN d.sb = "DL" /\ d.dst = "MEM" ELSE d.sb # "DL" /\ d.dst # "MEM"
      /\ ins \in {"PLA", "PLP"} => d.sb = "0"
      /\ ins \in {"PHA", "PHP"} => d.store \in {"A", "P"}
  BY <1>2, <1>4, <1>5 DEF Sound, Stored, Counted
<1>8. /\ inMemory => /\ rest.sb = "DL" /\ rest.dst = "MEM" /\ rest.access = "RMW"
                     /\ \A x \in DOMAIN d : x \notin {"sb", "dst", "access"} => rest[x] = d[x] /\ x \in DOMAIN rest
      /\ "mode" \notin DOMAIN rest /\ "cond" \notin DOMAIN rest
      /\ ~inMemory => rest = d
      /\ {"op", "sb", "db", "cin", "dec", "dst", "flags", "fop", "store", "access"} \subseteq DOMAIN rest
  <2>1. DOMAIN top = {"sb", "dst", "access"} /\ top.sb = "DL" /\ top.dst = "MEM" /\ top.access = "RMW"
    OBVIOUS
  <2> HIDE DEF top, inMemory
  <2>2. QED
    BY <1>6, <2>1, MergeIs
<1>9. inMemory => mode \in MemoryModes /\ ins \notin Stored
  BY <1>2, <1>7 DEF Allowed, Stored, Shifted, Counted
<1>10. inMemory \/ (d.sb # "DL" /\ d.access \in {"READ", "WRITE"} /\ (d.access = "WRITE" => mode \in MemoryModes))
  BY <1>2, <1>7 DEF Allowed
<1>11. DOMAIN first = {"mode", "cond"} /\ first.mode = mode /\ first.cond = op \div 32
  OBVIOUS
<1> HIDE DEF first, rest, inMemory
<1>12. /\ Decode(op).mode = mode /\ Decode(op).cond = op \div 32
       /\ \A x \in DOMAIN rest : x \notin {"mode", "cond"} => Decode(op)[x] = rest[x]
  BY <1>1, <1>11, MergeIs
<1>13. /\ Decode(op).op = d.op /\ Decode(op).db = d.db /\ Decode(op).cin = d.cin /\ Decode(op).flags = d.flags
       /\ Decode(op).fop = d.fop /\ Decode(op).store = d.store /\ Decode(op).sb = rest.sb
       /\ Decode(op).dst = rest.dst /\ Decode(op).access = rest.access
  BY <1>6, <1>8, <1>12
<1>14. mode = "PULL" => d.sb = "0" /\ ~inMemory
  BY <1>2, <1>7, <1>9 DEF Allowed, MemoryModes
<1>15. mode = "PUSH" => d.store \in {"A", "P"}
  BY <1>2, <1>7 DEF Allowed
<1>16. mode \in Modes
  BY <1>2 DEF Allowed
<1>17. CASE inMemory
  BY <1>2, <1>3, <1>6, <1>7, <1>8, <1>9, <1>12, <1>13, <1>14, <1>15, <1>16, <1>17 DEF Instr
<1>18. CASE ~inMemory
  BY <1>2, <1>3, <1>6, <1>7, <1>8, <1>10, <1>12, <1>13, <1>14, <1>15, <1>16, <1>18 DEF Instr
<1>19. QED
  BY <1>17, <1>18

\* So is the table of decoded opcodes.
LEMMA DecodedIs ==
  /\ \A op \in Bytes : Instr(Decoded[op])
  /\ Decoded[0].mode = "BRK_IMP"
<1>1. \A op \in Bytes : op \in 0..255
  BY DEF Bytes
<1>2. \A op \in Bytes : Decoded[op] = Decode(op)
  BY <1>1 DEF Decoded
<1>3. 0 \in Bytes
  BY DEF Bytes
<1>4. QED
  BY <1>2, <1>3, DecodeIs

-----------------------------------------------------------------------------
(* Isa6502 brings its own copies of the operators of Mos6502. *)

\* Words and bits.
LEMMA SameNumbers ==
  /\ \A w : Arch!Low(w) = Low(w) /\ Arch!High(w) = High(w)
  /\ \A l, h : Arch!Word(l, h) = Word(l, h)
  /\ \A b, n : Arch!Bit(b, n) = Bit(b, n)
BY DEF Arch!Low, Arch!High, Arch!Word, Arch!Bit, Low, High, Word, Bit

\* Merged records.
LEMMA SameMerge == \A f, g : Arch!++(f, g) = f ++ g
BY DEF Arch!++, ++

\* The decoded opcodes.
LEMMA SameDecoded == Arch!Decoded = Decoded
<1>1. \A op : Arch!Named(op) = Named(op)
  BY DEF Arch!Named, Named, Arch!Opcodes, Opcodes
<1>2. \A ins : Arch!Operation(ins) = Operation(ins)
  BY SameMerge DEF Arch!Operation, Operation, Arch!Reads, Reads, Arch!Moves, Moves, Arch!Counts, Counts,
                   Arch!Shifts, Shifts, Arch!Stores, Stores, Arch!Sets, Sets, Arch!Nothing, Nothing
<1>3. Arch!Nothing = Nothing
  BY DEF Arch!Nothing, Nothing
<1>4. ASSUME NEW op
      PROVE  Arch!Decode(op) = Decode(op)
  <2> DEFINE n == Named(op)
             d == Operation(n[1]) ++ Nothing
  <2>1. Arch!Named(op) = n /\ Arch!++(Arch!Operation(n[1]), Arch!Nothing) = d
    BY <1>1, <1>2, <1>3, SameMerge
  <2> HIDE DEF n, d
  <2>2. QED
    BY <2>1, SameMerge DEF Arch!Decode, Decode, n, d
<1>5. QED
  BY <1>4 DEF Arch!Decoded, Decoded

\* The ALU.
LEMMA SameALU == \A op, x, y, ci, d : Arch!ALU(op, x, y, ci, d) = ALU(op, x, y, ci, d)
BY DEF Arch!ALU, ALU, Arch!Flags, Flags, Arch!Binary, Binary, Arch!DecimalSum, DecimalSum,
       Arch!DecimalDifference, DecimalDifference, Arch!Bits, Bits, Arch!Bit, Bit

\* The status register.
LEMMA SameStatus ==
  /\ \A b : Arch!Unpack(b) = Unpack(b)
  /\ \A q, b : Arch!Pack(q, b) = Pack(q, b)
  /\ \A q, alu, b, pulled, flags, fop : Arch!Status(q, alu, b, pulled, flags, fop) = Status(q, alu, b, pulled, flags, fop)
  /\ \A cond, q : Arch!Taken(cond, q) = Taken(cond, q)
BY DEF Arch!Unpack, Unpack, Arch!Pack, Pack, Arch!Status, Status, Arch!Taken, Taken, Arch!Bit, Bit

-----------------------------------------------------------------------------
(* Sequences, element by element.  What is in them does not matter.         *)

\* A sequence, and what is added to it, have a set.
LEMMA SeqsOf ==
  ASSUME NEW s, IsSeq(s), NEW e
  PROVE  \E S : s \in Seq(S) /\ e \in S
<1>1. PICK S : s \in Seq(S)
  BY DEF IsSeq
<1>2. s \in Seq(S \cup {e}) /\ e \in S \cup {e}
  BY <1>1, SeqMonotonic
<1>3. QED
  BY <1>2

\* What a longer chain is.
LEMMA ChainIs ==
  ASSUME NEW s, IsSeq(s), NEW e
  PROVE  /\ IsSeq(s ## e) /\ Len(s ## e) = Len(s) + 1 /\ Len(s) \in Nat
         /\ \A i \in 1..Len(s) : (s ## e)[i] = s[i]
         /\ (s ## e)[Len(s) + 1] = e
         /\ DOMAIN s = 1..Len(s) /\ DOMAIN (s ## e) = 1..(Len(s) + 1)
<1>1. PICK S : s \in Seq(S) /\ e \in S
  BY SeqsOf
<1> DEFINE t == Append(s, e)
<1>2. t \in Seq(S) /\ Len(t) = Len(s) + 1 /\ t[Len(s) + 1] = e
  BY <1>1, AppendProperties
<1>3. \A i \in 1..Len(s) : t[i] = s[i]
  BY <1>1, AppendProperties
<1> HIDE DEF t
<1>4. DOMAIN t = 1..Len(t) /\ DOMAIN s = 1..Len(s) /\ Len(s) \in Nat
  BY <1>1, <1>2, LenProperties
<1>5. s ## e = t
  BY DEF ##, t
<1>6. QED
  BY <1>2, <1>3, <1>4, <1>5 DEF IsSeq

\* The empty chain.
LEMMA NilIs == IsSeq(Nil) /\ Len(Nil) = 0
<1>1. <<>> \in Seq({})
  OBVIOUS
<1>2. QED
  BY <1>1 DEF IsSeq, Nil

\* Two sequences are equal when they have the same elements.
LEMMA SameSeq ==
  ASSUME NEW s, IsSeq(s), NEW t, IsSeq(t), Len(s) = Len(t), \A i \in 1..Len(s) : s[i] = t[i]
  PROVE  s = t
<1>1. PICK S, T : s \in Seq(S) /\ t \in Seq(T)
  BY DEF IsSeq
<1>2. s \in Seq(S \cup T) /\ t \in Seq(S \cup T)
  BY <1>1, SeqMonotonic
<1>3. QED
  BY <1>2, SeqEqual

\* What one sequence after another is.
LEMMA ConcatIs ==
  ASSUME NEW s, IsSeq(s), NEW t, IsSeq(t)
  PROVE  /\ IsSeq(s \o t) /\ Len(s \o t) = Len(s) + Len(t) /\ Len(s) \in Nat /\ Len(t) \in Nat
         /\ \A i \in 1..(Len(s) + Len(t)) : (s \o t)[i] = IF i <= Len(s) THEN s[i] ELSE t[i - Len(s)]
<1>1. PICK S, T : s \in Seq(S) /\ t \in Seq(T)
  BY DEF IsSeq
<1>2. s \in Seq(S \cup T) /\ t \in Seq(S \cup T)
  BY <1>1, SeqMonotonic
<1>3. Len(s) \in Nat /\ Len(t) \in Nat
  BY <1>1, LenProperties
<1>4. s \o t \in Seq(S \cup T) /\ Len(s \o t) = Len(s) + Len(t)
  BY <1>2, ConcatProperties
<1>5. \A i \in 1..(Len(s) + Len(t)) : (s \o t)[i] = IF i <= Len(s) THEN s[i] ELSE t[i - Len(s)]
  BY <1>2, ConcatProperties
<1>6. QED
  BY <1>3, <1>4, <1>5 DEF IsSeq

\* A chain grows at its end.
LEMMA ConcatChain ==
  ASSUME NEW s, NEW t, NEW e, Chainable(s, t, e)
  PROVE  s \o Nil = s /\ s \o (t ## e) = (s \o t) ## e
<1> SUFFICES ASSUME IsSeq(s), IsSeq(t)
             PROVE  s \o Nil = s /\ s \o (t ## e) = (s \o t) ## e
  BY DEF Chainable
<1>1. s \o Nil = s
  <2>1. PICK S : s \in Seq(S)
    BY DEF IsSeq
  <2>2. QED
    BY <2>1, ConcatEmptySeq DEF Nil
<1> DEFINE u == t ## e
           v == s \o t
<1>2. /\ IsSeq(u) /\ Len(u) = Len(t) + 1 /\ u[Len(t) + 1] = e
      /\ IsSeq(v) /\ Len(v) = Len(s) + Len(t) /\ Len(s) \in Nat /\ Len(t) \in Nat
  BY ChainIs, ConcatIs
<1>3. \A i \in 1..Len(t) : u[i] = t[i]
  BY ChainIs
<1>4. \A i \in 1..(Len(s) + Len(t)) : v[i] = IF i <= Len(s) THEN s[i] ELSE t[i - Len(s)]
  BY ConcatIs
<1> HIDE DEF u, v
<1> DEFINE x == s \o u
           y == v ## e
<1>5. /\ IsSeq(x) /\ Len(x) = Len(s) + Len(u)
      /\ IsSeq(y) /\ Len(y) = Len(v) + 1 /\ y[Len(v) + 1] = e
  BY <1>2, ChainIs, ConcatIs
<1>6. \A i \in 1..(Len(s) + Len(u)) : x[i] = IF i <= Len(s) THEN s[i] ELSE u[i - Len(s)]
  BY <1>2, ConcatIs
<1>7. \A i \in 1..Len(v) : y[i] = v[i]
  BY <1>2, ChainIs
<1> HIDE DEF x, y
<1>8. ASSUME NEW i \in 1..Len(x)
      PROVE  x[i] = y[i]
  <2>0. i \in Int /\ 1 <= i /\ i <= Len(s) + Len(t) + 1
    BY <1>2, <1>5, <1>8
  <2>1. CASE i <= Len(s)
    BY <1>2, <1>4, <1>5, <1>6, <1>7, <2>0, <2>1
  <2>2. CASE i > Len(s) /\ i <= Len(s) + Len(t)
    <3>1. i - Len(s) \in 1..Len(t)
      BY <1>2, <2>0, <2>2
    <3>2. x[i] = t[i - Len(s)]
      BY <1>2, <1>3, <1>5, <1>6, <2>0, <2>2, <3>1
    <3>3. y[i] = t[i - Len(s)]
      BY <1>2, <1>4, <1>7, <2>0, <2>2
    <3>4. QED
      BY <3>2, <3>3
  <2>3. CASE i = Len(s) + Len(t) + 1
    <3>1. i - Len(s) = Len(t) + 1 /\ ~(i <= Len(s)) /\ i = Len(v) + 1
      BY <1>2, <2>3
    <3>2. QED
      BY <1>2, <1>5, <1>6, <3>1
  <2>4. QED
    BY <1>2, <2>0, <2>1, <2>2, <2>3
<1>9. x = y
  BY <1>2, <1>5, <1>8, SameSeq
<1>10. QED
  BY <1>1, <1>9 DEF x, y, u, v

\* The tuples of the specifications are chains.
LEMMA TupleIs ==
  /\ \A a : One(a) = Nil ## a
  /\ \A a, b : Two(a, b) = Nil ## a ## b
  /\ \A a, b, c : Three(a, b, c) = Nil ## a ## b ## c
  /\ \A a, b, c, d : Four(a, b, c, d) = Nil ## a ## b ## c ## d
  /\ \A a, b, c, d, e : Five(a, b, c, d, e) = Nil ## a ## b ## c ## d ## e
  /\ \A a, b, c, d, e, f : Six(a, b, c, d, e, f) = Nil ## a ## b ## c ## d ## e ## f
<1>1. ASSUME NEW a
      PROVE  One(a) = Nil ## a
  <2> DEFINE s == Nil
             t == One(a)
             u == s ## a
  <2>1. s \in Seq({a}) /\ Len(s) = 0
    BY DEF Nil
  <2>2. t \in Seq({a}) /\ Len(t) = 1 /\ t[1] = a
    BY DEF One
  <2> HIDE DEF s, t
  <2>3. IsSeq(s) /\ IsSeq(t)
    BY <2>1, <2>2 DEF IsSeq
  <2>4. IsSeq(u) /\ Len(u) = Len(s) + 1 /\ u[Len(s) + 1] = a
    BY <2>3, ChainIs
  <2>5. \A i \in 1..Len(s) : u[i] = s[i]
    BY <2>3, ChainIs
  <2> HIDE DEF u
  <2>6. Len(u) = 1 /\ u[1] = a
    BY <2>1, <2>4, <2>5
  <2>7. \A i \in 1..1 : u[i] = t[i]
    <3>1. \A i \in 1..1 : i = 1
      OBVIOUS
    <3>2. QED
      BY <2>2, <2>6, <3>1
  <2>8. u = t
    BY <2>2, <2>3, <2>4, <2>6, <2>7, SameSeq
  <2>9. QED
    BY <2>8 DEF s, t, u
<1>2. ASSUME NEW a, NEW b
      PROVE  Two(a, b) = One(a) ## b
  <2> DEFINE s == One(a)
             t == Two(a, b)
             u == s ## b
  <2>1. s \in Seq({a, b}) /\ Len(s) = 1 /\ s[1] = a
    BY DEF One
  <2>2. t \in Seq({a, b}) /\ Len(t) = 2 /\ t[1] = a /\ t[2] = b
    BY DEF Two
  <2> HIDE DEF s, t
  <2>3. IsSeq(s) /\ IsSeq(t)
    BY <2>1, <2>2 DEF IsSeq
  <2>4. IsSeq(u) /\ Len(u) = Len(s) + 1 /\ u[Len(s) + 1] = b
    BY <2>3, ChainIs
  <2>5. \A i \in 1..Len(s) : u[i] = s[i]
    BY <2>3, ChainIs
  <2> HIDE DEF u
  <2>6. Len(u) = 2 /\ u[1] = a /\ u[2] = b
    BY <2>1, <2>4, <2>5
  <2>7. \A i \in 1..2 : u[i] = t[i]
    <3>1. \A i \in 1..2 : i = 1 \/ i = 2
      OBVIOUS
    <3>2. QED
      BY <2>2, <2>6, <3>1
  <2>8. u = t
    BY <2>2, <2>3, <2>4, <2>6, <2>7, SameSeq
  <2>9. QED
    BY <2>8 DEF s, t, u
<1>3. ASSUME NEW a, NEW b, NEW c
      PROVE  Three(a, b, c) = Two(a, b) ## c
  <2> DEFINE s == Two(a, b)
             t == Three(a, b, c)
             u == s ## c
  <2>1. s \in Seq({a, b, c}) /\ Len(s) = 2 /\ s[1] = a /\ s[2] = b
    BY DEF Two
  <2>2. t \in Seq({a, b, c}) /\ Len(t) = 3 /\ t[1] = a /\ t[2] = b /\ t[3] = c
    BY DEF Three
  <2> HIDE DEF s, t
  <2>3. IsSeq(s) /\ IsSeq(t)
    BY <2>1, <2>2 DEF IsSeq
  <2>4. IsSeq(u) /\ Len(u) = Len(s) + 1 /\ u[Len(s) + 1] = c
    BY <2>3, ChainIs
  <2>5. \A i \in 1..Len(s) : u[i] = s[i]
    BY <2>3, ChainIs
  <2> HIDE DEF u
  <2>6. Len(u) = 3 /\ u[1] = a /\ u[2] = b /\ u[3] = c
    BY <2>1, <2>4, <2>5
  <2>7. \A i \in 1..3 : u[i] = t[i]
    <3>1. \A i \in 1..3 : i = 1 \/ i = 2 \/ i = 3
      OBVIOUS
    <3>2. QED
      BY <2>2, <2>6, <3>1
  <2>8. u = t
    BY <2>2, <2>3, <2>4, <2>6, <2>7, SameSeq
  <2>9. QED
    BY <2>8 DEF s, t, u
<1>4. ASSUME NEW a, NEW b, NEW c, NEW d
      PROVE  Four(a, b, c, d) = Three(a, b, c) ## d
  <2> DEFINE s == Three(a, b, c)
             t == Four(a, b, c, d)
             u == s ## d
  <2>1. s \in Seq({a, b, c, d}) /\ Len(s) = 3 /\ s[1] = a /\ s[2] = b /\ s[3] = c
    BY DEF Three
  <2>2. t \in Seq({a, b, c, d}) /\ Len(t) = 4 /\ t[1] = a /\ t[2] = b /\ t[3] = c /\ t[4] = d
    BY DEF Four
  <2> HIDE DEF s, t
  <2>3. IsSeq(s) /\ IsSeq(t)
    BY <2>1, <2>2 DEF IsSeq
  <2>4. IsSeq(u) /\ Len(u) = Len(s) + 1 /\ u[Len(s) + 1] = d
    BY <2>3, ChainIs
  <2>5. \A i \in 1..Len(s) : u[i] = s[i]
    BY <2>3, ChainIs
  <2> HIDE DEF u
  <2>6. Len(u) = 4 /\ u[1] = a /\ u[2] = b /\ u[3] = c /\ u[4] = d
    BY <2>1, <2>4, <2>5
  <2>7. \A i \in 1..4 : u[i] = t[i]
    <3>1. \A i \in 1..4 : i = 1 \/ i = 2 \/ i = 3 \/ i = 4
      OBVIOUS
    <3>2. QED
      BY <2>2, <2>6, <3>1
  <2>8. u = t
    BY <2>2, <2>3, <2>4, <2>6, <2>7, SameSeq
  <2>9. QED
    BY <2>8 DEF s, t, u
<1>5. ASSUME NEW a, NEW b, NEW c, NEW d, NEW e
      PROVE  Five(a, b, c, d, e) = Four(a, b, c, d) ## e
  <2> DEFINE s == Four(a, b, c, d)
             t == Five(a, b, c, d, e)
             u == s ## e
  <2>1. s \in Seq({a, b, c, d, e}) /\ Len(s) = 4 /\ s[1] = a /\ s[2] = b /\ s[3] = c /\ s[4] = d
    BY DEF Four
  <2>2. t \in Seq({a, b, c, d, e}) /\ Len(t) = 5 /\ t[1] = a /\ t[2] = b /\ t[3] = c /\ t[4] = d /\ t[5] = e
    BY DEF Five
  <2> HIDE DEF s, t
  <2>3. IsSeq(s) /\ IsSeq(t)
    BY <2>1, <2>2 DEF IsSeq
  <2>4. IsSeq(u) /\ Len(u) = Len(s) + 1 /\ u[Len(s) + 1] = e
    BY <2>3, ChainIs
  <2>5. \A i \in 1..Len(s) : u[i] = s[i]
    BY <2>3, ChainIs
  <2> HIDE DEF u
  <2>6. Len(u) = 5 /\ u[1] = a /\ u[2] = b /\ u[3] = c /\ u[4] = d /\ u[5] = e
    BY <2>1, <2>4, <2>5
  <2>7. \A i \in 1..5 : u[i] = t[i]
    <3>1. \A i \in 1..5 : i = 1 \/ i = 2 \/ i = 3 \/ i = 4 \/ i = 5
      OBVIOUS
    <3>2. QED
      BY <2>2, <2>6, <3>1
  <2>8. u = t
    BY <2>2, <2>3, <2>4, <2>6, <2>7, SameSeq
  <2>9. QED
    BY <2>8 DEF s, t, u
<1>6. ASSUME NEW a, NEW b, NEW c, NEW d, NEW e, NEW f
      PROVE  Six(a, b, c, d, e, f) = Five(a, b, c, d, e) ## f
  <2> DEFINE s == Five(a, b, c, d, e)
             t == Six(a, b, c, d, e, f)
             u == s ## f
  <2>1. s \in Seq({a, b, c, d, e, f}) /\ Len(s) = 5 /\ s[1] = a /\ s[2] = b /\ s[3] = c /\ s[4] = d /\ s[5] = e
    BY DEF Five
  <2>2. t \in Seq({a, b, c, d, e, f}) /\ Len(t) = 6 /\ t[1] = a /\ t[2] = b /\ t[3] = c /\ t[4] = d /\ t[5] = e /\ t[6] = f
    BY DEF Six
  <2> HIDE DEF s, t
  <2>3. IsSeq(s) /\ IsSeq(t)
    BY <2>1, <2>2 DEF IsSeq
  <2>4. IsSeq(u) /\ Len(u) = Len(s) + 1 /\ u[Len(s) + 1] = f
    BY <2>3, ChainIs
  <2>5. \A i \in 1..Len(s) : u[i] = s[i]
    BY <2>3, ChainIs
  <2> HIDE DEF u
  <2>6. Len(u) = 6 /\ u[1] = a /\ u[2] = b /\ u[3] = c /\ u[4] = d /\ u[5] = e /\ u[6] = f
    BY <2>1, <2>4, <2>5
  <2>7. \A i \in 1..6 : u[i] = t[i]
    <3>1. \A i \in 1..6 : i = 1 \/ i = 2 \/ i = 3 \/ i = 4 \/ i = 5 \/ i = 6
      OBVIOUS
    <3>2. QED
      BY <2>2, <2>6, <3>1
  <2>8. u = t
    BY <2>2, <2>3, <2>4, <2>6, <2>7, SameSeq
  <2>9. QED
    BY <2>8 DEF s, t, u
<1>7. QED
  BY <1>1, <1>2, <1>3, <1>4, <1>5, <1>6

-----------------------------------------------------------------------------
(* The memory after some bus cycles *)

\* Both modules make the memory alike.
LEMMA AfterIs == \A c : Arch!After(c) = Wrote(outcome.mem, c)
BY SameMerge DEF Arch!After, Wrote

\* Only one memory can result.
LEMMA ResultsUnique ==
  ASSUME NEW c, HasLasts(c), NEW m, NEW f, NEW g, Results(f, c, m), Results(g, c, m)
  PROVE  f = g
<1>1. \A x : x \in DOMAIN f <=> x \in DOMAIN g
  BY DEF Results
<1>2. DOMAIN f = DOMAIN g
  BY <1>1
<1>3. \A x \in DOMAIN f : f[x] = g[x]
  BY <1>1 DEF Results, HasLasts
<1>4. QED
  BY <1>2, <1>3 DEF Results

\* The last write to an address is one.
LEMMA LastIs ==
  ASSUME NEW c, IsSeq(c), NEW a, NEW k, IsLast(c, a, k)
  PROVE  k = CHOOSE l : IsLast(c, a, l)
<1>1. ASSUME NEW l, IsLast(c, a, l)
      PROVE  k = l
  <2>1. k \in DOMAIN c /\ l \in DOMAIN c /\ ~(k > l) /\ ~(l > k)
    BY <1>1 DEF IsLast, WritesAt
  <2>2. k \in Int /\ l \in Int
    <3>1. PICK S : c \in Seq(S)
      BY DEF IsSeq
    <3>2. DOMAIN c = 1..Len(c) /\ Len(c) \in Nat
      BY <3>1, LenProperties
    <3>3. QED
      BY <2>1, <3>2
  <2>3. QED
    BY <2>1, <2>2
<1>2. IsLast(c, a, CHOOSE l : IsLast(c, a, l))
  OBVIOUS
<1>3. QED
  BY <1>1, <1>2

\* The memory made is the one that results.
LEMMA AfterResults ==
  ASSUME NEW m, NEW c, IsSeq(c), HasLasts(c)
  PROVE  Results(Wrote(m, c), c, m)
<1> DEFINE written == {c[k][2] : k \in {k \in DOMAIN c : c[k][1] = "write"}}
           last(a) == CHOOSE k \in DOMAIN c :
                        /\ c[k][1] = "write" /\ c[k][2] = a
                        /\ \A j \in DOMAIN c : j > k => ~(c[j][1] = "write" /\ c[j][2] = a)
           new == [a \in written |-> c[last(a)][3]]
           f == new ++ m
<1>1. Wrote(m, c) = f
  BY DEF Wrote
<1>2. \A a : a \in written <=> \E k : WritesAt(c, a, k)
  BY DEF WritesAt
<1>3. ASSUME NEW a
      PROVE  last(a) = CHOOSE k : IsLast(c, a, k)
  <2>1. \A k : IsLast(c, a, k) <=>
               /\ k \in DOMAIN c
               /\ c[k][1] = "write" /\ c[k][2] = a
               /\ \A j \in DOMAIN c : j > k => ~(c[j][1] = "write" /\ c[j][2] = a)
    BY DEF IsLast, WritesAt
  <2>2. QED
    BY <2>1
<1> HIDE DEF written, last
<1>4. \A a : a \in written => \A k : IsLast(c, a, k) => new[a] = c[k][3]
  BY <1>3, LastIs
<1>5. DOMAIN new = written
  OBVIOUS
<1> HIDE DEF new
<1>6. f = [x \in DOMAIN f |-> f[x]]
  BY DEF ++
<1>7. \A x : x \in DOMAIN f <=> x \in DOMAIN m \/ \E k : WritesAt(c, x, k)
  BY <1>2, <1>5, MergeIs
<1>8. ASSUME NEW x \in DOMAIN f
      PROVE  /\ \A k : IsLast(c, x, k) => f[x] = c[k][3]
             /\ ~(\E k : WritesAt(c, x, k)) => f[x] = m[x]
  <2>1. CASE x \in written
    <3>1. f[x] = new[x]
      BY <2>1, <1>5, MergeIs
    <3>2. QED
      BY <2>1, <3>1, <1>2, <1>4
  <2>2. CASE x \notin written
    <3>1. f[x] = m[x]
      BY <2>2, <1>5, <1>2, <1>7, MergeIs
    <3>2. \A k : ~IsLast(c, x, k)
      BY <2>2, <1>2 DEF IsLast
    <3>3. QED
      BY <3>1, <3>2
  <2>3. QED
    BY <2>1, <2>2
<1> HIDE DEF f
<1>9. QED
  BY <1>1, <1>6, <1>7, <1>8 DEF Results

\* No cycles leave the memory as it was.
LEMMA AfterNothing ==
  ASSUME NEW m, m = [x \in DOMAIN m |-> m[x]]
  PROVE  Wrote(m, Nil) = m /\ HasLasts(Nil)
<1>1. HasLasts(Nil) /\ \A x, k : ~WritesAt(Nil, x, k)
  BY DEF HasLasts, WritesAt, Nil
<1>2. Results(m, Nil, m)
  BY <1>1 DEF Results, IsLast
<1>3. IsSeq(Nil)
  BY NilIs
<1>4. QED
  BY <1>1, <1>2, <1>3, AfterResults, ResultsUnique

\* A read changes nothing.
LEMMA AfterRead ==
  ASSUME NEW m, NEW c, IsSeq(c), NEW e, e[1] = "read", HasLasts(c)
  PROVE  HasLasts(c ## e) /\ Wrote(m, c ## e) = Wrote(m, c)
<1> DEFINE d == c ## e
<1>1. /\ IsSeq(d) /\ Len(d) = Len(c) + 1 /\ d[Len(c) + 1] = e
      /\ DOMAIN c = 1..Len(c) /\ DOMAIN d = 1..(Len(c) + 1) /\ Len(c) \in Nat
  BY ChainIs
<1>2. \A i \in 1..Len(c) : d[i] = c[i]
  BY ChainIs
<1> HIDE DEF d
<1>3. DOMAIN c = 1..Len(c) /\ DOMAIN d = 1..(Len(c) + 1) /\ Len(c) \in Nat
  BY <1>1
<1>4. ASSUME NEW a, NEW k
      PROVE  WritesAt(d, a, k) <=> WritesAt(c, a, k)
  <2>1. CASE k \in 1..Len(c)
    BY <1>2, <1>3, <2>1 DEF WritesAt
  <2>2. CASE k = Len(c) + 1
    BY <1>1, <1>3, <2>2 DEF WritesAt
  <2>3. CASE k \notin 1..(Len(c) + 1)
    BY <1>3, <2>3 DEF WritesAt
  <2>4. QED
    BY <1>3, <2>1, <2>2, <2>3
<1>5. ASSUME NEW a, NEW k
      PROVE  IsLast(d, a, k) <=> IsLast(c, a, k)
  <2>1. \A j : WritesAt(c, a, j) => j \in DOMAIN c /\ j \in DOMAIN d
    BY <1>4 DEF WritesAt
  <2>2. QED
    BY <1>4, <2>1 DEF IsLast
<1>6. HasLasts(d)
  BY <1>4, <1>5 DEF HasLasts
<1>7. Results(Wrote(m, c), c, m)
  BY AfterResults
<1>8. \A x, k : IsLast(c, x, k) => d[k] = c[k]
  BY <1>2, <1>3 DEF IsLast, WritesAt
<1>9. Results(Wrote(m, c), d, m)
  BY <1>4, <1>5, <1>7, <1>8 DEF Results
<1>10. Results(Wrote(m, d), d, m)
  BY <1>1, <1>6, AfterResults
<1>11. Wrote(m, d) = Wrote(m, c)
  BY <1>6, <1>9, <1>10, ResultsUnique
<1>12. QED
  BY <1>6, <1>11 DEF d

\* A write puts its byte in.
LEMMA AfterWrite ==
  ASSUME NEW m, NEW c, IsSeq(c), HasLasts(c), NEW at, NEW byte, NEW e, e = <<"write", at, byte>>,
         NEW one, DOMAIN one = {at}, one[at] = byte
  PROVE  HasLasts(c ## e) /\ Wrote(m, c ## e) = one ++ Wrote(m, c)
<1> DEFINE d == c ## e
           f == one ++ Wrote(m, c)
<1>0. e[1] = "write" /\ e[2] = at /\ e[3] = byte
  OBVIOUS
<1>1. /\ IsSeq(d) /\ Len(d) = Len(c) + 1 /\ d[Len(c) + 1] = e
      /\ DOMAIN c = 1..Len(c) /\ DOMAIN d = 1..(Len(c) + 1) /\ Len(c) \in Nat
  BY ChainIs
<1>2. \A i \in 1..Len(c) : d[i] = c[i]
  BY ChainIs
<1> HIDE DEF d
<1>3. DOMAIN c = 1..Len(c) /\ DOMAIN d = 1..(Len(c) + 1) /\ Len(c) \in Nat
  BY <1>1
<1>4. ASSUME NEW a, NEW k
      PROVE  WritesAt(d, a, k) <=> WritesAt(c, a, k) \/ (a = at /\ k = Len(c) + 1)
  <2>1. CASE k \in 1..Len(c)
    BY <1>2, <1>3, <2>1 DEF WritesAt
  <2>2. CASE k = Len(c) + 1
    BY <1>0, <1>1, <1>3, <2>2 DEF WritesAt
  <2>3. CASE k \notin 1..(Len(c) + 1)
    <3>1. k # Len(c) + 1 /\ k \notin DOMAIN c /\ k \notin DOMAIN d
      BY <1>3, <2>3
    <3>2. QED
      BY <3>1 DEF WritesAt
  <2>4. QED
    BY <1>3, <2>1, <2>2, <2>3
<1>5. ASSUME NEW a, NEW k
      PROVE  IsLast(d, a, k) <=> IF a = at THEN k = Len(c) + 1 ELSE IsLast(c, a, k)
  <2>1. \A j : WritesAt(c, a, j) => j \in 1..Len(c)
    BY <1>3 DEF WritesAt
  <2>2. CASE a = at
    <3>1. WritesAt(d, a, Len(c) + 1)
      BY <1>4, <2>2
    <3>2. \A j \in DOMAIN d : ~(j > Len(c) + 1)
      BY <1>3
    <3>3. IsLast(d, a, Len(c) + 1)
      BY <3>1, <3>2 DEF IsLast
    <3>4. IsLast(d, a, k) => k = Len(c) + 1
      <4>1. SUFFICES ASSUME IsLast(d, a, k), k # Len(c) + 1
                     PROVE  FALSE
        OBVIOUS
      <4>2. k \in DOMAIN d /\ k \in 1..(Len(c) + 1)
        BY <1>3, <4>1 DEF IsLast, WritesAt
      <4>3. Len(c) + 1 > k /\ Len(c) + 1 \in DOMAIN d
        BY <1>3, <4>1, <4>2
      <4>4. QED
        BY <3>1, <4>1, <4>3 DEF IsLast
    <3>5. QED
      BY <2>2, <3>3, <3>4
  <2>3. CASE a # at
    <3>1. \A j : WritesAt(d, a, j) <=> WritesAt(c, a, j)
      BY <1>4, <2>3
    <3>2. \A j : WritesAt(c, a, j) => j \in DOMAIN c /\ j \in DOMAIN d
      BY <3>1 DEF WritesAt
    <3>3. QED
      BY <2>3, <3>1, <3>2 DEF IsLast
  <2>4. QED
    BY <2>2, <2>3
<1>6. HasLasts(d)
  BY <1>4, <1>5 DEF HasLasts
<1>7. Results(Wrote(m, c), c, m)
  BY AfterResults
<1>8. \A x, k : IsLast(c, x, k) => d[k] = c[k]
  BY <1>2, <1>3 DEF IsLast, WritesAt
<1>9. /\ \A x : x \in DOMAIN f <=> x = at \/ x \in DOMAIN Wrote(m, c)
      /\ f[at] = byte
      /\ \A x \in DOMAIN Wrote(m, c) : x # at => f[x] = Wrote(m, c)[x]
  BY MergeIs
<1>10. f = [x \in DOMAIN f |-> f[x]]
  BY DEF ++
<1> HIDE DEF f
<1>11. \A x : x \in DOMAIN f <=> x \in DOMAIN m \/ \E k : WritesAt(d, x, k)
  BY <1>4, <1>7, <1>9 DEF Results
<1>12. ASSUME NEW x \in DOMAIN f
       PROVE  /\ \A k : IsLast(d, x, k) => f[x] = d[k][3]
              /\ ~(\E k : WritesAt(d, x, k)) => f[x] = m[x]
  <2>1. CASE x = at
    BY <1>0, <1>1, <1>4, <1>5, <1>9, <2>1
  <2>2. CASE x # at
    <3>1. x \in DOMAIN Wrote(m, c) /\ f[x] = Wrote(m, c)[x]
      BY <1>9, <2>2
    <3>2. QED
      BY <1>4, <1>5, <1>7, <1>8, <2>2, <3>1 DEF Results
  <2>3. QED
    BY <2>1, <2>2
<1>13. Results(f, d, m)
  BY <1>10, <1>11, <1>12 DEF Results
<1>14. Results(Wrote(m, d), d, m)
  BY <1>1, <1>6, AfterResults
<1>15. Wrote(m, d) = f
  BY <1>6, <1>13, <1>14, ResultsUnique
<1>16. QED
  BY <1>6, <1>15 DEF d, f

\* A read put first makes no difference.
LEMMA AfterPrefix ==
  ASSUME NEW m, NEW r, NEW c, IsSeq(c), r[1] = "read", HasLasts(One(r) \o c)
  PROVE  HasLasts(c) /\ Wrote(m, One(r) \o c) = Wrote(m, c)
<1> DEFINE d == One(r) \o c
<1>1. IsSeq(d) /\ Len(d) = Len(c) + 1 /\ d[1] = r /\ Len(c) \in Nat
      /\ \A i \in 1..Len(c) : d[i + 1] = c[i]
  <2> DEFINE q == One(r)
  <2>1. IsSeq(q) /\ Len(q) = 1 /\ q[1] = r
    <3>1. <<r>> \in Seq({r}) /\ Len(<<r>>) = 1 /\ <<r>>[1] = r
      OBVIOUS
    <3>2. QED
      BY <3>1 DEF IsSeq, One
  <2> HIDE DEF q
  <2>2. IsSeq(q \o c) /\ Len(q \o c) = Len(q) + Len(c) /\ Len(c) \in Nat
        /\ \A i \in 1..(Len(q) + Len(c)) : (q \o c)[i] = IF i <= Len(q) THEN q[i] ELSE c[i - Len(q)]
    BY <2>1, ConcatIs
  <2>3. \A i \in 1..Len(c) : (i + 1) \in 1..(Len(q) + Len(c)) /\ ~(i + 1 <= Len(q)) /\ (i + 1) - Len(q) = i
    BY <2>1, <2>2
  <2>4. \A i \in 1..Len(c) : (q \o c)[i + 1] = c[i]
    BY <2>2, <2>3
  <2>5. (q \o c)[1] = r
    BY <2>1, <2>2
  <2>6. QED
    BY <2>1, <2>2, <2>4, <2>5 DEF q
<1>2. \A i \in 1..Len(c) : d[i + 1] = c[i]
  BY <1>1
<1> HIDE DEF d
<1>3. DOMAIN c = 1..Len(c) /\ DOMAIN d = 1..(Len(c) + 1) /\ Len(c) \in Nat
  <2>1. PICK S, T : c \in Seq(S) /\ d \in Seq(T)
    BY <1>1 DEF IsSeq
  <2>2. QED
    BY <1>1, <2>1, LenProperties
<1>4. ASSUME NEW a, NEW k \in 1..Len(c)
      PROVE  WritesAt(d, a, k + 1) <=> WritesAt(c, a, k)
  <2>1. k + 1 \in DOMAIN d /\ k \in DOMAIN c /\ d[k + 1] = c[k]
    BY <1>2, <1>3
  <2>2. QED
    BY <2>1 DEF WritesAt
<1>5. ASSUME NEW a, NEW k, WritesAt(d, a, k)
      PROVE  k - 1 \in 1..Len(c) /\ k = (k - 1) + 1 /\ k \in Int
  <2>1. k \in 1..(Len(c) + 1) /\ k # 1
    BY <1>1, <1>3, <1>5 DEF WritesAt
  <2>2. QED
    BY <1>3, <2>1
<1>6. ASSUME NEW a, NEW k \in 1..Len(c)
      PROVE  IsLast(d, a, k + 1) <=> IsLast(c, a, k)
  <2>1. ASSUME IsLast(d, a, k + 1)
        PROVE  IsLast(c, a, k)
    <3>1. ASSUME NEW j \in DOMAIN c, j > k
          PROVE  ~WritesAt(c, a, j)
      <4>1. j \in 1..Len(c) /\ j + 1 > k + 1 /\ j + 1 \in DOMAIN d
        BY <1>3, <3>1
      <4>2. QED
        BY <1>4, <2>1, <4>1 DEF IsLast
    <3>2. QED
      BY <1>4, <2>1, <3>1 DEF IsLast
  <2>2. ASSUME IsLast(c, a, k)
        PROVE  IsLast(d, a, k + 1)
    <3>1. ASSUME NEW j \in DOMAIN d, j > k + 1, WritesAt(d, a, j)
          PROVE  FALSE
      <4>1. j - 1 \in 1..Len(c) /\ j = (j - 1) + 1 /\ j \in Int
        BY <1>5, <3>1
      <4>2. j - 1 > k /\ j - 1 \in DOMAIN c /\ WritesAt(c, a, j - 1)
        BY <1>3, <1>4, <3>1, <4>1
      <4>3. QED
        BY <2>2, <4>2 DEF IsLast
    <3>2. QED
      BY <1>4, <2>2, <3>1 DEF IsLast
  <2>3. QED
    BY <2>1, <2>2
<1>7. ASSUME NEW a
      PROVE  (\E k : WritesAt(d, a, k)) <=> \E k : WritesAt(c, a, k)
  <2>1. \A k : WritesAt(c, a, k) => k \in 1..Len(c)
    BY <1>3 DEF WritesAt
  <2>2. QED
    BY <2>1, <1>4, <1>5
<1>8. HasLasts(c)
  <2>1. SUFFICES ASSUME NEW a, \E k : WritesAt(c, a, k)
                 PROVE  \E k : IsLast(c, a, k)
    BY DEF HasLasts
  <2>2. PICK k : IsLast(d, a, k)
    BY <1>7, <2>1 DEF HasLasts, d
  <2>3. k - 1 \in 1..Len(c) /\ k = (k - 1) + 1
    BY <1>5, <2>2 DEF IsLast
  <2>4. IsLast(c, a, k - 1)
    BY <1>6, <2>2, <2>3
  <2>5. QED
    BY <2>4
<1>9. Results(Wrote(m, d), d, m)
  BY <1>1, AfterResults DEF d
<1>10. ASSUME NEW x, NEW k, IsLast(c, x, k)
       PROVE  \E l : IsLast(d, x, l) /\ d[l] = c[k]
  <2>1. k \in 1..Len(c)
    BY <1>3, <1>10 DEF IsLast, WritesAt
  <2>2. IsLast(d, x, k + 1) /\ d[k + 1] = c[k]
    BY <1>2, <1>6, <1>10, <2>1
  <2>3. QED
    BY <2>2
<1>11. Results(Wrote(m, d), c, m)
  <2> DEFINE f == Wrote(m, d)
  <2>1. /\ f = [x \in DOMAIN f |-> f[x]]
        /\ \A x : x \in DOMAIN f <=> x \in DOMAIN m \/ \E k : WritesAt(d, x, k)
        /\ \A x \in DOMAIN f : /\ \A k : IsLast(d, x, k) => f[x] = d[k][3]
                               /\ ~(\E k : WritesAt(d, x, k)) => f[x] = m[x]
    BY <1>9 DEF Results
  <2> HIDE DEF f
  <2>2. \A x : x \in DOMAIN f <=> x \in DOMAIN m \/ \E k : WritesAt(c, x, k)
    BY <1>7, <2>1
  <2>3. ASSUME NEW x \in DOMAIN f, NEW k, IsLast(c, x, k)
        PROVE  f[x] = c[k][3]
    <3>1. PICK l : IsLast(d, x, l) /\ d[l] = c[k]
      BY <1>10, <2>3
    <3>2. QED
      BY <2>1, <3>1
  <2>4. ASSUME NEW x \in DOMAIN f, ~(\E k : WritesAt(c, x, k))
        PROVE  f[x] = m[x]
    BY <1>7, <2>1, <2>4
  <2>5. Results(f, c, m)
    BY <2>1, <2>2, <2>3, <2>4 DEF Results
  <2>6. QED
    BY <2>5 DEF f
<1>12. Results(Wrote(m, c), c, m)
  BY <1>8, AfterResults
<1>13. Wrote(m, d) = Wrote(m, c)
  BY <1>8, <1>11, <1>12, ResultsUnique
<1>14. QED
  BY <1>8, <1>13 DEF d

-----------------------------------------------------------------------------
(* Types.  The Boolean registers and control lines are left out: they are   *)
(* tested, and never used as values.                                        *)

\* What is read is a byte.
LEMMA ByteType ==
  ASSUME NEW m, IsMemory(m), NEW a
  PROVE  ByteAt(m, a) \in Bytes
BY MachineAssumption DEF IsMemory, ByteAt

\* A byte written leaves a memory.
LEMMA WrittenMemory ==
  ASSUME NEW m, IsMemory(m), NEW a \in Words, NEW b \in Bytes
  PROVE  IsMemory([x \in {a} |-> b] ++ m)
<1> DEFINE one == [x \in {a} |-> b]
           f == one ++ m
<1>1. DOMAIN one = {a} /\ one[a] = b
  OBVIOUS
<1> HIDE DEF one
<1>2. /\ \A x : x \in DOMAIN f <=> x = a \/ x \in DOMAIN m
      /\ f[a] = b /\ \A x \in DOMAIN m : x # a => f[x] = m[x]
  BY <1>1, MergeIs
<1>3. f = [x \in DOMAIN f |-> f[x]]
  BY DEF ++
<1> HIDE DEF f
<1>4. IsMemory(f)
  BY <1>2, <1>3 DEF IsMemory
<1>5. QED
  BY <1>4 DEF f, one

\* A tuple of lines.
LEMMA LinesOf ==
  ASSUME NEW a, NEW b, NEW c, NEW d, NEW e, NEW f
  PROVE  /\ Line(a) => Lines(<<a>>)
         /\ Line(a) /\ Line(b) => Lines(<<a, b>>)
         /\ Line(a) /\ Line(b) /\ Line(c) => Lines(<<a, b, c>>)
         /\ Line(a) /\ Line(b) /\ Line(c) /\ Line(d) => Lines(<<a, b, c, d>>)
         /\ Line(a) /\ Line(b) /\ Line(c) /\ Line(d) /\ Line(e) => Lines(<<a, b, c, d, e>>)
         /\ Line(a) /\ Line(b) /\ Line(c) /\ Line(d) /\ Line(e) /\ Line(f) => Lines(<<a, b, c, d, e, f>>)
BY DEF Lines

\* Merged lines stay lines.
LEMMA BothLines ==
  ASSUME NEW f, NEW g, Line(f), Line(g)
  PROVE  Line(f ++ g)
BY MergeFits DEF Line

\* The words of control are lines.
LEMMA WordsOfControl ==
  /\ Line(Idle) /\ Line(End) /\ Line(Operand) /\ Line(Jump) /\ Line(Hold) /\ Line(Stack)
  /\ Line(OneOn) /\ Line(Up) /\ Line(Down) /\ Line(OnStack)
  /\ \A adl \in {"PC", "DL", "DATA", "ALU", "S", "VECTOR", "ABL"},
        adh \in {"PC", "DATA", "ALU", "ZERO", "STACK", "FF", "ABH"} : Line(Address(adl, adh))
  /\ \A sb \in {"A", "X", "Y", "S", "DL", "PCL", "PCH", "ABL", "ABH", "0"} : Line(Add(sb))
  /\ \A dor \in {"A", "X", "Y", "P", "PCH", "PCL", "ALU", "DATA"} : Line(Write(dor))
  /\ \A b : Line([inc |-> b]) /\ Line([dlLoad |-> b]) /\ Line([pLoad |-> b]) /\ Line([end |-> b])
            /\ Line([acrLoad |-> b])
  /\ \A b \in Bin : Line([pushB |-> b])
<1> USE DEF Line, Fits, CtrlSets
<1>1. Line(Idle)
  BY DEF Idle, Ops, Bin, Fops
<1>2. Line(End) /\ Line(Operand) /\ Line(OneOn) /\ Line(Up)
  BY DEF End, Operand, OneOn, Up, Bin
<1>3. Line(Down)
  BY DEF Down, Ops
<1>4. \A adl \in {"PC", "DL", "DATA", "ALU", "S", "VECTOR", "ABL"},
        adh \in {"PC", "DATA", "ALU", "ZERO", "STACK", "FF", "ABH"} : Line(Address(adl, adh))
  BY DEF Address
<1>5. \A sb \in {"A", "X", "Y", "S", "DL", "PCL", "PCH", "ABL", "ABH", "0"} : Line(Add(sb))
  BY DEF Add
<1>6. \A dor \in {"A", "X", "Y", "P", "PCH", "PCL", "ALU", "DATA"} : Line(Write(dor))
  BY DEF Write
<1>7. /\ \A b : Line([inc |-> b]) /\ Line([dlLoad |-> b]) /\ Line([pLoad |-> b]) /\ Line([end |-> b])
            /\ Line([acrLoad |-> b])
      /\ \A b \in Bin : Line([pushB |-> b])
  OBVIOUS
<1>8. Line([load |-> TRUE])
  OBVIOUS
<1>9. Line(Jump) /\ Line(Hold) /\ Line(Stack) /\ Line(OnStack)
  BY <1>4, <1>8, BothLines DEF Jump, Hold, Stack, OnStack
<1>10. QED
  BY <1>1, <1>2, <1>3, <1>4, <1>5, <1>6, <1>7, <1>9

\* The instruction is one that decodes.
LEMMA InstrIs == TypeOK => Instr(instr)
BY DecodedIs DEF TypeOK

-----------------------------------------------------------------------------
(* The steps of the operands in memory *)

\* The elements of a tuple.
LEMMA TupleAt ==
  /\ \A a : /\ IsSeq(One(a)) /\ Len(One(a)) = 1 /\ DOMAIN One(a) = 1..1
       /\ One(a)[1] = a
  /\ \A a, b : /\ IsSeq(Two(a, b)) /\ Len(Two(a, b)) = 2 /\ DOMAIN Two(a, b) = 1..2
       /\ Two(a, b)[1] = a /\ Two(a, b)[2] = b
  /\ \A a, b, c : /\ IsSeq(Three(a, b, c)) /\ Len(Three(a, b, c)) = 3 /\ DOMAIN Three(a, b, c) = 1..3
       /\ Three(a, b, c)[1] = a /\ Three(a, b, c)[2] = b /\ Three(a, b, c)[3] = c
  /\ \A a, b, c, d : /\ IsSeq(Four(a, b, c, d)) /\ Len(Four(a, b, c, d)) = 4 /\ DOMAIN Four(a, b, c, d) = 1..4
       /\ Four(a, b, c, d)[1] = a /\ Four(a, b, c, d)[2] = b /\ Four(a, b, c, d)[3] = c /\ Four(a, b, c, d)[4] = d
  /\ \A a, b, c, d, e : /\ IsSeq(Five(a, b, c, d, e)) /\ Len(Five(a, b, c, d, e)) = 5 /\ DOMAIN Five(a, b, c, d, e) = 1..5
       /\ Five(a, b, c, d, e)[1] = a /\ Five(a, b, c, d, e)[2] = b /\ Five(a, b, c, d, e)[3] = c /\ Five(a, b, c, d, e)[4] = d /\ Five(a, b, c, d, e)[5] = e
  /\ \A a, b, c, d, e, f : /\ IsSeq(Six(a, b, c, d, e, f)) /\ Len(Six(a, b, c, d, e, f)) = 6 /\ DOMAIN Six(a, b, c, d, e, f) = 1..6
       /\ Six(a, b, c, d, e, f)[1] = a /\ Six(a, b, c, d, e, f)[2] = b /\ Six(a, b, c, d, e, f)[3] = c /\ Six(a, b, c, d, e, f)[4] = d /\ Six(a, b, c, d, e, f)[5] = e /\ Six(a, b, c, d, e, f)[6] = f
<1>1. ASSUME NEW a
      PROVE  IsSeq(One(a)) /\ Len(One(a)) = 1 /\ DOMAIN One(a) = 1..1 /\ One(a)[1] = a
  <2> DEFINE S == {a}
             t == One(a)
  <2>1. t \in Seq(S) /\ Len(t) = 1 /\ One(a)[1] = a
    BY DEF One
  <2> HIDE DEF S, t
  <2>2. DOMAIN t = 1..Len(t)
    BY <2>1, LenProperties
  <2>3. QED
    BY <2>1, <2>2 DEF IsSeq, t
<1>2. ASSUME NEW a, NEW b
      PROVE  IsSeq(Two(a, b)) /\ Len(Two(a, b)) = 2 /\ DOMAIN Two(a, b) = 1..2 /\ Two(a, b)[1] = a /\ Two(a, b)[2] = b
  <2> DEFINE S == {a, b}
             t == Two(a, b)
  <2>1. t \in Seq(S) /\ Len(t) = 2 /\ Two(a, b)[1] = a /\ Two(a, b)[2] = b
    BY DEF Two
  <2> HIDE DEF S, t
  <2>2. DOMAIN t = 1..Len(t)
    BY <2>1, LenProperties
  <2>3. QED
    BY <2>1, <2>2 DEF IsSeq, t
<1>3. ASSUME NEW a, NEW b, NEW c
      PROVE  IsSeq(Three(a, b, c)) /\ Len(Three(a, b, c)) = 3 /\ DOMAIN Three(a, b, c) = 1..3 /\ Three(a, b, c)[1] = a /\ Three(a, b, c)[2] = b /\ Three(a, b, c)[3] = c
  <2> DEFINE S == {a, b, c}
             t == Three(a, b, c)
  <2>1. t \in Seq(S) /\ Len(t) = 3 /\ Three(a, b, c)[1] = a /\ Three(a, b, c)[2] = b /\ Three(a, b, c)[3] = c
    BY DEF Three
  <2> HIDE DEF S, t
  <2>2. DOMAIN t = 1..Len(t)
    BY <2>1, LenProperties
  <2>3. QED
    BY <2>1, <2>2 DEF IsSeq, t
<1>4. ASSUME NEW a, NEW b, NEW c, NEW d
      PROVE  IsSeq(Four(a, b, c, d)) /\ Len(Four(a, b, c, d)) = 4 /\ DOMAIN Four(a, b, c, d) = 1..4 /\ Four(a, b, c, d)[1] = a /\ Four(a, b, c, d)[2] = b /\ Four(a, b, c, d)[3] = c /\ Four(a, b, c, d)[4] = d
  <2> DEFINE S == {a, b, c, d}
             t == Four(a, b, c, d)
  <2>1. t \in Seq(S) /\ Len(t) = 4 /\ Four(a, b, c, d)[1] = a /\ Four(a, b, c, d)[2] = b /\ Four(a, b, c, d)[3] = c /\ Four(a, b, c, d)[4] = d
    BY DEF Four
  <2> HIDE DEF S, t
  <2>2. DOMAIN t = 1..Len(t)
    BY <2>1, LenProperties
  <2>3. QED
    BY <2>1, <2>2 DEF IsSeq, t
<1>5. ASSUME NEW a, NEW b, NEW c, NEW d, NEW e
      PROVE  IsSeq(Five(a, b, c, d, e)) /\ Len(Five(a, b, c, d, e)) = 5 /\ DOMAIN Five(a, b, c, d, e) = 1..5 /\ Five(a, b, c, d, e)[1] = a /\ Five(a, b, c, d, e)[2] = b /\ Five(a, b, c, d, e)[3] = c /\ Five(a, b, c, d, e)[4] = d /\ Five(a, b, c, d, e)[5] = e
  <2> DEFINE S == {a, b, c, d, e}
             t == Five(a, b, c, d, e)
  <2>1. t \in Seq(S) /\ Len(t) = 5 /\ Five(a, b, c, d, e)[1] = a /\ Five(a, b, c, d, e)[2] = b /\ Five(a, b, c, d, e)[3] = c /\ Five(a, b, c, d, e)[4] = d /\ Five(a, b, c, d, e)[5] = e
    BY DEF Five
  <2> HIDE DEF S, t
  <2>2. DOMAIN t = 1..Len(t)
    BY <2>1, LenProperties
  <2>3. QED
    BY <2>1, <2>2 DEF IsSeq, t
<1>6. ASSUME NEW a, NEW b, NEW c, NEW d, NEW e, NEW f
      PROVE  IsSeq(Six(a, b, c, d, e, f)) /\ Len(Six(a, b, c, d, e, f)) = 6 /\ DOMAIN Six(a, b, c, d, e, f) = 1..6 /\ Six(a, b, c, d, e, f)[1] = a /\ Six(a, b, c, d, e, f)[2] = b /\ Six(a, b, c, d, e, f)[3] = c /\ Six(a, b, c, d, e, f)[4] = d /\ Six(a, b, c, d, e, f)[5] = e /\ Six(a, b, c, d, e, f)[6] = f
  <2> DEFINE S == {a, b, c, d, e, f}
             t == Six(a, b, c, d, e, f)
  <2>1. t \in Seq(S) /\ Len(t) = 6 /\ Six(a, b, c, d, e, f)[1] = a /\ Six(a, b, c, d, e, f)[2] = b /\ Six(a, b, c, d, e, f)[3] = c /\ Six(a, b, c, d, e, f)[4] = d /\ Six(a, b, c, d, e, f)[5] = e /\ Six(a, b, c, d, e, f)[6] = f
    BY DEF Six
  <2> HIDE DEF S, t
  <2>2. DOMAIN t = 1..Len(t)
    BY <2>1, LenProperties
  <2>3. QED
    BY <2>1, <2>2 DEF IsSeq, t
<1>7. QED
  BY <1>1, <1>2, <1>3, <1>4, <1>5, <1>6

\* Two tuples, joined.
LEMMA JoinedTwo ==
  /\ \A a, b : Two(a, b) \o Nil = Two(a, b)
  /\ \A a, b, c : Two(a, b) \o One(c) = Three(a, b, c)
  /\ \A a, b, c : Three(a, b, c) \o Nil = Three(a, b, c)
  /\ \A a, b, c, d : Three(a, b, c) \o One(d) = Four(a, b, c, d)
<1>1. ASSUME NEW s, IsSeq(s), NEW e
      PROVE  s \o Nil = s /\ s \o (Nil ## e) = s ## e
  <2>1. IsSeq(Nil)
    BY NilIs
  <2>2. s \o Nil = s /\ s \o (Nil ## e) = (s \o Nil) ## e
    BY <1>1, <2>1, ConcatChain DEF Chainable
  <2>3. QED
    BY <2>2
<1>2. QED
  BY <1>1, TupleAt, TupleIs

\* The steps of Addressing, per mode.
LEMMA AddressingIs ==
  /\ instr.mode = "ZP" => Addressing = One([inc |-> TRUE] ++ ZeroPage("DATA"))
  /\ instr.mode \in {"ZPX", "ZPY"} => Addressing = Two(Operand ++ ZeroPage("DATA"), Add(index) ++ ZeroPage("ALU"))
  /\ instr.mode = "ABS" => Addressing = Two(Operand, [inc |-> TRUE] ++ Address("DL", "DATA"))
  /\ instr.mode \in {"ABX", "ABY"} /\ ~crossOrNotRead => Addressing = Two(Operand, [inc |-> TRUE] ++ Indexed)
  /\ instr.mode \in {"ABX", "ABY"} /\ crossOrNotRead => Addressing = Three(Operand, [inc |-> TRUE] ++ Indexed, FixHigh)
  /\ instr.mode = "IZX" => Addressing = Four(Operand ++ ZeroPage("DATA"), Add("X") ++ ZeroPage("ALU"),
                           [dlLoad |-> TRUE] ++ OneOn ++ ZeroPage("ALU"), Address("DL", "DATA"))
  /\ instr.mode = "IZY" /\ ~crossOrNotRead => Addressing = Three([inc |-> TRUE] ++ ZeroPage("DATA"),
                           [dlLoad |-> TRUE] ++ OneOn ++ ZeroPage("ALU"), Indexed)
  /\ instr.mode = "IZY" /\ crossOrNotRead => Addressing = Four([inc |-> TRUE] ++ ZeroPage("DATA"),
                           [dlLoad |-> TRUE] ++ OneOn ++ ZeroPage("ALU"), Indexed, FixHigh)
<1> DEFINE a == [inc |-> TRUE] ++ Indexed
           b == [dlLoad |-> TRUE] ++ OneOn ++ ZeroPage("ALU")
           c == [inc |-> TRUE] ++ ZeroPage("DATA")
           two == <<Operand, a>>
           three == <<c, b, Indexed>>
<1>1. instr.mode \in {"ABX", "ABY"} => Addressing = two \o Fix
  BY DEF Addressing
<1>2. instr.mode = "IZY" => Addressing = three \o Fix
  BY DEF Addressing
<1>3. two = Two(Operand, a) /\ three = Three(c, b, Indexed)
  BY DEF Two, Three
<1>4. crossOrNotRead => Fix = One(FixHigh)
  BY DEF Fix, One
<1>5. ~crossOrNotRead => Fix = Nil
  BY DEF Fix, Nil
<1> HIDE DEF a, b, c, two, three
<1>9. /\ two \o Nil = Two(Operand, a) /\ two \o One(FixHigh) = Three(Operand, a, FixHigh)
      /\ three \o Nil = Three(c, b, Indexed) /\ three \o One(FixHigh) = Four(c, b, Indexed, FixHigh)
  BY <1>3, JoinedTwo
<1>6. /\ instr.mode \in {"ABX", "ABY"} /\ ~crossOrNotRead => Addressing = Two(Operand, a)
      /\ instr.mode \in {"ABX", "ABY"} /\ crossOrNotRead => Addressing = Three(Operand, a, FixHigh)
      /\ instr.mode = "IZY" /\ ~crossOrNotRead => Addressing = Three(c, b, Indexed)
      /\ instr.mode = "IZY" /\ crossOrNotRead => Addressing = Four(c, b, Indexed, FixHigh)
  BY <1>1, <1>2, <1>4, <1>5, <1>9
<1>7. /\ instr.mode = "ZP" => Addressing = <<[inc |-> TRUE] ++ ZeroPage("DATA")>>
      /\ instr.mode \in {"ZPX", "ZPY"} => Addressing = <<Operand ++ ZeroPage("DATA"), Add(index) ++ ZeroPage("ALU")>>
      /\ instr.mode = "ABS" => Addressing = <<Operand, [inc |-> TRUE] ++ Address("DL", "DATA")>>
      /\ instr.mode = "IZX" => Addressing = <<Operand ++ ZeroPage("DATA"), Add("X") ++ ZeroPage("ALU"),
                           [dlLoad |-> TRUE] ++ OneOn ++ ZeroPage("ALU"), Address("DL", "DATA")>>
  BY DEF Addressing
<1>8. QED
  BY <1>6, <1>7 DEF One, Two, Four, a, b, c

\* There are as many as Reach says.
LEMMA ReachIs ==
  ASSUME instr.mode \in MemoryModes
  PROVE  IsSeq(Addressing) /\ Len(Addressing) = Reach(instr, timing.acr)
<1> DEFINE n == Reach(instr, timing.acr)
<1>1. SUFFICES IsSeq(Addressing) /\ Len(Addressing) = n
  OBVIOUS
<1>2. /\ instr.mode = "ZP" => n = 1
      /\ instr.mode \in {"ZPX", "ZPY", "ABS"} => n = 2
      /\ instr.mode \in {"ABX", "ABY"} => n = IF crossOrNotRead THEN 3 ELSE 2
      /\ instr.mode = "IZX" => n = 4
      /\ instr.mode = "IZY" => n = IF crossOrNotRead THEN 4 ELSE 3
  BY DEF Reach, crossOrNotRead
<1> HIDE DEF n
<1>3. CASE instr.mode = "ZP"
  <2>1. Addressing = One([inc |-> TRUE] ++ ZeroPage("DATA"))
    BY <1>3, AddressingIs
  <2>2. n = 1
    BY <1>2, <1>3
  <2>3. QED
    BY <2>1, <2>2, TupleAt
<1>4. CASE instr.mode \in {"ZPX", "ZPY"}
  <2>1. Addressing = Two(Operand ++ ZeroPage("DATA"), Add(index) ++ ZeroPage("ALU"))
    BY <1>4, AddressingIs
  <2>2. n = 2
    BY <1>2, <1>4
  <2>3. QED
    BY <2>1, <2>2, TupleAt
<1>5. CASE instr.mode = "ABS"
  <2>1. Addressing = Two(Operand, [inc |-> TRUE] ++ Address("DL", "DATA"))
    BY <1>5, AddressingIs
  <2>2. n = 2
    BY <1>2, <1>5
  <2>3. QED
    BY <2>1, <2>2, TupleAt
<1>6. CASE instr.mode \in {"ABX", "ABY"} /\ crossOrNotRead
  <2>1. Addressing = Three(Operand, [inc |-> TRUE] ++ Indexed, FixHigh)
    BY <1>6, AddressingIs
  <2>2. n = 3
    BY <1>2, <1>6
  <2>3. QED
    BY <2>1, <2>2, TupleAt
<1>7. CASE instr.mode \in {"ABX", "ABY"} /\ ~crossOrNotRead
  <2>1. Addressing = Two(Operand, [inc |-> TRUE] ++ Indexed)
    BY <1>7, AddressingIs
  <2>2. n = 2
    BY <1>2, <1>7
  <2>3. QED
    BY <2>1, <2>2, TupleAt
<1>8. CASE instr.mode = "IZX"
  <2>1. Addressing = Four(Operand ++ ZeroPage("DATA"), Add("X") ++ ZeroPage("ALU"),
                           [dlLoad |-> TRUE] ++ OneOn ++ ZeroPage("ALU"), Address("DL", "DATA"))
    BY <1>8, AddressingIs
  <2>2. n = 4
    BY <1>2, <1>8
  <2>3. QED
    BY <2>1, <2>2, TupleAt
<1>9. CASE instr.mode = "IZY" /\ crossOrNotRead
  <2>1. Addressing = Four([inc |-> TRUE] ++ ZeroPage("DATA"),
                           [dlLoad |-> TRUE] ++ OneOn ++ ZeroPage("ALU"), Indexed, FixHigh)
    BY <1>9, AddressingIs
  <2>2. n = 4
    BY <1>2, <1>9
  <2>3. QED
    BY <2>1, <2>2, TupleAt
<1>10. CASE instr.mode = "IZY" /\ ~crossOrNotRead
  <2>1. Addressing = Three([inc |-> TRUE] ++ ZeroPage("DATA"),
                           [dlLoad |-> TRUE] ++ OneOn ++ ZeroPage("ALU"), Indexed)
    BY <1>10, AddressingIs
  <2>2. n = 3
    BY <1>2, <1>10
  <2>3. QED
    BY <2>1, <2>2, TupleAt
<1>11. QED
  BY <1>3, <1>4, <1>5, <1>6, <1>7, <1>8, <1>9, <1>10 DEF MemoryModes

\* What the memory steps are, after those of Addressing.
LEMMA MemoryStepsAre ==
  ASSUME instr.mode \in MemoryModes, NEW n \in 1..4, n = Reach(instr, timing.acr), IsSeq(Accessing)
  PROVE  /\ \A k \in 1..n : /\ k \in DOMAIN MemorySteps
                            /\ MemorySteps[k] = IF k = n /\ instr.access = "WRITE" THEN Write(instr.store) ++ Addressing[k]
                                                ELSE Addressing[k]
         /\ \A k \in 1..Len(Accessing) : n + k \in DOMAIN MemorySteps /\ MemorySteps[n + k] = Accessing[k]
         /\ \A k \in DOMAIN MemorySteps : k \in 1..n \/ \E j \in 1..Len(Accessing) : k = n + j
<1> DEFINE e(k) == IF k = n /\ instr.access = "WRITE" THEN Write(instr.store) ++ Addressing[k] ELSE Addressing[k]
           s == [k \in 1..n |-> e(k)]
           t == s \o Accessing
<1>1. MemorySteps = t
  <2>1. Len(Addressing) = n
    BY ReachIs
  <2>2. QED
    BY <2>1 DEF MemorySteps
<1>2. s = [k \in DOMAIN s |-> s[k]] /\ DOMAIN s = 1..n /\ \A k \in 1..n : s[k] = e(k)
  OBVIOUS
<1> HIDE DEF s, e
<1>3. IsSeq(s) /\ Len(s) = n
  <2> DEFINE T == {s[k] : k \in 1..n}
  <2>1. s \in [1..n -> T] /\ n \in Nat
    BY <1>2
  <2> HIDE DEF T
  <2>2. \E m \in Nat : s \in [1..m -> T]
    BY <2>1
  <2>3. s \in Seq(T)
    BY <2>2, SeqDef
  <2>4. DOMAIN s = 1..Len(s) /\ Len(s) \in Nat
    BY <2>3, LenProperties
  <2>5. Len(s) = n
    BY <1>2, <2>4
  <2>6. QED
    BY <2>3, <2>5 DEF IsSeq
<1>4. IsSeq(t) /\ Len(t) = n + Len(Accessing) /\ Len(Accessing) \in Nat
  BY <1>3, ConcatIs
<1>5. \A i \in 1..(n + Len(Accessing)) : t[i] = IF i <= n THEN s[i] ELSE Accessing[i - n]
  BY <1>3, ConcatIs
<1> HIDE DEF t
<1>6. DOMAIN t = 1..(n + Len(Accessing))
  BY <1>4, ChainIs
<1>7. ASSUME NEW k \in 1..n
      PROVE  k \in DOMAIN t /\ t[k] = e(k)
  BY <1>2, <1>4, <1>5, <1>6
<1>8. ASSUME NEW k \in 1..Len(Accessing)
      PROVE  n + k \in DOMAIN t /\ t[n + k] = Accessing[k]
  <2>1. n + k \in 1..(n + Len(Accessing)) /\ ~(n + k <= n) /\ (n + k) - n = k
    BY <1>4
  <2>2. QED
    BY <1>5, <1>6, <2>1
<1>9. ASSUME NEW k \in DOMAIN t
      PROVE  k \in 1..n \/ \E j \in 1..Len(Accessing) : k = n + j
  <2>1. k \in Int /\ (k \in 1..n \/ k - n \in 1..Len(Accessing))
    BY <1>4, <1>6
  <2>2. k = n + (k - n)
    BY <2>1
  <2>3. QED
    BY <2>1, <2>2
<1>10. QED
  BY <1>1, <1>7, <1>8, <1>9 DEF e

-----------------------------------------------------------------------------
(* A clock cycle *)

\* A cycle does to the blocks what its lines say.
LEMMA CycleClocks ==
  ASSUME NEW irq, NEW nmi, NEW reset, Cycle(irq, nmi, reset)
  PROVE  Clocks(Control, reset)
<1> DEFINE c == Control
           alu == ALU(c.op, SB(c), DB(c), c.cin, c.dec)
           next == Word(ADL(c, alu), ADH(c, alu))
<1>1. /\ TimingGenerator(c, alu, irq, nmi, reset) /\ InstructionDecode(reset)
      /\ ProgramCounter(c, next) /\ AddressBus(next) /\ DataLatch(c, alu)
      /\ Registers(c, alu) /\ StatusRegister(c, alu)
  BY DEF Cycle
<1>2. alu = Alu(c) /\ next = Next(c)
  BY DEF Alu, Next
<1> HIDE DEF c, alu, next
<1>3. Clocks(c, reset)
  BY <1>1, <1>2 DEF Clocks, TimingGenerator, TimingLogic, InstructionDecode, ProgramCounter, AddressBus, DataLatch,
       Registers, StatusRegister
<1>4. QED
  BY <1>3 DEF c

\* The interrupts that are pending after it.
LEMMA CyclePolls ==
  ASSUME NEW irq, NEW nmi, NEW reset, Cycle(irq, nmi, reset)
  PROVE  /\ timing'.pending => ~reset /\ (~Control.end => timing.pending /\ ~fetch)
         /\ timing'.pending /\ Control.end => timing'.nmi_latch \/ p.i = 0 \/ Control.intTake
         /\ timing.nmi_latch /\ ~Control.intTake /\ ~reset => timing'.nmi_latch
<1> DEFINE c == Control
           alu == ALU(c.op, SB(c), DB(c), c.cin, c.dec)
<1>1. timing' = TimingLogic(c, alu, irq, nmi, reset)
  BY DEF Cycle, TimingGenerator
<1> HIDE DEF c, alu
<1>2. /\ timing'.pending => ~reset /\ (~c.end => timing.pending /\ ~fetch)
      /\ timing'.pending /\ c.end => timing'.nmi_latch \/ p.i = 0 \/ c.intTake
      /\ timing.nmi_latch /\ ~c.intTake /\ ~reset => timing'.nmi_latch
  BY <1>1 DEF TimingLogic, NmiLatch
<1>3. QED
  BY <1>2 DEF c

\* What is on the data bus is a byte.
LEMMA DataType == TypeOK => data \in Bytes
BY ByteType DEF data, TypeOK

\* Some lines keep the registers.
LEMMA QuietKeeps ==
  ASSUME TypeOK, NEW c, NEW reset, Clocks(c, reset), Quiet(c)
  PROVE  regs' = regs /\ p' = p
<1>1. /\ regs' = IF c.dst \in DOMAIN regs THEN [regs EXCEPT ![c.dst] = Alu(c).result] ELSE regs
      /\ p' = Status(p, Alu(c), data, c.pLoad, c.flags, c.fop)
  BY DEF Clocks
<1>2. DOMAIN regs = RegNames /\ p \in Statuses
  BY DEF TypeOK
<1>3. "none" \notin RegNames
  BY DEF RegNames
<1>4. Status(p, Alu(c), data, FALSE, {}, <<>>) = p
  BY <1>2, StatusKept
<1>5. Status(p, Alu(c), data, c.pLoad, c.flags, c.fop) = Status(p, Alu(c), data, FALSE, {}, <<>>)
  BY DEF Quiet, Status
<1>6. QED
  BY <1>1, <1>2, <1>3, <1>4, <1>5 DEF Quiet

-----------------------------------------------------------------------------
(* What the words of control do *)

\* Two bytes added, and the carry.
LEMMA AddsAre ==
  ASSUME NEW c, c.op = "ADD", ~c.dec, NEW x \in Bytes, NEW y \in Bytes, NEW ci \in Bin,
         SB(c) = x, DB(c) = y, c.cin = ci, NEW sum \in Int, sum = x + y + ci
  PROVE  Alu(c).result = sum % 256 /\ Alu(c).c = Bit(sum, 8)
<1>1. Alu(c) = Binary(x, y, ci)
  BY DEF Alu, ALU
<1>2. x \in Int /\ y \in Int /\ ci \in Int
  BY DEF Bytes, Bin
<1>3. Binary(x, y, ci).result = (x + y + ci) % 256 /\ Binary(x, y, ci).c = Bit(x + y + ci, 8)
  BY <1>2, BinaryType
<1>4. QED
  BY <1>1, <1>3

\* A status pulled.
LEMMA PulledIs ==
  ASSUME NEW q \in Statuses, NEW alu, NEW b
  PROVE  Status(q, alu, b, TRUE, {}, <<>>) = Unpack(b)
<1>1. \A u : [f \in DOMAIN u |-> u[f]] = [f \in DOMAIN u |-> IF f \in {} THEN alu[f] ELSE u[f]]
  OBVIOUS
<1>2. Unpack(b) = [f \in DOMAIN Unpack(b) |-> Unpack(b)[f]]
  BY DEF Unpack
<1>3. QED
  BY <1>1, <1>2 DEF Status

\* One less than a byte.
LEMMA DownAre ==
  ASSUME NEW c, c.op = "SUB", ~c.dec, SB(c) \in Bytes, DB(c) = 0, c.cin = 0
  PROVE  Alu(c).result = (SB(c) + 255) % 256
<1>1. Alu(c) = ALU("SUB", SB(c), 0, 0, FALSE)
  BY DEF Alu, ALU
<1>2. QED
  BY <1>1, TakeOneIs

\* An addition without carry.
LEMMA PlusIs ==
  ASSUME NEW c, c.op = "ADD", ~c.dec, c.cin = 0, NEW x \in Bytes, NEW y \in Bytes, SB(c) = x, DB(c) = y
  PROVE  Alu(c).result = (x + y) % 256 /\ Alu(c).c = Bit(x + y, 8)
<1> DEFINE sum == x + y
<1>1. sum \in Int /\ sum = x + y + 0 /\ 0 \in Bin
  BY DEF Bytes, Bin
<1> HIDE DEF sum
<1>2. Alu(c).result = sum % 256 /\ Alu(c).c = Bit(sum, 8)
  BY <1>1, AddsAre
<1>3. QED
  BY <1>2 DEF sum

\* A carry added to a byte.
LEMMA CarryIs ==
  ASSUME NEW c, c.op = "ADD", ~c.dec, NEW x \in Bytes, NEW ci \in Bin, SB(c) = x, DB(c) = 0, c.cin = ci
  PROVE  Alu(c).result = (x + ci) % 256
<1> DEFINE sum == x + ci
<1>1. sum \in Int /\ sum = x + 0 + ci /\ 0 \in Bytes
  BY DEF Bytes, Bin
<1> HIDE DEF sum
<1>2. Alu(c).result = sum % 256 /\ Alu(c).c = Bit(sum, 8)
  BY <1>1, AddsAre
<1>3. QED
  BY <1>2 DEF sum

\* The sets the registers are in.
LEMMA StateTypes ==
  ASSUME TypeOK
  PROVE  /\ pc \in Words /\ ab \in Words /\ latch.dl \in Bytes /\ regs \in [RegNames -> Bytes] /\ p \in Statuses
         /\ timing.acr \in Bin /\ data \in Bytes
BY DataType DEF TypeOK

\* The program counter, and the one after it, are words.
LEMMA CountsOn ==
  ASSUME TypeOK
  PROVE  pc \in Words /\ (pc + 1) % 65536 \in Words
<1>1. pc \in Words /\ pc + 1 \in Int
  BY StateTypes DEF Words
<1>2. QED
  BY <1>1, Wraps

\* What a word that moves the stack pointer makes of the registers and the status.
LEMMA StackMoves ==
  ASSUME TypeOK, NEW c, NEW reset, Clocks(c, reset), c.dst = "S", c.flags = {}, c.fop = <<>>
  PROVE  /\ regs' = [regs EXCEPT !.S = Alu(c).result]
         /\ c.pLoad => p' = Unpack(data)
         /\ ~c.pLoad => p' = p
<1>1. DOMAIN regs = RegNames /\ "S" \in RegNames
  BY StateTypes DEF RegNames
<1>2. regs' = IF c.dst \in DOMAIN regs THEN [regs EXCEPT ![c.dst] = Alu(c).result] ELSE regs
  BY DEF Clocks
<1>3. p' = Status(p, Alu(c), data, c.pLoad, {}, <<>>)
  BY DEF Clocks
<1>4. ASSUME c.pLoad
      PROVE  p' = Unpack(data)
  <2>1. Status(p, Alu(c), data, c.pLoad, {}, <<>>) = Status(p, Alu(c), data, TRUE, {}, <<>>)
    BY <1>4 DEF Status
  <2>2. QED
    BY <1>3, <2>1, StateTypes, PulledIs
<1>5. ASSUME ~c.pLoad
      PROVE  p' = p
  <2>1. Status(p, Alu(c), data, c.pLoad, {}, <<>>) = Status(p, Alu(c), data, FALSE, {}, <<>>)
    BY <1>5 DEF Status
  <2>2. QED
    BY <1>3, <2>1, StateTypes, StatusKept
<1>6. QED
  BY <1>1, <1>2, <1>4, <1>5

\* The operand is read, and the byte after it addressed.
LEMMA OperandIs ==
  ASSUME TypeOK, NEW c, NEW reset, Clocks(c, reset),
         c = Operand ++ Idle
  PROVE  /\ pc' = (pc + 1) % 65536 /\ ab' = (pc + 1) % 65536 /\ latch'.dl = data /\ ~c.end /\ ~c.intTake
         /\ regs' = regs /\ p' = p /\ timing'.acr = timing.acr /\ timing'.adir = timing.adir /\ ~latch'.wr
<1>1. /\ ~c.end /\ c.inc /\ ~c.load /\ c.adl = "PC" /\ c.adh = "PC" /\ c.sb = "0" /\ c.db = "0"
      /\ c.op = "ADD" /\ c.cin = 0 /\ ~c.dec /\ c.dst = "none" /\ c.dlLoad /\ ~c.pLoad /\ c.flags = {}
      /\ c.fop = <<>> /\ ~c.acrLoad /\ ~c.acrBranch /\ ~c.intTake
  BY DEF ++, Idle, Operand
<1>2. ~c.write
  BY DEF ++, Idle, Operand
<1>3. PCS(c) = (pc + 1) % 65536
  BY <1>1 DEF PCS
<1>4. Next(c) = (pc + 1) % 65536
  <2>1. PCS(c) \in Words
    BY <1>3, CountsOn
  <2>2. ADL(c, Alu(c)) = Low(PCS(c)) /\ ADH(c, Alu(c)) = High(PCS(c))
    BY <1>1 DEF ADL, ADH
  <2>3. QED
    BY <1>3, <2>1, <2>2, WordParts DEF Next
<1>5. regs' = regs /\ p' = p
  BY <1>1, QuietKeeps DEF Quiet
<1>6. QED
  BY <1>1, <1>2, <1>3, <1>4, <1>5 DEF Clocks

\* The operand is read, and addresses a byte in page zero.
LEMMA ZeroPageOperandIs ==
  ASSUME TypeOK, NEW c, NEW reset, Clocks(c, reset),
         c = Operand ++ ZeroPage("DATA") ++ Idle
  PROVE  /\ pc' = (pc + 1) % 65536 /\ ab' = Word(data, 0) /\ latch'.dl = data /\ ~c.end /\ ~c.intTake
         /\ regs' = regs /\ p' = p /\ timing'.acr = timing.acr /\ timing'.adir = timing.adir /\ ~latch'.wr
<1>1. /\ ~c.end /\ c.inc /\ ~c.load /\ c.adl = "DATA" /\ c.adh = "ZERO" /\ c.sb = "0" /\ c.db = "0"
      /\ c.op = "ADD" /\ c.cin = 0 /\ ~c.dec /\ c.dst = "none" /\ c.dlLoad /\ ~c.pLoad /\ c.flags = {}
      /\ c.fop = <<>> /\ ~c.acrLoad /\ ~c.acrBranch /\ ~c.intTake
  BY DEF ++, Idle, Operand, ZeroPage, Address
<1>2. ~c.write
  BY DEF ++, Idle, Operand, ZeroPage, Address
<1>3. PCS(c) = (pc + 1) % 65536
  BY <1>1 DEF PCS
<1>4. Next(c) = Word(data, 0)
  BY <1>1 DEF ADL, ADH, Next
<1>5. regs' = regs /\ p' = p
  BY <1>1, QuietKeeps DEF Quiet
<1>6. QED
  BY <1>1, <1>2, <1>3, <1>4, <1>5 DEF Clocks

\* A byte in page zero addressed, for a read or a write.
LEMMA ZeroPageIs ==
  ASSUME TypeOK, NEW c, NEW reset, Clocks(c, reset),
         NEW s, c = [inc |-> TRUE] ++ ZeroPage("DATA") ++ Idle \/ c = Write(s) ++ ([inc |-> TRUE] ++ ZeroPage("DATA")) ++ Idle
  PROVE  /\ pc' = (pc + 1) % 65536 /\ ab' = Word(data, 0) /\ ~c.end /\ ~c.intTake /\ regs' = regs /\ p' = p
         /\ timing'.acr = timing.acr /\ timing'.adir = timing.adir
         /\ c = [inc |-> TRUE] ++ ZeroPage("DATA") ++ Idle => ~latch'.wr
         /\ s \in {"A", "X", "Y"} /\ c = Write(s) ++ ([inc |-> TRUE] ++ ZeroPage("DATA")) ++ Idle => latch'.wr /\ latch'.dor = regs[s]
<1>1. /\ ~c.end /\ c.inc /\ ~c.load /\ c.adl = "DATA" /\ c.adh = "ZERO" /\ c.sb = "0" /\ c.db = "0"
      /\ c.op = "ADD" /\ c.cin = 0 /\ ~c.dec /\ c.dst = "none" /\ ~c.dlLoad /\ ~c.pLoad /\ c.flags = {}
      /\ c.fop = <<>> /\ ~c.acrLoad /\ ~c.acrBranch /\ ~c.intTake
  <2>1. CASE c = [inc |-> TRUE] ++ ZeroPage("DATA") ++ Idle
    BY <2>1 DEF ++, Idle, ZeroPage, Address
  <2>2. CASE c = Write(s) ++ ([inc |-> TRUE] ++ ZeroPage("DATA")) ++ Idle
    BY <2>2 DEF ++, Idle, ZeroPage, Address, Write
  <2>3. QED
    BY <2>1, <2>2
<1>2. /\ c = [inc |-> TRUE] ++ ZeroPage("DATA") ++ Idle => ~c.write
      /\ c = Write(s) ++ ([inc |-> TRUE] ++ ZeroPage("DATA")) ++ Idle => c.write /\ c.dor = s
  BY DEF ++, Idle, ZeroPage, Address, Write
<1>3. PCS(c) = (pc + 1) % 65536
  BY <1>1 DEF PCS
<1>4. Next(c) = Word(data, 0)
  BY <1>1 DEF ADL, ADH, Next
<1>5. regs' = regs /\ p' = p
  BY <1>1, QuietKeeps DEF Quiet
<1>6. QED
  BY <1>1, <1>2, <1>3, <1>4, <1>5 DEF Clocks, DOR

\* An index is added to what the latch holds, in page zero.
LEMMA ZeroIndexedIs ==
  ASSUME TypeOK, NEW c, NEW reset, Clocks(c, reset),
         NEW s, c = Add(index) ++ ZeroPage("ALU") ++ Idle \/ c = Write(s) ++ (Add(index) ++ ZeroPage("ALU")) ++ Idle
  PROVE  /\ pc' = pc /\ latch'.dl = latch.dl /\ ab' = Word((regs[index] + latch.dl) % 256, 0) /\ ~c.end
         /\ ~c.intTake /\ regs' = regs /\ p' = p /\ timing'.acr = timing.acr /\ timing'.adir = timing.adir
         /\ c = Add(index) ++ ZeroPage("ALU") ++ Idle => ~latch'.wr
         /\ s \in {"A", "X", "Y"} /\ c = Write(s) ++ (Add(index) ++ ZeroPage("ALU")) ++ Idle => latch'.wr /\ latch'.dor = regs[s]
<1>1. /\ ~c.end /\ ~c.inc /\ ~c.load /\ c.adl = "ALU" /\ c.adh = "ZERO" /\ c.sb = index /\ c.db = "DL"
      /\ c.op = "ADD" /\ c.cin = 0 /\ ~c.dec /\ c.dst = "none" /\ ~c.dlLoad /\ ~c.pLoad /\ c.flags = {}
      /\ c.fop = <<>> /\ ~c.acrLoad /\ ~c.acrBranch /\ ~c.intTake
  <2>1. CASE c = Add(index) ++ ZeroPage("ALU") ++ Idle
    BY <2>1 DEF ++, Idle, Add, ZeroPage, Address
  <2>2. CASE c = Write(s) ++ (Add(index) ++ ZeroPage("ALU")) ++ Idle
    BY <2>2 DEF ++, Idle, Add, ZeroPage, Address, Write
  <2>3. QED
    BY <2>1, <2>2
<1>2. /\ c = Add(index) ++ ZeroPage("ALU") ++ Idle => ~c.write
      /\ c = Write(s) ++ (Add(index) ++ ZeroPage("ALU")) ++ Idle => c.write /\ c.dor = s
  BY DEF ++, Idle, Add, ZeroPage, Address, Write
<1>3. PCS(c) = pc
  BY <1>1 DEF PCS
<1>4. Alu(c).result = (regs[index] + latch.dl) % 256
  <2>1. SB(c) = regs[index] /\ DB(c) = latch.dl
    BY <1>1 DEF SB, DB, index
  <2>2. regs[index] \in Bytes /\ latch.dl \in Bytes
    BY StateTypes, WordParts DEF index, RegNames
  <2>3. QED
    BY <1>1, <2>1, <2>2, PlusIs
<1>5. Next(c) = Word((regs[index] + latch.dl) % 256, 0)
  BY <1>1, <1>4 DEF ADL, ADH, Next
<1>6. regs' = regs /\ p' = p
  BY <1>1, QuietKeeps DEF Quiet
<1>7. QED
  BY <1>1, <1>2, <1>3, <1>5, <1>6, <1>4 DEF Clocks, DOR

\* The same, with X.
LEMMA ZeroIndexedXIs ==
  ASSUME TypeOK, NEW c, NEW reset, Clocks(c, reset),
         c = Add("X") ++ ZeroPage("ALU") ++ Idle
  PROVE  /\ pc' = pc /\ latch'.dl = latch.dl /\ ab' = Word((regs.X + latch.dl) % 256, 0) /\ ~c.end
         /\ ~c.intTake /\ regs' = regs /\ p' = p /\ timing'.acr = timing.acr /\ timing'.adir = timing.adir
         /\ ~latch'.wr
<1>1. /\ ~c.end /\ ~c.inc /\ ~c.load /\ c.adl = "ALU" /\ c.adh = "ZERO" /\ c.sb = "X" /\ c.db = "DL"
      /\ c.op = "ADD" /\ c.cin = 0 /\ ~c.dec /\ c.dst = "none" /\ ~c.dlLoad /\ ~c.pLoad /\ c.flags = {}
      /\ c.fop = <<>> /\ ~c.acrLoad /\ ~c.acrBranch /\ ~c.intTake
  BY DEF ++, Idle, Add, ZeroPage, Address
<1>2. ~c.write
  BY DEF ++, Idle, Add, ZeroPage, Address
<1>3. PCS(c) = pc
  BY <1>1 DEF PCS
<1>4. Alu(c).result = (regs.X + latch.dl) % 256
  <2>1. SB(c) = regs.X /\ DB(c) = latch.dl
    BY <1>1 DEF SB, DB, index
  <2>2. regs.X \in Bytes /\ latch.dl \in Bytes
    BY StateTypes, WordParts DEF index, RegNames
  <2>3. QED
    BY <1>1, <2>1, <2>2, PlusIs
<1>5. Next(c) = Word((regs.X + latch.dl) % 256, 0)
  BY <1>1, <1>4 DEF ADL, ADH, Next
<1>6. regs' = regs /\ p' = p
  BY <1>1, QuietKeeps DEF Quiet
<1>7. QED
  BY <1>1, <1>2, <1>3, <1>5, <1>6, <1>4 DEF Clocks

\* A whole address, from the latch and the byte read.
LEMMA AbsoluteIs ==
  ASSUME TypeOK, NEW c, NEW reset, Clocks(c, reset),
         NEW s, c = [inc |-> TRUE] ++ Address("DL", "DATA") ++ Idle \/ c = Write(s) ++ ([inc |-> TRUE] ++ Address("DL", "DATA")) ++ Idle
  PROVE  /\ pc' = (pc + 1) % 65536 /\ ab' = Word(latch.dl, data) /\ ~c.end /\ ~c.intTake /\ regs' = regs
         /\ p' = p /\ timing'.acr = timing.acr /\ timing'.adir = timing.adir
         /\ c = [inc |-> TRUE] ++ Address("DL", "DATA") ++ Idle => ~latch'.wr
         /\ s \in {"A", "X", "Y"} /\ c = Write(s) ++ ([inc |-> TRUE] ++ Address("DL", "DATA")) ++ Idle => latch'.wr /\ latch'.dor = regs[s]
<1>1. /\ ~c.end /\ c.inc /\ ~c.load /\ c.adl = "DL" /\ c.adh = "DATA" /\ c.sb = "0" /\ c.db = "0"
      /\ c.op = "ADD" /\ c.cin = 0 /\ ~c.dec /\ c.dst = "none" /\ ~c.dlLoad /\ ~c.pLoad /\ c.flags = {}
      /\ c.fop = <<>> /\ ~c.acrLoad /\ ~c.acrBranch /\ ~c.intTake
  <2>1. CASE c = [inc |-> TRUE] ++ Address("DL", "DATA") ++ Idle
    BY <2>1 DEF ++, Idle, Address
  <2>2. CASE c = Write(s) ++ ([inc |-> TRUE] ++ Address("DL", "DATA")) ++ Idle
    BY <2>2 DEF ++, Idle, Address, Write
  <2>3. QED
    BY <2>1, <2>2
<1>2. /\ c = [inc |-> TRUE] ++ Address("DL", "DATA") ++ Idle => ~c.write
      /\ c = Write(s) ++ ([inc |-> TRUE] ++ Address("DL", "DATA")) ++ Idle => c.write /\ c.dor = s
  BY DEF ++, Idle, Address, Write
<1>3. PCS(c) = (pc + 1) % 65536
  BY <1>1 DEF PCS
<1>4. Next(c) = Word(latch.dl, data)
  BY <1>1 DEF ADL, ADH, Next
<1>5. regs' = regs /\ p' = p
  BY <1>1, QuietKeeps DEF Quiet
<1>6. QED
  BY <1>1, <1>2, <1>3, <1>4, <1>5 DEF Clocks, DOR

\* An index is added to the low byte of an address.
LEMMA AbsoluteIndexedIs ==
  ASSUME TypeOK, NEW c, NEW reset, Clocks(c, reset),
         c = [inc |-> TRUE] ++ Indexed ++ Idle
  PROVE  /\ pc' = (pc + 1) % 65536 /\ ab' = Word((regs[index] + latch.dl) % 256, data)
         /\ timing'.acr = Bit(regs[index] + latch.dl, 8) /\ ~c.end /\ ~c.intTake /\ regs' = regs /\ p' = p
         /\ ~latch'.wr
<1>1. /\ ~c.end /\ c.inc /\ ~c.load /\ c.adl = "ALU" /\ c.adh = "DATA" /\ c.sb = index /\ c.db = "DL"
      /\ c.op = "ADD" /\ c.cin = 0 /\ ~c.dec /\ c.dst = "none" /\ ~c.dlLoad /\ ~c.pLoad /\ c.flags = {}
      /\ c.fop = <<>> /\ c.acrLoad /\ ~c.acrBranch /\ ~c.intTake
  BY DEF ++, Idle, Indexed, Add, Address
<1>2. ~c.write
  BY DEF ++, Idle, Indexed, Add, Address
<1>3. PCS(c) = (pc + 1) % 65536
  BY <1>1 DEF PCS
<1>4. Alu(c).result = (regs[index] + latch.dl) % 256 /\ Alu(c).c = Bit(regs[index] + latch.dl, 8)
  <2>1. SB(c) = regs[index] /\ DB(c) = latch.dl
    BY <1>1 DEF SB, DB, index
  <2>2. regs[index] \in Bytes /\ latch.dl \in Bytes
    BY StateTypes, WordParts DEF index, RegNames
  <2>3. QED
    BY <1>1, <2>1, <2>2, PlusIs
<1>5. Next(c) = Word((regs[index] + latch.dl) % 256, data)
  BY <1>1, <1>4 DEF ADL, ADH, Next
<1>6. regs' = regs /\ p' = p
  BY <1>1, QuietKeeps DEF Quiet
<1>7. QED
  BY <1>1, <1>2, <1>3, <1>5, <1>6, <1>4 DEF Clocks

\* A pointer, with its index added.
LEMMA PointerIndexedIs ==
  ASSUME TypeOK, NEW c, NEW reset, Clocks(c, reset),
         c = Indexed ++ Idle
  PROVE  /\ pc' = pc /\ ab' = Word((regs[index] + latch.dl) % 256, data)
         /\ timing'.acr = Bit(regs[index] + latch.dl, 8) /\ ~c.end /\ ~c.intTake /\ regs' = regs /\ p' = p
         /\ ~latch'.wr
<1>1. /\ ~c.end /\ ~c.inc /\ ~c.load /\ c.adl = "ALU" /\ c.adh = "DATA" /\ c.sb = index /\ c.db = "DL"
      /\ c.op = "ADD" /\ c.cin = 0 /\ ~c.dec /\ c.dst = "none" /\ ~c.dlLoad /\ ~c.pLoad /\ c.flags = {}
      /\ c.fop = <<>> /\ c.acrLoad /\ ~c.acrBranch /\ ~c.intTake
  BY DEF ++, Idle, Indexed, Add, Address
<1>2. ~c.write
  BY DEF ++, Idle, Indexed, Add, Address
<1>3. PCS(c) = pc
  BY <1>1 DEF PCS
<1>4. Alu(c).result = (regs[index] + latch.dl) % 256 /\ Alu(c).c = Bit(regs[index] + latch.dl, 8)
  <2>1. SB(c) = regs[index] /\ DB(c) = latch.dl
    BY <1>1 DEF SB, DB, index
  <2>2. regs[index] \in Bytes /\ latch.dl \in Bytes
    BY StateTypes, WordParts DEF index, RegNames
  <2>3. QED
    BY <1>1, <2>1, <2>2, PlusIs
<1>5. Next(c) = Word((regs[index] + latch.dl) % 256, data)
  BY <1>1, <1>4 DEF ADL, ADH, Next
<1>6. regs' = regs /\ p' = p
  BY <1>1, QuietKeeps DEF Quiet
<1>7. QED
  BY <1>1, <1>2, <1>3, <1>5, <1>6, <1>4 DEF Clocks

\* The carry of the index goes to the high byte.
LEMMA FixHighIs ==
  ASSUME TypeOK, NEW c, NEW reset, Clocks(c, reset),
         NEW s, c = FixHigh ++ Idle \/ c = Write(s) ++ FixHigh ++ Idle
  PROVE  /\ pc' = pc /\ ab' = Word(Low(ab), (High(ab) + timing.acr) % 256) /\ ~c.end /\ ~c.intTake
         /\ regs' = regs /\ p' = p /\ timing'.acr = timing.acr /\ timing'.adir = timing.adir
         /\ c = FixHigh ++ Idle => ~latch'.wr
         /\ s \in {"A", "X", "Y"} /\ c = Write(s) ++ FixHigh ++ Idle => latch'.wr /\ latch'.dor = regs[s]
<1>1. /\ ~c.end /\ ~c.inc /\ ~c.load /\ c.adl = "ABL" /\ c.adh = "ALU" /\ c.sb = "ABH" /\ c.db = "0"
      /\ c.op = "ADD" /\ c.cin = timing.acr /\ ~c.dec /\ c.dst = "none" /\ ~c.dlLoad /\ ~c.pLoad
      /\ c.flags = {} /\ c.fop = <<>> /\ ~c.acrLoad /\ ~c.acrBranch /\ ~c.intTake
  <2>1. CASE c = FixHigh ++ Idle
    BY <2>1 DEF ++, Idle, FixHigh
  <2>2. CASE c = Write(s) ++ FixHigh ++ Idle
    BY <2>2 DEF ++, Idle, FixHigh, Write
  <2>3. QED
    BY <2>1, <2>2
<1>2. /\ c = FixHigh ++ Idle => ~c.write
      /\ c = Write(s) ++ FixHigh ++ Idle => c.write /\ c.dor = s
  BY DEF ++, Idle, FixHigh, Write
<1>3. PCS(c) = pc
  BY <1>1 DEF PCS
<1>4. Alu(c).result = (High(ab) + timing.acr) % 256
  <2>1. SB(c) = High(ab) /\ DB(c) = 0
    BY <1>1 DEF SB, DB, index
  <2>2. High(ab) \in Bytes /\ timing.acr \in Bin
    BY StateTypes, WordParts DEF index, RegNames
  <2>3. QED
    BY <1>1, <2>1, <2>2, CarryIs
<1>5. Next(c) = Word(Low(ab), (High(ab) + timing.acr) % 256)
  BY <1>1, <1>4 DEF ADL, ADH, Next
<1>6. regs' = regs /\ p' = p
  BY <1>1, QuietKeeps DEF Quiet
<1>7. QED
  BY <1>1, <1>2, <1>3, <1>5, <1>6, <1>4 DEF Clocks, DOR

\* The next byte of a pointer in page zero.
LEMMA NextZeroIs ==
  ASSUME TypeOK, NEW c, NEW reset, Clocks(c, reset),
         c = [dlLoad |-> TRUE] ++ OneOn ++ ZeroPage("ALU") ++ Idle
  PROVE  /\ pc' = pc /\ latch'.dl = data /\ ab' = Word((Low(ab) + 1) % 256, 0) /\ ~c.end /\ ~c.intTake
         /\ regs' = regs /\ p' = p /\ timing'.acr = timing.acr /\ timing'.adir = timing.adir /\ ~latch'.wr
<1>1. /\ ~c.end /\ ~c.inc /\ ~c.load /\ c.adl = "ALU" /\ c.adh = "ZERO" /\ c.sb = "ABL" /\ c.db = "0"
      /\ c.op = "ADD" /\ c.cin = 1 /\ ~c.dec /\ c.dst = "none" /\ c.dlLoad /\ ~c.pLoad /\ c.flags = {}
      /\ c.fop = <<>> /\ ~c.acrLoad /\ ~c.acrBranch /\ ~c.intTake
  BY DEF ++, Idle, OneOn, ZeroPage, Address
<1>2. ~c.write
  BY DEF ++, Idle, OneOn, ZeroPage, Address
<1>3. PCS(c) = pc
  BY <1>1 DEF PCS
<1>4. Alu(c).result = (Low(ab) + 1) % 256
  <2>1. SB(c) = Low(ab) /\ DB(c) = 0
    BY <1>1 DEF SB, DB, index
  <2>2. Low(ab) \in Bytes /\ 1 \in Bin
    BY StateTypes, WordParts DEF index, RegNames, Bin
  <2>3. QED
    BY <1>1, <2>1, <2>2, CarryIs
<1>5. Next(c) = Word((Low(ab) + 1) % 256, 0)
  BY <1>1, <1>4 DEF ADL, ADH, Next
<1>6. regs' = regs /\ p' = p
  BY <1>1, QuietKeeps DEF Quiet
<1>7. QED
  BY <1>1, <1>2, <1>3, <1>5, <1>6, <1>4 DEF Clocks

\* The next byte of a pointer, on its page.
LEMMA NextInPageIs ==
  ASSUME TypeOK, NEW c, NEW reset, Clocks(c, reset),
         c = [dlLoad |-> TRUE] ++ OneOn ++ Address("ALU", "ABH") ++ Idle
  PROVE  /\ pc' = pc /\ latch'.dl = data /\ ab' = Word((Low(ab) + 1) % 256, High(ab)) /\ ~c.end
         /\ ~c.intTake /\ regs' = regs /\ p' = p /\ timing'.acr = timing.acr /\ timing'.adir = timing.adir
         /\ ~latch'.wr
<1>1. /\ ~c.end /\ ~c.inc /\ ~c.load /\ c.adl = "ALU" /\ c.adh = "ABH" /\ c.sb = "ABL" /\ c.db = "0"
      /\ c.op = "ADD" /\ c.cin = 1 /\ ~c.dec /\ c.dst = "none" /\ c.dlLoad /\ ~c.pLoad /\ c.flags = {}
      /\ c.fop = <<>> /\ ~c.acrLoad /\ ~c.acrBranch /\ ~c.intTake
  BY DEF ++, Idle, OneOn, Address
<1>2. ~c.write
  BY DEF ++, Idle, OneOn, Address
<1>3. PCS(c) = pc
  BY <1>1 DEF PCS
<1>4. Alu(c).result = (Low(ab) + 1) % 256
  <2>1. SB(c) = Low(ab) /\ DB(c) = 0
    BY <1>1 DEF SB, DB, index
  <2>2. Low(ab) \in Bytes /\ 1 \in Bin
    BY StateTypes, WordParts DEF index, RegNames, Bin
  <2>3. QED
    BY <1>1, <2>1, <2>2, CarryIs
<1>5. Next(c) = Word((Low(ab) + 1) % 256, High(ab))
  BY <1>1, <1>4 DEF ADL, ADH, Next
<1>6. regs' = regs /\ p' = p
  BY <1>1, QuietKeeps DEF Quiet
<1>7. QED
  BY <1>1, <1>2, <1>3, <1>5, <1>6, <1>4 DEF Clocks

\* An address, with no operand byte counted.
LEMMA AddressIs ==
  ASSUME TypeOK, NEW c, NEW reset, Clocks(c, reset),
         NEW s, c = Address("DL", "DATA") ++ Idle \/ c = Write(s) ++ (Address("DL", "DATA")) ++ Idle
  PROVE  /\ pc' = pc /\ ab' = Word(latch.dl, data) /\ ~c.end /\ ~c.intTake /\ regs' = regs /\ p' = p
         /\ timing'.acr = timing.acr /\ timing'.adir = timing.adir
         /\ c = Address("DL", "DATA") ++ Idle => ~latch'.wr
         /\ s \in {"A", "X", "Y"} /\ c = Write(s) ++ (Address("DL", "DATA")) ++ Idle => latch'.wr /\ latch'.dor = regs[s]
<1>1. /\ ~c.end /\ ~c.inc /\ ~c.load /\ c.adl = "DL" /\ c.adh = "DATA" /\ c.sb = "0" /\ c.db = "0"
      /\ c.op = "ADD" /\ c.cin = 0 /\ ~c.dec /\ c.dst = "none" /\ ~c.dlLoad /\ ~c.pLoad /\ c.flags = {}
      /\ c.fop = <<>> /\ ~c.acrLoad /\ ~c.acrBranch /\ ~c.intTake
  <2>1. CASE c = Address("DL", "DATA") ++ Idle
    BY <2>1 DEF ++, Idle, Address
  <2>2. CASE c = Write(s) ++ (Address("DL", "DATA")) ++ Idle
    BY <2>2 DEF ++, Idle, Address, Write
  <2>3. QED
    BY <2>1, <2>2
<1>2. /\ c = Address("DL", "DATA") ++ Idle => ~c.write
      /\ c = Write(s) ++ (Address("DL", "DATA")) ++ Idle => c.write /\ c.dor = s
  BY DEF ++, Idle, Address, Write
<1>3. PCS(c) = pc
  BY <1>1 DEF PCS
<1>4. Next(c) = Word(latch.dl, data)
  BY <1>1 DEF ADL, ADH, Next
<1>5. regs' = regs /\ p' = p
  BY <1>1, QuietKeeps DEF Quiet
<1>6. QED
  BY <1>1, <1>2, <1>3, <1>4, <1>5 DEF Clocks, DOR

\* The last cycle of an instruction.
LEMMA EndIs ==
  ASSUME TypeOK, NEW c, NEW reset, Clocks(c, reset),
         c = End ++ Idle
  PROVE  /\ pc' = pc /\ ab' = pc /\ c.end /\ ~c.intTake /\ regs' = regs /\ p' = p
         /\ timing'.acr = timing.acr /\ timing'.adir = timing.adir /\ ~latch'.wr
<1>1. /\ c.end /\ ~c.inc /\ ~c.load /\ c.adl = "PC" /\ c.adh = "PC" /\ c.sb = "0" /\ c.db = "0"
      /\ c.op = "ADD" /\ c.cin = 0 /\ ~c.dec /\ c.dst = "none" /\ ~c.dlLoad /\ ~c.pLoad /\ c.flags = {}
      /\ c.fop = <<>> /\ ~c.acrLoad /\ ~c.acrBranch /\ ~c.intTake
  BY DEF ++, Idle, End
<1>2. ~c.write
  BY DEF ++, Idle, End
<1>3. PCS(c) = pc
  BY <1>1 DEF PCS
<1>4. Next(c) = pc
  <2>1. PCS(c) \in Words
    BY <1>3, CountsOn
  <2>2. ADL(c, Alu(c)) = Low(PCS(c)) /\ ADH(c, Alu(c)) = High(PCS(c))
    BY <1>1 DEF ADL, ADH
  <2>3. QED
    BY <1>3, <2>1, <2>2, WordParts DEF Next
<1>5. regs' = regs /\ p' = p
  BY <1>1, QuietKeeps DEF Quiet
<1>6. QED
  BY <1>1, <1>2, <1>3, <1>4, <1>5 DEF Clocks

\* And with an operand byte counted.
LEMMA IncEndIs ==
  ASSUME TypeOK, NEW c, NEW reset, Clocks(c, reset),
         c = [inc |-> TRUE] ++ End ++ Idle
  PROVE  /\ pc' = (pc + 1) % 65536 /\ ab' = (pc + 1) % 65536 /\ c.end /\ ~c.intTake /\ regs' = regs
         /\ p' = p /\ timing'.acr = timing.acr /\ timing'.adir = timing.adir /\ ~latch'.wr
<1>1. /\ c.end /\ c.inc /\ ~c.load /\ c.adl = "PC" /\ c.adh = "PC" /\ c.sb = "0" /\ c.db = "0"
      /\ c.op = "ADD" /\ c.cin = 0 /\ ~c.dec /\ c.dst = "none" /\ ~c.dlLoad /\ ~c.pLoad /\ c.flags = {}
      /\ c.fop = <<>> /\ ~c.acrLoad /\ ~c.acrBranch /\ ~c.intTake
  BY DEF ++, Idle, End
<1>2. ~c.write
  BY DEF ++, Idle, End
<1>3. PCS(c) = (pc + 1) % 65536
  BY <1>1 DEF PCS
<1>4. Next(c) = (pc + 1) % 65536
  <2>1. PCS(c) \in Words
    BY <1>3, CountsOn
  <2>2. ADL(c, Alu(c)) = Low(PCS(c)) /\ ADH(c, Alu(c)) = High(PCS(c))
    BY <1>1 DEF ADL, ADH
  <2>3. QED
    BY <1>3, <2>1, <2>2, WordParts DEF Next
<1>5. regs' = regs /\ p' = p
  BY <1>1, QuietKeeps DEF Quiet
<1>6. QED
  BY <1>1, <1>2, <1>3, <1>4, <1>5 DEF Clocks

\* The byte read is written back.
LEMMA HoldIs ==
  ASSUME TypeOK, NEW c, NEW reset, Clocks(c, reset),
         c = [dlLoad |-> TRUE] ++ Write("DATA") ++ Hold ++ Idle
  PROVE  /\ pc' = pc /\ latch'.dl = data /\ ab' = ab /\ latch'.dor = data /\ ~c.end /\ ~c.intTake
         /\ regs' = regs /\ p' = p /\ timing'.acr = timing.acr /\ timing'.adir = timing.adir /\ latch'.wr
<1>1. /\ ~c.end /\ ~c.inc /\ ~c.load /\ c.adl = "ABL" /\ c.adh = "ABH" /\ c.sb = "0" /\ c.db = "0"
      /\ c.op = "ADD" /\ c.cin = 0 /\ ~c.dec /\ c.dst = "none" /\ c.dlLoad /\ ~c.pLoad /\ c.flags = {}
      /\ c.fop = <<>> /\ ~c.acrLoad /\ ~c.acrBranch /\ ~c.intTake
  BY DEF ++, Idle, Write, Hold, Address
<1>2. c.write /\ c.dor = "DATA"
  BY DEF ++, Idle, Write, Hold, Address
<1>3. PCS(c) = pc
  BY <1>1 DEF PCS
<1>4. Next(c) = Word(Low(ab), High(ab))
  BY <1>1 DEF ADL, ADH, Next
<1>5. Next(c) = ab
  BY StateTypes, <1>4, WordParts
<1>6. regs' = regs /\ p' = p
  BY <1>1, QuietKeeps DEF Quiet
<1>7. QED
  BY <1>1, <1>2, <1>3, <1>4, <1>6, <1>5 DEF Clocks, DOR

\* A jump.
LEMMA JumpIs ==
  ASSUME TypeOK, NEW c, NEW reset, Clocks(c, reset),
         c = Jump ++ Idle
  PROVE  /\ pc' = Word(latch.dl, data) /\ ab' = Word(latch.dl, data) /\ ~c.end /\ ~c.intTake /\ regs' = regs
         /\ p' = p /\ timing'.acr = timing.acr /\ timing'.adir = timing.adir /\ ~latch'.wr
<1>1. /\ ~c.end /\ ~c.inc /\ c.load /\ c.adl = "DL" /\ c.adh = "DATA" /\ c.sb = "0" /\ c.db = "0"
      /\ c.op = "ADD" /\ c.cin = 0 /\ ~c.dec /\ c.dst = "none" /\ ~c.dlLoad /\ ~c.pLoad /\ c.flags = {}
      /\ c.fop = <<>> /\ ~c.acrLoad /\ ~c.acrBranch /\ ~c.intTake
  BY DEF ++, Idle, Jump, Address
<1>2. ~c.write
  BY DEF ++, Idle, Jump, Address
<1>3. PCS(c) = pc
  BY <1>1 DEF PCS
<1>4. Next(c) = Word(latch.dl, data)
  BY <1>1 DEF ADL, ADH, Next
<1>5. regs' = regs /\ p' = p
  BY <1>1, QuietKeeps DEF Quiet
<1>6. QED
  BY <1>1, <1>2, <1>3, <1>4, <1>5 DEF Clocks

\* A jump that ends the instruction.
LEMMA JumpEndIs ==
  ASSUME TypeOK, NEW c, NEW reset, Clocks(c, reset),
         c = Jump ++ End ++ Idle
  PROVE  /\ pc' = Word(latch.dl, data) /\ ab' = Word(latch.dl, data) /\ c.end /\ ~c.intTake /\ regs' = regs
         /\ p' = p /\ timing'.acr = timing.acr /\ timing'.adir = timing.adir /\ ~latch'.wr
<1>1. /\ c.end /\ ~c.inc /\ c.load /\ c.adl = "DL" /\ c.adh = "DATA" /\ c.sb = "0" /\ c.db = "0"
      /\ c.op = "ADD" /\ c.cin = 0 /\ ~c.dec /\ c.dst = "none" /\ ~c.dlLoad /\ ~c.pLoad /\ c.flags = {}
      /\ c.fop = <<>> /\ ~c.acrLoad /\ ~c.acrBranch /\ ~c.intTake
  BY DEF ++, Idle, Jump, Address, End
<1>2. ~c.write
  BY DEF ++, Idle, Jump, Address, End
<1>3. PCS(c) = pc
  BY <1>1 DEF PCS
<1>4. Next(c) = Word(latch.dl, data)
  BY <1>1 DEF ADL, ADH, Next
<1>5. regs' = regs /\ p' = p
  BY <1>1, QuietKeeps DEF Quiet
<1>6. QED
  BY <1>1, <1>2, <1>3, <1>4, <1>5 DEF Clocks

\* The operand of JSR, and then the stack.
LEMMA OperandStackIs ==
  ASSUME TypeOK, NEW c, NEW reset, Clocks(c, reset),
         c = Operand ++ Stack ++ Idle
  PROVE  /\ pc' = (pc + 1) % 65536 /\ latch'.dl = data /\ ab' = Word(regs.S, 1) /\ ~c.end /\ ~c.intTake
         /\ regs' = regs /\ p' = p /\ timing'.acr = timing.acr /\ timing'.adir = timing.adir /\ ~latch'.wr
<1>1. /\ ~c.end /\ c.inc /\ ~c.load /\ c.adl = "S" /\ c.adh = "STACK" /\ c.sb = "0" /\ c.db = "0"
      /\ c.op = "ADD" /\ c.cin = 0 /\ ~c.dec /\ c.dst = "none" /\ c.dlLoad /\ ~c.pLoad /\ c.flags = {}
      /\ c.fop = <<>> /\ ~c.acrLoad /\ ~c.acrBranch /\ ~c.intTake
  BY DEF ++, Idle, Operand, Stack, Address
<1>2. ~c.write
  BY DEF ++, Idle, Operand, Stack, Address
<1>3. PCS(c) = (pc + 1) % 65536
  BY <1>1 DEF PCS
<1>4. Next(c) = Word(regs.S, 1)
  BY <1>1 DEF ADL, ADH, Next
<1>5. regs' = regs /\ p' = p
  BY <1>1, QuietKeeps DEF Quiet
<1>6. QED
  BY <1>1, <1>2, <1>3, <1>4, <1>5 DEF Clocks

\* The top of the stack addressed.
LEMMA StackIs ==
  ASSUME TypeOK, NEW c, NEW reset, Clocks(c, reset),
         c = Stack ++ Idle
  PROVE  /\ pc' = pc /\ ab' = Word(regs.S, 1) /\ ~c.end /\ ~c.intTake /\ regs' = regs /\ p' = p
         /\ timing'.acr = timing.acr /\ timing'.adir = timing.adir /\ ~latch'.wr
<1>1. /\ ~c.end /\ ~c.inc /\ ~c.load /\ c.adl = "S" /\ c.adh = "STACK" /\ c.sb = "0" /\ c.db = "0"
      /\ c.op = "ADD" /\ c.cin = 0 /\ ~c.dec /\ c.dst = "none" /\ ~c.dlLoad /\ ~c.pLoad /\ c.flags = {}
      /\ c.fop = <<>> /\ ~c.acrLoad /\ ~c.acrBranch /\ ~c.intTake
  BY DEF ++, Idle, Stack, Address
<1>2. ~c.write
  BY DEF ++, Idle, Stack, Address
<1>3. PCS(c) = pc
  BY <1>1 DEF PCS
<1>4. Next(c) = Word(regs.S, 1)
  BY <1>1 DEF ADL, ADH, Next
<1>5. regs' = regs /\ p' = p
  BY <1>1, QuietKeeps DEF Quiet
<1>6. QED
  BY <1>1, <1>2, <1>3, <1>4, <1>5 DEF Clocks

\* The high byte of PC is pushed.
LEMMA PushHighIs ==
  ASSUME TypeOK, NEW c, NEW reset, Clocks(c, reset),
         c = Hold ++ Write("PCH") ++ Idle
  PROVE  /\ pc' = pc /\ latch'.dl = latch.dl /\ ab' = ab /\ latch'.dor = High(pc) /\ ~c.end /\ ~c.intTake
         /\ regs' = regs /\ p' = p /\ timing'.acr = timing.acr /\ timing'.adir = timing.adir /\ latch'.wr
<1>1. /\ ~c.end /\ ~c.inc /\ ~c.load /\ c.adl = "ABL" /\ c.adh = "ABH" /\ c.sb = "0" /\ c.db = "0"
      /\ c.op = "ADD" /\ c.cin = 0 /\ ~c.dec /\ c.dst = "none" /\ ~c.dlLoad /\ ~c.pLoad /\ c.flags = {}
      /\ c.fop = <<>> /\ ~c.acrLoad /\ ~c.acrBranch /\ ~c.intTake
  BY DEF ++, Idle, Write, Hold, Address
<1>2. c.write /\ c.dor = "PCH"
  BY DEF ++, Idle, Write, Hold, Address
<1>3. PCS(c) = pc
  BY <1>1 DEF PCS
<1>4. Next(c) = Word(Low(ab), High(ab))
  BY <1>1 DEF ADL, ADH, Next
<1>5. Next(c) = ab
  BY StateTypes, <1>4, WordParts
<1>6. regs' = regs /\ p' = p
  BY <1>1, QuietKeeps DEF Quiet
<1>7. QED
  BY <1>1, <1>2, <1>3, <1>4, <1>6, <1>5 DEF Clocks, DOR

\* And then the low one.
LEMMA PushLowIs ==
  ASSUME TypeOK, NEW c, NEW reset, Clocks(c, reset),
         c = Down ++ OnStack ++ Write("PCL") ++ Idle
  PROVE  /\ pc' = pc /\ latch'.dl = latch.dl /\ ab' = Word((regs.S + 255) % 256, 1) /\ latch'.dor = Low(pc)
         /\ ~c.end /\ ~c.intTake /\ regs' = [regs EXCEPT !.S = (regs.S + 255) % 256] /\ p' = p
         /\ timing'.acr = timing.acr /\ timing'.adir = timing.adir /\ latch'.wr
<1>1. /\ ~c.end /\ ~c.inc /\ ~c.load /\ c.adl = "ALU" /\ c.adh = "STACK" /\ c.sb = "S" /\ c.db = "0"
      /\ c.op = "SUB" /\ c.cin = 0 /\ ~c.dec /\ c.dst = "S" /\ ~c.dlLoad /\ ~c.pLoad /\ c.flags = {}
      /\ c.fop = <<>> /\ ~c.acrLoad /\ ~c.acrBranch /\ ~c.intTake
  BY DEF ++, Idle, Down, OnStack, Write, Address
<1>2. c.write /\ c.dor = "PCL"
  BY DEF ++, Idle, Down, OnStack, Write, Address
<1>3. PCS(c) = pc
  BY <1>1 DEF PCS
<1>4. Alu(c).result = (regs.S + 255) % 256
  <2>1. SB(c) = regs.S /\ DB(c) = 0
    BY <1>1 DEF SB, DB, index
  <2>2. regs.S \in Bytes
    BY StateTypes, WordParts DEF index, RegNames
  <2>3. QED
    BY <1>1, <2>1, <2>2, DownAre
<1>5. Next(c) = Word((regs.S + 255) % 256, 1)
  BY <1>1, <1>4 DEF ADL, ADH, Next
<1>6. regs' = [regs EXCEPT !.S = Alu(c).result] /\ p' = p
  BY <1>1, StackMoves
<1>7. QED
  BY <1>1, <1>2, <1>3, <1>5, <1>6, <1>4 DEF Clocks, DOR

\* The stack pointer goes down.
LEMMA DownIs ==
  ASSUME TypeOK, NEW c, NEW reset, Clocks(c, reset),
         c = Down ++ Idle
  PROVE  /\ pc' = pc /\ latch'.dl = latch.dl /\ ab' = pc /\ ~c.end /\ ~c.intTake
         /\ regs' = [regs EXCEPT !.S = (regs.S + 255) % 256] /\ p' = p
         /\ timing'.acr = timing.acr /\ timing'.adir = timing.adir /\ ~latch'.wr
<1>1. /\ ~c.end /\ ~c.inc /\ ~c.load /\ c.adl = "PC" /\ c.adh = "PC" /\ c.sb = "S" /\ c.db = "0"
      /\ c.op = "SUB" /\ c.cin = 0 /\ ~c.dec /\ c.dst = "S" /\ ~c.dlLoad /\ ~c.pLoad /\ c.flags = {}
      /\ c.fop = <<>> /\ ~c.acrLoad /\ ~c.acrBranch /\ ~c.intTake
  BY DEF ++, Idle, Down
<1>2. ~c.write
  BY DEF ++, Idle, Down
<1>3. PCS(c) = pc
  BY <1>1 DEF PCS
<1>4. Alu(c).result = (regs.S + 255) % 256
  <2>1. SB(c) = regs.S /\ DB(c) = 0
    BY <1>1 DEF SB, DB, index
  <2>2. regs.S \in Bytes
    BY StateTypes, WordParts DEF index, RegNames
  <2>3. QED
    BY <1>1, <2>1, <2>2, DownAre
<1>5. Next(c) = pc
  <2>1. PCS(c) \in Words
    BY <1>3, CountsOn
  <2>2. ADL(c, Alu(c)) = Low(PCS(c)) /\ ADH(c, Alu(c)) = High(PCS(c))
    BY <1>1 DEF ADL, ADH
  <2>3. QED
    BY <1>3, <2>1, <2>2, WordParts DEF Next
<1>6. regs' = [regs EXCEPT !.S = Alu(c).result] /\ p' = p
  BY <1>1, StackMoves
<1>7. QED
  BY <1>1, <1>2, <1>3, <1>5, <1>6, <1>4 DEF Clocks

\* And the instruction ends.
LEMMA DownEndIs ==
  ASSUME TypeOK, NEW c, NEW reset, Clocks(c, reset),
         c = Down ++ End ++ Idle
  PROVE  /\ pc' = pc /\ ab' = pc /\ c.end /\ ~c.intTake /\ regs' = [regs EXCEPT !.S = (regs.S + 255) % 256]
         /\ p' = p /\ timing'.acr = timing.acr /\ timing'.adir = timing.adir /\ ~latch'.wr
<1>1. /\ c.end /\ ~c.inc /\ ~c.load /\ c.adl = "PC" /\ c.adh = "PC" /\ c.sb = "S" /\ c.db = "0"
      /\ c.op = "SUB" /\ c.cin = 0 /\ ~c.dec /\ c.dst = "S" /\ ~c.dlLoad /\ ~c.pLoad /\ c.flags = {}
      /\ c.fop = <<>> /\ ~c.acrLoad /\ ~c.acrBranch /\ ~c.intTake
  BY DEF ++, Idle, Down, End
<1>2. ~c.write
  BY DEF ++, Idle, Down, End
<1>3. PCS(c) = pc
  BY <1>1 DEF PCS
<1>4. Alu(c).result = (regs.S + 255) % 256
  <2>1. SB(c) = regs.S /\ DB(c) = 0
    BY <1>1 DEF SB, DB, index
  <2>2. regs.S \in Bytes
    BY StateTypes, WordParts DEF index, RegNames
  <2>3. QED
    BY <1>1, <2>1, <2>2, DownAre
<1>5. Next(c) = pc
  <2>1. PCS(c) \in Words
    BY <1>3, CountsOn
  <2>2. ADL(c, Alu(c)) = Low(PCS(c)) /\ ADH(c, Alu(c)) = High(PCS(c))
    BY <1>1 DEF ADL, ADH
  <2>3. QED
    BY <1>3, <2>1, <2>2, WordParts DEF Next
<1>6. regs' = [regs EXCEPT !.S = Alu(c).result] /\ p' = p
  BY <1>1, StackMoves
<1>7. QED
  BY <1>1, <1>2, <1>3, <1>5, <1>6, <1>4 DEF Clocks

\* The stack pointer goes up, with the address.
LEMMA UpIs ==
  ASSUME TypeOK, NEW c, NEW reset, Clocks(c, reset),
         c = Up ++ OnStack ++ Idle
  PROVE  /\ pc' = pc /\ ab' = Word((regs.S + 1) % 256, 1) /\ ~c.end /\ ~c.intTake
         /\ regs' = [regs EXCEPT !.S = (regs.S + 1) % 256] /\ p' = p
         /\ timing'.acr = timing.acr /\ timing'.adir = timing.adir /\ ~latch'.wr
<1>1. /\ ~c.end /\ ~c.inc /\ ~c.load /\ c.adl = "ALU" /\ c.adh = "STACK" /\ c.sb = "S" /\ c.db = "0"
      /\ c.op = "ADD" /\ c.cin = 1 /\ ~c.dec /\ c.dst = "S" /\ ~c.dlLoad /\ ~c.pLoad /\ c.flags = {}
      /\ c.fop = <<>> /\ ~c.acrLoad /\ ~c.acrBranch /\ ~c.intTake
  BY DEF ++, Idle, Up, OnStack, Address
<1>2. ~c.write
  BY DEF ++, Idle, Up, OnStack, Address
<1>3. PCS(c) = pc
  BY <1>1 DEF PCS
<1>4. Alu(c).result = (regs.S + 1) % 256
  <2>1. SB(c) = regs.S /\ DB(c) = 0
    BY <1>1 DEF SB, DB, index
  <2>2. regs.S \in Bytes /\ 1 \in Bin
    BY StateTypes, WordParts DEF index, RegNames, Bin
  <2>3. QED
    BY <1>1, <2>1, <2>2, CarryIs
<1>5. Next(c) = Word((regs.S + 1) % 256, 1)
  BY <1>1, <1>4 DEF ADL, ADH, Next
<1>6. regs' = [regs EXCEPT !.S = Alu(c).result] /\ p' = p
  BY <1>1, StackMoves
<1>7. QED
  BY <1>1, <1>2, <1>3, <1>5, <1>6, <1>4 DEF Clocks

\* And the latch takes what was pulled.
LEMMA UpLoadIs ==
  ASSUME TypeOK, NEW c, NEW reset, Clocks(c, reset),
         c = [dlLoad |-> TRUE] ++ Up ++ OnStack ++ Idle
  PROVE  /\ pc' = pc /\ latch'.dl = data /\ ab' = Word((regs.S + 1) % 256, 1) /\ ~c.end /\ ~c.intTake
         /\ regs' = [regs EXCEPT !.S = (regs.S + 1) % 256] /\ p' = p
         /\ timing'.acr = timing.acr /\ timing'.adir = timing.adir /\ ~latch'.wr
<1>1. /\ ~c.end /\ ~c.inc /\ ~c.load /\ c.adl = "ALU" /\ c.adh = "STACK" /\ c.sb = "S" /\ c.db = "0"
      /\ c.op = "ADD" /\ c.cin = 1 /\ ~c.dec /\ c.dst = "S" /\ c.dlLoad /\ ~c.pLoad /\ c.flags = {}
      /\ c.fop = <<>> /\ ~c.acrLoad /\ ~c.acrBranch /\ ~c.intTake
  BY DEF ++, Idle, Up, OnStack, Address
<1>2. ~c.write
  BY DEF ++, Idle, Up, OnStack, Address
<1>3. PCS(c) = pc
  BY <1>1 DEF PCS
<1>4. Alu(c).result = (regs.S + 1) % 256
  <2>1. SB(c) = regs.S /\ DB(c) = 0
    BY <1>1 DEF SB, DB, index
  <2>2. regs.S \in Bytes /\ 1 \in Bin
    BY StateTypes, WordParts DEF index, RegNames, Bin
  <2>3. QED
    BY <1>1, <2>1, <2>2, CarryIs
<1>5. Next(c) = Word((regs.S + 1) % 256, 1)
  BY <1>1, <1>4 DEF ADL, ADH, Next
<1>6. regs' = [regs EXCEPT !.S = Alu(c).result] /\ p' = p
  BY <1>1, StackMoves
<1>7. QED
  BY <1>1, <1>2, <1>3, <1>5, <1>6, <1>4 DEF Clocks

\* Or the status does.
LEMMA UpStatusIs ==
  ASSUME TypeOK, NEW c, NEW reset, Clocks(c, reset),
         c = [pLoad |-> TRUE] ++ Up ++ OnStack ++ Idle
  PROVE  /\ pc' = pc /\ ab' = Word((regs.S + 1) % 256, 1) /\ ~c.end /\ ~c.intTake
         /\ regs' = [regs EXCEPT !.S = (regs.S + 1) % 256] /\ p' = Unpack(data)
         /\ timing'.acr = timing.acr /\ timing'.adir = timing.adir /\ ~latch'.wr
<1>1. /\ ~c.end /\ ~c.inc /\ ~c.load /\ c.adl = "ALU" /\ c.adh = "STACK" /\ c.sb = "S" /\ c.db = "0"
      /\ c.op = "ADD" /\ c.cin = 1 /\ ~c.dec /\ c.dst = "S" /\ ~c.dlLoad /\ c.pLoad /\ c.flags = {}
      /\ c.fop = <<>> /\ ~c.acrLoad /\ ~c.acrBranch /\ ~c.intTake
  BY DEF ++, Idle, Up, OnStack, Address
<1>2. ~c.write
  BY DEF ++, Idle, Up, OnStack, Address
<1>3. PCS(c) = pc
  BY <1>1 DEF PCS
<1>4. Alu(c).result = (regs.S + 1) % 256
  <2>1. SB(c) = regs.S /\ DB(c) = 0
    BY <1>1 DEF SB, DB, index
  <2>2. regs.S \in Bytes /\ 1 \in Bin
    BY StateTypes, WordParts DEF index, RegNames, Bin
  <2>3. QED
    BY <1>1, <2>1, <2>2, CarryIs
<1>5. Next(c) = Word((regs.S + 1) % 256, 1)
  BY <1>1, <1>4 DEF ADL, ADH, Next
<1>6. regs' = [regs EXCEPT !.S = Alu(c).result] /\ p' = Unpack(data)
  BY <1>1, StackMoves
<1>7. QED
  BY <1>1, <1>2, <1>3, <1>5, <1>6, <1>4 DEF Clocks

-----------------------------------------------------------------------------
(* The instruction's own operation *)

\* The operation, on what the lines select.
LEMMA RunsComputes ==
  ASSUME TypeOK, NEW c, NEW reset, Clocks(c, reset), Runs(c)
  PROVE  /\ Alu(c) = Ran(instr, regs, p, latch.dl, data) /\ Alu(c) \in Flagged
         /\ regs' = IF instr.dst \in RegNames THEN [regs EXCEPT ![instr.dst] = Alu(c).result] ELSE regs
         /\ p' = Status(p, Alu(c), data, instr.dst = "P", instr.flags, instr.fop)
<1> DEFINE x == CASE instr.sb = "DL" -> latch.dl [] instr.sb = "0" -> 0 [] OTHER -> regs[instr.sb]
           y == IF instr.db = "DATA" THEN data ELSE 0
           ci == CASE instr.cin = "C" -> p.c [] instr.cin = "1" -> 1 [] OTHER -> 0
<1>1. Instr(instr)
  BY InstrIs
<1>2. SB(c) = x
  BY <1>1 DEF SB, Runs, Instr
<1>3. DB(c) = y
  BY <1>1 DEF DB, Runs, Instr
<1>4. c.cin = ci
  BY <1>1 DEF Runs, Instr
<1>5. x \in Bytes
  <2>1. regs \in [RegNames -> Bytes] /\ latch.dl \in Bytes
    BY DEF TypeOK
  <2>2. instr.sb \in {"A", "X", "Y", "S", "0", "DL"} /\ 0 \in Bytes
    BY <1>1 DEF Instr, Bytes
  <2>3. QED
    BY <2>1, <2>2 DEF RegNames
<1>6. y \in Bytes
  BY DataType DEF Bytes
<1>7. ci \in Bin
  <2>1. p.c \in Bin
    BY DEF TypeOK, Statuses, FlagNames
  <2>2. QED
    BY <2>1 DEF Bin
<1> HIDE DEF x, y, ci
<1>8. Alu(c) = ALU(instr.op, x, y, ci, c.dec)
  BY <1>2, <1>3, <1>4 DEF Alu, Runs
<1>9. ALU(instr.op, x, y, ci, c.dec) = ALU(instr.op, x, y, ci, instr.dec /\ p.d = 1)
  <2>1. c.dec <=> instr.dec /\ p.d = 1
    BY DEF Runs
  <2>2. QED
    BY <2>1 DEF ALU
<1>10. Alu(c) = Ran(instr, regs, p, latch.dl, data)
  BY <1>8, <1>9 DEF Ran, x, y, ci
<1>11. Alu(c) \in Flagged
  BY <1>1, <1>5, <1>6, <1>7, <1>8, AluType DEF Instr
<1>12. regs' = IF instr.dst \in RegNames THEN [regs EXCEPT ![instr.dst] = Alu(c).result] ELSE regs
  <2>1. DOMAIN regs = RegNames
    BY DEF TypeOK
  <2>2. QED
    BY <2>1 DEF Clocks, Runs
<1>13. p' = Status(p, Alu(c), data, instr.dst = "P", instr.flags, instr.fop)
  <2>1. p' = Status(p, Alu(c), data, c.pLoad, c.flags, c.fop)
    BY DEF Clocks
  <2>2. QED
    BY <2>1 DEF Status, Runs
<1>14. QED
  BY <1>10, <1>11, <1>12, <1>13

\* It ends the instruction.
LEMMA ExecEndIs ==
  ASSUME TypeOK, NEW c, NEW reset, Clocks(c, reset), c = Exec ++ End ++ Idle
  PROVE  /\ pc' = pc /\ ab' = pc /\ ~latch'.wr /\ c.end /\ ~c.intTake /\ Runs(c)
<1>1. Runs(c)
  BY DEF ++, Idle, Exec, End, Runs
<1>2. /\ ~c.inc /\ ~c.load /\ c.adl = "PC" /\ c.adh = "PC" /\ ~c.write /\ c.end /\ ~c.intTake
  BY DEF ++, Idle, Exec, End
<1>3. pc \in Words /\ PCS(c) = pc
  BY <1>2 DEF TypeOK, PCS
<1>4. Next(c) = pc
  <2>1. ADL(c, Alu(c)) = Low(PCS(c)) /\ ADH(c, Alu(c)) = High(PCS(c))
    BY <1>2 DEF ADL, ADH
  <2>2. QED
    BY <1>3, <2>1, WordParts DEF Next
<1>5. QED
  BY <1>1, <1>2, <1>3, <1>4 DEF Clocks

\* Of an immediate operand.
LEMMA ExecIncIs ==
  ASSUME TypeOK, NEW c, NEW reset, Clocks(c, reset), c = Exec ++ End ++ [inc |-> TRUE] ++ Idle
  PROVE  /\ pc' = (pc + 1) % 65536 /\ ab' = (pc + 1) % 65536 /\ ~latch'.wr /\ c.end /\ ~c.intTake /\ Runs(c)
<1>1. Runs(c)
  BY DEF ++, Idle, Exec, End, Runs
<1>2. /\ c.inc /\ ~c.load /\ c.adl = "PC" /\ c.adh = "PC" /\ ~c.write /\ c.end /\ ~c.intTake
  BY DEF ++, Idle, Exec, End
<1>3. PCS(c) \in Words /\ PCS(c) = (pc + 1) % 65536
  BY <1>2, Wraps, BytesAreWords DEF TypeOK, PCS
<1>4. Next(c) = (pc + 1) % 65536
  <2>1. ADL(c, Alu(c)) = Low(PCS(c)) /\ ADH(c, Alu(c)) = High(PCS(c))
    BY <1>2 DEF ADL, ADH
  <2>2. QED
    BY <1>3, <2>1, WordParts DEF Next
<1>5. QED
  BY <1>1, <1>2, <1>3, <1>4 DEF Clocks

\* Its result is to be written.
LEMMA ExecWriteIs ==
  ASSUME TypeOK, NEW c, NEW reset, Clocks(c, reset), c = Exec ++ Write("ALU") ++ Hold ++ Idle
  PROVE  /\ pc' = pc /\ ab' = ab /\ latch'.wr /\ latch'.dor = Alu(c).result /\ ~c.end /\ ~c.intTake /\ Runs(c)
         /\ timing'.acr = timing.acr /\ timing'.adir = timing.adir
<1>1. Runs(c)
  BY DEF ++, Idle, Exec, Write, Hold, Address, Runs
<1>2. /\ ~c.inc /\ ~c.load /\ c.adl = "ABL" /\ c.adh = "ABH" /\ c.write /\ c.dor = "ALU" /\ ~c.end /\ ~c.intTake
      /\ ~c.acrLoad
  BY DEF ++, Idle, Exec, Write, Hold, Address
<1>3. pc \in Words /\ ab \in Words /\ PCS(c) = pc
  BY <1>2 DEF TypeOK, PCS
<1>4. Next(c) = ab
  <2>1. ADL(c, Alu(c)) = Low(ab) /\ ADH(c, Alu(c)) = High(ab)
    BY <1>2 DEF ADL, ADH
  <2>2. QED
    BY <1>3, <2>1, WordParts DEF Next
<1>5. QED
  BY <1>1, <1>2, <1>3, <1>4 DEF Clocks, DOR

\* A branch: its operand.
LEMMA BranchOperandIs ==
  ASSUME TypeOK, NEW c, NEW reset, Clocks(c, reset), c = Operand ++ [end |-> ~Taken(instr.cond, p)] ++ Idle
  PROVE  /\ pc' = (pc + 1) % 65536 /\ ab' = (pc + 1) % 65536 /\ latch'.dl = data /\ ~latch'.wr
         /\ (c.end <=> ~Taken(instr.cond, p)) /\ ~c.intTake /\ regs' = regs /\ p' = p
         /\ timing'.acr = timing.acr /\ timing'.adir = timing.adir
<1>1. /\ c.inc /\ ~c.load /\ c.adl = "PC" /\ c.adh = "PC" /\ c.dlLoad /\ ~c.write /\ ~c.intTake /\ ~c.acrLoad
      /\ c.dst = "none" /\ ~c.pLoad /\ c.flags = {} /\ c.fop = <<>>
  BY DEF ++, Idle, Operand
<1>2. c.end <=> ~Taken(instr.cond, p)
  BY DEF ++, Idle, Operand
<1>3. PCS(c) = (pc + 1) % 65536 /\ PCS(c) \in Words
  BY <1>1, CountsOn DEF PCS
<1>4. Next(c) = (pc + 1) % 65536
  <2>1. ADL(c, Alu(c)) = Low(PCS(c)) /\ ADH(c, Alu(c)) = High(PCS(c))
    BY <1>1 DEF ADL, ADH
  <2>2. QED
    BY <1>3, <2>1, WordParts DEF Next
<1>5. regs' = regs /\ p' = p
  BY <1>1, QuietKeeps DEF Quiet
<1>6. QED
  BY <1>1, <1>2, <1>3, <1>4, <1>5 DEF Clocks

\* The offset is added to the low byte of PC.
LEMMA BranchAddIs ==
  ASSUME TypeOK, NEW c, NEW reset, Clocks(c, reset), c = Add("PCL") ++ Address("ALU", "PC") ++ [load |-> TRUE, acrLoad |-> TRUE, acrBranch |-> TRUE] ++ Idle
  PROVE  /\ pc' = Word((Low(pc) + latch.dl) % 256, High(pc)) /\ ab' = Word((Low(pc) + latch.dl) % 256, High(pc)) /\ ~latch'.wr
         /\ ~c.end /\ ~c.intTake /\ regs' = regs /\ p' = p
         /\ timing'.acr = (Bit(Low(pc) + latch.dl, 8) + Bit(latch.dl, 7)) % 2 /\ timing'.adir = Bit(latch.dl, 7)
<1>1. /\ ~c.inc /\ c.load /\ c.adl = "ALU" /\ c.adh = "PC" /\ ~c.write /\ ~c.intTake /\ c.acrLoad /\ c.acrBranch /\ ~c.end
      /\ c.dst = "none" /\ ~c.pLoad /\ c.flags = {} /\ c.fop = <<>> /\ c.op = "ADD" /\ c.sb = "PCL" /\ c.db = "DL"
      /\ c.cin = 0 /\ ~c.dec
  BY DEF ++, Idle, Add, Address
<1>2. PCS(c) = pc
  BY <1>1 DEF PCS
<1>3. SB(c) = Low(pc) /\ Low(pc) \in Bytes /\ DB(c) = latch.dl /\ latch.dl \in Bytes
  BY <1>1, StateTypes, WordParts DEF SB, DB
<1>4. Alu(c).result = (Low(pc) + latch.dl) % 256 /\ Alu(c).c = Bit(Low(pc) + latch.dl, 8)
  BY <1>1, <1>3, PlusIs
<1>5. Next(c) = Word((Low(pc) + latch.dl) % 256, High(pc))
  BY <1>1, <1>4, <1>2 DEF ADL, ADH, Next
<1>6. regs' = regs /\ p' = p
  BY <1>1, QuietKeeps DEF Quiet
<1>7. QED
  BY <1>1, <1>2, <1>3, <1>4, <1>5, <1>6 DEF Clocks

\* The high byte of PC follows the low one.
LEMMA BranchFixIs ==
  ASSUME TypeOK, NEW c, NEW reset, Clocks(c, reset), c = Address("PC", "ALU") ++ [load |-> TRUE, sb |-> "PCH", op |-> IF timing.adir = 1 THEN "SUB" ELSE "ADD",
                                       cin |-> IF timing.adir = 1 THEN 0 ELSE 1] ++ End ++ Idle
  PROVE  /\ pc' = Word(Low(pc), (High(pc) + (IF timing.adir = 1 THEN 255 ELSE 1)) % 256)
         /\ ab' = pc' /\ ~latch'.wr /\ c.end /\ ~c.intTake /\ regs' = regs /\ p' = p
<1>1. /\ ~c.inc /\ c.load /\ c.adl = "PC" /\ c.adh = "ALU" /\ ~c.write /\ ~c.intTake /\ c.end
      /\ c.dst = "none" /\ ~c.pLoad /\ c.flags = {} /\ c.fop = <<>> /\ c.sb = "PCH" /\ c.db = "0" /\ ~c.dec
      /\ c.op = (IF timing.adir = 1 THEN "SUB" ELSE "ADD") /\ c.cin = IF timing.adir = 1 THEN 0 ELSE 1
  BY DEF ++, Idle, End, Address
<1>2. PCS(c) = pc
  BY <1>1 DEF PCS
<1>3. SB(c) = High(pc) /\ High(pc) \in Bytes /\ DB(c) = 0
  BY <1>1, StateTypes, WordParts DEF SB, DB
<1>4. Alu(c).result = (High(pc) + (IF timing.adir = 1 THEN 255 ELSE 1)) % 256
  <2>1. CASE timing.adir = 1
    <3>1. Alu(c).result = (SB(c) + 255) % 256
      BY <1>1, <1>3, <2>1, DownAre
    <3>2. QED
      BY <1>3, <2>1, <3>1
  <2>2. CASE timing.adir # 1
    <3>1. c.op = "ADD" /\ c.cin = 1 /\ 1 \in Bin
      BY <1>1, <2>2 DEF Bin
    <3>2. Alu(c).result = (High(pc) + 1) % 256
      BY <1>1, <1>3, <3>1, CarryIs
    <3>3. QED
      BY <2>2, <3>2
  <2>3. QED
    BY <2>1, <2>2
<1>5. Next(c) = Word(Low(pc), (High(pc) + (IF timing.adir = 1 THEN 255 ELSE 1)) % 256)
  BY <1>1, <1>4, <1>2 DEF ADL, ADH, Next
<1>6. regs' = regs /\ p' = p
  BY <1>1, QuietKeeps DEF Quiet
<1>7. QED
  BY <1>1, <1>5, <1>6 DEF Clocks

\* The sequence of BRK, the interrupts and reset.
LEMMA EnterHighIs ==
  ASSUME TypeOK, NEW c, NEW reset, Clocks(c, reset), c = [inc |-> ~hw] ++ Stack ++ [write |-> ~resetting, dor |-> "PCH"] ++ Idle
  PROVE  /\ pc' = (IF hw THEN pc ELSE (pc + 1) % 65536) /\ ab' = Word(regs.S, 1)
         /\ (latch'.wr <=> ~resetting) /\ latch'.dor = High(pc') /\ ~c.end /\ ~c.intTake /\ regs' = regs /\ p' = p
<1>1. /\ (c.inc <=> ~hw) /\ ~c.load /\ c.adl = "S" /\ c.adh = "STACK" /\ (c.write <=> ~resetting) /\ c.dor = "PCH"
      /\ ~c.intTake /\ ~c.end /\ c.dst = "none" /\ ~c.pLoad /\ c.flags = {} /\ c.fop = <<>>
  BY DEF ++, Idle, Stack, Address
<1>2. PCS(c) = IF hw THEN pc ELSE (pc + 1) % 65536
  BY <1>1 DEF PCS
<1>3. Next(c) = Word(regs.S, 1)
  BY <1>1 DEF ADL, ADH, Next
<1>4. regs' = regs /\ p' = p
  BY <1>1, QuietKeeps DEF Quiet
<1>5. QED
  BY <1>1, <1>2, <1>3, <1>4 DEF Clocks, DOR

\* The low byte of PC is pushed, but for a reset.
LEMMA EnterLowIs ==
  ASSUME TypeOK, NEW c, NEW reset, Clocks(c, reset), c = Down ++ OnStack ++ [write |-> ~resetting, dor |-> "PCL"] ++ Idle
  PROVE  /\ pc' = pc /\ ab' = Word((regs.S + 255) % 256, 1)
         /\ (latch'.wr <=> ~resetting) /\ latch'.dor = Low(pc) /\ ~c.end /\ ~c.intTake
         /\ regs' = [regs EXCEPT !.S = (regs.S + 255) % 256] /\ p' = p
<1>1. /\ ~c.inc /\ ~c.load /\ c.adl = "ALU" /\ c.adh = "STACK" /\ (c.write <=> ~resetting) /\ c.dor = "PCL"
      /\ ~c.intTake /\ ~c.end /\ c.dst = "S" /\ ~c.pLoad /\ c.flags = {} /\ c.fop = <<>>
      /\ c.op = "SUB" /\ c.sb = "S" /\ c.db = "0" /\ ~c.dec /\ c.cin = 0
  BY DEF ++, Idle, Down, OnStack, Address
<1>2. PCS(c) = pc
  BY <1>1 DEF PCS
<1>3. SB(c) = regs.S /\ regs.S \in Bytes /\ DB(c) = 0
  <2>1. regs.S \in Bytes
    BY StateTypes DEF RegNames
  <2>2. SB(c) = regs.S /\ DB(c) = 0
    BY <1>1 DEF SB, DB
  <2>3. QED
    BY <2>1, <2>2
<1>4. Alu(c).result = (regs.S + 255) % 256
  BY <1>1, <1>3, DownAre
<1>5. Next(c) = Word((regs.S + 255) % 256, 1)
  BY <1>1, <1>4 DEF ADL, ADH, Next
<1>6. regs' = [regs EXCEPT !.S = Alu(c).result] /\ p' = p
  BY <1>1, StackMoves
<1>7. QED
  BY <1>1, <1>2, <1>4, <1>5, <1>6 DEF Clocks, DOR

\* The status is pushed.
LEMMA EnterStatusIs ==
  ASSUME TypeOK, NEW c, NEW reset, Clocks(c, reset), c = Down ++ OnStack ++ [write |-> ~resetting, dor |-> "P"] ++ [pushB |-> IF hw THEN 0 ELSE 1] ++ Idle
  PROVE  /\ pc' = pc /\ ab' = Word((regs.S + 255) % 256, 1)
         /\ (latch'.wr <=> ~resetting) /\ latch'.dor = Pack(p, IF hw THEN 0 ELSE 1) /\ ~c.end /\ ~c.intTake
         /\ regs' = [regs EXCEPT !.S = (regs.S + 255) % 256] /\ p' = p
<1>1. /\ ~c.inc /\ ~c.load /\ c.adl = "ALU" /\ c.adh = "STACK" /\ (c.write <=> ~resetting) /\ c.dor = "P"
      /\ ~c.intTake /\ ~c.end /\ c.dst = "S" /\ ~c.pLoad /\ c.flags = {} /\ c.fop = <<>>
      /\ c.op = "SUB" /\ c.sb = "S" /\ c.db = "0" /\ ~c.dec /\ c.cin = 0 /\ c.pushB = IF hw THEN 0 ELSE 1
  BY DEF ++, Idle, Down, OnStack, Address
<1>2. PCS(c) = pc
  BY <1>1 DEF PCS
<1>3. SB(c) = regs.S /\ regs.S \in Bytes /\ DB(c) = 0
  <2>1. regs.S \in Bytes
    BY StateTypes DEF RegNames
  <2>2. SB(c) = regs.S /\ DB(c) = 0
    BY <1>1 DEF SB, DB
  <2>3. QED
    BY <2>1, <2>2
<1>4. Alu(c).result = (regs.S + 255) % 256
  BY <1>1, <1>3, DownAre
<1>5. Next(c) = Word((regs.S + 255) % 256, 1)
  BY <1>1, <1>4 DEF ADL, ADH, Next
<1>6. regs' = [regs EXCEPT !.S = Alu(c).result] /\ p' = p
  BY <1>1, StackMoves
<1>7. QED
  BY <1>1, <1>2, <1>4, <1>5, <1>6 DEF Clocks, DOR

\* The vector is addressed.
LEMMA VectorIs ==
  ASSUME TypeOK, NEW c, NEW reset, Clocks(c, reset), c = Down ++ Address("VECTOR", "FF") ++ [intTake |-> TRUE, fop |-> <<"i", 1>>] ++ Idle
  PROVE  /\ pc' = pc /\ ab' = Word(vec, 255) /\ ~latch'.wr /\ ~c.end
         /\ regs' = [regs EXCEPT !.S = (regs.S + 255) % 256] /\ p' = [p EXCEPT !.i = 1]
<1>1. /\ ~c.inc /\ ~c.load /\ c.adl = "VECTOR" /\ c.adh = "FF" /\ ~c.write
      /\ ~c.end /\ c.dst = "S" /\ ~c.pLoad /\ c.flags = {} /\ c.fop = <<"i", 1>>
      /\ c.op = "SUB" /\ c.sb = "S" /\ c.db = "0" /\ ~c.dec /\ c.cin = 0
  BY DEF ++, Idle, Down, Address
<1>2. PCS(c) = pc
  BY <1>1 DEF PCS
<1>3. SB(c) = regs.S /\ regs.S \in Bytes /\ DB(c) = 0
  <2>1. regs.S \in Bytes
    BY StateTypes DEF RegNames
  <2>2. SB(c) = regs.S /\ DB(c) = 0
    BY <1>1 DEF SB, DB
  <2>3. QED
    BY <2>1, <2>2
<1>4. Alu(c).result = (regs.S + 255) % 256
  BY <1>1, <1>3, DownAre
<1>5. Next(c) = Word(vec, 255)
  BY <1>1 DEF ADL, ADH, Next
<1>6. regs' = [regs EXCEPT !.S = Alu(c).result] /\ p' = [p EXCEPT !.i = 1]
  <2>1. DOMAIN regs = RegNames /\ "S" \in RegNames
    BY StateTypes DEF RegNames
  <2>2. regs' = IF c.dst \in DOMAIN regs THEN [regs EXCEPT ![c.dst] = Alu(c).result] ELSE regs
    BY DEF Clocks
  <2>3. p' = Status(p, Alu(c), data, c.pLoad, c.flags, c.fop)
    BY DEF Clocks
  <2>4. Status(p, Alu(c), data, c.pLoad, c.flags, c.fop) = Status(p, Alu(c), data, FALSE, {}, <<"i", 1>>)
    BY <1>1 DEF Status
  <2>5. Status(p, Alu(c), data, FALSE, {}, <<"i", 1>>) = [p EXCEPT !.i = 1]
    BY StateTypes, StatusKept
  <2>6. QED
    BY <1>1, <2>1, <2>2, <2>3, <2>4, <2>5
<1>7. QED
  BY <1>1, <1>2, <1>4, <1>5, <1>6 DEF Clocks

\* A push of A or P.
LEMMA PushIs ==
  ASSUME TypeOK, NEW c, NEW reset, Clocks(c, reset), c = Stack ++ Write(instr.store) ++ [pushB |-> 1] ++ Idle
  PROVE  /\ pc' = pc /\ ab' = Word(regs.S, 1) /\ latch'.wr /\ ~c.end /\ ~c.intTake
         /\ instr.store \in {"A", "P"} => latch'.dor = IF instr.store = "P" THEN Pack(p, 1) ELSE regs.A
         /\ regs' = regs /\ p' = p
<1>1. /\ ~c.inc /\ ~c.load /\ c.adl = "S" /\ c.adh = "STACK" /\ c.write /\ c.dor = instr.store /\ c.pushB = 1
      /\ ~c.intTake /\ ~c.end /\ c.dst = "none" /\ ~c.pLoad /\ c.flags = {} /\ c.fop = <<>>
  BY DEF ++, Idle, Stack, Address, Write
<1>2. PCS(c) = pc
  BY <1>1 DEF PCS
<1>3. Next(c) = Word(regs.S, 1)
  BY <1>1 DEF ADL, ADH, Next
<1>4. regs' = regs /\ p' = p
  BY <1>1, QuietKeeps DEF Quiet
<1>5. instr.store \in {"A", "P"} => DOR(c, Alu(c)) = IF instr.store = "P" THEN Pack(p, 1) ELSE regs.A
  BY <1>1 DEF DOR
<1>6. QED
  BY <1>1, <1>2, <1>3, <1>4, <1>5 DEF Clocks

-----------------------------------------------------------------------------
(* The control lines of each cycle *)

\* The lines of a step are over those of Idle.
LEMMA StepControl ==
  ASSUME ~fetch, timing.t \in DOMAIN Steps
  PROVE  Control = Steps[timing.t] ++ Idle
BY DEF Control

\* On cycle T of an instruction the lines are those of its T-th step.
LEMMA StepsControl ==
  ASSUME ~fetch
  PROVE  /\ \A a : Steps = One(a) =>
              /\ (timing.t = 1 => Control = a ++ Idle)
         /\ \A a, b : Steps = Two(a, b) =>
              /\ (timing.t = 1 => Control = a ++ Idle) /\ (timing.t = 2 => Control = b ++ Idle)
         /\ \A a, b, c : Steps = Three(a, b, c) =>
              /\ (timing.t = 1 => Control = a ++ Idle) /\ (timing.t = 2 => Control = b ++ Idle)
              /\ (timing.t = 3 => Control = c ++ Idle)
         /\ \A a, b, c, d : Steps = Four(a, b, c, d) =>
              /\ (timing.t = 1 => Control = a ++ Idle) /\ (timing.t = 2 => Control = b ++ Idle)
              /\ (timing.t = 3 => Control = c ++ Idle) /\ (timing.t = 4 => Control = d ++ Idle)
         /\ \A a, b, c, d, e : Steps = Five(a, b, c, d, e) =>
              /\ (timing.t = 1 => Control = a ++ Idle) /\ (timing.t = 2 => Control = b ++ Idle)
              /\ (timing.t = 3 => Control = c ++ Idle) /\ (timing.t = 4 => Control = d ++ Idle)
              /\ (timing.t = 5 => Control = e ++ Idle)
         /\ \A a, b, c, d, e, f : Steps = Six(a, b, c, d, e, f) =>
              /\ (timing.t = 1 => Control = a ++ Idle) /\ (timing.t = 2 => Control = b ++ Idle)
              /\ (timing.t = 3 => Control = c ++ Idle) /\ (timing.t = 4 => Control = d ++ Idle)
              /\ (timing.t = 5 => Control = e ++ Idle) /\ (timing.t = 6 => Control = f ++ Idle)
<1>1. ASSUME NEW a, Steps = One(a)
      PROVE  /\ timing.t = 1 => Control = a ++ Idle
  BY <1>1, TupleAt, StepControl
<1>2. ASSUME NEW a, NEW b, Steps = Two(a, b)
      PROVE  /\ timing.t = 1 => Control = a ++ Idle
             /\ timing.t = 2 => Control = b ++ Idle
  BY <1>2, TupleAt, StepControl
<1>3. ASSUME NEW a, NEW b, NEW c, Steps = Three(a, b, c)
      PROVE  /\ timing.t = 1 => Control = a ++ Idle
             /\ timing.t = 2 => Control = b ++ Idle
             /\ timing.t = 3 => Control = c ++ Idle
  BY <1>3, TupleAt, StepControl
<1>4. ASSUME NEW a, NEW b, NEW c, NEW d, Steps = Four(a, b, c, d)
      PROVE  /\ timing.t = 1 => Control = a ++ Idle
             /\ timing.t = 2 => Control = b ++ Idle
             /\ timing.t = 3 => Control = c ++ Idle
             /\ timing.t = 4 => Control = d ++ Idle
  BY <1>4, TupleAt, StepControl
<1>5. ASSUME NEW a, NEW b, NEW c, NEW d, NEW e, Steps = Five(a, b, c, d, e)
      PROVE  /\ timing.t = 1 => Control = a ++ Idle
             /\ timing.t = 2 => Control = b ++ Idle
             /\ timing.t = 3 => Control = c ++ Idle
             /\ timing.t = 4 => Control = d ++ Idle
             /\ timing.t = 5 => Control = e ++ Idle
  BY <1>5, TupleAt, StepControl
<1>6. ASSUME NEW a, NEW b, NEW c, NEW d, NEW e, NEW f, Steps = Six(a, b, c, d, e, f)
      PROVE  /\ timing.t = 1 => Control = a ++ Idle
             /\ timing.t = 2 => Control = b ++ Idle
             /\ timing.t = 3 => Control = c ++ Idle
             /\ timing.t = 4 => Control = d ++ Idle
             /\ timing.t = 5 => Control = e ++ Idle
             /\ timing.t = 6 => Control = f ++ Idle
  BY <1>6, TupleAt, StepControl
<1>7. QED
  BY <1>1, <1>2, <1>3, <1>4, <1>5, <1>6

\* The lines of an implied instruction.
LEMMA ImpliedControl ==
  ASSUME instr.mode = "IMP", ~fetch
  PROVE  /\ timing.t = 1 => Control = Exec ++ End ++ Idle
<1>1. Steps = One(Exec ++ End)
  BY DEF Steps, MemoryModes, One
<1>2. QED
  BY <1>1, StepsControl

\* The lines of an immediate operand.
LEMMA ImmediateControl ==
  ASSUME instr.mode = "IMM", ~fetch
  PROVE  /\ timing.t = 1 => Control = Exec ++ End ++ [inc |-> TRUE] ++ Idle
<1>1. Steps = One(Exec ++ End ++ [inc |-> TRUE])
  BY DEF Steps, MemoryModes, One
<1>2. QED
  BY <1>1, StepsControl

\* The lines of a jump.
LEMMA JumpControl ==
  ASSUME instr.mode = "JMP_ABS", ~fetch
  PROVE  /\ timing.t = 1 => Control = Operand ++ Idle
         /\ timing.t = 2 => Control = Jump ++ End ++ Idle
<1>1. Steps = Two(Operand, Jump ++ End)
  BY DEF Steps, MemoryModes, Two
<1>2. QED
  BY <1>1, StepsControl

\* The lines of an indirect jump.
LEMMA IndirectControl ==
  ASSUME instr.mode = "JMP_IND", ~fetch
  PROVE  /\ timing.t = 1 => Control = Operand ++ Idle
         /\ timing.t = 2 => Control = Address("DL", "DATA") ++ Idle
         /\ timing.t = 3 => Control = [dlLoad |-> TRUE] ++ OneOn ++ Address("ALU", "ABH") ++ Idle
         /\ timing.t = 4 => Control = Jump ++ End ++ Idle
<1>1. Steps = Four(Operand, Address("DL", "DATA"), [dlLoad |-> TRUE] ++ OneOn ++ Address("ALU", "ABH"),
                   Jump ++ End)
  BY DEF Steps, MemoryModes, Four
<1>2. QED
  BY <1>1, StepsControl

\* The lines of JSR.
LEMMA CallControl ==
  ASSUME instr.mode = "JSR_ABS", ~fetch
  PROVE  /\ timing.t = 1 => Control = Operand ++ Stack ++ Idle
         /\ timing.t = 2 => Control = Hold ++ Write("PCH") ++ Idle
         /\ timing.t = 3 => Control = Down ++ OnStack ++ Write("PCL") ++ Idle
         /\ timing.t = 4 => Control = Down ++ Idle
         /\ timing.t = 5 => Control = Jump ++ End ++ Idle
<1>1. Steps = Five(Operand ++ Stack, Hold ++ Write("PCH"), Down ++ OnStack ++ Write("PCL"), Down,
                   Jump ++ End)
  BY DEF Steps, MemoryModes, Five
<1>2. QED
  BY <1>1, StepsControl

\* The lines of RTS.
LEMMA ReturnControl ==
  ASSUME instr.mode = "RTS_IMP", ~fetch
  PROVE  /\ timing.t = 1 => Control = Stack ++ Idle
         /\ timing.t = 2 => Control = Up ++ OnStack ++ Idle
         /\ timing.t = 3 => Control = [dlLoad |-> TRUE] ++ Up ++ OnStack ++ Idle
         /\ timing.t = 4 => Control = Jump ++ Idle
         /\ timing.t = 5 => Control = [inc |-> TRUE] ++ End ++ Idle
<1>1. Steps = Five(Stack, Up ++ OnStack, [dlLoad |-> TRUE] ++ Up ++ OnStack, Jump, [inc |-> TRUE] ++ End)
  BY DEF Steps, MemoryModes, Five
<1>2. QED
  BY <1>1, StepsControl

\* The lines of RTI.
LEMMA ReturnFromInterruptControl ==
  ASSUME instr.mode = "RTI_IMP", ~fetch
  PROVE  /\ timing.t = 1 => Control = Stack ++ Idle
         /\ timing.t = 2 => Control = Up ++ OnStack ++ Idle
         /\ timing.t = 3 => Control = [pLoad |-> TRUE] ++ Up ++ OnStack ++ Idle
         /\ timing.t = 4 => Control = [dlLoad |-> TRUE] ++ Up ++ OnStack ++ Idle
         /\ timing.t = 5 => Control = Jump ++ End ++ Idle
<1>1. Steps = Five(Stack, Up ++ OnStack, [pLoad |-> TRUE] ++ Up ++ OnStack,
                   [dlLoad |-> TRUE] ++ Up ++ OnStack, Jump ++ End)
  BY DEF Steps, MemoryModes, Five
<1>2. QED
  BY <1>1, StepsControl

\* The lines of a push.
LEMMA PushControl ==
  ASSUME instr.mode = "PUSH", ~fetch
  PROVE  /\ timing.t = 1 => Control = Stack ++ Write(instr.store) ++ [pushB |-> 1] ++ Idle
         /\ timing.t = 2 => Control = Down ++ End ++ Idle
<1>1. Steps = Two(Stack ++ Write(instr.store) ++ [pushB |-> 1], Down ++ End)
  BY DEF Steps, MemoryModes, Two
<1>2. QED
  BY <1>1, StepsControl

\* The lines of a pull.
LEMMA PullControl ==
  ASSUME instr.mode = "PULL", ~fetch
  PROVE  /\ timing.t = 1 => Control = Stack ++ Idle
         /\ timing.t = 2 => Control = Up ++ OnStack ++ Idle
         /\ timing.t = 3 => Control = Exec ++ End ++ Idle
<1>1. Steps = Three(Stack, Up ++ OnStack, Exec ++ End)
  BY DEF Steps, MemoryModes, Three
<1>2. QED
  BY <1>1, StepsControl

\* The lines of a branch.
LEMMA BranchControl ==
  ASSUME instr.mode = "REL", ~fetch
  PROVE  /\ timing.t = 1 => Control = Operand ++ [end |-> ~Taken(instr.cond, p)] ++ Idle
         /\ timing.t = 2 => Control = Add("PCL") ++ Address("ALU", "PC") ++ [load |-> TRUE, acrLoad |-> TRUE, acrBranch |-> TRUE] ++ Idle
         /\ timing.t = 3 => Control = Address("PC", "ALU") ++ [load |-> TRUE, sb |-> "PCH", op |-> IF timing.adir = 1 THEN "SUB" ELSE "ADD",
                                       cin |-> IF timing.adir = 1 THEN 0 ELSE 1] ++ End ++ Idle
<1>1. Steps = Three(Operand ++ [end |-> ~Taken(instr.cond, p)],
                    Add("PCL") ++ Address("ALU", "PC") ++ [load |-> TRUE, acrLoad |-> TRUE, acrBranch |-> TRUE],
                    Address("PC", "ALU") ++ [load |-> TRUE, sb |-> "PCH", op |-> IF timing.adir = 1 THEN "SUB" ELSE "ADD", cin |-> IF timing.adir = 1 THEN 0 ELSE 1] ++ End)
  BY DEF Steps, MemoryModes, BranchSteps, Three
<1>2. QED
  BY <1>1, StepsControl

\* The lines of BRK and the interrupts.
LEMMA EnterControl ==
  ASSUME instr.mode = "BRK_IMP", ~fetch
  PROVE  /\ timing.t = 1 => Control = [inc |-> ~hw] ++ Stack ++ [write |-> ~resetting, dor |-> "PCH"] ++ Idle
         /\ timing.t = 2 => Control = Down ++ OnStack ++ [write |-> ~resetting, dor |-> "PCL"] ++ Idle
         /\ timing.t = 3 => Control = Down ++ OnStack ++ [write |-> ~resetting, dor |-> "P"] ++ [pushB |-> IF hw THEN 0 ELSE 1] ++ Idle
         /\ timing.t = 4 => Control = Down ++ Address("VECTOR", "FF") ++ [intTake |-> TRUE, fop |-> <<"i", 1>>] ++ Idle
         /\ timing.t = 5 => Control = [dlLoad |-> TRUE] ++ OneOn ++ Address("ALU", "ABH") ++ Idle
         /\ timing.t = 6 => Control = Jump ++ End ++ Idle
<1>1. Steps = Six([inc |-> ~hw] ++ Stack ++ [write |-> ~resetting, dor |-> "PCH"],
                  Down ++ OnStack ++ [write |-> ~resetting, dor |-> "PCL"],
                  Down ++ OnStack ++ [write |-> ~resetting, dor |-> "P"] ++ [pushB |-> IF hw THEN 0 ELSE 1],
                  Down ++ Address("VECTOR", "FF") ++ [intTake |-> TRUE, fop |-> <<"i", 1>>],
                  [dlLoad |-> TRUE] ++ OneOn ++ Address("ALU", "ABH"), Jump ++ End)
  BY DEF Steps, MemoryModes, InterruptSteps, Six
<1>2. QED
  BY <1>1, StepsControl

\* The steps of an access.
LEMMA AccessingIs ==
  /\ instr.access = "READ" => Accessing = One(Exec ++ End)
  /\ instr.access = "WRITE" => Accessing = One(End)
  /\ instr.access = "RMW" => Accessing = Three([dlLoad |-> TRUE] ++ Write("DATA") ++ Hold, Exec ++ Write("ALU") ++ Hold, End)
<1>1. instr.access = "READ" => Accessing = <<Exec ++ End>>
  BY DEF Accessing
<1>2. instr.access = "WRITE" => Accessing = <<End>>
  BY DEF Accessing
<1>3. instr.access = "RMW" => Accessing = <<[dlLoad |-> TRUE] ++ Write("DATA") ++ Hold, Exec ++ Write("ALU") ++ Hold, End>>
  BY DEF Accessing
<1>4. QED
  BY <1>1, <1>2, <1>3 DEF One, Three

\* Each of them.
LEMMA AccessingAt ==
  ASSUME instr.access \in {"READ", "WRITE", "RMW"}
  PROVE  /\ IsSeq(Accessing) /\ 1 \in 1..Len(Accessing)
         /\ instr.access = "READ" => Accessing[1] = Exec ++ End
         /\ instr.access = "WRITE" => Accessing[1] = End
         /\ instr.access = "RMW" => /\ 2 \in 1..Len(Accessing) /\ 3 \in 1..Len(Accessing)
                                    /\ Accessing[1] = [dlLoad |-> TRUE] ++ Write("DATA") ++ Hold
                                    /\ Accessing[2] = Exec ++ Write("ALU") ++ Hold /\ Accessing[3] = End
<1> DEFINE a == Exec ++ End
           b == [dlLoad |-> TRUE] ++ Write("DATA") ++ Hold
           c == Exec ++ Write("ALU") ++ Hold
<1>1. CASE instr.access = "READ"
  <2>1. Accessing = One(a)
    BY <1>1, AccessingIs
  <2> HIDE DEF a
  <2>2. IsSeq(Accessing) /\ Len(Accessing) = 1 /\ Accessing[1] = a
    BY <2>1, TupleAt
  <2>3. QED
    BY <1>1, <2>2 DEF a
<1>2. CASE instr.access = "WRITE"
  <2>1. Accessing = One(End)
    BY <1>2, AccessingIs
  <2>2. IsSeq(Accessing) /\ Len(Accessing) = 1 /\ Accessing[1] = End
    BY <2>1, TupleAt
  <2>3. QED
    BY <1>2, <2>2
<1>3. CASE instr.access = "RMW"
  <2>1. Accessing = Three(b, c, End)
    BY <1>3, AccessingIs
  <2> HIDE DEF b, c
  <2>2. IsSeq(Accessing) /\ Len(Accessing) = 3 /\ Accessing[1] = b /\ Accessing[2] = c /\ Accessing[3] = End
    BY <2>1, TupleAt
  <2>3. QED
    BY <1>3, <2>2 DEF b, c
<1>4. QED
  BY <1>1, <1>2, <1>3

\* The cycles of an operand in memory.
LEMMA MemoryControl ==
  ASSUME instr.mode \in MemoryModes, instr.access \in {"READ", "WRITE", "RMW"}, ~fetch,
         NEW n \in 1..4, n = Reach(instr, timing.acr)
  PROVE  /\ timing.t \in 1..n =>
              /\ timing.t = n /\ instr.access = "WRITE" => Control = Write(instr.store) ++ Addressing[timing.t] ++ Idle
              /\ ~(timing.t = n /\ instr.access = "WRITE") => Control = Addressing[timing.t] ++ Idle
         /\ timing.t = n + 1 =>
              /\ instr.access = "READ" => Control = Exec ++ End ++ Idle
              /\ instr.access = "WRITE" => Control = End ++ Idle
              /\ instr.access = "RMW" => Control = [dlLoad |-> TRUE] ++ Write("DATA") ++ Hold ++ Idle
         /\ timing.t = n + 2 /\ instr.access = "RMW" => Control = Exec ++ Write("ALU") ++ Hold ++ Idle
         /\ timing.t = n + 3 /\ instr.access = "RMW" => Control = End ++ Idle
<1> DEFINE a == Exec ++ End
           b == [dlLoad |-> TRUE] ++ Write("DATA") ++ Hold
           c == Exec ++ Write("ALU") ++ Hold
<1>1. Steps = MemorySteps
  BY DEF Steps, MemoryModes
<1>2. IsSeq(Accessing) /\ 1 \in 1..Len(Accessing)
  BY AccessingAt
<1>3. /\ instr.access = "READ" => Accessing[1] = a
      /\ instr.access = "WRITE" => Accessing[1] = End
      /\ instr.access = "RMW" => Accessing[1] = b /\ Accessing[2] = c /\ Accessing[3] = End
      /\ instr.access = "RMW" => 2 \in 1..Len(Accessing) /\ 3 \in 1..Len(Accessing)
  BY AccessingAt
<1>4. \A k \in 1..n : /\ k \in DOMAIN Steps
                      /\ Steps[k] = IF k = n /\ instr.access = "WRITE" THEN Write(instr.store) ++ Addressing[k]
                                    ELSE Addressing[k]
  BY <1>1, <1>2, MemoryStepsAre
<1>5. \A k \in 1..Len(Accessing) : n + k \in DOMAIN Steps /\ Steps[n + k] = Accessing[k]
  BY <1>1, <1>2, MemoryStepsAre
<1> HIDE DEF a, b, c
<1>6. ASSUME timing.t \in 1..n
      PROVE  /\ timing.t = n /\ instr.access = "WRITE" => Control = Write(instr.store) ++ Addressing[timing.t] ++ Idle
             /\ ~(timing.t = n /\ instr.access = "WRITE") => Control = Addressing[timing.t] ++ Idle
  BY <1>4, <1>6, StepControl
<1>7. ASSUME timing.t = n + 1
      PROVE  Control = Accessing[1] ++ Idle
  BY <1>2, <1>5, <1>7, StepControl
<1>8. ASSUME timing.t = n + 2, instr.access = "RMW"
      PROVE  Control = c ++ Idle
  BY <1>3, <1>5, <1>8, StepControl
<1>9. ASSUME timing.t = n + 3, instr.access = "RMW"
      PROVE  Control = End ++ Idle
  BY <1>3, <1>5, <1>9, StepControl
<1>10. QED
  BY <1>3, <1>6, <1>7, <1>8, <1>9 DEF a, b, c

-----------------------------------------------------------------------------
(* The control lines are of their types *)

\* Tuples of lines.
LEMMA LinesOfTuples ==
  /\ \A a : Line(a) => Lines(One(a))
  /\ \A a, b : Line(a) /\ Line(b) => Lines(Two(a, b))
  /\ \A a, b, c : Line(a) /\ Line(b) /\ Line(c) => Lines(Three(a, b, c))
  /\ \A a, b, c, d : Line(a) /\ Line(b) /\ Line(c) /\ Line(d) => Lines(Four(a, b, c, d))
  /\ \A a, b, c, d, e : Line(a) /\ Line(b) /\ Line(c) /\ Line(d) /\ Line(e) => Lines(Five(a, b, c, d, e))
  /\ \A a, b, c, d, e, f : Line(a) /\ Line(b) /\ Line(c) /\ Line(d) /\ Line(e) /\ Line(f) => Lines(Six(a, b, c, d, e, f))
BY LinesOf DEF One, Two, Three, Four, Five, Six

\* The lines of an operation.
LEMMA ExecLine == TypeOK => Line(Exec)
<1>1. SUFFICES ASSUME TypeOK PROVE Line(Exec)
  OBVIOUS
<1>2. Instr(instr)
  BY <1>1, InstrIs
<1>4. p.c \in Bin
  BY <1>1 DEF TypeOK, Statuses, FlagNames
<1>3. QED
  BY <1>2, <1>4 DEF Exec, Line, Fits, CtrlSets, Instr, Bin

\* The words that depend on the state.
LEMMA OtherWords ==
  ASSUME TypeOK
  PROVE  /\ Line(FixHigh) /\ Line(Indexed) /\ Line(Add(index))
         /\ Line(ZeroPage("DATA")) /\ Line(ZeroPage("ALU"))
         /\ Line([write |-> ~resetting, dor |-> "PCH"]) /\ Line([write |-> ~resetting, dor |-> "PCL"])
         /\ Line([write |-> ~resetting, dor |-> "P"])
         /\ Line([inc |-> ~hw]) /\ Line([inc |-> ~timing.pending]) /\ Line([end |-> ~Taken(instr.cond, p)])
         /\ Line([pushB |-> IF hw THEN 0 ELSE 1]) /\ Line([intTake |-> TRUE, fop |-> <<"i", 1>>])
         /\ Line([load |-> TRUE, acrLoad |-> TRUE, acrBranch |-> TRUE])
         /\ Line([load |-> TRUE, sb |-> "PCH", op |-> IF timing.adir = 1 THEN "SUB" ELSE "ADD",
                  cin |-> IF timing.adir = 1 THEN 0 ELSE 1])
<1>1. timing.acr \in Bin
  BY DEF TypeOK
<1>2. Line(FixHigh)
  BY <1>1 DEF FixHigh, Line, Fits, CtrlSets
<1>3. Line(Add(index))
  BY WordsOfControl DEF index
<1>4. Line(ZeroPage("DATA")) /\ Line(ZeroPage("ALU"))
  BY WordsOfControl DEF ZeroPage
<1>5. Line(Indexed)
  <2>1. Line(Address("ALU", "DATA")) /\ Line([acrLoad |-> TRUE])
    BY WordsOfControl
  <2>2. QED
    BY <1>3, <2>1, BothLines DEF Indexed
<1>6. /\ Line([write |-> ~resetting, dor |-> "PCH"]) /\ Line([write |-> ~resetting, dor |-> "PCL"])
      /\ Line([write |-> ~resetting, dor |-> "P"])
      /\ Line([inc |-> ~hw]) /\ Line([inc |-> ~timing.pending]) /\ Line([end |-> ~Taken(instr.cond, p)])
  BY DEF Line, Fits, CtrlSets
<1>7. /\ Line([pushB |-> IF hw THEN 0 ELSE 1]) /\ Line([intTake |-> TRUE, fop |-> <<"i", 1>>])
      /\ Line([load |-> TRUE, acrLoad |-> TRUE, acrBranch |-> TRUE])
      /\ Line([load |-> TRUE, sb |-> "PCH", op |-> IF timing.adir = 1 THEN "SUB" ELSE "ADD",
                  cin |-> IF timing.adir = 1 THEN 0 ELSE 1])
  BY DEF Line, Fits, CtrlSets, Fops, Bin, Ops
<1>8. QED
  BY <1>2, <1>3, <1>4, <1>5, <1>6, <1>7

\* Those of an implied instruction.
LEMMA ImpliedLines ==
  ASSUME TypeOK, instr.mode = "IMP"
  PROVE  Lines(Steps)
<1> DEFINE w1 == Exec ++ End
<1>1. Steps = One(w1)
  BY DEF Steps, MemoryModes, One
<1>2. Line(Exec)
  BY ExecLine
<1>3. Line(End)
  BY WordsOfControl
<1>4. Line(w1)
  BY <1>2, <1>3, BothLines
<1> HIDE DEF w1
<1>5. QED
  BY <1>1, <1>4, LinesOfTuples

\* Those of an immediate operand.
LEMMA ImmediateLines ==
  ASSUME TypeOK, instr.mode = "IMM"
  PROVE  Lines(Steps)
<1> DEFINE w1 == Exec ++ End ++ [inc |-> TRUE]
<1>1. Steps = One(w1)
  BY DEF Steps, MemoryModes, One
<1>2. Line(Exec)
  BY ExecLine
<1>3. /\ Line(End) /\ Line([inc |-> TRUE])
  BY WordsOfControl
<1>4. Line(w1)
  BY <1>2, <1>3, BothLines
<1> HIDE DEF w1
<1>5. QED
  BY <1>1, <1>4, LinesOfTuples

\* Those of a jump.
LEMMA JumpLines ==
  ASSUME TypeOK, instr.mode = "JMP_ABS"
  PROVE  Lines(Steps)
<1> DEFINE w1 == Operand
           w2 == Jump ++ End
<1>1. Steps = Two(w1, w2)
  BY DEF Steps, MemoryModes, Two
<1>2. /\ Line(Operand) /\ Line(Jump) /\ Line(End)
  BY WordsOfControl
<1>3. Line(w1) /\ Line(w2)
  BY <1>2, BothLines
<1> HIDE DEF w1, w2
<1>4. QED
  BY <1>1, <1>3, LinesOfTuples

\* Those of an indirect jump.
LEMMA IndirectLines ==
  ASSUME TypeOK, instr.mode = "JMP_IND"
  PROVE  Lines(Steps)
<1> DEFINE w1 == Operand
           w2 == Address("DL", "DATA")
           w3 == [dlLoad |-> TRUE] ++ OneOn ++ Address("ALU", "ABH")
           w4 == Jump ++ End
<1>1. Steps = Four(w1, w2, w3, w4)
  BY DEF Steps, MemoryModes, Four
<1>2. /\ Line(Operand) /\ Line(Address("DL", "DATA")) /\ Line([dlLoad |-> TRUE]) /\ Line(OneOn)
      /\ Line(Address("ALU", "ABH")) /\ Line(Jump) /\ Line(End)
  BY WordsOfControl
<1>3. Line(w1) /\ Line(w2) /\ Line(w3) /\ Line(w4)
  BY <1>2, BothLines
<1> HIDE DEF w1, w2, w3, w4
<1>4. QED
  BY <1>1, <1>3, LinesOfTuples

\* Those of JSR.
LEMMA CallLines ==
  ASSUME TypeOK, instr.mode = "JSR_ABS"
  PROVE  Lines(Steps)
<1> DEFINE w1 == Operand ++ Stack
           w2 == Hold ++ Write("PCH")
           w3 == Down ++ OnStack ++ Write("PCL")
           w4 == Down
           w5 == Jump ++ End
<1>1. Steps = Five(w1, w2, w3, w4, w5)
  BY DEF Steps, MemoryModes, Five
<1>2. /\ Line(Operand) /\ Line(Stack) /\ Line(Hold) /\ Line(Write("PCH")) /\ Line(Down)
      /\ Line(OnStack) /\ Line(Write("PCL")) /\ Line(Jump) /\ Line(End)
  BY WordsOfControl
<1>3. Line(w1) /\ Line(w2) /\ Line(w3) /\ Line(w4) /\ Line(w5)
  BY <1>2, BothLines
<1> HIDE DEF w1, w2, w3, w4, w5
<1>4. QED
  BY <1>1, <1>3, LinesOfTuples

\* Those of RTS.
LEMMA ReturnLines ==
  ASSUME TypeOK, instr.mode = "RTS_IMP"
  PROVE  Lines(Steps)
<1> DEFINE w1 == Stack
           w2 == Up ++ OnStack
           w3 == [dlLoad |-> TRUE] ++ Up ++ OnStack
           w4 == Jump
           w5 == [inc |-> TRUE] ++ End
<1>1. Steps = Five(w1, w2, w3, w4, w5)
  BY DEF Steps, MemoryModes, Five
<1>2. /\ Line(Stack) /\ Line(Up) /\ Line(OnStack) /\ Line([dlLoad |-> TRUE]) /\ Line(Jump)
      /\ Line([inc |-> TRUE]) /\ Line(End)
  BY WordsOfControl
<1>3. Line(w1) /\ Line(w2) /\ Line(w3) /\ Line(w4) /\ Line(w5)
  BY <1>2, BothLines
<1> HIDE DEF w1, w2, w3, w4, w5
<1>4. QED
  BY <1>1, <1>3, LinesOfTuples

\* Those of RTI.
LEMMA ReturnFromInterruptLines ==
  ASSUME TypeOK, instr.mode = "RTI_IMP"
  PROVE  Lines(Steps)
<1> DEFINE w1 == Stack
           w2 == Up ++ OnStack
           w3 == [pLoad |-> TRUE] ++ Up ++ OnStack
           w4 == [dlLoad |-> TRUE] ++ Up ++ OnStack
           w5 == Jump ++ End
<1>1. Steps = Five(w1, w2, w3, w4, w5)
  BY DEF Steps, MemoryModes, Five
<1>2. /\ Line(Stack) /\ Line(Up) /\ Line(OnStack) /\ Line([pLoad |-> TRUE])
      /\ Line([dlLoad |-> TRUE]) /\ Line(Jump) /\ Line(End)
  BY WordsOfControl
<1>3. Line(w1) /\ Line(w2) /\ Line(w3) /\ Line(w4) /\ Line(w5)
  BY <1>2, BothLines
<1> HIDE DEF w1, w2, w3, w4, w5
<1>4. QED
  BY <1>1, <1>3, LinesOfTuples

\* Those of a push.
LEMMA PushLines ==
  ASSUME TypeOK, instr.mode = "PUSH"
  PROVE  Lines(Steps)
<1> DEFINE w1 == Stack ++ Write(instr.store) ++ [pushB |-> 1]
           w2 == Down ++ End
<1>1. Steps = Two(w1, w2)
  BY DEF Steps, MemoryModes, Two
<1>8. instr.store \in {"A", "X", "Y", "P"}
  BY InstrIs DEF Instr
<1>2. /\ Line(Stack) /\ Line(Down) /\ Line(End)
  BY WordsOfControl
<1>3. Line(Write(instr.store))
  BY <1>8, WordsOfControl
<1>4. Line([pushB |-> 1])
  BY WordsOfControl DEF Bin
<1>5. Line(w1) /\ Line(w2)
  BY <1>2, <1>3, <1>4, BothLines
<1> HIDE DEF w1, w2
<1>6. QED
  BY <1>1, <1>5, LinesOfTuples

\* Those of a pull.
LEMMA PullLines ==
  ASSUME TypeOK, instr.mode = "PULL"
  PROVE  Lines(Steps)
<1> DEFINE w1 == Stack
           w2 == Up ++ OnStack
           w3 == Exec ++ End
<1>1. Steps = Three(w1, w2, w3)
  BY DEF Steps, MemoryModes, Three
<1>2. /\ Line(Stack) /\ Line(Up) /\ Line(OnStack) /\ Line(End)
  BY WordsOfControl
<1>3. Line(Exec)
  BY ExecLine
<1>4. Line(w1) /\ Line(w2) /\ Line(w3)
  BY <1>2, <1>3, BothLines
<1> HIDE DEF w1, w2, w3
<1>5. QED
  BY <1>1, <1>4, LinesOfTuples

\* Those of a branch.
LEMMA BranchLines ==
  ASSUME TypeOK, instr.mode = "REL"
  PROVE  Lines(Steps)
<1> DEFINE w1 == Operand ++ [end |-> ~Taken(instr.cond, p)]
           w2 == Add("PCL") ++ Address("ALU", "PC") ++ [load |-> TRUE, acrLoad |-> TRUE, acrBranch |-> TRUE]
           w3 == Address("PC", "ALU") ++ [load |-> TRUE, sb |-> "PCH", op |-> IF timing.adir = 1 THEN "SUB" ELSE "ADD",
                                       cin |-> IF timing.adir = 1 THEN 0 ELSE 1] ++ End
<1>1. Steps = Three(w1, w2, w3)
  BY DEF Steps, MemoryModes, BranchSteps, Three
<1>2. /\ Line(Operand) /\ Line(Add("PCL")) /\ Line(Address("ALU", "PC"))
      /\ Line(Address("PC", "ALU")) /\ Line(End)
  BY WordsOfControl
<1>3. /\ Line([end |-> ~Taken(instr.cond, p)])
      /\ Line([load |-> TRUE, acrLoad |-> TRUE, acrBranch |-> TRUE])
      /\ Line([load |-> TRUE, sb |-> "PCH", op |-> IF timing.adir = 1 THEN "SUB" ELSE "ADD",
                                       cin |-> IF timing.adir = 1 THEN 0 ELSE 1])
  BY OtherWords
<1>4. Line(w1) /\ Line(w2) /\ Line(w3)
  BY <1>2, <1>3, BothLines
<1> HIDE DEF w1, w2, w3
<1>5. QED
  BY <1>1, <1>4, LinesOfTuples

\* Those of BRK and the interrupts.
LEMMA EnterLines ==
  ASSUME TypeOK, instr.mode = "BRK_IMP"
  PROVE  Lines(Steps)
<1> DEFINE w1 == [inc |-> ~hw] ++ Stack ++ [write |-> ~resetting, dor |-> "PCH"]
           w2 == Down ++ OnStack ++ [write |-> ~resetting, dor |-> "PCL"]
           w3 == Down ++ OnStack ++ [write |-> ~resetting, dor |-> "P"] ++ [pushB |-> IF hw THEN 0 ELSE 1]
           w4 == Down ++ Address("VECTOR", "FF") ++ [intTake |-> TRUE, fop |-> <<"i", 1>>]
           w5 == [dlLoad |-> TRUE] ++ OneOn ++ Address("ALU", "ABH")
           w6 == Jump ++ End
<1>1. Steps = Six(w1, w2, w3, w4, w5, w6)
  BY DEF Steps, MemoryModes, InterruptSteps, Six
<1>2. /\ Line([inc |-> ~hw]) /\ Line([write |-> ~resetting, dor |-> "PCH"])
      /\ Line([write |-> ~resetting, dor |-> "PCL"])
      /\ Line([write |-> ~resetting, dor |-> "P"]) /\ Line([pushB |-> IF hw THEN 0 ELSE 1])
      /\ Line([intTake |-> TRUE, fop |-> <<"i", 1>>])
  BY OtherWords
<1>3. /\ Line(Stack) /\ Line(Down) /\ Line(OnStack) /\ Line(Address("VECTOR", "FF"))
      /\ Line([dlLoad |-> TRUE]) /\ Line(OneOn) /\ Line(Address("ALU", "ABH")) /\ Line(Jump)
      /\ Line(End)
  BY WordsOfControl
<1>4. Line(w1) /\ Line(w2) /\ Line(w3) /\ Line(w4) /\ Line(w5) /\ Line(w6)
  BY <1>2, <1>3, BothLines
<1> HIDE DEF w1, w2, w3, w4, w5, w6
<1>5. QED
  BY <1>1, <1>4, LinesOfTuples

\* The steps of an access.
LEMMA AccessingLines ==
  ASSUME TypeOK
  PROVE  Lines(Accessing) /\ IsSeq(Accessing)
<1> DEFINE a == Exec ++ End
           b == [dlLoad |-> TRUE] ++ Write("DATA") ++ Hold
           c == Exec ++ Write("ALU") ++ Hold
<1>1. instr.access \in {"READ", "WRITE", "RMW"}
  BY InstrIs DEF Instr
<1>2. Line(Exec)
  BY ExecLine
<1>3. Line(End) /\ Line(Hold) /\ Line([dlLoad |-> TRUE]) /\ Line(Write("DATA")) /\ Line(Write("ALU"))
  BY WordsOfControl
<1>4. Line(a) /\ Line(b) /\ Line(c)
  BY <1>2, <1>3, BothLines
<1>5. /\ instr.access = "READ" => Accessing = One(a)
      /\ instr.access = "WRITE" => Accessing = One(End)
      /\ instr.access = "RMW" => Accessing = Three(b, c, End)
  BY AccessingIs
<1> HIDE DEF a, b, c
<1>6. QED
  BY <1>1, <1>3, <1>4, <1>5, LinesOfTuples, AccessingAt

\* The steps of an address.
LEMMA AddressingLines ==
  ASSUME TypeOK, instr.mode \in MemoryModes
  PROVE  Lines(Addressing)
<1> DEFINE a == [inc |-> TRUE] ++ ZeroPage("DATA")
           b == Operand ++ ZeroPage("DATA")
           c == Add(index) ++ ZeroPage("ALU")
           d == [inc |-> TRUE] ++ Address("DL", "DATA")
           e == [inc |-> TRUE] ++ Indexed
           f == Add("X") ++ ZeroPage("ALU")
           g == [dlLoad |-> TRUE] ++ OneOn ++ ZeroPage("ALU")
           h == Address("DL", "DATA")
<1>1. /\ Line(Operand) /\ Line([inc |-> TRUE]) /\ Line([dlLoad |-> TRUE]) /\ Line(OneOn) /\ Line(h) /\ Line(Add("X"))
  BY WordsOfControl
<1>2. /\ Line(FixHigh) /\ Line(Indexed) /\ Line(Add(index)) /\ Line(ZeroPage("DATA")) /\ Line(ZeroPage("ALU"))
  BY OtherWords
<1>3. Line(a) /\ Line(b) /\ Line(c) /\ Line(d) /\ Line(e) /\ Line(f) /\ Line(g)
  BY <1>1, <1>2, BothLines
<1>4. /\ instr.mode = "ZP" => Addressing = One(a)
      /\ instr.mode \in {"ZPX", "ZPY"} => Addressing = Two(b, c)
      /\ instr.mode = "ABS" => Addressing = Two(Operand, d)
      /\ instr.mode \in {"ABX", "ABY"} /\ ~crossOrNotRead => Addressing = Two(Operand, e)
      /\ instr.mode \in {"ABX", "ABY"} /\ crossOrNotRead => Addressing = Three(Operand, e, FixHigh)
      /\ instr.mode = "IZX" => Addressing = Four(b, f, g, h)
      /\ instr.mode = "IZY" /\ ~crossOrNotRead => Addressing = Three(a, g, Indexed)
      /\ instr.mode = "IZY" /\ crossOrNotRead => Addressing = Four(a, g, Indexed, FixHigh)
  BY AddressingIs
<1> HIDE DEF a, b, c, d, e, f, g, h
<1>5. QED
  BY <1>1, <1>2, <1>3, <1>4, LinesOfTuples DEF MemoryModes

\* An operand in memory.
LEMMA MemoryLines ==
  ASSUME TypeOK, instr.mode \in MemoryModes
  PROVE  Lines(Steps)
<1> DEFINE n == Reach(instr, timing.acr)
<1>1. Steps = MemorySteps
  BY DEF Steps, MemoryModes
<1>2. Lines(Accessing) /\ IsSeq(Accessing) /\ Lines(Addressing)
  BY AccessingLines, AddressingLines
<1>3. Len(Addressing) = n /\ IsSeq(Addressing)
  BY ReachIs
<1>4. n \in 1..4
  BY DEF Reach, MemoryModes
<1>5. instr.store \in {"A", "X", "Y", "P"}
  BY InstrIs DEF Instr
<1>6. Line(Write(instr.store))
  BY <1>5, WordsOfControl
<1> HIDE DEF n
<1>7. DOMAIN Addressing = 1..n
  BY <1>3, <1>4, ChainIs
<1>8. DOMAIN Accessing = 1..Len(Accessing)
  BY <1>2, ChainIs
<1> SUFFICES ASSUME NEW k \in DOMAIN Steps PROVE Line(Steps[k])
  BY DEF Lines
<1>9. n = Reach(instr, timing.acr)
  BY DEF n
<1>10. CASE k \in 1..n
  <2>1. Line(Addressing[k])
    BY <1>2, <1>7, <1>10 DEF Lines
  <2>2. Steps[k] = IF k = n /\ instr.access = "WRITE" THEN Write(instr.store) ++ Addressing[k] ELSE Addressing[k]
    BY <1>1, <1>2, <1>4, <1>9, <1>10, MemoryStepsAre
  <2>3. QED
    BY <1>6, <2>1, <2>2, BothLines
<1>11. CASE k \notin 1..n
  <2>1. PICK j \in 1..Len(Accessing) : k = n + j
    BY <1>1, <1>2, <1>4, <1>9, <1>11, MemoryStepsAre
  <2>2. Steps[k] = Accessing[j]
    BY <1>1, <1>2, <1>4, <1>9, <2>1, MemoryStepsAre
  <2>3. QED
    BY <1>2, <1>8, <2>1, <2>2 DEF Lines
<1>12. QED
  BY <1>10, <1>11

\* On every cycle the lines are of their types.
LEMMA ControlLine ==
  ASSUME TypeOK
  PROVE  Line(Control) /\ DOMAIN CtrlSets \subseteq DOMAIN Control
<1>1. instr.mode \in Modes
  BY InstrIs DEF Instr
<1>2. Lines(Steps)
  BY <1>1, MemoryLines, ImpliedLines, ImmediateLines, JumpLines, IndirectLines, CallLines, ReturnLines, ReturnFromInterruptLines, PushLines, PullLines, BranchLines, EnterLines DEF Modes
<1>3. Line(Idle) /\ Line([inc |-> ~timing.pending])
  BY WordsOfControl, OtherWords
<1>4. /\ fetch => Control = [inc |-> ~timing.pending] ++ Idle
      /\ ~fetch /\ timing.t \in DOMAIN Steps => Control = Steps[timing.t] ++ Idle
      /\ ~fetch /\ timing.t \notin DOMAIN Steps => Control = Idle
  BY DEF Control
<1>5. Line(Control)
  <2>1. timing.t \in DOMAIN Steps => Line(Steps[timing.t])
    BY <1>2 DEF Lines
  <2>2. QED
    BY <1>3, <1>4, <2>1, BothLines
<1>6. DOMAIN CtrlSets \subseteq DOMAIN Idle
  BY DEF CtrlSets, Idle
<1>7. \A w : DOMAIN Idle \subseteq DOMAIN (w ++ Idle)
  BY MergeIs
<1>8. QED
  BY <1>4, <1>5, <1>6, <1>7

-----------------------------------------------------------------------------
(* Every step keeps the types *)

\* Lines of their types select values of theirs.
LEMMA LineTypes ==
  ASSUME TypeOK, NEW c, Line(c), DOMAIN CtrlSets \subseteq DOMAIN c
  PROVE  /\ SB(c) \in Bytes /\ DB(c) \in Bytes /\ Alu(c) \in Flagged
         /\ PCS(c) \in Words /\ Next(c) \in Words /\ DOR(c, Alu(c)) \in Bytes
         /\ c.dst \in {"none", "A", "X", "Y", "S", "P", "MEM"} /\ c.flags \in SUBSET FlagLines /\ c.fop \in Fops
<1>1. /\ c.adl \in {"PC", "DL", "DATA", "ALU", "S", "VECTOR", "ABL"}
      /\ c.adh \in {"PC", "DATA", "ALU", "ZERO", "STACK", "FF", "ABH"}
      /\ c.sb \in {"A", "X", "Y", "S", "DL", "PCL", "PCH", "ABL", "ABH", "0"}
      /\ c.db \in {"DATA", "DL", "0"} /\ c.op \in Ops /\ c.cin \in Bin
      /\ c.dst \in {"none", "A", "X", "Y", "S", "P", "MEM"}
      /\ c.dor \in {"A", "X", "Y", "P", "PCH", "PCL", "ALU", "DATA"} /\ c.pushB \in Bin
      /\ c.flags \in SUBSET FlagLines /\ c.fop \in Fops
  <2>1. \A x \in DOMAIN CtrlSets : c[x] \in CtrlSets[x]
    BY DEF Line, Fits
  <2>2. DOMAIN CtrlSets = {"adl", "adh", "sb", "db", "op", "cin", "dst", "dor", "pushB", "flags", "fop"}
    BY DEF CtrlSets
  <2>3. /\ CtrlSets.adl = {"PC", "DL", "DATA", "ALU", "S", "VECTOR", "ABL"}
        /\ CtrlSets.adh = {"PC", "DATA", "ALU", "ZERO", "STACK", "FF", "ABH"}
        /\ CtrlSets.sb = {"A", "X", "Y", "S", "DL", "PCL", "PCH", "ABL", "ABH", "0"}
        /\ CtrlSets.db = {"DATA", "DL", "0"} /\ CtrlSets.op = Ops /\ CtrlSets.cin = Bin
        /\ CtrlSets.dst = {"none", "A", "X", "Y", "S", "P", "MEM"}
        /\ CtrlSets.dor = {"A", "X", "Y", "P", "PCH", "PCL", "ALU", "DATA"} /\ CtrlSets.pushB = Bin
        /\ CtrlSets.flags = SUBSET FlagLines /\ CtrlSets.fop = Fops
    BY DEF CtrlSets
  <2>4. c.adl \in CtrlSets.adl /\ c.adh \in CtrlSets.adh /\ c.sb \in CtrlSets.sb /\ c.db \in CtrlSets.db
    BY <2>1, <2>2
  <2>5. c.op \in CtrlSets.op /\ c.cin \in CtrlSets.cin /\ c.dst \in CtrlSets.dst /\ c.dor \in CtrlSets.dor
    BY <2>1, <2>2
  <2>6. c.pushB \in CtrlSets.pushB /\ c.flags \in CtrlSets.flags /\ c.fop \in CtrlSets.fop
    BY <2>1, <2>2
  <2>7. QED
    BY <2>3, <2>4, <2>5, <2>6
<1>2. /\ pc \in Words /\ ab \in Words /\ latch.dl \in Bytes /\ regs \in [RegNames -> Bytes] /\ p \in Statuses
      /\ data \in Bytes /\ 0 \in Bytes /\ 1 \in Bytes /\ 255 \in Bytes
  BY DataType DEF TypeOK, Bytes
<1>3. /\ regs.A \in Bytes /\ regs.X \in Bytes /\ regs.Y \in Bytes /\ regs.S \in Bytes
      /\ Low(pc) \in Bytes /\ High(pc) \in Bytes /\ Low(ab) \in Bytes /\ High(ab) \in Bytes
  BY <1>2, WordParts DEF RegNames
<1>4. SB(c) \in Bytes
  BY <1>1, <1>2, <1>3 DEF SB
<1>5. DB(c) \in Bytes
  BY <1>1, <1>2 DEF DB
<1>6. Alu(c) \in Flagged
  BY <1>1, <1>4, <1>5, AluType DEF Alu
<1>7. Alu(c).result \in Bytes
  BY <1>6 DEF Flagged
<1>8. PCS(c) \in Words
  BY <1>2, Wraps, BytesAreWords DEF PCS
<1>9. Low(PCS(c)) \in Bytes /\ High(PCS(c)) \in Bytes
  BY <1>8, WordParts
<1>10. vec \in Bytes
  BY DEF vec, Bytes
<1>11. ADL(c, Alu(c)) \in Bytes
  BY <1>1, <1>2, <1>3, <1>7, <1>9, <1>10 DEF ADL
<1>12. ADH(c, Alu(c)) \in Bytes
  BY <1>1, <1>2, <1>3, <1>7, <1>9 DEF ADH
<1>13. Next(c) \in Words
  BY <1>11, <1>12, PartsWord DEF Next
<1>14. Pack(p, c.pushB) \in Bytes
  BY <1>1, <1>2, PackType
<1>15. DOR(c, Alu(c)) \in Bytes
  BY <1>1, <1>2, <1>3, <1>7, <1>9, <1>14 DEF DOR
<1>16. QED
  BY <1>1, <1>4, <1>5, <1>6, <1>8, <1>13, <1>15

\* And leave the blocks such values.
LEMMA ClockTypes ==
  ASSUME TypeOK, NEW c, Line(c), DOMAIN CtrlSets \subseteq DOMAIN c, NEW reset, Clocks(c, reset)
  PROVE  /\ timing'.t \in 0..7 /\ timing'.kind \in Kinds /\ timing'.acr \in Bin /\ timing'.adir \in Bin
         /\ \E op \in Bytes : instr' = Decoded[op]
         /\ pc' \in Words /\ ab' \in Words
         /\ latch'.dl \in Bytes /\ latch'.dor \in Bytes
         /\ regs' \in [RegNames -> Bytes] /\ p' \in Statuses
<1>1. /\ DB(c) \in Bytes /\ Alu(c) \in Flagged
      /\ PCS(c) \in Words /\ Next(c) \in Words /\ DOR(c, Alu(c)) \in Bytes
      /\ c.dst \in {"none", "A", "X", "Y", "S", "P", "MEM"} /\ c.flags \in SUBSET FlagLines /\ c.fop \in Fops
  BY LineTypes
<1>2. data \in Bytes /\ 0 \in Bytes
  BY DataType DEF Bytes
<1>3. timing'.t \in 0..7
  <2>1. timing'.t = IF reset \/ fetch THEN 1 ELSE IF c.end THEN 0 ELSE (timing.t + 1) % 8
    BY DEF Clocks
  <2>2. timing.t \in Int
    BY DEF TypeOK
  <2>3. (timing.t + 1) % 8 \in 0..7
    BY <2>2
  <2>4. QED
    BY <2>1, <2>3
<1>4. timing'.kind \in Kinds
  <2>1. timing'.kind = IF reset THEN "reset" ELSE IF ~fetch THEN timing.kind
                       ELSE IF ~timing.pending THEN "brk" ELSE IF timing.nmi_latch THEN "nmi" ELSE "irq"
    BY DEF Clocks
  <2>2. QED
    BY <2>1 DEF TypeOK, Kinds
<1>5. timing'.acr \in Bin /\ timing'.adir \in Bin
  <2>1. Alu(c).c \in Bin
    BY <1>1 DEF Flagged
  <2>2. Bit(DB(c), 7) \in Bin
    BY <1>1, BitType, BytesAreWords DEF Bytes
  <2>3. (Alu(c).c + Bit(DB(c), 7)) % 2 \in Bin
    BY <2>1, <2>2 DEF Bin
  <2>4. timing.acr \in Bin /\ timing.adir \in Bin /\ 0 \in Bin
    BY DEF TypeOK, Bin
  <2>5. /\ timing'.acr = IF ~c.acrLoad THEN timing.acr
                         ELSE IF c.acrBranch THEN (Alu(c).c + Bit(DB(c), 7)) % 2 ELSE Alu(c).c
        /\ timing'.adir = IF ~c.acrLoad THEN timing.adir ELSE IF c.acrBranch THEN Bit(DB(c), 7) ELSE 0
    BY DEF Clocks
  <2>6. QED
    BY <2>1, <2>2, <2>3, <2>4, <2>5
<1>6. \E op \in Bytes : instr' = Decoded[op]
  BY <1>2 DEF Clocks, TypeOK
<1>7. pc' \in Words /\ ab' \in Words
  BY <1>1 DEF Clocks
<1>8. latch'.dl \in Bytes /\ latch'.dor \in Bytes
  BY <1>1, <1>2 DEF Clocks, TypeOK
<1>9. regs' \in [RegNames -> Bytes]
  <2>1. regs \in [RegNames -> Bytes] /\ Alu(c).result \in Bytes
    BY <1>1 DEF TypeOK, Flagged
  <2>2. regs' = IF c.dst \in DOMAIN regs THEN [regs EXCEPT ![c.dst] = Alu(c).result] ELSE regs
    BY DEF Clocks
  <2>3. QED
    BY <2>1, <2>2
<1>10. p' \in Statuses
  <2>1. p' = Status(p, Alu(c), data, c.pLoad, c.flags, c.fop) /\ p \in Statuses
    BY DEF Clocks, TypeOK
  <2>2. QED
    BY <1>1, <1>2, <2>1, StatusType
<1>11. QED
  BY <1>3, <1>4, <1>5, <1>6, <1>7, <1>8, <1>9, <1>10

\* A bus cycle is one.
LEMMA BusCycleType == TypeOK => BusCycle \in BusCycles
BY DEF TypeOK, BusCycle, BusCycles

\* The core starts with its types.
LEMMA InitTypes == Init => TypeOK
<1>1. SUFFICES ASSUME Init PROVE TypeOK
  OBVIOUS
<1>2. 0 \in Bytes /\ 0 \in Words /\ 36 \in Bytes
  BY DEF Bytes, Words
<1>3. p \in Statuses
  BY <1>1, <1>2, UnpackType DEF Init
<1>4. regs \in [RegNames -> Bytes]
  BY <1>1, <1>2 DEF Init, RegNames
<1>5. IsMemory(mem)
  BY <1>1, MachineAssumption DEF Init, IsMemory
<1>6. bus \in Seq(BusCycles)
  BY <1>1 DEF Init
<1>7. outcome.pc = pc /\ outcome.regs = regs /\ outcome.p = p /\ outcome.mem = mem
  BY <1>1 DEF Init, Outcome
<1>8. timing.t \in 0..7 /\ timing.kind \in Kinds /\ timing.acr \in Bin /\ timing.adir \in Bin
  BY <1>1 DEF Init, Kinds, Bin
<1>9. pc \in Words /\ ab \in Words /\ latch.dl \in Bytes /\ latch.dor \in Bytes
  BY <1>1, <1>2 DEF Init
<1>10. \E op \in Bytes : instr = Decoded[op]
  BY <1>1, <1>2 DEF Init
<1>11. QED
  BY <1>3, <1>4, <1>5, <1>6, <1>7, <1>8, <1>9, <1>10 DEF TypeOK

\* What a step of the core is.
LEMMA TickIs ==
  ASSUME Tick
  PROVE  \E irq, nmi, reset \in BOOLEAN :
           /\ Cycle(irq, nmi, reset) /\ Memory
           /\ bus' = IF fetch THEN One(BusCycle) ELSE bus ## BusCycle
           /\ outcome' = IF fetch' THEN Outcome' ELSE outcome
<1>1. bus' = IF fetch THEN One(BusCycle) ELSE bus ## BusCycle
  BY DEF Tick, One, ##
<1>2. QED
  BY <1>1 DEF Tick

\* Each step keeps them.
LEMMA TickTypes == TypeOK /\ [Tick]_vars => TypeOK'
<1>1. ASSUME TypeOK, Tick
      PROVE  TypeOK'
  <2>1. PICK irq, nmi, reset \in BOOLEAN :
           /\ Cycle(irq, nmi, reset) /\ Memory
           /\ bus' = IF fetch THEN One(BusCycle) ELSE bus ## BusCycle
           /\ outcome' = IF fetch' THEN Outcome' ELSE outcome
    BY <1>1, TickIs
  <2>2. Clocks(Control, reset)
    BY <2>1, CycleClocks
  <2>3. Line(Control) /\ DOMAIN CtrlSets \subseteq DOMAIN Control
    BY <1>1, ControlLine
  <2>4. /\ timing'.t \in 0..7 /\ timing'.kind \in Kinds /\ timing'.acr \in Bin /\ timing'.adir \in Bin
        /\ \E op \in Bytes : instr' = Decoded[op]
        /\ pc' \in Words /\ ab' \in Words
        /\ latch'.dl \in Bytes /\ latch'.dor \in Bytes
        /\ regs' \in [RegNames -> Bytes] /\ p' \in Statuses
    BY <1>1, <2>2, <2>3, ClockTypes
  <2>5. IsMemory(mem')
    <3>1. IsMemory(mem) /\ ab \in Words /\ latch.dor \in Bytes
      BY <1>1 DEF TypeOK
    <3>2. IsMemory([addr \in {ab} |-> latch.dor] ++ mem)
      BY <3>1, WrittenMemory
    <3>3. mem' = IF rw THEN mem ELSE [addr \in {ab} |-> latch.dor] ++ mem
      BY <2>1 DEF Memory
    <3>4. QED
      BY <3>1, <3>2, <3>3
  <2>6. bus' \in Seq(BusCycles)
    <3>1. BusCycle \in BusCycles /\ bus \in Seq(BusCycles)
      BY <1>1, BusCycleType DEF TypeOK
    <3> DEFINE e == BusCycle
    <3>2. e \in BusCycles
      BY <3>1
    <3> HIDE DEF e
    <3>3. One(e) \in Seq(BusCycles) /\ bus ## e \in Seq(BusCycles)
      BY <3>1, <3>2 DEF One, ##
    <3>4. QED
      BY <2>1, <3>3 DEF e
  <2>7. /\ outcome'.pc \in Words /\ outcome'.regs \in [RegNames -> Bytes] /\ outcome'.p \in Statuses
        /\ IsMemory(outcome'.mem)
    <3>1. CASE fetch'
      <4>1. outcome' = Outcome'
        BY <2>1, <3>1
      <4>2. outcome'.pc = pc' /\ outcome'.regs = regs' /\ outcome'.p = p' /\ outcome'.mem = mem'
        BY <4>1 DEF Outcome
      <4>3. QED
        BY <2>4, <2>5, <4>2
    <3>2. CASE ~fetch'
      BY <1>1, <2>1, <3>2 DEF TypeOK
    <3>3. QED
      BY <3>1, <3>2
  <2>8. QED
    BY <2>4, <2>5, <2>6, <2>7 DEF TypeOK
<1>2. ASSUME TypeOK, UNCHANGED vars
      PROVE  TypeOK'
  BY <1>2 DEF TypeOK, vars, core
<1>3. QED
  BY <1>1, <1>2

\* The registers, latches, memory and bus cycles of the core, and what Isa6502
\* says of it, are of their types in every state.
THEOREM TypesHold == Spec => []TypeOK
BY InitTypes, TickTypes, PTL DEF Spec

-----------------------------------------------------------------------------
(* A cycle within an instruction                                            *)

\* What the instruction finds is of its types.
LEMMA OutcomeTypes ==
  ASSUME TypeOK
  PROVE  /\ \A a : B(outcome, a) \in Bytes
         /\ outcome.pc \in Words /\ Pc(outcome, 1) \in Words /\ Pc(outcome, 2) \in Words
         /\ outcome.regs \in [RegNames -> Bytes] /\ outcome.p \in Statuses
         /\ X(outcome, instr) \in Bytes
<1>1. IsMemory(outcome.mem)
  BY DEF TypeOK
<1>2. \A a : B(outcome, a) \in Bytes
  BY <1>1, ByteType DEF B
<1>3. outcome.pc \in Words /\ outcome.regs \in [RegNames -> Bytes] /\ outcome.p \in Statuses
  BY DEF TypeOK
<1>4. outcome.pc + 1 \in Int /\ outcome.pc + 2 \in Int
  BY <1>3 DEF Words
<1>5. Pc(outcome, 1) \in Words /\ Pc(outcome, 2) \in Words
  BY <1>4, Wraps DEF Pc
<1>6. X(outcome, instr) \in Bytes
  BY <1>3 DEF X, RegNames
<1>7. QED
  BY <1>2, <1>3, <1>5, <1>6

\* The addresses after the opcode.
LEMMA PcNext ==
  ASSUME TypeOK
  PROVE  /\ (outcome.pc + 1) % 65536 = Pc(outcome, 1) /\ Pc(outcome, 0) = outcome.pc
         /\ (Pc(outcome, 1) + 1) % 65536 = Pc(outcome, 2)
         /\ (Pc(outcome, 2) + 1) % 65536 = Pc(outcome, 3)
<1>1. outcome.pc \in Words
  BY DEF TypeOK
<1> DEFINE a == outcome.pc
<1>2. a \in Int /\ a \in Words /\ a + 1 \in Int /\ a + 2 \in Int
  BY <1>1 DEF Words
<1>3. (a + 0) % 65536 = a
  BY <1>2, Wraps
<1>4. (((a + 1) % 65536) + 1) % 65536 = ((a + 1) + 1) % 65536
  BY <1>2, WrapsTwice
<1>5. (((a + 2) % 65536) + 1) % 65536 = ((a + 2) + 1) % 65536
  BY <1>2, WrapsTwice
<1>6. (a + 1) + 1 = a + 2 /\ (a + 2) + 1 = a + 3
  BY <1>2
<1>7. QED
  BY <1>3, <1>4, <1>5, <1>6 DEF Pc

\* A read cycle.
LEMMA ReadCycle ==
  ASSUME Passes, NEW a, Reading(a)
  PROVE  bus' = bus ## Rd(a) /\ mem' = mem /\ data = ByteAt(mem, a)
BY DEF Passes, Reading, BusCycle, Rd, Memory, rw, data

\* A write cycle.
LEMMA WriteCycle ==
  ASSUME Passes, NEW a, NEW b, Writing(a, b)
  PROVE  bus' = bus ## Wr(a, b) /\ mem' = [x \in {a} |-> b] ++ mem
BY DEF Passes, Writing, BusCycle, Wr, Memory, rw

\* The time that follows.
LEMMA TimeGoes ==
  ASSUME TypeOK, NEW reset, ~reset, Clocks(Control, reset), Onward
  PROVE  /\ ~Control.end
         /\ \A k \in 1..6 : timing.t = k => timing'.t = k + 1
<1>1. timing'.t = IF reset \/ fetch THEN 1 ELSE IF Control.end THEN 0 ELSE (timing.t + 1) % 8
  BY DEF Clocks
<1>2. ~fetch /\ timing'.t # 0
  BY DEF Onward, Passes
<1>3. \A k \in 1..6 : (k + 1) % 8 = k + 1
  OBVIOUS
<1>4. QED
  BY <1>1, <1>2, <1>3

\* The rest of an access, from the cycle on that has the operand's address.
LEMMA AccessStep ==
  ASSUME TypeOK, NEW reset, ~reset, Clocks(Control, reset), Onward, instr.mode \in MemoryModes,
         NEW n \in 1..4, n = Reach(instr, timing.acr), timing.t > n, Accesses(n)
  PROVE  timing'.acr = timing.acr /\ timing'.t > n /\ Accesses(n)'
<1>1. instr.access \in {"READ", "WRITE", "RMW"}
  BY InstrIs DEF Instr
<1>2. ~fetch /\ outcome' = outcome /\ instr' = instr /\ Passes
  BY DEF Onward, Passes
<1>3. ~Control.end /\ \A k \in 1..6 : timing.t = k => timing'.t = k + 1
  BY TimeGoes
<1>4. timing.t <= n + 3 /\ timing.t \in 0..7
  BY DEF Accesses, TypeOK
<1>5. timing.t = n + 1 \/ timing.t = n + 2 \/ timing.t = n + 3
  BY <1>4
<1>6. CASE timing.t = n + 1
  <2>1. instr.access = "RMW"
    <3>1. instr.access = "READ" => Control = Exec ++ End ++ Idle
      BY <1>1, <1>2, <1>6, MemoryControl
    <3>2. instr.access = "WRITE" => Control = End ++ Idle
      BY <1>1, <1>2, <1>6, MemoryControl
    <3>3. instr.access # "READ"
      BY <1>3, <3>1, ExecEndIs
    <3>4. instr.access # "WRITE"
      BY <1>3, <3>2, EndIs
    <3>5. QED
      BY <1>1, <3>3, <3>4
  <2>2. Control = [dlLoad |-> TRUE] ++ Write("DATA") ++ Hold ++ Idle
    BY <1>1, <1>2, <1>6, <2>1, MemoryControl
  <2>3. /\ pc' = pc /\ latch'.dl = data /\ ab' = ab /\ latch'.dor = data
        /\ regs' = regs /\ p' = p /\ timing'.acr = timing.acr /\ latch'.wr
    BY <2>2, HoldIs
  <2>4. AtOperand
    BY <1>6 DEF Accesses
  <2>5. Reading(Ea(outcome, instr)) /\ Made(BusFound(outcome, instr), Size(instr)) /\ Kept
    BY <2>1, <2>4 DEF AtOperand
  <2>6. bus' = bus ## Rd(Ea(outcome, instr)) /\ mem' = mem /\ data = B(outcome, Ea(outcome, instr))
    BY <1>2, <2>5, ReadCycle DEF Kept, B
  <2>7. timing'.t = n + 2
    BY <1>3, <1>6
  <2>8. WritingBack'
    BY <1>2, <2>1, <2>3, <2>5, <2>6 DEF WritingBack, Made, Kept, Writing, Reading
  <2>9. QED
    BY <1>4, <2>3, <2>7, <2>8 DEF Accesses
<1>7. CASE timing.t = n + 2
  <2>1. WritingBack /\ instr.access = "RMW"
    BY <1>7 DEF Accesses, WritingBack
  <2>2. Control = Exec ++ Write("ALU") ++ Hold ++ Idle
    BY <1>1, <1>2, <1>7, <2>1, MemoryControl
  <2>3. /\ pc' = pc /\ ab' = ab /\ latch'.wr /\ latch'.dor = Alu(Control).result /\ Runs(Control)
        /\ timing'.acr = timing.acr
    BY <2>2, ExecWriteIs
  <2> DEFINE a == Ea(outcome, instr)
             b == B(outcome, a)
  <2>4. Writing(a, b) /\ latch.dl = b /\ Made(BusFound(outcome, instr) ## Rd(a), Size(instr)) /\ Kept
    BY <2>1 DEF WritingBack
  <2>5. bus' = bus ## Wr(a, b)
    BY <1>2, <2>4, WriteCycle
  <2>6. data = b
    BY <2>4 DEF Writing, Kept, B, data
  <2>7. /\ Alu(Control) = Op(b)
        /\ regs' = IF instr.dst \in RegNames THEN [regs EXCEPT ![instr.dst] = Alu(Control).result] ELSE regs
        /\ p' = Status(p, Alu(Control), data, instr.dst = "P", instr.flags, instr.fop)
    BY <2>3, <2>4, <2>6, RunsComputes DEF Op, Kept
  <2>8. instr.dst = "MEM"
    BY <2>1, InstrIs DEF Instr
  <2>9. regs' = outcome.regs
    BY <2>4, <2>7, <2>8 DEF Kept, RegNames
  <2>10. Status(p, Alu(Control), data, instr.dst = "P", instr.flags, instr.fop)
           = Status(outcome.p, Op(b), b, FALSE, instr.flags, instr.fop)
    BY <2>4, <2>6, <2>7, <2>8 DEF Kept, Status
  <2>11. timing'.t = n + 3
    BY <1>3, <1>7
  <2>12. WritingResult'
    <3>1. Op(b)' = Op(b)
      BY <1>2 DEF Op
    <3>2. QED
      BY <1>2, <2>1, <2>3, <2>4, <2>5, <2>7, <2>9, <2>10, <3>1 DEF WritingResult, Made, Writing
  <2>13. QED
    BY <2>3, <2>11, <2>12 DEF Accesses
<1>8. CASE timing.t = n + 3
  <2>1. WritingResult /\ instr.access = "RMW"
    BY <1>8 DEF Accesses, WritingResult
  <2>2. Control = End ++ Idle
    BY <1>1, <1>2, <1>8, <2>1, MemoryControl
  <2>3. QED
    BY <1>3, <2>2, EndIs
<1>9. QED
  BY <1>5, <1>6, <1>7, <1>8

-----------------------------------------------------------------------------
(* The cycles that find an operand in memory                                *)

\* The lines of an operand in page zero.
LEMMA ZeroPageControl ==
  ASSUME TypeOK, instr.mode = "ZP", ~fetch
  PROVE  /\ timing.t = 1 => /\ instr.access = "WRITE" => Control = Write(instr.store) ++ ([inc |-> TRUE] ++ ZeroPage("DATA")) ++ Idle
                            /\ instr.access # "WRITE" => Control = [inc |-> TRUE] ++ ZeroPage("DATA") ++ Idle
<1>1. instr.mode \in MemoryModes /\ instr.access \in {"READ", "WRITE", "RMW"}
  BY InstrIs DEF Instr, MemoryModes
<1>2. Reach(instr, timing.acr) = 1
  BY DEF Reach, MemoryModes
<1>3. Addressing = One([inc |-> TRUE] ++ ZeroPage("DATA"))
  BY AddressingIs
<1>4. /\ Addressing[1] = [inc |-> TRUE] ++ ZeroPage("DATA")
  BY <1>3, TupleAt
<1>5. timing.t \in 1..1 =>
        /\ timing.t = 1 /\ instr.access = "WRITE" => Control = Write(instr.store) ++ Addressing[timing.t] ++ Idle
        /\ ~(timing.t = 1 /\ instr.access = "WRITE") => Control = Addressing[timing.t] ++ Idle
  BY <1>1, <1>2, MemoryControl
<1>6. QED
  BY <1>4, <1>5

\* The lines of an indexed one in page zero.
LEMMA ZeroIndexedControl ==
  ASSUME TypeOK, instr.mode \in {"ZPX", "ZPY"}, ~fetch
  PROVE  /\ timing.t = 1 => Control = Operand ++ ZeroPage("DATA") ++ Idle
         /\ timing.t = 2 => /\ instr.access = "WRITE" => Control = Write(instr.store) ++ (Add(index) ++ ZeroPage("ALU")) ++ Idle
                            /\ instr.access # "WRITE" => Control = Add(index) ++ ZeroPage("ALU") ++ Idle
<1>1. instr.mode \in MemoryModes /\ instr.access \in {"READ", "WRITE", "RMW"}
  BY InstrIs DEF Instr, MemoryModes
<1>2. Reach(instr, timing.acr) = 2
  BY DEF Reach, MemoryModes
<1>3. Addressing = Two(Operand ++ ZeroPage("DATA"), Add(index) ++ ZeroPage("ALU"))
  BY AddressingIs
<1>4. /\ Addressing[1] = Operand ++ ZeroPage("DATA")
      /\ Addressing[2] = Add(index) ++ ZeroPage("ALU")
  BY <1>3, TupleAt
<1>5. timing.t \in 1..2 =>
        /\ timing.t = 2 /\ instr.access = "WRITE" => Control = Write(instr.store) ++ Addressing[timing.t] ++ Idle
        /\ ~(timing.t = 2 /\ instr.access = "WRITE") => Control = Addressing[timing.t] ++ Idle
  BY <1>1, <1>2, MemoryControl
<1>6. QED
  BY <1>4, <1>5

\* The lines of an absolute operand.
LEMMA AbsoluteControl ==
  ASSUME TypeOK, instr.mode = "ABS", ~fetch
  PROVE  /\ timing.t = 1 => Control = Operand ++ Idle
         /\ timing.t = 2 => /\ instr.access = "WRITE" => Control = Write(instr.store) ++ ([inc |-> TRUE] ++ Address("DL", "DATA")) ++ Idle
                            /\ instr.access # "WRITE" => Control = [inc |-> TRUE] ++ Address("DL", "DATA") ++ Idle
<1>1. instr.mode \in MemoryModes /\ instr.access \in {"READ", "WRITE", "RMW"}
  BY InstrIs DEF Instr, MemoryModes
<1>2. Reach(instr, timing.acr) = 2
  BY DEF Reach, MemoryModes
<1>3. Addressing = Two(Operand, [inc |-> TRUE] ++ Address("DL", "DATA"))
  BY AddressingIs
<1>4. /\ Addressing[1] = Operand
      /\ Addressing[2] = [inc |-> TRUE] ++ Address("DL", "DATA")
  BY <1>3, TupleAt
<1>5. timing.t \in 1..2 =>
        /\ timing.t = 2 /\ instr.access = "WRITE" => Control = Write(instr.store) ++ Addressing[timing.t] ++ Idle
        /\ ~(timing.t = 2 /\ instr.access = "WRITE") => Control = Addressing[timing.t] ++ Idle
  BY <1>1, <1>2, MemoryControl
<1>6. QED
  BY <1>4, <1>5

\* The lines of (zp,X).
LEMMA IndexedIndirectControl ==
  ASSUME TypeOK, instr.mode = "IZX", ~fetch
  PROVE  /\ timing.t = 1 => Control = Operand ++ ZeroPage("DATA") ++ Idle
         /\ timing.t = 2 => Control = Add("X") ++ ZeroPage("ALU") ++ Idle
         /\ timing.t = 3 => Control = [dlLoad |-> TRUE] ++ OneOn ++ ZeroPage("ALU") ++ Idle
         /\ timing.t = 4 => /\ instr.access = "WRITE" => Control = Write(instr.store) ++ (Address("DL", "DATA")) ++ Idle
                            /\ instr.access # "WRITE" => Control = Address("DL", "DATA") ++ Idle
<1>1. instr.mode \in MemoryModes /\ instr.access \in {"READ", "WRITE", "RMW"}
  BY InstrIs DEF Instr, MemoryModes
<1>2. Reach(instr, timing.acr) = 4
  BY DEF Reach, MemoryModes
<1>3. Addressing = Four(Operand ++ ZeroPage("DATA"), Add("X") ++ ZeroPage("ALU"), [dlLoad |-> TRUE] ++ OneOn ++ ZeroPage("ALU"), Address("DL", "DATA"))
  BY AddressingIs
<1>4. /\ Addressing[1] = Operand ++ ZeroPage("DATA")
      /\ Addressing[2] = Add("X") ++ ZeroPage("ALU")
      /\ Addressing[3] = [dlLoad |-> TRUE] ++ OneOn ++ ZeroPage("ALU")
      /\ Addressing[4] = Address("DL", "DATA")
  BY <1>3, TupleAt
<1>5. timing.t \in 1..4 =>
        /\ timing.t = 4 /\ instr.access = "WRITE" => Control = Write(instr.store) ++ Addressing[timing.t] ++ Idle
        /\ ~(timing.t = 4 /\ instr.access = "WRITE") => Control = Addressing[timing.t] ++ Idle
  BY <1>1, <1>2, MemoryControl
<1>6. QED
  BY <1>4, <1>5

\* The lines of an indexed absolute operand.
LEMMA AbsoluteIndexedControl ==
  ASSUME TypeOK, instr.mode \in {"ABX", "ABY"}, ~fetch
  PROVE  /\ timing.t = 1 => Control = Operand ++ Idle
         /\ timing.t = 2 => Control = [inc |-> TRUE] ++ Indexed ++ Idle
         /\ timing.t = 3 /\ crossOrNotRead => /\ instr.access = "WRITE" => Control = Write(instr.store) ++ FixHigh ++ Idle
                                              /\ instr.access # "WRITE" => Control = FixHigh ++ Idle
<1>1. instr.mode \in MemoryModes /\ instr.access \in {"READ", "WRITE", "RMW"}
  BY InstrIs DEF Instr, MemoryModes
<1>2. CASE ~crossOrNotRead
  <2>1. Reach(instr, timing.acr) = 2 /\ instr.access = "READ"
    BY <1>2 DEF Reach, MemoryModes, crossOrNotRead
  <2>2. Addressing = Two(Operand, [inc |-> TRUE] ++ Indexed)
    BY <1>2, AddressingIs
  <2>3. /\ Addressing[1] = Operand
        /\ Addressing[2] = [inc |-> TRUE] ++ Indexed
    BY <2>2, TupleAt
  <2>4. timing.t \in 1..2 => Control = Addressing[timing.t] ++ Idle
    BY <1>1, <2>1, MemoryControl
  <2>5. QED
    BY <1>2, <2>3, <2>4
<1>3. CASE crossOrNotRead
  <2>1. Reach(instr, timing.acr) = 3
    BY <1>3 DEF Reach, MemoryModes, crossOrNotRead
  <2>2. Addressing = Three(Operand, [inc |-> TRUE] ++ Indexed, FixHigh)
    BY <1>3, AddressingIs
  <2>3. /\ Addressing[1] = Operand
        /\ Addressing[2] = [inc |-> TRUE] ++ Indexed
        /\ Addressing[3] = FixHigh
    BY <2>2, TupleAt
  <2>4. timing.t \in 1..3 =>
          /\ timing.t = 3 /\ instr.access = "WRITE" => Control = Write(instr.store) ++ Addressing[timing.t] ++ Idle
          /\ ~(timing.t = 3 /\ instr.access = "WRITE") => Control = Addressing[timing.t] ++ Idle
    BY <1>1, <2>1, MemoryControl
  <2>5. QED
    BY <2>3, <2>4
<1>4. QED
  BY <1>2, <1>3

\* The lines of (zp),Y.
LEMMA IndirectIndexedControl ==
  ASSUME TypeOK, instr.mode = "IZY", ~fetch
  PROVE  /\ timing.t = 1 => Control = [inc |-> TRUE] ++ ZeroPage("DATA") ++ Idle
         /\ timing.t = 2 => Control = [dlLoad |-> TRUE] ++ OneOn ++ ZeroPage("ALU") ++ Idle
         /\ timing.t = 3 => Control = Indexed ++ Idle
         /\ timing.t = 4 /\ crossOrNotRead => /\ instr.access = "WRITE" => Control = Write(instr.store) ++ FixHigh ++ Idle
                                              /\ instr.access # "WRITE" => Control = FixHigh ++ Idle
<1>1. instr.mode \in MemoryModes /\ instr.access \in {"READ", "WRITE", "RMW"}
  BY InstrIs DEF Instr, MemoryModes
<1>2. CASE ~crossOrNotRead
  <2>1. Reach(instr, timing.acr) = 3 /\ instr.access = "READ"
    BY <1>2 DEF Reach, MemoryModes, crossOrNotRead
  <2>2. Addressing = Three([inc |-> TRUE] ++ ZeroPage("DATA"), [dlLoad |-> TRUE] ++ OneOn ++ ZeroPage("ALU"), Indexed)
    BY <1>2, AddressingIs
  <2>3. /\ Addressing[1] = [inc |-> TRUE] ++ ZeroPage("DATA")
        /\ Addressing[2] = [dlLoad |-> TRUE] ++ OneOn ++ ZeroPage("ALU")
        /\ Addressing[3] = Indexed
    BY <2>2, TupleAt
  <2>4. timing.t \in 1..3 => Control = Addressing[timing.t] ++ Idle
    BY <1>1, <2>1, MemoryControl
  <2>5. QED
    BY <1>2, <2>3, <2>4
<1>3. CASE crossOrNotRead
  <2>1. Reach(instr, timing.acr) = 4
    BY <1>3 DEF Reach, MemoryModes, crossOrNotRead
  <2>2. Addressing = Four([inc |-> TRUE] ++ ZeroPage("DATA"), [dlLoad |-> TRUE] ++ OneOn ++ ZeroPage("ALU"), Indexed, FixHigh)
    BY <1>3, AddressingIs
  <2>3. /\ Addressing[1] = [inc |-> TRUE] ++ ZeroPage("DATA")
        /\ Addressing[2] = [dlLoad |-> TRUE] ++ OneOn ++ ZeroPage("ALU")
        /\ Addressing[3] = Indexed
        /\ Addressing[4] = FixHigh
    BY <2>2, TupleAt
  <2>4. timing.t \in 1..4 =>
          /\ timing.t = 4 /\ instr.access = "WRITE" => Control = Write(instr.store) ++ Addressing[timing.t] ++ Idle
          /\ ~(timing.t = 4 /\ instr.access = "WRITE") => Control = Addressing[timing.t] ++ Idle
    BY <1>1, <2>1, MemoryControl
  <2>5. QED
    BY <2>3, <2>4
<1>4. QED
  BY <1>2, <1>3

\* The operand's address is reached.
LEMMA Arrives ==
  ASSUME Onward, bus' = BusFound(outcome, instr), pc' = Pc(outcome, Size(instr)), ab' = Ea(outcome, instr), Kept',
         instr.access = "WRITE" => latch'.wr /\ latch'.dor = outcome.regs[instr.store],
         instr.access # "WRITE" => ~latch'.wr
  PROVE  AtOperand'
<1>1. outcome' = outcome /\ instr' = instr
  BY DEF Onward
<1>2. Ea(outcome, instr)' = Ea(outcome, instr) /\ BusFound(outcome, instr)' = BusFound(outcome, instr)
  BY <1>1
<1>3. Size(instr)' = Size(instr) /\ Pc(outcome, Size(instr))' = Pc(outcome, Size(instr))
  BY <1>1
<1>4. QED
  BY <1>1, <1>2, <1>3 DEF AtOperand, Writing, Reading, Made

\* A read that keeps the registers.
LEMMA Fetched ==
  ASSUME Onward, NEW a, Reading(a), Kept, regs' = regs, p' = p
  PROVE  bus' = bus ## Rd(a) /\ data = B(outcome, a) /\ Kept'
<1>1. Passes /\ outcome' = outcome
  BY DEF Onward
<1>2. bus' = bus ## Rd(a) /\ mem' = mem /\ data = ByteAt(mem, a)
  BY <1>1, ReadCycle
<1>3. QED
  BY <1>1, <1>2 DEF Kept, B

\* The register stored is still what it was.
LEMMA StoresKept ==
  ASSUME TypeOK, Kept, instr.access = "WRITE"
  PROVE  instr.store \in {"A", "X", "Y"} /\ regs[instr.store] = outcome.regs[instr.store]
BY InstrIs DEF Instr, Kept

\* What a cycle within an instruction keeps.
LEMMA InCycle ==
  ASSUME Onward
  PROVE  ~fetch /\ outcome' = outcome /\ instr' = instr /\ timing'.kind = timing.kind /\ Passes
BY DEF Onward, Passes

\* Such a cycle is no opcode fetch.
LEMMA InInstruction ==
  ASSUME TypeOK, Onward
  PROVE  timing.t \in 0..7 /\ timing.t # 0
BY InCycle DEF TypeOK, fetch

\* The bytes after the opcode, and what they address.
LEMMA OperandFacts ==
  ASSUME TypeOK
  PROVE  /\ A1(outcome) \in Bytes /\ A2(outcome) \in Bytes /\ X(outcome, instr) \in Bytes
         /\ (Pc(outcome, 1) + 1) % 65536 = Pc(outcome, 2) /\ (Pc(outcome, 2) + 1) % 65536 = Pc(outcome, 3)
         /\ Word(A1(outcome), 0) = A1(outcome)
<1>1. A1(outcome) \in Bytes /\ A2(outcome) \in Bytes /\ X(outcome, instr) \in Bytes
  BY OutcomeTypes DEF A1, A2
<1>2. \A b \in Bytes : Word(b, 0) = b
  BY BytesAreWords
<1>3. Word(A1(outcome), 0) = A1(outcome)
  BY <1>1, <1>2
<1>4. (Pc(outcome, 1) + 1) % 65536 = Pc(outcome, 2) /\ (Pc(outcome, 2) + 1) % 65536 = Pc(outcome, 3)
  BY PcNext
<1>5. QED
  BY <1>1, <1>3, <1>4

\* Each cycle of an operand in page zero leads to the next.
LEMMA ZeroPageStep ==
  ASSUME TypeOK, NEW reset, ~reset, Clocks(Control, reset), Onward, instr.mode = "ZP", ZeroPagePhase
  PROVE  ZeroPagePhase'
<1>1. ~fetch /\ outcome' = outcome /\ instr' = instr /\ instr.mode \in MemoryModes
  BY DEF Onward, Passes, MemoryModes
<1>2. CASE timing.t = 1
  <2>1. Started
    BY <1>2 DEF ZeroPagePhase
  <2>2. /\ instr.access = "WRITE" => Control = Write(instr.store) ++ ([inc |-> TRUE] ++ ZeroPage("DATA")) ++ Idle
        /\ instr.access # "WRITE" => Control = [inc |-> TRUE] ++ ZeroPage("DATA") ++ Idle
    BY <1>1, <1>2, ZeroPageControl
  <2>3. /\ pc' = (pc + 1) % 65536 /\ ab' = Word(data, 0) /\ regs' = regs /\ p' = p
        /\ instr.access # "WRITE" => ~latch'.wr
        /\ instr.access = "WRITE" => latch'.wr /\ latch'.dor = outcome.regs[instr.store]
    <3>1. CASE instr.access = "WRITE"
      <4>1. Control = Write(instr.store) ++ ([inc |-> TRUE] ++ ZeroPage("DATA")) ++ Idle
        BY <2>2, <3>1
      <4>2. instr.store \in {"A", "X", "Y"} /\ regs[instr.store] = outcome.regs[instr.store]
        BY <2>1, <3>1, StoresKept DEF Started, HasLow, HasPage, Uncorrected
      <4>3. QED
        BY <3>1, <4>1, <4>2, ZeroPageIs
    <3>2. CASE instr.access # "WRITE"
      <4>1. Control = [inc |-> TRUE] ++ ZeroPage("DATA") ++ Idle
        BY <2>2, <3>2
      <4>2. QED
        BY <3>2, <4>1, ZeroPageIs
    <3>3. QED
      BY <3>1, <3>2
  <2>4. bus' = bus ## Rd(Pc(outcome, 1)) /\ data = A1(outcome) /\ Kept'
    BY <2>1, <2>3, Fetched DEF Started, HasLow, HasPage, Uncorrected, A1, A2
  <2>5. timing'.t = 2
    BY TimeGoes, <1>2
  <2>6. pc' = Pc(outcome, Size(instr))
    BY OperandFacts, <2>1, <2>3 DEF Started, Made, Size
  <2>7. bus' = BusFound(outcome, instr)
    BY <2>1, <2>4 DEF Started, Made, BusFound, Bus1
  <2>8. ab' = Ea(outcome, instr)
    BY OperandFacts, <2>3, <2>4 DEF Ea
  <2>9. AtOperand'
    BY <2>3, <2>4, <2>6, <2>7, <2>8, Arrives
  <2>10. QED
    BY <2>5, <2>9 DEF ZeroPagePhase, Accesses
<1>3. CASE timing.t > 1
  <2>1. 1 = Reach(instr, timing.acr) /\ 1 \in 1..4 /\ Accesses(1)
    BY <1>3 DEF Reach, MemoryModes, ZeroPagePhase
  <2>2. timing'.acr = timing.acr /\ timing'.t > 1 /\ Accesses(1)'
    BY <1>1, <1>3, <2>1, AccessStep
  <2>3. QED
    BY <1>1, <2>2, <1>3 DEF ZeroPagePhase
<1>4. QED
  BY InInstruction, <1>2, <1>3

\* Each cycle of an indexed one in page zero leads to the next.
LEMMA ZeroIndexedStep ==
  ASSUME TypeOK, NEW reset, ~reset, Clocks(Control, reset), Onward, instr.mode \in {"ZPX", "ZPY"}, ZeroIndexedPhase
  PROVE  ZeroIndexedPhase'
<1>1. ~fetch /\ outcome' = outcome /\ instr' = instr /\ instr.mode \in MemoryModes
  BY DEF Onward, Passes, MemoryModes
<1>2. CASE timing.t = 1
  <2>1. Started
    BY <1>2 DEF ZeroIndexedPhase
  <2>2. Control = Operand ++ ZeroPage("DATA") ++ Idle
    BY <1>1, <1>2, ZeroIndexedControl
  <2>3. pc' = (pc + 1) % 65536 /\ ab' = Word(data, 0) /\ latch'.dl = data /\ ~latch'.wr /\ regs' = regs /\ p' = p
    BY <2>2, ZeroPageOperandIs
  <2>4. bus' = bus ## Rd(Pc(outcome, 1)) /\ data = A1(outcome) /\ Kept'
    BY <2>1, <2>3, Fetched DEF Started, HasLow, HasPage, Uncorrected, A1, A2
  <2>5. timing'.t = 2
    BY TimeGoes, <1>2
  <2>6. ab' = A1(outcome)
    BY OperandFacts, <2>3, <2>4
  <2>7. HasPage' /\ latch'.dl = A1(outcome)
    BY <1>1, OperandFacts, <2>1, <2>3, <2>4, <2>6 DEF HasPage, Started, Made, Reading, Bus1
  <2>8. QED
    BY <1>1, <2>5, <2>7 DEF ZeroIndexedPhase, Accesses
<1>3. CASE timing.t = 2
  <2>1. HasPage /\ latch.dl = A1(outcome)
    BY <1>3 DEF ZeroIndexedPhase
  <2>2. /\ instr.access = "WRITE" => Control = Write(instr.store) ++ (Add(index) ++ ZeroPage("ALU")) ++ Idle
        /\ instr.access # "WRITE" => Control = Add(index) ++ ZeroPage("ALU") ++ Idle
    BY <1>1, <1>3, ZeroIndexedControl
  <2>3. /\ pc' = pc /\ ab' = Word((regs[index] + latch.dl) % 256, 0) /\ regs' = regs /\ p' = p
        /\ instr.access # "WRITE" => ~latch'.wr
        /\ instr.access = "WRITE" => latch'.wr /\ latch'.dor = outcome.regs[instr.store]
    <3>1. CASE instr.access = "WRITE"
      <4>1. Control = Write(instr.store) ++ (Add(index) ++ ZeroPage("ALU")) ++ Idle
        BY <2>2, <3>1
      <4>2. instr.store \in {"A", "X", "Y"} /\ regs[instr.store] = outcome.regs[instr.store]
        BY <2>1, <3>1, StoresKept DEF Started, HasLow, HasPage, Uncorrected
      <4>3. QED
        BY <3>1, <4>1, <4>2, ZeroIndexedIs
    <3>2. CASE instr.access # "WRITE"
      <4>1. Control = Add(index) ++ ZeroPage("ALU") ++ Idle
        BY <2>2, <3>2
      <4>2. QED
        BY <3>2, <4>1, ZeroIndexedIs
    <3>3. QED
      BY <3>1, <3>2
  <2>4. bus' = bus ## Rd(A1(outcome)) /\ data = B(outcome, A1(outcome)) /\ Kept'
    BY <2>1, <2>3, Fetched DEF Started, HasLow, HasPage, Uncorrected, B
  <2>5. timing'.t = 3
    BY TimeGoes, <1>3
  <2>6. pc' = Pc(outcome, Size(instr))
    BY <2>1, <2>3 DEF HasPage, Made, Size
  <2>7. bus' = BusFound(outcome, instr)
    BY <2>1, <2>4 DEF HasPage, Made, BusFound, BusPage
  <2>8. regs[index] = X(outcome, instr)
    BY <2>1 DEF HasPage, HasLow, Kept, X, index
  <2>9. Word(Zp(outcome, instr), 0) = Zp(outcome, instr)
    <3>1. X(outcome, instr) + A1(outcome) \in Int
      BY OperandFacts DEF Bytes
    <3>2. QED
      BY <3>1, ByteWraps, BytesAreWords DEF Zp
  <2>10. ab' = Ea(outcome, instr)
    BY <2>1, <2>3, <2>8, <2>9 DEF Ea, Zp
  <2>11. AtOperand'
    BY <2>3, <2>4, <2>6, <2>7, <2>10, Arrives
  <2>12. QED
    BY <2>5, <2>11 DEF ZeroIndexedPhase, Accesses
<1>4. CASE timing.t > 2
  <2>1. 2 = Reach(instr, timing.acr) /\ 2 \in 1..4 /\ Accesses(2)
    BY <1>4 DEF Reach, MemoryModes, ZeroIndexedPhase
  <2>2. timing'.acr = timing.acr /\ timing'.t > 2 /\ Accesses(2)'
    BY <1>1, <1>4, <2>1, AccessStep
  <2>3. QED
    BY <1>1, <2>2, <1>4 DEF ZeroIndexedPhase
<1>5. QED
  BY InInstruction, <1>2, <1>3, <1>4

\* Each cycle of an absolute operand leads to the next.
LEMMA AbsoluteStep ==
  ASSUME TypeOK, NEW reset, ~reset, Clocks(Control, reset), Onward, instr.mode = "ABS", AbsolutePhase
  PROVE  AbsolutePhase'
<1>1. ~fetch /\ outcome' = outcome /\ instr' = instr /\ instr.mode \in MemoryModes
  BY DEF Onward, Passes, MemoryModes
<1>2. CASE timing.t = 1
  <2>1. Started
    BY <1>2 DEF AbsolutePhase
  <2>2. Control = Operand ++ Idle
    BY <1>1, <1>2, AbsoluteControl
  <2>3. pc' = (pc + 1) % 65536 /\ ab' = (pc + 1) % 65536 /\ latch'.dl = data /\ ~latch'.wr /\ regs' = regs /\ p' = p
    BY <2>2, OperandIs
  <2>4. bus' = bus ## Rd(Pc(outcome, 1)) /\ data = A1(outcome) /\ Kept'
    BY <2>1, <2>3, Fetched DEF Started, HasLow, HasPage, Uncorrected, A1, A2
  <2>5. timing'.t = 2
    BY TimeGoes, <1>2
  <2>6. HasLow'
    BY <1>1, OperandFacts, <2>1, <2>3, <2>4 DEF HasLow, Started, Made, Reading, Bus1
  <2>7. QED
    BY <2>5, <2>6 DEF AbsolutePhase, Accesses
<1>3. CASE timing.t = 2
  <2>1. HasLow
    BY <1>3 DEF AbsolutePhase
  <2>2. /\ instr.access = "WRITE" => Control = Write(instr.store) ++ ([inc |-> TRUE] ++ Address("DL", "DATA")) ++ Idle
        /\ instr.access # "WRITE" => Control = [inc |-> TRUE] ++ Address("DL", "DATA") ++ Idle
    BY <1>1, <1>3, AbsoluteControl
  <2>3. /\ pc' = (pc + 1) % 65536 /\ ab' = Word(latch.dl, data) /\ regs' = regs /\ p' = p
        /\ instr.access # "WRITE" => ~latch'.wr
        /\ instr.access = "WRITE" => latch'.wr /\ latch'.dor = outcome.regs[instr.store]
    <3>1. CASE instr.access = "WRITE"
      <4>1. Control = Write(instr.store) ++ ([inc |-> TRUE] ++ Address("DL", "DATA")) ++ Idle
        BY <2>2, <3>1
      <4>2. instr.store \in {"A", "X", "Y"} /\ regs[instr.store] = outcome.regs[instr.store]
        BY <2>1, <3>1, StoresKept DEF Started, HasLow, HasPage, Uncorrected
      <4>3. QED
        BY <3>1, <4>1, <4>2, AbsoluteIs
    <3>2. CASE instr.access # "WRITE"
      <4>1. Control = [inc |-> TRUE] ++ Address("DL", "DATA") ++ Idle
        BY <2>2, <3>2
      <4>2. QED
        BY <3>2, <4>1, AbsoluteIs
    <3>3. QED
      BY <3>1, <3>2
  <2>4. bus' = bus ## Rd(Pc(outcome, 2)) /\ data = A2(outcome) /\ Kept'
    BY <2>1, <2>3, Fetched DEF Started, HasLow, HasPage, Uncorrected, A1, A2
  <2>5. timing'.t = 3
    BY TimeGoes, <1>3
  <2>6. pc' = Pc(outcome, Size(instr))
    BY OperandFacts, <2>1, <2>3 DEF HasLow, Made, Size
  <2>7. bus' = BusFound(outcome, instr)
    BY <2>1, <2>4 DEF HasLow, Made, BusFound, Bus2
  <2>8. ab' = Ea(outcome, instr)
    BY <2>1, <2>3, <2>4 DEF HasLow, Ea, Base
  <2>9. AtOperand'
    BY <2>3, <2>4, <2>6, <2>7, <2>8, Arrives
  <2>10. QED
    BY <2>5, <2>9 DEF AbsolutePhase, Accesses
<1>4. CASE timing.t > 2
  <2>1. 2 = Reach(instr, timing.acr) /\ 2 \in 1..4 /\ Accesses(2)
    BY <1>4 DEF Reach, MemoryModes, AbsolutePhase
  <2>2. timing'.acr = timing.acr /\ timing'.t > 2 /\ Accesses(2)'
    BY <1>1, <1>4, <2>1, AccessStep
  <2>3. QED
    BY <1>1, <2>2, <1>4 DEF AbsolutePhase
<1>5. QED
  BY InInstruction, <1>2, <1>3, <1>4

\* Each cycle of (zp,X) leads to the next.
LEMMA IndexedIndirectStep ==
  ASSUME TypeOK, NEW reset, ~reset, Clocks(Control, reset), Onward, instr.mode = "IZX", IndexedIndirectPhase
  PROVE  IndexedIndirectPhase'
<1>1. ~fetch /\ outcome' = outcome /\ instr' = instr /\ instr.mode \in MemoryModes
  BY DEF Onward, Passes, MemoryModes
<1>2. CASE timing.t = 1
  <2>1. Started
    BY <1>2 DEF IndexedIndirectPhase
  <2>2. Control = Operand ++ ZeroPage("DATA") ++ Idle
    BY <1>1, <1>2, IndexedIndirectControl
  <2>3. pc' = (pc + 1) % 65536 /\ ab' = Word(data, 0) /\ latch'.dl = data /\ ~latch'.wr /\ regs' = regs /\ p' = p
    BY <2>2, ZeroPageOperandIs
  <2>4. bus' = bus ## Rd(Pc(outcome, 1)) /\ data = A1(outcome) /\ Kept'
    BY <2>1, <2>3, Fetched DEF Started, HasLow, HasPage, Uncorrected, A1, A2
  <2>5. timing'.t = 2
    BY TimeGoes, <1>2
  <2>6. ab' = A1(outcome)
    BY OperandFacts, <2>3, <2>4
  <2>7. HasPage' /\ latch'.dl = A1(outcome)
    BY <1>1, OperandFacts, <2>1, <2>3, <2>4, <2>6 DEF HasPage, Started, Made, Reading, Bus1
  <2>8. QED
    BY <1>1, <2>5, <2>7 DEF IndexedIndirectPhase, Accesses
<1>3. CASE timing.t = 2
  <2>1. HasPage /\ latch.dl = A1(outcome)
    BY <1>3 DEF IndexedIndirectPhase
  <2>2. Control = Add("X") ++ ZeroPage("ALU") ++ Idle
    BY <1>1, <1>3, IndexedIndirectControl
  <2>3. pc' = pc /\ ab' = Word((regs.X + latch.dl) % 256, 0) /\ ~latch'.wr /\ regs' = regs /\ p' = p
    BY <2>2, ZeroIndexedXIs
  <2>4. bus' = bus ## Rd(A1(outcome)) /\ data = B(outcome, A1(outcome)) /\ Kept'
    BY <2>1, <2>3, Fetched DEF Started, HasLow, HasPage, Uncorrected, B
  <2>5. timing'.t = 3
    BY TimeGoes, <1>3
  <2>6. regs.X = X(outcome, instr)
    BY <2>1 DEF HasPage, HasLow, Kept, X, index
  <2>7. Word(Zp(outcome, instr), 0) = Zp(outcome, instr)
    <3>1. X(outcome, instr) + A1(outcome) \in Int
      BY OperandFacts DEF Bytes
    <3>2. QED
      BY <3>1, ByteWraps, BytesAreWords DEF Zp
  <2>8. ab' = Zp(outcome, instr)
    BY <2>1, <2>3, <2>6, <2>7 DEF Zp
  <2>9. Made(BusPage(outcome), 2)' /\ Reading(Zp(outcome, instr))'
    BY <1>1, <2>1, <2>3, <2>4, <2>8 DEF HasPage, Made, Reading, BusPage
  <2>10. QED
    BY <2>4, <2>5, <2>9 DEF IndexedIndirectPhase, Accesses
<1>4. CASE timing.t = 3
  <2>1. Made(BusPage(outcome), 2) /\ Reading(Zp(outcome, instr)) /\ Kept
    BY <1>4 DEF IndexedIndirectPhase
  <2>2. Control = [dlLoad |-> TRUE] ++ OneOn ++ ZeroPage("ALU") ++ Idle
    BY <1>1, <1>4, IndexedIndirectControl
  <2>3. pc' = pc /\ latch'.dl = data /\ ab' = Word((Low(ab) + 1) % 256, 0) /\ ~latch'.wr /\ regs' = regs /\ p' = p
    BY <2>2, NextZeroIs
  <2>4. bus' = bus ## Rd(Zp(outcome, instr)) /\ data = B(outcome, Zp(outcome, instr)) /\ Kept'
    BY <2>1, <2>3, Fetched DEF Started, HasLow, HasPage, Uncorrected, B
  <2>5. timing'.t = 4
    BY TimeGoes, <1>4
  <2>6. Zp(outcome, instr) \in Bytes
    <3>1. X(outcome, instr) + A1(outcome) \in Int
      BY OperandFacts DEF Bytes
    <3>2. QED
      BY <3>1, ByteWraps DEF Zp
  <2>7. ab' = Nip(Zp(outcome, instr))
    BY <2>1, <2>3, <2>6, BytesAreWords DEF Reading, Nip
  <2>8. Made(BusPage(outcome) ## Rd(Zp(outcome, instr)), 2)' /\ Reading(Nip(Zp(outcome, instr)))' /\ latch'.dl = B(outcome, Zp(outcome, instr))
    BY <1>1, <2>1, <2>3, <2>4, <2>7 DEF Made, Reading
  <2>9. QED
    BY <1>1, <2>4, <2>5, <2>8 DEF IndexedIndirectPhase, Accesses
<1>5. CASE timing.t = 4
  <2>1. /\ Made(BusPage(outcome) ## Rd(Zp(outcome, instr)), 2) /\ Reading(Nip(Zp(outcome, instr))) /\ Kept
        /\ latch.dl = B(outcome, Zp(outcome, instr))
    BY <1>5 DEF IndexedIndirectPhase
  <2>2. /\ instr.access = "WRITE" => Control = Write(instr.store) ++ (Address("DL", "DATA")) ++ Idle
        /\ instr.access # "WRITE" => Control = Address("DL", "DATA") ++ Idle
    BY <1>1, <1>5, IndexedIndirectControl
  <2>3. /\ pc' = pc /\ ab' = Word(latch.dl, data) /\ regs' = regs /\ p' = p
        /\ instr.access # "WRITE" => ~latch'.wr
        /\ instr.access = "WRITE" => latch'.wr /\ latch'.dor = outcome.regs[instr.store]
    <3>1. CASE instr.access = "WRITE"
      <4>1. Control = Write(instr.store) ++ (Address("DL", "DATA")) ++ Idle
        BY <2>2, <3>1
      <4>2. instr.store \in {"A", "X", "Y"} /\ regs[instr.store] = outcome.regs[instr.store]
        BY <2>1, <3>1, StoresKept DEF Started, HasLow, HasPage, Uncorrected
      <4>3. QED
        BY <3>1, <4>1, <4>2, AddressIs
    <3>2. CASE instr.access # "WRITE"
      <4>1. Control = Address("DL", "DATA") ++ Idle
        BY <2>2, <3>2
      <4>2. QED
        BY <3>2, <4>1, AddressIs
    <3>3. QED
      BY <3>1, <3>2
  <2>4. bus' = bus ## Rd(Nip(Zp(outcome, instr))) /\ data = B(outcome, Nip(Zp(outcome, instr))) /\ Kept'
    BY <2>1, <2>3, Fetched DEF Started, HasLow, HasPage, Uncorrected, B
  <2>5. timing'.t = 5
    BY TimeGoes, <1>5
  <2>6. pc' = Pc(outcome, Size(instr))
    BY <2>1, <2>3 DEF Made, Size
  <2>7. bus' = BusFound(outcome, instr)
    BY <2>1, <2>4 DEF Made, BusFound
  <2>8. ab' = Ea(outcome, instr)
    BY <2>1, <2>3, <2>4 DEF Ea, Ptr
  <2>9. AtOperand'
    BY <2>3, <2>4, <2>6, <2>7, <2>8, Arrives
  <2>10. QED
    BY <2>5, <2>9 DEF IndexedIndirectPhase, Accesses
<1>6. CASE timing.t > 4
  <2>1. 4 = Reach(instr, timing.acr) /\ 4 \in 1..4 /\ Accesses(4)
    BY <1>6 DEF Reach, MemoryModes, IndexedIndirectPhase
  <2>2. timing'.acr = timing.acr /\ timing'.t > 4 /\ Accesses(4)'
    BY <1>1, <1>6, <2>1, AccessStep
  <2>3. QED
    BY <1>1, <2>2, <1>6 DEF IndexedIndirectPhase
<1>7. QED
  BY InInstruction, <1>2, <1>3, <1>4, <1>5, <1>6

\* The address with the index, and its page.
LEMMA CrossFacts ==
  ASSUME TypeOK
  PROVE  /\ Base(outcome, instr) \in Words /\ Carry(outcome, instr) \in Bin
         /\ Sum(outcome, instr) % 256 \in Bytes /\ High(Base(outcome, instr)) \in Bytes
         /\ Low(Near(outcome, instr)) = Sum(outcome, instr) % 256
         /\ High(Near(outcome, instr)) = High(Base(outcome, instr))
         /\ Carry(outcome, instr) = 0 => Far(outcome, instr) = Near(outcome, instr)
         /\ instr.mode # "IZY" => Low(Base(outcome, instr)) = A1(outcome) /\ High(Base(outcome, instr)) = A2(outcome)
         /\ instr.mode = "IZY" => /\ Low(Base(outcome, instr)) = B(outcome, A1(outcome))
                                  /\ High(Base(outcome, instr)) = B(outcome, Nip(A1(outcome)))
<1> DEFINE base == Base(outcome, instr)
           sum == Sum(outcome, instr)
           carry == Carry(outcome, instr)
<1>1. \A a : B(outcome, a) \in Bytes
  BY OutcomeTypes
<1>2. A1(outcome) \in Bytes /\ A2(outcome) \in Bytes /\ X(outcome, instr) \in Bytes
  BY OperandFacts
<1>3. \A l, h \in Bytes : Word(l, h) \in Words /\ Low(Word(l, h)) = l /\ High(Word(l, h)) = h
  BY PartsWord
<1>4. /\ instr.mode # "IZY" => base = Word(A1(outcome), A2(outcome))
      /\ instr.mode = "IZY" => base = Word(B(outcome, A1(outcome)), B(outcome, Nip(A1(outcome))))
  BY DEF Base, Ptr
<1>5. /\ instr.mode # "IZY" => base \in Words /\ Low(base) = A1(outcome) /\ High(base) = A2(outcome)
      /\ instr.mode = "IZY" => base \in Words /\ Low(base) = B(outcome, A1(outcome)) /\ High(base) = B(outcome, Nip(A1(outcome)))
  BY <1>1, <1>2, <1>3, <1>4
<1>6. base \in Words /\ Low(base) \in Bytes /\ High(base) \in Bytes
  BY <1>1, <1>2, <1>5
<1>7. sum = X(outcome, instr) + Low(base)
  BY DEF Sum
<1>8. sum \in Int
  BY <1>2, <1>6, <1>7 DEF Bytes
<1>9. sum % 256 \in Bytes
  BY <1>8, ByteWraps
<1>10. Near(outcome, instr) = Word(sum % 256, High(base))
  BY DEF Near
<1>11. Low(Near(outcome, instr)) = sum % 256 /\ High(Near(outcome, instr)) = High(base)
  BY <1>3, <1>6, <1>9, <1>10
<1>12. carry \in Bin
  BY <1>8, BitType DEF Carry
<1>13. ASSUME carry = 0
       PROVE  Far(outcome, instr) = Near(outcome, instr)
  <2>1. High(base) + carry = High(base)
    BY <1>6, <1>13 DEF Bytes
  <2>2. High(base) % 256 = High(base)
    BY <1>6, ByteWraps DEF Bytes
  <2>3. QED
    BY <1>10, <2>1, <2>2 DEF Far
<1>14. QED
  BY <1>5, <1>6, <1>9, <1>11, <1>12, <1>13

\* The index is still what it was.
LEMMA IndexKept ==
  ASSUME Kept
  PROVE  regs[index] = X(outcome, instr)
BY DEF Kept, X, index

\* What the access needs of the carry.
LEMMA CarrySpares ==
  ASSUME TypeOK, timing.acr = Carry(outcome, instr)
  PROVE  crossOrNotRead <=> Crosses(outcome, instr)
BY DEF crossOrNotRead, Crosses

\* The time stays a number.
LEMMA TypesNext ==
  ASSUME TypeOK, NEW reset, Clocks(Control, reset)
  PROVE  timing'.t \in Int
<1>1. timing'.t = IF reset \/ fetch THEN 1 ELSE IF Control.end THEN 0 ELSE (timing.t + 1) % 8
  BY DEF Clocks
<1>2. timing.t \in Int
  BY DEF TypeOK
<1>3. QED
  BY <1>1, <1>2

\* Each cycle of an indexed absolute operand leads to the next.
LEMMA AbsoluteIndexedStep ==
  ASSUME TypeOK, NEW reset, ~reset, Clocks(Control, reset), Onward, instr.mode \in {"ABX", "ABY"}, AbsoluteIndexedPhase
  PROVE  AbsoluteIndexedPhase'
<1>1. ~fetch /\ outcome' = outcome /\ instr' = instr /\ instr.mode \in MemoryModes
  BY DEF Onward, Passes, MemoryModes
<1>2. /\ Low(Near(outcome, instr)) = Sum(outcome, instr) % 256 /\ High(Near(outcome, instr)) = High(Base(outcome, instr))
      /\ Carry(outcome, instr) \in Bin /\ (Carry(outcome, instr) = 0 => Far(outcome, instr) = Near(outcome, instr))
  BY CrossFacts
<1>3. Low(Base(outcome, instr)) = A1(outcome) /\ High(Base(outcome, instr)) = A2(outcome)
  BY CrossFacts
<1>4. /\ Carry(outcome, instr)' = Carry(outcome, instr) /\ Near(outcome, instr)' = Near(outcome, instr)
      /\ Crosses(outcome, instr)' <=> Crosses(outcome, instr)
  BY <1>1 DEF Crosses
<1>5. CASE timing.t = 1
  <2>1. Started
    BY <1>5 DEF AbsoluteIndexedPhase
  <2>2. Control = Operand ++ Idle
    BY <1>1, <1>5, AbsoluteIndexedControl
  <2>3. pc' = (pc + 1) % 65536 /\ ab' = (pc + 1) % 65536 /\ latch'.dl = data /\ ~latch'.wr /\ regs' = regs /\ p' = p
    BY <2>2, OperandIs
  <2>4. bus' = bus ## Rd(Pc(outcome, 1)) /\ data = A1(outcome) /\ Kept'
    BY <2>1, <2>3, Fetched DEF Started, HasLow, HasPage, Uncorrected, A1, A2
  <2>5. timing'.t = 2
    BY TimeGoes, <1>5
  <2>6. HasLow'
    BY <1>1, OperandFacts, <2>1, <2>3, <2>4 DEF HasLow, Started, Made, Reading, Bus1
  <2>7. QED
    BY <2>5, <2>6 DEF AbsoluteIndexedPhase
<1>6. CASE timing.t = 2
  <2>1. HasLow
    BY <1>6 DEF AbsoluteIndexedPhase
  <2>2. Control = [inc |-> TRUE] ++ Indexed ++ Idle
    BY <1>1, <1>6, AbsoluteIndexedControl
  <2>3. pc' = (pc + 1) % 65536 /\ ab' = Word((regs[index] + latch.dl) % 256, data) /\ timing'.acr = Bit(regs[index] + latch.dl, 8) /\ ~latch'.wr /\ regs' = regs /\ p' = p
    BY <2>2, AbsoluteIndexedIs
  <2>4. bus' = bus ## Rd(Pc(outcome, 2)) /\ data = A2(outcome) /\ Kept'
    BY <2>1, <2>3, Fetched DEF Started, HasLow, HasPage, Uncorrected, A1, A2, B
  <2>5. timing'.t = 3
    BY TimeGoes, <1>6
  <2>6. regs[index] + latch.dl = Sum(outcome, instr)
    BY <1>3, <2>1, IndexKept DEF Sum, HasLow
  <2>7. ab' = Near(outcome, instr) /\ timing'.acr = Carry(outcome, instr)
    BY <1>3, <2>3, <2>4, <2>6 DEF Near, Carry
  <2>8. bus' = Bus2(outcome) /\ pc' = Pc(outcome, Size(instr))
    BY OperandFacts, <2>1, <2>3, <2>4 DEF HasLow, Made, Bus2, Size
  <2>9. CASE Crosses(outcome, instr)
    <3>1. Uncorrected'
      BY <1>1, <1>4, <2>3, <2>4, <2>7 DEF Uncorrected, Reading
    <3>2. Made(Bus2(outcome), 3)'
      BY <1>1, <2>8 DEF Made, Size
    <3>3. timing'.t = 3 /\ timing'.acr = Carry(outcome, instr)' /\ Crosses(outcome, instr)'
      BY <1>4, <2>5, <2>7, <2>9
    <3>4. Accesses(3)'
      BY <3>3 DEF Accesses
    <3>5. QED
      BY <3>1, <3>2, <3>3, <3>4 DEF AbsoluteIndexedPhase
  <2>10. CASE ~Crosses(outcome, instr)
    <3>1. instr.access = "READ" /\ Carry(outcome, instr) = 0
      BY <1>2, <2>10 DEF Crosses, Bin
    <3>2. ab' = Ea(outcome, instr)
      BY <1>2, <2>7, <3>1 DEF Ea
    <3>3. bus' = BusFound(outcome, instr)
      BY <2>8, <2>10 DEF BusFound
    <3>4. AtOperand'
      BY <2>3, <2>4, <2>8, <3>1, <3>2, <3>3, Arrives
    <3>5. timing'.t = 3 /\ timing'.acr = Carry(outcome, instr)' /\ ~Crosses(outcome, instr)'
      BY <1>4, <2>5, <2>7, <2>10
    <3>6. Accesses(2)'
      BY <3>4, <3>5 DEF Accesses
    <3>7. QED
      BY <3>5, <3>6 DEF AbsoluteIndexedPhase
  <2>11. QED
    BY <2>9, <2>10
<1>7. CASE timing.t = 3 /\ Crosses(outcome, instr)
  <2>1. Made(Bus2(outcome), 3) /\ Uncorrected
    BY <1>7 DEF AbsoluteIndexedPhase
  <2>a. crossOrNotRead
    BY <1>7, <2>1, CarrySpares DEF Uncorrected
  <2>2. /\ instr.access = "WRITE" => Control = Write(instr.store) ++ FixHigh ++ Idle
        /\ instr.access # "WRITE" => Control = FixHigh ++ Idle
    BY <1>1, <1>7, <2>a, AbsoluteIndexedControl
  <2>3. /\ pc' = pc /\ ab' = Word(Low(ab), (High(ab) + timing.acr) % 256) /\ timing'.acr = timing.acr /\ regs' = regs /\ p' = p
        /\ instr.access # "WRITE" => ~latch'.wr
        /\ instr.access = "WRITE" => latch'.wr /\ latch'.dor = outcome.regs[instr.store]
    <3>1. CASE instr.access = "WRITE"
      <4>1. Control = Write(instr.store) ++ FixHigh ++ Idle
        BY <2>2, <3>1
      <4>2. instr.store \in {"A", "X", "Y"} /\ regs[instr.store] = outcome.regs[instr.store]
        BY <2>1, <3>1, StoresKept DEF Started, HasLow, HasPage, Uncorrected
      <4>3. QED
        BY <3>1, <4>1, <4>2, FixHighIs
    <3>2. CASE instr.access # "WRITE"
      <4>1. Control = FixHigh ++ Idle
        BY <2>2, <3>2
      <4>2. QED
        BY <3>2, <4>1, FixHighIs
    <3>3. QED
      BY <3>1, <3>2
  <2>4. bus' = bus ## Rd(Near(outcome, instr)) /\ data = B(outcome, Near(outcome, instr)) /\ Kept'
    BY <2>1, <2>3, Fetched DEF Started, HasLow, HasPage, Uncorrected, B
  <2>5. timing'.t = 4
    BY TimeGoes, <1>7
  <2>6. pc' = Pc(outcome, Size(instr))
    BY <2>1, <2>3 DEF Made, Size
  <2>7. bus' = BusFound(outcome, instr)
    BY <1>7, <2>1, <2>4 DEF Made, BusFound
  <2>8. ab' = Ea(outcome, instr)
    BY <1>2, <2>1, <2>3 DEF Ea, Far, Uncorrected, Reading
  <2>9. AtOperand'
    BY <2>3, <2>4, <2>6, <2>7, <2>8, Arrives
  <2>10. timing'.acr = Carry(outcome, instr)' /\ Crosses(outcome, instr)'
    BY <1>4, <1>7, <2>1, <2>3 DEF Uncorrected
  <2>11. Accesses(3)'
    BY <2>5, <2>9 DEF Accesses
  <2>12. QED
    BY <2>5, <2>10, <2>11 DEF AbsoluteIndexedPhase
<1>8. CASE timing.t > 3 /\ Crosses(outcome, instr)
  <2>1. timing.acr = Carry(outcome, instr) /\ Accesses(3)
    BY InInstruction, <1>8 DEF AbsoluteIndexedPhase
  <2>2. 3 = Reach(instr, timing.acr) /\ 3 \in 1..4
    BY <1>2, <1>8, <2>1 DEF Reach, Crosses, Bin
  <2>3. timing'.acr = timing.acr /\ timing'.t > 3 /\ Accesses(3)'
    BY <1>1, <1>8, <2>1, <2>2, AccessStep
  <2>4. timing'.acr = Carry(outcome, instr)' /\ (Crosses(outcome, instr))'
    BY <1>4, <1>8, <2>1, <2>3
  <2>5. timing'.t # 1 /\ timing'.t # 2 /\ timing'.t >= 3 /\ timing'.t # 3
    <3>1. timing'.t \in Int
      BY TypesNext
    <3>2. QED
      BY <2>3, <3>1
  <2>6. QED
    BY <2>3, <2>4, <2>5 DEF AbsoluteIndexedPhase
<1>9. CASE timing.t > 2 /\ ~Crosses(outcome, instr)
  <2>1. timing.acr = Carry(outcome, instr) /\ Accesses(2)
    BY InInstruction, <1>9 DEF AbsoluteIndexedPhase
  <2>2. 2 = Reach(instr, timing.acr) /\ 2 \in 1..4
    BY <1>2, <1>9, <2>1 DEF Reach, Crosses, Bin
  <2>3. timing'.acr = timing.acr /\ timing'.t > 2 /\ Accesses(2)'
    BY <1>1, <1>9, <2>1, <2>2, AccessStep
  <2>4. timing'.acr = Carry(outcome, instr)' /\ (~Crosses(outcome, instr))'
    BY <1>4, <1>9, <2>1, <2>3
  <2>5. timing'.t # 1 /\ timing'.t # 2 /\ timing'.t >= 3
    <3>1. timing'.t \in Int
      BY TypesNext
    <3>2. QED
      BY <2>3, <3>1
  <2>6. QED
    BY <2>3, <2>4, <2>5 DEF AbsoluteIndexedPhase
<1>10. QED
  BY InInstruction, <1>5, <1>6, <1>7, <1>8, <1>9

\* Each cycle of (zp),Y leads to the next.
LEMMA IndirectIndexedStep ==
  ASSUME TypeOK, NEW reset, ~reset, Clocks(Control, reset), Onward, instr.mode = "IZY", IndirectIndexedPhase
  PROVE  IndirectIndexedPhase'
<1>1. ~fetch /\ outcome' = outcome /\ instr' = instr /\ instr.mode \in MemoryModes
  BY DEF Onward, Passes, MemoryModes
<1>2. /\ Low(Near(outcome, instr)) = Sum(outcome, instr) % 256 /\ High(Near(outcome, instr)) = High(Base(outcome, instr))
      /\ Carry(outcome, instr) \in Bin /\ (Carry(outcome, instr) = 0 => Far(outcome, instr) = Near(outcome, instr))
  BY CrossFacts
<1>3. Low(Base(outcome, instr)) = B(outcome, A1(outcome)) /\ High(Base(outcome, instr)) = B(outcome, Nip(A1(outcome)))
  BY CrossFacts
<1>4. /\ Carry(outcome, instr)' = Carry(outcome, instr) /\ Near(outcome, instr)' = Near(outcome, instr)
      /\ Crosses(outcome, instr)' <=> Crosses(outcome, instr)
  BY <1>1 DEF Crosses
<1>5. CASE timing.t = 1
  <2>1. Started
    BY <1>5 DEF IndirectIndexedPhase
  <2>2. Control = [inc |-> TRUE] ++ ZeroPage("DATA") ++ Idle
    BY <1>1, <1>5, IndirectIndexedControl
  <2>3. pc' = (pc + 1) % 65536 /\ ab' = Word(data, 0) /\ ~latch'.wr /\ regs' = regs /\ p' = p
    BY <2>2, ZeroPageIs
  <2>4. bus' = bus ## Rd(Pc(outcome, 1)) /\ data = A1(outcome) /\ Kept'
    BY <2>1, <2>3, Fetched DEF Started, HasLow, HasPage, Uncorrected, A1, A2
  <2>5. timing'.t = 2
    BY TimeGoes, <1>5
  <2>6. ab' = A1(outcome)
    BY OperandFacts, <2>3, <2>4
  <2>7. HasPage'
    BY <1>1, OperandFacts, <2>1, <2>3, <2>4, <2>6 DEF HasPage, Started, Made, Reading, Bus1
  <2>8. QED
    BY <2>5, <2>7 DEF IndirectIndexedPhase
<1>6. CASE timing.t = 2
  <2>1. HasPage
    BY <1>6 DEF IndirectIndexedPhase
  <2>2. Control = [dlLoad |-> TRUE] ++ OneOn ++ ZeroPage("ALU") ++ Idle
    BY <1>1, <1>6, IndirectIndexedControl
  <2>3. pc' = pc /\ latch'.dl = data /\ ab' = Word((Low(ab) + 1) % 256, 0) /\ ~latch'.wr /\ regs' = regs /\ p' = p
    BY <2>2, NextZeroIs
  <2>4. bus' = bus ## Rd(A1(outcome)) /\ data = B(outcome, A1(outcome)) /\ Kept'
    BY <2>1, <2>3, Fetched DEF Started, HasLow, HasPage, Uncorrected, B
  <2>5. timing'.t = 3
    BY TimeGoes, <1>6
  <2>6. High(A1(outcome)) = 0
    <3>1. \A b \in Bytes : High(b) = 0
      BY BytesAreWords
    <3>2. QED
      BY OperandFacts, <3>1
  <2>7. ab' = Nip(A1(outcome))
    BY <2>1, <2>3, <2>6 DEF HasPage, Reading, Nip
  <2>8. Made(BusPage(outcome), 2)' /\ Reading(Nip(A1(outcome)))' /\ latch'.dl = B(outcome, A1(outcome))
    BY <1>1, <2>1, <2>3, <2>4, <2>7 DEF HasPage, Made, Reading, BusPage
  <2>9. QED
    BY <1>1, <2>4, <2>5, <2>8 DEF IndirectIndexedPhase
<1>7. CASE timing.t = 3
  <2>1. Made(BusPage(outcome), 2) /\ Reading(Nip(A1(outcome))) /\ Kept /\ latch.dl = B(outcome, A1(outcome))
    BY <1>7 DEF IndirectIndexedPhase
  <2>2. Control = Indexed ++ Idle
    BY <1>1, <1>7, IndirectIndexedControl
  <2>3. pc' = pc /\ ab' = Word((regs[index] + latch.dl) % 256, data) /\ timing'.acr = Bit(regs[index] + latch.dl, 8) /\ ~latch'.wr /\ regs' = regs /\ p' = p
    BY <2>2, PointerIndexedIs
  <2>4. bus' = bus ## Rd(Nip(A1(outcome))) /\ data = B(outcome, Nip(A1(outcome))) /\ Kept'
    BY <2>1, <2>3, Fetched DEF Started, HasLow, HasPage, Uncorrected, A1, A2, B
  <2>5. timing'.t = 4
    BY TimeGoes, <1>7
  <2>6. regs[index] + latch.dl = Sum(outcome, instr)
    BY <1>3, <2>1, IndexKept DEF Sum, HasLow
  <2>7. ab' = Near(outcome, instr) /\ timing'.acr = Carry(outcome, instr)
    BY <1>3, <2>3, <2>4, <2>6 DEF Near, Carry
  <2>8. bus' = BusPage(outcome) ## Rd(Nip(A1(outcome))) /\ pc' = Pc(outcome, Size(instr))
    BY OperandFacts, <2>1, <2>3, <2>4 DEF HasLow, Made, Bus2, Size
  <2>9. CASE Crosses(outcome, instr)
    <3>1. Uncorrected'
      BY <1>1, <1>4, <2>3, <2>4, <2>7 DEF Uncorrected, Reading
    <3>2. Made(BusPage(outcome) ## Rd(Nip(A1(outcome))), 2)'
      BY <1>1, <2>8 DEF Made, Size
    <3>3. timing'.t = 4 /\ timing'.acr = Carry(outcome, instr)' /\ Crosses(outcome, instr)'
      BY <1>4, <2>5, <2>7, <2>9
    <3>4. Accesses(4)'
      BY <3>3 DEF Accesses
    <3>5. QED
      BY <3>1, <3>2, <3>3, <3>4 DEF IndirectIndexedPhase
  <2>10. CASE ~Crosses(outcome, instr)
    <3>1. instr.access = "READ" /\ Carry(outcome, instr) = 0
      BY <1>2, <2>10 DEF Crosses, Bin
    <3>2. ab' = Ea(outcome, instr)
      BY <1>2, <2>7, <3>1 DEF Ea
    <3>3. bus' = BusFound(outcome, instr)
      BY <2>8, <2>10 DEF BusFound
    <3>4. AtOperand'
      BY <2>3, <2>4, <2>8, <3>1, <3>2, <3>3, Arrives
    <3>5. timing'.t = 4 /\ timing'.acr = Carry(outcome, instr)' /\ ~Crosses(outcome, instr)'
      BY <1>4, <2>5, <2>7, <2>10
    <3>6. Accesses(3)'
      BY <3>4, <3>5 DEF Accesses
    <3>7. QED
      BY <3>5, <3>6 DEF IndirectIndexedPhase
  <2>11. QED
    BY <2>9, <2>10
<1>8. CASE timing.t = 4 /\ Crosses(outcome, instr)
  <2>1. Made(BusPage(outcome) ## Rd(Nip(A1(outcome))), 2) /\ Uncorrected
    BY <1>8 DEF IndirectIndexedPhase
  <2>a. crossOrNotRead
    BY <1>8, <2>1, CarrySpares DEF Uncorrected
  <2>2. /\ instr.access = "WRITE" => Control = Write(instr.store) ++ FixHigh ++ Idle
        /\ instr.access # "WRITE" => Control = FixHigh ++ Idle
    BY <1>1, <1>8, <2>a, IndirectIndexedControl
  <2>3. /\ pc' = pc /\ ab' = Word(Low(ab), (High(ab) + timing.acr) % 256) /\ timing'.acr = timing.acr /\ regs' = regs /\ p' = p
        /\ instr.access # "WRITE" => ~latch'.wr
        /\ instr.access = "WRITE" => latch'.wr /\ latch'.dor = outcome.regs[instr.store]
    <3>1. CASE instr.access = "WRITE"
      <4>1. Control = Write(instr.store) ++ FixHigh ++ Idle
        BY <2>2, <3>1
      <4>2. instr.store \in {"A", "X", "Y"} /\ regs[instr.store] = outcome.regs[instr.store]
        BY <2>1, <3>1, StoresKept DEF Started, HasLow, HasPage, Uncorrected
      <4>3. QED
        BY <3>1, <4>1, <4>2, FixHighIs
    <3>2. CASE instr.access # "WRITE"
      <4>1. Control = FixHigh ++ Idle
        BY <2>2, <3>2
      <4>2. QED
        BY <3>2, <4>1, FixHighIs
    <3>3. QED
      BY <3>1, <3>2
  <2>4. bus' = bus ## Rd(Near(outcome, instr)) /\ data = B(outcome, Near(outcome, instr)) /\ Kept'
    BY <2>1, <2>3, Fetched DEF Started, HasLow, HasPage, Uncorrected, B
  <2>5. timing'.t = 5
    BY TimeGoes, <1>8
  <2>6. pc' = Pc(outcome, Size(instr))
    BY <2>1, <2>3 DEF Made, Size
  <2>7. bus' = BusFound(outcome, instr)
    BY <1>8, <2>1, <2>4 DEF Made, BusFound
  <2>8. ab' = Ea(outcome, instr)
    BY <1>2, <2>1, <2>3 DEF Ea, Far, Uncorrected, Reading
  <2>9. AtOperand'
    BY <2>3, <2>4, <2>6, <2>7, <2>8, Arrives
  <2>10. timing'.acr = Carry(outcome, instr)' /\ Crosses(outcome, instr)'
    BY <1>4, <1>8, <2>1, <2>3 DEF Uncorrected
  <2>11. Accesses(4)'
    BY <2>5, <2>9 DEF Accesses
  <2>12. QED
    BY <2>5, <2>10, <2>11 DEF IndirectIndexedPhase
<1>9. CASE timing.t > 4 /\ Crosses(outcome, instr)
  <2>1. timing.acr = Carry(outcome, instr) /\ Accesses(4)
    BY InInstruction, <1>9 DEF IndirectIndexedPhase
  <2>2. 4 = Reach(instr, timing.acr) /\ 4 \in 1..4
    BY <1>2, <1>9, <2>1 DEF Reach, Crosses, Bin
  <2>3. timing'.acr = timing.acr /\ timing'.t > 4 /\ Accesses(4)'
    BY <1>1, <1>9, <2>1, <2>2, AccessStep
  <2>4. timing'.acr = Carry(outcome, instr)' /\ (Crosses(outcome, instr))'
    BY <1>4, <1>9, <2>1, <2>3
  <2>5. timing'.t # 1 /\ timing'.t # 2 /\ timing'.t >= 4 /\ timing'.t # 4 /\ timing'.t # 3
    <3>1. timing'.t \in Int
      BY TypesNext
    <3>2. QED
      BY <2>3, <3>1
  <2>6. QED
    BY <2>3, <2>4, <2>5 DEF IndirectIndexedPhase
<1>10. CASE timing.t > 3 /\ ~Crosses(outcome, instr)
  <2>1. timing.acr = Carry(outcome, instr) /\ Accesses(3)
    BY InInstruction, <1>10 DEF IndirectIndexedPhase
  <2>2. 3 = Reach(instr, timing.acr) /\ 3 \in 1..4
    BY <1>2, <1>10, <2>1 DEF Reach, Crosses, Bin
  <2>3. timing'.acr = timing.acr /\ timing'.t > 3 /\ Accesses(3)'
    BY <1>1, <1>10, <2>1, <2>2, AccessStep
  <2>4. timing'.acr = Carry(outcome, instr)' /\ (~Crosses(outcome, instr))'
    BY <1>4, <1>10, <2>1, <2>3
  <2>5. timing'.t # 1 /\ timing'.t # 2 /\ timing'.t >= 4 /\ timing'.t # 3
    <3>1. timing'.t \in Int
      BY TypesNext
    <3>2. QED
      BY <2>3, <3>1
  <2>6. QED
    BY <2>3, <2>4, <2>5 DEF IndirectIndexedPhase
<1>11. QED
  BY InInstruction, <1>5, <1>6, <1>7, <1>8, <1>9, <1>10

-----------------------------------------------------------------------------
(* The cycles of the other instructions                                     *)

\* The stack pointer one down, and one up.
LEMMA MovesDown ==
  ASSUME TypeOK, NEW k \in Int, NEW j \in Int, j = k - 1, outcome' = outcome,
         Moved(k), regs' = [regs EXCEPT !.S = (regs.S + 255) % 256]
  PROVE  Moved(j)' /\ Word((regs.S + 255) % 256, 1) = Sp(outcome, j)
<1> DEFINE r == outcome.regs
           s == r.S
<1>1. r \in [RegNames -> Bytes] /\ "S" \in RegNames
  BY DEF TypeOK, RegNames
<1>2. s \in Bytes
  BY <1>1
<1>3. s \in Int
  BY <1>2 DEF Bytes
<1>4. regs = [r EXCEPT !.S = (s + k) % 256]
  BY DEF Moved
<1>5. regs.S = (s + k) % 256
  BY <1>1, <1>4
<1> HIDE DEF s
<1>6. (((s + k) % 256) + 255) % 256 = ((s + k) + 255) % 256
  BY <1>3, ByteWrapsTwice
<1>7. ((s + k) + 255) % 256 = (s + j) % 256
  BY <1>3
<1>8. (regs.S + 255) % 256 = (s + j) % 256
  BY <1>5, <1>6, <1>7
<1>9. regs' = [r EXCEPT !.S = (s + j) % 256]
  BY <1>1, <1>4, <1>8
<1>10. QED
  BY <1>8, <1>9 DEF Moved, Sp, s

\* The stack pointer one up.
LEMMA MovesUp ==
  ASSUME TypeOK, NEW k \in Int, NEW j \in Int, j = k + 1, outcome' = outcome,
         Moved(k), regs' = [regs EXCEPT !.S = (regs.S + 1) % 256]
  PROVE  Moved(j)' /\ Word((regs.S + 1) % 256, 1) = Sp(outcome, j)
<1> DEFINE r == outcome.regs
           s == r.S
<1>1. r \in [RegNames -> Bytes] /\ "S" \in RegNames
  BY DEF TypeOK, RegNames
<1>2. s \in Bytes
  BY <1>1
<1>3. s \in Int
  BY <1>2 DEF Bytes
<1>4. regs = [r EXCEPT !.S = (s + k) % 256]
  BY DEF Moved
<1>5. regs.S = (s + k) % 256
  BY <1>1, <1>4
<1> HIDE DEF s
<1>6. (((s + k) % 256) + 1) % 256 = ((s + k) + 1) % 256
  BY <1>3, ByteWrapsTwice
<1>7. (s + k) + 1 = s + j
  BY <1>3
<1>8. (regs.S + 1) % 256 = (s + j) % 256
  BY <1>5, <1>6, <1>7
<1>9. regs' = [r EXCEPT !.S = (s + j) % 256]
  BY <1>1, <1>4, <1>8
<1>10. QED
  BY <1>8, <1>9 DEF Moved, Sp, s

\* It has not moved yet.
LEMMA NotMoved ==
  ASSUME TypeOK, regs = outcome.regs
  PROVE  Moved(0) /\ Word(regs.S, 1) = Sp(outcome, 0)
<1>1. outcome.regs \in [RegNames -> Bytes] /\ "S" \in RegNames
  BY DEF TypeOK, RegNames
<1> DEFINE s == outcome.regs.S
<1>2. s \in Bytes
  BY <1>1
<1> HIDE DEF s
<1>3. s + 0 = s /\ s \in Int
  BY <1>2 DEF Bytes
<1>4. s % 256 = s
  BY <1>2, <1>3, ByteWraps
<1>5. QED
  BY <1>1, <1>3, <1>4 DEF Moved, Sp, s

\* An implied instruction has no other cycle.
LEMMA ImpliedEnds ==
  ASSUME TypeOK, NEW reset, ~reset, Clocks(Control, reset), Onward, instr.mode = "IMP", timing.t = 1
  PROVE  FALSE
<1>1. ~fetch
  BY DEF Onward, Passes
<1>2. Control = Exec ++ End ++ Idle
  BY <1>1, ImpliedControl
<1>3. Control.end
  BY <1>2, ExecEndIs
<1>4. QED
  BY <1>3, TimeGoes

\* Nor has an immediate one.
LEMMA ImmediateEnds ==
  ASSUME TypeOK, NEW reset, ~reset, Clocks(Control, reset), Onward, instr.mode = "IMM", timing.t = 1
  PROVE  FALSE
<1>1. ~fetch
  BY DEF Onward, Passes
<1>2. Control = Exec ++ End ++ [inc |-> TRUE] ++ Idle
  BY <1>1, ImmediateControl
<1>3. Control.end
  BY <1>2, ExecIncIs
<1>4. QED
  BY <1>3, TimeGoes

\* Each cycle of a branch leads to the next.
LEMMA BranchStep ==
  ASSUME TypeOK, NEW reset, ~reset, Clocks(Control, reset), Onward, instr.mode = "REL", BranchPhase, ~fetch'
  PROVE  BranchPhase'
<1>1. CASE timing.t = 1
  <2>1. Started
    BY <1>1 DEF BranchPhase
  <2>2. Control = Operand ++ [end |-> ~Taken(instr.cond, p)] ++ Idle
    BY InCycle, <1>1, BranchControl
  <2>3. pc' = (pc + 1) % 65536 /\ ab' = (pc + 1) % 65536 /\ latch'.dl = data /\ ~latch'.wr /\ regs' = regs /\ p' = p /\ (Control.end <=> ~Taken(instr.cond, p))
    BY <2>2, BranchOperandIs
  <2>4. bus' = bus ## Rd(Pc(outcome, 1)) /\ data = A1(outcome) /\ Kept'
    BY <2>1, <2>3, Fetched DEF Started, HasLow, A1, A2, B
  <2>5. timing'.t = 2
    BY TimeGoes, <1>1
  <2>6. HasLow'
    BY InCycle, OperandFacts, <2>1, <2>3, <2>4 DEF HasLow, Started, Made, Reading, Bus1
  <2>7. Taken(instr.cond, outcome.p)
    BY TimeGoes, <2>1, <2>3 DEF Started, Kept
  <2>8. QED
    BY InCycle, <2>5, <2>6, <2>7 DEF BranchPhase
<1>2. CASE timing.t = 2
  <2>1. HasLow /\ Taken(instr.cond, outcome.p)
    BY <1>2 DEF BranchPhase
  <2>2. Control = Add("PCL") ++ Address("ALU", "PC") ++ [load |-> TRUE, acrLoad |-> TRUE, acrBranch |-> TRUE] ++ Idle
    BY InCycle, <1>2, BranchControl
  <2>3. /\ pc' = Word((Low(pc) + latch.dl) % 256, High(pc)) /\ ab' = Word((Low(pc) + latch.dl) % 256, High(pc)) /\ ~latch'.wr
        /\ regs' = regs /\ p' = p
        /\ timing'.acr = (Bit(Low(pc) + latch.dl, 8) + Bit(latch.dl, 7)) % 2 /\ timing'.adir = Bit(latch.dl, 7)
    BY <2>2, BranchAddIs
  <2>4. bus' = bus ## Rd(Pc(outcome, 2)) /\ data = A2(outcome) /\ Kept'
    BY <2>1, <2>3, Fetched DEF Started, HasLow, A1, A2, B
  <2>5. timing'.t = 3
    BY TimeGoes, <1>2
  <2>6. pc = Pc(outcome, 2) /\ latch.dl = A1(outcome) /\ bus = Bus1(outcome)
    BY <2>1 DEF HasLow, Made
  <2>7. /\ pc' = Word(Leap(outcome) % 256, High(Pc(outcome, 2))) /\ Reading(pc)'
        /\ timing'.acr = Leaves(outcome) /\ timing'.adir = Bit(A1(outcome), 7)
    BY <2>3, <2>6 DEF Leap, Leaves, Reading
  <2>8. Leaves(outcome) \in Bin
    <3> DEFINE x == Bit(Leap(outcome), 8)
               y == Bit(A1(outcome), 7)
    <3>1. Low(Pc(outcome, 2)) \in Bytes
      BY OutcomeTypes, WordParts
    <3>2. Leap(outcome) \in Int /\ A1(outcome) \in Int
      BY OperandFacts, <3>1 DEF Leap, Bytes
    <3>3. x \in Bin /\ y \in Bin
      BY <3>2, BitType
    <3> HIDE DEF x, y
    <3>4. (x + y) % 2 \in Bin
      BY <3>3 DEF Bin
    <3>5. QED
      BY <3>4 DEF Leaves, x, y
  <2>9. Leaves(outcome) = 1
    BY InCycle, <2>5, <2>7, <2>8 DEF fetch, Bin
  <2>10. bus' = Bus2(outcome)
    BY <2>4, <2>6 DEF Bus2
  <2>11. QED
    BY InCycle, <2>1, <2>4, <2>5, <2>7, <2>9, <2>10 DEF BranchPhase
<1>3. CASE timing.t = 3
  <2>2. Control = Address("PC", "ALU") ++ [load |-> TRUE, sb |-> "PCH", op |-> IF timing.adir = 1 THEN "SUB" ELSE "ADD", cin |-> IF timing.adir = 1 THEN 0 ELSE 1] ++ End ++ Idle
    BY InCycle, <1>3, BranchControl
  <2>3. Control.end
    BY <2>2, BranchFixIs
  <2>4. QED
    BY <2>3, TimeGoes
<1>4. timing.t <= 3
  BY InInstruction DEF BranchPhase, TypeOK
<1>5. QED
  BY InInstruction, <1>1, <1>2, <1>3, <1>4

\* Each cycle of a jump leads to the next.
LEMMA JumpStep ==
  ASSUME TypeOK, NEW reset, ~reset, Clocks(Control, reset), Onward, instr.mode = "JMP_ABS", JumpPhase
  PROVE  JumpPhase'
<1>1. CASE timing.t = 1
  <2>1. Started
    BY <1>1 DEF JumpPhase
  <2>2. Control = Operand ++ Idle
    BY InCycle, <1>1, JumpControl
  <2>3. pc' = (pc + 1) % 65536 /\ ab' = (pc + 1) % 65536 /\ latch'.dl = data /\ ~latch'.wr /\ regs' = regs /\ p' = p
    BY <2>2, OperandIs
  <2>4. bus' = bus ## Rd(Pc(outcome, 1)) /\ data = A1(outcome) /\ Kept'
    BY <2>1, <2>3, Fetched DEF Started, HasLow, A1, A2, B
  <2>5. timing'.t = 2
    BY TimeGoes, <1>1
  <2>6. HasLow'
    BY InCycle, OperandFacts, <2>1, <2>3, <2>4 DEF HasLow, Started, Made, Reading, Bus1
  <2>7. QED
    BY <2>5, <2>6 DEF JumpPhase
<1>2. CASE timing.t = 2
  <2>2. Control = Jump ++ End ++ Idle
    BY InCycle, <1>2, JumpControl
  <2>3. QED
    BY TimeGoes, <2>2, JumpEndIs
<1>3. timing.t <= 2
  BY InInstruction DEF JumpPhase, TypeOK
<1>4. QED
  BY InInstruction, <1>1, <1>2, <1>3

\* Each cycle of an indirect jump leads to the next.
LEMMA IndirectStep ==
  ASSUME TypeOK, NEW reset, ~reset, Clocks(Control, reset), Onward, instr.mode = "JMP_IND", IndirectPhase
  PROVE  IndirectPhase'
<1>1. CASE timing.t = 1
  <2>1. Started
    BY <1>1 DEF IndirectPhase
  <2>2. Control = Operand ++ Idle
    BY InCycle, <1>1, IndirectControl
  <2>3. pc' = (pc + 1) % 65536 /\ ab' = (pc + 1) % 65536 /\ latch'.dl = data /\ ~latch'.wr /\ regs' = regs /\ p' = p
    BY <2>2, OperandIs
  <2>4. bus' = bus ## Rd(Pc(outcome, 1)) /\ data = A1(outcome) /\ Kept'
    BY <2>1, <2>3, Fetched DEF Started, HasLow, A1, A2, B
  <2>5. timing'.t = 2
    BY TimeGoes, <1>1
  <2>6. HasLow'
    BY InCycle, OperandFacts, <2>1, <2>3, <2>4 DEF HasLow, Started, Made, Reading, Bus1
  <2>7. QED
    BY <2>5, <2>6 DEF IndirectPhase
<1>2. CASE timing.t = 2
  <2>1. HasLow
    BY <1>2 DEF IndirectPhase
  <2>2. Control = Address("DL", "DATA") ++ Idle
    BY InCycle, <1>2, IndirectControl
  <2>3. ab' = Word(latch.dl, data) /\ ~latch'.wr /\ regs' = regs /\ p' = p
    BY <2>2, AddressIs
  <2>4. bus' = bus ## Rd(Pc(outcome, 2)) /\ data = A2(outcome) /\ Kept'
    BY <2>1, <2>3, Fetched DEF HasLow, A2
  <2>5. timing'.t = 3
    BY TimeGoes, <1>2
  <2>6. Reading(Target(outcome))' /\ bus' = Bus2(outcome)
    BY InCycle, <2>1, <2>3, <2>4 DEF HasLow, Made, Reading, Target, Bus2
  <2>7. QED
    BY InCycle, <2>4, <2>5, <2>6 DEF IndirectPhase
<1>3. CASE timing.t = 3
  <2>1. bus = Bus2(outcome) /\ Reading(Target(outcome)) /\ Kept
    BY <1>3 DEF IndirectPhase
  <2>2. Control = [dlLoad |-> TRUE] ++ OneOn ++ Address("ALU", "ABH") ++ Idle
    BY InCycle, <1>3, IndirectControl
  <2>3. latch'.dl = data /\ ab' = Word((Low(ab) + 1) % 256, High(ab)) /\ ~latch'.wr /\ regs' = regs /\ p' = p
    BY <2>2, NextInPageIs
  <2>4. bus' = bus ## Rd(Target(outcome)) /\ data = B(outcome, Target(outcome)) /\ Kept'
    BY <2>1, <2>3, Fetched DEF Started, HasLow, A1, A2, B
  <2>5. timing'.t = 4
    BY TimeGoes, <1>3
  <2>6. Reading(Nip(Target(outcome)))' /\ bus' = Bus2(outcome) ## Rd(Target(outcome)) /\ latch'.dl = B(outcome, Target(outcome))
    BY InCycle, <2>1, <2>3, <2>4 DEF Reading, Nip
  <2>7. QED
    BY InCycle, <2>4, <2>5, <2>6 DEF IndirectPhase
<1>4. CASE timing.t = 4
  <2>2. Control = Jump ++ End ++ Idle
    BY InCycle, <1>4, IndirectControl
  <2>3. QED
    BY TimeGoes, <2>2, JumpEndIs
<1>5. timing.t <= 4
  BY InInstruction DEF IndirectPhase, TypeOK
<1>6. QED
  BY InInstruction, <1>1, <1>2, <1>3, <1>4, <1>5

\* Each cycle of JSR leads to the next.
LEMMA CallStep ==
  ASSUME TypeOK, NEW reset, ~reset, Clocks(Control, reset), Onward, instr.mode = "JSR_ABS", CallPhase
  PROVE  CallPhase'
<1>1. CASE timing.t = 1
  <2>1. Started
    BY <1>1 DEF CallPhase
  <2>2. Control = Operand ++ Stack ++ Idle
    BY InCycle, <1>1, CallControl
  <2>3. pc' = (pc + 1) % 65536 /\ latch'.dl = data /\ ab' = Word(regs.S, 1) /\ ~latch'.wr /\ regs' = regs /\ p' = p
    BY <2>2, OperandStackIs
  <2>4. bus' = bus ## Rd(Pc(outcome, 1)) /\ data = A1(outcome) /\ Kept'
    BY <2>1, <2>3, Fetched DEF Started, HasLow, A1, A2, B
  <2>5. timing'.t = 2
    BY TimeGoes, <1>1
  <2>6. Word(regs.S, 1) = Sp(outcome, 0)
    BY <2>1, NotMoved DEF Started, Kept
  <2>7. bus' = Bus1(outcome) /\ pc' = Pc(outcome, 2) /\ Reading(Sp(outcome, 0))'
    BY InCycle, OperandFacts, <2>1, <2>3, <2>4, <2>6 DEF Started, Made, Bus1, Reading
  <2>8. QED
    BY InCycle, <2>3, <2>4, <2>5, <2>7 DEF CallPhase, Kept
<1>2. CASE timing.t = 2
  <2>1. /\ latch.dl = A1(outcome) /\ pc = Pc(outcome, 2) /\ p = outcome.p /\ bus = Bus1(outcome)
        /\ Reading(Sp(outcome, 0)) /\ regs = outcome.regs
    BY <1>2 DEF CallPhase
  <2>2. Control = Hold ++ Write("PCH") ++ Idle
    BY InCycle, <1>2, CallControl
  <2>3. pc' = pc /\ latch'.dl = latch.dl /\ ab' = ab /\ latch'.dor = High(pc) /\ latch'.wr /\ regs' = regs /\ p' = p
    BY <2>2, PushHighIs
  <2>4. bus' = bus ## Rd(Sp(outcome, 0)) /\ mem' = mem /\ data = ByteAt(mem, Sp(outcome, 0))
    BY InCycle, <2>1, ReadCycle
  <2>5. timing'.t = 3
    BY TimeGoes, <1>2
  <2>6. bus' = BusCall(outcome) /\ Writing(Sp(outcome, 0), High(Pc(outcome, 2)))'
    BY InCycle, <2>1, <2>3, <2>4 DEF BusCall, Reading, Writing
  <2>7. QED
    BY InCycle, <2>1, <2>3, <2>5, <2>6 DEF CallPhase
<1>3. CASE timing.t = 3
  <2>1. /\ latch.dl = A1(outcome) /\ pc = Pc(outcome, 2) /\ p = outcome.p /\ bus = BusCall(outcome)
        /\ Writing(Sp(outcome, 0), High(Pc(outcome, 2))) /\ regs = outcome.regs
    BY <1>3 DEF CallPhase
  <2>2. Control = Down ++ OnStack ++ Write("PCL") ++ Idle
    BY InCycle, <1>3, CallControl
  <2>3. /\ pc' = pc /\ latch'.dl = latch.dl /\ ab' = Word((regs.S + 255) % 256, 1) /\ latch'.dor = Low(pc) /\ latch'.wr
        /\ regs' = [regs EXCEPT !.S = (regs.S + 255) % 256] /\ p' = p
    BY <2>2, PushLowIs
  <2>4. bus' = bus ## Wr(Sp(outcome, 0), High(Pc(outcome, 2)))
    BY InCycle, <2>1, WriteCycle
  <2>5. timing'.t = 4
    BY TimeGoes, <1>3
  <2>6. Moved(-1)' /\ Word((regs.S + 255) % 256, 1) = Sp(outcome, -1)
    BY InCycle, <2>1, <2>3, NotMoved, MovesDown
  <2>7. bus' = BusCall(outcome) ## Wr(Sp(outcome, 0), High(Pc(outcome, 2))) /\ Writing(Sp(outcome, -1), Low(Pc(outcome, 2)))'
    BY InCycle, <2>1, <2>3, <2>4, <2>6 DEF Writing
  <2>8. QED
    BY InCycle, <2>1, <2>3, <2>5, <2>6, <2>7 DEF CallPhase
<1>4. CASE timing.t = 4
  <2>1. /\ latch.dl = A1(outcome) /\ pc = Pc(outcome, 2) /\ p = outcome.p
        /\ bus = BusCall(outcome) ## Wr(Sp(outcome, 0), High(Pc(outcome, 2)))
        /\ Writing(Sp(outcome, -1), Low(Pc(outcome, 2))) /\ Moved(-1)
    BY <1>4 DEF CallPhase
  <2>2. Control = Down ++ Idle
    BY InCycle, <1>4, CallControl
  <2>3. /\ pc' = pc /\ latch'.dl = latch.dl /\ ab' = pc /\ ~latch'.wr
        /\ regs' = [regs EXCEPT !.S = (regs.S + 255) % 256] /\ p' = p
    BY <2>2, DownIs
  <2>4. bus' = bus ## Wr(Sp(outcome, -1), Low(Pc(outcome, 2)))
    BY InCycle, <2>1, WriteCycle
  <2>5. timing'.t = 5
    BY TimeGoes, <1>4
  <2>6. Moved(-2)'
    BY InCycle, <2>1, <2>3, MovesDown
  <2>7. bus' = BusCalled(outcome) /\ Reading(Pc(outcome, 2))'
    BY InCycle, <2>1, <2>3, <2>4 DEF Reading, BusCalled
  <2>8. QED
    BY InCycle, <2>1, <2>3, <2>5, <2>6, <2>7 DEF CallPhase
<1>5. CASE timing.t = 5
  <2>2. Control = Jump ++ End ++ Idle
    BY InCycle, <1>5, CallControl
  <2>3. QED
    BY TimeGoes, <2>2, JumpEndIs
<1>6. timing.t <= 5
  BY InInstruction DEF CallPhase, TypeOK
<1>7. QED
  BY InInstruction, <1>1, <1>2, <1>3, <1>4, <1>5, <1>6

\* Each cycle of RTS leads to the next.
LEMMA ReturnStep ==
  ASSUME TypeOK, NEW reset, ~reset, Clocks(Control, reset), Onward, instr.mode = "RTS_IMP", ReturnPhase
  PROVE  ReturnPhase'
<1>1. CASE timing.t = 1
  <2>1. Started
    BY <1>1 DEF ReturnPhase
  <2>2. Control = Stack ++ Idle
    BY InCycle, <1>1, ReturnControl
  <2>3. pc' = pc /\ ab' = Word(regs.S, 1) /\ ~latch'.wr /\ regs' = regs /\ p' = p
    BY <2>2, StackIs
  <2>4. bus' = bus ## Rd(Pc(outcome, 1)) /\ data = A1(outcome) /\ Kept'
    BY <2>1, <2>3, Fetched DEF Started, HasLow, A1, A2, B
  <2>5. timing'.t = 2
    BY TimeGoes, <1>1
  <2>6. Word(regs.S, 1) = Sp(outcome, 0)
    BY <2>1, NotMoved DEF Started, Kept
  <2>7. bus' = Bus1(outcome) /\ Reading(Sp(outcome, 0))'
    BY InCycle, <2>1, <2>3, <2>4, <2>6 DEF Started, Made, Bus1, Reading
  <2>8. QED
    BY InCycle, <2>3, <2>4, <2>5, <2>7 DEF ReturnPhase, Kept
<1>2. CASE timing.t = 2
  <2>1. /\ p = outcome.p /\ mem = outcome.mem /\ bus = Bus1(outcome)
        /\ Reading(Sp(outcome, 0)) /\ regs = outcome.regs
    BY <1>2 DEF ReturnPhase
  <2>2. Control = Up ++ OnStack ++ Idle
    BY InCycle, <1>2, ReturnControl
  <2>3. /\ ab' = Word((regs.S + 1) % 256, 1) /\ ~latch'.wr
        /\ regs' = [regs EXCEPT !.S = (regs.S + 1) % 256] /\ p' = p
    BY <2>2, UpIs
  <2>4. bus' = bus ## Rd(Sp(outcome, 0)) /\ mem' = mem /\ data = ByteAt(mem, Sp(outcome, 0))
    BY InCycle, <2>1, ReadCycle
  <2>5. timing'.t = 3
    BY TimeGoes, <1>2
  <2>6. Moved(1)' /\ Word((regs.S + 1) % 256, 1) = Sp(outcome, 1)
    BY InCycle, <2>1, <2>3, NotMoved, MovesUp
  <2>7. bus' = BusCall(outcome) /\ Reading(Sp(outcome, 1))'
    BY InCycle, <2>1, <2>3, <2>4, <2>6 DEF Reading, BusCall
  <2>8. QED
    BY InCycle, <2>1, <2>3, <2>4, <2>5, <2>6, <2>7 DEF ReturnPhase
<1>3. CASE timing.t = 3
  <2>1. /\ p = outcome.p /\ mem = outcome.mem /\ bus = BusCall(outcome)
        /\ Reading(Sp(outcome, 1)) /\ Moved(1)
    BY <1>3 DEF ReturnPhase
  <2>2. Control = [dlLoad |-> TRUE] ++ Up ++ OnStack ++ Idle
    BY InCycle, <1>3, ReturnControl
  <2>3. /\ latch'.dl = data /\ ab' = Word((regs.S + 1) % 256, 1) /\ ~latch'.wr
        /\ regs' = [regs EXCEPT !.S = (regs.S + 1) % 256] /\ p' = p
    BY <2>2, UpLoadIs
  <2>4. bus' = bus ## Rd(Sp(outcome, 1)) /\ mem' = mem /\ data = ByteAt(mem, Sp(outcome, 1))
    BY InCycle, <2>1, ReadCycle
  <2>5. timing'.t = 4
    BY TimeGoes, <1>3
  <2>6. Moved(2)' /\ Word((regs.S + 1) % 256, 1) = Sp(outcome, 2)
    BY InCycle, <2>1, <2>3, MovesUp
  <2>7. bus' = BusCall(outcome) ## Rd(Sp(outcome, 1)) /\ Reading(Sp(outcome, 2))'
    BY InCycle, <2>1, <2>3, <2>4, <2>6 DEF Reading
  <2>8. latch'.dl = B(outcome, Sp(outcome, 1))
    BY <2>1, <2>3, <2>4 DEF B
  <2>9. QED
    BY InCycle, <2>1, <2>3, <2>4, <2>5, <2>6, <2>7, <2>8 DEF ReturnPhase
<1>4. CASE timing.t = 4
  <2>1. /\ p = outcome.p /\ mem = outcome.mem /\ bus = BusCall(outcome) ## Rd(Sp(outcome, 1))
        /\ Reading(Sp(outcome, 2)) /\ Moved(2) /\ latch.dl = B(outcome, Sp(outcome, 1))
    BY <1>4 DEF ReturnPhase
  <2>2. Control = Jump ++ Idle
    BY InCycle, <1>4, ReturnControl
  <2>3. pc' = Word(latch.dl, data) /\ ab' = Word(latch.dl, data) /\ ~latch'.wr /\ regs' = regs /\ p' = p
    BY <2>2, JumpIs
  <2>4. bus' = bus ## Rd(Sp(outcome, 2)) /\ mem' = mem /\ data = ByteAt(mem, Sp(outcome, 2))
    BY InCycle, <2>1, ReadCycle
  <2>5. timing'.t = 5
    BY TimeGoes, <1>4
  <2>6. Moved(2)'
    BY InCycle, <2>1, <2>3 DEF Moved
  <2>7. data = B(outcome, Sp(outcome, 2))
    BY <2>1, <2>4 DEF B
  <2>8. bus' = BusCall(outcome) ## Rd(Sp(outcome, 1)) ## Rd(Sp(outcome, 2)) /\ Reading(ReturnTo(outcome))' /\ pc' = ReturnTo(outcome)
    BY InCycle, <2>1, <2>3, <2>4, <2>7 DEF Reading, ReturnTo
  <2>9. QED
    BY InCycle, <2>1, <2>3, <2>4, <2>5, <2>6, <2>8 DEF ReturnPhase
<1>5. CASE timing.t = 5
  <2>2. Control = [inc |-> TRUE] ++ End ++ Idle
    BY InCycle, <1>5, ReturnControl
  <2>3. QED
    BY TimeGoes, <2>2, IncEndIs
<1>6. timing.t <= 5
  BY InInstruction DEF ReturnPhase, TypeOK
<1>7. QED
  BY InInstruction, <1>1, <1>2, <1>3, <1>4, <1>5, <1>6

\* Each cycle of RTI leads to the next.
LEMMA ReturnFromInterruptStep ==
  ASSUME TypeOK, NEW reset, ~reset, Clocks(Control, reset), Onward, instr.mode = "RTI_IMP", ReturnFromInterruptPhase
  PROVE  ReturnFromInterruptPhase'
<1>1. CASE timing.t = 1
  <2>1. Started
    BY <1>1 DEF ReturnFromInterruptPhase
  <2>2. Control = Stack ++ Idle
    BY InCycle, <1>1, ReturnFromInterruptControl
  <2>3. pc' = pc /\ ab' = Word(regs.S, 1) /\ ~latch'.wr /\ regs' = regs /\ p' = p
    BY <2>2, StackIs
  <2>4. bus' = bus ## Rd(Pc(outcome, 1)) /\ data = A1(outcome) /\ Kept'
    BY <2>1, <2>3, Fetched DEF Started, HasLow, A1, A2, B
  <2>5. timing'.t = 2
    BY TimeGoes, <1>1
  <2>6. Word(regs.S, 1) = Sp(outcome, 0)
    BY <2>1, NotMoved DEF Started, Kept
  <2>7. bus' = Bus1(outcome) /\ Reading(Sp(outcome, 0))'
    BY InCycle, <2>1, <2>3, <2>4, <2>6 DEF Started, Made, Bus1, Reading
  <2>8. QED
    BY InCycle, <2>3, <2>4, <2>5, <2>7 DEF ReturnFromInterruptPhase, Kept
<1>2. CASE timing.t = 2
  <2>1. /\ p = outcome.p /\ mem = outcome.mem /\ bus = Bus1(outcome)
        /\ Reading(Sp(outcome, 0)) /\ regs = outcome.regs
    BY <1>2 DEF ReturnFromInterruptPhase
  <2>2. Control = Up ++ OnStack ++ Idle
    BY InCycle, <1>2, ReturnFromInterruptControl
  <2>3. /\ ab' = Word((regs.S + 1) % 256, 1) /\ ~latch'.wr
        /\ regs' = [regs EXCEPT !.S = (regs.S + 1) % 256] /\ p' = p
    BY <2>2, UpIs
  <2>4. bus' = bus ## Rd(Sp(outcome, 0)) /\ mem' = mem /\ data = ByteAt(mem, Sp(outcome, 0))
    BY InCycle, <2>1, ReadCycle
  <2>5. timing'.t = 3
    BY TimeGoes, <1>2
  <2>6. Moved(1)' /\ Word((regs.S + 1) % 256, 1) = Sp(outcome, 1)
    BY InCycle, <2>1, <2>3, NotMoved, MovesUp
  <2>7. bus' = BusCall(outcome) /\ Reading(Sp(outcome, 1))'
    BY InCycle, <2>1, <2>3, <2>4, <2>6 DEF Reading, BusCall
  <2>8. QED
    BY InCycle, <2>1, <2>3, <2>4, <2>5, <2>6, <2>7 DEF ReturnFromInterruptPhase
<1>3. CASE timing.t = 3
  <2>1. /\ mem = outcome.mem /\ bus = BusCall(outcome)
        /\ Reading(Sp(outcome, 1)) /\ Moved(1)
    BY <1>3 DEF ReturnFromInterruptPhase
  <2>2. Control = [pLoad |-> TRUE] ++ Up ++ OnStack ++ Idle
    BY InCycle, <1>3, ReturnFromInterruptControl
  <2>3. /\ ab' = Word((regs.S + 1) % 256, 1) /\ ~latch'.wr
        /\ regs' = [regs EXCEPT !.S = (regs.S + 1) % 256] /\ p' = Unpack(data)
    BY <2>2, UpStatusIs
  <2>4. bus' = bus ## Rd(Sp(outcome, 1)) /\ mem' = mem /\ data = ByteAt(mem, Sp(outcome, 1))
    BY InCycle, <2>1, ReadCycle
  <2>5. timing'.t = 4
    BY TimeGoes, <1>3
  <2>6. Moved(2)' /\ Word((regs.S + 1) % 256, 1) = Sp(outcome, 2)
    BY InCycle, <2>1, <2>3, MovesUp
  <2>7. bus' = BusCall(outcome) ## Rd(Sp(outcome, 1)) /\ Reading(Sp(outcome, 2))'
    BY InCycle, <2>1, <2>3, <2>4, <2>6 DEF Reading
  <2>8. data = B(outcome, Sp(outcome, 1))
    BY <2>1, <2>4 DEF B
  <2>9. QED
    BY InCycle, <2>1, <2>3, <2>4, <2>5, <2>6, <2>7, <2>8 DEF ReturnFromInterruptPhase
<1>4. CASE timing.t = 4
  <2>1. /\ mem = outcome.mem /\ bus = BusCall(outcome) ## Rd(Sp(outcome, 1))
        /\ Reading(Sp(outcome, 2)) /\ Moved(2) /\ p = Unpack(B(outcome, Sp(outcome, 1)))
    BY <1>4 DEF ReturnFromInterruptPhase
  <2>2. Control = [dlLoad |-> TRUE] ++ Up ++ OnStack ++ Idle
    BY InCycle, <1>4, ReturnFromInterruptControl
  <2>3. /\ latch'.dl = data /\ ab' = Word((regs.S + 1) % 256, 1) /\ ~latch'.wr
        /\ regs' = [regs EXCEPT !.S = (regs.S + 1) % 256] /\ p' = p
    BY <2>2, UpLoadIs
  <2>4. bus' = bus ## Rd(Sp(outcome, 2)) /\ mem' = mem /\ data = ByteAt(mem, Sp(outcome, 2))
    BY InCycle, <2>1, ReadCycle
  <2>5. timing'.t = 5
    BY TimeGoes, <1>4
  <2>6. Moved(3)' /\ Word((regs.S + 1) % 256, 1) = Sp(outcome, 3)
    BY InCycle, <2>1, <2>3, MovesUp
  <2>7. bus' = BusCall(outcome) ## Rd(Sp(outcome, 1)) ## Rd(Sp(outcome, 2)) /\ Reading(Sp(outcome, 3))'
    BY InCycle, <2>1, <2>3, <2>4, <2>6 DEF Reading
  <2>8. latch'.dl = B(outcome, Sp(outcome, 2))
    BY <2>1, <2>3, <2>4 DEF B
  <2>9. QED
    BY InCycle, <2>1, <2>3, <2>4, <2>5, <2>6, <2>7, <2>8 DEF ReturnFromInterruptPhase
<1>5. CASE timing.t = 5
  <2>2. Control = Jump ++ End ++ Idle
    BY InCycle, <1>5, ReturnFromInterruptControl
  <2>3. QED
    BY TimeGoes, <2>2, JumpEndIs
<1>6. timing.t <= 5
  BY InInstruction DEF ReturnFromInterruptPhase, TypeOK
<1>7. QED
  BY InInstruction, <1>1, <1>2, <1>3, <1>4, <1>5, <1>6

\* Each cycle of a push leads to the next.
LEMMA PushStep ==
  ASSUME TypeOK, NEW reset, ~reset, Clocks(Control, reset), Onward, instr.mode = "PUSH", PushPhase
  PROVE  PushPhase'
<1>1. CASE timing.t = 1
  <2>1. Started
    BY <1>1 DEF PushPhase
  <2>2. Control = Stack ++ Write(instr.store) ++ [pushB |-> 1] ++ Idle
    BY InCycle, <1>1, PushControl
  <2>3. /\ pc' = pc /\ ab' = Word(regs.S, 1) /\ latch'.wr /\ regs' = regs /\ p' = p
        /\ instr.store \in {"A", "P"} => latch'.dor = IF instr.store = "P" THEN Pack(p, 1) ELSE regs.A
    BY <2>2, PushIs
  <2>4. bus' = bus ## Rd(Pc(outcome, 1)) /\ data = A1(outcome) /\ Kept'
    BY <2>1, <2>3, Fetched DEF Started, HasLow, A1, A2, B
  <2>5. timing'.t = 2
    BY TimeGoes, <1>1
  <2>6. Word(regs.S, 1) = Sp(outcome, 0)
    BY <2>1, NotMoved DEF Started, Kept
  <2>7. instr.store \in {"A", "P"}
    BY InstrIs DEF Instr
  <2>8. latch'.dor = IF instr.store = "P" THEN Pack(outcome.p, 1) ELSE outcome.regs[instr.store]
    BY <2>1, <2>3, <2>7 DEF Started, Kept
  <2>9. Writing(Sp(outcome, 0), IF instr.store = "P" THEN Pack(outcome.p, 1) ELSE outcome.regs[instr.store])'
    BY InCycle, <2>3, <2>6, <2>8 DEF Writing
  <2>10. Made(Bus1(outcome), 1)'
    BY InCycle, <2>1, <2>3, <2>4 DEF Started, Made, Bus1
  <2>11. QED
    BY <2>4, <2>5, <2>9, <2>10 DEF PushPhase
<1>2. CASE timing.t = 2
  <2>2. Control = Down ++ End ++ Idle
    BY InCycle, <1>2, PushControl
  <2>3. QED
    BY TimeGoes, <2>2, DownEndIs
<1>3. timing.t <= 2
  BY InInstruction DEF PushPhase, TypeOK
<1>4. QED
  BY InInstruction, <1>1, <1>2, <1>3

\* Each cycle of a pull leads to the next.
LEMMA PullStep ==
  ASSUME TypeOK, NEW reset, ~reset, Clocks(Control, reset), Onward, instr.mode = "PULL", PullPhase
  PROVE  PullPhase'
<1>1. CASE timing.t = 1
  <2>1. Started
    BY <1>1 DEF PullPhase
  <2>2. Control = Stack ++ Idle
    BY InCycle, <1>1, PullControl
  <2>3. pc' = pc /\ ab' = Word(regs.S, 1) /\ ~latch'.wr /\ regs' = regs /\ p' = p
    BY <2>2, StackIs
  <2>4. bus' = bus ## Rd(Pc(outcome, 1)) /\ data = A1(outcome) /\ Kept'
    BY <2>1, <2>3, Fetched DEF Started, HasLow, A1, A2, B
  <2>5. timing'.t = 2
    BY TimeGoes, <1>1
  <2>6. Word(regs.S, 1) = Sp(outcome, 0)
    BY <2>1, NotMoved DEF Started, Kept
  <2>7. bus' = Bus1(outcome) /\ Reading(Sp(outcome, 0))'
    BY InCycle, <2>1, <2>3, <2>4, <2>6 DEF Started, Made, Bus1, Reading
  <2>8. QED
    BY InCycle, <2>1, <2>3, <2>4, <2>5, <2>7 DEF PullPhase, Kept, Started, Made
<1>2. CASE timing.t = 2
  <2>1. /\ pc = Pc(outcome, 1) /\ p = outcome.p /\ mem = outcome.mem /\ bus = Bus1(outcome)
        /\ Reading(Sp(outcome, 0)) /\ regs = outcome.regs
    BY <1>2 DEF PullPhase
  <2>2. Control = Up ++ OnStack ++ Idle
    BY InCycle, <1>2, PullControl
  <2>3. /\ pc' = pc /\ ab' = Word((regs.S + 1) % 256, 1) /\ ~latch'.wr
        /\ regs' = [regs EXCEPT !.S = (regs.S + 1) % 256] /\ p' = p
    BY <2>2, UpIs
  <2>4. bus' = bus ## Rd(Sp(outcome, 0)) /\ mem' = mem /\ data = ByteAt(mem, Sp(outcome, 0))
    BY InCycle, <2>1, ReadCycle
  <2>5. timing'.t = 3
    BY TimeGoes, <1>2
  <2>6. Moved(1)' /\ Word((regs.S + 1) % 256, 1) = Sp(outcome, 1)
    BY InCycle, <2>1, <2>3, NotMoved, MovesUp
  <2>7. bus' = BusCall(outcome) /\ Reading(Sp(outcome, 1))'
    BY InCycle, <2>1, <2>3, <2>4, <2>6 DEF Reading, BusCall
  <2>8. QED
    BY InCycle, <2>1, <2>3, <2>4, <2>5, <2>6, <2>7 DEF PullPhase
<1>3. CASE timing.t = 3
  <2>2. Control = Exec ++ End ++ Idle
    BY InCycle, <1>3, PullControl
  <2>3. QED
    BY TimeGoes, <2>2, ExecEndIs
<1>4. timing.t <= 3
  BY InInstruction DEF PullPhase, TypeOK
<1>5. QED
  BY InInstruction, <1>1, <1>2, <1>3, <1>4

-----------------------------------------------------------------------------
(* The sequence of BRK, the interrupts and reset                            *)

\* The two bytes of a vector.
LEMMA VectorNext ==
  \A v \in {\hfffa, \hfffc, \hfffe} : Word((Low(v) + 1) % 256, High(v)) = v + 1
BY DEF Word, Low, High

\* What was on the bus before another cycle.
LEMMA AgoIs ==
  ASSUME NEW s, IsSeq(s), NEW e
  PROVE  /\ Ago(s ## e, 0) = e /\ Len(s ## e) = Len(s) + 1 /\ Len(s) \in Nat
         /\ Len(s) >= 1 => Ago(s ## e, 1) = Ago(s, 0)
         /\ Len(s) >= 2 => Ago(s ## e, 2) = Ago(s, 1)
         /\ Len(s) >= 3 => Ago(s ## e, 3) = Ago(s, 2)
         /\ Len(s) >= 4 => Ago(s ## e, 4) = Ago(s, 3)
<1>1. /\ Len(s ## e) = Len(s) + 1 /\ Len(s) \in Nat /\ (s ## e)[Len(s) + 1] = e
      /\ \A i \in 1..Len(s) : (s ## e)[i] = s[i]
  BY ChainIs
<1>2. Ago(s ## e, 0) = (s ## e)[Len(s) + 1]
  BY <1>1 DEF Ago
<1>3. \A j \in 1..4 : Len(s) >= j => (s ## e)[Len(s) + 1 - j] = s[Len(s) + 1 - j]
  BY <1>1
<1>4. ASSUME NEW j \in 1..4, Len(s) >= j
      PROVE  Ago(s ## e, j) = Ago(s, j - 1)
  <2>1. Len(s) + 1 - j = Len(s) - (j - 1)
    BY <1>1
  <2>2. (s ## e)[Len(s) + 1 - j] = s[Len(s) + 1 - j]
    BY <1>3, <1>4
  <2>3. QED
    BY <1>1, <2>1, <2>2 DEF Ago
<1>5. 1 - 1 = 0 /\ 2 - 1 = 1 /\ 3 - 1 = 2 /\ 4 - 1 = 3
  OBVIOUS
<1>6. QED
  BY <1>1, <1>2, <1>4, <1>5

\* The stack pointer has gone down by one.
LEMMA StackFell ==
  ASSUME TypeOK, regs' = [regs EXCEPT !.S = (regs.S + 255) % 256]
  PROVE  /\ Word((regs.S + 255) % 256, 1) = StackAt(regs'.S)
         /\ StackAt(regs'.S + 1) = StackAt(regs.S)
         /\ StackAt(regs'.S + 2) = StackAt(regs.S + 1)
         /\ StackAt(regs'.S + 3) = StackAt(regs.S + 2)
<1>1. regs \in [RegNames -> Bytes] /\ "S" \in RegNames
  BY DEF TypeOK, RegNames
<1> DEFINE s == regs.S
<1>2. s \in Bytes
  BY <1>1
<1>3. regs'.S = (s + 255) % 256
  BY <1>1
<1> HIDE DEF s
<1>4. s \in Int /\ s + 255 \in Int
  BY <1>2 DEF Bytes
<1>5. \A k \in 0..3 : (((s + 255) % 256) + k) % 256 = (s + 255 + k) % 256
  BY <1>4, ByteWrapsTwice
<1>6. /\ (((s + 255) % 256) + 0) % 256 = (s + 255 + 0) % 256 /\ (((s + 255) % 256) + 1) % 256 = (s + 255 + 1) % 256
      /\ (((s + 255) % 256) + 2) % 256 = (s + 255 + 2) % 256 /\ (((s + 255) % 256) + 3) % 256 = (s + 255 + 3) % 256
  BY <1>5
<1>7. /\ (s + 255 + 1) % 256 = s % 256 /\ (s + 255 + 2) % 256 = (s + 1) % 256
      /\ (s + 255 + 3) % 256 = (s + 2) % 256
  BY <1>4
<1>8. ((s + 255) % 256) % 256 = (s + 255) % 256
  BY <1>4
<1>9. QED
  BY <1>3, <1>6, <1>7, <1>8 DEF StackAt, s

\* Each cycle of BRK and the interrupts leads to the next.
LEMMA EnterStep ==
  ASSUME TypeOK, NEW reset, ~reset, Clocks(Control, reset), Onward, instr.mode = "BRK_IMP", timing.kind # "reset", Begun, EnterPhase
  PROVE  EnterPhase'
<1>a. timing.kind \in {"brk", "irq", "nmi"}
  BY DEF TypeOK, Kinds
<1>b. ~resetting /\ (hw <=> timing.kind # "brk")
  BY DEF resetting, hw
<1>c. (outcome.pc + 1) % 65536 = Pc(outcome, 1) /\ Pc(outcome, 0) = outcome.pc
  BY PcNext
<1>1. CASE timing.t = 1
  <2>1. Made(Bus0(outcome), Brk(timing.kind)) /\ Reading(Pc(outcome, Brk(timing.kind))) /\ Kept
    BY <1>1 DEF EnterPhase
  <2>2. Control = [inc |-> ~hw] ++ Stack ++ [write |-> ~resetting, dor |-> "PCH"] ++ Idle
    BY InCycle, <1>1, EnterControl
  <2>3. /\ pc' = (IF hw THEN pc ELSE (pc + 1) % 65536) /\ ab' = Word(regs.S, 1)
        /\ (latch'.wr <=> ~resetting) /\ latch'.dor = High(pc') /\ regs' = regs /\ p' = p
    BY <2>2, EnterHighIs
  <2>4. bus' = bus ## Rd(Pc(outcome, Brk(timing.kind))) /\ data = B(outcome, Pc(outcome, Brk(timing.kind))) /\ Kept'
    BY <2>1, <2>3, Fetched DEF Started, HasLow, A1, A2, B
  <2>5. timing'.t = 2
    BY TimeGoes, <1>1
  <2>6. Word(regs.S, 1) = Sp(outcome, 0)
    BY <2>1, NotMoved DEF Kept
  <2>7. pc' = Back(outcome, timing.kind)
    BY <1>b, <1>c, OperandFacts, <2>1, <2>3 DEF Made, Brk, Back
  <2>8. bus' = BusEnter(outcome, timing.kind) /\ Writing(Sp(outcome, 0), High(Back(outcome, timing.kind)))'
    BY InCycle, <1>b, <2>1, <2>3, <2>4, <2>6, <2>7 DEF Made, Writing, BusEnter
  <2>9. QED
    BY InCycle, <2>3, <2>4, <2>5, <2>7, <2>8 DEF EnterPhase, Kept
<1>2. CASE timing.t = 2
  <2>1. /\ pc = Back(outcome, timing.kind) /\ p = outcome.p /\ bus = BusEnter(outcome, timing.kind)
        /\ Writing(Sp(outcome, 0), High(Back(outcome, timing.kind))) /\ regs = outcome.regs
    BY <1>2 DEF EnterPhase
  <2>2. Control = Down ++ OnStack ++ [write |-> ~resetting, dor |-> "PCL"] ++ Idle
    BY InCycle, <1>2, EnterControl
  <2>3. /\ pc' = pc /\ ab' = Word((regs.S + 255) % 256, 1)
        /\ (latch'.wr <=> ~resetting) /\ latch'.dor = Low(pc)
        /\ regs' = [regs EXCEPT !.S = (regs.S + 255) % 256] /\ p' = p
    BY <2>2, EnterLowIs
  <2>4. bus' = bus ## Wr(Sp(outcome, 0), High(Back(outcome, timing.kind)))
    BY InCycle, <2>1, WriteCycle
  <2>5. timing'.t = 3
    BY TimeGoes, <1>2
  <2>6. Moved(-1)' /\ Word((regs.S + 255) % 256, 1) = Sp(outcome, -1)
    BY InCycle, <2>1, <2>3, NotMoved, MovesDown
  <2>7. bus' = BusEnter(outcome, timing.kind) ## Wr(Sp(outcome, 0), High(Back(outcome, timing.kind)))
    BY <2>1, <2>4
  <2>8. Writing(Sp(outcome, -1), Low(Back(outcome, timing.kind)))'
    BY InCycle, <1>b, <2>1, <2>3, <2>6 DEF Writing
  <2>9. QED
    BY InCycle, <2>1, <2>3, <2>5, <2>6, <2>7, <2>8 DEF EnterPhase
<1>3. CASE timing.t = 3
  <2>1. /\ pc = Back(outcome, timing.kind) /\ p = outcome.p /\ bus = BusEnter(outcome, timing.kind) ## Wr(Sp(outcome, 0), High(Back(outcome, timing.kind)))
        /\ Writing(Sp(outcome, -1), Low(Back(outcome, timing.kind))) /\ Moved(-1)
    BY <1>3 DEF EnterPhase
  <2>2. Control = Down ++ OnStack ++ [write |-> ~resetting, dor |-> "P"] ++ [pushB |-> IF hw THEN 0 ELSE 1] ++ Idle
    BY InCycle, <1>3, EnterControl
  <2>3. /\ pc' = pc /\ ab' = Word((regs.S + 255) % 256, 1)
        /\ (latch'.wr <=> ~resetting) /\ latch'.dor = Pack(p, IF hw THEN 0 ELSE 1)
        /\ regs' = [regs EXCEPT !.S = (regs.S + 255) % 256] /\ p' = p
    BY <2>2, EnterStatusIs
  <2>4. bus' = bus ## Wr(Sp(outcome, -1), Low(Back(outcome, timing.kind)))
    BY InCycle, <2>1, WriteCycle
  <2>5. timing'.t = 4
    BY TimeGoes, <1>3
  <2>6. Moved(-2)' /\ Word((regs.S + 255) % 256, 1) = Sp(outcome, -2)
    BY InCycle, <2>1, <2>3, MovesDown
  <2>7. bus' = BusEnter(outcome, timing.kind) ## Wr(Sp(outcome, 0), High(Back(outcome, timing.kind))) ## Wr(Sp(outcome, -1), Low(Back(outcome, timing.kind)))
    BY <2>1, <2>4
  <2>8. (IF hw THEN 0 ELSE 1) = Brk(timing.kind)
    BY <1>b DEF Brk
  <2>9. Writing(Sp(outcome, -2), Pack(outcome.p, Brk(timing.kind)))'
    BY InCycle, <1>b, <2>1, <2>3, <2>6, <2>8 DEF Writing
  <2>10. QED
    BY InCycle, <2>1, <2>3, <2>5, <2>6, <2>7, <2>9 DEF EnterPhase
<1>4. CASE timing.t = 4
  <2>1. /\ pc = Back(outcome, timing.kind) /\ p = outcome.p
        /\ bus = BusEnter(outcome, timing.kind) ## Wr(Sp(outcome, 0), High(Back(outcome, timing.kind))) ## Wr(Sp(outcome, -1), Low(Back(outcome, timing.kind)))
        /\ Writing(Sp(outcome, -2), Pack(outcome.p, Brk(timing.kind))) /\ Moved(-2)
    BY <1>4 DEF EnterPhase
  <2>2. Control = Down ++ Address("VECTOR", "FF") ++ [intTake |-> TRUE, fop |-> <<"i", 1>>] ++ Idle
    BY InCycle, <1>4, EnterControl
  <2>3. /\ ab' = Word(vec, 255) /\ ~latch'.wr
        /\ regs' = [regs EXCEPT !.S = (regs.S + 255) % 256] /\ p' = [p EXCEPT !.i = 1]
    BY <2>2, VectorIs
  <2>4. bus' = bus ## Wr(Sp(outcome, -2), Pack(outcome.p, Brk(timing.kind)))
    BY InCycle, <2>1, WriteCycle
  <2>5. timing'.t = 5
    BY TimeGoes, <1>4
  <2>6. Moved(-3)'
    BY InCycle, <2>1, <2>3, MovesDown
  <2>7. bus' = BusPushed(outcome, timing.kind)
    BY <2>1, <2>4 DEF BusPushed
  <2>8. Word(vec, 255) \in Vectors(timing.kind)
    <3>1. timing.kind = "nmi" => timing.nmi_latch
      BY <1>4 DEF Begun
    <3>2. vec = 250 \/ (vec = 254 /\ timing.kind # "nmi")
      BY <1>b, <3>1 DEF vec
    <3>3. Word(250, 255) = 65530 /\ Word(254, 255) = 65534
      BY DEF Word
    <3>4. QED
      BY <3>2, <3>3 DEF Vectors
  <2>9. /\ p' = [outcome.p EXCEPT !.i = 1] /\ \E v \in Vectors(timing.kind) : bus' = BusPushed(outcome, timing.kind) /\ ~latch'.wr /\ ab' = v
    BY <2>1, <2>3, <2>7, <2>8
  <2>10. QED
    BY InCycle, <2>5, <2>6, <2>9 DEF EnterPhase, Reading
<1>5. CASE timing.t = 5
  <2>1. PICK v \in Vectors(timing.kind) : bus = BusPushed(outcome, timing.kind) /\ Reading(v)
    BY <1>5 DEF EnterPhase
  <2>2. Moved(-3) /\ p = [outcome.p EXCEPT !.i = 1]
    BY <1>5 DEF EnterPhase
  <2>3. Control = [dlLoad |-> TRUE] ++ OneOn ++ Address("ALU", "ABH") ++ Idle
    BY InCycle, <1>5, EnterControl
  <2>4. latch'.dl = data /\ ab' = Word((Low(ab) + 1) % 256, High(ab)) /\ ~latch'.wr /\ regs' = regs /\ p' = p
    BY <2>3, NextInPageIs
  <2>5. bus' = bus ## Rd(v) /\ mem' = mem /\ data = ByteAt(mem, v)
    BY InCycle, <2>1, ReadCycle
  <2>6. Word((Low(v) + 1) % 256, High(v)) = v + 1
    BY VectorNext DEF Vectors
  <2>7. ab' = v + 1
    BY <2>1, <2>4, <2>6 DEF Reading
  <2>8. timing'.t = 6
    BY TimeGoes, <1>5
  <2>9. Moved(-3)' /\ p' = [outcome'.p EXCEPT !.i = 1]
    BY InCycle, <2>2, <2>4 DEF Moved
  <2>10. bus' = BusPushed(outcome, timing.kind) ## Rd(v) /\ ~latch'.wr /\ ab' = v + 1 /\ latch'.dl = ByteAt(mem', v)
    BY <2>1, <2>4, <2>5, <2>7
  <2>11. QED
    BY InCycle, <2>8, <2>9, <2>10 DEF EnterPhase, Reading
<1>6. CASE timing.t = 6
  <2>2. Control = Jump ++ End ++ Idle
    BY InCycle, <1>6, EnterControl
  <2>3. QED
    BY TimeGoes, <2>2, JumpEndIs
<1>7. timing.t <= 6
  BY InInstruction DEF EnterPhase, TypeOK
<1>8. QED
  BY InInstruction, <1>1, <1>2, <1>3, <1>4, <1>5, <1>6, <1>7

\* Each cycle of the reset leads to the next.
LEMMA ResetStep ==
  ASSUME TypeOK, NEW reset, ~reset, Clocks(Control, reset), Onward, instr.mode = "BRK_IMP", timing.kind = "reset", ResetPhase
  PROVE  ResetPhase'
<1>a. resetting /\ IsSeq(bus)
  BY DEF resetting, TypeOK, IsSeq
<1> DEFINE s == regs.S
<1>b. s \in Bytes
  BY DEF TypeOK, RegNames
<1>1. CASE timing.t = 1
  <2>1. Control = [inc |-> ~hw] ++ Stack ++ [write |-> ~resetting, dor |-> "PCH"] ++ Idle
    BY InCycle, <1>1, EnterControl
  <2>2. ab' = Word(regs.S, 1) /\ (latch'.wr <=> ~resetting) /\ regs' = regs
    BY <2>1, EnterHighIs
  <2>3. s % 256 = s
    <3>1. s \in Int
      BY <1>b DEF Bytes
    <3>2. QED
      BY <1>b, <3>1, ByteWraps
  <2>4. timing'.t = 2
    BY TimeGoes, <1>1
  <2>5. Reading(StackAt(regs.S))'
    BY <1>a, <2>2, <2>3 DEF Reading, StackAt
  <2>6. QED
    BY <2>4, <2>5 DEF ResetPhase
<1>2. CASE timing.t = 2
  <2>1. Reading(StackAt(regs.S))
    BY <1>2 DEF ResetPhase
  <2>2. Control = Down ++ OnStack ++ [write |-> ~resetting, dor |-> "PCL"] ++ Idle
    BY InCycle, <1>2, EnterControl
  <2>3. ab' = Word((regs.S + 255) % 256, 1) /\ (latch'.wr <=> ~resetting) /\ regs' = [regs EXCEPT !.S = (regs.S + 255) % 256]
    BY <2>2, EnterLowIs
  <2>4. /\ Word((regs.S + 255) % 256, 1) = StackAt(regs'.S) /\ StackAt(regs'.S + 1) = StackAt(regs.S)
        /\ StackAt(regs'.S + 2) = StackAt(regs.S + 1)
    BY <2>3, StackFell
  <2>5. bus' = bus ## Rd(StackAt(regs.S))
    BY InCycle, <2>1, ReadCycle
  <2>6. timing'.t = 3
    BY TimeGoes, <1>2
  <2>7. Reading(StackAt(regs.S))'
    BY <1>a, <2>3, <2>4 DEF Reading
  <2>8. Len(bus') >= 1 /\ Ago(bus', 0) = Rd(StackAt(regs'.S + 1))
    BY <1>a, <2>1, <2>4, <2>5, AgoIs
  <2>9. QED
    BY <2>6, <2>7, <2>8 DEF ResetPhase
<1>3. CASE timing.t = 3
  <2>1. Reading(StackAt(regs.S)) /\ Len(bus) >= 1 /\ Ago(bus, 0) = Rd(StackAt(regs.S + 1))
    BY <1>3 DEF ResetPhase
  <2>2. Control = Down ++ OnStack ++ [write |-> ~resetting, dor |-> "P"] ++ [pushB |-> IF hw THEN 0 ELSE 1] ++ Idle
    BY InCycle, <1>3, EnterControl
  <2>3. ab' = Word((regs.S + 255) % 256, 1) /\ (latch'.wr <=> ~resetting) /\ regs' = [regs EXCEPT !.S = (regs.S + 255) % 256]
    BY <2>2, EnterStatusIs
  <2>4. /\ Word((regs.S + 255) % 256, 1) = StackAt(regs'.S) /\ StackAt(regs'.S + 1) = StackAt(regs.S)
        /\ StackAt(regs'.S + 2) = StackAt(regs.S + 1)
    BY <2>3, StackFell
  <2>5. bus' = bus ## Rd(StackAt(regs.S))
    BY InCycle, <2>1, ReadCycle
  <2>6. timing'.t = 4
    BY TimeGoes, <1>3
  <2>7. Reading(StackAt(regs.S))'
    BY <1>a, <2>3, <2>4 DEF Reading
  <2>8. /\ Len(bus') >= 2 /\ Ago(bus', 1) = Rd(StackAt(regs'.S + 2))
        /\ Ago(bus', 0) = Rd(StackAt(regs'.S + 1))
    BY <1>a, <2>1, <2>4, <2>5, AgoIs
  <2>9. QED
    BY <2>6, <2>7, <2>8 DEF ResetPhase
<1>4. CASE timing.t = 4
  <2>1. /\ Reading(StackAt(regs.S)) /\ Len(bus) >= 2
        /\ Ago(bus, 1) = Rd(StackAt(regs.S + 2)) /\ Ago(bus, 0) = Rd(StackAt(regs.S + 1))
    BY <1>4 DEF ResetPhase
  <2>2. Control = Down ++ Address("VECTOR", "FF") ++ [intTake |-> TRUE, fop |-> <<"i", 1>>] ++ Idle
    BY InCycle, <1>4, EnterControl
  <2>3. ab' = Word(vec, 255) /\ ~latch'.wr /\ regs' = [regs EXCEPT !.S = (regs.S + 255) % 256] /\ p' = [p EXCEPT !.i = 1]
    BY <2>2, VectorIs
  <2>4. /\ StackAt(regs'.S + 1) = StackAt(regs.S) /\ StackAt(regs'.S + 2) = StackAt(regs.S + 1)
        /\ StackAt(regs'.S + 3) = StackAt(regs.S + 2)
    BY <2>3, StackFell
  <2>5. bus' = bus ## Rd(StackAt(regs.S))
    BY InCycle, <2>1, ReadCycle
  <2>6. timing'.t = 5
    BY TimeGoes, <1>4
  <2>7. ab' \in {\hfffc, \hfffa}
    <3>1. vec = 250 \/ vec = 252
      BY <1>a DEF vec
    <3>2. Word(250, 255) = 65530 /\ Word(252, 255) = 65532
      BY DEF Word
    <3>3. QED
      BY <2>3, <3>1, <3>2
  <2>8. /\ Len(bus') >= 3 /\ Ago(bus', 2) = Rd(StackAt(regs'.S + 3))
        /\ Ago(bus', 1) = Rd(StackAt(regs'.S + 2)) /\ Ago(bus', 0) = Rd(StackAt(regs'.S + 1))
    BY <1>a, <2>1, <2>4, <2>5, AgoIs
  <2>9. p'.i = 1
    BY <2>3 DEF TypeOK, Statuses
  <2>10. QED
    BY <2>3, <2>6, <2>7, <2>8, <2>9 DEF ResetPhase
<1>5. CASE timing.t = 5
  <2>1. /\ p.i = 1 /\ Len(bus) >= 3 /\ Reading(ab) /\ ab \in {\hfffc, \hfffa} /\ Ago(bus, 2) = Rd(StackAt(regs.S + 3))
        /\ Ago(bus, 1) = Rd(StackAt(regs.S + 2)) /\ Ago(bus, 0) = Rd(StackAt(regs.S + 1))
    BY <1>5 DEF ResetPhase, Reading
  <2>2. Control = [dlLoad |-> TRUE] ++ OneOn ++ Address("ALU", "ABH") ++ Idle
    BY InCycle, <1>5, EnterControl
  <2>3. latch'.dl = data /\ ab' = Word((Low(ab) + 1) % 256, High(ab)) /\ ~latch'.wr /\ regs' = regs /\ p' = p
    BY <2>2, NextInPageIs
  <2>4. bus' = bus ## Rd(ab) /\ mem' = mem /\ data = ByteAt(mem, ab)
    BY InCycle, <2>1, ReadCycle
  <2>5. ab' = ab + 1
    BY <2>1, <2>3, VectorNext
  <2>6. timing'.t = 6
    BY TimeGoes, <1>5
  <2>7. /\ Len(bus') >= 4 /\ Ago(bus', 3) = Rd(StackAt(regs'.S + 3)) /\ Ago(bus', 2) = Rd(StackAt(regs'.S + 2))
        /\ Ago(bus', 1) = Rd(StackAt(regs'.S + 1)) /\ Ago(bus', 0) = Rd(ab)
    BY <1>a, <2>1, <2>3, <2>4, AgoIs
  <2>8. \E v \in {\hfffc, \hfffa} :
          /\ Len(bus') >= 4 /\ ~latch'.wr /\ ab' = v + 1 /\ latch'.dl = ByteAt(mem', v)
          /\ Ago(bus', 3) = Rd(StackAt(regs'.S + 3)) /\ Ago(bus', 2) = Rd(StackAt(regs'.S + 2))
          /\ Ago(bus', 1) = Rd(StackAt(regs'.S + 1)) /\ Ago(bus', 0) = Rd(v)
    BY <2>1, <2>3, <2>4, <2>5, <2>7
  <2>9. p'.i = 1
    BY <2>1, <2>3
  <2>10. QED
    BY <2>6, <2>8, <2>9 DEF ResetPhase, Reading
<1>6. CASE timing.t = 6
  <2>2. Control = Jump ++ End ++ Idle
    BY InCycle, <1>6, EnterControl
  <2>3. QED
    BY TimeGoes, <2>2, JumpEndIs
<1>7. timing.t <= 6
  BY InInstruction DEF ResetPhase, TypeOK
<1>8. QED
  BY InInstruction, <1>1, <1>2, <1>3, <1>4, <1>5, <1>6, <1>7

-----------------------------------------------------------------------------
(* The last cycle of an instruction                                         *)

\* What precedes an opcode fetch.
LEMMA FetchFollows ==
  ASSUME TypeOK, NEW reset, ~reset, Clocks(Control, reset), ~fetch, fetch', instr.mode # "REL"
  PROVE  Control.end \/ timing.t = 7
<1>1. timing'.t = IF reset \/ fetch THEN 1 ELSE IF Control.end THEN 0 ELSE (timing.t + 1) % 8
  BY DEF Clocks
<1>2. instr' = instr
  BY DEF Clocks
<1>3. timing'.t = 0
  BY <1>2 DEF fetch
<1>4. timing.t \in 0..7
  BY DEF TypeOK
<1>5. \A k \in 0..6 : (k + 1) % 8 = k + 1
  OBVIOUS
<1>6. QED
  BY <1>1, <1>3, <1>4, <1>5

\* The operation on the byte read, whatever the latch holds.
LEMMA RunsComputed ==
  ASSUME TypeOK, NEW reset, Clocks(Control, reset), Runs(Control), instr.access # "RMW",
         regs = outcome.regs, p = outcome.p, NEW byte, data = byte
  PROVE  Computed(outcome.regs, byte)
<1>1. /\ Alu(Control) = Ran(instr, regs, p, latch.dl, data)
      /\ regs' = IF instr.dst \in RegNames THEN [regs EXCEPT ![instr.dst] = Alu(Control).result] ELSE regs
      /\ p' = Status(p, Alu(Control), data, instr.dst = "P", instr.flags, instr.fop)
  BY RunsComputes
<1>2. instr.sb # "DL"
  BY InstrIs DEF Instr
<1>3. Ran(instr, regs, p, latch.dl, data) = Op(byte)
  BY <1>2 DEF Ran, Op
<1>4. regs' = IF instr.dst \in RegNames THEN [outcome.regs EXCEPT ![instr.dst] = Op(byte).result] ELSE outcome.regs
  BY <1>1, <1>3
<1>5. p' = Status(outcome.p, Op(byte), byte, instr.dst = "P", instr.flags, instr.fop)
  BY <1>1, <1>3 DEF Status
<1>6. QED
  BY <1>4, <1>5 DEF Computed

\* What the last cycle of an implied instruction leaves.
LEMMA ImpliedFinish ==
  ASSUME TypeOK, NEW reset, Clocks(Control, reset), Passes, instr.mode = "IMP", timing.t = 1, Started
  PROVE  /\ Finished /\ p = outcome.p /\ pc' = Pc(outcome, 1) /\ bus' = Bus1(outcome)
         /\ Computed(outcome.regs, A1(outcome))
<1>1. ~fetch
  BY DEF Passes
<1>2. Control = Exec ++ End ++ Idle
  BY <1>1, ImpliedControl
<1>3. pc' = pc /\ ab' = pc /\ ~latch'.wr /\ Control.end /\ ~Control.intTake /\ Runs(Control)
  BY <1>2, ExecEndIs
<1>4. bus' = bus ## Rd(Pc(outcome, 1)) /\ data = ByteAt(mem, Pc(outcome, 1))
  BY ReadCycle DEF Started
<1>5. data = A1(outcome) /\ regs = outcome.regs /\ p = outcome.p
  BY <1>4 DEF Started, Kept, A1, B
<1>6. instr.access # "RMW"
  BY InstrIs DEF Instr, MemoryModes
<1>7. Computed(outcome.regs, A1(outcome))
  BY <1>3, <1>5, <1>6, RunsComputed
<1>8. pc' = Pc(outcome, 1)
  BY <1>3, OperandFacts DEF Started, Made
<1>9. bus' = Bus1(outcome)
  BY <1>4 DEF Started, Made, Bus1
<1>10. QED
  BY <1>3, <1>5, <1>7, <1>8, <1>9 DEF Finished, Ready

\* What the last cycle of an immediate operand leaves.
LEMMA ImmediateFinish ==
  ASSUME TypeOK, NEW reset, Clocks(Control, reset), Passes, instr.mode = "IMM", timing.t = 1, Started
  PROVE  /\ Finished /\ p = outcome.p /\ pc' = Pc(outcome, 2) /\ bus' = Bus1(outcome)
         /\ Computed(outcome.regs, A1(outcome))
<1>1. ~fetch
  BY DEF Passes
<1>2. Control = Exec ++ End ++ [inc |-> TRUE] ++ Idle
  BY <1>1, ImmediateControl
<1>3. pc' = (pc + 1) % 65536 /\ ab' = (pc + 1) % 65536 /\ ~latch'.wr /\ Control.end /\ ~Control.intTake /\ Runs(Control)
  BY <1>2, ExecIncIs
<1>4. bus' = bus ## Rd(Pc(outcome, 1)) /\ data = ByteAt(mem, Pc(outcome, 1))
  BY ReadCycle DEF Started
<1>5. data = A1(outcome) /\ regs = outcome.regs /\ p = outcome.p
  BY <1>4 DEF Started, Kept, A1, B
<1>6. instr.access # "RMW"
  BY InstrIs DEF Instr, MemoryModes
<1>7. Computed(outcome.regs, A1(outcome))
  BY <1>3, <1>5, <1>6, RunsComputed
<1>8. pc' = Pc(outcome, 2)
  BY <1>3, OperandFacts DEF Started, Made
<1>9. bus' = Bus1(outcome)
  BY <1>4 DEF Started, Made, Bus1
<1>10. QED
  BY <1>3, <1>5, <1>7, <1>8, <1>9 DEF Finished, Ready

\* What the last cycle of an access leaves.
LEMMA AccessFinish ==
  ASSUME TypeOK, NEW reset, ~reset, Clocks(Control, reset), Passes, fetch', instr.mode \in MemoryModes,
         NEW n \in 1..4, n = Reach(instr, timing.acr), timing.t > n, Accesses(n)
  PROVE  /\ Finished /\ pc' = Pc(outcome, Size(instr))
         /\ instr.access \in {"READ", "WRITE", "RMW"}
         /\ instr.access = "READ" => /\ p = outcome.p /\ bus' = BusFound(outcome, instr) ## Rd(Ea(outcome, instr))
                                     /\ Computed(outcome.regs, B(outcome, Ea(outcome, instr)))
         /\ instr.access = "WRITE" =>
              /\ bus' = BusFound(outcome, instr) ## Wr(Ea(outcome, instr), outcome.regs[instr.store])
              /\ p = outcome.p /\ p' = p /\ regs' = outcome.regs
         /\ instr.access = "RMW" =>
              /\ bus' = BusFound(outcome, instr) ## Rd(Ea(outcome, instr)) ## Wr(Ea(outcome, instr), B(outcome, Ea(outcome, instr)))
                          ## Wr(Ea(outcome, instr), Op(B(outcome, Ea(outcome, instr))).result)
              /\ p' = p /\ Computed(outcome.regs, B(outcome, Ea(outcome, instr)))
<1> DEFINE a == Ea(outcome, instr)
           b == B(outcome, a)
<1>1. instr.access \in {"READ", "WRITE", "RMW"} /\ ~fetch
  BY InstrIs DEF Instr, Passes
<1>2. timing.t <= n + 3 /\ timing.t \in 0..7
  BY DEF Accesses, TypeOK
<1>3. timing.t = n + 1 \/ timing.t = n + 2 \/ timing.t = n + 3
  BY <1>2
<1>4. Control.end \/ timing.t = 7
  BY <1>1, FetchFollows DEF MemoryModes
<1>5. CASE timing.t = n + 1
  <2>1. AtOperand /\ Control.end
    BY <1>4, <1>5 DEF Accesses
  <2>2. Made(BusFound(outcome, instr), Size(instr)) /\ Kept
    BY <2>1 DEF AtOperand
  <2>3. CASE instr.access = "READ"
    <3>1. Control = Exec ++ End ++ Idle
      BY <1>1, <1>5, <2>3, MemoryControl
    <3>2. pc' = pc /\ ab' = pc /\ ~latch'.wr /\ ~Control.intTake /\ Runs(Control)
      BY <3>1, ExecEndIs
    <3>3. Reading(a)
      BY <2>1, <2>3 DEF AtOperand
    <3>4. bus' = bus ## Rd(a) /\ data = ByteAt(mem, a)
      BY <3>3, ReadCycle
    <3>5. data = b /\ regs = outcome.regs /\ p = outcome.p
      BY <2>2, <3>4 DEF Kept, B
    <3>6. Computed(outcome.regs, b)
      BY <2>3, <3>2, <3>5, RunsComputed
    <3>7. QED
      BY <1>1, <2>1, <2>2, <2>3, <3>2, <3>4, <3>5, <3>6 DEF Finished, Ready, Made
  <2>4. CASE instr.access = "WRITE"
    <3>1. Control = End ++ Idle
      BY <1>1, <1>5, <2>4, MemoryControl
    <3>2. pc' = pc /\ ab' = pc /\ ~latch'.wr /\ ~Control.intTake /\ regs' = regs /\ p' = p
      BY <3>1, EndIs
    <3>3. Writing(a, outcome.regs[instr.store])
      BY <2>1, <2>4 DEF AtOperand
    <3>4. bus' = bus ## Wr(a, outcome.regs[instr.store])
      BY <3>3, WriteCycle
    <3>5. QED
      BY <1>1, <2>1, <2>2, <2>4, <3>2, <3>4 DEF Finished, Ready, Made, Kept
  <2>5. CASE instr.access = "RMW"
    <3>1. Control = [dlLoad |-> TRUE] ++ Write("DATA") ++ Hold ++ Idle
      BY <1>1, <1>5, <2>5, MemoryControl
    <3>2. QED
      BY <2>1, <3>1, HoldIs
  <2>6. QED
    BY <1>1, <2>3, <2>4, <2>5
<1>6. CASE timing.t = n + 2
  <2>1. instr.access = "RMW" /\ Control.end
    BY <1>4, <1>6 DEF Accesses, WritingBack
  <2>2. Control = Exec ++ Write("ALU") ++ Hold ++ Idle
    BY <1>1, <1>6, <2>1, MemoryControl
  <2>3. QED
    BY <2>1, <2>2, ExecWriteIs
<1>7. CASE timing.t = n + 3
  <2>1. WritingResult /\ instr.access = "RMW"
    BY <1>7 DEF Accesses, WritingResult
  <2>2. Control = End ++ Idle
    BY <1>1, <1>7, <2>1, MemoryControl
  <2>3. pc' = pc /\ ab' = pc /\ ~latch'.wr /\ Control.end /\ ~Control.intTake /\ regs' = regs /\ p' = p
    BY <2>2, EndIs
  <2>4. Made(BusFound(outcome, instr) ## Rd(a) ## Wr(a, b), Size(instr))
    BY <2>1 DEF WritingResult
  <2>5. regs = outcome.regs /\ p = Status(outcome.p, Op(b), b, FALSE, instr.flags, instr.fop) /\ Writing(a, Op(b).result)
    BY <2>1 DEF WritingResult
  <2>6. bus' = bus ## Wr(a, Op(b).result)
    BY <2>5, WriteCycle
  <2>7. instr.dst = "MEM"
    BY <2>1, InstrIs DEF Instr
  <2>8. Computed(outcome.regs, b)
    <3>1. Status(outcome.p, Op(b), b, FALSE, instr.flags, instr.fop) = Status(outcome.p, Op(b), b, instr.dst = "P", instr.flags, instr.fop)
      BY <2>7 DEF Status
    <3>2. instr.dst \notin RegNames
      BY <2>7 DEF RegNames
    <3>3. QED
      BY <2>3, <2>5, <3>1, <3>2 DEF Computed
  <2>9. QED
    BY <1>1, <2>1, <2>3, <2>4, <2>6, <2>8 DEF Finished, Ready, Made
<1>8. QED
  BY <1>3, <1>5, <1>6, <1>7

\* The access of an operand in page zero is over.
LEMMA ZeroPageAccessed ==
  ASSUME TypeOK, NEW reset, ~reset, Clocks(Control, reset), ~fetch, fetch', instr.mode = "ZP", ZeroPagePhase
  PROVE  Accessed
<1>1. Control.end \/ timing.t = 7
  BY FetchFollows
<1>2. timing.t \in 0..7 /\ timing.t # 0
  BY DEF TypeOK, fetch
<1>3. 1 = Reach(instr, timing.acr) /\ Accesses(1)
  BY DEF Reach, MemoryModes, ZeroPagePhase
<1>4. timing.t # 1
  <2>1. timing.t = 1 => Control = Write(instr.store) ++ ([inc |-> TRUE] ++ ZeroPage("DATA")) ++ Idle \/ Control = [inc |-> TRUE] ++ ZeroPage("DATA") ++ Idle
    BY ZeroPageControl
  <2>2. QED
    BY <1>1, <2>1, ZeroPageIs
<1>5. timing.t > 1
  BY <1>2, <1>4
<1>6. QED
  BY <1>3, <1>5 DEF Accessed

\* The access of an indexed one in page zero is over.
LEMMA ZeroIndexedAccessed ==
  ASSUME TypeOK, NEW reset, ~reset, Clocks(Control, reset), ~fetch, fetch', instr.mode \in {"ZPX", "ZPY"}, ZeroIndexedPhase
  PROVE  Accessed
<1>1. Control.end \/ timing.t = 7
  BY FetchFollows
<1>2. timing.t \in 0..7 /\ timing.t # 0
  BY DEF TypeOK, fetch
<1>3. 2 = Reach(instr, timing.acr) /\ Accesses(2)
  BY DEF Reach, MemoryModes, ZeroIndexedPhase
<1>4. timing.t # 1
  <2>1. timing.t = 1 => Control = Operand ++ ZeroPage("DATA") ++ Idle
    BY ZeroIndexedControl
  <2>2. QED
    BY <1>1, <2>1, ZeroPageOperandIs
<1>5. timing.t # 2
  <2>1. timing.t = 2 => Control = Write(instr.store) ++ (Add(index) ++ ZeroPage("ALU")) ++ Idle \/ Control = Add(index) ++ ZeroPage("ALU") ++ Idle
    BY ZeroIndexedControl
  <2>2. QED
    BY <1>1, <2>1, ZeroIndexedIs
<1>6. timing.t > 2
  BY <1>2, <1>4, <1>5
<1>7. QED
  BY <1>3, <1>6 DEF Accessed

\* The access of an absolute operand is over.
LEMMA AbsoluteAccessed ==
  ASSUME TypeOK, NEW reset, ~reset, Clocks(Control, reset), ~fetch, fetch', instr.mode = "ABS", AbsolutePhase
  PROVE  Accessed
<1>1. Control.end \/ timing.t = 7
  BY FetchFollows
<1>2. timing.t \in 0..7 /\ timing.t # 0
  BY DEF TypeOK, fetch
<1>3. 2 = Reach(instr, timing.acr) /\ Accesses(2)
  BY DEF Reach, MemoryModes, AbsolutePhase
<1>4. timing.t # 1
  <2>1. timing.t = 1 => Control = Operand ++ Idle
    BY AbsoluteControl
  <2>2. QED
    BY <1>1, <2>1, OperandIs
<1>5. timing.t # 2
  <2>1. timing.t = 2 => Control = Write(instr.store) ++ ([inc |-> TRUE] ++ Address("DL", "DATA")) ++ Idle \/ Control = [inc |-> TRUE] ++ Address("DL", "DATA") ++ Idle
    BY AbsoluteControl
  <2>2. QED
    BY <1>1, <2>1, AbsoluteIs
<1>6. timing.t > 2
  BY <1>2, <1>4, <1>5
<1>7. QED
  BY <1>3, <1>6 DEF Accessed

\* The access of (zp,X) is over.
LEMMA IndexedIndirectAccessed ==
  ASSUME TypeOK, NEW reset, ~reset, Clocks(Control, reset), ~fetch, fetch', instr.mode = "IZX", IndexedIndirectPhase
  PROVE  Accessed
<1>1. Control.end \/ timing.t = 7
  BY FetchFollows
<1>2. timing.t \in 0..7 /\ timing.t # 0
  BY DEF TypeOK, fetch
<1>3. 4 = Reach(instr, timing.acr) /\ Accesses(4)
  BY DEF Reach, MemoryModes, IndexedIndirectPhase
<1>4. timing.t # 1
  <2>1. timing.t = 1 => Control = Operand ++ ZeroPage("DATA") ++ Idle
    BY IndexedIndirectControl
  <2>2. QED
    BY <1>1, <2>1, ZeroPageOperandIs
<1>5. timing.t # 2
  <2>1. timing.t = 2 => Control = Add("X") ++ ZeroPage("ALU") ++ Idle
    BY IndexedIndirectControl
  <2>2. QED
    BY <1>1, <2>1, ZeroIndexedXIs
<1>6. timing.t # 3
  <2>1. timing.t = 3 => Control = [dlLoad |-> TRUE] ++ OneOn ++ ZeroPage("ALU") ++ Idle
    BY IndexedIndirectControl
  <2>2. QED
    BY <1>1, <2>1, NextZeroIs
<1>7. timing.t # 4
  <2>1. timing.t = 4 => Control = Write(instr.store) ++ (Address("DL", "DATA")) ++ Idle \/ Control = Address("DL", "DATA") ++ Idle
    BY IndexedIndirectControl
  <2>2. QED
    BY <1>1, <2>1, AddressIs
<1>8. timing.t > 4
  BY <1>2, <1>4, <1>5, <1>6, <1>7
<1>9. QED
  BY <1>3, <1>8 DEF Accessed

\* The access of an indexed absolute operand is over.
LEMMA AbsoluteIndexedAccessed ==
  ASSUME TypeOK, NEW reset, ~reset, Clocks(Control, reset), ~fetch, fetch', instr.mode \in {"ABX", "ABY"}, AbsoluteIndexedPhase
  PROVE  Accessed
<1>1. Control.end \/ timing.t = 7
  BY FetchFollows
<1>2. timing.t \in 0..7 /\ timing.t # 0
  BY DEF TypeOK, fetch
<1>3. timing.t # 1
  <2>1. timing.t = 1 => Control = Operand ++ Idle
    BY AbsoluteIndexedControl
  <2>2. QED
    BY <1>1, <2>1, OperandIs
<1>4. timing.t # 2
  <2>1. timing.t = 2 => Control = [inc |-> TRUE] ++ Indexed ++ Idle
    BY AbsoluteIndexedControl
  <2>2. QED
    BY <1>1, <2>1, AbsoluteIndexedIs
<1>5. timing.t >= 3 /\ timing.acr = Carry(outcome, instr)
  BY <1>2, <1>3, <1>4 DEF AbsoluteIndexedPhase
<1>6. Carry(outcome, instr) \in Bin
  BY CrossFacts
<1>7. CASE Crosses(outcome, instr)
  <2>1. Accesses(3) /\ 3 = Reach(instr, timing.acr)
    BY <1>5, <1>7 DEF AbsoluteIndexedPhase, Reach, Crosses
  <2>2. timing.t # 3
    <3>1. timing.t = 3 => Control = Write(instr.store) ++ FixHigh ++ Idle \/ Control = FixHigh ++ Idle
      BY <1>5, <1>7, CarrySpares, AbsoluteIndexedControl
    <3>2. QED
      BY <1>1, <3>1, FixHighIs
  <2>3. timing.t > 3
    BY <1>2, <1>5, <2>2
  <2>4. QED
    BY <2>1, <2>3 DEF Accessed
<1>8. CASE ~Crosses(outcome, instr)
  <2>1. Accesses(2) /\ 2 = Reach(instr, timing.acr) /\ timing.t > 2
    BY <1>2, <1>5, <1>6, <1>8 DEF AbsoluteIndexedPhase, Reach, Crosses, Bin
  <2>2. QED
    BY <2>1 DEF Accessed
<1>9. QED
  BY <1>7, <1>8

\* The access of (zp),Y is over.
LEMMA IndirectIndexedAccessed ==
  ASSUME TypeOK, NEW reset, ~reset, Clocks(Control, reset), ~fetch, fetch', instr.mode = "IZY", IndirectIndexedPhase
  PROVE  Accessed
<1>1. Control.end \/ timing.t = 7
  BY FetchFollows
<1>2. timing.t \in 0..7 /\ timing.t # 0
  BY DEF TypeOK, fetch
<1>3. timing.t # 1
  <2>1. timing.t = 1 => Control = [inc |-> TRUE] ++ ZeroPage("DATA") ++ Idle
    BY IndirectIndexedControl
  <2>2. QED
    BY <1>1, <2>1, ZeroPageIs
<1>4. timing.t # 2
  <2>1. timing.t = 2 => Control = [dlLoad |-> TRUE] ++ OneOn ++ ZeroPage("ALU") ++ Idle
    BY IndirectIndexedControl
  <2>2. QED
    BY <1>1, <2>1, NextZeroIs
<1>5. timing.t # 3
  <2>1. timing.t = 3 => Control = Indexed ++ Idle
    BY IndirectIndexedControl
  <2>2. QED
    BY <1>1, <2>1, PointerIndexedIs
<1>6. timing.t >= 4 /\ timing.acr = Carry(outcome, instr)
  BY <1>2, <1>3, <1>4, <1>5 DEF IndirectIndexedPhase
<1>7. Carry(outcome, instr) \in Bin
  BY CrossFacts
<1>8. CASE Crosses(outcome, instr)
  <2>1. Accesses(4) /\ 4 = Reach(instr, timing.acr)
    BY <1>6, <1>8 DEF IndirectIndexedPhase, Reach, Crosses
  <2>2. timing.t # 4
    <3>1. timing.t = 4 => Control = Write(instr.store) ++ FixHigh ++ Idle \/ Control = FixHigh ++ Idle
      BY <1>6, <1>8, CarrySpares, IndirectIndexedControl
    <3>2. QED
      BY <1>1, <3>1, FixHighIs
  <2>3. timing.t > 4
    BY <1>2, <1>6, <2>2
  <2>4. QED
    BY <2>1, <2>3 DEF Accessed
<1>9. CASE ~Crosses(outcome, instr)
  <2>1. Accesses(3) /\ 3 = Reach(instr, timing.acr) /\ timing.t > 3
    BY <1>2, <1>6, <1>7, <1>9 DEF IndirectIndexedPhase, Reach, Crosses, Bin
  <2>2. QED
    BY <2>1 DEF Accessed
<1>10. QED
  BY <1>8, <1>9

\* The cycle before a fetch is the last of an instruction: it ends it, or is the eighth.
LEMMA LastCycle ==
  ASSUME TypeOK, NEW reset, ~reset, Clocks(Control, reset), Passes, fetch', instr.mode # "REL"
  PROVE  ~fetch /\ (Control.end \/ timing.t = 7) /\ timing.t \in 0..7 /\ timing.t # 0
<1>1. ~fetch
  BY DEF Passes
<1>2. (Control.end \/ timing.t = 7) /\ timing.t \in 0..7 /\ timing.t # 0
  BY <1>1, FetchFollows DEF TypeOK, fetch
<1>3. QED
  BY <1>1, <1>2

\* What the last cycle of a jump leaves.
LEMMA JumpFinish ==
  ASSUME TypeOK, NEW reset, ~reset, Clocks(Control, reset), Passes, fetch', instr.mode = "JMP_ABS", JumpPhase
  PROVE  /\ Finished /\ p = outcome.p /\ p' = p /\ regs' = outcome.regs
         /\ pc' = Target(outcome) /\ bus' = Bus2(outcome)
<1>1. timing.t # 1
  <2>1. timing.t = 1 => Control = Operand ++ Idle
    BY LastCycle, JumpControl
  <2>2. QED
    BY LastCycle, <2>1, OperandIs
<1>2. timing.t = 2
  BY LastCycle, <1>1 DEF JumpPhase
<1>3. HasLow
  BY <1>2 DEF JumpPhase
<1>4. Control = Jump ++ End ++ Idle
  BY LastCycle, <1>2, JumpControl
<1>5. pc' = Word(latch.dl, data) /\ ab' = Word(latch.dl, data) /\ ~latch'.wr /\ Control.end /\ ~Control.intTake /\ regs' = regs /\ p' = p
  BY <1>4, JumpEndIs
<1>6. bus' = bus ## Rd(Pc(outcome, 2)) /\ data = ByteAt(mem, Pc(outcome, 2))
  BY <1>3, ReadCycle DEF HasLow
<1>7. data = A2(outcome)
  BY <1>3, <1>6 DEF HasLow, Kept, A2, B
<1>8. QED
  BY <1>3, <1>5, <1>6, <1>7 DEF HasLow, Kept, Made, Target, Bus2, Finished, Ready

\* What the last cycle of an indirect jump leaves.
LEMMA IndirectFinish ==
  ASSUME TypeOK, NEW reset, ~reset, Clocks(Control, reset), Passes, fetch', instr.mode = "JMP_IND", IndirectPhase
  PROVE  /\ Finished /\ p = outcome.p /\ p' = p /\ regs' = outcome.regs
         /\ pc' = Ptr(outcome, Target(outcome)) /\ bus' = Bus2(outcome) ## Rd(Target(outcome)) ## Rd(Nip(Target(outcome)))
<1>1. timing.t # 1
  <2>1. timing.t = 1 => Control = Operand ++ Idle
    BY LastCycle, IndirectControl
  <2>2. QED
    BY LastCycle, <2>1, OperandIs
<1>2. timing.t # 2
  <2>1. timing.t = 2 => Control = Address("DL", "DATA") ++ Idle
    BY LastCycle, IndirectControl
  <2>2. QED
    BY LastCycle, <2>1, AddressIs
<1>3. timing.t # 3
  <2>1. timing.t = 3 => Control = [dlLoad |-> TRUE] ++ OneOn ++ Address("ALU", "ABH") ++ Idle
    BY LastCycle, IndirectControl
  <2>2. QED
    BY LastCycle, <2>1, NextInPageIs
<1>4. timing.t = 4
  BY LastCycle, <1>1, <1>2, <1>3 DEF IndirectPhase
<1>5. /\ bus = Bus2(outcome) ## Rd(Target(outcome)) /\ Reading(Nip(Target(outcome))) /\ Kept
      /\ latch.dl = B(outcome, Target(outcome))
  BY <1>4 DEF IndirectPhase
<1>6. Control = Jump ++ End ++ Idle
  BY LastCycle, <1>4, IndirectControl
<1>7. pc' = Word(latch.dl, data) /\ ab' = Word(latch.dl, data) /\ ~latch'.wr /\ Control.end /\ ~Control.intTake /\ regs' = regs /\ p' = p
  BY <1>6, JumpEndIs
<1>8. bus' = bus ## Rd(Nip(Target(outcome))) /\ data = ByteAt(mem, Nip(Target(outcome)))
  BY <1>5, ReadCycle
<1>9. data = B(outcome, Nip(Target(outcome)))
  BY <1>5, <1>8 DEF Kept, B
<1>10. QED
  BY <1>5, <1>7, <1>8, <1>9 DEF Kept, Ptr, Finished, Ready

\* What the last cycle of JSR leaves.
LEMMA CallFinish ==
  ASSUME TypeOK, NEW reset, ~reset, Clocks(Control, reset), Passes, fetch', instr.mode = "JSR_ABS", CallPhase
  PROVE  /\ Finished /\ p = outcome.p /\ p' = p /\ regs' = [outcome.regs EXCEPT !.S = (outcome.regs.S + -2) % 256]
         /\ bus = BusCalled(outcome) /\ bus' = bus ## Rd(Pc(outcome, 2))
         /\ pc' = Word(A1(outcome), ByteAt(mem, Pc(outcome, 2)))
<1>1. timing.t # 1
  <2>1. timing.t = 1 => Control = Operand ++ Stack ++ Idle
    BY LastCycle, CallControl
  <2>2. QED
    BY LastCycle, <2>1, OperandStackIs
<1>2. timing.t # 2
  <2>1. timing.t = 2 => Control = Hold ++ Write("PCH") ++ Idle
    BY LastCycle, CallControl
  <2>2. QED
    BY LastCycle, <2>1, PushHighIs
<1>3. timing.t # 3
  <2>1. timing.t = 3 => Control = Down ++ OnStack ++ Write("PCL") ++ Idle
    BY LastCycle, CallControl
  <2>2. QED
    BY LastCycle, <2>1, PushLowIs
<1>4. timing.t # 4
  <2>1. timing.t = 4 => Control = Down ++ Idle
    BY LastCycle, CallControl
  <2>2. QED
    BY LastCycle, <2>1, DownIs
<1>5. timing.t = 5
  BY LastCycle, <1>1, <1>2, <1>3, <1>4 DEF CallPhase
<1>6. latch.dl = A1(outcome) /\ p = outcome.p /\ bus = BusCalled(outcome) /\ Reading(Pc(outcome, 2)) /\ Moved(-2)
  BY <1>5 DEF CallPhase
<1>7. Control = Jump ++ End ++ Idle
  BY LastCycle, <1>5, CallControl
<1>8. pc' = Word(latch.dl, data) /\ ab' = Word(latch.dl, data) /\ ~latch'.wr /\ Control.end /\ ~Control.intTake /\ regs' = regs /\ p' = p
  BY <1>7, JumpEndIs
<1>9. bus' = bus ## Rd(Pc(outcome, 2)) /\ data = ByteAt(mem, Pc(outcome, 2))
  BY <1>6, ReadCycle
<1>10. QED
  BY <1>6, <1>8, <1>9 DEF Moved, Finished, Ready

\* What the last cycle of RTS leaves.
LEMMA ReturnFinish ==
  ASSUME TypeOK, NEW reset, ~reset, Clocks(Control, reset), Passes, fetch', instr.mode = "RTS_IMP", ReturnPhase
  PROVE  /\ Finished /\ p = outcome.p /\ p' = p /\ regs' = [outcome.regs EXCEPT !.S = (outcome.regs.S + 2) % 256]
         /\ bus' = BusCall(outcome) ## Rd(Sp(outcome, 1)) ## Rd(Sp(outcome, 2)) ## Rd(ReturnTo(outcome))
         /\ pc' = (ReturnTo(outcome) + 1) % 65536
<1>1. timing.t # 1
  <2>1. timing.t = 1 => Control = Stack ++ Idle
    BY LastCycle, ReturnControl
  <2>2. QED
    BY LastCycle, <2>1, StackIs
<1>2. timing.t # 2
  <2>1. timing.t = 2 => Control = Up ++ OnStack ++ Idle
    BY LastCycle, ReturnControl
  <2>2. QED
    BY LastCycle, <2>1, UpIs
<1>3. timing.t # 3
  <2>1. timing.t = 3 => Control = [dlLoad |-> TRUE] ++ Up ++ OnStack ++ Idle
    BY LastCycle, ReturnControl
  <2>2. QED
    BY LastCycle, <2>1, UpLoadIs
<1>4. timing.t # 4
  <2>1. timing.t = 4 => Control = Jump ++ Idle
    BY LastCycle, ReturnControl
  <2>2. QED
    BY LastCycle, <2>1, JumpIs
<1>5. timing.t = 5
  BY LastCycle, <1>1, <1>2, <1>3, <1>4 DEF ReturnPhase
<1>6. /\ p = outcome.p /\ bus = BusCall(outcome) ## Rd(Sp(outcome, 1)) ## Rd(Sp(outcome, 2))
      /\ Reading(ReturnTo(outcome)) /\ pc = ReturnTo(outcome) /\ Moved(2)
  BY <1>5 DEF ReturnPhase
<1>7. Control = [inc |-> TRUE] ++ End ++ Idle
  BY LastCycle, <1>5, ReturnControl
<1>8. pc' = (pc + 1) % 65536 /\ ab' = (pc + 1) % 65536 /\ ~latch'.wr /\ Control.end /\ ~Control.intTake /\ regs' = regs /\ p' = p
  BY <1>7, IncEndIs
<1>9. bus' = bus ## Rd(ReturnTo(outcome))
  BY <1>6, ReadCycle
<1>10. QED
  BY <1>6, <1>8, <1>9 DEF Moved, Finished, Ready

\* What the last cycle of RTI leaves.
LEMMA ReturnFromInterruptFinish ==
  ASSUME TypeOK, NEW reset, ~reset, Clocks(Control, reset), Passes, fetch', instr.mode = "RTI_IMP", ReturnFromInterruptPhase
  PROVE  /\ Finished /\ p' = p /\ p' = Unpack(B(outcome, Sp(outcome, 1)))
         /\ regs' = [outcome.regs EXCEPT !.S = (outcome.regs.S + 3) % 256]
         /\ bus' = BusCall(outcome) ## Rd(Sp(outcome, 1)) ## Rd(Sp(outcome, 2)) ## Rd(Sp(outcome, 3))
         /\ pc' = Word(B(outcome, Sp(outcome, 2)), B(outcome, Sp(outcome, 3)))
<1>1. timing.t # 1
  <2>1. timing.t = 1 => Control = Stack ++ Idle
    BY LastCycle, ReturnFromInterruptControl
  <2>2. QED
    BY LastCycle, <2>1, StackIs
<1>2. timing.t # 2
  <2>1. timing.t = 2 => Control = Up ++ OnStack ++ Idle
    BY LastCycle, ReturnFromInterruptControl
  <2>2. QED
    BY LastCycle, <2>1, UpIs
<1>3. timing.t # 3
  <2>1. timing.t = 3 => Control = [pLoad |-> TRUE] ++ Up ++ OnStack ++ Idle
    BY LastCycle, ReturnFromInterruptControl
  <2>2. QED
    BY LastCycle, <2>1, UpStatusIs
<1>4. timing.t # 4
  <2>1. timing.t = 4 => Control = [dlLoad |-> TRUE] ++ Up ++ OnStack ++ Idle
    BY LastCycle, ReturnFromInterruptControl
  <2>2. QED
    BY LastCycle, <2>1, UpLoadIs
<1>5. timing.t = 5
  BY LastCycle, <1>1, <1>2, <1>3, <1>4 DEF ReturnFromInterruptPhase
<1>6. /\ p = Unpack(B(outcome, Sp(outcome, 1))) /\ bus = BusCall(outcome) ## Rd(Sp(outcome, 1)) ## Rd(Sp(outcome, 2)) /\ mem = outcome.mem
      /\ Reading(Sp(outcome, 3)) /\ Moved(3) /\ latch.dl = B(outcome, Sp(outcome, 2))
  BY <1>5 DEF ReturnFromInterruptPhase
<1>7. Control = Jump ++ End ++ Idle
  BY LastCycle, <1>5, ReturnFromInterruptControl
<1>8. pc' = Word(latch.dl, data) /\ ab' = Word(latch.dl, data) /\ ~latch'.wr /\ Control.end /\ ~Control.intTake /\ regs' = regs /\ p' = p
  BY <1>7, JumpEndIs
<1>9. bus' = bus ## Rd(Sp(outcome, 3)) /\ data = ByteAt(mem, Sp(outcome, 3))
  BY <1>6, ReadCycle
<1>10. data = B(outcome, Sp(outcome, 3))
  BY <1>6, <1>9 DEF B
<1>11. QED
  BY <1>6, <1>8, <1>9, <1>10 DEF Moved, Finished, Ready

\* What the last cycle of a push leaves.
LEMMA PushFinish ==
  ASSUME TypeOK, NEW reset, ~reset, Clocks(Control, reset), Passes, fetch', instr.mode = "PUSH", PushPhase
  PROVE  /\ Finished /\ p = outcome.p /\ p' = p /\ regs' = [outcome.regs EXCEPT !.S = (outcome.regs.S + -1) % 256]
         /\ bus' = Bus1(outcome) ## Wr(Sp(outcome, 0), IF instr.store = "P" THEN Pack(outcome.p, 1) ELSE outcome.regs[instr.store])
         /\ pc' = Pc(outcome, 1)
<1>1. timing.t # 1
  <2>1. timing.t = 1 => Control = Stack ++ Write(instr.store) ++ [pushB |-> 1] ++ Idle
    BY LastCycle, PushControl
  <2>2. QED
    BY LastCycle, <2>1, PushIs
<1>2. timing.t = 2
  BY LastCycle, <1>1 DEF PushPhase
<1>3. /\ Made(Bus1(outcome), 1) /\ Kept
      /\ Writing(Sp(outcome, 0), IF instr.store = "P" THEN Pack(outcome.p, 1) ELSE outcome.regs[instr.store])
  BY <1>2 DEF PushPhase
<1>4. Control = Down ++ End ++ Idle
  BY LastCycle, <1>2, PushControl
<1>5. pc' = pc /\ ab' = pc /\ ~latch'.wr /\ Control.end /\ ~Control.intTake /\ regs' = [regs EXCEPT !.S = (regs.S + 255) % 256] /\ p' = p
  BY <1>4, DownEndIs
<1>6. bus' = bus ## Wr(Sp(outcome, 0), IF instr.store = "P" THEN Pack(outcome.p, 1) ELSE outcome.regs[instr.store])
  BY <1>3, WriteCycle
<1>7. (outcome.regs.S + 255) % 256 = (outcome.regs.S + -1) % 256
  <2>1. outcome.regs.S \in Bytes
    BY DEF TypeOK, RegNames
  <2> DEFINE s == outcome.regs.S
  <2>2. s \in Int
    BY <2>1 DEF Bytes
  <2> HIDE DEF s
  <2>3. (s + 255) % 256 = (s + -1) % 256
    BY <2>2
  <2>4. QED
    BY <2>3 DEF s
<1>8. QED
  BY <1>3, <1>5, <1>6, <1>7 DEF Kept, Made, Finished, Ready

\* What the last cycle of a pull leaves.
LEMMA PullFinish ==
  ASSUME TypeOK, NEW reset, ~reset, Clocks(Control, reset), Passes, fetch', instr.mode = "PULL", PullPhase
  PROVE  /\ Finished /\ p = outcome.p /\ pc' = Pc(outcome, 1)
         /\ bus' = BusCall(outcome) ## Rd(Sp(outcome, 1))
         /\ Computed([outcome.regs EXCEPT !.S = (outcome.regs.S + 1) % 256], B(outcome, Sp(outcome, 1)))
<1>1. timing.t # 1
  <2>1. timing.t = 1 => Control = Stack ++ Idle
    BY LastCycle, PullControl
  <2>2. QED
    BY LastCycle, <2>1, StackIs
<1>2. timing.t # 2
  <2>1. timing.t = 2 => Control = Up ++ OnStack ++ Idle
    BY LastCycle, PullControl
  <2>2. QED
    BY LastCycle, <2>1, UpIs
<1>3. timing.t = 3
  BY LastCycle, <1>1, <1>2 DEF PullPhase
<1>4. /\ pc = Pc(outcome, 1) /\ p = outcome.p /\ mem = outcome.mem /\ bus = BusCall(outcome)
      /\ Reading(Sp(outcome, 1)) /\ Moved(1)
  BY <1>3 DEF PullPhase
<1>5. Control = Exec ++ End ++ Idle
  BY LastCycle, <1>3, PullControl
<1>6. pc' = pc /\ ab' = pc /\ ~latch'.wr /\ Control.end /\ ~Control.intTake /\ Runs(Control)
  BY <1>5, ExecEndIs
<1>7. bus' = bus ## Rd(Sp(outcome, 1)) /\ data = ByteAt(mem, Sp(outcome, 1))
  BY <1>4, ReadCycle
<1>8. data = B(outcome, Sp(outcome, 1))
  BY <1>4, <1>7 DEF B
<1>9. Computed([outcome.regs EXCEPT !.S = (outcome.regs.S + 1) % 256], B(outcome, Sp(outcome, 1)))
  <2> DEFINE byte == B(outcome, Sp(outcome, 1))
             r == [outcome.regs EXCEPT !.S = (outcome.regs.S + 1) % 256]
  <2>1. /\ Alu(Control) = Ran(instr, regs, p, latch.dl, data)
        /\ regs' = IF instr.dst \in RegNames THEN [regs EXCEPT ![instr.dst] = Alu(Control).result] ELSE regs
        /\ p' = Status(p, Alu(Control), data, instr.dst = "P", instr.flags, instr.fop)
    BY <1>6, RunsComputes
  <2>2. instr.sb = "0"
    BY InstrIs DEF Instr
  <2>3. Ran(instr, regs, p, latch.dl, data) = Op(byte)
    BY <1>4, <1>8, <2>2 DEF Ran, Op
  <2>4. regs = r
    BY <1>4 DEF Moved
  <2>5. regs' = IF instr.dst \in RegNames THEN [r EXCEPT ![instr.dst] = Op(byte).result] ELSE r
    BY <2>1, <2>3, <2>4
  <2>6. p' = Status(outcome.p, Op(byte), byte, instr.dst = "P", instr.flags, instr.fop)
    BY <1>4, <1>8, <2>1, <2>3 DEF Status
  <2>7. QED
    BY <2>5, <2>6 DEF Computed
<1>10. QED
  BY <1>4, <1>6, <1>7, <1>9 DEF Finished, Ready

\* An entry to an interrupt or a reset ends in its sixth cycle or later.
LEMMA EntryGoesOn ==
  ASSUME TypeOK, NEW reset, ~reset, Clocks(Control, reset), Passes, fetch', instr.mode = "BRK_IMP"
  PROVE  timing.t \in {6, 7}
<1>1. timing.t # 1
  <2>1. timing.t = 1 => Control = [inc |-> ~hw] ++ Stack ++ [write |-> ~resetting, dor |-> "PCH"] ++ Idle
    BY LastCycle, EnterControl
  <2>2. QED
    BY LastCycle, <2>1, EnterHighIs
<1>2. timing.t # 2
  <2>1. timing.t = 2 => Control = Down ++ OnStack ++ [write |-> ~resetting, dor |-> "PCL"] ++ Idle
    BY LastCycle, EnterControl
  <2>2. QED
    BY LastCycle, <2>1, EnterLowIs
<1>3. timing.t # 3
  <2>1. timing.t = 3 => Control = Down ++ OnStack ++ [write |-> ~resetting, dor |-> "P"] ++ [pushB |-> IF hw THEN 0 ELSE 1] ++ Idle
    BY LastCycle, EnterControl
  <2>2. QED
    BY LastCycle, <2>1, EnterStatusIs
<1>4. timing.t # 4
  <2>1. timing.t = 4 => Control = Down ++ Address("VECTOR", "FF") ++ [intTake |-> TRUE, fop |-> <<"i", 1>>] ++ Idle
    BY LastCycle, EnterControl
  <2>2. QED
    BY LastCycle, <2>1, VectorIs
<1>5. timing.t # 5
  <2>1. timing.t = 5 => Control = [dlLoad |-> TRUE] ++ OneOn ++ Address("ALU", "ABH") ++ Idle
    BY LastCycle, EnterControl
  <2>2. QED
    BY LastCycle, <2>1, NextInPageIs
<1>6. QED
  BY LastCycle, <1>1, <1>2, <1>3, <1>4, <1>5

\* What the last cycle of BRK and the interrupts leaves.
LEMMA EnterFinish ==
  ASSUME TypeOK, NEW reset, ~reset, Clocks(Control, reset), Passes, fetch', instr.mode = "BRK_IMP", EnterPhase
  PROVE  /\ Finished /\ p' = p /\ p' = [outcome.p EXCEPT !.i = 1]
         /\ regs' = [outcome.regs EXCEPT !.S = (outcome.regs.S + -3) % 256]
         /\ \E v \in Vectors(timing.kind) : /\ bus = BusPushed(outcome, timing.kind) ## Rd(v) /\ bus' = bus ## Rd(v + 1)
                                           /\ pc' = Word(ByteAt(mem, v), ByteAt(mem, v + 1))
<1>1. timing.t = 6
  BY EntryGoesOn DEF EnterPhase
<1>2. PICK v \in Vectors(timing.kind) : /\ bus = BusPushed(outcome, timing.kind) ## Rd(v) /\ Reading(v + 1)
                                       /\ latch.dl = ByteAt(mem, v)
  BY <1>1 DEF EnterPhase
<1>3. Control = Jump ++ End ++ Idle
  BY LastCycle, <1>1, EnterControl
<1>4. pc' = Word(latch.dl, data) /\ ab' = Word(latch.dl, data) /\ ~latch'.wr /\ Control.end /\ ~Control.intTake /\ regs' = regs /\ p' = p
  BY <1>3, JumpEndIs
<1>5. Moved(-3) /\ p = [outcome.p EXCEPT !.i = 1]
  BY <1>1 DEF EnterPhase
<1>6. bus' = bus ## Rd(v + 1) /\ data = ByteAt(mem, v + 1)
  BY <1>2, ReadCycle
<1>7. pc' = Word(ByteAt(mem, v), ByteAt(mem, v + 1))
  BY <1>2, <1>4, <1>6
<1>8. regs' = [outcome.regs EXCEPT !.S = (outcome.regs.S + -3) % 256] /\ p' = [outcome.p EXCEPT !.i = 1]
  BY <1>4, <1>5 DEF Moved
<1>9. QED
  BY <1>2, <1>4, <1>6, <1>7, <1>8 DEF Finished, Ready

\* What the last cycle of the reset leaves.
LEMMA ResetFinish ==
  ASSUME TypeOK, NEW reset, ~reset, Clocks(Control, reset), Passes, fetch', instr.mode = "BRK_IMP", ResetPhase
  PROVE  /\ Finished /\ p' = p /\ p'.i = 1 /\ regs' = regs /\ mem' = mem
         /\ \E v \in {\hfffc, \hfffa} :
              /\ Len(bus) >= 4 /\ bus' = bus ## Rd(v + 1) /\ pc' = Word(ByteAt(mem, v), ByteAt(mem, v + 1))
              /\ Ago(bus, 3) = Rd(StackAt(regs.S + 3)) /\ Ago(bus, 2) = Rd(StackAt(regs.S + 2))
              /\ Ago(bus, 1) = Rd(StackAt(regs.S + 1)) /\ Ago(bus, 0) = Rd(v)
<1>1. timing.t = 6
  BY EntryGoesOn DEF ResetPhase
<1>2. PICK v \in {\hfffc, \hfffa} :
        /\ Len(bus) >= 4 /\ Reading(v + 1) /\ latch.dl = ByteAt(mem, v)
        /\ Ago(bus, 3) = Rd(StackAt(regs.S + 3)) /\ Ago(bus, 2) = Rd(StackAt(regs.S + 2))
        /\ Ago(bus, 1) = Rd(StackAt(regs.S + 1)) /\ Ago(bus, 0) = Rd(v)
  BY <1>1 DEF ResetPhase
<1>3. Control = Jump ++ End ++ Idle
  BY LastCycle, <1>1, EnterControl
<1>4. pc' = Word(latch.dl, data) /\ ab' = Word(latch.dl, data) /\ ~latch'.wr /\ Control.end /\ ~Control.intTake /\ regs' = regs /\ p' = p
  BY <1>3, JumpEndIs
<1>5. p.i = 1
  BY <1>1 DEF ResetPhase
<1>6. bus' = bus ## Rd(v + 1) /\ mem' = mem /\ data = ByteAt(mem, v + 1)
  BY <1>2, ReadCycle
<1>7. pc' = Word(ByteAt(mem, v), ByteAt(mem, v + 1))
  BY <1>2, <1>4, <1>6
<1>8. QED
  BY <1>2, <1>4, <1>5, <1>6, <1>7 DEF Finished, Ready

\* A branch ends where it is not taken, where it stays on its page, and where it leaves it.
LEMMA BranchFinish ==
  ASSUME TypeOK, NEW reset, ~reset, Clocks(Control, reset), Passes, fetch', instr.mode = "REL", BranchPhase
  PROVE  /\ Ready /\ ~Control.intTake /\ p = outcome.p /\ p' = p /\ regs' = outcome.regs /\ A1(outcome) \in Bytes
         /\ \/ ~Taken(instr.cond, outcome.p) /\ pc' = Pc(outcome, 2) /\ bus' = Bus1(outcome)
            \/ /\ Taken(instr.cond, outcome.p) /\ Leaves(outcome) = 0 /\ ~Control.end
               /\ pc' = Word(Leap(outcome) % 256, High(Pc(outcome, 2))) /\ bus' = Bus2(outcome)
            \/ /\ Taken(instr.cond, outcome.p) /\ Leaves(outcome) = 1
               /\ pc' = Word(Leap(outcome) % 256, (High(Pc(outcome, 2)) + (IF Bit(A1(outcome), 7) = 1 THEN 255 ELSE 1)) % 256)
               /\ bus' = Bus2(outcome) ## Rd(Word(Leap(outcome) % 256, High(Pc(outcome, 2))))
<1>1. ~fetch
  BY DEF Passes
<1>2. timing'.t = IF reset \/ fetch THEN 1 ELSE IF Control.end THEN 0 ELSE (timing.t + 1) % 8
  BY DEF Clocks
<1>3. timing.t \in 0..7 /\ timing.t # 0 /\ timing.t <= 3
  BY <1>1 DEF TypeOK, fetch, BranchPhase
<1>4. instr' = instr
  BY <1>1 DEF Clocks
<1>5. (timing'.t = 0 \/ (timing'.t = 3 /\ timing'.acr = 0))
  BY <1>4 DEF fetch
<1>6. A1(outcome) \in Bytes
  BY OperandFacts
<1>7. CASE timing.t = 1
  <2>1. Started
    BY <1>7 DEF BranchPhase
  <2>2. Control = Operand ++ [end |-> ~Taken(instr.cond, p)] ++ Idle
    BY <1>1, <1>7, BranchControl
  <2>3. /\ pc' = (pc + 1) % 65536 /\ ab' = (pc + 1) % 65536 /\ ~latch'.wr
        /\ (Control.end <=> ~Taken(instr.cond, p)) /\ ~Control.intTake /\ regs' = regs /\ p' = p
    BY <2>2, BranchOperandIs
  <2>4. bus' = bus ## Rd(Pc(outcome, 1))
    BY <2>1, ReadCycle DEF Started
  <2>5. Control.end
    <3>1. (1 + 1) % 8 = 2
      OBVIOUS
    <3>2. QED
      BY <1>1, <1>2, <1>5, <1>7, <3>1
  <2>6. p = outcome.p /\ regs = outcome.regs
    BY <2>1 DEF Started, Kept
  <2>7. ~Taken(instr.cond, outcome.p)
    BY <2>3, <2>5, <2>6
  <2>8. pc' = Pc(outcome, 2) /\ bus' = Bus1(outcome)
    BY <2>1, <2>3, <2>4, PcNext DEF Started, Made, Bus1
  <2>9. QED
    BY <1>6, <2>3, <2>6, <2>7, <2>8 DEF Ready
<1>8. CASE timing.t = 2
  <2>1. HasLow /\ Taken(instr.cond, outcome.p)
    BY <1>8 DEF BranchPhase
  <2>2. Control = Add("PCL") ++ Address("ALU", "PC") ++ [load |-> TRUE, acrLoad |-> TRUE, acrBranch |-> TRUE] ++ Idle
    BY <1>1, <1>8, BranchControl
  <2>3. /\ pc' = Word((Low(pc) + latch.dl) % 256, High(pc)) /\ ab' = Word((Low(pc) + latch.dl) % 256, High(pc)) /\ ~latch'.wr
        /\ ~Control.end /\ ~Control.intTake /\ regs' = regs /\ p' = p
        /\ timing'.acr = (Bit(Low(pc) + latch.dl, 8) + Bit(latch.dl, 7)) % 2
    BY <2>2, BranchAddIs
  <2>4. bus' = bus ## Rd(Pc(outcome, 2))
    BY <2>1, ReadCycle DEF HasLow
  <2>5. pc = Pc(outcome, 2) /\ latch.dl = A1(outcome) /\ bus = Bus1(outcome) /\ p = outcome.p /\ regs = outcome.regs
    BY <2>1 DEF HasLow, Made, Kept
  <2>6. timing'.acr = 0
    <3>1. (2 + 1) % 8 = 3
      OBVIOUS
    <3>2. QED
      BY <1>1, <1>2, <1>5, <1>8, <2>3, <3>1
  <2>7. Leaves(outcome) = 0 /\ pc' = Word(Leap(outcome) % 256, High(Pc(outcome, 2)))
    BY <2>3, <2>5, <2>6 DEF Leap, Leaves
  <2>8. bus' = Bus2(outcome)
    BY <2>4, <2>5 DEF Bus2
  <2>9. QED
    BY <1>6, <2>1, <2>3, <2>5, <2>7, <2>8 DEF Ready
<1>9. CASE timing.t = 3
  <2>1. /\ bus = Bus2(outcome) /\ pc = Word(Leap(outcome) % 256, High(Pc(outcome, 2))) /\ Reading(pc) /\ Kept
        /\ Leaves(outcome) = 1 /\ timing.adir = Bit(A1(outcome), 7) /\ Taken(instr.cond, outcome.p)
    BY <1>9 DEF BranchPhase
  <2>2. Control = Address("PC", "ALU") ++ [load |-> TRUE, sb |-> "PCH", op |-> IF timing.adir = 1 THEN "SUB" ELSE "ADD", cin |-> IF timing.adir = 1 THEN 0 ELSE 1] ++ End ++ Idle
    BY <1>1, <1>9, BranchControl
  <2>3. /\ pc' = Word(Low(pc), (High(pc) + (IF timing.adir = 1 THEN 255 ELSE 1)) % 256)
        /\ ab' = pc' /\ ~latch'.wr /\ ~Control.intTake /\ regs' = regs /\ p' = p
    BY <2>2, BranchFixIs
  <2>4. bus' = bus ## Rd(pc)
    BY <2>1, ReadCycle
  <2>5. Low(pc) = Leap(outcome) % 256 /\ High(pc) = High(Pc(outcome, 2))
    <3>1. Low(Pc(outcome, 2)) \in Bytes /\ High(Pc(outcome, 2)) \in Bytes
      BY OutcomeTypes, WordParts
    <3>2. Leap(outcome) \in Int
      BY <1>6, <3>1 DEF Leap, Bytes
    <3>3. Leap(outcome) % 256 \in Bytes
      BY <3>2, ByteWraps
    <3>4. QED
      BY <2>1, <3>1, <3>3, PartsWord
  <2>6. pc' = Word(Leap(outcome) % 256, (High(Pc(outcome, 2)) + (IF Bit(A1(outcome), 7) = 1 THEN 255 ELSE 1)) % 256)
    BY <2>1, <2>3, <2>5
  <2>7. bus' = Bus2(outcome) ## Rd(Word(Leap(outcome) % 256, High(Pc(outcome, 2))))
    BY <2>1, <2>4
  <2>8. QED
    BY <1>6, <2>1, <2>3, <2>6, <2>7 DEF Ready, Kept
<1>10. QED
  BY <1>3, <1>7, <1>8, <1>9

-----------------------------------------------------------------------------
(* Every step keeps the invariant                                           *)

\* The memory is what the bus cycles made of it.
LEMMA BusMemory ==
  ASSUME TypeOK, CoreInv, Memory, bus' = IF fetch THEN One(BusCycle) ELSE bus ## BusCycle
  PROVE  mem' = Wrote(outcome.mem, bus') /\ HasLasts(bus')
<1>1. mem = [x \in DOMAIN mem |-> mem[x]] /\ IsSeq(bus)
  BY DEF TypeOK, IsMemory, IsSeq
<1>2. CASE fetch
  <2>1. outcome.mem = mem /\ ~latch.wr
    BY <1>2 DEF CoreInv, Fetching, Reading
  <2>2. mem' = mem /\ BusCycle = Rd(ab)
    BY <2>1 DEF Memory, BusCycle, rw, Rd
  <2>3. bus' = Nil ## Rd(ab)
    BY <1>2, <2>2, TupleIs
  <2>4. Wrote(mem, Nil) = mem /\ HasLasts(Nil)
    BY <1>1, AfterNothing
  <2>5. Rd(ab)[1] = "read"
    BY DEF Rd
  <2>6. HasLasts(Nil ## Rd(ab)) /\ Wrote(mem, Nil ## Rd(ab)) = Wrote(mem, Nil)
    BY <2>4, <2>5, NilIs, AfterRead
  <2>7. QED
    BY <2>1, <2>2, <2>3, <2>4, <2>6
<1>3. CASE ~fetch
  <2>1. mem = Wrote(outcome.mem, bus) /\ HasLasts(bus)
    BY <1>3 DEF CoreInv
  <2>2. CASE ~latch.wr
    <3>1. mem' = mem /\ bus' = bus ## Rd(ab) /\ Rd(ab)[1] = "read"
      BY <1>3, <2>2 DEF Memory, BusCycle, rw, Rd
    <3>2. QED
      BY <1>1, <2>1, <3>1, AfterRead
  <2>3. CASE latch.wr
    <3>1. mem' = [x \in {ab} |-> latch.dor] ++ mem /\ bus' = bus ## Wr(ab, latch.dor)
      BY <1>3, <2>3 DEF Memory, BusCycle, rw, Wr
    <3>2. Wr(ab, latch.dor) = <<"write", ab, latch.dor>>
      BY DEF Wr
    <3> DEFINE one == [x \in {ab} |-> latch.dor]
    <3>3. DOMAIN one = {ab} /\ one[ab] = latch.dor
      OBVIOUS
    <3> HIDE DEF one
    <3>4. HasLasts(bus ## Wr(ab, latch.dor)) /\ Wrote(outcome.mem, bus ## Wr(ab, latch.dor)) = one ++ Wrote(outcome.mem, bus)
      BY <1>1, <2>1, <3>2, <3>3, AfterWrite
    <3>5. mem' = one ++ mem
      BY <3>1 DEF one
    <3>6. QED
      BY <2>1, <3>1, <3>4, <3>5
  <2>4. QED
    BY <2>2, <2>3
<1>4. QED
  BY <1>2, <1>3

\* The opcode fetch.
LEMMA FetchWordIs ==
  ASSUME TypeOK, NEW c, NEW reset, Clocks(c, reset), c = [inc |-> ~timing.pending] ++ Idle
  PROVE  /\ pc' = (IF timing.pending THEN pc ELSE (pc + 1) % 65536) /\ ab' = pc' /\ ~latch'.wr
         /\ regs' = regs /\ p' = p /\ ~c.end /\ ~c.intTake
<1>1. /\ ~c.end /\ (c.inc <=> ~timing.pending) /\ ~c.load /\ c.adl = "PC" /\ c.adh = "PC" /\ c.dst = "none"
      /\ ~c.pLoad /\ c.flags = {} /\ c.fop = <<>> /\ ~c.intTake /\ ~c.write
  BY DEF ++, Idle
<1>2. pc \in Words
  BY DEF TypeOK
<1>3. PCS(c) = IF timing.pending THEN pc ELSE (pc + 1) % 65536
  BY <1>1 DEF PCS
<1>4. PCS(c) \in Words
  BY <1>2, <1>3, Wraps, BytesAreWords
<1>5. Next(c) = PCS(c)
  <2>1. ADL(c, Alu(c)) = Low(PCS(c)) /\ ADH(c, Alu(c)) = High(PCS(c))
    BY <1>1 DEF ADL, ADH
  <2>2. QED
    BY <1>4, <2>1, WordParts DEF Next
<1>6. regs' = regs /\ p' = p
  BY <1>1, QuietKeeps DEF Quiet
<1>7. pc' = PCS(c) /\ ab' = Next(c) /\ (latch'.wr <=> c.write)
  BY <1>1 DEF Clocks
<1>8. QED
  BY <1>1, <1>3, <1>5, <1>6, <1>7

\* An instruction is at its start.
LEMMA StartPhases ==
  timing.t = 1 /\ Started /\ instr.mode # "BRK_IMP" => Phase
<1> SUFFICES ASSUME timing.t = 1, Started, instr.mode # "BRK_IMP"
             PROVE  Phase
  OBVIOUS
<1>1. \A n \in 1..4 : Accesses(n)
  BY DEF Accesses
<1>2. ZeroPagePhase /\ ZeroIndexedPhase /\ AbsolutePhase
  BY <1>1 DEF ZeroPagePhase, ZeroIndexedPhase, AbsolutePhase
<1>3. AbsoluteIndexedPhase /\ IndexedIndirectPhase /\ IndirectIndexedPhase
  BY <1>1 DEF AbsoluteIndexedPhase, IndexedIndirectPhase, IndirectIndexedPhase
<1>4. BranchPhase /\ JumpPhase /\ IndirectPhase
  BY DEF BranchPhase, JumpPhase, IndirectPhase
<1>5. CallPhase /\ ReturnPhase /\ ReturnFromInterruptPhase
  BY DEF CallPhase, ReturnPhase, ReturnFromInterruptPhase
<1>6. PushPhase /\ PullPhase
  BY DEF PushPhase, PullPhase
<1>7. QED
  BY <1>2, <1>3, <1>4, <1>5, <1>6 DEF Phase

\* The start of an interrupt is its phase.
LEMMA EnterStarts ==
  /\ timing.t = 1 /\ instr.mode = "BRK_IMP" /\ Kept
  /\ Made(Bus0(outcome), Brk(timing.kind)) /\ Reading(Pc(outcome, Brk(timing.kind)))
  => Phase
BY DEF Phase, EnterPhase

\* And that of an instruction is its own.
LEMMA NextStarts ==
  /\ (timing.t = 1 /\ Started /\ instr.mode # "BRK_IMP" => Phase)'
  /\ (/\ timing.t = 1 /\ instr.mode = "BRK_IMP" /\ Kept
      /\ Made(Bus0(outcome), Brk(timing.kind)) /\ Reading(Pc(outcome, Brk(timing.kind)))
      => Phase)'
<1>1. timing.t = 1 /\ Started /\ instr.mode # "BRK_IMP" => Phase
  BY StartPhases
<1>2. /\ timing.t = 1 /\ instr.mode = "BRK_IMP" /\ Kept
      /\ Made(Bus0(outcome), Brk(timing.kind)) /\ Reading(Pc(outcome, Brk(timing.kind)))
      => Phase
  BY EnterStarts
<1>3. QED
  BY <1>1, <1>2, PTL

\* A cycle that starts something has no opcode fetch after it.
LEMMA FirstCycle ==
  ASSUME NEW reset, Clocks(Control, reset), reset \/ fetch
  PROVE  timing'.t = 1 /\ ~fetch'
<1>1. timing'.t = 1
  BY DEF Clocks
<1>2. QED
  BY <1>1 DEF fetch

\* An opcode fetch starts the instruction, or the interrupt, that is due.
LEMMA FetchStep ==
  ASSUME TypeOK, CoreInv, fetch, NEW irq, NEW nmi, NEW reset, ~reset, Cycle(irq, nmi, reset), Memory,
         bus' = One(BusCycle), outcome' = outcome
  PROVE  ~timing'.pending /\ timing'.kind # "reset" /\ Begun' /\ Phase'
<1>1. Clocks(Control, reset)
  BY CycleClocks
<1>2. Control = [inc |-> ~timing.pending] ++ Idle
  BY DEF Control
<1>3. /\ pc' = (IF timing.pending THEN pc ELSE (pc + 1) % 65536) /\ ab' = pc' /\ ~latch'.wr
      /\ regs' = regs /\ p' = p /\ ~Control.end /\ ~Control.intTake
  BY <1>1, <1>2, FetchWordIs
<1>4. timing'.t = 1
  BY <1>1, FirstCycle
<1>5. /\ outcome.pc = pc /\ outcome.regs = regs /\ outcome.p = p /\ outcome.mem = mem /\ outcome.due = due
      /\ ~latch.wr /\ ab = pc
  BY DEF CoreInv, Fetching, Reading
<1>6. mem' = mem /\ BusCycle = Rd(outcome.pc)
  BY <1>5 DEF Memory, BusCycle, rw, Rd
<1>7. bus' = Bus0(outcome)
  BY <1>6, TupleIs DEF Bus0
<1>8. Kept'
  BY <1>3, <1>5, <1>6 DEF Kept
<1>9. data = B(outcome, outcome.pc)
  BY <1>5 DEF data, B
<1>10. /\ timing'.kind = IF ~timing.pending THEN "brk" ELSE IF timing.nmi_latch THEN "nmi" ELSE "irq"
       /\ instr' = IF timing.pending THEN Decoded[0] ELSE Decoded[B(outcome, outcome.pc)]
  BY <1>1, <1>9 DEF Clocks
<1>11. timing.nmi_latch => timing'.nmi_latch
  BY <1>3, CyclePolls
<1>12. ~timing'.pending
  BY <1>3, CyclePolls
<1>13. outcome.due = IF ~timing.pending THEN "none" ELSE IF timing.nmi_latch THEN "nmi" ELSE "irq"
  BY <1>5 DEF due
<1>14. Begun'
  BY <1>10, <1>11, <1>13 DEF Begun, B
<1>15. pc' = Pc(outcome, IF timing.pending THEN 0 ELSE 1)
  BY <1>3, <1>5, PcNext
<1>16. CASE timing.pending
  <2>1. timing'.kind # "brk" /\ instr'.mode = "BRK_IMP"
    BY <1>10, <1>16, DecodedIs
  <2>2. Brk(timing'.kind) = 0
    BY <2>1 DEF Brk
  <2>3. Made(Bus0(outcome), Brk(timing.kind))' /\ Reading(Pc(outcome, Brk(timing.kind)))'
    BY <1>3, <1>7, <1>15, <1>16, <2>2 DEF Made, Reading
  <2>4. QED
    BY <1>4, <1>8, <1>10, <1>12, <1>14, <1>16, <2>1, <2>3, NextStarts
<1>17. CASE ~timing.pending
  <2>1. timing'.kind = "brk" /\ Brk(timing'.kind) = 1
    BY <1>10, <1>17 DEF Brk
  <2>2. Started'
    BY <1>3, <1>7, <1>8, <1>15, <1>17 DEF Started, Made, Reading
  <2>3. Made(Bus0(outcome), Brk(timing.kind))' /\ Reading(Pc(outcome, Brk(timing.kind)))'
    BY <2>1, <2>2 DEF Started
  <2>4. QED
    BY <1>4, <1>8, <1>12, <1>14, <2>1, <2>2, <2>3, NextStarts
<1>18. QED
  BY <1>16, <1>17

\* Reset starts its sequence, whatever goes on.
LEMMA ResetStarts ==
  ASSUME TypeOK, NEW irq, NEW nmi, NEW reset, reset, Cycle(irq, nmi, reset)
  PROVE  ~timing'.pending /\ timing'.kind = "reset" /\ instr' = Decoded[0] /\ ResetPhase'
<1>1. Clocks(Control, reset)
  BY CycleClocks
<1>2. timing'.t = 1
  BY <1>1, FirstCycle
<1>3. timing'.kind = "reset" /\ instr' = Decoded[0]
  BY <1>1 DEF Clocks
<1>4. ~timing'.pending
  BY CyclePolls
<1>5. ResetPhase'
  BY <1>2 DEF ResetPhase
<1>6. QED
  BY <1>3, <1>4, <1>5

\* A cycle within an instruction takes it to its next phase.
LEMMA InstructionStep ==
  ASSUME TypeOK, NEW reset, ~reset, Clocks(Control, reset), Onward, ~fetch', timing.kind # "reset", Begun, Phase
  PROVE  Phase'
<1>1. instr' = instr /\ instr.mode \in Modes
  BY InstrIs DEF Onward, Instr
<1>2. timing'.t >= 1
  <2>1. timing'.t \in 0..7 /\ timing'.t # 0
    BY ControlLine, ClockTypes DEF Onward
  <2>2. QED
    BY <2>1
<1>3. CASE instr.mode \in {"IMP", "IMM"}
  BY <1>3, ImpliedEnds, ImmediateEnds DEF Phase
<1>4. CASE instr.mode = "ZP"
  BY <1>1, <1>2, <1>4, ZeroPageStep DEF Phase
<1>5. CASE instr.mode \in {"ZPX", "ZPY"}
  BY <1>1, <1>2, <1>5, ZeroIndexedStep DEF Phase
<1>6. CASE instr.mode = "ABS"
  BY <1>1, <1>2, <1>6, AbsoluteStep DEF Phase
<1>7. CASE instr.mode \in {"ABX", "ABY"}
  BY <1>1, <1>2, <1>7, AbsoluteIndexedStep DEF Phase
<1>8. CASE instr.mode = "IZX"
  BY <1>1, <1>2, <1>8, IndexedIndirectStep DEF Phase
<1>9. CASE instr.mode = "IZY"
  BY <1>1, <1>2, <1>9, IndirectIndexedStep DEF Phase
<1>10. CASE instr.mode = "REL"
  BY <1>1, <1>2, <1>10, BranchStep DEF Phase
<1>11. CASE instr.mode = "JMP_ABS"
  BY <1>1, <1>2, <1>11, JumpStep DEF Phase
<1>12. CASE instr.mode = "JMP_IND"
  BY <1>1, <1>2, <1>12, IndirectStep DEF Phase
<1>13. CASE instr.mode = "JSR_ABS"
  BY <1>1, <1>2, <1>13, CallStep DEF Phase
<1>14. CASE instr.mode = "RTS_IMP"
  BY <1>1, <1>2, <1>14, ReturnStep DEF Phase
<1>15. CASE instr.mode = "RTI_IMP"
  BY <1>1, <1>2, <1>15, ReturnFromInterruptStep DEF Phase
<1>16. CASE instr.mode = "PUSH"
  BY <1>1, <1>2, <1>16, PushStep DEF Phase
<1>17. CASE instr.mode = "PULL"
  BY <1>1, <1>2, <1>17, PullStep DEF Phase
<1>18. CASE instr.mode = "BRK_IMP"
  BY <1>1, <1>2, <1>18, EnterStep DEF Phase
<1>19. QED
  BY <1>1, <1>3, <1>4, <1>5, <1>6, <1>7, <1>8, <1>9, <1>10, <1>11, <1>12, <1>13, <1>14, <1>15, <1>16, <1>17, <1>18
     DEF Modes, MemoryModes

\* It stays the instruction that began, and an NMI is kept until its vector is taken.
LEMMA BegunStep ==
  ASSUME TypeOK, NEW irq, NEW nmi, NEW reset, ~reset, Cycle(irq, nmi, reset), Onward, timing.kind # "reset", Begun, Phase
  PROVE  Begun'
<1>1. Clocks(Control, reset)
  BY CycleClocks
<1>2. /\ ~fetch /\ outcome' = outcome /\ instr' = instr /\ timing'.kind = timing.kind
      /\ ~Control.end /\ \A k \in 1..6 : timing.t = k => timing'.t = k + 1
  BY <1>1, TimeGoes DEF Onward, Passes
<1>3. ASSUME timing.kind = "nmi", timing'.t <= 4
      PROVE  timing'.nmi_latch
  <2>1. instr = Decoded[0] /\ instr.mode = "BRK_IMP"
    BY <1>3, DecodedIs DEF Begun
  <2>2. timing.t \in 0..7 /\ timing.t # 0 /\ timing.t <= 6
    BY <1>2, <2>1 DEF TypeOK, fetch, Phase, EnterPhase
  <2>3. timing.t \in 1..3
    BY <1>2, <1>3, <2>2
  <2>4. timing.nmi_latch
    BY <1>3, <2>3 DEF Begun
  <2>5. ~Control.intTake
    <3>1. CASE timing.t = 1
      <4>1. Control = [inc |-> ~hw] ++ Stack ++ [write |-> ~resetting, dor |-> "PCH"] ++ Idle
        BY <1>2, <2>1, <3>1, EnterControl
      <4>2. QED
        BY <1>1, <4>1, EnterHighIs
    <3>2. CASE timing.t = 2
      <4>1. Control = Down ++ OnStack ++ [write |-> ~resetting, dor |-> "PCL"] ++ Idle
        BY <1>2, <2>1, <3>2, EnterControl
      <4>2. QED
        BY <1>1, <4>1, EnterLowIs
    <3>3. CASE timing.t = 3
      <4>1. Control = Down ++ OnStack ++ [write |-> ~resetting, dor |-> "P"] ++ [pushB |-> IF hw THEN 0 ELSE 1] ++ Idle
        BY <1>2, <2>1, <3>3, EnterControl
      <4>2. QED
        BY <1>1, <4>1, EnterStatusIs
    <3>4. QED
      BY <2>3, <3>1, <3>2, <3>3
  <2>6. QED
    BY <2>4, <2>5, CyclePolls
<1>4. QED
  BY <1>2, <1>3 DEF Begun, B

\* Interrupts are pending only when an opcode fetch follows.
LEMMA PendingStep ==
  ASSUME TypeOK, CoreInv, NEW irq, NEW nmi, NEW reset, Cycle(irq, nmi, reset)
  PROVE  timing'.pending => ~reset /\ ~fetch /\ Control.end /\ timing'.t = 0
<1>1. timing'.pending => ~reset /\ (~Control.end => timing.pending /\ ~fetch)
  BY CyclePolls
<1>2. timing.pending => fetch
  BY DEF CoreInv, fetch
<1>3. fetch => ~Control.end
  <2>1. fetch => Control = [inc |-> ~timing.pending] ++ Idle
    BY DEF Control
  <2>2. QED
    BY <2>1, CycleClocks, FetchWordIs
<1>4. timing'.t = IF reset \/ fetch THEN 1 ELSE IF Control.end THEN 0 ELSE (timing.t + 1) % 8
  BY CycleClocks DEF Clocks
<1>5. QED
  BY <1>1, <1>2, <1>3, <1>4

\* What ends an instruction puts PC on the address bus.
LEMMA EndsReady ==
  ASSUME TypeOK, NEW reset, ~reset, Clocks(Control, reset), Passes, fetch', Phase
  PROVE  Ready
<1>1. instr.mode \in Modes /\ ~fetch
  BY InstrIs DEF Passes, Instr
<1>2. CASE instr.mode \in {"IMP", "IMM"}
  BY <1>2, ImpliedFinish, ImmediateFinish DEF Phase, Finished
<1>3. CASE instr.mode \in MemoryModes
  <2>1. Accessed
    <3>1. CASE instr.mode = "ZP"
      BY <1>1, <3>1, ZeroPageAccessed DEF Phase
    <3>2. CASE instr.mode \in {"ZPX", "ZPY"}
      BY <1>1, <3>2, ZeroIndexedAccessed DEF Phase
    <3>3. CASE instr.mode = "ABS"
      BY <1>1, <3>3, AbsoluteAccessed DEF Phase
    <3>4. CASE instr.mode \in {"ABX", "ABY"}
      BY <1>1, <3>4, AbsoluteIndexedAccessed DEF Phase
    <3>5. CASE instr.mode = "IZX"
      BY <1>1, <3>5, IndexedIndirectAccessed DEF Phase
    <3>6. CASE instr.mode = "IZY"
      BY <1>1, <3>6, IndirectIndexedAccessed DEF Phase
    <3>7. QED
      BY <1>3, <3>1, <3>2, <3>3, <3>4, <3>5, <3>6 DEF MemoryModes
  <2>2. PICK n \in 1..4 : n = Reach(instr, timing.acr) /\ timing.t > n /\ Accesses(n)
    BY <2>1 DEF Accessed
  <2>3. QED
    BY <1>3, <2>2, AccessFinish DEF Finished
<1>4. CASE instr.mode = "REL"
  BY <1>4, BranchFinish DEF Phase
<1>5. CASE instr.mode \in {"JMP_ABS", "JMP_IND"}
  BY <1>5, JumpFinish, IndirectFinish DEF Phase, Finished
<1>6. CASE instr.mode \in {"JSR_ABS", "RTS_IMP", "RTI_IMP"}
  BY <1>6, CallFinish, ReturnFinish, ReturnFromInterruptFinish DEF Phase, Finished
<1>7. CASE instr.mode \in {"PUSH", "PULL"}
  BY <1>7, PushFinish, PullFinish DEF Phase, Finished
<1>8. CASE instr.mode = "BRK_IMP"
  BY <1>8, EnterFinish DEF Phase, Finished
<1>9. QED
  BY <1>1, <1>2, <1>3, <1>4, <1>5, <1>6, <1>7, <1>8 DEF Modes

\* The core starts with the invariant.
LEMMA InitInvariant == Init => CoreInv
<1> SUFFICES ASSUME Init
             PROVE  CoreInv
  OBVIOUS
<1>1. timing.t = 1 /\ timing.kind = "reset" /\ ~timing.pending /\ instr = Decoded[0]
  BY DEF Init
<1>2. bus = Nil /\ outcome.mem = mem
  BY DEF Init, Nil, Outcome
<1>3. mem = [x \in DOMAIN mem |-> mem[x]]
  BY InitTypes DEF TypeOK, IsMemory
<1>4. mem = Wrote(outcome.mem, bus) /\ HasLasts(bus)
  BY <1>2, <1>3, AfterNothing
<1>5. ~fetch
  BY <1>1 DEF fetch
<1>6. ResetPhase
  BY <1>1 DEF ResetPhase
<1>7. QED
  BY <1>1, <1>4, <1>5, <1>6 DEF CoreInv

\* What does not change keeps its phase.
LEMMA PhaseKept ==
  ASSUME timing' = timing, instr' = instr, pc' = pc, ab' = ab, latch' = latch, regs' = regs, p' = p,
         mem' = mem, bus' = bus, outcome' = outcome, Phase
  PROVE  Phase'
<1>1. /\ Started' <=> Started
      /\ HasLow' <=> HasLow
      /\ HasPage' <=> HasPage
  BY DEF Started, HasLow, HasPage, Made, Reading, Kept
<1>2. /\ AtOperand' <=> AtOperand
      /\ WritingBack' <=> WritingBack
      /\ WritingResult' <=> WritingResult
  BY DEF AtOperand, WritingBack, WritingResult, Made, Reading, Writing, Kept, Op
<1>3. \A n \in 1..4 : Accesses(n) => Accesses(n)'
  BY <1>2 DEF Accesses
<1>4. ZeroPagePhase => ZeroPagePhase'
  BY <1>1, <1>3 DEF ZeroPagePhase, Made, Reading, Writing, Kept, Moved, Uncorrected
<1>5. ZeroIndexedPhase => ZeroIndexedPhase'
  BY <1>1, <1>3 DEF ZeroIndexedPhase, Made, Reading, Writing, Kept, Moved, Uncorrected
<1>6. AbsolutePhase => AbsolutePhase'
  BY <1>1, <1>3 DEF AbsolutePhase, Made, Reading, Writing, Kept, Moved, Uncorrected
<1>7. AbsoluteIndexedPhase => AbsoluteIndexedPhase'
  BY <1>1, <1>3 DEF AbsoluteIndexedPhase, Made, Reading, Writing, Kept, Moved, Uncorrected
<1>8. IndexedIndirectPhase => IndexedIndirectPhase'
  BY <1>1, <1>3 DEF IndexedIndirectPhase, Made, Reading, Writing, Kept, Moved, Uncorrected
<1>9. IndirectIndexedPhase => IndirectIndexedPhase'
  BY <1>1, <1>3 DEF IndirectIndexedPhase, Made, Reading, Writing, Kept, Moved, Uncorrected
<1>10. BranchPhase => BranchPhase'
  BY <1>1, <1>3 DEF BranchPhase, Made, Reading, Writing, Kept, Moved, Uncorrected
<1>11. JumpPhase => JumpPhase'
  BY <1>1, <1>3 DEF JumpPhase, Made, Reading, Writing, Kept, Moved, Uncorrected
<1>12. IndirectPhase => IndirectPhase'
  BY <1>1, <1>3 DEF IndirectPhase, Made, Reading, Writing, Kept, Moved, Uncorrected
<1>13. CallPhase => CallPhase'
  BY <1>1, <1>3 DEF CallPhase, Made, Reading, Writing, Kept, Moved, Uncorrected
<1>14. ReturnPhase => ReturnPhase'
  BY <1>1, <1>3 DEF ReturnPhase, Made, Reading, Writing, Kept, Moved, Uncorrected
<1>15. ReturnFromInterruptPhase => ReturnFromInterruptPhase'
  BY <1>1, <1>3 DEF ReturnFromInterruptPhase, Made, Reading, Writing, Kept, Moved, Uncorrected
<1>16. PushPhase => PushPhase'
  BY <1>1, <1>3 DEF PushPhase, Made, Reading, Writing, Kept, Moved, Uncorrected
<1>17. PullPhase => PullPhase'
  BY <1>1, <1>3 DEF PullPhase, Made, Reading, Writing, Kept, Moved, Uncorrected
<1>18. EnterPhase => EnterPhase'
  BY <1>1, <1>3 DEF EnterPhase, Made, Reading, Writing, Kept, Moved, Uncorrected
<1>19. QED
  BY <1>1, <1>4, <1>5, <1>6, <1>7, <1>8, <1>9, <1>10, <1>11, <1>12, <1>13, <1>14, <1>15, <1>16, <1>17, <1>18 DEF Phase

\* Each step keeps it.
LEMMA TickInvariant == TypeOK /\ CoreInv /\ [Tick]_vars => CoreInv'
<1>1. ASSUME TypeOK, CoreInv, Tick
      PROVE  CoreInv'
  <2>1. PICK irq, nmi, reset \in BOOLEAN :
           /\ Cycle(irq, nmi, reset) /\ Memory
           /\ bus' = IF fetch THEN One(BusCycle) ELSE bus ## BusCycle
           /\ outcome' = IF fetch' THEN Outcome' ELSE outcome
    BY <1>1, TickIs
  <2>2. Clocks(Control, reset)
    BY <2>1, CycleClocks
  <2>3. timing'.pending => ~reset /\ ~fetch /\ Control.end /\ timing'.t = 0
    BY <1>1, <2>1, PendingStep
  <2>4. mem' = Wrote(outcome.mem, bus') /\ HasLasts(bus')
    BY <1>1, <2>1, BusMemory
  <2>5. ~fetch' => mem' = Wrote(outcome'.mem, bus') /\ HasLasts(bus')
    BY <2>1, <2>4
  <2>6. CASE fetch'
    <3>1. ~reset /\ ~fetch
      BY <2>2, <2>6, FirstCycle
    <3>2. Passes
      BY <2>1, <3>1 DEF Passes
    <3>3. Ready
      <4>1. CASE timing.kind = "reset"
        <5>1. instr.mode = "BRK_IMP" /\ ResetPhase
          BY <1>1, <3>1, <4>1, DecodedIs DEF CoreInv
        <5>2. QED
          BY <1>1, <2>2, <2>6, <3>1, <3>2, <5>1, ResetFinish DEF Finished
      <4>2. CASE timing.kind # "reset"
        BY <1>1, <2>2, <2>6, <3>1, <3>2, <4>2, EndsReady DEF CoreInv
      <4>3. QED
        BY <4>1, <4>2
    <3>4. outcome' = Outcome'
      BY <2>1, <2>6
    <3>5. /\ outcome'.pc = pc' /\ outcome'.regs = regs' /\ outcome'.p = p' /\ outcome'.mem = mem'
          /\ outcome'.due = due'
      BY <3>4 DEF Outcome
    <3>6. Fetching'
      BY <3>3, <3>5 DEF Fetching, Ready, Reading
    <3>7. QED
      BY <2>3, <2>6, <3>6 DEF CoreInv
  <2>7. CASE ~fetch'
    <3>1. outcome' = outcome
      BY <2>1, <2>7
    <3>2. CASE reset
      BY <1>1, <2>1, <2>5, <2>7, <3>2, ResetStarts DEF CoreInv
    <3>3. CASE ~reset /\ fetch
      BY <1>1, <2>1, <2>5, <2>7, <3>1, <3>3, FetchStep DEF CoreInv
    <3>4. CASE ~reset /\ ~fetch
      <4>1. instr' = instr /\ timing'.kind = timing.kind
        BY <2>2, <3>4 DEF Clocks
      <4>2. Onward /\ timing'.t # 0
        BY <2>1, <2>7, <3>1, <3>4, <4>1 DEF Onward, Passes, fetch
      <4>3. CASE timing.kind = "reset"
        <5>1. instr = Decoded[0] /\ instr.mode = "BRK_IMP" /\ ResetPhase
          BY <1>1, <3>4, <4>3, DecodedIs DEF CoreInv
        <5>2. ResetPhase'
          BY <1>1, <2>2, <3>4, <4>2, <4>3, <5>1, ResetStep
        <5>3. QED
          BY <2>3, <2>5, <2>7, <4>1, <4>2, <4>3, <5>1, <5>2 DEF CoreInv
      <4>4. CASE timing.kind # "reset"
        <5>1. Begun /\ Phase
          BY <1>1, <3>4, <4>4 DEF CoreInv
        <5>2. Phase'
          BY <1>1, <2>2, <2>7, <3>4, <4>2, <4>4, <5>1, InstructionStep
        <5>3. Begun'
          BY <1>1, <2>1, <3>4, <4>2, <4>4, <5>1, BegunStep
        <5>4. QED
          BY <2>3, <2>5, <2>7, <4>1, <4>2, <4>4, <5>2, <5>3 DEF CoreInv
      <4>5. QED
        BY <4>3, <4>4
    <3>5. QED
      BY <3>2, <3>3, <3>4
  <2>8. QED
    BY <2>6, <2>7
<1>2. ASSUME CoreInv, UNCHANGED vars
      PROVE  CoreInv'
  <2>1. /\ timing' = timing /\ instr' = instr /\ pc' = pc /\ ab' = ab /\ latch' = latch /\ regs' = regs /\ p' = p
        /\ mem' = mem /\ bus' = bus /\ outcome' = outcome
    BY <1>2 DEF vars, core
  <2>2. fetch' <=> fetch
    BY <2>1 DEF fetch
  <2>3. Fetching => Fetching'
    BY <2>1 DEF Fetching, Reading, due
  <2>4. Begun => Begun'
    BY <2>1 DEF Begun, B
  <2>5. ResetPhase => ResetPhase'
    BY <2>1 DEF ResetPhase, Reading
  <2>6. Phase => Phase'
    BY <2>1, PhaseKept
  <2>7. QED
    BY <1>2, <2>1, <2>2, <2>3, <2>4, <2>5, <2>6 DEF CoreInv
<1>3. QED
  BY <1>1, <1>2

\* On every clock cycle the bus cycles, registers and latches are what the
\* instruction, interrupt or reset has come to in that T state.
THEOREM InvariantHolds == Spec => []CoreInv
<1>1. TypeOK /\ CoreInv /\ [Tick]_vars => CoreInv'
  BY TickInvariant
<1>2. QED
  BY <1>1, InitInvariant, TypesHold, PTL DEF Spec

-----------------------------------------------------------------------------
(* The terms of Isa6502, in those of the core                               *)

\* Bytes of memory, and bus cycles.
LEMMA ArchBytes ==
  ASSUME TypeOK
  PROVE  /\ \A m, a : Arch!At(m, a) = ByteAt(m, a)
         /\ \A a \in Words : Arch!Byte(a) = B(outcome, a) /\ Arch!R(a) = Rd(a)
         /\ \A a \in Words : \A b : Arch!W(a, b) = Wr(a, b)
         /\ \A k \in Int : Arch!Byte(outcome.pc + k) = B(outcome, Pc(outcome, k)) /\ Arch!R(outcome.pc + k) = Rd(Pc(outcome, k))
<1>1. \A m, a : Arch!At(m, a) = ByteAt(m, a)
  BY DEF Arch!At, ByteAt
<1>2. \A a \in Words : a % 65536 = a
  BY Wraps, BytesAreWords
<1>3. \A a \in Words : Arch!Byte(a) = B(outcome, a) /\ Arch!R(a) = Rd(a)
  BY <1>1, <1>2 DEF Arch!Byte, Arch!R, B, Rd
<1>4. \A a \in Words : \A b : Arch!W(a, b) = Wr(a, b)
  BY <1>2 DEF Arch!W, Wr
<1>5. ASSUME NEW k \in Int
      PROVE  Arch!Byte(outcome.pc + k) = B(outcome, Pc(outcome, k)) /\ Arch!R(outcome.pc + k) = Rd(Pc(outcome, k))
  BY <1>1 DEF Arch!Byte, Arch!R, B, Rd, Pc
<1>6. QED
  BY <1>1, <1>3, <1>4, <1>5

\* The stack and its pointer.
LEMMA ArchStack ==
  /\ \A k : Arch!Stack(k) = Sp(outcome, k)
  /\ \A k : Arch!MovedBy(k) = [outcome.regs EXCEPT !.S = (outcome.regs.S + k) % 256]
BY SameNumbers DEF Arch!Stack, Arch!StackOf, Arch!MovedBy, Sp

\* The instruction.
LEMMA ArchInstr ==
  ASSUME TypeOK, Begun, timing.kind = "brk"
  PROVE  Arch!instr = instr /\ Arch!index = X(outcome, instr) /\ Arch!Size = Size(instr)
<1>1. outcome.pc \in Words
  BY DEF TypeOK
<1>2. Arch!Byte(outcome.pc) = B(outcome, outcome.pc)
  BY <1>1, ArchBytes
<1>3. Arch!instr = instr
  BY <1>2, SameDecoded DEF Arch!instr, Begun
<1>4. QED
  BY <1>3 DEF Arch!index, X, Arch!Size, Size

\* The reads of a list of addresses, one after another.
LEMMA ArchReads ==
  /\ Arch!ReadAll(Nil) = Nil
  /\ \A s : IsSeq(s) => IsSeq(Arch!ReadAll(s)) /\ \A a : Arch!ReadAll(s ## a) = Arch!ReadAll(s) ## Arch!R(a)
<1>1. ASSUME NEW s, IsSeq(s)
      PROVE  IsSeq(Arch!ReadAll(s)) /\ Len(Arch!ReadAll(s)) = Len(s) /\ DOMAIN s = 1..Len(s) /\ Len(s) \in Nat
             /\ \A k \in 1..Len(s) : Arch!ReadAll(s)[k] = Arch!R(s[k])
  <2> DEFINE S == {Arch!R(s[k]) : k \in DOMAIN s}
             f == [k \in DOMAIN s |-> Arch!R(s[k])]
  <2>1. DOMAIN s = 1..Len(s) /\ Len(s) \in Nat
    BY <1>1, ChainIs
  <2>2. f \in [1..Len(s) -> S] /\ \A k \in 1..Len(s) : f[k] = Arch!R(s[k])
    BY <2>1
  <2> HIDE DEF f, S
  <2>3. f \in Seq(S) /\ Len(f) = Len(s)
    BY <2>1, <2>2, LenProperties
  <2>4. Arch!ReadAll(s) = f
    BY DEF Arch!ReadAll, f
  <2>5. QED
    BY <2>1, <2>2, <2>3, <2>4 DEF IsSeq
<1>2. ASSUME NEW s, IsSeq(s), NEW a
      PROVE  Arch!ReadAll(s ## a) = Arch!ReadAll(s) ## Arch!R(a)
  <2> DEFINE t == s ## a
             u == Arch!ReadAll(s) ## Arch!R(a)
  <2>1. /\ IsSeq(t) /\ Len(t) = Len(s) + 1 /\ Len(s) \in Nat
        /\ \A i \in 1..Len(s) : t[i] = s[i]
        /\ t[Len(s) + 1] = a
    BY <1>2, ChainIs
  <2>2. /\ IsSeq(Arch!ReadAll(s)) /\ Len(Arch!ReadAll(s)) = Len(s)
        /\ \A k \in 1..Len(s) : Arch!ReadAll(s)[k] = Arch!R(s[k])
    BY <1>1, <1>2
  <2>3. /\ IsSeq(u) /\ Len(u) = Len(s) + 1
        /\ \A i \in 1..Len(s) : u[i] = Arch!ReadAll(s)[i]
        /\ u[Len(s) + 1] = Arch!R(a)
    BY <2>2, ChainIs
  <2> HIDE DEF t, u
  <2>4. /\ IsSeq(Arch!ReadAll(t)) /\ Len(Arch!ReadAll(t)) = Len(s) + 1
        /\ \A k \in 1..(Len(s) + 1) : Arch!ReadAll(t)[k] = Arch!R(t[k])
    BY <1>1, <2>1
  <2>5. \A k \in 1..(Len(s) + 1) : Arch!ReadAll(t)[k] = u[k]
    BY <2>1, <2>2, <2>3, <2>4
  <2>6. Arch!ReadAll(t) = u
    BY <2>3, <2>4, <2>5, SameSeq
  <2>7. QED
    BY <2>6 DEF t, u
<1>3. Arch!ReadAll(Nil) = Nil
  <2>1. IsSeq(Arch!ReadAll(Nil)) /\ Len(Arch!ReadAll(Nil)) = 0
    BY <1>1, NilIs
  <2>2. QED
    BY <2>1, NilIs, SameSeq
<1>4. QED
  BY <1>1, <1>2, <1>3

\* The operation of an instruction.
LEMMA ArchComputes ==
  ASSUME TypeOK, Begun, timing.kind = "brk", NEW byte, NEW r \in [RegNames -> Bytes],
         outcome'.regs = regs', outcome'.p = p', Computed(r, byte)
  PROVE  Arch!Computes(byte, r)
<1>1. Arch!instr = instr
  BY ArchInstr
<1>2. Arch!Result(byte) = Op(byte)
  BY <1>1, SameALU DEF Arch!Result, Arch!Source, Arch!CarryIn, Op, Ran
<1>3. DOMAIN r = RegNames
  OBVIOUS
<1>4. QED
  BY <1>1, <1>2, <1>3, SameStatus DEF Arch!Computes, Computed

-----------------------------------------------------------------------------
(* Each way an instruction ends is an action of Isa6502                     *)

\* How sequences join.
LEMMA JoinsIs ==
  /\ IsSeq(Nil) /\ \A s, e : IsSeq(s) => IsSeq(s ## e)
  /\ \A s : IsSeq(s) => Joins(s, Nil, s)
  /\ \A s, t, u, e : Joins(s, t, u) => Joins(s, t ## e, u ## e)
<1>1. IsSeq(Nil) /\ \A s, e : IsSeq(s) => IsSeq(s ## e)
  BY NilIs, ChainIs
<1>2. \A s : IsSeq(s) => Joins(s, Nil, s)
  <2>1. \A s : IsSeq(s) => Chainable(s, Nil, Nil)
    BY NilIs DEF Chainable
  <2>2. \A s : IsSeq(s) => s \o Nil = s
    BY <2>1, ConcatChain
  <2>3. QED
    BY <2>2, NilIs DEF Joins
<1>3. ASSUME NEW s, NEW t, NEW u, NEW e, Joins(s, t, u)
      PROVE  Joins(s, t ## e, u ## e)
  <2>1. IsSeq(s) /\ IsSeq(t) /\ IsSeq(u) /\ s \o t = u
    BY <1>3 DEF Joins
  <2>2. s \o (t ## e) = (s \o t) ## e
    <3>1. Chainable(s, t, e)
      BY <2>1 DEF Chainable
    <3>2. QED
      BY <3>1, ConcatChain
  <2>3. IsSeq(t ## e) /\ IsSeq(u ## e)
    BY <1>1, <2>1
  <2>4. QED
    BY <2>1, <2>2, <2>3 DEF Joins
<1>4. QED
  BY <1>1, <1>2, <1>3

\* How reads add up.
LEMMA ReadsIs ==
  /\ ReadsAs(Nil, Nil)
  /\ \A s, t, a, e : ReadsAs(s, t) /\ e = Arch!R(a) => ReadsAs(s ## a, t ## e)
<1>1. ReadsAs(Nil, Nil)
  BY ArchReads, NilIs DEF ReadsAs
<1>2. ASSUME NEW s, NEW t, NEW a, NEW e, ReadsAs(s, t), e = Arch!R(a)
      PROVE  ReadsAs(s ## a, t ## e)
  <2>1. IsSeq(s) /\ IsSeq(t) /\ Arch!ReadAll(s) = t
    BY <1>2 DEF ReadsAs
  <2>2. Arch!ReadAll(s ## a) = Arch!ReadAll(s) ## Arch!R(a)
    BY <2>1, ArchReads
  <2>3. IsSeq(s ## a) /\ IsSeq(t ## e)
    BY <2>1, JoinsIs
  <2>4. QED
    BY <1>2, <2>1, <2>2, <2>3 DEF ReadsAs
<1>3. QED
  BY <1>1, <1>2

\* The bus cycles after the opcode fetch are those of an action.
LEMMA MakesIs ==
  ASSUME TypeOK, Ends, NEW cycles, Joins(Bus0(outcome), cycles, bus')
  PROVE  Arch!Makes(cycles)
<1>0. IsSeq(cycles) /\ bus' = One(Rd(outcome.pc)) \o cycles
  BY TupleIs DEF Joins, Bus0
<1>1. Arch!R(outcome.pc) = Rd(outcome.pc)
  BY ArchBytes DEF TypeOK
<1>2. <<Arch!R(outcome.pc)>> = One(Rd(outcome.pc))
  BY <1>1 DEF One
<1>3. mem' = Wrote(outcome.mem, bus') /\ HasLasts(bus') /\ outcome'.mem = mem' /\ outcome'.bus = bus'
  BY DEF Ends
<1>4. Rd(outcome.pc)[1] = "read"
  BY DEF Rd
<1>5. Wrote(outcome.mem, bus') = Wrote(outcome.mem, cycles)
  BY <1>0, <1>3, <1>4, AfterPrefix
<1>6. Arch!After(cycles) = Wrote(outcome.mem, cycles)
  BY AfterIs
<1>7. QED
  BY <1>0, <1>2, <1>3, <1>5, <1>6 DEF Arch!Makes

\* What ends without an interrupt taken has polled them.
LEMMA PolledIs ==
  ASSUME Ends, ~Control.intTake, NEW q, q.i = p.i
  PROVE  Arch!Polled(q)
BY DEF Ends, Arch!Polled

\* The addresses after the opcode.
LEMMA ArchPc ==
  ASSUME TypeOK
  PROVE  /\ \A k : Arch!Indexed(outcome.pc, k) = Pc(outcome, k)
         /\ (outcome.pc + 1) % 65536 = Pc(outcome, 1) /\ (outcome.pc + 2) % 65536 = Pc(outcome, 2)
         /\ Arch!R(outcome.pc + 1) = Rd(Pc(outcome, 1)) /\ Arch!Byte(outcome.pc + 1) = A1(outcome)
         /\ Arch!R(outcome.pc + 2) = Rd(Pc(outcome, 2)) /\ Arch!Byte(outcome.pc + 2) = A2(outcome)
         /\ Arch!WordAt(outcome.pc + 1) = Target(outcome)
<1>1. \A k : Arch!Indexed(outcome.pc, k) = Pc(outcome, k)
  BY DEF Arch!Indexed, Pc
<1>2. (outcome.pc + 1) % 65536 = Pc(outcome, 1) /\ (outcome.pc + 2) % 65536 = Pc(outcome, 2)
  BY DEF Pc
<1>3. /\ Arch!R(outcome.pc + 1) = Rd(Pc(outcome, 1)) /\ Arch!Byte(outcome.pc + 1) = A1(outcome)
      /\ Arch!R(outcome.pc + 2) = Rd(Pc(outcome, 2)) /\ Arch!Byte(outcome.pc + 2) = A2(outcome)
  BY ArchBytes DEF A1, A2
<1>4. (outcome.pc + 1) + 1 = outcome.pc + 2
  <2>1. outcome.pc \in Int
    BY BytesAreWords DEF TypeOK
  <2>2. QED
    BY <2>1
<1>5. Arch!WordAt(outcome.pc + 1) = Target(outcome)
  BY <1>3, <1>4, SameNumbers DEF Arch!WordAt, Target
<1>6. QED
  BY <1>1, <1>2, <1>3, <1>5

\* The end of an implied instruction is that action.
LEMMA ImpliedEnd ==
  ASSUME TypeOK, NEW reset, ~reset, Clocks(Control, reset), Ends, Begun, timing.kind = "brk", instr.mode = "IMP", timing.t = 1, Started
  PROVE  Arch!Implied
<1>1. Arch!instr = instr /\ Passes /\ fetch' /\ outcome'.pc = pc' /\ outcome'.regs = regs' /\ outcome'.p = p'
  BY ArchInstr DEF Ends
<1>2. /\ Finished /\ p = outcome.p /\ pc' = Pc(outcome, 1) /\ bus' = Bus1(outcome)
      /\ Computed(outcome.regs, A1(outcome))
  BY <1>1, ImpliedFinish
<1>3. Arch!Size = 1
  BY <1>1 DEF Arch!Size
<1>4. pc' = Arch!Indexed(outcome.pc, Arch!Size)
  BY <1>2, <1>3, ArchPc
<1>5. Arch!Makes(<<Arch!R(outcome.pc + 1)>>)
  <2>1. <<Arch!R(outcome.pc + 1)>> = Nil ## Rd(Pc(outcome, 1))
    BY ArchPc, TupleIs DEF One
  <2>2. Joins(Bus0(outcome), Nil ## Rd(Pc(outcome, 1)), bus')
    BY <1>2, JoinsIs DEF Bus0, Bus1
  <2>3. QED
    BY <2>1, <2>2, MakesIs
<1>6. Arch!Computes(Arch!Byte(outcome.pc + 1), outcome.regs)
  BY <1>1, <1>2, ArchPc, ArchComputes, OutcomeTypes
<1>7. Arch!Polled(outcome.p)
  BY <1>2, PolledIs DEF Finished
<1>8. QED
  BY <1>1, <1>4, <1>5, <1>6, <1>7 DEF Arch!Implied

\* Pointers, and the bytes of the stack.
LEMMA ArchPointer ==
  ASSUME TypeOK, NEW a \in Words
  PROVE  /\ Arch!NextInPage(a) = Nip(a) /\ Nip(a) \in Words
         /\ Arch!Pointer(a) = Ptr(outcome, a) /\ Ptr(outcome, a) \in Words
<1>1. a \in Int /\ Low(a) \in Bytes /\ High(a) \in Bytes
  BY WordParts, BytesAreWords
<1>2. (a + 1) % 256 = (Low(a) + 1) % 256
  BY <1>1, ByteWrapsTwice DEF Low
<1>3. (Low(a) + 1) % 256 \in Bytes
  <2>1. a + 1 \in Int
    BY <1>1
  <2>2. QED
    BY <1>2, <2>1, ByteWraps
<1>4. Arch!NextInPage(a) = Nip(a)
  BY <1>2, SameNumbers DEF Arch!NextInPage, Nip
<1>5. Nip(a) \in Words
  BY <1>1, <1>3, PartsWord DEF Nip
<1>6. Arch!Byte(a) = B(outcome, a) /\ Arch!Byte(Nip(a)) = B(outcome, Nip(a))
  BY <1>5, ArchBytes
<1>7. Arch!Pointer(a) = Ptr(outcome, a)
  BY <1>4, <1>6, SameNumbers DEF Arch!Pointer, Ptr
<1>8. Ptr(outcome, a) \in Words
  BY OutcomeTypes, PartsWord DEF Ptr
<1>9. QED
  BY <1>4, <1>5, <1>7, <1>8

\* The stack is in the memory.
LEMMA SpWords ==
  ASSUME TypeOK, NEW k \in Int
  PROVE  Sp(outcome, k) \in Words
<1>1. outcome.regs.S \in Int
  BY BytesAreWords DEF TypeOK, RegNames
<1>2. outcome.regs.S + k \in Int
  BY <1>1
<1>3. (outcome.regs.S + k) % 256 \in Bytes
  BY <1>2, ByteWraps
<1>4. 1 \in Bytes
  BY DEF Bytes
<1>5. QED
  BY <1>3, <1>4, PartsWord DEF Sp

\* The writes of pushes.
LEMMA ArchPushed ==
  ASSUME TypeOK
  PROVE  /\ \A b : Arch!Pushed(0, b) = Wr(Sp(outcome, 0), b) /\ Arch!Pushed(1, b) = Wr(Sp(outcome, -1), b)
                   /\ Arch!Pushed(2, b) = Wr(Sp(outcome, -2), b)
         /\ \A k \in Int : Arch!R(Arch!Stack(k)) = Rd(Sp(outcome, k)) /\ Arch!Byte(Arch!Stack(k)) = B(outcome, Sp(outcome, k))
<1>1. \A k \in Int : Sp(outcome, k) \in Words /\ Arch!Stack(k) = Sp(outcome, k)
  BY SpWords, ArchStack
<1>2. \A k \in Int : \A b : Arch!W(Arch!Stack(k), b) = Wr(Sp(outcome, k), b)
  BY <1>1, ArchBytes
<1>3. ASSUME NEW b
      PROVE  Arch!Pushed(0, b) = Wr(Sp(outcome, 0), b)
  <2>1. Arch!Pushed(0, b) = Arch!W(Arch!Stack(-0), b)
    BY DEF Arch!Pushed
  <2>2. \A k \in Int : k = 0 => Arch!Stack(-k) = Arch!Stack(0)
    OBVIOUS
  <2>3. Arch!Stack(-0) = Arch!Stack(0)
    BY <2>2
  <2>4. QED
    BY <1>2, <2>1, <2>3
<1>4. \A b : Arch!Pushed(1, b) = Wr(Sp(outcome, -1), b) /\ Arch!Pushed(2, b) = Wr(Sp(outcome, -2), b)
  BY <1>2 DEF Arch!Pushed
<1>5. \A k \in Int : Arch!R(Arch!Stack(k)) = Rd(Sp(outcome, k)) /\ Arch!Byte(Arch!Stack(k)) = B(outcome, Sp(outcome, k))
  BY <1>1, ArchBytes
<1>6. QED
  BY <1>3, <1>4, <1>5

\* The memory after some cycles is that after what follows a read.
LEMMA Skips ==
  ASSUME NEW m, NEW r, NEW t, NEW u, Joins(Nil ## r, t, u), r[1] = "read", HasLasts(u)
  PROVE  HasLasts(t) /\ Wrote(m, u) = Wrote(m, t)
<1>1. Nil ## r = One(r) /\ IsSeq(t) /\ One(r) \o t = u
  BY TupleIs DEF Joins
<1>2. QED
  BY <1>1, AfterPrefix

\* The end of a jump is that action.
LEMMA JumpEnd ==
  ASSUME TypeOK, NEW reset, ~reset, Clocks(Control, reset), Ends, Begun, timing.kind = "brk", instr.mode = "JMP_ABS", JumpPhase
  PROVE  Arch!Jump
<1>1. Arch!instr = instr /\ Passes /\ fetch' /\ outcome'.pc = pc' /\ outcome'.regs = regs' /\ outcome'.p = p'
  BY ArchInstr DEF Ends
<1>2. /\ Finished /\ p = outcome.p /\ p' = p /\ regs' = outcome.regs
      /\ pc' = Target(outcome) /\ bus' = Bus2(outcome)
  BY <1>1, JumpFinish
<1>3. Arch!Makes(Arch!ReadAll(<<outcome.pc + 1, outcome.pc + 2>>))
  <2>1. <<outcome.pc + 1, outcome.pc + 2>> = Nil ## (outcome.pc + 1) ## (outcome.pc + 2)
    BY TupleIs DEF Two
  <2>2. ReadsAs(Nil ## (outcome.pc + 1) ## (outcome.pc + 2), Nil ## Rd(Pc(outcome, 1)) ## Rd(Pc(outcome, 2)))
    BY ArchPc, ReadsIs
  <2>3. Joins(Bus0(outcome), Nil ## Rd(Pc(outcome, 1)) ## Rd(Pc(outcome, 2)), bus')
    BY <1>2, JoinsIs DEF Bus0, Bus1, Bus2
  <2>4. QED
    BY <2>1, <2>2, <2>3, MakesIs DEF ReadsAs
<1>4. Arch!Polled(outcome.p)
  BY <1>2, PolledIs DEF Finished
<1>5. Arch!Keeps
  BY <1>1, <1>2 DEF Arch!Keeps
<1>6. pc' = Arch!WordAt(outcome.pc + 1)
  BY <1>2, ArchPc
<1>7. QED
  BY <1>1, <1>3, <1>4, <1>5, <1>6 DEF Arch!Jump

\* The end of an indirect jump is that action.
LEMMA IndirectEnd ==
  ASSUME TypeOK, NEW reset, ~reset, Clocks(Control, reset), Ends, Begun, timing.kind = "brk", instr.mode = "JMP_IND", IndirectPhase
  PROVE  Arch!Jump
<1>1. Arch!instr = instr /\ Passes /\ fetch' /\ outcome'.pc = pc' /\ outcome'.regs = regs' /\ outcome'.p = p'
  BY ArchInstr DEF Ends
<1>2. /\ Finished /\ p = outcome.p /\ p' = p /\ regs' = outcome.regs
      /\ pc' = Ptr(outcome, Target(outcome)) /\ bus' = Bus2(outcome) ## Rd(Target(outcome)) ## Rd(Nip(Target(outcome)))
  BY <1>1, IndirectFinish
<1>a. Target(outcome) \in Words
  BY OutcomeTypes, PartsWord DEF Target, A1, A2
<1>b. /\ Arch!WordAt(outcome.pc + 1) = Target(outcome) /\ Arch!NextInPage(Target(outcome)) = Nip(Target(outcome))
      /\ Nip(Target(outcome)) \in Words /\ Arch!Pointer(Target(outcome)) = Ptr(outcome, Target(outcome))
  BY <1>a, ArchPc, ArchPointer
<1>c. Arch!R(Target(outcome)) = Rd(Target(outcome)) /\ Arch!R(Nip(Target(outcome))) = Rd(Nip(Target(outcome)))
  BY <1>a, <1>b, ArchBytes
<1>3. Arch!Makes(Arch!ReadAll(<<outcome.pc + 1, outcome.pc + 2, Target(outcome), Nip(Target(outcome))>>))
  <2> DEFINE s == Nil ## (outcome.pc + 1) ## (outcome.pc + 2) ## Target(outcome) ## Nip(Target(outcome))
             t == Nil ## Rd(Pc(outcome, 1)) ## Rd(Pc(outcome, 2)) ## Rd(Target(outcome)) ## Rd(Nip(Target(outcome)))
  <2>1. <<outcome.pc + 1, outcome.pc + 2, Target(outcome), Nip(Target(outcome))>> = s
    BY TupleIs DEF Four
  <2>2. ReadsAs(s, t)
    BY <1>c, ArchPc, ReadsIs
  <2>3. Joins(Bus0(outcome), t, bus')
    BY <1>2, JoinsIs DEF Bus0, Bus1, Bus2
  <2>4. QED
    BY <2>1, <2>2, <2>3, MakesIs DEF ReadsAs
<1>4. Arch!Polled(outcome.p)
  BY <1>2, PolledIs DEF Finished
<1>5. Arch!Keeps
  BY <1>1, <1>2 DEF Arch!Keeps
<1>6. pc' = Arch!Pointer(Arch!WordAt(outcome.pc + 1))
  BY <1>2, <1>b
<1>7. QED
  BY <1>1, <1>3, <1>4, <1>5, <1>6, <1>b DEF Arch!Jump

\* The end of a push is that action.
LEMMA PushEnd ==
  ASSUME TypeOK, NEW reset, ~reset, Clocks(Control, reset), Ends, Begun, timing.kind = "brk", instr.mode = "PUSH", PushPhase
  PROVE  Arch!Push
<1>1. Arch!instr = instr /\ Passes /\ fetch' /\ outcome'.pc = pc' /\ outcome'.regs = regs' /\ outcome'.p = p'
  BY ArchInstr DEF Ends
<1> DEFINE byte == IF instr.store = "P" THEN Pack(outcome.p, 1) ELSE outcome.regs[instr.store]
<1>2. /\ Finished /\ p = outcome.p /\ p' = p /\ regs' = [outcome.regs EXCEPT !.S = (outcome.regs.S + -1) % 256]
      /\ bus' = Bus1(outcome) ## Wr(Sp(outcome, 0), byte)
      /\ pc' = Pc(outcome, 1)
  BY <1>1, PushFinish
<1>3. Arch!Makes(<<Arch!R(outcome.pc + 1), Arch!Pushed(0, byte)>>)
  <2> HIDE DEF byte
  <2>1. <<Arch!R(outcome.pc + 1), Arch!Pushed(0, byte)>> = Nil ## Rd(Pc(outcome, 1)) ## Wr(Sp(outcome, 0), byte)
    BY ArchPc, ArchPushed, TupleIs DEF Two
  <2>2. Joins(Bus0(outcome), Nil ## Rd(Pc(outcome, 1)) ## Wr(Sp(outcome, 0), byte), bus')
    BY <1>2, JoinsIs DEF Bus0, Bus1
  <2>3. QED
    BY <2>1, <2>2, MakesIs
<1>4. Arch!Polled(outcome.p)
  BY <1>2, PolledIs DEF Finished
<1>5. regs' = Arch!MovedBy(-1)
  BY <1>2, ArchStack
<1>6. pc' = (outcome.pc + 1) % 65536
  BY <1>2, ArchPc
<1>7. byte = IF Arch!instr.store = "P" THEN Arch!Pack(outcome.p, 1) ELSE outcome.regs[Arch!instr.store]
  BY <1>1, SameStatus
<1>8. QED
  BY <1>1, <1>2, <1>3, <1>4, <1>5, <1>6, <1>7 DEF Arch!Push

\* The end of JSR is that action.
LEMMA CallEnd ==
  ASSUME TypeOK, NEW reset, ~reset, Clocks(Control, reset), Ends, Begun, timing.kind = "brk", instr.mode = "JSR_ABS", CallPhase, mem = Wrote(outcome.mem, bus), HasLasts(bus)
  PROVE  Arch!Call
<1>1. Arch!instr = instr /\ Passes /\ fetch' /\ outcome'.pc = pc' /\ outcome'.regs = regs' /\ outcome'.p = p'
  BY ArchInstr DEF Ends
<1> DEFINE back == (outcome.pc + 2) % 65536
           pushes == Nil ## Wr(Sp(outcome, 0), High(back)) ## Wr(Sp(outcome, -1), Low(back))
           cycles == Nil ## Rd(Pc(outcome, 1)) ## Rd(Sp(outcome, 0)) ## Wr(Sp(outcome, 0), High(back)) ## Wr(Sp(outcome, -1), Low(back)) ## Rd(back)
<1>0. Pc(outcome, 2) = back
  BY ArchPc
<1>2. /\ Finished /\ p = outcome.p /\ p' = p /\ regs' = [outcome.regs EXCEPT !.S = (outcome.regs.S + -2) % 256]
      /\ bus = BusCalled(outcome) /\ bus' = bus ## Rd(back) /\ pc' = Word(A1(outcome), ByteAt(mem, back))
  BY <1>0, <1>1, CallFinish
<1>3. back \in Words /\ Arch!R(back) = Rd(back)
  BY <1>0, OutcomeTypes, ArchBytes
<1>4. <<Arch!Pushed(0, Arch!High(back)), Arch!Pushed(1, Arch!Low(back))>> = pushes
  BY ArchPushed, SameNumbers, TupleIs DEF Two
<1>5. mem = Wrote(outcome.mem, pushes)
  <2>1. Joins(Bus0(outcome), Nil ## Rd(Pc(outcome, 1)) ## Rd(Sp(outcome, 0)) ## Wr(Sp(outcome, 0), High(back)) ## Wr(Sp(outcome, -1), Low(back)), bus)
    BY <1>0, <1>2, JoinsIs DEF Bus0, Bus1, BusCall, BusCalled
  <2>2. Joins(Nil ## Rd(Pc(outcome, 1)), Nil ## Rd(Sp(outcome, 0)) ## Wr(Sp(outcome, 0), High(back)) ## Wr(Sp(outcome, -1), Low(back)),
              Nil ## Rd(Pc(outcome, 1)) ## Rd(Sp(outcome, 0)) ## Wr(Sp(outcome, 0), High(back)) ## Wr(Sp(outcome, -1), Low(back)))
    BY JoinsIs
  <2>3. Joins(Nil ## Rd(Sp(outcome, 0)), pushes, Nil ## Rd(Sp(outcome, 0)) ## Wr(Sp(outcome, 0), High(back)) ## Wr(Sp(outcome, -1), Low(back)))
    BY JoinsIs
  <2>4. \A a : Rd(a)[1] = "read"
    BY DEF Rd
  <2> HIDE DEF pushes
  <2>5. /\ HasLasts(Nil ## Rd(Pc(outcome, 1)) ## Rd(Sp(outcome, 0)) ## Wr(Sp(outcome, 0), High(back)) ## Wr(Sp(outcome, -1), Low(back)))
        /\ mem = Wrote(outcome.mem, Nil ## Rd(Pc(outcome, 1)) ## Rd(Sp(outcome, 0)) ## Wr(Sp(outcome, 0), High(back)) ## Wr(Sp(outcome, -1), Low(back)))
    BY <2>1, <2>4, Skips DEF Bus0
  <2>6. /\ HasLasts(Nil ## Rd(Sp(outcome, 0)) ## Wr(Sp(outcome, 0), High(back)) ## Wr(Sp(outcome, -1), Low(back)))
        /\ mem = Wrote(outcome.mem, Nil ## Rd(Sp(outcome, 0)) ## Wr(Sp(outcome, 0), High(back)) ## Wr(Sp(outcome, -1), Low(back)))
    BY <2>2, <2>4, <2>5, Skips
  <2>7. QED
    BY <2>3, <2>4, <2>6, Skips
<1>6. pc' = Arch!Word(Arch!Byte(outcome.pc + 1), Arch!At(Arch!After(pushes), back))
  <2> HIDE DEF pushes, back
  <2>1. Arch!At(Arch!After(pushes), back) = ByteAt(mem, back)
    BY <1>5, AfterIs, ArchBytes
  <2>2. QED
    BY <1>2, <2>1, ArchPc, SameNumbers
<1>7. Arch!Makes(cycles)
  <2>1. Joins(Bus0(outcome), cycles, bus')
    BY <1>0, <1>2, JoinsIs DEF Bus0, Bus1, BusCall, BusCalled
  <2> HIDE DEF cycles
  <2>2. QED
    BY <2>1, MakesIs
<1>8. <<Arch!R(outcome.pc + 1), Arch!R(Arch!Stack(0))>> \o pushes \o <<Arch!R(back)>> = cycles
  <2> HIDE DEF back
  <2>1. <<Arch!R(outcome.pc + 1), Arch!R(Arch!Stack(0))>> = Nil ## Rd(Pc(outcome, 1)) ## Rd(Sp(outcome, 0))
    BY ArchPc, ArchPushed, TupleIs DEF Two
  <2>2. <<Arch!R(back)>> = Nil ## Rd(back)
    BY <1>3, TupleIs DEF One
  <2>3. Joins(Nil ## Rd(Pc(outcome, 1)) ## Rd(Sp(outcome, 0)), pushes,
              Nil ## Rd(Pc(outcome, 1)) ## Rd(Sp(outcome, 0)) ## Wr(Sp(outcome, 0), High(back)) ## Wr(Sp(outcome, -1), Low(back)))
    BY JoinsIs
  <2>4. Joins(Nil ## Rd(Pc(outcome, 1)) ## Rd(Sp(outcome, 0)) ## Wr(Sp(outcome, 0), High(back)) ## Wr(Sp(outcome, -1), Low(back)),
              Nil ## Rd(back), cycles)
    BY JoinsIs
  <2> HIDE DEF pushes, cycles
  <2>5. QED
    BY <2>1, <2>2, <2>3, <2>4 DEF Joins
<1>9. Arch!Polled(outcome.p)
  BY <1>2, PolledIs DEF Finished
<1>10. regs' = Arch!MovedBy(-2)
  BY <1>2, ArchStack
<1> HIDE DEF pushes, cycles, back
<1> DEFINE pushed == <<Arch!Pushed(0, Arch!High(back)), Arch!Pushed(1, Arch!Low(back))>>
<1>11. pushed = pushes
  BY <1>4
<1> HIDE DEF pushed
<1>12. pc' = Arch!Word(Arch!Byte(outcome.pc + 1), Arch!At(Arch!After(pushed), back))
  BY <1>6, <1>11
<1>13. Arch!Makes(<<Arch!R(outcome.pc + 1), Arch!R(Arch!Stack(0))>> \o pushed \o <<Arch!R(back)>>)
  BY <1>7, <1>8, <1>11
<1>14. /\ Arch!instr.mode = "JSR_ABS"
       /\ outcome'.pc = Arch!Word(Arch!Byte(outcome.pc + 1), Arch!At(Arch!After(pushed), back))
       /\ Arch!Makes(<<Arch!R(outcome.pc + 1), Arch!R(Arch!Stack(0))>> \o pushed \o <<Arch!R(back)>>)
       /\ outcome'.regs = Arch!MovedBy(-2) /\ outcome'.p = outcome.p /\ Arch!Polled(outcome.p)
  BY <1>1, <1>2, <1>9, <1>10, <1>12, <1>13
<1>15. QED
  BY <1>14 DEF Arch!Call, pushed, back

\* The end of RTS is that action.
LEMMA ReturnEnd ==
  ASSUME TypeOK, NEW reset, ~reset, Clocks(Control, reset), Ends, Begun, timing.kind = "brk", instr.mode = "RTS_IMP", ReturnPhase
  PROVE  Arch!Return
<1>1. Arch!instr = instr /\ Passes /\ fetch' /\ outcome'.pc = pc' /\ outcome'.regs = regs' /\ outcome'.p = p'
  BY ArchInstr DEF Ends
<1> DEFINE back == ReturnTo(outcome)
           s == Nil ## (outcome.pc + 1) ## Arch!Stack(0) ## Arch!Stack(1) ## Arch!Stack(2) ## back
           t == Nil ## Rd(Pc(outcome, 1)) ## Rd(Sp(outcome, 0)) ## Rd(Sp(outcome, 1)) ## Rd(Sp(outcome, 2)) ## Rd(back)
<1>2. /\ Finished /\ p = outcome.p /\ p' = p /\ regs' = [outcome.regs EXCEPT !.S = (outcome.regs.S + 2) % 256]
      /\ bus' = BusCall(outcome) ## Rd(Sp(outcome, 1)) ## Rd(Sp(outcome, 2)) ## Rd(back)
      /\ pc' = (back + 1) % 65536
  BY <1>1, ReturnFinish
<1>3. Arch!Word(Arch!Byte(Arch!Stack(1)), Arch!Byte(Arch!Stack(2))) = back
  BY ArchPushed, SameNumbers DEF ReturnTo
<1>4. back \in Words
  BY OutcomeTypes, PartsWord DEF ReturnTo
<1>5. <<outcome.pc + 1, Arch!Stack(0), Arch!Stack(1), Arch!Stack(2), back>> = s
  BY TupleIs DEF Five
<1>6. ReadsAs(s, t)
  <2> HIDE DEF back
  <2>1. Arch!R(back) = Rd(back)
    BY <1>4, ArchBytes
  <2>2. Arch!R(Arch!Stack(0)) = Rd(Sp(outcome, 0)) /\ Arch!R(Arch!Stack(1)) = Rd(Sp(outcome, 1)) /\ Arch!R(Arch!Stack(2)) = Rd(Sp(outcome, 2))
    BY ArchPushed
  <2>3. QED
    BY <2>1, <2>2, ArchPc, ReadsIs
<1>7. Joins(Bus0(outcome), t, bus')
  BY <1>2, JoinsIs DEF Bus0, Bus1, BusCall
<1> HIDE DEF s, t
<1>8. Arch!Makes(Arch!ReadAll(s))
  BY <1>6, <1>7, MakesIs DEF ReadsAs
<1>9. Arch!Polled(outcome.p)
  BY <1>2, PolledIs DEF Finished
<1>10. regs' = Arch!MovedBy(2)
  BY <1>2, ArchStack
<1>11. pc' = Arch!Indexed(back, 1)
  BY <1>2 DEF Arch!Indexed
<1> HIDE DEF back
<1>12. QED
  BY <1>1, <1>2, <1>3, <1>5, <1>8, <1>9, <1>10, <1>11 DEF Arch!Return

\* The end of RTI is that action.
LEMMA ReturnFromInterruptEnd ==
  ASSUME TypeOK, NEW reset, ~reset, Clocks(Control, reset), Ends, Begun, timing.kind = "brk", instr.mode = "RTI_IMP", ReturnFromInterruptPhase
  PROVE  Arch!ReturnFromInterrupt
<1>1. Arch!instr = instr /\ Passes /\ fetch' /\ outcome'.pc = pc' /\ outcome'.regs = regs' /\ outcome'.p = p'
  BY ArchInstr DEF Ends
<1> DEFINE s == Nil ## (outcome.pc + 1) ## Arch!Stack(0) ## Arch!Stack(1) ## Arch!Stack(2) ## Arch!Stack(3)
           t == Nil ## Rd(Pc(outcome, 1)) ## Rd(Sp(outcome, 0)) ## Rd(Sp(outcome, 1)) ## Rd(Sp(outcome, 2)) ## Rd(Sp(outcome, 3))
<1>2. /\ Finished /\ p' = p /\ p' = Unpack(B(outcome, Sp(outcome, 1)))
      /\ regs' = [outcome.regs EXCEPT !.S = (outcome.regs.S + 3) % 256]
      /\ bus' = BusCall(outcome) ## Rd(Sp(outcome, 1)) ## Rd(Sp(outcome, 2)) ## Rd(Sp(outcome, 3))
      /\ pc' = Word(B(outcome, Sp(outcome, 2)), B(outcome, Sp(outcome, 3)))
  BY <1>1, ReturnFromInterruptFinish
<1>3. pc' = Arch!Word(Arch!Byte(Arch!Stack(2)), Arch!Byte(Arch!Stack(3))) /\ p' = Arch!Unpack(Arch!Byte(Arch!Stack(1)))
  BY <1>2, ArchPushed, SameNumbers, SameStatus
<1>5. <<outcome.pc + 1, Arch!Stack(0), Arch!Stack(1), Arch!Stack(2), Arch!Stack(3)>> = s
  BY TupleIs DEF Five
<1>6. ReadsAs(s, t)
  <2>2. /\ Arch!R(Arch!Stack(0)) = Rd(Sp(outcome, 0)) /\ Arch!R(Arch!Stack(1)) = Rd(Sp(outcome, 1)) /\ Arch!R(Arch!Stack(2)) = Rd(Sp(outcome, 2))
        /\ Arch!R(Arch!Stack(3)) = Rd(Sp(outcome, 3))
    BY ArchPushed
  <2>3. QED
    BY <2>2, ArchPc, ReadsIs
<1>7. Joins(Bus0(outcome), t, bus')
  BY <1>2, JoinsIs DEF Bus0, Bus1, BusCall
<1> HIDE DEF s, t
<1>8. Arch!Makes(Arch!ReadAll(s))
  BY <1>6, <1>7, MakesIs DEF ReadsAs
<1>9. Arch!Polled(p')
  BY <1>2, PolledIs DEF Finished
<1>10. regs' = Arch!MovedBy(3)
  BY <1>2, ArchStack
<1>12. QED
  BY <1>1, <1>3, <1>5, <1>8, <1>9, <1>10 DEF Arch!ReturnFromInterrupt

\* The end of a pull is that action.
LEMMA PullEnd ==
  ASSUME TypeOK, NEW reset, ~reset, Clocks(Control, reset), Ends, Begun, timing.kind = "brk", instr.mode = "PULL", PullPhase
  PROVE  Arch!Pull
<1>1. Arch!instr = instr /\ Passes /\ fetch' /\ outcome'.pc = pc' /\ outcome'.regs = regs' /\ outcome'.p = p'
  BY ArchInstr DEF Ends
<1> DEFINE s == Nil ## (outcome.pc + 1) ## Arch!Stack(0) ## Arch!Stack(1)
           t == Nil ## Rd(Pc(outcome, 1)) ## Rd(Sp(outcome, 0)) ## Rd(Sp(outcome, 1))
           r == [outcome.regs EXCEPT !.S = (outcome.regs.S + 1) % 256]
<1>2. /\ Finished /\ p = outcome.p /\ pc' = Pc(outcome, 1)
      /\ bus' = BusCall(outcome) ## Rd(Sp(outcome, 1))
      /\ Computed(r, B(outcome, Sp(outcome, 1)))
  BY <1>1, PullFinish
<1>3. r = Arch!MovedBy(1) /\ r \in [RegNames -> Bytes]
  <2>1. outcome.regs \in [RegNames -> Bytes] /\ outcome.regs.S \in Int
    BY BytesAreWords DEF TypeOK, RegNames
  <2>2. (outcome.regs.S + 1) % 256 \in Bytes
    <3>1. outcome.regs.S + 1 \in Int
      BY <2>1
    <3>2. QED
      BY <3>1, ByteWraps
  <2>3. QED
    BY <2>1, <2>2, ArchStack
<1>5. <<outcome.pc + 1, Arch!Stack(0), Arch!Stack(1)>> = s
  BY TupleIs DEF Three
<1>6. ReadsAs(s, t)
  <2>2. Arch!R(Arch!Stack(0)) = Rd(Sp(outcome, 0)) /\ Arch!R(Arch!Stack(1)) = Rd(Sp(outcome, 1))
    BY ArchPushed
  <2>3. QED
    BY <2>2, ArchPc, ReadsIs
<1>7. Joins(Bus0(outcome), t, bus')
  BY <1>2, JoinsIs DEF Bus0, Bus1, BusCall
<1> HIDE DEF s, t, r
<1>8. Arch!Makes(Arch!ReadAll(s))
  BY <1>6, <1>7, MakesIs DEF ReadsAs
<1>9. Arch!Polled(outcome.p)
  BY <1>2, PolledIs DEF Finished
<1>10. Arch!Computes(Arch!Byte(Arch!Stack(1)), Arch!MovedBy(1))
  <2>1. Arch!Byte(Arch!Stack(1)) = B(outcome, Sp(outcome, 1))
    BY ArchPushed
  <2>2. QED
    BY <1>1, <1>2, <1>3, <2>1, ArchComputes
<1>11. pc' = (outcome.pc + 1) % 65536
  BY <1>2, ArchPc
<1>12. QED
  BY <1>1, <1>5, <1>8, <1>9, <1>10, <1>11 DEF Arch!Pull

\* The vectors are in the memory.
LEMMA VectorWords ==
  \A v \in {\hfffa, \hfffc, \hfffe} : v \in Words /\ v + 1 \in Words
BY DEF Words

\* Three pushes have a last write each.
LEMMA PushesLast ==
  ASSUME NEW a, NEW b, NEW c, NEW d, NEW e, NEW f
  PROVE  HasLasts(Nil ## Wr(a, b) ## Wr(c, d) ## Wr(e, f))
<1>1. ASSUME NEW s, IsSeq(s), HasLasts(s), NEW at, NEW byte
      PROVE  IsSeq(s ## Wr(at, byte)) /\ HasLasts(s ## Wr(at, byte))
  <2> DEFINE one == [x \in {at} |-> byte]
             w == Wr(at, byte)
  <2>1. DOMAIN one = {at} /\ one[at] = byte
    OBVIOUS
  <2>2. w = <<"write", at, byte>>
    BY DEF Wr
  <2> HIDE DEF one, w
  <2>3. HasLasts(s ## w)
    BY <1>1, <2>1, <2>2, AfterWrite
  <2>4. QED
    BY <1>1, <2>3, JoinsIs DEF w
<1>2. IsSeq(Nil) /\ HasLasts(Nil)
  <2> DEFINE m == [x \in {} |-> 0]
  <2>1. m = [x \in DOMAIN m |-> m[x]]
    OBVIOUS
  <2> HIDE DEF m
  <2>2. QED
    BY <2>1, NilIs, AfterNothing
<1>3. IsSeq(Nil ## Wr(a, b)) /\ HasLasts(Nil ## Wr(a, b))
  BY <1>1, <1>2
<1>4. IsSeq(Nil ## Wr(a, b) ## Wr(c, d)) /\ HasLasts(Nil ## Wr(a, b) ## Wr(c, d))
  BY <1>1, <1>3
<1>5. QED
  BY <1>1, <1>4

\* BRK and the interrupts.
LEMMA EnterEnd ==
  ASSUME TypeOK, NEW reset, ~reset, Clocks(Control, reset), Ends, timing.kind # "reset", instr.mode = "BRK_IMP", EnterPhase,
         mem = Wrote(outcome.mem, bus), HasLasts(bus),
         NEW back, back = Back(outcome, timing.kind), NEW b \in Int, b = Brk(timing.kind)
  PROVE  Arch!Enters(back, b, Vectors(timing.kind))
<1>1. Passes /\ fetch' /\ outcome'.pc = pc' /\ outcome'.regs = regs' /\ outcome'.p = p'
  BY DEF Ends
<1>2. /\ Finished /\ p' = p /\ p' = [outcome.p EXCEPT !.i = 1]
      /\ regs' = [outcome.regs EXCEPT !.S = (outcome.regs.S + -3) % 256]
      /\ \E v \in Vectors(timing.kind) : /\ bus = BusPushed(outcome, timing.kind) ## Rd(v) /\ bus' = bus ## Rd(v + 1)
                                         /\ pc' = Word(ByteAt(mem, v), ByteAt(mem, v + 1))
  BY <1>1, EnterFinish
<1>3. PICK v \in Vectors(timing.kind) : /\ bus = BusPushed(outcome, timing.kind) ## Rd(v) /\ bus' = bus ## Rd(v + 1)
                                        /\ pc' = Word(ByteAt(mem, v), ByteAt(mem, v + 1))
  BY <1>2
<1>4. v \in Words /\ v + 1 \in Words
  BY VectorWords DEF Vectors
<1> DEFINE pushes == Nil ## Wr(Sp(outcome, 0), High(back)) ## Wr(Sp(outcome, -1), Low(back)) ## Wr(Sp(outcome, -2), Pack(outcome.p, b))
           read == Nil ## Rd(Pc(outcome, b)) ## Wr(Sp(outcome, 0), High(back)) ## Wr(Sp(outcome, -1), Low(back)) ## Wr(Sp(outcome, -2), Pack(outcome.p, b))
<1>5. mem = Wrote(outcome.mem, pushes)
  <2>1. Joins(Bus0(outcome), read ## Rd(v), bus)
    BY <1>3, JoinsIs DEF Bus0, BusEnter, BusPushed
  <2>2. Joins(Nil ## Rd(Pc(outcome, b)), pushes ## Rd(v), read ## Rd(v))
    BY JoinsIs
  <2>3. \A a : Rd(a)[1] = "read"
    BY DEF Rd
  <2>4. HasLasts(pushes) /\ IsSeq(pushes)
    BY PushesLast, JoinsIs
  <2> HIDE DEF pushes, read
  <2>5. HasLasts(read ## Rd(v)) /\ mem = Wrote(outcome.mem, read ## Rd(v))
    BY <2>1, <2>3, Skips DEF Bus0
  <2>6. mem = Wrote(outcome.mem, pushes ## Rd(v))
    BY <2>2, <2>3, <2>5, Skips
  <2>7. Wrote(outcome.mem, pushes ## Rd(v)) = Wrote(outcome.mem, pushes)
    BY <2>3, <2>4, AfterRead
  <2>8. QED
    BY <2>6, <2>7
<1> DEFINE pushed == <<Arch!Pushed(0, Arch!High(back)), Arch!Pushed(1, Arch!Low(back)), Arch!Pushed(2, Arch!Pack(outcome.p, b))>>
<1>6. pushed = pushes
  BY ArchPushed, SameNumbers, SameStatus, TupleIs DEF Three
<1> DEFINE cycles == read ## Rd(v) ## Rd(v + 1)
           ends == Arch!ReadAll(<<v, v + 1>>)
<1>7. ends = Nil ## Rd(v) ## Rd(v + 1)
  <2>1. <<v, v + 1>> = Nil ## v ## (v + 1)
    BY TupleIs DEF Two
  <2>2. ReadsAs(Nil ## v ## (v + 1), Nil ## Rd(v) ## Rd(v + 1))
    BY <1>4, ArchBytes, ReadsIs
  <2>3. QED
    BY <2>1, <2>2 DEF ReadsAs
<1> HIDE DEF pushed, ends
<1>8. <<Arch!R(outcome.pc + b)>> \o pushed \o ends = cycles
  <2>1. <<Arch!R(outcome.pc + b)>> = Nil ## Rd(Pc(outcome, b))
    BY ArchBytes, TupleIs DEF One
  <2>2. Joins(Nil ## Rd(Pc(outcome, b)), pushes, read)
    BY JoinsIs
  <2>3. IsSeq(read)
    BY JoinsIs
  <2>4. Joins(read, Nil ## Rd(v) ## Rd(v + 1), cycles)
    <3> HIDE DEF read
    <3>1. QED
      BY <2>3, JoinsIs
  <2> HIDE DEF pushes, cycles, read
  <2>5. QED
    BY <1>6, <1>7, <2>1, <2>2, <2>4 DEF Joins
<1>9. Joins(Bus0(outcome), cycles, bus')
  BY <1>3, JoinsIs DEF Bus0, BusEnter, BusPushed
<1> HIDE DEF pushes, cycles
<1>10. Arch!Makes(<<Arch!R(outcome.pc + b)>> \o pushed \o ends)
  BY <1>8, <1>9, MakesIs
<1>11. pc' = Arch!Word(Arch!At(Arch!After(pushed), v), Arch!At(Arch!After(pushed), v + 1))
  BY <1>3, <1>5, <1>6, AfterIs, ArchBytes, SameNumbers
<1>12. regs' = Arch!MovedBy(-3)
  BY <1>2, ArchStack
<1>13. Arch!Polled(p')
  BY <1>2, PolledIs DEF Finished
<1>14. /\ \E x \in Vectors(timing.kind) :
             /\ outcome'.pc = Arch!Word(Arch!At(Arch!After(pushed), x), Arch!At(Arch!After(pushed), x + 1))
             /\ Arch!Makes(<<Arch!R(outcome.pc + b)>> \o pushed \o Arch!ReadAll(<<x, x + 1>>))
       /\ outcome'.regs = Arch!MovedBy(-3) /\ outcome'.p = [outcome.p EXCEPT !.i = 1] /\ Arch!Polled(outcome'.p)
  <2>1. outcome'.pc = Arch!Word(Arch!At(Arch!After(pushed), v), Arch!At(Arch!After(pushed), v + 1))
    BY <1>1, <1>11
  <2>2. Arch!Makes(<<Arch!R(outcome.pc + b)>> \o pushed \o Arch!ReadAll(<<v, v + 1>>))
    BY <1>10 DEF ends
  <2>3. \E x \in Vectors(timing.kind) :
             /\ outcome'.pc = Arch!Word(Arch!At(Arch!After(pushed), x), Arch!At(Arch!After(pushed), x + 1))
             /\ Arch!Makes(<<Arch!R(outcome.pc + b)>> \o pushed \o Arch!ReadAll(<<x, x + 1>>))
    <3>1. WITNESS v \in Vectors(timing.kind)
    <3>2. QED
      BY <2>1, <2>2
  <2>4. QED
    BY <1>1, <1>2, <1>12, <1>13, <2>3
<1>15. QED
  BY <1>14 DEF Arch!Enters, pushed

\* The types of a branch.
LEMMA BranchBytes ==
  ASSUME TypeOK
  PROVE  /\ Pc(outcome, 2) \in Words /\ A1(outcome) \in Bytes /\ Pc(outcome, 2) \in Int /\ A1(outcome) \in Int
         /\ Low(Pc(outcome, 2)) \in Bytes /\ Low(Pc(outcome, 2)) \in Int
<1>1. Pc(outcome, 2) \in Words
  BY OutcomeTypes
<1>2. A1(outcome) \in Bytes
  BY OutcomeTypes DEF A1
<1>3. Low(Pc(outcome, 2)) \in Bytes
  BY <1>1, WordParts
<1>4. QED
  BY <1>1, <1>2, <1>3, BytesAreWords

\* Where a branch goes, in the terms of the core.
LEMMA BranchTarget ==
  ASSUME TypeOK, NEW target, target = (Pc(outcome, 2) + (A1(outcome) - 256 * Bit(A1(outcome), 7))) % 65536
  PROVE  /\ target \in Words /\ Leaves(outcome) \in Bin
         /\ Leaves(outcome) = 0 => /\ target = Word(Leap(outcome) % 256, High(Pc(outcome, 2)))
                                   /\ High(target) = High(Pc(outcome, 2))
         /\ Leaves(outcome) = 1 => /\ High(target) # High(Pc(outcome, 2)) /\ Low(target) = Leap(outcome) % 256
                                   /\ target = Word(Leap(outcome) % 256, (High(Pc(outcome, 2)) + (IF Bit(A1(outcome), 7) = 1 THEN 255 ELSE 1)) % 256)
<1> DEFINE f == Pc(outcome, 2)
           d == A1(outcome)
           sum == Leap(outcome)
           leaves == Leaves(outcome)
           off == d - 256 * Bit(d, 7)
<1>1. f \in Words /\ d \in Bytes /\ f \in Int /\ d \in Int
  BY BranchBytes
<1>2. Low(f) \in Bytes /\ Low(f) \in Int
  BY BranchBytes
<1>3. sum = Low(f) + d
  BY DEF Leap
<1>4. sum \in Int
  BY <1>1, <1>2, <1>3
<1>5. leaves = (Bit(sum, 8) + Bit(d, 7)) % 2
  BY DEF Leaves
<1>6. Bit(sum, 8) \in Bin /\ Bit(d, 7) \in Bin
  BY <1>1, <1>4, BitType
<1>7. leaves \in Int
  <2> HIDE DEF leaves
  <2>1. QED
    BY <1>5, <1>6 DEF Bin
<1>8. target = (f + off) % 65536
  OBVIOUS
<1>9. off \in Int
  BY <1>1, <1>6 DEF Bin
<1> HIDE DEF f, d, sum, leaves
<1>10. target \in Int
  <2>1. f + off \in Int
    BY <1>1, <1>9
  <2>2. QED
    BY <1>8, <2>1, Wraps, BytesAreWords
<1>11. /\ target \in Words /\ leaves \in Bin
       /\ leaves = 0 => target = Word(sum % 256, High(f)) /\ High(target) = High(f)
       /\ leaves = 1 => /\ High(target) # High(f) /\ Low(target) = sum % 256
                        /\ target = Word(sum % 256, (High(f) + (IF Bit(d, 7) = 1 THEN 255 ELSE 1)) % 256)
  BY <1>1, <1>3, <1>4, <1>5, <1>7, <1>8, <1>10, OffsetIs
<1>12. QED
  BY <1>11 DEF f, d, sum, leaves

\* The end of a branch is that action.
LEMMA BranchEnd ==
  ASSUME TypeOK, NEW reset, ~reset, Clocks(Control, reset), Ends, Begun, timing.kind = "brk", instr.mode = "REL", BranchPhase
  PROVE  Arch!Branch
<1>1. Arch!instr = instr /\ Passes /\ fetch' /\ outcome'.pc = pc' /\ outcome'.regs = regs' /\ outcome'.p = p'
  BY ArchInstr DEF Ends
<1>2. /\ ~Control.intTake /\ p = outcome.p /\ p' = p /\ regs' = outcome.regs
      /\ \/ ~Taken(instr.cond, outcome.p) /\ pc' = Pc(outcome, 2) /\ bus' = Bus1(outcome)
         \/ /\ Taken(instr.cond, outcome.p) /\ Leaves(outcome) = 0 /\ ~Control.end
            /\ pc' = Word(Leap(outcome) % 256, High(Pc(outcome, 2))) /\ bus' = Bus2(outcome)
         \/ /\ Taken(instr.cond, outcome.p) /\ Leaves(outcome) = 1
            /\ pc' = Word(Leap(outcome) % 256, (High(Pc(outcome, 2)) + (IF Bit(A1(outcome), 7) = 1 THEN 255 ELSE 1)) % 256)
            /\ bus' = Bus2(outcome) ## Rd(Word(Leap(outcome) % 256, High(Pc(outcome, 2))))
  BY <1>1, BranchFinish
<1> DEFINE following == (outcome.pc + 2) % 65536
           offset == Arch!Byte(outcome.pc + 1) - 256 * Arch!Bit(Arch!Byte(outcome.pc + 1), 7)
           target == (following + offset) % 65536
           near == Arch!High(target) = Arch!High(following)
           low == Arch!Word(Arch!Low(target), Arch!High(following))
           second == IF near THEN <<>> ELSE <<Arch!R(low)>>
           reads == Arch!ReadAll(<<outcome.pc + 1, following>>)
<1>3. following = Pc(outcome, 2) /\ following \in Words
  BY ArchPc, OutcomeTypes
<1>4. offset = A1(outcome) - 256 * Bit(A1(outcome), 7)
  BY ArchPc, SameNumbers
<1>5. target = (Pc(outcome, 2) + (A1(outcome) - 256 * Bit(A1(outcome), 7))) % 65536
  BY <1>3, <1>4
<1>6. near <=> High(target) = High(Pc(outcome, 2))
  BY <1>3, SameNumbers
<1>7. low = Word(Low(target), High(Pc(outcome, 2)))
  BY <1>3, SameNumbers
<1>8. <<Arch!R(low)>> = Nil ## Arch!R(low)
  BY TupleIs DEF One
<1>9. reads = Nil ## Rd(Pc(outcome, 1)) ## Rd(Pc(outcome, 2))
  <2>1. <<outcome.pc + 1, following>> = Nil ## (outcome.pc + 1) ## following
    BY TupleIs DEF Two
  <2>2. Arch!R(following) = Rd(Pc(outcome, 2))
    BY <1>3, ArchBytes
  <2> HIDE DEF following
  <2>3. ReadsAs(Nil ## (outcome.pc + 1) ## following, Nil ## Rd(Pc(outcome, 1)) ## Rd(Pc(outcome, 2)))
    BY <2>2, ArchPc, ReadsIs
  <2>4. QED
    BY <2>1, <2>3 DEF ReadsAs
<1>a. second = IF near THEN <<>> ELSE <<Arch!R(low)>>
  OBVIOUS
<1> HIDE DEF following, offset, target, near, low, reads, second
<1>10. /\ target \in Words /\ Leaves(outcome) \in Bin
       /\ Leaves(outcome) = 0 => /\ target = Word(Leap(outcome) % 256, High(Pc(outcome, 2)))
                                 /\ High(target) = High(Pc(outcome, 2))
       /\ Leaves(outcome) = 1 => /\ High(target) # High(Pc(outcome, 2)) /\ Low(target) = Leap(outcome) % 256
                                 /\ target = Word(Leap(outcome) % 256, (High(Pc(outcome, 2)) + (IF Bit(A1(outcome), 7) = 1 THEN 255 ELSE 1)) % 256)
  BY <1>5, BranchTarget
<1>11. IF ~Taken(instr.cond, outcome.p)
       THEN pc' = following /\ Arch!Makes(<<Arch!R(outcome.pc + 1)>>) /\ Arch!Polled(outcome.p)
       ELSE /\ pc' = target /\ Arch!Makes(reads \o second)
            /\ IF near THEN outcome'.due = "none" ELSE Arch!Polled(outcome.p)
  <2>0. Arch!Polled(outcome.p)
    BY <1>2, PolledIs
  <2>1. CASE ~Taken(instr.cond, outcome.p) /\ pc' = Pc(outcome, 2) /\ bus' = Bus1(outcome)
    <3>1. <<Arch!R(outcome.pc + 1)>> = Nil ## Rd(Pc(outcome, 1))
      BY ArchPc, TupleIs DEF One
    <3>2. Joins(Bus0(outcome), Nil ## Rd(Pc(outcome, 1)), bus')
      BY <2>1, JoinsIs DEF Bus0, Bus1
    <3>3. Arch!Makes(<<Arch!R(outcome.pc + 1)>>)
      BY <3>1, <3>2, MakesIs
    <3>4. QED
      BY <1>3, <2>0, <2>1, <3>3
  <2>2. CASE /\ Taken(instr.cond, outcome.p) /\ Leaves(outcome) = 0 /\ ~Control.end
             /\ pc' = Word(Leap(outcome) % 256, High(Pc(outcome, 2))) /\ bus' = Bus2(outcome)
    <3>1. near /\ pc' = target
      BY <1>6, <1>10, <2>2
    <3>2. outcome'.due = "none"
      BY <2>2 DEF Ends
    <3>3. reads \o second = Nil ## Rd(Pc(outcome, 1)) ## Rd(Pc(outcome, 2))
      <4>1. second = Nil
        BY <1>a, <3>1 DEF Nil
      <4>2. IsSeq(reads)
        BY <1>9, JoinsIs
      <4>3. Joins(reads, Nil, reads)
        BY <4>2, JoinsIs
      <4>4. QED
        BY <1>9, <4>1, <4>3 DEF Joins
    <3>4. Joins(Bus0(outcome), Nil ## Rd(Pc(outcome, 1)) ## Rd(Pc(outcome, 2)), bus')
      BY <2>2, JoinsIs DEF Bus0, Bus1, Bus2
    <3>5. Arch!Makes(reads \o second)
      BY <3>3, <3>4, MakesIs
    <3>6. QED
      BY <2>2, <3>1, <3>2, <3>5
  <2>3. CASE /\ Taken(instr.cond, outcome.p) /\ Leaves(outcome) = 1
             /\ pc' = Word(Leap(outcome) % 256, (High(Pc(outcome, 2)) + (IF Bit(A1(outcome), 7) = 1 THEN 255 ELSE 1)) % 256)
             /\ bus' = Bus2(outcome) ## Rd(Word(Leap(outcome) % 256, High(Pc(outcome, 2))))
    <3>1. ~near /\ pc' = target /\ Low(target) = Leap(outcome) % 256
      BY <1>6, <1>10, <2>3
    <3>2. low = Word(Leap(outcome) % 256, High(Pc(outcome, 2)))
      BY <1>7, <3>1
    <3>3. low \in Words /\ Arch!R(low) = Rd(low)
      <4>1. Low(target) \in Bytes /\ High(Pc(outcome, 2)) \in Bytes
        BY <1>10, OutcomeTypes, WordParts
      <4>2. low \in Words
        BY <1>7, <4>1, PartsWord
      <4>3. QED
        BY <4>2, ArchBytes
    <3>4. reads \o second = Nil ## Rd(Pc(outcome, 1)) ## Rd(Pc(outcome, 2)) ## Rd(low)
      <4>1. second = Nil ## Rd(low)
        BY <1>a, <1>8, <3>1, <3>3
      <4>2. IsSeq(reads)
        BY <1>9, JoinsIs
      <4>3. Joins(reads, Nil ## Rd(low), reads ## Rd(low))
        BY <4>2, JoinsIs
      <4>4. QED
        BY <1>9, <4>1, <4>3 DEF Joins
    <3>5. Joins(Bus0(outcome), Nil ## Rd(Pc(outcome, 1)) ## Rd(Pc(outcome, 2)) ## Rd(low), bus')
      BY <2>3, <3>2, JoinsIs DEF Bus0, Bus1, Bus2
    <3>6. Arch!Makes(reads \o second)
      BY <3>4, <3>5, MakesIs
    <3>7. QED
      BY <2>0, <2>3, <3>1, <3>6
  <2>4. QED
    BY <1>2, <2>1, <2>2, <2>3
<1>12. Arch!Keeps
  BY <1>1, <1>2 DEF Arch!Keeps
<1>13. Arch!Taken(Arch!instr.cond, outcome.p) <=> Taken(instr.cond, outcome.p)
  BY <1>1, SameStatus
<1>14. /\ Arch!instr.mode = "REL"
       /\ IF ~Arch!Taken(Arch!instr.cond, outcome.p)
          THEN outcome'.pc = following /\ Arch!Makes(<<Arch!R(outcome.pc + 1)>>) /\ Arch!Polled(outcome.p)
          ELSE /\ outcome'.pc = target /\ Arch!Makes(reads \o second)
               /\ IF near THEN outcome'.due = "none" ELSE Arch!Polled(outcome.p)
       /\ Arch!Keeps
  BY <1>1, <1>11, <1>12, <1>13
<1>15. QED
  BY <1>14 DEF Arch!Branch, following, offset, target, near, low, reads, second

-----------------------------------------------------------------------------
(* The operands in memory                                                   *)

\* The types of an operand.
LEMMA OperandWords ==
  ASSUME TypeOK
  PROVE  A1(outcome) \in Words /\ A1(outcome) \in Int /\ X(outcome, instr) \in Int
<1>1. A1(outcome) \in Bytes /\ X(outcome, instr) \in Bytes
  BY OutcomeTypes DEF A1
<1>2. QED
  BY <1>1, BytesAreWords

\* The base address.
LEMMA ArchBase ==
  ASSUME TypeOK, Begun, timing.kind = "brk"
  PROVE  Arch!Base = Base(outcome, instr)
<1>1. A1(outcome) \in Words
  BY OperandWords
<1>2. Arch!instr = instr
  BY ArchInstr
<1>3. Arch!Byte(outcome.pc + 1) = A1(outcome) /\ Arch!WordAt(outcome.pc + 1) = Target(outcome)
  BY ArchPc
<1>4. Arch!Pointer(A1(outcome)) = Ptr(outcome, A1(outcome))
  BY <1>1, ArchPointer
<1>5. QED
  BY <1>2, <1>3, <1>4 DEF Arch!Base, Base, Target

\* The pointer with X.
LEMMA ArchZero ==
  ASSUME TypeOK, Begun, timing.kind = "brk"
  PROVE  Arch!zp = Zp(outcome, instr) /\ Zp(outcome, instr) \in Words
<1>1. A1(outcome) \in Int /\ X(outcome, instr) \in Int
  BY OperandWords
<1>2. Arch!index = X(outcome, instr) /\ Arch!Byte(outcome.pc + 1) = A1(outcome)
  BY ArchInstr, ArchPc
<1> DEFINE x == X(outcome, instr)
           a == A1(outcome)
<1>3. Zp(outcome, instr) = (x + a) % 256 /\ Arch!zp = (a + x) % 256
  BY <1>2 DEF Zp, Arch!zp
<1> HIDE DEF x, a
<1>4. x \in Int /\ a \in Int
  BY <1>1 DEF x, a
<1>5. x + a = a + x /\ x + a \in Int
  BY <1>4
<1>6. (x + a) % 256 \in Words
  BY <1>5, ByteWraps, BytesAreWords
<1>7. QED
  BY <1>3, <1>5, <1>6

\* Whether the index leaves the page.
LEMMA ArchCrosses ==
  ASSUME TypeOK, Begun, timing.kind = "brk"
  PROVE  /\ Arch!Indexed(Arch!Base, Arch!index) = Far(outcome, instr) /\ Far(outcome, instr) \in Words
         /\ Arch!SamePage(Arch!Base, Arch!index) = Near(outcome, instr) /\ Near(outcome, instr) \in Words
         /\ Arch!Uncorrected = IF Crosses(outcome, instr) THEN Nil ## Near(outcome, instr) ELSE Nil
<1> DEFINE base == Base(outcome, instr)
           i == X(outcome, instr)
           sum == Sum(outcome, instr)
           carry == Carry(outcome, instr)
<1>1. base \in Words /\ i \in Bytes
  BY CrossFacts, OperandFacts
<1>2. Low(base) \in Bytes /\ Low(base) \in Int /\ i \in Int /\ High(base) \in Bytes
  BY <1>1, WordParts, BytesAreWords
<1>3. sum = i + Low(base) /\ carry = Bit(sum, 8)
  BY DEF Sum, Carry
<1>4. Near(outcome, instr) = Word(sum % 256, High(base)) /\ Far(outcome, instr) = Word(sum % 256, (High(base) + carry) % 256)
  BY DEF Near, Far
<1>5. Arch!Base = base /\ Arch!index = i /\ Arch!instr = instr
  BY ArchBase, ArchInstr
<1>6. Arch!SamePage(base, i) = Word((Low(base) + i) % 256, High(base))
  BY SameNumbers DEF Arch!SamePage
<1>7. Arch!Indexed(base, i) = (base + i) % 65536
  BY DEF Arch!Indexed
<1> HIDE DEF base, i, sum, carry
<1>8. sum = Low(base) + i /\ sum \in Int
  BY <1>2, <1>3
<1> DEFINE c == sum \div 256
<1>9. c \in Int
  BY <1>8
<1>a. c = sum \div 256
  OBVIOUS
<1> HIDE DEF c
<1>10. /\ c \in Bin /\ c = Bit(sum, 8) /\ sum % 256 \in Bytes
       /\ (base + i) % 65536 = Word(sum % 256, (High(base) + c) % 256)
       /\ (base + i) % 65536 = Word(sum % 256, High(base)) <=> c = 0
  BY <1>1, <1>8, <1>9, <1>a, IndexedIs
<1>11. c = carry
  BY <1>3, <1>10
<1>12. Arch!Indexed(base, i) = Far(outcome, instr) /\ Arch!SamePage(base, i) = Near(outcome, instr)
  BY <1>4, <1>6, <1>7, <1>8, <1>10, <1>11
<1>13. Near(outcome, instr) \in Words
  BY <1>2, <1>4, <1>10, PartsWord
<1>14. Far(outcome, instr) \in Words
  <2>1. base + i \in Int
    BY <1>1, <1>2, BytesAreWords
  <2>2. QED
    BY <1>7, <1>12, <2>1, Wraps
<1>15. Far(outcome, instr) = Near(outcome, instr) <=> carry = 0
  BY <1>4, <1>7, <1>10, <1>11, <1>12
<1>16. carry = 0 <=> carry # 1
  BY <1>10, <1>11 DEF Bin
<1>17. Crosses(outcome, instr) <=> carry = 1 \/ instr.access # "READ"
  BY DEF Crosses, carry
<1>18. Arch!Uncorrected = IF Arch!Indexed(base, i) = Arch!SamePage(base, i) /\ instr.access = "READ"
                          THEN <<>> ELSE <<Arch!SamePage(base, i)>>
  BY <1>5 DEF Arch!Uncorrected
<1>19. <<Near(outcome, instr)>> = Nil ## Near(outcome, instr)
  BY TupleIs DEF One
<1>20. Arch!Uncorrected = IF Crosses(outcome, instr) THEN Nil ## Near(outcome, instr) ELSE Nil
  BY <1>12, <1>15, <1>16, <1>17, <1>18, <1>19 DEF Nil
<1>21. QED
  BY <1>5, <1>12, <1>13, <1>14, <1>20

\* Where an operand in page zero is.
LEMMA LocateZeroPage ==
  ASSUME TypeOK, Begun, timing.kind = "brk", instr.mode = "ZP"
  PROVE  Located(Nil ## Rd(Pc(outcome, 1)))
<1>1. Arch!instr.mode = "ZP"
  BY ArchInstr
<1>2. Arch!Operand.at = A1(outcome) /\ Arch!Operand.found = <<outcome.pc + 1>>
  BY <1>1, ArchPc DEF Arch!Operand
<1>3. Ea(outcome, instr) = A1(outcome) /\ BusFound(outcome, instr) = Bus1(outcome)
  BY DEF Ea, BusFound
<1>4. A1(outcome) \in Words
  BY OperandWords
<1>5. <<outcome.pc + 1>> = Nil ## (outcome.pc + 1)
  BY TupleIs DEF One
<1>6. ReadsAs(Nil ## (outcome.pc + 1), Nil ## Rd(Pc(outcome, 1)))
  BY ArchPc, ReadsIs
<1>7. Joins(Bus0(outcome), Nil ## Rd(Pc(outcome, 1)), Bus1(outcome))
  BY JoinsIs DEF Bus0, Bus1
<1>8. QED
  BY <1>2, <1>3, <1>4, <1>5, <1>6, <1>7 DEF Located

\* Where an indexed one in page zero is.
LEMMA LocateZeroIndexed ==
  ASSUME TypeOK, Begun, timing.kind = "brk", instr.mode \in {"ZPX", "ZPY"}
  PROVE  Located(Nil ## Rd(Pc(outcome, 1)) ## Rd(A1(outcome)))
<1>1. Arch!instr.mode \in {"ZPX", "ZPY"}
  BY ArchInstr
<1>2. Arch!Operand.at = Zp(outcome, instr) /\ Arch!Operand.found = <<outcome.pc + 1, A1(outcome)>>
  BY <1>1, ArchPc, ArchZero DEF Arch!Operand
<1>3. Ea(outcome, instr) = Zp(outcome, instr) /\ BusFound(outcome, instr) = BusPage(outcome)
  BY DEF Ea, BusFound
<1>4. A1(outcome) \in Words /\ Zp(outcome, instr) \in Words
  BY OperandWords, ArchZero
<1>5. <<outcome.pc + 1, A1(outcome)>> = Nil ## (outcome.pc + 1) ## A1(outcome)
  BY TupleIs DEF Two
<1>6. ReadsAs(Nil ## (outcome.pc + 1) ## A1(outcome), Nil ## Rd(Pc(outcome, 1)) ## Rd(A1(outcome)))
  <2>1. Arch!R(A1(outcome)) = Rd(A1(outcome))
    BY <1>4, ArchBytes
  <2>2. QED
    BY <2>1, ArchPc, ReadsIs
<1>7. Joins(Bus0(outcome), Nil ## Rd(Pc(outcome, 1)) ## Rd(A1(outcome)), BusPage(outcome))
  BY JoinsIs DEF Bus0, Bus1, BusPage
<1>8. QED
  BY <1>2, <1>3, <1>4, <1>5, <1>6, <1>7 DEF Located

\* Where an absolute operand is.
LEMMA LocateAbsolute ==
  ASSUME TypeOK, Begun, timing.kind = "brk", instr.mode = "ABS"
  PROVE  Located(Nil ## Rd(Pc(outcome, 1)) ## Rd(Pc(outcome, 2)))
<1>1. Arch!instr.mode = "ABS"
  BY ArchInstr
<1>2. Arch!Operand.at = Base(outcome, instr) /\ Arch!Operand.found = <<outcome.pc + 1, outcome.pc + 2>>
  BY <1>1, ArchBase DEF Arch!Operand
<1>3. Ea(outcome, instr) = Base(outcome, instr) /\ BusFound(outcome, instr) = Bus2(outcome)
  BY DEF Ea, BusFound
<1>4. Base(outcome, instr) \in Words
  BY CrossFacts
<1>5. <<outcome.pc + 1, outcome.pc + 2>> = Nil ## (outcome.pc + 1) ## (outcome.pc + 2)
  BY TupleIs DEF Two
<1>6. ReadsAs(Nil ## (outcome.pc + 1) ## (outcome.pc + 2), Nil ## Rd(Pc(outcome, 1)) ## Rd(Pc(outcome, 2)))
  BY ArchPc, ReadsIs
<1>7. Joins(Bus0(outcome), Nil ## Rd(Pc(outcome, 1)) ## Rd(Pc(outcome, 2)), Bus2(outcome))
  BY JoinsIs DEF Bus0, Bus1, Bus2
<1>8. QED
  BY <1>2, <1>3, <1>4, <1>5, <1>6, <1>7 DEF Located

\* Where (zp,X) is.
LEMMA LocateIndexedIndirect ==
  ASSUME TypeOK, Begun, timing.kind = "brk", instr.mode = "IZX"
  PROVE  Located(Nil ## Rd(Pc(outcome, 1)) ## Rd(A1(outcome)) ## Rd(Zp(outcome, instr)) ## Rd(Nip(Zp(outcome, instr))))
<1> DEFINE z == Zp(outcome, instr)
           a == A1(outcome)
<1>1. Arch!instr.mode = "IZX"
  BY ArchInstr
<1>2. a \in Words /\ z \in Words
  BY OperandWords, ArchZero
<1>3. Arch!NextInPage(z) = Nip(z) /\ Nip(z) \in Words /\ Arch!Pointer(z) = Ptr(outcome, z) /\ Ptr(outcome, z) \in Words
  BY <1>2, ArchPointer
<1>4. Arch!Operand.at = Arch!Pointer(z) /\ Arch!Operand.found = <<outcome.pc + 1, a, z, Arch!NextInPage(z)>>
  BY <1>1, ArchPc, ArchZero DEF Arch!Operand
<1>5. Ea(outcome, instr) = Ptr(outcome, z) /\ BusFound(outcome, instr) = BusPage(outcome) ## Rd(z) ## Rd(Nip(z))
  BY DEF Ea, BusFound
<1>6. <<outcome.pc + 1, a, z, Nip(z)>> = Nil ## (outcome.pc + 1) ## a ## z ## Nip(z)
  BY TupleIs DEF Four
<1>7. ReadsAs(Nil ## (outcome.pc + 1) ## a ## z ## Nip(z), Nil ## Rd(Pc(outcome, 1)) ## Rd(a) ## Rd(z) ## Rd(Nip(z)))
  <2>1. Arch!R(a) = Rd(a) /\ Arch!R(z) = Rd(z) /\ Arch!R(Nip(z)) = Rd(Nip(z))
    BY <1>2, <1>3, ArchBytes
  <2> HIDE DEF a, z
  <2>2. QED
    BY <2>1, ArchPc, ReadsIs
<1>8. Joins(Bus0(outcome), Nil ## Rd(Pc(outcome, 1)) ## Rd(a) ## Rd(z) ## Rd(Nip(z)), BusPage(outcome) ## Rd(z) ## Rd(Nip(z)))
  BY JoinsIs DEF Bus0, Bus1, BusPage
<1>9. QED
  BY <1>3, <1>4, <1>5, <1>6, <1>7, <1>8 DEF Located

\* The read that an index that leaves the page costs.
LEMMA LocatesFurther ==
  ASSUME TypeOK, Begun, timing.kind = "brk", NEW s, NEW t, ReadsAs(s, t), NEW u, Joins(Bus0(outcome), t, u)
  PROVE  /\ ReadsAs(s \o Arch!Uncorrected, IF Crosses(outcome, instr) THEN t ## Rd(Near(outcome, instr)) ELSE t)
         /\ Joins(Bus0(outcome), IF Crosses(outcome, instr) THEN t ## Rd(Near(outcome, instr)) ELSE t,
                  IF Crosses(outcome, instr) THEN u ## Rd(Near(outcome, instr)) ELSE u)
<1> DEFINE near == Near(outcome, instr)
<1>1. near \in Words /\ Arch!Uncorrected = IF Crosses(outcome, instr) THEN Nil ## near ELSE Nil
  BY ArchCrosses
<1>2. Arch!R(near) = Rd(near) /\ IsSeq(s)
  BY <1>1, ArchBytes DEF ReadsAs
<1>3. Joins(s, Nil, s) /\ Joins(s, Nil ## near, s ## near)
  BY <1>2, JoinsIs
<1>4. s \o Nil = s /\ s \o (Nil ## near) = s ## near
  BY <1>3 DEF Joins
<1>5. ReadsAs(s ## near, t ## Rd(near)) /\ Joins(Bus0(outcome), t ## Rd(near), u ## Rd(near))
  BY <1>2, ReadsIs, JoinsIs
<1> HIDE DEF near
<1>6. CASE Crosses(outcome, instr)
  BY <1>1, <1>4, <1>5, <1>6 DEF near
<1>7. CASE ~Crosses(outcome, instr)
  BY <1>1, <1>4, <1>7
<1>8. QED
  BY <1>6, <1>7

\* Where an indexed absolute operand is.
LEMMA LocateAbsoluteIndexed ==
  ASSUME TypeOK, Begun, timing.kind = "brk", instr.mode \in {"ABX", "ABY"}
  PROVE  \E reads : Located(reads)
<1> DEFINE t == Nil ## Rd(Pc(outcome, 1)) ## Rd(Pc(outcome, 2))
           s == <<outcome.pc + 1, outcome.pc + 2>>
           reads == IF Crosses(outcome, instr) THEN t ## Rd(Near(outcome, instr)) ELSE t
<1>1. Arch!instr.mode \in {"ABX", "ABY"}
  BY ArchInstr
<1>2. Arch!Operand.at = Far(outcome, instr) /\ Arch!Operand.found = s \o Arch!Uncorrected /\ Far(outcome, instr) \in Words
  BY <1>1, ArchCrosses DEF Arch!Operand
<1>3. Ea(outcome, instr) = Far(outcome, instr)
  BY DEF Ea
<1>4. BusFound(outcome, instr) = IF Crosses(outcome, instr) THEN Bus2(outcome) ## Rd(Near(outcome, instr)) ELSE Bus2(outcome)
  BY DEF BusFound
<1>5. s = Nil ## (outcome.pc + 1) ## (outcome.pc + 2)
  BY TupleIs DEF Two
<1>6. ReadsAs(Nil ## (outcome.pc + 1) ## (outcome.pc + 2), t)
  BY ArchPc, ReadsIs
<1>7. Joins(Bus0(outcome), t, Bus2(outcome))
  BY JoinsIs DEF Bus0, Bus1, Bus2
<1> HIDE DEF t, s
<1>8. ReadsAs(s, t)
  BY <1>5, <1>6
<1>9. ReadsAs(s \o Arch!Uncorrected, reads) /\ Joins(Bus0(outcome), reads, BusFound(outcome, instr))
  BY <1>4, <1>7, <1>8, LocatesFurther
<1> HIDE DEF reads
<1>10. Located(reads)
  BY <1>2, <1>3, <1>9 DEF Located
<1>11. QED
  BY <1>10

\* Where (zp),Y is.
LEMMA LocateIndirectIndexed ==
  ASSUME TypeOK, Begun, timing.kind = "brk", instr.mode = "IZY"
  PROVE  \E reads : Located(reads)
<1> DEFINE a == A1(outcome)
           t == Nil ## Rd(Pc(outcome, 1)) ## Rd(a) ## Rd(Nip(a))
           s == <<outcome.pc + 1, a, Nip(a)>>
           u == BusPage(outcome) ## Rd(Nip(a))
           reads == IF Crosses(outcome, instr) THEN t ## Rd(Near(outcome, instr)) ELSE t
<1>1. Arch!instr.mode = "IZY"
  BY ArchInstr
<1>a. a \in Words
  BY OperandWords
<1>b. Arch!NextInPage(a) = Nip(a) /\ Nip(a) \in Words
  BY <1>a, ArchPointer
<1>2. Arch!Operand.at = Far(outcome, instr) /\ Arch!Operand.found = s \o Arch!Uncorrected /\ Far(outcome, instr) \in Words
  BY <1>1, <1>b, ArchPc, ArchCrosses DEF Arch!Operand
<1>3. Ea(outcome, instr) = Far(outcome, instr)
  BY DEF Ea
<1>4. BusFound(outcome, instr) = IF Crosses(outcome, instr) THEN u ## Rd(Near(outcome, instr)) ELSE u
  BY DEF BusFound
<1>5. s = Nil ## (outcome.pc + 1) ## a ## Nip(a)
  BY TupleIs DEF Three
<1>6. ReadsAs(Nil ## (outcome.pc + 1) ## a ## Nip(a), t)
  <2>1. Arch!R(a) = Rd(a) /\ Arch!R(Nip(a)) = Rd(Nip(a))
    BY <1>a, <1>b, ArchBytes
  <2> HIDE DEF a
  <2>2. QED
    BY <2>1, ArchPc, ReadsIs
<1>7. Joins(Bus0(outcome), t, u)
  BY JoinsIs DEF Bus0, Bus1, BusPage
<1> HIDE DEF t, s, u
<1>8. ReadsAs(s, t)
  BY <1>5, <1>6
<1>9. ReadsAs(s \o Arch!Uncorrected, reads) /\ Joins(Bus0(outcome), reads, BusFound(outcome, instr))
  BY <1>4, <1>7, <1>8, LocatesFurther
<1> HIDE DEF reads
<1>10. Located(reads)
  BY <1>2, <1>3, <1>9 DEF Located
<1>11. QED
  BY <1>10

\* So in every such mode.
LEMMA Locates ==
  ASSUME TypeOK, Begun, timing.kind = "brk", instr.mode \in MemoryModes
  PROVE  \E reads : Located(reads)
<1>1. instr.mode \in {"ZP", "ZPX", "ZPY", "ABS", "ABX", "ABY", "IZX", "IZY"}
  BY DEF MemoryModes
<1>2. CASE instr.mode = "ZP"
  BY <1>2, LocateZeroPage
<1>3. CASE instr.mode \in {"ZPX", "ZPY"}
  BY <1>3, LocateZeroIndexed
<1>4. CASE instr.mode = "ABS"
  BY <1>4, LocateAbsolute
<1>5. CASE instr.mode \in {"ABX", "ABY"}
  BY <1>5, LocateAbsoluteIndexed
<1>6. CASE instr.mode = "IZX"
  BY <1>6, LocateIndexedIndirect
<1>7. CASE instr.mode = "IZY"
  BY <1>7, LocateIndirectIndexed
<1>8. QED
  BY <1>1, <1>2, <1>3, <1>4, <1>5, <1>6, <1>7

-----------------------------------------------------------------------------
(* The instructions on an operand                                           *)

\* The result of an operation.
LEMMA ResultIs ==
  ASSUME TypeOK, Begun, timing.kind = "brk", NEW byte
  PROVE  Arch!Result(byte).result = Op(byte).result
<1>1. Arch!instr = instr
  BY ArchInstr
<1>2. QED
  BY <1>1, SameALU DEF Arch!Result, Arch!Source, Arch!CarryIn, Op, Ran

\* A read operand, wherever it is.
LEMMA ReadEnd ==
  ASSUME TypeOK, Ends, Begun, timing.kind = "brk", instr.access = "READ", instr.mode \in MemoryModes \cup {"IMM"},
         NEW reads, ReadsAs(Arch!Operand.found, reads), NEW addr, Arch!R(Arch!Operand.at) = Rd(addr),
         Arch!Byte(Arch!Operand.at) = B(outcome, addr), NEW before, Joins(Bus0(outcome), reads, before),
         bus' = before ## Rd(addr), pc' = Pc(outcome, Size(instr)), p = outcome.p, ~Control.intTake,
         Computed(outcome.regs, B(outcome, addr))
  PROVE  Arch!ReadsOperand
<1>1. Arch!instr = instr /\ outcome'.pc = pc' /\ outcome'.regs = regs' /\ outcome'.p = p'
  BY ArchInstr DEF Ends
<1>2. Arch!instr.mode \in {"IMM", "ZP", "ZPX", "ZPY", "ABS", "ABX", "ABY", "IZX", "IZY"}
  BY <1>1 DEF MemoryModes
<1>3. pc' = Arch!Indexed(outcome.pc, Arch!Size)
  <2>1. Arch!Size = Size(instr)
    BY ArchInstr
  <2>2. QED
    BY <2>1, ArchPc
<1>4. Arch!Makes(Arch!ReadAll(Append(Arch!Operand.found, Arch!Operand.at)))
  <2>1. ReadsAs(Arch!Operand.found ## Arch!Operand.at, reads ## Rd(addr))
    BY ReadsIs
  <2>2. Joins(Bus0(outcome), reads ## Rd(addr), bus')
    BY JoinsIs
  <2>3. Arch!Operand.found ## Arch!Operand.at = Append(Arch!Operand.found, Arch!Operand.at)
    BY DEF ##
  <2>4. Arch!ReadAll(Append(Arch!Operand.found, Arch!Operand.at)) = reads ## Rd(addr)
    BY <2>1, <2>3 DEF ReadsAs
  <2>5. QED
    BY <2>2, <2>4, MakesIs
<1>5. Arch!Computes(Arch!Byte(Arch!Operand.at), outcome.regs)
  BY <1>1, ArchComputes, OutcomeTypes
<1>6. Arch!Polled(outcome.p)
  BY PolledIs
<1>7. QED
  BY <1>1, <1>2, <1>3, <1>4, <1>5, <1>6 DEF Arch!ReadsOperand

\* The end of an immediate operand is that action.
LEMMA ImmediateEnd ==
  ASSUME TypeOK, NEW reset, ~reset, Clocks(Control, reset), Ends, Begun, timing.kind = "brk", instr.mode = "IMM",
         timing.t = 1, Started
  PROVE  Arch!ReadsOperand
<1>1. Passes /\ Arch!instr.mode = "IMM"
  BY ArchInstr DEF Ends
<1>2. /\ Finished /\ p = outcome.p /\ pc' = Pc(outcome, 2) /\ bus' = Bus1(outcome)
      /\ Computed(outcome.regs, A1(outcome))
  BY <1>1, ImmediateFinish
<1>3. Arch!Operand.at = outcome.pc + 1 /\ Arch!Operand.found = Nil
  BY <1>1 DEF Arch!Operand, Nil
<1>4. ReadsAs(Arch!Operand.found, Nil) /\ Joins(Bus0(outcome), Nil, Bus0(outcome))
  BY <1>3, ReadsIs, JoinsIs DEF Bus0
<1>5. Arch!R(Arch!Operand.at) = Rd(Pc(outcome, 1)) /\ Arch!Byte(Arch!Operand.at) = B(outcome, Pc(outcome, 1))
  BY <1>3, ArchPc DEF A1
<1>6. Size(instr) = 2
  BY DEF Size
<1>7. instr.access = "READ"
  <2>1. Instr(instr)
    BY InstrIs
  <2>2. QED
    BY <2>1 DEF Instr, MemoryModes
<1>8. bus' = Bus0(outcome) ## Rd(Pc(outcome, 1)) /\ Computed(outcome.regs, B(outcome, Pc(outcome, 1))) /\ ~Control.intTake
  BY <1>2 DEF Bus1, A1, Finished
<1>9. QED
  BY <1>2, <1>4, <1>5, <1>6, <1>7, <1>8, ReadEnd

\* The instructions on an operand in memory.
LEMMA MemoryEnd ==
  ASSUME TypeOK, NEW reset, ~reset, Clocks(Control, reset), Ends, Begun, timing.kind = "brk", instr.mode \in MemoryModes, Accessed
  PROVE  Arch!ReadsOperand \/ Arch!StoresRegister \/ Arch!Modifies
<1> DEFINE ea == Ea(outcome, instr)
           byte == B(outcome, ea)
           found == BusFound(outcome, instr)
<1>1. Arch!instr = instr /\ Passes /\ fetch' /\ outcome'.pc = pc' /\ outcome'.regs = regs' /\ outcome'.p = p'
  BY ArchInstr DEF Ends
<1>2. /\ Finished /\ pc' = Pc(outcome, Size(instr))
      /\ instr.access \in {"READ", "WRITE", "RMW"}
      /\ instr.access = "READ" => p = outcome.p /\ bus' = found ## Rd(ea) /\ Computed(outcome.regs, byte)
      /\ instr.access = "WRITE" => /\ bus' = found ## Wr(ea, outcome.regs[instr.store])
                                   /\ p = outcome.p /\ p' = p /\ regs' = outcome.regs
      /\ instr.access = "RMW" => /\ bus' = found ## Rd(ea) ## Wr(ea, byte) ## Wr(ea, Op(byte).result)
                                 /\ p' = p /\ Computed(outcome.regs, byte)
  <2>1. PICK n \in 1..4 : n = Reach(instr, timing.acr) /\ timing.t > n /\ Accesses(n)
    BY DEF Accessed
  <2>2. QED
    BY <1>1, <2>1, AccessFinish
<1>3. PICK reads : Located(reads)
  BY Locates
<1>4. ea \in Words /\ Arch!Operand.at = ea /\ ReadsAs(Arch!Operand.found, reads) /\ Joins(Bus0(outcome), reads, found)
  BY <1>3 DEF Located
<1>5. Arch!R(Arch!Operand.at) = Rd(ea) /\ Arch!Byte(Arch!Operand.at) = byte
  BY <1>4, ArchBytes
<1>6. \A x : Arch!W(Arch!Operand.at, x) = Wr(ea, x)
  BY <1>4, ArchBytes
<1>7. ~Control.intTake
  BY <1>2 DEF Finished
<1>8. pc' = Arch!Indexed(outcome.pc, Arch!Size)
  <2>1. Arch!Size = Size(instr)
    BY ArchInstr
  <2>2. QED
    BY <1>2, <2>1, ArchPc
<1>9. CASE instr.access = "READ"
  BY <1>2, <1>4, <1>5, <1>7, <1>9, ReadEnd
<1>10. CASE instr.access = "WRITE"
  <2> DEFINE w == Arch!W(Arch!Operand.at, outcome.regs[Arch!instr.store])
  <2>1. w = Wr(ea, outcome.regs[instr.store])
    BY <1>1, <1>6
  <2>2. Arch!ReadAll(Arch!Operand.found) = reads
    BY <1>4 DEF ReadsAs
  <2> HIDE DEF w
  <2>3. Append(Arch!ReadAll(Arch!Operand.found), w) = reads ## w
    BY <2>2 DEF ##
  <2>4. bus' = found ## w
    BY <1>2, <1>10, <2>1
  <2> HIDE DEF found
  <2>5. Joins(Bus0(outcome), reads ## w, bus')
    BY <1>4, <2>4, JoinsIs
  <2>6. Arch!Makes(Append(Arch!ReadAll(Arch!Operand.found), w))
    BY <2>3, <2>5, MakesIs
  <2>7. Arch!Keeps
    BY <1>1, <1>2, <1>10 DEF Arch!Keeps
  <2>8. Arch!Polled(outcome.p)
    BY <1>2, <1>7, <1>10, PolledIs
  <2>9. Arch!StoresRegister
    BY <1>1, <1>8, <1>10, <2>6, <2>7, <2>8 DEF Arch!StoresRegister, w
  <2>10. QED
    BY <2>9
<1>11. CASE instr.access = "RMW"
  <2>1. Arch!Computes(byte, outcome.regs)
    BY <1>1, <1>2, <1>11, ArchComputes, OutcomeTypes
  <2>2. Arch!Result(byte).result = Op(byte).result
    BY <1>1, <1>11, ResultIs
  <2> DEFINE w1 == Arch!W(Arch!Operand.at, byte)
             w2 == Arch!W(Arch!Operand.at, Arch!Result(byte).result)
             all == Arch!ReadAll(Append(Arch!Operand.found, Arch!Operand.at))
  <2>3. w1 = Wr(ea, byte) /\ w2 = Wr(ea, Op(byte).result)
    BY <1>6, <2>2
  <2>4. all = reads ## Rd(ea)
    <3>1. ReadsAs(Arch!Operand.found ## Arch!Operand.at, reads ## Rd(ea))
      BY <1>4, <1>5, ReadsIs
    <3>2. Arch!Operand.found ## Arch!Operand.at = Append(Arch!Operand.found, Arch!Operand.at)
      BY DEF ##
    <3>3. QED
      BY <3>1, <3>2 DEF ReadsAs
  <2>5. <<w1, w2>> = Nil ## w1 ## w2
    BY TupleIs DEF Two
  <2>6. bus' = found ## Rd(ea) ## w1 ## w2
    BY <1>2, <1>11, <2>3
  <2>a. IsSeq(reads)
    BY <1>4 DEF ReadsAs
  <2> DEFINE both == <<w1, w2>>
  <2>b. both = Nil ## w1 ## w2
    BY <2>5
  <2>c. both = <<w1, w2>>
    OBVIOUS
  <2> HIDE DEF w1, w2, all, found, both
  <2>7. all \o both = reads ## Rd(ea) ## w1 ## w2
    <3>1. IsSeq(reads ## Rd(ea))
      BY <2>a, JoinsIs
    <3>2. Joins(reads ## Rd(ea), Nil ## w1 ## w2, reads ## Rd(ea) ## w1 ## w2)
      BY <3>1, JoinsIs
    <3>3. QED
      BY <2>4, <2>b, <3>2 DEF Joins
  <2>8. Joins(Bus0(outcome), reads ## Rd(ea) ## w1 ## w2, bus')
    BY <1>4, <2>6, JoinsIs
  <2>9. Arch!Makes(all \o both)
    BY <2>7, <2>8, MakesIs
  <2>10. Arch!Polled(p')
    BY <1>2, <1>7, <1>11, PolledIs
  <2>11. /\ Arch!instr.access = "RMW" /\ outcome'.pc = Arch!Indexed(outcome.pc, Arch!Size)
         /\ Arch!Makes(all \o <<w1, w2>>) /\ Arch!Computes(Arch!Byte(Arch!Operand.at), outcome.regs) /\ Arch!Polled(outcome'.p)
    BY <1>1, <1>5, <1>8, <1>11, <2>1, <2>9, <2>10, <2>c
  <2>12. Arch!Modifies
    BY <1>5, <2>11 DEF Arch!Modifies, all, w1, w2
  <2>13. QED
    BY <2>12
<1>12. QED
  BY <1>2, <1>9, <1>10, <1>11

\* BRK, and the interrupts.
LEMMA BreakEnd ==
  ASSUME TypeOK, NEW reset, ~reset, Clocks(Control, reset), Ends, Begun, timing.kind # "reset", instr.mode = "BRK_IMP", EnterPhase,
         mem = Wrote(outcome.mem, bus), HasLasts(bus)
  PROVE  /\ timing.kind = "brk" => Arch!Break
         /\ timing.kind # "brk" => Arch!Interrupt
<1>1. timing.kind \in {"brk", "irq", "nmi"}
  BY DEF TypeOK, Kinds
<1>2. \A back : \A b \in Int : back = Back(outcome, timing.kind) /\ b = Brk(timing.kind) => Arch!Enters(back, b, Vectors(timing.kind))
  BY EnterEnd
<1>3. CASE timing.kind = "brk"
  <2>1. Back(outcome, timing.kind) = (outcome.pc + 2) % 65536 /\ Brk(timing.kind) = 1 /\ Vectors(timing.kind) = {\hfffe, \hfffa}
    BY <1>3 DEF Back, Brk, Vectors, Pc
  <2>2. Arch!Enters((outcome.pc + 2) % 65536, 1, Vectors(timing.kind))
    BY <1>2, <2>1
  <2>3. Arch!instr.mode = "BRK_IMP"
    BY <1>3, ArchInstr
  <2>4. QED
    BY <1>3, <2>1, <2>2, <2>3 DEF Arch!Break
<1>4. CASE timing.kind = "irq"
  <2>1. Back(outcome, timing.kind) = outcome.pc /\ Brk(timing.kind) = 0 /\ Vectors(timing.kind) = {\hfffe, \hfffa}
    BY <1>4 DEF Back, Brk, Vectors
  <2>2. Arch!Enters(outcome.pc, 0, Vectors(timing.kind))
    BY <1>2, <2>1
  <2>3. outcome.due = "irq"
    BY <1>4 DEF Begun
  <2>4. QED
    BY <1>4, <2>1, <2>2, <2>3 DEF Arch!Interrupt
<1>5. CASE timing.kind = "nmi"
  <2>1. Back(outcome, timing.kind) = outcome.pc /\ Brk(timing.kind) = 0 /\ Vectors(timing.kind) = {\hfffa}
    BY <1>5 DEF Back, Brk, Vectors
  <2>2. Arch!Enters(outcome.pc, 0, Vectors(timing.kind))
    BY <1>2, <2>1
  <2>3. outcome.due = "nmi"
    BY <1>5 DEF Begun
  <2>4. QED
    BY <1>5, <2>1, <2>2, <2>3 DEF Arch!Interrupt
<1>6. QED
  BY <1>1, <1>3, <1>4, <1>5

-----------------------------------------------------------------------------
(* Reset                                                                    *)

\* The last five of a sequence.
LEMMA TailIs ==
  ASSUME NEW s, IsSeq(s), Len(s) >= 5
  PROVE  Arch!LastFive(s) = Five(Ago(s, 4), Ago(s, 3), Ago(s, 2), Ago(s, 1), Ago(s, 0))
<1>1. PICK S : s \in Seq(S)
  BY DEF IsSeq
<1> DEFINE n == Len(s)
           m == Len(s) - 4
           t == SubSeq(s, m, n)
           u == Five(Ago(s, 4), Ago(s, 3), Ago(s, 2), Ago(s, 1), Ago(s, 0))
<1>2. n \in Nat /\ n >= 5 /\ m = n - 4 /\ m \in 1..n+1
  BY <1>1
<1>3. t \in Seq(S) /\ Len(t) = 5 /\ \A i \in 1..5 : t[i] = s[m + i - 1]
  <2>1. n \in m-1..Len(s)
    BY <1>2
  <2>2. /\ SubSeq(s, m, n) \in Seq(S)
        /\ Len(SubSeq(s, m, n)) = IF m <= n THEN n-m+1 ELSE 0
        /\ \A i \in 1 .. n-m+1 : SubSeq(s, m, n)[i] = s[m+i-1]
    BY <1>1, <1>2, <2>1, SubSeqProperties
  <2>3. m <= n /\ n - m + 1 = 5
    BY <1>2
  <2> HIDE DEF m, n
  <2>4. QED
    BY <2>2, <2>3
<1>4. /\ IsSeq(u) /\ Len(u) = 5
      /\ u[1] = Ago(s, 4) /\ u[2] = Ago(s, 3) /\ u[3] = Ago(s, 2) /\ u[4] = Ago(s, 1) /\ u[5] = Ago(s, 0)
  BY TupleAt
<1>5. /\ Ago(s, 4) = s[n - 4] /\ Ago(s, 3) = s[n - 3] /\ Ago(s, 2) = s[n - 2]
      /\ Ago(s, 1) = s[n - 1] /\ Ago(s, 0) = s[n - 0]
  BY DEF Ago
<1> HIDE DEF t, u, n, m
<1>6. t[1] = s[m + 1 - 1] /\ t[2] = s[m + 2 - 1] /\ t[3] = s[m + 3 - 1] /\ t[4] = s[m + 4 - 1] /\ t[5] = s[m + 5 - 1]
  BY <1>3
<1>7. m + 1 - 1 = n - 4 /\ m + 2 - 1 = n - 3 /\ m + 3 - 1 = n - 2 /\ m + 4 - 1 = n - 1 /\ m + 5 - 1 = n - 0
  BY <1>2
<1>8. \A i \in 1..5 : t[i] = u[i]
  <2>1. t[1] = u[1] /\ t[2] = u[2] /\ t[3] = u[3] /\ t[4] = u[4] /\ t[5] = u[5]
    BY <1>4, <1>5, <1>6, <1>7
  <2>2. \A i \in 1..5 : i = 1 \/ i = 2 \/ i = 3 \/ i = 4 \/ i = 5
    OBVIOUS
  <2>3. QED
    BY <2>1, <2>2
<1>9. IsSeq(t)
  BY <1>3 DEF IsSeq
<1>10. t = u
  BY <1>3, <1>4, <1>8, <1>9, SameSeq
<1>11. QED
  BY <1>10 DEF Arch!LastFive, t, u, n, m

\* The stack is in the memory.
LEMMA StackWords ==
  ASSUME NEW b \in Bytes, NEW k \in Int
  PROVE  StackAt(b + k) \in Words
<1>1. b + k \in Int
  BY BytesAreWords
<1>2. 1 \in Bytes
  BY DEF Bytes
<1>3. QED
  BY <1>1, <1>2, ByteWraps, PartsWord DEF StackAt

\* The end of the reset is that action.
LEMMA RestartEnd ==
  ASSUME TypeOK, NEW reset, ~reset, Clocks(Control, reset), Ends, instr.mode = "BRK_IMP", ResetPhase
  PROVE  Arch!Restart
<1>1. /\ Passes /\ fetch' /\ outcome'.pc = pc' /\ outcome'.regs = regs' /\ outcome'.p = p' /\ outcome'.mem = mem'
      /\ outcome'.bus = bus' /\ mem' = Wrote(outcome.mem, bus')
  BY DEF Ends
<1>2. /\ Finished /\ p' = p /\ p'.i = 1 /\ regs' = regs /\ mem' = mem
      /\ \E v \in {\hfffc, \hfffa} :
           /\ Len(bus) >= 4 /\ bus' = bus ## Rd(v + 1) /\ pc' = Word(ByteAt(mem, v), ByteAt(mem, v + 1))
           /\ Ago(bus, 3) = Rd(StackAt(regs.S + 3)) /\ Ago(bus, 2) = Rd(StackAt(regs.S + 2))
           /\ Ago(bus, 1) = Rd(StackAt(regs.S + 1)) /\ Ago(bus, 0) = Rd(v)
  BY <1>1, ResetFinish
<1>3. PICK v \in {\hfffc, \hfffa} :
           /\ Len(bus) >= 4 /\ bus' = bus ## Rd(v + 1) /\ pc' = Word(ByteAt(mem, v), ByteAt(mem, v + 1))
           /\ Ago(bus, 3) = Rd(StackAt(regs.S + 3)) /\ Ago(bus, 2) = Rd(StackAt(regs.S + 2))
           /\ Ago(bus, 1) = Rd(StackAt(regs.S + 1)) /\ Ago(bus, 0) = Rd(v)
  BY <1>2
<1>4. v \in Words /\ v + 1 \in Words
  BY VectorWords
<1>5. IsSeq(bus) /\ regs.S \in Bytes
  BY DEF TypeOK, IsSeq, RegNames
<1> DEFINE a == StackAt(regs.S + 3)
           b == StackAt(regs.S + 2)
           c == StackAt(regs.S + 1)
           reads == Arch!ReadAll(<<Arch!StackOf(outcome'.regs, 3), Arch!StackOf(outcome'.regs, 2), Arch!StackOf(outcome'.regs, 1), v, v + 1>>)
<1>7. a \in Words /\ b \in Words /\ c \in Words
  BY <1>5, StackWords
<1>8. /\ Ago(bus, 3) = Rd(a) /\ Ago(bus, 2) = Rd(b) /\ Ago(bus, 1) = Rd(c) /\ Ago(bus, 0) = Rd(v)
  BY <1>3
<1>9. IsSeq(bus') /\ Len(bus') = Len(bus) + 1 /\ Len(bus) \in Nat
  BY <1>3, <1>5, AgoIs, JoinsIs
<1>10. Len(bus') >= 5 /\ Len(bus') \in Nat
  BY <1>3, <1>9
<1>12. Arch!StackOf(outcome'.regs, 3) = a /\ Arch!StackOf(outcome'.regs, 2) = b /\ Arch!StackOf(outcome'.regs, 1) = c
  BY <1>1, <1>2, SameNumbers DEF Arch!StackOf, StackAt
<1> HIDE DEF a, b, c
<1>13. Ago(bus', 4) = Rd(a) /\ Ago(bus', 3) = Rd(b) /\ Ago(bus', 2) = Rd(c) /\ Ago(bus', 1) = Rd(v) /\ Ago(bus', 0) = Rd(v + 1)
  <2>1. Len(bus) >= 1 /\ Len(bus) >= 2 /\ Len(bus) >= 3 /\ Len(bus) >= 4
    BY <1>3, <1>9
  <2>2. QED
    BY <1>3, <1>5, <1>8, <2>1, AgoIs
<1>14. Arch!LastFive(bus') = Five(Rd(a), Rd(b), Rd(c), Rd(v), Rd(v + 1))
  <2>1. Arch!LastFive(bus') = Five(Ago(bus', 4), Ago(bus', 3), Ago(bus', 2), Ago(bus', 1), Ago(bus', 0))
    BY <1>9, <1>10, TailIs
  <2>2. QED
    BY <1>13, <2>1
<1>15. reads = Five(Rd(a), Rd(b), Rd(c), Rd(v), Rd(v + 1))
  <2>1. <<Arch!StackOf(outcome'.regs, 3), Arch!StackOf(outcome'.regs, 2), Arch!StackOf(outcome'.regs, 1), v, v + 1>> = Nil ## a ## b ## c ## v ## (v + 1)
    BY <1>12, TupleIs DEF Five
  <2>2. Arch!R(a) = Rd(a) /\ Arch!R(b) = Rd(b) /\ Arch!R(c) = Rd(c) /\ Arch!R(v) = Rd(v) /\ Arch!R(v + 1) = Rd(v + 1)
    BY <1>4, <1>7, ArchBytes
  <2> DEFINE w == v + 1
  <2>3. Arch!R(w) = Rd(w)
    BY <2>2
  <2> HIDE DEF w
  <2>4. ReadsAs(Nil ## a ## b ## c ## v ## w, Nil ## Rd(a) ## Rd(b) ## Rd(c) ## Rd(v) ## Rd(w))
    BY <2>2, <2>3, ReadsIs
  <2>5. Nil ## Rd(a) ## Rd(b) ## Rd(c) ## Rd(v) ## Rd(w) = Five(Rd(a), Rd(b), Rd(c), Rd(v), Rd(w))
    BY TupleIs
  <2>6. QED
    BY <2>1, <2>4, <2>5 DEF ReadsAs, w
<1>16. Arch!LastFive(outcome'.bus) = reads /\ Len(outcome'.bus) >= 5
  <2> HIDE DEF reads
  <2>1. QED
    BY <1>1, <1>10, <1>14, <1>15
<1>17. pc' = Arch!Word(Arch!At(mem', v), Arch!At(mem', v + 1))
  BY <1>2, <1>3, ArchBytes, SameNumbers
<1>18. mem' = Arch!After(bus')
  BY <1>1, AfterIs
<1>19. Arch!Polled(p')
  BY <1>2, PolledIs DEF Finished
<1>20. /\ Len(outcome'.bus) >= 5 /\ Arch!LastFive(outcome'.bus) = reads
       /\ outcome'.pc = Arch!Word(Arch!At(outcome'.mem, v), Arch!At(outcome'.mem, v + 1))
       /\ outcome'.mem = Arch!After(outcome'.bus) /\ outcome'.p.i = 1 /\ Arch!Polled(outcome'.p)
  <2> HIDE DEF reads
  <2>1. QED
    BY <1>1, <1>2, <1>16, <1>17, <1>18, <1>19
<1>21. \E x \in {\hfffc, \hfffa} :
            /\ Arch!LastFive(outcome'.bus) = Arch!ReadAll(<<Arch!StackOf(outcome'.regs, 3), Arch!StackOf(outcome'.regs, 2), Arch!StackOf(outcome'.regs, 1), x, x + 1>>)
            /\ outcome'.pc = Arch!Word(Arch!At(outcome'.mem, x), Arch!At(outcome'.mem, x + 1))
  <2>1. WITNESS v \in {\hfffc, \hfffa}
  <2>2. QED
    BY <1>20
<1>22. QED
  BY <1>20, <1>21 DEF Arch!Restart

-----------------------------------------------------------------------------
(* Every step of the core is one of Isa6502, or none                        *)

\* A cycle that has an opcode fetch after it ends something.
LEMMA EndsIs ==
  ASSUME TypeOK, CoreInv, NEW irq, NEW nmi, NEW reset, Cycle(irq, nmi, reset), Memory,
         bus' = IF fetch THEN One(BusCycle) ELSE bus ## BusCycle, outcome' = Outcome', fetch'
  PROVE  ~reset /\ Clocks(Control, reset) /\ Ends
<1>1. Clocks(Control, reset)
  BY CycleClocks
<1>2. ~reset /\ ~fetch
  BY <1>1, FirstCycle
<1>3. Passes
  BY <1>2 DEF Passes
<1>4. mem' = Wrote(outcome.mem, bus') /\ HasLasts(bus')
  BY BusMemory
<1>5. /\ outcome'.pc = pc' /\ outcome'.regs = regs' /\ outcome'.p = p' /\ outcome'.mem = mem' /\ outcome'.bus = bus'
      /\ outcome'.due = due'
  BY DEF Outcome
<1>6. due' = IF ~timing'.pending THEN "none" ELSE IF timing'.nmi_latch THEN "nmi" ELSE "irq"
  BY DEF due
<1>7. timing'.pending => Control.end
  BY PendingStep
<1>8. timing'.pending /\ Control.end => timing'.nmi_latch \/ p.i = 0 \/ Control.intTake
  BY CyclePolls
<1>9. /\ due' \in {"none", "nmi", "irq"}
      /\ due' = "irq" => p.i = 0 \/ Control.intTake
      /\ due' # "none" => Control.end
  BY <1>6, <1>7, <1>8
<1>10. QED
  BY <1>1, <1>2, <1>3, <1>4, <1>5, <1>9 DEF Ends

\* The end of an instruction is that instruction.
LEMMA InstructionEnds ==
  ASSUME TypeOK, NEW reset, ~reset, Clocks(Control, reset), Ends, Begun, Phase, timing.kind = "brk",
         mem = Wrote(outcome.mem, bus), HasLasts(bus)
  PROVE  Arch!Instruction
<1>1. instr.mode \in Modes /\ ~fetch /\ fetch'
  BY InstrIs DEF Ends, Passes, Instr
<1>2. outcome.due = "none"
  BY DEF Begun
<1>3. CASE instr.mode = "IMP"
  <2>1. timing.t = 1 /\ Started
    BY <1>3 DEF Phase
  <2>2. QED
    BY <1>2, <1>3, <2>1, ImpliedEnd DEF Arch!Instruction
<1>4. CASE instr.mode = "IMM"
  <2>1. timing.t = 1 /\ Started
    BY <1>4 DEF Phase
  <2>2. QED
    BY <1>2, <1>4, <2>1, ImmediateEnd DEF Arch!Instruction
<1>5. CASE instr.mode \in MemoryModes
  <2>1. Accessed
    <3>1. CASE instr.mode = "ZP"
      BY <1>1, <3>1, ZeroPageAccessed DEF Phase
    <3>2. CASE instr.mode \in {"ZPX", "ZPY"}
      BY <1>1, <3>2, ZeroIndexedAccessed DEF Phase
    <3>3. CASE instr.mode = "ABS"
      BY <1>1, <3>3, AbsoluteAccessed DEF Phase
    <3>4. CASE instr.mode \in {"ABX", "ABY"}
      BY <1>1, <3>4, AbsoluteIndexedAccessed DEF Phase
    <3>5. CASE instr.mode = "IZX"
      BY <1>1, <3>5, IndexedIndirectAccessed DEF Phase
    <3>6. CASE instr.mode = "IZY"
      BY <1>1, <3>6, IndirectIndexedAccessed DEF Phase
    <3>7. QED
      BY <1>5, <3>1, <3>2, <3>3, <3>4, <3>5, <3>6 DEF MemoryModes
  <2>2. Arch!ReadsOperand \/ Arch!StoresRegister \/ Arch!Modifies
    BY <1>5, <2>1, MemoryEnd
  <2>3. QED
    BY <1>2, <2>2 DEF Arch!Instruction
<1>6. CASE instr.mode = "REL"
  <2>1. Arch!Branch
    BY <1>6, BranchEnd DEF Phase
  <2>2. QED
    BY <1>2, <2>1 DEF Arch!Instruction
<1>7. CASE instr.mode \in {"JMP_ABS", "JMP_IND"}
  <2>1. Arch!Jump
    BY <1>7, JumpEnd, IndirectEnd DEF Phase
  <2>2. QED
    BY <1>2, <2>1 DEF Arch!Instruction
<1>8. CASE instr.mode = "JSR_ABS"
  <2>1. Arch!Call
    BY <1>8, CallEnd DEF Phase
  <2>2. QED
    BY <1>2, <2>1 DEF Arch!Instruction
<1>9. CASE instr.mode = "RTS_IMP"
  <2>1. Arch!Return
    BY <1>9, ReturnEnd DEF Phase
  <2>2. QED
    BY <1>2, <2>1 DEF Arch!Instruction
<1>10. CASE instr.mode = "RTI_IMP"
  <2>1. Arch!ReturnFromInterrupt
    BY <1>10, ReturnFromInterruptEnd DEF Phase
  <2>2. QED
    BY <1>2, <2>1 DEF Arch!Instruction
<1>11. CASE instr.mode = "PUSH"
  <2>1. Arch!Push
    BY <1>11, PushEnd DEF Phase
  <2>2. QED
    BY <1>2, <2>1 DEF Arch!Instruction
<1>12. CASE instr.mode = "PULL"
  <2>1. Arch!Pull
    BY <1>12, PullEnd DEF Phase
  <2>2. QED
    BY <1>2, <2>1 DEF Arch!Instruction
<1>13. CASE instr.mode = "BRK_IMP"
  <2>1. Arch!Break
    <3>1. EnterPhase
      BY <1>13 DEF Phase
    <3>2. QED
      BY <1>13, <3>1, BreakEnd
  <2>2. QED
    BY <1>2, <2>1 DEF Arch!Instruction
<1>14. QED
  BY <1>1, <1>3, <1>4, <1>5, <1>6, <1>7, <1>8, <1>9, <1>10, <1>11, <1>12, <1>13 DEF Modes

\* Every step of the core is a step of Isa6502, or changes none of its state.
LEMMA StepImplements == TypeOK /\ CoreInv /\ [Tick]_vars => [Arch!Next]_Arch!vars
<1>1. ASSUME TypeOK, CoreInv, Tick
      PROVE  [Arch!Next]_Arch!vars
  <2>1. PICK irq, nmi, reset \in BOOLEAN :
           /\ Cycle(irq, nmi, reset) /\ Memory
           /\ bus' = IF fetch THEN One(BusCycle) ELSE bus ## BusCycle
           /\ outcome' = IF fetch' THEN Outcome' ELSE outcome
    BY <1>1, TickIs
  <2>2. CASE fetch'
    <3>0. outcome' = Outcome'
      BY <2>1, <2>2
    <3>1. ~reset /\ Clocks(Control, reset) /\ Ends
      BY <1>1, <2>1, <2>2, <3>0, EndsIs
    <3>2. ~fetch
      BY <3>1 DEF Ends, Passes
    <3>3. mem = Wrote(outcome.mem, bus) /\ HasLasts(bus)
      BY <1>1, <3>2 DEF CoreInv
    <3>4. CASE timing.kind = "reset"
      <4>1. instr.mode = "BRK_IMP" /\ ResetPhase
        BY <1>1, <3>2, <3>4, DecodedIs DEF CoreInv
      <4>2. Arch!Restart
        BY <1>1, <3>1, <4>1, RestartEnd
      <4>3. QED
        BY <4>2 DEF Arch!Next
    <3>5. CASE timing.kind = "brk"
      <4>1. Begun /\ Phase
        BY <1>1, <3>2, <3>5 DEF CoreInv
      <4>2. Arch!Instruction
        BY <1>1, <3>1, <3>3, <3>5, <4>1, InstructionEnds
      <4>3. QED
        BY <4>2 DEF Arch!Next
    <3>6. CASE timing.kind # "reset" /\ timing.kind # "brk"
      <4>1. Begun /\ Phase
        BY <1>1, <3>2, <3>6 DEF CoreInv
      <4>2. instr.mode = "BRK_IMP"
        BY <3>6, <4>1, DecodedIs DEF Begun
      <4>3. EnterPhase
        BY <4>1, <4>2 DEF Phase
      <4>4. Arch!Interrupt
        BY <1>1, <3>1, <3>3, <3>6, <4>1, <4>2, <4>3, BreakEnd
      <4>5. QED
        BY <4>4 DEF Arch!Next
    <3>7. QED
      BY <3>4, <3>5, <3>6
  <2>3. CASE ~fetch'
    <3>1. outcome' = outcome
      BY <2>1, <2>3
    <3>2. QED
      BY <3>1 DEF Arch!vars
  <2>4. QED
    BY <2>2, <2>3
<1>2. ASSUME UNCHANGED vars
      PROVE  [Arch!Next]_Arch!vars
  BY <1>2 DEF vars, Arch!vars
<1>3. QED
  BY <1>1, <1>2

\* It starts where Isa6502 does.
LEMMA InitImplements == Init => Arch!Init
<1> SUFFICES ASSUME Init
             PROVE  Arch!Init
  OBVIOUS
<1>1. outcome = Outcome /\ ~timing.pending /\ mem \in Machines /\ bus = <<>> /\ pc = 0
      /\ regs = [A |-> 0, X |-> 0, Y |-> 0, S |-> 0] /\ p = Unpack(\h24)
  BY DEF Init
<1>2. outcome.pc = pc /\ outcome.regs = regs /\ outcome.p = p /\ outcome.mem = mem /\ outcome.due = "none" /\ outcome.bus = bus
  BY <1>1 DEF Outcome, due
<1>3. Arch!Unpack(\h24) = Unpack(\h24)
  BY SameStatus
<1>4. QED
  BY <1>1, <1>2, <1>3 DEF Arch!Init

\* The clock cycles of the decode PLA, timing logic and blocks add up to the
\* instructions, interrupts and resets of a 6502, with the bus cycles, results
\* and lengths of each.
THEOREM CoreImplementsIsa == Spec => ImplementsIsa
<1>1. TypeOK /\ CoreInv /\ [Tick]_vars => [Arch!Next]_Arch!vars
  BY StepImplements
<1>2. Init => Arch!Init
  BY InitImplements
<1>3. QED
  BY <1>1, <1>2, TypesHold, InvariantHolds, PTL DEF Spec, ImplementsIsa, Arch!Spec
=============================================================================
