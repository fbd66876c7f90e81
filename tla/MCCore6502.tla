---------------------------- MODULE MCCore6502 -----------------------------
(***************************************************************************)
(* Short programs, each for a group of addressing modes and for where they *)
(* cross a page or wrap in one, ended by a jump to itself; irq, nmi and    *)
(* reset may be high in one cycle of each, whichever, or in two.  Memory   *)
(* that is not named is filled with JMP $4C4C, so that a stray jump ends.  *)
(***************************************************************************)
EXTENDS Core6502

Block(at, bytes) == [a \in at..(at + Len(bytes) - 1) |-> bytes[a - at + 1]]
Vector(at, to) == Block(at, <<Low(to), High(to)>>)
Halt(at) == Block(at, <<\h4c, Low(at), High(at)>>)
Joined(parts) == [a \in UNION {DOMAIN q : q \in parts} |->
                    (CHOOSE q \in parts : a \in DOMAIN q)[a]]

\* NMI: INC $20, RTI.  IRQ and BRK: RTI.
Machine(start, parts) ==
  Joined(parts \cup {Vector(\hfffa, \h0340), Vector(\hfffc, start), Vector(\hfffe, \h0348),
                     Block(\h0340, <<\he6, \h20, \h40>>), Block(\h0348, <<\h40>>)})
Program(start, code) == {Block(start, code), Halt(start + Len(code))}

\* Pointers at $11, and at $FF with its high byte at $00.
Pointers == {Vector(\h11, \h04f0), Block(\hff, <<\h20>>), Block(\h00, <<\h05>>)}

\* LDX #$20; LDY #$08; LDA $04F0,X; ADC $04F0,Y; EOR ($11),Y; AND ($F1,X); LDX $F7,Y;
\* CMP ($FF),Y; LDY #$F0; ORA ($11),Y; LDA $11,X; BIT $04F8
Reading == Machine(\h02f0, Program(\h02f0,
  <<\ha2, \h20, \ha0, \h08, \hbd, \hf0, \h04, \h79, \hf0, \h04, \h51, \h11, \h21, \hf1,
    \hb6, \hf7, \hd1, \hff, \ha0, \hf0, \h11, \h11, \hb5, \h11, \h2c, \hf8, \h04>>)
  \cup Pointers \cup {Block(\h04f8, <<\h93>>), Block(\h0510, <<\h7f>>), Block(\h05e0, <<\h81>>)})

\* LDX #$20; LDY #$18; SEC; STA $04F0,X; STX $04D0,Y; INC $04F0,X; ROR $04F8; STA ($11),Y;
\* ASL $F1,X; STX $20,Y; DEC $38; STA ($F1,X)
Writing == Machine(\h02f0, Program(\h02f0,
  <<\ha2, \h20, \ha0, \h18, \h38, \h9d, \hf0, \h04, \h99, \hd0, \h04, \hfe, \hf0, \h04,
    \h6e, \hf8, \h04, \h91, \h11, \h16, \hf1, \h96, \h20, \hc6, \h38, \h81, \hf1>>)
  \cup Pointers \cup {Block(\h04f8, <<\h93>>), Block(\h0510, <<\h7f>>)})

\* LDX #$01; TXS; LDA #$44; PHA; PHP; PLA; PLP; JSR $0380; JMP ($04FF), with a JSR and
\* an RTS at $0380 and a high byte of the pointer at $0400 that is not the one at $0500
Stacking == Machine(\h0300, Program(\h0300,
  <<\ha2, \h01, \h9a, \ha9, \h44, \h48, \h08, \h68, \h28, \h20, \h80, \h03, \h6c, \hff, \h04>>)
  \cup {Block(\h0380, <<\h60>>), Block(\h04ff, <<\h90>>), Block(\h0400, <<\h03>>),
        Block(\h0500, <<\h07>>), Halt(\h0390)})

\* JSR $03F0, with its high byte where S points after reset
OnTheStack == Machine(\h01fb, {Block(\h01fb, <<\h20, \hf0, \h03>>), Halt(\h01f0)})

\* LDX #$03; BMI; DEX; BNE back to DEX; BEQ over a page; BCC back over it; BEQ; BVC
Branching == Machine(\h02e8,
  {Block(\h02e8, <<\ha2, \h03, \h30, \h10, \hca, \hd0, \hfd, \hf0, \h20>>),
   Block(\h0311, <<\h90, \he0>>), Block(\h02f3, <<\hb0, \h10, \hf0, \h04>>), Halt(\h02fb)})

\* SED; SEC; LDA #$79; ADC #$45; SBC #$99; CMP #$25; PHP; PLA; ROL; TAX; INX; TXA
Computing == Machine(\h0300, Program(\h0300,
  <<\hf8, \h38, \ha9, \h79, \h69, \h45, \he9, \h99, \hc9, \h25, \h08, \h68, \h2a, \haa, \he8, \h8a>>))

\* CLI; SEI; BRK and its padding; LDA #$03; PHA; PLP
Masking == Machine(\h0300, Program(\h0300, <<\h58, \h78, \h00, \hff, \ha9, \h03, \h48, \h28>>))

MCMachines == {Reading, Writing, Stacking, OnTheStack, Branching, Computing, Masking}
MCPinCycles == [m \in MCMachines |-> IF m \in {Masking, Branching, Stacking} THEN 2 ELSE 1]
=============================================================================
