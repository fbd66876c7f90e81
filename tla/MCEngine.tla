------------------------------ MODULE MCEngine ------------------------------
(***************************************************************************)
(* Three nodes and an input port, as NAND gates, registers, write-enabled  *)
(* registers, memories of a bit read and written under one address line,   *)
(* and a Switch: circuits that settle, that hold a bit in a loop, that     *)
(* oscillate for some inputs, and with an input left open.                 *)
(***************************************************************************)
EXTENDS Engine

MCTypes == {"Nand", "Register", "Enabled", "Memory", "Switch"}
MCEval(t, a, h) == CASE t = "Nand" -> 1 - a[1] * a[2]
                     [] t = "Memory" -> IF a[2] = 1 THEN h ELSE 0
                     [] OTHER -> h
\* A register takes an open input for 0; one enabled with no data has no next state.
MCOnTick(t, a, h) == CASE t = "Register" -> IF a[1] = 1 THEN 1 ELSE 0
                       [] t \in {"Enabled", "Memory"} -> IF a[2] = 1 THEN a[1] ELSE h
                       [] OTHER -> h

N == "Nand"
R == "Register"
Net(ta, a, tb, b, tc, c) ==
  [type |-> [a |-> ta, b |-> tb, c |-> tc], reads |-> [a |-> a, b |-> b, c |-> c]]

MCCircuits == {
  \* a ring that oscillates while the input is 1, with an inverter on it
  Net(N, <<"a", "in">>, N, <<"a", "a">>, R, <<"b", "b">>),
  \* a latch of two cross-coupled gates, set by the input
  Net(N, <<"in", "b">>, N, <<"c", "a">>, "Switch", <<Open, Open>>),
  \* a counter of two bits: a register fed back, the second enabled by it
  Net(N, <<"b", "c">>, R, <<"a", "a">>, "Enabled", <<"a", "b">>),
  \* two registers that swap, and what they agree on
  Net(R, <<"b", "b">>, R, <<"a", "a">>, N, <<"a", "b">>),
  \* a loop of a register and two gates, written against the direction of values
  Net(N, <<"b", "in">>, N, <<"c", "in">>, R, <<"a", "a">>),
  \* registers with an input open
  Net(R, <<Open, Open>>, "Enabled", <<Open, "c">>, "Enabled", <<"in", Open>>),
  \* gates in a row, fed by one input
  Net(N, <<"b", "in">>, N, <<"c", "in">>, N, <<"in", "in">>),
  \* a memory that a register addresses, and a gate with one input open
  Net("Memory", <<"c", "b">>, R, <<"c", "c">>, N, <<"a", Open>>),
  \* a gate that is never evaluated, for no input of it is wired
  Net(N, <<Open, Open>>, N, <<"a", "c">>, "Switch", <<Open, Open>>)}
=============================================================================
