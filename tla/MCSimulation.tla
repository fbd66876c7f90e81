---------------------------- MODULE MCSimulation ----------------------------
(***************************************************************************)
(* A small circuit: when the input is 1 the register takes the Switch and  *)
(* word 1 of the memory, which declares word 0 only, takes 1.  Its onTick  *)
(* throws when input, Switch and register are all 1.                       *)
(***************************************************************************)
EXTENDS Simulation, TLC

MCWords == {0, 1}
MCMemories == UNION {[D -> MCWords] : D \in SUBSET MCWords}
MCDeclared == 0 :> 1
MCPrograms == {1 :> 0}
MCOverlay(d, p) == p @@ d
MCNextReg(d) == IF d.inp = 1 THEN d.sw ELSE d.reg
MCNextMem(d) == IF d.inp = 1 THEN (1 :> 1) @@ d.mem ELSE d.mem
MCThrows(d) == d.inp = 1 /\ d.sw = 1 /\ d.reg = 1
=============================================================================
