------------------------- MODULE SynchronousCircuit -------------------------
(***************************************************************************)
(* What the simulator's engine promises of a circuit: the values it shows  *)
(* solve the equations of the circuit's nodes for the present inputs and   *)
(* state, and a clock edge replaces the state of every register at once,   *)
(* by what such a solution puts on the register's inputs.  How a solution  *)
(* is reached is not said, nor that there is one: the engine may fail to   *)
(* find one, and promises nothing from then on until it is reset, or       *)
(* restored to a state from before.                                        *)
(***************************************************************************)
EXTENDS Naturals

CONSTANTS
  Nodes, Inputs, Words, Circuits, Unsettled,
  Solutions(_, _, _),  \* the values that solve a circuit, by its inputs and held state
  AfterEdge(_, _, _, _), \* the held state after an edge, from settled values, inputs, held state
  Started(_, _)        \* the held state after a reset

VARIABLES
  net,     \* the circuit
  inputs,  \* what drives its input ports
  held,    \* what its registers and Switches hold
  edges,   \* clock edges since the start
  failed,  \* no solution was found once
  shown,   \* the values of its nodes, or Unsettled
  saved    \* the state of a snapshot, or Unsettled

drive == <<inputs, held, edges, failed>>
vars  == <<net, drive, shown, saved>>

Init ==
  /\ net \in Circuits
  /\ inputs \in [Inputs -> Words] /\ held \in [Nodes -> Words] /\ edges = 0
  /\ failed = FALSE /\ shown = Unsettled /\ saved = Unsettled

Busy == shown' = Unsettled /\ UNCHANGED <<net, drive, saved>>

Fail == failed' = TRUE /\ shown' = Unsettled /\ UNCHANGED <<net, inputs, held, edges, saved>>

SetInput(i, w) ==
  /\ inputs' = [inputs EXCEPT ![i] = w]
  /\ shown' = Unsettled /\ UNCHANGED <<net, held, edges, failed, saved>>

SetNode(n, w) ==
  /\ held' = [held EXCEPT ![n] = w]
  /\ shown' = Unsettled /\ UNCHANGED <<net, inputs, edges, failed, saved>>

Settle == ~failed /\ shown' \in Solutions(net, inputs, held) /\ UNCHANGED <<net, drive, saved>>

Edge ==
  /\ \E v \in (IF failed THEN [Nodes -> Words] ELSE Solutions(net, inputs, held)) :
       held' = AfterEdge(net, v, inputs, held)
  /\ edges' = edges + 1
  /\ shown' = Unsettled /\ UNCHANGED <<net, inputs, failed, saved>>

Reset ==
  /\ held' = Started(net, held) /\ edges' = 0 /\ failed' = FALSE
  /\ shown' = Unsettled /\ UNCHANGED <<net, inputs, saved>>

Snapshot == saved' = drive /\ UNCHANGED <<net, drive, shown>>

Restore ==
  /\ saved # Unsettled /\ drive' = saved
  /\ shown' = Unsettled /\ UNCHANGED <<net, saved>>

Next ==
  \/ Busy \/ Fail \/ Settle \/ Edge \/ Reset \/ Snapshot \/ Restore
  \/ \E i \in Inputs, w \in Words : SetInput(i, w)
  \/ \E n \in Nodes, w \in Words : SetNode(n, w)

Spec == Init /\ [][Next]_vars
=============================================================================
