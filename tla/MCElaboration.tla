---------------------------- MODULE MCElaboration ----------------------------
(***************************************************************************)
(* A gate in a composite, that in another composite, and both in the top   *)
(* circuit, with every choice of wires: each sink is driven by any port    *)
(* that may drive it, and those of the innermost circuit may be left open. *)
(***************************************************************************)
EXTENDS Elaboration

Gate == [kind |-> "primitive", inputs |-> {"i"}, outputs |-> {"o"}, nodes |-> <<>>, wires |-> <<>>]

Own(name) == <<<<>>, name>>
Of(node, name) == <<<<node>>, name>>

\* Every way to drive the sinks, which are in the order they are written.
Wirings(sinks, drivers) ==
  {LET driven == SelectSeq(sinks, LAMBDA s : f[s] # None)
   IN [k \in DOMAIN driven |-> Wire(f[driven[k]], driven[k])] : f \in [Range(sinks) -> drivers]}

Composite(ins, outs, nodes, wirings) ==
  {[kind |-> "composite", inputs |-> ins, outputs |-> outs, nodes |-> nodes, wires |-> ws] :
     ws \in wirings}

Inners == Composite({"x"}, {"y"}, <<[id |-> "g", ref |-> "Gate"]>>,
                    Wirings(<<Own("y"), Of("g", "i")>>, {Own("x"), Of("g", "o"), None}))
Outers == Composite({"x", "v"}, {"y", "z"}, <<[id |-> "n", ref |-> "Inner"]>>,
                    Wirings(<<Of("n", "x"), Own("y"), Own("z")>>,
                            {Own("x"), Own("v"), Of("n", "y")}))
Tops == Composite({"a"}, {"b"}, <<[id |-> "p", ref |-> "Outer"], [id |-> "q", ref |-> "Inner"]>>,
                  Wirings(<<Of("p", "x"), Of("p", "v"), Of("q", "x"), Own("b")>>,
                          {Own("a"), Of("p", "y"), Of("p", "z"), Of("q", "y")}))

MCDesigns == [Gate : {Gate}, Inner : Inners, Outer : Outers, Top : Tops \cup {Gate}]
=============================================================================
