----------------------------- MODULE Elaboration -----------------------------
(***************************************************************************)
(* elaborate() (packages/core/src/simulator/elaboration.ts), which turns a *)
(* hierarchy of circuits into one flat netlist of primitives, pass by      *)
(* pass, and what compileForSimulation (compile-circuit.ts) and            *)
(* propagateToTopLevelOutputs (propagate.ts) make of the netlist.          *)
(*                                                                         *)
(* An instance is the path of node ids that leads to it, <<>> for the top  *)
(* circuit, which is TOP_LEVEL_NODE in the code.  A port is an instance    *)
(* and a name.  Inside a circuit, <<>> is the circuit itself.  Port types, *)
(* arguments, clocks and the hierarchy kept for display are left out, as   *)
(* are the errors of a recursive or unknown definition, which circuit()    *)
(* cannot build.                                                           *)
(***************************************************************************)
EXTENDS Integers, Sequences, FiniteSets, SequencesExt

CONSTANTS
  Top,       \* the circuit elaborated
  Designs,   \* what circuit() may have built: the definition of each name
  None,      \* no port
  Loops,     \* a composite may be wired to itself,
  Feeds      \* or may pass on what a nested one feeds through: see Buildable

VARIABLES
  design,
  pass,        \* the pass to come
  flatNodes,   \* the primitives
  composites,  \* compositeInstances
  forwarding,  \* portForwarding
  wires,       \* connections
  reads,       \* inputSourceNode and inputSourcePort of an input, source of an output
  wakes        \* dependents of a primitive

vars == <<design, pass, flatNodes, composites, forwarding, wires, reads, wakes>>

Wire(from, to) == [from |-> from, to |-> to]
Wires(of, f(_)) == FlattenSeq([k \in DOMAIN of |-> f(of[k])])

-----------------------------------------------------------------------------
(* The hierarchy. *)

RECURSIVE Component(_)
Component(path) ==
  IF path = <<>> THEN Top
  ELSE LET children == design[Component(Front(path))].nodes
       IN children[SelectInSeq(children, LAMBDA n : n.id = Last(path))].ref

Circuit(path) == design[Component(path)]
IsComposite(path) == Circuit(path).kind = "composite"
Children(path) == [k \in DOMAIN Circuit(path).nodes |-> Append(path, Circuit(path).nodes[k].id)]

RECURSIVE Under(_)
Under(path) == UNION {{child} \cup Under(child) : child \in Range(Children(path))}

In(path, end) == <<path \o end[1], end[2]>>

\* A top circuit without nodes is a primitive, and becomes a node of its name.
Alone == ~IsComposite(<<>>)

OwnPorts(side) == {<<<<>>, name>> : name \in design[Top][side]}
NodePorts(side) ==
  UNION {{<<p, name>> : name \in (IF Alone THEN design[Top] ELSE Circuit(p))[side]} : p \in flatNodes}
Drivers == OwnPorts("inputs") \cup NodePorts("outputs")
Sinks == OwnPorts("outputs") \cup NodePorts("inputs")

\* A port of a primitive or of the top circuit; the ports of composites only
\* pass a signal on.
IsReal(port) == port[1] = <<>> \/ port[1] \in flatNodes

-----------------------------------------------------------------------------
(* The pass flattenCircuit: every wire with the paths of its ends in full, *)
(* those of a circuit after those of its nodes.                            *)

RECURSIVE Flattened(_)
Flattened(path) ==
  Wires(Children(path), Flattened)
    \o [k \in DOMAIN Circuit(path).wires |->
          LET w == Circuit(path).wires[k] IN Wire(In(path, w.from), In(path, w.to))]

\* A top circuit that is a primitive is wired port by port to the one node.
Wrapped ==
  SetToSeq({Wire(port, <<<<Top>>, port[2]>>) : port \in OwnPorts("inputs")})
    \o SetToSeq({Wire(<<<<Top>>, port[2]>>, port) : port \in OwnPorts("outputs")})

Hierarchy == IF Alone THEN Wrapped ELSE Flattened(<<>>)

Flatten ==
  /\ pass = "flatten"
  /\ flatNodes' = IF Alone THEN {<<Top>>} ELSE {path \in Under(<<>>) : ~IsComposite(path)}
  /\ wires' = Hierarchy
  /\ pass' = "trace"
  /\ UNCHANGED <<design, composites, forwarding, reads, wakes>>

-----------------------------------------------------------------------------
(* The pass stitchCompositeConnections: wires to a composite go to what    *)
(* its port forwards to, wires from one come from what its port is fed by. *)

\* resolveInternalPorts: what a port of a nested instance stands for.
RECURSIVE Internal(_)
Internal(port) ==
  IF ~IsComposite(port[1]) THEN <<port>>
  ELSE LET own == <<<<>>, port[2]>>
           across(end) == IF end[1] = <<>> THEN <<In(port[1], end)>> ELSE Internal(In(port[1], end))
           through(w) == (IF w.to = own THEN across(w.from) ELSE <<>>)
                           \o (IF w.from = own THEN across(w.to) ELSE <<>>)
           found == Wires(Circuit(port[1]).wires, through)
       IN IF found = <<>> THEN <<port>> ELSE found

\* traceCompositePorts: what a port of a composite forwards to, or is fed by.
Traced(port) ==
  LET own == <<<<>>, port[2]>>
      traced(w) ==
        CASE w.from = own /\ w.to[1] # <<>> -> Internal(In(port[1], w.to))
          [] w.from[1] # <<>> /\ w.to = own -> Internal(In(port[1], w.from))
          [] w.from = own /\ w.to[1] = <<>> -> <<In(port[1], w.to)>>
          [] OTHER -> <<>>
  IN Wires(Circuit(port[1]).wires, traced)

\* buildForwardingMap.
Trace ==
  /\ pass = "trace"
  /\ composites' = {path \in Under(<<>>) : IsComposite(path)}
  /\ forwarding' =
       [port \in UNION {{<<path, name>> : name \in Circuit(path).inputs \cup Circuit(path).outputs} :
                         path \in composites'} |-> Traced(port)]
  /\ pass' = "stitch"
  /\ UNCHANGED <<design, flatNodes, wires, reads, wakes>>

\* resolveToEndpoints, breadth first.
RECURSIVE Endpoints(_, _)
Endpoints(queue, visited) ==
  IF queue = <<>> THEN <<>>
  ELSE LET port == Head(queue)
           seen == visited \cup {port}
       IN IF port \in visited THEN Endpoints(Tail(queue), visited)
          ELSE IF IsReal(port) \/ forwarding[port] = <<>>
               THEN <<port>> \o Endpoints(Tail(queue), seen)
               ELSE Endpoints(Tail(queue) \o forwarding[port], seen)

EndpointsOf(port) ==
  LET found == Endpoints(<<port>>, {}) IN IF found = <<>> THEN <<port>> ELSE found

Stitched(w) ==
  LET from == w.from[1]
      to == w.to[1]
      sources == IF from \in composites /\ from # to THEN EndpointsOf(w.from) ELSE <<w.from>>
      targets == IF to \in composites /\ from # to THEN EndpointsOf(w.to) ELSE <<w.to>>
      join(source) == [k \in DOMAIN targets |-> Wire(source, targets[k])]
  IN IF (to \in composites /\ IsStrictPrefix(to, from)) \/ (from \in composites /\ IsStrictPrefix(from, to))
     THEN <<>>
     ELSE SelectSeq(Wires(sources, join), LAMBDA v : v.from # v.to)

Stitch ==
  /\ pass = "stitch"
  /\ wires' = Wires(wires, Stitched)
  /\ pass' = "eliminate"
  /\ UNCHANGED <<design, flatNodes, composites, forwarding, reads, wakes>>

\* A wire whose ends are at one composite stands for a feedthrough.
IsPassthrough(w) == w.from[1] \in composites /\ w.from[1] = w.to[1]

\* A mutant: a feedthrough with nothing after it yet is kept as a wire.
EliminateDirect(done, w) ==
  IF IsPassthrough(w) THEN [done EXCEPT !.processed = @ \cup {w}] ELSE [done EXCEPT !.kept = Append(@, w)]

\* One turn of the loop that eliminates them: what is processed, what is kept.
EliminateOne(done, w) ==
  LET processed == done.processed \cup {w}
      before == SelectSeq(wires, LAMBDA v : v.to = w.from /\ v \notin processed)
      after == SelectSeq(wires, LAMBDA v : v.from = w.to /\ v \notin processed)
      join(v) == [k \in DOMAIN after |-> Wire(v.from, after[k].to)]
      used == IF before = <<>> \/ after = <<>> THEN {} ELSE Range(before) \cup Range(after)
  IN IF IsPassthrough(w)
     THEN [processed |-> processed \cup used, kept |-> done.kept \o Wires(before, join)]
     ELSE IF w \in done.processed THEN done ELSE [done EXCEPT !.kept = Append(@, w)]

Eliminate ==
  /\ pass = "eliminate"
  /\ wires' = FoldLeft(EliminateOne, [processed |-> {}, kept |-> <<>>], wires).kept
  /\ pass' = "resolve"
  /\ UNCHANGED <<design, flatNodes, composites, forwarding, reads, wakes>>

-----------------------------------------------------------------------------
(* The pass resolveThroughComposites: from every real source on through    *)
(* the ports of composites that are left, to every real end.               *)

\* A mutant: only one port on.
ReachedOnce(stack, visited) ==
  LET out == SelectSeq(wires, LAMBDA w : w.from = Last(stack) /\ IsReal(w.to))
  IN [k \in DOMAIN out |-> out[k].to]

\* reachRealTargets, depth first.
RECURSIVE Reached(_, _)
Reached(stack, visited) ==
  IF stack = <<>> THEN <<>>
  ELSE LET port == Last(stack)
           out == SelectSeq(wires, LAMBDA w : w.from = port)
           next == [k \in DOMAIN out |-> out[k].to]
           seen == visited \cup {port}
       IN IF port \in visited THEN Reached(Front(stack), visited)
          ELSE IF IsReal(port) THEN <<port>> \o Reached(Front(stack), seen)
          ELSE Reached(Front(stack) \o next, seen)

\* A mutant: wires from the ports of composites are kept.
ResolveTargets(emitted, w) ==
  LET targets == IF IsReal(w.to) THEN <<w.to>> ELSE Reached(<<w.to>>, {})
      direct == [k \in DOMAIN targets |-> Wire(w.from, targets[k])]
      emit(out, v) == IF v.from = v.to \/ Contains(out, v) THEN out ELSE Append(out, v)
  IN FoldLeft(emit, emitted, direct)

ResolveOne(emitted, w) ==
  LET targets == IF IsReal(w.to) THEN <<w.to>> ELSE Reached(<<w.to>>, {})
      direct == [k \in DOMAIN targets |-> Wire(w.from, targets[k])]
      emit(out, v) == IF v.from = v.to \/ Contains(out, v) THEN out ELSE Append(out, v)
  IN IF IsReal(w.from) THEN FoldLeft(emit, emitted, direct) ELSE emitted

Resolve ==
  /\ pass = "resolve"
  /\ wires' = FoldLeft(ResolveOne, <<>>, wires)
  /\ pass' = "compile"
  /\ UNCHANGED <<design, flatNodes, composites, forwarding, reads, wakes>>

-----------------------------------------------------------------------------
(* What a simulation reads of the netlist.                                 *)

\* Of several wires to a port the last one counts; one from a port that is no
\* output of a primitive is skipped for an input, and read for a top output.
Known(w) ==
  w.from \in Drivers \/ (w.to[1] = <<>> /\ w.from \in NodePorts("inputs") \cup OwnPorts("outputs"))

SourceOf(sink) ==
  LET driving == SelectSeq(wires, LAMBDA w : w.to = sink /\ Known(w))
  IN IF driving = <<>> THEN None ELSE Last(driving).from

\* A mutant: a node never waits for itself.
DependentsWithoutSelf(path) ==
  {w.to[1] : w \in {v \in Range(wires) : v.from[1] = path /\ v.to[1] \notin {<<>>, path}}}

Dependents(path) ==
  {w.to[1] : w \in {v \in Range(wires) : v.from[1] = path /\ v.to[1] # <<>>}}

Compile ==
  /\ pass = "compile"
  /\ reads' = [sink \in Sinks |-> SourceOf(sink)]
  /\ wakes' = [path \in flatNodes |-> Dependents(path)]
  /\ pass' = "done"
  /\ UNCHANGED <<design, flatNodes, composites, forwarding, wires>>

-----------------------------------------------------------------------------
(* Which designs are elaborated here.                                      *)

\* A circuit with a composite wired from its output straight to its input,
\* where a node inside drives the output or is driven by the input.
LoopsBack(d, c) ==
  \E w \in Range(c.wires), n \in Range(c.nodes) :
    /\ w.from[1] = <<n.id>> /\ w.to[1] = <<n.id>>
    /\ \E v \in Range(d[n.ref].wires) : \/ v.from[1] # <<>> /\ v.to = <<<<>>, w.from[2]>>
                                        \/ v.from = <<<<>>, w.to[2]>> /\ v.to[1] # <<>>

\* A composite that passes on what a nested one feeds through, from an input
\* that the nested one uses otherwise as well.
FeedsOn(d, c) ==
  \E w \in Range(c.wires), n \in Range(c.nodes) :
    /\ w.to[1] = <<>> /\ w.from[1] = <<n.id>>
    /\ \E v, u \in Range(d[n.ref].wires) : /\ v.from[1] = <<>> /\ v.to = <<<<>>, w.from[2]>>
                                           /\ u # v /\ u.from = v.from

Buildable(d) ==
  /\ Loops \/ \A name \in DOMAIN d : ~LoopsBack(d, d[name])
  /\ Feeds \/ \A name \in DOMAIN d \ {Top} : ~FeedsOn(d, d[name])

Init ==
  /\ design \in Designs /\ Buildable(design)
  /\ pass = "flatten"
  /\ flatNodes = {} /\ composites = {} /\ forwarding = <<>> /\ wires = <<>>
  /\ reads = <<>> /\ wakes = <<>>

Next == Flatten \/ Trace \/ Stitch \/ Eliminate \/ Resolve \/ Compile

Spec == Init /\ [][Next]_vars

-----------------------------------------------------------------------------
(* What a wire means: following the wires of the hierarchy back from a     *)
(* port, one arrives at the source of its signal, if it has any.           *)

RECURSIVE Back(_, _, _)
Back(hierarchy, port, visited) ==
  LET into == {w \in hierarchy : w.to = port}
      from == (CHOOSE w \in into : TRUE).from
  IN IF into = {} \/ port \in visited THEN None
     ELSE IF IsReal(from) THEN from ELSE Back(hierarchy, from, visited \cup {port})

Signals == LET hierarchy == Range(Hierarchy) IN [sink \in Sinks |-> Back(hierarchy, sink, {})]

\* What the wires of the pass join.
RECURSIVE From(_)
From(ports) ==
  LET more == ports \cup {w.to : w \in {v \in Range(wires) : v.from \in {p \in ports : ~IsReal(p)}}}
  IN IF more = ports THEN {p \in ports : IsReal(p)} ELSE From(more)

Joined == UNION {{<<w.from, sink>> : sink \in From({w.to})} : w \in {v \in Range(wires) : IsReal(v.from)}}

-----------------------------------------------------------------------------
(* Properties. *)

\* Every pass joins the same real sources and sinks as the hierarchy does.
PassesKeepNets ==
  pass # "flatten" =>
    LET signals == Signals
    IN Joined = {<<signals[sink], sink>> : sink \in {s \in Sinks : signals[s] # None}}

\* In the simulation every input and every output reads the port its signal
\* comes from in the hierarchy, however many instances it passes through.
ReadsItsSignal == pass = "done" => reads = Signals

\* ... and a primitive that reads another is woken when that one changes, and
\* no other is (buildDependencyGraph): a change that wakes nobody is never seen.
WokenBySource ==
  pass = "done" =>
    wakes = [path \in flatNodes |->
               {sink[1] : sink \in {s \in NodePorts("inputs") : reads[s] # None /\ reads[s][1] = path}}]

\* Type correctness.  Every wire joins ports of instances of the hierarchy, and
\* once resolved (resolveThroughComposites) those of primitives and of the top
\* circuit only, an output to an input, no two wires to one input.
NetlistIsFlat ==
  /\ design \in Designs
  /\ pass \in {"flatten", "trace", "stitch", "eliminate", "resolve", "compile", "done"}
  /\ \A w \in Range(wires), end \in {"from", "to"} : w[end][1] \in flatNodes \cup Under(<<>>) \cup {<<>>}
  /\ pass \in {"compile", "done"} =>
       /\ \A w \in Range(wires) : w.from \in Drivers /\ w.to \in Sinks
       /\ \A i, j \in DOMAIN wires : wires[i].to = wires[j].to => i = j
=============================================================================
