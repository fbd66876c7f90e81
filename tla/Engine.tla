------------------------------- MODULE Engine -------------------------------
(***************************************************************************)
(* DefaultSimulatorEngine (packages/core/src/simulator/engine.ts) down to  *)
(* the evaluation of one node: the event queue (numeric-event-queue.ts),   *)
(* the propagation loop and its cap (propagate.ts) and what a compiled     *)
(* circuit says of its nodes (compile-circuit.ts).                         *)
(*                                                                         *)
(* A node has one output here: several are one value, as a change of any   *)
(* of them counts as a change of the node.  Values are in range, so masks  *)
(* do nothing.  The order in which nodes are queued follows the order in   *)
(* which a circuit was written; any order may happen.  Any evaluation and  *)
(* any edge may throw.                                                     *)
(*                                                                         *)
(* Every call of the engine is synchronous.  A call that propagates is     *)
(* several steps, one for each evaluation, and nothing else is enabled     *)
(* until it has ended.                                                     *)
(***************************************************************************)
EXTENDS Integers, Sequences, FiniteSets

CONSTANTS
  Nodes, Inputs, Slots, Open,
  Types, SourceTypes, StatefulTypes,
  Words, Zero,
  Eval(_, _, _),       \* `eval` of a type: its inputs and what the node holds
  OnTick(_, _, _),     \* `onTick` likewise; an input left open is Open, and so is no next state
  Circuits,            \* the circuits built
  CapFloor, CapPerNode,
  MaxCalls             \* bound: calls in a behaviour

Sources == Nodes \cup Inputs \cup {Open}
Netlists == [type : [Nodes -> Types], reads : [Nodes -> [Slots -> Sources]]]
Args == [Slots -> Words]
EdgeArgs == [Slots -> Words \cup {Open}]
Snapshots == [inputs : [Inputs -> Words], held : [Nodes -> Words], edges : Nat,
              lines : [Inputs -> Words], val : [Nodes -> Words],
              fault : {"none", "failed", "recovered"}]
Drives == [Inputs -> Words] \X [Nodes -> Words] \X Nat \X BOOLEAN

ASSUME EngineAssumption ==
  /\ IsFiniteSet(Nodes) /\ Nodes \cap Inputs = {} /\ Open \notin Nodes \cup Inputs
  /\ Open \notin Snapshots /\ Open \notin Drives
  /\ SourceTypes \subseteq Types /\ StatefulTypes \subseteq Types /\ Zero \in Words
  /\ \A t \in Types, h \in Words :
       /\ \A a \in Args : Eval(t, a, h) \in Words
       /\ \A a \in EdgeArgs : OnTick(t, a, h) \in Words \cup {Open}
  /\ Circuits \subseteq Netlists
  /\ \A c \in Circuits, n \in Nodes :
       c.type[n] \in SourceTypes => c.reads[n] = [s \in Slots |-> Open]
  /\ CapFloor \in Nat /\ CapPerNode \in Nat /\ MaxCalls \in Nat

VARIABLES
  net,      \* numericCircuit
  inputs,   \* topLevelInputs
  lines,    \* the values of the input ports in numericValues
  held,     \* currentState of a stateful node, the `value` argument of a source
  edges,    \* cycleCount of the sequential state
  val, ini, \* numericValues: values and initialized, of the nodes
  queue, pending,  \* eventQueue
  evals,    \* evalCount of the propagation under way
  call,     \* the call under way
  dirty,    \* something was written, or a call began, since the values last settled
  fault,    \* the last propagation gave up; or one before it did
  saved,    \* a snapshot() the caller holds
  calls     \* calls so far

drive  == <<inputs, held, edges>>
ports  == <<lines, val, ini>>
wave   == <<queue, pending, evals>>
vars   == <<net, drive, ports, wave, call, dirty, fault, saved, calls>>

-----------------------------------------------------------------------------
(* The compiled circuit *)

Stateful(c, n) == c.type[n] \in StatefulTypes
Reads(c, n) == {c.reads[n][s] : s \in Slots}
Dependents(c, n) == {d \in Nodes : n \in Reads(c, d)}

\* A mutant: readers of an input port are left to the nodes before them.
SeedsWithin(c) == {n \in Nodes : c.type[n] \in SourceTypes \/ Stateful(c, n)}

\* `seedInitialQueue`: sources, nodes with state and readers of an input port.
Seeds(c) ==
  {n \in Nodes : \/ c.type[n] \in SourceTypes
                 \/ Stateful(c, n)
                 \/ Reads(c, n) \cap Inputs # {}}

\* `seedStateOutputNodes`
StateSeeds(c) == {n \in Nodes : Stateful(c, n)}

\* The nodes a propagation can get to.  A node none of whose inputs is wired
\* to one of these is never evaluated, and reads as 0.
Reached(c) ==
  {n \in Nodes : \A R \in SUBSET Nodes :
     (Seeds(c) \subseteq R /\ \A m \in R : Dependents(c, m) \subseteq R) => n \in R}

\* `readInput`
Value(v, l, src) == IF src \in Nodes THEN v[src] ELSE IF src \in Inputs THEN l[src] ELSE Zero
ArgsOf(c, v, l, n) == [s \in Slots |-> Value(v, l, c.reads[n][s])]
Output(c, v, l, h, n) == Eval(c.type[n], ArgsOf(c, v, l, n), h[n])

\* What `updateSequentialStates` hands to `onTick`: the input ports as they are
\* driven, and nothing for an input left open.
TickArgs(c, v, d, n) ==
  [s \in Slots |-> IF c.reads[n][s] = Open THEN Open ELSE Value(v, d, c.reads[n][s])]

\* `commitSequentialState`: a node without a next state keeps the one it has.
AfterEdge(c, v, d, h) ==
  [n \in Nodes |->
     LET next == OnTick(c.type[n], TickArgs(c, v, d, n), h[n])
     IN IF Stateful(c, n) /\ next # Open THEN next ELSE h[n]]

\* `initializeFlatSequentialState`; the arguments of sources stay.
Started(c, h) == [n \in Nodes |-> IF Stateful(c, n) THEN Zero ELSE h[n]]

-----------------------------------------------------------------------------
(* The event queue *)

Orders(S) ==
  {o \in [1..Cardinality(S) -> S] : /\ \A i, j \in DOMAIN o : o[i] = o[j] => i = j
                                   /\ \A n \in S : \E i \in DOMAIN o : o[i] = n}

\* `enqueueAll`: those not pending yet.  enqueueAll on what the ring and the
\* flags are after the dequeue of a node.
EnqueueAll(ring, flags, S) ==
  LET new == {n \in S : ~flags[n]}
  IN /\ \E o \in Orders(new) : queue' = ring \o o
     /\ pending' = [n \in Nodes |-> flags[n] \/ n \in new]

\* A mutant: only the pointers of the ring are reset.
PointersCleared == pending

Cleared == [n \in Nodes |-> FALSE]

\* A mutant: evaluations add up over calls.
PropagateCountingOn(seeds) ==
  /\ EnqueueAll(<<>>, Cleared, seeds)
  /\ evals' = evals
  /\ lines' = inputs'

\* A call of `propagate` begins: the queue is cleared and seeded and the input
\* ports take what they are driven with.
Propagate(seeds) ==
  /\ EnqueueAll(<<>>, Cleared, seeds)
  /\ evals' = 0
  /\ lines' = inputs'

Cap == LET scaled == Cardinality(Nodes) * CapPerNode
       IN IF scaled > CapFloor THEN scaled ELSE CapFloor

\* An engine as `initialize` builds it, its queue about to be seeded.
Fresh ==
  /\ net \in Circuits
  /\ inputs = [i \in Inputs |-> Zero] /\ lines = inputs
  /\ held = [n \in Nodes |-> Zero] /\ edges = 0
  /\ val = [n \in Nodes |-> Zero] /\ ini = [n \in Nodes |-> FALSE]
  /\ pending = [n \in Nodes |-> n \in Seeds(net)]
  /\ evals = 0 /\ call = "initialize" /\ dirty = TRUE /\ fault = "none"
  /\ saved = Open /\ calls = 0

Init == Fresh /\ queue \in Orders(Seeds(net))

-----------------------------------------------------------------------------
(* Propagation *)

\* Mutants: a first evaluation to 0 is no change; evaluations are not counted.
ChangedByValue(n, out) == out # val[n]
Uncounted == UNCHANGED evals

Changed(n, out) == out # val[n] \/ ~ini[n]
Counted == evals' = evals + 1

\* One turn of the loop.  A node that changed, or was evaluated for the first
\* time, queues its dependents.
Evaluate ==
  /\ call \notin {"none", "unusable"} /\ queue # <<>> /\ evals < Cap
  /\ LET n == Head(queue)
         out == Output(net, val, lines, held, n)
     IN /\ val' = [val EXCEPT ![n] = out]
        /\ ini' = [ini EXCEPT ![n] = TRUE]
        /\ EnqueueAll(Tail(queue), [pending EXCEPT ![n] = FALSE],
                      IF Changed(n, out) THEN Dependents(net, n) ELSE {})
  /\ Counted
  /\ UNCHANGED <<net, drive, lines, call, dirty, fault, saved, calls>>

\* `eval` throws: its node has left the queue, and the call ends as at the cap.
EvalThrows ==
  /\ call \notin {"none", "unusable"} /\ queue # <<>> /\ evals < Cap
  /\ queue' = Tail(queue) /\ pending' = [pending EXCEPT ![Head(queue)] = FALSE]
  /\ Counted
  /\ call' = IF call = "initialize" THEN "unusable" ELSE "none"
  /\ fault' = "failed"
  /\ UNCHANGED <<net, drive, ports, dirty, saved, calls>>

\* The cap is hit: the call throws, or answers with an error, and the queue is
\* left as it is.  An engine that throws as it is built is not used.
GiveUp ==
  /\ call \notin {"none", "unusable"} /\ queue # <<>> /\ evals = Cap
  /\ call' = IF call = "initialize" THEN "unusable" ELSE "none"
  /\ fault' = "failed"
  /\ UNCHANGED <<net, drive, ports, wave, dirty, saved, calls>>

\* Every call but the first half of a tick ends with the queue empty.
Finish ==
  /\ call \in {"initialize", "reset", "runCombinational", "tick: settle"} /\ queue = <<>>
  /\ call' = "none" /\ dirty' = FALSE
  /\ fault' = IF fault = "none" THEN "none" ELSE "recovered"
  /\ UNCHANGED <<net, drive, ports, wave, saved, calls>>

\* The clock edge: next states from the settled values, all committed at once,
\* then a second propagation from the nodes with state.
Commit ==
  /\ call = "tick" /\ queue = <<>>
  /\ held' = AfterEdge(net, val, inputs, held)
  /\ edges' = edges + 1
  /\ UNCHANGED inputs
  /\ Propagate(StateSeeds(net))
  /\ call' = "tick: settle"
  /\ UNCHANGED <<net, val, ini, dirty, fault, saved, calls>>

\* `onTick` throws: no register is committed and no edge is counted.
TickThrows ==
  /\ call = "tick" /\ queue = <<>> /\ StateSeeds(net) # {}
  /\ call' = "none"
  /\ UNCHANGED <<net, drive, ports, wave, dirty, fault, saved, calls>>

-----------------------------------------------------------------------------
(* Calls *)

Call == call = "none" /\ calls < MaxCalls /\ calls' = calls + 1

SetInput(i, w) ==
  /\ Call
  /\ inputs' = [inputs EXCEPT ![i] = w] /\ dirty' = TRUE
  /\ UNCHANGED <<net, held, edges, ports, wave, call, fault, saved>>

\* `setNode` on a node with state, or on a Switch or Input.
SetNode(n, w) ==
  /\ Call /\ (Stateful(net, n) \/ net.type[n] \in SourceTypes)
  /\ held' = [held EXCEPT ![n] = w] /\ dirty' = TRUE
  /\ UNCHANGED <<net, inputs, edges, ports, wave, call, fault, saved>>

Tick ==
  /\ Call /\ call' = "tick" /\ UNCHANGED drive
  /\ Propagate(Seeds(net)) /\ dirty' = TRUE
  /\ UNCHANGED <<net, val, ini, fault, saved>>

\* It answers from the cache of port values, the Simulation module's matter,
\* when nothing was written.
RunCombinational ==
  /\ Call /\ dirty /\ call' = "runCombinational" /\ UNCHANGED drive
  /\ Propagate(Seeds(net)) /\ dirty' = TRUE
  /\ UNCHANGED <<net, val, ini, fault, saved>>

\* `reset`: fresh state and values, and what propagates from them.
Reset ==
  /\ Call /\ call' = "reset"
  /\ held' = Started(net, held) /\ edges' = 0 /\ UNCHANGED inputs
  /\ val' = [n \in Nodes |-> Zero] /\ ini' = [n \in Nodes |-> FALSE]
  /\ Propagate(Seeds(net)) /\ dirty' = TRUE
  /\ fault' = "none"
  /\ UNCHANGED <<net, saved>>

\* `snapshot` takes values as they are; a node not evaluated counts as 0.
Snapshot ==
  /\ Call
  /\ saved' = [inputs |-> inputs, held |-> held, edges |-> edges, lines |-> lines,
               val |-> val, fault |-> fault]
  /\ UNCHANGED <<net, drive, ports, wave, call, dirty, fault>>

\* `restore` puts drive and values back and propagates nothing; every port it
\* restores counts as evaluated.
Restore ==
  /\ Call /\ saved # Open
  /\ inputs' = saved.inputs /\ held' = saved.held /\ edges' = saved.edges
  /\ lines' = saved.lines /\ val' = saved.val /\ ini' = [n \in Nodes |-> TRUE]
  /\ dirty' = TRUE
  /\ fault' = saved.fault
  /\ UNCHANGED <<net, wave, call, saved>>

Next ==
  \/ Evaluate \/ EvalThrows \/ GiveUp \/ Finish \/ Commit \/ TickThrows
  \/ \E i \in Inputs, w \in Words : SetInput(i, w)
  \/ \E n \in Nodes, w \in Words : SetNode(n, w)
  \/ Tick \/ RunCombinational \/ Reset \/ Snapshot \/ Restore

Spec == Init /\ [][Next]_vars

\* A call is a loop of the one thread there is.
FairSpec == Spec /\ WF_vars(Evaluate \/ EvalThrows \/ GiveUp \/ Finish \/ Commit \/ TickThrows)

-----------------------------------------------------------------------------
(* Properties *)

Propagating == {"initialize", "reset", "runCombinational", "tick", "tick: settle"}

\* The variables have their types.
TypeOK ==
  /\ net \in Circuits
  /\ inputs \in [Inputs -> Words] /\ lines \in [Inputs -> Words]
  /\ held \in [Nodes -> Words] /\ edges \in Nat
  /\ val \in [Nodes -> Words] /\ ini \in [Nodes -> BOOLEAN]
  /\ queue \in Seq(Nodes) /\ pending \in [Nodes -> BOOLEAN] /\ evals \in Nat
  /\ call \in Propagating \cup {"none", "unusable"}
  /\ dirty \in BOOLEAN /\ fault \in {"none", "failed", "recovered"}
  /\ saved \in Snapshots \cup {Open} /\ calls \in Nat

\* The pending flags say just what is queued, and nothing is queued twice: a
\* flag that outlived its entry would keep its node from ever being queued
\* again, and a node queued twice could overrun the ring, which has a place
\* for each node (NumericEventQueue.enqueue, dequeue and clear).
QueueIsPending ==
  /\ \A n \in Nodes : pending[n] <=> \E i \in DOMAIN queue : queue[i] = n
  /\ \A i, j \in DOMAIN queue : queue[i] = queue[j] => i = j

InSync(n) == val[n] = Output(net, val, lines, held, n)

\* While a propagation runs, a node it need not evaluate again already has the
\* value its inputs give it; between calls, so has every node but those the
\* next call starts from.  This is what makes it enough to evaluate the nodes
\* whose inputs changed (`propagate`, the seeds of initialize, tick and
\* runCombinational), until the loop gives up once.
OnlyPendingAreStale ==
  fault = "none" =>
    \A n \in Reached(net) :
      (ini[n] /\ (IF call \in Propagating THEN ~pending[n] ELSE n \notin Seeds(net))) => InSync(n)

\* Whether a node has state and shows just that, whatever its inputs are.
Registered(c, n) ==
  /\ Stateful(c, n)
  /\ \A a, b \in Args, h \in Words : Eval(c.type[n], a, h) = Eval(c.type[n], b, h)
Acyclic(c) ==
  \E rank \in [Nodes -> 1..Cardinality(Nodes)] :
    \A n \in Nodes : Registered(c, n) \/ \A m \in Reads(c, n) \cap Nodes : rank[m] < rank[n]

\* Without a loop but through its registers, a circuit of n nodes takes no call of
\* `propagate` more than n(n+3)/2 evaluations, in whatever order its nodes were
\* written: up to 139 nodes the cap of the code, 10 000, cuts none of them off.
\* Beyond that it is a limit of depth: a row of 141 gates that all read one input,
\* too, takes 10 011 when written from its output on (propagate.ts:23).
WaveIsBounded ==
  LET n == Cardinality(Nodes)
  IN Acyclic(net) => evals <= (n * (n + 3)) \div 2

\* The values that solve a circuit for its inputs l and held state h.
Solutions(c, l, h) ==
  {v \in [Nodes -> Words] : \A n \in Reached(c) : v[n] = Output(c, v, l, h, n)}

\* The engine implements the circuit it was given: after every call that ends
\* well the values solve its equations, and each tick commits the next state
\* of every register from one such solution, until a propagation gives up.
Circuit == INSTANCE SynchronousCircuit WITH
  Unsettled <- Open,
  failed <- fault # "none",
  shown <- IF call = "none" /\ ~dirty /\ fault = "none" THEN val ELSE Open,
  saved <- IF saved = Open THEN Open
           ELSE <<saved.inputs, saved.held, saved.edges, saved.fault # "none">>
ImplementsCircuit == Circuit!Spec

\* Every call ends, by the cap of `propagate` if not before.
CallsEnd == (call \in Propagating) ~> (call \in {"none", "unusable"})

=============================================================================
