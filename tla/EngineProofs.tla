---------------------------- MODULE EngineProofs ----------------------------
(***************************************************************************)
(* Proofs about Engine, for any circuits, types of node and cap: every     *)
(* invariant its run checks but WaveIsBounded, and that it implements      *)
(* SynchronousCircuit.                                                     *)
(***************************************************************************)
EXTENDS Engine, FiniteSetTheorems, TLAPS

USE EngineAssumption DEF EngineAssumption

\* The input ports have what drives them while a propagation runs.
LinesDriven == call \in Propagating => lines = inputs

UnusableFailed == call = "unusable" => fault = "failed"

\* A propagation leaves out no node it can get to: what it starts from and
\* what depends on an evaluated node is evaluated, or queued.
Spreads ==
  (fault = "none" /\ call \in Propagating) =>
    /\ \A n \in Seeds(net) : ini[n] \/ pending[n]
    /\ \A m \in Nodes : ini[m] => \A d \in Dependents(net, m) : ini[d] \/ pending[d]

\* Between calls all of it is evaluated.
Covered ==
  (fault = "none" /\ call = "none") =>
    /\ \A n \in Seeds(net) : ini[n]
    /\ \A m \in Nodes : ini[m] => \A d \in Dependents(net, m) : ini[d]

\* A snapshot of an engine that never gave up has settled values, but for the
\* nodes the next call starts from.
SavedSound ==
  (saved # Open /\ saved.fault = "none") =>
    \A n \in Reached(net) \ Seeds(net) :
      saved.val[n] = Output(net, saved.val, saved.lines, saved.held, n)

IInv ==
  /\ TypeOK /\ QueueIsPending /\ OnlyPendingAreStale
  /\ LinesDriven /\ UnusableFailed /\ Spreads /\ Covered /\ SavedSound

QueueOf(q, p) ==
  /\ \A n \in Nodes : p[n] <=> \E i \in DOMAIN q : q[i] = n
  /\ \A i, j \in DOMAIN q : q[i] = q[j] => i = j

-----------------------------------------------------------------------------
(* The circuit *)

LEMMA OutputType ==
  ASSUME NEW c \in Circuits, NEW v \in [Nodes -> Words], NEW l \in [Inputs -> Words],
         NEW h \in [Nodes -> Words], NEW n \in Nodes
  PROVE  /\ ArgsOf(c, v, l, n) \in Args
         /\ Output(c, v, l, h, n) \in Words
<1>1. c.type[n] \in Types /\ c.reads[n] \in [Slots -> Sources]
  BY DEF Netlists
<1>2. \A s \in Slots : Value(v, l, c.reads[n][s]) \in Words
  BY <1>1 DEF Value, Sources
<1>3. ArgsOf(c, v, l, n) \in Args
  BY <1>2 DEF ArgsOf, Args
<1>4. QED
  BY <1>1, <1>3 DEF Output

LEMMA AfterEdgeType ==
  ASSUME NEW c \in Circuits, NEW v \in [Nodes -> Words], NEW l \in [Inputs -> Words],
         NEW h \in [Nodes -> Words]
  PROVE  AfterEdge(c, v, l, h) \in [Nodes -> Words]
<1>1. \A n \in Nodes : c.type[n] \in Types /\ c.reads[n] \in [Slots -> Sources]
  BY DEF Netlists
<1>2. \A n \in Nodes, s \in Slots :
        c.reads[n][s] = Open \/ Value(v, l, c.reads[n][s]) \in Words
  BY <1>1 DEF Value, Sources
<1>3. \A n \in Nodes : TickArgs(c, v, l, n) \in EdgeArgs
  BY <1>2 DEF TickArgs, EdgeArgs
<1>4. \A n \in Nodes :
        OnTick(c.type[n], TickArgs(c, v, l, n), h[n]) \in Words \cup {Open}
  BY <1>1, <1>3
<1>5. QED
  BY <1>4 DEF AfterEdge

\* A node that reads nothing that differs, and holds the same, has the same output.
LEMMA OutputSame ==
  ASSUME NEW c \in Circuits, NEW n \in Nodes,
         NEW v, NEW w, NEW l, NEW k, NEW h, NEW g,
         h[n] = g[n],
         \A m \in Nodes : m \in Reads(c, n) => v[m] = w[m],
         Reads(c, n) \cap Inputs = {} \/ l = k
  PROVE  Output(c, v, l, h, n) = Output(c, w, k, g, n)
<1>1. \A s \in Slots : c.reads[n][s] \in Reads(c, n)
  BY DEF Reads
<1>2. \A s \in Slots : Value(v, l, c.reads[n][s]) = Value(w, k, c.reads[n][s])
  BY <1>1 DEF Value
<1>3. ArgsOf(c, v, l, n) = ArgsOf(c, w, k, n)
  BY <1>2 DEF ArgsOf
<1>4. QED
  BY <1>3 DEF Output

\* What has the seeds and is closed under dependents has every node reached.
LEMMA ReachedCovered ==
  ASSUME NEW c \in Circuits, NEW p \in [Nodes -> BOOLEAN],
         \A n \in Seeds(c) : p[n],
         \A m \in Nodes : p[m] => \A d \in Dependents(c, m) : p[d]
  PROVE  \A n \in Reached(c) : p[n]
<1> DEFINE R == {n \in Nodes : p[n]}
<1>1. R \in SUBSET Nodes /\ Seeds(c) \subseteq R
  BY DEF Seeds
<1>2. \A m \in R : Dependents(c, m) \subseteq R
  BY DEF Dependents
<1>3. QED
  BY <1>1, <1>2 DEF Reached

-----------------------------------------------------------------------------
(* The queue *)

LEMMA OrdersAre ==
  ASSUME NEW S \in SUBSET Nodes, NEW o \in Orders(S)
  PROVE  /\ o \in Seq(Nodes) /\ \A i \in DOMAIN o : o[i] \in S
         /\ \A i, j \in DOMAIN o : o[i] = o[j] => i = j
         /\ \A n \in S : \E i \in DOMAIN o : o[i] = n
<1>1. Cardinality(S) \in Nat
  BY FS_Subset, FS_CardinalityType
<1>2. o \in [1..Cardinality(S) -> S]
  BY DEF Orders
<1>3. o \in Seq(Nodes)
  BY <1>1, <1>2
<1>4. QED
  BY <1>2, <1>3 DEF Orders

LEMMA Enqueued ==
  ASSUME NEW ring \in Seq(Nodes), NEW flags \in [Nodes -> BOOLEAN], NEW S \in SUBSET Nodes,
         QueueOf(ring, flags), EnqueueAll(ring, flags, S)
  PROVE  /\ queue' \in Seq(Nodes) /\ pending' \in [Nodes -> BOOLEAN]
         /\ QueueOf(queue', pending')
         /\ \A n \in Nodes : pending'[n] <=> (flags[n] \/ n \in S)
<1> DEFINE new == {n \in S : ~flags[n]}
<1>1. PICK o \in Orders(new) : queue' = ring \o o
  BY DEF EnqueueAll
<1>2. pending' = [n \in Nodes |-> flags[n] \/ n \in new]
  BY DEF EnqueueAll
<1>3. \A n \in Nodes : pending'[n] <=> (flags[n] \/ n \in S)
  BY <1>2
<1>4. /\ o \in Seq(Nodes) /\ \A i \in DOMAIN o : o[i] \in new
      /\ \A i, j \in DOMAIN o : o[i] = o[j] => i = j
      /\ \A n \in new : \E i \in DOMAIN o : o[i] = n
  BY OrdersAre
<1> HIDE DEF new
<1>5. queue' \in Seq(Nodes) /\ DOMAIN queue' = 1..(Len(ring) + Len(o))
  BY <1>1, <1>4
<1>6. \A i \in DOMAIN queue' :
        IF i <= Len(ring) THEN i \in DOMAIN ring /\ queue'[i] = ring[i]
        ELSE i - Len(ring) \in DOMAIN o /\ queue'[i] = o[i - Len(ring)]
  BY <1>1, <1>4, <1>5
<1>7. \A i \in DOMAIN ring : i \in DOMAIN queue' /\ queue'[i] = ring[i]
  BY <1>1, <1>4, <1>5
<1>8. \A i \in DOMAIN o : i + Len(ring) \in DOMAIN queue' /\ queue'[i + Len(ring)] = o[i]
  BY <1>1, <1>4, <1>5
<1>9. \A i \in DOMAIN ring, j \in DOMAIN o : ring[i] # o[j]
  <2> TAKE i \in DOMAIN ring, j \in DOMAIN o
  <2>1. ring[i] \in Nodes /\ flags[ring[i]]
    BY DEF QueueOf
  <2>2. ~flags[o[j]]
    BY <1>4 DEF new
  <2>3. QED
    BY <2>1, <2>2
<1>10. \A n \in Nodes : pending'[n] <=> \E i \in DOMAIN queue' : queue'[i] = n
  <2> TAKE n \in Nodes
  <2>1. ASSUME pending'[n] PROVE \E i \in DOMAIN queue' : queue'[i] = n
    <3>1. CASE flags[n]
      BY <3>1, <1>7 DEF QueueOf
    <3>2. CASE ~flags[n]
      <4>1. n \in new
        BY <3>2, <2>1, <1>3 DEF new
      <4>2. QED
        BY <4>1, <1>4, <1>8
    <3>3. QED
      BY <3>1, <3>2
  <2>2. ASSUME NEW i \in DOMAIN queue', queue'[i] = n PROVE pending'[n]
    <3>1. CASE i <= Len(ring)
      BY <3>1, <2>2, <1>6, <1>3 DEF QueueOf
    <3>2. CASE ~(i <= Len(ring))
      BY <3>2, <2>2, <1>6, <1>4, <1>3 DEF new
    <3>3. QED
      BY <3>1, <3>2
  <2>3. QED
    BY <2>1, <2>2
<1>11. \A i, j \in DOMAIN queue' : queue'[i] = queue'[j] => i = j
  <2> TAKE i, j \in DOMAIN queue'
  <2>0. i \in Int /\ j \in Int /\ Len(ring) \in Nat
    BY <1>5
  <2>1. CASE i <= Len(ring) /\ j <= Len(ring)
    BY <2>1, <1>6 DEF QueueOf
  <2>2. CASE ~(i <= Len(ring)) /\ ~(j <= Len(ring))
    BY <2>0, <2>2, <1>4, <1>6
  <2>3. CASE i <= Len(ring) /\ ~(j <= Len(ring))
    BY <2>3, <1>6, <1>9
  <2>4. CASE ~(i <= Len(ring)) /\ j <= Len(ring)
    BY <2>4, <1>6, <1>9
  <2>5. QED
    BY <2>1, <2>2, <2>3, <2>4
<1>12. QED
  BY <1>2, <1>3, <1>5, <1>10, <1>11 DEF QueueOf

LEMMA Dequeued ==
  ASSUME NEW q \in Seq(Nodes), NEW p \in [Nodes -> BOOLEAN], q # <<>>, QueueOf(q, p)
  PROVE  /\ Head(q) \in Nodes /\ p[Head(q)] /\ Tail(q) \in Seq(Nodes)
         /\ QueueOf(Tail(q), [p EXCEPT ![Head(q)] = FALSE])
<1>1. /\ Head(q) \in Nodes /\ Head(q) = q[1] /\ 1 \in DOMAIN q /\ Tail(q) \in Seq(Nodes)
      /\ Len(q) \in Nat /\ DOMAIN q = 1..Len(q) /\ DOMAIN Tail(q) = 1..(Len(q) - 1)
      /\ \A i \in DOMAIN Tail(q) : i + 1 \in DOMAIN q /\ Tail(q)[i] = q[i + 1]
  OBVIOUS
<1>2. p[Head(q)]
  BY <1>1 DEF QueueOf
<1>3. \A i, j \in DOMAIN Tail(q) : Tail(q)[i] = Tail(q)[j] => i = j
  BY <1>1 DEF QueueOf
<1>4. \A n \in Nodes :
        [p EXCEPT ![Head(q)] = FALSE][n] <=> \E i \in DOMAIN Tail(q) : Tail(q)[i] = n
  <2> TAKE n \in Nodes
  <2>1. CASE n = Head(q)
    BY <2>1, <1>1 DEF QueueOf
  <2>2. CASE n # Head(q)
    <3>1. ASSUME p[n] PROVE \E i \in DOMAIN Tail(q) : Tail(q)[i] = n
      <4>1. PICK i \in DOMAIN q : q[i] = n
        BY <3>1 DEF QueueOf
      <4>2. i # 1 /\ i - 1 \in DOMAIN Tail(q) /\ Tail(q)[i - 1] = n
        BY <4>1, <2>2, <1>1
      <4>3. QED
        BY <4>2
    <3>2. ASSUME NEW i \in DOMAIN Tail(q), Tail(q)[i] = n PROVE p[n]
      BY <3>2, <1>1 DEF QueueOf
    <3>3. QED
      BY <3>1, <3>2, <2>2
  <2>3. QED
    BY <2>1, <2>2
<1>5. QED
  BY <1>1, <1>2, <1>3, <1>4 DEF QueueOf

\* A call of `propagate` begins with its seeds pending and nothing else.
LEMMA Propagated ==
  ASSUME NEW S \in SUBSET Nodes, Propagate(S)
  PROVE  /\ queue' \in Seq(Nodes) /\ pending' \in [Nodes -> BOOLEAN]
         /\ QueueOf(queue', pending')
         /\ \A n \in Nodes : pending'[n] <=> n \in S
         /\ evals' = 0 /\ lines' = inputs'
<1>1. <<>> \in Seq(Nodes) /\ Cleared \in [Nodes -> BOOLEAN] /\ QueueOf(<<>>, Cleared)
  BY DEF Cleared, QueueOf
<1>2. EnqueueAll(<<>>, Cleared, S) /\ evals' = 0 /\ lines' = inputs'
  BY DEF Propagate
<1>3. QED
  BY <1>1, <1>2, Enqueued DEF Cleared

-----------------------------------------------------------------------------
(* The initial states, and propagation *)

LEMMA InitIInv == Init => IInv
<1> SUFFICES ASSUME Init PROVE IInv
  OBVIOUS
<1>1. Seeds(net) \in SUBSET Nodes
  BY DEF Seeds
<1>2. /\ queue \in Orders(Seeds(net)) /\ pending = [n \in Nodes |-> n \in Seeds(net)]
      /\ net \in Circuits /\ inputs = [i \in Inputs |-> Zero] /\ lines = inputs
      /\ held = [n \in Nodes |-> Zero] /\ edges = 0
      /\ val = [n \in Nodes |-> Zero] /\ ini = [n \in Nodes |-> FALSE]
      /\ evals = 0 /\ call = "initialize" /\ dirty = TRUE /\ fault = "none"
      /\ saved = Open /\ calls = 0
  BY DEF Init, Fresh
<1>3. /\ queue \in Seq(Nodes) /\ \A i \in DOMAIN queue : queue[i] \in Seeds(net)
      /\ \A i, j \in DOMAIN queue : queue[i] = queue[j] => i = j
      /\ \A n \in Seeds(net) : \E i \in DOMAIN queue : queue[i] = n
  BY <1>1, <1>2, OrdersAre
<1>4. QueueIsPending
  <2>1. \A n \in Nodes : pending[n] <=> n \in Seeds(net)
    BY <1>2
  <2>2. \A n \in Nodes : n \in Seeds(net) <=> \E i \in DOMAIN queue : queue[i] = n
    BY <1>3
  <2>3. QED
    BY <1>3, <2>1, <2>2 DEF QueueIsPending
<1>5. TypeOK
  BY <1>2, <1>3 DEF TypeOK, Propagating
<1>6. OnlyPendingAreStale /\ Spreads /\ Covered
  BY <1>1, <1>2 DEF OnlyPendingAreStale, Spreads, Covered, Propagating, Reached
<1>7. LinesDriven /\ UnusableFailed /\ SavedSound
  BY <1>2 DEF LinesDriven, UnusableFailed, SavedSound
<1>8. QED
  BY <1>4, <1>5, <1>6, <1>7 DEF IInv

LEMMA SeedsAreNodes ==
  ASSUME NEW c PROVE Seeds(c) \in SUBSET Nodes /\ StateSeeds(c) \in SUBSET Nodes
BY DEF Seeds, StateSeeds

LEMMA EvaluateIInv == IInv /\ Evaluate => IInv'
<1> SUFFICES ASSUME IInv, Evaluate PROVE IInv'
  OBVIOUS
<1> DEFINE n == Head(queue)
           out == Output(net, val, lines, held, n)
           left == [pending EXCEPT ![n] = FALSE]
           woken == IF Changed(n, out) THEN Dependents(net, n) ELSE {}
<1>1. TypeOK /\ QueueOf(queue, pending)
  BY DEF IInv, QueueIsPending, QueueOf
<1>2. /\ call \notin {"none", "unusable"} /\ queue # <<>>
      /\ val' = [val EXCEPT ![n] = out] /\ ini' = [ini EXCEPT ![n] = TRUE]
      /\ EnqueueAll(Tail(queue), left, woken) /\ evals' = evals + 1
      /\ UNCHANGED <<net, inputs, held, edges, lines, call, dirty, fault, saved, calls>>
  BY DEF Evaluate, Counted, drive
<1>3. n \in Nodes /\ pending[n] /\ Tail(queue) \in Seq(Nodes) /\ QueueOf(Tail(queue), left)
  BY <1>1, <1>2, Dequeued DEF TypeOK
<1>4. left \in [Nodes -> BOOLEAN] /\ woken \in SUBSET Nodes
  BY <1>1 DEF TypeOK, Dependents
<1>5. /\ queue' \in Seq(Nodes) /\ pending' \in [Nodes -> BOOLEAN]
      /\ QueueOf(queue', pending')
      /\ \A m \in Nodes : pending'[m] <=> (left[m] \/ m \in woken)
  <2> HIDE DEF left, woken
  <2> QED
    BY <1>2, <1>3, <1>4, Enqueued
<1>6. out \in Words
  BY <1>1, <1>3, OutputType DEF TypeOK
<1> HIDE DEF out
<1>7. TypeOK' /\ QueueIsPending'
  <2> HIDE DEF n, left, woken
  <2>1. QueueIsPending'
    BY <1>5 DEF QueueIsPending, QueueOf
  <2>2. TypeOK'
    <3>1. val' \in [Nodes -> Words] /\ ini' \in [Nodes -> BOOLEAN]
      BY <1>1, <1>2, <1>3, <1>6 DEF TypeOK
    <3>2. evals' \in Nat
      BY <1>1, <1>2 DEF TypeOK
    <3>3. QED
      BY <1>1, <1>2, <1>5, <3>1, <3>2 DEF TypeOK
  <2>3. QED
    BY <2>1, <2>2
<1>8. call \in Propagating /\ call' \in Propagating
  BY <1>1, <1>2 DEF TypeOK
<1>9. ASSUME NEW m \in Nodes, ~pending'[m], m # n
      PROVE  ~pending[m] /\ (n \in Reads(net, m) => out = val[n] /\ ini[n])
  BY <1>9, <1>1, <1>3, <1>5, <1>6 DEF Changed, Dependents, TypeOK
<1>10. ASSUME ~pending'[n]
       PROVE  n \in Reads(net, n) => out = val[n]
  BY <1>10, <1>1, <1>3, <1>5, <1>6 DEF Changed, Dependents, TypeOK
<1>11. OnlyPendingAreStale'
  <2> SUFFICES ASSUME fault = "none", NEW m \in Reached(net), ini'[m], ~pending'[m]
               PROVE  val'[m] = Output(net, val', lines, held, m)
    BY <1>2, <1>8 DEF OnlyPendingAreStale, InSync
  <2>1. m \in Nodes
    BY DEF Reached
  <2>2. \A k \in Nodes : k \in Reads(net, m) => val[k] = val'[k]
    BY <2>1, <1>1, <1>2, <1>3, <1>9, <1>10 DEF TypeOK
  <2>3. Output(net, val, lines, held, m) = Output(net, val', lines, held, m)
    BY <2>1, <2>2, <1>1, OutputSame DEF TypeOK
  <2>4. CASE m = n
    BY <2>4, <2>3, <1>1, <1>2, <1>3 DEF TypeOK, out
  <2>5. CASE m # n
    <3>1. ini[m] /\ ~pending[m] /\ val'[m] = val[m]
      BY <2>1, <2>5, <1>1, <1>2, <1>3, <1>9 DEF TypeOK
    <3>2. val[m] = Output(net, val, lines, held, m)
      BY <3>1, <1>8 DEF IInv, OnlyPendingAreStale, InSync
    <3>3. QED
      BY <3>1, <3>2, <2>3
  <2>6. QED
    BY <2>4, <2>5
<1>12. Spreads'
  <2> SUFFICES ASSUME fault = "none"
               PROVE  /\ \A m \in Seeds(net) : ini'[m] \/ pending'[m]
                      /\ \A m \in Nodes : ini'[m] => \A d \in Dependents(net, m) : ini'[d] \/ pending'[d]
    BY <1>2 DEF Spreads
  <2>1. \A m \in Nodes : ini[m] \/ pending[m] => ini'[m] \/ pending'[m]
    BY <1>1, <1>2, <1>3, <1>5 DEF TypeOK
  <2>2. /\ \A m \in Seeds(net) : ini[m] \/ pending[m]
        /\ \A m \in Nodes : ini[m] => \A d \in Dependents(net, m) : ini[d] \/ pending[d]
    BY <1>8 DEF IInv, Spreads
  <2>3. ASSUME NEW m \in Nodes, ini'[m], NEW d \in Dependents(net, m) PROVE ini'[d] \/ pending'[d]
    <3>0. d \in Nodes
      BY DEF Dependents
    <3>1. CASE ini[m]
      BY <3>0, <3>1, <2>1, <2>2
    <3>2. CASE ~ini[m]
      <4>1. m = n /\ Changed(n, out)
        BY <3>2, <2>3, <1>1, <1>2, <1>3 DEF TypeOK, Changed
      <4>2. QED
        BY <4>1, <3>0, <1>5
    <3>3. QED
      BY <3>1, <3>2
  <2>4. QED
    BY <2>1, <2>2, <2>3, SeedsAreNodes
<1>13. LinesDriven' /\ UnusableFailed' /\ Covered' /\ SavedSound'
  BY <1>2 DEF IInv, LinesDriven, UnusableFailed, Covered, SavedSound
<1>14. QED
  BY <1>7, <1>11, <1>12, <1>13 DEF IInv

\* A node that throws has left the queue, and nothing is promised from then on.
LEMMA EvalThrowsIInv == IInv /\ EvalThrows => IInv'
<1> SUFFICES ASSUME IInv, EvalThrows PROVE IInv'
  OBVIOUS
<1>1. /\ call \notin {"none", "unusable"} /\ queue # <<>>
      /\ queue' = Tail(queue) /\ pending' = [pending EXCEPT ![Head(queue)] = FALSE]
      /\ evals' = evals + 1 /\ call' \in {"none", "unusable"} /\ fault' = "failed"
      /\ UNCHANGED <<net, inputs, held, edges, lines, val, ini, dirty, saved, calls>>
  BY DEF EvalThrows, Counted, drive, ports
<1>2. TypeOK /\ QueueOf(queue, pending)
  BY DEF IInv, QueueIsPending, QueueOf
<1>3. Tail(queue) \in Seq(Nodes) /\ QueueOf(queue', pending')
  BY <1>1, <1>2, Dequeued DEF TypeOK
<1>4. QueueIsPending'
  BY <1>3 DEF QueueIsPending, QueueOf
<1>5. TypeOK'
  <2>1. queue' \in Seq(Nodes) /\ pending' \in [Nodes -> BOOLEAN] /\ evals' \in Nat
    BY <1>1, <1>2, <1>3 DEF TypeOK
  <2>2. QED
    BY <1>1, <1>2, <2>1 DEF TypeOK
<1>6. OnlyPendingAreStale' /\ Spreads' /\ Covered' /\ UnusableFailed'
  BY <1>1 DEF OnlyPendingAreStale, Spreads, Covered, UnusableFailed
<1>7. LinesDriven' /\ SavedSound'
  BY <1>1 DEF IInv, LinesDriven, SavedSound, Propagating
<1>8. QED
  BY <1>4, <1>5, <1>6, <1>7 DEF IInv

LEMMA GiveUpIInv == IInv /\ GiveUp => IInv'
<1> SUFFICES ASSUME IInv, GiveUp PROVE IInv'
  OBVIOUS
<1> USE DEF GiveUp, drive, ports, wave, IInv
<1>1. TypeOK'
  BY DEF TypeOK, Propagating
<1>2. QueueIsPending' /\ SavedSound'
  BY DEF QueueIsPending, SavedSound
<1>3. OnlyPendingAreStale' /\ Spreads' /\ Covered' /\ UnusableFailed' /\ LinesDriven'
  BY DEF OnlyPendingAreStale, Spreads, Covered, UnusableFailed, LinesDriven, Propagating
<1>4. QED
  BY <1>1, <1>2, <1>3

\* Once the queue is empty every node reached is evaluated and has the value
\* its inputs give it.
LEMMA Drained ==
  ASSUME IInv, call \in Propagating, queue = <<>>, fault = "none"
  PROVE  /\ \A n \in Nodes : ~pending[n]
         /\ \A n \in Seeds(net) : ini[n]
         /\ \A m \in Nodes : ini[m] => \A d \in Dependents(net, m) : ini[d]
         /\ \A n \in Reached(net) : ini[n] /\ InSync(n)
         /\ val \in Solutions(net, inputs, held)
<1>1. TypeOK /\ lines = inputs
  BY DEF IInv, LinesDriven
<1>2. \A n \in Nodes : ~pending[n]
  BY DEF IInv, QueueIsPending
<1>3. /\ \A n \in Seeds(net) : ini[n]
      /\ \A m \in Nodes : ini[m] => \A d \in Dependents(net, m) : ini[d]
  BY <1>2, SeedsAreNodes DEF IInv, Spreads, Dependents
<1>4. \A n \in Reached(net) : ini[n]
  BY <1>1, <1>3, ReachedCovered DEF TypeOK
<1>5. \A n \in Reached(net) : InSync(n)
  BY <1>2, <1>4 DEF IInv, OnlyPendingAreStale, Reached
<1>6. val \in Solutions(net, inputs, held)
  BY <1>1, <1>5 DEF Solutions, InSync, TypeOK
<1>7. QED
  BY <1>2, <1>3, <1>4, <1>5, <1>6

\* A call that ends with its queue empty leaves all of it evaluated.
LEMMA EndedIInv ==
  ASSUME IInv, call \in Propagating, queue = <<>>, call' = "none", dirty' \in BOOLEAN,
         fault' \in {"none", "failed", "recovered"}, fault' = "none" => fault = "none",
         UNCHANGED <<net, inputs, held, edges, lines, val, ini, queue, pending, evals, saved,
                     calls>>
  PROVE  IInv'
<1>1. TypeOK'
  BY DEF IInv, TypeOK
<1>2. QueueIsPending' /\ SavedSound'
  BY DEF IInv, QueueIsPending, SavedSound
<1>3. LinesDriven' /\ Spreads' /\ UnusableFailed'
  BY DEF LinesDriven, Spreads, UnusableFailed, Propagating
<1>4. Covered'
  BY Drained DEF Covered
<1>5. OnlyPendingAreStale'
  BY Drained DEF OnlyPendingAreStale, InSync
<1>6. QED
  BY <1>1, <1>2, <1>3, <1>4, <1>5 DEF IInv

LEMMA FinishIInv == IInv /\ Finish => IInv'
BY EndedIInv DEF Finish, Propagating, drive, ports, wave

LEMMA TickThrowsIInv == IInv /\ TickThrows => IInv'
<1> SUFFICES ASSUME IInv, TickThrows PROVE IInv'
  OBVIOUS
<1>1. fault \in {"none", "failed", "recovered"} /\ dirty \in BOOLEAN
  BY DEF IInv, TypeOK
<1>2. QED
  BY <1>1, EndedIInv DEF TickThrows, Propagating, drive, ports, wave

\* The edge changes what nodes with state hold, and starts from those nodes.
LEMMA CommitIInv == IInv /\ Commit => IInv'
<1> SUFFICES ASSUME IInv, Commit PROVE IInv'
  OBVIOUS
<1>1. /\ call = "tick" /\ queue = <<>> /\ call' = "tick: settle"
      /\ held' = AfterEdge(net, val, inputs, held) /\ edges' = edges + 1
      /\ Propagate(StateSeeds(net))
      /\ UNCHANGED <<net, inputs, val, ini, dirty, fault, saved, calls>>
  BY DEF Commit
<1>2. TypeOK /\ lines = inputs
  BY <1>1 DEF IInv, LinesDriven, Propagating
<1>3. /\ queue' \in Seq(Nodes) /\ pending' \in [Nodes -> BOOLEAN]
      /\ QueueOf(queue', pending') /\ evals' = 0 /\ lines' = inputs
      /\ \A n \in Nodes : pending'[n] <=> n \in StateSeeds(net)
  BY <1>1, SeedsAreNodes, Propagated
<1>4. held' \in [Nodes -> Words]
  BY <1>1, <1>2, AfterEdgeType DEF TypeOK
<1>5. TypeOK' /\ QueueIsPending'
  <2>1. QueueIsPending'
    BY <1>3 DEF QueueIsPending, QueueOf
  <2>2. edges' \in Nat /\ call' \in Propagating
    <3>1. edges \in Nat /\ edges' = edges + 1
      BY <1>1, <1>2 DEF TypeOK
    <3>2. edges' \in Nat
      BY <3>1
    <3>3. call' \in Propagating
      BY <1>1 DEF Propagating
    <3>4. QED
      BY <3>2, <3>3
  <2>3. /\ net' \in Circuits /\ inputs' \in [Inputs -> Words] /\ lines' \in [Inputs -> Words]
        /\ val' \in [Nodes -> Words] /\ ini' \in [Nodes -> BOOLEAN] /\ dirty' \in BOOLEAN
        /\ fault' \in {"none", "failed", "recovered"}
        /\ saved' \in Snapshots \cup {Open} /\ calls' \in Nat
    BY <1>1, <1>2, <1>3 DEF TypeOK
  <2>4. QED
    BY <1>3, <1>4, <2>1, <2>2, <2>3 DEF TypeOK
<1>6. OnlyPendingAreStale'
  <2> SUFFICES ASSUME fault = "none", NEW m \in Reached(net), ~pending'[m]
               PROVE  val[m] = Output(net, val, lines', held', m)
    BY <1>1 DEF OnlyPendingAreStale, InSync, Propagating
  <2>0. m \in Nodes /\ ~Stateful(net, m)
    BY <1>3 DEF Reached, StateSeeds
  <2>1. held'[m] = held[m] /\ lines' = lines
    BY <2>0, <1>1, <1>2, <1>3 DEF AfterEdge
  <2>2. val[m] = Output(net, val, lines, held, m)
    BY <1>1, Drained DEF InSync, Propagating
  <2>3. Output(net, val, lines, held, m) = Output(net, val, lines', held', m)
    BY <2>0, <2>1, <1>2, OutputSame DEF TypeOK
  <2>4. QED
    BY <2>2, <2>3
<1>7. Spreads'
  BY <1>1, Drained DEF Spreads, Propagating
<1>8. LinesDriven' /\ UnusableFailed' /\ Covered' /\ SavedSound'
  BY <1>1, <1>3 DEF IInv, LinesDriven, UnusableFailed, Covered, SavedSound
<1>9. QED
  BY <1>5, <1>6, <1>7, <1>8 DEF IInv

-----------------------------------------------------------------------------
(* Calls *)

LEMMA SetInputIInv ==
  ASSUME IInv, NEW i \in Inputs, NEW w \in Words, SetInput(i, w) PROVE IInv'
<1>1. /\ call = "none" /\ calls' = calls + 1 /\ inputs' = [inputs EXCEPT ![i] = w] /\ dirty' = TRUE
      /\ UNCHANGED <<net, held, edges, lines, val, ini, queue, pending, evals, call, fault, saved>>
  BY DEF SetInput, Call, ports, wave
<1>2. TypeOK'
  BY <1>1 DEF IInv, TypeOK
<1>3. QueueIsPending' /\ SavedSound' /\ Covered'
  BY <1>1 DEF IInv, QueueIsPending, SavedSound, Covered
<1>4. OnlyPendingAreStale'
  BY <1>1 DEF IInv, OnlyPendingAreStale, InSync, Propagating
<1>5. LinesDriven' /\ Spreads' /\ UnusableFailed'
  BY <1>1 DEF LinesDriven, Spreads, UnusableFailed, Propagating
<1>6. QED
  BY <1>2, <1>3, <1>4, <1>5 DEF IInv

\* What is written to is a node the next call starts from.
LEMMA SetNodeIInv ==
  ASSUME IInv, NEW n \in Nodes, NEW w \in Words, SetNode(n, w) PROVE IInv'
<1>1. /\ call = "none" /\ calls' = calls + 1 /\ held' = [held EXCEPT ![n] = w] /\ dirty' = TRUE
      /\ n \in Seeds(net)
      /\ UNCHANGED <<net, inputs, edges, lines, val, ini, queue, pending, evals, call, fault, saved>>
  BY DEF SetNode, Call, ports, wave, Seeds
<1>2. TypeOK'
  BY <1>1 DEF IInv, TypeOK
<1>3. QueueIsPending' /\ SavedSound' /\ Covered'
  BY <1>1 DEF IInv, QueueIsPending, SavedSound, Covered
<1>4. OnlyPendingAreStale'
  <2> SUFFICES ASSUME fault = "none", NEW m \in Reached(net), ini[m], m \notin Seeds(net)
               PROVE  val[m] = Output(net, val, lines, held', m)
    BY <1>1 DEF OnlyPendingAreStale, InSync, Propagating
  <2>1. m \in Nodes /\ held[m] = held'[m]
    BY <1>1 DEF Reached, IInv, TypeOK
  <2>2. val[m] = Output(net, val, lines, held, m)
    BY <1>1 DEF IInv, OnlyPendingAreStale, InSync, Propagating
  <2>3. QED
    BY <2>1, <2>2, OutputSame DEF IInv, TypeOK
<1>5. LinesDriven' /\ Spreads' /\ UnusableFailed'
  BY <1>1 DEF LinesDriven, Spreads, UnusableFailed, Propagating
<1>6. QED
  BY <1>2, <1>3, <1>4, <1>5 DEF IInv

\* A propagation from the seeds leaves out only nodes that read no input port,
\* which have their values already.
LEMMA StartedIInv ==
  ASSUME IInv, call = "none", call' \in {"tick", "runCombinational"}, Propagate(Seeds(net)),
         dirty' = TRUE, calls' = calls + 1,
         UNCHANGED <<net, inputs, held, edges, val, ini, fault, saved>>
  PROVE  IInv'
<1>1. /\ queue' \in Seq(Nodes) /\ pending' \in [Nodes -> BOOLEAN]
      /\ QueueOf(queue', pending') /\ evals' = 0 /\ lines' = inputs
      /\ \A n \in Nodes : pending'[n] <=> n \in Seeds(net)
  BY SeedsAreNodes, Propagated
<1>2. TypeOK
  BY DEF IInv
<1>3. TypeOK' /\ QueueIsPending'
  <2>1. QueueIsPending'
    BY <1>1 DEF QueueIsPending, QueueOf
  <2>2. call' \in Propagating
    BY DEF Propagating
  <2>3. QED
    BY <1>1, <1>2, <2>1, <2>2 DEF TypeOK
<1>4. OnlyPendingAreStale'
  <2> SUFFICES ASSUME fault = "none", NEW m \in Reached(net), ini[m], ~pending'[m]
               PROVE  val[m] = Output(net, val, lines', held, m)
    BY DEF OnlyPendingAreStale, InSync, Propagating
  <2>1. m \in Nodes /\ m \notin Seeds(net) /\ Reads(net, m) \cap Inputs = {}
    BY <1>1 DEF Reached, Seeds
  <2>2. val[m] = Output(net, val, lines, held, m)
    BY <2>1 DEF IInv, OnlyPendingAreStale, InSync, Propagating
  <2>3. QED
    BY <2>1, <2>2, <1>2, OutputSame DEF TypeOK
<1>5. Spreads'
  BY <1>1, SeedsAreNodes DEF IInv, Covered, Spreads, Propagating
<1>6. LinesDriven' /\ UnusableFailed' /\ Covered' /\ SavedSound'
  BY <1>1 DEF IInv, LinesDriven, UnusableFailed, Covered, SavedSound
<1>7. QED
  BY <1>3, <1>4, <1>5, <1>6 DEF IInv

LEMMA ResetIInv == IInv /\ Reset => IInv'
<1> SUFFICES ASSUME IInv, Reset PROVE IInv'
  OBVIOUS
<1>1. /\ call' = "reset" /\ calls' = calls + 1
      /\ held' = Started(net, held) /\ edges' = 0 /\ Propagate(Seeds(net))
      /\ val' = [n \in Nodes |-> Zero] /\ ini' = [n \in Nodes |-> FALSE]
      /\ dirty' = TRUE /\ fault' = "none" /\ UNCHANGED <<net, inputs, saved>>
  BY DEF Reset, Call
<1>2. /\ queue' \in Seq(Nodes) /\ pending' \in [Nodes -> BOOLEAN]
      /\ QueueOf(queue', pending') /\ evals' = 0 /\ lines' = inputs
      /\ \A n \in Nodes : pending'[n] <=> n \in Seeds(net)
  BY <1>1, SeedsAreNodes, Propagated
<1>3. TypeOK' /\ QueueIsPending'
  <2>1. QueueIsPending'
    BY <1>2 DEF QueueIsPending, QueueOf
  <2>2. held' \in [Nodes -> Words] /\ call' \in Propagating
    BY <1>1 DEF IInv, TypeOK, Started, Propagating
  <2>3. QED
    BY <1>1, <1>2, <2>1, <2>2 DEF IInv, TypeOK
<1>4. OnlyPendingAreStale' /\ Spreads' /\ Covered'
  BY <1>1, <1>2, SeedsAreNodes DEF OnlyPendingAreStale, Spreads, Covered, Propagating, Reached
<1>5. LinesDriven' /\ UnusableFailed' /\ SavedSound'
  BY <1>1, <1>2 DEF IInv, LinesDriven, UnusableFailed, SavedSound
<1>6. QED
  BY <1>3, <1>4, <1>5 DEF IInv

LEMMA SnapshotIInv == IInv /\ Snapshot => IInv'
<1> SUFFICES ASSUME IInv, Snapshot PROVE IInv'
  OBVIOUS
<1>1. /\ call = "none" /\ calls' = calls + 1
      /\ saved' = [inputs |-> inputs, held |-> held, edges |-> edges, lines |-> lines,
                   val |-> val, fault |-> fault]
      /\ UNCHANGED <<net, inputs, held, edges, lines, val, ini, queue, pending, evals, call, dirty, fault>>
  BY DEF Snapshot, Call, drive, ports, wave
<1>2. TypeOK'
  BY <1>1 DEF IInv, TypeOK, Snapshots
<1>3. QueueIsPending' /\ OnlyPendingAreStale' /\ Covered'
  BY <1>1 DEF IInv, QueueIsPending, OnlyPendingAreStale, InSync, Covered
<1>4. LinesDriven' /\ Spreads' /\ UnusableFailed'
  BY <1>1 DEF LinesDriven, Spreads, UnusableFailed, Propagating
<1>5. SavedSound'
  <2> SUFFICES ASSUME fault = "none", NEW n \in Reached(net), n \notin Seeds(net)
               PROVE  val[n] = Output(net, val, lines, held, n)
    BY <1>1 DEF SavedSound
  <2>1. /\ \A m \in Seeds(net) : ini[m]
        /\ \A m \in Nodes : ini[m] => \A d \in Dependents(net, m) : ini[d]
    BY <1>1 DEF IInv, Covered
  <2>2. ini[n]
    BY <2>1, ReachedCovered DEF IInv, TypeOK
  <2>3. QED
    BY <2>2, <1>1 DEF IInv, OnlyPendingAreStale, InSync, Propagating
<1>6. QED
  BY <1>2, <1>3, <1>4, <1>5 DEF IInv

LEMMA RestoreIInv == IInv /\ Restore => IInv'
<1> SUFFICES ASSUME IInv, Restore PROVE IInv'
  OBVIOUS
<1>1. /\ call = "none" /\ calls' = calls + 1 /\ saved # Open
      /\ inputs' = saved.inputs /\ held' = saved.held /\ edges' = saved.edges
      /\ lines' = saved.lines /\ val' = saved.val /\ ini' = [n \in Nodes |-> TRUE]
      /\ dirty' = TRUE /\ fault' = saved.fault
      /\ UNCHANGED <<net, queue, pending, evals, call, saved>>
  BY DEF Restore, Call, wave
<1>2. saved \in Snapshots
  BY <1>1 DEF IInv, TypeOK
<1>3. TypeOK'
  BY <1>1, <1>2 DEF IInv, TypeOK, Snapshots
<1>4. QueueIsPending' /\ SavedSound' /\ Covered'
  BY <1>1, SeedsAreNodes DEF IInv, QueueIsPending, SavedSound, Covered, Dependents
<1>5. OnlyPendingAreStale'
  BY <1>1 DEF IInv, SavedSound, OnlyPendingAreStale, InSync, Propagating
<1>6. LinesDriven' /\ Spreads' /\ UnusableFailed'
  BY <1>1 DEF LinesDriven, Spreads, UnusableFailed, Propagating
<1>7. QED
  BY <1>3, <1>4, <1>5, <1>6 DEF IInv

LEMMA NextIInv == IInv /\ [Next]_vars => IInv'
<1> SUFFICES ASSUME IInv, [Next]_vars PROVE IInv'
  OBVIOUS
<1>1. CASE Evaluate
  BY <1>1, EvaluateIInv
<1>2. CASE GiveUp
  BY <1>2, GiveUpIInv
<1>3. CASE Finish
  BY <1>3, FinishIInv
<1>4. CASE Commit
  BY <1>4, CommitIInv
<1>5. ASSUME NEW i \in Inputs, NEW w \in Words, SetInput(i, w) PROVE IInv'
  BY <1>5, SetInputIInv
<1>6. ASSUME NEW n \in Nodes, NEW w \in Words, SetNode(n, w) PROVE IInv'
  BY <1>6, SetNodeIInv
<1>7. CASE Tick \/ RunCombinational
  BY <1>7, StartedIInv DEF Tick, RunCombinational, Call, drive
<1>8. CASE Reset
  BY <1>8, ResetIInv
<1>9. CASE Snapshot
  BY <1>9, SnapshotIInv
<1>10. CASE Restore
  BY <1>10, RestoreIInv
<1>11. CASE UNCHANGED vars
  BY <1>11 DEF vars, drive, ports, wave, IInv, TypeOK, QueueIsPending, OnlyPendingAreStale,
            InSync, LinesDriven, UnusableFailed, Spreads, Covered, SavedSound
<1>12. CASE EvalThrows
  BY <1>12, EvalThrowsIInv
<1>13. CASE TickThrows
  BY <1>13, TickThrowsIInv
<1>14. QED
  BY <1>1, <1>2, <1>3, <1>4, <1>5, <1>6, <1>7, <1>8, <1>9, <1>10, <1>11, <1>12, <1>13
     DEF Next

LEMMA Invariance == Spec => []IInv
BY InitIInv, NextIInv, PTL DEF Spec

\* The variables have their types.
THEOREM TypeCorrect == Spec => []TypeOK
BY Invariance, PTL DEF IInv

\* The flags of the event queue say just what is in its ring, and nothing is in
\* it twice (NumericEventQueue).
THEOREM QueueConsistent == Spec => []QueueIsPending
BY Invariance, PTL DEF IInv

\* A propagation that evaluates only what changed inputs reach leaves nothing
\* stale, for any circuit and any order of its nodes (propagate).
THEOREM NothingStaleLeftOut == Spec => []OnlyPendingAreStale
BY Invariance, PTL DEF IInv

-----------------------------------------------------------------------------
(* The engine implements SynchronousCircuit *)

Shown == IF call = "none" /\ ~dirty /\ fault = "none" THEN val ELSE Open
Drive == <<inputs, held, edges, fault # "none">>
Saved == IF saved = Open THEN Open
         ELSE <<saved.inputs, saved.held, saved.edges, saved.fault # "none">>

LEMMA InitRefines == Init => Circuit!Init
BY DEF Init, Fresh, Circuit!Init

LEMMA EvaluateRefines == Evaluate => UNCHANGED Circuit!vars
BY DEF Evaluate, drive, Circuit!vars, Circuit!drive

LEMMA GiveUpRefines == GiveUp \/ EvalThrows => Circuit!Fail
BY DEF GiveUp, EvalThrows, drive, ports, Circuit!Fail

\* Only a propagation of an engine that never gave up is known to settle.
LEMMA FinishRefines == IInv /\ Finish => Circuit!Settle \/ UNCHANGED Circuit!vars
<1> SUFFICES ASSUME IInv, Finish PROVE Circuit!Settle \/ UNCHANGED Circuit!vars
  OBVIOUS
<1>1. /\ call \in Propagating /\ queue = <<>> /\ call' = "none" /\ dirty' = FALSE
      /\ fault' = IF fault = "none" THEN "none" ELSE "recovered"
      /\ call # "none" /\ UNCHANGED <<net, inputs, held, edges, val, saved>>
  BY DEF Finish, Propagating, drive, ports
<1>2. CASE fault = "none"
  <2>1. val \in Solutions(net, inputs, held)
    BY <1>1, <1>2, Drained
  <2>2. QED
    BY <1>1, <1>2, <2>1 DEF Circuit!Settle, Circuit!drive
<1>3. CASE fault # "none"
  BY <1>1, <1>3 DEF Circuit!vars, Circuit!drive
<1>4. QED
  BY <1>2, <1>3

\* An edge that is not made leaves what the first propagation of the tick did.
LEMMA TickThrowsRefines == IInv /\ TickThrows => Circuit!Settle \/ UNCHANGED Circuit!vars
<1> SUFFICES ASSUME IInv, TickThrows PROVE Circuit!Settle \/ UNCHANGED Circuit!vars
  OBVIOUS
<1>1. /\ call = "tick" /\ call \in Propagating /\ queue = <<>> /\ call' = "none"
      /\ UNCHANGED <<net, inputs, held, edges, val, dirty, fault, saved>>
  BY DEF TickThrows, Propagating, drive, ports
<1>2. CASE fault = "none" /\ ~dirty
  <2>1. val \in Solutions(net, inputs, held)
    BY <1>1, <1>2, Drained
  <2>2. QED
    BY <1>1, <1>2, <2>1 DEF Circuit!Settle, Circuit!drive
<1>3. CASE ~(fault = "none" /\ ~dirty)
  BY <1>1, <1>3 DEF Circuit!vars, Circuit!drive
<1>4. QED
  BY <1>2, <1>3

LEMMA CommitRefines == IInv /\ Commit => Circuit!Edge
<1> SUFFICES ASSUME IInv, Commit PROVE Circuit!Edge
  OBVIOUS
<1>1. /\ call = "tick" /\ call \in Propagating /\ queue = <<>> /\ call' = "tick: settle"
      /\ held' = AfterEdge(net, val, inputs, held) /\ edges' = edges + 1
      /\ UNCHANGED <<net, inputs, fault, saved>>
  BY DEF Commit, Propagating
<1>2. lines = inputs /\ val \in [Nodes -> Words]
  BY <1>1 DEF IInv, LinesDriven, TypeOK
<1>3. fault = "none" => val \in Solutions(net, inputs, held)
  BY <1>1, Drained
<1>4. QED
  BY <1>1, <1>2, <1>3 DEF Circuit!Edge

LEMMA CallsRefine ==
  ASSUME IInv
  PROVE  /\ \A i \in Inputs, w \in Words : SetInput(i, w) => Circuit!SetInput(i, w)
         /\ \A n \in Nodes, w \in Words : SetNode(n, w) => Circuit!SetNode(n, w)
         /\ Tick \/ RunCombinational => Circuit!Busy
         /\ Reset => Circuit!Reset
         /\ Snapshot => Circuit!Snapshot
         /\ Restore => Circuit!Restore
<1>1. ASSUME NEW i \in Inputs, NEW w \in Words, SetInput(i, w) PROVE Circuit!SetInput(i, w)
  BY <1>1 DEF SetInput, Circuit!SetInput
<1>2. ASSUME NEW n \in Nodes, NEW w \in Words, SetNode(n, w) PROVE Circuit!SetNode(n, w)
  BY <1>2 DEF SetNode, Circuit!SetNode
<1>3. Tick \/ RunCombinational => Circuit!Busy
  BY DEF Tick, RunCombinational, drive, Circuit!Busy, Circuit!drive
<1>4. Reset => Circuit!Reset
  BY DEF Reset, Circuit!Reset
<1>5. Snapshot => Circuit!Snapshot
  <2> SUFFICES ASSUME Snapshot PROVE Circuit!Snapshot
    OBVIOUS
  <2>1. /\ saved' = [inputs |-> inputs, held |-> held, edges |-> edges, lines |-> lines,
                     val |-> val, fault |-> fault]
        /\ UNCHANGED <<net, inputs, held, edges, val, call, dirty, fault>>
    BY DEF Snapshot, drive, ports
  <2>2. saved' # Open
    BY <2>1 DEF IInv, TypeOK, Snapshots
  <2>3. QED
    BY <2>1, <2>2 DEF Circuit!Snapshot, Circuit!drive
<1>6. Restore => Circuit!Restore
  <2> SUFFICES ASSUME Restore PROVE Circuit!Restore
    OBVIOUS
  <2>1. /\ saved # Open /\ inputs' = saved.inputs /\ held' = saved.held /\ edges' = saved.edges
        /\ dirty' = TRUE /\ fault' = saved.fault /\ UNCHANGED <<net, saved>>
    BY DEF Restore
  <2>2. Saved = <<saved.inputs, saved.held, saved.edges, saved.fault # "none">> /\ Saved \in Drives
    BY <2>1 DEF IInv, TypeOK, Snapshots, Saved, Drives
  <2>3. Saved # Open
    BY <2>2
  <2>4. QED
    BY <2>1, <2>2, <2>3 DEF Saved, Circuit!Restore, Circuit!drive
<1>7. QED
  BY <1>1, <1>2, <1>3, <1>4, <1>5, <1>6

LEMMA NextRefines == IInv /\ [Next]_vars => [Circuit!Next]_Circuit!vars
<1> SUFFICES ASSUME IInv, [Next]_vars PROVE [Circuit!Next]_Circuit!vars
  OBVIOUS
<1>1. CASE Evaluate
  BY <1>1, EvaluateRefines
<1>2. CASE GiveUp \/ EvalThrows
  BY <1>2, GiveUpRefines DEF Circuit!Next
<1>3. CASE Finish
  BY <1>3, FinishRefines DEF Circuit!Next
<1>4. CASE Commit
  BY <1>4, CommitRefines DEF Circuit!Next
<1>5. ASSUME NEW i \in Inputs, NEW w \in Words, SetInput(i, w) PROVE Circuit!Next
  BY <1>5, CallsRefine DEF Circuit!Next
<1>6. ASSUME NEW n \in Nodes, NEW w \in Words, SetNode(n, w) PROVE Circuit!Next
  BY <1>6, CallsRefine DEF Circuit!Next
<1>7. CASE Tick \/ RunCombinational \/ Reset \/ Snapshot \/ Restore
  BY <1>7, CallsRefine DEF Circuit!Next
<1>8. CASE UNCHANGED vars
  BY <1>8 DEF vars, drive, ports, Circuit!vars, Circuit!drive
<1>9. CASE TickThrows
  BY <1>9, TickThrowsRefines DEF Circuit!Next
<1>10. QED
  BY <1>1, <1>2, <1>3, <1>4, <1>5, <1>6, <1>7, <1>8, <1>9 DEF Next

\* The event-driven engine implements the equations of the circuit: what a call
\* leaves solves them, and a tick commits every register from one solution
\* (tick, runCombinational and reset of engine.ts).
THEOREM EngineImplementsCircuit == Spec => ImplementsCircuit
BY Invariance, InitRefines, NextRefines, PTL DEF Spec, ImplementsCircuit, Circuit!Spec
=============================================================================
