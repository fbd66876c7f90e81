----------------------------- MODULE Simulation -----------------------------
(***************************************************************************)
(* One running circuit: EngineSimulation (packages/core/src/simulator/     *)
(* simulation.ts) over DefaultSimulatorEngine (engine.ts), with its lazy   *)
(* settling, its cache of port values and its history.                     *)
(*                                                                         *)
(* The circuit has an input port, a Switch, a register and a memory, and   *)
(* logic that settles.  Settled port values are a function of what drives  *)
(* the logic, so "the values the ports have" is represented by the drive   *)
(* they were last settled from, and values are stale when that is not the  *)
(* present drive.  What a clock edge makes of a drive is a parameter, and  *)
(* so is whether an onTick throws there.                                   *)
(*                                                                         *)
(* Every call is synchronous.  `advance` is the one that loops, so it is   *)
(* several actions: no other is enabled between its edges.                 *)
(***************************************************************************)
EXTENDS Integers, Sequences

CONSTANTS
  Words,              \* values of the input, the Switch and the register
  Memories,           \* memory contents
  None,
  Zero,               \* what the input, the Switch and the register start at
  Declared,           \* the contents the circuit declares for its memory
  Programs,           \* the contents a caller may load
  Overlay(_, _),      \* declared contents with loaded ones on top
  NextReg(_),         \* the register after an edge, by the drive before it
  NextMem(_),         \* the memory after an edge
  Throws(_),          \* whether onTick throws on a drive
  HistorySize,        \* the `history` option
  TickCounts,         \* counts a caller ticks by
  MaxCycles,          \* bound: the engine's cycle count
  MaxWrites           \* bound: writes in a behaviour

Drives == [inp : Words, sw : Words, reg : Words, mem : Memories]

ASSUME SimulationAssumption ==
  /\ Zero \in Words /\ None \notin Memories /\ None \notin Drives
  /\ Declared \in Memories /\ Programs \subseteq Memories
  /\ \A p \in Programs : Overlay(Declared, p) \in Memories
  /\ \A d \in Drives : NextReg(d) \in Words /\ NextMem(d) \in Memories /\ Throws(d) \in BOOLEAN
  /\ HistorySize \in Nat /\ TickCounts \subseteq Nat
  /\ MaxCycles \in Nat /\ MaxWrites \in Nat

VARIABLES
  inp,      \* topLevelInputs
  sw,       \* the Switch's `value` argument
  written,  \* whether originalNodeValues has the Switch
  reg,      \* currentState of the register
  mem,      \* currentState of the memory
  flash,    \* options.initialMemory for it, or None
  edges,    \* the engine's cycleCount
  values,   \* numericValues: the drive they were settled from
  cached,   \* cachedPortValues, likewise, or None
  valid,    \* cacheValid
  cycle,    \* the Simulation's cycleCount
  dirty,    \* an input changed since the logic last settled
  entries,  \* history
  index,    \* the history cursor; -1 when there is none
  saved,    \* a snapshot() the caller holds, or None
  call,     \* the advance in progress: edges left, its count, whether it records
  faulted,  \* an advance threw, and neither reset, seek nor restore came since
  writes    \* writes so far

drive  == <<inp, sw, written, reg, mem, flash>>
engine == <<edges, values, cached, valid>>
shell  == <<cycle, dirty, entries, index>>
vars   == <<drive, engine, shell, saved, call, faulted, writes>>

Current == [inp |-> inp, sw |-> sw, reg |-> reg, mem |-> mem]

Recording == HistorySize > 0

\* `snapshot()`: restore puts a Switch not written by then back to its
\* original value.
Entry == [values : Drives, inp : Words, sw : Words, written : BOOLEAN, reg : Words,
          mem : Memories, edges : Nat]
EngineSnapshot ==
  [values |-> values, inp |-> inp, sw |-> sw, written |-> written, reg |-> reg,
   mem |-> mem, edges |-> edges]

\* The circuit settles as the engine is initialized, and `runCombinational`
\* fills the cache.
Init ==
  /\ inp = Zero /\ sw = Zero /\ written = FALSE /\ reg = Zero
  /\ mem = Declared /\ flash = None
  /\ edges = 0 /\ values = Current /\ cached = Current /\ valid = TRUE
  /\ cycle = 0 /\ dirty = FALSE
  /\ entries = IF Recording THEN <<EngineSnapshot>> ELSE <<>>
  /\ index = Len(entries) - 1
  /\ saved = None /\ call = [left |-> 0, count |-> 0, records |-> FALSE] /\ faulted = FALSE
  /\ writes = 0

Idle == call.left = 0

-----------------------------------------------------------------------------
(* Writes *)

\* A mutant: the cache of port values stays valid.
WrittenCacheKept == dirty' = TRUE /\ writes < MaxWrites /\ writes' = writes + 1 /\ UNCHANGED valid

\* Every write leaves the logic to settle later.
Written == dirty' = TRUE /\ valid' = FALSE /\ writes < MaxWrites /\ writes' = writes + 1

SetInput(v) ==
  /\ Idle /\ inp' = v /\ Written
  /\ UNCHANGED <<sw, written, reg, mem, flash, edges, values, cached, cycle, entries, index,
                 saved, call, faulted>>

SetSwitch(v) ==
  /\ Idle /\ sw' = v /\ written' = TRUE /\ Written
  /\ UNCHANGED <<inp, reg, mem, flash, edges, values, cached, cycle, entries, index,
                 saved, call, faulted>>

\* `nodes.set` on a register.
SetRegister(v) ==
  /\ Idle /\ reg' = v /\ Written
  /\ UNCHANGED <<inp, sw, written, mem, flash, edges, values, cached, cycle, entries, index,
                 saved, call, faulted>>

\* `nodes.set` on a memory: it takes the contents, and reset will load them.
SetMemory(p) ==
  /\ Idle /\ mem' = p /\ flash' = p /\ Written
  /\ UNCHANGED <<inp, sw, written, reg, edges, values, cached, cycle, entries, index,
                 saved, call, faulted>>

-----------------------------------------------------------------------------
(* Reads and the clock *)

\* `settle`, which does nothing when not dirty, then `getPortValues`, which
\* fills an invalid cache from the values as they are.  runCombinational goes
\* by the cache as well.
Settled == IF dirty /\ ~valid THEN Current ELSE values
Observed == IF valid THEN cached ELSE Settled

Read ==
  /\ Idle
  /\ values' = Settled /\ cached' = Observed /\ valid' = TRUE /\ dirty' = FALSE
  /\ UNCHANGED <<drive, edges, cycle, entries, index, saved, call, faulted, writes>>

\* `tick(count)`, or the `advance(count)` the sandbox slices a tick into.
Advance(n, records) ==
  /\ Idle /\ n > 0 /\ edges + n <= MaxCycles
  /\ call' = [left |-> n, count |-> n, records |-> records]
  /\ UNCHANGED <<drive, engine, shell, saved, faulted, writes>>

\* A mutant: what was ahead of the cursor stays.
RecordedAtEnd(e) ==
  LET all == Append(entries, e) IN IF Len(all) > HistorySize THEN Tail(all) ELSE all

\* History after `record` of snapshot e: what was ahead of the cursor goes, and
\* the oldest entry when there are too many.
Recorded(e) ==
  LET all == Append(SubSeq(entries, 1, index + 1), e)
  IN IF Len(all) > HistorySize THEN Tail(all) ELSE all

\* `record`
Record(e) ==
  /\ entries' = IF Recording THEN Recorded(e) ELSE entries
  /\ index' = IF Recording THEN Len(entries') - 1 ELSE index

\* `engine.tick`: settle, take every next state, commit them all, settle again.
\* After the last edge the call counts its cycles and may record.
Edge ==
  /\ ~Idle /\ ~Throws(Current)
  /\ reg' = NextReg(Current) /\ mem' = NextMem(Current)
  /\ edges' = edges + 1
  /\ UNCHANGED <<inp, sw, written, flash, saved, faulted, writes>>
  /\ values' = Current' /\ cached' = Current' /\ valid' = TRUE
  /\ call' = [call EXCEPT !.left = @ - 1]
  /\ cycle' = IF call.left = 1 THEN cycle + call.count ELSE cycle
  /\ dirty' = IF call.left = 1 THEN FALSE ELSE dirty
  /\ IF call.left = 1 /\ call.records
     THEN Record(EngineSnapshot')
     ELSE UNCHANGED <<entries, index>>

\* An onTick throws before anything is committed, out of the whole call.
EdgeThrows ==
  /\ ~Idle /\ Throws(Current)
  /\ values' = Current
  /\ call' = [call EXCEPT !.left = 0]
  /\ faulted' = TRUE
  /\ UNCHANGED <<drive, edges, cached, valid, shell, saved, writes>>

\* `record` with no edge before it: after a sliced tick or a stopped auto-run,
\* whose caller has answered the page since the last write, so the logic is
\* settled; or in `tick(0)`, whose advance clears dirty without settling.
RecordNow ==
  /\ Idle /\ (dirty => 0 \in TickCounts)
  /\ dirty' = FALSE
  /\ Record(EngineSnapshot)
  /\ UNCHANGED <<drive, engine, cycle, saved, call, faulted, writes>>

\* `reset`: registers start over, memory at its declared contents with what was
\* loaded on top, inputs and Switches stay.
Reset ==
  /\ Idle
  /\ reg' = Zero
  /\ mem' = IF flash = None THEN Declared ELSE Overlay(Declared, flash)
  /\ edges' = 0 /\ cycle' = 0 /\ dirty' = FALSE /\ valid' = FALSE
  /\ UNCHANGED <<inp, sw, written, flash, cached, saved, call, writes>>
  /\ values' = Current'
  /\ entries' = IF Recording THEN <<EngineSnapshot'>> ELSE <<>>
  /\ index' = Len(entries') - 1
  /\ faulted' = FALSE

-----------------------------------------------------------------------------
(* Time travel *)

\* Mutants: a Switch that was not written yet keeps its value; the engine's
\* cycle count stays.
RestoreWrittenOnly(e) ==
  /\ inp' = e.inp /\ sw' = IF e.written THEN e.sw ELSE sw
  /\ reg' = e.reg /\ mem' = e.mem /\ edges' = e.edges
  /\ UNCHANGED <<written, flash>>
RestoreAllButCount(e) ==
  /\ inp' = e.inp /\ sw' = IF ~written THEN sw ELSE IF e.written THEN e.sw ELSE Zero
  /\ reg' = e.reg /\ mem' = e.mem
  /\ UNCHANGED <<written, flash, edges>>

\* `engine.restore`, but for the port values.
RestoreDrive(e) ==
  /\ inp' = e.inp
  /\ sw' = IF ~written THEN sw ELSE IF e.written THEN e.sw ELSE Zero
  /\ reg' = e.reg /\ mem' = e.mem /\ edges' = e.edges
  /\ UNCHANGED <<written, flash>>

\* `seekTo`, for stepBack, stepForward and seek.
SeekTo(i) ==
  /\ Idle /\ i \in 0 .. Len(entries) - 1
  /\ RestoreDrive(entries[i + 1])
  /\ values' = entries[i + 1].values
  /\ valid' = FALSE /\ dirty' = FALSE
  /\ cycle' = entries[i + 1].edges
  /\ index' = i
  /\ faulted' = FALSE
  /\ UNCHANGED <<cached, entries, saved, call, writes>>

StepBack == index > 0 /\ SeekTo(index - 1)
StepForward == index < Len(entries) - 1 /\ SeekTo(index + 1)
Seek(i) == SeekTo(i)

\* `snapshot` settles first.
Snapshot ==
  /\ Idle
  /\ values' = Settled /\ dirty' = FALSE
  /\ valid' = (valid \/ dirty)
  /\ cached' = IF dirty /\ ~valid THEN Current ELSE cached
  /\ saved' = [EngineSnapshot EXCEPT !.values = Settled]
  /\ UNCHANGED <<drive, edges, cycle, entries, index, call, faulted, writes>>

\* `restore` leaves history and its cursor where they are.
Restore ==
  /\ Idle /\ saved # None
  /\ RestoreDrive(saved)
  /\ values' = Current' /\ cached' = Current' /\ valid' = TRUE /\ dirty' = FALSE
  /\ cycle' = saved.edges
  /\ faulted' = FALSE
  /\ UNCHANGED <<entries, index, saved, call, writes>>

Next ==
  \/ \E v \in Words : SetInput(v) \/ SetSwitch(v) \/ SetRegister(v)
  \/ \E p \in Programs : SetMemory(p)
  \/ \E n \in TickCounts, records \in BOOLEAN : Advance(n, records)
  \/ \E i \in 0 .. Len(entries) - 1 : Seek(i)
  \/ Read \/ Edge \/ EdgeThrows \/ RecordNow \/ Reset
  \/ StepBack \/ StepForward \/ Snapshot \/ Restore

Spec == Init /\ [][Next]_vars

-----------------------------------------------------------------------------
(* Properties *)

\* Every variable has its type.
TypeOK ==
  /\ inp \in Words /\ sw \in Words /\ written \in BOOLEAN /\ reg \in Words
  /\ mem \in Memories /\ flash \in Programs \cup {None}
  /\ edges \in Nat /\ values \in Drives /\ cached \in Drives \cup {None} /\ valid \in BOOLEAN
  /\ cycle \in Nat /\ dirty \in BOOLEAN
  /\ entries \in Seq(Entry) /\ index \in Int
  /\ saved \in Entry \cup {None}
  /\ call \in [left : Nat, count : Nat, records : BOOLEAN]
  /\ faulted \in BOOLEAN /\ writes \in Nat

\* Reads settle first: what a read returns is what the present inputs, Switch,
\* registers and memory settle to, whatever writes, edges, exceptions and time
\* travel came before, and whichever of dirty, cacheValid and the two caches of
\* values are set.
ReadsAreSettled == Idle => Observed = Current

\* History holds settled states, each with its own Switch value: a Switch that
\* was not yet written then had its original value.  So a seek shows what was
\* shown when the entry was made.
EntryOK(e) ==
  /\ e.values = [inp |-> e.inp, sw |-> e.sw, reg |-> e.reg, mem |-> e.mem]
  /\ ~e.written => e.sw = Zero
HistoryIsSettled ==
  /\ \A k \in DOMAIN entries : EntryOK(entries[k])
  /\ saved # None => EntryOK(saved)

\* The cursor is on an entry, and history is never empty nor longer than asked
\* for; with history off there is none.
CursorInHistory ==
  IF Recording
  THEN Len(entries) \in 1 .. HistorySize /\ index \in 0 .. Len(entries) - 1
  ELSE entries = <<>> /\ index = -1

\* The cycle the caller reads is the number of edges the engine counts, except
\* after an advance that threw, and then only until the next reset, seek or
\* restore.
CyclesAgree == Idle /\ ~faulted => cycle = edges

\* Every entry up to the cursor stays, but maybe the oldest, and one is added.
GrowsAtCursor ==
  \E drop \in {0, 1} :
    /\ Len(entries') = index + 2 - drop
    /\ \A k \in 1 .. index + 1 - drop : entries'[k] = entries[k + drop]

\* Time travel loses nothing: a step back or a seek leaves every entry, so the
\* caller can come forward again, and only recording from a past entry drops
\* what was ahead of it.  Nothing but a reset changes an entry that stays.
HistoryOnlyGrowsAtCursor ==
  [][entries' # entries => GrowsAtCursor \/ (Len(entries') = 1 /\ cycle' = 0)]_vars

=============================================================================
