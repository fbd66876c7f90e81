# Simten: TLA+ models, checks and proofs

Simten is a TypeScript library and set of apps for building and simulating digital
circuits. Users write circuits as TypeScript; `packages/core` elaborates them into a flat
netlist and simulates it, and holds a standard library that goes up to RISC-V cores; user
code runs in a cross-origin iframe and a web worker in it (`packages/sandbox`,
`apps/sandbox`), which the page talks to by messages; an assistant shows circuits in
browser tabs over sockets (`packages/mcp`).

This directory models the parts that keep state across calls and can get it wrong (the sandbox,
a simulation with its history, the engine's event queue, the React hook that drives a sandbox,
the studio), elaboration, whose correctness is hard to see in the code, and the two processors
of the library, a pipelined one and one that is exact to the bus cycle. Everything is translated
from the code; `PROJECT.json` names, for each definition, the lines it stands for.

## Inventory

| Part | State | Operations | Talks to | What is hard | What makes it correct |
| --- | --- | --- | --- | --- | --- |
| Sandbox client, `sandbox-client.ts` | status, pending calls, queue until ready, live handles | compile, open, release, dispose; ready, restarted, frames, replies | relay, by messages | calls before ready, a client that gives up, restarts between a call and its reply | every call settles; a handle on the page has a session behind it |
| Handle, `simulation-client.ts` | status, run state, owned compile | set, tick, run, pause, ..., close, end | client | a close or a drop crossing a restart | ends once, frees what it owns, shows the real run state |
| Relay, `relay.ts` and `apps/sandbox/src/main.ts` | in-flight requests, running sessions, silence timer, replay table, held requests | send, worker message, silence, restart, replay | page and worker | hangs, replays that hang, late replies | watches exactly when owed; each request is somewhere once; table equals worker |
| Session host, `session-host.ts` | compile promises, sessions, one promise queue per session, auto-run timers | every request of the protocol, step of auto-run | relay; `Simulation` | interleaving of slices, builds, timers and requests; exceptions | one answer per request, in order per session; one chain of steps per run |
| Simulation, `simulation.ts` | cache of port values, dirty flag, history, cursor | set, get, tick, reset, record, step back/forward, seek, snapshot, restore | engine | lazy settling with several flags, exceptions in a tick, time travel | reads are settled; history keeps and shows what was |
| Engine, `engine.ts`, `propagate.ts`, `numeric-event-queue.ts` | port values, register state, cycle count, event ring and its flags | initialize, writes, tick, runCombinational, reset, snapshot, restore | compiled circuit | which nodes to evaluate again, oscillation and its cap, calls after a failed one | values solve the circuit; an edge commits all registers from one solution |
| Elaboration, compile: `elaboration.ts`, `compile-circuit.ts` | none after construction; five passes over a list of wires | flatten, trace, stitch, eliminate feedthroughs, resolve | builder, engine | signals through several composites | each input reads the source of its signal, and is woken by it |
| Standard library, `std/` | that of the circuits | gates, registers, memories; a pipelined RV32I core, a 6502 | simulator | five instructions under way at once; interrupts and reset in any cycle of an instruction | each core does what its instruction set says; the 6502 in the bus cycles of the datasheet |
| Circuit builder and IR | none | build, validate | - | - | only circuits with one driver per sink |
| Verilog export, netlist import, source round trip, verify, trace, VCD | none | pure translation | external tools | formats | round trips |
| React hook `useSimulation.ts`, `SandboxProvider.tsx` | latest compile, generation, held compiles, live session | debounce, compile, open, release, retry | sandbox client | answers of older compiles and cancelled opens; restarts | the session shown is of the newest source; nothing leaks |
| Studio: `ws-server.ts`, `preview-singleton.ts`, `tools/show.ts`, `useMCPConnection.ts`, `EditorWorkspace.tsx` | servers, tab sessions, pending renders, a slot for a tab still opening; per tab a socket, a retry timer, the render awaited | show, close, register, push, answer, time out, reconnect | browser tabs | reconnects, tabs that come and go, pushes during a compile or open | a push goes to a tab that is there; it is answered with what became of it |
| Other MCP tools | none across calls | one tool call each | core, verify | - | - |
| Other React UI, shared | presentation | - | - | - | - |
| Web, game and embed apps; compiler, synthesis and verifier containers | rate limits, one tool run per request | HTTP | external tools | platform limits | - |
| FPGA pipeline, bench, demos, e2e, scripts | none | scripts | external tools | - | - |

## Modules

| Module | Models | Composition |
| --- | --- | --- |
| `SandboxProtocol` | messages of `protocol.ts`, the four channels, ids | |
| `SandboxClient`, `Relay` | page: `sandbox-client.ts`, `simulation-client.ts`; iframe: `relay.ts` | extend `SandboxProtocol` |
| `Worker` | what the relay may expect of a worker (abstract specification) | extends `SandboxProtocol` |
| `Sandbox` | page, iframe and worker; properties and fairness | composes the three |
| `WorkerAlone` | `Worker` with an environment that posts and takes | |
| `SessionHost` | `session-host.ts` | implements `WorkerAlone` by a refinement mapping |
| `Simulation` | `simulation.ts` over an engine whose logic settles | |
| `SynchronousCircuit` | what an engine promises (abstract specification) | |
| `Engine` | `engine.ts`, `propagate.ts`, `numeric-event-queue.ts` | implements `SynchronousCircuit` |
| `Elaboration` | `elaboration.ts`, the sources and dependents of `compile-circuit.ts` | |
| `Isa` | the instruction set, one instruction at a time (abstract specification) | |
| `Rv32i` | ALU, comparator, aligner and memories of `std/rv32i.ts` on words of 4 small bytes | |
| `Pipeline` | `std/rv32i-cpu.ts`, hazard and forwarding units | implements `Isa` |
| `Mos6502` | opcode table, ALU and status logic of `std/mos6502.ts` | |
| `Isa6502` | the 6502, one instruction, interrupt or reset at a time, with its bus cycles (abstract specification) | extends `Mos6502` |
| `Core6502` | decode PLA, buses and timing logic of `std/mos6502.ts`, the blocks of `mos6502-cpu.ts` | extends `Mos6502`, implements `Isa6502` |
| `UseSimulation` | the hook `useSimulation.ts`, over a sandbox reduced to what a hook can tell | |
| `StudioChannel`, `StudioServer`, `StudioTab` | sockets; servers, singleton and `show_circuit`; connection and editor of a tab | |
| `Studio` | tool calls, servers, sockets and tabs; properties | composes the three |
| `MC...` | the instance of each for TLC | |
| `Core6502Invariant` | where `Core6502` is in an instruction on each cycle: the definitions its proofs need | extends `Core6502` |
| `SandboxProofs`, `SessionHostProofs`, `SimulationProofs`, `UseSimulationProofs`, `StudioProofs`, `EngineProofs`, `PipelineProofs`, `Core6502Proofs` | theorems and proofs | |

`Simulation` and `Engine` are two views of the same calls. `Engine` is what becomes of one
circuit's nodes, event by event; `Simulation` takes the logic as settling to a function of
what drives it, which is what `Engine` is shown to guarantee when no call fails, and adds
the cache, the cycle count of the handle and the history on top.

### Sandbox

JavaScript runs one task at a time and, after it, the microtasks it queued. So an
action is a whole task: the message handler, and what the awaiting code does next
when the message resolves its promise. `Replayed`, for one, settles a replay *and*
posts the next one or ends the restart, as `restart` continues in a microtask.

- A request is `[id, type, compile, session]`; a reply `[id, type, session, state]`
  with `state` in `running`, `stopped`, `none`. These are the fields the hops look
  at. Request type `op` stands for set, toggle, tick, step back and forward, seek,
  reset and sample, which are the same to every hop. `pause` stands for pause and
  restart, which both stop the run and answer a stopped state; `restart` rebuilds
  the circuit with user code that already built it once, so the rebuild may hang
  but is taken not to throw: such a failure carries no state, and the relay keeps the
  session among the running (`session-host.ts:470`).
  `compile-ir` is `compile`.
- Terminating a worker empties its port in both directions (HTML, "terminate a
  worker"). That is an assumption about browsers, used by `OnSilence` and
  `ReplayTimeout`.
- The page numbers requests in sending order and every hop keeps that order, so
  the oldest entry of the relay's insertion-ordered map is the smallest id. The
  order of the tables that are replayed is left open, which allows more than the
  code's insertion order.
- The two failure codes of a restart, and texts, are not told apart.
- Ids are made up once. A compile that failed left nothing behind, and its model
  value is used again for the next.
- A client that gave up waiting for `ready` becomes ready when `ready` comes late,
  as in the code.

### Session host

One job of a session's queue, or one slice of it, is an action; a task (message,
timer, finished build) starts only when no job can run, because the jobs are
microtasks. A job's own value computations are left out; how many slices a tick
takes and when a frame is due are left open. `Found` in the refinement mapping
says when an open looks up its compile: in the host when the job starts, in
`Worker` on arrival, which amounts to the same because the first job of a session is
its open and starts in the microtasks of its arrival.

### Simulation

What port values *are* is represented by the drive (inputs, Switch, register,
memory) they were last settled from: values are stale when that is not the present
drive. What an edge makes of a drive, whether `onTick` throws on it, and how
loaded memory overlays declared memory are parameters. `advance` loops over edges;
each edge is an action, so an exception may come at any of them, and no other call
is enabled in between. Left out: circuits that do not settle, purely combinational
circuits, peripherals. Loading memory at open (`options.memory`) is `SetMemory` followed by
`Reset`.

### React hook

The reply to a call is a task, and so is what React does with the state a reply set:
`Render` is one render and the effects after it, and any number of replies may come
between a `setCompiled` and the render that sees it. So the state has `compiled`, the
compile last set, and `shown`, the compile the last render had; the other variables
are the hook's refs and state by name (`generation`, `held`, `live`, `compileError`,
`openError`), its calls under way (`calls`, `opening`) and whether the debounce timer
is set.

- Sources and options are numbered as they come, so *newer* can be stated. Sources in
  `BuiltSources` are circuits built on the page, which compile at once; the others are
  text, which waits for the debounce.
- `opening` holds the opens sent, each with the flag its effect's cleanup sets
  (`cancelled`) and whether the sandbox still had its compile when it was sent
  (`found`). Requests keep their order, so the answer is settled on sending.
- Of the sandbox there are the generations whose compiles it has (`present`) and the
  sessions this hook opened in it (`sessions`). Any call may fail. A restart loses the
  compiles whose replay fails or hangs, and sessions, those of a lost compile for certain
  (`Restarted`, after `replayCompiles` and `replaySessions` of `relay.ts`); an open sent
  meanwhile finds the compiles that are left. The hook goes on holding what was lost.
- Left out: a change of client, `pendingRun`, the actions on the open session, an
  empty source, and `recompile` called after unmounting.

### Engine

A node has a type, the sources its inputs are wired to and, if it has state, a value it
holds; `Eval` and `OnTick` say what a type computes. `queue` is the ring, `pending` its
flags, `val` and `ini` the values and initialized flags of the numeric arrays, `lines` the
values of the top-level input ports, `held` the sequential state, and `evals` the count
against the cap. A call that propagates is one step that clears and seeds the queue and
then an `Evaluate` per turn of the loop, so that an order of events can be told apart; no
other call is enabled until it has ended by `Finish`, `Commit` (the edge) or `GiveUp`.

- The order in which nodes are queued depends on how a circuit was written: any order may
  happen (`Orders`).
- Any evaluation may throw, which ends the call as the cap does with the node already out of
  the queue (`EvalThrows`), and so may any edge, before a register is committed
  (`TickThrows`). `onTick` gets the input ports as they are driven and nothing for an open
  input, unlike `eval`, and may leave a register without a next state (`TickArgs`,
  `AfterEdge`).
- `fault` says whether a propagation gave up ("failed"), or one did and a later one ended
  ("recovered"). The caller of `tick` gets an exception, that of `runCombinational` an
  error in its result, which `Simulation.settle` does not look at.
- `Reached` are the nodes a propagation can get to. A node none of whose inputs leads to a
  source, a register or an input port is never evaluated and reads as 0, whatever its
  logic gives for open inputs: `Solutions` says so, because the code does so.

### Pipeline

All registers change on the clock, so there is one action, `Clock`, from the combinational
logic (`wb`, `Forwarded`, `Stall`, `Flush`, ...). Instructions are records of what
`RV32I_Decode`, `RV32I_ImmGen` and the ALU decoding of `RV32I_Control` make of a word: the
bits are left out. But every instruction has `rs1`, `rs2` and `rd`, as the hazard and
forwarding units see whatever bits are in those places. `live` is auxiliary: whether a bank
holds an instruction fetched, or a bubble. The state a program sees is put together from
the banks (`ArchPc`, `ArchRegs`, `NextMem`): an instruction has taken effect when it has
left EX.

`addr & ~3` is negative in JavaScript from 2^31 on, so loads from the upper half of the
address space read 0 whatever was stored there. `Rv32i` has this: `Isa` is instantiated
with the same memory, so what is shown is about pipelining and not about that memory.

### 6502

One clock edge is one bus cycle and one step, `Tick`. `timing`, `instr`, `pc`, `ab`,
`latch`, `regs` and `p` are the registers of the blocks of `mos6502-cpu.ts`. The decode PLA
is `Control`: a record of control lines, given per T state as what differs from the idle
cycle (`Steps`), which the buses (`SB`, `DB`, `ADL`, `ADH`, `DOR`) and `TimingLogic` then
follow. Control lines are records and not packed bits, and the instruction register holds
its opcode decoded; all 256 opcodes are decoded, undocumented ones as the NOPs the code
makes of them; registers are bytes, with decimal mode as in the code. Memory and pins are
the environment: `irq`, `nmi` and `reset` may each be high or low in any cycle, at most
`PinCycles` of which have one high.

`bus`, `outcome` and `owed` are history: the bus cycles since the last opcode fetch, what the
core held when that fetch began, and an NMI not yet served. The mapping shows `Isa6502` what was
there at the last opcode fetch, so an instruction happens when the next one is fetched. `Isa6502`
has no T states or latches: it gives the bus cycles of each addressing mode as addresses, among
them the dummy reads and the double write, says in which interrupt may be `due` after what
(`Polled`), and what is on the bus when reset cuts an instruction short. Opcodes, ALU and status
logic are one module for both, so the refinement is about sequencing, timing, addresses and
interrupts; that module, too, is translated from the code, and with it `Core6502` makes every bus
cycle and final state of the 1232 cases of the repository's
`std/__tests__/mos6502/harte-sample.json`, checked once outside this directory.

### Elaboration

`Component`, `Circuit`, `Under` and `In` read the hierarchy as `flattenCircuit` walks it,
an instance being the path that leads to it. There is an action per pass, and the passes are
folds and searches over the list of wires in the code's order (`Endpoints` breadth first,
`Reached` depth first). `Signals` is the reference: what one finds by following the wires
of the hierarchy back from a port, without composites and passes.

Designs that the code is known not to handle are told apart by two constants: `Loops` lets
a composite be wired from an output straight to its own input (finding 2), `Feeds` lets a
composite pass on what a nested one feeds through from an input with other uses, which is
issue 146 of `known-issues.mdx`. Issues 143 and 147 of the same page concern types and
composites without nodes, which no design has. Left out: port types and widths, arguments,
clocks, the hierarchy kept for display, the errors of recursive or unknown definitions, and
`topologicalSortFlat`.

### Studio

A tool call is a task up to its first `await`; creating a server takes a while
(`ShowFirst`, `Created`), and so does a render. A socket has two ends that learn of its end
one at a time, in either order; what is under way when it breaks is lost, and what was sent
before a close arrives first. The `pending` set and the `slot` of a server are the keys of
`pendingRequests` and `pendingConnectRender`; a push is a source with a start (the inputs
and memory it brings), and the id of a render request is the call that awaits it.

React's render and effects belong to the step that causes them. Of the hook below the
editor there is what the editor sees of it: the newest source's compile succeeds or fails, a
compile and a new start are each opened in place of the open before, and a new source
leaves an open under way alone. Left out: a session named by the caller, edits by the user,
tokens and origins, focus messages, remounts of the page and the files served.

## Runs

| Run | Question | Result | Distinct states, bounds |
| --- | --- | --- | --- |
| `sandbox` | Do page, relay and worker agree, whatever hangs and however restarts, closes, releases and disposal cross? | holds | 380 000; 2 sessions, 2 compiles (one owned by an open), 4 calls |
| `sandbox_live` | Does every call settle and every restart end? | holds | 44 000; 2 sessions, 4 calls |
| `session_host` | Does the host implement the worker of the `sandbox` run? Is auto-run one chain of steps? Is every request answered, short of hangs and thrown steps? | holds | 94 000; 1 session, 5 requests of every kind, 2 slices |
| `simulation` | Are reads settled and is history right? | holds | 633 000; history of 2, 2 cycles, 2 writes |
| `engine` | Do events and flags find what must be evaluated, whatever throws? Does the engine implement a synchronous circuit? | holds | 152 000; 9 circuits of 3 nodes, 4 calls, a cap of 12 |
| `elaboration` | Does each pass keep the nets, and does each input read its signal? | holds | 147 000; 21 052 designs of three levels |
| `feedback_lost` | ... also with a composite wired back to itself? | **violated** | as above |
| `pipeline` | Does the pipeline execute programs as the instruction set says? | holds | 679 000; every one of 50 625 programs of 4 instructions |
| `core6502` | Do the cycles of the 6502 add up to instructions, interrupts and resets with their bus cycles? Is no NMI lost? | holds | 68 000; 7 programs over every addressing mode and kind of instruction, 1 or 2 cycles with a pin high |
| `use_simulation` | Does the hook end up showing the newest source, and leave nothing behind? | holds | 2 867 000; 3 sources, one built on the page, 2 option changes, 4 compiles, any number of restarts |
| `studio` | Do pushes and answers find their tab and call, whatever breaks? Does a tab end up showing the last push? | holds | 1 350 000 up to symmetry; 2 calls, 2 tabs, 2 servers, 2 sockets, 2 faults, 1 reconnect |
| `studio_answers` | Is a push answered with what became of it? | **violated** | 2 calls to one tab, no fault |

Why the bounds are enough. *Sandbox:* two sessions give one that hangs and one that suffers from
it; four calls give compile, open, a second open or run, and a close, release or tick that
crosses a restart. Nothing bounds restarts: a replay may hang and be dropped until nothing is
left. `MaxRequests` bounds the calls of the user only; the requests the client makes itself (the
open after an owned compile, releases when a handle ends) come on top. One frame per session and
one heartbeat may be on their way; more of the same kind say nothing new to a receiver. *Host:*
sessions share no queue, so one shows what one does; the five requests are compile, open and
three of run, pause, operations and scans in any order. *Simulation:* size 2 with 3 entries to
record exercises truncation, the limit and both at once. *Engine:* the circuits hold a ring that
oscillates for one input only, a latch that does not settle to one solution from every state,
registers that swap, one fed back through a gate and one through two, a row of gates, registers
with open inputs, a memory, and a gate without inputs; four calls give a failed tick, a write, a
call that recovers and one more, or a snapshot before, a restore after a tick and the call that
settles it. `WaveIsBounded` is n(n+3)/2 = 9 for three nodes and a loop with a register written
against the flow takes 8; the cap of 12 leaves a wave room to break that bound, and is reached
by the ring, as 10 000 is in the code. The bound is that of any n: events
are served in rounds, and a gate of rank r (registers have 0) can change in the first r + 1
rounds only, so it is evaluated that often at most, and a register once more than the highest
gate it reads. With the cap of the code it clears circuits of up to 139 nodes; the observations
below tell of one of 141 that it does not. *Elaboration:* a signal can pass in, through and out
of two composites and a feedthrough of each, and be led back. *Pipeline:* at most three
instructions behind an instruction see it under way, so four in a row, in every combination and
in loops, are every way two or three can meet; words of 4 bits wrap, have a sign and are made of
bytes and halves. *6502:* the programs hold each addressing mode as it stays in its page, leaves
it and wraps in page zero, each kind of access, the stack at its end, branches both ways; the
pins go up in every cycle of each of them, and two cycles give an interrupt during another one's
or BRK's sequence, an edge in the cycle the latch is cleared, and reset during either, in the
programs about these. *Hook:* four compiles let a retry, a recompile and two edits be under way
together, with both kinds of source on either side of a change. *Studio:* two calls may meet in
the server, on the way and in the editor; two servers exist because two first calls create one
each; two faults are a break and a tab that returns, or two tabs closed. The proofs need none of
the bounds of the components they are about.

`CHECK_DEADLOCK FALSE` stands where a system may rest: users have made all their calls, the
page is disposed or unmounted, elaboration is done. The simulation and the two cores
never rest and are checked for deadlock.

`sandbox_live` sets `StepsThrow` to FALSE: a session wedged by a thrown step (see the
observations below) beside a running one gets its requests never answered, since the other one's frames keep the
watchdog from firing. The host's run sets it to TRUE and excepts the sessions it wedges.

### Fairness

Sandbox: the event loops of page, iframe and worker take waiting messages; the ready timer
fires; a running worker answers. The silence timer is set again by every message, so it and
the replay timer are fair only while nothing from the worker waits. The iframe need not
load, users need not call, code need not hang.

Host: strong fairness for tasks (messages, builds, timers), which are enabled only between
microtasks though an event loop serves them in turn; weak fairness for jobs.

Engine: weak fairness for the steps of the loop of a call, which is one thread's. Pipeline and
6502: the clock never stops for good. The others state no liveness: every call of a simulation and
every pass of elaboration returns, and what a studio call or a hook waits for may never
come.

## Findings

1. `studio_answers`: the editor answers the render request it has with whatever happens
   next, which may be the fate of an earlier push: a push is answered as rendered though
   another is on show, or as failed though it then opens.
2. `feedback_lost`: a composite wired from its output straight to its own input loses the
   wire in elaboration, without an error.

### Further observations

These were met while modelling, the models have the steps that show them, and no run is
spent on them; properties they would break are stated so as to leave them out, as their
comments say.

- An exception in an auto-run step rejects the promise all later requests of the session are
  chained on (`session-host.ts:364`): they are never run nor answered, against "The answer is
  posted when it's done" (321), and no step is scheduled again. `AnsweredUnlessFaulty`
  excepts just these requests.
- A 6502 branch that is taken within its page polls interrupts in no cycle: `end` is not set in
  its second cycle, and its third is followed by the fetch (`mos6502.ts:713`, 550), although
  "Interrupts are polled on an instruction's final cycle" (1280). An interrupt waits for the
  instruction after it, and a loop of one branch to itself never takes one. `Branch` of
  `Isa6502` says so, and no program of the run has such a loop.
- An NMI edge during the 6502's reset sequence makes it start at the NMI vector and not at the
  reset vector (`mos6502.ts:1366`); `Restart` of `Isa6502` allows both.
- A close overtaken by a restart ends the handle, and the restart reopens the session, which
  nobody can close any more (`simulation-client.ts:236`). Sessions of a released compile keep
  running, but not across a restart, which drops them (`relay.ts:160`).
- `tick(0)` clears the dirty flag without settling (`simulation.ts:360`); the properties of
  `Simulation` take callers who tick by one at least.
- Reset overlays what was loaded into a memory on the declared contents, while loading
  replaces them (`sequential-init.ts:104`, against `simulation.ts:80-81`).
- An open that resolves after a newer compile was set as state and before it is rendered is
  not cancelled yet, becomes live and frees every other compile, the newer one included
  (`useSimulation.ts:371`). The render then opens a compile the sandbox no longer has: the
  failure shows as the compile error of a source that did compile, and the older circuit
  stays until the next compile. `ShowsNewest` holds all the same: it speaks of a hook
  without an error.
- After a propagation was cut off, the next call drops its events. Nodes that no later event
  reaches keep old values when the loop has stopped oscillating, until a reset
  (`propagate.ts:148`). `OnlyPendingAreStale` and `ImplementsCircuit` promise nothing from a
  failure on.
- The cap counts evaluations and not oscillations, `max(10000, 64 n)` for n nodes
  (`propagate.ts:23`). A queue served in order of arrival may take about n²/2: a row of 141 NOR
  gates on one input, written from its output to its input, needs 10 011 and is refused as it is
  built, with the error that a combinational loop is oscillating; written the other way round
  it settles in 141. (TLC finds both from `Engine` with this circuit, the cap of the code and
  nodes queued as written, in a run not kept here.) `known-issues.mdx:177` says of the cap that it "is not a depth or size
  limit". `WaveIsBounded` says what holds.
- `close()` of a studio server forgets its pending requests without resolving them
  (`ws-server.ts:353-364`): such a call of `show_circuit` never returns.
- Two first calls at once create a server each, of which the later one becomes the singleton
  (`preview-singleton.ts:45-63`). The latch that a browser was opened stays set when the
  browser fails or its tab never registers.
- A tab that reconnects before the close of its old socket is handled loses its new session
  to that close (`ws-server.ts:248-259`): it is connected and never pushed to again.

## Proofs

`tlapm` proves every obligation of the eight proof modules. All theorems hold for any values
of the constants under the named assumptions of the modules; `TypesHold` or `TypeCorrect` of
each is type correctness, `InvariantHolds` the inductive invariant.

**Sandbox.** For any sets of compiles and sessions and any number of calls, under
the constant assumptions of the modules (`ProtocolAssumption`: `None` is none of
the ids; `NoneAssumption`: nor a request; `OwnedAssumption`; `StepsThrowAssumption`):
`TypesHold`, `WatchdogAlwaysArmed`, `WorkerServesOneSide`. The inductive invariant
is

    IInv == TypeOK /\ IsFiniteSet(inFlight) /\ WatchdogArmed
              /\ WorkerSeesOneSide /\ OneReplayOut

`WatchdogArmed` alone is not inductive: during a restart a heartbeat or a frame
would set the timer, so one must know that the worker runs nothing then
(`WorkerSeesOneSide`); and when a restart ends, with the page's requests going to
the worker, no replay or answer to one may be left (`OneReplayOut`). In-flight
requests must be finitely many for the failures to be enumerated in order. There
is one lemma per action (`...Keeps`) and, where an action is built from another
operator (`Continue`, `Settle...`, `End`), one for that.

`CallsAlwaysOwedOnce` states `EveryCallOwedOnce`, on top of it, from
`CallsInvariant`: `IInv` together with `CallsInv`. The latter says of the page's side that
the ids awaited are those of the queue, the channel, what is held, what is in flight and the
replies under way, each in one place, and that none is above the last one given out
(`CallsOwed`); and of the worker's, outside a restart, that it has on its way, taken or
answered what is in flight (`WorkerOwes`). In a restart it has the one replay awaited,
by `OneReplayOut`. Two facts make this inductive. Before `ready` nothing has been asked of
the iframe (`NotBegun`): giving up on it then fails every call the page awaits, and must leave
nothing behind. And no two sessions own one compile (`OwnersDiffer`): the answer of a
compile would else send several opens. The lemmas of the first part are about
messages in channels, which the steps of page, relay and worker share.

`RestartsAccountForAll` states `RestartAccountsForAll` from `ReplayInvariant`, which adds
`ReplaySound` to `IInv`: during a restart each session of the table is reopened, still to
reopen or the one being reopened, and what was dropped is out of it; outside one, nothing is
dropped. A replay that times out starts over from the table, so the partition is what carries
the sessions from one pass to the next.

`HandlesAlwaysBacked` states `HandlesAreBacked` from `HandlesInvariant`. The property speaks
of live handles, but a handle comes alive by a message that may wait for long, so the
invariant (`HandlesSound`) says it of each `opened` on its way too: its session is in the
table, or given up by the restart under way, or named by a later message that ends it. That a
message is the end of this session and of no other, and an `opened` the answer of one open,
rests on `Asked`: what the relay has is still awaited (`Awaited`), a session is opened once
and of a compile (`OpensSound`), a compile is awaited alone (`CompilesSound`), and the open
that owns it has not gone out before (`OwnersWait`).

`TableAlwaysMatches` states `TableMatchesWorker` from `MatchInvariant`. What makes it
inductive is to say it of a restart too, where the worker holds the sessions reopened and the
compiles replayed so far (`Loaded`, `Built`); to say it as an equation, in which the answers
on their way account for the whole difference (`SessionsMatch`); and to know of each answer
that it is of the kind of its request (`WorkMatches`), since `remember` looks at both. An
answer tells one thing only because no two requests the worker owes are at odds (`Apart`): the
page asks nothing of a session it is still opening (`AskedOfOpened`), does not open what is
in the table (`TableSound`), and does not release what it is compiling.

`RunStatesAlwaysAgree` states `RunStatesAgree` from `RunInvariant`. The property speaks of
quiet states only; `RunInv` says of every state what the receiver will know once it has heard
all that is on its way (`RunsAfter`): the relay of the worker (`RunTrack`), and the page of the
relay, for live handles whose end is not on its way (`ViewTrack`). A restart stops every
session without saying so until the `restarted` that closes it, and that message names
each live session as reopened, hence stopped, or as dropped, which is `HandlesInv` again. A
reply tells of the session of its request only (`RepliesFit`), and of a session that is not
open yet nobody has heard that it runs (`Unheard`, from `AskedOfOpened`), so a handle that
comes alive starts from what is so.

**Session host.** For any sets of compiles and sessions, any number of requests and of slices
of a tick, under `ProtocolAssumption`, `NoneAssumption` and `HostAssumption`: `TypesHold`,
`OneStepIsToCome` and `HostImplementsWorker`, by which what is proved of `Sandbox` with the
abstract `Worker` holds of the host too. The inductive invariant says of each session
(`SessionSound`): its requests are queued in the order of their ids, older than those in the
mail, and its open first (`QueueSound`); a job is suspended only in the await of an open, or
between slices of a tick of a session that is up (`PhaseSound`); timers are of the current
auto-run, of which one step is to come, as a timer or as a job (`ChainSound`). `RequestsSound`
says of the mail that a session's open arrives before its other requests and to a session
nothing is left of: a queue then never holds two opens, and a rejected one never gets another.
The order of ids is what makes a request the host answers one it has taken and not answered
before, as the mapping's `Taken` needs: two requests with one id would be one element of the
set. For the refinement each action is one lemma (`...Refines`): most are a step of the
contract, a start or an end of a job that posts nothing is a stutter.

**Simulation.** For every circuit whose logic settles, every history size and
bound, and callers who tick by at least one cycle (the hypothesis
`0 \notin TickCounts`, without which reads may be stale after `tick(0)`):
`TypesHold`, `ReadsSettleFirst`, `HistoryStaysSettled`, `CursorStaysInHistory`,
`CycleCountsAgree`, `HistoryGrowsAtCursor`. The inductive invariant adds to the
properties: `Settling` (a valid cache is right; values are settled unless dirty; an
unwritten Switch has its original value), `WrittenStays` (a Switch an entry knows
as written is written now, so restoring the entry can put it back) and `Counting`
(cycles made but not yet counted by an advance under way).

**React hook.** For any numbers of sources, options and compiles and any choice of
which sources are built on the page, under `HookAssumption` (`None` is no compile or
session): `TypesHold`, `LiveSessionIsHeld`, `QuietShowsNewest`, `QuietLeavesNothing`,
`NeverShowsOlder`, that is every property of its run. None of them is inductive. The
invariant says who can belong to whom: `Gens` (generations rise, and one call at most
is the newest), `Opens` (at most one open is wanted, and it is of the last render; one that
will find its compile is of a compile held; this is what the early release described above
leaves true), `Lives` (the live session is no newer than the last render, its compile is held,
and a session that is open has its compile in the sandbox), `Holds` (what the sandbox has for
the hook, the hook holds; a restart may lose it, not the other way round), `SourceComing` and
`ShownComing` (the newest source, and the last render, is under way, failed or done) and
`Gone` (an unmounted hook wants nothing). `QuietShowsNewest` chains the two before the last;
`NeverShowsOlder` is `Opens` against `Lives`.

**Studio.** For any numbers of calls, servers, tabs, sockets and faults, under
`StudioAssumption` (`None` is no call, server, tab, socket, source or push): `TypesHold`,
`PushAlwaysHasTarget`, `SessionsStayOpenOnTheirTab`, `SlotStaysCurrent`,
`RequestsAlwaysCarryTheirPush` and `RestingTabShowsLastPush`, that is every invariant of its
run. The inductive invariant adds to `SessionsAreOpen`: `ServersHold` (a tab is in the order of
sessions once at most, and only those in it have a socket; the target of a push is one of them;
the call in the slot brought the server's push, no tab is connected while it waits, and no other
server has it), `SocketsHold` (which ends a socket has in each of its states; what is on it is
of calls that were sent, with their push), `CallsHold` (calls that have begun have a push) and
`TabsHold` (what a tab has compiled, is opening and shows follow from its source, and the render
it awaits was sent). That a slot's call was *not* sent is what keeps the two sides apart: when a
server fills its slot again, nothing on a socket is of the call.

**Engine.** For every set of circuits over finitely many nodes, any evaluation functions,
any cap, any order of events and any evaluations and edges that throw, under
`EngineAssumption` (evaluation yields words, and `onTick` words or no next state; sources have
no inputs): `TypeCorrect`, `QueueConsistent`, `NothingStaleLeftOut` and
`EngineImplementsCircuit`, the refinement of `SynchronousCircuit` by steps. The invariant
adds to `QueueIsPending` and `OnlyPendingAreStale`: `LinesDriven` (input ports have what
drives them while a call runs), `Spreads` (a seed, or a reader of an evaluated node, is
evaluated or queued), `Covered` (between calls all of it is evaluated) and `SavedSound` (a
snapshot has settled values but for the seeds of the next call). When the queue is empty,
`Spreads` gives that every reachable node is evaluated, `OnlyPendingAreStale` that it is in
sync: the values are a solution (`Drained`), which is what `Settle` and `Edge` ask for. The
seeds a call starts from are needed because nodes with state and readers of input ports may
be stale between calls, by a write or a restore.

**Pipeline.** For any programs, registers, words, arithmetic and memories, under
`PipelineAssumption` (operations are closed; ADD adds; clearing bit 0 twice is clearing it
once; a load is the aligned part of the word read): `TypeCorrect`, `LoadsAwaited`,
`StaysOnPath` and `PipelineImplementsIsa`: each clock maps to one instruction of `Isa`, when
one leaves EX, or to a stutter. Besides the two properties the invariant has `Decoded` (EX
holds the instruction of its address with the registers as they now are in the file, by the
write-back bypass), `ResultSound` (what MEM forwards is what will be written, but for a
load) and `ZeroRegister`. The forwarded operands then are the registers of the mapping, for
a load because `LoadsAreAwaited` rules out the one case in which MEM would forward a 0.

**6502.** For any set of memories, byte that fills them and course of `irq`, `nmi` and `reset`,
under `MachineAssumption` (a memory maps addresses of 16 bits to bytes, and the fill is a
byte): `TypesHold`, `InvariantHolds` and `CoreImplementsIsa`, the refinement of `Isa6502`. Any
memory means any program, one that writes over itself included. The theorem gives every
instruction its bus cycles in order, its result, flags and length, and what is due after it.
`CoreInv` is needed because `Isa6502` speaks of whole instructions and a step of the core is
one cycle. It says, for the `outcome` at the last opcode fetch:

- in a fetch, that the core is as the outcome says, with PC on the address bus (`Fetching`);
- otherwise, that the memory is the outcome's with the writes on `bus`, and that the
  instruction is the one its opcode names, or BRK for the interrupt that was due (`Begun`);
- for each T state of each kind of instruction, the bus cycles so far, the next one, PC, and
  what the registers and latches hold of the operand and its address (`Phase`: `ZeroPagePhase`
  ... `EnterPhase`), among them that `acr` is the carry of this index and not an earlier one's;
- of a reset only what `Isa6502` says of it (`ResetPhase`), as it may cut in anywhere.

The proof goes cycle by cycle. `...Control` gives the control lines of each T state as words
(`Operand ++ ZeroPage("DATA")`), `...Is` what a word does to the blocks; with both, `...Step`
takes a phase to the next T state, or `...Finish` to what the last cycle leaves. `...End` shows
that it is the action of `Isa6502`; every other cycle is a stutter (`StepImplements`). Bus cycles
are built with `##`, and sequences compared element by element (`SameSeq`), as the provers do
not normalise `Append` and `\o`. The 256 opcodes are not enumerated: `OperationIs` and
`TableAllows` give what the phases ask of any decoded instruction (`Instr`), such as that a store
is never an implied one. `CoreInv` quantifies over all addresses and is not a property of a run;
with those quantifiers bounded by the cycles at hand, TLC has found it true in all states of
`core6502`.

**Model-checked only.** `WaveIsBounded`, whose argument above is by the rounds of a wave, of
which the state keeps no count; elaboration, whose searches are RECURSIVE operators and whose
correctness is an induction over the hierarchy, both beyond the prover; that `Rv32i` satisfies
`PipelineAssumption`, which TLC evaluates for words of 4 bits; everything live
(`EveryCallSettles`, `RestartEnds`, `AnsweredUnlessFaulty`, `CallsEnd`, `KeepsExecuting`,
`NmiServed`). `TypeOK` of the host and the studio describes their state and is no property of a
run.

## Not modelled

`components` in `PROJECT.json` gives the reason in each case.

- *Text and presentation:* Verilog export, netlist import, source round trip, trace and VCD
  formats, user interface, share links. They are pure functions of one input whose
  correctness lies in wording and layout, or in external tools.
- *No protocol of their own:* module loading in the worker, the in-process sandbox, the
  circuit builder (its checks are what designs of `Elaboration` range over), the verify
  harness, the other MCP tools, the apps and containers, scripts.
- *Combinational parts of the standard library:* gates, adders, the bits of decoding, which
  the repository's own equivalence checks cover.
- *Within the modelled parts:* the export request, the errors and fields each section above
  leaves out. Slow and hung code are not told apart, so timeouts that are too short are not
  found. The copy-on-write proxy of memories (`propagate.ts:42-72`) is taken at its word:
  contents are values. A change of the hook's client and an error in a rebuild
  (`session-host.ts:470`) are left out.
