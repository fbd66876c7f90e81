---------------------------- MODULE SessionHost ----------------------------
(***************************************************************************)
(* The code the worker runs, packages/sandbox/src/session-host.ts:         *)
(* compiles are promises, each session has a promise queue, long ticks run *)
(* in slices between which other sessions get their turn, and auto-run is  *)
(* a chain of timers, each of which enqueues one step.                     *)
(*                                                                         *)
(* The event loop: a message, a timer or a finished compile is a task, and *)
(* a task starts only when no job of a queue can run, since the jobs run   *)
(* as microtasks.  One job, or one slice of it, is one action.             *)
(*                                                                         *)
(* Simulated cycles, history and port values are left out; how many slices *)
(* a tick takes, and when a frame falls due, is left open.                 *)
(***************************************************************************)
EXTENDS SandboxProtocol, SequencesExt

CONSTANTS
  StepsThrow,  \* whether a cycle may throw during auto-run
  MaxSlices    \* bound: times one request gives other sessions a turn

ASSUME HostAssumption == StepsThrow \in BOOLEAN /\ MaxSlices \in Nat

VARIABLES
  hCompiles,   \* keys of `compiles`
  building,    \* compile requests whose build is not finished
  built,       \* compiles whose build succeeded
  queue,       \* session -> jobs not finished, the head being the current one
  phase,       \* session -> where the current job is
  slices,      \* session -> slices the current job still has
  rejected,    \* sessions whose queue a thrown step rejected
  hSessions,   \* keys of `sessions`
  run,         \* session -> its AutoRun, numbered; 0 for null
  runs,        \* session -> AutoRuns made so far
  timers,      \* step timers set: pairs of session and AutoRun
  hung,        \* user code never returns
  sent,        \* the last request id the relay posted
  asked        \* the compile and session ids it has used

hostVars == <<hCompiles, building, built, queue, phase, slices, rejected, hSessions,
              run, runs, timers, hung, sent, asked>>
envVars == <<sent, asked>>
vars == <<hostVars, channels>>

StepJob(s, n) == [id |-> NoId, type |-> "step", session |-> s, run |-> n]

Init ==
  /\ hCompiles = {} /\ building = {} /\ built = {}
  /\ queue = [s \in Sessions |-> <<>>]
  /\ phase = [s \in Sessions |-> "ready"]
  /\ slices = [s \in Sessions |-> 0]
  /\ rejected = {} /\ hSessions = {}
  /\ run = [s \in Sessions |-> 0] /\ runs = [s \in Sessions |-> 0]
  /\ timers = {} /\ hung = FALSE
  /\ sent = 0 /\ asked = {}
  /\ toRelay = <<>> /\ toPage = <<>> /\ toWorker = <<>> /\ fromWorker = <<>>

Post(m) == fromWorker' = Append(fromWorker, m)
ReplyTo(request, type, state) ==
  [id |-> request.id, type |-> type, session |-> request.session, state |-> state]
StateOf(r, s) == IF r[s] # 0 THEN "running" ELSE "stopped"

-----------------------------------------------------------------------------
(* Jobs.  Each is enabled when s's current job is of its kind and can run. *)

\* A mutant: an open whose compile's build fails waits for ever.
CanRunOnceBuilt(s) ==
  /\ ~hung /\ s \notin rejected /\ queue[s] # <<>>
  /\ phase[s] = "ready" \/ (phase[s] = "awaiting" /\ Head(queue[s]).compile \in built)

CanRun(s) ==
  /\ ~hung /\ s \notin rejected /\ queue[s] # <<>>
  /\ \/ phase[s] = "ready"
     \/ phase[s] = "awaiting" /\ \A b \in building : b.compile # Head(queue[s]).compile

Job(s, types) == CanRun(s) /\ Head(queue[s]).type \in types

\* The job is done: its reply is posted and the next one may run.
Finished(s) ==
  /\ queue' = [queue EXCEPT ![s] = Tail(@)]
  /\ phase' = [phase EXCEPT ![s] = "ready"]
  /\ UNCHANGED <<hCompiles, building, built, hung, envVars, toRelay, toPage, toWorker>>

\* A mutant: the timer stays set.
StopRunOnly(s) == run' = [run EXCEPT ![s] = 0] /\ UNCHANGED <<timers, runs>>

\* `stopRun`: the timer is cleared and the AutoRun forgotten.
StopRun(s) ==
  /\ timers' = timers \ {<<s, run[s]>>}
  /\ run' = [run EXCEPT ![s] = 0]
  /\ UNCHANGED runs

\* `open`, from its lookup of the compile to the new session.  The await of a
\* compile still being built suspends it.
Open(s) ==
  /\ Job(s, {"open"})
  /\ LET request == Head(queue[s])
         found == phase[s] = "awaiting" \/ request.compile \in hCompiles
     IN \/ /\ phase[s] = "ready" /\ s \notin hSessions /\ found
           /\ \E b \in building : b.compile = request.compile
           /\ phase' = [phase EXCEPT ![s] = "awaiting"]
           /\ UNCHANGED <<hCompiles, building, built, queue, slices, rejected, hSessions,
                          run, runs, timers, hung, envVars, channels>>
        \/ /\ s \notin hSessions /\ found /\ request.compile \in built
           /\ hSessions' = hSessions \cup {s}
           /\ Post(ReplyTo(request, "opened", "stopped"))
           /\ Finished(s)
           /\ UNCHANGED <<slices, rejected, run, runs, timers>>
        \/ \* already open, no such compile or circuit, or user code throws
           /\ \/ s \in hSessions \/ ~found
              \/ \A b \in building : b.compile # request.compile
           /\ Post(Failed(request.id))
           /\ Finished(s)
           /\ UNCHANGED <<slices, rejected, hSessions, run, runs, timers>>

\* `requireSession` throws.
NoSession(s) ==
  /\ Job(s, SessionOps \cup {"close"}) /\ s \notin hSessions
  /\ Post(Failed(Head(queue[s]).id))
  /\ Finished(s)
  /\ UNCHANGED <<slices, rejected, hSessions, run, runs, timers>>

\* `startRun`: a second one only changes the speed.
Run(s) ==
  /\ Job(s, {"run"}) /\ s \in hSessions
  /\ \/ /\ run[s] = 0
        /\ runs' = [runs EXCEPT ![s] = @ + 1]
        /\ run' = [run EXCEPT ![s] = runs'[s]]
        /\ timers' = timers \cup {<<s, runs'[s]>>}
     \/ run[s] # 0 /\ UNCHANGED <<run, runs, timers>>
  /\ Post(ReplyTo(Head(queue[s]), "updated", "running"))
  /\ Finished(s)
  /\ UNCHANGED <<slices, rejected, hSessions>>

Pause(s) ==
  /\ Job(s, {"pause"}) /\ s \in hSessions
  /\ StopRun(s)
  /\ Post(ReplyTo(Head(queue[s]), "updated", "stopped"))
  /\ Finished(s)
  /\ UNCHANGED <<slices, rejected, hSessions>>

CloseSession(s) ==
  /\ Job(s, {"close"}) /\ s \in hSessions
  /\ StopRun(s)
  /\ hSessions' = hSessions \ {s}
  /\ Post(ReplyTo(Head(queue[s]), "closed", "none"))
  /\ Finished(s)
  /\ UNCHANGED <<slices, rejected>>

\* set, toggle, step-back, step-forward, seek, reset and scan, and a tick or
\* sample that fits in one slice: done at once, or user code or a check throws.
Apply(s) ==
  /\ Job(s, {"op", "scan"}) /\ s \in hSessions
  /\ LET request == Head(queue[s])
     IN \/ request.type = "op" /\ Post(ReplyTo(request, "updated", StateOf(run, s)))
        \/ request.type = "scan" /\ Post(ReplyTo(request, "scanned", "none"))
        \/ Post(Failed(request.id))
  /\ Finished(s)
  /\ UNCHANGED <<slices, rejected, hSessions, run, runs, timers>>

\* `heartbeat`: at most one a second; bound: one on its way.
MayHeartbeat ==
  \/ UNCHANGED fromWorker
  \/ /\ ~ \E k \in DOMAIN fromWorker : fromWorker[k].type = "progressed"
     /\ Post([id |-> NoId, type |-> "progressed", session |-> None, state |-> "none"])

\* The first slice of a tick or sample that does not fit in one.
Slice(s) ==
  /\ Job(s, {"op"}) /\ s \in hSessions
  /\ \E n \in 1 .. MaxSlices : slices' = [slices EXCEPT ![s] = n]
  /\ phase' = [phase EXCEPT ![s] = "sliced"]
  /\ MayHeartbeat
  /\ UNCHANGED <<hCompiles, building, built, queue, rejected, hSessions, run, runs, timers,
                 hung, envVars, toRelay, toPage, toWorker>>

\* `step`: one slice of auto-run.  A step of an AutoRun that was stopped is
\* nothing; any other sets the timer of the next one, after its frame if one
\* is due.  Bound: one frame of a session on its way.
Step(s) ==
  /\ Job(s, {"step"})
  /\ LET n == Head(queue[s]).run
     IN \/ /\ run[s] # n
           /\ UNCHANGED <<timers, fromWorker>>
        \/ /\ run[s] = n
           /\ timers' = timers \cup {<<s, n>>}
           /\ \/ UNCHANGED fromWorker
              \/ /\ ~Contains(fromWorker \o toPage, Frame(s, "running"))
                 /\ Post(Frame(s, "running"))
  /\ Finished(s)
  /\ UNCHANGED <<slices, rejected, hSessions, run, runs>>

\* The step's cycle throws: nothing catches it, so the queue's promise rejects
\* and no job that waits on it will run; no timer is set.
StepThrows(s) ==
  /\ StepsThrow /\ Job(s, {"step"}) /\ run[s] = Head(queue[s]).run
  /\ rejected' = rejected \cup {s}
  /\ queue' = [queue EXCEPT ![s] = Tail(@)]
  /\ UNCHANGED <<hCompiles, building, built, phase, slices, hSessions, run, runs, timers,
                 hung, envVars, channels>>

-----------------------------------------------------------------------------
(* Tasks *)

AtRest == ~hung /\ \A s \in Sessions : ~CanRun(s)

\* A mutant: the job goes before those that wait.
EnqueueFirst(s, job) == queue' = [queue EXCEPT ![s] = <<job>> \o @]
Enqueue(s, job) == queue' = [queue EXCEPT ![s] = Append(@, job)]

\* `handle`
Handle ==
  /\ AtRest /\ toWorker # <<>>
  /\ toWorker' = Tail(toWorker)
  /\ LET request == Head(toWorker)
     IN \/ /\ request.type = "compile"
           /\ hCompiles' = hCompiles \cup {request.compile}
           /\ building' = building \cup {request}
           /\ built' = built \ {request.compile}
           /\ UNCHANGED <<queue, fromWorker>>
        \/ /\ request.type = "release"
           /\ hCompiles' = hCompiles \ {request.compile}
           /\ Post([id |-> request.id, type |-> "released", session |-> None, state |-> "none"])
           /\ UNCHANGED <<building, built, queue>>
        \/ /\ request.type \notin {"compile", "release"}
           /\ Enqueue(request.session, request)
           /\ UNCHANGED <<hCompiles, building, built, fromWorker>>
  /\ UNCHANGED <<phase, slices, rejected, hSessions, run, runs, timers, hung, envVars,
                 toRelay, toPage>>

\* A build resolves or rejects.
CompileDone ==
  /\ AtRest
  /\ \E request \in building :
       /\ building' = building \ {request}
       /\ \/ /\ built' = built \cup {request.compile}
             /\ Post(ReplyTo(request, "compiled", "none"))
          \/ Post(Failed(request.id)) /\ UNCHANGED built
  /\ UNCHANGED <<hCompiles, queue, phase, slices, rejected, hSessions, run, runs, timers,
                 hung, envVars, toRelay, toPage, toWorker>>

\* The yield between two slices is over: the next slice runs.
NextSlice(s) ==
  /\ AtRest /\ phase[s] = "sliced"
  /\ LET request == Head(queue[s])
     IN \/ /\ slices[s] > 1
           /\ slices' = [slices EXCEPT ![s] = @ - 1]
           /\ MayHeartbeat
           /\ UNCHANGED <<hCompiles, building, built, queue, phase, hung, envVars, toRelay,
                          toPage, toWorker>>
        \/ /\ \/ slices[s] = 1 /\ Post(ReplyTo(request, "updated", StateOf(run, s)))
              \/ Post(Failed(request.id))
           /\ slices' = [slices EXCEPT ![s] = 0]
           /\ Finished(s)
  /\ UNCHANGED <<rejected, hSessions, run, runs, timers>>

StepTimer(s) ==
  /\ AtRest
  /\ \E n \in 1 .. runs[s] :
       /\ <<s, n>> \in timers
       /\ timers' = timers \ {<<s, n>>}
       /\ Enqueue(s, StepJob(s, n))
  /\ UNCHANGED <<hCompiles, building, built, phase, slices, rejected, hSessions, run, runs,
                 hung, envVars, channels>>

\* A compile, or the user code of a job, never returns.
HangsIn(s) ==
  \/ Job(s, {"open", "op", "scan", "pause"})
  \/ phase[s] = "sliced" /\ AtRest
  \/ Job(s, {"step"}) /\ run[s] = Head(queue[s]).run
Hang ==
  /\ ~hung
  /\ (building # {} /\ AtRest) \/ \E s \in Sessions : HangsIn(s)
  /\ hung' = TRUE
  /\ UNCHANGED <<hCompiles, building, built, queue, phase, slices, rejected, hSessions, run,
                 runs, timers, envVars, channels>>

HostNext ==
  \/ \E s \in Sessions :
       \/ Open(s) \/ NoSession(s) \/ Run(s) \/ Pause(s) \/ CloseSession(s) \/ Apply(s)
       \/ Slice(s) \/ Step(s) \/ StepThrows(s) \/ NextSlice(s) \/ StepTimer(s)
  \/ Handle \/ CompileDone \/ Hang

-----------------------------------------------------------------------------
(* The relay, as the host's environment: requests carry rising ids, a      *)
(* compile or session id is made up once, and a session's first request is *)
(* its open.                                                               *)

Posts(request) ==
  /\ sent < MaxRequests /\ sent' = sent + 1
  /\ toWorker' = Append(toWorker, request)
  /\ UNCHANGED <<hCompiles, building, built, queue, phase, slices, rejected, hSessions, run,
                 runs, timers, hung, toRelay, toPage, fromWorker>>

RelayPosts ==
  \/ \E c \in Compiles \ asked :
       Posts(CompileRequest(sent + 1, c)) /\ asked' = asked \cup {c}
  \/ \E c \in Compiles \cap asked :
       Posts(ReleaseRequest(sent + 1, c)) /\ UNCHANGED asked
  \/ \E s \in Sessions \ asked, c \in Compiles :
       Posts(OpenRequest(sent + 1, s, c)) /\ asked' = asked \cup {s}
  \/ \E s \in Sessions \cap asked, type \in OpTypes \cup {"close"} :
       Posts(OpRequest(sent + 1, type, s)) /\ UNCHANGED asked

RelayTakes ==
  /\ fromWorker # <<>>
  /\ fromWorker' = Tail(fromWorker)
  /\ UNCHANGED <<hostVars, toRelay, toPage, toWorker>>

Next == HostNext \/ RelayPosts \/ RelayTakes

Spec == Init /\ [][Next]_vars

-----------------------------------------------------------------------------
(* Properties *)

Jobs == Request \cup [id : {NoId}, type : {"step"}, session : Sessions, run : Nat]

\* Every variable has its type.
TypeOK ==
  /\ hCompiles \subseteq Compiles /\ building \subseteq Request /\ built \subseteq Compiles
  /\ queue \in [Sessions -> Seq(Jobs)]
  /\ phase \in [Sessions -> {"ready", "awaiting", "sliced"}]
  /\ slices \in [Sessions -> 0 .. MaxSlices]
  /\ rejected \subseteq Sessions /\ hSessions \subseteq Sessions
  /\ run \in [Sessions -> Nat] /\ runs \in [Sessions -> Nat]
  /\ timers \subseteq Sessions \X Nat
  /\ hung \in BOOLEAN /\ sent \in 0 .. MaxRequests /\ asked \subseteq Compiles \cup Sessions
  /\ toWorker \in Seq(Request) /\ fromWorker \in Seq(Reply)

IsStep(job, n) == job.type = "step" /\ job.run = n

\* An auto-run is one chain of steps: exactly one step of it is to come, as a
\* timer or as a job, and no timer is left of one that was stopped.  So pausing
\* and running again, with a step of the old run still in the queue, neither
\* stalls the new run nor doubles its rate.
OneStepToCome ==
  /\ \A t \in timers : run[t[1]] = t[2]
  /\ \A s \in Sessions \ rejected : run[s] # 0 =>
       Cardinality({t \in timers : t[1] = s})
         + Cardinality({k \in DOMAIN queue[s] : IsStep(queue[s][k], run[s])}) = 1

\* The requests the host has taken and not answered.
Unanswered ==
  building \cup UNION {{queue[s][k] : k \in {i \in DOMAIN queue[s] : queue[s][i].type # "step"}}
                         : s \in Sessions}

\* The host does what the relay expects of a worker: it answers each session's
\* requests in order and each request once, whatever slices, timers and
\* builds come between, and pushes frames only for sessions that auto-run.
\* An open that waits for its lookup finds the compile if it is still there.
Found(request) ==
  IF /\ request.type = "open" /\ phase[request.session] = "ready"
     /\ request.compile \notin hCompiles
  THEN [request EXCEPT !.compile = None] ELSE request

Taken == {Found(r) : r \in Unanswered}
Running == {s \in Sessions : run[s] # 0}

Contract == INSTANCE WorkerAlone WITH
  taken <- Taken, wCompiles <- hCompiles, wSessions <- hSessions,
  wRunning <- Running, wedged <- rejected, stuck <- hung

ImplementsWorker == Contract!AloneSpec

\* The event loop gives every message, build, timer and job its turn, though
\* each must wait while jobs run; the relay takes what is sent.
Fairness ==
  /\ SF_vars(Handle) /\ SF_vars(CompileDone) /\ WF_vars(RelayTakes)
  /\ \A s \in Sessions :
       /\ WF_vars(Open(s) \/ NoSession(s) \/ Run(s) \/ Pause(s) \/ CloseSession(s)
                    \/ Apply(s) \/ Step(s))
       /\ SF_vars(NextSlice(s)) /\ SF_vars(StepTimer(s))

FairSpec == Spec /\ Fairness

IsUnanswered(i) == \E r \in Unanswered \cup Range(toWorker) : r.id = i

\* Every request is answered, unless user code hangs or the request's session
\* lost its queue to a step that threw.
AnsweredUnlessFaulty ==
  \A i \in 1 .. MaxRequests :
    IsUnanswered(i) ~>
      \/ ~IsUnanswered(i) \/ hung
      \/ \E s \in rejected, k \in 1 .. MaxRequests :
           k \in DOMAIN queue[s] /\ queue[s][k].id = i

=============================================================================
