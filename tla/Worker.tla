------------------------------- MODULE Worker -------------------------------
(***************************************************************************)
(* What the relay may expect of a worker: the promise of the session host  *)
(* (packages/sandbox/src/session-host.ts) without its queues, slices and   *)
(* timers.  It answers the requests of one session in the order it took    *)
(* them, requests of different sessions in any order, and a release at     *)
(* once; it pushes frames for the sessions that auto-run; and it may fall  *)
(* silent for good in user code that never returns.                        *)
(*                                                                         *)
(* A cycle of user code may also throw.  In a request that fails the       *)
(* request; in an auto-run step it rejects the tail of the session's       *)
(* promise queue, on which every later job of the session waits.           *)
(***************************************************************************)
EXTENDS SandboxProtocol, SequencesExt

CONSTANT StepsThrow   \* whether a cycle may throw during auto-run

ASSUME StepsThrowAssumption == StepsThrow \in BOOLEAN

VARIABLES
  taken,      \* requests received and not answered
  wCompiles,  \* compiles the host holds
  wSessions,  \* sessions the host holds
  wRunning,   \* those that auto-run
  wedged,     \* sessions whose queue an auto-run step rejected
  stuck       \* user code is in a loop it never leaves

workerVars == <<taken, wCompiles, wSessions, wRunning, wedged, stuck>>

Idle(tk, cs, ss, run, wd, st) ==
  tk = {} /\ cs = {} /\ ss = {} /\ run = {} /\ wd = {} /\ st = FALSE

WorkerInit == Idle(taken, wCompiles, wSessions, wRunning, wedged, stuck)

\* A new worker starts from nothing.
FreshWorker == Idle(taken', wCompiles', wSessions', wRunning', wedged', stuck')

ReplyTo(request, type, state) ==
  [id |-> request.id, type |-> type, session |-> request.session, state |-> state]

Post(m) == fromWorker' = Append(fromWorker, m)

-----------------------------------------------------------------------------
\* `handle`: a release is done and answered on arrival.  A compile's id is
\* known from arrival on, before it is built, and an open looks its compile up
\* on arrival: it keeps a compile that is freed later, and has None if there
\* was none.
Found(request) ==
  IF request.type = "open" /\ request.compile \notin wCompiles
  THEN [request EXCEPT !.compile = None] ELSE request

Take ==
  /\ ~stuck /\ toWorker # <<>>
  /\ toWorker' = Tail(toWorker)
  /\ LET request == Head(toWorker)
     IN \/ /\ request.type = "release"
           /\ wCompiles' = wCompiles \ {request.compile}
           /\ Post([id |-> request.id, type |-> "released", session |-> None, state |-> "none"])
           /\ UNCHANGED taken
        \/ /\ request.type # "release"
           /\ wCompiles' = wCompiles \cup
                (IF request.type = "compile" THEN {request.compile} ELSE {})
           /\ taken' = taken \cup {Found(request)}
           /\ UNCHANGED fromWorker
  /\ UNCHANGED <<wSessions, wRunning, wedged, stuck, toRelay, toPage>>

\* Requests that may be answered next: any compile, and the oldest request,
\* which has the smallest id, of each session.
Answerable ==
  {r \in taken :
     /\ r.session \notin wedged
     /\ r.type # "compile" =>
          \A other \in taken : other.session = r.session => r.id <= other.id}

StateOf(s, run) == IF s \in run THEN "running" ELSE "stopped"

\* `apply` succeeds.
Done(request) ==
  LET s == request.session IN
  CASE request.type = "compile" ->
         /\ Post(ReplyTo(request, "compiled", "none"))
         /\ UNCHANGED <<wSessions, wRunning>>
    [] request.type = "open" ->
         /\ s \notin wSessions /\ request.compile # None
         /\ wSessions' = wSessions \cup {s}
         /\ Post(ReplyTo(request, "opened", "stopped"))
         /\ UNCHANGED wRunning
    [] request.type = "close" ->
         /\ s \in wSessions
         /\ wSessions' = wSessions \ {s}
         /\ wRunning' = wRunning \ {s}
         /\ Post(ReplyTo(request, "closed", "none"))
    [] request.type \in {"run", "pause"} ->
         /\ s \in wSessions
         /\ wRunning' = IF request.type = "run" THEN wRunning \cup {s} ELSE wRunning \ {s}
         /\ Post(ReplyTo(request, "updated", StateOf(s, wRunning')))
         /\ UNCHANGED wSessions
    [] request.type = "op" ->
         /\ s \in wSessions
         /\ Post(ReplyTo(request, "updated", StateOf(s, wRunning)))
         /\ UNCHANGED <<wSessions, wRunning>>
    [] request.type = "scan" ->
         /\ s \in wSessions
         /\ Post(ReplyTo(request, "scanned", "none"))
         /\ UNCHANGED <<wSessions, wRunning>>

\* `apply` or the compile throws: source that does not compile, a circuit that
\* does not build, a session or port that is not there, user code that throws.
\* Starting, stopping and closing a session that is there cannot throw.
Throws(request) ==
  /\ request.type \in {"run", "pause", "close"} => request.session \notin wSessions
  /\ Post(Failed(request.id))
  /\ UNCHANGED <<wSessions, wRunning>>

Answer ==
  /\ ~stuck
  /\ \E request \in Answerable :
       /\ taken' = taken \ {request}
       /\ Done(request) \/ Throws(request)
  /\ UNCHANGED <<wCompiles, wedged, stuck, toRelay, toPage, toWorker>>

\* A request that runs in slices says that it is alive.  Bound: one heartbeat
\* on its way.
Heartbeat ==
  /\ ~stuck
  /\ \E request \in Answerable : request.type = "op"
  /\ ~ \E k \in DOMAIN fromWorker : fromWorker[k].type = "progressed"
  /\ Post([id |-> NoId, type |-> "progressed", session |-> None, state |-> "none"])
  /\ UNCHANGED <<workerVars, toRelay, toPage, toWorker>>

\* An auto-run step at a frame boundary.  Bound: one frame of a session on its
\* way to the page.
PushFrame(s) ==
  /\ ~stuck /\ s \in wRunning \ wedged
  /\ ~ Contains(fromWorker \o toPage, Frame(s, "running"))
  /\ Post(Frame(s, "running"))
  /\ UNCHANGED <<workerVars, toRelay, toPage, toWorker>>

\* An auto-run step throws: the session's queue is rejected, no further step
\* is scheduled, and `run` stays set.
StepThrows(s) ==
  /\ StepsThrow /\ ~stuck /\ s \in wRunning \ wedged
  /\ wedged' = wedged \cup {s}
  /\ UNCHANGED <<taken, wCompiles, wSessions, wRunning, stuck, channels>>

\* User code, in a request or in an auto-run step, never returns.
Hang ==
  /\ ~stuck
  /\ \/ \E request \in Answerable : request.type \in {"compile", "open", "op", "scan", "pause"}
     \/ wRunning \ wedged # {}
  /\ stuck' = TRUE
  /\ UNCHANGED <<taken, wCompiles, wSessions, wRunning, wedged, channels>>

WorkerNext ==
  \/ Take \/ Answer \/ Heartbeat \/ Hang
  \/ \E s \in Sessions : PushFrame(s) \/ StepThrows(s)

WorkerTypeOK ==
  /\ taken \subseteq {r \in Request : r.type # "release"}
  /\ wCompiles \subseteq Compiles
  /\ wSessions \subseteq Sessions /\ wRunning \subseteq Sessions /\ wedged \subseteq Sessions
  /\ stuck \in BOOLEAN

=============================================================================
