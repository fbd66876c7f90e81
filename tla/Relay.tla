------------------------------- MODULE Relay -------------------------------
(***************************************************************************)
(* The sandbox iframe's main thread, packages/sandbox/src/relay.ts: it     *)
(* forwards requests to the worker and replies to the page, and restarts   *)
(* the worker when it owes something and stays silent for timeoutMs.       *)
(*                                                                         *)
(* JavaScript runs one task at a time and all the microtasks it queued     *)
(* before the next task, so an action here is one task with its            *)
(* continuations: the message or timer that resolves a replay also posts   *)
(* the next one, or finishes the restart.                                  *)
(*                                                                         *)
(* `inFlight` is a Map in insertion order.  The page numbers its requests  *)
(* in the order it sends them and every hop keeps that order, so the       *)
(* oldest entry is the one with the smallest id.  The order in which the   *)
(* `compiles` and `sessions` tables are replayed is left open.             *)
(***************************************************************************)
EXTENDS SandboxProtocol, SequencesExt

VARIABLES
  inFlight,     \* page requests sent to the current worker and not answered
  running,      \* sessions whose last reported state was running
  watchdog,     \* the silence timer is set
  compiles,     \* compiles a new worker would need
  sessions,     \* session -> the compile it was opened on; None if not open
  restarting,   \* `held` is not null
  held,         \* page requests that arrived during a restart
  replaying,    \* the replay request the restart awaits, or None
  todoCompiles, \* compiles still to replay in this pass
  todoSessions, \* sessions still to replay in this pass
  reopened,     \* sessions reopened in this pass
  dropped       \* sessions given up in this restart

relayVars == <<inFlight, running, watchdog, compiles, sessions, restarting, held,
               replaying, todoCompiles, todoSessions, reopened, dropped>>

Empty(flight, run, dog, cs, ss, rs, hd, rp, tc, ts, ro, dr) ==
  /\ flight = {} /\ run = {} /\ dog = FALSE
  /\ cs = {} /\ ss = [s \in Sessions |-> None]
  /\ rs = FALSE /\ hd = <<>> /\ rp = None
  /\ tc = {} /\ ts = {} /\ ro = {} /\ dr = {}

RelayInit ==
  Empty(inFlight, running, watchdog, compiles, sessions, restarting, held, replaying,
        todoCompiles, todoSessions, reopened, dropped)

\* The iframe is removed.
RelayGone ==
  Empty(inFlight', running', watchdog', compiles', sessions', restarting', held', replaying',
        todoCompiles', todoSessions', reopened', dropped')

OpenSessions(table) == {s \in Sessions : table[s] # None}

\* Mutants: only one kind of debt counts.
OwesRepliesOnly(flight, run) == flight # {}
OwesFramesOnly(flight, run)  == run # {}

\* owesSomething: an in-flight request is owed a reply, a running session frames.
Owes(flight, run) == flight # {} \/ run # {}

-----------------------------------------------------------------------------
(* Page to worker. *)

\* A mutant: requests are not held during a restart.
ReceiveUnheld ==
  /\ toRelay # <<>>
  /\ toRelay' = Tail(toRelay)
  /\ inFlight' = inFlight \cup {Head(toRelay)}
  /\ watchdog' = TRUE
  /\ toWorker' = Append(toWorker, Head(toRelay))
  /\ UNCHANGED <<running, compiles, sessions, restarting, held, replaying, todoCompiles,
                 todoSessions, reopened, dropped, toPage, fromWorker>>

\* `send`: during a restart a request waits; otherwise it goes to the worker,
\* and the silence clock starts if it was not already ticking.
Receive ==
  /\ toRelay # <<>>
  /\ toRelay' = Tail(toRelay)
  /\ LET request == Head(toRelay)
     IN \/ /\ restarting
           /\ held' = Append(held, request)
           /\ UNCHANGED <<inFlight, watchdog, toWorker>>
        \/ /\ ~restarting
           /\ inFlight' = inFlight \cup {request}
           /\ watchdog' = TRUE
           /\ toWorker' = Append(toWorker, request)
           /\ UNCHANGED held
  /\ UNCHANGED <<running, compiles, sessions, restarting, replaying, todoCompiles,
                 todoSessions, reopened, dropped, toPage, fromWorker>>

-----------------------------------------------------------------------------
(* Worker to page. *)

\* A heartbeat only starts the silence clock again.
Progressed ==
  /\ fromWorker # <<>> /\ Head(fromWorker).type = "progressed"
  /\ fromWorker' = Tail(fromWorker)
  /\ watchdog' = Owes(inFlight, running)
  /\ UNCHANGED <<inFlight, running, compiles, sessions, restarting, held, replaying,
                 todoCompiles, todoSessions, reopened, dropped, toRelay, toPage, toWorker>>

\* A mutant: a reply without a state counts as stopped.
TrackRunningEager(m, named) ==
  LET session == IF m.session # None THEN m.session ELSE named
  IN IF m.state = "running" THEN running \cup {session} ELSE running \ {session}

\* `trackRunning`: the sessions that owe frames once m, answering a request
\* that named session named, is handled.
TrackRunning(m, named) ==
  LET session == IF m.session # None THEN m.session ELSE named
  IN CASE m.state = "running" -> running \cup ({session} \ {None})
       [] m.state = "stopped" \/ m.type = "closed" -> running \ {session}
       [] OTHER -> running

\* Mutants: nothing is ever forgotten; any success counts as a compile's.
RememberForever(request, m) ==
  /\ compiles' = compiles \cup (IF m.type = "compiled" THEN {request.compile} ELSE {})
  /\ sessions' = IF m.type = "opened"
                 THEN [sessions EXCEPT ![request.session] = request.compile] ELSE sessions
\* `remember`: keep what a new worker would need to get back to here.
Remember(request, m) ==
  /\ compiles' = CASE request.type = "compile" /\ m.type = "compiled" ->
                        compiles \cup {request.compile}
                   [] request.type = "release" /\ m.type = "released" ->
                        compiles \ {request.compile}
                   [] OTHER -> compiles
  /\ sessions' = CASE request.type = "open" /\ m.type = "opened" ->
                        [sessions EXCEPT ![request.session] = request.compile]
                   [] request.type = "close" /\ m.type = "closed" ->
                        [sessions EXCEPT ![request.session] = None]
                   [] OTHER -> sessions

\* A reply to a request in flight; one to nothing in flight is ignored.
ForwardReply ==
  /\ fromWorker # <<>>
  /\ LET m == Head(fromWorker)
     IN /\ m.type # "progressed" /\ m.id \in PageIds
        /\ fromWorker' = Tail(fromWorker)
        /\ IF \E request \in inFlight : request.id = m.id
           THEN \E request \in inFlight :
                  /\ request.id = m.id
                  /\ inFlight' = inFlight \ {request}
                  /\ running' = TrackRunning(m, request.session)
                  /\ Remember(request, m)
                  /\ watchdog' = Owes(inFlight', running')
                  /\ toPage' = Append(toPage, m)
           ELSE UNCHANGED <<inFlight, running, compiles, sessions, watchdog, toPage>>
  /\ UNCHANGED <<restarting, held, replaying, todoCompiles, todoSessions, reopened,
                 dropped, toRelay, toWorker>>

\* A frame of an auto-running session: no id, no request.
ForwardFrame ==
  /\ fromWorker # <<>>
  /\ LET m == Head(fromWorker)
     IN /\ m.type = "updated" /\ m.id = NoId
        /\ fromWorker' = Tail(fromWorker)
        /\ running' = TrackRunning(m, None)
        /\ watchdog' = Owes(inFlight, running')
        /\ toPage' = Append(toPage, m)
  /\ UNCHANGED <<inFlight, compiles, sessions, restarting, held, replaying, todoCompiles,
                 todoSessions, reopened, dropped, toRelay, toWorker>>

-----------------------------------------------------------------------------
(* Restart and replay. *)

\* What the restart posts next: compiles first, then sessions.
NextReplays(tc, ts, table) ==
  IF tc # {}
  THEN {CompileRequest(ReplayId, c) : c \in tc}
  ELSE {OpenRequest(ReplayId, s, table[s]) : s \in ts}

\* The end of `restart`: a frame per reopened session, one `restarted`, and
\* the held requests go to the new worker.
Finish(before, ro, dr) ==
  /\ \E frames \in SetToSeqs({Frame(s, "stopped") : s \in ro}) :
       toPage' = before \o frames \o <<Restarted(ro, dr)>>
  /\ inFlight' = Range(held)
  /\ watchdog' = (held # <<>>)
  /\ toWorker' = held
  /\ restarting' = FALSE
  /\ held' = <<>>
  /\ replaying' = None
  /\ todoCompiles' = {} /\ todoSessions' = {} /\ reopened' = {} /\ dropped' = {}

\* Post one more replay, or finish when there is nothing left to replay.
\* before: what the page has been sent so far.  waiting: the new `held`.
Continue(before, tc, ts, table, ro, dr) ==
  IF tc = {} /\ ts = {}
  THEN Finish(before, ro, dr)
  ELSE /\ \E r \in NextReplays(tc, ts, table) :
            /\ replaying' = r
            /\ toWorker' = <<r>>
            /\ todoCompiles' = tc \ {r.compile}
            /\ todoSessions' = ts \ {r.session}
       /\ toPage' = before
       /\ reopened' = ro /\ dropped' = dr
       /\ restarting' = TRUE
       /\ inFlight' = {} /\ watchdog' = FALSE
       /\ UNCHANGED held

\* A mutant: only one request fails, and the rest are forgotten.
OnlyOne(flight) == {<<r.id>> : r \in flight}

\* The ids of what is in flight, oldest first, as the Map iterates.
OldestFirst(flight) ==
  {order \in SetToSeqs({r.id : r \in flight}) :
     \A j, k \in DOMAIN order : j < k => order[j] < order[k]}

\* The watchdog: everything in flight fails (the oldest as timed-out, the rest
\* as restarted), the worker is replaced and replay begins.
OnSilence ==
  /\ watchdog
  /\ running' = {}
  /\ fromWorker' = <<>>
  /\ \E order \in OldestFirst(inFlight) :
       Continue(toPage \o [k \in DOMAIN order |-> Failed(order[k])],
                compiles, OpenSessions(sessions), sessions, {}, {})
  /\ UNCHANGED <<compiles, sessions, toRelay>>

\* The worker answered the replay it was sent: a compile that fails is
\* forgotten, a session that does not open is dropped.
Replayed ==
  /\ fromWorker # <<>> /\ Head(fromWorker).id = ReplayId
  /\ Head(fromWorker).type # "progressed"
  /\ fromWorker' = Tail(fromWorker)
  /\ LET m == Head(fromWorker)
         lost == m.type # "opened"
         s == replaying.session
     IN \/ /\ replaying.type = "compile"
           /\ compiles' = IF m.type = "failed" THEN compiles \ {replaying.compile} ELSE compiles
           /\ Continue(toPage, todoCompiles, todoSessions, sessions, reopened, dropped)
           /\ UNCHANGED sessions
        \/ /\ replaying.type = "open"
           /\ sessions' = IF lost THEN [sessions EXCEPT ![s] = None] ELSE sessions
           /\ Continue(toPage, todoCompiles, todoSessions, sessions',
                       IF lost THEN reopened ELSE reopened \cup {s},
                       IF lost THEN dropped \cup {s} ELSE dropped)
           /\ UNCHANGED compiles
  /\ UNCHANGED <<running, toRelay>>

\* Mutants: the hung replay is tried again; earlier drops are forgotten.
ReplayAgain ==
  /\ replaying # None
  /\ fromWorker' = <<>>
  /\ Continue(toPage, compiles, OpenSessions(sessions), sessions, {}, dropped)
  /\ UNCHANGED <<compiles, sessions, running, toRelay>>
ReplayTimeoutForgets ==
  /\ replaying # None
  /\ fromWorker' = <<>>
  /\ compiles' = IF replaying.type = "compile"
                 THEN compiles \ {replaying.compile} ELSE compiles
  /\ sessions' = [s \in Sessions |-> IF s = replaying.session THEN None ELSE sessions[s]]
  /\ Continue(toPage, compiles', OpenSessions(sessions'), sessions', {},
              {replaying.session} \ {None})
  /\ UNCHANGED <<running, toRelay>>

\* The replay hung as well: it is dropped, and replay starts over on a fresh
\* worker because this one is busy.
ReplayTimeout ==
  /\ replaying # None
  /\ fromWorker' = <<>>
  /\ compiles' = IF replaying.type = "compile"
                 THEN compiles \ {replaying.compile} ELSE compiles
  /\ sessions' = IF replaying.type = "open"
                 THEN [sessions EXCEPT ![replaying.session] = None] ELSE sessions
  /\ Continue(toPage, compiles', OpenSessions(sessions'), sessions', {},
              dropped \cup ({replaying.session} \ {None}))
  /\ UNCHANGED <<running, toRelay>>

RelayNext ==
  \/ Receive \/ Progressed \/ ForwardReply \/ ForwardFrame
  \/ OnSilence \/ Replayed \/ ReplayTimeout

RelayTypeOK ==
  /\ inFlight \subseteq PageRequest /\ running \subseteq Sessions
  /\ watchdog \in BOOLEAN /\ restarting \in BOOLEAN
  /\ compiles \subseteq Compiles
  /\ sessions \in [Sessions -> Compiles \cup {None}]
  /\ held \in Seq(PageRequest)
  /\ replaying \in ReplayRequest \cup {None}
  /\ todoCompiles \subseteq Compiles /\ todoSessions \subseteq Sessions
  /\ reopened \subseteq Sessions /\ dropped \subseteq Sessions

=============================================================================
