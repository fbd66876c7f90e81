------------------------------ MODULE Sandbox ------------------------------
(***************************************************************************)
(* The whole sandbox: the page's client, the iframe's relay and the worker *)
(* it starts, stops and replaces, over their four channels.                *)
(*                                                                         *)
(* `restart` terminates the old worker before it starts the next one.      *)
(* Terminating a worker empties the port between them in both directions   *)
(* (HTML, "terminate a worker"), so nothing of an old worker is left.      *)
(***************************************************************************)
EXTENDS SandboxClient, Relay, Worker

vars == <<clientVars, relayVars, workerVars, channels>>

Init ==
  /\ ClientInit /\ RelayInit /\ WorkerInit
  /\ toRelay = <<>> /\ toPage = <<>> /\ toWorker = <<>> /\ fromWorker = <<>>

ClientStep == ClientNext /\ UNCHANGED <<relayVars, workerVars>>

RelayStep ==
  /\ ~disposed
  /\ Receive \/ Progressed \/ ForwardReply \/ ForwardFrame \/ Replayed
  /\ UNCHANGED <<clientVars, workerVars>>

\* The steps that replace the worker.
RestartStep ==
  /\ ~disposed
  /\ OnSilence \/ ReplayTimeout
  /\ FreshWorker
  /\ UNCHANGED clientVars

WorkerStep ==
  /\ ~disposed
  /\ WorkerNext
  /\ UNCHANGED <<clientVars, relayVars>>

\* Removing the iframe ends the relay and the worker in it.
DisposeStep ==
  /\ Dispose
  /\ RelayGone
  /\ FreshWorker

Next == ClientStep \/ RelayStep \/ RestartStep \/ WorkerStep \/ DisposeStep

Spec == Init /\ [][Next]_vars

-----------------------------------------------------------------------------
(* Properties *)

\* Every variable has its type.
TypeOK == ClientTypeOK /\ RelayTypeOK /\ WorkerTypeOK /\ ChannelsTypeOK

\* Outside a restart the silence timer is set exactly when the worker owes a
\* response or frames: no silence goes unwatched and an idle worker is never
\* restarted.  During a restart it is off, so that no second restart can begin
\* inside the first, which would wait on the same `held` and worker.
WatchdogArmed ==
  /\ ~restarting => (watchdog = (inFlight # {} \/ running # {}))
  /\ restarting => ~watchdog /\ inFlight = {} /\ running = {}

\* During a restart the worker is sent replays only and so runs nothing: no
\* frame or heartbeat of its sets the silence timer again.  Outside one it is
\* sent requests of the page only: no reply of its can pass for the answer to a
\* replay, nor one left over from a replay for the answer to a call.
Work == IF restarting THEN ReplayRequest ELSE PageRequest
Said == IF restarting
        THEN {m \in Reply : m.id = ReplayId /\ m.state # "running" /\ m.type # "progressed"}
        ELSE {m \in Reply : m.id # ReplayId}

WorkerSeesOneSide ==
  /\ toWorker \in Seq(Work) /\ taken \subseteq Work /\ fromWorker \in Seq(Said)
  /\ restarting <=> replaying # None
  /\ restarting => wRunning = {}

\* A restart awaits one replay at a time, so nothing of the replays is left in
\* the worker when it ends.  (What makes WorkerSeesOneSide inductive.)
OneReplayOut ==
  restarting =>
    \/ Len(toWorker) = 1 /\ taken = {} /\ fromWorker = <<>>
    \/ toWorker = <<>> /\ (\E r \in taken : taken = {r}) /\ fromWorker = <<>>
    \/ toWorker = <<>> /\ taken = {} /\ Len(fromWorker) = 1

\* The request id a message carries, if any.
IdOf(m) == IF m.type \in {"ready", "restarted"} THEN NoId ELSE m.id

\* The ids of the messages in one place, each copy marked with where it is.
Copies(place, msgs) ==
  {<<place, k, IdOf(msgs[k])>> : k \in {j \in DOMAIN msgs : IdOf(msgs[j]) # NoId}}

\* Every request id the page's side of the system still holds, and the worker's.
PageCopies ==
  Copies("queued", queued) \cup Copies("toRelay", toRelay) \cup Copies("held", held)
    \cup {<<"inFlight", r, r.id>> : r \in inFlight} \cup Copies("toPage", toPage)
WorkerCopies ==
  Copies("toWorker", toWorker) \cup {<<"taken", r, r.id>> : r \in taken}
    \cup Copies("fromWorker", fromWorker)

\* The copies are of these ids, one of each.
OneOfEach(copies, ids) ==
  /\ {c[3] : c \in copies} = ids
  /\ \A c, d \in copies : c[3] = d[3] => c = d

\* Every call the page awaits is owed by exactly one place: waiting for ready,
\* on its way, held by a restart, in flight, or answered by a reply on its
\* way.  And what the relay takes to be in flight, or replayed, is exactly what
\* the current worker has got.  So no call is lost, answered twice or answered
\* by a worker that is gone, whatever restarts come between.
EveryCallOwedOnce ==
  /\ OneOfEach(PageCopies, Ids(pending))
  /\ OneOfEach(WorkerCopies,
               Ids(inFlight) \cup (IF replaying = None THEN {} ELSE {ReplayId}))

\* A notice that ends the handle of s is on its way, or will be when the
\* restart finishes.
EndComing(s) ==
  \/ s \in dropped
  \/ \E k \in DOMAIN toPage :
       \/ toPage[k].type = "restarted" /\ s \in toPage[k].dropped
       \/ toPage[k].type = "closed" /\ \E r \in pending :
            r.id = toPage[k].id /\ r.session = s

\* A handle the page shows as alive has its session in the relay's replay
\* table, or hears of its end: the page never keeps a handle on a session that
\* no restart would bring back.
HandlesAreBacked == \A s \in Live : sessions[s] # None \/ EndComing(s)

\* Outside a restart, what the table would replay is what the worker holds:
\* every session in it, and every compile, but for one whose end the worker
\* has already answered; and the worker holds no other session, but for one
\* whose opening it has answered.
TableMatchesWorker ==
  ~restarting =>
    /\ \A s \in Sessions :
         LET said(type) == \E k \in DOMAIN fromWorker : \E r \in inFlight :
               fromWorker[k].type = type /\ r.id = fromWorker[k].id /\ r.session = s
         IN /\ sessions[s] # None => s \in wSessions \/ said("closed")
            /\ s \in wSessions => sessions[s] # None \/ said("opened")
    /\ \A c \in compiles :
         c \in wCompiles \/ \E r \in inFlight : r.type = "release" /\ r.compile = c

\* When no call or message is outstanding, page, relay and worker agree on
\* which sessions auto-run: no stale frame, lost reply or restart leaves the
\* page showing a run that has stopped, or the relay waiting for its frames.
Quiet ==
  /\ pending = {} /\ ~restarting /\ ~disposed
  /\ toPage = <<>> /\ fromWorker = <<>>
RunStatesAgree ==
  Quiet => /\ running = wRunning
           /\ \A s \in Live : view[s] = (s \in running)

\* A step within a restart keeps the sessions it began with among those in the
\* table and those given up, and the step that ends it names them all.
AccountsForAll ==
  /\ restarting /\ restarting' =>
       OpenSessions(sessions') \cup dropped' = OpenSessions(sessions) \cup dropped
  /\ restarting /\ ~restarting' /\ ~disposed' =>
       LET m == Last(toPage')
       IN /\ m.type = "restarted" /\ m.sessions \cap m.dropped = {}
          /\ m.sessions \cup m.dropped = OpenSessions(sessions) \cup dropped
          /\ m.sessions = OpenSessions(sessions')

\* A restart accounts for every session that was open when it began: each one
\* is named in the message that ends it, reopened or dropped and never both,
\* however often replay starts over.
RestartAccountsForAll == [][AccountsForAll]_vars

\* A restart comes to an end.
RestartEnds == restarting ~> ~restarting

\* Every call of the page settles.
EveryCallSettles ==
  \A i \in 1 .. MaxRequests + 2 * Cardinality(OwnedCompiles) :
    i \in Ids(pending) ~> i \notin Ids(pending)

-----------------------------------------------------------------------------
(* Fairness: the event loops of page, iframe and worker take the messages  *)
(* that wait for them, a timer that stays set fires, and the worker        *)
(* answers unless it is stuck.  The silence timer is set again by every    *)
(* message, so it is fair only while the worker is silent.  The iframe may *)
(* never load, users may never call, and user code may or may not hang.    *)
ClientReceives == ReceiveReady \/ ReceiveRestarted \/ ReceiveFrame \/ ReceiveReply

FairSpec ==
  /\ Spec
  /\ WF_vars(ClientReceives /\ UNCHANGED <<relayVars, workerVars>>)
  /\ WF_vars(MarkUnavailable /\ UNCHANGED <<relayVars, workerVars>>)
  /\ WF_vars(RelayStep /\ Receive)
  /\ WF_vars(RelayStep /\ (Progressed \/ ForwardReply \/ ForwardFrame \/ Replayed))
  /\ WF_vars(RestartStep /\ fromWorker = <<>> /\ OnSilence)
  /\ WF_vars(RestartStep /\ fromWorker = <<>> /\ ReplayTimeout)
  /\ WF_vars(WorkerStep /\ Take)
  /\ WF_vars(WorkerStep /\ Answer)

=============================================================================
