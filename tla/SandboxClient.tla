--------------------------- MODULE SandboxClient ---------------------------
(***************************************************************************)
(* The page's side: SandboxClient (packages/sandbox/src/sandbox-client.ts) *)
(* and the SimulationClient handles it opens (simulation-client.ts), with  *)
(* the user's calls as actions.                                            *)
(*                                                                         *)
(* A call that awaits a reply continues in the microtasks of the task that *)
(* receives it, so `Receive` is one action: it settles the call and does   *)
(* what the awaiting code does next (an `open` that had to compile first   *)
(* sends its open request; an `open` that fails frees the compile it       *)
(* owns; a `close` ends its handle however it settles).                    *)
(***************************************************************************)
EXTENDS SandboxProtocol, SequencesExt

CONSTANT OwnedCompiles  \* compile ids that `open` makes for a circuit of the page

ASSUME OwnedAssumption == OwnedCompiles \subseteq Compiles

VARIABLES
  status,     \* "loading", "ready" or "unavailable"
  disposed,
  loaded,     \* the iframe has run and sent its ready signal
  used,       \* the last request id handed out
  pending,    \* requests awaiting a response
  queued,     \* requests waiting for ready
  compiled,   \* compiles whose Compiled object the page got
  ownerOf,    \* session -> the compile its `open` owns, or None
  handle,     \* session -> what became of its id on the page
  view        \* session -> isRunning in the handle's state

clientVars == <<status, disposed, loaded, used, pending, queued, compiled, ownerOf,
                handle, view>>

\* "none": the id is not made up yet.  "opening": `open` is under way.
\* "failed": `open` rejected.  The others are SimulationClientState.status.
HandleStates == {"none", "opening", "failed", "open", "restarted", "closed"}
Live == {s \in Sessions : handle[s] \in {"open", "restarted"}}

ClientInit ==
  /\ status = "loading" /\ disposed = FALSE /\ loaded = FALSE
  /\ used = 0 /\ pending = {} /\ queued = <<>>
  /\ compiled = {}
  /\ ownerOf = [s \in Sessions |-> None]
  /\ handle = [s \in Sessions |-> "none"]
  /\ view = [s \in Sessions |-> FALSE]

-----------------------------------------------------------------------------
(* `request` *)

CanRequest == ~disposed /\ status # "unavailable"

\* The requests rs, a sequence, are numbered and sent, or queued until ready.
\* The calls in others are still awaited besides.
Send(rs, others) ==
  /\ used' = used + Len(rs)
  /\ pending' = others \cup {rs[k] : k \in DOMAIN rs}
  /\ IF status = "ready"
     THEN toRelay' = toRelay \o rs /\ UNCHANGED queued
     ELSE queued' = queued \o rs /\ UNCHANGED toRelay

\* A call of the user's.
Call(request) == CanRequest /\ used < MaxRequests /\ Send(<<request>>, pending)

\* Ids are made up once.  A compile that failed left nothing behind, so its id
\* stands for the next one.
NewCompile(c) ==
  /\ c \notin compiled
  /\ \A r \in pending : r.compile # c
  /\ \A s \in Sessions : ownerOf[s] # c

CompileSource(c) ==
  /\ c \notin OwnedCompiles /\ NewCompile(c)
  /\ Call(CompileRequest(used + 1, c))
  /\ UNCHANGED <<status, disposed, loaded, compiled, ownerOf, handle, view,
                 toPage, toWorker, fromWorker>>

\* `release`: nothing waits for the reply.
Release(c) ==
  /\ c \in compiled
  /\ Call(ReleaseRequest(used + 1, c))
  /\ UNCHANGED <<status, disposed, loaded, compiled, ownerOf, handle, view,
                 toPage, toWorker, fromWorker>>

\* `open` of a circuit of a compile the page holds.
OpenCompiled(s, c) ==
  /\ c \in compiled /\ handle[s] = "none"
  /\ Call(OpenRequest(used + 1, s, c))
  /\ handle' = [handle EXCEPT ![s] = "opening"]
  /\ UNCHANGED <<status, disposed, loaded, compiled, ownerOf, view,
                 toPage, toWorker, fromWorker>>

\* `open` of a circuit built on the page: its compile goes first.
OpenCircuit(s, c) ==
  /\ c \in OwnedCompiles /\ handle[s] = "none" /\ NewCompile(c)
  /\ Call(CompileRequest(used + 1, c))
  /\ handle' = [handle EXCEPT ![s] = "opening"]
  /\ ownerOf' = [ownerOf EXCEPT ![s] = c]
  /\ UNCHANGED <<status, disposed, loaded, compiled, view, toPage, toWorker, fromWorker>>

\* `SimulationClient.send`: any action clears a restart notice.
SessionCall(s, type) ==
  /\ type \in OpTypes /\ s \in Live
  /\ Call(OpRequest(used + 1, type, s))
  /\ handle' = [handle EXCEPT ![s] = "open"]
  /\ UNCHANGED <<status, disposed, loaded, compiled, ownerOf, view,
                 toPage, toWorker, fromWorker>>

\* `SimulationClient.close`: the handle ends when the request settles.
Close(s) ==
  /\ s \in Live
  /\ Call(OpRequest(used + 1, "close", s))
  /\ UNCHANGED <<status, disposed, loaded, compiled, ownerOf, handle, view,
                 toPage, toWorker, fromWorker>>

-----------------------------------------------------------------------------
(* `receive` *)

TakeMessage == toPage # <<>> /\ ~disposed /\ toPage' = Tail(toPage)

Ids(rs) == {r.id : r \in rs}

\* `end`: a handle that ends frees the compile its `open` owns.  others: the
\* calls still awaited.
End(gone, others) ==
  \E order \in SetToSeqs({ownerOf[s] : s \in gone} \ {None}) :
    Send([k \in 1 .. Len(order) |-> ReleaseRequest(used + k, order[k])], others)

\* `ready`, the first time or after the client gave up: what waited is sent.
ReceiveReady ==
  /\ TakeMessage /\ Head(toPage).type = "ready"
  /\ status' = "ready"
  /\ toRelay' = toRelay \o queued
  /\ queued' = <<>>
  /\ UNCHANGED <<disposed, loaded, used, pending, compiled, ownerOf, handle, view,
                 toWorker, fromWorker>>

ReceiveRestarted ==
  /\ TakeMessage /\ Head(toPage).type = "restarted"
  /\ LET m == Head(toPage)
         gone == m.dropped \cap Live
         back == (m.sessions \cap Live) \ gone
     IN /\ handle' = [s \in Sessions |->
                        IF s \in gone THEN "closed"
                        ELSE IF s \in back THEN "restarted" ELSE handle[s]]
        /\ view' = [s \in Sessions |-> view[s] /\ s \notin gone \cup back]
        /\ End(gone, pending)
  /\ UNCHANGED <<status, disposed, loaded, compiled, ownerOf, toWorker, fromWorker>>

\* A frame of a session whose handle listens.
ReceiveFrame ==
  /\ TakeMessage
  /\ LET m == Head(toPage)
     IN /\ m.type = "updated" /\ m.id = NoId
        /\ view' = IF m.session \in Live
                   THEN [view EXCEPT ![m.session] = (m.state = "running")] ELSE view
  /\ UNCHANGED <<status, disposed, loaded, used, pending, queued, compiled, ownerOf,
                 handle, toRelay, toWorker, fromWorker>>

\* The `open` waiting for the compile it owns.
Opener(c) == {s \in Sessions : handle[s] = "opening" /\ ownerOf[s] = c}

SettleCompile(request, ok) ==
  LET others == pending \ {request}
      openers == Opener(request.compile)
  IN /\ compiled' = IF ok /\ openers = {} THEN compiled \cup {request.compile} ELSE compiled
     /\ handle' = [s \in Sessions |-> IF s \in openers /\ ~ok THEN "failed" ELSE handle[s]]
     /\ Send(IF ok THEN [k \in 1 .. Cardinality(openers) |->
                           OpenRequest(used + 1, CHOOSE s \in openers : TRUE, request.compile)]
             ELSE <<>>, others)
     /\ UNCHANGED view

\* A failed open frees the compile it owns.
SettleOpen(request, ok) ==
  LET others == pending \ {request}
      s == request.session
  IN /\ handle' = [handle EXCEPT ![s] = IF ok THEN "open" ELSE "failed"]
     /\ Send(IF ~ok /\ ownerOf[s] # None
             THEN <<ReleaseRequest(used + 1, ownerOf[s])>> ELSE <<>>, others)
     /\ UNCHANGED <<view, compiled>>

\* `close` ends the handle whether the request succeeded or failed.
SettleClose(request) ==
  /\ LET gone == {request.session} \cap Live
     IN /\ handle' = [s \in Sessions |-> IF s \in gone THEN "closed" ELSE handle[s]]
        /\ view' = [s \in Sessions |-> view[s] /\ s \notin gone]
        /\ End(gone, pending \ {request})
  /\ UNCHANGED compiled

\* A call's reply carries the session's state, unless it is a scan; a handle
\* that has ended ignores it.
SettleOther(request, m) ==
  /\ view' = IF m.state # "none" /\ request.session \in Live
             THEN [view EXCEPT ![request.session] = (m.state = "running")] ELSE view
  /\ Send(<<>>, pending \ {request})
  /\ UNCHANGED <<handle, compiled>>

\* The response to a call still awaited; any other is ignored.
ReceiveReply ==
  /\ TakeMessage
  /\ LET m == Head(toPage)
     IN /\ m.type \notin {"ready", "restarted"} /\ m.id # NoId
        /\ \/ \E request \in pending :
                /\ request.id = m.id
                /\ CASE request.type = "compile" -> SettleCompile(request, m.type = "compiled")
                     [] request.type = "open"    -> SettleOpen(request, m.type = "opened")
                     [] request.type = "close"   -> SettleClose(request)
                     [] OTHER                    -> SettleOther(request, m)
           \/ /\ m.id \notin Ids(pending)
              /\ UNCHANGED <<used, pending, queued, compiled, handle, view, toRelay>>
  /\ UNCHANGED <<status, disposed, loaded, ownerOf, toWorker, fromWorker>>

-----------------------------------------------------------------------------
(* Loading, giving up and disposing *)

IframeLoads ==
  /\ ~loaded /\ ~disposed
  /\ loaded' = TRUE
  /\ toPage' = Append(toPage, Ready)
  /\ UNCHANGED <<status, disposed, used, pending, queued, compiled, ownerOf, handle, view,
                 toRelay, toWorker, fromWorker>>

\* `failAll`: every call awaited is rejected, an `open` under way with it.
FailAll ==
  /\ pending' = {} /\ queued' = <<>>
  /\ handle' = [s \in Sessions |-> CASE handle[s] = "opening" -> "failed"
                                     [] disposed' /\ s \in Live -> "closed"
                                     [] OTHER -> handle[s]]
  /\ view' = [s \in Sessions |-> view[s] /\ ~disposed']

\* `markUnavailable`, when the ready timer fires before `ready`.
MarkUnavailable ==
  /\ status = "loading" /\ ~disposed
  /\ status' = "unavailable" /\ disposed' = FALSE
  /\ FailAll
  /\ UNCHANGED <<loaded, used, compiled, ownerOf, channels>>

\* `dispose` fails every call, closes every handle and removes the iframe, and
\* with it the relay, the worker and every message on its way.
Dispose ==
  /\ ~disposed /\ disposed' = TRUE
  /\ FailAll
  /\ toRelay' = <<>> /\ toPage' = <<>> /\ toWorker' = <<>> /\ fromWorker' = <<>>
  /\ UNCHANGED <<status, loaded, used, compiled, ownerOf>>

ClientNext ==
  \/ \E c \in Compiles : CompileSource(c) \/ Release(c)
  \/ \E s \in Sessions, c \in Compiles : OpenCompiled(s, c) \/ OpenCircuit(s, c)
  \/ \E s \in Sessions : Close(s) \/ \E type \in OpTypes : SessionCall(s, type)
  \/ ReceiveReady \/ ReceiveRestarted \/ ReceiveFrame \/ ReceiveReply
  \/ IframeLoads \/ MarkUnavailable

ClientTypeOK ==
  /\ status \in {"loading", "ready", "unavailable"}
  /\ disposed \in BOOLEAN /\ loaded \in BOOLEAN
  /\ used \in Nat /\ pending \subseteq PageRequest /\ queued \in Seq(PageRequest)
  /\ compiled \subseteq Compiles
  /\ ownerOf \in [Sessions -> Compiles \cup {None}]
  /\ handle \in [Sessions -> HandleStates]
  /\ view \in [Sessions -> BOOLEAN]

=============================================================================
