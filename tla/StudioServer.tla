---------------------------- MODULE StudioServer ----------------------------
(***************************************************************************)
(* The assistant process's side of the studio: the server of               *)
(* packages/mcp/src/server/ws-server.ts, the singleton that holds it       *)
(* (lib/preview-singleton.ts) and the show_circuit tool that creates,      *)
(* uses and closes it (tools/show.ts).                                     *)
(*                                                                         *)
(* Tool calls run concurrently: each is one task up to its first await,    *)
(* creating a server takes a while, and so does a render.                  *)
(***************************************************************************)
EXTENDS StudioChannel

VARIABLES
  studio,         \* studioServer: the current server, or None
  browserOpened,  \* the latch of the singleton
  servers,        \* server -> its state
  calls,          \* show_circuit call -> how far it is
  launching       \* ports a browser was started for whose page has not loaded

serverVars == <<studio, browserOpened, servers, calls, launching>>

ServerType ==
  [state    : {"none", "up", "closed"},
   port     : Ports \cup {None},
   sessions : Seq(Tabs),                     \* the keys of `sessions`, oldest first
   socket   : [Tabs -> Conns \cup {None}],   \* the `ws` of each
   active   : Tabs \cup {None},              \* lastActiveSessionId
   current  : Pushes \cup {None},            \* currentPush
   slot     : Calls \cup {None},             \* pendingConnectRender
   pending  : SUBSET Calls]                  \* the keys of pendingRequests

NoServer ==
  [state |-> "none", port |-> None, sessions |-> <<>>, socket |-> [t \in Tabs |-> None],
   active |-> None, current |-> None, slot |-> None, pending |-> {}]

\* "waiting" for a render that is to be confirmed, "done" once the tool has its
\* result, whichever it is.
CallType ==
  [at   : {"idle", "creating", "waiting", "done"},
   push : Pushes \cup {None}]

ServerInit ==
  /\ studio = None /\ browserOpened = FALSE
  /\ servers = [s \in Servers |-> NoServer]
  /\ calls = [call \in Calls |-> [at |-> "idle", push |-> None]]
  /\ launching = {}

Up(s) == servers[s].state = "up"

Message(push, call) == [push |-> push, call |-> call]

-----------------------------------------------------------------------------
(* show_circuit *)

Await(call, push) == [calls EXCEPT ![call] = [at |-> "waiting", push |-> push]]
Answer(call) == [calls EXCEPT ![call].at = "done"]

\* getTargetSession: the session pushed to when the caller names none.
Target(server) ==
  IF server.active # None
  THEN IF server.active \in ToSet(server.sessions) THEN server.active ELSE None
  ELSE IF server.sessions = <<>> THEN None ELSE Head(server.sessions)

\* updateSourceAndAwait: to a tab that is connected.
UpdateSourceAndAwait(s, call, push) ==
  LET target == Target(servers[s])
  IN /\ IF target = None
        THEN /\ calls' = [calls EXCEPT ![call] = [at |-> "done", push |-> push]]
             /\ servers' = [servers EXCEPT ![s].current = push]
             /\ UNCHANGED conns
        ELSE /\ calls' = Await(call, push)
             /\ servers' = [servers EXCEPT ![s].current = push, ![s].pending = @ \cup {call}]
             /\ conns' = [conns EXCEPT ![servers[s].socket[target]] =
                            SendToTab(@, Message(push, call))]
     /\ UNCHANGED <<browserOpened, launching>>

\* A mutant: the slot keeps the call it has.
ConnectKeepingSlot(server, call, push) ==
  [server EXCEPT !.current = push, !.pending = @ \cup {call},
                 !.slot = IF @ = None THEN call ELSE @]

\* The state updateSourceAndAwaitConnect leaves.
ConnectSlot(server, call, push) ==
  [server EXCEPT !.current = push, !.pending = @ \cup {call}, !.slot = call]

\* openBrowser: only once until the latch is reset.
OpenBrowser(port) ==
  IF browserOpened
  THEN UNCHANGED <<browserOpened, launching>>
  ELSE browserOpened' = TRUE /\ launching' = launching \cup {port}

\* updateSourceAndAwaitConnect and openBrowser: to a tab that is to connect.
\* server: the state of the server before.
UpdateSourceAndAwaitConnect(s, server, call, push) ==
  /\ calls' = Await(call, push)
  /\ servers' = [servers EXCEPT ![s] = ConnectSlot(server, call, push)]
  /\ OpenBrowser(server.port)
  /\ UNCHANGED conns

\* A call that finds a server: pushAndAwait.
Show(call, push) ==
  /\ calls[call].at = "idle" /\ studio # None
  /\ IF servers[studio].sessions # <<>>
     THEN UpdateSourceAndAwait(studio, call, push)
     ELSE UpdateSourceAndAwaitConnect(studio, servers[studio], call, push)
  /\ UNCHANGED studio

\* A call that finds none starts to create one.
ShowFirst(call, push) ==
  /\ calls[call].at = "idle" /\ studio = None
  /\ calls' = [calls EXCEPT ![call].at = "creating", ![call].push = push]
  /\ UNCHANGED <<studio, browserOpened, servers, launching, conns>>

PortTaken == \E s \in Servers : Up(s) /\ servers[s].port = WellKnown

\* Its server listens: it becomes the singleton, whatever was, and the call
\* pushes to it.
Created(call, s) ==
  /\ calls[call].at = "creating" /\ servers[s].state = "none"
  /\ studio' = s
  /\ UpdateSourceAndAwaitConnect(
       s, [NoServer EXCEPT !.state = "up", !.port = IF PortTaken THEN s ELSE WellKnown],
       call, calls[call].push)

\* The timer of either kind of request.
RenderTimeout(call) ==
  \E s \in Servers :
    /\ call \in servers[s].pending
    /\ servers' = [servers EXCEPT ![s].pending = @ \ {call},
                                  ![s].slot = IF @ = call THEN None ELSE @]
    /\ calls' = Answer(call)
    /\ UNCHANGED <<studio, browserOpened, launching, conns>>

\* show_circuit with close: the requests are forgotten, the registered sockets
\* closed.  A socket that has not registered stays.
ClosePreview ==
  /\ studio # None
  /\ servers' = [servers EXCEPT ![studio].state = "closed", ![studio].pending = {},
                                ![studio].sessions = <<>>,
                                ![studio].socket = [t \in Tabs |-> None]]
  /\ conns' = [c \in Conns |->
                 IF \E t \in Tabs : servers[studio].socket[t] = c /\ conns[c].state = "up"
                 THEN [conns[c] EXCEPT !.state = "closing"] ELSE conns[c]]
  /\ studio' = None /\ browserOpened' = FALSE
  /\ UNCHANGED <<calls, launching>>

-----------------------------------------------------------------------------
(* Messages and closes *)

\* sessions.set: a key that is there keeps its place.
Put(server, tab, c) ==
  [server EXCEPT !.sessions = IF tab \in ToSet(@) THEN @ ELSE Append(@, tab),
                 !.socket[tab] = c,
                 !.active = tab]

\* A mutant: the slot is left set.
SlotKept(server) == server

\* The slot once a tab has been sent the push.
SlotTaken(server) ==
  IF server.current # None THEN [server EXCEPT !.slot = None] ELSE server

\* A tab registers: it is the active one, and is sent the last push, with the
\* render request that waits for a tab, if there is one.
ReceiveRegister(c) ==
  LET sock == conns[c]
      server == servers[sock.host]
      received == [sock EXCEPT !.toServer = Tail(@), !.registered = TRUE]
  IN /\ sock.host # None /\ sock.toServer # <<>> /\ Head(sock.toServer) = Register
     /\ servers' = [servers EXCEPT ![sock.host] = SlotTaken(Put(server, sock.tab, c))]
     /\ conns' = [conns EXCEPT ![c] =
                    IF server.current = None THEN received
                    ELSE SendToTab(received, Message(server.current, server.slot))]
     /\ UNCHANGED <<studio, browserOpened, calls, launching>>

\* A tab answers a render request: only the first answer in time counts.
ReceiveResult(c) ==
  LET sock == conns[c]
      s == sock.host
  IN /\ s # None /\ sock.toServer # <<>> /\ Head(sock.toServer) # Register
     /\ conns' = [conns EXCEPT ![c].toServer = Tail(@)]
     /\ LET result == Head(sock.toServer)
        IN IF result.call \in servers[s].pending
           THEN /\ servers' = [servers EXCEPT ![s].pending = @ \ {result.call}]
                /\ calls' = Answer(result.call)
           ELSE UNCHANGED <<servers, calls>>
     /\ UNCHANGED <<studio, browserOpened, launching>>

\* Mutants: the active session is left as it was; the session stays listed.
DroppedOnly(server, tab) ==
  [server EXCEPT !.sessions = RemoveFirst(@, tab), !.socket[tab] = None]

ActiveOnly(server, tab) ==
  [server EXCEPT !.active = IF @ # tab THEN @
                            ELSE IF server.sessions = <<>> THEN None ELSE Last(server.sessions)]

\* A session is deleted: the last one left becomes active in its place.
Dropped(server, tab) ==
  LET left == IF tab \in ToSet(server.sessions) THEN RemoveFirst(server.sessions, tab)
              ELSE server.sessions
  IN [server EXCEPT !.sessions = left, !.socket[tab] = None,
                    !.active = IF @ # tab THEN @
                               ELSE IF left = <<>> THEN None ELSE Last(left)]

\* The server sees a socket close: it deletes the session of the socket's tab,
\* and resets the latch when none is left.
HostClose(c) ==
  LET sock == conns[c]
      s == sock.host
  IN /\ s # None
     /\ \/ sock.page = "closed" /\ sock.toServer = <<>>
        \/ sock.state # "up"
     /\ conns' = [conns EXCEPT ![c] = HostClosed(@)]
     /\ IF sock.registered
        THEN LET after == Dropped(servers[s], sock.tab)
             IN /\ servers' = [servers EXCEPT ![s] = after]
                /\ browserOpened' = IF after.sessions = <<>> THEN FALSE ELSE browserOpened
        ELSE UNCHANGED <<servers, browserOpened>>
     /\ UNCHANGED <<studio, calls, launching>>

=============================================================================
