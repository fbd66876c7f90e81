------------------------------- MODULE Studio -------------------------------
(***************************************************************************)
(* Tool calls, studio servers, sockets and browser tabs together.          *)
(***************************************************************************)
EXTENDS StudioServer, StudioTab

vars == <<conns, faults, serverVars, tabVars>>

Init == ChannelInit /\ ServerInit /\ TabInit

\* The server that a socket to this port reaches.
Listening(port) == {s \in Servers : Up(s) /\ servers[s].port = port}

\* The browser started for a port shows its page, or never does: it could not
\* be started, or its user closed it first.
TabLoads ==
  \E port \in launching :
    /\ launching' = launching \ {port}
    /\ \/ \E t \in Tabs, c \in Conns : Load(t, port, c)
       \/ UNCHANGED <<conns, tabVars>>
    /\ UNCHANGED <<faults, studio, browserOpened, servers, calls>>

\* The user opens the page again, with the parameters saved.
TabReturns ==
  /\ Fault
  /\ \E port \in saved, t \in Tabs, c \in Conns : Load(t, port, c)
  /\ UNCHANGED serverVars

ServerStep ==
  \/ \E call \in Calls : \E push \in Shown[call] : Show(call, push) \/ ShowFirst(call, push)
  \/ \E call \in Calls, s \in Servers : Created(call, s)
  \/ \E call \in Calls : RenderTimeout(call)
  \/ \E c \in Conns : ReceiveRegister(c) \/ ReceiveResult(c) \/ HostClose(c)

TabStep ==
  \/ \E c \in Conns : \E s \in Listening(conns[c].port) : Accepted(c, s)
  \/ \E c \in Conns : PageClose(c) \/ Receive(c)
  \/ \E t \in Tabs, c \in Conns : Retry(t, c)
  \/ \E t \in Tabs :
       \/ CompileSucceeds(t) \/ CompileFails(t) \/ OpenSucceeds(t) \/ OpenFails(t)

Next ==
  \/ TabLoads \/ TabReturns
  \/ ServerStep /\ UNCHANGED <<faults, tabVars>>
  \/ TabStep /\ UNCHANGED <<faults, serverVars>>
  \/ ClosePreview /\ Fault /\ UNCHANGED tabVars
  \/ (\E t \in Tabs : CloseTab(t)) /\ Fault /\ UNCHANGED serverVars
  \/ Break /\ UNCHANGED <<serverVars, tabVars>>

Spec == Init /\ [][Next]_vars

-----------------------------------------------------------------------------
(* Properties *)

\* Every variable has its type.
TypeOK ==
  /\ faults \in 0..MaxFaults
  /\ conns \in [Conns -> ConnType]
  /\ studio \in Servers \cup {None} /\ browserOpened \in BOOLEAN
  /\ servers \in [Servers -> ServerType] /\ calls \in [Calls -> CallType]
  /\ launching \subseteq Ports
  /\ tabs \in [Tabs -> TabType] /\ saved \subseteq Ports

\* A render that waits for a tab to open is of the push that tab will be sent,
\* its call is still waiting, and no tab is connected that it could have gone to.
SlotIsCurrent ==
  \A s \in Servers :
    LET server == servers[s]
    IN Up(s) /\ server.slot # None =>
         /\ server.slot \in server.pending
         /\ server.current = calls[server.slot].push
         /\ server.sessions = <<>>

\* A push with no tab named goes to a tab that is connected as long as there is
\* one, after any order of tabs registering and leaving.
PushHasTarget ==
  \A s \in Servers : Up(s) =>
    /\ servers[s].active \in ToSet(servers[s].sessions) \cup {None}
    /\ servers[s].active = None => servers[s].sessions = <<>>

\* A session's socket is one the server has not seen close, and is of the
\* session's tab.
SessionsAreOpen ==
  \A s \in Servers : \A t \in ToSet(servers[s].sessions) :
    LET c == servers[s].socket[t]
    IN c # None /\ conns[c].host = s /\ conns[c].tab = t /\ conns[c].registered

\* A render request never reaches a tab with another call's push.
RequestsCarryTheirPush ==
  \A c \in Conns : \A i \in 1..Len(conns[c].toTab) :
    LET message == conns[c].toTab[i]
    IN message.call # None => message.push = calls[message.call].push

Bad(push) == push.src \in Broken \/ push \in Misfits

\* The tab has nothing left to do.
Idle(t) ==
  /\ tabs[t].code # None /\ ~tabs[t].compiling /\ tabs[t].opening = None

\* A tab at rest shows the last push it got, or reports an error exactly if that
\* push is at fault, whatever was compiling and opening when it came.
ShowsLastPush ==
  \A t \in Tabs : Idle(t) =>
    LET push == [src |-> tabs[t].code, start |-> tabs[t].start]
    IN /\ tabs[t].compileError \/ tabs[t].openError <=> Bad(push)
       /\ Bad(push) \/ tabs[t].shown = push

\* A tab answers a render request with what became of its push ("answered once
\* its session opens, or when its compile or open fails").
AnswersAreTrue ==
  [][\A c \in Conns :
       Len(conns'[c].toServer) > Len(conns[c].toServer) /\ Last(conns'[c].toServer) # Register =>
         LET result == Last(conns'[c].toServer)
             push == calls[result.call].push
         IN IF result.ok THEN tabs'[conns[c].tab].shown = push ELSE Bad(push)]_vars

=============================================================================
