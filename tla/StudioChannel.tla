--------------------------- MODULE StudioChannel ---------------------------
(***************************************************************************)
(* The sockets between browser tabs and the studio servers of one          *)
(* assistant process (packages/mcp/src/server/ws-server.ts on the host's   *)
(* side, apps/web/src/hooks/useMCPConnection.ts on the page's).            *)
(*                                                                         *)
(* A socket delivers in order.  Its two ends learn that it is gone one at  *)
(* a time, in either order, and what is under way when it breaks is lost.  *)
(* A socket's id is used again once both ends are done with it.            *)
(*                                                                         *)
(* A push is a source with how its run starts; a start is the inputs and   *)
(* memory a push brings.  The id of a render request is the show_circuit   *)
(* call that awaits it.                                                    *)
(***************************************************************************)
EXTENDS Naturals, Sequences, FiniteSets, SequencesExt

CONSTANTS
  None,
  Tabs,     \* browser tabs, each with the session id it made up
  Servers,  \* studio servers the process may create
  Calls,    \* show_circuit calls
  Conns,    \* sockets
  Sources,  \* sources shown
  Starts,   \* what a run may start with
  NoStart,  \* no inputs and no memory
  Shown,    \* call -> the pushes it may be called with
  MaxFaults \* bound: sockets broken, pages closed and opened again, previews closed

ASSUME StudioAssumption ==
  /\ None \notin Tabs \cup Servers \cup Calls \cup Conns \cup Sources
  /\ None \notin [src : Sources, start : Starts]
  /\ NoStart \in Starts
  /\ Shown \in [Calls -> SUBSET [src : Sources, start : Starts]]
  /\ MaxFaults \in Nat

Pushes == [src : Sources, start : Starts]

\* The first server that finds it free listens on the well-known port, any
\* other on one of its own.
WellKnown == "well-known"
Ports == {WellKnown} \cup Servers

ToTab  == [push : Pushes, call : Calls \cup {None}]
Register == [type |-> "register"]
Result(call, ok) == [type |-> "render-result", call |-> call, ok |-> ok]
Results == {Result(call, ok) : call \in Calls, ok \in BOOLEAN}
ToServer == {Register} \cup Results

VARIABLES
  conns,
  faults  \* how often that has happened

Fault == faults < MaxFaults /\ faults' = faults + 1

ConnType ==
  [tab        : Tabs \cup {None},
   port       : Ports \cup {None},
   page       : {"none", "connecting", "open", "closed"},  \* the page's end
   host       : Servers \cup {None},                       \* the server whose end is open
   state      : {"up", "closing", "cut"},  \* "closing": the server asked to close
   registered : BOOLEAN,                   \* the server's `sessionId` is set
   toTab      : Seq(ToTab),
   toServer   : Seq(ToServer)]

Unused ==
  [tab |-> None, port |-> None, page |-> "none", host |-> None, state |-> "up",
   registered |-> FALSE, toTab |-> <<>>, toServer |-> <<>>]

ChannelInit == conns = [c \in Conns |-> Unused] /\ faults = 0

\* What `send` does on the server: a socket that is not open any more, or whose
\* other end is gone, swallows the message.
SendToTab(sock, message) ==
  IF sock.page = "open" /\ sock.state = "up"
  THEN [sock EXCEPT !.toTab = Append(@, message)]
  ELSE sock

SendToServer(sock, message) ==
  IF sock.page = "open" /\ sock.state = "up"
  THEN [sock EXCEPT !.toServer = Append(@, message)]
  ELSE sock

\* The page's end is closed; the id is free if the server's is too.
PageClosed(sock) ==
  IF sock.host = None THEN Unused ELSE [sock EXCEPT !.page = "closed", !.toTab = <<>>]

\* The server's end is closed.
HostClosed(sock) ==
  IF sock.page = "closed"
  THEN Unused
  ELSE [sock EXCEPT !.host = None, !.toServer = <<>>, !.registered = FALSE,
                    !.state = IF @ = "up" THEN "closing" ELSE @]

\* The connection breaks: neither end knows yet, and what is under way is lost.
Break ==
  /\ Fault
  /\ \E c \in Conns :
       /\ conns[c].page = "open" /\ conns[c].host # None /\ conns[c].state = "up"
       /\ conns' = [conns EXCEPT ![c].state = "cut", ![c].toTab = <<>>, ![c].toServer = <<>>]

=============================================================================
