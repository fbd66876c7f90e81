----------------------------- MODULE StudioTab -----------------------------
(***************************************************************************)
(* A browser tab of the studio: its connection                             *)
(* (apps/web/src/hooks/useMCPConnection.ts) and the editor that compiles   *)
(* and opens what is pushed and answers for it                             *)
(* (apps/web/src/features/visual-editor/components/EditorWorkspace.tsx).   *)
(*                                                                         *)
(* Of the hook that compiles and opens (UseSimulation models it) there is  *)
(* what the editor sees: the compile of the newest source succeeds or      *)
(* fails, every compile and every change of start is opened in place of    *)
(* the open before, and a new source leaves an open under way alone.       *)
(* React's render and effects belong to the step that causes them.         *)
(***************************************************************************)
EXTENDS StudioChannel

CONSTANTS
  Broken,      \* sources that do not compile
  Misfits,     \* pairs of source and start that do not open: a key names nothing
  MaxAttempts  \* MAX_RECONNECT_ATTEMPTS

ASSUME TabAssumption ==
  /\ Broken \subseteq Sources /\ Misfits \subseteq Pushes /\ MaxAttempts \in Nat

VARIABLES
  tabs,
  saved  \* ports whose parameters are in the local storage of the page they serve

tabVars == <<tabs, saved>>

TabType ==
  [state     : {"absent", "live", "gone"},
   port      : Ports \cup {None},          \* connectionRef
   ws        : Conns \cup {None},          \* wsRef
   attempts  : 0..MaxAttempts,
   retry     : BOOLEAN,                    \* the retry timer is set
   code      : Sources \cup {None},
   start     : Starts,
   awaited   : Calls \cup {None},          \* pendingRenderRef
   compiling : BOOLEAN,                    \* a compile of `code` is due or under way
   compiled  : Sources \cup {None},
   opening   : Pushes \cup {None},         \* the open not cancelled
   shown     : Pushes \cup {None},         \* the open session
   compileError : BOOLEAN,
   openError : BOOLEAN]

NoTab ==
  [state |-> "absent", port |-> None, ws |-> None, attempts |-> 0, retry |-> FALSE,
   code |-> None, start |-> NoStart, awaited |-> None, compiling |-> FALSE,
   compiled |-> None, opening |-> None, shown |-> None,
   compileError |-> FALSE, openError |-> FALSE]

TabInit == tabs = [t \in Tabs |-> NoTab] /\ saved = {}

-----------------------------------------------------------------------------
(* Connection *)

FreeConn(c) == conns[c] = Unused

\* connect: the socket there is, if any, is closed, and a new one opened.
Connect(t, port, c) ==
  /\ FreeConn(c)
  /\ conns' = [d \in Conns |->
                 IF d = c THEN [Unused EXCEPT !.tab = t, !.port = port, !.page = "connecting"]
                 ELSE IF d = tabs[t].ws THEN PageClosed(conns[d]) ELSE conns[d]]

\* The page loads, with the port and token of its address or with those saved,
\* and saves them.
Load(t, port, c) ==
  /\ tabs[t].state = "absent"
  /\ Connect(t, port, c)
  /\ tabs' = [tabs EXCEPT ![t].state = "live", ![t].port = port, ![t].ws = c]
  /\ saved' = saved \cup {port}

\* The socket is accepted by the server that listens on the port; the page
\* registers.
Accepted(c, s) ==
  /\ conns[c].page = "connecting"
  /\ conns' = [conns EXCEPT ![c].page = "open", ![c].host = s, ![c].toServer = <<Register>>]
  /\ tabs' = [tabs EXCEPT ![conns[c].tab].attempts = 0]
  /\ UNCHANGED saved

\* onclose: try again later, or forget the port once every attempt is used.
OnClose(t) ==
  IF tabs[t].port # None /\ tabs[t].attempts < MaxAttempts
  THEN /\ tabs' = [tabs EXCEPT ![t].ws = None, ![t].attempts = @ + 1, ![t].retry = TRUE]
       /\ UNCHANGED saved
  ELSE /\ tabs' = [tabs EXCEPT ![t].ws = None, ![t].attempts = 0, ![t].port = None]
       /\ saved' = saved \ {tabs[t].port}

\* The page learns that its socket is closed or was never accepted.
PageClose(c) ==
  /\ \/ conns[c].page = "connecting"
     \/ conns[c].page = "open" /\ conns[c].state = "cut"
     \/ conns[c].page = "open" /\ conns[c].state = "closing" /\ conns[c].toTab = <<>>
  /\ conns' = [conns EXCEPT ![c] = PageClosed(@)]
  /\ OnClose(conns[c].tab)

\* The retry timer.
Retry(t, c) ==
  /\ tabs[t].retry
  /\ IF tabs[t].port = None
     THEN tabs' = [tabs EXCEPT ![t].retry = FALSE] /\ UNCHANGED conns
     ELSE /\ Connect(t, tabs[t].port, c)
          /\ tabs' = [tabs EXCEPT ![t].retry = FALSE, ![t].ws = c]
  /\ UNCHANGED saved

\* The user closes the tab.
CloseTab(t) ==
  /\ tabs[t].state = "live"
  /\ tabs' = [tabs EXCEPT ![t] = [NoTab EXCEPT !.state = "gone"]]
  /\ conns' = [c \in Conns |->
                 IF conns[c].tab = t /\ conns[c].page \in {"connecting", "open"}
                 THEN PageClosed(conns[c]) ELSE conns[c]]
  /\ UNCHANGED saved

-----------------------------------------------------------------------------
(* Editor *)

\* A new start is opened at once on the last compile.
Restarted(tab, start) ==
  IF tab.start = start
  THEN tab
  ELSE [tab EXCEPT !.start = start,
                   !.opening = IF tab.compiled = None THEN @
                               ELSE [src |-> tab.compiled, start |-> start]]

\* onSource: changeSource, and a recompile when the source is the same.
Receive(c) ==
  LET sock == conns[c]
      t == sock.tab
      message == Head(sock.toTab)
  IN /\ sock.page = "open" /\ sock.toTab # <<>>
     /\ conns' = [conns EXCEPT ![c].toTab = Tail(@)]
     /\ tabs' = [tabs EXCEPT ![t] =
                   [Restarted(@, message.push.start) EXCEPT
                      !.code = message.push.src, !.awaited = message.call, !.compiling = TRUE]]
     /\ UNCHANGED saved

\* sendRenderResult, for the render that is awaited.  tab: the tab after the step.
AnswerRender(t, tab, ok) ==
  /\ tabs' = [tabs EXCEPT ![t] = [tab EXCEPT !.awaited = None]]
  /\ conns' = IF tab.awaited = None \/ tab.ws = None THEN conns
              ELSE [conns EXCEPT ![tab.ws] = SendToServer(@, Result(tab.awaited, ok))]
  /\ UNCHANGED saved

NoAnswer(t, tab) ==
  /\ tabs' = [tabs EXCEPT ![t] = tab]
  /\ UNCHANGED <<conns, saved>>

\* The newest source compiled: it is opened.  An open error that the compile
\* error hid is now the one reported, and taken for a new failure.
CompileSucceeds(t) ==
  LET tab == tabs[t]
      after == [tab EXCEPT !.compiling = FALSE, !.compiled = tab.code, !.compileError = FALSE,
                           !.opening = [src |-> tab.code, start |-> tab.start]]
  IN /\ tab.compiling /\ tab.code \notin Broken
     /\ IF tab.compileError /\ tab.openError THEN AnswerRender(t, after, FALSE)
        ELSE NoAnswer(t, after)

CompileFails(t) ==
  /\ tabs[t].compiling /\ tabs[t].code \in Broken
  /\ AnswerRender(t, [tabs[t] EXCEPT !.compiling = FALSE, !.compileError = TRUE], FALSE)

\* A mutant: the error of the open before is left.
OpenedOnly(tab) == [tab EXCEPT !.opening = None, !.shown = tab.opening]

\* A session is open.
Opened(tab) == [tab EXCEPT !.opening = None, !.shown = tab.opening, !.openError = FALSE]

OpenSucceeds(t) ==
  /\ tabs[t].opening # None /\ tabs[t].opening \notin Misfits
  /\ AnswerRender(t, Opened(tabs[t]), TRUE)

\* While there is a compile error it is the one reported, and an open error
\* changes nothing the editor sees.
OpenFails(t) ==
  LET after == [tabs[t] EXCEPT !.opening = None, !.openError = TRUE]
  IN /\ tabs[t].opening \in Misfits
     /\ IF tabs[t].compileError THEN NoAnswer(t, after) ELSE AnswerRender(t, after, FALSE)

=============================================================================
