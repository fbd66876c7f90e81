-------------------------- MODULE SandboxProtocol --------------------------
(***************************************************************************)
(* The messages between the page, the sandbox iframe's relay and the       *)
(* worker's session host (packages/sandbox/src/protocol.ts), and the four  *)
(* channels they travel on.  postMessage is reliable and first-in          *)
(* first-out, so a channel is a sequence.                                  *)
(*                                                                         *)
(* Payloads (source text, circuits, port values) are left out.  A request  *)
(* is its id, its type and the compile or session it names; a reply is the *)
(* id it answers, its type, the session it names, and, when it carries a   *)
(* SessionUpdate, whether that update says the session is auto-running.    *)
(***************************************************************************)
EXTENDS Integers, Sequences, FiniteSets

CONSTANTS
  Compiles,     \* compile ids the page may make up
  Sessions,     \* session ids the page may make up
  None,         \* "no such field"
  MaxRequests,  \* bound: the user calls nothing once so many ids are used up
  OpTypes       \* the session requests the user issues, besides open and close

SessionOps == {"run", "pause", "op", "scan"}

ASSUME ProtocolAssumption ==
  /\ None \notin Compiles
  /\ None \notin Sessions
  /\ MaxRequests \in Nat
  /\ OpTypes \subseteq SessionOps
  /\ IsFiniteSet(Compiles) /\ IsFiniteSet(Sessions)

(***************************************************************************)
(* Request ids.  `nextId` counts up, so a page id is a number from 1; the  *)
(* relay's own replay requests are "replay-<n>", at most one of which is   *)
(* ever outstanding, so they share one id; a pushed frame has no id.       *)
(***************************************************************************)
PageIds  == Nat \ {0}
ReplayId == 0
NoId     == -1

\* "op" stands for set, toggle, tick, step-back, step-forward, seek, reset and
\* sample: the reply carries the session's state and leaves auto-run as it was.
\* "pause" stands for pause and restart, which stop auto-run; "scan" replies
\* with no state at all.
RequestTypes == {"compile", "release", "open", "close"} \cup SessionOps

Request ==
  {r \in [id: {ReplayId} \cup PageIds, type: RequestTypes,
          compile: Compiles \cup {None}, session: Sessions \cup {None}] :
     IF r.type \in {"compile", "release"} THEN r.compile # None ELSE r.session # None}

PageRequest   == {r \in Request : r.id \in PageIds}
ReplayRequest == {r \in Request : r.id = ReplayId /\ r.type \in {"compile", "open"}}

ASSUME NoneAssumption == None \notin Request

States == {"none", "running", "stopped"}

ReplyTypes == {"compiled", "released", "opened", "updated", "scanned",
               "closed", "failed", "progressed"}

Reply ==
  [id: {NoId, ReplayId} \cup PageIds, type: ReplyTypes,
   session: Sessions \cup {None}, state: States]

\* A mutant: sessions that were given up are not named.
RestartedReopenedOnly(reopened, lost) ==
  [type |-> "restarted", sessions |-> reopened, dropped |-> {}]

\* Pushed by the relay when a restart has replayed everything, and by the
\* iframe when it can take requests.
Restarted(reopened, lost) ==
  [type |-> "restarted", sessions |-> reopened, dropped |-> lost]
Ready == [type |-> "ready"]

PageMessage ==
  Reply \cup [type: {"restarted"}, sessions: SUBSET Sessions, dropped: SUBSET Sessions]
        \cup {Ready}

\* Whether a page-bound message answers request i.
Answers(m, i) == m.type \notin {"restarted", "ready"} /\ m.id = i

Frame(s, state) == [id |-> NoId, type |-> "updated", session |-> s, state |-> state]
Failed(i)       == [id |-> i, type |-> "failed", session |-> None, state |-> "none"]

CompileRequest(i, c) == [id |-> i, type |-> "compile", compile |-> c, session |-> None]
ReleaseRequest(i, c) == [id |-> i, type |-> "release", compile |-> c, session |-> None]
OpenRequest(i, s, c) == [id |-> i, type |-> "open", compile |-> c, session |-> s]
OpRequest(i, t, s)   == [id |-> i, type |-> t, compile |-> None, session |-> s]

-----------------------------------------------------------------------------
VARIABLES
  toRelay,     \* page -> iframe
  toPage,      \* iframe -> page
  toWorker,    \* relay -> the current worker
  fromWorker   \* the current worker -> relay

channels == <<toRelay, toPage, toWorker, fromWorker>>

ChannelsTypeOK ==
  /\ toRelay \in Seq(PageRequest) /\ toPage \in Seq(PageMessage)
  /\ toWorker \in Seq(Request) /\ fromWorker \in Seq(Reply)

=============================================================================
