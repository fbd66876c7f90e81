--------------------------- MODULE UseSimulation ---------------------------
(***************************************************************************)
(* The React hook of packages/react/src/sandbox/useSimulation.ts: it       *)
(* compiles the newest source, opens a session on what compiled, and frees *)
(* what it no longer needs.  One sandbox client serves it throughout.      *)
(*                                                                         *)
(* A reply of the sandbox is a task of its own.  The state a task sets is  *)
(* rendered, and the effects that depend on it run, in a later task that   *)
(* React schedules: `Render`.  Replies may come in between.                *)
(*                                                                         *)
(* Of the sandbox there is what a hook can tell: which compiles the next   *)
(* request will find, which sessions are open, that a call may fail, and   *)
(* that a restart brings back what it can.  Requests arrive in the order   *)
(* they are sent and an open looks its compile up on arrival, so whether   *)
(* it will find it is known on sending, unless a restart comes in between. *)
(* A release or close that a restart overtakes is the Sandbox modules'     *)
(* matter: here what was sent has been done.                               *)
(* Sources and options are numbered as they come.  A compile is known by   *)
(* its generation.                                                         *)
(***************************************************************************)
EXTENDS Integers

CONSTANTS
  None,
  BuiltSources,  \* sources that are circuits built on the page; the others are text
  MaxSource,     \* bound: sources the page shows
  MaxOptions,    \* bound: changes of initialInputs, memory, history or choice
  MaxCompiles    \* bound: compile calls

Compiles == [gen : Nat \ {0}, src : Nat]
Sessions == [gen : Nat \ {0}, src : Nat, opts : Nat]
CompileCalls == [gen : Nat \ {0}, src : Nat, retried : BOOLEAN]
OpenCalls == [gen : Nat \ {0}, src : Nat, opts : Nat, cancelled : BOOLEAN, found : BOOLEAN]

ASSUME HookAssumption ==
  /\ None \notin Compiles \cup Sessions
  /\ MaxSource \in Nat /\ MaxOptions \in Nat /\ MaxCompiles \in Nat

VARIABLES
  source,       \* the source last rendered; 0 before there is one
  opts,         \* the options last rendered
  mounted,
  timer,        \* the debounce timer is set
  generation,
  calls,        \* compiles called and not answered
  compiled,     \* the last compile set as state
  shown,        \* the compile the last render had
  held,         \* generations this hook holds in the sandbox
  opening,      \* opens called and not answered
  live,         \* the open session
  compileError,
  openError,
  present,      \* generations the next request to the sandbox will find
  sessions      \* this hook's sessions open in the sandbox

errors == <<compileError, openError>>
vars == <<source, opts, mounted, timer, generation, calls, compiled, shown, held, opening,
          live, errors, present, sessions>>

Init ==
  /\ source = 0 /\ opts = 0 /\ mounted = TRUE
  /\ timer = FALSE /\ generation = 0
  /\ calls = {} /\ compiled = None /\ shown = None
  /\ held = {} /\ opening = {} /\ live = None
  /\ compileError = FALSE /\ openError = FALSE
  /\ present = {} /\ sessions = {}

-----------------------------------------------------------------------------
(* Compile *)

Call(src, retried) == [gen |-> generation + 1, src |-> src, retried |-> retried]

\* `compile`: a new generation.  others: the calls still to be answered.
Compile(src, retried, others) ==
  /\ generation < MaxCompiles
  /\ generation' = generation + 1
  /\ calls' = others \cup {Call(src, retried)}

\* A mutant: a result is used however old it is.
AnyAge(call) == TRUE

\* No compile has started since.
Newest(call) == call.gen = generation

\* The answer to a compile when a newer one has started: it is ignored, and
\* what it compiled is freed.
DropStale ==
  /\ \E call \in calls : ~Newest(call) /\ calls' = calls \ {call}
  /\ UNCHANGED <<source, opts, mounted, timer, generation, compiled, shown, held, opening,
                 live, errors, present, sessions>>

\* The newest compile succeeded.
CompileSucceeds ==
  \E call \in calls :
    /\ Newest(call)
    /\ calls' = calls \ {call}
    /\ held' = held \cup {call.gen} /\ present' = present \cup {call.gen}
    /\ compiled' = [gen |-> call.gen, src |-> call.src]
    /\ compileError' = FALSE
    /\ UNCHANGED <<source, opts, mounted, timer, generation, shown, opening, live, openError,
                   sessions>>

\* The newest compile failed, with a restart of the sandbox or by itself.
CompileFails ==
  /\ \E call \in calls :
       /\ Newest(call)
       /\ \/ /\ ~call.retried
             /\ Compile(call.src, TRUE, calls \ {call})
             /\ UNCHANGED compileError
          \/ /\ calls' = calls \ {call}
             /\ compileError' = TRUE
             /\ UNCHANGED generation
  /\ UNCHANGED <<source, opts, mounted, timer, compiled, shown, held, opening, live,
                 openError, present, sessions>>

\* The debounce is over.
Debounced ==
  /\ timer /\ timer' = FALSE
  /\ Compile(source, FALSE, calls)
  /\ UNCHANGED <<source, opts, mounted, compiled, shown, held, opening, live, errors,
                 present, sessions>>

\* `recompile` does not wait for it, and leaves it set.
Recompile ==
  /\ mounted /\ source > 0 /\ source \notin BuiltSources
  /\ Compile(source, FALSE, calls)
  /\ UNCHANGED <<source, opts, mounted, timer, compiled, shown, held, opening, live, errors,
                 present, sessions>>

-----------------------------------------------------------------------------
(* Render *)

\* A change of source: the timer of the old one is cleared, and the new one is
\* compiled, at once if it is a circuit and after the debounce if it is text.
SourceEffect ==
  IF source' = source
  THEN UNCHANGED <<timer, generation, calls>>
  ELSE IF source' \in BuiltSources
  THEN Compile(source', FALSE, calls) /\ timer' = FALSE
  ELSE timer' = TRUE /\ UNCHANGED <<generation, calls>>

\* A mutant: the open before is not cancelled.
NoneCancelled == opening

\* The cleanup of the open effect.
Cancelled == {[o EXCEPT !.cancelled = TRUE] : o \in opening}

\* A change of compile or options: the open before is cancelled, and the circuit
\* chosen from the compile is opened, if it has one.
OpenEffect ==
  IF shown' = shown /\ opts' = opts
  THEN UNCHANGED <<opening, compileError>>
  ELSE \/ shown' = None /\ opening' = Cancelled /\ UNCHANGED compileError
       \/ /\ shown' # None
          /\ opening' = Cancelled \cup
               {[gen |-> shown'.gen, src |-> shown'.src, opts |-> opts',
                 cancelled |-> FALSE, found |-> shown'.gen \in present]}
          /\ UNCHANGED compileError
       \/ shown' # None /\ opening' = Cancelled /\ compileError' = TRUE

\* The hook renders with the props of its page and the state it has, and then
\* its effects run.
Render ==
  /\ mounted
  /\ source' \in {source, source + 1} /\ source' <= MaxSource
  /\ opts' \in {opts, opts + 1} /\ opts' <= MaxOptions
  /\ shown' = compiled
  /\ <<source', opts', shown'>> # <<source, opts, shown>>
  /\ SourceEffect
  /\ OpenEffect
  /\ UNCHANGED <<mounted, compiled, held, live, openError, present, sessions>>

-----------------------------------------------------------------------------
(* Open *)

Session(o) == [gen |-> o.gen, src |-> o.src, opts |-> o.opts]

\* Mutants: nothing is freed; what is to be kept is freed.
KeepAll(keep) == UNCHANGED <<held, present>>
ReleaseOnly(keep) == held' = held \ keep /\ present' = present \ keep

\* `releaseExcept`
ReleaseExcept(keep) ==
  /\ held' = held \cap keep
  /\ present' = present \ (held \ keep)

\* An open no longer wanted resolved: its session is closed again.
CloseCancelled ==
  /\ \E o \in opening : o.cancelled /\ opening' = opening \ {o}
  /\ UNCHANGED <<source, opts, mounted, timer, generation, calls, compiled, shown, held,
                 live, errors, present, sessions>>

\* The session becomes the live one and replaces the one before, and every
\* other compile is freed.
OpenSucceeds ==
  \E o \in opening :
    /\ o.found /\ ~o.cancelled
    /\ opening' = opening \ {o}
    /\ live' = Session(o)
    /\ sessions' = (sessions \ {live}) \cup {Session(o)}
    /\ openError' = FALSE
    /\ ReleaseExcept({o.gen})
    /\ UNCHANGED <<source, opts, mounted, timer, generation, calls, compiled, shown,
                   compileError>>

\* An open failed: the circuit does not settle, the sandbox restarted, or it has
\* no such compile.
OpenFails ==
  /\ \E o \in opening :
       /\ ~o.cancelled
       /\ opening' = opening \ {o}
  /\ openError' = TRUE
  /\ UNCHANGED <<source, opts, mounted, timer, generation, calls, compiled, shown, held,
                 live, compileError, present, sessions>>

\* A restart of the sandbox is over.  A compile that failed or hung as it was
\* replayed is lost, and so may any session be, those of a lost compile for
\* certain.  An open sent meanwhile finds what is left.
Restarted ==
  \E lost \in SUBSET present :
    /\ present' = present \ lost
    /\ \E kept \in SUBSET {s \in sessions : s.gen \notin lost} : sessions' = kept
    /\ opening' = {IF o.gen \in lost THEN [o EXCEPT !.found = FALSE] ELSE o : o \in opening}
    /\ UNCHANGED <<source, opts, mounted, timer, generation, calls, compiled, shown, held,
                   live, errors>>

\* The cleanups of every effect.
Unmount ==
  /\ mounted /\ mounted' = FALSE
  /\ timer' = FALSE
  /\ opening' = Cancelled
  /\ generation' = generation + 1
  /\ sessions' = sessions \ {live}
  /\ live' = None
  /\ ReleaseExcept({})
  /\ UNCHANGED <<source, opts, calls, compiled, shown, errors>>

Next ==
  \/ DropStale \/ CompileSucceeds \/ CompileFails \/ Debounced \/ Recompile
  \/ Render
  \/ CloseCancelled \/ OpenSucceeds \/ OpenFails \/ Restarted
  \/ Unmount

Spec == Init /\ [][Next]_vars

-----------------------------------------------------------------------------
(* Properties *)

\* Every variable has its type.
TypeOK ==
  /\ source \in Nat /\ opts \in Nat /\ mounted \in BOOLEAN /\ timer \in BOOLEAN
  /\ generation \in Nat
  /\ calls \subseteq CompileCalls /\ opening \subseteq OpenCalls
  /\ compiled \in Compiles \cup {None} /\ shown \in Compiles \cup {None}
  /\ held \subseteq Nat /\ present \subseteq Nat
  /\ live \in Sessions \cup {None} /\ sessions \subseteq Sessions
  /\ compileError \in BOOLEAN /\ openError \in BOOLEAN

\* However many compiles and opens came and went, the hook has not released the
\* compile of the session on show, and as long as that session is open in the
\* sandbox its compile is there too, to export from and for the next restart to
\* reopen it from.  A restart may lose either, and both (relay.ts:211, 227).
LiveIsHeld ==
  live # None => live.gen \in held /\ (live \in sessions => live.gen \in present)

\* Nothing is under way and the last state has been rendered.
Quiet == calls = {} /\ opening = {} /\ ~timer /\ (mounted => shown = compiled)
Fine == ~compileError /\ ~openError

\* At rest and with no error to show, the session on show is of the newest
\* source, with the newest options.
ShowsNewest ==
  Quiet /\ mounted /\ Fine /\ source > 0 =>
    live # None /\ live.src = source /\ live.opts = opts

\* At rest the hook has left nothing in the sandbox but the session it shows and
\* the compile of it, what a restart lost excepted, and once unmounted nothing
\* at all.
NothingLeftBehind ==
  Quiet /\ (Fine \/ ~mounted) =>
    /\ sessions \subseteq {live} \ {None}
    /\ present \subseteq IF live = None THEN {} ELSE {live.gen}

\* A late reply never brings back an older source, or older options.
NeverGoesBack ==
  [][live # None /\ live' # None =>
       \/ live'.gen > live.gen
       \/ live'.gen = live.gen /\ live'.opts >= live.opts]_vars

=============================================================================
