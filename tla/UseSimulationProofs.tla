------------------------ MODULE UseSimulationProofs ------------------------
(***************************************************************************)
(* Proofs about UseSimulation, for any number of sources, options and      *)
(* compiles: every property its run checks.                                *)
(***************************************************************************)
EXTENDS UseSimulation, TLAPS

USE HookAssumption DEF HookAssumption

\* Generations rise: at most one call is the newest, and what it compiles is
\* newer than what is set as state, which is no older than what was rendered.
Gens ==
  /\ \A call \in calls : call.gen <= generation
  /\ \A a, b \in calls : a.gen = b.gen => a = b
  /\ compiled # None =>
       /\ compiled.gen <= generation
       /\ \A call \in calls : Newest(call) => compiled.gen < generation
  /\ shown # None => compiled # None /\ shown.gen <= compiled.gen

\* At most one open is not cancelled, it is of the last render, and what it will
\* find is there and held.
Opens ==
  /\ \A o \in opening : ~o.cancelled =>
       /\ shown # None /\ o.gen = shown.gen /\ o.src = shown.src /\ o.opts = opts
       /\ o.found => o.gen \in held \cap present
  /\ \A o, p \in opening : ~o.cancelled /\ ~p.cancelled => o = p

\* The live session is no newer than the last render, and what is open in the
\* sandbox is this session and not without its compile.
Lives ==
  /\ live # None =>
       /\ shown # None /\ live.gen <= shown.gen /\ live.gen \in held
       /\ live.gen = shown.gen => live.opts <= opts
       /\ live.gen = compiled.gen => held \subseteq {live.gen}
  /\ sessions \subseteq {live} /\ \A s \in sessions : s.gen \in present

\* What the sandbox has of the hook's, the hook holds; a restart may have lost some.
Holds == present \subseteq held /\ (compiled = None => held = {})

\* The newest source is on its way, or failed, or is what compiled.
SourceComing ==
  mounted =>
    /\ \A call \in calls : Newest(call) => timer \/ call.src = source
    /\ source > 0 =>
         \/ timer \/ compileError
         \/ \E call \in calls : Newest(call)
         \/ compiled # None /\ compiled.src = source

\* What was rendered last is being opened, or failed to, or is live.
ShownComing ==
  mounted /\ shown # None /\ shown = compiled =>
    \/ compileError \/ openError
    \/ \E o \in opening : ~o.cancelled
    \/ live = [gen |-> shown.gen, src |-> shown.src, opts |-> opts]

\* Nothing is wanted any more.
Gone ==
  ~mounted =>
    /\ ~timer /\ held = {} /\ live = None
    /\ \A call \in calls : ~Newest(call)
    /\ \A o \in opening : o.cancelled

IInv ==
  TypeOK /\ Gens /\ Opens /\ Lives /\ Holds /\ SourceComing /\ ShownComing /\ Gone

-----------------------------------------------------------------------------
(* Facts about the helpers. *)

\* A compile that starts is the only newest call.
LEMMA CallStarts ==
  ASSUME TypeOK, Gens, NEW src \in Nat, NEW retried \in BOOLEAN, NEW others \in SUBSET calls,
         Compile(src, retried, others)
  PROVE  /\ generation' \in Nat /\ generation < generation'
         /\ calls' \subseteq CompileCalls
         /\ \A call \in calls' : call.gen <= generation'
         /\ \A call \in calls' : call.gen = generation' => call = Call(src, retried)
         /\ \A a, b \in calls' : a.gen = b.gen => a = b
         /\ Call(src, retried) \in calls'
         /\ Call(src, retried).gen = generation' /\ Call(src, retried).src = src
<1>1. generation \in Nat /\ generation' = generation + 1 /\ others \subseteq calls
  BY DEF TypeOK, Compile
<1>2. calls' = others \cup {Call(src, retried)}
  BY DEF Compile
<1>3. /\ Call(src, retried) \in CompileCalls
      /\ Call(src, retried).gen = generation' /\ Call(src, retried).src = src
  BY <1>1 DEF Call, CompileCalls
<1>4. \A call \in others : call \in CompileCalls /\ call.gen \in Nat /\ call.gen <= generation
  BY <1>1 DEF TypeOK, Gens, CompileCalls
<1>5. \A call \in others : call.gen < generation'
  BY <1>1, <1>4
<1>6. \A a, b \in others : a.gen = b.gen => a = b
  BY <1>1 DEF Gens
<1>7. calls' \subseteq CompileCalls
  BY <1>2, <1>3, <1>4
<1>8. \A call \in calls' :
       call = Call(src, retried) \/ (call \in others /\ call.gen < generation')
  BY <1>2, <1>5
<1>9. \A a, b \in calls' : a.gen = b.gen => a = b
  BY <1>3, <1>4, <1>6, <1>8, <1>1
<1>10. \A call \in calls' : call.gen <= generation'
  BY <1>3, <1>4, <1>8, <1>1
<1>11. \A call \in calls' : call.gen = generation' => call = Call(src, retried)
  BY <1>4, <1>8, <1>1
<1> QED
  BY <1>1, <1>2, <1>3, <1>7, <1>9, <1>10, <1>11

\* So generations still rise.
LEMMA CallStartsGens ==
  ASSUME TypeOK, Gens, NEW src \in Nat, NEW retried \in BOOLEAN, NEW others \in SUBSET calls,
         Compile(src, retried, others),
         compiled' = compiled, shown' = shown \/ shown' = compiled
  PROVE  Gens'
<1>1. compiled # None => compiled.gen \in Nat /\ compiled.gen < generation'
  BY CallStarts DEF TypeOK, Gens, Compiles
<1>2. shown' # None => compiled # None /\ shown'.gen <= compiled.gen
  BY <1>1 DEF Gens
<1> QED
  BY CallStarts, <1>1, <1>2 DEF Gens, Newest

\* The cleanup of the open effect leaves no open that is wanted.
LEMMA CancelledOpens ==
  ASSUME TypeOK
  PROVE  Cancelled \subseteq OpenCalls /\ \A o \in Cancelled : o.cancelled
BY DEF TypeOK, Cancelled, OpenCalls

-----------------------------------------------------------------------------
(* Every action keeps the invariant. *)

LEMMA DropStaleKeeps == ASSUME IInv, DropStale PROVE IInv'
<1>1. TypeOK'
  BY DEF IInv, TypeOK, errors, DropStale, Newest
<1>2. Gens'
  BY DEF IInv, Gens, TypeOK, errors, DropStale, Newest, CompileCalls, OpenCalls, Compiles,
         Sessions
<1>3. Opens'
  BY DEF IInv, Opens, TypeOK, Gens, Holds, errors, DropStale, Newest, CompileCalls, OpenCalls,
         Compiles, Sessions
<1>4. Lives'
  BY DEF IInv, Lives, TypeOK, Gens, Opens, Holds, errors, DropStale, Newest, CompileCalls,
         OpenCalls, Compiles, Sessions
<1>5. Holds'
  BY DEF IInv, Holds, TypeOK, Gens, errors, DropStale, Newest, CompileCalls, OpenCalls,
         Compiles, Sessions
<1>6. SourceComing'
  BY DEF IInv, SourceComing, TypeOK, Gens, errors, DropStale, Newest, CompileCalls, OpenCalls,
         Compiles, Sessions
<1>7. ShownComing'
  BY DEF IInv, ShownComing, TypeOK, Gens, Opens, errors, DropStale, Newest, CompileCalls,
         OpenCalls, Compiles, Sessions
<1>8. Gone'
  BY DEF IInv, Gone, TypeOK, Gens, SourceComing, errors, DropStale, Newest, CompileCalls,
         OpenCalls, Compiles, Sessions
<1> QED
  BY <1>1, <1>2, <1>3, <1>4, <1>5, <1>6, <1>7, <1>8 DEF IInv

LEMMA CompileSucceedsKeeps == ASSUME IInv, CompileSucceeds PROVE IInv'
<1>1. TypeOK'
  <2>1. PICK call \in calls :
          /\ calls' = calls \ {call}
          /\ held' = held \cup {call.gen} /\ present' = present \cup {call.gen}
          /\ compiled' = [gen |-> call.gen, src |-> call.src]
    BY DEF CompileSucceeds
  <2>2. call.gen \in Nat \ {0} /\ call.src \in Nat
    BY DEF IInv, TypeOK, CompileCalls
  <2>3. compiled' \in Compiles
    BY <2>1, <2>2 DEF Compiles
  <2> QED
    BY <2>1, <2>2, <2>3 DEF IInv, TypeOK, errors, CompileSucceeds
<1>2. Gens'
  BY DEF IInv, Gens, TypeOK, errors, CompileSucceeds, Newest, Compiles, CompileCalls, OpenCalls,
         Sessions
<1>3. Opens'
  BY DEF IInv, Opens, TypeOK, Gens, Holds, errors, CompileSucceeds, Newest, Compiles,
         CompileCalls, OpenCalls, Sessions
<1>4. Lives'
  BY DEF IInv, Lives, TypeOK, Gens, Opens, Holds, errors, CompileSucceeds, Newest, Compiles,
         CompileCalls, OpenCalls, Sessions
<1>5. Holds'
  BY DEF IInv, Holds, TypeOK, Gens, errors, CompileSucceeds, Newest, Compiles, CompileCalls,
         OpenCalls, Sessions
<1>6. SourceComing'
  BY DEF IInv, SourceComing, TypeOK, Gens, errors, CompileSucceeds, Newest, Compiles,
         CompileCalls, OpenCalls, Sessions
<1>7. ShownComing'
  BY DEF IInv, ShownComing, TypeOK, Gens, Opens, errors, CompileSucceeds, Newest, Compiles,
         CompileCalls, OpenCalls, Sessions
<1>8. Gone'
  BY DEF IInv, Gone, TypeOK, Gens, SourceComing, errors, CompileSucceeds, Newest, Compiles,
         CompileCalls, OpenCalls, Sessions
<1> QED
  BY <1>1, <1>2, <1>3, <1>4, <1>5, <1>6, <1>7, <1>8 DEF IInv

LEMMA CompileFailsKeeps == ASSUME IInv, CompileFails PROVE IInv'
<1>0. PICK call \in calls :
        /\ Newest(call)
        /\ \/ /\ ~call.retried
              /\ Compile(call.src, TRUE, calls \ {call})
              /\ UNCHANGED compileError
           \/ /\ calls' = calls \ {call}
              /\ compileError' = TRUE
              /\ UNCHANGED generation
  BY DEF CompileFails
<1>a. call.src \in Nat /\ calls \ {call} \in SUBSET calls
  BY DEF IInv, TypeOK, CompileCalls
<1>b. CASE Compile(call.src, TRUE, calls \ {call}) /\ UNCHANGED compileError
  <2>1. TypeOK'
    BY <1>a, <1>b, CallStarts DEF IInv, TypeOK, CompileFails
  <2>2. Gens'
    BY <1>a, <1>b, CallStartsGens DEF IInv, CompileFails
  <2>3. SourceComing'
    BY <1>0, <1>a, <1>b, CallStarts DEF IInv, SourceComing, CompileFails, Newest
  <2>4. Gone'
    BY <1>0 DEF IInv, Gone, CompileFails
  <2> QED
    BY <1>b, <2>1, <2>2, <2>3, <2>4
       DEF IInv, CompileFails, Opens, Lives, Holds, ShownComing
<1>c. CASE calls' = calls \ {call} /\ compileError' = TRUE /\ UNCHANGED generation
  <2>1. TypeOK'
    BY <1>c DEF IInv, TypeOK, CompileFails
  <2>2. Gens'
    BY <1>c DEF IInv, Gens, CompileFails, Newest
  <2>3. SourceComing'
    BY <1>c DEF IInv, SourceComing, CompileFails, Newest
  <2>4. Gone'
    BY <1>0 DEF IInv, Gone, CompileFails
  <2> QED
    BY <1>c, <2>1, <2>2, <2>3, <2>4
       DEF IInv, CompileFails, Opens, Lives, Holds, ShownComing
<1> QED
  BY <1>0, <1>b, <1>c

LEMMA DebouncedKeeps == ASSUME IInv, Debounced PROVE IInv'
<1>1. Compile(source, FALSE, calls) /\ source \in Nat /\ calls \in SUBSET calls
  BY DEF IInv, TypeOK, Debounced
<1>2. TypeOK'
  BY <1>1, CallStarts DEF IInv, TypeOK, errors, Debounced
<1>3. Gens'
  BY <1>1, CallStartsGens DEF IInv, Debounced
<1>4. Opens' /\ Lives' /\ Holds' /\ ShownComing'
  BY DEF IInv, Opens, Lives, Holds, ShownComing, errors, Debounced
<1>5. SourceComing'
  BY <1>1, CallStarts DEF IInv, SourceComing, errors, Debounced, Newest
<1>6. Gone'
  BY DEF IInv, Gone, Debounced
<1> QED
  BY <1>2, <1>3, <1>4, <1>5, <1>6 DEF IInv

LEMMA RecompileKeeps == ASSUME IInv, Recompile PROVE IInv'
<1>1. Compile(source, FALSE, calls) /\ source \in Nat /\ calls \in SUBSET calls
  BY DEF IInv, TypeOK, Recompile
<1>2. TypeOK'
  BY <1>1, CallStarts DEF IInv, TypeOK, errors, Recompile
<1>3. Gens'
  BY <1>1, CallStartsGens DEF IInv, Recompile
<1>4. Opens' /\ Lives' /\ Holds' /\ ShownComing'
  BY DEF IInv, Opens, Lives, Holds, ShownComing, errors, Recompile
<1>5. SourceComing'
  BY <1>1, CallStarts DEF IInv, SourceComing, errors, Recompile, Newest
<1>6. Gone'
  BY DEF IInv, Gone, Recompile
<1> QED
  BY <1>2, <1>3, <1>4, <1>5, <1>6 DEF IInv

LEMMA RenderKeeps == ASSUME IInv, Render PROVE IInv'
<1>1. /\ mounted /\ UNCHANGED <<mounted, compiled, held, live, openError, present, sessions>>
      /\ source' \in Nat /\ opts' \in Nat /\ opts <= opts' /\ shown' = compiled
      /\ source' = source \/ source' = source + 1
      /\ source \in Nat /\ opts \in Nat /\ calls \in SUBSET calls
      /\ opts' = opts \/ opts < opts'
  BY DEF IInv, TypeOK, Render
<1>2. \/ source' = source /\ UNCHANGED <<timer, generation, calls>>
      \/ source' # source /\ Compile(source', FALSE, calls) /\ timer' = FALSE
      \/ source' # source /\ timer' = TRUE /\ UNCHANGED <<generation, calls>>
  BY DEF Render, SourceEffect
<1> DEFINE new == [gen |-> shown'.gen, src |-> shown'.src, opts |-> opts',
                   cancelled |-> FALSE, found |-> shown'.gen \in present]
<1>3. \/ shown' = shown /\ opts' = opts /\ UNCHANGED <<opening, compileError>>
      \/ shown' = None /\ opening' = Cancelled /\ UNCHANGED compileError
      \/ shown' # None /\ opening' = Cancelled \cup {new} /\ UNCHANGED compileError
      \/ shown' # None /\ opening' = Cancelled /\ compileError' = TRUE
  BY DEF Render, OpenEffect
<1>4. shown' # None => new \in OpenCalls
  BY <1>1 DEF IInv, TypeOK, Compiles, OpenCalls
<1>5. opening' \subseteq OpenCalls /\ compileError' \in BOOLEAN
  BY <1>3, <1>4, CancelledOpens DEF IInv, TypeOK
<1>6. timer' \in BOOLEAN /\ generation' \in Nat /\ calls' \subseteq CompileCalls
  BY <1>1, <1>2, CallStarts DEF IInv, TypeOK
<1>7. TypeOK'
  BY <1>1, <1>5, <1>6 DEF IInv, TypeOK
<1>8. Gens'
  <2>1. CASE Compile(source', FALSE, calls)
    BY <1>1, <2>1, CallStartsGens DEF IInv
  <2>2. CASE UNCHANGED <<generation, calls>>
    BY <1>1, <2>2 DEF IInv, TypeOK, Gens, Newest, Compiles
  <2> QED
    BY <1>2, <2>1, <2>2
<1>9. Opens'
  <2>1. CASE shown' = shown /\ opts' = opts /\ UNCHANGED opening
    BY <1>1, <2>1 DEF IInv, Opens
  <2>2. CASE opening' = Cancelled
    BY <1>1, <2>2, CancelledOpens DEF IInv, Opens
  <2>3. CASE shown' # None /\ opening' = Cancelled \cup {new}
    <3>1. \A o \in opening' : ~o.cancelled => o = new
      BY <2>3, CancelledOpens DEF IInv
    <3>2. new.found => new.gen \in held \cap present
      BY DEF IInv, Holds
    <3>3. new.gen = shown'.gen /\ new.src = shown'.src /\ new.opts = opts'
      OBVIOUS
    <3> HIDE DEF new
    <3> QED
      BY <1>1, <2>3, <3>1, <3>2, <3>3 DEF Opens
  <2> QED
    BY <1>3, <2>1, <2>2, <2>3
<1>10. Lives'
  <2>1. live # None =>
          /\ shown # None /\ live.gen <= shown.gen /\ live.gen \in held
          /\ live.gen = shown.gen => live.opts <= opts
          /\ live.gen = compiled.gen => held \subseteq {live.gen}
    BY DEF IInv, Lives
  <2>2. live # None =>
          /\ shown' # None /\ shown.gen <= compiled.gen
          /\ live.gen \in Nat /\ live.opts \in Nat /\ shown.gen \in Nat /\ compiled.gen \in Nat
    BY <1>1, <2>1 DEF IInv, Gens, TypeOK, Sessions, Compiles
  <2>3. live # None => live.gen <= compiled.gen
    BY <2>1, <2>2
  <2>4. live # None /\ live.gen = compiled.gen => live.opts <= opts'
    BY <1>1, <2>1, <2>2
  <2> QED
    BY <1>1, <2>1, <2>2, <2>3, <2>4 DEF IInv, Lives
<1>11. Holds'
  BY <1>1 DEF IInv, Holds
<1>12. SourceComing'
  <2>1. CASE source' = source /\ UNCHANGED <<timer, generation, calls>>
    BY <1>1, <1>3, <2>1 DEF IInv, SourceComing, Newest
  <2>2. CASE Compile(source', FALSE, calls)
    BY <1>1, <2>2, CallStarts DEF IInv, SourceComing, Newest
  <2>3. CASE timer' = TRUE
    BY <2>3 DEF SourceComing
  <2> QED
    BY <1>2, <2>1, <2>2, <2>3
<1>13. ShownComing'
  <2>1. CASE shown' = shown /\ opts' = opts /\ UNCHANGED <<opening, compileError>>
    BY <1>1, <2>1 DEF IInv, ShownComing
  <2>2. CASE shown' = None \/ compileError' = TRUE
    BY <2>2 DEF ShownComing
  <2>3. CASE opening' = Cancelled \cup {new}
    <3>1. new \in opening' /\ ~new.cancelled
      BY <2>3
    <3> HIDE DEF new
    <3> QED
      BY <3>1 DEF ShownComing
  <2> QED
    BY <1>3, <2>1, <2>2, <2>3
<1>14. Gone'
  BY <1>1 DEF Gone
<1> QED
  BY <1>7, <1>8, <1>9, <1>10, <1>11, <1>12, <1>13, <1>14 DEF IInv

LEMMA CloseCancelledKeeps == ASSUME IInv, CloseCancelled PROVE IInv'
<1>1. TypeOK'
  BY DEF IInv, TypeOK, errors, CloseCancelled, Newest
<1>2. Gens'
  BY DEF IInv, Gens, TypeOK, errors, CloseCancelled, Newest, CompileCalls, OpenCalls, Compiles,
         Sessions
<1>3. Opens'
  BY DEF IInv, Opens, TypeOK, Gens, Holds, errors, CloseCancelled, Newest, CompileCalls,
         OpenCalls, Compiles, Sessions
<1>4. Lives'
  BY DEF IInv, Lives, TypeOK, Gens, Opens, Holds, errors, CloseCancelled, Newest, CompileCalls,
         OpenCalls, Compiles, Sessions
<1>5. Holds'
  BY DEF IInv, Holds, TypeOK, Gens, errors, CloseCancelled, Newest, CompileCalls, OpenCalls,
         Compiles, Sessions
<1>6. SourceComing'
  BY DEF IInv, SourceComing, TypeOK, Gens, errors, CloseCancelled, Newest, CompileCalls,
         OpenCalls, Compiles, Sessions
<1>7. ShownComing'
  BY DEF IInv, ShownComing, TypeOK, Gens, Opens, errors, CloseCancelled, Newest, CompileCalls,
         OpenCalls, Compiles, Sessions
<1>8. Gone'
  BY DEF IInv, Gone, TypeOK, Gens, SourceComing, errors, CloseCancelled, Newest, CompileCalls,
         OpenCalls, Compiles, Sessions
<1> QED
  BY <1>1, <1>2, <1>3, <1>4, <1>5, <1>6, <1>7, <1>8 DEF IInv

LEMMA OpenSucceedsKeeps == ASSUME IInv, OpenSucceeds PROVE IInv'
<1>1. TypeOK'
  <2>1. PICK o \in opening :
          opening' = opening \ {o} /\ live' = Session(o)
          /\ sessions' = (sessions \ {live}) \cup {Session(o)} /\ ReleaseExcept({o.gen})
    BY DEF OpenSucceeds
  <2>2. Session(o) \in Sessions
    BY DEF IInv, TypeOK, OpenCalls, Session, Sessions
  <2> QED
    BY <2>1, <2>2 DEF IInv, TypeOK, errors, OpenSucceeds, ReleaseExcept
<1>2. Gens'
  BY DEF IInv, Gens, TypeOK, errors, OpenSucceeds, ReleaseExcept, Session, Newest, Sessions,
         Compiles, CompileCalls, OpenCalls
<1>3. Opens'
  BY DEF IInv, Opens, TypeOK, Gens, Holds, errors, OpenSucceeds, ReleaseExcept, Session, Newest,
         Sessions, Compiles, CompileCalls, OpenCalls
<1>4. Lives'
  BY DEF IInv, Lives, TypeOK, Gens, Opens, Holds, errors, OpenSucceeds, ReleaseExcept, Session,
         Newest, Sessions, Compiles, CompileCalls, OpenCalls
<1>5. Holds'
  BY DEF IInv, Holds, TypeOK, Gens, errors, OpenSucceeds, ReleaseExcept, Session, Newest,
         Sessions, Compiles, CompileCalls, OpenCalls
<1>6. SourceComing'
  BY DEF IInv, SourceComing, TypeOK, Gens, errors, OpenSucceeds, ReleaseExcept, Session, Newest,
         Sessions, Compiles, CompileCalls, OpenCalls
<1>7. ShownComing'
  BY DEF IInv, ShownComing, TypeOK, Gens, Opens, errors, OpenSucceeds, ReleaseExcept, Session,
         Newest, Sessions, Compiles, CompileCalls, OpenCalls
<1>8. Gone'
  BY DEF IInv, Gone, TypeOK, Gens, SourceComing, errors, OpenSucceeds, ReleaseExcept, Session,
         Newest, Sessions, Compiles, CompileCalls, OpenCalls
<1> QED
  BY <1>1, <1>2, <1>3, <1>4, <1>5, <1>6, <1>7, <1>8 DEF IInv

LEMMA OpenFailsKeeps == ASSUME IInv, OpenFails PROVE IInv'
<1>1. TypeOK'
  BY DEF IInv, TypeOK, errors, OpenFails, Newest
<1>2. Gens'
  BY DEF IInv, Gens, TypeOK, errors, OpenFails, Newest, CompileCalls, OpenCalls, Compiles,
         Sessions
<1>3. Opens'
  BY DEF IInv, Opens, TypeOK, Gens, Holds, errors, OpenFails, Newest, CompileCalls, OpenCalls,
         Compiles, Sessions
<1>4. Lives'
  BY DEF IInv, Lives, TypeOK, Gens, Opens, Holds, errors, OpenFails, Newest, CompileCalls,
         OpenCalls, Compiles, Sessions
<1>5. Holds'
  BY DEF IInv, Holds, TypeOK, Gens, errors, OpenFails, Newest, CompileCalls, OpenCalls,
         Compiles, Sessions
<1>6. SourceComing'
  BY DEF IInv, SourceComing, TypeOK, Gens, errors, OpenFails, Newest, CompileCalls, OpenCalls,
         Compiles, Sessions
<1>7. ShownComing'
  BY DEF IInv, ShownComing, TypeOK, Gens, Opens, errors, OpenFails, Newest, CompileCalls,
         OpenCalls, Compiles, Sessions
<1>8. Gone'
  BY DEF IInv, Gone, TypeOK, Gens, SourceComing, errors, OpenFails, Newest, CompileCalls,
         OpenCalls, Compiles, Sessions
<1> QED
  BY <1>1, <1>2, <1>3, <1>4, <1>5, <1>6, <1>7, <1>8 DEF IInv

\* A restart loses compiles and sessions, and tells the opens under way so.
LEMMA RestartedKeeps == ASSUME IInv, Restarted PROVE IInv'
<1>1. PICK lost \in SUBSET present :
        /\ present' = present \ lost
        /\ \E kept \in SUBSET {s \in sessions : s.gen \notin lost} : sessions' = kept
        /\ opening' = {IF o.gen \in lost THEN [o EXCEPT !.found = FALSE] ELSE o : o \in opening}
        /\ UNCHANGED <<source, opts, mounted, timer, generation, calls, compiled, shown, held,
                       live, errors>>
  BY DEF Restarted
<1> DEFINE Unfound(o) == [o EXCEPT !.found = FALSE]
           Told(o) == IF o.gen \in lost THEN Unfound(o) ELSE o
<1>2. \A o \in OpenCalls :
        /\ Unfound(o) \in OpenCalls /\ Unfound(o).found = FALSE
        /\ Unfound(o).gen = o.gen /\ Unfound(o).src = o.src /\ Unfound(o).opts = o.opts
        /\ Unfound(o).cancelled = o.cancelled
  BY DEF OpenCalls
<1>3. opening' = {Told(o) : o \in opening} /\ opening \subseteq OpenCalls
  BY <1>1 DEF IInv, TypeOK
<1> HIDE DEF Unfound
<1>a. \A o \in opening :
        /\ Told(o) \in OpenCalls /\ (Told(o).found => o.found /\ o.gen \notin lost)
        /\ Told(o).gen = o.gen /\ Told(o).src = o.src /\ Told(o).opts = o.opts
        /\ Told(o).cancelled = o.cancelled
  BY <1>2, <1>3
<1> HIDE DEF Told
<1>4. sessions' \subseteq sessions /\ \A s \in sessions' : s.gen \notin lost
  BY <1>1
<1>5. TypeOK'
  <2>1. opening' \subseteq OpenCalls
    BY <1>3, <1>a
  <2> QED
    BY <1>1, <1>4, <2>1 DEF IInv, TypeOK, errors
<1>6. Gens' /\ SourceComing'
  BY <1>1 DEF IInv, Gens, SourceComing, Newest, errors
<1>7. Opens'
  <2>1. \A p \in opening' : ~p.cancelled =>
          /\ shown # None /\ p.gen = shown.gen /\ p.src = shown.src /\ p.opts = opts
          /\ p.found => p.gen \in held \cap present'
    BY <1>1, <1>3, <1>a DEF IInv, Opens
  <2>2. \A p, q \in opening' : ~p.cancelled /\ ~q.cancelled => p = q
    BY <1>3, <1>a DEF IInv, Opens
  <2> QED
    BY <1>1, <2>1, <2>2 DEF Opens
<1>8. Lives' /\ Holds'
  BY <1>1, <1>4 DEF IInv, Lives, Holds
<1>9. ShownComing' /\ Gone'
  <2>1. ShownComing'
    BY <1>1, <1>3, <1>a DEF IInv, ShownComing, errors
  <2>2. Gone'
    BY <1>1, <1>3, <1>a DEF IInv, Gone, Newest
  <2> QED
    BY <2>1, <2>2
<1> QED
  BY <1>5, <1>6, <1>7, <1>8, <1>9 DEF IInv

LEMMA UnmountKeeps == ASSUME IInv, Unmount PROVE IInv'
<1>1. TypeOK'
  <2>1. generation' \in Nat /\ opening' \subseteq OpenCalls
    BY CancelledOpens DEF IInv, TypeOK, Unmount
  <2>2. held' \subseteq Nat /\ present' \subseteq Nat /\ sessions' \subseteq Sessions
    BY DEF IInv, TypeOK, Unmount, ReleaseExcept
  <2> QED
    BY <2>1, <2>2 DEF IInv, TypeOK, errors, Unmount
<1>2. Gens'
  <2>1. \A call \in calls : call.gen \in Nat /\ call.gen < generation'
    BY DEF IInv, Gens, TypeOK, CompileCalls, Unmount
  <2>2. compiled # None => compiled.gen \in Nat /\ compiled.gen < generation'
    BY DEF IInv, Gens, TypeOK, Compiles, Unmount
  <2> QED
    BY <2>1, <2>2 DEF IInv, Gens, TypeOK, Unmount, Newest
<1>3. Opens'
  BY DEF IInv, Opens, TypeOK, Gens, Holds, errors, Unmount, ReleaseExcept, Cancelled, Newest,
         CompileCalls, OpenCalls, Compiles, Sessions
<1>4. Lives'
  BY DEF IInv, Lives, TypeOK, Gens, Opens, Holds, errors, Unmount, ReleaseExcept, Cancelled,
         Newest, CompileCalls, OpenCalls, Compiles, Sessions
<1>5. Holds'
  BY DEF IInv, Holds, TypeOK, Gens, errors, Unmount, ReleaseExcept, Cancelled, Newest,
         CompileCalls, OpenCalls, Compiles, Sessions
<1>6. SourceComing'
  BY DEF IInv, SourceComing, TypeOK, Gens, errors, Unmount, ReleaseExcept, Cancelled, Newest,
         CompileCalls, OpenCalls, Compiles, Sessions
<1>7. ShownComing'
  BY DEF IInv, ShownComing, TypeOK, Gens, Opens, errors, Unmount, ReleaseExcept, Cancelled,
         Newest, CompileCalls, OpenCalls, Compiles, Sessions
<1>8. Gone'
  BY DEF IInv, Gone, TypeOK, Gens, SourceComing, errors, Unmount, ReleaseExcept, Cancelled,
         Newest, CompileCalls, OpenCalls, Compiles, Sessions
<1> QED
  BY <1>1, <1>2, <1>3, <1>4, <1>5, <1>6, <1>7, <1>8 DEF IInv

-----------------------------------------------------------------------------
(* The theorems. *)

LEMMA InitHolds == ASSUME Init PROVE IInv
<1>1. TypeOK
  BY DEF Init, TypeOK
<1> QED
  BY <1>1 DEF Init, IInv, Gens, Opens, Lives, Holds, SourceComing, ShownComing, Gone

LEMMA NextKeeps == ASSUME IInv, [Next]_vars PROVE IInv'
<1>1. CASE DropStale
  BY <1>1, DropStaleKeeps
<1>2. CASE CompileSucceeds
  BY <1>2, CompileSucceedsKeeps
<1>3. CASE CompileFails
  BY <1>3, CompileFailsKeeps
<1>4. CASE Debounced
  BY <1>4, DebouncedKeeps
<1>5. CASE Recompile
  BY <1>5, RecompileKeeps
<1>6. CASE Render
  BY <1>6, RenderKeeps
<1>7. CASE CloseCancelled
  BY <1>7, CloseCancelledKeeps
<1>8. CASE OpenSucceeds
  BY <1>8, OpenSucceedsKeeps
<1>9. CASE OpenFails
  BY <1>9, OpenFailsKeeps
<1>10. CASE Restarted
  BY <1>10, RestartedKeeps
<1>11. CASE Unmount
  BY <1>11, UnmountKeeps
<1>12. CASE UNCHANGED vars
  BY <1>12 DEF vars, errors, IInv, TypeOK, Gens, Opens, Lives, Holds, SourceComing,
               ShownComing, Gone, Newest
<1> QED
  BY <1>1, <1>2, <1>3, <1>4, <1>5, <1>6, <1>7, <1>8, <1>9, <1>10, <1>11, <1>12 DEF Next

\* The inductive invariant holds in every reachable state of the hook.
THEOREM InvariantHolds == Spec => []IInv
<1>1. Init => IInv
  BY InitHolds
<1>2. IInv /\ [Next]_vars => IInv'
  BY NextKeeps
<1> QED
  BY <1>1, <1>2, PTL DEF Spec

\* Every variable of the hook keeps its type.
THEOREM TypesHold == Spec => []TypeOK
<1>1. IInv => TypeOK
  BY DEF IInv
<1> QED
  BY <1>1, InvariantHolds, PTL

\* `releaseExcept` never frees the compile of the session on show, and as long as
\* that session is open its compile is in the sandbox.
THEOREM LiveSessionIsHeld == Spec => []LiveIsHeld
<1>1. IInv => LiveIsHeld
  BY DEF IInv, Lives, Holds, LiveIsHeld
<1> QED
  BY <1>1, InvariantHolds, PTL

\* Whatever came late or was retried, a hook at rest without an error shows the
\* newest source with the newest options.
THEOREM QuietShowsNewest == Spec => []ShowsNewest
<1>1. IInv => ShowsNewest
  <2>1. SUFFICES ASSUME IInv, Quiet, mounted, Fine, source > 0
                 PROVE  live # None /\ live.src = source /\ live.opts = opts
    BY DEF ShowsNewest
  <2>2. compiled # None /\ compiled.src = source
    BY <2>1 DEF IInv, SourceComing, Quiet, Fine
  <2>3. live = [gen |-> shown.gen, src |-> shown.src, opts |-> opts] /\ shown = compiled
    BY <2>1, <2>2 DEF IInv, ShownComing, Quiet, Fine
  <2>4. live \in Sessions
    <3>1. compiled.gen \in Nat \ {0} /\ compiled.src \in Nat /\ opts \in Nat
      BY <2>1, <2>2 DEF IInv, TypeOK, Compiles
    <3> QED
      BY <2>3, <3>1 DEF Sessions
  <2> QED
    BY <2>2, <2>3, <2>4, HookAssumption DEF HookAssumption
<1> QED
  BY <1>1, InvariantHolds, PTL

\* A hook at rest has left one session and its compile in the sandbox at most, and
\* nothing once unmounted.
THEOREM QuietLeavesNothing == Spec => []NothingLeftBehind
<1>1. IInv => NothingLeftBehind
  <2>1. SUFFICES ASSUME IInv, Quiet, Fine \/ ~mounted
                 PROVE  /\ sessions \subseteq {live} \ {None}
                        /\ present \subseteq IF live = None THEN {} ELSE {live.gen}
    BY DEF NothingLeftBehind
  <2>2. sessions \subseteq {live} \ {None}
    BY <2>1, HookAssumption DEF IInv, Lives, TypeOK, HookAssumption
  <2>3. CASE ~mounted
    BY <2>1, <2>2, <2>3 DEF IInv, Gone, Holds
  <2>4. CASE mounted /\ compiled = None
    BY <2>1, <2>2, <2>4 DEF IInv, Lives, Gens, Holds, Quiet
  <2>5. CASE mounted /\ compiled # None
    <3>1. live = [gen |-> shown.gen, src |-> shown.src, opts |-> opts] /\ shown = compiled
      BY <2>1, <2>5 DEF IInv, ShownComing, Quiet, Fine
    <3>2. live \in Sessions
      <4>1. compiled.gen \in Nat \ {0} /\ compiled.src \in Nat /\ opts \in Nat
        BY <2>1, <2>5 DEF IInv, TypeOK, Compiles
      <4> QED
        BY <3>1, <4>1 DEF Sessions
    <3>3. live # None /\ live.gen = compiled.gen
      BY <3>1, <3>2, HookAssumption DEF HookAssumption
    <3> QED
      BY <2>1, <2>2, <3>3 DEF IInv, Lives, Holds
  <2> QED
    BY <2>3, <2>4, <2>5
<1> QED
  BY <1>1, InvariantHolds, PTL

\* The session on show is never replaced by one of an older compile or of
\* older options.
THEOREM NeverShowsOlder == Spec => NeverGoesBack
<1> DEFINE Forward ==
      live # None /\ live' # None =>
        \/ live'.gen > live.gen
        \/ live'.gen = live.gen /\ live'.opts >= live.opts
<1>1. IInv /\ [Next]_vars => [Forward]_vars
  <2>1. SUFFICES ASSUME IInv, Next, live # None, live' # None
                 PROVE  \/ live'.gen > live.gen
                        \/ live'.gen = live.gen /\ live'.opts >= live.opts
    OBVIOUS
  <2>2. live.gen \in Nat /\ live.opts \in Nat
    BY <2>1 DEF IInv, TypeOK, Sessions
  <2>3. CASE live' = live
    BY <2>2, <2>3
  <2>4. CASE OpenSucceeds
    <3>1. PICK o \in opening : ~o.cancelled /\ live' = Session(o)
      BY <2>4 DEF OpenSucceeds
    <3>2. /\ shown # None /\ live'.gen = shown.gen /\ live'.opts = opts
          /\ shown.gen \in Nat /\ opts \in Nat
      BY <2>1, <3>1 DEF IInv, Opens, Session, TypeOK, Compiles
    <3> QED
      BY <2>1, <2>2, <3>2 DEF IInv, Lives
  <2>5. live' = live \/ OpenSucceeds \/ live' = None
    BY <2>1 DEF Next, DropStale, CompileSucceeds, CompileFails, Debounced, Recompile, Render,
                CloseCancelled, OpenFails, Restarted, Unmount
  <2> QED
    BY <2>1, <2>3, <2>4, <2>5
<1> QED
  BY <1>1, InvariantHolds, PTL DEF Spec, NeverGoesBack

=============================================================================
