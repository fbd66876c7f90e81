---------------------------- MODULE SandboxProofs ----------------------------
(***************************************************************************)
(* Proofs about Sandbox, for any sets of compiles and sessions and any     *)
(* number of calls: types, the watchdog, the calls, the handles and what   *)
(* a restart replays.                                                      *)
(***************************************************************************)
EXTENDS Sandbox, FiniteSetTheorems, SequenceTheorems, TLAPS

USE ProtocolAssumption, NoneAssumption, OwnedAssumption, StepsThrowAssumption
    DEF ProtocolAssumption, OwnedAssumption, StepsThrowAssumption

IInv == TypeOK /\ IsFiniteSet(inFlight) /\ WatchdogArmed /\ WorkerSeesOneSide /\ OneReplayOut

-----------------------------------------------------------------------------
(* Messages and sequences of them. *)

LEMMA RequestTypesHold ==
  ASSUME NEW i \in Nat, NEW c \in Compiles, NEW k \in Compiles \cup {None}, NEW s \in Sessions,
         NEW t \in SessionOps \cup {"close"}
  PROVE  /\ CompileRequest(i + 1, c) \in PageRequest
         /\ ReleaseRequest(i + 1, c) \in PageRequest
         /\ OpenRequest(i + 1, s, k) \in PageRequest
         /\ OpRequest(i + 1, t, s) \in PageRequest
  BY DEF CompileRequest, ReleaseRequest, OpenRequest, OpRequest, PageRequest, Request,
         RequestTypes, SessionOps, PageIds

LEMMA ReplayCompileType == \A c \in Compiles : CompileRequest(ReplayId, c) \in ReplayRequest
  BY DEF CompileRequest, ReplayRequest, Request, RequestTypes, ReplayId

LEMMA ReplayOpenType ==
  \A s \in Sessions, k \in Compiles \cup {None} : OpenRequest(ReplayId, s, k) \in ReplayRequest
  BY DEF OpenRequest, ReplayRequest, Request, RequestTypes, ReplayId

\* Compiles and releases name a compile, the others a session.
LEMMA RequestFields ==
  ASSUME NEW r \in Request
  PROVE  /\ r.id \in Nat /\ r.type \in RequestTypes
         /\ r.compile \in Compiles \cup {None} /\ r.session \in Sessions \cup {None}
         /\ r.type \in {"compile", "release"} => r.compile \in Compiles
         /\ r.type \notin {"compile", "release"} => r.session \in Sessions
  BY DEF Request, PageIds, ReplayId

LEMMA ReplyTypesHold ==
  ASSUME NEW i \in {ReplayId, NoId} \cup PageIds, NEW s \in Sessions,
         NEW st \in States
  PROVE  /\ Failed(i) \in Reply /\ Frame(s, st) \in Reply
         /\ Failed(i) \in PageMessage /\ Frame(s, st) \in PageMessage
         /\ Failed(i).id = i /\ Failed(i).state = "none" /\ Failed(i).type = "failed"
         /\ Frame(s, st).id = NoId
  BY DEF Failed, Frame, Reply, PageMessage, ReplyTypes, States

LEMMA NoticeTypesHold ==
  ASSUME NEW ro \in SUBSET Sessions, NEW dr \in SUBSET Sessions
  PROVE  Restarted(ro, dr) \in PageMessage /\ Ready \in PageMessage
  BY DEF Restarted, Ready, PageMessage

\* An enumeration of a finite set is a sequence over it.
LEMMA EnumerationType ==
  ASSUME NEW S, IsFiniteSet(S), NEW order \in SetToSeqs(S)
  PROVE  order \in Seq(S) /\ Len(order) \in Nat /\ DOMAIN order = 1 .. Len(order)
<1>1. Cardinality(S) \in Nat
  BY FS_CardinalityType
<1>2. order \in [1 .. Cardinality(S) -> S]
  BY DEF SetToSeqs
<1> QED BY <1>1, <1>2

LEMMA FiniteSubset == ASSUME NEW T, IsFiniteSet(T), NEW S \in SUBSET T PROVE IsFiniteSet(S)
  BY FS_Subset

-----------------------------------------------------------------------------
(* The client *)

\* Requests numbered from l + 1.
Numbered(rs, l) == \A k \in DOMAIN rs : rs[k].id = l + k

\* What `request` does to ids, calls and the queue, or the channel.
LEMMA SendKeeps ==
  ASSUME ClientTypeOK, ChannelsTypeOK, NEW rs \in Seq(PageRequest),
         NEW others \in SUBSET PageRequest, Send(rs, others)
  PROVE  /\ used' \in Nat /\ pending' \subseteq PageRequest
         /\ queued' \in Seq(PageRequest) /\ toRelay' \in Seq(PageRequest)
<1>1. used' \in Nat
  BY DEF Send, ClientTypeOK
<1>2. pending' \subseteq PageRequest
  BY DEF Send
<1>3. queued' \in Seq(PageRequest) /\ toRelay' \in Seq(PageRequest)
  <2>1. queued \o rs \in Seq(PageRequest) /\ toRelay \o rs \in Seq(PageRequest)
    BY ConcatProperties DEF ClientTypeOK, ChannelsTypeOK
  <2> QED BY <2>1 DEF Send, ClientTypeOK, ChannelsTypeOK
<1> QED BY <1>1, <1>2, <1>3

LEMMA CallKeeps ==
  ASSUME ClientTypeOK, ChannelsTypeOK, NEW request \in PageRequest, Call(request)
  PROVE  /\ used' \in Nat /\ pending' \subseteq PageRequest
         /\ queued' \in Seq(PageRequest) /\ toRelay' \in Seq(PageRequest)
<1>1. <<request>> \in Seq(PageRequest) /\ pending \in SUBSET PageRequest
  BY DEF ClientTypeOK
<1> QED BY <1>1, SendKeeps DEF Call

\* What `end` does: the compiles owned by the handles gone are freed.
Frees(rs, gone) ==
  \A k \in DOMAIN rs : rs[k].type = "release" /\ \E s \in gone : rs[k].compile = ownerOf[s]

LEMMA EndKeeps ==
  ASSUME ClientTypeOK, ChannelsTypeOK, NEW gone \in SUBSET Sessions,
         NEW others \in SUBSET PageRequest, End(gone, others)
  PROVE  /\ \E rs \in Seq(PageRequest) : Numbered(rs, used) /\ Send(rs, others) /\ Frees(rs, gone)
         /\ used' \in Nat /\ pending' \subseteq PageRequest
         /\ queued' \in Seq(PageRequest) /\ toRelay' \in Seq(PageRequest)
<1> DEFINE owned == {ownerOf[s] : s \in gone} \ {None}
<1>1. owned \subseteq Compiles /\ IsFiniteSet(owned)
  <2>1. owned \subseteq Compiles
    BY DEF ClientTypeOK
  <2> QED BY <2>1, FiniteSubset
<1>2. PICK order \in SetToSeqs(owned) :
        Send([k \in 1 .. Len(order) |-> ReleaseRequest(used + k, order[k])], others)
  BY DEF End
<1> DEFINE rs == [k \in 1 .. Len(order) |-> ReleaseRequest(used + k, order[k])]
<1> HIDE DEF owned
<1>3. order \in Seq(owned) /\ Len(order) \in Nat
  BY <1>1, EnumerationType
<1>4. \A k \in 1 .. Len(order) : ReleaseRequest(used + k, order[k]) \in PageRequest
  <2> TAKE k \in 1 .. Len(order)
  <2>1. order[k] \in Compiles
    BY <1>1, <1>3
  <2>2. PICK i \in Nat : used + k = i + 1
    BY <1>3 DEF ClientTypeOK
  <2> QED BY <2>1, <2>2 DEF ReleaseRequest, PageRequest, Request, RequestTypes, PageIds
<1>5. rs \in Seq(PageRequest) /\ Numbered(rs, used)
  BY <1>3, <1>4 DEF Numbered, ReleaseRequest
<1>6. Send(rs, others)
  BY <1>2
<1>7. Frees(rs, gone)
  <2>1. \A k \in 1 .. Len(order) : \E s \in gone : order[k] = ownerOf[s]
    BY <1>3 DEF owned
  <2> QED BY <2>1 DEF Frees, ReleaseRequest
<1> HIDE DEF rs
<1> QED BY <1>5, <1>6, <1>7, SendKeeps

\* The calls of the user's.
LEMMA CompileCallKeeps ==
  ASSUME ClientTypeOK, ChannelsTypeOK, NEW c \in Compiles, CompileSource(c) \/ Release(c)
  PROVE  ClientTypeOK' /\ ChannelsTypeOK' /\ UNCHANGED <<toWorker, fromWorker>>
<1>1. CompileRequest(used + 1, c) \in PageRequest /\ ReleaseRequest(used + 1, c) \in PageRequest
  BY DEF ClientTypeOK, CompileRequest, ReleaseRequest, PageRequest, Request, RequestTypes, PageIds
<1>2. /\ used' \in Nat /\ pending' \subseteq PageRequest
      /\ queued' \in Seq(PageRequest) /\ toRelay' \in Seq(PageRequest)
  BY <1>1, CallKeeps DEF CompileSource, Release
<1> QED BY <1>2 DEF CompileSource, Release, ClientTypeOK, ChannelsTypeOK

LEMMA OpenCallKeeps ==
  ASSUME ClientTypeOK, ChannelsTypeOK,
         \E s \in Sessions, c \in Compiles : OpenCompiled(s, c) \/ OpenCircuit(s, c)
  PROVE  ClientTypeOK' /\ ChannelsTypeOK' /\ UNCHANGED <<toWorker, fromWorker>>
<1>1. PICK s \in Sessions, c \in Compiles : OpenCompiled(s, c) \/ OpenCircuit(s, c)
  OBVIOUS
<1>2. CompileRequest(used + 1, c) \in PageRequest /\ OpenRequest(used + 1, s, c) \in PageRequest
  BY DEF ClientTypeOK, CompileRequest, OpenRequest, PageRequest, Request, RequestTypes, PageIds
<1>3. /\ used' \in Nat /\ pending' \subseteq PageRequest
      /\ queued' \in Seq(PageRequest) /\ toRelay' \in Seq(PageRequest)
  BY <1>1, <1>2, CallKeeps DEF OpenCompiled, OpenCircuit
<1>4. handle' \in [Sessions -> HandleStates] /\ ownerOf' \in [Sessions -> Compiles \cup {None}]
  BY <1>1 DEF OpenCompiled, OpenCircuit, ClientTypeOK, HandleStates
<1> QED BY <1>1, <1>3, <1>4 DEF OpenCompiled, OpenCircuit, ClientTypeOK, ChannelsTypeOK

LEMMA SessionCallKeeps ==
  ASSUME ClientTypeOK, ChannelsTypeOK,
         \E s \in Sessions : Close(s) \/ \E type \in OpTypes : SessionCall(s, type)
  PROVE  ClientTypeOK' /\ ChannelsTypeOK' /\ UNCHANGED <<toWorker, fromWorker>>
<1>1. PICK s \in Sessions : Close(s) \/ \E type \in OpTypes : SessionCall(s, type)
  OBVIOUS
<1>2. \A type \in OpTypes \cup {"close"} : OpRequest(used + 1, type, s) \in PageRequest
  BY DEF ClientTypeOK, OpRequest, PageRequest, Request, RequestTypes, SessionOps, PageIds
<1>3. /\ used' \in Nat /\ pending' \subseteq PageRequest
      /\ queued' \in Seq(PageRequest) /\ toRelay' \in Seq(PageRequest)
  BY <1>1, <1>2, CallKeeps DEF Close, SessionCall
<1> QED BY <1>1, <1>3 DEF Close, SessionCall, ClientTypeOK, ChannelsTypeOK, HandleStates

\* The client takes a message.
LEMMA TakeMessageKeeps ==
  ASSUME ChannelsTypeOK, TakeMessage
  PROVE  toPage' \in Seq(PageMessage) /\ Head(toPage) \in PageMessage
  BY HeadTailProperties DEF ChannelsTypeOK, TakeMessage

LEMMA ReceiveReadyKeeps ==
  ASSUME ClientTypeOK, ChannelsTypeOK, ReceiveReady
  PROVE  ClientTypeOK' /\ ChannelsTypeOK' /\ UNCHANGED <<toWorker, fromWorker>>
<1>1. toRelay \o queued \in Seq(PageRequest) /\ <<>> \in Seq(PageRequest)
  BY ConcatProperties DEF ClientTypeOK, ChannelsTypeOK
<1>2. toPage' \in Seq(PageMessage)
  BY TakeMessageKeeps DEF ReceiveReady
<1> QED BY <1>1, <1>2 DEF ReceiveReady, ClientTypeOK, ChannelsTypeOK

LEMMA ReceiveRestartedKeeps ==
  ASSUME ClientTypeOK, ChannelsTypeOK, ReceiveRestarted
  PROVE  ClientTypeOK' /\ ChannelsTypeOK' /\ UNCHANGED <<toWorker, fromWorker>>
<1> DEFINE gone == Head(toPage).dropped \cap Live
<1>1. toPage' \in Seq(PageMessage)
  BY TakeMessageKeeps DEF ReceiveRestarted
<1>2. gone \in SUBSET Sessions /\ pending \in SUBSET PageRequest
  BY DEF Live, ClientTypeOK
<1>3. End(gone, pending)
  BY DEF ReceiveRestarted
<1>4. handle' \in [Sessions -> HandleStates] /\ view' \in [Sessions -> BOOLEAN]
  BY DEF ReceiveRestarted, ClientTypeOK, HandleStates
<1> HIDE DEF gone
<1>5. /\ used' \in Nat /\ pending' \subseteq PageRequest
      /\ queued' \in Seq(PageRequest) /\ toRelay' \in Seq(PageRequest)
  BY <1>2, <1>3, EndKeeps
<1> QED BY <1>1, <1>4, <1>5 DEF ReceiveRestarted, ClientTypeOK, ChannelsTypeOK

LEMMA ReceiveFrameKeeps ==
  ASSUME ClientTypeOK, ChannelsTypeOK, ReceiveFrame
  PROVE  ClientTypeOK' /\ ChannelsTypeOK' /\ UNCHANGED <<toWorker, fromWorker>>
<1>1. toPage' \in Seq(PageMessage)
  BY TakeMessageKeeps DEF ReceiveFrame
<1>2. view' \in [Sessions -> BOOLEAN]
  BY DEF ReceiveFrame, ClientTypeOK
<1> QED BY <1>1, <1>2 DEF ReceiveFrame, ClientTypeOK, ChannelsTypeOK

\* A compile is owned by one open.
OwnersDiffer ==
  \A s, t \in Sessions : ownerOf[s] = ownerOf[t] => ownerOf[s] = None \/ s = t

\* The continuations of the four kinds of call: an open goes after the compile
\* it owns, a failed open and a close free it.
Follows(rs, request, ok) ==
  /\ request.type = "compile" => Len(rs) \in {0, 1}
  /\ \A k \in DOMAIN rs :
       \/ /\ request.type = "compile" /\ ok /\ rs[k].type = "open"
          /\ rs[k].compile = request.compile /\ rs[k].session \in Opener(request.compile)
       \/ /\ request.type = "open" /\ rs[k].type = "release"
          /\ rs[k].compile = ownerOf[request.session]
       \/ /\ request.type = "close" /\ rs[k].type = "release"
          /\ \E s \in {request.session} \cap Live : rs[k].compile = ownerOf[s]

LEMMA SettleKeeps ==
  ASSUME ClientTypeOK, ChannelsTypeOK, NEW request \in pending, NEW m, NEW ok \in BOOLEAN,
         \/ request.type = "compile" /\ SettleCompile(request, ok)
         \/ request.type = "open" /\ SettleOpen(request, ok)
         \/ request.type = "close" /\ SettleClose(request)
         \/ SettleOther(request, m)
  PROVE  /\ OwnersDiffer =>
              \E rs \in Seq(PageRequest) :
                Numbered(rs, used) /\ Send(rs, pending \ {request}) /\ Follows(rs, request, ok)
         /\ used' \in Nat /\ pending' \subseteq PageRequest
         /\ queued' \in Seq(PageRequest) /\ toRelay' \in Seq(PageRequest)
         /\ compiled' \subseteq Compiles
         /\ handle' \in [Sessions -> HandleStates] /\ view' \in [Sessions -> BOOLEAN]
<1> DEFINE others == pending \ {request}
<1>1. /\ request \in PageRequest /\ others \in SUBSET PageRequest /\ used \in Nat
      /\ request.compile \in Compiles \cup {None} /\ request.session \in Sessions \cup {None}
      /\ request.type = "compile" => request.compile \in Compiles
      /\ request.type = "open" => request.session \in Sessions
  <2>1. request \in PageRequest /\ used \in Nat /\ others \in SUBSET PageRequest
    BY DEF ClientTypeOK
  <2>2. request \in Request
    BY <2>1 DEF PageRequest
  <2> QED BY <2>1, <2>2, RequestFields
<1>2. <<>> \in Seq(PageRequest) /\ Numbered(<<>>, used) /\ Follows(<<>>, request, ok)
  BY DEF Numbered, Follows
<1>3. CASE request.type = "compile" /\ SettleCompile(request, ok)
  <2> DEFINE openers == Opener(request.compile)
             rs == IF ok THEN [k \in 1 .. Cardinality(openers) |->
                     OpenRequest(used + 1, CHOOSE s \in openers : TRUE, request.compile)]
                   ELSE <<>>
  <2>1. openers \subseteq Sessions /\ IsFiniteSet(openers) /\ Cardinality(openers) \in Nat
    <3>1. openers \subseteq Sessions
      BY DEF Opener
    <3> QED BY <3>1, FiniteSubset, FS_CardinalityType
  <2>2. \A k \in 1 .. Cardinality(openers) :
          OpenRequest(used + 1, CHOOSE s \in openers : TRUE, request.compile) \in PageRequest
    <3> TAKE k \in 1 .. Cardinality(openers)
    <3>1. openers # {}
      BY <2>1, FS_EmptySet
    <3>2. (CHOOSE s \in openers : TRUE) \in Sessions
      BY <2>1, <3>1
    <3>3. request.compile \in Compiles
      BY <1>1, <1>3
    <3> HIDE DEF openers
    <3> DEFINE s == CHOOSE s \in openers : TRUE
    <3>4. s \in Sessions
      BY <3>2
    <3> HIDE DEF s
    <3>5. OpenRequest(used + 1, s, request.compile) \in PageRequest
      BY <1>1, <3>3, <3>4, RequestTypesHold
    <3> QED BY <3>5 DEF s
  <2>3. Send(rs, others)
    BY <1>3 DEF SettleCompile
  <2>4. /\ compiled' = IF ok /\ openers = {} THEN compiled \cup {request.compile} ELSE compiled
        /\ handle' = [s \in Sessions |-> IF s \in openers /\ ~ok THEN "failed" ELSE handle[s]]
        /\ view' = view
    BY <1>3 DEF SettleCompile
  <2> HIDE DEF openers
  <2>5. rs \in Seq(PageRequest)
    BY <1>2, <2>1, <2>2
  <2>9. OwnersDiffer => Numbered(rs, used) /\ Follows(rs, request, ok)
    <3>1. CASE ok
      <4> HAVE OwnersDiffer
      <4>1. Cardinality(openers) \in {0, 1}
        <5>1. request.compile # None
          BY <1>1, <1>3
        <5>2. \A s, t \in openers : s = t
          BY <5>1 DEF openers, Opener, OwnersDiffer
        <5>3. CASE openers = {}
          BY <5>3, FS_EmptySet
        <5>4. CASE openers # {}
          <6>1. PICK s \in openers : TRUE
            BY <5>4
          <6>2. openers = {s}
            BY <5>2, <6>1
          <6> QED BY <6>2, FS_Singleton
        <5> QED BY <5>3, <5>4
      <4>2. \A k \in 1 .. Cardinality(openers) : k = 1
        BY <4>1
      <4>3. Numbered(rs, used)
        BY <3>1, <4>2 DEF Numbered, OpenRequest
      <4>4. Len(rs) \in {0, 1}
        BY <3>1, <4>1
      <4>5. \A k \in DOMAIN rs : (CHOOSE s \in openers : TRUE) \in openers
        <5> TAKE k \in DOMAIN rs
        <5>1. openers # {}
          BY <3>1, <2>1, FS_EmptySet
        <5> QED BY <5>1
      <4>6. \A k \in DOMAIN rs : /\ rs[k].type = "open" /\ rs[k].compile = request.compile
                                /\ rs[k].session \in openers
        BY <3>1, <4>5 DEF OpenRequest
      <4> QED BY <1>3, <3>1, <4>3, <4>4, <4>6 DEF Follows, openers
    <3>2. CASE ~ok
      BY <1>2, <3>2
    <3> QED BY <3>1, <3>2
  <2> HIDE DEF rs
  <2>6. /\ used' \in Nat /\ pending' \subseteq PageRequest
        /\ queued' \in Seq(PageRequest) /\ toRelay' \in Seq(PageRequest)
    BY <1>1, <2>3, <2>5, SendKeeps
  <2>7. handle' \in [Sessions -> HandleStates] /\ view' \in [Sessions -> BOOLEAN]
    BY <2>4 DEF ClientTypeOK, HandleStates
  <2>8. request.compile \in Compiles
    BY <1>1, <1>3
  <2> QED BY <2>3, <2>4, <2>5, <2>6, <2>7, <2>8, <2>9 DEF ClientTypeOK
<1>4. CASE request.type = "open" /\ SettleOpen(request, ok)
  <2> DEFINE s == request.session
             rs == IF ~ok /\ ownerOf[s] # None
                   THEN <<ReleaseRequest(used + 1, ownerOf[s])>> ELSE <<>>
  <2>1. ownerOf[s] \in Compiles \cup {None}
    BY <1>1, <1>4 DEF ClientTypeOK
  <2>2. rs \in Seq(PageRequest) /\ Numbered(rs, used) /\ Follows(rs, request, ok)
    <3>1. CASE ~ok /\ ownerOf[s] # None
      <4>1. ReleaseRequest(used + 1, ownerOf[s]) \in PageRequest
        BY <1>1, <2>1, <3>1 DEF ReleaseRequest, PageRequest, Request, RequestTypes, PageIds
      <4> QED BY <1>4, <3>1, <4>1 DEF Numbered, ReleaseRequest, Follows
    <3>2. CASE ~(~ok /\ ownerOf[s] # None)
      BY <1>2, <3>2
    <3> QED BY <3>1, <3>2
  <2>3. Send(rs, others) /\ UNCHANGED <<view, compiled>>
        /\ handle' = [handle EXCEPT ![s] = IF ok THEN "open" ELSE "failed"]
    BY <1>4 DEF SettleOpen
  <2> HIDE DEF rs
  <2>4. /\ used' \in Nat /\ pending' \subseteq PageRequest
        /\ queued' \in Seq(PageRequest) /\ toRelay' \in Seq(PageRequest)
    BY <1>1, <2>2, <2>3, SendKeeps
  <2> QED BY <2>2, <2>3, <2>4 DEF ClientTypeOK, HandleStates
<1>5. CASE request.type = "close" /\ SettleClose(request)
  <2> DEFINE gone == {request.session} \cap Live
  <2>1. gone \in SUBSET Sessions
    BY DEF Live
  <2>2. /\ handle' = [s \in Sessions |-> IF s \in gone THEN "closed" ELSE handle[s]]
        /\ view' = [s \in Sessions |-> view[s] /\ s \notin gone]
        /\ End(gone, others) /\ compiled' = compiled
    BY <1>5 DEF SettleClose
  <2> HIDE DEF gone
  <2>3. /\ \E rs \in Seq(PageRequest) :
             Numbered(rs, used) /\ Send(rs, others) /\ Follows(rs, request, ok)
        /\ used' \in Nat /\ pending' \subseteq PageRequest
        /\ queued' \in Seq(PageRequest) /\ toRelay' \in Seq(PageRequest)
    <3>1. PICK rs \in Seq(PageRequest) :
            Numbered(rs, used) /\ Send(rs, others) /\ Frees(rs, gone)
      BY <1>1, <2>1, <2>2, EndKeeps
    <3>2. Follows(rs, request, ok)
      BY <1>5, <3>1 DEF Frees, Follows, gone
    <3> QED BY <1>1, <2>1, <2>2, <3>1, <3>2, EndKeeps
  <2>4. handle' \in [Sessions -> HandleStates] /\ view' \in [Sessions -> BOOLEAN]
    BY <2>2 DEF ClientTypeOK, HandleStates
  <2> QED BY <2>2, <2>3, <2>4 DEF ClientTypeOK
<1>6. CASE SettleOther(request, m)
  <2>1. Send(<<>>, others)
    BY <1>6 DEF SettleOther
  <2>2. /\ used' \in Nat /\ pending' \subseteq PageRequest
        /\ queued' \in Seq(PageRequest) /\ toRelay' \in Seq(PageRequest)
    BY <1>1, <1>2, <2>1, SendKeeps
  <2>3. view' \in [Sessions -> BOOLEAN]
    BY <1>6 DEF SettleOther, ClientTypeOK
  <2> QED BY <1>2, <1>6, <2>1, <2>2, <2>3 DEF SettleOther, ClientTypeOK
<1> QED BY <1>3, <1>4, <1>5, <1>6

LEMMA ReceiveReplyKeeps ==
  ASSUME ClientTypeOK, ChannelsTypeOK, ReceiveReply
  PROVE  ClientTypeOK' /\ ChannelsTypeOK' /\ UNCHANGED <<toWorker, fromWorker>>
<1> DEFINE m == Head(toPage)
<1>1. toPage' \in Seq(PageMessage)
  BY TakeMessageKeeps DEF ReceiveReply
<1>2. UNCHANGED <<status, disposed, loaded, ownerOf, toWorker, fromWorker>>
  BY DEF ReceiveReply
<1>3. /\ used' \in Nat /\ pending' \subseteq PageRequest
      /\ queued' \in Seq(PageRequest) /\ toRelay' \in Seq(PageRequest)
      /\ compiled' \subseteq Compiles
      /\ handle' \in [Sessions -> HandleStates] /\ view' \in [Sessions -> BOOLEAN]
  <2>1. CASE \E request \in pending :
               CASE request.type = "compile" -> SettleCompile(request, m.type = "compiled")
                 [] request.type = "open"    -> SettleOpen(request, m.type = "opened")
                 [] request.type = "close"   -> SettleClose(request)
                 [] OTHER                    -> SettleOther(request, m)
    <3>1. PICK request \in pending :
            \/ request.type = "compile" /\ SettleCompile(request, m.type = "compiled")
            \/ request.type = "open" /\ SettleOpen(request, m.type = "opened")
            \/ request.type = "close" /\ SettleClose(request)
            \/ SettleOther(request, m)
      BY <2>1
    <3>2. (m.type = "compiled") \in BOOLEAN /\ (m.type = "opened") \in BOOLEAN
      OBVIOUS
    <3> HIDE DEF m
    <3>3. CASE request.type = "compile" /\ SettleCompile(request, m.type = "compiled")
      BY <3>2, <3>3, SettleKeeps
    <3>4. CASE request.type = "open" /\ SettleOpen(request, m.type = "opened")
      BY <3>2, <3>4, SettleKeeps
    <3>5. CASE request.type = "close" /\ SettleClose(request)
      BY <3>5, SettleKeeps
    <3>6. CASE SettleOther(request, m)
      BY <3>6, SettleKeeps
    <3> QED BY <3>1, <3>3, <3>4, <3>5, <3>6
  <2>2. CASE UNCHANGED <<used, pending, queued, compiled, handle, view, toRelay>>
    BY <2>2 DEF ClientTypeOK, ChannelsTypeOK
  <2> QED BY <2>1, <2>2 DEF ReceiveReply
<1> QED BY <1>1, <1>2, <1>3 DEF ClientTypeOK, ChannelsTypeOK

LEMMA FailAllKeeps ==
  ASSUME ClientTypeOK, FailAll
  PROVE  handle' \in [Sessions -> HandleStates] /\ view' \in [Sessions -> BOOLEAN]
<1>1. \A s \in Sessions : handle[s] \in HandleStates
  BY DEF ClientTypeOK
<1>2. \A s \in Sessions : (CASE handle[s] = "opening" -> "failed"
                             [] disposed' /\ s \in Live -> "closed"
                             [] OTHER -> handle[s]) \in HandleStates
  <2> TAKE s \in Sessions
  <2>1. CASE handle[s] = "opening"
    BY <2>1, Zenon DEF Live, HandleStates
  <2>2. CASE handle[s] # "opening" /\ (disposed' /\ s \in Live)
    BY <2>2 DEF HandleStates
  <2>3. CASE handle[s] # "opening" /\ ~(disposed' /\ s \in Live)
    BY <1>1, <2>3
  <2> QED BY <2>1, <2>2, <2>3
<1>3. handle' \in [Sessions -> HandleStates]
  BY <1>2, Zenon DEF FailAll
<1>4. view' \in [Sessions -> BOOLEAN]
  BY Zenon DEF FailAll, ClientTypeOK
<1> QED BY <1>3, <1>4

LEMMA LoadOrGiveUpKeeps ==
  ASSUME ClientTypeOK, ChannelsTypeOK, IframeLoads \/ MarkUnavailable
  PROVE  ClientTypeOK' /\ ChannelsTypeOK' /\ UNCHANGED <<toWorker, fromWorker>>
<1>1. CASE IframeLoads
  <2>1. Append(toPage, Ready) \in Seq(PageMessage)
    BY AppendProperties DEF ChannelsTypeOK, PageMessage
  <2> QED BY <1>1, <2>1 DEF IframeLoads, ClientTypeOK, ChannelsTypeOK
<1>2. CASE MarkUnavailable
  <2>1. /\ pending' = {} /\ queued' = <<>> /\ status' = "unavailable" /\ disposed' = FALSE
        /\ UNCHANGED <<loaded, used, compiled, ownerOf, channels>>
    BY <1>2 DEF MarkUnavailable, FailAll
  <2>2. handle' \in [Sessions -> HandleStates] /\ view' \in [Sessions -> BOOLEAN]
    BY <1>2, FailAllKeeps DEF MarkUnavailable
  <2>3. UNCHANGED <<toRelay, toPage, toWorker, fromWorker>>
    BY <2>1 DEF channels
  <2>4. ChannelsTypeOK'
    BY <2>3 DEF ChannelsTypeOK
  <2>5. queued' \in Seq(PageRequest) /\ pending' \subseteq PageRequest
    BY <2>1
  <2>6. status' \in {"loading", "ready", "unavailable"} /\ disposed' \in BOOLEAN
    BY <2>1
  <2> QED BY <2>1, <2>2, <2>3, <2>4, <2>5, <2>6 DEF ClientTypeOK
<1> QED BY <1>1, <1>2

LEMMA ClientKeeps ==
  ASSUME ClientTypeOK, ChannelsTypeOK, ClientNext
  PROVE  ClientTypeOK' /\ ChannelsTypeOK' /\ UNCHANGED <<toWorker, fromWorker>>
<1>1. CASE \E c \in Compiles : CompileSource(c) \/ Release(c)
  <2>1. PICK c \in Compiles : CompileSource(c) \/ Release(c)
    BY <1>1
  <2> QED BY <2>1, CompileCallKeeps
<1>2. CASE \E s \in Sessions, c \in Compiles : OpenCompiled(s, c) \/ OpenCircuit(s, c)
  BY <1>2, OpenCallKeeps
<1>3. CASE \E s \in Sessions : Close(s) \/ \E type \in OpTypes : SessionCall(s, type)
  BY <1>3, SessionCallKeeps
<1>4. CASE ReceiveReady \/ ReceiveRestarted \/ ReceiveFrame \/ ReceiveReply
  BY <1>4, ReceiveReadyKeeps, ReceiveRestartedKeeps, ReceiveFrameKeeps, ReceiveReplyKeeps
<1>5. CASE IframeLoads \/ MarkUnavailable
  BY <1>5, LoadOrGiveUpKeeps
<1> QED BY <1>1, <1>2, <1>3, <1>4, <1>5 DEF ClientNext

-----------------------------------------------------------------------------
(* The worker *)

WorkerSide == WorkerTypeOK /\ ChannelsTypeOK /\ WorkerSeesOneSide /\ OneReplayOut

LEMMA WorkTypes == ASSUME WorkerSide PROVE
  /\ Work \subseteq Request /\ Said \subseteq Reply
  /\ \A r \in Work : restarting => r.id = ReplayId /\ r.type \in {"compile", "open"}
  /\ \A r \in Work : ~restarting => r.id \in PageIds
  BY DEF Work, Said, PageRequest, ReplayRequest

\* A reply the worker may post.
LEMMA PostKeeps ==
  ASSUME WorkerSide, NEW m \in Said, Post(m)
  PROVE  fromWorker' \in Seq(Said) /\ fromWorker' \in Seq(Reply)
         /\ Len(fromWorker') = Len(fromWorker) + 1
<1>1. m \in Reply /\ fromWorker \in Seq(Said) /\ fromWorker \in Seq(Reply)
  BY DEF Said, WorkerSide, WorkerSeesOneSide, ChannelsTypeOK
<1> QED BY <1>1, AppendProperties DEF Post

LEMMA ReplyIsSaid ==
  ASSUME WorkerSide, NEW r \in Work, NEW type \in ReplyTypes \ {"progressed"}, NEW st \in States,
         restarting => st # "running"
  PROVE  ReplyTo(r, type, st) \in Said /\ Failed(r.id) \in Said
         /\ [id |-> r.id, type |-> type, session |-> None, state |-> "none"] \in Said
<1>1. r \in Request
  BY WorkTypes
<1>2. /\ ReplyTo(r, type, st) \in Reply /\ Failed(r.id) \in Reply
      /\ [id |-> r.id, type |-> type, session |-> None, state |-> "none"] \in Reply
  BY <1>1, RequestFields DEF ReplyTo, Failed, Reply, States, ReplyTypes, PageIds, ReplayId, Request
<1>3. (restarting => r.id = ReplayId) /\ (~restarting => r.id # ReplayId)
  BY WorkTypes DEF PageIds, ReplayId
<1> QED BY <1>2, <1>3 DEF Said, ReplyTo, Failed

LEMMA TakeKeeps ==
  ASSUME WorkerSide, Take, UNCHANGED relayVars
  PROVE  WorkerSide'
<1> DEFINE request == Head(toWorker)
<1>1. /\ toWorker \in Seq(Work) /\ toWorker # <<>> /\ toWorker' = Tail(toWorker)
      /\ restarting' = restarting /\ replaying' = replaying
      /\ UNCHANGED <<wSessions, wRunning, wedged, stuck, toRelay, toPage>>
  BY DEF WorkerSide, WorkerSeesOneSide, Take, relayVars
<1>2. /\ request \in Work /\ toWorker' \in Seq(Work) /\ Len(toWorker') = Len(toWorker) - 1
      /\ Work \subseteq Request
  BY <1>1, HeadTailProperties, WorkTypes
<1>3. request \in Request /\ toWorker' \in Seq(Request)
  BY <1>2
<1>4. Work' = Work /\ Said' = Said
  BY <1>1 DEF Work, Said
<1> HIDE DEF request
<1>5. CASE request.type = "release"
  <2>1. ~restarting
    BY <1>2, <1>5, WorkTypes
  <2>2. /\ wCompiles' = wCompiles \ {request.compile} /\ taken' = taken
        /\ Post([id |-> request.id, type |-> "released", session |-> None, state |-> "none"])
    BY <1>5 DEF Take, request
  <2>3. [id |-> request.id, type |-> "released", session |-> None, state |-> "none"] \in Said
    BY <1>2, <2>1, ReplyIsSaid DEF ReplyTypes, States
  <2>4. fromWorker' \in Seq(Said) /\ fromWorker' \in Seq(Reply)
    BY <2>2, <2>3, PostKeeps
  <2> QED BY <1>1, <1>2, <1>3, <1>4, <2>1, <2>2, <2>4
          DEF WorkerSide, WorkerTypeOK, ChannelsTypeOK, WorkerSeesOneSide, OneReplayOut
<1>6. CASE request.type # "release"
  <2>1. /\ wCompiles' = wCompiles \cup (IF request.type = "compile" THEN {request.compile} ELSE {})
        /\ taken' = taken \cup {Found(request)} /\ fromWorker' = fromWorker
    BY <1>6 DEF Take, request
  <2>2. wCompiles' \subseteq Compiles
    BY <1>3, <2>1, RequestFields DEF WorkerSide, WorkerTypeOK
  <2>3. Found(request) \in Work
    <3>1. CASE Found(request) = request
      BY <1>2, <3>1
    <3>2. CASE Found(request) = [request EXCEPT !.compile = None] /\ request.type = "open"
      BY <1>2, <1>3, <3>2 DEF Work, PageRequest, ReplayRequest, Request
    <3> QED BY <3>1, <3>2 DEF Found
  <2>4. taken' \subseteq Work /\ taken' \subseteq {r \in Request : r.type # "release"}
    <3>1. Found(request).type # "release"
      BY <1>3, <1>6 DEF Found, Request
    <3> QED BY <1>2, <2>1, <2>3, <3>1 DEF WorkerSide, WorkerSeesOneSide, WorkerTypeOK
  <2>5. restarting => toWorker' = <<>> /\ taken' = {Found(request)} /\ fromWorker' = <<>>
    <3> SUFFICES ASSUME restarting
                 PROVE  toWorker' = <<>> /\ taken' = {Found(request)} /\ fromWorker' = <<>>
      OBVIOUS
    <3>1. Len(toWorker) = 1 /\ taken = {} /\ fromWorker = <<>>
      BY <1>1 DEF WorkerSide, OneReplayOut
    <3>2. toWorker' = <<>>
      BY <3>1, <1>2
    <3> QED BY <2>1, <3>1, <3>2
  <2>6. OneReplayOut'
    BY <1>1, <2>5 DEF OneReplayOut
  <2> QED BY <1>1, <1>2, <1>3, <1>4, <2>1, <2>2, <2>4, <2>6
          DEF WorkerSide, WorkerTypeOK, ChannelsTypeOK, WorkerSeesOneSide
<1> QED BY <1>5, <1>6

\* What an answer says and what it changes.
LEMMA AnswerPosts ==
  ASSUME WorkerSide, NEW request \in taken, Done(request) \/ Throws(request)
  PROVE  /\ \E m \in Said : Post(m)
         /\ wSessions' \subseteq Sessions /\ wRunning' \subseteq Sessions
         /\ restarting => wRunning' = wRunning
<1> DEFINE s == request.session
<1>1. request \in Work /\ request \in Request
  BY WorkTypes DEF WorkerSide, WorkerSeesOneSide
<1>2. wSessions \subseteq Sessions /\ wRunning \subseteq Sessions
  BY DEF WorkerSide, WorkerTypeOK
<1>3. request.type \notin {"compile", "release"} => s \in Sessions
  BY <1>1, RequestFields
<1>4. restarting => request.type \in {"compile", "open"}
  BY <1>1, WorkTypes
<1>5. ASSUME NEW type \in ReplyTypes \ {"progressed"}, NEW st \in States, restarting => st # "running"
      PROVE  ReplyTo(request, type, st) \in Said /\ Failed(request.id) \in Said
  BY <1>1, <1>5, ReplyIsSaid
<1>6. \A run : StateOf(s, run) \in States
  BY DEF StateOf, States
<1> HIDE DEF s
<1>7. CASE Throws(request)
  <2>1. Failed(request.id) \in Said
    BY <1>5 DEF ReplyTypes, States
  <2> QED BY <1>2, <1>7, <2>1 DEF Throws
<1>8. CASE Done(request) /\ request.type = "compile"
  <2>1. ReplyTo(request, "compiled", "none") \in Said
    BY <1>5 DEF ReplyTypes, States
  <2>2. Post(ReplyTo(request, "compiled", "none")) /\ UNCHANGED <<wSessions, wRunning>>
    BY <1>8 DEF Done
  <2> QED BY <1>2, <2>1, <2>2
<1>9. CASE Done(request) /\ request.type = "open"
  <2>1. ReplyTo(request, "opened", "stopped") \in Said
    BY <1>5 DEF ReplyTypes, States
  <2>2. /\ Post(ReplyTo(request, "opened", "stopped"))
        /\ wSessions' = wSessions \cup {s} /\ wRunning' = wRunning
    BY <1>9 DEF Done, s
  <2> QED BY <1>2, <1>3, <1>9, <2>1, <2>2
<1>10. CASE Done(request) /\ request.type = "close"
  <2>1. ReplyTo(request, "closed", "none") \in Said
    BY <1>5 DEF ReplyTypes, States
  <2>2. /\ Post(ReplyTo(request, "closed", "none"))
        /\ wSessions' = wSessions \ {s} /\ wRunning' = wRunning \ {s}
    BY <1>10 DEF Done, s
  <2> QED BY <1>2, <1>4, <1>10, <2>1, <2>2
<1>11. CASE Done(request) /\ request.type \in {"run", "pause"}
  <2>1. /\ s \in wSessions
        /\ wRunning' = IF request.type = "run" THEN wRunning \cup {s} ELSE wRunning \ {s}
        /\ Post(ReplyTo(request, "updated", StateOf(s, wRunning'))) /\ wSessions' = wSessions
    BY <1>11 DEF Done, s
  <2>2. ~restarting
    BY <1>4, <1>11
  <2>3. ReplyTo(request, "updated", StateOf(s, wRunning')) \in Said
    BY <1>5, <1>6, <2>2 DEF ReplyTypes
  <2> QED BY <1>2, <2>1, <2>2, <2>3
<1>12. CASE Done(request) /\ request.type = "op"
  <2>1. Post(ReplyTo(request, "updated", StateOf(s, wRunning))) /\ UNCHANGED <<wSessions, wRunning>>
    BY <1>12 DEF Done, s
  <2>2. ReplyTo(request, "updated", StateOf(s, wRunning)) \in Said
    BY <1>4, <1>5, <1>6, <1>12 DEF ReplyTypes
  <2> QED BY <1>2, <2>1, <2>2
<1>13. CASE Done(request) /\ request.type = "scan"
  <2>1. Post(ReplyTo(request, "scanned", "none")) /\ UNCHANGED <<wSessions, wRunning>>
    BY <1>13 DEF Done
  <2>2. ReplyTo(request, "scanned", "none") \in Said
    BY <1>5 DEF ReplyTypes, States
  <2> QED BY <1>2, <2>1, <2>2
<1>14. request.type \in RequestTypes
  BY <1>1, RequestFields
<1>15. CASE Done(request) /\ request.type = "release"
  \* A release is answered as it is taken.
  BY <1>15 DEF WorkerSide, WorkerTypeOK
<1> QED BY <1>7, <1>8, <1>9, <1>10, <1>11, <1>12, <1>13, <1>14, <1>15 DEF RequestTypes, SessionOps

LEMMA AnswerKeeps ==
  ASSUME WorkerSide, Answer, UNCHANGED relayVars
  PROVE  WorkerSide'
<1>1. PICK request \in Answerable :
        taken' = taken \ {request} /\ (Done(request) \/ Throws(request))
  BY DEF Answer
<1>2. request \in taken
  BY DEF Answerable
<1>3. PICK m \in Said : Post(m)
  BY <1>1, <1>2, AnswerPosts
<1>4. fromWorker' \in Seq(Said) /\ fromWorker' \in Seq(Reply)
      /\ Len(fromWorker') = Len(fromWorker) + 1
  BY <1>3, PostKeeps
<1>5. /\ wSessions' \subseteq Sessions /\ wRunning' \subseteq Sessions
      /\ restarting => wRunning' = wRunning
  BY <1>1, <1>2, AnswerPosts
<1>6. /\ UNCHANGED <<wCompiles, wedged, stuck, toRelay, toPage, toWorker>>
      /\ restarting' = restarting /\ replaying' = replaying
  BY DEF Answer, relayVars
<1>7. Work' = Work /\ Said' = Said
  BY <1>6 DEF Work, Said
<1>8. OneReplayOut'
  <2> SUFFICES ASSUME restarting
               PROVE  toWorker' = <<>> /\ taken' = {} /\ Len(fromWorker') = 1
    BY <1>6 DEF OneReplayOut
  <2>1. toWorker = <<>> /\ (\E r \in taken : taken = {r}) /\ fromWorker = <<>>
    BY <1>2 DEF WorkerSide, OneReplayOut
  <2>2. taken' = {}
    BY <1>1, <1>2, <2>1
  <2>3. Len(fromWorker) = 0
    BY <2>1
  <2> QED BY <1>4, <1>6, <2>1, <2>2, <2>3
<1>9. WorkerTypeOK'
  BY <1>1, <1>5, <1>6 DEF WorkerSide, WorkerTypeOK
<1> QED BY <1>1, <1>4, <1>5, <1>6, <1>7, <1>8, <1>9
        DEF WorkerSide, ChannelsTypeOK, WorkerSeesOneSide

\* Heartbeats and frames: only of a worker that was sent page requests.
LEMMA PushKeeps ==
  ASSUME WorkerSide, UNCHANGED relayVars, Heartbeat \/ \E s \in Sessions : PushFrame(s)
  PROVE  WorkerSide'
<1>1. PICK m \in Reply : Post(m) /\ m.id = NoId
  <2>1. CASE Heartbeat
    <3>1. [id |-> NoId, type |-> "progressed", session |-> None, state |-> "none"] \in Reply
      BY DEF Reply, ReplyTypes, States
    <3> QED BY <2>1, <3>1 DEF Heartbeat
  <2>2. CASE \E s \in Sessions : PushFrame(s)
    <3>1. PICK s \in Sessions : PushFrame(s)
      BY <2>2
    <3>2. Frame(s, "running") \in Reply /\ Frame(s, "running").id = NoId
      BY ReplyTypesHold DEF States
    <3> QED BY <3>1, <3>2 DEF PushFrame
  <2> QED BY <2>1, <2>2
<1>2. ~restarting
  <2>1. CASE Heartbeat
    <3>1. PICK r \in taken : r.type = "op"
      BY <2>1 DEF Heartbeat, Answerable
    <3>2. r \in Work
      BY DEF WorkerSide, WorkerSeesOneSide
    <3> QED BY <3>1, <3>2, WorkTypes
  <2>2. CASE \E s \in Sessions : PushFrame(s)
    BY <2>2 DEF PushFrame, WorkerSide, WorkerSeesOneSide
  <2> QED BY <2>1, <2>2
<1>3. m \in Said
  BY <1>1, <1>2 DEF Said, NoId, ReplayId
<1>4. fromWorker' \in Seq(Said) /\ fromWorker' \in Seq(Reply)
  BY <1>1, <1>3, PostKeeps
<1>5. /\ UNCHANGED <<taken, wCompiles, wSessions, wRunning, wedged, stuck>>
      /\ UNCHANGED <<toRelay, toPage, toWorker>>
      /\ restarting' = restarting /\ replaying' = replaying
  BY DEF Heartbeat, PushFrame, workerVars, relayVars
<1>6. Work' = Work /\ Said' = Said
  BY <1>5 DEF Work, Said
<1> QED BY <1>2, <1>4, <1>5, <1>6
        DEF WorkerSide, WorkerTypeOK, ChannelsTypeOK, WorkerSeesOneSide, OneReplayOut

LEMMA FaultKeeps ==
  ASSUME WorkerSide, UNCHANGED relayVars, Hang \/ \E s \in Sessions : StepThrows(s)
  PROVE  WorkerSide'
<1>1. /\ UNCHANGED <<taken, wCompiles, wSessions, wRunning>>
      /\ UNCHANGED <<toRelay, toPage, toWorker, fromWorker>>
      /\ restarting' = restarting /\ replaying' = replaying
      /\ wedged' \subseteq Sessions /\ stuck' \in BOOLEAN
  BY DEF Hang, StepThrows, channels, relayVars, WorkerSide, WorkerTypeOK
<1>2. Work' = Work /\ Said' = Said
  BY <1>1 DEF Work, Said
<1> QED BY <1>1, <1>2
        DEF WorkerSide, WorkerTypeOK, ChannelsTypeOK, WorkerSeesOneSide, OneReplayOut

LEMMA WorkerKeeps ==
  ASSUME WorkerSide, WorkerNext, UNCHANGED relayVars
  PROVE  WorkerSide'
  BY TakeKeeps, AnswerKeeps, PushKeeps, FaultKeeps DEF WorkerNext

-----------------------------------------------------------------------------
(* The relay between restarts *)

RelaySide == RelayTypeOK /\ IsFiniteSet(inFlight) /\ WatchdogArmed

LEMMA ReceiveKeeps ==
  ASSUME RelaySide, WorkerSide, Receive, UNCHANGED workerVars
  PROVE  RelaySide' /\ WorkerSide'
<1> DEFINE request == Head(toRelay)
<1>1. /\ request \in PageRequest /\ request \in Request
      /\ toRelay' \in Seq(PageRequest)
  BY HeadTailProperties DEF Receive, WorkerSide, ChannelsTypeOK, PageRequest
<1>2. /\ UNCHANGED <<running, compiles, sessions, restarting, replaying, todoCompiles,
                      todoSessions, reopened, dropped, toPage, fromWorker>>
      /\ UNCHANGED <<taken, wCompiles, wSessions, wRunning, wedged, stuck>>
  BY DEF Receive, workerVars
<1>3. Work' = Work /\ Said' = Said
  BY <1>2 DEF Work, Said
<1> HIDE DEF request
<1>4. CASE restarting
  <2>1. held' = Append(held, request) /\ UNCHANGED <<inFlight, watchdog, toWorker>>
    BY <1>4 DEF Receive, request
  <2>2. held' \in Seq(PageRequest)
    BY <1>1, <2>1, AppendProperties DEF RelaySide, RelayTypeOK
  <2>3. RelaySide'
    BY <1>2, <2>1, <2>2 DEF RelaySide, RelayTypeOK, WatchdogArmed, Owes
  <2>4. WorkerSide'
    BY <1>1, <1>2, <1>3, <2>1
       DEF WorkerSide, WorkerTypeOK, ChannelsTypeOK, WorkerSeesOneSide, OneReplayOut
  <2> QED BY <2>3, <2>4
<1>5. CASE ~restarting
  <2>1. /\ inFlight' = inFlight \cup {request} /\ watchdog' = TRUE
        /\ toWorker' = Append(toWorker, request) /\ held' = held
    BY <1>5 DEF Receive, request
  <2>2. request \in Work
    BY <1>1, <1>5 DEF Work
  <2>3. toWorker' \in Seq(Work) /\ toWorker' \in Seq(Request)
    BY <1>1, <2>1, <2>2, AppendProperties DEF WorkerSide, WorkerSeesOneSide, ChannelsTypeOK
  <2>4. IsFiniteSet(inFlight')
    BY <2>1, FS_AddElement DEF RelaySide
  <2>5. WatchdogArmed'
    BY <1>2, <1>5, <2>1 DEF WatchdogArmed, Owes
  <2>6. RelaySide'
    BY <1>1, <1>2, <2>1, <2>4, <2>5 DEF RelaySide, RelayTypeOK
  <2>7. WorkerSide'
    BY <1>1, <1>2, <1>3, <1>5, <2>3
       DEF WorkerSide, WorkerTypeOK, ChannelsTypeOK, WorkerSeesOneSide, OneReplayOut
  <2> QED BY <2>6, <2>7
<1> QED BY <1>4, <1>5

\* Taking a message that is no answer to a replay: not during a restart.
LEMMA ForwardsOutsideRestart ==
  ASSUME WorkerSide, UNCHANGED <<restarting, replaying>>, UNCHANGED workerVars,
         fromWorker # <<>>, fromWorker' = Tail(fromWorker),
         Head(fromWorker).type = "progressed" \/ Head(fromWorker).id # ReplayId,
         UNCHANGED <<toRelay, toWorker>>, toPage' \in Seq(PageMessage)
  PROVE  WorkerSide' /\ ~restarting /\ Head(fromWorker) \in Reply
<1>1. /\ Head(fromWorker) \in Said /\ Head(fromWorker) \in Reply
      /\ fromWorker' \in Seq(Said) /\ fromWorker' \in Seq(Reply)
  BY HeadTailProperties DEF WorkerSide, WorkerSeesOneSide, ChannelsTypeOK
<1>2. ~restarting
  BY <1>1 DEF Said
<1>3. Work' = Work /\ Said' = Said
  BY DEF Work, Said
<1>4. UNCHANGED <<taken, wCompiles, wSessions, wRunning, wedged, stuck>>
  BY DEF workerVars
<1> QED BY <1>1, <1>2, <1>3, <1>4
        DEF WorkerSide, WorkerTypeOK, ChannelsTypeOK, WorkerSeesOneSide, OneReplayOut

LEMMA ProgressedKeeps ==
  ASSUME RelaySide, WorkerSide, Progressed, UNCHANGED workerVars
  PROVE  RelaySide' /\ WorkerSide'
<1>1. toPage' \in Seq(PageMessage)
  BY DEF Progressed, WorkerSide, ChannelsTypeOK
<1>2. WorkerSide' /\ ~restarting
  BY <1>1, ForwardsOutsideRestart DEF Progressed
<1>3. /\ watchdog' = Owes(inFlight, running)
      /\ UNCHANGED <<inFlight, running, compiles, sessions, restarting, held, replaying,
                     todoCompiles, todoSessions, reopened, dropped>>
  BY DEF Progressed
<1> QED BY <1>2, <1>3 DEF RelaySide, RelayTypeOK, WatchdogArmed, Owes

LEMMA TrackRunningType ==
  ASSUME RelayTypeOK, NEW m \in Reply, NEW named \in Sessions \cup {None}
  PROVE  TrackRunning(m, named) \subseteq Sessions
<1>1. m.session \in Sessions \cup {None}
  BY DEF Reply
<1> QED BY <1>1 DEF TrackRunning, RelayTypeOK

LEMMA ForwardReplyKeeps ==
  ASSUME RelaySide, WorkerSide, ForwardReply, UNCHANGED workerVars
  PROVE  RelaySide' /\ WorkerSide'
<1> DEFINE m == Head(fromWorker)
<1>1. m \in Reply /\ m.id \in PageIds /\ fromWorker # <<>> /\ fromWorker' = Tail(fromWorker)
  BY HeadTailProperties DEF ForwardReply, WorkerSide, ChannelsTypeOK
<1>2. Append(toPage, m) \in Seq(PageMessage) /\ toPage \in Seq(PageMessage)
  BY <1>1, AppendProperties DEF WorkerSide, ChannelsTypeOK, PageMessage
<1>3. toPage' \in Seq(PageMessage)
  BY <1>2 DEF ForwardReply
<1>4. UNCHANGED <<restarting, held, replaying, todoCompiles, todoSessions, reopened,
                  dropped, toRelay, toWorker>>
  BY DEF ForwardReply
<1>5. WorkerSide' /\ ~restarting
  BY <1>1, <1>3, <1>4, ForwardsOutsideRestart DEF PageIds, ReplayId
<1> HIDE DEF m
<1>6. CASE UNCHANGED <<inFlight, running, compiles, sessions, watchdog, toPage>>
  BY <1>4, <1>5, <1>6 DEF RelaySide, RelayTypeOK, WatchdogArmed, Owes
<1>7. ASSUME NEW request \in inFlight,
             /\ inFlight' = inFlight \ {request}
             /\ running' = TrackRunning(m, request.session)
             /\ Remember(request, m)
             /\ watchdog' = Owes(inFlight', running')
      PROVE  RelaySide'
  <2>1. request \in Request
    BY DEF RelaySide, RelayTypeOK, PageRequest
  <2>2. running' \subseteq Sessions
    BY <1>1, <1>7, <2>1, TrackRunningType, RequestFields DEF RelaySide
  <2>3. compiles' \subseteq Compiles
    BY <1>7, <2>1, RequestFields DEF Remember, RelaySide, RelayTypeOK
  <2>4. sessions' \in [Sessions -> Compiles \cup {None}]
    BY <1>7, <2>1, RequestFields DEF Remember, RelaySide, RelayTypeOK
  <2>5. IsFiniteSet(inFlight')
    BY <1>7, FS_RemoveElement DEF RelaySide
  <2>6. WatchdogArmed' /\ watchdog' \in BOOLEAN
    BY <1>4, <1>5, <1>7 DEF WatchdogArmed, Owes
  <2> QED BY <1>4, <1>7, <2>2, <2>3, <2>4, <2>5, <2>6 DEF RelaySide, RelayTypeOK
<1> QED BY <1>5, <1>6, <1>7 DEF ForwardReply, m

LEMMA ForwardFrameKeeps ==
  ASSUME RelaySide, WorkerSide, ForwardFrame, UNCHANGED workerVars
  PROVE  RelaySide' /\ WorkerSide'
<1> DEFINE m == Head(fromWorker)
<1>1. m \in Reply /\ m.id = NoId /\ fromWorker # <<>> /\ fromWorker' = Tail(fromWorker)
  BY HeadTailProperties DEF ForwardFrame, WorkerSide, ChannelsTypeOK
<1>2. toPage' \in Seq(PageMessage)
  BY <1>1, AppendProperties DEF ForwardFrame, WorkerSide, ChannelsTypeOK, PageMessage
<1>3. /\ UNCHANGED <<inFlight, compiles, sessions, restarting, held, replaying, todoCompiles,
                     todoSessions, reopened, dropped, toRelay, toWorker>>
      /\ running' = TrackRunning(m, None) /\ watchdog' = Owes(inFlight, running')
  BY DEF ForwardFrame
<1>4. WorkerSide' /\ ~restarting
  BY <1>1, <1>2, <1>3, ForwardsOutsideRestart DEF NoId, ReplayId
<1> HIDE DEF m
<1>5. running' \subseteq Sessions
  BY <1>1, <1>3, TrackRunningType DEF RelaySide
<1>6. WatchdogArmed' /\ watchdog' \in BOOLEAN
  BY <1>3, <1>4 DEF WatchdogArmed, Owes
<1> QED BY <1>3, <1>4, <1>5, <1>6 DEF RelaySide, RelayTypeOK

-----------------------------------------------------------------------------
(* Restart and replay *)

\* A finite set of messages made from a finite set of sessions.
LEMMA FramesFinite ==
  ASSUME NEW ro \in SUBSET Sessions
  PROVE  IsFiniteSet({Frame(s, "stopped") : s \in ro})
         /\ {Frame(s, "stopped") : s \in ro} \subseteq PageMessage
<1> DEFINE T == {Frame(s, "stopped") : s \in ro}
           f == [s \in ro |-> Frame(s, "stopped")]
<1>1. IsFiniteSet(ro)
  BY FiniteSubset
<1>2. f \in Surjection(ro, T)
  BY DEF Surjection
<1>3. IsFiniteSet(T)
  BY <1>1, <1>2, FS_Surjection
<1>4. T \subseteq PageMessage
  BY ReplyTypesHold DEF States
<1> QED BY <1>3, <1>4

LEMMA RangeFinite ==
  ASSUME NEW q \in Seq(PageRequest)
  PROVE  IsFiniteSet(Range(q)) /\ Range(q) \subseteq PageRequest /\ (Range(q) = {} <=> q = <<>>)
<1>1. /\ Len(q) \in Nat /\ DOMAIN q = 1 .. Len(q) /\ q \in [1 .. Len(q) -> PageRequest]
  OBVIOUS
<1>2. Range(q) = {q[k] : k \in 1 .. Len(q)}
  BY <1>1 DEF Range
<1>3. q \in Surjection(1 .. Len(q), Range(q))
  BY <1>1, <1>2 DEF Surjection
<1>4. IsFiniteSet(1 .. Len(q))
  BY <1>1, FS_Interval
<1>5. IsFiniteSet(Range(q))
  BY <1>3, <1>4, FS_Surjection
<1>6. Range(q) = {} <=> q = <<>>
  BY <1>1, <1>2
<1> QED BY <1>1, <1>2, <1>5, <1>6

\* Finishing or going on, with a worker that has nothing of the page's yet.
LEMMA ContinueKeeps ==
  ASSUME held \in Seq(PageRequest), toRelay \in Seq(PageRequest),
         NEW before \in Seq(PageMessage), NEW tc \in SUBSET Compiles, NEW ts \in SUBSET Sessions,
         NEW table \in [Sessions -> Compiles \cup {None}],
         NEW ro \in SUBSET Sessions, NEW dr \in SUBSET Sessions,
         Continue(before, tc, ts, table, ro, dr),
         running' = {}, taken' = {}, wRunning' = {}, fromWorker' = <<>>, toRelay' = toRelay,
         compiles' \subseteq Compiles, sessions' \in [Sessions -> Compiles \cup {None}],
         WorkerTypeOK'
  PROVE  RelaySide' /\ WorkerSide'
<1>1. CASE tc = {} /\ ts = {}
  <2>1. Finish(before, ro, dr)
    BY <1>1 DEF Continue
  <2>2. /\ inFlight' = Range(held) /\ watchdog' = (held # <<>>) /\ toWorker' = held
        /\ restarting' = FALSE /\ held' = <<>> /\ replaying' = None
        /\ todoCompiles' = {} /\ todoSessions' = {} /\ reopened' = {} /\ dropped' = {}
    BY <2>1 DEF Finish
  <2>3. toPage' \in Seq(PageMessage)
    <3> DEFINE T == {Frame(s, "stopped") : s \in ro}
    <3>1. PICK frames \in SetToSeqs(T) : toPage' = before \o frames \o <<Restarted(ro, dr)>>
      BY <2>1 DEF Finish
    <3>2. IsFiniteSet(T) /\ T \subseteq PageMessage
      BY FramesFinite
    <3> HIDE DEF T
    <3>3. frames \in Seq(PageMessage)
      BY <3>2, EnumerationType
    <3>4. <<Restarted(ro, dr)>> \in Seq(PageMessage)
      BY NoticeTypesHold
    <3>5. before \o frames \in Seq(PageMessage)
      BY <3>3, ConcatProperties
    <3> QED BY <3>1, <3>4, <3>5, ConcatProperties
  <2>4. /\ IsFiniteSet(inFlight') /\ inFlight' \subseteq PageRequest
        /\ inFlight' = {} <=> held = <<>>
    BY <2>2, RangeFinite
  <2>5. WatchdogArmed' /\ watchdog' \in BOOLEAN
    BY <2>2, <2>4 DEF WatchdogArmed, Owes
  <2>6. held' \in Seq(PageRequest)
    BY <2>2
  <2>7. RelaySide'
    BY <2>2, <2>4, <2>5, <2>6 DEF RelaySide, RelayTypeOK
  <2>8. Work' = PageRequest /\ Work' \subseteq Request
    BY <2>2 DEF Work, PageRequest
  <2>9. toWorker' \in Seq(Work') /\ toWorker' \in Seq(Request)
    BY <2>2, <2>8
  <2>10. fromWorker' \in Seq(Said') /\ fromWorker' \in Seq(Reply)
    OBVIOUS
  <2> QED BY <2>2, <2>3, <2>7, <2>9, <2>10
          DEF WorkerSide, ChannelsTypeOK, WorkerSeesOneSide, OneReplayOut
<1>2. CASE ~(tc = {} /\ ts = {})
  <2>1. PICK r \in NextReplays(tc, ts, table) :
          /\ replaying' = r /\ toWorker' = <<r>>
          /\ todoCompiles' = tc \ {r.compile} /\ todoSessions' = ts \ {r.session}
    BY <1>2 DEF Continue
  <2>2. /\ toPage' = before /\ reopened' = ro /\ dropped' = dr /\ restarting' = TRUE
        /\ inFlight' = {} /\ watchdog' = FALSE /\ held' = held
    BY <1>2 DEF Continue
  <2>3. r \in ReplayRequest
    <3>1. CASE tc # {}
      <4>1. PICK c \in tc : r = CompileRequest(ReplayId, c)
        BY <2>1, <3>1 DEF NextReplays
      <4> QED BY <4>1, ReplayCompileType
    <3>2. CASE tc = {}
      <4>1. PICK s \in ts : r = OpenRequest(ReplayId, s, table[s])
        BY <2>1, <3>2 DEF NextReplays
      <4> QED BY <4>1, ReplayOpenType
    <3> QED BY <3>1, <3>2
  <2>4. r # None
    BY <2>3 DEF ReplayRequest
  <2>5. RelaySide'
    BY <2>1, <2>2, <2>3, FS_EmptySet DEF RelaySide, RelayTypeOK, WatchdogArmed
  <2>6. Work' = ReplayRequest /\ r \in Request
    BY <2>2, <2>3 DEF Work, ReplayRequest
  <2>7. toWorker' \in Seq(Work') /\ toWorker' \in Seq(Request) /\ Len(toWorker') = 1
    BY <2>1, <2>3, <2>6
  <2>8. fromWorker' \in Seq(Said') /\ fromWorker' \in Seq(Reply)
    OBVIOUS
  <2> QED BY <2>1, <2>2, <2>4, <2>5, <2>7, <2>8
          DEF WorkerSide, ChannelsTypeOK, WorkerSeesOneSide, OneReplayOut
<1> QED BY <1>1, <1>2

\* What FreshWorker says of the worker.
LEMMA FreshWorkerType ==
  ASSUME FreshWorker
  PROVE  WorkerTypeOK' /\ taken' = {} /\ wRunning' = {}
  BY DEF FreshWorker, Idle, WorkerTypeOK

\* The failures of what was in flight, as OnSilence sends them.
LEMMA FailuresType ==
  ASSUME RelaySide, NEW order \in OldestFirst(inFlight)
  PROVE  [k \in DOMAIN order |-> Failed(order[k])] \in Seq(PageMessage)
<1> DEFINE I == {r.id : r \in inFlight}
           f == [r \in inFlight |-> r.id]
<1>1. I \subseteq PageIds
  BY DEF RelaySide, RelayTypeOK, PageRequest
<1>2. IsFiniteSet(I)
  <2>1. f \in Surjection(inFlight, I)
    BY DEF Surjection
  <2> QED BY <2>1, FS_Surjection DEF RelaySide
<1>3. order \in SetToSeqs(I)
  BY DEF OldestFirst
<1> HIDE DEF I
<1>4. order \in Seq(I) /\ Len(order) \in Nat /\ DOMAIN order = 1 .. Len(order)
  BY <1>2, <1>3, EnumerationType
<1>5. \A k \in 1 .. Len(order) : Failed(order[k]) \in PageMessage
  <2> TAKE k \in 1 .. Len(order)
  <2>1. order[k] \in PageIds
    BY <1>1, <1>4
  <2> QED BY <2>1 DEF Failed, Reply, PageMessage, ReplyTypes, States
<1> QED BY <1>4, <1>5

LEMMA OpenSessionsType == \A table : OpenSessions(table) \subseteq Sessions
  BY DEF OpenSessions

LEMMA OnSilenceKeeps ==
  ASSUME RelaySide, WorkerSide, OnSilence, FreshWorker
  PROVE  RelaySide' /\ WorkerSide'
<1>1. PICK order \in OldestFirst(inFlight) :
        Continue(toPage \o [k \in DOMAIN order |-> Failed(order[k])],
                 compiles, OpenSessions(sessions), sessions, {}, {})
  BY DEF OnSilence
<1> DEFINE before == toPage \o [k \in DOMAIN order |-> Failed(order[k])]
<1>2. before \in Seq(PageMessage)
  BY FailuresType, ConcatProperties DEF WorkerSide, ChannelsTypeOK
<1>3. /\ running' = {} /\ fromWorker' = <<>> /\ toRelay' = toRelay
      /\ compiles' = compiles /\ sessions' = sessions
  BY DEF OnSilence
<1>4. /\ held \in Seq(PageRequest) /\ toRelay \in Seq(PageRequest)
      /\ compiles \in SUBSET Compiles /\ sessions \in [Sessions -> Compiles \cup {None}]
  BY DEF RelaySide, RelayTypeOK, WorkerSide, ChannelsTypeOK
<1>5. OpenSessions(sessions) \in SUBSET Sessions /\ {} \in SUBSET Sessions
  BY OpenSessionsType
<1>6. Continue(before, compiles, OpenSessions(sessions), sessions, {}, {})
  BY <1>1
<1> HIDE DEF before
<1> QED BY <1>2, <1>3, <1>4, <1>5, <1>6, FreshWorkerType, ContinueKeeps

\* A replay request names a compile to compile, or a session to open.
LEMMA ReplayFields ==
  ASSUME NEW r \in ReplayRequest
  PROVE  /\ r.type \in {"compile", "open"} /\ r.compile \in Compiles \cup {None}
         /\ r.session \in Sessions \cup {None}
         /\ r.type = "compile" => r.compile \in Compiles
         /\ r.type = "open" => r.session \in Sessions
  BY RequestFields DEF ReplayRequest

\* The answer to the one replay is all that is left of the new worker.
LEMMA ReplayAnswered ==
  ASSUME RelaySide, WorkerSide, Replayed, UNCHANGED workerVars
  PROVE  /\ replaying \in ReplayRequest /\ running' = {} /\ taken' = {} /\ wRunning' = {}
         /\ fromWorker' = <<>> /\ toRelay' = toRelay /\ WorkerTypeOK'
<1>1. fromWorker # <<>> /\ Head(fromWorker).id = ReplayId /\ fromWorker' = Tail(fromWorker)
  BY DEF Replayed
<1>2. Head(fromWorker) \in Said
  BY <1>1, HeadTailProperties DEF WorkerSide, WorkerSeesOneSide
<1>3. restarting
  BY <1>1, <1>2 DEF Said
<1>4. replaying \in ReplayRequest /\ wRunning = {} /\ running = {}
  BY <1>3 DEF WorkerSide, WorkerSeesOneSide, RelaySide, RelayTypeOK, WatchdogArmed
<1>5. taken = {} /\ Len(fromWorker) = 1
  BY <1>1, <1>3 DEF WorkerSide, OneReplayOut
<1>6. fromWorker' = <<>>
  <2>1. fromWorker \in Seq(Reply)
    BY DEF WorkerSide, ChannelsTypeOK
  <2>2. Tail(fromWorker) \in Seq(Reply) /\ Len(Tail(fromWorker)) = 0
    BY <1>1, <1>5, <2>1, HeadTailProperties
  <2> QED BY <1>1, <2>2, EmptySeq
<1>7. UNCHANGED <<taken, wCompiles, wSessions, wRunning, wedged, stuck>>
      /\ running' = running /\ toRelay' = toRelay
  BY DEF workerVars, Replayed
<1> QED BY <1>4, <1>5, <1>6, <1>7 DEF WorkerSide, WorkerTypeOK

LEMMA ReplayedKeeps ==
  ASSUME RelaySide, WorkerSide, Replayed, UNCHANGED workerVars
  PROVE  RelaySide' /\ WorkerSide'
<1> DEFINE lost == Head(fromWorker).type # "opened"
           s == replaying.session
<1>1. /\ replaying \in ReplayRequest /\ running' = {} /\ taken' = {} /\ wRunning' = {}
      /\ fromWorker' = <<>> /\ toRelay' = toRelay /\ WorkerTypeOK'
  BY ReplayAnswered
<1>2. /\ held \in Seq(PageRequest) /\ toRelay \in Seq(PageRequest) /\ toPage \in Seq(PageMessage)
      /\ compiles \in SUBSET Compiles /\ sessions \in [Sessions -> Compiles \cup {None}]
      /\ todoCompiles \in SUBSET Compiles /\ todoSessions \in SUBSET Sessions
      /\ reopened \in SUBSET Sessions /\ dropped \in SUBSET Sessions
  BY DEF RelaySide, RelayTypeOK, WorkerSide, ChannelsTypeOK
<1>3. CASE /\ replaying.type = "compile"
           /\ compiles' \in {compiles, compiles \ {replaying.compile}}
           /\ Continue(toPage, todoCompiles, todoSessions, sessions, reopened, dropped)
           /\ sessions' = sessions
  <2>1. compiles' \subseteq Compiles /\ sessions' \in [Sessions -> Compiles \cup {None}]
    BY <1>2, <1>3
  <2> QED BY <1>1, <1>2, <1>3, <2>1, ContinueKeeps
<1>4. CASE /\ replaying.type = "open"
           /\ sessions' = IF lost THEN [sessions EXCEPT ![s] = None] ELSE sessions
           /\ Continue(toPage, todoCompiles, todoSessions, sessions',
                       IF lost THEN reopened ELSE reopened \cup {s},
                       IF lost THEN dropped \cup {s} ELSE dropped)
           /\ compiles' = compiles
  <2> DEFINE ro == IF lost THEN reopened ELSE reopened \cup {s}
             dr == IF lost THEN dropped \cup {s} ELSE dropped
  <2>1. s \in Sessions
    BY <1>1, <1>4, ReplayFields
  <2>2. sessions' \in [Sessions -> Compiles \cup {None}] /\ compiles' \subseteq Compiles
    BY <1>2, <1>4
  <2>3. ro \in SUBSET Sessions /\ dr \in SUBSET Sessions
    BY <1>2, <2>1
  <2>4. Continue(toPage, todoCompiles, todoSessions, sessions', ro, dr)
    BY <1>4
  <2> HIDE DEF ro, dr
  <2> QED BY <1>1, <1>2, <2>2, <2>3, <2>4, ContinueKeeps
<1> QED BY <1>3, <1>4 DEF Replayed

LEMMA ReplayTimeoutKeeps ==
  ASSUME RelaySide, WorkerSide, ReplayTimeout, FreshWorker
  PROVE  RelaySide' /\ WorkerSide'
<1> DEFINE dr == dropped \cup ({replaying.session} \ {None})
<1>1. replaying \in ReplayRequest /\ restarting
  BY DEF ReplayTimeout, RelaySide, RelayTypeOK, WorkerSide, WorkerSeesOneSide
<1>2. running' = {} /\ fromWorker' = <<>> /\ toRelay' = toRelay
  BY <1>1 DEF ReplayTimeout, RelaySide, WatchdogArmed
<1>3. /\ held \in Seq(PageRequest) /\ toRelay \in Seq(PageRequest) /\ toPage \in Seq(PageMessage)
      /\ compiles \in SUBSET Compiles /\ sessions \in [Sessions -> Compiles \cup {None}]
      /\ dropped \in SUBSET Sessions
  BY DEF RelaySide, RelayTypeOK, WorkerSide, ChannelsTypeOK
<1>4. compiles' \in SUBSET Compiles
  BY <1>3 DEF ReplayTimeout
<1>5. sessions' \in [Sessions -> Compiles \cup {None}]
  BY <1>1, <1>3, ReplayFields DEF ReplayTimeout
<1>6. dr \in SUBSET Sessions /\ OpenSessions(sessions') \in SUBSET Sessions
      /\ {} \in SUBSET Sessions
  BY <1>1, <1>3, ReplayFields, OpenSessionsType
<1>7. Continue(toPage, compiles', OpenSessions(sessions'), sessions', {}, dr)
  BY DEF ReplayTimeout
<1> HIDE DEF dr
<1> QED BY <1>2, <1>3, <1>4, <1>5, <1>6, <1>7, FreshWorkerType, ContinueKeeps

-----------------------------------------------------------------------------
(* The whole *)

\* Empty tables and channels: at the start, and once the iframe is removed.
LEMMA InitHolds == ASSUME Init PROVE IInv
<1>1. ClientTypeOK
  <2>1. /\ status = "loading" /\ disposed = FALSE /\ loaded = FALSE
        /\ used = 0 /\ pending = {} /\ queued = <<>> /\ compiled = {}
    BY DEF Init, ClientInit
  <2>2. ownerOf \in [Sessions -> Compiles \cup {None}]
    BY DEF Init, ClientInit
  <2>3. handle \in [Sessions -> HandleStates] /\ view \in [Sessions -> BOOLEAN]
    BY DEF Init, ClientInit, HandleStates
  <2>4. disposed \in BOOLEAN /\ loaded \in BOOLEAN
    BY <2>1
  <2>5. queued \in Seq(PageRequest)
    BY <2>1
  <2> QED BY <2>1, <2>2, <2>3, <2>4, <2>5 DEF ClientTypeOK
<1>2. RelayTypeOK /\ WatchdogArmed /\ IsFiniteSet(inFlight)
  <2>1. /\ inFlight = {} /\ running = {} /\ watchdog = FALSE /\ compiles = {}
        /\ restarting = FALSE /\ held = <<>> /\ replaying = None
        /\ todoCompiles = {} /\ todoSessions = {} /\ reopened = {} /\ dropped = {}
    BY DEF Init, RelayInit, Empty
  <2>2. sessions \in [Sessions -> Compiles \cup {None}]
    BY DEF Init, RelayInit, Empty
  <2>3. IsFiniteSet(inFlight) /\ WatchdogArmed
    BY <2>1, FS_EmptySet DEF WatchdogArmed, Owes
  <2>4. watchdog \in BOOLEAN /\ restarting \in BOOLEAN
    BY <2>1
  <2>5. held \in Seq(PageRequest)
    BY <2>1
  <2> QED BY <2>1, <2>2, <2>3, <2>4, <2>5 DEF RelayTypeOK
<1>3. WorkerTypeOK /\ ChannelsTypeOK
  <2>1. WorkerTypeOK
    BY DEF Init, WorkerInit, Idle, WorkerTypeOK
  <2> QED BY <2>1 DEF Init, ChannelsTypeOK
<1>4. WorkerSeesOneSide /\ OneReplayOut
  BY DEF Init, RelayInit, Empty, WorkerInit, Idle, WorkerSeesOneSide, OneReplayOut
<1> QED BY <1>1, <1>2, <1>3, <1>4 DEF IInv, TypeOK

LEMMA DisposeKeeps ==
  ASSUME ClientTypeOK, DisposeStep
  PROVE  IInv'
<1>1. ClientTypeOK'
  <2>1. /\ disposed' = TRUE /\ UNCHANGED <<status, loaded, used, compiled, ownerOf>>
        /\ pending' = {} /\ queued' = <<>>
    BY DEF DisposeStep, Dispose, FailAll
  <2>2. handle' \in [Sessions -> HandleStates] /\ view' \in [Sessions -> BOOLEAN]
    BY DEF DisposeStep, Dispose, FailAll, ClientTypeOK, HandleStates
  <2> QED BY <2>1, <2>2 DEF ClientTypeOK
<1>2. RelayTypeOK' /\ WatchdogArmed' /\ IsFiniteSet(inFlight')
  <2>1. /\ inFlight' = {} /\ running' = {} /\ watchdog' = FALSE /\ compiles' = {}
        /\ restarting' = FALSE /\ held' = <<>> /\ replaying' = None
        /\ todoCompiles' = {} /\ todoSessions' = {} /\ reopened' = {} /\ dropped' = {}
    BY DEF DisposeStep, RelayGone, Empty
  <2>2. sessions' \in [Sessions -> Compiles \cup {None}]
    BY DEF DisposeStep, RelayGone, Empty
  <2>3. IsFiniteSet(inFlight') /\ WatchdogArmed'
    BY <2>1, FS_EmptySet DEF WatchdogArmed, Owes
  <2>4. watchdog' \in BOOLEAN /\ restarting' \in BOOLEAN
    BY <2>1
  <2>5. held' \in Seq(PageRequest)
    BY <2>1
  <2> QED BY <2>1, <2>2, <2>3, <2>4, <2>5 DEF RelayTypeOK
<1>3. WorkerTypeOK' /\ ChannelsTypeOK'
  BY FreshWorkerType DEF DisposeStep, Dispose, ChannelsTypeOK
<1>4. WorkerSeesOneSide' /\ OneReplayOut'
  BY DEF DisposeStep, Dispose, RelayGone, Empty, FreshWorker, Idle, WorkerSeesOneSide,
         OneReplayOut
<1> QED BY <1>1, <1>2, <1>3, <1>4 DEF IInv, TypeOK

\* A step that leaves relay and worker alone, and what they are sent.
LEMMA OthersKeep ==
  ASSUME RelaySide, WorkerSide, UNCHANGED <<relayVars, workerVars>>,
         ChannelsTypeOK', UNCHANGED <<toWorker, fromWorker>>
  PROVE  RelaySide' /\ WorkerSide'
<1>1. UNCHANGED <<inFlight, running, watchdog, compiles, sessions, restarting, held,
                  replaying, todoCompiles, todoSessions, reopened, dropped>>
      /\ UNCHANGED <<taken, wCompiles, wSessions, wRunning, wedged, stuck>>
  BY DEF relayVars, workerVars
<1>2. Work' = Work /\ Said' = Said
  BY <1>1 DEF Work, Said
<1>3. RelaySide'
  BY <1>1 DEF RelaySide, RelayTypeOK, WatchdogArmed, Owes
<1> QED BY <1>1, <1>2, <1>3 DEF WorkerSide, WorkerTypeOK, WorkerSeesOneSide, OneReplayOut

LEMMA RelayVarsKeepSide ==
  ASSUME RelaySide, UNCHANGED relayVars PROVE RelaySide'
<1>1. UNCHANGED <<inFlight, running, watchdog, compiles, sessions, restarting, held,
                  replaying, todoCompiles, todoSessions, reopened, dropped>>
  BY DEF relayVars
<1> QED BY <1>1 DEF RelaySide, RelayTypeOK, WatchdogArmed, Owes

LEMMA ClientVarsKeepType ==
  ASSUME ClientTypeOK, UNCHANGED clientVars PROVE ClientTypeOK'
<1>1. UNCHANGED <<status, disposed, loaded, used, pending, queued, compiled, ownerOf,
                  handle, view>>
  BY DEF clientVars
<1> QED BY <1>1 DEF ClientTypeOK

LEMMA NextKeeps == ASSUME IInv, [Next]_vars PROVE IInv'
<1>1. ClientTypeOK /\ RelaySide /\ WorkerSide
  BY DEF IInv, TypeOK, RelaySide, WorkerSide
<1>2. SUFFICES (ClientTypeOK' /\ RelaySide' /\ WorkerSide') \/ DisposeStep
  BY <1>1, <1>2, DisposeKeeps DEF IInv, TypeOK, RelaySide, WorkerSide
<1>3. CASE ClientStep
  <2>1. ClientTypeOK' /\ ChannelsTypeOK' /\ UNCHANGED <<toWorker, fromWorker>>
    BY <1>1, <1>3, ClientKeeps DEF ClientStep, WorkerSide
  <2>2. RelaySide' /\ WorkerSide'
    BY <1>1, <1>3, <2>1, OthersKeep DEF ClientStep
  <2> QED BY <2>1, <2>2
<1>4. CASE RelayStep
  <2>1. ClientTypeOK'
    BY <1>1, <1>4, ClientVarsKeepType DEF RelayStep
  <2>2. UNCHANGED workerVars
        /\ (Receive \/ Progressed \/ ForwardReply \/ ForwardFrame \/ Replayed)
    BY <1>4 DEF RelayStep
  <2>3. RelaySide' /\ WorkerSide'
    BY <1>1, <2>2, ReceiveKeeps, ProgressedKeeps, ForwardReplyKeeps, ForwardFrameKeeps,
       ReplayedKeeps
  <2> QED BY <2>1, <2>3
<1>5. CASE RestartStep
  <2>1. ClientTypeOK'
    BY <1>1, <1>5, ClientVarsKeepType DEF RestartStep
  <2>2. FreshWorker /\ (OnSilence \/ ReplayTimeout)
    BY <1>5 DEF RestartStep
  <2>3. RelaySide' /\ WorkerSide'
    BY <1>1, <2>2, OnSilenceKeeps, ReplayTimeoutKeeps
  <2> QED BY <2>1, <2>3
<1>6. CASE WorkerStep
  <2>1. ClientTypeOK' /\ RelaySide'
    BY <1>1, <1>6, ClientVarsKeepType, RelayVarsKeepSide DEF WorkerStep
  <2>2. WorkerSide'
    BY <1>1, <1>6, WorkerKeeps DEF WorkerStep
  <2> QED BY <2>1, <2>2
<1>7. CASE UNCHANGED vars
  <2>1. UNCHANGED clientVars /\ UNCHANGED <<relayVars, workerVars>>
        /\ UNCHANGED <<toRelay, toPage, toWorker, fromWorker>>
    BY <1>7 DEF vars, channels
  <2>2. ChannelsTypeOK'
    BY <1>1, <2>1 DEF WorkerSide, ChannelsTypeOK
  <2> QED BY <1>1, <2>1, <2>2, ClientVarsKeepType, OthersKeep
<1> QED BY <1>3, <1>4, <1>5, <1>6, <1>7 DEF Next

\* The inductive invariant holds of every reachable state.
THEOREM InvariantHolds == Spec => []IInv
  BY InitHolds, NextKeeps, PTL DEF Spec

\* Every variable keeps its type, messages and requests included, through
\* every call, restart, replay and disposal.
THEOREM TypesHold == Spec => []TypeOK
<1>1. IInv => TypeOK
  BY DEF IInv
<1> QED BY <1>1, InvariantHolds, PTL

\* The silence timer of relay.ts is set exactly when the worker owes a reply
\* or frames, and never during a restart, so that restarts do not nest:
\* however many sessions auto-run and however the calls interleave.
THEOREM WatchdogAlwaysArmed == Spec => []WatchdogArmed
<1>1. IInv => WatchdogArmed
  BY DEF IInv
<1> QED BY <1>1, InvariantHolds, PTL

\* A worker is sent either replays or requests of the page, and a restart
\* never has two replays out: so no answer left over from a replay reaches the
\* page and no answer to a call of the page's passes for one to a replay.
THEOREM WorkerServesOneSide == Spec => [](WorkerSeesOneSide /\ OneReplayOut)
<1>1. IInv => WorkerSeesOneSide /\ OneReplayOut
  BY DEF IInv
<1> QED BY <1>1, InvariantHolds, PTL

-----------------------------------------------------------------------------
(* Sessions across a restart *)

\* A restart has reopened, has still to reopen or is reopening each session of
\* the table, and one of these; the sessions it gave up are no longer there.
ReplaySound ==
  /\ ~restarting => dropped = {}
  /\ restarting =>
       /\ OpenSessions(sessions) = reopened \cup todoSessions \cup ({replaying.session} \ {None})
       /\ reopened \cap todoSessions = {}
       /\ replaying.session \notin reopened \cup todoSessions
       /\ dropped \cap OpenSessions(sessions) = {}
       /\ replaying.type = "compile" => replaying.session = None

\* The replay goes on from sound bookkeeping, or ends by saying it all.
LEMMA ContinueSound ==
  ASSUME NEW before \in Seq(PageMessage), NEW tc \in SUBSET Compiles, NEW ts \in SUBSET Sessions,
         NEW table, NEW ro \in SUBSET Sessions, NEW dr \in SUBSET Sessions,
         Continue(before, tc, ts, table, ro, dr), sessions' = table,
         OpenSessions(table) = ro \cup ts, ro \cap ts = {}, dr \cap (ro \cup ts) = {}
  PROVE  /\ ReplaySound'
         /\ restarting' => OpenSessions(sessions') \cup dropped' = ro \cup ts \cup dr
         /\ ~restarting' => /\ Last(toPage') = Restarted(ro, dr)
                            /\ OpenSessions(sessions') = ro /\ ts = {}
<1>1. CASE tc = {} /\ ts = {}
  <2>1. Finish(before, ro, dr)
    BY <1>1 DEF Continue
  <2>2. restarting' = FALSE /\ dropped' = {}
    BY <2>1 DEF Finish
  <2>3. Last(toPage') = Restarted(ro, dr)
    <3> DEFINE T == {Frame(s, "stopped") : s \in ro}
    <3>1. PICK frames \in SetToSeqs(T) : toPage' = before \o frames \o <<Restarted(ro, dr)>>
      BY <2>1 DEF Finish
    <3>2. IsFiniteSet(T) /\ T \subseteq PageMessage
      BY FramesFinite
    <3> HIDE DEF T
    <3>3. frames \in Seq(PageMessage)
      BY <3>2, EnumerationType
    <3>4. before \o frames \in Seq(PageMessage) /\ Restarted(ro, dr) \in PageMessage
      BY <3>3, ConcatProperties, NoticeTypesHold
    <3> DEFINE q == before \o frames
               m == Restarted(ro, dr)
    <3> HIDE DEF q, m
    <3>5. q \in Seq(PageMessage) /\ m \in PageMessage
      BY <3>4 DEF q, m
    <3>6. (q \o <<m>>)[Len(q \o <<m>>)] = m
      BY <3>5
    <3> QED BY <3>1, <3>6 DEF q, m, Last
  <2> QED BY <1>1, <2>2, <2>3 DEF ReplaySound
<1>2. CASE ~(tc = {} /\ ts = {})
  <2>1. PICK r \in NextReplays(tc, ts, table) :
          replaying' = r /\ todoSessions' = ts \ {r.session}
    BY <1>2 DEF Continue
  <2>2. reopened' = ro /\ dropped' = dr /\ restarting' = TRUE
    BY <1>2 DEF Continue
  <2>3. CASE tc # {}
    <3>1. r.session = None
      BY <2>1, <2>3 DEF NextReplays, CompileRequest
    <3>2. todoSessions' = ts /\ None \notin ro \cup ts
      BY <2>1, <3>1
    <3> QED BY <2>1, <2>2, <3>1, <3>2 DEF ReplaySound
  <2>4. CASE tc = {}
    <3>1. r.session \in ts /\ r.session # None /\ r.type = "open"
      BY <2>1, <2>4 DEF NextReplays, OpenRequest
    <3> QED BY <2>1, <2>2, <3>1 DEF ReplaySound
  <2> QED BY <2>3, <2>4
<1> QED BY <1>1, <1>2

\* The answer to a replay reopens its session or drops it.
LEMMA ReplayedSound ==
  ASSUME RelaySide, WorkerSide, ReplaySound, Replayed, UNCHANGED workerVars
  PROVE  /\ ReplaySound'
         /\ AccountsForAll
<1> DEFINE lost == Head(fromWorker).type # "opened"
           s == replaying.session
           ro == IF lost THEN reopened ELSE reopened \cup {s}
           dr == IF lost THEN dropped \cup {s} ELSE dropped
<1>1. replaying \in ReplayRequest /\ restarting
  BY ReplayAnswered, NoneAssumption DEF WorkerSide, WorkerSeesOneSide, ReplayRequest
<1>2. /\ toPage \in Seq(PageMessage) /\ sessions \in [Sessions -> Compiles \cup {None}]
      /\ todoCompiles \in SUBSET Compiles /\ todoSessions \in SUBSET Sessions
      /\ reopened \in SUBSET Sessions /\ dropped \in SUBSET Sessions
  BY DEF RelaySide, RelayTypeOK, WorkerSide, ChannelsTypeOK
<1>3. CASE /\ replaying.type = "compile"
           /\ Continue(toPage, todoCompiles, todoSessions, sessions, reopened, dropped)
           /\ sessions' = sessions
  <2>1. s = None
    BY <1>1, <1>3 DEF ReplaySound
  <2>2. /\ OpenSessions(sessions) = reopened \cup todoSessions /\ reopened \cap todoSessions = {}
        /\ dropped \cap (reopened \cup todoSessions) = {}
    BY <1>1, <2>1 DEF ReplaySound
  <2>3. /\ ReplaySound'
        /\ restarting' => OpenSessions(sessions') \cup dropped'
                            = reopened \cup todoSessions \cup dropped
        /\ ~restarting' => /\ Last(toPage') = Restarted(reopened, dropped)
                           /\ OpenSessions(sessions') = reopened /\ todoSessions = {}
    BY <1>2, <1>3, <2>2, ContinueSound
  <2> QED BY <1>1, <2>2, <2>3 DEF AccountsForAll, Restarted
<1>4. CASE /\ replaying.type = "open"
           /\ sessions' = IF lost THEN [sessions EXCEPT ![s] = None] ELSE sessions
           /\ Continue(toPage, todoCompiles, todoSessions, sessions', ro, dr)
  <2>1. s \in Sessions /\ s # None
    BY <1>1, <1>4, ReplayFields
  <2>2. /\ OpenSessions(sessions) = reopened \cup todoSessions \cup {s}
        /\ reopened \cap todoSessions = {} /\ s \notin reopened \cup todoSessions
        /\ dropped \cap (reopened \cup todoSessions \cup {s}) = {}
    BY <1>1, <2>1 DEF ReplaySound
  <2>3. OpenSessions(sessions') = IF lost THEN OpenSessions(sessions) \ {s}
                                          ELSE OpenSessions(sessions)
    BY <1>2, <1>4, <2>1 DEF OpenSessions
  <2>4. /\ ro \in SUBSET Sessions /\ dr \in SUBSET Sessions
        /\ OpenSessions(sessions') = ro \cup todoSessions /\ ro \cap todoSessions = {}
        /\ dr \cap (ro \cup todoSessions) = {}
        /\ ro \cup todoSessions \cup dr = OpenSessions(sessions) \cup dropped
    BY <1>2, <2>1, <2>2, <2>3
  <2>5. Continue(toPage, todoCompiles, todoSessions, sessions', ro, dr)
    BY <1>4
  <2> HIDE DEF ro, dr
  <2>6. /\ ReplaySound'
        /\ restarting' => OpenSessions(sessions') \cup dropped' = ro \cup todoSessions \cup dr
        /\ ~restarting' => /\ Last(toPage') = Restarted(ro, dr)
                           /\ OpenSessions(sessions') = ro /\ todoSessions = {}
    BY <1>2, <2>4, <2>5, ContinueSound
  <2> QED BY <1>1, <2>4, <2>6 DEF AccountsForAll, Restarted
<1> QED BY <1>3, <1>4 DEF Replayed

\* A replay that hangs drops its session, and all that is left starts over.
LEMMA ReplayTimeoutSound ==
  ASSUME RelaySide, WorkerSide, ReplaySound, ReplayTimeout
  PROVE  ReplaySound' /\ AccountsForAll
<1> DEFINE dr == dropped \cup ({replaying.session} \ {None})
           ts == OpenSessions(sessions')
<1>1. replaying \in ReplayRequest /\ restarting
  BY DEF ReplayTimeout, RelaySide, RelayTypeOK, WorkerSide, WorkerSeesOneSide
<1>2. /\ toPage \in Seq(PageMessage) /\ sessions \in [Sessions -> Compiles \cup {None}]
      /\ compiles' \in SUBSET Compiles /\ dropped \in SUBSET Sessions
  BY DEF ReplayTimeout, RelaySide, RelayTypeOK, WorkerSide, ChannelsTypeOK
<1>3. ts \in SUBSET Sessions /\ {} \in SUBSET Sessions
  BY OpenSessionsType
<1>4. /\ ts = OpenSessions(sessions) \ {replaying.session}
      /\ dr \in SUBSET Sessions /\ dr \cap ts = {}
      /\ ts \cup dr = OpenSessions(sessions) \cup dropped
  <2>1. CASE replaying.type = "open"
    <3>1. /\ replaying.session \in Sessions /\ replaying.session # None
          /\ replaying.session \in OpenSessions(sessions)
          /\ dropped \cap OpenSessions(sessions) = {}
      BY <1>1, <2>1, ReplayFields DEF ReplaySound
    <3>2. ts = OpenSessions(sessions) \ {replaying.session}
      BY <1>2, <2>1, <3>1 DEF ReplayTimeout, OpenSessions
    <3> QED BY <1>2, <3>1, <3>2
  <2>2. CASE replaying.type # "open"
    <3>1. replaying.session = None /\ dropped \cap OpenSessions(sessions) = {}
      BY <1>1, <2>2, ReplayFields DEF ReplaySound
    <3>2. sessions' = sessions /\ None \notin OpenSessions(sessions)
      BY <2>2 DEF ReplayTimeout, OpenSessions
    <3> QED BY <1>2, <3>1, <3>2
  <2> QED BY <2>1, <2>2
<1>5. Continue(toPage, compiles', ts, sessions', {}, dr)
  BY DEF ReplayTimeout
<1> HIDE DEF dr
<1> DEFINE ro == {}
<1>6. /\ ro \in SUBSET Sessions /\ ro \cap ts = {} /\ dr \cap (ro \cup ts) = {}
      /\ OpenSessions(sessions') = ro \cup ts
      /\ Continue(toPage, compiles', ts, sessions', ro, dr)
  BY <1>3, <1>4, <1>5
<1> HIDE DEF ro, ts
<1>7. /\ ReplaySound'
      /\ restarting' => OpenSessions(sessions') \cup dropped' = ro \cup ts \cup dr
      /\ ~restarting' => /\ Last(toPage') = Restarted(ro, dr)
                         /\ OpenSessions(sessions') = ro /\ ts = {}
  <2>1. PICK t, c, table : t = ts /\ c = compiles' /\ table = sessions'
    OBVIOUS
  <2>2. /\ ro \in SUBSET Sessions /\ ro \cap t = {} /\ dr \cap (ro \cup t) = {}
        /\ OpenSessions(table) = ro \cup t /\ Continue(toPage, c, t, table, ro, dr)
        /\ t \in SUBSET Sessions /\ c \in SUBSET Compiles
    BY <1>2, <1>3, <1>6, <2>1
  <2>3. /\ ReplaySound'
        /\ restarting' => OpenSessions(sessions') \cup dropped' = ro \cup t \cup dr
        /\ ~restarting' => /\ Last(toPage') = Restarted(ro, dr)
                           /\ OpenSessions(sessions') = ro /\ t = {}
    BY <1>2, <1>4, <2>1, <2>2, ContinueSound
  <2> QED BY <2>1, <2>3
<1> QED BY <1>1, <1>4, <1>7 DEF AccountsForAll, Restarted, ro, ts

\* Replay begins with every session of the table still to reopen.
LEMMA OnSilenceSound ==
  ASSUME RelaySide, WorkerSide, ReplaySound, OnSilence
  PROVE  ReplaySound' /\ AccountsForAll
<1> DEFINE ts == OpenSessions(sessions)
<1>1. PICK order \in OldestFirst(inFlight) :
        Continue(toPage \o [k \in DOMAIN order |-> Failed(order[k])],
                 compiles, ts, sessions, {}, {})
  BY DEF OnSilence
<1> DEFINE before == toPage \o [k \in DOMAIN order |-> Failed(order[k])]
<1>2. before \in Seq(PageMessage) /\ ~restarting
  BY FailuresType, ConcatProperties DEF WorkerSide, ChannelsTypeOK, OnSilence, RelaySide,
     WatchdogArmed
<1>3. compiles \in SUBSET Compiles /\ ts \in SUBSET Sessions /\ {} \in SUBSET Sessions
      /\ sessions' = sessions
  BY OpenSessionsType DEF RelaySide, RelayTypeOK, OnSilence
<1>4. Continue(before, compiles, ts, sessions, {}, {})
  BY <1>1
<1>5. OpenSessions(sessions) = {} \cup ts /\ {} \cap ts = {} /\ {} \cap ({} \cup ts) = {}
  OBVIOUS
<1> HIDE DEF before, ts
<1>6. ReplaySound'
  BY <1>2, <1>3, <1>4, <1>5, ContinueSound
<1> QED BY <1>2, <1>6 DEF AccountsForAll

\* Every step keeps the bookkeeping, and accounts for all sessions.
LEMMA ReplayNext ==
  ASSUME IInv, ReplaySound, [Next]_vars
  PROVE  ReplaySound' /\ AccountsForAll
<1>1. RelaySide /\ WorkerSide
  BY DEF IInv, TypeOK, RelaySide, WorkerSide
<1>2. CASE UNCHANGED <<restarting, sessions, reopened, dropped, replaying, todoSessions>>
  BY <1>2 DEF ReplaySound, AccountsForAll
<1>3. CASE ClientStep \/ WorkerStep \/ UNCHANGED vars
  <2>1. UNCHANGED relayVars
    BY <1>3 DEF ClientStep, WorkerStep, vars
  <2> QED BY <1>2, <2>1 DEF relayVars
<1>4. CASE RelayStep
  <2>1. UNCHANGED workerVars
        /\ (Receive \/ Progressed \/ ForwardReply \/ ForwardFrame \/ Replayed)
    BY <1>4 DEF RelayStep
  <2>2. CASE Receive \/ Progressed \/ ForwardFrame
    BY <1>2, <2>2 DEF Receive, Progressed, ForwardFrame
  <2>3. CASE ForwardReply
    <3>1. ~restarting
      <4>1. fromWorker # <<>> /\ Head(fromWorker).id \in PageIds
        BY <2>3 DEF ForwardReply
      <4>2. Head(fromWorker) \in Said
        BY <1>1, <4>1, HeadTailProperties DEF WorkerSide, WorkerSeesOneSide
      <4> QED BY <4>1, <4>2 DEF Said, PageIds, ReplayId
    <3>2. UNCHANGED <<restarting, dropped>>
      BY <2>3 DEF ForwardReply
    <3> QED BY <3>1, <3>2 DEF ReplaySound, AccountsForAll
  <2> QED BY <1>1, <2>1, <2>2, <2>3, ReplayedSound
<1>5. CASE RestartStep
  BY <1>1, <1>5, OnSilenceSound, ReplayTimeoutSound DEF RestartStep
<1>6. CASE DisposeStep
  <2>1. restarting' = FALSE /\ dropped' = {} /\ disposed' = TRUE
    BY <1>6 DEF DisposeStep, Dispose, RelayGone, Empty
  <2> QED BY <2>1 DEF ReplaySound, AccountsForAll
<1> QED BY <1>3, <1>4, <1>5, <1>6 DEF Next

\* No restart is under way at the start.
LEMMA ReplayInit == ASSUME Init PROVE ReplaySound
BY DEF Init, RelayInit, Empty, ReplaySound

\* The bookkeeping of a restart is sound, however often it starts over.
THEOREM ReplayInvariant == Spec => [](IInv /\ ReplaySound)
<1>1. Init => IInv /\ ReplaySound
  BY InitHolds, ReplayInit
<1>2. IInv /\ ReplaySound /\ [Next]_vars => (IInv /\ ReplaySound)'
  BY NextKeeps, ReplayNext
<1> QED BY <1>1, <1>2, PTL DEF Spec

\* Each session open when a restart (relay.ts, restart) began is named in the
\* message that ends it, reopened or dropped and never both, however many
\* replays hang.
THEOREM RestartsAccountForAll == Spec => RestartAccountsForAll
<1>1. IInv /\ ReplaySound /\ [Next]_vars => [AccountsForAll]_vars
  BY ReplayNext
<1> QED BY <1>1, ReplayInvariant, PTL DEF Spec, RestartAccountsForAll

-----------------------------------------------------------------------------
(***************************************************************************)
(* The calls, on top of IInv: for any compiles, sessions and number of     *)
(* calls, every call the page awaits is owed by exactly one place, every   *)
(* handle it shows as alive is in the relay's table or is about to end,    *)
(* what the table would replay is what the worker has got, and which       *)
(* sessions run is known to all three once they have heard one another.    *)
(***************************************************************************)

\* The request ids the messages of a channel carry, each at most once.
Carried(q) == {IdOf(q[k]) : k \in DOMAIN q} \ {NoId}
Distinct(q) == \A j, k \in DOMAIN q : IdOf(q[j]) = IdOf(q[k]) => j = k \/ IdOf(q[j]) = NoId
OneId(rs) == \A a, b \in rs : a.id = b.id => a = b

\* The calls awaited, with ids up to last, are each in one of: the queue, the
\* channel to the relay, what a restart holds, flight, or the replies.
CallsOwed(pend, last, q, r, h, fl, page) ==
  /\ OneId(pend) /\ Ids(pend) \subseteq 1 .. last
  /\ OneId(fl)
  /\ Distinct(q) /\ Distinct(r) /\ Distinct(h) /\ Distinct(page)
  /\ Carried(q) \cap Carried(r) = {}
  /\ (Carried(q) \cup Carried(r)) \cap Carried(h) = {}
  /\ (Carried(q) \cup Carried(r) \cup Carried(h)) \cap Ids(fl) = {}
  /\ (Carried(q) \cup Carried(r) \cup Carried(h) \cup Ids(fl)) \cap Carried(page) = {}
  /\ Ids(pend) = Carried(q) \cup Carried(r) \cup Carried(h) \cup Ids(fl) \cup Carried(page)

BeatsHaveNoId(fw) == \A k \in DOMAIN fw : fw[k].type = "progressed" => fw[k].id = NoId

\* What is in flight is, at the worker, on its way there, taken or answered.
WorkerOwes(tw, tk, fw, fl) ==
  /\ Distinct(tw) /\ OneId(tk) /\ Distinct(fw)
  /\ Carried(tw) \cap Ids(tk) = {}
  /\ (Carried(tw) \cup Ids(tk)) \cap Carried(fw) = {}
  /\ Ids(fl) = Carried(tw) \cup Ids(tk) \cup Carried(fw)
  /\ BeatsHaveNoId(fw)

\* Before the page has heard that the iframe is ready nothing has been asked of it.
NotBegun ==
  /\ toRelay = <<>> /\ inFlight = {} /\ running = {} /\ ~restarting
  /\ toWorker = <<>> /\ taken = {} /\ wRunning = {} /\ fromWorker = <<>>
  /\ Carried(toPage) = {}

CallsInv ==
  /\ CallsOwed(pending, used, queued, toRelay, held, inFlight, toPage)
  /\ ~restarting => held = <<>> /\ WorkerOwes(toWorker, taken, fromWorker, inFlight)
  /\ status # "ready" => NotBegun
  /\ OwnersDiffer

-----------------------------------------------------------------------------
(* Channels *)

\* An empty channel.
LEMMA EmptyCarries == Distinct(<<>>) /\ Carried(<<>>) = {}
BY DEF Distinct, Carried

\* A message is put at the end of a channel.
LEMMA AppendCarries ==
  ASSUME NEW S, NEW q \in Seq(S), NEW e \in S, Distinct(q), IdOf(e) \notin Carried(q)
  PROVE  /\ Distinct(Append(q, e))
         /\ Carried(Append(q, e)) = Carried(q) \cup ({IdOf(e)} \ {NoId})
<1>1. /\ Len(q) \in Nat /\ DOMAIN q = 1 .. Len(q) /\ DOMAIN Append(q, e) = 1 .. Len(q) + 1
      /\ \A k \in 1 .. Len(q) : Append(q, e)[k] = q[k]
      /\ Append(q, e)[Len(q) + 1] = e
  OBVIOUS
<1> DEFINE p == Append(q, e)
<1> HIDE DEF p
<1>2. /\ \A k \in DOMAIN p : (k \in DOMAIN q /\ p[k] = q[k]) \/ (k = Len(q) + 1 /\ p[k] = e)
      /\ \A k \in DOMAIN q : k \in DOMAIN p /\ p[k] = q[k]
      /\ Len(q) + 1 \in DOMAIN p /\ p[Len(q) + 1] = e
  BY <1>1 DEF p
<1>3. \A k \in DOMAIN q : IdOf(q[k]) # IdOf(e) \/ IdOf(e) = NoId
  BY DEF Carried
<1>4. Distinct(p)
  BY <1>2, <1>3 DEF Distinct
<1>5. Carried(p) = Carried(q) \cup ({IdOf(e)} \ {NoId})
  BY <1>2 DEF Carried
<1> QED BY <1>4, <1>5 DEF p

\* The first message of a channel is taken.
LEMMA TailCarries ==
  ASSUME NEW S, NEW q \in Seq(S), q # <<>>, Distinct(q)
  PROVE  /\ Tail(q) \in Seq(S) /\ Head(q) \in S
         /\ Distinct(Tail(q))
         /\ Carried(Tail(q)) = Carried(q) \ {IdOf(Head(q))}
         /\ IdOf(Head(q)) = NoId \/ IdOf(Head(q)) \in Carried(q)
<1>1. /\ Len(q) \in Nat \ {0} /\ DOMAIN q = 1 .. Len(q) /\ DOMAIN Tail(q) = 1 .. Len(q) - 1
      /\ \A k \in 1 .. Len(q) - 1 : Tail(q)[k] = q[k + 1]
      /\ Head(q) = q[1] /\ Tail(q) \in Seq(S) /\ Head(q) \in S
  OBVIOUS
<1> DEFINE p == Tail(q)
           e == Head(q)
<1> HIDE DEF p, e
<1>2. /\ \A k \in DOMAIN p : k + 1 \in DOMAIN q /\ p[k] = q[k + 1] /\ k + 1 # 1 /\ k \in Int
      /\ \A k \in DOMAIN q : k = 1 \/ (k - 1 \in DOMAIN p /\ p[k - 1] = q[k])
      /\ 1 \in DOMAIN q /\ q[1] = e
  BY <1>1 DEF p, e
<1>3. Distinct(p)
  BY <1>2 DEF Distinct
<1>4. Carried(p) = Carried(q) \ {IdOf(e)}
  <2>1. ASSUME NEW i \in Carried(p) PROVE i \in Carried(q) \ {IdOf(e)}
    <3>1. PICK k \in DOMAIN p : i = IdOf(p[k]) /\ i # NoId
      BY DEF Carried
    <3> QED BY <1>2, <3>1 DEF Carried, Distinct
  <2>2. ASSUME NEW i \in Carried(q) \ {IdOf(e)} PROVE i \in Carried(p)
    <3>1. PICK k \in DOMAIN q : i = IdOf(q[k]) /\ i # NoId
      BY DEF Carried
    <3> QED BY <1>2, <3>1 DEF Carried
  <2> QED BY <2>1, <2>2
<1>5. IdOf(e) = NoId \/ IdOf(e) \in Carried(q)
  BY <1>2 DEF Carried
<1> QED BY <1>1, <1>3, <1>4, <1>5 DEF p, e

\* One channel after another.
LEMMA ConcatCarries ==
  ASSUME NEW S, NEW q \in Seq(S), NEW r \in Seq(S), Distinct(q), Distinct(r),
         Carried(q) \cap Carried(r) = {}
  PROVE  /\ q \o r \in Seq(S) /\ Distinct(q \o r) /\ Carried(q \o r) = Carried(q) \cup Carried(r)
<1>1. /\ Len(q) \in Nat /\ Len(r) \in Nat /\ q \o r \in Seq(S)
      /\ DOMAIN q = 1 .. Len(q) /\ DOMAIN r = 1 .. Len(r)
      /\ DOMAIN (q \o r) = 1 .. Len(q) + Len(r)
      /\ \A k \in 1 .. Len(q) + Len(r) :
           (q \o r)[k] = IF k <= Len(q) THEN q[k] ELSE r[k - Len(q)]
  OBVIOUS
<1> DEFINE p == q \o r
           n == Len(q)
<1> HIDE DEF p, n
<1>2. /\ \A k \in DOMAIN p : \/ k \in DOMAIN q /\ p[k] = q[k]
                             \/ k - n \in DOMAIN r /\ p[k] = r[k - n] /\ k \in Int
      /\ \A k \in DOMAIN q : k \in DOMAIN p /\ p[k] = q[k]
      /\ \A k \in DOMAIN r : k + n \in DOMAIN p /\ p[k + n] = r[k]
      /\ n \in Int
  BY <1>1 DEF p, n
<1>3. Distinct(p)
  <2> SUFFICES ASSUME NEW j \in DOMAIN p, NEW k \in DOMAIN p,
                      IdOf(p[j]) = IdOf(p[k]), IdOf(p[j]) # NoId
               PROVE  j = k
    BY DEF Distinct
  <2>1. CASE j \in DOMAIN q /\ k \in DOMAIN q /\ p[j] = q[j] /\ p[k] = q[k]
    BY <2>1 DEF Distinct
  <2>2. CASE /\ j - n \in DOMAIN r /\ k - n \in DOMAIN r /\ p[j] = r[j - n] /\ p[k] = r[k - n]
             /\ j \in Int /\ k \in Int
    <3>1. j - n = k - n
      BY <2>2 DEF Distinct
    <3> QED BY <1>2, <2>2, <3>1
  <2>3. CASE j \in DOMAIN q /\ p[j] = q[j] /\ k - n \in DOMAIN r /\ p[k] = r[k - n]
    BY <2>3 DEF Carried
  <2>4. CASE k \in DOMAIN q /\ p[k] = q[k] /\ j - n \in DOMAIN r /\ p[j] = r[j - n]
    BY <2>4 DEF Carried
  <2> QED BY <1>2, <2>1, <2>2, <2>3, <2>4
<1>4. Carried(p) = Carried(q) \cup Carried(r)
  <2>1. Carried(p) \subseteq Carried(q) \cup Carried(r)
    BY <1>2 DEF Carried
  <2>2. Carried(q) \subseteq Carried(p)
    BY <1>2 DEF Carried
  <2>3. Carried(r) \subseteq Carried(p)
    <3> SUFFICES ASSUME NEW i \in Carried(r) PROVE i \in Carried(p)
      OBVIOUS
    <3>1. PICK k \in DOMAIN r : i = IdOf(r[k]) /\ i # NoId
      BY DEF Carried
    <3>2. k + n \in DOMAIN p /\ p[k + n] = r[k]
      BY <1>2, <3>1
    <3> QED BY <3>1, <3>2 DEF Carried
  <2> QED BY <2>1, <2>2, <2>3
<1> QED BY <1>1, <1>3, <1>4 DEF p

-----------------------------------------------------------------------------
(* The calls of the page *)

\* Every request carries its own id,
LEMMA RequestCarries == \A r \in Request : IdOf(r) = r.id /\ r.id \in Nat
BY DEF Request, RequestTypes, SessionOps, IdOf, PageIds, ReplayId

\* and every reply the id of what it answers.
LEMMA ReplyCarries == \A m \in Reply : IdOf(m) = m.id
BY DEF Reply, ReplyTypes, IdOf

\* A channel of requests carries the ids of its requests.
LEMMA IdsCarried ==
  ASSUME NEW q \in Seq(Request)
  PROVE  /\ Carried(q) = {q[k].id : k \in DOMAIN q} /\ Carried(q) = Ids(Range(q))
         /\ Distinct(q) => OneId(Range(q))
<1>1. \A k \in DOMAIN q : q[k] \in Request
  OBVIOUS
<1>2. \A k \in DOMAIN q : IdOf(q[k]) = q[k].id /\ q[k].id # NoId
  BY <1>1, RequestCarries DEF NoId
<1> QED BY <1>2 DEF Carried, Distinct, OneId, Ids, Range

\* A notice is sent or received.
LEMMA NoticeOwed ==
  ASSUME NEW p, NEW l, NEW q, NEW r, NEW h, NEW fl, NEW pg \in Seq(PageMessage),
         CallsOwed(p, l, q, r, h, fl, pg)
  PROVE  /\ \A m \in PageMessage : IdOf(m) = NoId => CallsOwed(p, l, q, r, h, fl, Append(pg, m))
         /\ pg # <<>> /\ IdOf(Head(pg)) = NoId => CallsOwed(p, l, q, r, h, fl, Tail(pg))
<1>1. Distinct(pg)
  BY DEF CallsOwed
<1>2. ASSUME NEW m \in PageMessage, IdOf(m) = NoId
      PROVE  Distinct(Append(pg, m)) /\ Carried(Append(pg, m)) = Carried(pg)
  <2>1. IdOf(m) \notin Carried(pg)
    BY <1>2 DEF Carried
  <2>2. Distinct(Append(pg, m)) /\ Carried(Append(pg, m)) = Carried(pg) \cup ({IdOf(m)} \ {NoId})
    BY <1>1, <2>1, AppendCarries
  <2> QED BY <1>2, <2>2
<1>3. ASSUME pg # <<>>, IdOf(Head(pg)) = NoId
      PROVE  Distinct(Tail(pg)) /\ Carried(Tail(pg)) = Carried(pg)
  <2>1. NoId \notin Carried(pg)
    BY DEF Carried
  <2> QED BY <1>1, <1>3, <2>1, TailCarries
<1> QED BY <1>2, <1>3 DEF CallsOwed

\* A reply is received.
LEMMA ReplyOwed ==
  ASSUME NEW p, NEW l, NEW q, NEW r, NEW h, NEW fl, NEW pg \in Seq(PageMessage),
         CallsOwed(p, l, q, r, h, fl, pg), pg # <<>>, IdOf(Head(pg)) # NoId
  PROVE  /\ IdOf(Head(pg)) \in Ids(p)
         /\ \A request \in p : request.id = IdOf(Head(pg)) =>
              CallsOwed(p \ {request}, l, q, r, h, fl, Tail(pg))
<1> DEFINE i == IdOf(Head(pg))
<1>1. Distinct(Tail(pg)) /\ Carried(Tail(pg)) = Carried(pg) \ {i} /\ i \in Carried(pg)
  BY TailCarries DEF CallsOwed
<1>2. i \in Ids(p)
  BY <1>1 DEF CallsOwed
<1>3. ASSUME NEW request \in p, request.id = i
      PROVE  CallsOwed(p \ {request}, l, q, r, h, fl, Tail(pg))
  <2>1. OneId(p \ {request}) /\ Ids(p \ {request}) = Ids(p) \ {i}
    BY <1>3 DEF CallsOwed, OneId, Ids
  <2> HIDE DEF i
  <2> QED BY <1>1, <2>1 DEF CallsOwed
<1> QED BY <1>2, <1>3

\* Requests numbered from l + 1 are queued or sent.
LEMMA SendOwed ==
  ASSUME NEW p, NEW l \in Nat, NEW q \in Seq(PageRequest), NEW r \in Seq(PageRequest), NEW h,
         NEW fl, NEW pg, CallsOwed(p, l, q, r, h, fl, pg),
         NEW rs \in Seq(PageRequest), Numbered(rs, l)
  PROVE  LET more == p \cup {rs[k] : k \in DOMAIN rs}
         IN /\ CallsOwed(more, l + Len(rs), q \o rs, r, h, fl, pg)
            /\ CallsOwed(more, l + Len(rs), q, r \o rs, h, fl, pg)
<1> DEFINE more == p \cup {rs[k] : k \in DOMAIN rs}
           new == {l + k : k \in 1 .. Len(rs)}
<1>1. Len(rs) \in Nat /\ DOMAIN rs = 1 .. Len(rs) /\ rs \in Seq(Request) /\ q \in Seq(Request)
      /\ r \in Seq(Request)
  BY DEF PageRequest
<1>2. Carried(rs) = new
  <2>1. Carried(rs) = {rs[k].id : k \in 1 .. Len(rs)}
    BY <1>1, IdsCarried
  <2>2. \A k \in 1 .. Len(rs) : rs[k].id = l + k
    BY <1>1 DEF Numbered
  <2> QED BY <2>1, <2>2
<1>3. Distinct(rs)
  <2>1. \A k \in 1 .. Len(rs) : IdOf(rs[k]) = l + k
    <3> TAKE k \in 1 .. Len(rs)
    <3>1. rs[k] \in Request
      BY <1>1
    <3> QED BY <1>1, <3>1, RequestCarries DEF Numbered
  <2> QED BY <1>1, <2>1 DEF Distinct
<1>4. \A i \in new : i \notin 1 .. l /\ i \in 1 .. l + Len(rs)
  BY <1>1
<1>5. new \cap Ids(p) = {} /\ OneId(p) /\ Ids(p) \subseteq 1 .. l
  BY <1>4 DEF CallsOwed
<1>6. Ids(more) = Ids(p) \cup new
  BY <1>1 DEF Ids, Numbered
<1>7. OneId(more)
  <2> SUFFICES ASSUME NEW a \in more, NEW b \in more, a.id = b.id PROVE a = b
    BY DEF OneId
  <2>1. \A k \in 1 .. Len(rs) : rs[k].id = l + k /\ l + k \in new
    BY <1>1 DEF Numbered
  <2>2. \A x \in p : x.id \in Ids(p)
    BY DEF Ids
  <2>3. CASE a \in p /\ b \in p
    BY <1>5, <2>3 DEF OneId
  <2>4. CASE (\E k \in 1 .. Len(rs) : a = rs[k]) /\ (\E k \in 1 .. Len(rs) : b = rs[k])
    <3>1. PICK j \in 1 .. Len(rs), k \in 1 .. Len(rs) : a = rs[j] /\ b = rs[k]
      BY <2>4
    <3>2. l + j = l + k
      BY <2>1, <3>1
    <3>3. j = k
      BY <3>2, <1>1
    <3> QED BY <3>1, <3>3
  <2> QED BY <1>1, <1>5, <2>1, <2>2, <2>3, <2>4
<1>8. Ids(more) \subseteq 1 .. l + Len(rs)
  <2>1. 1 .. l \subseteq 1 .. l + Len(rs)
    BY <1>1
  <2> QED BY <1>4, <1>5, <1>6, <2>1
<1>9. /\ new \cap Carried(q) = {} /\ new \cap Carried(r) = {} /\ new \cap Carried(h) = {}
      /\ new \cap Ids(fl) = {} /\ new \cap Carried(pg) = {}
  BY <1>5 DEF CallsOwed
<1>10. /\ Distinct(q \o rs) /\ Carried(q \o rs) = Carried(q) \cup new
       /\ Distinct(r \o rs) /\ Carried(r \o rs) = Carried(r) \cup new
  <2>1. Distinct(q) /\ Distinct(r)
    BY DEF CallsOwed
  <2> QED BY <1>1, <1>2, <1>3, <1>9, <2>1, ConcatCarries
<1> HIDE DEF more, new
<1>11. CallsOwed(more, l + Len(rs), q \o rs, r, h, fl, pg)
  BY <1>6, <1>7, <1>8, <1>9, <1>10 DEF CallsOwed
<1>12. CallsOwed(more, l + Len(rs), q, r \o rs, h, fl, pg)
  BY <1>6, <1>7, <1>8, <1>9, <1>10 DEF CallsOwed
<1> QED BY <1>11, <1>12 DEF more

\* What was queued is sent.
LEMMA ReadyOwed ==
  ASSUME NEW p, NEW l, NEW q \in Seq(PageRequest), NEW r \in Seq(PageRequest), NEW h,
         NEW fl, NEW pg, CallsOwed(p, l, q, r, h, fl, pg)
  PROVE  CallsOwed(p, l, <<>>, r \o q, h, fl, pg)
<1>1. Distinct(r \o q) /\ Carried(r \o q) = Carried(r) \cup Carried(q)
  BY ConcatCarries DEF CallsOwed
<1> QED BY <1>1, EmptyCarries DEF CallsOwed

\* The relay takes a request: it is held, or in flight.
LEMMA ReceiveOwed ==
  ASSUME NEW p, NEW l, NEW q, NEW r \in Seq(PageRequest), NEW h \in Seq(PageRequest),
         NEW fl, NEW pg, CallsOwed(p, l, q, r, h, fl, pg), r # <<>>
  PROVE  /\ CallsOwed(p, l, q, Tail(r), Append(h, Head(r)), fl, pg)
         /\ CallsOwed(p, l, q, Tail(r), h, fl \cup {Head(r)}, pg)
         /\ Head(r).id \notin Ids(fl)
<1> DEFINE e == Head(r)
<1>1. /\ e \in PageRequest /\ Distinct(Tail(r)) /\ Carried(Tail(r)) = Carried(r) \ {IdOf(e)}
      /\ IdOf(e) = NoId \/ IdOf(e) \in Carried(r)
  BY TailCarries DEF CallsOwed
<1>2. IdOf(e) = e.id /\ e.id # NoId /\ e.id \in Carried(r)
  <2>1. e \in Request
    BY <1>1 DEF PageRequest
  <2> QED BY <1>1, <2>1, RequestCarries DEF NoId
<1> HIDE DEF e
<1>3. e.id \notin Carried(h) /\ e.id \notin Ids(fl)
  BY <1>2 DEF CallsOwed
<1>4. Distinct(Append(h, e)) /\ Carried(Append(h, e)) = Carried(h) \cup {e.id}
  BY <1>1, <1>2, <1>3, AppendCarries DEF CallsOwed
<1>5. OneId(fl \cup {e}) /\ Ids(fl \cup {e}) = Ids(fl) \cup {e.id}
  BY <1>3 DEF CallsOwed, OneId, Ids
<1>6. CallsOwed(p, l, q, Tail(r), Append(h, e), fl, pg)
  BY <1>1, <1>2, <1>4 DEF CallsOwed
<1>7. CallsOwed(p, l, q, Tail(r), h, fl \cup {e}, pg)
  <2> DEFINE rest == Tail(r)
             more == fl \cup {e}
  <2>1. /\ OneId(more) /\ Ids(more) = Ids(fl) \cup {e.id}
        /\ Distinct(rest) /\ Carried(rest) = Carried(r) \ {e.id}
    BY <1>1, <1>2, <1>5
  <2> HIDE DEF rest, more
  <2>2. CallsOwed(p, l, q, rest, h, more, pg)
    BY <1>2, <2>1 DEF CallsOwed
  <2> QED BY <2>2 DEF rest, more
<1> QED BY <1>3, <1>6, <1>7 DEF e

\* A request in flight is answered.
LEMMA AnswerOwed ==
  ASSUME NEW p, NEW l, NEW q, NEW r, NEW h, NEW fl, NEW pg \in Seq(PageMessage),
         CallsOwed(p, l, q, r, h, fl, pg),
         NEW request \in fl, NEW m \in Reply, m.id = request.id
  PROVE  CallsOwed(p, l, q, r, h, fl \ {request}, Append(pg, m))
<1>1. m \in PageMessage /\ IdOf(m) = request.id
  BY ReplyCarries DEF PageMessage
<1>2. request.id \in Ids(fl) /\ Ids(fl \ {request}) = Ids(fl) \ {request.id} /\ OneId(fl \ {request})
  BY DEF Ids, OneId, CallsOwed
<1>3. request.id \notin Carried(pg)
  BY <1>2 DEF CallsOwed
<1>4. request.id # NoId
  <2>1. Ids(fl) \subseteq 1 .. l
    BY DEF CallsOwed
  <2> QED BY <1>2, <2>1 DEF NoId
<1>5. Distinct(Append(pg, m)) /\ Carried(Append(pg, m)) = Carried(pg) \cup {request.id}
  BY <1>1, <1>3, <1>4, AppendCarries DEF CallsOwed
<1> DEFINE left == fl \ {request}
           after == Append(pg, m)
<1>6. /\ OneId(left) /\ Ids(left) = Ids(fl) \ {request.id}
      /\ Distinct(after) /\ Carried(after) = Carried(pg) \cup {request.id}
  BY <1>2, <1>5
<1> HIDE DEF left, after
<1>7. CallsOwed(p, l, q, r, h, left, after)
  BY <1>2, <1>6 DEF CallsOwed
<1> QED BY <1>7 DEF left, after

\* An enumeration of a finite set has each element once.
LEMMA EnumerationOnto ==
  ASSUME NEW S, IsFiniteSet(S), NEW order \in SetToSeqs(S)
  PROVE  /\ order \in Seq(S) /\ Len(order) \in Nat /\ DOMAIN order = 1 .. Len(order)
         /\ \A j, k \in 1 .. Len(order) : order[j] = order[k] => j = k
         /\ \A x \in S : \E k \in 1 .. Len(order) : order[k] = x
<1> DEFINE n == Cardinality(S)
<1>1. n \in Nat
  BY FS_CardinalityType
<1>2. order \in [1 .. n -> S] /\ \A i, j \in 1 .. n : i # j => order[i] # order[j]
  BY DEF SetToSeqs
<1> HIDE DEF n
<1>3. order \in Seq(S) /\ Len(order) = n /\ DOMAIN order = 1 .. n
  BY <1>1, <1>2
<1>4. order \in Injection(1 .. n, S)
  BY <1>2 DEF Injection, IsInjective
<1>5. IsFiniteSet(1 .. n) /\ Cardinality(1 .. n) = n
  BY <1>1, FS_Interval
<1>6. order \in Surjection(1 .. n, S)
  BY <1>4, <1>5, FS_Injection DEF n
<1>7. \A x \in S : \E k \in 1 .. n : order[k] = x
  BY <1>6 DEF Surjection
<1> QED BY <1>1, <1>2, <1>3, <1>7

\* The failures answer all that was in flight.
LEMMA FailuresCarry ==
  ASSUME NEW fl \in SUBSET PageRequest, IsFiniteSet(fl), NEW order \in OldestFirst(fl)
  PROVE  LET fails == [k \in DOMAIN order |-> Failed(order[k])]
         IN fails \in Seq(PageMessage) /\ Distinct(fails) /\ Carried(fails) = Ids(fl)
<1> DEFINE I == {r.id : r \in fl}
           f == [r \in fl |-> r.id]
           fails == [k \in DOMAIN order |-> Failed(order[k])]
<1>1. I \subseteq PageIds
  BY DEF PageRequest
<1>2. IsFiniteSet(I)
  <2>1. f \in Surjection(fl, I)
    BY DEF Surjection
  <2> QED BY <2>1, FS_Surjection
<1>3. order \in SetToSeqs(I)
  BY DEF OldestFirst
<1>4. I = Ids(fl)
  BY DEF Ids
<1> HIDE DEF I
<1>5. /\ Len(order) \in Nat /\ DOMAIN order = 1 .. Len(order) /\ order \in Seq(I)
      /\ \A j, k \in 1 .. Len(order) : order[j] = order[k] => j = k
      /\ \A x \in I : \E k \in 1 .. Len(order) : order[k] = x
  BY <1>2, <1>3, EnumerationOnto
<1>6. \A k \in 1 .. Len(order) : order[k] \in I /\ order[k] \in PageIds
  BY <1>1, <1>5
<1>7. /\ DOMAIN fails = 1 .. Len(order)
      /\ \A k \in 1 .. Len(order) : fails[k] = Failed(order[k])
  BY <1>5
<1>8. \A k \in 1 .. Len(order) : Failed(order[k]) \in PageMessage
  BY <1>6 DEF Failed, Reply, PageMessage, ReplyTypes, States
<1>9. fails \in Seq(PageMessage)
  BY <1>5, <1>8
<1> HIDE DEF fails
<1>10. \A k \in 1 .. Len(order) : IdOf(fails[k]) = order[k] /\ order[k] # NoId
  BY <1>6, <1>7 DEF Failed, IdOf, NoId, PageIds
<1>11. Distinct(fails)
  BY <1>5, <1>7, <1>10 DEF Distinct
<1>12. Carried(fails) = I
  <2>1. Carried(fails) = {order[k] : k \in 1 .. Len(order)}
    BY <1>7, <1>10 DEF Carried
  <2> QED BY <1>5, <1>6, <2>1
<1> QED BY <1>4, <1>9, <1>11, <1>12 DEF fails

\* The watchdog fails everything in flight.
LEMMA FailOwed ==
  ASSUME NEW p, NEW l, NEW q, NEW r, NEW h, NEW fl \in SUBSET PageRequest,
         NEW pg \in Seq(PageMessage), CallsOwed(p, l, q, r, h, fl, pg),
         IsFiniteSet(fl), NEW order \in OldestFirst(fl)
  PROVE  LET after == pg \o [k \in DOMAIN order |-> Failed(order[k])]
         IN after \in Seq(PageMessage) /\ CallsOwed(p, l, q, r, h, {}, after)
<1> DEFINE fails == [k \in DOMAIN order |-> Failed(order[k])]
<1>1. fails \in Seq(PageMessage) /\ Distinct(fails) /\ Carried(fails) = Ids(fl)
  BY FailuresCarry
<1> HIDE DEF fails
<1>2. /\ pg \o fails \in Seq(PageMessage) /\ Distinct(pg \o fails)
      /\ Carried(pg \o fails) = Carried(pg) \cup Ids(fl)
  BY <1>1, ConcatCarries DEF CallsOwed
<1>3. Ids({}) = {} /\ OneId({})
  BY DEF Ids, OneId
<1>4. CallsOwed(p, l, q, r, h, {}, pg \o fails)
  BY <1>2, <1>3 DEF CallsOwed
<1> QED BY <1>2, <1>4 DEF fails

\* Messages without ids change nothing.
LEMMA ConcatSilent ==
  ASSUME NEW S, NEW q \in Seq(S), NEW r \in Seq(S), Distinct(q),
         \A k \in DOMAIN r : IdOf(r[k]) = NoId
  PROVE  q \o r \in Seq(S) /\ Distinct(q \o r) /\ Carried(q \o r) = Carried(q)
<1>1. Distinct(r) /\ Carried(r) = {}
  BY DEF Distinct, Carried
<1>2. Carried(q) \cap Carried(r) = {} /\ Carried(q) \cup Carried(r) = Carried(q)
  BY <1>1
<1>3. /\ q \o r \in Seq(S) /\ Distinct(q \o r)
      /\ Carried(q \o r) = Carried(q) \cup Carried(r)
  <2>1. Distinct(q) /\ Distinct(r) /\ Carried(q) \cap Carried(r) = {}
    BY <1>1, <1>2
  <2> QED BY <2>1, ConcatCarries
<1> QED BY <1>2, <1>3

\* Notices carry no ids.
LEMMA NoticesOwed ==
  ASSUME NEW p, NEW l, NEW q, NEW r, NEW h, NEW fl, NEW pg \in Seq(PageMessage),
         CallsOwed(p, l, q, r, h, fl, pg), NEW ro \in SUBSET Sessions, NEW dr \in SUBSET Sessions,
         NEW frames \in SetToSeqs({Frame(s, "stopped") : s \in ro})
  PROVE  CallsOwed(p, l, q, r, h, fl, pg \o frames \o <<Restarted(ro, dr)>>)
<1> DEFINE T == {Frame(s, "stopped") : s \in ro}
<1>1. IsFiniteSet(T) /\ T \subseteq PageMessage
  BY FramesFinite
<1>2. \A m \in T : IdOf(m) = NoId
  BY DEF Frame, IdOf
<1> HIDE DEF T
<1>3. frames \in Seq(T) /\ frames \in Seq(PageMessage)
  BY <1>1, EnumerationType DEF T
<1>4. \A k \in DOMAIN frames : IdOf(frames[k]) = NoId
  BY <1>2, <1>3
<1>5. /\ pg \o frames \in Seq(PageMessage) /\ Distinct(pg \o frames)
      /\ Carried(pg \o frames) = Carried(pg)
  <2>1. Distinct(pg)
    BY DEF CallsOwed
  <2> QED BY <1>3, <1>4, <2>1, ConcatSilent
<1>6. CallsOwed(p, l, q, r, h, fl, pg \o frames)
  BY <1>5 DEF CallsOwed
<1>7. Restarted(ro, dr) \in PageMessage /\ IdOf(Restarted(ro, dr)) = NoId
  BY NoticeTypesHold DEF Restarted, IdOf
<1>8. CallsOwed(p, l, q, r, h, fl, Append(pg \o frames, Restarted(ro, dr)))
  BY <1>5, <1>6, <1>7, NoticeOwed
<1>9. Append(pg \o frames, Restarted(ro, dr)) = pg \o frames \o <<Restarted(ro, dr)>>
  BY <1>5, <1>7
<1> QED BY <1>8, <1>9

\* The restart replays on, or ends and sends the new worker what it held: what
\* was in flight has been failed, what is held stays owed.
LEMMA ContinueOwes ==
  ASSUME held \in Seq(PageRequest), NEW before \in Seq(PageMessage),
         CallsOwed(pending, used, queued, toRelay, held, {}, before),
         NEW tc, NEW ts, NEW table, NEW ro \in SUBSET Sessions, NEW dr \in SUBSET Sessions,
         Continue(before, tc, ts, table, ro, dr),
         taken' = {}, fromWorker' = <<>>, status = "ready", OwnersDiffer,
         UNCHANGED <<pending, used, queued, toRelay, status, ownerOf>>
  PROVE  CallsInv'
<1>0. OwnersDiffer'
  BY DEF OwnersDiffer
<1>1. CASE tc = {} /\ ts = {}
  <2>1. Finish(before, ro, dr)
    BY <1>1 DEF Continue
  <2>2. /\ inFlight' = Range(held) /\ toWorker' = held /\ held' = <<>>
        /\ restarting' = FALSE
    BY <2>1 DEF Finish
  <2>3. /\ Distinct(held) /\ Carried(held) = Ids(Range(held)) /\ OneId(Range(held))
    <3>1. held \in Seq(Request) /\ Distinct(held)
      BY DEF PageRequest, CallsOwed
    <3> QED BY <3>1, IdsCarried
  <2>4. CallsOwed(pending, used, queued, toRelay, <<>>, Range(held), before)
    BY <2>3, EmptyCarries DEF CallsOwed, Ids
  <2>5. PICK frames \in SetToSeqs({Frame(s, "stopped") : s \in ro}) :
          toPage' = before \o frames \o <<Restarted(ro, dr)>>
    BY <2>1 DEF Finish
  <2>6. CallsOwed(pending, used, queued, toRelay, <<>>, Range(held), toPage')
    BY <2>4, <2>5, NoticesOwed
  <2>7. WorkerOwes(held, {}, <<>>, Range(held))
    BY <2>3, EmptyCarries DEF WorkerOwes, OneId, Ids, BeatsHaveNoId
  <2> QED BY <1>0, <2>2, <2>6, <2>7 DEF CallsInv
<1>2. CASE ~(tc = {} /\ ts = {})
  <2>1. toPage' = before /\ inFlight' = {} /\ held' = held /\ restarting' = TRUE
    BY <1>2 DEF Continue
  <2> QED BY <1>0, <2>1 DEF CallsInv
<1> QED BY <1>1, <1>2

-----------------------------------------------------------------------------
(* The client *)

\* The client queues or sends requests it has just numbered.
LEMMA SendCalls ==
  ASSUME ClientTypeOK, ChannelsTypeOK, NEW rs \in Seq(PageRequest), Numbered(rs, used),
         NEW others, NEW pg, CallsOwed(others, used, queued, toRelay, held, inFlight, pg),
         Send(rs, others)
  PROVE  /\ CallsOwed(pending', used', queued', toRelay', held, inFlight, pg)
         /\ status # "ready" => toRelay' = toRelay
<1>1. used \in Nat /\ queued \in Seq(PageRequest) /\ toRelay \in Seq(PageRequest)
  BY DEF ClientTypeOK, ChannelsTypeOK
<1> DEFINE more == others \cup {rs[k] : k \in DOMAIN rs}
<1>2. /\ CallsOwed(more, used + Len(rs), queued \o rs, toRelay, held, inFlight, pg)
      /\ CallsOwed(more, used + Len(rs), queued, toRelay \o rs, held, inFlight, pg)
  BY <1>1, SendOwed
<1>3. /\ used' = used + Len(rs) /\ pending' = more
      /\ IF status = "ready" THEN toRelay' = toRelay \o rs /\ queued' = queued
         ELSE queued' = queued \o rs /\ toRelay' = toRelay
  BY DEF Send
<1> HIDE DEF more
<1> QED BY <1>2, <1>3

\* A step of the client keeps the invariant if the calls it leaves are owed.
LEMMA ClientStepCalls ==
  ASSUME CallsInv, CallsOwed(pending', used', queued', toRelay', held, inFlight, toPage'),
         status # "ready" => toRelay' = toRelay, status' = status \/ status' = "ready",
         Carried(toPage') \subseteq Carried(toPage), OwnersDiffer',
         UNCHANGED <<relayVars, workerVars>>, UNCHANGED <<toWorker, fromWorker>>
  PROVE  CallsInv'
<1>1. UNCHANGED <<inFlight, running, restarting, held, taken, wRunning>>
  BY DEF relayVars, workerVars
<1>2. status' # "ready" => NotBegun'
  BY <1>1 DEF CallsInv, NotBegun
<1> QED BY <1>1, <1>2 DEF CallsInv

\* A call of the user's.
LEMMA CallCalls ==
  ASSUME ClientTypeOK, ChannelsTypeOK, CallsInv, NEW request \in PageRequest, Call(request),
         request.id = used + 1, UNCHANGED <<relayVars, workerVars>>, OwnersDiffer',
         UNCHANGED <<status, toPage, toWorker, fromWorker>>
  PROVE  CallsInv'
<1>1. <<request>> \in Seq(PageRequest) /\ Numbered(<<request>>, used)
  BY DEF Numbered, ClientTypeOK
<1>2. Send(<<request>>, pending)
  BY DEF Call
<1>3. /\ CallsOwed(pending', used', queued', toRelay', held, inFlight, toPage)
      /\ status # "ready" => toRelay' = toRelay
  BY <1>1, <1>2, SendCalls DEF CallsInv
<1> QED BY <1>3, ClientStepCalls

\* A method of the client, called by the page.
LEMMA UserCalls ==
  ASSUME ClientTypeOK, ChannelsTypeOK, CallsInv, UNCHANGED <<relayVars, workerVars>>,
         \/ \E c \in Compiles : CompileSource(c) \/ Release(c)
         \/ \E s \in Sessions, c \in Compiles : OpenCompiled(s, c) \/ OpenCircuit(s, c)
         \/ \E s \in Sessions : Close(s) \/ \E type \in OpTypes : SessionCall(s, type)
  PROVE  CallsInv'
<1>1. used \in Nat /\ OwnersDiffer
  BY DEF ClientTypeOK, CallsInv
<1>2. ASSUME NEW c \in Compiles, CompileSource(c) \/ Release(c) PROVE CallsInv'
  <2>1. /\ CompileRequest(used + 1, c) \in PageRequest /\ CompileRequest(used + 1, c).id = used + 1
        /\ ReleaseRequest(used + 1, c) \in PageRequest /\ ReleaseRequest(used + 1, c).id = used + 1
    <3>1. CompileRequest(used + 1, c) \in PageRequest /\ ReleaseRequest(used + 1, c) \in PageRequest
      BY <1>1, ProtocolAssumption
         DEF ProtocolAssumption, CompileRequest, ReleaseRequest, PageRequest, Request, RequestTypes,
             PageIds
    <3> QED BY <3>1 DEF CompileRequest, ReleaseRequest
  <2>2. OwnersDiffer' /\ UNCHANGED <<status, toPage, toWorker, fromWorker>>
    BY <1>1, <1>2 DEF CompileSource, Release, OwnersDiffer
  <2>3. Call(CompileRequest(used + 1, c)) \/ Call(ReleaseRequest(used + 1, c))
    BY <1>2 DEF CompileSource, Release
  <2> QED BY <2>1, <2>2, <2>3, CallCalls
<1>3. ASSUME NEW s \in Sessions, NEW c \in Compiles, OpenCompiled(s, c) \/ OpenCircuit(s, c)
      PROVE  CallsInv'
  <2>1. /\ CompileRequest(used + 1, c) \in PageRequest /\ CompileRequest(used + 1, c).id = used + 1
        /\ OpenRequest(used + 1, s, c) \in PageRequest /\ OpenRequest(used + 1, s, c).id = used + 1
    <3>1. CompileRequest(used + 1, c) \in PageRequest /\ OpenRequest(used + 1, s, c) \in PageRequest
      BY <1>1, ProtocolAssumption
         DEF ProtocolAssumption, CompileRequest, OpenRequest, PageRequest, Request, RequestTypes,
             PageIds
    <3> QED BY <3>1 DEF CompileRequest, OpenRequest
  <2>2. UNCHANGED <<status, toPage, toWorker, fromWorker>>
    BY <1>3 DEF OpenCompiled, OpenCircuit
  <2>3. OwnersDiffer'
    <3>1. CASE OpenCompiled(s, c)
      BY <1>1, <3>1 DEF OpenCompiled, OwnersDiffer
    <3>2. CASE OpenCircuit(s, c)
      BY <1>1, <3>2 DEF OpenCircuit, OwnersDiffer, NewCompile, ClientTypeOK
    <3> QED BY <1>3, <3>1, <3>2
  <2>4. Call(CompileRequest(used + 1, c)) \/ Call(OpenRequest(used + 1, s, c))
    BY <1>3 DEF OpenCompiled, OpenCircuit
  <2> QED BY <2>1, <2>2, <2>3, <2>4, CallCalls
<1>4. ASSUME NEW s \in Sessions, Close(s) \/ \E type \in OpTypes : SessionCall(s, type)
      PROVE  CallsInv'
  <2>1. \A type \in OpTypes \cup {"close"} :
          OpRequest(used + 1, type, s) \in PageRequest /\ OpRequest(used + 1, type, s).id = used + 1
    <3>1. \A type \in OpTypes \cup {"close"} : OpRequest(used + 1, type, s) \in PageRequest
      BY <1>1, ProtocolAssumption
         DEF ProtocolAssumption, OpRequest, PageRequest, Request, RequestTypes, SessionOps, PageIds
    <3> QED BY <3>1 DEF OpRequest
  <2>2. OwnersDiffer' /\ UNCHANGED <<status, toPage, toWorker, fromWorker>>
    BY <1>1, <1>4 DEF Close, SessionCall, OwnersDiffer
  <2>3. \E type \in OpTypes \cup {"close"} : Call(OpRequest(used + 1, type, s))
    BY <1>4 DEF Close, SessionCall
  <2> QED BY <2>1, <2>2, <2>3, CallCalls
<1> QED BY <1>2, <1>3, <1>4

\* What the client receives.
LEMMA TakenNotice ==
  ASSUME ChannelsTypeOK, CallsInv, TakeMessage, IdOf(Head(toPage)) = NoId
  PROVE  /\ CallsOwed(pending, used, queued, toRelay, held, inFlight, toPage')
         /\ Carried(toPage') \subseteq Carried(toPage)
<1>1. toPage \in Seq(PageMessage) /\ toPage # <<>> /\ toPage' = Tail(toPage)
  BY DEF ChannelsTypeOK, TakeMessage
<1>2. CallsOwed(pending, used, queued, toRelay, held, inFlight, toPage) /\ Distinct(toPage)
  BY DEF CallsInv, CallsOwed
<1>3. CallsOwed(pending, used, queued, toRelay, held, inFlight, toPage')
  BY <1>1, <1>2, NoticeOwed
<1>4. Carried(toPage') \subseteq Carried(toPage)
  BY <1>1, <1>2, TailCarries
<1> QED BY <1>3, <1>4

\* The client receives ready or restarted.
LEMMA NoticeCalls ==
  ASSUME ClientTypeOK, ChannelsTypeOK, CallsInv, UNCHANGED <<relayVars, workerVars>>,
         ReceiveReady \/ ReceiveRestarted \/ ReceiveFrame
  PROVE  CallsInv'
<1>1. TakeMessage /\ IdOf(Head(toPage)) = NoId
  BY DEF ReceiveReady, ReceiveRestarted, ReceiveFrame, IdOf
<1>2. /\ CallsOwed(pending, used, queued, toRelay, held, inFlight, toPage')
      /\ Carried(toPage') \subseteq Carried(toPage)
  BY <1>1, TakenNotice
<1>3. OwnersDiffer' /\ UNCHANGED <<toWorker, fromWorker>>
  BY DEF CallsInv, OwnersDiffer, ReceiveReady, ReceiveRestarted, ReceiveFrame
<1>4. CASE ReceiveReady
  <2>1. CallsOwed(pending, used, <<>>, toRelay \o queued, held, inFlight, toPage')
    BY <1>2, ReadyOwed DEF ClientTypeOK, ChannelsTypeOK
  <2>2. /\ status' = "ready" /\ toRelay' = toRelay \o queued /\ queued' = <<>>
        /\ UNCHANGED <<pending, used>>
    BY <1>4 DEF ReceiveReady
  <2>3. CallsOwed(pending', used', queued', toRelay', held, inFlight, toPage')
    BY <2>1, <2>2
  <2>4. UNCHANGED <<inFlight, running, restarting, held, taken, wRunning>>
    BY DEF relayVars, workerVars
  <2> QED BY <1>3, <2>2, <2>3, <2>4 DEF CallsInv
<1>5. CASE ReceiveRestarted
  <2> DEFINE gone == Head(toPage).dropped \cap Live
  <2>1. End(gone, pending) /\ status' = status
    BY <1>5 DEF ReceiveRestarted
  <2>2. gone \in SUBSET Sessions /\ pending \in SUBSET PageRequest
    BY DEF Live, ClientTypeOK
  <2> HIDE DEF gone
  <2>3. PICK rs \in Seq(PageRequest) : Numbered(rs, used) /\ Send(rs, pending)
    BY <2>1, <2>2, EndKeeps
  <2>4. /\ CallsOwed(pending', used', queued', toRelay', held, inFlight, toPage')
        /\ status # "ready" => toRelay' = toRelay
    BY <1>2, <2>3, SendCalls
  <2> QED BY <1>2, <1>3, <2>1, <2>4, ClientStepCalls
<1>6. CASE ReceiveFrame
  <2>1. UNCHANGED <<status, used, pending, queued, toRelay>>
    BY <1>6 DEF ReceiveFrame
  <2> QED BY <1>2, <1>3, <2>1, ClientStepCalls
<1> QED BY <1>4, <1>5, <1>6

\* The client receives a reply.
LEMMA ReplyCalls ==
  ASSUME ClientTypeOK, ChannelsTypeOK, CallsInv, UNCHANGED <<relayVars, workerVars>>, ReceiveReply
  PROVE  CallsInv'
<1> DEFINE m == Head(toPage)
<1>1. toPage \in Seq(PageMessage) /\ toPage # <<>> /\ toPage' = Tail(toPage) /\ IdOf(m) = m.id
      /\ m.id # NoId
  BY DEF ReceiveReply, TakeMessage, ChannelsTypeOK, IdOf
<1>2. CallsOwed(pending, used, queued, toRelay, held, inFlight, toPage) /\ Distinct(toPage)
  BY DEF CallsInv, CallsOwed
<1>3. /\ m.id \in Ids(pending)
      /\ \A request \in pending : request.id = m.id =>
           CallsOwed(pending \ {request}, used, queued, toRelay, held, inFlight, toPage')
  BY <1>1, <1>2, ReplyOwed
<1>4. Carried(toPage') \subseteq Carried(toPage)
  BY <1>1, <1>2, TailCarries
<1>5. PICK request \in pending :
        /\ request.id = m.id
        /\ CASE request.type = "compile" -> SettleCompile(request, m.type = "compiled")
             [] request.type = "open"    -> SettleOpen(request, m.type = "opened")
             [] request.type = "close"   -> SettleClose(request)
             [] OTHER                    -> SettleOther(request, m)
  BY <1>3 DEF ReceiveReply
<1>6. OwnersDiffer /\ OwnersDiffer' /\ UNCHANGED <<status, toWorker, fromWorker>>
  BY DEF CallsInv, OwnersDiffer, ReceiveReply
<1>7. /\ (m.type = "compiled") \in BOOLEAN /\ (m.type = "opened") \in BOOLEAN
      /\ CallsOwed(pending \ {request}, used, queued, toRelay, held, inFlight, toPage')
  BY <1>3, <1>5
<1> HIDE DEF m
<1>8. PICK rs \in Seq(PageRequest) : Numbered(rs, used) /\ Send(rs, pending \ {request})
  <2>1. CASE request.type = "compile" /\ SettleCompile(request, m.type = "compiled")
    BY <1>6, <1>7, <2>1, SettleKeeps
  <2>2. CASE request.type = "open" /\ SettleOpen(request, m.type = "opened")
    BY <1>6, <1>7, <2>2, SettleKeeps
  <2>3. CASE request.type = "close" /\ SettleClose(request)
    BY <1>6, <2>3, SettleKeeps
  <2>4. CASE SettleOther(request, m)
    BY <1>6, <2>4, SettleKeeps
  <2> QED BY <1>5, <2>1, <2>2, <2>3, <2>4
<1>9. /\ CallsOwed(pending', used', queued', toRelay', held, inFlight, toPage')
      /\ status # "ready" => toRelay' = toRelay
  BY <1>7, <1>8, SendCalls
<1> QED BY <1>4, <1>6, <1>9, ClientStepCalls

\* The iframe loads, or the wait for it is given up.
LEMMA LoadOrGiveUpCalls ==
  ASSUME ClientTypeOK, ChannelsTypeOK, CallsInv, UNCHANGED <<relayVars, workerVars>>,
         IframeLoads \/ MarkUnavailable
  PROVE  CallsInv'
<1>1. CallsOwed(pending, used, queued, toRelay, held, inFlight, toPage) /\ OwnersDiffer
      /\ Distinct(toPage)
  BY DEF CallsInv, CallsOwed
<1>2. CASE IframeLoads
  <2>1. Ready \in PageMessage /\ IdOf(Ready) = NoId
    BY DEF Ready, PageMessage, IdOf
  <2>2. /\ toPage' = Append(toPage, Ready) /\ toPage \in Seq(PageMessage)
        /\ UNCHANGED <<status, used, pending, queued, ownerOf, toRelay, toWorker, fromWorker>>
    BY <1>2 DEF IframeLoads, ChannelsTypeOK
  <2>3. CallsOwed(pending, used, queued, toRelay, held, inFlight, toPage')
    BY <1>1, <2>1, <2>2, NoticeOwed
  <2>4. Carried(toPage') \subseteq Carried(toPage)
    <3>1. IdOf(Ready) \notin Carried(toPage)
      BY <2>1 DEF Carried
    <3> QED BY <1>1, <2>1, <2>2, <3>1, AppendCarries
  <2>5. OwnersDiffer'
    BY <1>1, <2>2 DEF OwnersDiffer
  <2> QED BY <2>2, <2>3, <2>4, <2>5, ClientStepCalls
<1>3. CASE MarkUnavailable
  <2>1. /\ pending' = {} /\ queued' = <<>> /\ status = "loading" /\ status' = "unavailable"
        /\ UNCHANGED <<used, ownerOf, channels>>
    BY <1>3 DEF MarkUnavailable, FailAll
  <2>2. UNCHANGED <<toRelay, toPage, toWorker, fromWorker>>
    BY <2>1 DEF channels
  <2>3. UNCHANGED <<inFlight, running, restarting, held, taken, wRunning>>
    BY DEF relayVars, workerVars
  <2>4. NotBegun /\ held = <<>> /\ inFlight = {}
    BY <2>1 DEF CallsInv, NotBegun
  <2>5. OneId({}) /\ Ids({}) = {}
    BY DEF OneId, Ids
  <2>6. CallsOwed({}, used, <<>>, toRelay, held, inFlight, toPage)
    BY <1>1, <2>4, <2>5, EmptyCarries DEF CallsOwed, NotBegun
  <2>7. OwnersDiffer'
    BY <1>1, <2>1 DEF OwnersDiffer
  <2>8. NotBegun'
    BY <2>2, <2>3, <2>4 DEF NotBegun
  <2> QED BY <2>1, <2>2, <2>3, <2>6, <2>7, <2>8 DEF CallsInv
<1> QED BY <1>2, <1>3

\* Every step of the client.
LEMMA ClientCalls ==
  ASSUME ClientTypeOK, ChannelsTypeOK, CallsInv, UNCHANGED <<relayVars, workerVars>>, ClientNext
  PROVE  CallsInv'
BY UserCalls, NoticeCalls, ReplyCalls, LoadOrGiveUpCalls DEF ClientNext

-----------------------------------------------------------------------------
(* The worker *)

\* Heartbeats carry no id, whatever is posted or taken.
LEMMA Beats ==
  ASSUME NEW fw \in Seq(Reply), BeatsHaveNoId(fw)
  PROVE  /\ \A m \in Reply : (m.type = "progressed" => m.id = NoId)
                               => BeatsHaveNoId(Append(fw, m))
         /\ fw # <<>> => /\ Head(fw).type = "progressed" => Head(fw).id = NoId
                         /\ BeatsHaveNoId(Tail(fw))
<1>1. ASSUME NEW m \in Reply, m.type = "progressed" => m.id = NoId
      PROVE  BeatsHaveNoId(Append(fw, m))
  <2>1. \A k \in DOMAIN Append(fw, m) :
          (k \in DOMAIN fw /\ Append(fw, m)[k] = fw[k]) \/ Append(fw, m)[k] = m
    OBVIOUS
  <2> QED BY <1>1, <2>1 DEF BeatsHaveNoId
<1>2. ASSUME fw # <<>> PROVE BeatsHaveNoId(Tail(fw))
  <2>1. \A k \in DOMAIN Tail(fw) : k + 1 \in DOMAIN fw /\ Tail(fw)[k] = fw[k + 1]
    BY <1>2
  <2> QED BY <2>1 DEF BeatsHaveNoId
<1>3. ASSUME fw # <<>> PROVE 1 \in DOMAIN fw /\ Head(fw) = fw[1]
  BY <1>3
<1> QED BY <1>1, <1>2, <1>3 DEF BeatsHaveNoId

\* The worker takes a request, and answers it at once or later.
LEMMA TakeOwes ==
  ASSUME NEW tw \in Seq(Request), tw # <<>>, NEW tk, NEW fw \in Seq(Reply), NEW fl,
         WorkerOwes(tw, tk, fw, fl)
  PROVE  /\ \A m \in Reply : m.id = Head(tw).id /\ m.type # "progressed" =>
              WorkerOwes(Tail(tw), tk, Append(fw, m), fl)
         /\ \A x : x.id = Head(tw).id => WorkerOwes(Tail(tw), tk \cup {x}, fw, fl)
<1> DEFINE e == Head(tw)
<1>1. /\ e \in Request /\ Distinct(Tail(tw)) /\ Carried(Tail(tw)) = Carried(tw) \ {IdOf(e)}
      /\ IdOf(e) = NoId \/ IdOf(e) \in Carried(tw)
  BY TailCarries DEF WorkerOwes
<1>2. IdOf(e) = e.id /\ e.id # NoId /\ e.id \in Carried(tw)
  BY <1>1, RequestCarries DEF NoId
<1> HIDE DEF e
<1>3. e.id \notin Ids(tk) /\ e.id \notin Carried(fw)
  BY <1>2 DEF WorkerOwes
<1>4. ASSUME NEW m \in Reply, m.id = e.id, m.type # "progressed"
      PROVE  WorkerOwes(Tail(tw), tk, Append(fw, m), fl)
  <2>1. Distinct(Append(fw, m)) /\ Carried(Append(fw, m)) = Carried(fw) \cup {e.id}
    <3>1. IdOf(m) = e.id
      BY <1>4, ReplyCarries
    <3> QED BY <1>2, <1>3, <3>1, AppendCarries DEF WorkerOwes
  <2>2. BeatsHaveNoId(Append(fw, m))
    BY <1>4, Beats DEF WorkerOwes
  <2> QED BY <1>1, <1>2, <1>3, <2>1, <2>2 DEF WorkerOwes
<1>5. ASSUME NEW x, x.id = e.id PROVE WorkerOwes(Tail(tw), tk \cup {x}, fw, fl)
  <2>1. Ids(tk \cup {x}) = Ids(tk) \cup {e.id} /\ OneId(tk \cup {x})
    BY <1>3, <1>5 DEF WorkerOwes, Ids, OneId
  <2> QED BY <1>1, <1>2, <1>3, <2>1 DEF WorkerOwes
<1> QED BY <1>4, <1>5 DEF e

\* The worker answers what it had taken.
LEMMA AnswerOwes ==
  ASSUME NEW tw, NEW tk \in SUBSET Request, NEW fw \in Seq(Reply), NEW fl,
         WorkerOwes(tw, tk, fw, fl), NEW request \in tk,
         NEW m \in Reply, m.id = request.id, m.type # "progressed"
  PROVE  WorkerOwes(tw, tk \ {request}, Append(fw, m), fl)
<1>1. IdOf(m) = request.id /\ request.id # NoId
  BY ReplyCarries, RequestCarries DEF NoId
<1>2. /\ request.id \in Ids(tk) /\ Ids(tk \ {request}) = Ids(tk) \ {request.id}
      /\ OneId(tk \ {request})
  BY DEF Ids, OneId, WorkerOwes
<1>3. Distinct(Append(fw, m)) /\ Carried(Append(fw, m)) = Carried(fw) \cup {request.id}
  <2>1. request.id \notin Carried(fw)
    BY <1>2 DEF WorkerOwes
  <2> QED BY <1>1, <2>1, AppendCarries DEF WorkerOwes
<1>4. BeatsHaveNoId(Append(fw, m))
  BY Beats DEF WorkerOwes
<1> QED BY <1>2, <1>3, <1>4 DEF WorkerOwes

\* Frames and heartbeats are posted and forwarded.
LEMMA SilentOwes ==
  ASSUME NEW tw, NEW tk, NEW fw \in Seq(Reply), NEW fl, WorkerOwes(tw, tk, fw, fl)
  PROVE  /\ \A m \in Reply : m.id = NoId => WorkerOwes(tw, tk, Append(fw, m), fl)
         /\ fw # <<>> /\ Head(fw).id = NoId => WorkerOwes(tw, tk, Tail(fw), fl)
<1>1. Distinct(fw) /\ BeatsHaveNoId(fw) /\ NoId \notin Carried(fw)
  BY DEF WorkerOwes, Carried
<1>2. ASSUME NEW m \in Reply, m.id = NoId PROVE WorkerOwes(tw, tk, Append(fw, m), fl)
  <2>1. IdOf(m) = NoId
    BY <1>2, ReplyCarries
  <2>2. Distinct(Append(fw, m)) /\ Carried(Append(fw, m)) = Carried(fw) \cup ({NoId} \ {NoId})
    BY <1>1, <2>1, AppendCarries
  <2>3. BeatsHaveNoId(Append(fw, m)) /\ Carried(Append(fw, m)) = Carried(fw)
    BY <1>1, <1>2, <2>2, Beats
  <2> QED BY <2>2, <2>3 DEF WorkerOwes
<1>3. ASSUME fw # <<>>, Head(fw).id = NoId PROVE WorkerOwes(tw, tk, Tail(fw), fl)
  <2>1. Head(fw) \in Reply /\ Distinct(Tail(fw)) /\ Carried(Tail(fw)) = Carried(fw) \ {IdOf(Head(fw))}
    BY <1>1, <1>3, TailCarries
  <2>2. IdOf(Head(fw)) = NoId
    BY <1>3, <2>1, ReplyCarries
  <2>3. BeatsHaveNoId(Tail(fw)) /\ Carried(Tail(fw)) = Carried(fw)
    BY <1>1, <1>3, <2>1, <2>2, Beats
  <2> QED BY <2>1, <2>3 DEF WorkerOwes
<1> QED BY <1>2, <1>3

\* The relay posts a request to the worker.
LEMMA ReceiveOwes ==
  ASSUME NEW tw \in Seq(Request), NEW tk, NEW fw, NEW fl, WorkerOwes(tw, tk, fw, fl),
         NEW e \in Request, e.id \notin Ids(fl)
  PROVE  WorkerOwes(Append(tw, e), tk, fw, fl \cup {e})
<1>1. IdOf(e) = e.id /\ e.id # NoId
  BY RequestCarries DEF NoId
<1>2. Distinct(Append(tw, e)) /\ Carried(Append(tw, e)) = Carried(tw) \cup {e.id}
  <2>1. e.id \notin Carried(tw)
    BY DEF WorkerOwes
  <2> QED BY <1>1, <2>1, AppendCarries DEF WorkerOwes
<1>3. Ids(fl \cup {e}) = Ids(fl) \cup {e.id}
  BY DEF Ids
<1> QED BY <1>2, <1>3 DEF WorkerOwes

\* The relay takes an answer of the worker: a request in flight has its id.
LEMMA ForwardOwes ==
  ASSUME NEW tw, NEW tk, NEW fw \in Seq(Reply), NEW fl, WorkerOwes(tw, tk, fw, fl), OneId(fl),
         fw # <<>>, Head(fw).id # NoId
  PROVE  /\ \E request \in fl : request.id = Head(fw).id
         /\ \A request \in fl : request.id = Head(fw).id =>
              WorkerOwes(tw, tk, Tail(fw), fl \ {request})
<1> DEFINE m == Head(fw)
<1>1. /\ m \in Reply /\ Distinct(Tail(fw)) /\ Carried(Tail(fw)) = Carried(fw) \ {IdOf(m)}
      /\ IdOf(m) = NoId \/ IdOf(m) \in Carried(fw)
  BY TailCarries DEF WorkerOwes
<1>2. IdOf(m) = m.id /\ m.id \in Carried(fw)
  BY <1>1, ReplyCarries
<1>3. BeatsHaveNoId(Tail(fw))
  BY Beats DEF WorkerOwes
<1> HIDE DEF m
<1>4. \E request \in fl : request.id = m.id
  BY <1>2 DEF WorkerOwes, Ids
<1>5. ASSUME NEW request \in fl, request.id = m.id PROVE WorkerOwes(tw, tk, Tail(fw), fl \ {request})
  <2>1. Ids(fl \ {request}) = Ids(fl) \ {m.id}
    BY <1>5 DEF OneId, Ids
  <2> QED BY <1>1, <1>2, <1>3, <2>1 DEF WorkerOwes
<1> QED BY <1>4, <1>5 DEF m

\* A step of the worker.  In a restart only the page's side is at stake.
LEMMA WorkerStepCalls ==
  ASSUME CallsInv, UNCHANGED <<clientVars, relayVars>>, UNCHANGED <<toRelay, toPage>>,
         status = "ready" \/ UNCHANGED <<taken, wRunning, toWorker, fromWorker>>,
         ~restarting => WorkerOwes(toWorker', taken', fromWorker', inFlight)
  PROVE  CallsInv'
<1>1. UNCHANGED <<status, used, pending, queued, ownerOf, inFlight, running, restarting, held>>
  BY DEF clientVars, relayVars
<1>2. OwnersDiffer'
  BY <1>1 DEF CallsInv, OwnersDiffer
<1>3. status' # "ready" => NotBegun'
  BY <1>1 DEF CallsInv, NotBegun
<1> QED BY <1>1, <1>2, <1>3 DEF CallsInv

\* The types of the worker's side.
LEMMA WorkerTypes ==
  ASSUME WorkerSide
  PROVE  /\ toWorker \in Seq(Request) /\ fromWorker \in Seq(Reply)
         /\ taken \in SUBSET Request /\ wRunning \subseteq Sessions
BY DEF WorkerSide, ChannelsTypeOK, WorkerTypeOK

\* The worker takes a request and starts on it.
LEMMA TakeCalls ==
  ASSUME WorkerSide, CallsInv, UNCHANGED <<clientVars, relayVars>>, Take
  PROVE  CallsInv'
<1> DEFINE request == Head(toWorker)
<1>1. /\ toWorker \in Seq(Request) /\ fromWorker \in Seq(Reply) /\ toWorker # <<>>
      /\ toWorker' = Tail(toWorker) /\ UNCHANGED <<wRunning, toRelay, toPage>>
  BY WorkerTypes DEF Take
<1>2. request \in Request /\ status = "ready"
  BY <1>1 DEF CallsInv, NotBegun
<1>3. CASE fromWorker' = Append(fromWorker, [id |-> request.id, type |-> "released",
                                             session |-> None, state |-> "none"])
           /\ taken' = taken
  <2>1. [id |-> request.id, type |-> "released", session |-> None, state |-> "none"] \in Reply
    BY <1>2, RequestFields DEF Reply, ReplyTypes, States, PageIds, ReplayId
  <2>2. ~restarting => WorkerOwes(toWorker', taken', fromWorker', inFlight)
    BY <1>1, <1>3, <2>1, TakeOwes DEF CallsInv
  <2> QED BY <1>1, <1>2, <2>2, WorkerStepCalls
<1>4. CASE taken' = taken \cup {Found(request)} /\ fromWorker' = fromWorker
  <2>1. Found(request).id = request.id
    BY <1>2 DEF Found, Request
  <2>2. ~restarting => WorkerOwes(toWorker', taken', fromWorker', inFlight)
    BY <1>1, <1>4, <2>1, TakeOwes DEF CallsInv
  <2> QED BY <1>1, <1>2, <2>2, WorkerStepCalls
<1> QED BY <1>3, <1>4 DEF Take, Post

\* What Done and Throws post.
LEMMA AnswerPostsReply ==
  ASSUME NEW request \in Request, request.type # "release", Done(request) \/ Throws(request)
  PROVE  \E m \in Reply : m.id = request.id /\ m.type # "progressed" /\ Post(m)
<1>1. \A type \in ReplyTypes \ {"progressed"}, st \in States :
        /\ ReplyTo(request, type, st) \in Reply /\ ReplyTo(request, type, st).id = request.id
        /\ ReplyTo(request, type, st).type # "progressed"
  BY RequestFields DEF ReplyTo, Reply, States, ReplyTypes, PageIds, ReplayId, Request
<1>2. /\ Failed(request.id) \in Reply /\ Failed(request.id).id = request.id
      /\ Failed(request.id).type # "progressed"
  BY RequestFields DEF Failed, Reply, States, ReplyTypes, PageIds, ReplayId, Request
<1>3. \A s, run : StateOf(s, run) \in States
  BY DEF StateOf, States
<1>4. CASE Done(request)
  <2>1. \E type \in ReplyTypes \ {"progressed"}, st \in States : Post(ReplyTo(request, type, st))
    <3>1. CASE request.type = "compile"
      BY <1>4, <3>1 DEF Done, ReplyTypes, States
    <3>2. CASE request.type = "open"
      BY <1>4, <3>2 DEF Done, ReplyTypes, States
    <3>3. CASE request.type = "close"
      BY <1>4, <3>3 DEF Done, ReplyTypes, States
    <3>4. CASE request.type \in {"run", "pause"}
      BY <1>3, <1>4, <3>4 DEF Done, ReplyTypes
    <3>5. CASE request.type = "op"
      BY <1>3, <1>4, <3>5 DEF Done, ReplyTypes
    <3>6. CASE request.type = "scan"
      BY <1>4, <3>6 DEF Done, ReplyTypes, States
    <3> QED BY <3>1, <3>2, <3>3, <3>4, <3>5, <3>6, RequestFields DEF RequestTypes, SessionOps
  <2> QED BY <1>1, <2>1
<1>5. CASE Throws(request)
  BY <1>2, <1>5 DEF Throws
<1> QED BY <1>4, <1>5

\* Every step of the worker.
LEMMA WorkerCalls ==
  ASSUME WorkerSide, CallsInv, UNCHANGED <<clientVars, relayVars>>, WorkerNext
  PROVE  CallsInv'
<1>1. /\ toWorker \in Seq(Request) /\ fromWorker \in Seq(Reply)
      /\ taken \in SUBSET Request /\ wRunning \subseteq Sessions
  BY WorkerTypes
<1>2. ~restarting => WorkerOwes(toWorker, taken, fromWorker, inFlight)
  BY DEF CallsInv
<1>3. taken # {} \/ wRunning # {} => status = "ready"
  BY DEF CallsInv, NotBegun
<1>4. CASE Answer
  <2>1. PICK request \in Answerable : taken' = taken \ {request} /\ (Done(request) \/ Throws(request))
    BY <1>4 DEF Answer
  <2>2. /\ request \in taken /\ request \in Request /\ request.type # "release"
        /\ UNCHANGED <<toRelay, toPage, toWorker>>
    BY <1>1, <1>4 DEF Answerable, Answer, WorkerSide, WorkerTypeOK
  <2>3. PICK m \in Reply : m.id = request.id /\ m.type # "progressed" /\ Post(m)
    BY <1>1, <2>1, <2>2, AnswerPostsReply
  <2>4. ~restarting => WorkerOwes(toWorker', taken', fromWorker', inFlight)
    BY <1>1, <1>2, <2>1, <2>2, <2>3, AnswerOwes DEF Post
  <2> QED BY <1>3, <2>2, <2>4, WorkerStepCalls
<1>5. CASE Heartbeat \/ \E s \in Sessions : PushFrame(s)
  <2>1. \E m \in Reply : m.id = NoId /\ Post(m)
    <3>1. [id |-> NoId, type |-> "progressed", session |-> None, state |-> "none"] \in Reply
      BY DEF Reply, ReplyTypes, States
    <3>2. \A s \in Sessions : Frame(s, "running") \in Reply /\ Frame(s, "running").id = NoId
      BY DEF Frame, Reply, ReplyTypes, States
    <3> QED BY <1>5, <3>1, <3>2 DEF Heartbeat, PushFrame
  <2>2. UNCHANGED <<taken, wRunning, toRelay, toPage, toWorker>> /\ (taken # {} \/ wRunning # {})
    BY <1>5 DEF Heartbeat, PushFrame, workerVars, Answerable
  <2>3. ~restarting => WorkerOwes(toWorker', taken', fromWorker', inFlight)
    BY <1>1, <1>2, <2>1, <2>2, SilentOwes DEF Post
  <2> QED BY <1>3, <2>2, <2>3, WorkerStepCalls
<1>6. CASE Hang \/ \E s \in Sessions : StepThrows(s)
  <2>1. UNCHANGED <<taken, wRunning, toRelay, toPage, toWorker, fromWorker>>
    BY <1>6 DEF Hang, StepThrows, channels
  <2> QED BY <1>2, <2>1, WorkerStepCalls
<1> QED BY <1>4, <1>5, <1>6, TakeCalls DEF WorkerNext

-----------------------------------------------------------------------------
(* The relay *)

\* The relay receives a request of the page.
LEMMA ReceiveCalls ==
  ASSUME RelaySide, WorkerSide, CallsInv, UNCHANGED <<clientVars, workerVars>>, Receive
  PROVE  CallsInv'
<1> DEFINE request == Head(toRelay)
<1>1. /\ toRelay \in Seq(PageRequest) /\ held \in Seq(PageRequest) /\ toWorker \in Seq(Request)
      /\ toRelay # <<>> /\ toRelay' = Tail(toRelay) /\ request \in PageRequest
      /\ request \in Request
  BY DEF RelaySide, RelayTypeOK, WorkerSide, ChannelsTypeOK, Receive, PageRequest
<1>2. /\ UNCHANGED <<status, used, pending, queued, ownerOf, taken, restarting, toPage, fromWorker>>
      /\ status = "ready"
  BY <1>1 DEF clientVars, workerVars, Receive, CallsInv, NotBegun
<1>3. OwnersDiffer'
  BY <1>2 DEF CallsInv, OwnersDiffer
<1>4. /\ CallsOwed(pending, used, queued, Tail(toRelay), Append(held, request), inFlight, toPage)
      /\ CallsOwed(pending, used, queued, Tail(toRelay), held, inFlight \cup {request}, toPage)
      /\ request.id \notin Ids(inFlight)
  BY <1>1, ReceiveOwed DEF CallsInv
<1> HIDE DEF request
<1>5. CASE restarting /\ held' = Append(held, request) /\ UNCHANGED <<inFlight, toWorker>>
  BY <1>1, <1>2, <1>3, <1>4, <1>5 DEF CallsInv
<1>6. CASE /\ ~restarting /\ inFlight' = inFlight \cup {request}
           /\ toWorker' = Append(toWorker, request) /\ held' = held
  <2>1. WorkerOwes(Append(toWorker, request), taken, fromWorker, inFlight \cup {request})
    BY <1>1, <1>4, <1>6, ReceiveOwes DEF CallsInv
  <2> QED BY <1>1, <1>2, <1>3, <1>4, <1>6, <2>1 DEF CallsInv
<1> QED BY <1>5, <1>6 DEF Receive, request

\* The relay receives a message of the worker that is for the page.
LEMMA ForwardCalls ==
  ASSUME RelaySide, WorkerSide, CallsInv, UNCHANGED <<clientVars, workerVars>>,
         Progressed \/ ForwardReply \/ ForwardFrame
  PROVE  CallsInv'
<1> DEFINE m == Head(fromWorker)
<1>1. /\ fromWorker \in Seq(Reply) /\ toPage \in Seq(PageMessage) /\ fromWorker # <<>>
      /\ fromWorker' = Tail(fromWorker) /\ m \in Reply /\ m \in PageMessage
  <2>1. fromWorker \in Seq(Reply) /\ toPage \in Seq(PageMessage) /\ fromWorker # <<>>
        /\ fromWorker' = Tail(fromWorker)
    BY DEF WorkerSide, ChannelsTypeOK, Progressed, ForwardReply, ForwardFrame
  <2>2. m \in Reply
    BY <2>1, HeadTailProperties
  <2> QED BY <2>1, <2>2 DEF PageMessage
<1>2. ~restarting
  <2>1. m \in Said
    BY <1>1, HeadTailProperties DEF WorkerSide, WorkerSeesOneSide
  <2>2. m.type = "progressed" \/ m.id # ReplayId
    BY DEF Progressed, ForwardReply, ForwardFrame, NoId, ReplayId, PageIds
  <2> QED BY <2>1, <2>2 DEF Said
<1>3. /\ UNCHANGED <<status, used, pending, queued, ownerOf, taken, restarting, held, toRelay,
                     toWorker>>
      /\ status = "ready"
  BY <1>1 DEF clientVars, workerVars, Progressed, ForwardReply, ForwardFrame, CallsInv, NotBegun
<1>4. OwnersDiffer'
  BY <1>3 DEF CallsInv, OwnersDiffer
<1>5. /\ CallsOwed(pending, used, queued, toRelay, held, inFlight, toPage)
      /\ WorkerOwes(toWorker, taken, fromWorker, inFlight) /\ OneId(inFlight) /\ held = <<>>
  BY <1>2 DEF CallsInv, CallsOwed
<1>6. SUFFICES /\ CallsOwed(pending, used, queued, toRelay, held, inFlight', toPage')
               /\ WorkerOwes(toWorker, taken, fromWorker', inFlight')
  BY <1>2, <1>3, <1>4, <1>5, <1>6 DEF CallsInv
<1>7. CASE Progressed
  <2>1. m.id = NoId
    BY <1>1, <1>5, <1>7, Beats DEF Progressed, WorkerOwes
  <2>2. inFlight' = inFlight /\ toPage' = toPage
    BY <1>7 DEF Progressed
  <2> QED BY <1>1, <1>5, <2>1, <2>2, SilentOwes
<1>8. CASE ForwardReply
  <2>0. m.id # NoId
    BY <1>1, <1>8, ProtocolAssumption DEF ForwardReply, PageIds, NoId
  <2>1. m.id # NoId /\ \E request \in inFlight : request.id = m.id
    BY <1>1, <1>5, <2>0, ForwardOwes
  <2>2. PICK request \in inFlight :
          request.id = m.id /\ inFlight' = inFlight \ {request} /\ toPage' = Append(toPage, m)
    BY <1>8, <2>1 DEF ForwardReply
  <2>3. CallsOwed(pending, used, queued, toRelay, held, inFlight \ {request}, Append(toPage, m))
    BY <1>1, <1>5, <2>2, AnswerOwed
  <2>4. WorkerOwes(toWorker, taken, Tail(fromWorker), inFlight \ {request})
    BY <1>1, <1>5, <2>1, <2>2, ForwardOwes
  <2> QED BY <1>1, <2>2, <2>3, <2>4
<1>9. CASE ForwardFrame
  <2>1. m.id = NoId /\ inFlight' = inFlight /\ toPage' = Append(toPage, m)
    BY <1>9 DEF ForwardFrame
  <2>2. IdOf(m) = NoId
    BY <1>1, <2>1, ReplyCarries
  <2>3. CallsOwed(pending, used, queued, toRelay, held, inFlight, Append(toPage, m))
    BY <1>1, <1>5, <2>2, NoticeOwed
  <2> QED BY <1>1, <1>5, <2>1, <2>3, SilentOwes
<1> QED BY <1>7, <1>8, <1>9

\* The watchdog fires: everything in flight is failed, a fresh worker started.
LEMMA OnSilenceCalls ==
  ASSUME RelaySide, WorkerSide, CallsInv, UNCHANGED clientVars, OnSilence, FreshWorker
  PROVE  CallsInv'
<1>1. /\ UNCHANGED <<status, used, pending, queued, ownerOf, toRelay>>
      /\ taken' = {} /\ fromWorker' = <<>>
  BY DEF clientVars, OnSilence, FreshWorker, Idle
<1>2. inFlight # {} \/ running # {}
  BY DEF OnSilence, RelaySide, WatchdogArmed, Owes
<1>3. status = "ready" /\ OwnersDiffer
  BY <1>2 DEF CallsInv, NotBegun
<1>4. PICK order \in OldestFirst(inFlight) :
        Continue(toPage \o [k \in DOMAIN order |-> Failed(order[k])],
                 compiles, OpenSessions(sessions), sessions, {}, {})
  BY DEF OnSilence
<1> DEFINE before == toPage \o [k \in DOMAIN order |-> Failed(order[k])]
<1>5. /\ held \in Seq(PageRequest) /\ toPage \in Seq(PageMessage)
      /\ inFlight \in SUBSET PageRequest /\ IsFiniteSet(inFlight)
  BY DEF RelaySide, RelayTypeOK, WorkerSide, ChannelsTypeOK
<1>6. before \in Seq(PageMessage) /\ CallsOwed(pending, used, queued, toRelay, held, {}, before)
  BY <1>5, FailOwed DEF CallsInv
<1>7. Continue(before, compiles, OpenSessions(sessions), sessions, {}, {})
  BY <1>4
<1>8. {} \in SUBSET Sessions
  OBVIOUS
<1> HIDE DEF before
<1> QED BY <1>1, <1>3, <1>5, <1>6, <1>7, <1>8, ContinueOwes

\* A replay is answered or times out.
LEMMA ReplayCalls ==
  ASSUME RelaySide, WorkerSide, CallsInv, UNCHANGED clientVars,
         (Replayed /\ UNCHANGED workerVars) \/ (ReplayTimeout /\ FreshWorker)
  PROVE  CallsInv'
<1>1. replaying \in ReplayRequest /\ taken' = {} /\ fromWorker' = <<>> /\ toRelay' = toRelay
  <2>1. CASE Replayed /\ UNCHANGED workerVars
    BY <2>1, ReplayAnswered
  <2>2. CASE ReplayTimeout /\ FreshWorker
    BY <2>2 DEF ReplayTimeout, FreshWorker, Idle, RelaySide, RelayTypeOK
  <2> QED BY <2>1, <2>2
<1>2. restarting
  <2>1. replaying # None
    BY <1>1, NoneAssumption, ReplayFields DEF ReplayRequest
  <2> QED BY <2>1 DEF WorkerSide, WorkerSeesOneSide
<1>3. UNCHANGED <<status, used, pending, queued, ownerOf>> /\ status = "ready" /\ OwnersDiffer
  BY <1>2 DEF clientVars, CallsInv, NotBegun
<1>4. /\ held \in Seq(PageRequest) /\ toPage \in Seq(PageMessage)
      /\ reopened \in SUBSET Sessions /\ dropped \in SUBSET Sessions
      /\ CallsOwed(pending, used, queued, toRelay, held, {}, toPage)
  BY <1>2 DEF RelaySide, RelayTypeOK, WorkerSide, ChannelsTypeOK, CallsInv, WatchdogArmed
<1>5. \E tc, ts, table : \E ro \in SUBSET Sessions, dr \in SUBSET Sessions :
        Continue(toPage, tc, ts, table, ro, dr)
  <2> DEFINE s == replaying.session
             lost == Head(fromWorker).type # "opened"
             ro == IF lost THEN reopened ELSE reopened \cup {s}
             dr == IF lost THEN dropped \cup {s} ELSE dropped
             gone == dropped \cup ({s} \ {None})
  <2>1. CASE Continue(toPage, todoCompiles, todoSessions, sessions, reopened, dropped)
    BY <1>4, <2>1
  <2>2. CASE replaying.type = "open" /\ Continue(toPage, todoCompiles, todoSessions, sessions', ro, dr)
    <3>1. ro \in SUBSET Sessions /\ dr \in SUBSET Sessions
      BY <1>1, <1>4, <2>2, ReplayFields
    <3>2. Continue(toPage, todoCompiles, todoSessions, sessions', ro, dr)
      BY <2>2
    <3> HIDE DEF ro, dr
    <3> QED BY <3>1, <3>2
  <2>3. CASE Continue(toPage, compiles', OpenSessions(sessions'), sessions', {}, gone)
    <3>1. gone \in SUBSET Sessions /\ {} \in SUBSET Sessions
      BY <1>1, <1>4, ReplayFields
    <3> HIDE DEF gone
    <3> QED BY <2>3, <3>1
  <2>4. \/ Continue(toPage, todoCompiles, todoSessions, sessions, reopened, dropped)
        \/ replaying.type = "open" /\ Continue(toPage, todoCompiles, todoSessions, sessions', ro, dr)
        \/ Continue(toPage, compiles', OpenSessions(sessions'), sessions', {}, gone)
    BY DEF Replayed, ReplayTimeout
  <2> QED BY <2>1, <2>2, <2>3, <2>4
<1> QED BY <1>1, <1>3, <1>4, <1>5, ContinueOwes

\* After a dispose nothing is owed.
LEMMA NothingOwed ==
  /\ \A l : CallsOwed({}, l, <<>>, <<>>, <<>>, {}, <<>>)
  /\ WorkerOwes(<<>>, {}, <<>>, {})
BY EmptyCarries DEF CallsOwed, WorkerOwes, OneId, Ids, BeatsHaveNoId

\* Every step keeps the invariant.
LEMMA CallsNext ==
  ASSUME IInv, CallsInv, [Next]_vars
  PROVE  CallsInv'
<1>1. ClientTypeOK /\ ChannelsTypeOK /\ RelaySide /\ WorkerSide
  BY DEF IInv, TypeOK, RelaySide, WorkerSide
<1>2. CASE ClientStep
  BY <1>1, <1>2, ClientCalls DEF ClientStep
<1>3. CASE RelayStep
  <2>1. /\ UNCHANGED clientVars /\ UNCHANGED workerVars /\ UNCHANGED <<clientVars, workerVars>>
        /\ Receive \/ Progressed \/ ForwardReply \/ ForwardFrame \/ Replayed
    BY <1>3 DEF RelayStep
  <2> QED BY <1>1, <2>1, ReceiveCalls, ForwardCalls, ReplayCalls
<1>4. CASE RestartStep
  <2>1. UNCHANGED clientVars /\ FreshWorker /\ (OnSilence \/ ReplayTimeout)
    BY <1>4 DEF RestartStep
  <2> QED BY <1>1, <2>1, OnSilenceCalls, ReplayCalls
<1>5. CASE WorkerStep
  BY <1>1, <1>5, WorkerCalls DEF WorkerStep
<1>6. CASE DisposeStep
  <2>1. /\ pending' = {} /\ queued' = <<>> /\ UNCHANGED <<status, used, ownerOf>>
        /\ toRelay' = <<>> /\ toPage' = <<>> /\ toWorker' = <<>> /\ fromWorker' = <<>>
        /\ inFlight' = {} /\ running' = {} /\ restarting' = FALSE /\ held' = <<>>
        /\ taken' = {} /\ wRunning' = {}
    BY <1>6 DEF DisposeStep, Dispose, FailAll, RelayGone, Empty, FreshWorker, Idle
  <2>2. OwnersDiffer'
    BY <2>1 DEF CallsInv, OwnersDiffer
  <2> QED BY <2>1, <2>2, NothingOwed, EmptyCarries DEF CallsInv, NotBegun
<1>7. CASE UNCHANGED vars
  <2>1. /\ UNCHANGED <<status, used, pending, queued, ownerOf>>
        /\ UNCHANGED <<inFlight, running, restarting, held, taken, wRunning>>
        /\ UNCHANGED <<toRelay, toPage, toWorker, fromWorker>>
    BY <1>7 DEF vars, clientVars, relayVars, workerVars, channels
  <2> QED BY <2>1 DEF CallsInv, OwnersDiffer, NotBegun
<1> QED BY <1>2, <1>3, <1>4, <1>5, <1>6, <1>7 DEF Next

\* It holds at the start.
LEMMA CallsInit == ASSUME Init PROVE CallsInv
<1>1. /\ pending = {} /\ queued = <<>> /\ used = 0 /\ ownerOf = [s \in Sessions |-> None]
      /\ toRelay = <<>> /\ toPage = <<>> /\ toWorker = <<>> /\ fromWorker = <<>>
      /\ inFlight = {} /\ running = {} /\ restarting = FALSE /\ held = <<>>
      /\ taken = {} /\ wRunning = {}
  BY DEF Init, ClientInit, RelayInit, Empty, WorkerInit, Idle
<1> QED BY <1>1, NothingOwed, EmptyCarries DEF CallsInv, NotBegun, OwnersDiffer

\* Every call is in one place and the worker has what is in flight, outside a
\* restart (send, onSilence, onWorkerMessage and restart of relay.ts).
THEOREM CallsInvariant == Spec => [](IInv /\ CallsInv)
<1>1. Init => IInv /\ CallsInv
  BY InitHolds, CallsInit
<1>2. IInv /\ CallsInv /\ [Next]_vars => (IInv /\ CallsInv)'
  BY NextKeeps, CallsNext
<1> QED BY <1>1, <1>2, PTL DEF Spec

(***************************************************************************)
(* What the invariant says of the copies of an id.                         *)
(***************************************************************************)

\* One place: its copies bear the ids it carries, and no two the same.
LEMMA CopiesCarried ==
  ASSUME NEW place, NEW q
  PROVE  /\ {c[3] : c \in Copies(place, q)} = Carried(q)
         /\ \A c \in Copies(place, q) : c[3] \in Carried(q)
         /\ Distinct(q) => \A c, d \in Copies(place, q) : c[3] = d[3] => c = d
<1>1. \A c \in Copies(place, q) : \E k \in DOMAIN q : /\ c = <<place, k, IdOf(q[k])>>
                                                      /\ c[3] = IdOf(q[k])
                                                      /\ IdOf(q[k]) # NoId
  BY DEF Copies
<1>2. \A k \in DOMAIN q : IdOf(q[k]) # NoId =>
        <<place, k, IdOf(q[k])>> \in Copies(place, q) /\ <<place, k, IdOf(q[k])>>[3] = IdOf(q[k])
  BY DEF Copies
<1>3. \A c \in Copies(place, q) : c[3] \in Carried(q)
  BY <1>1 DEF Carried
<1>4. Carried(q) \subseteq {c[3] : c \in Copies(place, q)}
  BY <1>2 DEF Carried
<1>5. ASSUME Distinct(q), NEW c \in Copies(place, q), NEW d \in Copies(place, q), c[3] = d[3]
      PROVE  c = d
  BY <1>1, <1>5 DEF Distinct
<1> QED BY <1>3, <1>4, <1>5

\* A set of requests with an id each.
LEMMA SetCopies ==
  ASSUME NEW place, NEW rs, OneId(rs)
  PROVE  OneOfEach({<<place, r, r.id>> : r \in rs}, Ids(rs))
<1> DEFINE cs == {<<place, r, r.id>> : r \in rs}
<1>1. /\ \A c \in cs : \E r \in rs : c = <<place, r, r.id>> /\ c[3] = r.id
      /\ \A r \in rs : <<place, r, r.id>> \in cs /\ <<place, r, r.id>>[3] = r.id
  OBVIOUS
<1> HIDE DEF cs
<1>2. {c[3] : c \in cs} = Ids(rs)
  <2>1. \A c \in cs : c[3] \in Ids(rs)
    BY <1>1 DEF Ids
  <2>2. \A i \in Ids(rs) : \E c \in cs : i = c[3]
    <3> SUFFICES ASSUME NEW r \in rs PROVE \E c \in cs : r.id = c[3]
      BY DEF Ids
    <3> QED BY <1>1
  <2> QED BY <2>1, <2>2
<1>3. ASSUME NEW c \in cs, NEW d \in cs, c[3] = d[3] PROVE c = d
  BY <1>1, <1>3 DEF OneId
<1> QED BY <1>2, <1>3 DEF OneOfEach, cs

\* Several places: no id is in two of them.
LEMMA JoinCopies ==
  ASSUME NEW cs, NEW is, NEW ds, NEW js, OneOfEach(cs, is), OneOfEach(ds, js), is \cap js = {}
  PROVE  OneOfEach(cs \cup ds, is \cup js)
<1>1. /\ \A c \in cs : c[3] \in is
      /\ \A d \in ds : d[3] \in js
  BY DEF OneOfEach
<1>2. {c[3] : c \in cs \cup ds} = is \cup js
  BY DEF OneOfEach
<1>3. ASSUME NEW c \in cs \cup ds, NEW d \in cs \cup ds, c[3] = d[3] PROVE c = d
  BY <1>1, <1>3 DEF OneOfEach
<1> QED BY <1>2, <1>3 DEF OneOfEach

\* The page's side: five places, no id in two of them.
LEMMA PageOwes ==
  ASSUME CallsOwed(pending, used, queued, toRelay, held, inFlight, toPage)
  PROVE  OneOfEach(PageCopies, Ids(pending))
<1> DEFINE C(place, q) == Copies(place, q)
           fs == {<<"inFlight", r, r.id>> : r \in inFlight}
<1>1. /\ OneOfEach(C("queued", queued), Carried(queued))
      /\ OneOfEach(C("toRelay", toRelay), Carried(toRelay))
      /\ OneOfEach(C("held", held), Carried(held))
      /\ OneOfEach(C("toPage", toPage), Carried(toPage))
  BY CopiesCarried DEF CallsOwed, OneOfEach
<1>2. OneOfEach(fs, Ids(inFlight))
  BY SetCopies DEF CallsOwed
<1> DEFINE a == C("queued", queued) \cup C("toRelay", toRelay)
           i == Carried(queued) \cup Carried(toRelay)
<1>3. OneOfEach(a, i)
  BY <1>1, JoinCopies DEF CallsOwed
<1> DEFINE b == a \cup C("held", held)
           j == i \cup Carried(held)
<1>4. OneOfEach(b, j)
  <2>1. i \cap Carried(held) = {}
    BY DEF CallsOwed
  <2> HIDE DEF a, i, C
  <2> QED BY <1>1, <1>3, <2>1, JoinCopies
<1>5. OneOfEach(b \cup fs, j \cup Ids(inFlight))
  <2>1. j \cap Ids(inFlight) = {}
    BY DEF CallsOwed
  <2> HIDE DEF b, j, fs
  <2> QED BY <1>2, <1>4, <2>1, JoinCopies
<1>6. OneOfEach((b \cup fs) \cup C("toPage", toPage), (j \cup Ids(inFlight)) \cup Carried(toPage))
  <2>1. (j \cup Ids(inFlight)) \cap Carried(toPage) = {}
    BY DEF CallsOwed
  <2> HIDE DEF b, j, fs, C
  <2> QED BY <1>1, <1>5, <2>1, JoinCopies
<1> QED BY <1>6 DEF PageCopies, CallsOwed

\* The worker's side: three places.
LEMMA WorkerHas ==
  ASSUME Distinct(toWorker), OneId(taken), Distinct(fromWorker),
         Carried(toWorker) \cap Ids(taken) = {},
         (Carried(toWorker) \cup Ids(taken)) \cap Carried(fromWorker) = {}
  PROVE  OneOfEach(WorkerCopies, Carried(toWorker) \cup Ids(taken) \cup Carried(fromWorker))
<1> DEFINE ws == Copies("toWorker", toWorker)
           ts == {<<"taken", r, r.id>> : r \in taken}
           fs == Copies("fromWorker", fromWorker)
<1>1. OneOfEach(ws, Carried(toWorker)) /\ OneOfEach(fs, Carried(fromWorker))
  BY CopiesCarried DEF OneOfEach
<1>2. OneOfEach(ts, Ids(taken))
  BY SetCopies
<1> HIDE DEF ws, ts, fs
<1>3. OneOfEach(ws \cup ts, Carried(toWorker) \cup Ids(taken))
  BY <1>1, <1>2, JoinCopies
<1>4. OneOfEach((ws \cup ts) \cup fs, (Carried(toWorker) \cup Ids(taken)) \cup Carried(fromWorker))
  BY <1>1, <1>3, JoinCopies
<1> QED BY <1>4 DEF WorkerCopies, ws, ts, fs

\* A channel of one replay.
LEMMA OneMessage ==
  ASSUME NEW S, NEW q \in Seq(S), Len(q) = 1, \A m \in S : IdOf(m) = ReplayId
  PROVE  Distinct(q) /\ Carried(q) = {ReplayId}
<1>1. DOMAIN q = {1} /\ q[1] \in S
  OBVIOUS
<1> QED BY <1>1 DEF Distinct, Carried, ReplayId, NoId

\* During a restart the worker has the one replay awaited.
LEMMA ReplayingOwes ==
  ASSUME WorkerSide, restarting
  PROVE  OneOfEach(WorkerCopies, {ReplayId})
<1>1. /\ toWorker \in Seq(Work) /\ taken \subseteq Work /\ fromWorker \in Seq(Said)
      /\ Work = ReplayRequest /\ \A m \in Work : IdOf(m) = ReplayId /\ m.id = ReplayId
      /\ \A m \in Said : IdOf(m) = ReplayId
  BY RequestCarries, ReplyCarries DEF WorkerSide, WorkerSeesOneSide, Work, Said, ReplayRequest
<1>2. Distinct(<<>>) /\ Carried(<<>>) = {} /\ OneId({}) /\ Ids({}) = {}
  BY EmptyCarries DEF OneId, Ids
<1>3. CASE Len(toWorker) = 1 /\ taken = {} /\ fromWorker = <<>>
  <2>1. Distinct(toWorker) /\ Carried(toWorker) = {ReplayId}
    BY <1>1, <1>3, OneMessage
  <2> QED BY <1>2, <1>3, <2>1, WorkerHas
<1>4. CASE toWorker = <<>> /\ (\E r \in taken : taken = {r}) /\ fromWorker = <<>>
  <2>1. OneId(taken) /\ Ids(taken) = {ReplayId}
    BY <1>1, <1>4 DEF OneId, Ids
  <2> QED BY <1>2, <1>4, <2>1, WorkerHas
<1>5. CASE toWorker = <<>> /\ taken = {} /\ Len(fromWorker) = 1
  <2>1. Distinct(fromWorker) /\ Carried(fromWorker) = {ReplayId}
    BY <1>1, <1>5, OneMessage
  <2> QED BY <1>2, <1>5, <2>1, WorkerHas
<1> QED BY <1>3, <1>4, <1>5 DEF WorkerSide, OneReplayOut

\* Every call the page awaits is in exactly one place, and the worker has exactly
\* what the relay takes to be in flight or replayed: no call is lost, owed twice
\* or answered by a worker that is gone, whatever restarts come between.
THEOREM CallsAlwaysOwedOnce == Spec => []EveryCallOwedOnce
<1>1. ASSUME IInv, CallsInv PROVE EveryCallOwedOnce
  <2>1. OneOfEach(PageCopies, Ids(pending))
    BY <1>1, PageOwes DEF CallsInv
  <2>2. CASE restarting
    <3>1. WorkerSide /\ replaying # None /\ inFlight = {}
      BY <1>1, <2>2 DEF IInv, TypeOK, WorkerSide, WorkerSeesOneSide, WatchdogArmed
    <3>2. Ids(inFlight) = {}
      BY <3>1 DEF Ids
    <3> QED BY <2>1, <2>2, <3>1, <3>2, ReplayingOwes DEF EveryCallOwedOnce
  <2>3. CASE ~restarting
    <3>1. replaying = None /\ WorkerOwes(toWorker, taken, fromWorker, inFlight)
      BY <1>1, <2>3 DEF IInv, WorkerSeesOneSide, CallsInv
    <3>2. OneOfEach(WorkerCopies, Ids(inFlight))
      BY <3>1, WorkerHas DEF WorkerOwes
    <3> QED BY <2>1, <3>1, <3>2 DEF EveryCallOwedOnce
  <2> QED BY <2>2, <2>3
<1>2. IInv /\ CallsInv => EveryCallOwedOnce
  BY <1>1
<1> QED BY <1>2, CallsInvariant, PTL

-----------------------------------------------------------------------------
(* What the page has asked for *)

\* Whatever is on its way is awaited.
EnRoute(q, r, h, fl) == Range(q) \cup Range(r) \cup Range(h) \cup fl
Awaited == EnRoute(queued, toRelay, held, inFlight) \subseteq pending

\* One open of a session at a time, of a compile, and the handle waits for it.
OpensSound ==
  \A r \in pending : r.type = "open" =>
    /\ r.compile # None /\ handle[r.session] = "opening"
    /\ \A q \in pending : q.type = "open" /\ q.session = r.session => q = r

\* A compile is asked for once, and nothing else of it before it is there.
CompilesSound ==
  \A r \in pending : r.type = "compile" =>
    /\ r.compile \notin compiled
    /\ \A q \in pending : q.compile = r.compile => q = r

\* The open that owns a compile waits for it.
OwnersWait ==
  \A r \in pending, s \in Sessions : r.type = "compile" /\ ownerOf[s] = r.compile =>
    /\ handle[s] = "opening"
    /\ \A q \in pending : q.type = "open" => q.session # s

Asked == Awaited /\ OpensSound /\ CompilesSound /\ OwnersWait

\* Messages in a channel, and in what is left of it.
LEMMA RangeMoves ==
  ASSUME NEW S, NEW q \in Seq(S)
  PROVE  /\ \A r \in Seq(S) : Range(q \o r) = Range(q) \cup Range(r)
         /\ \A e \in S : Range(Append(q, e)) = Range(q) \cup {e}
         /\ q # <<>> => Range(q) = {Head(q)} \cup Range(Tail(q))
<1>1. ASSUME NEW r \in Seq(S) PROVE Range(q \o r) = Range(q) \cup Range(r)
  <2>1. /\ Len(q) \in Nat /\ Len(r) \in Nat
        /\ DOMAIN q = 1 .. Len(q) /\ DOMAIN r = 1 .. Len(r)
        /\ DOMAIN (q \o r) = 1 .. Len(q) + Len(r)
        /\ \A k \in 1 .. Len(q) + Len(r) :
             (q \o r)[k] = IF k <= Len(q) THEN q[k] ELSE r[k - Len(q)]
    OBVIOUS
  <2> DEFINE p == q \o r
             n == Len(q)
  <2> HIDE DEF p, n
  <2>2. /\ \A k \in DOMAIN p : \/ k \in DOMAIN q /\ p[k] = q[k]
                               \/ k - n \in DOMAIN r /\ p[k] = r[k - n]
        /\ \A k \in DOMAIN q : k \in DOMAIN p /\ p[k] = q[k]
        /\ \A k \in DOMAIN r : k + n \in DOMAIN p /\ p[k + n] = r[k]
    BY <2>1 DEF p, n
  <2>3. Range(p) = Range(q) \cup Range(r)
    BY <2>2 DEF Range
  <2> QED BY <2>3 DEF p
<1>2. ASSUME NEW e \in S PROVE Range(Append(q, e)) = Range(q) \cup {e}
  <2>1. Append(q, e) = q \o <<e>> /\ <<e>> \in Seq(S) /\ Range(<<e>>) = {e}
    BY DEF Range
  <2>2. \A r \in Seq(S) : Range(q \o r) = Range(q) \cup Range(r)
    BY <1>1
  <2> QED BY <2>1, <2>2
<1>3. ASSUME q # <<>> PROVE Range(q) = {Head(q)} \cup Range(Tail(q))
  <2>1. /\ Len(q) \in Nat \ {0} /\ DOMAIN q = 1 .. Len(q) /\ DOMAIN Tail(q) = 1 .. Len(q) - 1
        /\ \A k \in 1 .. Len(q) - 1 : Tail(q)[k] = q[k + 1]
        /\ Head(q) = q[1]
    BY <1>3
  <2> DEFINE p == Tail(q)
             e == Head(q)
  <2> HIDE DEF p, e
  <2>2. /\ \A k \in DOMAIN p : k + 1 \in DOMAIN q /\ p[k] = q[k + 1]
        /\ \A k \in DOMAIN q : k = 1 \/ (k - 1 \in DOMAIN p /\ p[k - 1] = q[k])
        /\ 1 \in DOMAIN q /\ q[1] = e
    BY <2>1 DEF p, e
  <2>3. Range(q) = {e} \cup Range(p)
    BY <2>2 DEF Range
  <2> QED BY <2>3 DEF p, e
<1> QED BY <1>1, <1>2, <1>3

\* What the client sends is awaited.
LEMMA SendAwaited ==
  ASSUME ClientTypeOK, ChannelsTypeOK, NEW rs \in Seq(PageRequest), NEW others,
         EnRoute(queued, toRelay, held, inFlight) \subseteq others, Send(rs, others),
         UNCHANGED relayVars
  PROVE  Awaited'
<1>1. queued \in Seq(PageRequest) /\ toRelay \in Seq(PageRequest)
  BY DEF ClientTypeOK, ChannelsTypeOK
<1>2. Range(queued \o rs) = Range(queued) \cup Range(rs)
      /\ Range(toRelay \o rs) = Range(toRelay) \cup Range(rs)
  BY <1>1, RangeMoves
<1>3. pending' = others \cup Range(rs) /\ held' = held /\ inFlight' = inFlight
  BY DEF Send, relayVars, Range
<1>4. \/ toRelay' = toRelay \o rs /\ queued' = queued
      \/ queued' = queued \o rs /\ toRelay' = toRelay
  BY DEF Send
<1> QED BY <1>2, <1>3, <1>4 DEF Awaited, EnRoute

\* An answered call is nowhere on its way.
LEMMA AnsweredIsHome ==
  ASSUME ClientTypeOK, ChannelsTypeOK, RelayTypeOK, CallsInv, Awaited,
         NEW request \in pending, request.id \in Carried(toPage)
  PROVE  EnRoute(queued, toRelay, held, inFlight) \subseteq pending \ {request}
<1>1. queued \in Seq(Request) /\ toRelay \in Seq(Request) /\ held \in Seq(Request)
  BY DEF ClientTypeOK, ChannelsTypeOK, RelayTypeOK, PageRequest
<1>2. /\ Carried(queued) = Ids(Range(queued)) /\ Carried(toRelay) = Ids(Range(toRelay))
      /\ Carried(held) = Ids(Range(held))
  BY <1>1, IdsCarried
<1>3. /\ request.id \notin Carried(queued) /\ request.id \notin Carried(toRelay)
      /\ request.id \notin Carried(held) /\ request.id \notin Ids(inFlight)
  BY DEF CallsInv, CallsOwed
<1> QED BY <1>2, <1>3 DEF Awaited, EnRoute, Ids

\* A call of the user's asks for one thing more, under an id not used yet.
LEMMA CallAsks ==
  ASSUME ClientTypeOK, ChannelsTypeOK, CallsInv, Awaited, UNCHANGED relayVars,
         NEW request \in PageRequest, Call(request), request.id = used + 1
  PROVE  /\ Awaited' /\ pending' = pending \cup {request}
         /\ request.id \notin Carried(toPage) /\ request \notin pending
<1>1. <<request>> \in Seq(PageRequest) /\ Send(<<request>>, pending)
      /\ {<<request>>[k] : k \in DOMAIN <<request>>} = {request}
  BY DEF Call
<1>2. Awaited'
  BY <1>1, SendAwaited DEF Awaited
<1>3. pending' = pending \cup {request}
  BY <1>1 DEF Send
<1>4. request.id \notin Ids(pending) /\ Carried(toPage) \subseteq Ids(pending)
  BY DEF CallsInv, CallsOwed, ClientTypeOK
<1> QED BY <1>2, <1>3, <1>4 DEF Ids

\* The calls of the user's ask for what the handles allow.
LEMMA UserAsks ==
  ASSUME ClientTypeOK, ChannelsTypeOK, CallsInv, Asked, UNCHANGED relayVars,
         \/ \E c \in Compiles : CompileSource(c) \/ Release(c)
         \/ \E s \in Sessions, c \in Compiles : OpenCompiled(s, c) \/ OpenCircuit(s, c)
         \/ \E s \in Sessions : Close(s) \/ \E type \in OpTypes : SessionCall(s, type)
  PROVE  /\ Asked'
         /\ pending \subseteq pending'
         /\ \A r \in pending' \ pending : r.id \notin Carried(toPage)
         /\ \A s \in Live' : s \in Live
         /\ UNCHANGED <<toPage, toWorker, fromWorker>>
<1>1. /\ used \in Nat /\ handle \in [Sessions -> HandleStates] /\ compiled \subseteq Compiles
      /\ ownerOf \in [Sessions -> Compiles \cup {None}] /\ pending \in SUBSET PageRequest
  BY DEF ClientTypeOK
<1>2. CASE \E c \in Compiles : CompileSource(c)
  <2>1. PICK c \in Compiles : CompileSource(c)
    BY <1>2
  <2> DEFINE n == CompileRequest(used + 1, c)
  <2>2. /\ n \in PageRequest /\ n.id = used + 1 /\ n.type = "compile" /\ n.compile = c
    BY <1>1, ProtocolAssumption
       DEF CompileRequest, PageRequest, Request, RequestTypes, PageIds
  <2>3. /\ Call(n) /\ NewCompile(c)
        /\ UNCHANGED <<compiled, ownerOf, handle, toPage, toWorker, fromWorker>>
    BY <2>1 DEF CompileSource
  <2> HIDE DEF n
  <2>4. Awaited' /\ pending' = pending \cup {n} /\ n.id \notin Carried(toPage)
    BY <2>2, <2>3, CallAsks DEF Asked
  <2>5. OpensSound'
    BY <2>2, <2>3, <2>4 DEF Asked, OpensSound
  <2>6. CompilesSound'
    BY <2>2, <2>3, <2>4 DEF Asked, CompilesSound, NewCompile
  <2>7. OwnersWait'
    BY <2>2, <2>3, <2>4 DEF Asked, OwnersWait, NewCompile
  <2> QED BY <2>3, <2>4, <2>5, <2>6, <2>7 DEF Asked, Live
<1>3. CASE \E c \in Compiles : Release(c)
  <2>1. PICK c \in Compiles : Release(c)
    BY <1>3
  <2> DEFINE n == ReleaseRequest(used + 1, c)
  <2>2. n \in PageRequest /\ n.id = used + 1 /\ n.type = "release" /\ n.compile = c
    BY <1>1, ProtocolAssumption
       DEF ReleaseRequest, PageRequest, Request, RequestTypes, PageIds
  <2>3. /\ Call(n) /\ c \in compiled
        /\ UNCHANGED <<compiled, ownerOf, handle, toPage, toWorker, fromWorker>>
    BY <2>1 DEF Release
  <2> HIDE DEF n
  <2>4. Awaited' /\ pending' = pending \cup {n} /\ n.id \notin Carried(toPage)
    BY <2>2, <2>3, CallAsks DEF Asked
  <2>5. OpensSound' /\ CompilesSound' /\ OwnersWait'
    BY <2>2, <2>3, <2>4 DEF Asked, OpensSound, CompilesSound, OwnersWait
  <2> QED BY <2>3, <2>4, <2>5 DEF Asked, Live
<1>4. CASE \E s \in Sessions, c \in Compiles : OpenCompiled(s, c)
  <2>1. PICK s \in Sessions, c \in Compiles : OpenCompiled(s, c)
    BY <1>4
  <2> DEFINE n == OpenRequest(used + 1, s, c)
  <2>2. /\ n \in PageRequest /\ n.id = used + 1 /\ n.type = "open" /\ n.compile = c
        /\ n.session = s
    BY <1>1, <2>1, RequestTypesHold DEF OpenRequest
  <2>3. /\ Call(n) /\ c \in compiled /\ handle[s] = "none" /\ c # None
        /\ handle' = [handle EXCEPT ![s] = "opening"]
        /\ UNCHANGED <<compiled, ownerOf, toPage, toWorker, fromWorker>>
    BY <2>1, ProtocolAssumption DEF OpenCompiled
  <2> HIDE DEF n
  <2>4. Awaited' /\ pending' = pending \cup {n} /\ n.id \notin Carried(toPage)
    BY <2>2, <2>3, CallAsks DEF Asked
  <2>5. handle'[s] = "opening" /\ \A t \in Sessions : t # s => handle'[t] = handle[t]
    BY <1>1, <2>3
  <2>6. OpensSound'
    BY <1>1, <2>2, <2>3, <2>4, <2>5 DEF Asked, OpensSound
  <2>7. CompilesSound' /\ OwnersWait'
    BY <2>2, <2>3, <2>4, <2>5 DEF Asked, CompilesSound, OwnersWait
  <2> QED BY <2>3, <2>4, <2>5, <2>6, <2>7 DEF Asked, Live
<1>5. CASE \E s \in Sessions, c \in Compiles : OpenCircuit(s, c)
  <2>1. PICK s \in Sessions, c \in Compiles : OpenCircuit(s, c)
    BY <1>5
  <2> DEFINE n == CompileRequest(used + 1, c)
  <2>2. /\ n \in PageRequest /\ n.id = used + 1 /\ n.type = "compile" /\ n.compile = c
    BY <1>1, <2>1, RequestTypesHold DEF CompileRequest
  <2>3. /\ Call(n) /\ NewCompile(c) /\ handle[s] = "none"
        /\ handle' = [handle EXCEPT ![s] = "opening"]
        /\ ownerOf' = [ownerOf EXCEPT ![s] = c]
        /\ UNCHANGED <<compiled, toPage, toWorker, fromWorker>>
    BY <2>1 DEF OpenCircuit
  <2> HIDE DEF n
  <2>4. Awaited' /\ pending' = pending \cup {n} /\ n.id \notin Carried(toPage)
    BY <2>2, <2>3, CallAsks DEF Asked
  <2>5. /\ handle'[s] = "opening" /\ ownerOf'[s] = c
        /\ \A t \in Sessions : t # s => handle'[t] = handle[t] /\ ownerOf'[t] = ownerOf[t]
    BY <1>1, <2>3
  <2>6. OpensSound'
    BY <1>1, <2>2, <2>3, <2>4, <2>5 DEF Asked, OpensSound
  <2>7. CompilesSound'
    BY <2>2, <2>3, <2>4 DEF Asked, CompilesSound, NewCompile
  <2>8. OwnersWait'
    BY <2>2, <2>3, <2>4, <2>5 DEF Asked, OwnersWait, OpensSound, NewCompile
  <2> QED BY <2>3, <2>4, <2>5, <2>6, <2>7, <2>8 DEF Asked, Live
<1>6. CASE \E s \in Sessions : Close(s) \/ \E type \in OpTypes : SessionCall(s, type)
  <2>1. PICK s \in Sessions : Close(s) \/ \E type \in OpTypes : SessionCall(s, type)
    BY <1>6
  <2>2. PICK type \in OpTypes \cup {"close"} :
          /\ s \in Live /\ Call(OpRequest(used + 1, type, s))
          /\ handle' \in {handle, [handle EXCEPT ![s] = "open"]}
          /\ UNCHANGED <<compiled, ownerOf, toPage, toWorker, fromWorker>>
    BY <2>1 DEF Close, SessionCall
  <2> DEFINE n == OpRequest(used + 1, type, s)
  <2>3. /\ n \in PageRequest /\ n.id = used + 1 /\ n.type \notin {"open", "compile"}
        /\ n.compile = None
    <3>1. type \in SessionOps \cup {"close"}
      BY <2>2, ProtocolAssumption
    <3>2. n \in PageRequest
      BY <1>1, <3>1, ProtocolAssumption
         DEF OpRequest, PageRequest, Request, RequestTypes, SessionOps, PageIds
    <3> QED BY <3>1, <3>2 DEF OpRequest, SessionOps
  <2> HIDE DEF n
  <2>4. Awaited' /\ pending' = pending \cup {n} /\ n.id \notin Carried(toPage)
    BY <2>2, <2>3, CallAsks DEF Asked, n
  <2>5. /\ \A t \in Sessions : handle[t] = "opening" => handle'[t] = "opening"
        /\ \A t \in Live' : t \in Live
    BY <1>1, <2>2 DEF Live
  <2>6. \A r \in pending : r.type = "open" => r.session \in Sessions
    BY <1>1, RequestFields DEF PageRequest
  <2>7. \A r \in pending : r.type = "compile" => r.compile # None
    BY <1>1, RequestFields, ProtocolAssumption DEF PageRequest
  <2>8. OpensSound' /\ CompilesSound' /\ OwnersWait'
    BY <2>2, <2>3, <2>4, <2>5, <2>6, <2>7 DEF Asked, OpensSound, CompilesSound, OwnersWait
  <2> QED BY <2>2, <2>4, <2>5, <2>8 DEF Asked
<1> QED BY <1>2, <1>3, <1>4, <1>5, <1>6

\* New requests have ids that no message to the page carries.
LEMMA NumberedAfresh ==
  ASSUME ClientTypeOK, CallsInv, NEW rs \in Seq(PageRequest), Numbered(rs, used)
  PROVE  \A k \in DOMAIN rs : rs[k] \in PageRequest /\ rs[k].id \notin Carried(toPage)
                              /\ rs[k].id \notin Ids(pending)
<1>1. Carried(toPage) \subseteq Ids(pending) /\ Ids(pending) \subseteq 1 .. used /\ used \in Nat
  BY DEF CallsInv, CallsOwed, ClientTypeOK
<1>2. DOMAIN rs = 1 .. Len(rs) /\ Len(rs) \in Nat
  OBVIOUS
<1>3. \A k \in DOMAIN rs : rs[k].id = used + k /\ used + k \notin 1 .. used
  BY <1>1, <1>2 DEF Numbered
<1> QED BY <1>1, <1>2, <1>3

\* A compile a live handle owns is free to be released.
LEMMA FreesAsk ==
  ASSUME ClientTypeOK, CompilesSound, OwnersWait, OpensSound, NEW others \in SUBSET pending,
         NEW rs \in Seq(PageRequest), NEW gone, gone \subseteq Live, Frees(rs, gone),
         pending' = others \cup {rs[k] : k \in DOMAIN rs}, UNCHANGED <<compiled, ownerOf>>,
         \A s \in Sessions : handle[s] = "opening" => handle'[s] = "opening"
  PROVE  OpensSound' /\ CompilesSound' /\ OwnersWait'
<1>1. \A k \in DOMAIN rs : rs[k].type = "release" /\ \E s \in gone : rs[k].compile = ownerOf[s]
  BY DEF Frees
<1>2. \A s \in gone : s \in Sessions /\ handle[s] # "opening"
  BY DEF Live
<1>3. \A r \in others : r.type = "compile" => \A k \in DOMAIN rs : rs[k].compile # r.compile
  BY <1>1, <1>2 DEF OwnersWait
<1>4. \A r \in pending' : r \in others \/ \E k \in DOMAIN rs : r = rs[k]
  OBVIOUS
<1>5. \A r \in pending' : r.type # "release" => r \in others
  BY <1>1, <1>4
<1>6. \A r \in others : r.type = "open" => r.session \in Sessions
  <2> TAKE r \in others
  <2>1. r \in Request
    BY DEF ClientTypeOK, PageRequest
  <2> QED BY <2>1, RequestFields
<1>7. OpensSound'
  BY <1>5, <1>6 DEF OpensSound
<1>8. CompilesSound'
  BY <1>3, <1>4, <1>5 DEF CompilesSound
<1>9. OwnersWait'
  BY <1>5 DEF OwnersWait
<1> QED BY <1>7, <1>8, <1>9

\* ready, restarted and frames.
LEMMA NoticeAsks ==
  ASSUME ClientTypeOK, ChannelsTypeOK, CallsInv, Asked, UNCHANGED relayVars,
         ReceiveReady \/ ReceiveRestarted \/ ReceiveFrame
  PROVE  /\ Asked'
         /\ pending \subseteq pending'
         /\ \A r \in pending' \ pending : r.id \notin Carried(toPage)
         /\ \A s \in Live' :
              s \in Live /\ (Head(toPage).type = "restarted" => s \notin Head(toPage).dropped)
<1>1. /\ handle \in [Sessions -> HandleStates] /\ held' = held /\ inFlight' = inFlight
      /\ queued \in Seq(PageRequest) /\ toRelay \in Seq(PageRequest)
  BY DEF ClientTypeOK, ChannelsTypeOK, relayVars
<1>2. CASE ReceiveReady
  <2>1. /\ queued' = <<>> /\ toRelay' = toRelay \o queued /\ Head(toPage).type = "ready"
        /\ UNCHANGED <<pending, compiled, ownerOf, handle>>
    BY <1>2 DEF ReceiveReady
  <2>2. Range(toRelay \o queued) = Range(toRelay) \cup Range(queued) /\ Range(<<>>) = {}
    <3>1. Range(toRelay \o queued) = Range(toRelay) \cup Range(queued)
      BY <1>1, RangeMoves
    <3> QED BY <3>1 DEF Range
  <2>3. Awaited'
    BY <1>1, <2>1, <2>2 DEF Asked, Awaited, EnRoute
  <2> QED BY <2>1, <2>3 DEF Asked, OpensSound, CompilesSound, OwnersWait, Live
<1>3. CASE ReceiveRestarted
  <2> DEFINE gone == Head(toPage).dropped \cap Live
  <2>1. /\ End(gone, pending) /\ UNCHANGED <<compiled, ownerOf>>
        /\ \A s \in Sessions : handle[s] \notin {"open", "restarted"} => handle'[s] = handle[s]
        /\ \A s \in gone : handle'[s] = "closed"
    BY <1>3 DEF ReceiveRestarted, Live
  <2>2. \A s \in Live' : s \in Live /\ s \notin Head(toPage).dropped
    BY <2>1 DEF Live
  <2>3. gone \in SUBSET Sessions /\ gone \subseteq Live /\ pending \in SUBSET PageRequest
    BY DEF Live, ClientTypeOK
  <2> HIDE DEF gone
  <2>4. PICK rs \in Seq(PageRequest) : Numbered(rs, used) /\ Send(rs, pending) /\ Frees(rs, gone)
    BY <2>1, <2>3, EndKeeps
  <2>5. Awaited'
    BY <2>4, SendAwaited DEF Asked, Awaited
  <2>6. pending' = pending \cup {rs[k] : k \in DOMAIN rs}
    BY <2>4 DEF Send
  <2>7. OpensSound' /\ CompilesSound' /\ OwnersWait'
    BY <2>1, <2>3, <2>4, <2>6, FreesAsk DEF Asked
  <2> QED BY <2>2, <2>4, <2>5, <2>6, <2>7, NumberedAfresh DEF Asked
<1>4. CASE ReceiveFrame
  <2>1. /\ UNCHANGED <<pending, queued, compiled, ownerOf, handle, toRelay>>
        /\ Head(toPage).type = "updated"
    BY <1>4 DEF ReceiveFrame
  <2> QED BY <1>1, <2>1 DEF Asked, Awaited, OpensSound, CompilesSound, OwnersWait, Live
<1> QED BY <1>2, <1>3, <1>4

\* The reply to a call, and what follows it.
LEMMA ReplyAsks ==
  ASSUME ClientTypeOK, ChannelsTypeOK, RelayTypeOK, CallsInv, Asked, UNCHANGED relayVars,
         ReceiveReply
  PROVE  \E request \in pending :
           /\ request.id = Head(toPage).id
           /\ Asked'
           /\ pending \ {request} \subseteq pending'
           /\ \A r \in pending' \ pending : r.id \notin Carried(toPage)
           /\ \A s \in Live' :
                \/ s \in Live /\ ~(request.type = "close" /\ request.session = s)
                \/ Head(toPage).type = "opened" /\ request.type = "open" /\ request.session = s
<1> DEFINE m == Head(toPage)
<1>1. toPage \in Seq(PageMessage) /\ toPage # <<>> /\ IdOf(m) = m.id /\ m.id # NoId
  BY DEF ReceiveReply, TakeMessage, ChannelsTypeOK, IdOf
<1>2. Distinct(toPage) /\ m.id \in Carried(toPage) /\ Carried(toPage) \subseteq Ids(pending)
  <2>1. Distinct(toPage) /\ Carried(toPage) \subseteq Ids(pending)
    BY DEF CallsInv, CallsOwed
  <2> QED BY <1>1, <2>1, TailCarries
<1>3. PICK request \in pending :
        /\ request.id = m.id
        /\ CASE request.type = "compile" -> SettleCompile(request, m.type = "compiled")
             [] request.type = "open"    -> SettleOpen(request, m.type = "opened")
             [] request.type = "close"   -> SettleClose(request)
             [] OTHER                    -> SettleOther(request, m)
  BY <1>2 DEF ReceiveReply
<1> DEFINE others == pending \ {request}
           ok == IF request.type = "compile" THEN m.type = "compiled" ELSE m.type = "opened"
<1>4. /\ OwnersDiffer /\ UNCHANGED ownerOf /\ ok \in BOOLEAN
      /\ handle \in [Sessions -> HandleStates] /\ ownerOf \in [Sessions -> Compiles \cup {None}]
      /\ request \in Request /\ \A r \in pending : r \in Request
  BY DEF CallsInv, ReceiveReply, ClientTypeOK, PageRequest
<1>5. /\ request.type = "compile" => request.compile \in Compiles
      /\ \A r \in pending : r.type = "open" => r.session \in Sessions
      /\ \A r \in pending : r.type = "compile" => r.compile \in Compiles
  BY <1>4, RequestFields
<1>6. \/ request.type = "compile" /\ SettleCompile(request, ok)
      \/ request.type = "open" /\ SettleOpen(request, ok)
      \/ request.type = "close" /\ SettleClose(request)
      \/ request.type \notin {"compile", "open", "close"} /\ SettleOther(request, m)
  BY <1>3
<1>7. EnRoute(queued, toRelay, held, inFlight) \subseteq others
  BY <1>2, <1>3, AnsweredIsHome DEF Asked
<1>8. ok /\ request.type = "open" => m.type = "opened"
  OBVIOUS
<1> HIDE DEF m, ok
<1>9. PICK rs \in Seq(PageRequest) :
        Numbered(rs, used) /\ Send(rs, others) /\ Follows(rs, request, ok)
  <2> DEFINE Goes == \E rs \in Seq(PageRequest) :
                       Numbered(rs, used) /\ Send(rs, pending \ {request}) /\ Follows(rs, request, ok)
  <2>1. request.type = "compile" /\ SettleCompile(request, ok) => Goes
    BY <1>4, SettleKeeps
  <2>2. request.type = "open" /\ SettleOpen(request, ok) => Goes
    BY <1>4, SettleKeeps
  <2>3. request.type = "close" /\ SettleClose(request) => Goes
    BY <1>4, SettleKeeps
  <2>4. ASSUME SettleOther(request, m)
        PROVE  Goes
    <3>1. ok \in BOOLEAN /\ OwnersDiffer
      BY <1>4
    <3>2. QED
      BY <2>4, <3>1, SettleKeeps
  <2>5. Goes
    BY <1>6, <2>1, <2>2, <2>3, <2>4
  <2>6. QED
    BY <2>5 DEF others
<1>10. Awaited'
  BY <1>7, <1>9, SendAwaited
<1>11. pending' = others \cup {rs[k] : k \in DOMAIN rs}
  BY <1>9 DEF Send
<1>12. \A r \in pending' \ pending : r.id \notin Carried(toPage)
  BY <1>9, <1>11, NumberedAfresh
<1>13. /\ OpensSound' /\ CompilesSound' /\ OwnersWait'
       /\ \A s \in Live' :
            \/ s \in Live /\ ~(request.type = "close" /\ request.session = s)
            \/ m.type = "opened" /\ request.type = "open" /\ request.session = s
  <2>1. CASE request.type = "compile" /\ SettleCompile(request, ok)
    <3> DEFINE openers == Opener(request.compile)
    <3>1. /\ compiled' \subseteq compiled \cup {request.compile}
          /\ handle' = [s \in Sessions |-> IF s \in openers /\ ~ok THEN "failed" ELSE handle[s]]
      BY <2>1 DEF SettleCompile
    <3>2. \A s \in openers : s \in Sessions /\ handle[s] = "opening"
                              /\ \A q \in pending : q.type = "open" => q.session # s
      BY <1>5, <2>1 DEF Opener, Asked, OwnersWait
    <3>3. \A r \in others : r.type = "compile" => r.compile # request.compile
      BY <2>1 DEF Asked, CompilesSound
    <3>4. \A s \in Live' : s \in Live
      BY <1>4, <3>1 DEF Live
    <3>5. CASE ~ok
      <4>1. pending' = others
        BY <1>9, <1>11, <2>1, <3>5 DEF Follows
      <4>2. \A s \in Sessions : s \notin openers => handle'[s] = handle[s]
        BY <3>1
      <4>3. \A r \in others, s \in openers : r.type = "compile" => ownerOf[s] # r.compile
        BY <3>3 DEF Opener
      <4> HIDE DEF openers
      <4>4. OpensSound'
        BY <1>5, <3>2, <4>1, <4>2 DEF Asked, OpensSound
      <4>5. CompilesSound'
        BY <3>1, <3>3, <4>1 DEF Asked, CompilesSound
      <4>6. OwnersWait'
        BY <1>4, <4>1, <4>2, <4>3 DEF Asked, OwnersWait
      <4> QED BY <2>1, <3>4, <4>4, <4>5, <4>6
    <3>6. CASE ok
      <4>1. handle' = handle
        BY <1>4, <3>1, <3>6
      <4>2. CASE DOMAIN rs = {}
        <5>1. pending' = others
          BY <1>11, <4>2
        <5> QED BY <1>4, <3>1, <3>3, <3>4, <2>1, <4>1, <5>1
                DEF Asked, OpensSound, CompilesSound, OwnersWait
      <4>3. CASE DOMAIN rs # {}
        <5>1. DOMAIN rs = {1}
          BY <1>9, <2>1, <4>3 DEF Follows
        <5> DEFINE n == rs[1]
        <5>2. /\ pending' = others \cup {n} /\ n.type = "open" /\ n.compile = request.compile
              /\ n.session \in openers
          BY <1>9, <1>11, <2>1, <5>1 DEF Follows
        <5> HIDE DEF n, openers
        <5>3. n.compile # None
          BY <1>5, <2>1, <5>2, ProtocolAssumption
        <5>4. OpensSound'
          BY <3>2, <4>1, <5>2, <5>3 DEF Asked, OpensSound
        <5>5. CompilesSound'
          BY <3>1, <3>3, <5>2 DEF Asked, CompilesSound
        <5>6. OwnersWait'
          <6>1. ownerOf[n.session] = request.compile
            BY <5>2 DEF openers, Opener
          <6> QED BY <1>4, <3>3, <4>1, <5>2, <6>1 DEF Asked, OwnersWait
        <5> QED BY <2>1, <3>4, <5>4, <5>5, <5>6
      <4> QED BY <4>2, <4>3
    <3> QED BY <3>5, <3>6
  <2>2. CASE request.type = "open" /\ SettleOpen(request, ok)
    <3> DEFINE s == request.session
    <3>1. /\ handle' = [handle EXCEPT ![s] = IF ok THEN "open" ELSE "failed"]
          /\ compiled' = compiled
      BY <2>2 DEF SettleOpen
    <3>2. s \in Sessions /\ \A t \in Sessions : t # s => handle'[t] = handle[t]
      BY <1>4, <1>5, <2>2, <3>1
    <3>3. \A r \in others : r.type = "open" => r.session # s
      BY <2>2 DEF Asked, OpensSound
    <3>4. \A r \in pending : r.type = "compile" => ownerOf[s] # r.compile
      BY <2>2, <3>2 DEF Asked, OwnersWait
    <3>5. \A k \in DOMAIN rs : rs[k].type = "release" /\ rs[k].compile = ownerOf[s]
      BY <1>9, <2>2 DEF Follows
    <3>6. \A r \in pending' : r \in others \/ (r.type = "release" /\ r.compile = ownerOf[s])
      BY <1>11, <3>5
    <3>7. OpensSound'
      BY <1>5, <3>2, <3>3, <3>6 DEF Asked, OpensSound
    <3>8. CompilesSound'
      BY <3>1, <3>4, <3>6 DEF Asked, CompilesSound
    <3>9. OwnersWait'
      BY <1>4, <3>2, <3>4, <3>6 DEF Asked, OwnersWait
    <3>10. \A t \in Live' : t \in Live \/ (m.type = "opened" /\ s = t)
      BY <1>4, <1>8, <2>2, <3>1, <3>2 DEF Live
    <3> QED BY <2>2, <3>7, <3>8, <3>9, <3>10
  <2>3. CASE request.type = "close" /\ SettleClose(request)
    <3> DEFINE gone == {request.session} \cap Live
    <3>1. /\ handle' = [s \in Sessions |-> IF s \in gone THEN "closed" ELSE handle[s]]
          /\ compiled' = compiled
      BY <2>3 DEF SettleClose
    <3>2. \A s \in Live' : s \in Live /\ request.session # s
      BY <3>1 DEF Live
    <3>3. \A s \in Sessions : handle[s] = "opening" => handle'[s] = "opening"
      BY <3>1 DEF Live
    <3>4. Frees(rs, gone)
      BY <1>9, <2>3 DEF Follows, Frees
    <3>5. OpensSound' /\ CompilesSound' /\ OwnersWait'
      BY <1>4, <1>11, <3>1, <3>3, <3>4, FreesAsk DEF Asked
    <3> QED BY <3>2, <3>5
  <2>4. CASE request.type \notin {"compile", "open", "close"} /\ SettleOther(request, m)
    <3>1. pending' = others /\ handle' = handle /\ compiled' = compiled
      BY <2>4 DEF SettleOther, Send
    <3> QED BY <1>4, <2>4, <3>1 DEF Asked, OpensSound, CompilesSound, OwnersWait, Live
  <2> QED BY <1>6, <2>1, <2>2, <2>3, <2>4
<1> QED BY <1>3, <1>10, <1>11, <1>12, <1>13 DEF Asked, m

\* The iframe loads, or the wait for it is given up: then nothing is on its way.
LEMMA LoadOrGiveUpAsks ==
  ASSUME CallsInv, Asked, UNCHANGED relayVars, IframeLoads \/ MarkUnavailable
  PROVE  Asked'
<1>1. held' = held /\ inFlight' = inFlight
  BY DEF relayVars
<1>2. CASE IframeLoads
  <2>1. UNCHANGED <<pending, queued, compiled, ownerOf, handle, toRelay>>
    BY <1>2 DEF IframeLoads
  <2> QED BY <1>1, <2>1 DEF Asked, Awaited, OpensSound, CompilesSound, OwnersWait
<1>3. CASE MarkUnavailable
  <2>1. /\ pending' = {} /\ queued' = <<>> /\ status = "loading" /\ toRelay' = toRelay
    BY <1>3 DEF MarkUnavailable, FailAll, channels
  <2>2. toRelay = <<>> /\ held = <<>> /\ inFlight = {}
    BY <2>1 DEF CallsInv, NotBegun
  <2>3. Awaited'
    BY <1>1, <2>1, <2>2 DEF Awaited, EnRoute, Range
  <2> QED BY <2>1, <2>3 DEF Asked, OpensSound, CompilesSound, OwnersWait
<1> QED BY <1>2, <1>3

\* What the relay does with a request leaves it on its way, or answers it.
LEMMA RelayAsks ==
  ASSUME Asked, UNCHANGED <<clientVars>>,
         EnRoute(queued', toRelay', held', inFlight')
           \subseteq EnRoute(queued, toRelay, held, inFlight)
  PROVE  Asked'
<1>1. UNCHANGED <<pending, queued, compiled, ownerOf, handle>>
  BY DEF clientVars
<1> QED BY <1>1 DEF Asked, Awaited, OpensSound, CompilesSound, OwnersWait

\* A replay keeps what is held, and its end puts it in flight.
LEMMA ContinueRoutes ==
  ASSUME NEW before, NEW tc, NEW ts, NEW table, NEW ro, NEW dr,
         Continue(before, tc, ts, table, ro, dr), UNCHANGED <<queued, toRelay>>
  PROVE  EnRoute(queued', toRelay', held', inFlight')
           \subseteq EnRoute(queued, toRelay, held, inFlight)
<1>1. CASE tc = {} /\ ts = {}
  <2>1. inFlight' = Range(held) /\ held' = <<>>
    BY <1>1 DEF Continue, Finish
  <2> QED BY <2>1 DEF EnRoute, Range
<1>2. CASE ~(tc = {} /\ ts = {})
  <2>1. inFlight' = {} /\ held' = held
    BY <1>2 DEF Continue
  <2> QED BY <2>1 DEF EnRoute
<1> QED BY <1>1, <1>2

\* Every step asks for nothing unsound.
LEMMA AskedNext ==
  ASSUME IInv, CallsInv, Asked, [Next]_vars
  PROVE  Asked'
<1>1. ClientTypeOK /\ ChannelsTypeOK /\ RelayTypeOK
  BY DEF IInv, TypeOK
<1>2. CASE ClientStep
  <2>1. UNCHANGED relayVars /\ ClientNext
    BY <1>2 DEF ClientStep
  <2>2. CASE ReceiveReply
    BY <1>1, <2>1, <2>2, ReplyAsks
  <2> QED BY <1>1, <2>1, <2>2, UserAsks, NoticeAsks, LoadOrGiveUpAsks DEF ClientNext
<1>3. CASE RelayStep
  <2>1. UNCHANGED clientVars /\ UNCHANGED queued
        /\ (Receive \/ Progressed \/ ForwardReply \/ ForwardFrame \/ Replayed)
    BY <1>3 DEF RelayStep, clientVars
  <2>2. CASE Receive
    <3>1. toRelay \in Seq(PageRequest) /\ held \in Seq(PageRequest) /\ toRelay # <<>>
          /\ Head(toRelay) \in PageRequest
      BY <1>1, <2>2, HeadTailProperties DEF ChannelsTypeOK, RelayTypeOK, Receive
    <3>2. /\ Range(toRelay) = {Head(toRelay)} \cup Range(Tail(toRelay))
          /\ Range(Append(held, Head(toRelay))) = Range(held) \cup {Head(toRelay)}
      BY <3>1, RangeMoves
    <3>3. /\ toRelay' = Tail(toRelay)
          /\ \/ held' = Append(held, Head(toRelay)) /\ inFlight' = inFlight
             \/ held' = held /\ inFlight' = inFlight \cup {Head(toRelay)}
      BY <2>2 DEF Receive
    <3>4. EnRoute(queued', toRelay', held', inFlight')
            \subseteq EnRoute(queued, toRelay, held, inFlight)
      BY <2>1, <3>2, <3>3 DEF EnRoute
    <3> QED BY <2>1, <3>4, RelayAsks
  <2>3. CASE Progressed \/ ForwardReply \/ ForwardFrame
    <3>1. inFlight' \subseteq inFlight /\ held' = held /\ toRelay' = toRelay
      BY <2>3 DEF Progressed, ForwardReply, ForwardFrame
    <3>2. EnRoute(queued', toRelay', held', inFlight')
            \subseteq EnRoute(queued, toRelay, held, inFlight)
      BY <2>1, <3>1 DEF EnRoute
    <3> QED BY <2>1, <3>2, RelayAsks
  <2>4. CASE Replayed
    <3>1. \E tc, ts, table, ro, dr : Continue(toPage, tc, ts, table, ro, dr)
      BY <2>4 DEF Replayed
    <3>2. toRelay' = toRelay
      BY <2>4 DEF Replayed
    <3> QED BY <2>1, <3>1, <3>2, ContinueRoutes, RelayAsks
  <2> QED BY <2>1, <2>2, <2>3, <2>4
<1>4. CASE RestartStep
  <2>1. UNCHANGED clientVars /\ UNCHANGED queued /\ UNCHANGED toRelay
    BY <1>4 DEF RestartStep, clientVars, OnSilence, ReplayTimeout
  <2>2. \E before, tc, ts, table, ro, dr : Continue(before, tc, ts, table, ro, dr)
    BY <1>4 DEF RestartStep, OnSilence, ReplayTimeout
  <2> QED BY <2>1, <2>2, ContinueRoutes, RelayAsks
<1>5. CASE WorkerStep \/ UNCHANGED vars
  <2>1. UNCHANGED clientVars /\ UNCHANGED relayVars /\ UNCHANGED toRelay
    BY <1>5 DEF WorkerStep, WorkerNext, Take, Answer, Heartbeat, Hang, PushFrame, StepThrows,
                channels, vars
  <2>2. UNCHANGED <<queued, held, inFlight, toRelay>>
    BY <2>1 DEF clientVars, relayVars
  <2> QED BY <2>1, <2>2, RelayAsks
<1>6. CASE DisposeStep
  <2>1. /\ pending' = {} /\ queued' = <<>> /\ toRelay' = <<>> /\ held' = <<>> /\ inFlight' = {}
    BY <1>6 DEF DisposeStep, Dispose, FailAll, RelayGone, Empty
  <2> QED BY <2>1 DEF Asked, Awaited, EnRoute, Range, OpensSound, CompilesSound, OwnersWait
<1> QED BY <1>2, <1>3, <1>4, <1>5, <1>6 DEF Next

-----------------------------------------------------------------------------
(* Handles and the relay's table *)

\* The messages to the page that end a handle, and those that open one.
Ends(m, pend, s) ==
  \/ m.type = "restarted" /\ s \in m.dropped
  \/ m.type = "closed" /\ \E r \in pend : r.id = m.id /\ r.type = "close" /\ r.session = s
Opens(m, r) == m.type = "opened" /\ m.id = r.id /\ r.type = "open"

\* s is in the table, or a message after the first k says that it is not, or
\* the restart will.
Backed(pg, k, s, pend, table, dr) ==
  \/ table[s] # None \/ s \in dr
  \/ \E j \in DOMAIN pg : j > k /\ Ends(pg[j], pend, s)

\* A live handle is backed, and so is one when the message that opens it comes.
HandlesSound(live, pg, pend, table, dr) ==
  /\ \A s \in live : Backed(pg, 0, s, pend, table, dr)
  /\ \A k \in DOMAIN pg, r \in pend : Opens(pg[k], r) => Backed(pg, k, r.session, pend, table, dr)

\* The client makes requests, and handles may end.
LEMMA StayBacked ==
  ASSUME NEW pg \in Seq(PageMessage), NEW live, NEW pend, NEW table, NEW dr,
         HandlesSound(live, pg, pend, table, dr),
         NEW live2, NEW pend2, live2 \subseteq live, pend \subseteq pend2,
         \A r \in pend2 \ pend : r.id \notin Carried(pg) /\ r.id # NoId
  PROVE  HandlesSound(live2, pg, pend2, table, dr)
<1>1. \A k \in DOMAIN pg : \A s :
        Backed(pg, k, s, pend, table, dr) => Backed(pg, k, s, pend2, table, dr)
  BY DEF Backed, Ends
<1>2. \A s \in live2 : Backed(pg, 0, s, pend, table, dr) => Backed(pg, 0, s, pend2, table, dr)
  BY DEF Backed, Ends
<1>3. \A k \in DOMAIN pg, r \in pend2 : Opens(pg[k], r) => r \in pend
  <2> SUFFICES ASSUME NEW k \in DOMAIN pg, NEW r \in pend2, Opens(pg[k], r) PROVE r \in pend
    OBVIOUS
  <2>1. IdOf(pg[k]) = r.id
    BY DEF Opens, IdOf
  <2> QED BY <2>1 DEF Carried
<1> QED BY <1>1, <1>2, <1>3 DEF HandlesSound

\* The client takes a message, and whatever it ends or opens is so.
LEMMA TakenBacked ==
  ASSUME NEW pg \in Seq(PageMessage), pg # <<>>, Distinct(pg), NEW live, NEW pend, NEW table,
         NEW dr, HandlesSound(live, pg, pend, table, dr), NEW live2, NEW pend2,
         \A r \in pend : r \in pend2 \/ r.id = IdOf(Head(pg)),
         \A r \in pend : r.id # NoId,
         \A r \in pend2 \ pend : r.id \notin Carried(pg) /\ r.id # NoId,
         \A s \in live2 : \/ s \in live /\ ~Ends(Head(pg), pend, s)
                          \/ \E r \in pend : Opens(Head(pg), r) /\ r.session = s
  PROVE  HandlesSound(live2, Tail(pg), pend2, table, dr)
<1>1. /\ Len(pg) \in Nat \ {0} /\ DOMAIN pg = 1 .. Len(pg) /\ DOMAIN Tail(pg) = 1 .. Len(pg) - 1
      /\ \A k \in 1 .. Len(pg) - 1 : Tail(pg)[k] = pg[k + 1]
      /\ Head(pg) = pg[1]
  OBVIOUS
<1> DEFINE p == Tail(pg)
           m == Head(pg)
<1> HIDE DEF p, m
<1>2. /\ \A k \in DOMAIN p : k + 1 \in DOMAIN pg /\ p[k] = pg[k + 1] /\ k \in Nat /\ k # 0
      /\ \A j \in DOMAIN pg : j = 1 \/ (j - 1 \in DOMAIN p /\ p[j - 1] = pg[j])
      /\ \A j \in DOMAIN pg : j \in Nat /\ j # 0
      /\ 1 \in DOMAIN pg /\ pg[1] = m
  BY <1>1 DEF p, m
<1>3. ASSUME NEW j \in DOMAIN pg, j # 1, NEW s, Ends(pg[j], pend, s)
      PROVE  Ends(pg[j], pend2, s)
  <2>1. CASE pg[j].type = "restarted" /\ s \in pg[j].dropped
    BY <2>1 DEF Ends
  <2>2. CASE ~(pg[j].type = "restarted" /\ s \in pg[j].dropped)
    <3>1. PICK r \in pend : r.id = pg[j].id /\ r.type = "close" /\ r.session = s
      BY <1>3, <2>2 DEF Ends
    <3>2. pg[j].type = "closed"
      BY <1>3, <2>2 DEF Ends
    <3>3. IdOf(pg[j]) = r.id
      BY <3>1, <3>2 DEF IdOf
    <3>4. r.id # IdOf(m)
      BY <1>2, <1>3, <3>3 DEF Distinct
    <3>5. r \in pend2
      BY <3>4 DEF m
    <3> QED BY <3>1, <3>2, <3>5 DEF Ends
  <2> QED BY <2>1, <2>2
<1>4. ASSUME NEW k \in Nat, NEW s, Backed(pg, k + 1, s, pend, table, dr)
      PROVE  Backed(p, k, s, pend2, table, dr)
  <2>1. CASE table[s] # None \/ s \in dr
    BY <2>1 DEF Backed
  <2>2. CASE \E j \in DOMAIN pg : j > k + 1 /\ Ends(pg[j], pend, s)
    <3>1. PICK j \in DOMAIN pg : j > k + 1 /\ Ends(pg[j], pend, s)
      BY <2>2
    <3>2. j # 1 /\ j - 1 > k
      BY <1>2, <3>1
    <3>3. Ends(pg[j], pend2, s) /\ j - 1 \in DOMAIN p /\ p[j - 1] = pg[j]
      BY <1>2, <1>3, <3>1, <3>2
    <3> QED BY <3>2, <3>3 DEF Backed
  <2> QED BY <1>4, <2>1, <2>2 DEF Backed
<1>5. ASSUME NEW s \in live2 PROVE Backed(p, 0, s, pend2, table, dr)
  <2>1. CASE s \in live /\ ~Ends(m, pend, s)
    <3>1. Backed(pg, 0, s, pend, table, dr)
      BY <2>1 DEF HandlesSound
    <3>2. Backed(pg, 0 + 1, s, pend, table, dr)
      <4> SUFFICES ASSUME NEW j \in DOMAIN pg, Ends(pg[j], pend, s) PROVE j > 1
        BY <3>1 DEF Backed
      <4> QED BY <1>2, <2>1
    <3> QED BY <1>4, <3>2
  <2>2. CASE \E r \in pend : Opens(m, r) /\ r.session = s
    <3>1. Backed(pg, 0 + 1, s, pend, table, dr)
      BY <1>2, <2>2 DEF HandlesSound
    <3> QED BY <1>4, <3>1
  <2> QED BY <2>1, <2>2 DEF m
<1>6. ASSUME NEW k \in DOMAIN p, NEW r \in pend2, Opens(p[k], r)
      PROVE  Backed(p, k, r.session, pend2, table, dr)
  <2>1. k + 1 \in DOMAIN pg /\ Opens(pg[k + 1], r) /\ k \in Nat
    BY <1>2, <1>6
  <2>2. IdOf(pg[k + 1]) = r.id
    BY <2>1 DEF Opens, IdOf
  <2>3. r \in pend
    BY <2>1, <2>2 DEF Carried
  <2>4. Backed(pg, k + 1, r.session, pend, table, dr)
    BY <2>1, <2>3 DEF HandlesSound
  <2> QED BY <1>4, <2>1, <2>4
<1> QED BY <1>5, <1>6 DEF HandlesSound, p

\* The relay sends more messages: what leaves the table is given up or ended.
LEMMA MoreBacked ==
  ASSUME NEW pg \in Seq(PageMessage), NEW q \in Seq(PageMessage), NEW live \in SUBSET Sessions,
         NEW pend \in SUBSET PageRequest, NEW table, NEW dr,
         HandlesSound(live, pg, pend, table, dr),
         NEW table2, NEW dr2,
         \A s \in Sessions : table[s] # None \/ s \in dr =>
            \/ table2[s] # None \/ s \in dr2
            \/ \E k \in DOMAIN q : Ends(q[k], pend, s),
         \A k \in DOMAIN q, r \in pend : Opens(q[k], r) => table2[r.session] # None
  PROVE  HandlesSound(live, pg \o q, pend, table2, dr2)
<1>1. /\ Len(pg) \in Nat /\ Len(q) \in Nat
      /\ DOMAIN pg = 1 .. Len(pg) /\ DOMAIN q = 1 .. Len(q)
      /\ DOMAIN (pg \o q) = 1 .. Len(pg) + Len(q)
      /\ \A k \in 1 .. Len(pg) + Len(q) :
           (pg \o q)[k] = IF k <= Len(pg) THEN pg[k] ELSE q[k - Len(pg)]
  OBVIOUS
<1> DEFINE p == pg \o q
           n == Len(pg)
<1> HIDE DEF p, n
<1>2. /\ \A k \in DOMAIN p : \/ k \in DOMAIN pg /\ p[k] = pg[k]
                             \/ k - n \in DOMAIN q /\ p[k] = q[k - n]
      /\ \A k \in DOMAIN pg : k \in DOMAIN p /\ p[k] = pg[k] /\ k <= n
      /\ \A k \in DOMAIN q : k + n \in DOMAIN p /\ p[k + n] = q[k] /\ k + n > n
      /\ n \in Nat /\ DOMAIN pg \subseteq Nat /\ DOMAIN q \subseteq Nat
  BY <1>1 DEF p, n
<1>3. ASSUME NEW k \in Nat, k <= n, NEW s \in Sessions, Backed(pg, k, s, pend, table, dr)
      PROVE  Backed(p, k, s, pend, table2, dr2)
  <2>1. CASE \E j \in DOMAIN pg : j > k /\ Ends(pg[j], pend, s)
    BY <1>2, <2>1 DEF Backed
  <2>2. CASE table[s] # None \/ s \in dr
    <3>1. CASE table2[s] # None \/ s \in dr2
      BY <3>1 DEF Backed
    <3>2. CASE \E j \in DOMAIN q : Ends(q[j], pend, s)
      <4>1. PICK j \in DOMAIN q : Ends(q[j], pend, s)
        BY <3>2
      <4>2. j + n \in DOMAIN p /\ Ends(p[j + n], pend, s) /\ j + n > k
        BY <1>2, <1>3, <4>1
      <4> QED BY <4>2 DEF Backed
    <3> QED BY <2>2, <3>1, <3>2
  <2> QED BY <1>3, <2>1, <2>2 DEF Backed
<1>4. \A s \in live : Backed(p, 0, s, pend, table2, dr2)
  <2>1. \A s \in live : s \in Sessions /\ Backed(pg, 0, s, pend, table, dr)
    BY DEF HandlesSound
  <2>2. 0 \in Nat /\ 0 <= n
    BY <1>2
  <2> QED BY <1>3, <2>1, <2>2
<1>5. ASSUME NEW k \in DOMAIN p, NEW r \in pend, Opens(p[k], r)
      PROVE  Backed(p, k, r.session, pend, table2, dr2)
  <2>1. CASE k \in DOMAIN pg /\ p[k] = pg[k]
    <3>1. r.session \in Sessions
      <4>1. r \in Request /\ r.type = "open"
        BY <1>5 DEF PageRequest, Opens
      <4> QED BY <4>1, RequestFields
    <3>2. Backed(pg, k, r.session, pend, table, dr)
      BY <1>5, <2>1 DEF HandlesSound
    <3> QED BY <1>2, <1>3, <2>1, <3>1, <3>2
  <2>2. CASE k - n \in DOMAIN q /\ p[k] = q[k - n]
    BY <1>5, <2>2 DEF Backed
  <2> QED BY <1>2, <2>1, <2>2
<1> QED BY <1>4, <1>5 DEF HandlesSound, p

\* For the state.
HandlesInv == HandlesSound(Live, toPage, pending, sessions, dropped)

\* Notices that open nothing, and end what the table no longer has.
LEMMA ContinueBacked ==
  ASSUME NEW pg \in Seq(PageMessage), NEW live \in SUBSET Sessions,
         NEW pend \in SUBSET PageRequest, NEW table, NEW lost,
         HandlesSound(live, pg, pend, table, lost),
         NEW tc, NEW ts, NEW table2, NEW ro \in SUBSET Sessions, NEW dr \in SUBSET Sessions,
         Continue(pg, tc, ts, table2, ro, dr), sessions' = table2,
         \A s \in Sessions : table[s] # None \/ s \in lost => table2[s] # None \/ s \in dr
  PROVE  HandlesSound(live, toPage', pend, sessions', dropped')
<1>1. CASE tc = {} /\ ts = {}
  <2> DEFINE T == {Frame(s, "stopped") : s \in ro}
             m == Restarted(ro, dr)
  <2>1. Finish(pg, ro, dr) /\ dropped' = {}
    BY <1>1 DEF Continue, Finish
  <2>2. PICK frames \in SetToSeqs(T) : toPage' = pg \o frames \o <<m>>
    BY <2>1 DEF Finish
  <2>3. IsFiniteSet(T) /\ T \subseteq PageMessage /\ \A n \in T : n.type = "updated"
    <3>1. IsFiniteSet(T) /\ T \subseteq PageMessage
      BY FramesFinite
    <3>2. \A n \in T : n.type = "updated"
      BY DEF Frame
    <3>3. QED
      BY <3>1, <3>2
  <2>4. m \in PageMessage /\ m.type = "restarted" /\ m.dropped = dr
    BY NoticeTypesHold DEF Restarted
  <2> HIDE DEF T, m
  <2>5. frames \in Seq(PageMessage) /\ frames \in Seq(T)
    BY <2>3, EnumerationType
  <2>6. \A k \in DOMAIN frames : frames[k].type = "updated"
    BY <2>3, <2>5
  <2>7. HandlesSound(live, pg \o frames, pend, table2, dr)
    BY <2>5, <2>6, MoreBacked DEF Opens
  <2>8. pg \o frames \in Seq(PageMessage) /\ <<m>> \in Seq(PageMessage)
        /\ 1 \in DOMAIN <<m>> /\ \A k \in DOMAIN <<m>> : <<m>>[k] = m
    BY <2>4, <2>5, ConcatProperties
  <2>9. \A s \in dr : Ends(m, pend, s)
    BY <2>4 DEF Ends
  <2>10. \A r \in pend : ~Opens(m, r)
    BY <2>4 DEF Opens
  <2> DEFINE q == <<m>>
             p == pg \o frames
  <2>11. /\ q \in Seq(PageMessage) /\ p \in Seq(PageMessage)
         /\ HandlesSound(live, p, pend, table2, dr)
         /\ \A s \in Sessions : table2[s] # None \/ s \in dr =>
              \/ table2[s] # None \/ s \in {}
              \/ \E k \in DOMAIN q : Ends(q[k], pend, s)
         /\ \A k \in DOMAIN q, r \in pend : Opens(q[k], r) => table2[r.session] # None
    <3>1. \A s \in dr : \E k \in DOMAIN q : Ends(q[k], pend, s)
      BY <2>8, <2>9
    <3>2. \A k \in DOMAIN q, r \in pend : ~Opens(q[k], r)
      BY <2>8, <2>10
    <3> HIDE DEF q, p
    <3>3. /\ q \in Seq(PageMessage) /\ p \in Seq(PageMessage)
          /\ HandlesSound(live, p, pend, table2, dr)
      BY <2>7, <2>8 DEF q, p
    <3> QED BY <3>1, <3>2, <3>3
  <2> HIDE DEF q, p
  <2>12. HandlesSound(live, p \o q, pend, table2, {})
    BY <2>11, MoreBacked
  <2> QED BY <2>1, <2>2, <2>12 DEF p, q
<1>2. CASE ~(tc = {} /\ ts = {})
  <2>1. toPage' = pg /\ dropped' = dr
    BY <1>2 DEF Continue
  <2>2. pg \o <<>> = pg /\ <<>> \in Seq(PageMessage) /\ DOMAIN <<>> = {}
    OBVIOUS
  <2>3. HandlesSound(live, pg \o <<>>, pend, table2, dr)
    BY <2>2, MoreBacked
  <2> QED BY <2>1, <2>2, <2>3
<1> QED BY <1>1, <1>2

\* One more message for the page, which ends or opens what the table then says.
LEMMA ForwardBacked ==
  ASSUME NEW pg \in Seq(PageMessage), NEW live \in SUBSET Sessions,
         NEW pend \in SUBSET PageRequest, NEW table, NEW dr,
         HandlesSound(live, pg, pend, table, dr), NEW m \in PageMessage, NEW table2,
         \A s \in Sessions : table[s] # None => table2[s] # None \/ Ends(m, pend, s),
         \A r \in pend : Opens(m, r) => table2[r.session] # None
  PROVE  HandlesSound(live, Append(pg, m), pend, table2, dr)
<1>1. /\ <<m>> \in Seq(PageMessage) /\ Append(pg, m) = pg \o <<m>>
      /\ 1 \in DOMAIN <<m>> /\ \A k \in DOMAIN <<m>> : <<m>>[k] = m
  OBVIOUS
<1>2. \A s \in Sessions : Ends(m, pend, s) => \E k \in DOMAIN <<m>> : Ends(<<m>>[k], pend, s)
  BY <1>1
<1>3. \A k \in DOMAIN <<m>>, r \in pend : Opens(<<m>>[k], r) => table2[r.session] # None
  BY <1>1
<1> DEFINE q == <<m>>
<1>4. /\ q \in Seq(PageMessage) /\ Append(pg, m) = pg \o q
      /\ \A s \in Sessions : Ends(m, pend, s) => \E k \in DOMAIN q : Ends(q[k], pend, s)
      /\ \A k \in DOMAIN q, r \in pend : Opens(q[k], r) => table2[r.session] # None
  BY <1>1, <1>2, <1>3
<1> HIDE DEF q
<1>5. HandlesSound(live, pg \o q, pend, table2, dr)
  BY <1>4, MoreBacked
<1> QED BY <1>4, <1>5

\* The client's steps: a handle opens or ends as the message taken says.
LEMMA ClientBacks ==
  ASSUME ClientTypeOK, ChannelsTypeOK, RelayTypeOK, CallsInv, Asked, HandlesInv,
         UNCHANGED relayVars, ClientNext
  PROVE  HandlesInv'
<1>1. /\ toPage \in Seq(PageMessage) /\ UNCHANGED <<sessions, dropped>>
      /\ pending \in SUBSET PageRequest /\ Live \in SUBSET Sessions
      /\ Distinct(toPage) /\ Carried(toPage) \subseteq Ids(pending) /\ OneId(pending)
      /\ handle \in [Sessions -> HandleStates]
  BY DEF ClientTypeOK, ChannelsTypeOK, relayVars, Live, CallsInv, CallsOwed
<1>2. pending' \subseteq PageRequest
  BY ClientKeeps DEF ClientTypeOK
<1>3. /\ \A r \in pending : r.id # NoId
      /\ \A r \in pending' : r.id # NoId
  BY <1>1, <1>2 DEF PageRequest, PageIds, NoId
<1>4. CASE \/ \E c \in Compiles : CompileSource(c) \/ Release(c)
           \/ \E s \in Sessions, c \in Compiles : OpenCompiled(s, c) \/ OpenCircuit(s, c)
           \/ \E s \in Sessions : Close(s) \/ \E type \in OpTypes : SessionCall(s, type)
  <2>1. /\ pending \subseteq pending' /\ \A r \in pending' \ pending : r.id \notin Carried(toPage)
        /\ \A s \in Live' : s \in Live
        /\ toPage' = toPage
    BY <1>4, UserAsks
  <2>2. PICK live2, pend2 : live2 = Live' /\ pend2 = pending'
    OBVIOUS
  <2>3. HandlesSound(live2, toPage, pend2, sessions, dropped)
    BY <1>1, <1>3, <2>1, <2>2, StayBacked DEF HandlesInv
  <2> QED BY <1>1, <2>1, <2>2, <2>3 DEF HandlesInv
<1>5. CASE ReceiveReady \/ ReceiveRestarted \/ ReceiveFrame
  <2>1. /\ pending \subseteq pending' /\ \A r \in pending' \ pending : r.id \notin Carried(toPage)
        /\ \A s \in Live' :
             s \in Live /\ (Head(toPage).type = "restarted" => s \notin Head(toPage).dropped)
    BY <1>5, NoticeAsks
  <2>2. toPage # <<>> /\ toPage' = Tail(toPage) /\ Head(toPage).type # "closed"
    BY <1>5 DEF ReceiveReady, ReceiveRestarted, ReceiveFrame, TakeMessage
  <2>3. PICK live2, pend2 : live2 = Live' /\ pend2 = pending'
    OBVIOUS
  <2>4. /\ \A r \in pending : r \in pend2
        /\ \A r \in pend2 \ pending : r.id \notin Carried(toPage) /\ r.id # NoId
    BY <1>3, <2>1, <2>3
  <2>5. \A s \in live2 : s \in Live /\ ~Ends(Head(toPage), pending, s)
    BY <2>1, <2>2, <2>3 DEF Ends
  <2>6. HandlesSound(live2, Tail(toPage), pend2, sessions, dropped)
    BY <1>1, <1>3, <2>2, <2>4, <2>5, TakenBacked DEF HandlesInv
  <2> QED BY <1>1, <2>2, <2>3, <2>6 DEF HandlesInv
<1>6. CASE ReceiveReply
  <2>1. PICK request \in pending :
          /\ request.id = Head(toPage).id
          /\ pending \ {request} \subseteq pending'
          /\ \A r \in pending' \ pending : r.id \notin Carried(toPage)
          /\ \A s \in Live' :
               \/ s \in Live /\ ~(request.type = "close" /\ request.session = s)
               \/ Head(toPage).type = "opened" /\ request.type = "open" /\ request.session = s
    BY <1>6, ReplyAsks
  <2>2. /\ toPage # <<>> /\ toPage' = Tail(toPage)
        /\ Head(toPage).type \notin {"ready", "restarted"}
    BY <1>6 DEF ReceiveReply, TakeMessage
  <2>3. PICK live2, pend2 : live2 = Live' /\ pend2 = pending'
    OBVIOUS
  <2>4. IdOf(Head(toPage)) = request.id /\ \A r \in pending : r.id = request.id => r = request
    BY <1>1, <2>1, <2>2 DEF IdOf, OneId
  <2>5. /\ \A r \in pending : r \in pend2 \/ r.id = IdOf(Head(toPage))
        /\ \A r \in pend2 \ pending : r.id \notin Carried(toPage) /\ r.id # NoId
    BY <1>3, <2>1, <2>3, <2>4
  <2>6. \A s \in live2 : \/ s \in Live /\ ~Ends(Head(toPage), pending, s)
                         \/ \E r \in pending : Opens(Head(toPage), r) /\ r.session = s
    <3> TAKE s \in live2
    <3>1. CASE s \in Live /\ ~(request.type = "close" /\ request.session = s)
      BY <2>1, <2>2, <2>4, <3>1 DEF Ends
    <3>2. CASE Head(toPage).type = "opened" /\ request.type = "open" /\ request.session = s
      BY <2>1, <3>2 DEF Opens
    <3> QED BY <2>1, <2>3, <3>1, <3>2
  <2>7. HandlesSound(live2, Tail(toPage), pend2, sessions, dropped)
    BY <1>1, <1>3, <2>2, <2>5, <2>6, TakenBacked DEF HandlesInv
  <2> QED BY <1>1, <2>2, <2>3, <2>7 DEF HandlesInv
<1>7. CASE IframeLoads
  <2>1. toPage' = Append(toPage, Ready) /\ UNCHANGED <<pending, handle>>
    BY <1>7 DEF IframeLoads
  <2>2. Ready \in PageMessage /\ \A r \in pending : ~Opens(Ready, r)
    BY NoticeTypesHold DEF Ready, Opens, PageMessage
  <2>3. HandlesSound(Live, Append(toPage, Ready), pending, sessions, dropped)
    BY <1>1, <2>2, ForwardBacked DEF HandlesInv
  <2> QED BY <1>1, <2>1, <2>3 DEF HandlesInv, Live
<1>8. CASE MarkUnavailable
  <2>1. /\ pending' = {} /\ toPage' = toPage /\ status # "ready" /\ disposed' = FALSE
        /\ \A s \in Sessions : handle'[s] \in {handle[s], "failed"}
    BY <1>8 DEF MarkUnavailable, FailAll, channels
  <2>2. Carried(toPage) = {}
    BY <2>1 DEF CallsInv, NotBegun
  <2>3. \A s \in Live' : s \in Live
    BY <2>1 DEF Live
  <2>4. ASSUME NEW k \in DOMAIN toPage, NEW r \in pending, toPage[k].type = "closed",
               toPage[k].id = r.id
        PROVE  FALSE
    BY <1>3, <2>2, <2>4 DEF Carried, IdOf
  <2>5. \A k \in DOMAIN toPage : \A s : Ends(toPage[k], pending, s) => Ends(toPage[k], {}, s)
    BY <2>4 DEF Ends
  <2>6. \A s \in Live : Backed(toPage, 0, s, pending, sessions, dropped)
                          => Backed(toPage, 0, s, {}, sessions, dropped)
    BY <2>5 DEF Backed
  <2> QED BY <1>1, <2>1, <2>3, <2>6 DEF HandlesInv, HandlesSound
<1> QED BY <1>4, <1>5, <1>6, <1>7, <1>8 DEF ClientNext

\* A reply of the worker is passed on, and the table with it.
LEMMA ReplyBacks ==
  ASSUME ClientTypeOK, RelaySide, WorkerSide, CallsInv, Asked, HandlesInv, UNCHANGED clientVars,
         ForwardReply
  PROVE  HandlesInv'
<1> DEFINE m == Head(fromWorker)
<1>1. /\ toPage \in Seq(PageMessage) /\ m \in Reply /\ m \in PageMessage /\ m.id \in PageIds
      /\ pending \in SUBSET PageRequest /\ Live \in SUBSET Sessions /\ OneId(pending)
      /\ sessions \in [Sessions -> Compiles \cup {None}] /\ inFlight \subseteq pending
  <2>1. fromWorker \in Seq(Reply) /\ fromWorker # <<>> /\ m.id \in PageIds
    BY DEF WorkerSide, ChannelsTypeOK, ForwardReply
  <2>2. m \in Reply
    BY <2>1, HeadTailProperties
  <2> QED BY <2>1, <2>2 DEF ClientTypeOK, WorkerSide, RelaySide, RelayTypeOK, ChannelsTypeOK,
          PageMessage, Live, CallsInv, CallsOwed, Asked, Awaited, EnRoute
<1>2. UNCHANGED <<Live, pending, dropped>>
  BY DEF clientVars, ForwardReply, Live
<1> HIDE DEF m
<1>3. CASE \E request \in inFlight :
             request.id = m.id /\ Remember(request, m) /\ toPage' = Append(toPage, m)
  <2>1. PICK request \in inFlight :
          request.id = m.id /\ Remember(request, m) /\ toPage' = Append(toPage, m)
    BY <1>3
  <2>2. request \in pending /\ request \in Request
        /\ \A r \in pending : r.id = m.id => r = request
    BY <1>1, <2>1 DEF OneId, PageRequest
  <2>3. /\ request.type \in {"open", "close"} => request.session \in Sessions
        /\ request.type = "open" => request.compile # None
    BY <2>2, RequestFields DEF Asked, OpensSound
  <2>4. \A s \in Sessions : sessions[s] # None => sessions'[s] # None \/ Ends(m, pending, s)
    <3> SUFFICES ASSUME NEW s \in Sessions, sessions[s] # None, sessions'[s] = None
                 PROVE  Ends(m, pending, s)
      OBVIOUS
    <3>1. CASE request.type = "open" /\ m.type = "opened"
      <4>1. sessions' = [sessions EXCEPT ![request.session] = request.compile]
        BY <2>1, <3>1 DEF Remember
      <4> QED BY <1>1, <2>3, <3>1, <4>1
    <3>2. CASE request.type = "close" /\ m.type = "closed"
      <4>1. sessions' = [sessions EXCEPT ![request.session] = None]
        BY <2>1, <3>2 DEF Remember
      <4>2. request.session = s
        BY <1>1, <2>3, <3>2, <4>1
      <4> QED BY <2>1, <2>2, <3>2, <4>2 DEF Ends
    <3>3. CASE ~(request.type = "open" /\ m.type = "opened")
               /\ ~(request.type = "close" /\ m.type = "closed")
      BY <2>1, <3>3 DEF Remember
    <3> QED BY <3>1, <3>2, <3>3
  <2>5. \A r \in pending : Opens(m, r) => sessions'[r.session] # None
    <3> SUFFICES ASSUME NEW r \in pending, Opens(m, r) PROVE sessions'[r.session] # None
      OBVIOUS
    <3>1. r = request /\ request.type = "open" /\ m.type = "opened"
      BY <2>2 DEF Opens
    <3>2. sessions' = [sessions EXCEPT ![request.session] = request.compile]
      BY <2>1, <3>1 DEF Remember
    <3> QED BY <1>1, <2>3, <3>1, <3>2
  <2>6. PICK table : table = sessions'
    OBVIOUS
  <2>7. HandlesSound(Live, Append(toPage, m), pending, table, dropped)
    BY <1>1, <2>4, <2>5, <2>6, ForwardBacked DEF HandlesInv
  <2> QED BY <1>2, <2>1, <2>6, <2>7 DEF HandlesInv
<1>4. CASE UNCHANGED <<sessions, toPage>>
  BY <1>2, <1>4 DEF HandlesInv
<1> QED BY <1>3, <1>4 DEF ForwardReply, m

\* The watchdog fires, a replay is answered or times out.
LEMMA RestartBacks ==
  ASSUME ClientTypeOK, RelaySide, WorkerSide, ReplaySound, HandlesInv, UNCHANGED clientVars,
         OnSilence \/ (Replayed /\ UNCHANGED workerVars) \/ ReplayTimeout
  PROVE  HandlesInv'
<1>1. /\ toPage \in Seq(PageMessage) /\ pending \in SUBSET PageRequest /\ Live \in SUBSET Sessions
      /\ sessions \in [Sessions -> Compiles \cup {None}]
      /\ reopened \in SUBSET Sessions /\ dropped \in SUBSET Sessions
      /\ UNCHANGED <<Live, pending>> /\ {} \in SUBSET Sessions
  BY DEF ClientTypeOK, WorkerSide, ChannelsTypeOK, RelaySide, RelayTypeOK, Live, clientVars
<1>2. CASE OnSilence
  <2> DEFINE ts == OpenSessions(sessions)
  <2>1. PICK order \in OldestFirst(inFlight) :
          Continue(toPage \o [k \in DOMAIN order |-> Failed(order[k])],
                   compiles, ts, sessions, {}, {})
    BY <1>2 DEF OnSilence
  <2> DEFINE fails == [k \in DOMAIN order |-> Failed(order[k])]
  <2>2. fails \in Seq(PageMessage) /\ toPage \o fails \in Seq(PageMessage)
    <3>1. inFlight \in SUBSET PageRequest /\ IsFiniteSet(inFlight)
      BY DEF RelaySide, RelayTypeOK
    <3>2. fails \in Seq(PageMessage)
      BY <3>1, FailuresCarry
    <3> HIDE DEF fails
    <3> QED BY <1>1, <3>2, ConcatProperties
  <2>3. \A k \in DOMAIN fails, r \in pending : ~Opens(fails[k], r)
    BY DEF Opens, Failed
  <2>4. dropped = {} /\ sessions' = sessions
    BY <1>2 DEF OnSilence, RelaySide, WatchdogArmed, ReplaySound
  <2>5. Continue(toPage \o fails, compiles, ts, sessions, {}, {})
    BY <2>1
  <2> DEFINE before == toPage \o fails
             nil == {}
  <2> HIDE DEF fails, ts
  <2>6. HandlesSound(Live, toPage \o fails, pending, sessions, {})
    BY <1>1, <2>2, <2>3, <2>4, MoreBacked DEF HandlesInv
  <2>7. /\ before \in Seq(PageMessage) /\ nil \in SUBSET Sessions
        /\ HandlesSound(Live, before, pending, sessions, nil)
        /\ Continue(before, compiles, ts, sessions, nil, nil)
    BY <1>1, <2>2, <2>5, <2>6
  <2> HIDE DEF before, nil
  <2>8. HandlesSound(Live, toPage', pending, sessions', dropped')
    BY <1>1, <2>4, <2>7, ContinueBacked
  <2> QED BY <1>1, <2>8 DEF HandlesInv
<1>3. ASSUME NEW tc, NEW ts, NEW table, NEW ro \in SUBSET Sessions, NEW dr \in SUBSET Sessions,
             Continue(toPage, tc, ts, table, ro, dr), sessions' = table,
             \A s \in Sessions : sessions[s] # None \/ s \in dropped => table[s] # None \/ s \in dr
      PROVE  HandlesInv'
  <2>1. HandlesSound(Live, toPage', pending, sessions', dropped')
    BY <1>1, <1>3, ContinueBacked DEF HandlesInv
  <2> QED BY <1>1, <2>1 DEF HandlesInv
<1>4. CASE Replayed /\ UNCHANGED workerVars
  <2> DEFINE lost == Head(fromWorker).type # "opened"
             s == replaying.session
             ro == IF lost THEN reopened ELSE reopened \cup {s}
             dr == IF lost THEN dropped \cup {s} ELSE dropped
  <2>1. replaying \in ReplayRequest
    BY <1>4, ReplayAnswered
  <2>2. CASE /\ Continue(toPage, todoCompiles, todoSessions, sessions, reopened, dropped)
             /\ sessions' = sessions
    BY <1>1, <1>3, <2>2
  <2>3. CASE /\ replaying.type = "open"
             /\ sessions' = IF lost THEN [sessions EXCEPT ![s] = None] ELSE sessions
             /\ Continue(toPage, todoCompiles, todoSessions, sessions', ro, dr)
    <3>1. s \in Sessions
      BY <2>1, <2>3, ReplayFields
    <3>2. PICK table : table = sessions'
      OBVIOUS
    <3>3. \A t \in Sessions : sessions[t] # None \/ t \in dropped => table[t] # None \/ t \in dr
      BY <1>1, <2>3, <3>1, <3>2
    <3>4. ro \in SUBSET Sessions /\ dr \in SUBSET Sessions
      BY <1>1, <3>1
    <3>5. Continue(toPage, todoCompiles, todoSessions, table, ro, dr)
      BY <2>3, <3>2
    <3> HIDE DEF ro, dr
    <3> QED BY <1>3, <3>2, <3>3, <3>4, <3>5
  <2> QED BY <1>4, <2>2, <2>3 DEF Replayed
<1>5. CASE ReplayTimeout
  <2> DEFINE s == replaying.session
             dr == dropped \cup ({s} \ {None})
             ts == OpenSessions(sessions')
  <2>1. /\ replaying \in ReplayRequest
        /\ sessions' = IF replaying.type = "open" THEN [sessions EXCEPT ![s] = None] ELSE sessions
        /\ Continue(toPage, compiles', ts, sessions', {}, dr)
    BY <1>5 DEF ReplayTimeout, RelaySide, RelayTypeOK
  <2>2. dr \in SUBSET Sessions /\ (replaying.type = "open" => s \in Sessions /\ s # None)
    BY <1>1, <2>1, ReplayFields, ProtocolAssumption
  <2>3. PICK table, c, t : table = sessions' /\ c = compiles' /\ t = ts
    OBVIOUS
  <2>4. \A r \in Sessions : sessions[r] # None \/ r \in dropped => table[r] # None \/ r \in dr
    BY <1>1, <2>1, <2>2, <2>3
  <2> HIDE DEF dr, ts
  <2>5. Continue(toPage, c, t, table, {}, dr)
    BY <2>1, <2>3
  <2> QED BY <1>1, <1>3, <2>2, <2>3, <2>4, <2>5
<1> QED BY <1>2, <1>4, <1>5

\* Every step keeps the live handles backed.
LEMMA HandlesNext ==
  ASSUME IInv, ReplaySound, CallsInv, Asked, HandlesInv, [Next]_vars
  PROVE  HandlesInv'
<1>1. ClientTypeOK /\ ChannelsTypeOK /\ RelayTypeOK /\ RelaySide /\ WorkerSide
  BY DEF IInv, TypeOK, RelaySide, WorkerSide
<1>2. CASE ClientStep
  BY <1>1, <1>2, ClientBacks DEF ClientStep
<1>3. CASE UNCHANGED <<toPage, pending, sessions, dropped, handle>>
  BY <1>3 DEF HandlesInv, Live
<1>4. CASE RelayStep
  <2>1. /\ UNCHANGED clientVars /\ UNCHANGED workerVars
        /\ (Receive \/ Progressed \/ ForwardReply \/ ForwardFrame \/ Replayed)
    BY <1>4 DEF RelayStep
  <2>2. CASE Receive \/ Progressed
    BY <1>3, <2>1, <2>2 DEF Receive, Progressed, clientVars
  <2>3. CASE ForwardFrame
    <3> DEFINE m == Head(fromWorker)
    <3>1. /\ m.type = "updated" /\ toPage' = Append(toPage, m) /\ fromWorker # <<>>
          /\ UNCHANGED <<pending, sessions, dropped, handle>>
      BY <2>1, <2>3 DEF ForwardFrame, clientVars
    <3>2. m \in PageMessage /\ toPage \in Seq(PageMessage) /\ pending \in SUBSET PageRequest
          /\ Live \in SUBSET Sessions
      BY <1>1, <3>1, HeadTailProperties DEF ChannelsTypeOK, PageMessage, ClientTypeOK, Live
    <3>3. \A r \in pending : ~Opens(m, r)
      BY <3>1 DEF Opens
    <3> HIDE DEF m
    <3>4. HandlesSound(Live, Append(toPage, m), pending, sessions, dropped)
      BY <3>2, <3>3, ForwardBacked DEF HandlesInv
    <3> QED BY <3>1, <3>4 DEF HandlesInv, Live
  <2> QED BY <1>1, <2>1, <2>2, <2>3, ReplyBacks, RestartBacks
<1>5. CASE RestartStep
  BY <1>1, <1>5, RestartBacks DEF RestartStep
<1>6. CASE WorkerStep \/ UNCHANGED vars
  <2>1. UNCHANGED clientVars /\ UNCHANGED relayVars /\ UNCHANGED toPage
    BY <1>6 DEF WorkerStep, WorkerNext, Take, Answer, Heartbeat, Hang, PushFrame, StepThrows,
                channels, vars
  <2> QED BY <1>3, <2>1 DEF clientVars, relayVars
<1>7. CASE DisposeStep
  <2>1. pending' = {} /\ \A s \in Sessions : handle'[s] \notin {"open", "restarted"}
    BY <1>7 DEF DisposeStep, Dispose, FailAll, Live
  <2> QED BY <2>1 DEF HandlesInv, HandlesSound, Live
<1> QED BY <1>2, <1>4, <1>5, <1>6, <1>7 DEF Next

\* At the start there are no handles.
LEMMA HandlesInit == ASSUME Init PROVE Asked /\ HandlesInv
<1>1. /\ pending = {} /\ queued = <<>> /\ toRelay = <<>> /\ held = <<>> /\ inFlight = {}
      /\ handle = [s \in Sessions |-> "none"]
  BY DEF Init, ClientInit, RelayInit, Empty
<1>2. Asked
  BY <1>1 DEF Asked, Awaited, EnRoute, Range, OpensSound, CompilesSound, OwnersWait
<1> QED BY <1>1, <1>2 DEF HandlesInv, HandlesSound, Live

\* What the page has asked for fits the state of its handles, and whatever is
\* open or about to open is in the table, or about to end.
THEOREM HandlesInvariant == Spec => [](IInv /\ ReplaySound /\ CallsInv /\ Asked /\ HandlesInv)
<1> DEFINE All == IInv /\ ReplaySound /\ CallsInv /\ Asked /\ HandlesInv
<1>1. Init => All
  BY InitHolds, ReplayInit, CallsInit, HandlesInit
<1>2. All /\ [Next]_vars => All'
  BY NextKeeps, ReplayNext, CallsNext, AskedNext, HandlesNext
<1> QED BY <1>1, <1>2, PTL DEF Spec

\* A handle the page shows as alive (simulation-client.ts) has its session in
\* the relay's replay table, or the message that ends it is coming: across any
\* interleaving of opens, closes, releases, hangs and restarts.
THEOREM HandlesAlwaysBacked == Spec => []HandlesAreBacked
<1>1. HandlesInv => HandlesAreBacked
  <2> SUFFICES ASSUME HandlesInv, NEW s \in Live, sessions[s] = None PROVE EndComing(s)
    BY DEF HandlesAreBacked
  <2>1. Backed(toPage, 0, s, pending, sessions, dropped)
    BY DEF HandlesInv, HandlesSound
  <2> QED BY <2>1 DEF Backed, Ends, EndComing
<1> QED BY <1>1, HandlesInvariant, PTL

-----------------------------------------------------------------------------
(* The table and the handles *)

\* A session of the table has been opened, once: no open of it is on its way
\* to the worker, and its handle has left "opening" unless the reply is coming.
TableSound ==
  \A s \in Sessions : sessions[s] # None =>
     /\ handle[s] # "none"
     /\ \A r \in EnRoute(queued, toRelay, held, inFlight) : ~(r.type = "open" /\ r.session = s)
     /\ handle[s] = "opening" => \E r \in pending : r.type = "open" /\ r.session = s

\* What is asked of a session, but to open it, is asked of one that was opened.
AfterOpen == {"close"} \cup SessionOps
AskedOfOpened ==
  \A r \in pending : r.type \in AfterOpen => handle[r.session] \notin {"none", "opening"}

\* What the client sends is on its way besides what was.
LEMMA SendRoutes ==
  ASSUME ClientTypeOK, ChannelsTypeOK, NEW rs \in Seq(PageRequest), NEW others,
         Send(rs, others), UNCHANGED relayVars
  PROVE  /\ EnRoute(queued', toRelay', held', inFlight')
              \subseteq EnRoute(queued, toRelay, held, inFlight) \cup Range(rs)
         /\ pending' = others \cup Range(rs)
<1>1. queued \in Seq(PageRequest) /\ toRelay \in Seq(PageRequest)
  BY DEF ClientTypeOK, ChannelsTypeOK
<1>2. Range(queued \o rs) = Range(queued) \cup Range(rs)
      /\ Range(toRelay \o rs) = Range(toRelay) \cup Range(rs)
  BY <1>1, RangeMoves
<1>3. pending' = others \cup Range(rs) /\ held' = held /\ inFlight' = inFlight
  BY DEF Send, relayVars, Range
<1>4. \/ toRelay' = toRelay \o rs /\ queued' = queued
      \/ queued' = queued \o rs /\ toRelay' = toRelay
  BY DEF Send
<1> QED BY <1>2, <1>3, <1>4 DEF EnRoute

\* The client asks for fresh, what it sends opens what is not in the table and
\* closes what is open.
LEMMA StaysFitting ==
  ASSUME ClientTypeOK, TableSound, AskedOfOpened, UNCHANGED relayVars,
         NEW fresh \in SUBSET PageRequest,
         EnRoute(queued', toRelay', held', inFlight')
           \subseteq EnRoute(queued, toRelay, held, inFlight) \cup fresh,
         pending' \subseteq pending \cup fresh,
         \A s \in Sessions : handle[s] # "none" => handle'[s] # "none",
         \A s \in Sessions : handle'[s] = "opening" => handle[s] \in {"none", "opening"},
         \A r \in fresh : r.type = "open" => sessions[r.session] = None,
         \A r \in fresh : r.type \in AfterOpen =>
            handle[r.session] \notin {"none", "opening"},
         \A r \in pending \ pending' : r.type = "open" => handle'[r.session] # "opening"
  PROVE  TableSound' /\ AskedOfOpened'
<1>1. sessions' = sessions
  BY DEF relayVars
<1>2. \A r \in pending \cup fresh : r.type \in AfterOpen \cup {"open"} =>
        r.session \in Sessions
  BY RequestFields DEF ClientTypeOK, PageRequest, AfterOpen, SessionOps
<1>3. AskedOfOpened'
  BY <1>2 DEF AskedOfOpened
<1>4. ASSUME NEW s \in Sessions, sessions[s] # None
      PROVE  /\ handle'[s] # "none"
             /\ \A r \in EnRoute(queued', toRelay', held', inFlight') :
                  ~(r.type = "open" /\ r.session = s)
             /\ handle'[s] = "opening" => \E r \in pending' : r.type = "open" /\ r.session = s
  BY <1>4 DEF TableSound
<1> QED BY <1>1, <1>3, <1>4 DEF TableSound

\* The user's calls.
LEMMA UserFits ==
  ASSUME ClientTypeOK, ChannelsTypeOK, TableSound, AskedOfOpened, UNCHANGED relayVars,
         \/ \E c \in Compiles : CompileSource(c) \/ Release(c)
         \/ \E s \in Sessions, c \in Compiles : OpenCompiled(s, c) \/ OpenCircuit(s, c)
         \/ \E s \in Sessions : Close(s) \/ \E type \in OpTypes : SessionCall(s, type)
  PROVE  TableSound' /\ AskedOfOpened'
<1>1. /\ used \in Nat /\ handle \in [Sessions -> HandleStates] /\ compiled \subseteq Compiles
      /\ pending \in SUBSET PageRequest
  BY DEF ClientTypeOK
<1>2. ASSUME NEW n \in PageRequest, Call(n),
             \A s \in Sessions : handle'[s] = handle[s]
                \/ (handle[s] = "none" /\ handle'[s] = "opening")
                \/ (s \in Live /\ handle'[s] = "open"),
             n.type = "open" => handle[n.session] = "none",
             n.type \in AfterOpen => n.session \in Live
      PROVE  TableSound' /\ AskedOfOpened'
  <2>1. <<n>> \in Seq(PageRequest) /\ Range(<<n>>) = {n} /\ Send(<<n>>, pending)
    BY <1>2 DEF Call, Range
  <2>2. /\ EnRoute(queued', toRelay', held', inFlight')
             \subseteq EnRoute(queued, toRelay, held, inFlight) \cup {n}
        /\ pending' = pending \cup {n}
    BY <2>1, SendRoutes
  <2>3. /\ n.type = "open" => sessions[n.session] = None
        /\ n.type \in AfterOpen => handle[n.session] \notin {"none", "opening"}
    <3>1. n \in Request
      BY DEF PageRequest
    <3> QED BY <1>2, <3>1, RequestFields DEF TableSound, Live
  <2>4. /\ \A s \in Sessions : handle[s] # "none" => handle'[s] # "none"
        /\ \A s \in Sessions : handle'[s] = "opening" => handle[s] \in {"none", "opening"}
    BY <1>2
  <2>5. PICK fresh \in SUBSET PageRequest : fresh = {n}
    OBVIOUS
  <2> QED BY <2>2, <2>3, <2>4, <2>5, StaysFitting
<1>3. CASE \E c \in Compiles : CompileSource(c) \/ Release(c)
  <2>1. PICK c \in Compiles : CompileSource(c) \/ Release(c)
    BY <1>3
  <2>2. PICK n \in {CompileRequest(used + 1, c), ReleaseRequest(used + 1, c)} : Call(n)
    BY <2>1 DEF CompileSource, Release
  <2>3. n \in PageRequest /\ n.type \in {"compile", "release"} /\ handle' = handle
    <3>1. n \in PageRequest /\ n.type \in {"compile", "release"}
      BY <1>1, <2>2, ProtocolAssumption
         DEF CompileRequest, ReleaseRequest, PageRequest, Request, RequestTypes, PageIds
    <3> QED BY <2>1, <3>1 DEF CompileSource, Release
  <2> QED BY <1>2, <2>2, <2>3 DEF AfterOpen, SessionOps
<1>4. CASE \E s \in Sessions, c \in Compiles : OpenCompiled(s, c) \/ OpenCircuit(s, c)
  <2>1. PICK s \in Sessions, c \in Compiles : OpenCompiled(s, c) \/ OpenCircuit(s, c)
    BY <1>4
  <2>2. PICK n \in {CompileRequest(used + 1, c), OpenRequest(used + 1, s, c)} : Call(n)
    BY <2>1 DEF OpenCompiled, OpenCircuit
  <2>3. n \in PageRequest /\ n.type \in {"compile", "open"} /\ (n.type = "open" => n.session = s)
    <3>1. CASE n = CompileRequest(used + 1, c)
      BY <1>1, <3>1, RequestTypesHold DEF CompileRequest
    <3>2. CASE n = OpenRequest(used + 1, s, c)
      BY <1>1, <3>2, RequestTypesHold DEF OpenRequest
    <3> QED BY <2>2, <3>1, <3>2
  <2>4. handle' = [handle EXCEPT ![s] = "opening"] /\ handle[s] = "none"
    BY <2>1 DEF OpenCompiled, OpenCircuit
  <2>5. \A t \in Sessions : handle'[t] = handle[t] \/ (handle[t] = "none" /\ handle'[t] = "opening")
    BY <1>1, <2>4
  <2> QED BY <1>2, <2>2, <2>3, <2>4, <2>5 DEF AfterOpen, SessionOps
<1>5. CASE \E s \in Sessions : Close(s) \/ \E type \in OpTypes : SessionCall(s, type)
  <2>1. PICK s \in Sessions : Close(s) \/ \E type \in OpTypes : SessionCall(s, type)
    BY <1>5
  <2>2. PICK type \in OpTypes \cup {"close"} :
          /\ s \in Live /\ Call(OpRequest(used + 1, type, s))
          /\ handle' \in {handle, [handle EXCEPT ![s] = "open"]}
    BY <2>1 DEF Close, SessionCall
  <2> DEFINE n == OpRequest(used + 1, type, s)
  <2>3. n \in PageRequest /\ n.type # "open" /\ n.session = s
    <3>1. type \in SessionOps \cup {"close"}
      BY <2>2, ProtocolAssumption
    <3>2. n \in PageRequest
      BY <1>1, <3>1, ProtocolAssumption
         DEF OpRequest, PageRequest, Request, RequestTypes, SessionOps, PageIds
    <3> QED BY <3>1, <3>2 DEF OpRequest, SessionOps
  <2>4. \A t \in Sessions : handle'[t] = handle[t] \/ (t \in Live /\ handle'[t] = "open")
    BY <1>1, <2>2
  <2>5. Call(n)
    BY <2>2
  <2> HIDE DEF n
  <2> QED BY <1>2, <2>2, <2>3, <2>4, <2>5
<1> QED BY <1>3, <1>4, <1>5

\* The client's steps.
LEMMA ClientFits ==
  ASSUME ClientTypeOK, ChannelsTypeOK, RelayTypeOK, CallsInv, Asked, TableSound, AskedOfOpened,
         UNCHANGED relayVars, ClientNext
  PROVE  TableSound' /\ AskedOfOpened'
<1>1. /\ handle \in [Sessions -> HandleStates] /\ pending \in SUBSET PageRequest
      /\ held' = held /\ inFlight' = inFlight
      /\ queued \in Seq(PageRequest) /\ toRelay \in Seq(PageRequest)
  BY DEF ClientTypeOK, ChannelsTypeOK, relayVars
<1>2. ASSUME NEW rs \in Seq(PageRequest), NEW others \in SUBSET pending, Send(rs, others),
             \A s \in Sessions : handle[s] # "none" => handle'[s] # "none",
             \A s \in Sessions : handle'[s] = "opening" => handle[s] = "opening",
             \A k \in DOMAIN rs : rs[k].type \in {"open", "release"} /\
                (rs[k].type = "open" => sessions[rs[k].session] = None),
             \A r \in pending \ others : r.type = "open" => handle'[r.session] # "opening"
      PROVE  TableSound' /\ AskedOfOpened'
  <2>1. PICK fresh : fresh = Range(rs)
    OBVIOUS
  <2>2. fresh \in SUBSET PageRequest /\ \A r \in fresh : \E k \in DOMAIN rs : r = rs[k]
    BY <2>1 DEF Range
  <2>3. /\ EnRoute(queued', toRelay', held', inFlight')
             \subseteq EnRoute(queued, toRelay, held, inFlight) \cup fresh
        /\ pending' = others \cup fresh
    BY <1>2, <2>1, SendRoutes
  <2>4. /\ \A r \in fresh : r.type \in {"open", "release"}
        /\ \A r \in fresh : r.type = "open" => sessions[r.session] = None
        /\ \A r \in pending \ pending' : r.type = "open" => handle'[r.session] # "opening"
    BY <1>2, <2>2, <2>3
  <2>5. \A r \in fresh : r.type \notin AfterOpen
    BY <2>4 DEF AfterOpen, SessionOps
  <2> QED BY <1>2, <2>2, <2>3, <2>4, <2>5, StaysFitting
<1>3. ASSUME EnRoute(queued', toRelay', held', inFlight')
               \subseteq EnRoute(queued, toRelay, held, inFlight),
             pending' \subseteq pending,
             \A s \in Sessions : handle[s] # "none" => handle'[s] # "none",
             \A s \in Sessions : handle'[s] = "opening" => handle[s] = "opening",
             pending' = pending \/ \A s \in Sessions : handle'[s] # "opening"
      PROVE  TableSound' /\ AskedOfOpened'
  <2>1. PICK fresh \in SUBSET PageRequest : fresh = {}
    OBVIOUS
  <2>2. \A r \in pending : r.type = "open" => r.session \in Sessions
    BY <1>1, RequestFields DEF PageRequest
  <2> QED BY <1>3, <2>1, <2>2, StaysFitting
<1>4. CASE ReceiveReady
  <2>1. /\ queued' = <<>> /\ toRelay' = toRelay \o queued /\ UNCHANGED <<pending, handle>>
    BY <1>4 DEF ReceiveReady
  <2>2. Range(toRelay \o queued) = Range(toRelay) \cup Range(queued)
    BY <1>1, RangeMoves
  <2>3. EnRoute(queued', toRelay', held', inFlight')
          \subseteq EnRoute(queued, toRelay, held, inFlight)
    BY <1>1, <2>1, <2>2 DEF EnRoute, Range
  <2> QED BY <1>3, <2>1, <2>3
<1>5. CASE ReceiveFrame \/ IframeLoads
  <2>1. UNCHANGED <<pending, queued, handle, toRelay>>
    BY <1>5 DEF ReceiveFrame, IframeLoads
  <2> QED BY <1>1, <1>3, <2>1
<1>6. CASE MarkUnavailable
  <2>1. /\ pending' = {} /\ queued' = <<>> /\ toRelay' = toRelay /\ disposed' = FALSE
        /\ \A s \in Sessions : handle'[s] = IF handle[s] = "opening" THEN "failed" ELSE handle[s]
    BY <1>6 DEF MarkUnavailable, FailAll, channels
  <2>2. EnRoute(queued', toRelay', held', inFlight')
          \subseteq EnRoute(queued, toRelay, held, inFlight)
    BY <1>1, <2>1 DEF EnRoute, Range
  <2> QED BY <1>3, <2>1, <2>2
<1>7. CASE ReceiveRestarted
  <2> DEFINE gone == Head(toPage).dropped \cap Live
  <2>1. /\ End(gone, pending)
        /\ \A s \in Sessions : handle'[s] \in {handle[s], "closed", "restarted"}
    BY <1>7 DEF ReceiveRestarted
  <2>2. gone \in SUBSET Sessions
    BY DEF Live
  <2> HIDE DEF gone
  <2>3. PICK rs \in Seq(PageRequest) : Send(rs, pending) /\ Frees(rs, gone)
    BY <1>1, <2>1, <2>2, EndKeeps
  <2> QED BY <1>2, <2>1, <2>3 DEF Frees
<1>8. CASE ReceiveReply
  <2> DEFINE m == Head(toPage)
  <2>1. PICK request \in pending :
          CASE request.type = "compile" -> SettleCompile(request, m.type = "compiled")
            [] request.type = "open"    -> SettleOpen(request, m.type = "opened")
            [] request.type = "close"   -> SettleClose(request)
            [] OTHER                    -> SettleOther(request, m)
    <3>1. m.id \in Ids(pending)
      <4>1. toPage \in Seq(PageMessage) /\ toPage # <<>> /\ IdOf(m) = m.id /\ m.id # NoId
        BY <1>8 DEF ReceiveReply, TakeMessage, ChannelsTypeOK, IdOf
      <4>2. Distinct(toPage) /\ Carried(toPage) \subseteq Ids(pending)
        BY DEF CallsInv, CallsOwed
      <4> QED BY <4>1, <4>2, TailCarries
    <3> QED BY <1>8, <3>1 DEF ReceiveReply
  <2> DEFINE others == pending \ {request}
             ok == IF request.type = "compile" THEN m.type = "compiled" ELSE m.type = "opened"
  <2>2. \/ request.type = "compile" /\ SettleCompile(request, ok)
        \/ request.type = "open" /\ SettleOpen(request, ok)
        \/ request.type = "close" /\ SettleClose(request)
        \/ request.type \notin {"compile", "open", "close"} /\ SettleOther(request, m)
    BY <2>1
  <2>3. /\ OwnersDiffer /\ ok \in BOOLEAN /\ request \in Request
    BY <1>1 DEF CallsInv, PageRequest
  <2> HIDE DEF m, ok
  <2>4. PICK rs \in Seq(PageRequest) : Send(rs, others) /\ Follows(rs, request, ok)
    BY <2>2, <2>3, SettleKeeps
  <2>5. \A s \in Sessions : handle[s] # "none" => handle'[s] # "none"
    BY <1>1, <2>2, <2>3, RequestFields
       DEF SettleCompile, SettleOpen, SettleClose, SettleOther
  <2>6. \A s \in Sessions : handle'[s] = "opening" => handle[s] = "opening"
    BY <1>1, <2>2, <2>3, RequestFields
       DEF SettleCompile, SettleOpen, SettleClose, SettleOther
  <2>7. request.type = "open" => handle'[request.session] # "opening"
    BY <1>1, <2>2, <2>3, RequestFields DEF SettleOpen
  <2>8. ASSUME NEW k \in DOMAIN rs
        PROVE  rs[k].type \in {"open", "release"}
               /\ (rs[k].type = "open" => sessions[rs[k].session] = None)
    <3>1. CASE rs[k].type = "release"
      BY <3>1
    <3>2. CASE rs[k].type = "open" /\ rs[k].session \in Opener(request.compile)
               /\ request.type = "compile"
      <4>1. rs[k].session \in Sessions /\ handle[rs[k].session] = "opening"
            /\ \A q \in pending : q.type = "open" => q.session # rs[k].session
        BY <3>2 DEF Opener, Asked, OwnersWait
      <4> QED BY <3>2, <4>1 DEF TableSound
    <3> QED BY <2>4, <3>1, <3>2 DEF Follows
  <2> QED BY <1>2, <2>4, <2>5, <2>6, <2>7, <2>8
<1>9. CASE \/ \E c \in Compiles : CompileSource(c) \/ Release(c)
           \/ \E s \in Sessions, c \in Compiles : OpenCompiled(s, c) \/ OpenCircuit(s, c)
           \/ \E s \in Sessions : Close(s) \/ \E type \in OpTypes : SessionCall(s, type)
  BY <1>9, UserFits
<1> QED BY <1>4, <1>5, <1>6, <1>7, <1>8, <1>9 DEF ClientNext

-----------------------------------------------------------------------------
(* The table and the worker *)

\* What the worker owes an answer to, the sessions it should have loaded, and
\* the compiles: in a restart, those of the replays done so far.
Owed   == IF restarting THEN {replaying} ELSE inFlight
Loaded == IF restarting THEN reopened ELSE OpenSessions(sessions)
Built  == IF restarting
          THEN {c \in compiles \ todoCompiles : replaying.type = "compile" => c # replaying.compile}
          ELSE compiles

\* The worker may have lost sight of the compile of an open, never of another.
Same(r, q) ==
  /\ r.id = q.id /\ r.type = q.type /\ r.session = q.session
  /\ r.type = "compile" => r.compile = q.compile

\* Requests tw on their way, tk taken and answered by ms are among the owed ow,
\* and an answer is of the kind its request has.
WorkMatches(tw, tk, ms, ow) ==
  /\ tw \subseteq ow
  /\ \A r \in tk : \E q \in ow : Same(r, q)
  /\ \A m \in ms, q \in ow : m.id = q.id =>
        /\ m.type = "opened" => q.type = "open"
        /\ m.type = "closed" => q.type = "close"
        /\ q.type = "release" => m.type = "released"

\* An answer among ms says that s was opened, or closed.
Told(ms, ow, type, s) == \E m \in ms, q \in ow : m.type = type /\ q.id = m.id /\ q.session = s

\* The sessions ws of the worker are those of the table, but for the answers.
SessionsMatch(ws, tab, ms, ow) ==
  \A s \in Sessions :
    s \in ws <=> (s \in tab /\ ~Told(ms, ow, "closed", s)) \/ Told(ms, ow, "opened", s)

\* The compiles wc of the worker include those of the table, unless released,
\* and each one that was asked for, as soon as it is taken.
CompilesMatch(wc, comp, tk, ms, ow) ==
  /\ \A c \in comp : c \in wc \/ \E q \in ow : q.type = "release" /\ q.compile = c
  /\ \A r \in tk : r.type = "compile" => r.compile \in wc
  /\ \A m \in ms, q \in ow : q.type = "compile" /\ m.id = q.id => q.compile \in wc

Match(tw, tk, ms, ow, ws, tab, wc, comp) ==
  /\ WorkMatches(tw, tk, ms, ow)
  /\ SessionsMatch(ws, tab, ms, ow)
  /\ CompilesMatch(wc, comp, tk, ms, ow)

Matches == Match(Range(toWorker), taken, Range(fromWorker), Owed,
                 wSessions, Loaded, wCompiles, Built)

\* No two of the owed requests are at odds, nor one with the table.
Apart(ow, tab) ==
  /\ \A q \in ow : q.type = "open" => q.session \notin tab
  /\ \A q, r \in ow : q.type = "open" /\ r.type = "close" => q.session # r.session
  /\ \A q, r \in ow : q.type = "compile" /\ r.type = "release" => q.compile # r.compile

\* Where the requests are, by their ids: the owed ones bear different ids, and
\* none is in two places.
Placed(tw, tk, ms, ow) ==
  /\ OneId(ow) /\ \A q \in ow : q.id # NoId
  /\ \A r \in tk : \A m \in ms : m.id # r.id
  /\ \A r \in tw : \A m \in ms : m.id # r.id
  /\ \A r \in tw : \A t \in tk : t.id # r.id

\* The worker takes a release, and answers it.
LEMMA ReleaseMatches ==
  ASSUME NEW tw, NEW tk, NEW ms, NEW ow, NEW ws, NEW tab, NEW wc, NEW comp,
         Match(tw, tk, ms, ow, ws, tab, wc, comp), Placed(tw, tk, ms, ow), Apart(ow, tab),
         NEW e \in tw, e.type = "release", NEW rest \in SUBSET tw,
         NEW m, m.id = e.id, m.type = "released"
  PROVE  Match(rest, tk, ms \cup {m}, ow, ws, tab, wc \ {e.compile}, comp)
<1>1. e \in ow /\ \A q \in ow : q.id = e.id => q = e
  BY DEF Match, WorkMatches, Placed, OneId
<1>2. WorkMatches(rest, tk, ms \cup {m}, ow)
  BY <1>1 DEF Match, WorkMatches
<1>3. SessionsMatch(ws, tab, ms \cup {m}, ow)
  <2>1. \A s, type : type \in {"opened", "closed"} =>
          (Told(ms \cup {m}, ow, type, s) <=> Told(ms, ow, type, s))
    BY DEF Told
  <2> QED BY <2>1 DEF Match, SessionsMatch
<1>4. CompilesMatch(wc \ {e.compile}, comp, tk, ms \cup {m}, ow)
  <2>1. \A q \in ow : q.type = "compile" => q.compile # e.compile
    BY <1>1 DEF Apart
  <2>2. \A r \in tk : r.type = "compile" => r.compile # e.compile
    BY <2>1 DEF Match, WorkMatches, Same
  <2>3. \A q \in ow : q.type = "compile" => q.id # m.id
    BY <1>1
  <2> QED BY <1>1, <2>1, <2>2, <2>3 DEF Match, CompilesMatch
<1> QED BY <1>2, <1>3, <1>4 DEF Match

\* The worker takes any other request.
LEMMA TakenMatches ==
  ASSUME NEW tw, NEW tk, NEW ms, NEW ow, NEW ws, NEW tab, NEW wc, NEW comp,
         Match(tw, tk, ms, ow, ws, tab, wc, comp), Placed(tw, tk, ms, ow),
         NEW e \in tw, NEW rest \in SUBSET tw, NEW r, Same(r, e),
         NEW wd, wc \subseteq wd, r.type = "compile" => r.compile \in wd
  PROVE  Match(rest, tk \cup {r}, ms, ow, ws, tab, wd, comp)
<1>1. WorkMatches(rest, tk \cup {r}, ms, ow)
  BY DEF Match, WorkMatches
<1>2. CompilesMatch(wd, comp, tk \cup {r}, ms, ow)
  BY DEF Match, CompilesMatch
<1> QED BY <1>1, <1>2 DEF Match

\* The worker answers a request it took: a session it opens or closes is told.
LEMMA AnsweredMatches ==
  ASSUME NEW tw, NEW tk, NEW ms, NEW ow, NEW ws, NEW tab, NEW wc, NEW comp,
         Match(tw, tk, ms, ow, ws, tab, wc, comp), Placed(tw, tk, ms, ow), Apart(ow, tab),
         NEW r \in tk, r.type # "release", NEW m, m.id = r.id, NEW wt,
         \/ m.type = "opened" /\ r.type = "open" /\ wt = ws \cup {r.session}
         \/ m.type = "closed" /\ r.type = "close" /\ wt = ws \ {r.session}
         \/ m.type \notin {"opened", "closed"} /\ wt = ws
  PROVE  Match(tw, tk \ {r}, ms \cup {m}, ow, wt, tab, wc, comp)
<1>1. PICK q \in ow : Same(r, q)
  BY DEF Match, WorkMatches
<1>2. \A p \in ow : p.id = m.id => p = q
  BY <1>1 DEF Same, Placed, OneId
<1>3. q.id = m.id /\ q.type = r.type /\ q.session = r.session
      /\ (q.type = "compile" => q.compile = r.compile)
  BY <1>1 DEF Same
<1>4. WorkMatches(tw, tk \ {r}, ms \cup {m}, ow)
  BY <1>2, <1>3 DEF Match, WorkMatches
<1>5. CompilesMatch(wc, comp, tk \ {r}, ms \cup {m}, ow)
  <2>1. q.type = "compile" => q.compile \in wc
    BY <1>3 DEF Match, CompilesMatch
  <2> QED BY <1>2, <2>1 DEF Match, CompilesMatch
<1>6. \A s, type : Told(ms \cup {m}, ow, type, s)
                     <=> Told(ms, ow, type, s) \/ (m.type = type /\ r.session = s)
  BY <1>2, <1>3 DEF Told
<1>7. SessionsMatch(wt, tab, ms \cup {m}, ow)
  <2> SUFFICES ASSUME NEW s \in Sessions
      PROVE  s \in wt <=> \/ s \in tab /\ ~Told(ms \cup {m}, ow, "closed", s)
                          \/ Told(ms \cup {m}, ow, "opened", s)
    BY DEF SessionsMatch
  <2>1. s \in ws <=> (s \in tab /\ ~Told(ms, ow, "closed", s)) \/ Told(ms, ow, "opened", s)
    BY DEF Match, SessionsMatch
  <2>2. CASE m.type = "opened" /\ r.type = "open" /\ wt = ws \cup {r.session}
    BY <1>6, <2>1, <2>2
  <2>3. CASE m.type = "closed" /\ r.type = "close" /\ wt = ws \ {r.session}
    <3>1. ~Told(ms, ow, "opened", r.session)
      BY <1>3, <2>3 DEF Told, Match, WorkMatches, Apart
    <3>2. /\ Told(ms \cup {m}, ow, "closed", s) <=> Told(ms, ow, "closed", s) \/ r.session = s
          /\ Told(ms \cup {m}, ow, "opened", s) <=> Told(ms, ow, "opened", s)
      BY <1>6, <2>3
    <3>3. CASE r.session = s
      BY <2>3, <3>1, <3>2, <3>3
    <3>4. CASE r.session # s
      BY <2>1, <2>3, <3>2, <3>4
    <3> QED BY <3>3, <3>4
  <2>4. CASE m.type \notin {"opened", "closed"} /\ wt = ws
    BY <1>6, <2>1, <2>4
  <2> QED BY <2>2, <2>3, <2>4
<1> QED BY <1>4, <1>5, <1>7 DEF Match

\* Messages that answer nothing say nothing.
LEMMA SilentMatches ==
  ASSUME NEW tw, NEW tk, NEW ms, NEW ow, NEW ws, NEW tab, NEW wc, NEW comp,
         Placed(tw, tk, ms, ow), NEW m, m.id = NoId
  PROVE  Match(tw, tk, ms \cup {m}, ow, ws, tab, wc, comp)
           <=> Match(tw, tk, ms, ow, ws, tab, wc, comp)
<1>1. \A q \in ow : q.id # m.id
  BY DEF Placed
<1>2. \A s, type : Told(ms \cup {m}, ow, type, s) <=> Told(ms, ow, type, s)
  BY <1>1 DEF Told
<1>3. WorkMatches(tw, tk, ms \cup {m}, ow) <=> WorkMatches(tw, tk, ms, ow)
  BY <1>1 DEF WorkMatches
<1>4. SessionsMatch(ws, tab, ms \cup {m}, ow) <=> SessionsMatch(ws, tab, ms, ow)
  BY <1>2 DEF SessionsMatch
<1>5. CompilesMatch(wc, comp, tk, ms \cup {m}, ow) <=> CompilesMatch(wc, comp, tk, ms, ow)
  BY <1>1 DEF CompilesMatch
<1> QED BY <1>3, <1>4, <1>5 DEF Match

\* The relay sends the worker one more request.
LEMMA SentMatches ==
  ASSUME NEW tw, NEW tk, NEW ms, NEW ow, NEW ws, NEW tab, NEW wc, NEW comp,
         Match(tw, tk, ms, ow, ws, tab, wc, comp),
         NEW e, \A m \in ms : m.id # e.id
  PROVE  Match(tw \cup {e}, tk, ms, ow \cup {e}, ws, tab, wc, comp)
<1>1. \A s, type : Told(ms, ow \cup {e}, type, s) <=> Told(ms, ow, type, s)
  BY DEF Told
<1>2. WorkMatches(tw \cup {e}, tk, ms, ow \cup {e})
  BY DEF Match, WorkMatches
<1>3. SessionsMatch(ws, tab, ms, ow \cup {e})
  BY <1>1 DEF Match, SessionsMatch
<1>4. CompilesMatch(wc, comp, tk, ms, ow \cup {e})
  BY DEF Match, CompilesMatch
<1> QED BY <1>2, <1>3, <1>4 DEF Match

\* The relay learns what became of request q, and remembers it.
LEMMA ToldMatches ==
  ASSUME NEW tw, NEW tk, NEW ms, NEW ow, NEW ws, NEW tab, NEW wc, NEW comp,
         NEW m, \A o \in ms : o.id # m.id,
         Match(tw, tk, ms \cup {m}, ow, ws, tab, wc, comp),
         Placed(tw, tk, ms \cup {m}, ow), Apart(ow, tab),
         NEW q \in ow, q.id = m.id, NEW tac, NEW cmp,
         tac = IF m.type = "opened" THEN tab \cup {q.session}
               ELSE IF m.type = "closed" THEN tab \ {q.session} ELSE tab,
         \A c \in cmp : c \in comp \/ (q.type = "compile" /\ c = q.compile),
         q.type = "release" /\ m.type = "released" => q.compile \notin cmp
  PROVE  Match(tw, tk, ms, ow \ {q}, ws, tac, wc, cmp)
<1> DEFINE on == ow \ {q}
<1>1. \A p \in ow : p.id = m.id => p = q
  BY DEF Placed, OneId
<1>2. WorkMatches(tw, tk, ms, on)
  <2>1. tw \subseteq on
    BY DEF Match, WorkMatches, Placed
  <2>2. \A r \in tk : \E p \in on : Same(r, p)
    BY DEF Match, WorkMatches, Placed, Same
  <2> QED BY <2>1, <2>2 DEF Match, WorkMatches
<1>3. \A s, type : Told(ms \cup {m}, ow, type, s)
                     <=> Told(ms, on, type, s) \/ (m.type = type /\ q.session = s)
  BY <1>1 DEF Told
<1>4. CompilesMatch(wc, cmp, tk, ms, on)
  <2>1. q.type = "compile" => q.compile \in wc
    BY DEF Match, CompilesMatch
  <2>2. ASSUME NEW c \in cmp PROVE c \in wc \/ \E p \in on : p.type = "release" /\ p.compile = c
    <3>1. q.type = "release" => q.compile # c
      BY DEF Match, WorkMatches
    <3> QED BY <2>1, <3>1 DEF Match, CompilesMatch
  <2> QED BY <2>2 DEF Match, CompilesMatch
<1>5. SessionsMatch(ws, tac, ms, on)
  <2> SUFFICES ASSUME NEW s \in Sessions
      PROVE  s \in ws <=> (s \in tac /\ ~Told(ms, on, "closed", s)) \/ Told(ms, on, "opened", s)
    BY DEF SessionsMatch
  <2>1. s \in ws <=> \/ s \in tab /\ ~Told(ms \cup {m}, ow, "closed", s)
                     \/ Told(ms \cup {m}, ow, "opened", s)
    BY DEF Match, SessionsMatch
  <2>2. CASE m.type = "opened"
    <3>1. q.type = "open"
      BY <2>2 DEF Match, WorkMatches
    <3>2. ~Told(ms, on, "closed", q.session)
      BY <3>1 DEF Told, Match, WorkMatches, Apart
    <3> QED BY <1>3, <2>1, <2>2, <3>2
  <2>3. CASE m.type = "closed"
    BY <1>3, <2>1, <2>3
  <2>4. CASE m.type \notin {"opened", "closed"}
    BY <1>3, <2>1, <2>4
  <2> QED BY <2>2, <2>3, <2>4
<1> QED BY <1>2, <1>4, <1>5 DEF Match

\* Outside a restart the requests in flight, inside one the replay awaited, are
\* on their way to the worker, taken or answered.
LEMMA OwedIsOwed ==
  ASSUME RelaySide, WorkerSide, CallsInv
  PROVE  WorkerOwes(toWorker, taken, fromWorker, Owed) /\ OneId(Owed) /\ Owed \in SUBSET Request
<1>1. /\ toWorker \in Seq(Work) /\ taken \subseteq Work /\ fromWorker \in Seq(Said)
      /\ inFlight \subseteq PageRequest /\ replaying \in ReplayRequest \cup {None}
      /\ restarting <=> replaying # None
  BY DEF WorkerSide, WorkerSeesOneSide, RelaySide, RelayTypeOK
<1>2. CASE ~restarting
  BY <1>1, <1>2 DEF Owed, CallsInv, CallsOwed, PageRequest
<1>3. CASE restarting
  <2>1. /\ Owed = {replaying} /\ replaying \in ReplayRequest /\ OneId(Owed)
        /\ Owed \in SUBSET Request /\ Ids(Owed) = {ReplayId}
    BY <1>1, <1>3 DEF Owed, OneId, Ids, ReplayRequest
  <2>2. /\ Work = ReplayRequest /\ \A m \in Work : IdOf(m) = ReplayId /\ m.id = ReplayId
        /\ \A m \in Said : IdOf(m) = ReplayId /\ m.type # "progressed"
    BY <1>3, RequestCarries, ReplyCarries DEF Work, Said, ReplayRequest
  <2>3. Distinct(<<>>) /\ Carried(<<>>) = {} /\ OneId({}) /\ Ids({}) = {}
    BY EmptyCarries DEF OneId, Ids
  <2>4. BeatsHaveNoId(fromWorker)
    BY <1>1, <2>2 DEF BeatsHaveNoId
  <2>5. CASE Len(toWorker) = 1 /\ taken = {} /\ fromWorker = <<>>
    <3>1. Distinct(toWorker) /\ Carried(toWorker) = {ReplayId}
      BY <1>1, <2>2, <2>5, OneMessage
    <3> QED BY <2>1, <2>3, <2>4, <2>5, <3>1 DEF WorkerOwes
  <2>6. CASE toWorker = <<>> /\ (\E r \in taken : taken = {r}) /\ fromWorker = <<>>
    <3>1. OneId(taken) /\ Ids(taken) = {ReplayId}
      BY <1>1, <2>2, <2>6 DEF OneId, Ids
    <3> QED BY <2>1, <2>3, <2>4, <2>6, <3>1 DEF WorkerOwes
  <2>7. CASE toWorker = <<>> /\ taken = {} /\ Len(fromWorker) = 1
    <3>1. Distinct(fromWorker) /\ Carried(fromWorker) = {ReplayId}
      BY <1>1, <2>2, <2>7, OneMessage
    <3> QED BY <2>1, <2>3, <2>4, <2>7, <3>1 DEF WorkerOwes
  <2> QED BY <1>3, <2>5, <2>6, <2>7 DEF WorkerSide, OneReplayOut
<1> QED BY <1>2, <1>3

\* A message of a channel carries its id.
LEMMA MembersCarried ==
  /\ \A q \in Seq(Request) : \A r \in Range(q) : r \in Request /\ r.id \in Carried(q)
  /\ \A q \in Seq(Reply) : \A m \in Range(q) : m \in Reply /\ (m.id # NoId => m.id \in Carried(q))
BY RequestCarries, ReplyCarries DEF Range, Carried, NoId

\* What is owed is in one place.
LEMMA OwedIsPlaced ==
  ASSUME NEW tw \in Seq(Request), NEW tk \in SUBSET Request, NEW fw \in Seq(Reply),
         NEW ow \in SUBSET Request, WorkerOwes(tw, tk, fw, ow), OneId(ow)
  PROVE  Placed(Range(tw), tk, Range(fw), ow)
<1>1. /\ \A r \in Range(tw) : r \in Request /\ r.id \in Carried(tw)
      /\ \A m \in Range(fw) : m.id # NoId => m.id \in Carried(fw)
      /\ \A r \in tk : r.id \in Ids(tk)
  BY MembersCarried DEF Ids
<1>2. \A r \in Request : r.id # NoId
  BY RequestCarries DEF NoId
<1> QED BY <1>1, <1>2 DEF Placed, WorkerOwes

\* The requests owed are at odds neither with one another nor with the table.
LEMMA OwedIsApart ==
  ASSUME ClientTypeOK, RelaySide, WorkerSide, ReplaySound, Asked, TableSound, AskedOfOpened
  PROVE  Apart(Owed, Loaded)
<1>1. /\ pending \in SUBSET PageRequest /\ replaying \in ReplayRequest \cup {None}
      /\ restarting <=> replaying # None
  BY DEF ClientTypeOK, RelaySide, RelayTypeOK, WorkerSide, WorkerSeesOneSide
<1>2. CASE restarting
  BY <1>1, <1>2 DEF Apart, Owed, Loaded, ReplaySound
<1>3. CASE ~restarting
  <2>1. inFlight \subseteq pending /\ inFlight \subseteq EnRoute(queued, toRelay, held, inFlight)
        /\ Owed = inFlight
    BY <1>3 DEF Asked, Awaited, EnRoute, Owed
  <2>2. \A q \in inFlight : q.type = "open" => q.session \notin Loaded
    BY <1>3, <2>1 DEF Loaded, OpenSessions, TableSound
  <2>3. \A q, r \in inFlight : q.type = "open" /\ r.type = "close" => q.session # r.session
    BY <2>1 DEF Asked, OpensSound, AskedOfOpened, AfterOpen
  <2>4. \A q, r \in inFlight : q.type = "compile" /\ r.type = "release" => q.compile # r.compile
    BY <2>1 DEF Asked, CompilesSound
  <2> QED BY <2>1, <2>2, <2>3, <2>4 DEF Apart
<1> QED BY <1>2, <1>3

\* Steps of the worker keep what the relay takes it to owe.
LEMMA WorkerMatches ==
  ASSUME ClientTypeOK, RelaySide, WorkerSide, CallsInv, ReplaySound, Asked, TableSound,
         AskedOfOpened, Matches, UNCHANGED relayVars, WorkerNext
  PROVE  Matches'
<1>1. /\ toWorker \in Seq(Request) /\ fromWorker \in Seq(Reply) /\ taken \in SUBSET Request
      /\ \A r \in taken : r.type # "release"
      /\ UNCHANGED <<Owed, Loaded, Built>>
  BY WorkerTypes DEF relayVars, Owed, Loaded, Built, WorkerSide, WorkerTypeOK
<1> DEFINE tw == Range(toWorker)
           ms == Range(fromWorker)
<1>2. /\ Match(tw, taken, ms, Owed, wSessions, Loaded, wCompiles, Built)
      /\ Placed(tw, taken, ms, Owed) /\ Apart(Owed, Loaded)
  BY <1>1, OwedIsOwed, OwedIsPlaced, OwedIsApart DEF Matches
<1>3. PICK ow, tab, comp : ow = Owed /\ tab = Loaded /\ comp = Built
  OBVIOUS
<1>4. /\ Match(tw, taken, ms, ow, wSessions, tab, wCompiles, comp)
      /\ Placed(tw, taken, ms, ow) /\ Apart(ow, tab)
      /\ Owed' = ow /\ Loaded' = tab /\ Built' = comp
  BY <1>1, <1>2, <1>3
<1>5. ASSUME NEW m \in Reply, Post(m) PROVE Range(fromWorker') = ms \cup {m}
  BY <1>1, <1>5, RangeMoves DEF Post
<1>6. CASE Take
  <2> DEFINE e == Head(toWorker)
  <2>1. /\ toWorker # <<>> /\ toWorker' = Tail(toWorker) /\ wSessions' = wSessions
        /\ tw = {e} \cup Range(Tail(toWorker)) /\ e \in Request
    BY <1>1, <1>6, RangeMoves, HeadTailProperties DEF Take
  <2>2. PICK rest : rest = Range(Tail(toWorker))
    OBVIOUS
  <2>3. e \in tw /\ rest \in SUBSET tw /\ Range(toWorker') = rest
    BY <2>1, <2>2
  <2>4. CASE /\ e.type = "release" /\ wCompiles' = wCompiles \ {e.compile} /\ taken' = taken
             /\ Post([id |-> e.id, type |-> "released", session |-> None, state |-> "none"])
    <3> DEFINE m == [id |-> e.id, type |-> "released", session |-> None, state |-> "none"]
    <3>1. m \in Reply /\ m.id = e.id /\ m.type = "released" /\ Post(m)
      BY <2>1, <2>4, RequestFields DEF Reply, ReplyTypes, States, PageIds, ReplayId, Request
    <3> HIDE DEF m, e
    <3>2. Range(fromWorker') = ms \cup {m}
      BY <1>5, <3>1
    <3> HIDE DEF tw, ms
    <3>3. Match(rest, taken, ms \cup {m}, ow, wSessions, tab, wCompiles \ {e.compile}, comp)
      BY <1>4, <2>3, <2>4, <3>1, ReleaseMatches
    <3> QED BY <1>4, <2>1, <2>3, <2>4, <3>2, <3>3 DEF Matches
  <2>5. CASE /\ e.type # "release" /\ taken' = taken \cup {Found(e)} /\ fromWorker' = fromWorker
             /\ wCompiles' = wCompiles \cup (IF e.type = "compile" THEN {e.compile} ELSE {})
    <3>1. PICK r, wd : r = Found(e) /\ wd = wCompiles'
      OBVIOUS
    <3>2. Same(r, e)
      BY <2>1, <3>1 DEF Same, Found, Request
    <3>3. wCompiles \subseteq wd /\ (r.type = "compile" => r.compile \in wd)
      BY <2>5, <3>1, <3>2 DEF Same
    <3>4. Range(fromWorker') = ms /\ taken' = taken \cup {r}
      BY <2>5, <3>1
    <3> HIDE DEF tw, ms, e
    <3>5. Match(rest, taken \cup {r}, ms, ow, wSessions, tab, wd, comp)
      BY <1>4, <2>3, <3>2, <3>3, TakenMatches
    <3> QED BY <1>4, <2>1, <2>3, <3>1, <3>4, <3>5 DEF Matches
  <2> QED BY <1>6, <2>4, <2>5 DEF Take
<1>7. CASE Answer
  <2>1. PICK r \in Answerable : taken' = taken \ {r} /\ (Done(r) \/ Throws(r))
    BY <1>7 DEF Answer
  <2>2. r \in taken /\ r \in Request /\ r.type # "release"
        /\ UNCHANGED <<toWorker, wCompiles>>
    BY <1>1, <1>7, <2>1 DEF Answerable, Answer
  <2>3. PICK m \in Reply : m.id = r.id /\ m.type # "progressed" /\ Post(m)
    BY <2>1, <2>2, AnswerPostsReply
  <2>4. Range(fromWorker') = ms \cup {m} /\ Range(toWorker') = tw
    BY <1>5, <2>2, <2>3
  <2>5. ASSUME NEW n, Post(n) PROVE n = m
    <3>1. PICK S : S = Reply \cup {n, m}
      OBVIOUS
    <3>2. fromWorker \in Seq(S) /\ m \in S /\ n \in S
      BY <1>1, <3>1
    <3>3. Append(fromWorker, n)[Len(fromWorker) + 1] = n
          /\ Append(fromWorker, m)[Len(fromWorker) + 1] = m
      BY <3>2, AppendProperties
    <3> QED BY <2>3, <2>5, <3>3 DEF Post
  <2>6. \/ m.type = "opened" /\ r.type = "open" /\ wSessions' = wSessions \cup {r.session}
        \/ m.type = "closed" /\ r.type = "close" /\ wSessions' = wSessions \ {r.session}
        \/ m.type \notin {"opened", "closed"} /\ wSessions' = wSessions
    <3>1. CASE Throws(r)
      BY <2>5, <3>1 DEF Throws, Failed
    <3>2. CASE Done(r) /\ r.type = "compile"
      BY <2>5, <3>2 DEF Done, ReplyTo
    <3>3. CASE Done(r) /\ r.type = "open"
      BY <2>5, <3>3 DEF Done, ReplyTo
    <3>4. CASE Done(r) /\ r.type = "close"
      BY <2>5, <3>4 DEF Done, ReplyTo
    <3>5. CASE Done(r) /\ r.type \in {"run", "pause"}
      <4>1. Post(ReplyTo(r, "updated", StateOf(r.session, wRunning'))) /\ wSessions' = wSessions
        BY <3>5 DEF Done
      <4>2. m = ReplyTo(r, "updated", StateOf(r.session, wRunning'))
        BY <2>5, <4>1
      <4> QED BY <4>1, <4>2 DEF ReplyTo
    <3>6. CASE Done(r) /\ r.type = "op"
      <4>1. Post(ReplyTo(r, "updated", StateOf(r.session, wRunning))) /\ wSessions' = wSessions
        BY <3>6 DEF Done
      <4>2. m = ReplyTo(r, "updated", StateOf(r.session, wRunning))
        BY <2>5, <4>1
      <4> QED BY <4>1, <4>2 DEF ReplyTo
    <3>7. CASE Done(r) /\ r.type = "scan"
      BY <2>5, <3>7 DEF Done, ReplyTo
    <3> QED BY <2>1, <2>2, <3>1, <3>2, <3>3, <3>4, <3>5, <3>6, <3>7, RequestFields
            DEF RequestTypes, SessionOps
  <2>7. PICK wt : wt = wSessions'
    OBVIOUS
  <2> HIDE DEF tw, ms
  <2>8. Match(tw, taken \ {r}, ms \cup {m}, ow, wt, tab, wCompiles, comp)
    BY <1>4, <2>2, <2>3, <2>6, <2>7, AnsweredMatches
  <2> QED BY <1>4, <2>1, <2>2, <2>4, <2>7, <2>8 DEF Matches
<1>8. CASE Heartbeat \/ \E s \in Sessions : PushFrame(s)
  <2>1. PICK m \in Reply : m.id = NoId /\ Post(m)
    <3>1. [id |-> NoId, type |-> "progressed", session |-> None, state |-> "none"] \in Reply
      BY DEF Reply, ReplyTypes, States
    <3>2. \A s \in Sessions : Frame(s, "running") \in Reply /\ Frame(s, "running").id = NoId
      BY DEF Frame, Reply, ReplyTypes, States
    <3> QED BY <1>8, <3>1, <3>2 DEF Heartbeat, PushFrame
  <2>2. UNCHANGED <<taken, wCompiles, wSessions, toWorker>>
    BY <1>8 DEF Heartbeat, PushFrame, workerVars
  <2>3. Range(fromWorker') = ms \cup {m} /\ Range(toWorker') = tw
    BY <1>5, <2>1, <2>2
  <2> HIDE DEF tw, ms
  <2>4. Match(tw, taken, ms \cup {m}, ow, wSessions, tab, wCompiles, comp)
    BY <1>4, <2>1, SilentMatches
  <2> QED BY <1>4, <2>2, <2>3, <2>4 DEF Matches
<1>9. CASE Hang \/ \E s \in Sessions : StepThrows(s)
  <2>1. UNCHANGED <<taken, wCompiles, wSessions, toWorker, fromWorker>>
    BY <1>9 DEF Hang, StepThrows, channels
  <2> QED BY <1>4, <2>1 DEF Matches
<1> QED BY <1>6, <1>7, <1>8, <1>9 DEF WorkerNext

\* A request of the page goes to the worker, or waits for the restart to end.
LEMMA ReceiveMatches ==
  ASSUME RelaySide, WorkerSide, CallsInv, Matches, UNCHANGED workerVars, Receive
  PROVE  Matches'
<1> DEFINE e == Head(toRelay)
<1>1. /\ toRelay \in Seq(PageRequest) /\ toRelay # <<>> /\ toWorker \in Seq(Request)
      /\ fromWorker \in Seq(Reply) /\ UNCHANGED <<taken, wSessions, wCompiles, fromWorker>>
      /\ UNCHANGED <<restarting, replaying, reopened, sessions, compiles, todoCompiles>>
  BY DEF WorkerSide, ChannelsTypeOK, Receive, workerVars
<1>2. UNCHANGED <<Loaded, Built>>
  BY <1>1 DEF Loaded, Built
<1>3. CASE restarting /\ UNCHANGED <<inFlight, toWorker>>
  BY <1>1, <1>2, <1>3 DEF Matches, Owed
<1>4. CASE ~restarting /\ inFlight' = inFlight \cup {e} /\ toWorker' = Append(toWorker, e)
  <2>1. e \in Request /\ e.id \notin Ids(inFlight)
    <3>1. e \in PageRequest /\ IdOf(e) \in Carried(toRelay)
      <4>1. e \in PageRequest /\ (IdOf(e) = NoId \/ IdOf(e) \in Carried(toRelay))
        BY <1>1, TailCarries DEF CallsInv, CallsOwed
      <4> QED BY <4>1, RequestCarries DEF PageRequest, NoId
    <3> QED BY <3>1, RequestCarries DEF PageRequest, CallsInv, CallsOwed
  <2>2. Range(toWorker') = Range(toWorker) \cup {e}
    BY <1>1, <1>4, <2>1, RangeMoves
  <2>3. \A m \in Range(fromWorker) : m.id # e.id
    <3>1. \A m \in Range(fromWorker) : m.id # NoId => m.id \in Ids(inFlight)
      BY <1>1, <1>4, MembersCarried DEF CallsInv, WorkerOwes
    <3> QED BY <2>1, <3>1, RequestCarries DEF NoId
  <2>4. Owed = inFlight /\ Owed' = inFlight \cup {e}
    BY <1>1, <1>4 DEF Owed
  <2>5. PICK tab, comp : tab = Loaded /\ comp = Built
    OBVIOUS
  <2> HIDE DEF e
  <2>6. Match(Range(toWorker), taken, Range(fromWorker), inFlight, wSessions, tab, wCompiles, comp)
    BY <2>4, <2>5 DEF Matches
  <2>7. Match(Range(toWorker) \cup {e}, taken, Range(fromWorker), inFlight \cup {e},
              wSessions, tab, wCompiles, comp)
    BY <2>3, <2>6, SentMatches
  <2> QED BY <1>1, <1>2, <2>2, <2>4, <2>5, <2>7 DEF Matches
<1> QED BY <1>3, <1>4 DEF Receive

\* The relay takes a message of the worker: what it remembers of an answer is
\* what the worker did.
LEMMA ForwardMatches ==
  ASSUME ClientTypeOK, RelaySide, WorkerSide, CallsInv, ReplaySound, Asked, TableSound,
         AskedOfOpened, Matches, UNCHANGED workerVars,
         Progressed \/ ForwardReply \/ ForwardFrame
  PROVE  Matches'
<1> DEFINE m == Head(fromWorker)
<1>1. /\ fromWorker \in Seq(Reply) /\ toWorker \in Seq(Request) /\ taken \in SUBSET Request
      /\ fromWorker # <<>> /\ fromWorker' = Tail(fromWorker) /\ m \in Reply
      /\ UNCHANGED <<taken, wSessions, wCompiles, toWorker>>
      /\ UNCHANGED <<restarting, replaying, reopened, todoCompiles>>
  <2>1. /\ fromWorker \in Seq(Reply) /\ toWorker \in Seq(Request) /\ taken \in SUBSET Request
        /\ fromWorker # <<>> /\ fromWorker' = Tail(fromWorker)
    BY WorkerTypes DEF Progressed, ForwardReply, ForwardFrame
  <2> QED BY <2>1, HeadTailProperties DEF workerVars, Progressed, ForwardReply, ForwardFrame
<1>2. ~restarting
  <2>1. m \in Said
    BY <1>1, HeadTailProperties DEF WorkerSide, WorkerSeesOneSide
  <2>2. m.type = "progressed" \/ m.id # ReplayId
    BY DEF Progressed, ForwardReply, ForwardFrame, NoId, ReplayId, PageIds
  <2> QED BY <2>1, <2>2 DEF Said
<1>3. PICK ms : ms = Range(Tail(fromWorker))
  OBVIOUS
<1>4. Range(fromWorker) = ms \cup {m} /\ Range(fromWorker') = ms
  BY <1>1, <1>3, RangeMoves
<1>5. /\ Owed = inFlight /\ Owed' = inFlight' /\ Built = compiles /\ Built' = compiles'
      /\ Loaded = OpenSessions(sessions) /\ Loaded' = OpenSessions(sessions')
  BY <1>1, <1>2 DEF Owed, Built, Loaded
<1>6. PICK tab, tac : tab = OpenSessions(sessions) /\ tac = OpenSessions(sessions')
  OBVIOUS
<1>7. WorkerOwes(toWorker, taken, fromWorker, inFlight) /\ OneId(inFlight)
      /\ inFlight \in SUBSET Request
  BY <1>2, <1>5, OwedIsOwed
<1>8. Placed(Range(toWorker), taken, Range(fromWorker), inFlight) /\ Apart(inFlight, tab)
  BY <1>1, <1>5, <1>6, <1>7, OwedIsPlaced, OwedIsApart
<1> HIDE DEF m
<1>9. /\ Match(Range(toWorker), taken, ms \cup {m}, inFlight, wSessions, tab, wCompiles, compiles)
      /\ Placed(Range(toWorker), taken, ms \cup {m}, inFlight)
  BY <1>4, <1>5, <1>6, <1>8 DEF Matches
<1>10. CASE m.id = NoId /\ UNCHANGED <<inFlight, sessions, compiles>>
  <2>1. Match(Range(toWorker), taken, ms, inFlight, wSessions, tab, wCompiles, compiles)
    <3>1. Placed(Range(toWorker), taken, ms, inFlight)
      BY <1>9 DEF Placed
    <3> QED BY <1>9, <1>10, <3>1, SilentMatches
  <2> QED BY <1>1, <1>4, <1>5, <1>6, <1>10, <2>1 DEF Matches
<1>11. CASE ForwardReply
  <2>1. m.id # NoId
    BY <1>11 DEF ForwardReply, m, PageIds, NoId
  <2>2. \E request \in inFlight : request.id = m.id
    BY <1>1, <1>7, <2>1, ForwardOwes DEF m
  <2>3. PICK q \in inFlight :
          /\ q.id = m.id /\ inFlight' = inFlight \ {q} /\ Remember(q, m)
    BY <1>11, <2>2 DEF ForwardReply, m
  <2>4. \A o \in ms : o.id # m.id
    <3>1. m.id \notin Carried(Tail(fromWorker))
      <4>1. Carried(Tail(fromWorker)) = Carried(fromWorker) \ {IdOf(m)} /\ IdOf(m) = m.id
        BY <1>1, <1>7, TailCarries, ReplyCarries DEF WorkerOwes, m
      <4> QED BY <4>1
    <3>2. Tail(fromWorker) \in Seq(Reply)
      BY <1>1, HeadTailProperties
    <3> QED BY <1>3, <2>1, <3>1, <3>2, MembersCarried
  <2>5. /\ m.type = "opened" => q.type = "open"
        /\ m.type = "closed" => q.type = "close"
    BY <1>9, <2>3 DEF Match, WorkMatches
  <2>6. tac = IF m.type = "opened" THEN tab \cup {q.session}
              ELSE IF m.type = "closed" THEN tab \ {q.session} ELSE tab
    <3>1. sessions \in [Sessions -> Compiles \cup {None}]
      BY DEF RelaySide, RelayTypeOK
    <3>2. /\ q.type = "open" => q.session \in Sessions /\ q.compile # None
          /\ q.type = "close" => q.session \in Sessions
      <4>1. q \in pending /\ q \in Request
        BY <1>7, <2>3 DEF Asked, Awaited, EnRoute
      <4> QED BY <4>1, RequestFields DEF Asked, OpensSound
    <3>3. CASE m.type = "opened"
      <4>1. sessions' = [sessions EXCEPT ![q.session] = q.compile]
        BY <2>3, <2>5, <3>3 DEF Remember
      <4> QED BY <1>6, <2>5, <3>1, <3>2, <3>3, <4>1 DEF OpenSessions
    <3>4. CASE m.type = "closed"
      <4>1. sessions' = [sessions EXCEPT ![q.session] = None]
        BY <2>3, <2>5, <3>4 DEF Remember
      <4> QED BY <1>6, <2>5, <3>1, <3>2, <3>4, <4>1 DEF OpenSessions
    <3>5. CASE m.type \notin {"opened", "closed"}
      <4>1. sessions' = sessions
        BY <2>3, <3>5 DEF Remember
      <4> QED BY <1>6, <3>5, <4>1
    <3> QED BY <3>3, <3>4, <3>5
  <2>7. PICK cmp : cmp = compiles'
    OBVIOUS
  <2>8. /\ \A c \in cmp : c \in compiles \/ (q.type = "compile" /\ c = q.compile)
        /\ q.type = "release" /\ m.type = "released" => q.compile \notin cmp
    BY <2>3, <2>7 DEF Remember
  <2>9. Match(Range(toWorker), taken, ms, inFlight \ {q}, wSessions, tac, wCompiles, cmp)
    BY <1>8, <1>9, <2>3, <2>4, <2>6, <2>8, ToldMatches
  <2> QED BY <1>1, <1>4, <1>5, <1>6, <2>3, <2>7, <2>9 DEF Matches
<1>12. CASE Progressed
  <2>1. m.id = NoId
    <3>1. m \in Range(fromWorker)
      BY <1>4
    <3>2. \A o \in Range(fromWorker) : o.type = "progressed" => o.id = NoId
      BY <1>7 DEF WorkerOwes, BeatsHaveNoId, Range
    <3> QED BY <1>12, <3>1, <3>2 DEF Progressed, m
  <2> QED BY <1>10, <1>12, <2>1 DEF Progressed
<1>13. CASE ForwardFrame
  BY <1>10, <1>13 DEF ForwardFrame, m
<1> QED BY <1>11, <1>12, <1>13

\* A replay goes on, or ends, with a worker that has what was replayed so far.
LEMMA ContinueMatches ==
  ASSUME NEW before, NEW tc, NEW ts, NEW table, NEW ro, NEW dr,
         Continue(before, tc, ts, table, ro, dr), taken' = {}, fromWorker' = <<>>,
         OpenSessions(sessions') = ro \cup ts, wSessions' = ro,
         compiles' \subseteq wCompiles' \cup tc
  PROVE  Matches'
<1>1. Range(fromWorker') = {}
  BY DEF Range
<1>2. ASSUME Range(toWorker') \subseteq Owed', Loaded' = ro, Built' \subseteq wCompiles'
      PROVE  Matches'
  <2>1. WorkMatches(Range(toWorker'), {}, {}, Owed')
    BY <1>2 DEF WorkMatches
  <2>2. SessionsMatch(ro, Loaded', {}, Owed')
    BY <1>2 DEF SessionsMatch, Told
  <2>3. CompilesMatch(wCompiles', Built', {}, {}, Owed')
    BY <1>2 DEF CompilesMatch
  <2> QED BY <1>1, <2>1, <2>2, <2>3 DEF Matches, Match
<1>3. CASE tc = {} /\ ts = {}
  <2>1. restarting' = FALSE /\ toWorker' = held /\ inFlight' = Range(held)
    BY <1>3 DEF Continue, Finish
  <2>2. Owed' = inFlight' /\ Loaded' = OpenSessions(sessions') /\ Built' = compiles'
    BY <2>1 DEF Owed, Loaded, Built
  <2> QED BY <1>2, <1>3, <2>1, <2>2
<1>4. CASE ~(tc = {} /\ ts = {})
  <2>1. PICK r \in NextReplays(tc, ts, table) :
          replaying' = r /\ toWorker' = <<r>> /\ todoCompiles' = tc \ {r.compile}
    BY <1>4 DEF Continue
  <2>2. restarting' = TRUE /\ reopened' = ro
    BY <1>4 DEF Continue
  <2>3. /\ Owed' = {r} /\ Loaded' = ro
        /\ Built' = {c \in compiles' \ (tc \ {r.compile}) : r.type = "compile" => c # r.compile}
    BY <2>1, <2>2 DEF Owed, Loaded, Built
  <2>4. tc # {} => r.type = "compile"
    BY <2>1 DEF NextReplays, CompileRequest
  <2>5. Range(toWorker') = {r}
    BY <2>1 DEF Range
  <2> QED BY <1>2, <2>3, <2>4, <2>5
<1> QED BY <1>3, <1>4

\* A restart begins, or begins again after a replay hung, with an empty worker.
LEMMA RestartMatches ==
  ASSUME FreshWorker, OnSilence \/ ReplayTimeout
  PROVE  Matches'
<1>1. taken' = {} /\ wSessions' = {} /\ wCompiles' = {} /\ fromWorker' = <<>>
  BY DEF FreshWorker, Idle, OnSilence, ReplayTimeout
<1>2. \E before, dr :
        Continue(before, compiles', OpenSessions(sessions'), sessions', {}, dr)
  <2>1. CASE OnSilence
    <3>1. compiles' = compiles /\ sessions' = sessions
          /\ \E before, dr : Continue(before, compiles, OpenSessions(sessions), sessions, {}, dr)
      BY <2>1 DEF OnSilence
    <3> QED BY <3>1
  <2>2. CASE ReplayTimeout
    BY <2>2 DEF ReplayTimeout
  <2> QED BY <2>1, <2>2
<1>3. PICK before, dr, tc, ts, table, ro :
        /\ Continue(before, tc, ts, table, ro, dr)
        /\ tc = compiles' /\ ts = OpenSessions(sessions') /\ ro = {}
  BY <1>2
<1>4. /\ OpenSessions(sessions') = ro \cup ts /\ wSessions' = ro
      /\ compiles' \subseteq wCompiles' \cup tc
  BY <1>1, <1>3
<1> QED BY <1>1, <1>3, <1>4, ContinueMatches

\* A replay is answered: what the worker made of it is what the relay notes.
LEMMA ReplayedMatches ==
  ASSUME RelaySide, WorkerSide, CallsInv, ReplaySound, Matches, UNCHANGED workerVars, Replayed
  PROVE  Matches'
<1> DEFINE m == Head(fromWorker)
           s == replaying.session
           lost == m.type # "opened"
<1>1. /\ replaying \in ReplayRequest /\ taken' = {} /\ fromWorker' = <<>>
      /\ UNCHANGED <<wSessions, wCompiles>>
  BY ReplayAnswered DEF workerVars
<1>2. /\ restarting /\ fromWorker \in Seq(Reply) /\ fromWorker # <<>> /\ m.id = ReplayId
      /\ m \in Reply
  <2>1. replaying # None
    BY <1>1, NoneAssumption DEF ReplayRequest
  <2>2. restarting /\ fromWorker \in Seq(Reply) /\ fromWorker # <<>> /\ m.id = ReplayId
    BY <2>1 DEF WorkerSide, WorkerSeesOneSide, ChannelsTypeOK, Replayed
  <2> QED BY <2>2, HeadTailProperties
<1>3. Range(fromWorker) = {m}
  <2>1. fromWorker' = Tail(fromWorker) /\ Range(fromWorker') = {}
    BY <1>1 DEF Replayed, Range
  <2> QED BY <1>2, <2>1, RangeMoves
<1>4. /\ Owed = {replaying} /\ Loaded = reopened
      /\ Built = {c \in compiles \ todoCompiles :
                     replaying.type = "compile" => c # replaying.compile}
  BY <1>2 DEF Owed, Loaded, Built
<1>5. replaying.id = m.id
  BY <1>1, <1>2 DEF ReplayRequest
<1>6. /\ WorkMatches(Range(toWorker), taken, {m}, {replaying})
      /\ SessionsMatch(wSessions, reopened, {m}, {replaying})
      /\ CompilesMatch(wCompiles, Built, taken, {m}, {replaying})
  BY <1>3, <1>4 DEF Matches, Match
<1>7. /\ replaying.type \in {"compile", "open"} /\ m.type # "closed"
      /\ m.type = "opened" => replaying.type = "open"
  <2>1. replaying.type \in {"compile", "open"}
    BY <1>1, ReplayFields
  <2> QED BY <1>5, <1>6, <2>1 DEF WorkMatches
<1>8. /\ wSessions \in SUBSET Sessions /\ reopened \in SUBSET Sessions /\ None \notin Sessions
      /\ sessions \in [Sessions -> Compiles \cup {None}] /\ compiles' \subseteq compiles
      /\ (replaying.type = "open" => s \in Sessions)
  BY <1>1, ReplayFields, ProtocolAssumption
     DEF WorkerSide, WorkerTypeOK, RelaySide, RelayTypeOK, Replayed
<1>9. wSessions = IF lost THEN reopened ELSE reopened \cup {s}
  <2>1. \A t \in Sessions : Told({m}, {replaying}, "opened", t) <=> m.type = "opened" /\ s = t
    BY <1>5 DEF Told
  <2>2. \A t \in Sessions : ~Told({m}, {replaying}, "closed", t)
    BY <1>7 DEF Told
  <2>3. \A t \in Sessions : t \in wSessions <=> t \in reopened \/ (m.type = "opened" /\ s = t)
    BY <1>6, <2>1, <2>2 DEF SessionsMatch
  <2> QED BY <1>7, <1>8, <2>3
<1>10. compiles' \subseteq wCompiles' \cup todoCompiles
  <2>1. Built \subseteq wCompiles
    BY <1>6, <1>7 DEF CompilesMatch
  <2>2. replaying.type = "compile" => replaying.compile \in wCompiles
    BY <1>5, <1>6 DEF CompilesMatch
  <2> QED BY <1>1, <1>4, <1>8, <2>1, <2>2
<1> HIDE DEF m
<1>11. CASE /\ replaying.type = "compile" /\ sessions' = sessions
            /\ Continue(toPage, todoCompiles, todoSessions, sessions, reopened, dropped)
  <2>1. s = None /\ OpenSessions(sessions) = reopened \cup todoSessions
    BY <1>2, <1>11 DEF ReplaySound
  <2>2. wSessions' = reopened
    BY <1>1, <1>7, <1>9, <1>11
  <2> QED BY <1>1, <1>10, <1>11, <2>1, <2>2, ContinueMatches
<1>12. CASE /\ replaying.type = "open"
            /\ sessions' = IF lost THEN [sessions EXCEPT ![s] = None] ELSE sessions
            /\ Continue(toPage, todoCompiles, todoSessions, sessions',
                        IF lost THEN reopened ELSE reopened \cup {s},
                        IF lost THEN dropped \cup {s} ELSE dropped)
  <2>1. PICK ro, dr, table :
          /\ Continue(toPage, todoCompiles, todoSessions, table, ro, dr)
          /\ ro = IF lost THEN reopened ELSE reopened \cup {s}
    BY <1>12
  <2>2. /\ OpenSessions(sessions) = reopened \cup todoSessions \cup {s}
        /\ s \notin reopened \cup todoSessions
    BY <1>2, <1>8, <1>12 DEF ReplaySound
  <2>3. OpenSessions(sessions') = IF lost THEN OpenSessions(sessions) \ {s}
                                          ELSE OpenSessions(sessions)
    BY <1>8, <1>12 DEF OpenSessions
  <2>4. OpenSessions(sessions') = ro \cup todoSessions
    BY <2>1, <2>2, <2>3
  <2>5. wSessions' = ro
    BY <1>1, <1>9, <2>1
  <2> QED BY <1>1, <1>10, <2>1, <2>4, <2>5, ContinueMatches
<1> QED BY <1>11, <1>12 DEF Replayed, m

\* Nothing is between relay and worker, and the worker is empty.
LEMMA NothingMatches ==
  /\ /\ toWorker = <<>> /\ fromWorker = <<>> /\ taken = {} /\ wSessions = {} /\ compiles = {}
     /\ restarting = FALSE /\ sessions = [s \in Sessions |-> None]
     => Matches
  /\ /\ toWorker' = <<>> /\ fromWorker' = <<>> /\ taken' = {} /\ wSessions' = {}
     /\ compiles' = {} /\ restarting' = FALSE /\ sessions' = [s \in Sessions |-> None]
     => Matches'
<1>1. \A ow, wc : Match({}, {}, {}, ow, {}, {}, wc, {})
  BY DEF Match, WorkMatches, SessionsMatch, CompilesMatch, Told
<1>2. Range(<<>>) = {}
  BY DEF Range
<1>3. ASSUME toWorker = <<>>, fromWorker = <<>>, taken = {}, wSessions = {}, compiles = {},
             restarting = FALSE, sessions = [s \in Sessions |-> None]
      PROVE  Matches
  <2>1. Loaded = {} /\ Built = {}
    BY <1>3 DEF Loaded, Built, OpenSessions
  <2> QED BY <1>1, <1>2, <1>3, <2>1 DEF Matches
<1>4. ASSUME toWorker' = <<>>, fromWorker' = <<>>, taken' = {}, wSessions' = {}, compiles' = {},
             restarting' = FALSE, sessions' = [s \in Sessions |-> None]
      PROVE  Matches'
  <2>1. Loaded' = {} /\ Built' = {}
    BY <1>4 DEF Loaded, Built, OpenSessions
  <2> QED BY <1>1, <1>2, <1>4, <2>1 DEF Matches
<1> QED BY <1>3, <1>4

\* The page does not touch the channels of the worker.
LEMMA ClientLeavesWorker == ASSUME ClientNext PROVE UNCHANGED <<toWorker, fromWorker>>
BY DEF ClientNext, CompileSource, Release, OpenCompiled, OpenCircuit, Close, SessionCall,
       ReceiveReady, ReceiveRestarted, ReceiveFrame, ReceiveReply, IframeLoads, MarkUnavailable,
       channels

\* The relay's own steps keep the table in step with the handles.
LEMMA RelayFits ==
  ASSUME ClientTypeOK, ChannelsTypeOK, RelayTypeOK, CallsInv, Asked, TableSound, AskedOfOpened,
         UNCHANGED clientVars, OnSilence \/ ReplayTimeout \/ RelayStep
  PROVE  TableSound' /\ AskedOfOpened'
<1>1. /\ UNCHANGED <<pending, handle, queued>> /\ pending \in SUBSET PageRequest
      /\ sessions \in [Sessions -> Compiles \cup {None}]
  BY DEF clientVars, ClientTypeOK, RelayTypeOK
<1>2. AskedOfOpened'
  BY <1>1 DEF AskedOfOpened
<1>3. EnRoute(queued', toRelay', held', inFlight')
        \subseteq EnRoute(queued, toRelay, held, inFlight)
  <2>1. CASE Receive
    <3>1. toRelay \in Seq(PageRequest) /\ held \in Seq(PageRequest) /\ toRelay # <<>>
          /\ Head(toRelay) \in PageRequest
      BY <2>1, HeadTailProperties DEF ChannelsTypeOK, RelayTypeOK, Receive
    <3>2. /\ Range(toRelay) = {Head(toRelay)} \cup Range(Tail(toRelay))
          /\ Range(Append(held, Head(toRelay))) = Range(held) \cup {Head(toRelay)}
      BY <3>1, RangeMoves
    <3>3. /\ toRelay' = Tail(toRelay)
          /\ \/ held' = Append(held, Head(toRelay)) /\ inFlight' = inFlight
             \/ held' = held /\ inFlight' = inFlight \cup {Head(toRelay)}
      BY <2>1 DEF Receive
    <3> QED BY <1>1, <3>2, <3>3 DEF EnRoute
  <2>2. CASE Progressed \/ ForwardReply \/ ForwardFrame
    <3>1. inFlight' \subseteq inFlight /\ held' = held /\ toRelay' = toRelay
      BY <2>2 DEF Progressed, ForwardReply, ForwardFrame
    <3> QED BY <1>1, <3>1 DEF EnRoute
  <2>3. CASE Replayed \/ OnSilence \/ ReplayTimeout
    <3>1. \E before, tc, ts, table, ro, dr : Continue(before, tc, ts, table, ro, dr)
      BY <2>3 DEF Replayed, OnSilence, ReplayTimeout
    <3>2. toRelay' = toRelay
      BY <2>3 DEF Replayed, OnSilence, ReplayTimeout
    <3> QED BY <1>1, <3>1, <3>2, ContinueRoutes
  <2> QED BY <2>1, <2>2, <2>3 DEF RelayStep
<1>4. CASE \A s \in Sessions : sessions'[s] # None => sessions[s] # None
  BY <1>1, <1>2, <1>3, <1>4 DEF TableSound
<1>5. CASE ForwardReply
  <2> DEFINE m == Head(fromWorker)
  <2>1. CASE UNCHANGED sessions
    BY <1>4, <2>1
  <2>2. CASE \E q \in inFlight : inFlight' = inFlight \ {q} /\ Remember(q, m)
    <3>1. PICK q \in inFlight : inFlight' = inFlight \ {q} /\ Remember(q, m)
      BY <2>2
    <3>2. q \in pending /\ q \in PageRequest /\ q \in Request
      BY <1>1, <3>1 DEF Asked, Awaited, EnRoute, PageRequest
    <3>3. CASE q.type = "open" /\ sessions' = [sessions EXCEPT ![q.session] = q.compile]
      <4>1. handle[q.session] = "opening" /\ q.session \in Sessions
            /\ \A r \in pending : r.type = "open" /\ r.session = q.session => r = q
        BY <3>2, <3>3, RequestFields DEF Asked, OpensSound
      <4>2. q \notin EnRoute(queued', toRelay', held', inFlight')
        <5>1. /\ queued \in Seq(PageRequest) /\ toRelay \in Seq(PageRequest)
              /\ held \in Seq(PageRequest)
          BY DEF ClientTypeOK, ChannelsTypeOK, RelayTypeOK
        <5>2. q.id \notin Carried(queued) \cup Carried(toRelay) \cup Carried(held)
          BY <3>1 DEF CallsInv, CallsOwed, Ids
        <5>3. q \notin Range(queued) /\ q \notin Range(toRelay) /\ q \notin Range(held)
          <6>1. \A p \in Seq(PageRequest) : p \in Seq(Request)
            BY DEF PageRequest
          <6> QED BY <5>1, <5>2, <6>1, MembersCarried
        <5>4. held' = held /\ toRelay' = toRelay
          BY <1>5 DEF ForwardReply
        <5> QED BY <1>1, <3>1, <5>3, <5>4 DEF EnRoute
      <4>3. \A r \in EnRoute(queued', toRelay', held', inFlight') :
              ~(r.type = "open" /\ r.session = q.session)
        BY <1>3, <4>1, <4>2 DEF Asked, Awaited
      <4>4. \A s \in Sessions : s # q.session => sessions'[s] = sessions[s]
        BY <1>1, <3>3
      <4>5. TableSound'
        <5> SUFFICES ASSUME NEW s \in Sessions, sessions'[s] # None
            PROVE  /\ handle'[s] # "none"
                   /\ \A r \in EnRoute(queued', toRelay', held', inFlight') :
                        ~(r.type = "open" /\ r.session = s)
                   /\ handle'[s] = "opening" =>
                        \E r \in pending' : r.type = "open" /\ r.session = s
          BY DEF TableSound
        <5>1. CASE s = q.session
          BY <1>1, <3>2, <3>3, <4>1, <4>3, <5>1
        <5>2. CASE s # q.session
          BY <1>1, <1>3, <4>4, <5>2 DEF TableSound
        <5> QED BY <5>1, <5>2
      <4> QED BY <1>2, <4>5
    <3>4. CASE q.type = "close" /\ sessions' = [sessions EXCEPT ![q.session] = None]
      BY <1>1, <1>4, <3>4
    <3>5. sessions' = sessions
          \/ (q.type = "open" /\ sessions' = [sessions EXCEPT ![q.session] = q.compile])
          \/ (q.type = "close" /\ sessions' = [sessions EXCEPT ![q.session] = None])
      BY <3>1 DEF Remember
    <3> QED BY <2>1, <3>3, <3>4, <3>5
  <2> QED BY <1>5, <2>1, <2>2 DEF ForwardReply
<1>6. CASE Receive \/ Progressed \/ ForwardFrame \/ OnSilence
  BY <1>4, <1>6 DEF Receive, Progressed, ForwardFrame, OnSilence
<1>7. CASE Replayed \/ ReplayTimeout
  <2>1. sessions' = sessions \/ \E s : sessions' = [sessions EXCEPT ![s] = None]
    BY <1>7 DEF Replayed, ReplayTimeout
  <2> QED BY <1>1, <1>4, <2>1
<1> QED BY <1>5, <1>6, <1>7 DEF RelayStep

\* Every step keeps table, handles and worker in agreement.
LEMMA MatchNext ==
  ASSUME IInv, ReplaySound, CallsInv, Asked, TableSound, AskedOfOpened, Matches, [Next]_vars
  PROVE  TableSound' /\ AskedOfOpened' /\ Matches'
<1>1. ClientTypeOK /\ ChannelsTypeOK /\ RelayTypeOK /\ RelaySide /\ WorkerSide
  BY DEF IInv, TypeOK, RelaySide, WorkerSide
<1>2. CASE ClientStep
  <2>1. UNCHANGED relayVars /\ UNCHANGED workerVars /\ ClientNext
    BY <1>2 DEF ClientStep
  <2>2. UNCHANGED <<toWorker, fromWorker>>
    BY <2>1, ClientLeavesWorker
  <2>3. Matches'
    BY <2>1, <2>2 DEF relayVars, workerVars, Matches, Owed, Loaded, Built
  <2> QED BY <1>1, <2>1, <2>3, ClientFits
<1>3. CASE RelayStep
  <2>1. UNCHANGED clientVars /\ UNCHANGED workerVars
        /\ (Receive \/ Progressed \/ ForwardReply \/ ForwardFrame \/ Replayed)
    BY <1>3 DEF RelayStep
  <2>2. Matches'
    BY <1>1, <2>1, ReceiveMatches, ForwardMatches, ReplayedMatches
  <2> QED BY <1>1, <1>3, <2>1, <2>2, RelayFits
<1>4. CASE RestartStep
  <2>1. UNCHANGED clientVars /\ FreshWorker /\ (OnSilence \/ ReplayTimeout)
    BY <1>4 DEF RestartStep
  <2> QED BY <1>1, <2>1, RelayFits, RestartMatches
<1>5. CASE WorkerStep
  <2>1. UNCHANGED clientVars /\ UNCHANGED relayVars /\ WorkerNext
    BY <1>5 DEF WorkerStep
  <2>2. UNCHANGED toRelay
    BY <2>1 DEF WorkerNext, Take, Answer, Heartbeat, Hang, PushFrame, StepThrows, channels
  <2>3. TableSound' /\ AskedOfOpened'
    BY <2>1, <2>2 DEF TableSound, AskedOfOpened, clientVars, relayVars
  <2> QED BY <1>1, <2>1, <2>3, WorkerMatches
<1>6. CASE DisposeStep
  <2>1. /\ pending' = {} /\ sessions' = [s \in Sessions |-> None] /\ inFlight' = {}
        /\ toWorker' = <<>> /\ fromWorker' = <<>> /\ restarting' = FALSE /\ compiles' = {}
        /\ taken' = {} /\ wSessions' = {}
    BY <1>6 DEF DisposeStep, Dispose, FailAll, RelayGone, Empty, FreshWorker, Idle
  <2>2. TableSound' /\ AskedOfOpened'
    BY <2>1 DEF TableSound, AskedOfOpened
  <2> QED BY <2>1, <2>2, NothingMatches
<1>7. CASE UNCHANGED vars
  <2>1. UNCHANGED <<pending, queued, handle, sessions, inFlight, held, compiles, restarting,
                    replaying, reopened, todoCompiles, taken, wSessions, wCompiles,
                    toRelay, toWorker, fromWorker>>
    BY <1>7 DEF vars, clientVars, relayVars, workerVars, channels
  <2> QED BY <2>1 DEF TableSound, AskedOfOpened, Matches, Owed, Loaded, Built
<1> QED BY <1>2, <1>3, <1>4, <1>5, <1>6, <1>7 DEF Next

\* At the start there is nothing to agree on.
LEMMA MatchInit == ASSUME Init PROVE TableSound /\ AskedOfOpened /\ Matches
<1>1. /\ pending = {} /\ sessions = [s \in Sessions |-> None] /\ inFlight = {}
      /\ toWorker = <<>> /\ fromWorker = <<>> /\ restarting = FALSE /\ compiles = {}
      /\ taken = {} /\ wSessions = {}
  BY DEF Init, ClientInit, RelayInit, Empty, WorkerInit, Idle
<1>2. TableSound /\ AskedOfOpened
  BY <1>1 DEF TableSound, AskedOfOpened
<1> QED BY <1>1, <1>2, NothingMatches

\* What the relay would replay is what the worker has got, but for what it has
\* answered and the relay not yet heard; in a restart, as far as replayed.
THEOREM MatchInvariant ==
  Spec => [](IInv /\ ReplaySound /\ CallsInv /\ Asked /\ TableSound /\ AskedOfOpened /\ Matches)
<1> DEFINE All == /\ IInv /\ ReplaySound /\ CallsInv /\ Asked
                  /\ TableSound /\ AskedOfOpened /\ Matches
<1>1. Init => All
  BY InitHolds, ReplayInit, CallsInit, HandlesInit, MatchInit
<1>2. All /\ [Next]_vars => All'
  BY NextKeeps, ReplayNext, CallsNext, AskedNext, MatchNext
<1> QED BY <1>1, <1>2, PTL DEF Spec

\* Outside a restart the relay's tables (remember of relay.ts) name the sessions
\* and compiles of the worker, but for what it has just answered: the next
\* restart brings back what was there, and nothing else.
THEOREM TableAlwaysMatches == Spec => []TableMatchesWorker
<1>1. ASSUME IInv, CallsInv, Matches PROVE TableMatchesWorker
  <2> SUFFICES ASSUME ~restarting
      PROVE  /\ \A s \in Sessions :
                  LET said(type) == \E k \in DOMAIN fromWorker : \E r \in inFlight :
                        fromWorker[k].type = type /\ r.id = fromWorker[k].id /\ r.session = s
                  IN /\ sessions[s] # None => s \in wSessions \/ said("closed")
                     /\ s \in wSessions => sessions[s] # None \/ said("opened")
             /\ \A c \in compiles :
                  c \in wCompiles \/ \E r \in inFlight : r.type = "release" /\ r.compile = c
    BY DEF TableMatchesWorker
  <2>1. /\ SessionsMatch(wSessions, OpenSessions(sessions), Range(fromWorker), inFlight)
        /\ CompilesMatch(wCompiles, compiles, taken, Range(fromWorker), inFlight)
    BY <1>1 DEF Matches, Match, Owed, Loaded, Built
  <2>2. ASSUME NEW s \in Sessions, NEW type
        PROVE  Told(Range(fromWorker), inFlight, type, s) <=>
                 \E k \in DOMAIN fromWorker : \E r \in inFlight :
                   fromWorker[k].type = type /\ r.id = fromWorker[k].id /\ r.session = s
    BY DEF Told, Range
  <2>3. \A s \in Sessions : s \in OpenSessions(sessions) <=> sessions[s] # None
    BY DEF OpenSessions
  <2> QED BY <2>1, <2>2, <2>3 DEF SessionsMatch, CompilesMatch
<1>2. IInv /\ CallsInv /\ Matches => TableMatchesWorker
  BY <1>1
<1> QED BY <1>2, MatchInvariant, PTL

-----------------------------------------------------------------------------
(* Which sessions run *)

\* A message says that session s runs, or that it does not.
IsReply(m)    == m.type \notin {"ready", "restarted"}
SaysRun(m, s) == IsReply(m) /\ m.session = s /\ m.state = "running"
SaysStop(m, s) ==
  \/ m.type = "restarted" /\ s \in m.sessions \cup m.dropped
  \/ IsReply(m) /\ m.session = s /\ (m.state = "stopped" \/ m.type = "closed")

\* s is in run2 once m is heard by one who has it in run.
Hears(m, s, run, run2) == s \in run2 <=> SaysRun(m, s) \/ (s \in run /\ ~SaysStop(m, s))
Says(m, run, run2) == \A s \in Sessions : Hears(m, s, run, run2)

\* Whether s runs for one who has it in run and hears all of q.
RunsAfter(q, s, run) ==
  \/ \E k \in DOMAIN q : SaysRun(q[k], s) /\ \A j \in DOMAIN q : j > k => ~SaysStop(q[j], s)
  \/ s \in run /\ \A k \in DOMAIN q : ~SaysStop(q[k], s)

\* A reply of request q names its session if it tells of one.
Fits(m, q) ==
  /\ q.id = m.id
  /\ m.state # "none" => m.session = q.session /\ q.type \in {"open", "run", "pause", "op"}
  /\ m.type = "closed" => m.session = q.session /\ q.type = "close"

\* A frame tells of a session, a heartbeat of none; a reply is to one of rs.
Shaped(m, rs) ==
  /\ m.id = NoId => /\ m.type = "updated" => m.session \in Sessions /\ m.state # "none"
                    /\ m.type = "progressed" => m.state = "none"
  /\ m.id # NoId => \E q \in rs : Fits(m, q)
RepliesFit(ms, rs) == \A m \in ms : IsReply(m) => Shaped(m, rs)

Shown == {s \in Sessions : view[s]}

\* A session not open yet runs nowhere, and nobody says that it does.
Unheard ==
  \A s \in Sessions : handle[s] \in {"none", "opening"} =>
    /\ s \notin wRunning /\ s \notin running /\ ~view[s]
    /\ \A m \in Range(fromWorker) \cup Range(toPage) : ~SaysRun(m, s)

\* The relay will have heard from the worker, and the page from the relay, which
\* sessions run.
RunTrack ==
  /\ wRunning \subseteq wSessions
  /\ \A s \in Sessions : s \in wRunning <=> RunsAfter(fromWorker, s, running)
EndOnWay(s) == \E k \in DOMAIN toPage : Ends(toPage[k], pending, s)
ViewTrack ==
  ~restarting => \A s \in Live : EndOnWay(s) \/ (s \in running <=> RunsAfter(toPage, s, Shown))

RunInv ==
  /\ RepliesFit(Range(fromWorker), Owed) /\ RepliesFit(Range(toPage), pending)
  /\ Unheard /\ RunTrack /\ ViewTrack

\* The first message of q is heard.
LEMMA RunsTaken ==
  ASSUME NEW S, NEW q \in Seq(S), q # <<>>, NEW s, NEW run, NEW run2, Hears(Head(q), s, run, run2)
  PROVE  RunsAfter(q, s, run) <=> RunsAfter(Tail(q), s, run2)
<1>1. /\ Len(q) \in Nat \ {0} /\ DOMAIN q = 1 .. Len(q) /\ DOMAIN Tail(q) = 1 .. Len(q) - 1
      /\ \A k \in 1 .. Len(q) - 1 : Tail(q)[k] = q[k + 1]
      /\ Head(q) = q[1]
  OBVIOUS
<1> DEFINE p == Tail(q)
           m == Head(q)
<1> HIDE DEF p, m
<1>2. /\ \A k \in DOMAIN p : k + 1 \in DOMAIN q /\ p[k] = q[k + 1] /\ k \in Nat /\ k # 0
      /\ \A j \in DOMAIN q : j = 1 \/ (j - 1 \in DOMAIN p /\ p[j - 1] = q[j])
      /\ \A j \in DOMAIN q : j \in Nat /\ j # 0
      /\ 1 \in DOMAIN q /\ q[1] = m
  BY <1>1 DEF p, m
<1>3. (\A j \in DOMAIN q : j > 1 => ~SaysStop(q[j], s)) <=> \A k \in DOMAIN p : ~SaysStop(p[k], s)
  <2>1. \A k \in DOMAIN p : k + 1 > 1
    BY <1>2
  <2>2. \A j \in DOMAIN q : j > 1 => j - 1 \in DOMAIN p /\ p[j - 1] = q[j]
    BY <1>2
  <2> QED BY <1>2, <2>1, <2>2
<1>4. (\E k \in DOMAIN q : k # 1 /\ SaysRun(q[k], s)
                           /\ \A j \in DOMAIN q : j > k => ~SaysStop(q[j], s))
        <=> \E k \in DOMAIN p : SaysRun(p[k], s) /\ \A j \in DOMAIN p : j > k => ~SaysStop(p[j], s)
  <2>1. ASSUME NEW k \in DOMAIN q, k # 1, SaysRun(q[k], s),
               \A j \in DOMAIN q : j > k => ~SaysStop(q[j], s)
        PROVE  \E i \in DOMAIN p : SaysRun(p[i], s) /\ \A j \in DOMAIN p : j > i => ~SaysStop(p[j], s)
    <3>1. k - 1 \in DOMAIN p /\ p[k - 1] = q[k]
      BY <1>2, <2>1
    <3>2. ASSUME NEW j \in DOMAIN p, j > k - 1 PROVE ~SaysStop(p[j], s)
      <4>1. j \in Nat /\ k \in Nat /\ j + 1 \in DOMAIN q /\ p[j] = q[j + 1]
        BY <1>2
      <4>2. j + 1 > k
        BY <3>2, <4>1
      <4> QED BY <2>1, <4>1, <4>2
    <3> QED BY <2>1, <3>1, <3>2
  <2>2. ASSUME NEW k \in DOMAIN p, SaysRun(p[k], s),
               \A j \in DOMAIN p : j > k => ~SaysStop(p[j], s)
        PROVE  \E i \in DOMAIN q : i # 1 /\ SaysRun(q[i], s)
                                   /\ \A j \in DOMAIN q : j > i => ~SaysStop(q[j], s)
    <3>1. k + 1 \in DOMAIN q /\ p[k] = q[k + 1] /\ k + 1 # 1
      BY <1>2
    <3>2. ASSUME NEW j \in DOMAIN q, j > k + 1 PROVE ~SaysStop(q[j], s)
      <4>1. j \in Nat /\ k \in Nat /\ j - 1 \in DOMAIN p /\ p[j - 1] = q[j]
        BY <1>2, <3>2
      <4>2. j - 1 > k
        BY <3>2, <4>1
      <4> QED BY <2>2, <4>1, <4>2
    <3> QED BY <2>2, <3>1, <3>2
  <2> QED BY <2>1, <2>2
<1>5. RunsAfter(q, s, run) <=>
        \/ \E k \in DOMAIN q : k # 1 /\ SaysRun(q[k], s)
                               /\ \A j \in DOMAIN q : j > k => ~SaysStop(q[j], s)
        \/ s \in run2 /\ \A j \in DOMAIN q : j > 1 => ~SaysStop(q[j], s)
  <2>1. s \in run2 <=> SaysRun(m, s) \/ (s \in run /\ ~SaysStop(m, s))
    BY DEF Hears, m
  <2>2. (\A k \in DOMAIN q : ~SaysStop(q[k], s))
          <=> ~SaysStop(m, s) /\ \A j \in DOMAIN q : j > 1 => ~SaysStop(q[j], s)
    <3>1. \A j \in DOMAIN q : j = 1 \/ j > 1
      BY <1>2
    <3> QED BY <1>2, <3>1
  <2>3. (\E k \in DOMAIN q : SaysRun(q[k], s) /\ \A j \in DOMAIN q : j > k => ~SaysStop(q[j], s))
          <=> \/ \E k \in DOMAIN q : k # 1 /\ SaysRun(q[k], s)
                                     /\ \A j \in DOMAIN q : j > k => ~SaysStop(q[j], s)
              \/ SaysRun(m, s) /\ \A j \in DOMAIN q : j > 1 => ~SaysStop(q[j], s)
    BY <1>2
  <2> QED BY <2>1, <2>2, <2>3 DEF RunsAfter
<1> QED BY <1>3, <1>4, <1>5 DEF RunsAfter, p

\* A message is posted at the end of q.
LEMMA RunsPosted ==
  ASSUME NEW S, NEW q \in Seq(S), NEW m \in S, NEW s, NEW run
  PROVE  RunsAfter(Append(q, m), s, run)
           <=> SaysRun(m, s) \/ (RunsAfter(q, s, run) /\ ~SaysStop(m, s))
<1> DEFINE p == Append(q, m)
           n == Len(q)
<1>1. /\ n \in Nat /\ DOMAIN q = 1 .. n /\ DOMAIN p = 1 .. n + 1
      /\ \A k \in 1 .. n : p[k] = q[k]
      /\ p[n + 1] = m
  OBVIOUS
<1> HIDE DEF p, n
<1>2. /\ \A k \in DOMAIN q : k \in DOMAIN p /\ p[k] = q[k] /\ n + 1 > k /\ ~(k > n + 1)
      /\ \A k \in DOMAIN p : k = n + 1 \/ k \in DOMAIN q
      /\ n + 1 \in DOMAIN p /\ p[n + 1] = m
      /\ \A k \in DOMAIN p : ~(k > n + 1)
  BY <1>1
<1>3. (\A k \in DOMAIN p : ~SaysStop(p[k], s))
        <=> ~SaysStop(m, s) /\ \A k \in DOMAIN q : ~SaysStop(q[k], s)
  BY <1>2
<1>4. \A i \in DOMAIN q : (\A j \in DOMAIN p : j > i => ~SaysStop(p[j], s))
        <=> ~SaysStop(m, s) /\ \A j \in DOMAIN q : j > i => ~SaysStop(q[j], s)
  BY <1>2
<1>5. (\E k \in DOMAIN p : SaysRun(p[k], s) /\ \A j \in DOMAIN p : j > k => ~SaysStop(p[j], s))
        <=> \/ SaysRun(m, s)
            \/ \E k \in DOMAIN q : SaysRun(q[k], s) /\ \A j \in DOMAIN p : j > k => ~SaysStop(p[j], s)
  BY <1>2
<1>6. (\E k \in DOMAIN p : SaysRun(p[k], s) /\ \A j \in DOMAIN p : j > k => ~SaysStop(p[j], s))
        <=> \/ SaysRun(m, s)
            \/ ~SaysStop(m, s) /\ \E k \in DOMAIN q :
                 SaysRun(q[k], s) /\ \A j \in DOMAIN q : j > k => ~SaysStop(q[j], s)
  BY <1>4, <1>5
<1> QED BY <1>3, <1>6 DEF RunsAfter, p

\* Nothing is to be heard.
LEMMA RunsNow == \A s, run : RunsAfter(<<>>, s, run) <=> s \in run
BY DEF RunsAfter

\* The first message is taken, and with it at most its request.
LEMMA FitsTaken ==
  ASSUME NEW S, NEW q \in Seq(S), q # <<>>, Distinct(q), NEW rs, NEW rs2,
         \A r \in rs : r \in rs2 \/ r.id = IdOf(Head(q)),
         RepliesFit(Range(q), rs)
  PROVE  RepliesFit(Range(Tail(q)), rs2)
<1>1. Range(q) = {Head(q)} \cup Range(Tail(q)) /\ Tail(q) \in Seq(S)
  BY RangeMoves, HeadTailProperties
<1> SUFFICES ASSUME NEW m \in Range(Tail(q)), IsReply(m) PROVE Shaped(m, rs2)
  BY DEF RepliesFit
<1>2. Shaped(m, rs)
  BY <1>1 DEF RepliesFit
<1>3. CASE m.id = NoId
  BY <1>2, <1>3 DEF Shaped
<1>4. CASE m.id # NoId
  <2>1. PICK r \in rs : Fits(m, r)
    BY <1>2, <1>4 DEF Shaped
  <2>2. IdOf(m) = m.id
    BY DEF IdOf, IsReply
  <2>3. m.id \in Carried(Tail(q))
    BY <1>4, <2>2 DEF Carried, Range
  <2>4. r.id # IdOf(Head(q))
    BY <2>1, <2>3, TailCarries DEF Fits
  <2> QED BY <1>4, <2>1, <2>4 DEF Shaped
<1> QED BY <1>3, <1>4

\* What is posted is one message.
LEMMA PostsOne ==
  ASSUME NEW S, fromWorker \in Seq(S), NEW m, NEW n, Post(m), Post(n)
  PROVE  m = n
<1>1. PICK T : T = S \cup {m, n}
  OBVIOUS
<1>2. fromWorker \in Seq(T) /\ m \in T /\ n \in T
  BY <1>1
<1>3. Append(fromWorker, m)[Len(fromWorker) + 1] = m
      /\ Append(fromWorker, n)[Len(fromWorker) + 1] = n
  BY <1>2, AppendProperties
<1> QED BY <1>3 DEF Post

\* What Done and Throws post says what they do.
LEMMA AnswerSays ==
  ASSUME NEW r \in Request, r.type # "release", Done(r) \/ Throws(r),
         fromWorker \in Seq(Reply), wSessions \subseteq Sessions, wRunning \subseteq wSessions
  PROVE  \E m \in Reply :
           /\ Post(m) /\ m.type # "progressed" /\ Fits(m, r)
           /\ Says(m, wRunning, wRunning') /\ wRunning' \subseteq wSessions'
           /\ \A s \in wRunning' : s \in wRunning \/ (r.type = "run" /\ r.session = s)
<1>1. PICK m \in Reply : m.id = r.id /\ m.type # "progressed" /\ Post(m)
  BY AnswerPostsReply
<1>2. ASSUME NEW n, Post(n) PROVE m = n
  BY <1>1, <1>2, PostsOne
<1>3. r.type \in RequestTypes /\ None \notin Sessions
      /\ (r.type # "compile" => r.session \in Sessions)
  BY RequestFields, ProtocolAssumption
<1> SUFFICES /\ Fits(m, r) /\ Says(m, wRunning, wRunning') /\ wRunning' \subseteq wSessions'
             /\ \A s \in wRunning' : s \in wRunning \/ (r.type = "run" /\ r.session = s)
  BY <1>1
<1>4. CASE Throws(r)
  <2>1. m = Failed(r.id) /\ UNCHANGED <<wSessions, wRunning>>
    BY <1>2, <1>4 DEF Throws
  <2>2. m.id = r.id /\ m.type = "failed" /\ m.state = "none"
    BY <2>1 DEF Failed
  <2> QED BY <2>1, <2>2 DEF Fits, Says, Hears, SaysRun, SaysStop
<1>5. CASE Done(r) /\ r.type \in {"compile", "scan"}
  <2>1. \E type \in {"compiled", "scanned"} :
          m = ReplyTo(r, type, "none") /\ UNCHANGED <<wSessions, wRunning>>
    BY <1>2, <1>5 DEF Done
  <2>2. m.id = r.id /\ m.type \in {"compiled", "scanned"} /\ m.state = "none"
    BY <2>1 DEF ReplyTo
  <2> QED BY <2>1, <2>2 DEF Fits, Says, Hears, SaysRun, SaysStop
<1>6. CASE Done(r) /\ r.type = "open"
  <2>1. /\ m = ReplyTo(r, "opened", "stopped") /\ r.session \notin wSessions
        /\ wSessions' = wSessions \cup {r.session} /\ wRunning' = wRunning
    BY <1>2, <1>6 DEF Done
  <2>2. m.id = r.id /\ m.type = "opened" /\ m.state = "stopped" /\ m.session = r.session
    BY <2>1 DEF ReplyTo
  <2> QED BY <1>6, <2>1, <2>2 DEF Fits, Says, Hears, SaysRun, SaysStop, IsReply
<1>7. CASE Done(r) /\ r.type = "close"
  <2>1. /\ m = ReplyTo(r, "closed", "none") /\ wSessions' = wSessions \ {r.session}
        /\ wRunning' = wRunning \ {r.session}
    BY <1>2, <1>7 DEF Done
  <2>2. m.id = r.id /\ m.type = "closed" /\ m.state = "none" /\ m.session = r.session
    BY <2>1 DEF ReplyTo
  <2> QED BY <1>7, <2>1, <2>2 DEF Fits, Says, Hears, SaysRun, SaysStop, IsReply
<1>8. CASE Done(r) /\ r.type \in {"run", "pause", "op"}
  <2>1. /\ r.session \in wSessions /\ wSessions' = wSessions
        /\ wRunning' = CASE r.type = "run"   -> wRunning \cup {r.session}
                         [] r.type = "pause" -> wRunning \ {r.session}
                         [] OTHER            -> wRunning
        /\ Post(ReplyTo(r, "updated", StateOf(r.session, wRunning')))
    BY <1>8 DEF Done
  <2>2. m = ReplyTo(r, "updated", StateOf(r.session, wRunning'))
    BY <1>2, <2>1
  <2>3. /\ m.id = r.id /\ m.type = "updated" /\ m.session = r.session
        /\ m.state = IF r.session \in wRunning' THEN "running" ELSE "stopped"
    BY <2>2 DEF ReplyTo, StateOf
  <2> QED BY <1>8, <2>1, <2>3 DEF Fits, Says, Hears, SaysRun, SaysStop, IsReply
<1> QED BY <1>3, <1>4, <1>5, <1>6, <1>7, <1>8 DEF RequestTypes, SessionOps

\* The worker posts a message that says which sessions run.
LEMMA PostHeard ==
  ASSUME fromWorker \in Seq(Reply), RunInv, NEW m \in Reply, Post(m), Shaped(m, Owed),
         Says(m, wRunning, wRunning'), wRunning' \subseteq wSessions',
         \A s \in Sessions : handle[s] \in {"none", "opening"} =>
            s \notin wRunning' /\ ~SaysRun(m, s),
         UNCHANGED <<Owed, pending, handle, view, running, restarting, toPage>>
  PROVE  RunInv'
<1>1. Range(fromWorker') = Range(fromWorker) \cup {m}
  BY RangeMoves DEF Post
<1>2. RepliesFit(Range(fromWorker'), Owed') /\ RepliesFit(Range(toPage'), pending')
  BY <1>1 DEF RunInv, RepliesFit
<1>3. Unheard'
  BY <1>1 DEF RunInv, Unheard
<1>4. RunTrack'
  <2>1. PICK q, w : q = fromWorker' /\ w = running
    OBVIOUS
  <2>2. \A s \in Sessions : RunsAfter(q, s, w)
                              <=> SaysRun(m, s) \/ (RunsAfter(fromWorker, s, w) /\ ~SaysStop(m, s))
    BY <2>1, RunsPosted DEF Post
  <2>3. \A s \in Sessions : s \in wRunning' <=> RunsAfter(q, s, w)
    BY <2>1, <2>2 DEF RunInv, RunTrack, Says, Hears
  <2> QED BY <2>1, <2>3 DEF RunTrack
<1>5. ViewTrack'
  <2>1. UNCHANGED <<Live, Shown>>
    BY DEF Live, Shown
  <2> QED BY <2>1 DEF RunInv, ViewTrack, EndOnWay
<1> QED BY <1>2, <1>3, <1>4, <1>5 DEF RunInv

\* What the worker takes or answers outside a restart was asked for, and a run of
\* a session that was opened.
LEMMA RunsOpened ==
  ASSUME ClientTypeOK, RelaySide, WorkerSide, Asked, AskedOfOpened, Matches,
         NEW r \in taken, r.type = "run"
  PROVE  r.session \in Sessions /\ handle[r.session] \notin {"none", "opening"}
<1>1. PICK q \in Owed : Same(r, q)
  BY DEF Matches, Match, WorkMatches
<1>2. q.type = "run" /\ q.session = r.session
  BY <1>1 DEF Same
<1>3. ~restarting
  <2>1. restarting => replaying \in ReplayRequest
    BY NoneAssumption DEF RelaySide, RelayTypeOK, WorkerSide, WorkerSeesOneSide
  <2> QED BY <1>1, <1>2, <2>1 DEF Owed, ReplayRequest
<1>4. q \in pending /\ q \in Request
  BY <1>1, <1>3 DEF Owed, Asked, Awaited, EnRoute, ClientTypeOK, PageRequest
<1> QED BY <1>2, <1>4, RequestFields DEF AskedOfOpened, AfterOpen, SessionOps

\* Every step of the worker.
LEMMA WorkerHeard ==
  ASSUME ClientTypeOK, RelaySide, WorkerSide, CallsInv, Asked, AskedOfOpened, Matches, RunInv,
         UNCHANGED <<clientVars, relayVars>>, WorkerNext
  PROVE  RunInv'
<1>1. /\ toWorker \in Seq(Request) /\ fromWorker \in Seq(Reply) /\ taken \in SUBSET Request
      /\ \A r \in taken : r.type # "release"
      /\ wSessions \subseteq Sessions /\ wRunning \subseteq wSessions /\ wRunning \subseteq Sessions
      /\ UNCHANGED <<Owed, pending, handle, view, running, restarting>>
  BY WorkerTypes
     DEF clientVars, relayVars, Owed, WorkerSide, WorkerTypeOK, RunInv, RunTrack
<1>2. toPage' = toPage
  BY DEF WorkerNext, Take, Answer, Heartbeat, Hang, PushFrame, StepThrows, channels
<1>3. ASSUME UNCHANGED <<fromWorker, wRunning, wSessions>> PROVE RunInv'
  BY <1>1, <1>2, <1>3
     DEF RunInv, Unheard, RunTrack, ViewTrack, EndOnWay, Live, Shown
<1>4. ASSUME NEW m \in Reply, Post(m), Shaped(m, Owed), UNCHANGED <<wRunning, wSessions>>,
             \A s \in Sessions : ~SaysStop(m, s) /\ (SaysRun(m, s) => s \in wRunning)
      PROVE  RunInv'
  <2>1. Says(m, wRunning, wRunning') /\ wRunning' \subseteq wSessions'
    BY <1>1, <1>4 DEF Says, Hears
  <2>2. \A s \in Sessions : handle[s] \in {"none", "opening"} =>
          s \notin wRunning' /\ ~SaysRun(m, s)
    BY <1>4 DEF RunInv, Unheard
  <2> QED BY <1>1, <1>2, <1>4, <2>1, <2>2, PostHeard
<1>5. CASE Take
  <2> DEFINE e == Head(toWorker)
             m == [id |-> e.id, type |-> "released", session |-> None, state |-> "none"]
  <2>1. UNCHANGED <<wSessions, wRunning>> /\ toWorker # <<>> /\ (fromWorker' = fromWorker \/ Post(m))
    BY <1>5 DEF Take
  <2>2. e \in Request /\ e \in Range(toWorker)
    BY <1>1, <2>1, HeadTailProperties, RangeMoves
  <2>3. e \in Owed /\ e.id # NoId
    BY <2>2, RequestFields DEF Matches, Match, WorkMatches, NoId
  <2>4. m \in Reply /\ m.id = e.id /\ m.type = "released" /\ m.state = "none"
    BY <2>2 DEF Reply, ReplyTypes, States, Request
  <2> HIDE DEF m, e
  <2>5. Shaped(m, Owed) /\ \A s \in Sessions : ~SaysStop(m, s) /\ ~SaysRun(m, s)
    BY <2>3, <2>4 DEF Shaped, Fits, SaysRun, SaysStop
  <2> QED BY <1>3, <1>4, <2>1, <2>4, <2>5
<1>6. CASE Answer
  <2>1. PICK r \in Answerable : Done(r) \/ Throws(r)
    BY <1>6 DEF Answer
  <2>2. r \in taken /\ r \in Request /\ r.type # "release"
    BY <1>1, <2>1 DEF Answerable
  <2>3. PICK m \in Reply :
          /\ Post(m) /\ m.type # "progressed" /\ Fits(m, r)
          /\ Says(m, wRunning, wRunning') /\ wRunning' \subseteq wSessions'
          /\ \A s \in wRunning' : s \in wRunning \/ (r.type = "run" /\ r.session = s)
    BY <1>1, <2>1, <2>2, AnswerSays
  <2>4. Shaped(m, Owed)
    <3>1. PICK q \in Owed : Same(r, q)
      BY <2>2 DEF Matches, Match, WorkMatches
    <3>2. Fits(m, q)
      BY <2>3, <3>1 DEF Fits, Same
    <3>3. m.id # NoId
      BY <2>2, <2>3, RequestFields DEF Fits, NoId
    <3> QED BY <3>2, <3>3 DEF Shaped
  <2>5. \A s \in Sessions : handle[s] \in {"none", "opening"} =>
          s \notin wRunning' /\ ~SaysRun(m, s)
    <3>1. \A s \in Sessions : handle[s] \in {"none", "opening"} => s \notin wRunning'
      BY <2>2, <2>3, RunsOpened DEF RunInv, Unheard
    <3> QED BY <2>3, <3>1 DEF Says, Hears
  <2> QED BY <1>1, <1>2, <2>3, <2>4, <2>5, PostHeard
<1>7. CASE Heartbeat
  <2> DEFINE m == [id |-> NoId, type |-> "progressed", session |-> None, state |-> "none"]
  <2>1. m \in Reply /\ Post(m) /\ UNCHANGED <<wSessions, wRunning>>
    BY <1>7 DEF Heartbeat, Reply, ReplyTypes, States, workerVars
  <2>2. Shaped(m, Owed) /\ \A s \in Sessions : ~SaysStop(m, s) /\ ~SaysRun(m, s)
    BY DEF Shaped, SaysRun, SaysStop
  <2> HIDE DEF m
  <2> QED BY <1>4, <2>1, <2>2
<1>8. CASE \E s \in Sessions : PushFrame(s)
  <2>1. PICK t \in Sessions : PushFrame(t)
    BY <1>8
  <2> DEFINE m == Frame(t, "running")
  <2>2. m \in Reply /\ Post(m) /\ t \in wRunning /\ UNCHANGED <<wSessions, wRunning>>
    BY <2>1 DEF PushFrame, Frame, Reply, ReplyTypes, States, workerVars
  <2>3. Shaped(m, Owed) /\ \A s \in Sessions : ~SaysStop(m, s) /\ (SaysRun(m, s) => s = t)
    BY DEF Frame, Shaped, SaysRun, SaysStop
  <2> HIDE DEF m
  <2> QED BY <1>4, <2>2, <2>3
<1>9. CASE Hang \/ \E s \in Sessions : StepThrows(s)
  BY <1>3, <1>9 DEF Hang, StepThrows, channels
<1> QED BY <1>5, <1>6, <1>7, <1>8, <1>9 DEF WorkerNext

\* The relay receives a request of the page.
LEMMA ReceiveHeard ==
  ASSUME RunInv, UNCHANGED <<clientVars, workerVars>>, Receive
  PROVE  RunInv'
<1>1. /\ UNCHANGED <<pending, handle, view, wRunning, wSessions, running, restarting>>
      /\ UNCHANGED <<replaying, toPage, fromWorker>>
  BY DEF clientVars, workerVars, Receive
<1>2. inFlight \subseteq inFlight'
  BY DEF Receive
<1>3. Owed \subseteq Owed'
  BY <1>1, <1>2 DEF Owed
<1>4. RepliesFit(Range(fromWorker), Owed')
  BY <1>3 DEF RunInv, RepliesFit, Shaped
<1> QED BY <1>1, <1>4 DEF RunInv, Unheard, RunTrack, ViewTrack, EndOnWay, Live, Shown

\* The relay hears a message of the worker, and passes it on or not.
LEMMA RelayHears ==
  ASSUME ClientTypeOK, ChannelsTypeOK, RunInv, fromWorker # <<>>, fromWorker' = Tail(fromWorker),
         Says(Head(fromWorker), running, running'), RepliesFit(Range(Tail(fromWorker)), Owed'),
         \/ toPage' = toPage /\ running' = running
         \/ toPage' = Append(toPage, Head(fromWorker)) /\ Shaped(Head(fromWorker), pending),
         UNCHANGED <<pending, handle, view, wRunning, wSessions, restarting>>
  PROVE  RunInv'
<1> DEFINE m == Head(fromWorker)
<1>1. /\ fromWorker \in Seq(Reply) /\ toPage \in Seq(PageMessage) /\ m \in PageMessage
      /\ Range(fromWorker) = {m} \cup Range(Tail(fromWorker))
  BY HeadTailProperties, RangeMoves DEF ChannelsTypeOK, PageMessage
<1>2. PICK run2 : run2 = running'
  OBVIOUS
<1>3. \A s \in Sessions : Hears(m, s, running, run2)
  BY <1>2 DEF Says
<1>4. Range(toPage') \subseteq Range(toPage) \cup {m}
      /\ (toPage' # toPage => Shaped(m, pending))
  <2>1. Range(Append(toPage, m)) = Range(toPage) \cup {m}
    BY <1>1, RangeMoves
  <2> QED BY <2>1
<1>5. RepliesFit(Range(fromWorker'), Owed') /\ RepliesFit(Range(toPage'), pending')
  <2>1. RepliesFit(Range(toPage'), pending)
    BY <1>4 DEF RunInv, RepliesFit
  <2> QED BY <2>1
<1>6. Unheard'
  BY <1>1, <1>2, <1>3, <1>4 DEF RunInv, Unheard, Hears
<1> HIDE DEF m
<1>7. RunTrack'
  <2>1. \A s \in Sessions : RunsAfter(fromWorker, s, running)
                              <=> RunsAfter(Tail(fromWorker), s, run2)
    BY <1>1, <1>3, RunsTaken DEF m
  <2>2. \A s \in Sessions : s \in wRunning <=> RunsAfter(Tail(fromWorker), s, run2)
    BY <2>1 DEF RunInv, RunTrack
  <2> QED BY <1>2, <2>2 DEF RunInv, RunTrack
<1>8. ViewTrack'
  <2>1. UNCHANGED <<Live, Shown>> /\ Live \in SUBSET Sessions
    BY DEF Live, Shown
  <2>2. CASE toPage' = toPage /\ running' = running
    BY <2>1, <2>2 DEF RunInv, ViewTrack, EndOnWay
  <2>3. CASE toPage' = Append(toPage, m)
    <3>1. PICK q : q = Append(toPage, m)
      OBVIOUS
    <3>2. \A s, run : RunsAfter(q, s, run)
                        <=> SaysRun(m, s) \/ (RunsAfter(toPage, s, run) /\ ~SaysStop(m, s))
      BY <1>1, <3>1, RunsPosted
    <3>3. \A k \in DOMAIN toPage : k \in DOMAIN q /\ q[k] = toPage[k]
      BY <1>1, <3>1, AppendProperties
    <3>4. ASSUME ~restarting, NEW s \in Live
          PROVE  \/ \E k \in DOMAIN q : Ends(q[k], pending, s)
                 \/ s \in run2 <=> RunsAfter(q, s, Shown)
      <4>1. CASE EndOnWay(s)
        BY <3>3, <4>1 DEF EndOnWay
      <4>2. CASE s \in running <=> RunsAfter(toPage, s, Shown)
        BY <1>3, <2>1, <3>2, <4>2 DEF Hears
      <4> QED BY <3>4, <4>1, <4>2 DEF RunInv, ViewTrack
    <3> QED BY <1>2, <2>1, <2>3, <3>1, <3>4 DEF ViewTrack, EndOnWay
  <2> QED BY <2>2, <2>3 DEF m
<1> QED BY <1>5, <1>6, <1>7, <1>8 DEF RunInv

\* trackRunning keeps what a reply says.
LEMMA TrackHears ==
  ASSUME NEW m \in Reply, NEW request \in Request, Fits(m, request),
         running' = TrackRunning(m, request.session)
  PROVE  Says(m, running, running')
<1>1. m.session \in Sessions \cup {None} /\ None \notin Sessions /\ IsReply(m)
  BY ProtocolAssumption DEF Reply, ReplyTypes, IsReply
<1>2. m.state # "none" \/ m.type = "closed" => m.session = request.session
                                                /\ request.session \in Sessions
  BY RequestFields DEF Fits
<1>3. CASE m.state = "running"
  <2>1. running' = running \cup {m.session} /\ m.type # "closed"
    BY <1>1, <1>2, <1>3 DEF TrackRunning, Fits
  <2> QED BY <1>1, <1>3, <2>1 DEF Says, Hears, SaysRun, SaysStop, IsReply
<1>4. CASE m.state # "running" /\ (m.state = "stopped" \/ m.type = "closed")
  <2>1. running' = running \ {m.session}
    BY <1>1, <1>2, <1>4 DEF TrackRunning
  <2> QED BY <1>1, <1>4, <2>1 DEF Says, Hears, SaysRun, SaysStop, IsReply
<1>5. CASE m.state \notin {"running", "stopped"} /\ m.type # "closed"
  <2>1. running' = running
    BY <1>5 DEF TrackRunning
  <2> QED BY <1>1, <1>5, <2>1 DEF Says, Hears, SaysRun, SaysStop, IsReply
<1> QED BY <1>3, <1>4, <1>5

\* Outside a restart, a message of the worker is heard.
LEMMA ForwardHeard ==
  ASSUME ClientTypeOK, RelaySide, WorkerSide, CallsInv, Asked, RunInv,
         UNCHANGED <<clientVars, workerVars>>, Progressed \/ ForwardReply \/ ForwardFrame
  PROVE  RunInv'
<1> DEFINE m == Head(fromWorker)
<1>1. /\ fromWorker \in Seq(Reply) /\ fromWorker # <<>> /\ fromWorker' = Tail(fromWorker)
      /\ m \in Reply /\ ChannelsTypeOK /\ m \in Range(fromWorker)
      /\ UNCHANGED <<pending, handle, view, wRunning, wSessions, restarting, replaying>>
  <2>1. fromWorker \in Seq(Reply) /\ fromWorker # <<>> /\ fromWorker' = Tail(fromWorker)
    BY WorkerTypes DEF Progressed, ForwardReply, ForwardFrame
  <2>2. m \in Reply /\ m \in Range(fromWorker)
    BY <2>1, HeadTailProperties, RangeMoves
  <2> QED BY <2>1, <2>2 DEF WorkerSide, clientVars, workerVars, Progressed, ForwardReply,
          ForwardFrame
<1>2. ~restarting
  <2>1. m \in Said
    BY <1>1, HeadTailProperties DEF WorkerSide, WorkerSeesOneSide
  <2>2. m.type = "progressed" \/ m.id # ReplayId
    BY DEF Progressed, ForwardReply, ForwardFrame, NoId, ReplayId, PageIds
  <2> QED BY <2>1, <2>2 DEF Said
<1>3. Owed = inFlight /\ Owed' = inFlight'
  BY <1>1, <1>2 DEF Owed
<1>4. /\ WorkerOwes(toWorker, taken, fromWorker, inFlight) /\ OneId(inFlight)
      /\ Distinct(fromWorker)
  BY <1>2 DEF CallsInv, CallsOwed, WorkerOwes
<1>5. IsReply(m) /\ IdOf(m) = m.id /\ Shaped(m, inFlight)
  <2>1. IsReply(m) /\ IdOf(m) = m.id
    BY <1>1, ReplyCarries DEF Reply, ReplyTypes, IsReply
  <2> QED BY <1>1, <1>3, <2>1 DEF RunInv, RepliesFit
<1>6. ASSUME NEW rs2, \A r \in inFlight : r \in rs2 \/ r.id = m.id
      PROVE  RepliesFit(Range(Tail(fromWorker)), rs2)
  <2>1. RepliesFit(Range(fromWorker), inFlight)
    BY <1>3 DEF RunInv
  <2>2. \A r \in inFlight : r \in rs2 \/ r.id = IdOf(Head(fromWorker))
    BY <1>5, <1>6
  <2> HIDE DEF m
  <2> QED BY <1>1, <1>4, <2>1, <2>2, FitsTaken
<1>7. inFlight \subseteq pending /\ inFlight \subseteq Request
  BY DEF Asked, Awaited, EnRoute, ClientTypeOK, PageRequest
<1>8. CASE Progressed
  <2>1. m.id = NoId /\ m.type = "progressed"
    BY <1>1, <1>4, <1>8 DEF WorkerOwes, BeatsHaveNoId, Range, Progressed
  <2>2. UNCHANGED <<running, toPage, inFlight>>
    BY <1>8 DEF Progressed
  <2>3. m.state = "none"
    BY <1>5, <2>1 DEF Shaped
  <2>4. Says(m, running, running')
    BY <2>1, <2>2, <2>3 DEF Says, Hears, SaysRun, SaysStop
  <2>5. RepliesFit(Range(Tail(fromWorker)), Owed')
    BY <1>3, <1>6, <2>2
  <2> QED BY <1>1, <2>2, <2>4, <2>5, RelayHears
<1>9. CASE ForwardFrame
  <2>1. /\ m.id = NoId /\ m.type = "updated" /\ running' = TrackRunning(m, None)
        /\ toPage' = Append(toPage, m) /\ inFlight' = inFlight
    BY <1>9 DEF ForwardFrame
  <2>2. m.session \in Sessions /\ m.state \in {"running", "stopped"}
    BY <1>1, <1>5, <2>1 DEF Shaped, Reply, States
  <2>3. m.session # None
    BY <2>2, ProtocolAssumption
  <2>4. Says(m, running, running')
    <3>1. running' = IF m.state = "running" THEN running \cup {m.session}
                                            ELSE running \ {m.session}
      BY <2>1, <2>2, <2>3 DEF TrackRunning
    <3> QED BY <1>5, <2>1, <2>2, <3>1 DEF Says, Hears, SaysRun, SaysStop
  <2>5. RepliesFit(Range(Tail(fromWorker)), Owed') /\ Shaped(m, pending)
    BY <1>3, <1>5, <1>6, <2>1 DEF Shaped
  <2> QED BY <1>1, <2>1, <2>4, <2>5, RelayHears
<1>10. CASE ForwardReply
  <2>1. m.id # NoId
    BY <1>10 DEF ForwardReply, PageIds, NoId
  <2>2. \E request \in inFlight : request.id = m.id
    BY <1>1, <1>4, <2>1, ForwardOwes
  <2>3. PICK q \in inFlight :
          /\ q.id = m.id /\ inFlight' = inFlight \ {q}
          /\ running' = TrackRunning(m, q.session) /\ toPage' = Append(toPage, m)
    BY <1>10, <2>2 DEF ForwardReply
  <2>4. Fits(m, q) /\ Shaped(m, pending)
    <3>1. \A r \in inFlight : r.id = m.id => r = q
      BY <1>4, <2>3 DEF OneId
    <3>2. Fits(m, q)
      BY <1>5, <2>1, <3>1 DEF Shaped, Fits
    <3> QED BY <1>7, <2>1, <3>2 DEF Shaped
  <2>5. Says(m, running, running')
    BY <1>1, <1>7, <2>3, <2>4, TrackHears
  <2>6. RepliesFit(Range(Tail(fromWorker)), Owed')
    BY <1>3, <1>6, <2>3
  <2> QED BY <1>1, <2>3, <2>4, <2>5, <2>6, RelayHears
<1> QED BY <1>8, <1>9, <1>10

\* A restart goes on or ends: the worker runs nothing, and at the end the page
\* hears of each session, that it was stopped or that it is gone.
LEMMA ContinueHeard ==
  ASSUME NEW before \in Seq(PageMessage), NEW tc, NEW ts, NEW table,
         NEW ro \in SUBSET Sessions, NEW dr \in SUBSET Sessions,
         Continue(before, tc, ts, table, ro, dr), fromWorker' = <<>>,
         wRunning' = {}, running' = {}, OpenSessions(sessions') = ro \cup ts,
         RepliesFit(Range(before), pending),
         \A m \in Range(before), s \in Sessions : SaysRun(m, s) =>
            handle[s] \notin {"none", "opening"},
         \A s \in Sessions : handle[s] \in {"none", "opening"} => ~view[s],
         HandlesInv', UNCHANGED <<pending, handle, view>>
  PROVE  RunInv'
<1>1. Range(fromWorker') = {} /\ RepliesFit(Range(fromWorker'), Owed')
  BY DEF Range, RepliesFit
<1>2. RunTrack'
  <2>1. \A s, run : RunsAfter(<<>>, s, run) <=> s \in run
    BY RunsNow
  <2>2. PICK w : w = running'
    OBVIOUS
  <2>3. \A s \in Sessions : s \in {} <=> RunsAfter(<<>>, s, w)
    BY <2>1, <2>2
  <2> QED BY <2>2, <2>3 DEF RunTrack
<1>3. ASSUME RepliesFit(Range(toPage'), pending),
             \A m \in Range(toPage'), s \in Sessions : SaysRun(m, s) =>
                handle[s] \notin {"none", "opening"}
      PROVE  RepliesFit(Range(toPage'), pending') /\ Unheard'
  BY <1>1, <1>3 DEF Unheard
<1>4. CASE tc = {} /\ ts = {}
  <2> DEFINE T == {Frame(s, "stopped") : s \in ro}
             m == Restarted(ro, dr)
  <2>1. Finish(before, ro, dr) /\ dropped' = {}
    BY <1>4 DEF Continue, Finish
  <2>2. PICK frames \in SetToSeqs(T) : toPage' = before \o frames \o <<m>>
    BY <2>1 DEF Finish
  <2>3. /\ IsFiniteSet(T) /\ T \subseteq PageMessage
        /\ \A n \in T : /\ n.id = NoId /\ n.type = "updated" /\ n.state = "stopped"
                        /\ n.session \in Sessions
    <3>1. IsFiniteSet(T) /\ T \subseteq PageMessage
      BY FramesFinite
    <3>2. \A s \in ro : LET n == Frame(s, "stopped")
                       IN /\ n.id = NoId /\ n.type = "updated" /\ n.state = "stopped"
                          /\ n.session \in Sessions
      BY DEF Frame
    <3> QED BY <3>1, <3>2
  <2>4. m \in PageMessage /\ m.type = "restarted" /\ m.sessions = ro
    BY NoticeTypesHold DEF Restarted
  <2> HIDE DEF T, m
  <2>5. frames \in Seq(PageMessage) /\ frames \in Seq(T)
    BY <2>3, EnumerationType
  <2>6. PICK q \in Seq(PageMessage) : q = before \o frames
    BY <2>5, ConcatProperties
  <2>7. toPage' = Append(q, m)
    BY <2>2, <2>4, <2>6
  <2>8. Range(toPage') \subseteq Range(before) \cup T \cup {m}
    <3>1. Range(q) = Range(before) \cup Range(frames)
      BY <2>5, <2>6, RangeMoves
    <3>2. Range(Append(q, m)) = Range(q) \cup {m}
      BY <2>4, RangeMoves
    <3>3. Range(frames) \subseteq T
      BY <2>5 DEF Range
    <3> QED BY <2>7, <3>1, <3>2, <3>3
  <2>9. \A n \in T : Shaped(n, pending) /\ \A s : ~SaysRun(n, s)
    BY <2>3 DEF Shaped, SaysRun
  <2>10. ~IsReply(m) /\ \A s : ~SaysRun(m, s)
    BY <2>4 DEF IsReply, SaysRun
  <2>11. RepliesFit(Range(toPage'), pending') /\ Unheard'
    <3>1. RepliesFit(Range(toPage'), pending)
      BY <2>8, <2>9, <2>10 DEF RepliesFit
    <3>2. \A n \in Range(toPage'), s \in Sessions : SaysRun(n, s) =>
             handle[s] \notin {"none", "opening"}
      BY <2>8, <2>9, <2>10
    <3> QED BY <1>3, <3>1, <3>2
  <2>12. ASSUME NEW s \in Live'
         PROVE  \/ \E k \in DOMAIN toPage' : Ends(toPage'[k], pending', s)
                \/ s \in running' <=> RunsAfter(toPage', s, Shown')
    <3>1. PICK pg, w, tab, pend : /\ pg = toPage' /\ w = Shown' /\ tab = sessions'
                                  /\ pend = pending'
      OBVIOUS
    <3>2. s \in Sessions /\ (tab[s] # None => s \in ro)
      BY <1>4, <3>1 DEF Live, OpenSessions
    <3>3. \/ tab[s] # None
          \/ \E k \in DOMAIN pg : Ends(pg[k], pend, s)
      BY <2>1, <2>12, <3>1 DEF HandlesInv, HandlesSound, Backed
    <3>4. s \in ro => ~RunsAfter(pg, s, w)
      <4>1. s \in ro => SaysStop(m, s)
        BY <2>4 DEF SaysStop
      <4> QED BY <2>4, <2>7, <2>10, <3>1, <4>1, RunsPosted
    <3> QED BY <3>1, <3>2, <3>3, <3>4
  <2>13. ViewTrack'
    BY <2>12 DEF ViewTrack, EndOnWay
  <2> QED BY <1>1, <1>2, <2>11, <2>13 DEF RunInv
<1>5. CASE ~(tc = {} /\ ts = {})
  <2>1. restarting' = TRUE /\ toPage' = before
    BY <1>5 DEF Continue
  <2>2. RepliesFit(Range(toPage'), pending') /\ Unheard'
    BY <1>3, <2>1
  <2>3. ViewTrack'
    BY <2>1 DEF ViewTrack
  <2> QED BY <1>1, <1>2, <2>2, <2>3 DEF RunInv
<1> QED BY <1>4, <1>5

\* The watchdog fires, a replay is answered or times out.
LEMMA RestartHeard ==
  ASSUME ClientTypeOK, RelaySide, WorkerSide, ReplaySound, CallsInv, Asked, RunInv,
         HandlesInv', UNCHANGED clientVars,
         (OnSilence /\ FreshWorker) \/ (Replayed /\ UNCHANGED workerVars)
           \/ (ReplayTimeout /\ FreshWorker)
  PROVE  RunInv'
<1>1. /\ toPage \in Seq(PageMessage) /\ reopened \in SUBSET Sessions
      /\ dropped \in SUBSET Sessions /\ {} \in SUBSET Sessions
      /\ sessions \in [Sessions -> Compiles \cup {None}]
      /\ UNCHANGED <<pending, handle, view>>
      /\ inFlight \in SUBSET PageRequest /\ IsFiniteSet(inFlight)
      /\ inFlight \subseteq pending
  BY DEF ClientTypeOK, WorkerSide, ChannelsTypeOK, RelaySide, RelayTypeOK, clientVars,
         Asked, Awaited, EnRoute
<1>2. /\ RepliesFit(Range(toPage), pending)
      /\ \A m \in Range(toPage), s \in Sessions : SaysRun(m, s) =>
            handle[s] \notin {"none", "opening"}
      /\ \A s \in Sessions : handle[s] \in {"none", "opening"} => ~view[s]
  BY DEF RunInv, Unheard
<1>3. ASSUME NEW before \in Seq(PageMessage), NEW tc, NEW ts, NEW table,
             NEW ro \in SUBSET Sessions, NEW dr \in SUBSET Sessions,
             Continue(before, tc, ts, table, ro, dr), fromWorker' = <<>>,
             wRunning' = {}, running' = {}, OpenSessions(sessions') = ro \cup ts,
             RepliesFit(Range(before), pending),
             \A m \in Range(before) : m \in Range(toPage) \/ m.state = "none"
      PROVE  RunInv'
  <2>1. \A m \in Range(before), s \in Sessions : SaysRun(m, s) =>
            handle[s] \notin {"none", "opening"}
    BY <1>2, <1>3 DEF SaysRun
  <2> QED BY <1>1, <1>2, <1>3, <2>1, ContinueHeard
<1>4. CASE OnSilence /\ FreshWorker
  <2>1. PICK order \in OldestFirst(inFlight) :
          Continue(toPage \o [k \in DOMAIN order |-> Failed(order[k])],
                   compiles, OpenSessions(sessions), sessions, {}, {})
    BY <1>4 DEF OnSilence
  <2> DEFINE fails == [k \in DOMAIN order |-> Failed(order[k])]
  <2>2. fails \in Seq(PageMessage) /\ Carried(fails) = Ids(inFlight)
    BY <1>1, FailuresCarry
  <2>3. \A m \in Range(fails) : /\ m.state = "none" /\ m.type = "failed"
                                /\ IdOf(m) = m.id
    BY DEF Range, Failed, IdOf
  <2>4. PICK before, ts, nil : /\ before = toPage \o fails /\ ts = OpenSessions(sessions)
                               /\ nil = {}
    OBVIOUS
  <2>5. Continue(before, compiles, ts, sessions, nil, nil) /\ nil \in SUBSET Sessions
    BY <2>1, <2>4
  <2> HIDE DEF fails
  <2>6. /\ before \in Seq(PageMessage)
        /\ Range(before) = Range(toPage) \cup Range(fails)
    BY <1>1, <2>2, <2>4, ConcatProperties, RangeMoves
  <2>7. \A m \in Range(fails) : Shaped(m, pending)
    <3> SUFFICES ASSUME NEW m \in Range(fails) PROVE Shaped(m, pending)
      OBVIOUS
    <3>1. m.id = NoId \/ \E r \in inFlight : r.id = m.id
      <4>1. IdOf(m) \in Carried(fails) \cup {NoId}
        BY DEF Range, Carried
      <4> QED BY <2>2, <2>3, <4>1 DEF Ids
    <3>2. \A r \in inFlight : r.id = m.id => Fits(m, r)
      BY <2>3 DEF Fits
    <3> QED BY <1>1, <2>3, <3>1, <3>2 DEF Shaped
  <2>8. RepliesFit(Range(before), pending)
    BY <1>2, <2>6, <2>7 DEF RepliesFit
  <2>9. fromWorker' = <<>> /\ wRunning' = {} /\ running' = {} /\ sessions' = sessions
    BY <1>4 DEF OnSilence, FreshWorker, Idle
  <2>10. OpenSessions(sessions') = nil \cup ts
    BY <2>4, <2>9
  <2> QED BY <1>3, <2>3, <2>5, <2>6, <2>8, <2>9, <2>10
<1>5. CASE Replayed /\ UNCHANGED workerVars
  <2> DEFINE lost == Head(fromWorker).type # "opened"
             s == replaying.session
  <2>1. /\ replaying \in ReplayRequest /\ fromWorker' = <<>> /\ wRunning' = {} /\ running' = {}
    BY <1>5, ReplayAnswered
  <2>2. restarting
    BY <2>1, NoneAssumption DEF ReplayRequest, WorkerSide, WorkerSeesOneSide
  <2>3. CASE /\ replaying.type = "compile" /\ sessions' = sessions
             /\ Continue(toPage, todoCompiles, todoSessions, sessions, reopened, dropped)
    <3>1. OpenSessions(sessions') = reopened \cup todoSessions
      BY <2>2, <2>3 DEF ReplaySound
    <3> QED BY <1>1, <1>2, <1>3, <2>1, <2>3, <3>1
  <2>4. CASE /\ replaying.type = "open"
             /\ sessions' = IF lost THEN [sessions EXCEPT ![s] = None] ELSE sessions
             /\ Continue(toPage, todoCompiles, todoSessions, sessions',
                         IF lost THEN reopened ELSE reopened \cup {s},
                         IF lost THEN dropped \cup {s} ELSE dropped)
    <3>1. s \in Sessions /\ s # None
      BY <2>1, <2>4, ReplayFields, ProtocolAssumption
    <3>2. PICK ro, dr, table :
            /\ Continue(toPage, todoCompiles, todoSessions, table, ro, dr)
            /\ ro = IF lost THEN reopened ELSE reopened \cup {s}
            /\ dr = IF lost THEN dropped \cup {s} ELSE dropped
      BY <2>4
    <3>3. ro \in SUBSET Sessions /\ dr \in SUBSET Sessions
      BY <1>1, <3>1, <3>2
    <3>4. OpenSessions(sessions) = reopened \cup todoSessions \cup {s}
          /\ s \notin reopened \cup todoSessions
      BY <2>2, <3>1 DEF ReplaySound
    <3>5. OpenSessions(sessions') = IF lost THEN OpenSessions(sessions) \ {s}
                                            ELSE OpenSessions(sessions)
      BY <1>1, <2>4, <3>1 DEF OpenSessions
    <3>6. OpenSessions(sessions') = ro \cup todoSessions
      BY <3>2, <3>4, <3>5
    <3> HIDE DEF lost, s
    <3> QED BY <1>1, <1>2, <1>3, <2>1, <3>2, <3>3, <3>6
  <2> QED BY <1>5, <2>3, <2>4 DEF Replayed
<1>6. CASE ReplayTimeout /\ FreshWorker
  <2>1. PICK tc, ts, table, ro, dr :
          /\ Continue(toPage, tc, ts, table, ro, dr)
          /\ ts = OpenSessions(sessions') /\ ro = {}
          /\ dr = dropped \cup ({replaying.session} \ {None})
    BY <1>6 DEF ReplayTimeout
  <2>2. replaying \in ReplayRequest /\ running' = {}
    <3>1. replaying \in ReplayRequest /\ running' = running
      BY <1>6 DEF ReplayTimeout, RelaySide, RelayTypeOK
    <3>2. restarting
      BY <3>1, NoneAssumption DEF ReplayRequest, WorkerSide, WorkerSeesOneSide
    <3> QED BY <3>1, <3>2 DEF RelaySide, WatchdogArmed
  <2>3. dr \in SUBSET Sessions /\ ro \in SUBSET Sessions
    BY <1>1, <2>1, <2>2, ReplayFields
  <2>4. fromWorker' = <<>> /\ wRunning' = {}
    BY <1>6 DEF ReplayTimeout, FreshWorker, Idle
  <2>5. OpenSessions(sessions') = ro \cup ts
    BY <2>1
  <2> QED BY <1>1, <1>2, <1>3, <2>1, <2>2, <2>3, <2>4, <2>5
<1> QED BY <1>4, <1>5, <1>6

\* The client makes calls, and the page is told nothing.
LEMMA AskHeard ==
  ASSUME RunInv, pending \subseteq pending',
         \A s \in Sessions : handle'[s] \in {"none", "opening"} => handle[s] \in {"none", "opening"},
         \A s \in Live' : s \in Live,
         UNCHANGED <<view, running, wRunning, wSessions, restarting, Owed, toPage, fromWorker>>
  PROVE  RunInv'
<1>1. RepliesFit(Range(toPage'), pending')
  BY DEF RunInv, RepliesFit, Shaped
<1>2. Shown' = Shown
  BY DEF Shown
<1>3. \A s : EndOnWay(s) => EndOnWay(s)'
  BY DEF EndOnWay, Ends
<1>4. ViewTrack'
  BY <1>2, <1>3 DEF RunInv, ViewTrack
<1> QED BY <1>1, <1>4 DEF RunInv, Unheard, RunTrack

\* A message that does not end s is taken: the end of s is still on its way.
LEMMA EndStays ==
  ASSUME NEW pg \in Seq(PageMessage), pg # <<>>, Distinct(pg), NEW pend, NEW pend2, NEW s,
         \A r \in pend : r.id # NoId /\ (r \in pend2 \/ r.id = IdOf(Head(pg))),
         ~Ends(Head(pg), pend, s), \E k \in DOMAIN pg : Ends(pg[k], pend, s)
  PROVE  \E k \in DOMAIN Tail(pg) : Ends(Tail(pg)[k], pend2, s)
<1>1. /\ Len(pg) \in Nat \ {0} /\ DOMAIN pg = 1 .. Len(pg) /\ DOMAIN Tail(pg) = 1 .. Len(pg) - 1
      /\ \A k \in 1 .. Len(pg) - 1 : Tail(pg)[k] = pg[k + 1]
      /\ Head(pg) = pg[1]
  OBVIOUS
<1>2. PICK k \in DOMAIN pg : Ends(pg[k], pend, s)
  OBVIOUS
<1>3. k # 1 /\ k - 1 \in DOMAIN Tail(pg) /\ Tail(pg)[k - 1] = pg[k] /\ 1 \in DOMAIN pg
  BY <1>1, <1>2
<1>4. Ends(pg[k], pend2, s)
  <2>1. CASE pg[k].type = "restarted" /\ s \in pg[k].dropped
    BY <2>1 DEF Ends
  <2>2. CASE ~(pg[k].type = "restarted" /\ s \in pg[k].dropped)
    <3>1. pg[k].type = "closed"
          /\ \E r \in pend : r.id = pg[k].id /\ r.type = "close" /\ r.session = s
      BY <1>2, <2>2 DEF Ends
    <3>2. PICK r \in pend : r.id = pg[k].id /\ r.type = "close" /\ r.session = s
      BY <3>1
    <3>3. IdOf(pg[k]) = r.id
      BY <3>1, <3>2 DEF IdOf
    <3>4. r.id # IdOf(Head(pg))
      BY <1>1, <1>3, <3>3 DEF Distinct
    <3> QED BY <3>1, <3>2, <3>4 DEF Ends
  <2> QED BY <2>1, <2>2
<1> QED BY <1>3, <1>4

\* The client takes a message, and shows what it says of the sessions it does not
\* end; what it opens it has not heard of.
LEMMA TakenHeard ==
  ASSUME ClientTypeOK, ChannelsTypeOK, CallsInv, RunInv, UNCHANGED <<relayVars, workerVars>>,
         toPage # <<>>, toPage' = Tail(toPage), UNCHANGED fromWorker,
         \A r \in pending : r \in pending' \/ r.id = IdOf(Head(toPage)),
         \A s \in Sessions : handle'[s] \in {"none", "opening"} =>
            handle[s] \in {"none", "opening"} /\ (view'[s] => view[s]),
         \A s \in Live' :
            \/ s \in Live /\ ~Ends(Head(toPage), pending, s)
               /\ Hears(Head(toPage), s, Shown, Shown')
            \/ handle[s] = "opening" /\ ~view'[s]
  PROVE  RunInv'
<1> DEFINE m == Head(toPage)
<1>1. /\ toPage \in Seq(PageMessage) /\ Distinct(toPage)
      /\ \A r \in pending : r.id # NoId
      /\ Range(Tail(toPage)) \subseteq Range(toPage) /\ Tail(toPage) \in Seq(PageMessage)
  <2>1. toPage \in Seq(PageMessage) /\ Distinct(toPage)
    BY DEF ChannelsTypeOK, CallsInv, CallsOwed
  <2>2. \A r \in pending : r.id # NoId
    BY DEF ClientTypeOK, PageRequest, PageIds, NoId
  <2> QED BY <2>1, <2>2, HeadTailProperties, RangeMoves
<1>2. UNCHANGED <<running, wRunning, wSessions, restarting, Owed>>
  BY DEF relayVars, workerVars, Owed
<1>3. RepliesFit(Range(fromWorker'), Owed')
  BY <1>2 DEF RunInv
<1>4. RepliesFit(Range(toPage'), pending')
  <2>1. PICK pend2 : pend2 = pending'
    OBVIOUS
  <2>2. RepliesFit(Range(Tail(toPage)), pend2)
    BY <1>1, <2>1, FitsTaken DEF RunInv
  <2> QED BY <2>1, <2>2
<1>5. Unheard'
  BY <1>1, <1>2 DEF RunInv, Unheard
<1>6. RunTrack'
  BY <1>2 DEF RunInv, RunTrack
<1>7. ViewTrack'
  <2>1. PICK q, pend2, shown2 : q = Tail(toPage) /\ pend2 = pending' /\ shown2 = Shown'
    OBVIOUS
  <2>2. ASSUME ~restarting, NEW s \in Live'
        PROVE  (\E k \in DOMAIN q : Ends(q[k], pend2, s))
                 \/ (s \in running <=> RunsAfter(q, s, shown2))
    <3>1. CASE s \in Live /\ ~Ends(m, pending, s) /\ Hears(m, s, Shown, shown2)
      <4>1. CASE EndOnWay(s)
        BY <1>1, <2>1, <3>1, <4>1, EndStays DEF EndOnWay
      <4>2. CASE s \in running <=> RunsAfter(toPage, s, Shown)
        <5>1. RunsAfter(toPage, s, Shown) <=> RunsAfter(q, s, shown2)
          BY <1>1, <2>1, <3>1, RunsTaken
        <5> QED BY <4>2, <5>1
      <4> QED BY <2>2, <3>1, <4>1, <4>2 DEF RunInv, ViewTrack
    <3>2. CASE handle[s] = "opening" /\ ~view'[s]
      <4>1. s \in Sessions
        BY <2>2 DEF Live
      <4>2. s \notin running /\ s \notin shown2
        BY <2>1, <3>2, <4>1 DEF RunInv, Unheard, Shown
      <4>3. \A k \in DOMAIN q : ~SaysRun(q[k], s)
        <5>1. \A n \in Range(toPage) : ~SaysRun(n, s)
          BY <3>2, <4>1 DEF RunInv, Unheard
        <5>2. \A k \in DOMAIN q : q[k] \in Range(q)
          BY DEF Range
        <5> QED BY <1>1, <2>1, <5>1, <5>2
      <4> QED BY <4>2, <4>3 DEF RunsAfter
    <3> QED BY <2>1, <2>2, <3>1, <3>2
  <2> QED BY <1>2, <2>1, <2>2 DEF ViewTrack, EndOnWay
<1> QED BY <1>3, <1>4, <1>5, <1>6, <1>7 DEF RunInv

\* ready, restarted and frames.
LEMMA NoticeHeard ==
  ASSUME ClientTypeOK, ChannelsTypeOK, RelayTypeOK, CallsInv, Asked, RunInv,
         UNCHANGED <<relayVars, workerVars>>, ReceiveReady \/ ReceiveRestarted \/ ReceiveFrame
  PROVE  RunInv'
<1> DEFINE m == Head(toPage)
<1>1. /\ pending \subseteq pending'
      /\ \A s \in Live' : s \in Live /\ (m.type = "restarted" => s \notin m.dropped)
  BY NoticeAsks
<1>2. /\ toPage # <<>> /\ toPage' = Tail(toPage) /\ fromWorker' = fromWorker
      /\ handle \in [Sessions -> HandleStates] /\ view \in [Sessions -> BOOLEAN]
  BY DEF ReceiveReady, ReceiveRestarted, ReceiveFrame, TakeMessage, ClientTypeOK
<1>3. m \in Range(toPage) /\ m \in PageMessage
  BY <1>2, RangeMoves, HeadTailProperties DEF ChannelsTypeOK
<1>4. ASSUME m.type # "closed",
             \A s \in Sessions : handle'[s] \in {"none", "opening"} =>
                handle'[s] = handle[s] /\ (view'[s] => view[s]),
             \A s \in Live' : Hears(m, s, Shown, Shown')
      PROVE  RunInv'
  <2>1. \A s \in Live' : s \in Live /\ ~Ends(m, pending, s)
    BY <1>1, <1>4 DEF Ends
  <2>2. \A r \in pending : r \in pending' \/ r.id = IdOf(m)
    BY <1>1
  <2> QED BY <1>2, <1>4, <2>1, <2>2, TakenHeard
<1>5. CASE ReceiveReady
  <2>1. m.type = "ready" /\ UNCHANGED <<handle, view>>
    BY <1>5 DEF ReceiveReady
  <2>2. \A s \in Live' : Hears(m, s, Shown, Shown')
    BY <2>1 DEF Hears, SaysRun, SaysStop, IsReply, Shown
  <2> QED BY <1>4, <2>1, <2>2
<1>6. CASE ReceiveRestarted
  <2> DEFINE gone == m.dropped \cap Live
             back == (m.sessions \cap Live) \ gone
  <2>1. /\ m.type = "restarted"
        /\ handle' = [s \in Sessions |-> IF s \in gone THEN "closed"
                                         ELSE IF s \in back THEN "restarted" ELSE handle[s]]
        /\ view' = [s \in Sessions |-> view[s] /\ s \notin gone \cup back]
    BY <1>6 DEF ReceiveRestarted
  <2>2. \A s \in Sessions : view'[s] <=> view[s] /\ s \notin gone \cup back
    BY <2>1
  <2>3. \A s \in Sessions : handle'[s] \in {"none", "opening"} => handle'[s] = handle[s]
    BY <2>1
  <2>4. \A s \in Live' : s \in Live /\ s \in Sessions
    BY <1>1 DEF Live
  <2>5. \A s \in Live' : Hears(m, s, Shown, Shown')
    BY <2>1, <2>2, <2>4 DEF Hears, SaysRun, SaysStop, IsReply, Shown
  <2> QED BY <1>4, <2>1, <2>2, <2>3, <2>5
<1>7. CASE ReceiveFrame
  <2>1. /\ m.type = "updated" /\ m.id = NoId /\ handle' = handle
        /\ view' = IF m.session \in Live
                   THEN [view EXCEPT ![m.session] = (m.state = "running")] ELSE view
    BY <1>7 DEF ReceiveFrame
  <2>2. m.session \in Sessions /\ m.state \in {"running", "stopped"} /\ IsReply(m)
    <3>1. IsReply(m) /\ m \in Reply
      BY <1>3, <2>1 DEF IsReply, PageMessage, Ready
    <3> QED BY <1>3, <2>1, <3>1 DEF RunInv, RepliesFit, Shaped, Reply, States
  <2>3. \A s \in Sessions : view'[s] <=> IF s = m.session /\ s \in Live
                                         THEN m.state = "running" ELSE view[s]
    BY <1>2, <2>1, <2>2
  <2>4. \A s \in Live' : s \in Live /\ s \in Sessions
    BY <1>1 DEF Live
  <2>5. \A s \in Live' : Hears(m, s, Shown, Shown')
    BY <2>1, <2>2, <2>3, <2>4 DEF Hears, SaysRun, SaysStop, Shown
  <2>6. \A s \in Sessions : handle'[s] \in {"none", "opening"} => view'[s] = view[s]
    BY <2>1, <2>3 DEF Live
  <2> QED BY <1>4, <2>1, <2>5, <2>6
<1> QED BY <1>5, <1>6, <1>7

\* The reply to a call.
LEMMA ReplyHeard ==
  ASSUME ClientTypeOK, ChannelsTypeOK, RelayTypeOK, CallsInv, Asked, RunInv,
         UNCHANGED <<relayVars, workerVars>>, ReceiveReply
  PROVE  RunInv'
<1> DEFINE m == Head(toPage)
<1>1. /\ toPage # <<>> /\ toPage' = Tail(toPage) /\ fromWorker' = fromWorker
      /\ m.type \notin {"ready", "restarted"} /\ m.id # NoId
      /\ handle \in [Sessions -> HandleStates] /\ view \in [Sessions -> BOOLEAN]
      /\ pending \in SUBSET PageRequest /\ OneId(pending)
  BY DEF ReceiveReply, TakeMessage, ClientTypeOK, CallsInv, CallsOwed
<1>2. m \in Range(toPage) /\ m \in Reply /\ IsReply(m) /\ IdOf(m) = m.id
  <2>1. m \in Range(toPage) /\ m \in PageMessage
    BY <1>1, RangeMoves, HeadTailProperties DEF ChannelsTypeOK
  <2> QED BY <1>1, <2>1 DEF PageMessage, Ready, IsReply, IdOf
<1>3. PICK request \in pending : Fits(m, request)
  BY <1>1, <1>2 DEF RunInv, RepliesFit, Shaped
<1>4. \A r \in pending : r.id = m.id => r = request
  BY <1>1, <1>3 DEF Fits, OneId
<1>5. /\ pending \ {request} \subseteq pending'
      /\ \A s \in Live' : \/ s \in Live /\ ~(request.type = "close" /\ request.session = s)
                          \/ request.type = "open" /\ request.session = s
  BY <1>4, ReplyAsks
<1>6. /\ request.type = "compile" => SettleCompile(request, m.type = "compiled")
      /\ request.type = "open" => SettleOpen(request, m.type = "opened")
      /\ request.type = "close" => SettleClose(request)
      /\ request.type \notin {"compile", "open", "close"} => SettleOther(request, m)
  <2>1. m.id \in Ids(pending)
    BY <1>3 DEF Fits, Ids
  <2>2. PICK r \in pending :
          /\ r.id = m.id
          /\ CASE r.type = "compile" -> SettleCompile(r, m.type = "compiled")
               [] r.type = "open"    -> SettleOpen(r, m.type = "opened")
               [] r.type = "close"   -> SettleClose(r)
               [] OTHER              -> SettleOther(r, m)
    BY <2>1 DEF ReceiveReply
  <2>3. r = request
    BY <1>4, <2>2
  <2> QED BY <2>2, <2>3
<1>7. request \in Request /\ None \notin Sessions
      /\ (request.type \in {"open", "close", "run", "pause", "op", "scan"}
            => request.session \in Sessions)
  <2>1. request \in Request
    BY <1>1 DEF PageRequest
  <2> QED BY <2>1, RequestFields, ProtocolAssumption
<1> HIDE DEF m
<1>8. ASSUME \A s \in Sessions : handle'[s] \in {"none", "opening"} =>
                handle'[s] = handle[s] /\ (view'[s] => view[s]),
             \A s \in Live' : \/ s \in Live /\ Hears(m, s, Shown, Shown')
                              \/ handle[s] = "opening" /\ ~view'[s]
      PROVE  RunInv'
  <2>1. \A s \in Live' : s \in Live => ~Ends(m, pending, s)
    <3> SUFFICES ASSUME NEW s \in Live', s \in Live, Ends(m, pending, s) PROVE FALSE
      OBVIOUS
    <3>1. request.type = "close" /\ request.session = s
      BY <1>2, <1>4 DEF Ends, IsReply
    <3> QED BY <1>5, <3>1
  <2>2. \A r \in pending : r \in pending' \/ r.id = IdOf(m)
    BY <1>2, <1>3, <1>5 DEF Fits
  <2> QED BY <1>1, <1>8, <2>1, <2>2, TakenHeard DEF m
<1>9. Live \subseteq Sessions /\ \A s \in Live' : s \in Sessions
  BY DEF Live
<1>10. CASE request.type = "compile"
  <2>1. /\ view' = view
        /\ \A s \in Sessions : handle'[s] \in {"none", "opening"} => handle'[s] = handle[s]
    BY <1>1, <1>6, <1>10 DEF SettleCompile
  <2>2. m.state = "none" /\ m.type # "closed"
    BY <1>3, <1>10 DEF Fits
  <2>3. \A s \in Live' : s \in Live /\ Hears(m, s, Shown, Shown')
    BY <1>2, <1>5, <1>10, <2>1, <2>2 DEF Hears, SaysRun, SaysStop, IsReply, Shown
  <2> QED BY <1>8, <2>1, <2>3
<1>11. CASE request.type = "open"
  <2>1. /\ view' = view /\ handle[request.session] = "opening"
        /\ \A s \in Sessions : handle'[s] \in {"none", "opening"} => handle'[s] = handle[s]
    <3>1. view' = view /\ handle[request.session] = "opening"
      BY <1>6, <1>11 DEF SettleOpen, Asked, OpensSound
    <3>2. \A s \in Sessions : handle'[s] = handle[s] \/ handle'[s] \in {"open", "failed"}
      BY <1>1, <1>6, <1>7, <1>11 DEF SettleOpen
    <3> QED BY <3>1, <3>2
  <2>2. \A s \in Live' : s = request.session => handle[s] = "opening" /\ ~view'[s]
    BY <1>9, <2>1 DEF RunInv, Unheard
  <2>3. ASSUME NEW s \in Live', s # request.session PROVE s \in Live /\ Hears(m, s, Shown, Shown')
    <3>1. ~SaysRun(m, s) /\ ~SaysStop(m, s)
      BY <1>2, <1>3, <1>11, <2>3 DEF SaysRun, SaysStop, IsReply, Fits
    <3> QED BY <1>5, <2>1, <2>3, <3>1 DEF Hears, Shown
  <2> QED BY <1>8, <2>1, <2>2, <2>3
<1>12. CASE request.type = "close"
  <2> DEFINE gone == {request.session} \cap Live
  <2>1. /\ \A s \in Sessions : handle'[s] \in {"none", "opening"} => handle'[s] = handle[s]
        /\ \A s \in Sessions : view'[s] <=> view[s] /\ s \notin gone
    BY <1>6, <1>12 DEF SettleClose
  <2>2. \A s \in Live' : s \in Live /\ s # request.session
    BY <1>5, <1>12
  <2>3. ASSUME NEW s \in Live' PROVE Hears(m, s, Shown, Shown')
    <3>1. ~SaysRun(m, s) /\ ~SaysStop(m, s)
      BY <1>2, <1>3, <1>12, <2>2 DEF SaysRun, SaysStop, IsReply, Fits
    <3> QED BY <1>9, <2>1, <2>2, <3>1 DEF Hears, Shown
  <2> QED BY <1>8, <2>1, <2>2, <2>3
<1>13. CASE request.type \notin {"compile", "open", "close"}
  <2>1. /\ handle' = handle
        /\ view' = IF m.state # "none" /\ request.session \in Live
                   THEN [view EXCEPT ![request.session] = (m.state = "running")] ELSE view
    BY <1>6, <1>13 DEF SettleOther
  <2>2. \A s \in Sessions : view'[s] <=> IF m.state # "none" /\ s = request.session /\ s \in Live
                                         THEN m.state = "running" ELSE view[s]
    BY <1>1, <1>9, <2>1
  <2>3. m.type # "closed" /\ m.state \in States
    BY <1>2, <1>3, <1>13 DEF Fits, Reply
  <2>4. \A s \in Live' : s \in Live
    BY <1>5, <1>13
  <2>5. ASSUME NEW s \in Live' PROVE Hears(m, s, Shown, Shown')
    <3>1. /\ SaysRun(m, s) <=> s = request.session /\ m.state = "running"
          /\ SaysStop(m, s) <=> s = request.session /\ m.state = "stopped"
      BY <1>2, <1>3, <2>3 DEF SaysRun, SaysStop, IsReply, Fits, States
    <3>2. view'[s] <=> SaysRun(m, s) \/ (view[s] /\ ~SaysStop(m, s))
      BY <1>9, <2>2, <2>3, <2>4, <3>1 DEF States
    <3> QED BY <1>9, <3>2 DEF Hears, Shown
  <2>6. \A s \in Sessions : handle'[s] \in {"none", "opening"} => view'[s] = view[s]
    BY <2>1, <2>2 DEF Live
  <2> QED BY <1>8, <2>1, <2>4, <2>5, <2>6
<1> QED BY <1>10, <1>11, <1>12, <1>13

\* Every step of the client.
LEMMA ClientHeard ==
  ASSUME ClientTypeOK, ChannelsTypeOK, RelayTypeOK, CallsInv, Asked, RunInv,
         UNCHANGED <<relayVars, workerVars>>, ClientNext
  PROVE  RunInv'
<1>1. /\ UNCHANGED <<running, wRunning, wSessions, restarting, Owed, fromWorker>>
      /\ toPage \in Seq(PageMessage) /\ handle \in [Sessions -> HandleStates]
      /\ view \in [Sessions -> BOOLEAN]
  BY ClientLeavesWorker DEF relayVars, workerVars, Owed, ChannelsTypeOK, ClientTypeOK
<1>2. CASE \/ \E c \in Compiles : CompileSource(c) \/ Release(c)
           \/ \E s \in Sessions, c \in Compiles : OpenCompiled(s, c) \/ OpenCircuit(s, c)
           \/ \E s \in Sessions : Close(s) \/ \E type \in OpTypes : SessionCall(s, type)
  <2>1. pending \subseteq pending' /\ (\A s \in Live' : s \in Live) /\ toPage' = toPage
    BY <1>2, UserAsks
  <2>2. /\ view' = view
        /\ \A s \in Sessions :
             handle'[s] \in {"none", "opening"} => handle[s] \in {"none", "opening"}
    BY <1>1, <1>2 DEF CompileSource, Release, OpenCompiled, OpenCircuit, Close, SessionCall
  <2> QED BY <1>1, <2>1, <2>2, AskHeard
<1>3. CASE ReceiveReady \/ ReceiveRestarted \/ ReceiveFrame
  BY <1>3, NoticeHeard
<1>4. CASE ReceiveReply
  BY <1>4, ReplyHeard
<1>5. CASE IframeLoads
  <2>1. toPage' = Append(toPage, Ready) /\ UNCHANGED <<pending, handle, view>>
    BY <1>5 DEF IframeLoads
  <2>2. Ready \in PageMessage /\ ~IsReply(Ready) /\ \A s : ~SaysRun(Ready, s) /\ ~SaysStop(Ready, s)
    BY NoticeTypesHold DEF Ready, PageMessage, IsReply, SaysRun, SaysStop
  <2>3. Range(toPage') = Range(toPage) \cup {Ready}
    BY <1>1, <2>1, <2>2, RangeMoves
  <2>4. RepliesFit(Range(toPage'), pending') /\ Unheard'
    BY <1>1, <2>1, <2>2, <2>3 DEF RunInv, RepliesFit, Unheard
  <2>5. PICK q : q = Append(toPage, Ready)
    OBVIOUS
  <2>6. \A s, run : RunsAfter(q, s, run) <=> RunsAfter(toPage, s, run)
    BY <1>1, <2>2, <2>5, RunsPosted
  <2>7. \A k \in DOMAIN toPage : k \in DOMAIN q /\ q[k] = toPage[k]
    BY <1>1, <2>2, <2>5, AppendProperties
  <2>8. UNCHANGED <<Live, Shown>> /\ toPage' = q
    BY <2>1, <2>5 DEF Live, Shown
  <2>9. ViewTrack'
    BY <1>1, <2>1, <2>6, <2>7, <2>8 DEF RunInv, ViewTrack, EndOnWay
  <2> QED BY <1>1, <2>4, <2>9 DEF RunInv, RunTrack
<1>6. CASE MarkUnavailable
  <2>1. /\ pending' = {} /\ toPage' = toPage /\ status # "ready"
        /\ \A s \in Sessions : handle'[s] = IF handle[s] = "opening" THEN "failed" ELSE handle[s]
        /\ \A s \in Sessions : view'[s] <=> view[s]
    BY <1>6 DEF MarkUnavailable, FailAll, channels
  <2>2. Carried(toPage) = {}
    BY <2>1 DEF CallsInv, NotBegun
  <2>3. \A m \in Range(toPage) : IsReply(m) => m.id = NoId
    BY <2>2 DEF Carried, Range, IdOf, IsReply
  <2>4. RepliesFit(Range(toPage'), pending')
    BY <2>1, <2>3 DEF RunInv, RepliesFit, Shaped
  <2>5. Unheard'
    BY <1>1, <2>1 DEF RunInv, Unheard
  <2>6. Live' = Live /\ Shown' = Shown
    BY <2>1 DEF Live, Shown
  <2>7. ASSUME NEW s, EndOnWay(s) PROVE EndOnWay(s)'
    <3>1. PICK k \in DOMAIN toPage : Ends(toPage[k], pending, s)
      BY <2>7 DEF EndOnWay
    <3>2. CASE toPage[k].type = "closed"
      <4>1. PICK r \in pending : r.id = toPage[k].id
        BY <3>1, <3>2 DEF Ends
      <4>2. r.id = NoId
        BY <2>3, <3>2, <4>1 DEF Range, IsReply
      <4> QED BY <4>2 DEF ClientTypeOK, PageRequest, PageIds, NoId
    <3>3. CASE toPage[k].type # "closed"
      BY <2>1, <3>1, <3>3 DEF Ends, EndOnWay
    <3> QED BY <3>2, <3>3
  <2>8. ViewTrack'
    BY <1>1, <2>1, <2>6, <2>7 DEF RunInv, ViewTrack
  <2> QED BY <1>1, <2>4, <2>5, <2>8 DEF RunInv, RunTrack
<1> QED BY <1>2, <1>3, <1>4, <1>5, <1>6 DEF ClientNext

\* Where nothing runs and nothing is on its way there is nothing to hear.
LEMMA NothingHeard ==
  /\ /\ toPage = <<>> /\ fromWorker = <<>> /\ running = {} /\ wRunning = {}
     /\ \A s \in Sessions : ~view[s]
     => RunInv
  /\ /\ toPage' = <<>> /\ fromWorker' = <<>> /\ running' = {} /\ wRunning' = {}
     /\ \A s \in Sessions : ~view'[s]
     => RunInv'
<1>1. Range(<<>>) = {} /\ \A s, run : RunsAfter(<<>>, s, run) <=> s \in run
  BY RunsNow DEF Range
<1>2. \A rs : RepliesFit({}, rs)
  BY DEF RepliesFit
<1>3. ASSUME toPage = <<>>, fromWorker = <<>>, running = {}, wRunning = {},
             \A s \in Sessions : ~view[s]
      PROVE  RunInv
  <2>1. \A s \in Sessions : s \notin Shown
    BY <1>3 DEF Shown
  <2> QED BY <1>1, <1>2, <1>3, <2>1 DEF RunInv, Unheard, RunTrack, ViewTrack, Live
<1>4. ASSUME toPage' = <<>>, fromWorker' = <<>>, running' = {}, wRunning' = {},
             \A s \in Sessions : ~view'[s]
      PROVE  RunInv'
  <2>1. PICK shown : shown = Shown'
    OBVIOUS
  <2>2. \A s \in Sessions : s \notin shown
    BY <1>4, <2>1 DEF Shown
  <2>3. ViewTrack' /\ RunTrack'
    BY <1>1, <1>4, <2>1, <2>2 DEF RunTrack, ViewTrack, Live
  <2> QED BY <1>1, <1>2, <1>4, <2>3 DEF RunInv, Unheard
<1> QED BY <1>3, <1>4

\* Every step keeps page, relay and worker in agreement on what runs.
LEMMA RunNext ==
  ASSUME IInv, ReplaySound, CallsInv, Asked, HandlesInv, AskedOfOpened, Matches, RunInv,
         [Next]_vars
  PROVE  RunInv'
<1>1. ClientTypeOK /\ ChannelsTypeOK /\ RelayTypeOK /\ RelaySide /\ WorkerSide
  BY DEF IInv, TypeOK, RelaySide, WorkerSide
<1>2. HandlesInv'
  BY HandlesNext
<1>3. CASE ClientStep
  BY <1>1, <1>3, ClientHeard DEF ClientStep
<1>4. CASE RelayStep
  BY <1>1, <1>2, <1>4, ReceiveHeard, ForwardHeard, RestartHeard DEF RelayStep
<1>5. CASE RestartStep
  BY <1>1, <1>2, <1>5, RestartHeard DEF RestartStep
<1>6. CASE WorkerStep
  BY <1>1, <1>6, WorkerHeard DEF WorkerStep
<1>7. CASE DisposeStep
  <2>1. /\ toPage' = <<>> /\ fromWorker' = <<>> /\ running' = {} /\ wRunning' = {}
        /\ \A s \in Sessions : ~view'[s]
    BY <1>7 DEF DisposeStep, Dispose, FailAll, RelayGone, Empty, FreshWorker, Idle
  <2> QED BY <2>1, NothingHeard
<1>8. CASE UNCHANGED vars
  <2>1. /\ UNCHANGED <<pending, handle, view, running, restarting, replaying, inFlight>>
        /\ UNCHANGED <<wRunning, wSessions, toPage, fromWorker>>
    BY <1>8 DEF vars, clientVars, relayVars, workerVars, channels
  <2> QED BY <2>1 DEF RunInv, Owed, Unheard, RunTrack, ViewTrack, EndOnWay, Live, Shown
<1> QED BY <1>3, <1>4, <1>5, <1>6, <1>7, <1>8 DEF Next

\* Nothing runs at the start.
LEMMA RunInit == ASSUME Init PROVE RunInv
<1>1. /\ toPage = <<>> /\ fromWorker = <<>> /\ running = {} /\ wRunning = {}
      /\ \A s \in Sessions : ~view[s]
  BY DEF Init, ClientInit, RelayInit, Empty, WorkerInit, Idle
<1> QED BY <1>1, NothingHeard

\* Once each has heard what is on its way, relay and page know what the worker
\* runs, and nobody hears of a run before the session is open.
THEOREM RunInvariant ==
  Spec => [](/\ IInv /\ ReplaySound /\ CallsInv /\ Asked /\ HandlesInv
             /\ TableSound /\ AskedOfOpened /\ Matches /\ RunInv)
<1> DEFINE All == /\ IInv /\ ReplaySound /\ CallsInv /\ Asked /\ HandlesInv
                  /\ TableSound /\ AskedOfOpened /\ Matches /\ RunInv
<1>1. Init => All
  BY InitHolds, ReplayInit, CallsInit, HandlesInit, MatchInit, RunInit
<1>2. All /\ [Next]_vars => All'
  BY NextKeeps, ReplayNext, CallsNext, AskedNext, HandlesNext, MatchNext, RunNext
<1> QED BY <1>1, <1>2, PTL DEF Spec

\* With no call or message outstanding the page shows as running
\* (simulation-client.ts) exactly the sessions the relay waits for (trackRunning
\* of relay.ts) and the worker runs: no stale frame, lost reply or restart leaves
\* the page showing a run that has stopped.
THEOREM RunStatesAlwaysAgree == Spec => []RunStatesAgree
<1>1. ASSUME IInv, RunInv, Quiet
      PROVE  running = wRunning /\ \A s \in Live : view[s] = (s \in running)
  <2>1. /\ running \subseteq Sessions /\ wRunning \subseteq Sessions
        /\ view \in [Sessions -> BOOLEAN]
        /\ ~restarting /\ toPage = <<>> /\ fromWorker = <<>>
    BY <1>1 DEF IInv, TypeOK, RelayTypeOK, WorkerTypeOK, ClientTypeOK, Quiet
  <2>2. \A s, run : RunsAfter(<<>>, s, run) <=> s \in run
    BY RunsNow
  <2>3. running = wRunning
    BY <1>1, <2>1, <2>2 DEF RunInv, RunTrack
  <2>4. \A s \in Live : s \in running <=> s \in Shown
    BY <1>1, <2>1, <2>2 DEF RunInv, ViewTrack, EndOnWay
  <2>5. \A s \in Live : view[s] = (s \in running)
    BY <2>1, <2>4 DEF Shown, Live
  <2> QED BY <2>3, <2>5
<1>2. IInv /\ RunInv => RunStatesAgree
  BY <1>1 DEF RunStatesAgree
<1> QED BY <1>2, RunInvariant, PTL
=============================================================================
