----------------------------- MODULE StudioProofs -----------------------------
(***************************************************************************)
(* Proofs about Studio, for any number of calls, servers, sockets and tabs *)
(* and any pushes.                                                         *)
(***************************************************************************)
EXTENDS Studio, SequenceTheorems, TLAPS

\* A socket is in one of these states of its two ends: the page's end opens
\* first, an end that is closed holds nothing, and the id is free once both are.
Shaped(sock) ==
  /\ sock \in ConnType
  /\ sock.page = "none" => sock = Unused
  /\ sock.page # "none" => sock.tab \in Tabs /\ sock.port \in Ports
  /\ sock.page \notin {"open", "closed"} => sock.host = None
  /\ sock.page = "closed" => sock.host # None
  /\ sock.page = "open" /\ sock.state = "up" => sock.host # None
  /\ sock.host = None => ~sock.registered /\ sock.toServer = <<>>
  /\ sock.page # "open" => sock.toTab = <<>>

\* Calls that have been pushed.
Begun == {"waiting", "done"}

\* The calls whose render request has been sent to a tab: the slot of no server
\* holds them.
SentCalls ==
  {call \in Calls : /\ calls[call].at \in Begun
                    /\ \A s \in Servers : servers[s].slot # call}

\* Render requests and answers on a socket are of calls sent, with their push.
Carries(sock, sent, of) ==
  /\ \A i \in 1 .. Len(sock.toTab) :
       LET message == sock.toTab[i]
       IN message.call # None =>
            message.call \in sent /\ message.push = of[message.call].push
  /\ \A i \in 1 .. Len(sock.toServer) :
       sock.toServer[i] # Register => sock.toServer[i].call \in sent

SocketsHold == \A c \in Conns : Shaped(conns[c]) /\ Carries(conns[c], SentCalls, calls)

\* Calls that have begun have a push.
CallsHold == \A call \in Calls : calls[call].at # "idle" => calls[call].push \in Pushes

\* A server that is up has a port; its sessions are of different tabs, and only they
\* have a socket; a push has a target; only calls that were pushed are waited for.  The slot holds a call
\* that brought the server's push, and no tab is connected while it does.
ServerSound(server, of) ==
  /\ server \in ServerType /\ IsInjective(server.sessions)
  /\ \A t \in Tabs : server.socket[t] # None => t \in ToSet(server.sessions)
  /\ server.state = "up" =>
       /\ server.port \in Ports
       /\ server.active \in ToSet(server.sessions) \cup {None}
       /\ server.active = None => server.sessions = <<>>
       /\ server.slot # None => server.slot \in server.pending
  /\ \A call \in server.pending : of[call].at \in Begun
  /\ server.slot # None =>
       /\ of[server.slot].at \in Begun /\ of[server.slot].push = server.current
       /\ server.sessions = <<>>

ServersHold ==
  /\ studio # None => Up(studio)
  /\ \A s \in Servers : ServerSound(servers[s], calls)
  /\ \A s, z \in Servers : servers[s].slot = servers[z].slot => servers[s].slot = None \/ s = z

\* A tab that has no source has nothing compiled, and one whose compile is over
\* shows what it compiled, opens it, or failed to.
Settled(tab) ==
  LET push == [src |-> tab.code, start |-> tab.start]
  IN /\ tab.code = None => ~tab.compiling /\ tab.compiled = None /\ tab.opening = None
     /\ tab.code # None /\ ~tab.compiling =>
          /\ tab.compileError <=> tab.code \in Broken
          /\ tab.code \notin Broken =>
               \/ tab.opening = push
               \/ /\ tab.opening = None
                  /\ tab.openError <=> push \in Misfits
                  /\ tab.openError \/ tab.shown = push

TabSound(tab, sent) == Settled(tab) /\ (tab.awaited # None => tab.awaited \in sent)

TabsHold == \A t \in Tabs : TabSound(tabs[t], SentCalls)

IInv ==
  TypeOK /\ SocketsHold /\ CallsHold /\ ServersHold /\ SessionsAreOpen /\ TabsHold

-----------------------------------------------------------------------------
(* Sequences *)

\* The first occurrence removed, from a sequence without repetitions.
LEMMA RemoveFirstRemoves ==
  ASSUME NEW S, NEW q \in Seq(S), IsInjective(q), NEW e \in ToSet(q)
  PROVE  /\ RemoveFirst(q, e) \in Seq(S)
         /\ IsInjective(RemoveFirst(q, e))
         /\ ToSet(RemoveFirst(q, e)) = ToSet(q) \ {e}
<1>1. PICK k \in 1 .. Len(q) : q[k] = e
  BY DEF ToSet
<1>2. {i \in 1 .. Len(q) : q[i] = e} = {k}
  BY <1>1 DEF IsInjective
<1>3. SelectInSeq(q, LAMBDA v : v = e) = k
  BY <1>2 DEF SelectInSeq, Min
<1>4. RemoveFirst(q, e) = SubSeq(q, 1, k - 1) \o SubSeq(q, k + 1, Len(q))
  BY <1>1, <1>3 DEF RemoveFirst, RemoveAt
<1> DEFINE left == SubSeq(q, 1, k - 1)
           right == SubSeq(q, k + 1, Len(q))
<1>5. /\ left \in Seq(S) /\ Len(left) = k - 1 /\ \A i \in 1 .. k - 1 : left[i] = q[i]
      /\ right \in Seq(S) /\ Len(right) = Len(q) - k
      /\ \A i \in 1 .. Len(q) - k : right[i] = q[k + i]
  BY <1>1
<1> HIDE DEF left, right
<1> DEFINE rest == left \o right
<1>6. /\ rest \in Seq(S) /\ Len(rest) = Len(left) + Len(right)
      /\ \A i \in 1 .. Len(left) + Len(right) :
           rest[i] = IF i <= Len(left) THEN left[i] ELSE right[i - Len(left)]
  BY <1>5, ConcatProperties
<1> HIDE DEF rest
<1>7. /\ Len(q) \in Nat /\ Len(rest) = Len(q) - 1 /\ DOMAIN rest = 1 .. Len(q) - 1
      /\ DOMAIN q = 1 .. Len(q)
  BY <1>1, <1>5, <1>6
<1>8. \A i \in DOMAIN rest : rest[i] = IF i < k THEN q[i] ELSE q[i + 1]
  <2> TAKE i \in DOMAIN rest
  <2>1. i \in Nat /\ i \in 1 .. Len(left) + Len(right) /\ Len(left) = k - 1
    BY <1>1, <1>5, <1>7
  <2>2. rest[i] = IF i <= Len(left) THEN left[i] ELSE right[i - Len(left)]
    BY <1>6, <2>1
  <2>3. CASE i < k
    <3>1. left[i] = q[i]
      BY <1>1, <1>5, <2>1, <2>3
    <3> QED BY <1>1, <2>1, <2>2, <2>3, <3>1
  <2>4. CASE ~ (i < k)
    <3>1. i - (k - 1) \in 1 .. Len(q) - k /\ k + (i - (k - 1)) = i + 1
      BY <1>1, <1>7, <2>4
    <3>2. right[i - (k - 1)] = q[i + 1]
      BY <1>5, <3>1
    <3> QED BY <1>1, <2>1, <2>2, <2>4, <3>2
  <2> QED BY <2>3, <2>4
<1>9. IsInjective(rest)
  <2> SUFFICES ASSUME NEW i \in DOMAIN rest, NEW j \in DOMAIN rest, rest[i] = rest[j]
               PROVE  i = j
    BY DEF IsInjective
  <2> DEFINE at(n) == IF n < k THEN n ELSE n + 1
  <2>1. at(i) \in DOMAIN q /\ at(j) \in DOMAIN q /\ q[at(i)] = q[at(j)]
    BY <1>1, <1>7, <1>8
  <2>2. at(i) = at(j)
    BY <2>1 DEF IsInjective
  <2> QED BY <1>1, <1>7, <2>2
<1>10. ToSet(rest) = ToSet(q) \ {e}
  <2>1. ASSUME NEW i \in DOMAIN rest PROVE rest[i] \in ToSet(q) \ {e}
    <3>1. CASE i < k
      BY <1>1, <1>7, <1>8, <3>1 DEF ToSet, IsInjective
    <3>2. CASE ~ (i < k)
      BY <1>1, <1>7, <1>8, <3>2 DEF ToSet, IsInjective
    <3> QED BY <3>1, <3>2
  <2>2. ASSUME NEW j \in DOMAIN q, q[j] # e PROVE q[j] \in ToSet(rest)
    <3>1. j < k => j \in DOMAIN rest /\ rest[j] = q[j]
      BY <1>1, <1>7, <1>8
    <3>2. j > k => j - 1 \in DOMAIN rest /\ rest[j - 1] = q[j]
      BY <1>1, <1>7, <1>8
    <3> QED BY <1>1, <1>7, <2>2, <3>1, <3>2 DEF ToSet
  <2> QED BY <2>1, <2>2 DEF ToSet
<1> QED BY <1>4, <1>6, <1>9, <1>10 DEF rest, left, right

LEMMA AppendAdds ==
  ASSUME NEW S, NEW q \in Seq(S), NEW e \in S
  PROVE  /\ Append(q, e) \in Seq(S) /\ ToSet(Append(q, e)) = ToSet(q) \cup {e}
         /\ IsInjective(q) /\ e \notin ToSet(q) => IsInjective(Append(q, e))
<1> DEFINE p == Append(q, e)
<1>1. /\ p \in Seq(S) /\ Len(q) \in Nat /\ DOMAIN p = 1 .. Len(q) + 1 /\ DOMAIN q = 1 .. Len(q)
      /\ p[Len(q) + 1] = e /\ \A i \in 1 .. Len(q) : p[i] = q[i]
  BY AppendProperties
<1> HIDE DEF p
<1>2. ToSet(p) = ToSet(q) \cup {e}
  <2>1. ToSet(p) \subseteq ToSet(q) \cup {e}
    BY <1>1 DEF ToSet
  <2>2. \A i \in DOMAIN q : i \in DOMAIN p /\ p[i] = q[i]
    BY <1>1
  <2>3. Len(q) + 1 \in DOMAIN p
    BY <1>1
  <2> QED BY <1>1, <2>1, <2>2, <2>3 DEF ToSet
<1>3. IsInjective(q) /\ e \notin ToSet(q) => IsInjective(p)
  BY <1>1 DEF IsInjective, ToSet
<1> QED BY <1>1, <1>2, <1>3 DEF p
-----------------------------------------------------------------------------
(* Sockets *)

USE StudioAssumption, TabAssumption DEF StudioAssumption, TabAssumption

LEMMA UnusedShaped == \A sent, of : Shaped(Unused) /\ Carries(Unused, sent, of)
<1>1. Unused \in ConnType
  BY DEF Unused, ConnType
<1> QED BY <1>1 DEF Unused, Shaped, Carries

LEMMA ConnectingShaped ==
  ASSUME NEW t \in Tabs, NEW port \in Ports, NEW sent, NEW of
  PROVE  LET sock == [Unused EXCEPT !.tab = t, !.port = port, !.page = "connecting"]
         IN Shaped(sock) /\ Carries(sock, sent, of) /\ sock.host = None
<1> DEFINE sock == [Unused EXCEPT !.tab = t, !.port = port, !.page = "connecting"]
<1>1. Unused \in ConnType
  BY UnusedShaped DEF Shaped
<1>2. sock \in ConnType
  BY <1>1 DEF ConnType
<1>3. /\ sock.tab = t /\ sock.port = port /\ sock.page = "connecting" /\ sock.host = None
      /\ ~sock.registered /\ sock.toTab = <<>> /\ sock.toServer = <<>>
  BY DEF Unused
<1> HIDE DEF sock
<1>4. Shaped(sock) /\ Carries(sock, sent, of)
  BY <1>2, <1>3 DEF Shaped, Carries
<1> QED BY <1>3, <1>4 DEF sock

\* A socket that is not open on the server's side is unused, or only the page's.
LEMMA PageClosedShaped ==
  ASSUME NEW sock, Shaped(sock), NEW sent, NEW of, Carries(sock, sent, of)
  PROVE  /\ Shaped(PageClosed(sock)) /\ Carries(PageClosed(sock), sent, of)
         /\ sock.host # None => /\ PageClosed(sock).host = sock.host
                                /\ PageClosed(sock).tab = sock.tab
                                /\ PageClosed(sock).registered = sock.registered
<1>1. CASE sock.host = None
  BY <1>1, UnusedShaped DEF PageClosed
<1>2. CASE sock.host # None
  <2> DEFINE after == [sock EXCEPT !.page = "closed", !.toTab = <<>>]
  <2>1. /\ after \in ConnType /\ after.page = "closed" /\ after.toTab = <<>>
        /\ after.host = sock.host /\ after.tab = sock.tab /\ after.registered = sock.registered
        /\ after.toServer = sock.toServer /\ after.port = sock.port
    BY EmptySeq DEF Shaped, ConnType
  <2> HIDE DEF after
  <2>2. Shaped(after) /\ Carries(after, sent, of)
    BY <1>2, <2>1 DEF Shaped, Carries, Unused
  <2> QED BY <1>2, <2>1, <2>2 DEF PageClosed, after
<1> QED BY <1>1, <1>2

LEMMA HostClosedShaped ==
  ASSUME NEW sock, Shaped(sock), NEW sent, NEW of, Carries(sock, sent, of), sock.host # None
  PROVE  /\ Shaped(HostClosed(sock)) /\ Carries(HostClosed(sock), sent, of)
         /\ HostClosed(sock).host = None
<1>1. CASE sock.page = "closed"
  BY <1>1, UnusedShaped DEF HostClosed, Unused
<1>2. CASE sock.page # "closed"
  <2> DEFINE after == [sock EXCEPT !.host = None, !.toServer = <<>>, !.registered = FALSE,
                                   !.state = IF @ = "up" THEN "closing" ELSE @]
  <2>1. /\ after \in ConnType /\ after.page = sock.page /\ after.toServer = <<>>
        /\ after.host = None /\ after.tab = sock.tab /\ ~after.registered
        /\ after.toTab = sock.toTab /\ after.port = sock.port /\ after.state # "up"
    BY EmptySeq DEF Shaped, ConnType
  <2> HIDE DEF after
  <2>2. Shaped(after) /\ Carries(after, sent, of)
    BY <1>2, <2>1 DEF Shaped, Carries, Unused
  <2> QED BY <1>2, <2>1, <2>2 DEF HostClosed, after
<1> QED BY <1>1, <1>2

LEMMA CutShaped ==
  ASSUME NEW sock, Shaped(sock), NEW sent, NEW of, Carries(sock, sent, of),
         sock.page = "open", sock.host # None
  PROVE  LET cut == [sock EXCEPT !.state = "cut", !.toTab = <<>>, !.toServer = <<>>]
         IN Shaped(cut) /\ Carries(cut, sent, of) /\ cut.host = sock.host
              /\ cut.tab = sock.tab /\ cut.registered = sock.registered
<1> DEFINE cut == [sock EXCEPT !.state = "cut", !.toTab = <<>>, !.toServer = <<>>]
<1>1. /\ cut \in ConnType /\ cut.page = "open" /\ cut.toTab = <<>> /\ cut.toServer = <<>>
      /\ cut.host = sock.host /\ cut.tab = sock.tab /\ cut.registered = sock.registered
      /\ cut.port = sock.port /\ cut.state = "cut"
  BY EmptySeq DEF Shaped, ConnType
<1> HIDE DEF cut
<1>2. Shaped(cut) /\ Carries(cut, sent, of)
  BY <1>1 DEF Shaped, Carries
<1> QED BY <1>1, <1>2 DEF cut

LEMMA ClosingShaped ==
  ASSUME NEW sock, Shaped(sock), NEW sent, NEW of, Carries(sock, sent, of), sock.host # None
  PROVE  LET closing == [sock EXCEPT !.state = "closing"]
         IN Shaped(closing) /\ Carries(closing, sent, of) /\ closing.host = sock.host
              /\ closing.tab = sock.tab /\ closing.registered = sock.registered
<1> DEFINE closing == [sock EXCEPT !.state = "closing"]
<1>1. /\ closing \in ConnType /\ closing.page = sock.page /\ closing.toTab = sock.toTab
      /\ closing.toServer = sock.toServer /\ closing.port = sock.port
      /\ closing.host = sock.host /\ closing.tab = sock.tab
      /\ closing.registered = sock.registered /\ closing.state = "closing"
  BY DEF Shaped, ConnType
<1> HIDE DEF closing
<1>2. Shaped(closing) /\ Carries(closing, sent, of)
  BY <1>1 DEF Shaped, Carries, Unused
<1> QED BY <1>1, <1>2 DEF closing

LEMMA SentToTabShaped ==
  ASSUME NEW sock, Shaped(sock), NEW sent, NEW of, Carries(sock, sent, of),
         NEW message \in ToTab,
         message.call # None => message.call \in sent /\ message.push = of[message.call].push
  PROVE  LET after == SendToTab(sock, message)
         IN Shaped(after) /\ Carries(after, sent, of) /\ after.host = sock.host
              /\ after.tab = sock.tab /\ after.registered = sock.registered
<1>1. CASE ~ (sock.page = "open" /\ sock.state = "up")
  BY <1>1 DEF SendToTab
<1>2. CASE sock.page = "open" /\ sock.state = "up"
  <2> DEFINE q == Append(sock.toTab, message)
             after == [sock EXCEPT !.toTab = q]
  <2>1. sock.toTab \in Seq(ToTab)
    BY DEF Shaped, ConnType
  <2>2. /\ q \in Seq(ToTab) /\ Len(q) = Len(sock.toTab) + 1 /\ q[Len(sock.toTab) + 1] = message
        /\ \A i \in 1 .. Len(sock.toTab) : q[i] = sock.toTab[i]
    BY <2>1, AppendProperties
  <2> HIDE DEF q
  <2>3. Shaped(after)
    BY <1>2, <2>2 DEF Shaped, ConnType
  <2>4. Carries(after, sent, of)
    BY <2>1, <2>2 DEF Shaped, ConnType, Carries
  <2>5. after.host = sock.host /\ after.tab = sock.tab /\ after.registered = sock.registered
    BY DEF Shaped, ConnType
  <2> QED BY <1>2, <2>3, <2>4, <2>5 DEF SendToTab, q
<1> QED BY <1>1, <1>2

LEMMA SentToServerShaped ==
  ASSUME NEW sock, Shaped(sock), NEW sent, NEW of, Carries(sock, sent, of),
         NEW call \in Calls, call \in sent, NEW ok \in BOOLEAN
  PROVE  LET after == SendToServer(sock, Result(call, ok))
         IN Shaped(after) /\ Carries(after, sent, of) /\ after.host = sock.host
              /\ after.tab = sock.tab /\ after.registered = sock.registered
<1>1. CASE ~ (sock.page = "open" /\ sock.state = "up")
  BY <1>1 DEF SendToServer
<1>2. CASE sock.page = "open" /\ sock.state = "up"
  <2> DEFINE result == Result(call, ok)
             q == Append(sock.toServer, result)
             after == [sock EXCEPT !.toServer = q]
  <2>1. sock.toServer \in Seq(ToServer)
    BY DEF Shaped, ConnType
  <2>2. result \in ToServer /\ result.call = call
    BY DEF ToServer, Results, Result
  <2> HIDE DEF result
  <2>3. /\ q \in Seq(ToServer) /\ Len(q) = Len(sock.toServer) + 1
        /\ q[Len(sock.toServer) + 1] = result
        /\ \A i \in 1 .. Len(sock.toServer) : q[i] = sock.toServer[i]
    BY <2>1, <2>2, AppendProperties
  <2> HIDE DEF q
  <2>4. Shaped(after)
    BY <1>2, <2>3 DEF Shaped, ConnType
  <2>5. Carries(after, sent, of)
    BY <2>1, <2>2, <2>3 DEF Shaped, ConnType, Carries
  <2>6. after.host = sock.host /\ after.tab = sock.tab /\ after.registered = sock.registered
    BY DEF Shaped, ConnType
  <2> QED BY <1>2, <2>4, <2>5, <2>6 DEF SendToServer, q, result
<1> QED BY <1>1, <1>2

\* A message taken by the page, and one taken by the server.
LEMMA TakenByTab ==
  ASSUME NEW sock, Shaped(sock), NEW sent, NEW of, Carries(sock, sent, of),
         sock.page = "open", sock.toTab # <<>>
  PROVE  /\ LET after == [sock EXCEPT !.toTab = Tail(@)]
            IN Shaped(after) /\ Carries(after, sent, of) /\ after.host = sock.host
                 /\ after.tab = sock.tab /\ after.registered = sock.registered
         /\ Head(sock.toTab) \in ToTab
         /\ Head(sock.toTab).call # None => Head(sock.toTab).call \in sent
<1> DEFINE q == Tail(sock.toTab)
           after == [sock EXCEPT !.toTab = q]
<1>1. sock.toTab \in Seq(ToTab)
  BY DEF Shaped, ConnType
<1>2. /\ q \in Seq(ToTab) /\ Len(q) = Len(sock.toTab) - 1 /\ Head(sock.toTab) = sock.toTab[1]
      /\ \A i \in 1 .. Len(q) : q[i] = sock.toTab[i + 1]
      /\ Len(sock.toTab) \in Nat /\ 1 \in 1 .. Len(sock.toTab)
  BY <1>1, HeadTailProperties, EmptySeq
<1> HIDE DEF q
<1>3. Shaped(after)
  BY <1>2 DEF Shaped, ConnType
<1>4. Carries(after, sent, of)
  <2>1. after.toTab = q /\ after.toServer = sock.toServer
    BY DEF Shaped, ConnType
  <2>2. \A i \in 1 .. Len(q) : i + 1 \in 1 .. Len(sock.toTab)
    BY <1>2
  <2> QED BY <1>2, <2>1, <2>2 DEF Carries
<1>5. Head(sock.toTab) \in ToTab /\ (Head(sock.toTab).call # None => Head(sock.toTab).call \in sent)
  BY <1>1, <1>2 DEF Carries
<1>6. after.host = sock.host /\ after.tab = sock.tab /\ after.registered = sock.registered
  BY DEF Shaped, ConnType
<1> QED BY <1>3, <1>4, <1>5, <1>6 DEF q

TakenFrom(sock, known) == [sock EXCEPT !.toServer = Tail(@), !.registered = known]

LEMMA TakenByServer ==
  ASSUME NEW sock, Shaped(sock), NEW sent, NEW of, Carries(sock, sent, of),
         sock.host # None, sock.toServer # <<>>, NEW known \in BOOLEAN
  PROVE  /\ LET after == TakenFrom(sock, known)
            IN Shaped(after) /\ Carries(after, sent, of) /\ after.host = sock.host
                 /\ after.tab = sock.tab /\ after.registered = known
         /\ Head(sock.toServer) # Register =>
              Head(sock.toServer).call \in sent /\ Head(sock.toServer).call \in Calls
<1> DEFINE q == Tail(sock.toServer)
           after == [sock EXCEPT !.toServer = q, !.registered = known]
<1>1. sock.toServer \in Seq(ToServer)
  BY DEF Shaped, ConnType
<1>2. /\ q \in Seq(ToServer) /\ Len(q) = Len(sock.toServer) - 1
      /\ Head(sock.toServer) = sock.toServer[1]
      /\ \A i \in 1 .. Len(q) : q[i] = sock.toServer[i + 1]
      /\ Len(sock.toServer) \in Nat /\ 1 \in 1 .. Len(sock.toServer)
  BY <1>1, HeadTailProperties, EmptySeq
<1> HIDE DEF q
<1>3. Shaped(after)
  BY <1>2 DEF Shaped, ConnType
<1>4. Carries(after, sent, of)
  <2>1. after.toServer = q /\ after.toTab = sock.toTab
    BY DEF Shaped, ConnType
  <2> HIDE DEF after
  <2>2. ASSUME NEW i \in 1 .. Len(q), q[i] # Register PROVE q[i].call \in sent
    <3>1. i + 1 \in 1 .. Len(sock.toServer) /\ q[i] = sock.toServer[i + 1]
      BY <1>2
    <3> QED BY <2>2, <3>1 DEF Carries
  <2> QED BY <2>1, <2>2 DEF Carries
<1>5. Head(sock.toServer) # Register =>
        Head(sock.toServer).call \in sent /\ Head(sock.toServer).call \in Calls
  BY <1>1, <1>2 DEF Carries, ToServer, Results, Result
<1>6. after.host = sock.host /\ after.tab = sock.tab /\ after.registered = known
  BY DEF Shaped, ConnType
<1> QED BY <1>3, <1>4, <1>5, <1>6 DEF q, TakenFrom

\* More calls sent, and those sent before with the push they had.
LEMMA CarriesMore ==
  ASSUME NEW sock, NEW sent, NEW of, Carries(sock, sent, of), NEW more, NEW after,
         sent \subseteq more, \A call \in sent : after[call].push = of[call].push
  PROVE  Carries(sock, more, after)
BY DEF Carries

-----------------------------------------------------------------------------
(* Steps of the pages and their sockets *)

\* What such a step does to the sockets: each stays sound, and one that is open
\* on the server's side stays the tab's it was.
SocketsStep ==
  /\ conns' = [c \in Conns |-> conns'[c]]
  /\ \A c \in Conns :
       /\ Shaped(conns'[c]) /\ Carries(conns'[c], SentCalls, calls)
       /\ conns[c].host # None => /\ conns'[c].host = conns[c].host
                                  /\ conns'[c].tab = conns[c].tab
                                  /\ conns'[c].registered = conns[c].registered

TabsStep ==
  /\ tabs' = [t \in Tabs |-> tabs'[t]] /\ saved' \subseteq Ports
  /\ \A t \in Tabs : tabs'[t] \in TabType /\ TabSound(tabs'[t], SentCalls)

LEMMA PageSideKeeps ==
  ASSUME IInv, SocketsStep, TabsStep, faults' \in 0 .. MaxFaults,
         UNCHANGED <<studio, browserOpened, servers, calls>>, launching' \subseteq Ports
  PROVE  IInv'
<1>1. conns' \in [Conns -> ConnType] /\ tabs' \in [Tabs -> TabType]
  <2>1. \A c \in Conns : conns'[c] \in ConnType
    BY DEF SocketsStep, Shaped
  <2> QED BY <2>1 DEF SocketsStep, TabsStep
<1>2. TypeOK'
  BY <1>1 DEF IInv, TypeOK, TabsStep
<1>3. SentCalls' = SentCalls
  BY DEF SentCalls
<1>4. SocketsHold' /\ TabsHold'
  BY <1>3 DEF SocketsStep, TabsStep, SocketsHold, TabsHold
<1>5. SessionsAreOpen'
  <2> SUFFICES ASSUME NEW s \in Servers, NEW t \in ToSet(servers[s].sessions)
               PROVE  LET c == servers[s].socket[t]
                      IN c # None /\ conns'[c].host = s /\ conns'[c].tab = t /\ conns'[c].registered
    BY DEF SessionsAreOpen
  <2> DEFINE c == servers[s].socket[t]
  <2>1. c # None /\ conns[c].host = s /\ conns[c].tab = t /\ conns[c].registered
    BY DEF IInv, SessionsAreOpen
  <2>2. c \in Conns
    <3>1. servers[s] \in ServerType
      BY DEF IInv, TypeOK
    <3>2. t \in Tabs
      BY <3>1 DEF ServerType, ToSet
    <3> QED BY <2>1, <3>1, <3>2 DEF ServerType
  <2> QED BY <2>1, <2>2 DEF SocketsStep
<1>6. ServersHold' /\ CallsHold'
  BY DEF IInv, ServersHold, CallsHold, Up
<1> QED BY <1>2, <1>4, <1>5, <1>6 DEF IInv

LEMMA SocketsUnchanged == ASSUME IInv, UNCHANGED conns PROVE SocketsStep
  BY DEF IInv, TypeOK, SocketsHold, SocketsStep

\* One socket changes.
LEMMA OneSocket ==
  ASSUME IInv, NEW c \in Conns, NEW sock, conns' = [conns EXCEPT ![c] = sock],
         Shaped(sock), Carries(sock, SentCalls, calls),
         conns[c].host # None => /\ sock.host = conns[c].host /\ sock.tab = conns[c].tab
                                 /\ sock.registered = conns[c].registered
  PROVE  SocketsStep
BY DEF IInv, TypeOK, SocketsHold, SocketsStep

LEMMA TabsUnchanged == ASSUME IInv, UNCHANGED tabVars PROVE TabsStep
  BY DEF IInv, TypeOK, TabsHold, TabsStep, tabVars

\* One tab changes.
LEMMA OneTab ==
  ASSUME IInv, NEW t \in Tabs, NEW tab, tabs' = [tabs EXCEPT ![t] = tab], saved' \subseteq Ports,
         tab \in TabType, TabSound(tab, SentCalls)
  PROVE  TabsStep
BY DEF IInv, TypeOK, TabsHold, TabsStep

LEMMA ConnectSockets ==
  ASSUME IInv, NEW t \in Tabs, NEW port \in Ports, NEW c \in Conns, Connect(t, port, c)
  PROVE  SocketsStep
<1> DEFINE new == [Unused EXCEPT !.tab = t, !.port = port, !.page = "connecting"]
<1>1. conns' = [d \in Conns |-> IF d = c THEN new
                                ELSE IF d = tabs[t].ws THEN PageClosed(conns[d]) ELSE conns[d]]
  BY DEF Connect
<1>2. Shaped(new) /\ Carries(new, SentCalls, calls)
  BY ConnectingShaped
<1>3. conns[c].host = None
  BY DEF Connect, FreeConn, Unused
<1> HIDE DEF new
<1>4. ASSUME NEW d \in Conns
      PROVE  /\ Shaped(conns'[d]) /\ Carries(conns'[d], SentCalls, calls)
             /\ conns[d].host # None => /\ conns'[d].host = conns[d].host
                                        /\ conns'[d].tab = conns[d].tab
                                        /\ conns'[d].registered = conns[d].registered
  <2>1. Shaped(conns[d]) /\ Carries(conns[d], SentCalls, calls)
    BY DEF IInv, SocketsHold
  <2>2. CASE d = c
    BY <1>1, <1>2, <1>3, <2>2
  <2>3. CASE d # c /\ d = tabs[t].ws
    BY <1>1, <2>1, <2>3, PageClosedShaped
  <2>4. CASE d # c /\ d # tabs[t].ws
    BY <1>1, <2>1, <2>4
  <2> QED BY <2>2, <2>3, <2>4
<1> QED BY <1>1, <1>4 DEF SocketsStep

\* Steps of the connection leave the editor alone.
SameEditor(tab, after) ==
  /\ after.code = tab.code /\ after.start = tab.start /\ after.awaited = tab.awaited
  /\ after.compiling = tab.compiling /\ after.compiled = tab.compiled
  /\ after.opening = tab.opening /\ after.shown = tab.shown
  /\ after.compileError = tab.compileError /\ after.openError = tab.openError

LEMMA Connection ==
  ASSUME NEW tab, TabSound(tab, SentCalls), NEW after, SameEditor(tab, after)
  PROVE  TabSound(after, SentCalls)
BY DEF TabSound, Settled, SameEditor

LEMMA NoTabType == NoTab \in TabType
<1>1. 0 \in 0 .. MaxAttempts
  OBVIOUS
<1> QED BY <1>1 DEF TabType, NoTab

LEMMA LoadKeeps ==
  ASSUME IInv, NEW t \in Tabs, NEW port \in Ports, NEW c \in Conns, Load(t, port, c)
  PROVE  SocketsStep /\ TabsStep
<1>1. SocketsStep
  BY ConnectSockets DEF Load
<1> DEFINE tab == [tabs[t] EXCEPT !.state = "live", !.port = port, !.ws = c]
<1>2. tabs' = [tabs EXCEPT ![t] = tab] /\ saved' \subseteq Ports
  BY DEF Load, IInv, TypeOK
<1>3. tabs[t] \in TabType /\ TabSound(tabs[t], SentCalls)
  BY DEF IInv, TypeOK, TabsHold
<1>4. tab \in TabType
  BY <1>3 DEF TabType
<1>5. TabSound(tab, SentCalls)
  <2>1. SameEditor(tabs[t], tab)
    BY <1>3, <1>4 DEF TabType, SameEditor
  <2> HIDE DEF tab
  <2> QED BY <1>3, <1>4, <2>1, Connection
<1> QED BY <1>1, <1>2, <1>4, <1>5, OneTab

LEMMA AcceptedKeeps ==
  ASSUME IInv, NEW c \in Conns, NEW s \in Servers, Accepted(c, s)
  PROVE  SocketsStep /\ TabsStep
<1>1. Shaped(conns[c]) /\ Carries(conns[c], SentCalls, calls) /\ conns[c].page = "connecting"
  BY DEF IInv, SocketsHold, Accepted
<1>2. SocketsStep
  <2> DEFINE sock == [conns[c] EXCEPT !.page = "open", !.host = s, !.toServer = <<Register>>]
  <2>1. conns' = [conns EXCEPT ![c] = sock]
    BY DEF Accepted
  <2>2. <<Register>> \in Seq(ToServer)
    BY DEF ToServer
  <2>3. /\ sock \in ConnType /\ sock.page = "open" /\ sock.host = s
        /\ sock.toServer = <<Register>> /\ sock.toTab = conns[c].toTab
        /\ sock.tab = conns[c].tab /\ sock.port = conns[c].port
    BY <1>1, <2>2 DEF Shaped, ConnType
  <2>4. Shaped(sock) /\ Carries(sock, SentCalls, calls)
    BY <1>1, <2>3 DEF Shaped, Carries
  <2>5. conns[c].host = None
    BY <1>1 DEF Shaped
  <2> QED BY <2>1, <2>4, <2>5, OneSocket
<1>3. TabsStep
  <2> DEFINE t == conns[c].tab
             tab == [tabs[t] EXCEPT !.attempts = 0]
  <2>1. t \in Tabs
    BY <1>1 DEF Shaped
  <2>2. tabs[t] \in TabType /\ TabSound(tabs[t], SentCalls)
    BY <2>1 DEF IInv, TypeOK, TabsHold
  <2>3. tab \in TabType
    BY <2>2 DEF TabType
  <2>4. TabSound(tab, SentCalls)
    <3>1. SameEditor(tabs[t], tab)
      BY <2>2, <2>3 DEF TabType, SameEditor
    <3> HIDE DEF tab
    <3> QED BY <2>2, <2>3, <3>1, Connection
  <2>5. tabs' = [tabs EXCEPT ![t] = tab] /\ saved' \subseteq Ports
    BY DEF Accepted, IInv, TypeOK
  <2> HIDE DEF t, tab
  <2> QED BY <2>1, <2>3, <2>4, <2>5, OneTab
<1> QED BY <1>2, <1>3

LEMMA PageCloseKeeps ==
  ASSUME IInv, NEW c \in Conns, PageClose(c)
  PROVE  SocketsStep /\ TabsStep
<1>1. Shaped(conns[c]) /\ Carries(conns[c], SentCalls, calls) /\ conns[c].page # "none"
  BY DEF IInv, SocketsHold, PageClose
<1>2. SocketsStep
  <2>1. conns' = [conns EXCEPT ![c] = PageClosed(conns[c])]
    BY DEF PageClose
  <2> QED BY <1>1, <2>1, PageClosedShaped, OneSocket
<1> DEFINE t == conns[c].tab
<1>3. t \in Tabs /\ OnClose(t)
  BY <1>1 DEF Shaped, PageClose
<1>4. tabs[t] \in TabType /\ TabSound(tabs[t], SentCalls)
  BY <1>3 DEF IInv, TypeOK, TabsHold
<1> HIDE DEF t
<1>5. CASE tabs[t].port # None /\ tabs[t].attempts < MaxAttempts
  <2> DEFINE tab == [tabs[t] EXCEPT !.ws = None, !.attempts = @ + 1, !.retry = TRUE]
  <2>1. tab \in TabType
    <3>1. tabs[t].attempts + 1 \in 0 .. MaxAttempts
      BY <1>4, <1>5 DEF TabType
    <3> QED BY <1>4, <3>1 DEF TabType
  <2>2. TabSound(tab, SentCalls)
    <3>1. SameEditor(tabs[t], tab)
      BY <1>4, <2>1 DEF TabType, SameEditor
    <3> HIDE DEF tab
    <3> QED BY <1>4, <2>1, <3>1, Connection
  <2>3. tabs' = [tabs EXCEPT ![t] = tab] /\ saved' \subseteq Ports
    BY <1>3, <1>5 DEF OnClose, IInv, TypeOK
  <2> HIDE DEF tab
  <2> QED BY <1>2, <1>3, <2>1, <2>2, <2>3, OneTab
<1>6. CASE ~ (tabs[t].port # None /\ tabs[t].attempts < MaxAttempts)
  <2> DEFINE tab == [tabs[t] EXCEPT !.ws = None, !.attempts = 0, !.port = None]
  <2>1. tab \in TabType
    <3>1. 0 \in 0 .. MaxAttempts
      OBVIOUS
    <3> QED BY <1>4, <3>1 DEF TabType
  <2>2. TabSound(tab, SentCalls)
    <3>1. SameEditor(tabs[t], tab)
      BY <1>4, <2>1 DEF TabType, SameEditor
    <3> HIDE DEF tab
    <3> QED BY <1>4, <2>1, <3>1, Connection
  <2>3. tabs' = [tabs EXCEPT ![t] = tab] /\ saved' \subseteq Ports
    BY <1>3, <1>6 DEF OnClose, IInv, TypeOK
  <2> HIDE DEF tab
  <2> QED BY <1>2, <1>3, <2>1, <2>2, <2>3, OneTab
<1> QED BY <1>5, <1>6

LEMMA RetryKeeps ==
  ASSUME IInv, NEW t \in Tabs, NEW c \in Conns, Retry(t, c)
  PROVE  SocketsStep /\ TabsStep
<1>1. tabs[t] \in TabType /\ TabSound(tabs[t], SentCalls) /\ saved' \subseteq Ports
  BY DEF IInv, TypeOK, TabsHold, Retry
<1>2. CASE tabs[t].port = None
  <2> DEFINE tab == [tabs[t] EXCEPT !.retry = FALSE]
  <2>1. tab \in TabType
    BY <1>1 DEF TabType
  <2>2. TabSound(tab, SentCalls)
    <3>1. SameEditor(tabs[t], tab)
      BY <1>1, <2>1 DEF TabType, SameEditor
    <3> HIDE DEF tab
    <3> QED BY <1>1, <2>1, <3>1, Connection
  <2>3. tabs' = [tabs EXCEPT ![t] = tab] /\ UNCHANGED conns
    BY <1>2 DEF Retry
  <2> HIDE DEF tab
  <2> QED BY <1>1, <2>1, <2>2, <2>3, OneTab, SocketsUnchanged
<1>3. CASE tabs[t].port # None
  <2> DEFINE tab == [tabs[t] EXCEPT !.retry = FALSE, !.ws = c]
  <2>1. tab \in TabType
    BY <1>1 DEF TabType
  <2>2. TabSound(tab, SentCalls)
    <3>1. SameEditor(tabs[t], tab)
      BY <1>1, <2>1 DEF TabType, SameEditor
    <3> HIDE DEF tab
    <3> QED BY <1>1, <2>1, <3>1, Connection
  <2>3. tabs' = [tabs EXCEPT ![t] = tab] /\ Connect(t, tabs[t].port, c)
    BY <1>3 DEF Retry
  <2>4. tabs[t].port \in Ports
    BY <1>1, <1>3 DEF TabType
  <2> HIDE DEF tab
  <2> QED BY <1>1, <2>1, <2>2, <2>3, <2>4, OneTab, ConnectSockets
<1> QED BY <1>2, <1>3

LEMMA CloseTabKeeps ==
  ASSUME IInv, NEW t \in Tabs, CloseTab(t)
  PROVE  SocketsStep /\ TabsStep
<1>1. SocketsStep
  <2>1. ASSUME NEW d \in Conns
        PROVE  /\ Shaped(conns'[d]) /\ Carries(conns'[d], SentCalls, calls)
               /\ conns[d].host # None => /\ conns'[d].host = conns[d].host
                                          /\ conns'[d].tab = conns[d].tab
                                          /\ conns'[d].registered = conns[d].registered
    <3>1. Shaped(conns[d]) /\ Carries(conns[d], SentCalls, calls)
      BY DEF IInv, SocketsHold
    <3>2. conns'[d] = PageClosed(conns[d]) \/ conns'[d] = conns[d]
      BY DEF CloseTab
    <3> QED BY <3>1, <3>2, PageClosedShaped
  <2>2. conns' = [d \in Conns |-> conns'[d]]
    BY DEF CloseTab
  <2> QED BY <2>1, <2>2 DEF SocketsStep
<1>2. TabsStep
  <2> DEFINE tab == [NoTab EXCEPT !.state = "gone"]
  <2>1. tab \in TabType
    BY NoTabType DEF TabType
  <2>2. tab.code = None /\ ~tab.compiling /\ tab.compiled = None /\ tab.opening = None
        /\ tab.awaited = None
    BY DEF NoTab
  <2>3. tabs' = [tabs EXCEPT ![t] = tab] /\ saved' \subseteq Ports
    BY DEF CloseTab, IInv, TypeOK
  <2> HIDE DEF tab
  <2>4. TabSound(tab, SentCalls)
    BY <2>2 DEF TabSound, Settled
  <2> QED BY <2>1, <2>3, <2>4, OneTab
<1> QED BY <1>1, <1>2

LEMMA ReceiveKeeps ==
  ASSUME IInv, NEW c \in Conns, Receive(c)
  PROVE  SocketsStep /\ TabsStep
<1> DEFINE sock == conns[c]
           t == sock.tab
           message == Head(sock.toTab)
<1>1. Shaped(sock) /\ Carries(sock, SentCalls, calls) /\ sock.page = "open" /\ sock.toTab # <<>>
  BY DEF IInv, SocketsHold, Receive
<1>2. SocketsStep
  <2> DEFINE after == [sock EXCEPT !.toTab = Tail(@)]
  <2>1. conns' = [conns EXCEPT ![c] = after]
    BY DEF Receive
  <2>2. /\ Shaped(after) /\ Carries(after, SentCalls, calls) /\ after.host = sock.host
        /\ after.tab = sock.tab /\ after.registered = sock.registered
    BY <1>1, TakenByTab
  <2> HIDE DEF after
  <2> QED BY <2>1, <2>2, OneSocket
<1>3. t \in Tabs /\ tabs[t] \in TabType
  BY <1>1 DEF Shaped, IInv, TypeOK
<1>4. /\ message \in ToTab /\ message.push \in Pushes
      /\ message.call # None => message.call \in SentCalls
  BY <1>1, TakenByTab DEF ToTab
<1> DEFINE restarted == Restarted(tabs[t], message.push.start)
           tab == [restarted EXCEPT !.code = message.push.src, !.awaited = message.call,
                                    !.compiling = TRUE]
<1>5. tabs' = [tabs EXCEPT ![t] = tab] /\ saved' \subseteq Ports
  BY DEF Receive, IInv, TypeOK
<1>6. message.push.src \in Sources /\ message.push.start \in Starts
  BY <1>4 DEF Pushes
<1>7. message.call \in Calls \cup {None}
  BY <1>4 DEF ToTab
<1> HIDE DEF t, message
<1>8. restarted \in TabType
  <2> DEFINE start == message.push.start
             opening == IF tabs[t].compiled = None THEN tabs[t].opening
                        ELSE [src |-> tabs[t].compiled, start |-> start]
  <2>1. opening \in Pushes \cup {None}
    BY <1>3, <1>6 DEF TabType, Pushes
  <2>2. restarted = tabs[t] \/ restarted = [tabs[t] EXCEPT !.start = start, !.opening = opening]
    BY DEF Restarted
  <2> HIDE DEF opening, restarted
  <2>3. [tabs[t] EXCEPT !.start = start, !.opening = opening] \in TabType
    <3>1. tabs[t] \in TabType /\ start \in Starts /\ opening \in Pushes \cup {None}
      BY <1>3, <1>6, <2>1
    <3> HIDE DEF start
    <3> QED BY <3>1 DEF TabType
  <2> QED BY <1>3, <2>2, <2>3
<1> HIDE DEF restarted
<1>9. tab \in TabType
  BY <1>6, <1>7, <1>8 DEF TabType
<1>10. tab.code # None /\ tab.compiling /\ (tab.awaited # None => tab.awaited \in SentCalls)
  BY <1>4, <1>6, <1>8 DEF TabType
<1> HIDE DEF tab
<1>11. TabSound(tab, SentCalls)
  BY <1>10 DEF TabSound, Settled
<1> QED BY <1>2, <1>3, <1>5, <1>9, <1>11, OneTab

\* The answer is for the render that was awaited before the step.
LEMMA AnswerRenderKeeps ==
  ASSUME IInv, NEW t \in Tabs, NEW tab \in TabType, Settled(tab),
         tab.awaited = tabs[t].awaited, NEW ok \in BOOLEAN, AnswerRender(t, tab, ok)
  PROVE  SocketsStep /\ TabsStep
<1>1. tab.awaited # None => tab.awaited \in SentCalls /\ tab.awaited \in Calls
  BY DEF IInv, TabsHold, TabSound, SentCalls
<1>2. SocketsStep
  <2>1. CASE tab.awaited = None \/ tab.ws = None
    BY <2>1, SocketsUnchanged DEF AnswerRender
  <2>2. CASE tab.awaited # None /\ tab.ws # None
    <3> DEFINE c == tab.ws
               after == SendToServer(conns[c], Result(tab.awaited, ok))
    <3>1. c \in Conns /\ conns' = [conns EXCEPT ![c] = after]
      BY <2>2 DEF AnswerRender, TabType
    <3>2. Shaped(conns[c]) /\ Carries(conns[c], SentCalls, calls)
      BY <3>1 DEF IInv, SocketsHold
    <3> HIDE DEF c
    <3>3. /\ Shaped(after) /\ Carries(after, SentCalls, calls) /\ after.host = conns[c].host
          /\ after.tab = conns[c].tab /\ after.registered = conns[c].registered
      BY <1>1, <2>2, <3>2, SentToServerShaped
    <3> HIDE DEF after
    <3> QED BY <3>1, <3>3, OneSocket
  <2> QED BY <2>1, <2>2
<1>3. TabsStep
  <2> DEFINE after == [tab EXCEPT !.awaited = None]
  <2>1. after \in TabType /\ after.awaited = None
    BY DEF TabType
  <2>2. /\ after.code = tab.code /\ after.start = tab.start /\ after.compiling = tab.compiling
        /\ after.compiled = tab.compiled /\ after.opening = tab.opening /\ after.shown = tab.shown
        /\ after.compileError = tab.compileError /\ after.openError = tab.openError
    BY DEF TabType
  <2>3. tabs' = [tabs EXCEPT ![t] = after] /\ saved' \subseteq Ports
    BY DEF AnswerRender, IInv, TypeOK
  <2> HIDE DEF after
  <2>4. TabSound(after, SentCalls)
    BY <2>1, <2>2 DEF TabSound, Settled
  <2> QED BY <2>1, <2>3, <2>4, OneTab
<1> QED BY <1>2, <1>3

LEMMA NoAnswerKeeps ==
  ASSUME IInv, NEW t \in Tabs, NEW tab \in TabType, Settled(tab),
         tab.awaited = tabs[t].awaited, NoAnswer(t, tab)
  PROVE  SocketsStep /\ TabsStep
<1>1. TabSound(tab, SentCalls)
  BY DEF IInv, TabsHold, TabSound
<1>2. tabs' = [tabs EXCEPT ![t] = tab] /\ saved' \subseteq Ports /\ UNCHANGED conns
  BY DEF NoAnswer, IInv, TypeOK
<1> QED BY <1>1, <1>2, OneTab, SocketsUnchanged

LEMMA CompileSucceedsKeeps ==
  ASSUME IInv, NEW t \in Tabs, CompileSucceeds(t)
  PROVE  SocketsStep /\ TabsStep
<1> DEFINE tab == tabs[t]
           push == [src |-> tab.code, start |-> tab.start]
           after == [tab EXCEPT !.compiling = FALSE, !.compiled = tab.code,
                                !.compileError = FALSE, !.opening = push]
<1>1. tab \in TabType /\ Settled(tab) /\ tab.compiling /\ tab.code \notin Broken
  BY DEF IInv, TypeOK, TabsHold, TabSound, CompileSucceeds
<1>2. tab.code \in Sources /\ push \in Pushes
  BY <1>1 DEF Settled, TabType, Pushes
<1>3. after \in TabType
  BY <1>1, <1>2 DEF TabType
<1>4. /\ after.code = tab.code /\ after.start = tab.start /\ ~after.compiling
      /\ ~after.compileError /\ after.opening = push /\ after.awaited = tab.awaited
  BY <1>1 DEF TabType
<1>5. AnswerRender(t, after, FALSE) \/ NoAnswer(t, after)
  BY DEF CompileSucceeds
<1> HIDE DEF after
<1>6. Settled(after)
  BY <1>1, <1>2, <1>4 DEF Settled
<1> QED BY <1>3, <1>4, <1>5, <1>6, AnswerRenderKeeps, NoAnswerKeeps

LEMMA CompileFailsKeeps ==
  ASSUME IInv, NEW t \in Tabs, CompileFails(t)
  PROVE  SocketsStep /\ TabsStep
<1> DEFINE tab == tabs[t]
           after == [tab EXCEPT !.compiling = FALSE, !.compileError = TRUE]
<1>1. tab \in TabType /\ tab.code \in Broken
  BY DEF IInv, TypeOK, CompileFails
<1>2. after \in TabType
  BY <1>1 DEF TabType
<1>3. /\ after.code = tab.code /\ after.compileError /\ after.awaited = tab.awaited
  BY <1>1 DEF TabType
<1>4. AnswerRender(t, after, FALSE)
  BY DEF CompileFails
<1> HIDE DEF after
<1>5. Settled(after)
  BY <1>1, <1>3 DEF Settled
<1> QED BY <1>2, <1>3, <1>4, <1>5, AnswerRenderKeeps

LEMMA OpenSucceedsKeeps ==
  ASSUME IInv, NEW t \in Tabs, OpenSucceeds(t)
  PROVE  SocketsStep /\ TabsStep
<1> DEFINE tab == tabs[t]
           after == Opened(tab)
<1>1. tab \in TabType /\ Settled(tab) /\ tab.opening # None /\ tab.opening \notin Misfits
  BY DEF IInv, TypeOK, TabsHold, TabSound, OpenSucceeds
<1>2. after \in TabType
  BY <1>1 DEF TabType, Opened
<1>3. /\ after.code = tab.code /\ after.start = tab.start /\ after.compiling = tab.compiling
      /\ after.compileError = tab.compileError /\ after.awaited = tab.awaited
      /\ after.compiled = tab.compiled
      /\ after.opening = None /\ after.shown = tab.opening /\ ~after.openError
  BY <1>1 DEF TabType, Opened
<1>4. AnswerRender(t, after, TRUE)
  BY DEF OpenSucceeds
<1> HIDE DEF after
<1>5. Settled(after)
  BY <1>1, <1>3 DEF Settled
<1> QED BY <1>2, <1>3, <1>4, <1>5, AnswerRenderKeeps

LEMMA OpenFailsKeeps ==
  ASSUME IInv, NEW t \in Tabs, OpenFails(t)
  PROVE  SocketsStep /\ TabsStep
<1> DEFINE tab == tabs[t]
           after == [tab EXCEPT !.opening = None, !.openError = TRUE]
<1>1. tab \in TabType /\ Settled(tab) /\ tab.opening \in Misfits
  BY DEF IInv, TypeOK, TabsHold, TabSound, OpenFails
<1>2. after \in TabType
  BY <1>1 DEF TabType
<1>3. /\ after.code = tab.code /\ after.start = tab.start /\ after.compiling = tab.compiling
      /\ after.compileError = tab.compileError /\ after.awaited = tab.awaited
      /\ after.compiled = tab.compiled /\ after.opening = None /\ after.openError
  BY <1>1 DEF TabType
<1>4. AnswerRender(t, after, FALSE) \/ NoAnswer(t, after)
  BY DEF OpenFails
<1>5. tab.opening # None
  BY <1>1 DEF Pushes
<1> HIDE DEF after
<1>6. Settled(after)
  BY <1>1, <1>3, <1>5 DEF Settled
<1> QED BY <1>2, <1>3, <1>4, <1>6, AnswerRenderKeeps, NoAnswerKeeps

LEMMA BreakKeeps == ASSUME IInv, Break PROVE SocketsStep /\ faults' \in 0 .. MaxFaults
<1>1. PICK c \in Conns :
        /\ conns[c].page = "open" /\ conns[c].host # None
        /\ conns' = [conns EXCEPT ![c].state = "cut", ![c].toTab = <<>>, ![c].toServer = <<>>]
  BY DEF Break
<1> DEFINE cut == [conns[c] EXCEPT !.state = "cut", !.toTab = <<>>, !.toServer = <<>>]
<1>2. Shaped(conns[c]) /\ Carries(conns[c], SentCalls, calls)
  BY DEF IInv, SocketsHold
<1>3. /\ Shaped(cut) /\ Carries(cut, SentCalls, calls) /\ cut.host = conns[c].host
      /\ cut.tab = conns[c].tab /\ cut.registered = conns[c].registered
  BY <1>1, <1>2, CutShaped
<1>4. conns' = [conns EXCEPT ![c] = cut]
  BY <1>1
<1> HIDE DEF cut
<1>5. faults' \in 0 .. MaxFaults
  BY DEF Break, Fault, IInv, TypeOK
<1> QED BY <1>3, <1>4, <1>5, OneSocket

-----------------------------------------------------------------------------
(* Steps of the servers *)

\* Calls that were pushed keep their push.
CallsStep ==
  /\ calls' \in [Calls -> CallType]
  /\ \A call \in Calls :
       /\ calls'[call].at # "idle" => calls'[call].push \in Pushes
       /\ calls[call].at \in Begun =>
            calls'[call].at \in Begun /\ calls'[call].push = calls[call].push

\* A call that is put in a slot was not pushed before.
ServersStep ==
  /\ studio' \in Servers \cup {None} /\ browserOpened' \in BOOLEAN /\ launching' \subseteq Ports
  /\ servers' = [s \in Servers |-> servers'[s]]
  /\ \A s \in Servers : servers'[s].slot # None =>
       \/ servers'[s].slot = servers[s].slot
       \/ calls[servers'[s].slot].at \notin Begun
  /\ ServersHold'

SessionsOpenOn(s, server, socks) ==
  \A t \in ToSet(server.sessions) :
    LET c == server.socket[t]
    IN c # None /\ socks[c].host = s /\ socks[c].tab = t /\ socks[c].registered

LEMMA SessionsOpenDef ==
  SessionsAreOpen <=> \A s \in Servers : SessionsOpenOn(s, servers[s], conns)
BY DEF SessionsAreOpen, SessionsOpenOn

LEMMA SentMore ==
  ASSUME IInv, CallsStep, ServersStep
  PROVE  /\ SentCalls \subseteq SentCalls'
         /\ \A call \in SentCalls : calls'[call].push = calls[call].push
<1> SUFFICES ASSUME NEW call \in SentCalls
             PROVE  call \in SentCalls' /\ calls'[call].push = calls[call].push
  OBVIOUS
<1>1. call \in Calls /\ calls[call].at \in Begun /\ \A s \in Servers : servers[s].slot # call
  BY DEF SentCalls
<1>2. calls'[call].at \in Begun /\ calls'[call].push = calls[call].push
  BY <1>1 DEF CallsStep
<1>3. \A s \in Servers : servers'[s].slot # call
  BY <1>1 DEF ServersStep
<1> QED BY <1>1, <1>2, <1>3 DEF SentCalls

LEMMA SocketsCarryMore ==
  ASSUME IInv, CallsStep, ServersStep, NEW c \in Conns
  PROVE  Shaped(conns[c]) /\ Carries(conns[c], SentCalls', calls')
<1>1. Shaped(conns[c]) /\ Carries(conns[c], SentCalls, calls)
  BY DEF IInv, SocketsHold
<1> QED BY <1>1, SentMore, CarriesMore

LEMMA ServerSideKeeps ==
  ASSUME IInv, CallsStep, ServersStep, faults' \in 0 .. MaxFaults, UNCHANGED tabVars,
         conns' = [c \in Conns |-> conns'[c]],
         \A c \in Conns : Shaped(conns'[c]) /\ Carries(conns'[c], SentCalls', calls'),
         \A s \in Servers : SessionsOpenOn(s, servers'[s], conns')
  PROVE  IInv'
<1>1. conns' \in [Conns -> ConnType]
  <2>1. \A c \in Conns : conns'[c] \in ConnType
    BY DEF Shaped
  <2> QED BY <2>1
<1>2. servers' \in [Servers -> ServerType]
  <2>1. \A s \in Servers : servers'[s] \in ServerType
    BY DEF ServersStep, ServersHold, ServerSound
  <2> QED BY <2>1 DEF ServersStep
<1>3. TypeOK'
  BY <1>1, <1>2 DEF IInv, TypeOK, ServersStep, CallsStep, tabVars
<1>4. SocketsHold' /\ ServersHold' /\ CallsHold'
  BY DEF SocketsHold, ServersStep, CallsHold, CallsStep
<1>5. TabsHold'
  <2>1. ASSUME NEW t \in Tabs PROVE TabSound(tabs'[t], SentCalls')
    <3>1. TabSound(tabs[t], SentCalls) /\ tabs' = tabs
      BY DEF IInv, TabsHold, tabVars
    <3> QED BY <3>1, SentMore DEF TabSound
  <2> QED BY <2>1 DEF TabsHold
<1>6. SessionsAreOpen'
  BY DEF SessionsAreOpen, SessionsOpenOn
<1> QED BY <1>3, <1>4, <1>5, <1>6 DEF IInv

\* Sockets that stay whose they were on the server's side.
LEMMA SessionsStayOpen ==
  ASSUME NEW s \in Servers, NEW server \in ServerType, NEW socks, NEW after,
         SessionsOpenOn(s, server, socks),
         \A c \in Conns : socks[c].host = s => /\ after[c].host = s
                                               /\ after[c].tab = socks[c].tab
                                               /\ after[c].registered = socks[c].registered
  PROVE  SessionsOpenOn(s, server, after)
<1> SUFFICES ASSUME NEW t \in ToSet(server.sessions)
             PROVE  LET c == server.socket[t]
                    IN c # None /\ after[c].host = s /\ after[c].tab = t /\ after[c].registered
  BY DEF SessionsOpenOn
<1> DEFINE c == server.socket[t]
<1>1. c # None /\ socks[c].host = s /\ socks[c].tab = t /\ socks[c].registered
  BY DEF SessionsOpenOn
<1>2. t \in Tabs
  BY DEF ServerType, ToSet
<1>3. c \in Conns
  BY <1>1, <1>2 DEF ServerType
<1> QED BY <1>1, <1>3

LEMMA ServerFacts ==
  ASSUME IInv, NEW s \in Servers
  PROVE  /\ servers[s] \in ServerType /\ ServerSound(servers[s], calls)
         /\ SessionsOpenOn(s, servers[s], conns)
BY SessionsOpenDef DEF IInv, TypeOK, ServersHold

\* A server is as sound once calls have gone on.
LEMMA SoundLater ==
  ASSUME NEW server, ServerSound(server, calls), CallsStep
  PROVE  ServerSound(server, calls')
<1>1. ASSUME NEW call \in server.pending PROVE calls'[call].at \in Begun
  <2>1. call \in Calls /\ calls[call].at \in Begun
    BY DEF ServerSound, ServerType
  <2> QED BY <2>1 DEF CallsStep
<1>2. server.slot # None =>
        calls'[server.slot].at \in Begun /\ calls'[server.slot].push = calls[server.slot].push
  <2>1. server.slot # None => server.slot \in Calls /\ calls[server.slot].at \in Begun
    BY DEF ServerSound, ServerType
  <2> QED BY <2>1 DEF CallsStep
<1> QED BY <1>1, <1>2 DEF ServerSound

\* One server changes, and is not the studio or stays up.
LEMMA OneServer ==
  ASSUME IInv, CallsStep, NEW s \in Servers, NEW server,
         servers' = [servers EXCEPT ![s] = server], ServerSound(server, calls'),
         studio' = studio \/ studio' = s \/ studio' = None,
         studio' # None /\ studio' = s => server.state = "up",
         browserOpened' \in BOOLEAN, launching' \subseteq Ports,
         server.slot # None => \/ server.slot = servers[s].slot
                               \/ calls[server.slot].at \notin Begun
  PROVE  ServersStep
<1>1. servers \in [Servers -> ServerType] /\ studio \in Servers \cup {None}
  BY DEF IInv, TypeOK
<1>2. servers' = [z \in Servers |-> servers'[z]] /\ \A z \in Servers \ {s} : servers'[z] = servers[z]
  BY <1>1
<1>3. servers'[s] = server
  BY <1>1
<1>4. studio' # None => servers'[studio'].state = "up"
  BY <1>1, <1>2, <1>3 DEF IInv, ServersHold, Up
<1>5. ASSUME NEW z \in Servers PROVE ServerSound(servers'[z], calls')
  <2>1. CASE z = s
    BY <1>3, <2>1
  <2>2. CASE z # s
    BY <1>2, <2>2, SoundLater, ServerFacts
  <2> QED BY <2>1, <2>2
<1>6. ASSUME NEW z \in Servers, z # s, servers'[z].slot = server.slot PROVE server.slot = None
  <2>1. servers[z].slot = server.slot
    BY <1>2, <1>6
  <2>2. servers[z].slot = servers[s].slot => servers[z].slot = None
    BY <1>6 DEF IInv, ServersHold
  <2>3. servers[z].slot # None => calls[servers[z].slot].at \in Begun
    BY ServerFacts DEF ServerSound
  <2> QED BY <2>1, <2>2, <2>3
<1>7. \A y, z \in Servers : servers'[y].slot = servers'[z].slot => servers'[y].slot = None \/ y = z
  <2> SUFFICES ASSUME NEW y \in Servers, NEW z \in Servers, servers'[y].slot = servers'[z].slot, y # z
               PROVE  servers'[y].slot = None
    OBVIOUS
  <2>1. CASE y = s
    BY <1>3, <1>6, <2>1
  <2>2. CASE z = s
    BY <1>3, <1>6, <2>2
  <2>3. CASE y # s /\ z # s
    BY <1>2, <2>3 DEF IInv, ServersHold
  <2> QED BY <2>1, <2>2, <2>3
<1>8. ServersHold'
  BY <1>4, <1>5, <1>7 DEF ServersHold, Up
<1> QED BY <1>1, <1>2, <1>3, <1>8 DEF ServersStep

LEMMA ServersUnchanged ==
  ASSUME IInv, CallsStep, UNCHANGED <<servers, studio>>,
         browserOpened' \in BOOLEAN, launching' \subseteq Ports
  PROVE  ServersStep
<1>1. \A s \in Servers : ServerSound(servers'[s], calls')
  BY SoundLater, ServerFacts
<1>2. ServersHold'
  BY <1>1 DEF IInv, ServersHold, Up
<1> QED BY <1>2 DEF IInv, TypeOK, ServersStep

LEMMA CallsUnchanged == ASSUME IInv, UNCHANGED calls PROVE CallsStep
  BY DEF IInv, TypeOK, CallsHold, CallsStep

\* A call begins, is pushed, or gets its answer.
LEMMA CallStep ==
  ASSUME IInv, NEW call \in Calls, calls[call].at \in {"idle", "creating"},
         NEW after \in CallType, after.push \in Pushes, calls' = [calls EXCEPT ![call] = after]
  PROVE  CallsStep
BY DEF IInv, TypeOK, CallsHold, CallsStep, Begun

LEMMA AwaitStep ==
  ASSUME IInv, NEW call \in Calls, calls[call].at \in {"idle", "creating"},
         NEW push \in Pushes, NEW at \in {"waiting", "done"},
         calls' = [calls EXCEPT ![call] = [at |-> at, push |-> push]]
  PROVE  CallsStep
<1> DEFINE after == [at |-> at, push |-> push]
<1>1. after \in CallType /\ after.push = push
  BY DEF CallType
<1> HIDE DEF after
<1> QED BY <1>1, CallStep DEF after

LEMMA AnswerStep ==
  ASSUME IInv, NEW call \in Calls, calls[call].at \in Begun, calls' = Answer(call)
  PROVE  CallsStep
<1>1. calls \in [Calls -> CallType]
  BY DEF IInv, TypeOK
<1>2. /\ calls' = [calls EXCEPT ![call] = [calls[call] EXCEPT !.at = "done"]]
      /\ [calls[call] EXCEPT !.at = "done"] \in CallType
  BY <1>1 DEF Answer, CallType
<1>3. /\ calls'[call].at = "done" /\ calls'[call].push = calls[call].push
      /\ calls[call].push \in Pushes
  BY <1>1, <1>2 DEF IInv, CallsHold, Begun, CallType
<1> QED BY <1>1, <1>2, <1>3 DEF IInv, CallsHold, CallsStep, Begun

\* updateSourceAndAwait: tabs are connected, so the slot is empty.
LEMMA PushToTabKeeps ==
  ASSUME IInv, NEW s \in Servers, studio = s, NEW call \in Calls, calls[call].at = "idle",
         NEW push \in Pushes, servers[s].sessions # <<>>,
         UpdateSourceAndAwait(s, call, push), UNCHANGED <<studio, faults, tabVars>>
  PROVE  IInv'
<1> DEFINE target == Target(servers[s])
<1>1. /\ servers[s] \in ServerType /\ ServerSound(servers[s], calls)
      /\ SessionsOpenOn(s, servers[s], conns) /\ servers[s].state = "up"
  BY ServerFacts DEF IInv, ServersHold, Up
<1>2. servers[s].slot = None
  BY <1>1 DEF ServerSound
<1>3. browserOpened' \in BOOLEAN /\ launching' \subseteq Ports /\ faults' \in 0 .. MaxFaults
  BY DEF UpdateSourceAndAwait, IInv, TypeOK
<1>4. CASE target = None
  <2> DEFINE server == [servers[s] EXCEPT !.current = push]
  <2>1. /\ servers' = [servers EXCEPT ![s] = server] /\ UNCHANGED conns
        /\ calls' = [calls EXCEPT ![call] = [at |-> "done", push |-> push]]
    BY <1>4 DEF UpdateSourceAndAwait
  <2>2. CallsStep
    BY <2>1, AwaitStep
  <2>3. /\ server \in ServerType /\ server.sessions = servers[s].sessions
        /\ server.state = "up" /\ server.port = servers[s].port
        /\ server.active = servers[s].active /\ server.slot = None
        /\ server.pending = servers[s].pending /\ server.socket = servers[s].socket
    BY <1>1, <1>2 DEF ServerType
  <2> HIDE DEF server
  <2>4. ServerSound(servers[s], calls')
    BY <1>1, <2>2, SoundLater
  <2>5. ServerSound(server, calls')
    BY <1>1, <2>3, <2>4 DEF ServerSound
  <2>6. ServersStep
    BY <1>3, <2>1, <2>2, <2>3, <2>5, OneServer
  <2>7. \A z \in Servers : SessionsOpenOn(z, servers'[z], conns')
    BY <2>1, <2>3, ServerFacts DEF SessionsOpenOn, IInv, TypeOK
  <2>8. \A c \in Conns : Shaped(conns'[c]) /\ Carries(conns'[c], SentCalls', calls')
    BY <2>1, <2>2, <2>6, SocketsCarryMore
  <2>9. conns' = [c \in Conns |-> conns'[c]]
    BY <2>1 DEF IInv, TypeOK
  <2> QED BY <1>3, <2>2, <2>6, <2>7, <2>8, <2>9, ServerSideKeeps
<1>5. CASE target # None
  <2> DEFINE server == [servers[s] EXCEPT !.current = push, !.pending = @ \cup {call}]
             d == servers[s].socket[target]
             message == Message(push, call)
             sent == SendToTab(conns[d], message)
  <2>1. /\ servers' = [servers EXCEPT ![s] = server] /\ conns' = [conns EXCEPT ![d] = sent]
        /\ calls' = [calls EXCEPT ![call] = [at |-> "waiting", push |-> push]]
    BY <1>5 DEF UpdateSourceAndAwait, Await
  <2>2. CallsStep
    BY <2>1, AwaitStep
  <2>3. /\ server \in ServerType /\ server.sessions = servers[s].sessions
        /\ server.state = "up" /\ server.port = servers[s].port
        /\ server.active = servers[s].active /\ server.slot = None
        /\ server.pending = servers[s].pending \cup {call} /\ server.socket = servers[s].socket
    BY <1>1, <1>2 DEF ServerType
  <2> HIDE DEF server
  <2>4. ServerSound(servers[s], calls') /\ calls'[call].at = "waiting" /\ calls'[call].push = push
    BY <1>1, <2>1, <2>2, SoundLater DEF IInv, TypeOK
  <2>5. ServerSound(server, calls')
    BY <1>1, <2>3, <2>4 DEF ServerSound, Begun
  <2>6. ServersStep
    BY <1>3, <2>1, <2>2, <2>3, <2>5, OneServer
  <2>7. call \in SentCalls'
    <3>1. \A z \in Servers : servers[z].slot # call
      BY ServerFacts DEF ServerSound, Begun
    <3>2. \A z \in Servers : servers'[z].slot # call
      BY <2>1, <2>3, <3>1 DEF IInv, TypeOK
    <3> QED BY <2>4, <3>2 DEF SentCalls, Begun
  <2>8. message \in ToTab /\ message.call = call /\ message.push = push
    BY DEF Message, ToTab
  <2>9. ASSUME NEW c \in Conns
        PROVE  /\ Shaped(conns'[c]) /\ Carries(conns'[c], SentCalls', calls')
               /\ conns'[c].host = conns[c].host /\ conns'[c].tab = conns[c].tab
               /\ conns'[c].registered = conns[c].registered
    <3>1. Shaped(conns[c]) /\ Carries(conns[c], SentCalls', calls')
      BY <2>2, <2>6, SocketsCarryMore
    <3>2. CASE c = d
      <4>1. conns'[c] = SendToTab(conns[c], message)
        BY <2>1, <3>2 DEF IInv, TypeOK
      <4> HIDE DEF message
      <4> QED BY <2>4, <2>7, <2>8, <3>1, <4>1, SentToTabShaped
    <3>3. CASE c # d
      BY <2>1, <3>1, <3>3 DEF IInv, TypeOK
    <3> QED BY <3>2, <3>3
  <2>10. \A z \in Servers : SessionsOpenOn(z, servers'[z], conns')
    <3> TAKE z \in Servers
    <3>1. SessionsOpenOn(z, servers[z], conns')
      BY <2>9, ServerFacts, SessionsStayOpen
    <3> QED BY <2>1, <2>3, <3>1 DEF SessionsOpenOn, IInv, TypeOK
  <2>11. conns' = [c \in Conns |-> conns'[c]]
    BY <2>1 DEF IInv, TypeOK
  <2> QED BY <1>3, <2>2, <2>6, <2>9, <2>10, <2>11, ServerSideKeeps
<1> QED BY <1>4, <1>5

\* updateSourceAndAwaitConnect, at a server that has no tab.
LEMMA PushToSlotKeeps ==
  ASSUME IInv, NEW s \in Servers, NEW call \in Calls, calls[call].at \in {"idle", "creating"},
         NEW push \in Pushes, NEW server, ServerSound(server, calls), server.state = "up",
         server.sessions = <<>>, studio' = s, UNCHANGED <<faults, tabVars>>,
         UpdateSourceAndAwaitConnect(s, server, call, push)
  PROVE  IInv'
<1> DEFINE after == ConnectSlot(server, call, push)
<1>1. /\ servers' = [servers EXCEPT ![s] = after] /\ UNCHANGED conns
      /\ calls' = [calls EXCEPT ![call] = [at |-> "waiting", push |-> push]]
  BY DEF UpdateSourceAndAwaitConnect, Await
<1>2. CallsStep
  BY <1>1, AwaitStep
<1>3. server \in ServerType
  BY DEF ServerSound
<1>4. /\ after \in ServerType /\ after.sessions = <<>> /\ after.state = "up"
      /\ after.port = server.port /\ after.active = server.active /\ after.slot = call
      /\ after.socket = server.socket /\ after.current = push /\ after.pending = server.pending \cup {call}
  BY <1>3 DEF ServerType, ConnectSlot
<1> HIDE DEF after
<1>5. ServerSound(server, calls') /\ calls'[call].at = "waiting" /\ calls'[call].push = push
  BY <1>1, <1>2, SoundLater DEF IInv, TypeOK
<1>6. ServerSound(after, calls')
  BY <1>4, <1>5 DEF ServerSound, Begun
<1>7. browserOpened' \in BOOLEAN /\ launching' \subseteq Ports
  BY DEF UpdateSourceAndAwaitConnect, OpenBrowser, IInv, TypeOK, ServerSound
<1>8. ServersStep
  BY <1>1, <1>2, <1>4, <1>6, <1>7, OneServer DEF Begun
<1>9. \A z \in Servers : SessionsOpenOn(z, servers'[z], conns')
  <2> TAKE z \in Servers
  <2>1. CASE z = s
    BY <1>1, <1>4, <2>1 DEF SessionsOpenOn, ToSet, IInv, TypeOK
  <2>2. CASE z # s
    BY <1>1, <2>2, ServerFacts DEF IInv, TypeOK
  <2> QED BY <2>1, <2>2
<1>10. \A c \in Conns : Shaped(conns'[c]) /\ Carries(conns'[c], SentCalls', calls')
  BY <1>1, <1>2, <1>8, SocketsCarryMore
<1>11. conns' = [c \in Conns |-> conns'[c]] /\ faults' \in 0 .. MaxFaults
  BY <1>1 DEF IInv, TypeOK
<1> QED BY <1>2, <1>8, <1>9, <1>10, <1>11, ServerSideKeeps

LEMMA ShowKeeps ==
  ASSUME IInv, NEW call \in Calls, NEW push \in Shown[call],
         Show(call, push) \/ ShowFirst(call, push), UNCHANGED <<faults, tabVars>>
  PROVE  IInv'
<1>1. push \in Pushes /\ calls[call].at = "idle"
  BY DEF Show, ShowFirst, Pushes
<1>2. CASE Show(call, push)
  <2>1. studio \in Servers /\ studio' = studio
    BY <1>2 DEF Show, IInv, TypeOK
  <2>2. CASE servers[studio].sessions # <<>>
    <3>1. UpdateSourceAndAwait(studio, call, push)
      BY <1>2, <2>2 DEF Show
    <3> QED BY <1>1, <2>1, <2>2, <3>1, PushToTabKeeps
  <2>3. CASE servers[studio].sessions = <<>>
    <3>1. UpdateSourceAndAwaitConnect(studio, servers[studio], call, push)
      BY <1>2, <2>3 DEF Show
    <3>2. ServerSound(servers[studio], calls) /\ servers[studio].state = "up"
      BY <2>1, ServerFacts DEF IInv, ServersHold, Up
    <3> QED BY <1>1, <2>1, <2>3, <3>1, <3>2, PushToSlotKeeps
  <2> QED BY <2>2, <2>3
<1>3. CASE ShowFirst(call, push)
  <2> DEFINE after == [calls[call] EXCEPT !.at = "creating", !.push = push]
  <2>1. /\ calls' = [calls EXCEPT ![call] = after] /\ after \in CallType /\ after.push = push
    <3>1. calls[call] \in CallType
      BY DEF IInv, TypeOK
    <3>2. after \in CallType /\ after.push = push
      BY <1>1, <3>1 DEF CallType
    <3>3. calls' = [calls EXCEPT ![call] = after]
      BY <1>3 DEF ShowFirst
    <3> QED BY <3>2, <3>3
  <2> HIDE DEF after
  <2>2. CallsStep
    BY <1>1, <2>1, CallStep
  <2>3. ServersStep
    BY <1>3, <2>2, ServersUnchanged DEF ShowFirst, IInv, TypeOK
  <2>4. \A c \in Conns : Shaped(conns'[c]) /\ Carries(conns'[c], SentCalls', calls')
    BY <1>3, <2>2, <2>3, SocketsCarryMore DEF ShowFirst
  <2>5. \A z \in Servers : SessionsOpenOn(z, servers'[z], conns')
    BY <1>3, ServerFacts DEF ShowFirst
  <2>6. conns' = [c \in Conns |-> conns'[c]] /\ faults' \in 0 .. MaxFaults
    BY <1>3 DEF IInv, TypeOK, ShowFirst
  <2> QED BY <2>2, <2>3, <2>4, <2>5, <2>6, ServerSideKeeps
<1> QED BY <1>2, <1>3

LEMMA CreatedKeeps ==
  ASSUME IInv, NEW call \in Calls, NEW s \in Servers, Created(call, s), UNCHANGED <<faults, tabVars>>
  PROVE  IInv'
<1> DEFINE server == [NoServer EXCEPT !.state = "up", !.port = IF PortTaken THEN s ELSE WellKnown]
<1>1. /\ calls[call].at = "creating" /\ studio' = s
      /\ UpdateSourceAndAwaitConnect(s, server, call, calls[call].push)
  BY DEF Created
<1>2. calls[call].push \in Pushes
  BY <1>1 DEF IInv, CallsHold
<1>3. NoServer \in ServerType /\ (IF PortTaken THEN s ELSE WellKnown) \in Ports
  BY EmptySeq DEF NoServer, ServerType, Ports
<1>4. /\ server \in ServerType /\ server.state = "up" /\ server.port \in Ports
      /\ server.sessions = <<>> /\ server.active = None /\ server.slot = None
      /\ server.pending = {} /\ server.socket = [t \in Tabs |-> None]
  BY <1>3 DEF NoServer, ServerType
<1> HIDE DEF server
<1>5. IsInjective(server.sessions)
  BY <1>4 DEF IsInjective
<1>6. ServerSound(server, calls)
  BY <1>4, <1>5 DEF ServerSound
<1> QED BY <1>1, <1>2, <1>4, <1>6, PushToSlotKeeps

\* A request no longer waits.
Unawaited(server, call, slot) == [server EXCEPT !.pending = @ \ {call}, !.slot = slot]

LEMMA NotPendingSound ==
  ASSUME IInv, CallsStep, NEW s \in Servers, NEW call, NEW slot,
         slot = servers[s].slot \/ slot = None, slot # None => slot # call
  PROVE  LET after == Unawaited(servers[s], call, slot)
         IN ServerSound(after, calls') /\ after.state = servers[s].state /\ after.slot = slot
              /\ SessionsOpenOn(s, after, conns)
<1> DEFINE after == Unawaited(servers[s], call, slot)
<1>1. /\ servers[s] \in ServerType /\ ServerSound(servers[s], calls')
      /\ SessionsOpenOn(s, servers[s], conns)
  BY SoundLater, ServerFacts
<1>2. slot \in Calls \cup {None}
  BY <1>1 DEF ServerType
<1>3. /\ after \in ServerType /\ after.sessions = servers[s].sessions
      /\ after.state = servers[s].state /\ after.port = servers[s].port
      /\ after.active = servers[s].active /\ after.slot = slot
      /\ after.pending = servers[s].pending \ {call} /\ after.socket = servers[s].socket
      /\ after.current = servers[s].current
  BY <1>1, <1>2 DEF ServerType, Unawaited
<1> HIDE DEF after
<1>4. ServerSound(after, calls')
  BY <1>1, <1>3 DEF ServerSound
<1>5. SessionsOpenOn(s, after, conns)
  BY <1>1, <1>3 DEF SessionsOpenOn
<1> QED BY <1>3, <1>4, <1>5 DEF after

LEMMA RenderTimeoutKeeps ==
  ASSUME IInv, NEW call \in Calls, RenderTimeout(call), UNCHANGED <<faults, tabVars>>
  PROVE  IInv'
<1>1. PICK s \in Servers :
        /\ call \in servers[s].pending
        /\ servers' = [servers EXCEPT ![s].pending = @ \ {call},
                                      ![s].slot = IF @ = call THEN None ELSE @]
        /\ calls' = Answer(call)
        /\ UNCHANGED <<studio, browserOpened, launching, conns>>
  BY DEF RenderTimeout
<1> DEFINE slot == IF servers[s].slot = call THEN None ELSE servers[s].slot
           after == Unawaited(servers[s], call, slot)
<1>2. servers' = [servers EXCEPT ![s] = after]
  BY <1>1 DEF Unawaited
<1>3. calls[call].at \in Begun
  BY <1>1, ServerFacts DEF ServerSound
<1>4. CallsStep
  BY <1>1, <1>3, AnswerStep
<1>5. ServerSound(after, calls') /\ after.state = servers[s].state
      /\ SessionsOpenOn(s, after, conns) /\ (after.slot # None => after.slot = servers[s].slot)
  <2>1. (slot = servers[s].slot \/ slot = None) /\ (slot # None => slot # call)
    OBVIOUS
  <2> HIDE DEF slot
  <2> QED BY <1>4, <2>1, NotPendingSound
<1> HIDE DEF after
<1>6. ServersStep
  <2>1. studio' # None /\ studio' = s => after.state = "up"
    BY <1>1, <1>5 DEF IInv, ServersHold, Up
  <2>2. browserOpened' \in BOOLEAN /\ launching' \subseteq Ports
    BY <1>1 DEF IInv, TypeOK
  <2> QED BY <1>1, <1>2, <1>4, <1>5, <2>1, <2>2, OneServer
<1>7. \A c \in Conns : Shaped(conns'[c]) /\ Carries(conns'[c], SentCalls', calls')
  BY <1>1, <1>4, <1>6, SocketsCarryMore
<1>8. \A z \in Servers : SessionsOpenOn(z, servers'[z], conns')
  BY <1>1, <1>2, <1>5, ServerFacts DEF IInv, TypeOK
<1>9. conns' = [c \in Conns |-> conns'[c]] /\ faults' \in 0 .. MaxFaults
  BY <1>1 DEF IInv, TypeOK
<1> QED BY <1>4, <1>6, <1>7, <1>8, <1>9, ServerSideKeeps

\* The call answered was sent to a tab, so it is not the one in the slot.
LEMMA ReceiveResultKeeps ==
  ASSUME IInv, NEW c \in Conns, ReceiveResult(c), UNCHANGED <<faults, tabVars>>
  PROVE  IInv'
<1> DEFINE sock == conns[c]
           s == sock.host
           result == Head(sock.toServer)
           call == result.call
           taken == [sock EXCEPT !.toServer = Tail(@)]
<1>1. /\ s # None /\ sock.toServer # <<>> /\ result # Register
      /\ conns' = [conns EXCEPT ![c] = taken]
      /\ IF call \in servers[s].pending
         THEN /\ servers' = [servers EXCEPT ![s].pending = @ \ {call}]
              /\ calls' = Answer(call)
         ELSE UNCHANGED <<servers, calls>>
      /\ UNCHANGED <<studio, browserOpened, launching>>
  BY DEF ReceiveResult
<1>2. Shaped(sock) /\ Carries(sock, SentCalls, calls)
  BY DEF IInv, SocketsHold
<1>3. s \in Servers /\ taken = [sock EXCEPT !.toServer = Tail(@), !.registered = sock.registered]
  BY <1>1, <1>2 DEF Shaped, ConnType
<1>4. call \in SentCalls /\ call \in Calls
  BY <1>1, <1>2, TakenByServer DEF Shaped, ConnType
<1>5. calls[call].at \in Begun /\ servers[s].slot # call
  BY <1>3, <1>4 DEF SentCalls
<1> DEFINE after == Unawaited(servers[s], call, servers[s].slot)
<1> HIDE DEF call, s, result
<1>6. CallsStep
  <2>1. calls' = Answer(call) \/ calls' = calls
    BY <1>1
  <2> QED BY <1>4, <1>5, <2>1, AnswerStep, CallsUnchanged
<1>7. ServerSound(after, calls') /\ after.state = servers[s].state
      /\ SessionsOpenOn(s, after, conns) /\ after.slot = servers[s].slot
  BY <1>3, <1>5, <1>6, NotPendingSound
<1>8. browserOpened' \in BOOLEAN /\ launching' \subseteq Ports
  BY <1>1 DEF IInv, TypeOK
<1>9. servers' = [servers EXCEPT ![s] = after] \/ servers' = servers
  <2>1. after = [servers[s] EXCEPT !.pending = @ \ {call}]
    BY <1>3 DEF IInv, TypeOK, ServerType, Unawaited
  <2> QED BY <1>1, <2>1
<1> HIDE DEF after
<1>10. ServersStep
  <2>1. studio' # None /\ studio' = s => after.state = "up"
    BY <1>1, <1>7 DEF IInv, ServersHold, Up
  <2> QED BY <1>1, <1>3, <1>6, <1>7, <1>8, <1>9, <2>1, OneServer, ServersUnchanged
<1>11. ASSUME NEW d \in Conns
       PROVE  /\ Shaped(conns'[d]) /\ Carries(conns'[d], SentCalls', calls')
              /\ conns'[d].host = conns[d].host /\ conns'[d].tab = conns[d].tab
              /\ conns'[d].registered = conns[d].registered
  <2>1. Shaped(conns[d]) /\ Carries(conns[d], SentCalls', calls')
    BY <1>6, <1>10, SocketsCarryMore
  <2>2. CASE d = c
    <3>1. conns'[d] = taken /\ sock.registered \in BOOLEAN /\ sock.host # None
      BY <1>1, <1>2, <2>2 DEF IInv, TypeOK, Shaped, ConnType, s
    <3> DEFINE known == sock.registered
    <3>2. sock.toServer # <<>> /\ taken = TakenFrom(sock, known)
      BY <1>1, <1>3 DEF TakenFrom
    <3> HIDE DEF known
    <3>3. known \in BOOLEAN /\ Shaped(sock) /\ Carries(sock, SentCalls', calls')
      BY <2>1, <2>2, <3>1 DEF known
    <3> HIDE DEF sock, taken
    <3>4. /\ Shaped(taken) /\ Carries(taken, SentCalls', calls') /\ taken.host = sock.host
          /\ taken.tab = sock.tab /\ taken.registered = known
      BY <3>1, <3>2, <3>3, TakenByServer
    <3> QED BY <2>2, <3>1, <3>4 DEF known, sock
  <2>3. CASE d # c
    BY <1>1, <2>1, <2>3 DEF IInv, TypeOK
  <2> QED BY <2>2, <2>3
<1>12. \A z \in Servers : SessionsOpenOn(z, servers'[z], conns')
  <2> TAKE z \in Servers
  <2>1. SessionsOpenOn(z, servers'[z], conns) /\ servers'[z] \in ServerType
    BY <1>3, <1>7, <1>9, ServerFacts DEF IInv, TypeOK, ServerSound
  <2> QED BY <1>11, <2>1, SessionsStayOpen
<1>13. conns' = [d \in Conns |-> conns'[d]] /\ faults' \in 0 .. MaxFaults
  BY <1>1 DEF IInv, TypeOK
<1> QED BY <1>6, <1>10, <1>11, <1>12, <1>13, ServerSideKeeps

\* A tab registers: the slot, if it is set, is for the push the tab is sent.
LEMMA PutSound ==
  ASSUME NEW server, ServerSound(server, calls), NEW tab \in Tabs, NEW c \in Conns,
         server.slot # None => server.current # None
  PROVE  LET after == SlotTaken(Put(server, tab, c))
         IN /\ ServerSound(after, calls) /\ after.slot = None /\ after.state = server.state
            /\ ToSet(after.sessions) = ToSet(server.sessions) \cup {tab}
            /\ after.socket = [server.socket EXCEPT ![tab] = c]
<1> DEFINE put == Put(server, tab, c)
           after == SlotTaken(put)
           sessions == IF tab \in ToSet(server.sessions) THEN server.sessions
                       ELSE Append(server.sessions, tab)
<1>1. server \in ServerType /\ server.sessions \in Seq(Tabs) /\ IsInjective(server.sessions)
  BY DEF ServerSound, ServerType
<1>2. /\ sessions \in Seq(Tabs) /\ IsInjective(sessions)
      /\ ToSet(sessions) = ToSet(server.sessions) \cup {tab}
  BY <1>1, AppendAdds
<1>3. sessions # <<>>
  BY <1>2 DEF ToSet
<1> HIDE DEF sessions
<1> DEFINE socket == [server.socket EXCEPT ![tab] = c]
<1>4. socket \in [Tabs -> Conns \cup {None}]
  BY <1>1 DEF ServerType
<1>5. put = [server EXCEPT !.sessions = sessions, !.socket = socket, !.active = tab]
  BY DEF Put, sessions
<1> HIDE DEF put, socket
<1>6. /\ put \in ServerType /\ put.sessions = sessions /\ put.active = tab
      /\ put.socket = socket /\ put.state = server.state
      /\ put.port = server.port /\ put.current = server.current /\ put.slot = server.slot
      /\ put.pending = server.pending
  BY <1>1, <1>2, <1>4, <1>5 DEF ServerType
<1>7. /\ after \in ServerType /\ after.sessions = sessions /\ after.active = tab
      /\ after.socket = socket /\ after.state = server.state
      /\ after.port = server.port /\ after.slot = None /\ after.pending = server.pending
  BY <1>6 DEF SlotTaken, ServerType
<1> HIDE DEF after
<1>8. \A t \in Tabs : after.socket[t] # None => t \in ToSet(after.sessions)
  BY <1>1, <1>2, <1>7 DEF ServerSound, ServerType, socket
<1>9. ServerSound(after, calls)
  BY <1>2, <1>3, <1>7, <1>8 DEF ServerSound
<1> QED BY <1>2, <1>7, <1>9 DEF after, put, socket

LEMMA ReceiveRegisterKeeps ==
  ASSUME IInv, NEW c \in Conns, ReceiveRegister(c), UNCHANGED <<faults, tabVars>>
  PROVE  IInv'
<1> DEFINE sock == conns[c]
           s == sock.host
           tab == sock.tab
           server == servers[s]
           received == TakenFrom(sock, TRUE)
           message == Message(server.current, server.slot)
           after == SlotTaken(Put(server, tab, c))
<1>1. /\ s # None /\ sock.toServer # <<>>
      /\ servers' = [servers EXCEPT ![s] = after]
      /\ conns' = [conns EXCEPT ![c] = IF server.current = None THEN received
                                       ELSE SendToTab(received, message)]
      /\ UNCHANGED <<studio, browserOpened, calls, launching>>
  BY DEF ReceiveRegister, TakenFrom
<1>2. Shaped(sock) /\ Carries(sock, SentCalls, calls)
  BY DEF IInv, SocketsHold
<1>3. s \in Servers /\ tab \in Tabs
  BY <1>1, <1>2 DEF Shaped, ConnType, Unused
<1>4. server \in ServerType /\ ServerSound(server, calls) /\ SessionsOpenOn(s, server, conns)
  BY <1>3, ServerFacts
<1>5. server.slot # None => /\ server.slot \in Calls /\ calls[server.slot].at \in Begun
                            /\ calls[server.slot].push = server.current
                            /\ server.current \in Pushes
  BY <1>4 DEF ServerSound, ServerType, IInv, CallsHold, Begun
<1>6. server.slot # None => server.current # None
  BY <1>5 DEF Pushes
<1> HIDE DEF server, tab, s
<1>7. /\ ServerSound(after, calls) /\ after.slot = None /\ after.state = server.state
      /\ ToSet(after.sessions) = ToSet(server.sessions) \cup {tab}
      /\ after.socket = [server.socket EXCEPT ![tab] = c]
  BY <1>3, <1>4, <1>6, PutSound
<1> HIDE DEF after
<1>8. CallsStep /\ calls' = calls
  BY <1>1, CallsUnchanged
<1>9. ServersStep
  <2>1. studio' # None /\ studio' = s => after.state = "up"
    BY <1>1, <1>7 DEF IInv, ServersHold, Up, server
  <2>2. browserOpened' \in BOOLEAN /\ launching' \subseteq Ports
    BY <1>1 DEF IInv, TypeOK
  <2> QED BY <1>1, <1>3, <1>7, <1>8, <2>1, <2>2, OneServer
<1>10. server.slot # None => server.slot \in SentCalls'
  <2> SUFFICES ASSUME server.slot # None PROVE server.slot \in SentCalls'
    OBVIOUS
  <2>1. \A z \in Servers \ {s} : servers'[z].slot # server.slot
    BY <1>1, <1>3 DEF IInv, TypeOK, ServersHold, server
  <2>2. servers'[s].slot # server.slot
    BY <1>1, <1>3, <1>7 DEF IInv, TypeOK
  <2> QED BY <1>5, <1>8, <2>1, <2>2 DEF SentCalls
<1>11. /\ Shaped(received) /\ Carries(received, SentCalls', calls') /\ received.host = s
       /\ received.tab = tab /\ received.registered
  <2>1. Shaped(sock) /\ Carries(sock, SentCalls', calls') /\ sock.host # None /\ sock.toServer # <<>>
    BY <1>1, <1>8, <1>9, SocketsCarryMore DEF s
  <2> HIDE DEF sock
  <2>2. /\ Shaped(received) /\ Carries(received, SentCalls', calls') /\ received.host = sock.host
        /\ received.tab = sock.tab /\ received.registered = TRUE
    BY <2>1, TakenByServer
  <2> QED BY <2>2 DEF s, tab
<1>12. server.current # None =>
         /\ message \in ToTab
         /\ message.call # None =>
              message.call \in SentCalls' /\ message.push = calls'[message.call].push
  <2>1. message.call = server.slot /\ message.push = server.current
    BY DEF Message
  <2>2. server.current # None => message \in ToTab
    BY <1>4 DEF Message, ToTab, ServerType
  <2> HIDE DEF message
  <2> QED BY <1>5, <1>8, <1>10, <2>1, <2>2
<1> HIDE DEF received, message
<1>13. /\ Shaped(conns'[c]) /\ Carries(conns'[c], SentCalls', calls') /\ conns'[c].host = s
       /\ conns'[c].tab = tab /\ conns'[c].registered
  <2>1. CASE server.current = None
    BY <1>1, <1>11, <2>1 DEF IInv, TypeOK
  <2>2. CASE server.current # None
    <3>1. conns'[c] = SendToTab(received, message)
      BY <1>1, <2>2 DEF IInv, TypeOK
    <3> QED BY <1>11, <1>12, <2>2, <3>1, SentToTabShaped
  <2> QED BY <2>1, <2>2
<1>14. \A d \in Conns \ {c} : conns'[d] = conns[d]
  BY <1>1 DEF IInv, TypeOK
<1>15. \A d \in Conns : Shaped(conns'[d]) /\ Carries(conns'[d], SentCalls', calls')
  BY <1>8, <1>9, <1>13, <1>14, SocketsCarryMore
<1>16. ASSUME NEW z \in Servers PROVE SessionsOpenOn(z, servers'[z], conns')
  <2>1. CASE z = s
    <3>1. servers'[z] = after
      BY <1>1, <1>3, <2>1 DEF IInv, TypeOK
    <3>2. ASSUME NEW t \in ToSet(after.sessions)
          PROVE  LET d == after.socket[t]
                 IN d # None /\ conns'[d].host = s /\ conns'[d].tab = t /\ conns'[d].registered
      <4>1. t \in Tabs
        BY <1>7 DEF ServerSound, ServerType, ToSet
      <4>2. CASE t = tab
        BY <1>4, <1>7, <1>13, <4>1, <4>2 DEF ServerType
      <4>3. CASE t # tab
        <5> DEFINE d == server.socket[t]
        <5>1. after.socket[t] = d /\ t \in ToSet(server.sessions)
          BY <1>4, <1>7, <4>1, <4>3 DEF ServerType
        <5>2. d # None /\ conns[d].host = s /\ conns[d].tab = t /\ conns[d].registered
          BY <1>4, <5>1 DEF SessionsOpenOn
        <5>3. d \in Conns \ {c}
          BY <1>4, <4>1, <4>3, <5>2 DEF ServerType, tab
        <5> QED BY <1>14, <5>1, <5>2, <5>3
      <4> QED BY <4>2, <4>3
    <3> QED BY <2>1, <3>1, <3>2 DEF SessionsOpenOn
  <2>2. CASE z # s
    <3>1. servers'[z] = servers[z] /\ servers[z] \in ServerType /\ SessionsOpenOn(z, servers[z], conns)
      BY <1>1, <2>2, ServerFacts DEF IInv, TypeOK
    <3>2. \A d \in Conns : conns[d].host = z => conns'[d] = conns[d]
      BY <1>14, <2>2 DEF s
    <3> QED BY <3>1, <3>2, SessionsStayOpen
  <2> QED BY <2>1, <2>2
<1>17. conns' = [d \in Conns |-> conns'[d]] /\ faults' \in 0 .. MaxFaults
  BY <1>1 DEF IInv, TypeOK
<1> QED BY <1>8, <1>9, <1>15, <1>16, <1>17, ServerSideKeeps

\* A session is deleted: the others stay, and one of them is the target.
LEMMA DroppedSound ==
  ASSUME NEW server, ServerSound(server, calls), NEW tab \in Tabs
  PROVE  LET after == Dropped(server, tab)
         IN /\ ServerSound(after, calls) /\ after.slot = server.slot /\ after.state = server.state
            /\ ToSet(after.sessions) = ToSet(server.sessions) \ {tab}
            /\ after.socket = [server.socket EXCEPT ![tab] = None]
<1> DEFINE left == IF tab \in ToSet(server.sessions) THEN RemoveFirst(server.sessions, tab)
                   ELSE server.sessions
           active == IF server.active # tab THEN server.active
                     ELSE IF left = <<>> THEN None ELSE Last(left)
           after == Dropped(server, tab)
<1>1. server \in ServerType /\ server.sessions \in Seq(Tabs) /\ IsInjective(server.sessions)
  BY DEF ServerSound, ServerType
<1>2. /\ left \in Seq(Tabs) /\ IsInjective(left)
      /\ ToSet(left) = ToSet(server.sessions) \ {tab}
  BY <1>1, RemoveFirstRemoves
<1>3. server.sessions = <<>> => left = <<>>
  BY DEF ToSet
<1>4. after = [server EXCEPT !.sessions = left, !.socket[tab] = None, !.active = active]
  BY DEF Dropped
<1> HIDE DEF left, after
<1>5. left # <<>> => Last(left) \in Tabs /\ Last(left) \in ToSet(left)
  <2>1. left # <<>> => Len(left) \in 1 .. Len(left)
    BY <1>2, EmptySeq
  <2> QED BY <1>2, <2>1 DEF Last, ToSet
<1>6. active \in Tabs \cup {None}
  BY <1>1, <1>5 DEF ServerType
<1>7. /\ after \in ServerType /\ after.sessions = left /\ after.active = active
      /\ after.socket = [server.socket EXCEPT ![tab] = None] /\ after.state = server.state
      /\ after.port = server.port /\ after.slot = server.slot /\ after.pending = server.pending
      /\ after.current = server.current
  BY <1>1, <1>2, <1>4, <1>6 DEF ServerType
<1>8. server.state = "up" =>
        active \in ToSet(left) \cup {None} /\ (active = None => left = <<>>)
  BY <1>2, <1>3, <1>5 DEF ServerSound
<1> HIDE DEF active
<1>9. \A t \in Tabs : after.socket[t] # None => t \in ToSet(after.sessions)
  BY <1>1, <1>2, <1>7 DEF ServerSound, ServerType
<1>10. ServerSound(after, calls)
  BY <1>2, <1>3, <1>7, <1>8, <1>9 DEF ServerSound
<1> QED BY <1>2, <1>7, <1>10 DEF after

\* The session's own socket, or a later one of its tab, loses its session.
LEMMA HostCloseKeeps ==
  ASSUME IInv, NEW c \in Conns, HostClose(c), UNCHANGED <<faults, tabVars>>
  PROVE  IInv'
<1> DEFINE sock == conns[c]
           s == sock.host
           tab == sock.tab
           server == servers[s]
           after == Dropped(server, tab)
<1>1. /\ s # None /\ conns' = [conns EXCEPT ![c] = HostClosed(sock)]
      /\ IF sock.registered
         THEN /\ servers' = [servers EXCEPT ![s] = after]
              /\ browserOpened' = IF after.sessions = <<>> THEN FALSE ELSE browserOpened
         ELSE UNCHANGED <<servers, browserOpened>>
      /\ UNCHANGED <<studio, calls, launching>>
  BY DEF HostClose
<1>2. Shaped(sock) /\ Carries(sock, SentCalls, calls)
  BY DEF IInv, SocketsHold
<1>3. s \in Servers /\ tab \in Tabs
  BY <1>1, <1>2 DEF Shaped, ConnType, Unused
<1>4. server \in ServerType /\ ServerSound(server, calls) /\ SessionsOpenOn(s, server, conns)
  BY <1>3, ServerFacts
<1> HIDE DEF server, tab, s
<1>5. /\ ServerSound(after, calls) /\ after.slot = server.slot /\ after.state = server.state
      /\ ToSet(after.sessions) = ToSet(server.sessions) \ {tab}
      /\ after.socket = [server.socket EXCEPT ![tab] = None]
  BY <1>3, <1>4, DroppedSound
<1> HIDE DEF after
<1>6. CallsStep /\ calls' = calls
  BY <1>1, CallsUnchanged
<1>7. browserOpened' \in BOOLEAN /\ launching' \subseteq Ports
  BY <1>1 DEF IInv, TypeOK
<1>8. ServersStep
  <2>1. CASE sock.registered
    <3>1. studio' # None /\ studio' = s => after.state = "up"
      BY <1>1, <1>5 DEF IInv, ServersHold, Up, server
    <3> QED BY <1>1, <1>3, <1>5, <1>6, <1>7, <2>1, <3>1, OneServer DEF server
  <2>2. CASE ~sock.registered
    BY <1>1, <1>6, <1>7, <2>2, ServersUnchanged
  <2> QED BY <2>1, <2>2
<1>9. \A d \in Conns \ {c} : conns'[d] = conns[d]
  BY <1>1 DEF IInv, TypeOK
<1>10. ASSUME NEW d \in Conns PROVE Shaped(conns'[d]) /\ Carries(conns'[d], SentCalls', calls')
  <2>1. Shaped(conns[d]) /\ Carries(conns[d], SentCalls', calls')
    BY <1>6, <1>8, SocketsCarryMore
  <2>2. CASE d = c
    <3>1. conns'[d] = HostClosed(conns[d]) /\ conns[d].host # None
      BY <1>1, <2>2 DEF IInv, TypeOK, s
    <3> QED BY <2>1, <3>1, HostClosedShaped
  <2>3. CASE d # c
    BY <1>9, <2>1, <2>3
  <2> QED BY <2>2, <2>3
<1>11. ASSUME NEW z \in Servers PROVE SessionsOpenOn(z, servers'[z], conns')
  <2>1. CASE z = s
    <3> SUFFICES ASSUME NEW t \in ToSet(servers'[z].sessions)
                 PROVE  LET d == servers'[z].socket[t]
                        IN d # None /\ conns'[d].host = z /\ conns'[d].tab = t /\ conns'[d].registered
      BY DEF SessionsOpenOn
    <3> DEFINE d == server.socket[t]
    <3>1. /\ t \in Tabs /\ t \in ToSet(server.sessions) /\ servers'[z].socket[t] = d
          /\ sock.registered => t # tab
      <4>1. CASE sock.registered
        <5>1. servers'[z] = after
          BY <1>1, <1>3, <2>1, <4>1 DEF IInv, TypeOK
        <5>2. t \in ToSet(server.sessions) \ {tab}
          BY <1>5, <5>1
        <5>3. t \in Tabs
          BY <1>4, <5>2 DEF ServerType, ToSet
        <5> QED BY <1>4, <1>5, <5>1, <5>2, <5>3 DEF ServerType
      <4>2. CASE ~sock.registered
        <5>1. servers'[z] = server
          BY <1>1, <2>1, <4>2 DEF server
        <5> QED BY <1>4, <4>2, <5>1 DEF ServerType, ToSet
      <4> QED BY <4>1, <4>2
    <3>2. d # None /\ conns[d].host = s /\ conns[d].tab = t /\ conns[d].registered
      BY <1>4, <3>1 DEF SessionsOpenOn
    <3>3. d \in Conns \ {c}
      BY <1>4, <3>1, <3>2 DEF ServerType, tab
    <3> QED BY <1>9, <2>1, <3>1, <3>2, <3>3
  <2>2. CASE z # s
    <3>1. servers'[z] = servers[z] /\ servers[z] \in ServerType /\ SessionsOpenOn(z, servers[z], conns)
      BY <1>1, <2>2, ServerFacts DEF IInv, TypeOK
    <3>2. \A d \in Conns : conns[d].host = z => conns'[d] = conns[d]
      BY <1>9, <2>2 DEF s
    <3> QED BY <3>1, <3>2, SessionsStayOpen
  <2> QED BY <2>1, <2>2
<1>12. conns' = [d \in Conns |-> conns'[d]] /\ faults' \in 0 .. MaxFaults
  BY <1>1 DEF IInv, TypeOK
<1> QED BY <1>6, <1>8, <1>10, <1>11, <1>12, ServerSideKeeps

LEMMA ClosePreviewKeeps ==
  ASSUME IInv, ClosePreview, Fault, UNCHANGED tabVars
  PROVE  IInv'
<1> DEFINE s == studio
           server == servers[s]
           after == [server EXCEPT !.state = "closed", !.pending = {}, !.sessions = <<>>,
                                   !.socket = [t \in Tabs |-> None]]
<1>1. /\ s # None /\ servers' = [servers EXCEPT ![s] = after]
      /\ conns' = [c \in Conns |->
                     IF \E t \in Tabs : server.socket[t] = c /\ conns[c].state = "up"
                     THEN [conns[c] EXCEPT !.state = "closing"] ELSE conns[c]]
      /\ studio' = None /\ browserOpened' = FALSE /\ UNCHANGED <<calls, launching>>
  BY DEF ClosePreview
<1>2. s \in Servers
  BY <1>1 DEF IInv, TypeOK
<1>3. server \in ServerType /\ ServerSound(server, calls) /\ SessionsOpenOn(s, server, conns)
  BY <1>2, ServerFacts
<1>4. /\ after \in ServerType /\ after.sessions = <<>> /\ after.slot = server.slot
      /\ after.pending = {} /\ after.state = "closed" /\ after.socket = [t \in Tabs |-> None]
      /\ after.current = server.current
  BY <1>3, EmptySeq DEF ServerType
<1> HIDE DEF after
<1>5. ServerSound(after, calls)
  <2>1. IsInjective(after.sessions)
    BY <1>4 DEF IsInjective
  <2> QED BY <1>3, <1>4, <2>1 DEF ServerSound
<1>6. CallsStep /\ calls' = calls
  BY <1>1, CallsUnchanged
<1>7. ServersStep
  <2>1. launching' \subseteq Ports
    BY <1>1 DEF IInv, TypeOK
  <2> QED BY <1>1, <1>2, <1>4, <1>5, <1>6, <2>1, OneServer
<1>8. ASSUME NEW c \in Conns
      PROVE  /\ Shaped(conns'[c]) /\ Carries(conns'[c], SentCalls', calls')
             /\ conns'[c].host = conns[c].host /\ conns'[c].tab = conns[c].tab
             /\ conns'[c].registered = conns[c].registered
  <2>1. Shaped(conns[c]) /\ Carries(conns[c], SentCalls', calls')
    BY <1>6, <1>7, SocketsCarryMore
  <2>2. CASE \E t \in Tabs : server.socket[t] = c /\ conns[c].state = "up"
    <3>1. PICK t \in Tabs : server.socket[t] = c
      BY <2>2
    <3>2. t \in ToSet(server.sessions)
      BY <1>3, <3>1 DEF ServerSound
    <3>3. conns[c].host # None
      BY <1>2, <1>3, <3>1, <3>2 DEF SessionsOpenOn
    <3>4. conns'[c] = [conns[c] EXCEPT !.state = "closing"]
      BY <1>1, <2>2
    <3> QED BY <2>1, <3>3, <3>4, ClosingShaped
  <2>3. CASE ~ \E t \in Tabs : server.socket[t] = c /\ conns[c].state = "up"
    BY <1>1, <2>1, <2>3
  <2> QED BY <2>2, <2>3
<1>9. ASSUME NEW z \in Servers PROVE SessionsOpenOn(z, servers'[z], conns')
  <2>1. CASE z = s
    BY <1>1, <1>2, <1>4, <2>1 DEF SessionsOpenOn, ToSet, IInv, TypeOK
  <2>2. CASE z # s
    <3>1. servers'[z] = servers[z] /\ servers[z] \in ServerType /\ SessionsOpenOn(z, servers[z], conns)
      BY <1>1, <2>2, ServerFacts DEF IInv, TypeOK
    <3> QED BY <1>8, <3>1, SessionsStayOpen
  <2> QED BY <2>1, <2>2
<1>10. conns' = [c \in Conns |-> conns'[c]] /\ faults' \in 0 .. MaxFaults
  BY <1>1 DEF IInv, TypeOK, Fault
<1> QED BY <1>6, <1>7, <1>8, <1>9, <1>10, ServerSideKeeps

-----------------------------------------------------------------------------
(* The whole specification *)

LEMMA InitHolds == ASSUME Init PROVE IInv
<1>1. /\ conns = [c \in Conns |-> Unused] /\ faults = 0 /\ studio = None
      /\ browserOpened = FALSE /\ servers = [s \in Servers |-> NoServer]
      /\ calls = [call \in Calls |-> [at |-> "idle", push |-> None]] /\ launching = {}
      /\ tabs = [t \in Tabs |-> NoTab] /\ saved = {}
  BY DEF Init, ChannelInit, ServerInit, TabInit
<1>2. \A sent, of : Shaped(Unused) /\ Carries(Unused, sent, of)
  BY UnusedShaped
<1>3. Unused \in ConnType
  BY <1>2 DEF Shaped
<1>4. NoServer \in ServerType
  BY EmptySeq DEF NoServer, ServerType
<1>5. /\ NoServer.sessions = <<>> /\ NoServer.state = "none" /\ NoServer.pending = {}
      /\ NoServer.slot = None /\ NoServer.socket = [t \in Tabs |-> None]
  BY DEF NoServer
<1>6. TypeOK
  <2>1. [at |-> "idle", push |-> None] \in CallType /\ 0 \in 0 .. MaxFaults
    BY DEF CallType
  <2> QED BY <1>1, <1>3, <1>4, <2>1, NoTabType DEF TypeOK
<1>7. SocketsHold /\ CallsHold
  BY <1>1, <1>2 DEF SocketsHold, CallsHold
<1>8. ServersHold
  <2>1. IsInjective(<<>>)
    BY DEF IsInjective
  <2>2. ServerSound(NoServer, calls)
    BY <1>4, <1>5, <2>1 DEF ServerSound
  <2> QED BY <1>1, <1>5, <2>2 DEF ServersHold
<1>9. SessionsAreOpen
  BY <1>1, <1>5 DEF SessionsAreOpen, ToSet
<1>10. TabsHold
  <2>1. /\ NoTab.code = None /\ ~NoTab.compiling /\ NoTab.compiled = None
        /\ NoTab.opening = None /\ NoTab.awaited = None
    BY DEF NoTab
  <2>2. TabSound(NoTab, SentCalls)
    BY <2>1 DEF TabSound, Settled
  <2> QED BY <1>1, <2>2 DEF TabsHold
<1> QED BY <1>6, <1>7, <1>8, <1>9, <1>10 DEF IInv

LEMMA PagesKeep ==
  ASSUME IInv, \/ TabLoads
               \/ TabReturns
               \/ TabStep /\ UNCHANGED <<faults, serverVars>>
               \/ (\E t \in Tabs : CloseTab(t)) /\ Fault /\ UNCHANGED serverVars
               \/ Break /\ UNCHANGED <<serverVars, tabVars>>
  PROVE  IInv'
<1>1. Fault => faults' \in 0 .. MaxFaults
  BY DEF Fault, IInv, TypeOK
<1>2. UNCHANGED faults => faults' \in 0 .. MaxFaults
  BY DEF IInv, TypeOK
<1>3. UNCHANGED serverVars =>
        UNCHANGED <<studio, browserOpened, servers, calls>> /\ launching' \subseteq Ports
  BY DEF serverVars, IInv, TypeOK
<1>4. CASE TabLoads
  <2>1. /\ UNCHANGED <<faults, studio, browserOpened, servers, calls>>
        /\ launching' \subseteq Ports /\ launching \subseteq Ports
    BY <1>4 DEF TabLoads, IInv, TypeOK
  <2>2. SocketsStep /\ TabsStep
    <3>1. PICK port \in launching : \/ \E t \in Tabs, c \in Conns : Load(t, port, c)
                                    \/ UNCHANGED <<conns, tabVars>>
      BY <1>4 DEF TabLoads
    <3> QED BY <2>1, <3>1, LoadKeeps, SocketsUnchanged, TabsUnchanged
  <2> QED BY <1>2, <2>1, <2>2, PageSideKeeps
<1>5. CASE TabReturns
  <2>1. PICK port \in saved, t \in Tabs, c \in Conns : Load(t, port, c)
    BY <1>5 DEF TabReturns
  <2>2. port \in Ports
    BY DEF IInv, TypeOK
  <2>3. SocketsStep /\ TabsStep
    BY <2>1, <2>2, LoadKeeps
  <2> QED BY <1>1, <1>3, <1>5, <2>3, PageSideKeeps DEF TabReturns
<1>6. CASE TabStep /\ UNCHANGED <<faults, serverVars>>
  <2>1. SocketsStep /\ TabsStep
    BY <1>6, AcceptedKeeps, PageCloseKeeps, ReceiveKeeps, RetryKeeps, CompileSucceedsKeeps,
       CompileFailsKeeps, OpenSucceedsKeeps, OpenFailsKeeps DEF TabStep, Listening
  <2> QED BY <1>2, <1>3, <1>6, <2>1, PageSideKeeps
<1>7. CASE (\E t \in Tabs : CloseTab(t)) /\ Fault /\ UNCHANGED serverVars
  BY <1>1, <1>3, <1>7, CloseTabKeeps, PageSideKeeps
<1>8. CASE Break /\ UNCHANGED <<serverVars, tabVars>>
  BY <1>3, <1>8, BreakKeeps, TabsUnchanged, PageSideKeeps
<1> QED BY <1>4, <1>5, <1>6, <1>7, <1>8

LEMMA ServersKeep ==
  ASSUME IInv, \/ ServerStep /\ UNCHANGED <<faults, tabVars>>
               \/ ClosePreview /\ Fault /\ UNCHANGED tabVars
  PROVE  IInv'
<1>1. CASE ClosePreview /\ Fault /\ UNCHANGED tabVars
  BY <1>1, ClosePreviewKeeps
<1>2. CASE ServerStep /\ UNCHANGED <<faults, tabVars>>
  <2>1. CASE \E call \in Calls : \E push \in Shown[call] : Show(call, push) \/ ShowFirst(call, push)
    BY <1>2, <2>1, ShowKeeps
  <2>2. CASE \E call \in Calls, s \in Servers : Created(call, s)
    BY <1>2, <2>2, CreatedKeeps
  <2>3. CASE \E call \in Calls : RenderTimeout(call)
    BY <1>2, <2>3, RenderTimeoutKeeps
  <2>4. CASE \E c \in Conns : ReceiveRegister(c) \/ ReceiveResult(c) \/ HostClose(c)
    BY <1>2, <2>4, ReceiveRegisterKeeps, ReceiveResultKeeps, HostCloseKeeps
  <2> QED BY <1>2, <2>1, <2>2, <2>3, <2>4 DEF ServerStep
<1> QED BY <1>1, <1>2

LEMMA StutterKeeps == ASSUME IInv, UNCHANGED vars PROVE IInv'
<1>1. UNCHANGED <<studio, browserOpened, servers, calls, launching, faults>> /\ UNCHANGED tabVars
      /\ UNCHANGED conns
  BY DEF vars, serverVars
<1>2. launching' \subseteq Ports /\ faults' \in 0 .. MaxFaults
  BY <1>1 DEF IInv, TypeOK
<1> QED BY <1>1, <1>2, SocketsUnchanged, TabsUnchanged, PageSideKeeps

LEMMA NextKeeps == ASSUME IInv, [Next]_vars PROVE IInv'
  BY PagesKeep, ServersKeep, StutterKeeps DEF Next

\* The inductive invariant holds in every state.
THEOREM InvariantHolds == Spec => []IInv
<1>1. Init => IInv
  BY InitHolds
<1>2. IInv /\ [Next]_vars => IInv'
  BY NextKeeps
<1> QED BY <1>1, <1>2, PTL DEF Spec

\* Every variable has its type.
THEOREM TypesHold == Spec => []TypeOK
<1>1. IInv => TypeOK
  BY DEF IInv
<1> QED BY <1>1, InvariantHolds, PTL

\* After any order of tabs registering and leaving, a push with no tab named
\* goes to a tab that is connected as long as there is one (getTargetSession).
THEOREM PushAlwaysHasTarget == Spec => []PushHasTarget
<1>1. IInv => PushHasTarget
  BY DEF IInv, ServersHold, ServerSound, PushHasTarget, Up
<1> QED BY <1>1, InvariantHolds, PTL

\* However sockets close, are replaced and close late, a session's socket is one
\* that has registered as the session's tab and that the server has not seen
\* close (handleConnection, handleRegister, the close handler).
THEOREM SessionsStayOpenOnTheirTab == Spec => []SessionsAreOpen
<1>1. IInv => SessionsAreOpen
  BY DEF IInv
<1> QED BY <1>1, InvariantHolds, PTL

\* A render that waits for a tab is still wanted, is of the push the tab will be
\* sent, and no tab is connected that it could have gone to
\* (updateSourceAndAwaitConnect, handleRegister).
THEOREM SlotStaysCurrent == Spec => []SlotIsCurrent
<1>1. IInv => SlotIsCurrent
  <2> SUFFICES ASSUME IInv, NEW s \in Servers, Up(s), servers[s].slot # None
               PROVE  /\ servers[s].slot \in servers[s].pending
                      /\ servers[s].current = calls[servers[s].slot].push
                      /\ servers[s].sessions = <<>>
    BY DEF SlotIsCurrent
  <2>1. ServerSound(servers[s], calls)
    BY DEF IInv, ServersHold
  <2> QED BY <2>1 DEF ServerSound, Up
<1> QED BY <1>1, InvariantHolds, PTL

\* A render request on its way to a tab carries the push of the call that awaits
\* it, whatever calls, timeouts and reconnections come between.
THEOREM RequestsAlwaysCarryTheirPush == Spec => []RequestsCarryTheirPush
<1>1. IInv => RequestsCarryTheirPush
  BY DEF IInv, SocketsHold, Carries, RequestsCarryTheirPush
<1> QED BY <1>1, InvariantHolds, PTL

\* A tab at rest shows the last push it got or reports an error, and an error
\* only of that push, in whatever order compiles and opens ended.
THEOREM RestingTabShowsLastPush == Spec => []ShowsLastPush
<1>1. IInv => ShowsLastPush
  <2> SUFFICES ASSUME IInv, NEW t \in Tabs, Idle(t)
               PROVE  LET push == [src |-> tabs[t].code, start |-> tabs[t].start]
                      IN /\ tabs[t].compileError \/ tabs[t].openError <=> Bad(push)
                         /\ Bad(push) \/ tabs[t].shown = push
    BY DEF ShowsLastPush
  <2> DEFINE push == [src |-> tabs[t].code, start |-> tabs[t].start]
  <2>1. tabs[t] \in TabType /\ Settled(tabs[t])
    BY DEF IInv, TypeOK, TabsHold, TabSound
  <2>2. push \in Pushes /\ push # None
    BY <2>1 DEF Idle, TabType, Pushes
  <2>3. Bad(push) <=> tabs[t].code \in Broken \/ push \in Misfits
    BY DEF Bad
  <2> QED BY <2>1, <2>2, <2>3 DEF Settled, Idle, TabType
<1> QED BY <1>1, InvariantHolds, PTL

=============================================================================
