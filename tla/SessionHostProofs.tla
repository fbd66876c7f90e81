--------------------------- MODULE SessionHostProofs ---------------------------
(***************************************************************************)
(* Proofs about SessionHost, for any compiles and sessions, any number of  *)
(* requests and any number of slices.                                      *)
(***************************************************************************)
EXTENDS SessionHost, FiniteSetTheorems, TLAPS

\* A job of s's queue: a step of one of the n AutoRuns s has had, or one of the
\* first `last` requests.
JobSound(job, s, n, last) ==
  /\ job.session = s
  /\ job.type = "step" => job.run \in 1 .. n
  /\ job.type # "step" => job.type \notin {"compile", "release"} /\ job.id \in 1 .. last

\* The queue holds s's requests in the order of their ids, all older than those
\* in the mail; an open comes first, and its session's queue is not rejected.
QueueSound(q, s, n, last, out, mail) ==
  \A i \in 1 .. Len(q) :
    /\ JobSound(q[i], s, n, last)
    /\ q[i].type = "open" => i = 1 /\ s \notin out
    /\ q[i].type # "step" =>
         /\ \A j \in i + 1 .. Len(q) : q[j].type # "step" => q[i].id < q[j].id
         /\ \A k \in 1 .. Len(mail) : q[i].id < mail[k].id

\* A job is suspended only in the await of an open or between two slices of a
\* tick of a session that is up.
PhaseSound(q, at, s, out, up) ==
  at # "ready" =>
    /\ q # <<>> /\ s \notin out
    /\ Head(q).type = IF at = "awaiting" THEN "open" ELSE "op"
    /\ at = "sliced" => s \in up

NoStep(q, n) == \A k \in 1 .. Len(q) : ~IsStep(q[k], n)

OneStep(q, n) ==
  \E k \in 1 .. Len(q) : IsStep(q[k], n) /\ \A m \in 1 .. Len(q) : IsStep(q[m], n) => m = k

\* Timers are of the current AutoRun, and one step of it is to come.
ChainSound(q, s, n, most, out, set) ==
  /\ n <= most
  /\ \A t \in set : t[1] = s => t[2] = n /\ n # 0
  /\ n # 0 /\ s \notin out => IF <<s, n>> \in set THEN NoStep(q, n) ELSE OneStep(q, n)

SessionSound(s) ==
  /\ QueueSound(queue[s], s, runs[s], sent, rejected, toWorker)
  /\ PhaseSound(queue[s], phase[s], s, rejected, hSessions)
  /\ ChainSound(queue[s], s, run[s], runs[s], rejected, timers)

\* Nothing of the session has reached the host.
Untouched(s, q, out, set) == q[s] = <<>> /\ s \notin out /\ \A t \in set : t[1] # s
Fresh(s) == Untouched(s, queue, rejected, timers)

\* Requests arrive in the order of their ids, and a session's open before its
\* other requests.
RequestsSound ==
  /\ \A k \in 1 .. Len(toWorker) :
       /\ toWorker[k].id \in 1 .. sent
       /\ toWorker[k].type \in {"compile", "release"} => toWorker[k].session = None
       /\ \A j \in 1 .. k - 1 : toWorker[j].id < toWorker[k].id
       /\ toWorker[k].type = "open" =>
            /\ Fresh(toWorker[k].session)
            /\ \A j \in 1 .. k - 1 : toWorker[j].session # toWorker[k].session
  /\ \A s \in Sessions \ asked :
       Fresh(s) /\ \A k \in 1 .. Len(toWorker) : toWorker[k].session # s
  /\ \A request \in building : request.type = "compile" /\ request.session = None

\* The inductive invariant.
IInv == TypeOK /\ (\A s \in Sessions : SessionSound(s)) /\ RequestsSound

-----------------------------------------------------------------------------
(* Lemmas about queues and replies *)

LEMMA TailItems ==
  ASSUME NEW S, NEW q \in Seq(S), q # <<>>
  PROVE  /\ Tail(q) \in Seq(S) /\ Len(Tail(q)) = Len(q) - 1 /\ Len(q) \in Nat \ {0}
         /\ Head(q) = q[1] /\ q[1] \in S
         /\ \A k \in 1 .. Len(Tail(q)) : Tail(q)[k] = q[k + 1] /\ k + 1 \in 2 .. Len(q)
OBVIOUS

LEMMA AppendItems ==
  ASSUME NEW S, NEW q \in Seq(S), NEW e \in S
  PROVE  /\ Append(q, e) \in Seq(S) /\ Len(Append(q, e)) = Len(q) + 1 /\ Len(q) \in Nat
         /\ Append(q, e) # <<>> /\ Append(q, e)[Len(q) + 1] = e
         /\ \A k \in 1 .. Len(q) : Append(q, e)[k] = q[k]
         /\ \A k \in 1 .. Len(q) + 1 : k \in 1 .. Len(q) \/ k = Len(q) + 1
BY SMTT(30)

LEMMA AppendHead ==
  ASSUME NEW S, NEW q \in Seq(S), NEW e \in S, q # <<>>
  PROVE  Head(Append(q, e)) = Head(q)
OBVIOUS

LEMMA StepJobTyped ==
  ASSUME NEW s \in Sessions, NEW n \in Nat
  PROVE  /\ StepJob(s, n) \in Jobs /\ StepJob(s, n).type = "step"
         /\ StepJob(s, n).session = s /\ StepJob(s, n).run = n
BY DEF StepJob, Jobs

LEMMA RequestsTyped ==
  ASSUME NEW r \in Request
  PROVE  /\ r \in Jobs /\ r.type \in RequestTypes /\ r.type # "step" /\ r.id \in Nat
         /\ r.compile \in Compiles \cup {None} /\ r.session \in Sessions \cup {None}
         /\ r.type \in {"compile", "release"} => r.compile \in Compiles
         /\ r.type \notin {"compile", "release"} => r.session \in Sessions
<1>1. /\ r.id \in {ReplayId} \cup PageIds /\ r.type \in RequestTypes
      /\ r.compile \in Compiles \cup {None} /\ r.session \in Sessions \cup {None}
      /\ IF r.type \in {"compile", "release"} THEN r.compile # None ELSE r.session # None
  BY DEF Request
<1>2. r.id \in Nat
  BY <1>1 DEF ReplayId, PageIds
<1>3. QED
  BY <1>1, <1>2 DEF Jobs, RequestTypes, SessionOps

LEMMA JobsTyped ==
  ASSUME NEW job \in Jobs
  PROVE  /\ job.type # "step" => job \in Request
         /\ job.type = "step" => job.session \in Sessions /\ job.run \in Nat
<1>1. job \in Request => job.type # "step"
  BY RequestsTyped
<1>2. QED
  BY <1>1 DEF Jobs

LEMMA RepliesTyped ==
  ASSUME NEW r \in Request
  PROVE  /\ \A type \in ReplyTypes, state \in States : ReplyTo(r, type, state) \in Reply
         /\ Failed(r.id) \in Reply
         /\ [id |-> r.id, type |-> "released", session |-> None, state |-> "none"] \in Reply
<1>1. r.id \in {NoId, ReplayId} \cup PageIds /\ r.session \in Sessions \cup {None}
  BY DEF Request
<1>2. QED
  BY <1>1 DEF ReplyTo, Failed, Reply, ReplyTypes, States

LEMMA PushesTyped ==
  /\ [id |-> NoId, type |-> "progressed", session |-> None, state |-> "none"] \in Reply
  /\ \A s \in Sessions : Frame(s, "running") \in Reply
BY DEF Reply, ReplyTypes, States, Frame

LEMMA PostTyped ==
  ASSUME fromWorker \in Seq(Reply), NEW m \in Reply, Post(m)
  PROVE  fromWorker' \in Seq(Reply)
BY DEF Post

\* What is left of a sound queue when its head is done.
LEMMA TailSound ==
  ASSUME NEW q \in Seq(Jobs), NEW s, NEW n \in Nat, NEW m \in Nat, n <= m, NEW last, NEW out,
         NEW rest, NEW mail, QueueSound(q, s, n, last, out, mail), q # <<>>
  PROVE  /\ QueueSound(Tail(q), s, m, last, rest, mail)
         /\ \A i \in 1 .. Len(Tail(q)) : Tail(q)[i].type # "open"
<1> SUFFICES ASSUME NEW i \in 1 .. Len(Tail(q))
             PROVE  /\ JobSound(Tail(q)[i], s, m, last)
                    /\ Tail(q)[i].type # "open"
                    /\ Tail(q)[i].type # "step" =>
                         /\ \A j \in i + 1 .. Len(Tail(q)) :
                              Tail(q)[j].type # "step" => Tail(q)[i].id < Tail(q)[j].id
                         /\ \A k \in 1 .. Len(mail) : Tail(q)[i].id < mail[k].id
  BY DEF QueueSound
<1>1. /\ Len(Tail(q)) = Len(q) - 1 /\ Len(q) \in Nat \ {0}
      /\ \A k \in 1 .. Len(Tail(q)) : Tail(q)[k] = q[k + 1] /\ k + 1 \in 2 .. Len(q)
  BY TailItems
<1>2. Tail(q)[i] = q[i + 1] /\ i + 1 \in 1 .. Len(q) /\ i + 1 # 1
  BY <1>1
<1>3. JobSound(q[i + 1], s, m, last)
  BY <1>2 DEF QueueSound, JobSound
<1>4. q[i + 1].type # "open"
  BY <1>2 DEF QueueSound
<1>5. ASSUME q[i + 1].type # "step", NEW j \in i + 1 .. Len(Tail(q)), Tail(q)[j].type # "step"
      PROVE  q[i + 1].id < Tail(q)[j].id
  <2>1. Tail(q)[j] = q[j + 1] /\ j + 1 \in (i + 1) + 1 .. Len(q)
    BY <1>1
  <2>2. QED
    BY <2>1, <1>2, <1>5 DEF QueueSound
<1>6. q[i + 1].type # "step" => \A k \in 1 .. Len(mail) : q[i + 1].id < mail[k].id
  BY <1>2 DEF QueueSound
<1>7. QED
  BY <1>2, <1>3, <1>4, <1>5, <1>6

\* A sound queue with a job added behind the others.
LEMMA AppendSound ==
  ASSUME NEW q \in Seq(Jobs), NEW s, NEW n, NEW last, NEW out, NEW mail, NEW left,
         QueueSound(q, s, n, last, out, mail), NEW job \in Jobs, JobSound(job, s, n, last),
         job.type = "open" => q = <<>> /\ s \notin out,
         job.type # "step" =>
           /\ \A i \in 1 .. Len(q) : q[i].type # "step" => q[i].id < job.id
           /\ \A k \in 1 .. Len(left) : job.id < left[k].id,
         \A k \in 1 .. Len(left) : \E l \in 1 .. Len(mail) : left[k] = mail[l]
  PROVE  QueueSound(Append(q, job), s, n, last, out, left)
<1> DEFINE r == Append(q, job)
<1>1. /\ Len(r) = Len(q) + 1 /\ Len(q) \in Nat /\ r[Len(q) + 1] = job
      /\ \A k \in 1 .. Len(q) : r[k] = q[k]
      /\ \A k \in 1 .. Len(q) + 1 : k \in 1 .. Len(q) \/ k = Len(q) + 1
  BY AppendItems
<1> HIDE DEF r
<1>2. ASSUME NEW i \in 1 .. Len(q)
      PROVE  /\ JobSound(r[i], s, n, last)
             /\ r[i].type = "open" => i = 1 /\ s \notin out
             /\ r[i].type # "step" =>
                  /\ \A j \in i + 1 .. Len(r) : r[j].type # "step" => r[i].id < r[j].id
                  /\ \A k \in 1 .. Len(left) : r[i].id < left[k].id
  <2>1. r[i] = q[i]
    BY <1>1
  <2>2. ASSUME r[i].type # "step", NEW j \in i + 1 .. Len(r), r[j].type # "step"
        PROVE  r[i].id < r[j].id
    <3>1. CASE j \in i + 1 .. Len(q)
      BY <3>1, <2>1, <2>2, <1>1 DEF QueueSound
    <3>2. CASE j = Len(q) + 1
      BY <3>2, <2>1, <2>2, <1>1
    <3>3. QED
      BY <3>1, <3>2, <1>1
  <2>3. r[i].type # "step" => \A k \in 1 .. Len(left) : r[i].id < left[k].id
    BY <2>1 DEF QueueSound
  <2>4. QED
    BY <2>1, <2>2, <2>3 DEF QueueSound
<1>3. /\ JobSound(r[Len(q) + 1], s, n, last)
      /\ r[Len(q) + 1].type = "open" => Len(q) + 1 = 1 /\ s \notin out
      /\ r[Len(q) + 1].type # "step" =>
           /\ \A j \in (Len(q) + 1) + 1 .. Len(r) : r[j].type # "step" => r[Len(q) + 1].id < r[j].id
           /\ \A k \in 1 .. Len(left) : r[Len(q) + 1].id < left[k].id
  BY <1>1
<1>4. QED
  BY <1>1, <1>2, <1>3 DEF QueueSound, r

LEMMA StepsLeft ==
  ASSUME NEW q \in Seq(Jobs), q # <<>>, NEW n
  PROVE  /\ NoStep(q, n) => NoStep(Tail(q), n)
         /\ OneStep(q, n) => IF IsStep(Head(q), n) THEN NoStep(Tail(q), n) ELSE OneStep(Tail(q), n)
<1>1. /\ Len(Tail(q)) = Len(q) - 1 /\ Len(q) \in Nat \ {0} /\ Head(q) = q[1]
      /\ \A k \in 1 .. Len(Tail(q)) : Tail(q)[k] = q[k + 1] /\ k + 1 \in 2 .. Len(q)
  BY TailItems
<1>2. NoStep(q, n) => NoStep(Tail(q), n)
  BY <1>1 DEF NoStep
<1>3. ASSUME OneStep(q, n), IsStep(Head(q), n) PROVE NoStep(Tail(q), n)
  <2>1. PICK k \in 1 .. Len(q) : \A m \in 1 .. Len(q) : IsStep(q[m], n) => m = k
    BY <1>3 DEF OneStep
  <2>2. 1 = k
    BY <1>1, <1>3, <2>1
  <2>3. QED
    BY <1>1, <2>1, <2>2 DEF NoStep
<1>4. ASSUME OneStep(q, n), ~IsStep(Head(q), n) PROVE OneStep(Tail(q), n)
  <2>1. PICK k \in 1 .. Len(q) :
          IsStep(q[k], n) /\ \A m \in 1 .. Len(q) : IsStep(q[m], n) => m = k
    BY <1>4 DEF OneStep
  <2>2. k # 1 /\ k - 1 \in 1 .. Len(Tail(q))
    BY <1>1, <1>4, <2>1
  <2>3. Tail(q)[k - 1] = q[k]
    BY <1>1, <2>2
  <2>4. \A m \in 1 .. Len(Tail(q)) : IsStep(Tail(q)[m], n) => m = k - 1
    BY <1>1, <2>1
  <2>5. QED
    BY <2>1, <2>2, <2>3, <2>4 DEF OneStep
<1>5. QED
  BY <1>2, <1>3, <1>4

LEMMA StepsAdded ==
  ASSUME NEW q \in Seq(Jobs), NEW job \in Jobs, NEW n
  PROVE  /\ NoStep(q, n) => IF IsStep(job, n) THEN OneStep(Append(q, job), n)
                                               ELSE NoStep(Append(q, job), n)
         /\ OneStep(q, n) /\ ~IsStep(job, n) => OneStep(Append(q, job), n)
<1> DEFINE r == Append(q, job)
<1>1. /\ Len(r) = Len(q) + 1 /\ Len(q) \in Nat /\ r[Len(q) + 1] = job
      /\ \A k \in 1 .. Len(q) : r[k] = q[k]
      /\ \A k \in 1 .. Len(r) : k \in 1 .. Len(q) \/ k = Len(q) + 1
      /\ Len(q) + 1 \in 1 .. Len(r)
  BY AppendItems
<1> HIDE DEF r
<1>2. NoStep(q, n) /\ IsStep(job, n) => OneStep(r, n)
  BY <1>1 DEF NoStep, OneStep
<1>3. NoStep(q, n) /\ ~IsStep(job, n) => NoStep(r, n)
  BY <1>1 DEF NoStep
<1>4. ASSUME OneStep(q, n), ~IsStep(job, n) PROVE OneStep(r, n)
  <2>1. PICK k \in 1 .. Len(q) :
          IsStep(q[k], n) /\ \A m \in 1 .. Len(q) : IsStep(q[m], n) => m = k
    BY <1>4 DEF OneStep
  <2>2. k \in 1 .. Len(r) /\ IsStep(r[k], n) /\ \A m \in 1 .. Len(r) : IsStep(r[m], n) => m = k
    BY <1>1, <1>4, <2>1
  <2>3. QED
    BY <2>2 DEF OneStep
<1>5. QED
  BY <1>2, <1>3, <1>4 DEF r

-----------------------------------------------------------------------------
(* The invariant, step by step *)

USE HostAssumption, ProtocolAssumption

\* The head of a queue whose job can run.
LEMMA Current ==
  ASSUME IInv, NEW s \in Sessions, queue[s] # <<>>
  PROVE  /\ queue[s] \in Seq(Jobs) /\ Head(queue[s]) \in Jobs /\ Head(queue[s]).session = s
         /\ Head(queue[s]).type # "step" =>
              /\ Head(queue[s]) \in Request /\ Head(queue[s]).id \in 1 .. sent
              /\ Head(queue[s]).type \notin {"compile", "release"}
         /\ Head(queue[s]).type = "step" => Head(queue[s]).run \in 1 .. runs[s]
<1>1. queue[s] \in Seq(Jobs)
  BY DEF IInv, TypeOK
<1>2. Head(queue[s]) = queue[s][1] /\ Head(queue[s]) \in Jobs /\ 1 \in 1 .. Len(queue[s])
  BY <1>1, TailItems
<1>3. JobSound(Head(queue[s]), s, runs[s], sent)
  BY <1>2 DEF IInv, SessionSound, QueueSound
<1>4. QED
  BY <1>1, <1>2, <1>3, JobsTyped DEF JobSound

\* A step that is of one session keeps the rest of the invariant.
LEMMA StepOfOne ==
  ASSUME IInv, TypeOK', NEW s \in Sessions, queue[s] # <<>> \/ ~Fresh(s),
         \A z \in Sessions \ {s} :
           /\ queue'[z] = queue[z] /\ phase'[z] = phase[z]
           /\ run'[z] = run[z] /\ runs'[z] = runs[z],
         rejected' \ {s} = rejected \ {s}, hSessions' \ {s} = hSessions \ {s},
         \A t : t[1] # s => (t \in timers' <=> t \in timers),
         UNCHANGED <<toWorker, sent, asked>>, building' \subseteq building,
         SessionSound(s)'
  PROVE  IInv'
<1>1. \A z \in Sessions \ {s} : Fresh(z) => Fresh(z)'
  BY DEF Fresh, Untouched
<1>2. ~Fresh(s)
  BY DEF Fresh, Untouched
<1>3. RequestsSound'
  <2>1. \A z \in Sessions : Fresh(z) => Fresh(z)'
    BY <1>1, <1>2
  <2>2. \A k \in 1 .. Len(toWorker) : toWorker[k].type = "open" => toWorker[k].session \in Sessions
    <3>1. \A k \in 1 .. Len(toWorker) : toWorker[k] \in Request
      BY DEF IInv, TypeOK
    <3>2. QED
      BY <3>1, RequestsTyped
  <2>3. QED
    BY <2>1, <2>2 DEF IInv, RequestsSound
<1>4. ASSUME NEW z \in Sessions \ {s} PROVE SessionSound(z)'
  <2>1. SessionSound(z)
    BY DEF IInv
  <2>2. QueueSound(queue[z], z, runs[z], sent, rejected, toWorker)'
    BY <2>1 DEF SessionSound, QueueSound
  <2>3. PhaseSound(queue[z], phase[z], z, rejected, hSessions)'
    BY <2>1 DEF SessionSound, PhaseSound
  <2>4. ChainSound(queue[z], z, run[z], runs[z], rejected, timers)'
    <3>1. <<z, run[z]>> \in timers' <=> <<z, run[z]>> \in timers
      OBVIOUS
    <3>2. \A t \in timers' : t[1] = z => t \in timers
      OBVIOUS
    <3>3. QED
      BY <2>1, <3>1, <3>2 DEF SessionSound, ChainSound
  <2>5. QED
    BY <2>2, <2>3, <2>4 DEF SessionSound
<1>5. QED
  BY <1>3, <1>4 DEF IInv

\* The head of s's queue is done and s's next job may run.
LEMMA Dequeued ==
  ASSUME IInv, NEW s \in Sessions, queue[s] # <<>>,
         queue' = [queue EXCEPT ![s] = Tail(@)],
         runs'[s] \in Nat, runs[s] <= runs'[s], UNCHANGED <<sent, toWorker>>
  PROVE  /\ queue'[s] = Tail(queue[s]) /\ \A z \in Sessions \ {s} : queue'[z] = queue[z]
         /\ queue' \in [Sessions -> Seq(Jobs)]
         /\ QueueSound(queue[s], s, runs[s], sent, rejected, toWorker)'
<1>1. queue \in [Sessions -> Seq(Jobs)] /\ queue[s] \in Seq(Jobs) /\ runs[s] \in Nat
  BY DEF IInv, TypeOK
<1>2. Tail(queue[s]) \in Seq(Jobs)
  BY <1>1, TailItems
<1>3. queue'[s] = Tail(queue[s]) /\ queue' \in [Sessions -> Seq(Jobs)]
  BY <1>1, <1>2
<1>4. \A z \in Sessions \ {s} : queue'[z] = queue[z]
  BY <1>1
<1>5. QueueSound(queue[s], s, runs[s], sent, rejected, toWorker)
  BY DEF IInv, SessionSound
<1>6. QueueSound(Tail(queue[s]), s, runs'[s], sent, rejected', toWorker)
  BY <1>1, <1>5, TailSound
<1>7. QED
  BY <1>3, <1>4, <1>6

\* A request of s is answered.
LEMMA AnswerKeeps ==
  ASSUME IInv, NEW s \in Sessions, Finished(s), queue[s] # <<>>, Head(queue[s]).type # "step",
         UNCHANGED rejected, slices' \in [Sessions -> 0 .. MaxSlices],
         hSessions' \subseteq Sessions, hSessions' \ {s} = hSessions \ {s}, NEW m \in Reply, Post(m),
         \/ UNCHANGED <<run, runs, timers>>
         \/ StopRun(s)
         \/ /\ run[s] = 0 /\ runs' = [runs EXCEPT ![s] = @ + 1]
            /\ run' = [run EXCEPT ![s] = runs'[s]] /\ timers' = timers \cup {<<s, runs'[s]>>}
  PROVE  IInv'
<1>1. /\ run \in [Sessions -> Nat] /\ runs \in [Sessions -> Nat] /\ timers \subseteq Sessions \X Nat
      /\ queue[s] \in Seq(Jobs)
  BY DEF IInv, TypeOK
<1>2. /\ queue' = [queue EXCEPT ![s] = Tail(@)] /\ phase' = [phase EXCEPT ![s] = "ready"]
      /\ UNCHANGED <<hCompiles, building, built, hung, sent, asked, toWorker>>
  BY DEF Finished, envVars
<1>3. /\ run' \in [Sessions -> Nat] /\ runs' \in [Sessions -> Nat]
      /\ timers' \subseteq Sessions \X Nat /\ runs[s] <= runs'[s]
      /\ \A z \in Sessions \ {s} : run'[z] = run[z] /\ runs'[z] = runs[z]
      /\ \A t : t[1] # s => (t \in timers' <=> t \in timers)
  <2>1. CASE UNCHANGED <<run, runs, timers>>
    BY <2>1, <1>1
  <2>2. CASE StopRun(s)
    BY <2>2, <1>1 DEF StopRun
  <2>3. CASE /\ run[s] = 0 /\ runs' = [runs EXCEPT ![s] = @ + 1]
             /\ run' = [run EXCEPT ![s] = runs'[s]] /\ timers' = timers \cup {<<s, runs'[s]>>}
    <3>1. runs'[s] = runs[s] + 1 /\ runs' \in [Sessions -> Nat]
      BY <2>3, <1>1
    <3>2. QED
      BY <2>3, <3>1, <1>1
  <2>4. QED
    BY <2>1, <2>2, <2>3
<1>4. /\ queue'[s] = Tail(queue[s]) /\ \A z \in Sessions \ {s} : queue'[z] = queue[z]
      /\ queue' \in [Sessions -> Seq(Jobs)]
      /\ QueueSound(queue[s], s, runs[s], sent, rejected, toWorker)'
  BY <1>2, <1>3, Dequeued
<1>5. TypeOK'
  <2>1. fromWorker' \in Seq(Reply)
    BY PostTyped DEF IInv, TypeOK
  <2>2. QED
    BY <1>2, <1>3, <1>4, <2>1 DEF IInv, TypeOK
<1>6. phase'[s] = "ready" /\ \A z \in Sessions \ {s} : phase'[z] = phase[z]
  BY <1>2 DEF IInv, TypeOK
<1>7. ChainSound(queue[s], s, run[s], runs[s], rejected, timers)
  BY DEF IInv, SessionSound
<1>8. ChainSound(queue[s], s, run[s], runs[s], rejected, timers)'
  <2>1. CASE UNCHANGED <<run, runs, timers>>
    <3>1. ~IsStep(Head(queue[s]), run[s])
      BY DEF IsStep
    <3>2. /\ NoStep(queue[s], run[s]) => NoStep(Tail(queue[s]), run[s])
          /\ OneStep(queue[s], run[s]) => OneStep(Tail(queue[s]), run[s])
      BY <1>1, <3>1, StepsLeft
    <3>3. QED
      BY <2>1, <3>2, <1>4, <1>7 DEF ChainSound
  <2>2. CASE StopRun(s)
    <3>1. run'[s] = 0 /\ runs'[s] = runs[s] /\ timers' = timers \ {<<s, run[s]>>}
      BY <2>2, <1>1 DEF StopRun
    <3>2. \A t \in timers' : t[1] # s
      <4>1. \A t \in timers' : t \in timers /\ t = <<t[1], t[2]>> /\ t # <<s, run[s]>>
        BY <3>1, <1>1
      <4>2. QED
        BY <4>1, <1>7 DEF ChainSound
    <3>3. QED
      BY <3>1, <3>2, <1>1 DEF ChainSound
  <2>3. CASE /\ run[s] = 0 /\ runs' = [runs EXCEPT ![s] = @ + 1]
             /\ run' = [run EXCEPT ![s] = runs'[s]] /\ timers' = timers \cup {<<s, runs'[s]>>}
    <3>1. runs'[s] = runs[s] + 1 /\ run'[s] = runs'[s] /\ runs'[s] # 0 /\ <<s, run'[s]>> \in timers'
      BY <2>3, <1>1
    <3>2. \A t \in timers' : t[1] = s => t[2] = run'[s]
      BY <2>3, <3>1, <1>7 DEF ChainSound
    <3>3. NoStep(queue[s], runs[s] + 1)
      <4>1. \A k \in 1 .. Len(queue[s]) : queue[s][k].type = "step" => queue[s][k].run \in 1 .. runs[s]
        BY DEF IInv, SessionSound, QueueSound, JobSound
      <4>2. QED
        BY <4>1, <1>1 DEF NoStep, IsStep
    <3>4. NoStep(queue'[s], run'[s])
      BY <3>1, <3>3, <1>1, <1>4, StepsLeft
    <3>5. QED
      BY <3>1, <3>2, <3>4, <1>3 DEF ChainSound
  <2>4. QED
    BY <2>1, <2>2, <2>3
<1>9. SessionSound(s)'
  BY <1>4, <1>6, <1>8 DEF SessionSound, PhaseSound
<1>10. QED
  BY <1>2, <1>3, <1>4, <1>5, <1>6, <1>9, StepOfOne

\* A job of s is suspended, or goes on to its next slice.
LEMMA SuspendKeeps ==
  ASSUME IInv, NEW s \in Sessions, queue[s] # <<>>, s \notin rejected,
         NEW at \in {"ready", "awaiting", "sliced"}, phase' = [phase EXCEPT ![s] = at],
         at # "ready" => Head(queue[s]).type = IF at = "awaiting" THEN "open" ELSE "op",
         at = "sliced" => s \in hSessions,
         slices' \in [Sessions -> 0 .. MaxSlices], fromWorker' \in Seq(Reply),
         UNCHANGED <<hCompiles, building, built, queue, rejected, hSessions, run, runs, timers,
                     hung, envVars, toWorker>>
  PROVE  IInv'
<1>1. phase' \in [Sessions -> {"ready", "awaiting", "sliced"}] /\ phase'[s] = at
      /\ \A z \in Sessions \ {s} : phase'[z] = phase[z]
  BY DEF IInv, TypeOK
<1>2. TypeOK'
  BY <1>1 DEF IInv, TypeOK, envVars
<1>3. SessionSound(s)'
  BY <1>1 DEF IInv, SessionSound, PhaseSound, envVars
<1>4. QED
  BY <1>1, <1>2, <1>3, StepOfOne DEF envVars

LEMMA HeartbeatTyped ==
  ASSUME IInv, MayHeartbeat PROVE fromWorker' \in Seq(Reply)
BY PushesTyped, PostTyped DEF IInv, TypeOK, MayHeartbeat

LEMMA OpenKeeps == ASSUME IInv, NEW s \in Sessions, Open(s) PROVE IInv'
<1> DEFINE request == Head(queue[s])
<1>1. queue[s] # <<>> /\ s \notin rejected /\ request.type = "open"
  BY DEF Open, Job, CanRun
<1>2. request \in Request
  BY <1>1, Current
<1>3. slices \in [Sessions -> 0 .. MaxSlices] /\ hSessions \subseteq Sessions
      /\ fromWorker \in Seq(Reply)
  BY DEF IInv, TypeOK
<1>4. CASE phase' = [phase EXCEPT ![s] = "awaiting"]
           /\ UNCHANGED <<hCompiles, building, built, queue, slices, rejected, hSessions,
                          run, runs, timers, hung, envVars, channels>>
  <2>1. UNCHANGED <<fromWorker, toWorker>>
    BY <1>4 DEF channels
  <2>2. QED
    BY <1>1, <1>3, <1>4, <2>1, SuspendKeeps
<1>5. CASE /\ hSessions' = hSessions \cup {s} /\ Post(ReplyTo(request, "opened", "stopped"))
           /\ Finished(s) /\ UNCHANGED <<slices, rejected, run, runs, timers>>
  <2>1. ReplyTo(request, "opened", "stopped") \in Reply
    BY <1>2, RepliesTyped DEF ReplyTypes, States
  <2>2. QED
    BY <1>1, <1>3, <1>5, <2>1, AnswerKeeps
<1>6. CASE /\ Post(Failed(request.id)) /\ Finished(s)
           /\ UNCHANGED <<slices, rejected, hSessions, run, runs, timers>>
  <2>1. Failed(request.id) \in Reply
    BY <1>2, RepliesTyped
  <2>2. QED
    BY <1>1, <1>3, <1>6, <2>1, AnswerKeeps
<1>7. QED
  BY <1>4, <1>5, <1>6 DEF Open

\* A step that answers the current request of s.
LEMMA OpKeeps ==
  ASSUME IInv, NEW s \in Sessions, NoSession(s) \/ Run(s) \/ Pause(s) \/ CloseSession(s) \/ Apply(s)
  PROVE  IInv'
<1> DEFINE request == Head(queue[s])
<1>1. queue[s] # <<>> /\ request.type \in SessionOps \cup {"close"} /\ Finished(s)
      /\ UNCHANGED <<slices, rejected>>
  BY DEF NoSession, Run, Pause, CloseSession, Apply, Job, CanRun, SessionOps
<1>2. request.type # "step"
  BY <1>1 DEF SessionOps
<1>3. request \in Request
  BY <1>1, <1>2, Current
<1>4. slices \in [Sessions -> 0 .. MaxSlices] /\ hSessions \subseteq Sessions
  BY DEF IInv, TypeOK
<1>5. /\ StateOf(run, s) \in States
      /\ \A type \in ReplyTypes, state \in States : ReplyTo(request, type, state) \in Reply
      /\ Failed(request.id) \in Reply
  BY <1>3, RepliesTyped DEF StateOf, States
<1>6. \E m \in Reply : Post(m)
  <2>1. \/ Post(Failed(request.id))
        \/ \E type \in ReplyTypes, state \in States : Post(ReplyTo(request, type, state))
    BY <1>5 DEF NoSession, Run, Pause, CloseSession, Apply, ReplyTypes, States
  <2>2. QED
    BY <2>1, <1>5
<1>7. /\ slices' \in [Sessions -> 0 .. MaxSlices] /\ hSessions' \subseteq Sessions
      /\ hSessions' \ {s} = hSessions \ {s}
  BY <1>1, <1>4 DEF NoSession, Run, Pause, CloseSession, Apply
<1>8. \/ UNCHANGED <<run, runs, timers>>
      \/ StopRun(s)
      \/ /\ run[s] = 0 /\ runs' = [runs EXCEPT ![s] = @ + 1]
         /\ run' = [run EXCEPT ![s] = runs'[s]] /\ timers' = timers \cup {<<s, runs'[s]>>}
  BY DEF NoSession, Run, Pause, CloseSession, Apply
<1>9. QED
  BY <1>1, <1>2, <1>6, <1>7, <1>8, AnswerKeeps

LEMMA SliceKeeps == ASSUME IInv, NEW s \in Sessions, Slice(s) PROVE IInv'
<1>1. /\ queue[s] # <<>> /\ s \notin rejected /\ Head(queue[s]).type = "op"
      /\ s \in hSessions
  BY DEF Slice, Job, CanRun
<1>2. slices' \in [Sessions -> 0 .. MaxSlices]
  BY DEF Slice, IInv, TypeOK
<1>3. fromWorker' \in Seq(Reply)
  BY HeartbeatTyped DEF Slice
<1>4. QED
  BY <1>1, <1>2, <1>3, SuspendKeeps DEF Slice

LEMMA NextSliceKeeps == ASSUME IInv, NEW s \in Sessions, NextSlice(s) PROVE IInv'
<1> DEFINE request == Head(queue[s])
<1>1. phase[s] = "sliced" /\ UNCHANGED <<rejected, hSessions, run, runs, timers>>
  BY DEF NextSlice
<1>2. queue[s] # <<>> /\ s \notin rejected /\ request.type = "op" /\ s \in hSessions
  BY <1>1 DEF IInv, SessionSound, PhaseSound
<1>3. request \in Request
  BY <1>2, Current
<1>4. slices \in [Sessions -> 0 .. MaxSlices] /\ hSessions \subseteq Sessions
      /\ phase = [phase EXCEPT ![s] = "sliced"]
  BY <1>1 DEF IInv, TypeOK
<1>5. CASE /\ slices[s] > 1 /\ slices' = [slices EXCEPT ![s] = @ - 1] /\ MayHeartbeat
           /\ UNCHANGED <<hCompiles, building, built, queue, phase, hung, envVars, toRelay,
                          toPage, toWorker>>
  <2>1. slices' \in [Sessions -> 0 .. MaxSlices]
    BY <1>4, <1>5
  <2>2. phase' = [phase EXCEPT ![s] = "sliced"]
    BY <1>4, <1>5
  <2>3. QED
    BY <1>1, <1>2, <1>5, <2>1, <2>2, HeartbeatTyped, SuspendKeeps
<1>6. CASE /\ \/ slices[s] = 1 /\ Post(ReplyTo(request, "updated", StateOf(run, s)))
              \/ Post(Failed(request.id))
           /\ slices' = [slices EXCEPT ![s] = 0] /\ Finished(s)
  <2>1. slices' \in [Sessions -> 0 .. MaxSlices]
    BY <1>4, <1>6
  <2>2. ReplyTo(request, "updated", StateOf(run, s)) \in Reply /\ Failed(request.id) \in Reply
    BY <1>3, RepliesTyped DEF StateOf, States, ReplyTypes
  <2>3. \E m \in Reply : Post(m)
    BY <1>6, <2>2
  <2>4. request.type # "step" /\ hSessions' \subseteq Sessions
    BY <1>1, <1>2, <1>4
  <2>5. QED
    BY <1>1, <1>2, <1>6, <2>1, <2>3, <2>4, AnswerKeeps
<1>7. QED
  BY <1>5, <1>6 DEF NextSlice

\* A step's job is the head of the queue, which is not suspended.
LEMMA StepJobs ==
  ASSUME IInv, NEW s \in Sessions, Job(s, {"step"})
  PROVE  /\ queue[s] # <<>> /\ s \notin rejected /\ Head(queue[s]).type = "step" /\ ~hung
         /\ phase[s] = "ready" /\ Head(queue[s]).run \in 1 .. runs[s]
<1>1. queue[s] # <<>> /\ s \notin rejected /\ Head(queue[s]).type = "step" /\ ~hung
  BY DEF Job, CanRun
<1>2. phase[s] = "ready"
  BY <1>1 DEF IInv, SessionSound, PhaseSound
<1>3. QED
  BY <1>1, <1>2, Current

LEMMA StepKeeps == ASSUME IInv, NEW s \in Sessions, Step(s) PROVE IInv'
<1> DEFINE n == Head(queue[s]).run
<1>1. /\ queue[s] # <<>> /\ s \notin rejected /\ Head(queue[s]).type = "step"
      /\ phase[s] = "ready" /\ n \in 1 .. runs[s]
  BY StepJobs DEF Step
<1>2. /\ run \in [Sessions -> Nat] /\ runs \in [Sessions -> Nat] /\ timers \subseteq Sessions \X Nat
      /\ queue[s] \in Seq(Jobs)
  BY DEF IInv, TypeOK
<1>3. /\ queue' = [queue EXCEPT ![s] = Tail(@)] /\ phase' = [phase EXCEPT ![s] = "ready"]
      /\ UNCHANGED <<hCompiles, building, built, hung, sent, asked, toWorker, slices, rejected,
                     hSessions, run, runs>>
  BY DEF Step, Finished, envVars
<1>4. IF run[s] = n THEN timers' = timers \cup {<<s, n>>} ELSE timers' = timers
  BY DEF Step
<1>5. fromWorker' \in Seq(Reply)
  BY PushesTyped, PostTyped DEF Step, IInv, TypeOK
<1>6. /\ queue'[s] = Tail(queue[s]) /\ \A z \in Sessions \ {s} : queue'[z] = queue[z]
      /\ queue' \in [Sessions -> Seq(Jobs)]
      /\ QueueSound(queue[s], s, runs[s], sent, rejected, toWorker)'
  <2>1. runs'[s] \in Nat /\ runs[s] <= runs'[s] /\ UNCHANGED <<sent, toWorker>>
    BY <1>2, <1>3
  <2>2. QED
    BY <1>1, <1>3, <2>1, Dequeued
<1>7. phase' = phase
  BY <1>1, <1>3 DEF IInv, TypeOK
<1>8. timers' \subseteq Sessions \X Nat /\ \A t : t[1] # s => (t \in timers' <=> t \in timers)
  BY <1>1, <1>2, <1>4
<1>9. TypeOK'
  BY <1>3, <1>5, <1>6, <1>7, <1>8 DEF IInv, TypeOK
<1>10. ChainSound(queue[s], s, run[s], runs[s], rejected, timers)
  BY DEF IInv, SessionSound
<1>11. IsStep(Head(queue[s]), run[s]) <=> run[s] = n
  BY <1>1 DEF IsStep
<1>12. /\ NoStep(queue[s], run[s]) => NoStep(Tail(queue[s]), run[s])
       /\ OneStep(queue[s], run[s]) => IF run[s] = n THEN NoStep(Tail(queue[s]), run[s])
                                                     ELSE OneStep(Tail(queue[s]), run[s])
  BY <1>1, <1>2, <1>11, StepsLeft
<1>13. ChainSound(queue[s], s, run[s], runs[s], rejected, timers)'
  <2>1. CASE run[s] # n
    BY <2>1, <1>3, <1>4, <1>6, <1>10, <1>12 DEF ChainSound
  <2>2. CASE run[s] = n
    <3>1. n # 0 /\ <<s, run'[s]>> \in timers'
      BY <2>2, <1>1, <1>2, <1>3, <1>4
    <3>2. NoStep(queue'[s], run'[s])
      BY <2>2, <3>1, <1>1, <1>3, <1>6, <1>10, <1>12 DEF ChainSound
    <3>3. \A t \in timers' : t[1] = s => t[2] = run'[s]
      BY <2>2, <1>3, <1>4, <1>10 DEF ChainSound
    <3>4. QED
      BY <2>2, <3>1, <3>2, <3>3, <1>3, <1>10 DEF ChainSound
  <2>3. QED
    BY <2>1, <2>2
<1>14. SessionSound(s)'
  BY <1>1, <1>6, <1>7, <1>13 DEF SessionSound, PhaseSound
<1>15. QED
  BY <1>1, <1>3, <1>6, <1>7, <1>8, <1>9, <1>14, StepOfOne

LEMMA StepThrowsKeeps == ASSUME IInv, NEW s \in Sessions, StepThrows(s) PROVE IInv'
<1>1. queue[s] # <<>> /\ phase[s] = "ready"
  BY StepJobs DEF StepThrows
<1>2. /\ queue' = [queue EXCEPT ![s] = Tail(@)] /\ rejected' = rejected \cup {s}
      /\ UNCHANGED <<hCompiles, building, built, phase, slices, hSessions, run, runs, timers,
                     hung, sent, asked, toWorker, fromWorker>>
  BY DEF StepThrows, envVars, channels
<1>3. /\ queue'[s] = Tail(queue[s]) /\ \A z \in Sessions \ {s} : queue'[z] = queue[z]
      /\ queue' \in [Sessions -> Seq(Jobs)]
      /\ QueueSound(queue[s], s, runs[s], sent, rejected, toWorker)'
  <2>1. runs'[s] \in Nat /\ runs[s] <= runs'[s] /\ UNCHANGED <<sent, toWorker>>
    BY <1>2 DEF IInv, TypeOK
  <2>2. QED
    BY <1>1, <1>2, <2>1, Dequeued
<1>4. TypeOK'
  BY <1>2, <1>3 DEF IInv, TypeOK
<1>5. ChainSound(queue[s], s, run[s], runs[s], rejected, timers)'
  BY <1>2 DEF IInv, SessionSound, ChainSound
<1>6. SessionSound(s)'
  BY <1>1, <1>2, <1>3, <1>5 DEF SessionSound, PhaseSound
<1>7. QED
  BY <1>1, <1>2, <1>3, <1>4, <1>6, StepOfOne

\* A job put behind those of s's queue.
LEMMA Enqueued ==
  ASSUME IInv, NEW s \in Sessions, NEW job \in Jobs, Enqueue(s, job)
  PROVE  /\ queue'[s] = Append(queue[s], job) /\ \A z \in Sessions \ {s} : queue'[z] = queue[z]
         /\ queue' \in [Sessions -> Seq(Jobs)] /\ queue'[s] # <<>>
         /\ queue[s] # <<>> => Head(queue'[s]) = Head(queue[s])
<1>1. queue \in [Sessions -> Seq(Jobs)] /\ queue[s] \in Seq(Jobs)
  BY DEF IInv, TypeOK
<1>2. Append(queue[s], job) \in Seq(Jobs) /\ Append(queue[s], job) # <<>>
      /\ queue[s] # <<>> => Head(Append(queue[s], job)) = Head(queue[s])
  BY <1>1, AppendItems, AppendHead
<1>3. queue' = [queue EXCEPT ![s] = Append(queue[s], job)]
  BY DEF Enqueue
<1>4. QED
  BY <1>1, <1>2, <1>3

LEMMA StepTimerKeeps == ASSUME IInv, NEW s \in Sessions, StepTimer(s) PROVE IInv'
<1>1. PICK n \in 1 .. runs[s] : /\ <<s, n>> \in timers /\ timers' = timers \ {<<s, n>>}
                                /\ Enqueue(s, StepJob(s, n))
  BY DEF StepTimer
<1>2. /\ run \in [Sessions -> Nat] /\ runs \in [Sessions -> Nat] /\ timers \subseteq Sessions \X Nat
      /\ queue[s] \in Seq(Jobs)
  BY DEF IInv, TypeOK
<1>3. UNCHANGED <<hCompiles, building, built, phase, slices, rejected, hSessions, run, runs,
                  hung, sent, asked, toWorker, fromWorker>>
  BY DEF StepTimer, envVars, channels
<1>4. n \in Nat
  BY <1>2
<1> DEFINE job == StepJob(s, n)
<1>5. job \in Jobs /\ job.type = "step" /\ job.session = s /\ job.run = n
  BY <1>4, StepJobTyped
<1> HIDE DEF job
<1>6. Enqueue(s, job)
  BY <1>1 DEF job
<1>7. /\ queue'[s] = Append(queue[s], job) /\ \A z \in Sessions \ {s} : queue'[z] = queue[z]
      /\ queue' \in [Sessions -> Seq(Jobs)] /\ queue'[s] # <<>>
      /\ queue[s] # <<>> => Head(queue'[s]) = Head(queue[s])
  BY <1>5, <1>6, Enqueued
<1>8. TypeOK'
  BY <1>1, <1>3, <1>7 DEF IInv, TypeOK
<1>9. QueueSound(queue[s], s, runs[s], sent, rejected, toWorker)'
  <2>1. JobSound(job, s, runs[s], sent)
    BY <1>5 DEF JobSound
  <2>2. QueueSound(queue[s], s, runs[s], sent, rejected, toWorker)
    BY DEF IInv, SessionSound
  <2>3. QueueSound(Append(queue[s], job), s, runs[s], sent, rejected, toWorker)
    BY <2>1, <2>2, <1>2, <1>5, AppendSound
  <2>4. QED
    BY <2>3, <1>3, <1>7
<1>10. PhaseSound(queue[s], phase[s], s, rejected, hSessions)'
  BY <1>3, <1>7 DEF IInv, SessionSound, PhaseSound
<1>11. ChainSound(queue[s], s, run[s], runs[s], rejected, timers)
  BY DEF IInv, SessionSound
<1>12. run[s] = n /\ n # 0
  BY <1>1, <1>11 DEF ChainSound
<1>13. ChainSound(queue[s], s, run[s], runs[s], rejected, timers)'
  <2>1. IsStep(job, n)
    BY <1>5 DEF IsStep
  <2>2. NoStep(queue[s], n) => OneStep(Append(queue[s], job), n)
    BY <2>1, <1>2, <1>5, StepsAdded
  <2>3. QED
    BY <2>2, <1>1, <1>3, <1>7, <1>11, <1>12 DEF ChainSound
<1>14. SessionSound(s)'
  BY <1>9, <1>10, <1>13 DEF SessionSound
<1>15. ~Fresh(s) /\ \A t : t[1] # s => (t \in timers' <=> t \in timers)
  BY <1>1 DEF Fresh, Untouched
<1>16. QED
  BY <1>3, <1>7, <1>8, <1>14, <1>15, StepOfOne

LEMMA HandleKeeps == ASSUME IInv, Handle PROVE IInv'
<1>1. /\ toWorker # <<>> /\ toWorker' = Tail(toWorker)
      /\ UNCHANGED <<phase, slices, rejected, hSessions, run, runs, timers, hung, sent, asked>>
  BY DEF Handle, envVars
<1>2. /\ toWorker \in Seq(Request) /\ queue \in [Sessions -> Seq(Jobs)]
      /\ building \subseteq Request /\ built \subseteq Compiles /\ hCompiles \subseteq Compiles
      /\ fromWorker \in Seq(Reply)
  BY DEF IInv, TypeOK
<1>3. PICK request \in Request : request = Head(toWorker)
  BY <1>1, <1>2, TailItems
<1>4. /\ toWorker' \in Seq(Request) /\ Len(toWorker') = Len(toWorker) - 1
      /\ Len(toWorker) \in Nat \ {0} /\ request = toWorker[1]
      /\ \A k \in 1 .. Len(toWorker') : toWorker'[k] = toWorker[k + 1] /\ k + 1 \in 2 .. Len(toWorker)
  BY <1>1, <1>2, <1>3, TailItems
<1>5. /\ request.type \in {"compile", "release"} => request.compile \in Compiles
      /\ request.type \notin {"compile", "release"} => request.session \in Sessions
      /\ request \in Jobs /\ request.type # "step"
  BY <1>4, RequestsTyped
<1>6. /\ request.id \in 1 .. sent
      /\ request.type \in {"compile", "release"} => request.session = None
      /\ request.type = "open" => Fresh(request.session)
      /\ \A k \in 1 .. Len(toWorker') : request.id < toWorker'[k].id
      /\ \A k \in 1 .. Len(toWorker') :
           toWorker'[k].type = "open" => toWorker'[k].session # request.session
  <2>1. 1 \in 1 .. Len(toWorker) /\ \A k \in 1 .. Len(toWorker') : 1 \in 1 .. (k + 1) - 1
    BY <1>4
  <2>2. /\ request.id \in 1 .. sent
        /\ request.type \in {"compile", "release"} => request.session = None
        /\ request.type = "open" => Fresh(request.session)
    BY <2>1, <1>4 DEF IInv, RequestsSound
  <2>3. ASSUME NEW k \in 1 .. Len(toWorker')
        PROVE  /\ request.id < toWorker'[k].id
               /\ toWorker'[k].type = "open" => toWorker'[k].session # request.session
    <3>1. toWorker'[k] = toWorker[k + 1] /\ k + 1 \in 1 .. Len(toWorker) /\ 1 \in 1 .. (k + 1) - 1
      BY <2>1, <1>4
    <3>2. QED
      BY <3>1, <1>4 DEF IInv, RequestsSound
  <2>4. QED
    BY <2>2, <2>3
<1>7. \A k \in 1 .. Len(toWorker') : \E l \in 1 .. Len(toWorker) : toWorker'[k] = toWorker[l]
  <2>1. ASSUME NEW k \in 1 .. Len(toWorker')
        PROVE  \E l \in 1 .. Len(toWorker) : toWorker'[k] = toWorker[l]
    <3>1. toWorker'[k] = toWorker[k + 1] /\ k + 1 \in 1 .. Len(toWorker)
      BY <1>4
    <3>2. QED
      BY <3>1
  <2>2. QED
    BY <2>1
<1>8. ASSUME NEW s \in Sessions, s # request.session \/ request.type \in {"compile", "release"},
             queue'[s] = queue[s]
      PROVE  SessionSound(s)' /\ (Fresh(s) => Fresh(s)')
  <2>1. QueueSound(queue[s], s, runs[s], sent, rejected, toWorker)
    BY DEF IInv, SessionSound
  <2>2. QueueSound(queue[s], s, runs[s], sent, rejected, toWorker')
    BY <2>1, <1>7 DEF QueueSound
  <2>3. QED
    BY <2>2, <1>1, <1>8 DEF IInv, SessionSound, Fresh, Untouched
<1>9. ASSUME \A s \in Sessions : s # request.session => (Fresh(s) => Fresh(s)'),
             \A b \in building' : b.type = "compile" /\ b.session = None
      PROVE  RequestsSound'
  <2>1. ASSUME NEW k \in 1 .. Len(toWorker')
        PROVE  /\ toWorker'[k].id \in 1 .. sent
               /\ toWorker'[k].type \in {"compile", "release"} => toWorker'[k].session = None
               /\ \A j \in 1 .. k - 1 : toWorker'[j].id < toWorker'[k].id
               /\ toWorker'[k].type = "open" =>
                    /\ Untouched(toWorker'[k].session, queue', rejected', timers')
                    /\ \A j \in 1 .. k - 1 : toWorker'[j].session # toWorker'[k].session
    <3>1. /\ toWorker'[k] = toWorker[k + 1] /\ k + 1 \in 1 .. Len(toWorker)
          /\ \A j \in 1 .. k - 1 : toWorker'[j] = toWorker[j + 1] /\ j + 1 \in 1 .. (k + 1) - 1
      BY <1>4
    <3>2. toWorker'[k].type = "open" => toWorker'[k].session \in Sessions
      <4>1. toWorker[k + 1] \in Request
        BY <1>2, <3>1
      <4>2. toWorker[k + 1].type = "open" => toWorker[k + 1].session \in Sessions
        BY <4>1, RequestsTyped
      <4>3. QED
        BY <3>1, <4>2
    <3>3. toWorker'[k].type = "open" => Fresh(toWorker'[k].session)
      BY <3>1 DEF IInv, RequestsSound
    <3>4. \A s \in Sessions :
            s # request.session => (Fresh(s) => Untouched(s, queue', rejected', timers'))
      BY <1>9 DEF Fresh
    <3>5. toWorker'[k].type = "open" =>
            Untouched(toWorker'[k].session, queue', rejected', timers')
      BY <3>2, <3>3, <3>4, <1>6
    <3>6. /\ toWorker[k + 1].id \in 1 .. sent
          /\ toWorker[k + 1].type \in {"compile", "release"} => toWorker[k + 1].session = None
      BY <3>1 DEF IInv, RequestsSound
    <3>7. \A j \in 1 .. k - 1 :
            /\ toWorker'[j].id < toWorker'[k].id
            /\ toWorker'[k].type = "open" => toWorker'[j].session # toWorker'[k].session
      <4>1. \A j \in 1 .. (k + 1) - 1 :
              /\ toWorker[j].id < toWorker[k + 1].id
              /\ toWorker[k + 1].type = "open" => toWorker[j].session # toWorker[k + 1].session
        BY <3>1 DEF IInv, RequestsSound
      <4>2. QED
        BY <3>1, <4>1
    <3>8. QED
      BY <3>1, <3>5, <3>6, <3>7
  <2>2. ASSUME NEW s \in Sessions \ asked
        PROVE  Fresh(s)' /\ \A k \in 1 .. Len(toWorker') : toWorker'[k].session # s
    <3>1. Fresh(s) /\ \A k \in 1 .. Len(toWorker) : toWorker[k].session # s
      BY DEF IInv, RequestsSound
    <3>2. s # request.session
      BY <3>1, <1>4
    <3>3. QED
      BY <3>1, <3>2, <1>7, <1>9
  <2>3. QED
    BY <2>1, <2>2, <1>1, <1>9 DEF RequestsSound, Fresh
<1>10. CASE request.type \in {"compile", "release"}
  <2>1. /\ UNCHANGED queue /\ built' \subseteq built
        /\ hCompiles' \subseteq hCompiles \cup {request.compile}
        /\ building' \subseteq building \cup {request}
        /\ request.type = "release" => building' = building
    BY <1>10, <1>3 DEF Handle
  <2>2. fromWorker' \in Seq(Reply)
    <3>1. [id |-> request.id, type |-> "released", session |-> None, state |-> "none"] \in Reply
      BY <1>4, RepliesTyped
    <3>2. \/ UNCHANGED fromWorker
          \/ Post([id |-> request.id, type |-> "released", session |-> None, state |-> "none"])
      BY <1>10, <1>3 DEF Handle
    <3>3. QED
      BY <3>1, <3>2, PostTyped, <1>2
  <2>3. TypeOK'
    BY <2>1, <2>2, <1>1, <1>2, <1>4, <1>5, <1>10 DEF IInv, TypeOK
  <2>4. \A b \in building' : b.type = "compile" /\ b.session = None
    BY <2>1, <1>6, <1>10 DEF IInv, RequestsSound
  <2>5. \A s \in Sessions : SessionSound(s)' /\ (Fresh(s) => Fresh(s)')
    BY <2>1, <1>8, <1>10
  <2>6. QED
    BY <2>3, <2>4, <2>5, <1>9 DEF IInv
<1>11. CASE request.type \notin {"compile", "release"}
  <2>1. PICK s \in Sessions : s = request.session
    BY <1>5, <1>11
  <2>2. Enqueue(s, request) /\ UNCHANGED <<hCompiles, building, built, fromWorker>>
    BY <2>1, <1>11, <1>3 DEF Handle
  <2>3. /\ queue'[s] = Append(queue[s], request) /\ \A z \in Sessions \ {s} : queue'[z] = queue[z]
        /\ queue' \in [Sessions -> Seq(Jobs)] /\ queue'[s] # <<>>
        /\ queue[s] # <<>> => Head(queue'[s]) = Head(queue[s])
    BY <2>2, <1>5, Enqueued
  <2>4. TypeOK'
    BY <2>2, <2>3, <1>1, <1>4 DEF IInv, TypeOK
  <2>5. \A z \in Sessions \ {s} : SessionSound(z)' /\ (Fresh(z) => Fresh(z)')
    BY <2>3, <2>1, <1>8
  <2>6. QueueSound(queue[s], s, runs[s], sent, rejected, toWorker)'
    <3>1. JobSound(request, s, runs[s], sent)
      BY <2>1, <1>5, <1>6, <1>11 DEF JobSound
    <3>2. QueueSound(queue[s], s, runs[s], sent, rejected, toWorker)
      BY <2>2 DEF IInv, SessionSound
    <3>3. \A i \in 1 .. Len(queue[s]) : queue[s][i].type # "step" => queue[s][i].id < request.id
      BY <3>2, <1>4 DEF QueueSound
    <3>4. request.type = "open" => queue[s] = <<>> /\ s \notin rejected
      BY <2>1, <1>6 DEF Fresh, Untouched
    <3>5. queue[s] \in Seq(Jobs)
      BY <1>2, <2>2
    <3>6. QueueSound(Append(queue[s], request), s, runs[s], sent, rejected, toWorker')
      BY <3>1, <3>2, <3>3, <3>4, <3>5, <1>5, <1>6, <1>7, AppendSound
    <3>7. QED
      BY <3>6, <2>3, <1>1
  <2>7. PhaseSound(queue[s], phase[s], s, rejected, hSessions)'
    BY <2>2, <2>3, <1>1 DEF IInv, SessionSound, PhaseSound
  <2>8. ChainSound(queue[s], s, run[s], runs[s], rejected, timers)'
    <3>1. ~IsStep(request, run[s])
      BY <1>5 DEF IsStep
    <3>2. queue[s] \in Seq(Jobs)
      BY <1>2, <2>2
    <3>3. /\ NoStep(queue[s], run[s]) => NoStep(Append(queue[s], request), run[s])
          /\ OneStep(queue[s], run[s]) => OneStep(Append(queue[s], request), run[s])
      BY <3>1, <3>2, <1>5, StepsAdded
    <3>4. QED
      BY <3>3, <2>2, <2>3, <1>1 DEF IInv, SessionSound, ChainSound
  <2>9. \A b \in building' : b.type = "compile" /\ b.session = None
    BY <2>2 DEF IInv, RequestsSound
  <2>10. QED
    BY <2>4, <2>5, <2>6, <2>7, <2>8, <2>9, <2>1, <1>9 DEF IInv, SessionSound
<1>12. QED
  BY <1>10, <1>11

\* Steps that move no job.
LEMMA QuietKeeps ==
  ASSUME IInv, TypeOK', building' \subseteq building,
         UNCHANGED <<queue, phase, rejected, hSessions, run, runs, timers, sent, asked, toWorker>>
  PROVE  IInv'
BY DEF IInv, SessionSound, RequestsSound, Fresh, Untouched

LEMMA CompileDoneKeeps == ASSUME IInv, CompileDone PROVE IInv'
<1>1. PICK request \in building :
        /\ building' = building \ {request}
        /\ \/ /\ built' = built \cup {request.compile}
              /\ Post(ReplyTo(request, "compiled", "none"))
           \/ Post(Failed(request.id)) /\ UNCHANGED built
  BY DEF CompileDone
<1>2. UNCHANGED <<hCompiles, queue, phase, slices, rejected, hSessions, run, runs, timers,
                  hung, sent, asked, toWorker>>
  BY DEF CompileDone, envVars
<1>3. request \in Request /\ request.compile \in Compiles
  BY RequestsTyped DEF IInv, TypeOK, RequestsSound
<1>4. fromWorker' \in Seq(Reply)
  BY <1>1, <1>3, RepliesTyped, PostTyped DEF IInv, TypeOK, ReplyTypes, States
<1>5. TypeOK'
  BY <1>1, <1>2, <1>3, <1>4 DEF IInv, TypeOK
<1>6. QED
  BY <1>1, <1>2, <1>5, QuietKeeps

LEMMA HangKeeps == ASSUME IInv, Hang PROVE IInv'
<1>1. /\ hung' = TRUE
      /\ UNCHANGED <<hCompiles, building, built, queue, phase, slices, rejected, hSessions, run,
                     runs, timers, sent, asked, toWorker, fromWorker>>
  BY DEF Hang, envVars, channels
<1>2. TypeOK'
  BY <1>1 DEF IInv, TypeOK
<1>3. QED
  BY <1>1, <1>2, QuietKeeps

LEMMA RelayTakesKeeps == ASSUME IInv, RelayTakes PROVE IInv'
<1>1. /\ fromWorker # <<>> /\ fromWorker' = Tail(fromWorker)
      /\ UNCHANGED <<hCompiles, building, built, queue, phase, slices, rejected, hSessions, run,
                     runs, timers, hung, sent, asked, toWorker>>
  BY DEF RelayTakes, hostVars
<1>2. fromWorker' \in Seq(Reply)
  BY <1>1, TailItems DEF IInv, TypeOK
<1>3. TypeOK'
  BY <1>1, <1>2 DEF IInv, TypeOK
<1>4. QED
  BY <1>1, <1>3, QuietKeeps

\* What the relay posts next.
LEMMA PostsNext ==
  ASSUME IInv, RelayPosts
  PROVE  \E request \in Request :
           /\ Posts(request) /\ request.id = sent + 1
           /\ request.type \in {"compile", "release"} => request.session = None
           /\ request.type = "open" => request.session \in Sessions \ asked
           /\ asked \subseteq asked' /\ asked' \subseteq Compiles \cup Sessions
           /\ request.session # None => request.session \in asked'
<1>1. sent + 1 \in {ReplayId} \cup PageIds /\ asked \subseteq Compiles \cup Sessions
  BY DEF IInv, TypeOK, PageIds
<1>2. CASE \E c \in Compiles \ asked : Posts(CompileRequest(sent + 1, c)) /\ asked' = asked \cup {c}
  <2>1. PICK c \in Compiles \ asked : Posts(CompileRequest(sent + 1, c)) /\ asked' = asked \cup {c}
    BY <1>2
  <2> DEFINE r == CompileRequest(sent + 1, c)
  <2>2. r \in Request /\ r.id = sent + 1 /\ r.type = "compile" /\ r.session = None
    BY <1>1 DEF CompileRequest, Request, RequestTypes
  <2> HIDE DEF r
  <2>3. QED
    BY <2>1, <2>2, <1>1 DEF r
<1>3. CASE \E c \in Compiles \cap asked : Posts(ReleaseRequest(sent + 1, c)) /\ UNCHANGED asked
  <2>1. PICK c \in Compiles \cap asked : Posts(ReleaseRequest(sent + 1, c)) /\ UNCHANGED asked
    BY <1>3
  <2> DEFINE r == ReleaseRequest(sent + 1, c)
  <2>2. r \in Request /\ r.id = sent + 1 /\ r.type = "release" /\ r.session = None
    BY <1>1 DEF ReleaseRequest, Request, RequestTypes
  <2> HIDE DEF r
  <2>3. QED
    BY <2>1, <2>2, <1>1 DEF r
<1>4. CASE \E s \in Sessions \ asked, c \in Compiles :
             Posts(OpenRequest(sent + 1, s, c)) /\ asked' = asked \cup {s}
  <2>1. PICK s \in Sessions \ asked, c \in Compiles :
          Posts(OpenRequest(sent + 1, s, c)) /\ asked' = asked \cup {s}
    BY <1>4
  <2> DEFINE r == OpenRequest(sent + 1, s, c)
  <2>2. r \in Request /\ r.id = sent + 1 /\ r.type = "open" /\ r.session = s
    BY <1>1 DEF OpenRequest, Request, RequestTypes
  <2> HIDE DEF r
  <2>3. QED
    BY <2>1, <2>2, <1>1 DEF r
<1>5. CASE \E s \in Sessions \cap asked, type \in OpTypes \cup {"close"} :
             Posts(OpRequest(sent + 1, type, s)) /\ UNCHANGED asked
  <2>1. PICK s \in Sessions \cap asked, type \in OpTypes \cup {"close"} :
          Posts(OpRequest(sent + 1, type, s)) /\ UNCHANGED asked
    BY <1>5
  <2> DEFINE r == OpRequest(sent + 1, type, s)
  <2>2. r \in Request /\ r.id = sent + 1 /\ r.session = s
        /\ r.type \notin {"compile", "release", "open"}
    BY <1>1 DEF OpRequest, Request, RequestTypes, SessionOps
  <2> HIDE DEF r
  <2>3. QED
    BY <2>1, <2>2, <1>1 DEF r
<1>6. QED
  BY <1>2, <1>3, <1>4, <1>5 DEF RelayPosts

LEMMA RelayPostsKeeps == ASSUME IInv, RelayPosts PROVE IInv'
<1>1. PICK request \in Request :
           /\ Posts(request) /\ request.id = sent + 1
           /\ request.type \in {"compile", "release"} => request.session = None
           /\ request.type = "open" => request.session \in Sessions \ asked
           /\ asked \subseteq asked' /\ asked' \subseteq Compiles \cup Sessions
           /\ request.session # None => request.session \in asked'
  BY PostsNext
<1>2. /\ sent < MaxRequests /\ sent' = sent + 1 /\ toWorker' = Append(toWorker, request)
      /\ UNCHANGED <<hCompiles, building, built, queue, phase, slices, rejected, hSessions, run,
                     runs, timers, hung, fromWorker>>
  BY <1>1 DEF Posts
<1>3. toWorker \in Seq(Request) /\ sent \in Nat
  BY DEF IInv, TypeOK
<1>4. /\ toWorker' \in Seq(Request) /\ Len(toWorker') = Len(toWorker) + 1 /\ Len(toWorker) \in Nat
      /\ toWorker'[Len(toWorker) + 1] = request
      /\ \A k \in 1 .. Len(toWorker) : toWorker'[k] = toWorker[k]
      /\ \A k \in 1 .. Len(toWorker') : k \in 1 .. Len(toWorker) \/ k = Len(toWorker) + 1
  BY <1>2, <1>3, AppendItems
<1>5. TypeOK'
  <2>1. sent' \in 0 .. MaxRequests
    BY <1>2 DEF IInv, TypeOK
  <2>2. QED
    BY <2>1, <1>1, <1>2, <1>4 DEF IInv, TypeOK
<1>6. ASSUME NEW s \in Sessions PROVE SessionSound(s)'
  <2>1. SessionSound(s)
    BY DEF IInv
  <2>2. QueueSound(queue[s], s, runs[s], sent, rejected, toWorker)'
    <3>1. \A i \in 1 .. Len(queue[s]) : JobSound(queue[s][i], s, runs[s], sent')
      BY <2>1, <1>2, <1>3 DEF SessionSound, QueueSound, JobSound
    <3>2. ASSUME NEW i \in 1 .. Len(queue[s]), queue[s][i].type # "step", NEW k \in 1 .. Len(toWorker')
          PROVE  queue[s][i].id < toWorker'[k].id
      <4>1. CASE k \in 1 .. Len(toWorker)
        BY <4>1, <3>2, <2>1, <1>4 DEF SessionSound, QueueSound
      <4>2. CASE k = Len(toWorker) + 1
        <5>1. queue[s][i].id \in 1 .. sent
          BY <3>2, <2>1 DEF SessionSound, QueueSound, JobSound
        <5>2. toWorker'[k].id = sent + 1
          BY <4>2, <1>1, <1>4
        <5>3. QED
          BY <5>1, <5>2, <1>3
      <4>3. QED
        BY <4>1, <4>2, <1>4
    <3>3. QueueSound(queue[s], s, runs[s], sent', rejected, toWorker')
      BY <3>1, <3>2, <2>1 DEF SessionSound, QueueSound
    <3>4. QED
      BY <3>3, <1>2
  <2>3. QED
    BY <2>1, <2>2, <1>2 DEF SessionSound
<1>7. \A s : Fresh(s)' <=> Fresh(s)
  BY <1>2 DEF Fresh
<1>8. \A s \in Sessions \ asked :
        Fresh(s) /\ \A k \in 1 .. Len(toWorker) : toWorker[k].session # s
  BY DEF IInv, RequestsSound
<1>9. ASSUME NEW k \in 1 .. Len(toWorker')
      PROVE  /\ toWorker'[k].id \in 1 .. sent'
             /\ toWorker'[k].type \in {"compile", "release"} => toWorker'[k].session = None
             /\ \A j \in 1 .. k - 1 : toWorker'[j].id < toWorker'[k].id
             /\ toWorker'[k].type = "open" =>
                  /\ Untouched(toWorker'[k].session, queue', rejected', timers')
                  /\ \A j \in 1 .. k - 1 : toWorker'[j].session # toWorker'[k].session
  <2>1. CASE k \in 1 .. Len(toWorker)
    <3>1. /\ toWorker[k].id \in 1 .. sent
          /\ toWorker[k].type \in {"compile", "release"} => toWorker[k].session = None
          /\ toWorker[k].type = "open" => Untouched(toWorker[k].session, queue, rejected, timers)
          /\ \A j \in 1 .. k - 1 :
               /\ toWorker[j].id < toWorker[k].id
               /\ toWorker[k].type = "open" => toWorker[j].session # toWorker[k].session
      BY <2>1 DEF IInv, RequestsSound, Fresh
    <3>2. toWorker'[k] = toWorker[k] /\ \A j \in 1 .. k - 1 : toWorker'[j] = toWorker[j]
      BY <2>1, <1>4
    <3>3. QED
      BY <3>1, <3>2, <1>2, <1>3
  <2>2. CASE k = Len(toWorker) + 1
    <3>1. toWorker'[k] = request /\ \A j \in 1 .. k - 1 : toWorker'[j] = toWorker[j]
      BY <2>2, <1>4
    <3>2. \A j \in 1 .. k - 1 : toWorker[j].id \in 1 .. sent
      BY <2>2, <1>4 DEF IInv, RequestsSound
    <3>3. request.type = "open" =>
            /\ Untouched(request.session, queue, rejected, timers)
            /\ \A j \in 1 .. k - 1 : toWorker[j].session # request.session
      BY <2>2, <1>1, <1>4, <1>8 DEF Fresh
    <3>4. QED
      BY <3>1, <3>2, <3>3, <1>1, <1>2, <1>3
  <2>3. QED
    BY <2>1, <2>2, <1>4
<1>10. ASSUME NEW s \in Sessions \ asked'
       PROVE  Untouched(s, queue', rejected', timers')
              /\ \A k \in 1 .. Len(toWorker') : toWorker'[k].session # s
  <2>1. s \notin asked /\ request.session # s
    BY <1>1, ProtocolAssumption
  <2>2. QED
    BY <2>1, <1>2, <1>4, <1>8 DEF Fresh
<1>11. RequestsSound'
  BY <1>2, <1>9, <1>10 DEF IInv, RequestsSound, Fresh
<1>12. QED
  BY <1>5, <1>6, <1>11 DEF IInv

LEMMA InitIInv == Init => IInv
<1> SUFFICES ASSUME Init PROVE IInv
  OBVIOUS
<1>1. \A S : <<>> \in Seq(S)
  OBVIOUS
<1>2. 0 \in 0 .. MaxSlices /\ 0 \in 0 .. MaxRequests
  OBVIOUS
<1>3. TypeOK
  BY <1>1, <1>2 DEF Init, TypeOK
<1>4. Len(toWorker) = 0 /\ \A s \in Sessions : Fresh(s)
  BY DEF Init, Fresh, Untouched
<1>5. RequestsSound
  BY <1>4 DEF Init, RequestsSound
<1>6. \A s \in Sessions : SessionSound(s)
  BY DEF Init, SessionSound, QueueSound, PhaseSound, ChainSound
<1>7. QED
  BY <1>3, <1>5, <1>6 DEF IInv

LEMMA NextIInv == IInv /\ [Next]_vars => IInv'
<1> SUFFICES ASSUME IInv, [Next]_vars PROVE IInv'
  OBVIOUS
<1>1. ASSUME NEW s \in Sessions,
             \/ Open(s) \/ NoSession(s) \/ Run(s) \/ Pause(s) \/ CloseSession(s) \/ Apply(s)
             \/ Slice(s) \/ Step(s) \/ StepThrows(s) \/ NextSlice(s) \/ StepTimer(s)
      PROVE  IInv'
  BY <1>1, OpenKeeps, OpKeeps, SliceKeeps, StepKeeps, StepThrowsKeeps, NextSliceKeeps, StepTimerKeeps
<1>2. CASE Handle
  BY <1>2, HandleKeeps
<1>3. CASE CompileDone
  BY <1>3, CompileDoneKeeps
<1>4. CASE Hang
  BY <1>4, HangKeeps
<1>5. CASE RelayPosts
  BY <1>5, RelayPostsKeeps
<1>6. CASE RelayTakes
  BY <1>6, RelayTakesKeeps
<1>7. CASE UNCHANGED vars
  <2>1. TypeOK'
    BY <1>7 DEF IInv, TypeOK, vars, hostVars, channels
  <2>2. QED
    BY <1>7, <2>1, QuietKeeps DEF vars, hostVars, channels
<1>8. QED
  BY <1>1, <1>2, <1>3, <1>4, <1>5, <1>6, <1>7 DEF Next, HostNext

\* The inductive invariant holds: each queue is its session's requests in the
\* order they were posted, a suspended job is an open or a tick, and each run
\* has one step to come.
THEOREM InvariantHolds == Spec => []IInv
BY InitIInv, NextIInv, PTL DEF Spec

\* Every variable has its type.
THEOREM TypesHold == Spec => []TypeOK
BY InvariantHolds, PTL DEF IInv

LEMMA ChainsCounted ==
  ASSUME IInv, NEW s \in Sessions \ rejected, run[s] # 0
  PROVE  Cardinality({t \in timers : t[1] = s})
           + Cardinality({k \in DOMAIN queue[s] : IsStep(queue[s][k], run[s])}) = 1
<1> DEFINE set == {t \in timers : t[1] = s}
           steps == {k \in DOMAIN queue[s] : IsStep(queue[s][k], run[s])}
<1>1. /\ \A t \in timers : t[1] = s => t[2] = run[s]
      /\ IF <<s, run[s]>> \in timers THEN NoStep(queue[s], run[s]) ELSE OneStep(queue[s], run[s])
  BY DEF IInv, SessionSound, ChainSound
<1>2. DOMAIN queue[s] = 1 .. Len(queue[s]) /\ \A t \in timers : t = <<t[1], t[2]>>
  BY DEF IInv, TypeOK
<1>3. set \subseteq {<<s, run[s]>>}
  BY <1>1, <1>2
<1>4. Cardinality({}) = 0 /\ \A x : Cardinality({x}) = 1
  BY FS_EmptySet, FS_Singleton
<1>5. CASE <<s, run[s]>> \in timers
  <2>1. set = {<<s, run[s]>>}
    BY <1>3, <1>5
  <2>2. steps = {}
    BY <1>1, <1>2, <1>5 DEF NoStep
  <2> HIDE DEF set, steps
  <2>3. Cardinality(set) = 1 /\ Cardinality(steps) = 0
    BY <2>1, <2>2, <1>4
  <2>4. QED
    BY <2>3 DEF set, steps
<1>6. CASE <<s, run[s]>> \notin timers
  <2>1. set = {}
    BY <1>3, <1>6
  <2>2. PICK k \in 1 .. Len(queue[s]) :
          /\ IsStep(queue[s][k], run[s])
          /\ \A m \in 1 .. Len(queue[s]) : IsStep(queue[s][m], run[s]) => m = k
    BY <1>1, <1>6 DEF OneStep
  <2>3. steps = {k}
    BY <2>2, <1>2
  <2> HIDE DEF set, steps
  <2>4. Cardinality(set) = 0 /\ Cardinality(steps) = 1
    BY <2>1, <2>3, <1>4
  <2>5. QED
    BY <2>4 DEF set, steps
<1>7. QED
  BY <1>5, <1>6

\* Exactly one step of each auto-run is to come, and no timer is left of one
\* that was stopped: pausing and running again neither stalls a run nor doubles
\* its rate (startRun, stopRun and step of session-host.ts).
THEOREM OneStepIsToCome == Spec => []OneStepToCome
<1>1. IInv => OneStepToCome
  <2> SUFFICES ASSUME IInv PROVE OneStepToCome
    OBVIOUS
  <2>1. \A t \in timers : run[t[1]] = t[2]
    <3>1. \A t \in timers : t[1] \in Sessions
      BY DEF IInv, TypeOK
    <3>2. QED
      BY <3>1 DEF IInv, SessionSound, ChainSound
  <2>2. QED
    BY <2>1, ChainsCounted DEF OneStepToCome
<1>2. QED
  BY <1>1, InvariantHolds, PTL

-----------------------------------------------------------------------------
(* The host implements WorkerAlone *)

LEMMA UnansweredItems ==
  ASSUME NEW b, NEW q \in [Sessions -> Seq(Jobs)]
  PROVE  \A r : r \in b \cup UNION {{q[s][k] : k \in {i \in DOMAIN q[s] : q[s][i].type # "step"}}
                                      : s \in Sessions}
           <=> \/ r \in b
               \/ \E s \in Sessions : \E k \in 1 .. Len(q[s]) : q[s][k].type # "step" /\ r = q[s][k]
<1>1. \A s \in Sessions : DOMAIN q[s] = 1 .. Len(q[s])
  OBVIOUS
<1>2. QED
  BY <1>1

\* The requests not answered are builds and the jobs of the queues that are not
\* steps.
LEMMA UnansweredAre ==
  ASSUME IInv
  PROVE  \A r : r \in Unanswered
                  <=> \/ r \in building
                      \/ \E s \in Sessions : \E k \in 1 .. Len(queue[s]) :
                           queue[s][k].type # "step" /\ r = queue[s][k]
<1>1. queue \in [Sessions -> Seq(Jobs)]
  BY DEF IInv, TypeOK
<1>2. QED
  BY <1>1, UnansweredItems DEF Unanswered

LEMMA UnansweredWillBe ==
  ASSUME queue' \in [Sessions -> Seq(Jobs)]
  PROVE  \A r : r \in Unanswered'
                  <=> \/ r \in building'
                      \/ \E s \in Sessions : \E k \in 1 .. Len(queue'[s]) :
                           queue'[s][k].type # "step" /\ r = queue'[s][k]
BY UnansweredItems DEF Unanswered

\* What is known of them.
LEMMA UnansweredSound ==
  ASSUME IInv, NEW r \in Unanswered
  PROVE  /\ r \in Request /\ r.type \notin {"release", "step"}
         /\ r \in building <=> r.type = "compile"
         /\ r \in building => r.session = None
         /\ r \notin building =>
              /\ r.session \in Sessions
              /\ \E k \in 1 .. Len(queue[r.session]) : r = queue[r.session][k]
         /\ r.type = "open" => queue[r.session] # <<>> /\ r = Head(queue[r.session])
                               /\ r.session \notin rejected
<1>1. CASE r \in building
  BY <1>1 DEF IInv, TypeOK, RequestsSound
<1>2. ASSUME NEW s \in Sessions, NEW k \in 1 .. Len(queue[s]), queue[s][k].type # "step",
             r = queue[s][k]
      PROVE  /\ r \in Request /\ r.type \notin {"compile", "release"} /\ r.session = s
             /\ r.type = "open" => queue[s] # <<>> /\ r = Head(queue[s]) /\ s \notin rejected
  <2>1. queue[s] \in Seq(Jobs)
    BY DEF IInv, TypeOK
  <2>2. r \in Jobs /\ queue[s] # <<>> /\ Head(queue[s]) = queue[s][1]
    BY <2>1, <1>2
  <2>3. QED
    BY <1>2, <2>2, JobsTyped DEF IInv, SessionSound, QueueSound, JobSound
<1>3. r \in building => r.type = "compile" /\ r.session = None
  BY DEF IInv, RequestsSound
<1>4. CASE r \notin building
  <2>1. PICK s \in Sessions : \E k \in 1 .. Len(queue[s]) :
                                queue[s][k].type # "step" /\ r = queue[s][k]
    BY <1>4, UnansweredAre
  <2>2. /\ r \in Request /\ r.type \notin {"compile", "release"} /\ r.session = s
        /\ r.type = "open" => queue[s] # <<>> /\ r = Head(queue[s]) /\ s \notin rejected
    BY <2>1, <1>2
  <2>3. QED
    BY <2>1, <2>2, <1>4
<1>5. QED
  BY <1>1, <1>3, <1>4

\* An open is as it was posted but for a compile that is gone.
LEMMA FoundIs ==
  ASSUME NEW r \in Request
  PROVE  /\ Found(r).id = r.id /\ Found(r).type = r.type /\ Found(r).session = r.session
         /\ r.type # "open" => Found(r) = r
         /\ r.type = "open" /\ (phase[r.session] # "ready" \/ r.compile \in hCompiles) => Found(r) = r
         /\ r.type = "open" /\ phase[r.session] = "ready" /\ r.compile \notin hCompiles =>
              Found(r).compile = None
<1>1. [r EXCEPT !.compile = None].id = r.id /\ [r EXCEPT !.compile = None].type = r.type
      /\ [r EXCEPT !.compile = None].session = r.session /\ [r EXCEPT !.compile = None].compile = None
  BY DEF Request
<1>2. QED
  BY <1>1 DEF Found

LEMMA SameTaken ==
  ASSUME Unanswered' = Unanswered, \A r \in Unanswered : Found(r)' = Found(r)
  PROVE  Taken' = Taken
BY DEF Taken

\* The current request of a session is its oldest.
LEMMA HeadIsOldest ==
  ASSUME IInv, NEW s \in Sessions, queue[s] # <<>>, Head(queue[s]).type # "step"
  PROVE  /\ Head(queue[s]) \in Unanswered /\ Head(queue[s]) \in Request
         /\ Head(queue[s]).session = s /\ Head(queue[s]).type \notin {"compile", "release"}
         /\ \A r \in Unanswered :
              r.session = s => r = Head(queue[s]) \/ Head(queue[s]).id < r.id
<1> DEFINE head == Head(queue[s])
<1>1. /\ queue[s] \in Seq(Jobs) /\ head \in Request /\ head.session = s
      /\ head.type \notin {"compile", "release"}
  BY Current
<1>2. head = queue[s][1] /\ 1 \in 1 .. Len(queue[s]) /\ Len(queue[s]) \in Nat
  BY <1>1, TailItems
<1> HIDE DEF head
<1>3. head \in Unanswered
  BY <1>2, UnansweredAre DEF head
<1>4. ASSUME NEW r \in Unanswered, r.session = s, r # head PROVE head.id < r.id
  <2>1. r \notin building /\ r.type # "step"
    BY <1>4, UnansweredSound, ProtocolAssumption
  <2>2. PICK k \in 1 .. Len(queue[s]) : r = queue[s][k]
    BY <2>1, <1>4, UnansweredSound
  <2>3. k \in 1 + 1 .. Len(queue[s])
    BY <2>2, <1>2, <1>4
  <2>4. QueueSound(queue[s], s, runs[s], sent, rejected, toWorker)
    BY DEF IInv, SessionSound
  <2>5. queue[s][1].type # "step"
    BY <1>2 DEF head
  <2>6. \A j \in 1 + 1 .. Len(queue[s]) : queue[s][j].type # "step" => queue[s][1].id < queue[s][j].id
    BY <2>4, <2>5, <1>2 DEF QueueSound
  <2>7. QED
    BY <2>1, <2>2, <2>3, <2>6, <1>2
<1>5. QED
  BY <1>1, <1>3, <1>4 DEF head

\* So the relay may expect its answer next.
LEMMA HeadIsAnswerable ==
  ASSUME IInv, NEW s \in Sessions \ rejected, queue[s] # <<>>, Head(queue[s]).type # "step"
  PROVE  Found(Head(queue[s])) \in Contract!Answerable
<1> DEFINE head == Head(queue[s])
<1>1. /\ head \in Unanswered /\ head \in Request /\ head.session = s
      /\ \A r \in Unanswered : r.session = s => r = head \/ head.id < r.id
  BY HeadIsOldest
<1>2. Found(head) \in Taken /\ Found(head).session = s /\ Found(head).id = head.id /\ head.id \in Nat
  BY <1>1, FoundIs, RequestsTyped DEF Taken
<1> HIDE DEF head
<1>3. ASSUME NEW other \in Taken, other.session = s PROVE head.id <= other.id
  <2>1. PICK r \in Unanswered : other = Found(r)
    BY DEF Taken
  <2>2. r \in Request /\ r.session = s /\ r.id = other.id /\ r.id \in Nat
    BY <2>1, <1>3, UnansweredSound, FoundIs, RequestsTyped
  <2>3. QED
    BY <2>2, <1>1, <1>2
<1>4. QED
  BY <1>2, <1>3 DEF Contract!Answerable, head

LEMMA BuildIsAnswerable ==
  ASSUME IInv, NEW r \in building
  PROVE  r \in Contract!Answerable /\ Found(r) = r /\ r \in Request /\ r.type = "compile"
<1>1. r \in Unanswered /\ r \in Request /\ r.type = "compile" /\ r.session = None
  BY UnansweredAre, UnansweredSound
<1>2. Found(r) = r /\ r \in Taken
  BY <1>1, FoundIs DEF Taken
<1>3. r.session \notin rejected
  BY <1>1, ProtocolAssumption DEF IInv, TypeOK
<1>4. QED
  BY <1>1, <1>2, <1>3 DEF Contract!Answerable

\* A session's answer takes its current request from those to answer.
LEMMA AnswerTakes ==
  ASSUME IInv, NEW s \in Sessions, Finished(s), queue[s] # <<>>, Head(queue[s]).type # "step"
  PROVE  Taken' = Taken \ {Found(Head(queue[s]))}
<1>1. PICK head \in Request :
        /\ head = Head(queue[s]) /\ head \in Unanswered /\ head.session = s
        /\ head.type \notin {"compile", "release"}
        /\ \A r \in Unanswered : r.session = s => r = head \/ head.id < r.id
  BY HeadIsOldest
<1>2. /\ queue' = [queue EXCEPT ![s] = Tail(@)] /\ phase' = [phase EXCEPT ![s] = "ready"]
      /\ UNCHANGED <<hCompiles, building>>
  BY DEF Finished
<1>3. queue \in [Sessions -> Seq(Jobs)] /\ queue[s] \in Seq(Jobs)
  BY DEF IInv, TypeOK
<1>4. /\ queue'[s] = Tail(queue[s]) /\ \A z \in Sessions \ {s} : queue'[z] = queue[z]
      /\ queue' \in [Sessions -> Seq(Jobs)]
  <2>1. Tail(queue[s]) \in Seq(Jobs)
    BY <1>3, TailItems
  <2>2. QED
    BY <2>1, <1>2, <1>3
<1>5. /\ Len(queue'[s]) = Len(queue[s]) - 1 /\ Len(queue[s]) \in Nat \ {0} /\ head = queue[s][1]
      /\ \A k \in 1 .. Len(queue'[s]) : queue'[s][k] = queue[s][k + 1] /\ k + 1 \in 2 .. Len(queue[s])
  BY <1>1, <1>3, <1>4, TailItems
<1>6. ASSUME NEW r \in Unanswered' PROVE r \in Unanswered /\ r # head
  <2>1. CASE r \in building
    BY <2>1, <1>1, UnansweredAre, UnansweredSound
  <2>2. ASSUME NEW k \in 1 .. Len(queue'[s]), queue'[s][k].type # "step", r = queue'[s][k]
        PROVE  r \in Unanswered /\ r # head
    <3>1. r = queue[s][k + 1] /\ k + 1 \in 1 + 1 .. Len(queue[s]) /\ 1 \in 1 .. Len(queue[s])
      BY <2>2, <1>5
    <3>2. k + 1 \in 1 .. Len(queue[s])
      BY <3>1, <1>5
    <3>3. r \in Unanswered
      BY <2>2, <3>1, <3>2, UnansweredAre
    <3>4. head.id < r.id
      <4>1. QueueSound(queue[s], s, runs[s], sent, rejected, toWorker)
        BY DEF IInv, SessionSound
      <4>2. \A j \in 1 + 1 .. Len(queue[s]) :
              queue[s][j].type # "step" => queue[s][1].id < queue[s][j].id
        BY <4>1, <1>1, <1>5, <3>1 DEF QueueSound
      <4>3. QED
        BY <4>2, <3>1, <2>2, <1>5
    <3>5. head.id \in Nat
      BY RequestsTyped
    <3>6. QED
      BY <3>3, <3>4, <3>5
  <2>3. ASSUME NEW z \in Sessions \ {s}, NEW k \in 1 .. Len(queue'[z]), queue'[z][k].type # "step",
               r = queue'[z][k]
        PROVE  r \in Unanswered /\ r # head
    <3>1. r = queue[z][k] /\ k \in 1 .. Len(queue[z])
      BY <2>3, <1>4
    <3>2. r.session = z
      BY <3>1 DEF IInv, SessionSound, QueueSound, JobSound
    <3>3. QED
      BY <2>3, <3>1, <3>2, <1>1, UnansweredAre
  <2>4. QED
    BY <2>1, <2>2, <2>3, <1>2, <1>4, UnansweredWillBe
<1>7. ASSUME NEW r \in Unanswered, r # head PROVE r \in Unanswered'
  <2>1. CASE r \in building
    BY <2>1, <1>2, <1>4, UnansweredWillBe
  <2>2. ASSUME NEW z \in Sessions, NEW k \in 1 .. Len(queue[z]), queue[z][k].type # "step",
               r = queue[z][k]
        PROVE  r \in Unanswered'
    <3>1. CASE z = s
      <4>1. k - 1 \in 1 .. Len(queue'[s])
        BY <3>1, <2>2, <1>5, <1>7
      <4>2. queue'[s][k - 1] = queue[s][k]
        BY <4>1, <1>5
      <4>3. QED
        BY <4>1, <4>2, <3>1, <2>2, <1>4, UnansweredWillBe
    <3>2. CASE z # s
      BY <3>2, <2>2, <1>4, UnansweredWillBe
    <3>3. QED
      BY <3>1, <3>2
  <2>3. QED
    BY <2>1, <2>2, UnansweredAre
<1>8. ASSUME NEW r \in Unanswered, r # head PROVE Found(r)' = Found(r) /\ Found(r) # Found(head)
  <2>1. r \in Request /\ (r.type = "open" => r.session \in Sessions \ {s})
    BY <1>1, <1>8, UnansweredSound
  <2>2. r.type = "open" => phase'[r.session] = phase[r.session]
    BY <2>1, <1>2 DEF IInv, TypeOK
  <2>3. Found(r)' = Found(r)
    BY <2>2, <1>2 DEF Found
  <2>4. r.session # s \/ r.id # head.id
    BY <1>1, <1>8, <2>1, RequestsTyped
  <2>5. QED
    BY <2>1, <2>3, <2>4, <1>1, FoundIs
<1>9. Unanswered' = Unanswered \ {head}
  BY <1>6, <1>7
<1>10. QED
  BY <1>1, <1>8, <1>9 DEF Taken

\* An answer of a session is one the relay may expect.
LEMMA AnswerRefines ==
  ASSUME IInv, NEW s \in Sessions \ rejected, Finished(s), queue[s] # <<>>, ~hung,
         Head(queue[s]).type # "step", UNCHANGED rejected,
         Contract!Done(Found(Head(queue[s]))) \/ Contract!Throws(Found(Head(queue[s])))
  PROVE  Contract!Answer
<1>1. Found(Head(queue[s])) \in Contract!Answerable
  BY HeadIsAnswerable
<1>2. Taken' = Taken \ {Found(Head(queue[s]))}
  BY AnswerTakes
<1>3. QED
  BY <1>1, <1>2 DEF Contract!Answer, Finished

LEMMA HeartbeatRefines ==
  ASSUME IInv, NEW s \in Sessions \ rejected, queue[s] # <<>>, Head(queue[s]).type = "op", ~hung,
         MayHeartbeat, Taken' = Taken,
         UNCHANGED <<hCompiles, hSessions, run, rejected, hung, toRelay, toPage, toWorker>>
  PROVE  Contract!Heartbeat \/ UNCHANGED <<Contract!workerVars, channels>>
<1>1. Found(Head(queue[s])) \in Contract!Answerable /\ Found(Head(queue[s])).type = "op"
  BY HeadIsAnswerable, HeadIsOldest, FoundIs
<1>2. UNCHANGED Contract!workerVars
  BY DEF Contract!workerVars, Running
<1>3. QED
  BY <1>1, <1>2
  DEF MayHeartbeat, Contract!Heartbeat, Contract!Post, Contract!NoId, NoId, Post, channels

LEMMA OpenRefines ==
  ASSUME IInv, NEW s \in Sessions, Open(s)
  PROVE  Contract!Answer \/ UNCHANGED <<Contract!workerVars, channels>>
<1>1. PICK head \in Request :
        /\ head = Head(queue[s]) /\ head \in Unanswered /\ head.session = s /\ head.type = "open"
        /\ queue[s] # <<>> /\ s \notin rejected /\ ~hung
  BY HeadIsOldest DEF Open, Job, CanRun
<1>2. Found(head).id = head.id /\ Found(head).type = "open" /\ Found(head).session = s
  BY <1>1, FoundIs
<1> DEFINE found == phase[s] = "awaiting" \/ head.compile \in hCompiles
<1>3. found => Found(head) = head
  BY <1>1, FoundIs
<1>4. CASE /\ phase[s] = "ready" /\ found /\ phase' = [phase EXCEPT ![s] = "awaiting"]
           /\ UNCHANGED <<hCompiles, building, built, queue, slices, rejected, hSessions,
                          run, runs, timers, hung, envVars, channels>>
  <2>1. Unanswered' = Unanswered
    BY <1>4 DEF Unanswered
  <2>2. ASSUME NEW r \in Unanswered PROVE Found(r)' = Found(r)
    <3>1. CASE r.type = "open" /\ r.session = s
      <4>1. r = head
        BY <3>1, <1>1, UnansweredSound
      <4>2. phase'[s] = "awaiting"
        BY <1>4 DEF IInv, TypeOK
      <4>3. Found(head)' = head
        BY <4>2, <1>1, <1>4 DEF Found
      <4>4. QED
        BY <4>1, <4>3, <1>3, <1>4
    <3>2. CASE r.type = "open" /\ r.session # s
      <4>1. r.session \in Sessions
        BY <3>2, UnansweredSound
      <4>2. phase'[r.session] = phase[r.session]
        BY <4>1, <3>2, <1>4 DEF IInv, TypeOK
      <4>3. QED
        BY <4>2, <1>4 DEF Found
    <3>3. CASE r.type # "open"
      BY <3>3 DEF Found
    <3>4. QED
      BY <3>1, <3>2, <3>3
  <2>3. QED
    BY <1>4, <2>1, <2>2, SameTaken DEF Contract!workerVars, Running
<1>5. CASE /\ s \notin hSessions /\ found /\ head.compile \in built
           /\ hSessions' = hSessions \cup {s} /\ Post(ReplyTo(head, "opened", "stopped"))
           /\ Finished(s) /\ UNCHANGED <<slices, rejected, run, runs, timers>>
  <2>1. Found(head) = head /\ head.compile # None
    BY <1>3, <1>5, ProtocolAssumption DEF IInv, TypeOK
  <2>2. Contract!Done(Found(head))
    BY <2>1, <1>1, <1>5 DEF Contract!Done, Contract!Post, Contract!ReplyTo, Post, ReplyTo, Running
  <2>3. QED
    BY <2>2, <1>1, <1>5, AnswerRefines
<1>6. CASE /\ Post(Failed(head.id)) /\ Finished(s)
           /\ UNCHANGED <<slices, rejected, hSessions, run, runs, timers>>
  <2>1. Contract!Throws(Found(head))
    BY <1>2, <1>6 DEF Contract!Throws, Contract!Post, Contract!Failed, Failed, Post, Running
  <2>2. QED
    BY <2>1, <1>1, <1>6, AnswerRefines
<1>7. QED
  BY <1>1, <1>4, <1>5, <1>6 DEF Open

LEMMA OpRefines ==
  ASSUME IInv, NEW s \in Sessions, NoSession(s) \/ Run(s) \/ Pause(s) \/ CloseSession(s) \/ Apply(s)
  PROVE  Contract!Answer
<1>1. PICK head \in Request :
        /\ head = Head(queue[s]) /\ head.session = s /\ head.type \in SessionOps \cup {"close"}
        /\ queue[s] # <<>> /\ s \notin rejected /\ ~hung /\ Finished(s) /\ UNCHANGED rejected
  BY HeadIsOldest DEF NoSession, Run, Pause, CloseSession, Apply, Job, CanRun, SessionOps
<1>2. Found(head) = head /\ head.type # "step"
  BY <1>1, FoundIs DEF SessionOps
<1>3. run \in [Sessions -> Nat] /\ runs \in [Sessions -> Nat]
  BY DEF IInv, TypeOK
<1>4. CASE NoSession(s)
  <2>1. Contract!Throws(head)
    BY <1>1, <1>4
    DEF NoSession, Contract!Throws, Contract!Post, Contract!Failed, Failed, Post, Running
  <2>2. QED
    BY <2>1, <1>1, <1>2, AnswerRefines
<1>5. CASE Run(s)
  <2>1. head.type = "run" /\ s \in hSessions /\ UNCHANGED hSessions
        /\ Post(ReplyTo(head, "updated", "running"))
    BY <1>1, <1>5 DEF Run, Job
  <2>2. Running' = Running \cup {s}
    <3>1. run'[s] # 0 /\ \A z \in Sessions \ {s} : run'[z] = run[z]
      BY <1>3, <1>5 DEF Run
    <3>2. QED
      BY <3>1 DEF Running
  <2>3. Contract!Done(head)
    BY <2>1, <2>2, <1>1
    DEF Contract!Done, Contract!Post, Contract!ReplyTo, Contract!StateOf, Post, ReplyTo
  <2>4. QED
    BY <2>3, <1>1, <1>2, AnswerRefines
<1>6. CASE Pause(s)
  <2>1. head.type = "pause" /\ s \in hSessions /\ UNCHANGED hSessions
        /\ Post(ReplyTo(head, "updated", "stopped"))
    BY <1>1, <1>6 DEF Pause, Job
  <2>2. Running' = Running \ {s}
    BY <1>3, <1>6 DEF Pause, StopRun, Running
  <2>3. Contract!Done(head)
    BY <2>1, <2>2, <1>1
    DEF Contract!Done, Contract!Post, Contract!ReplyTo, Contract!StateOf, Post, ReplyTo
  <2>4. QED
    BY <2>3, <1>1, <1>2, AnswerRefines
<1>7. CASE CloseSession(s)
  <2>1. head.type = "close" /\ s \in hSessions /\ hSessions' = hSessions \ {s}
        /\ Post(ReplyTo(head, "closed", "none"))
    BY <1>1, <1>7 DEF CloseSession, Job
  <2>2. Running' = Running \ {s}
    BY <1>3, <1>7 DEF CloseSession, StopRun, Running
  <2>3. Contract!Done(head)
    BY <2>1, <2>2, <1>1 DEF Contract!Done, Contract!Post, Contract!ReplyTo, Post, ReplyTo
  <2>4. QED
    BY <2>3, <1>1, <1>2, AnswerRefines
<1>8. CASE Apply(s)
  <2>1. /\ s \in hSessions /\ UNCHANGED hSessions /\ Running' = Running
        /\ \/ head.type = "op" /\ Post(ReplyTo(head, "updated", StateOf(run, s)))
           \/ head.type = "scan" /\ Post(ReplyTo(head, "scanned", "none"))
           \/ Post(Failed(head.id)) /\ head.type \in {"op", "scan"}
    BY <1>1, <1>8 DEF Apply, Job, Running
  <2>2. StateOf(run, s) = Contract!StateOf(s, Running)
    BY DEF StateOf, Contract!StateOf, Running
  <2>3. Contract!Done(head) \/ Contract!Throws(head)
    BY <2>1, <2>2, <1>1
    DEF Contract!Done, Contract!Throws, Contract!Post, Contract!ReplyTo, Contract!Failed, Failed,
        Post, ReplyTo
  <2>4. QED
    BY <2>3, <1>1, <1>2, AnswerRefines
<1>9. QED
  BY <1>4, <1>5, <1>6, <1>7, <1>8

\* Suspending an op that is not an open changes nothing the relay knows of.
LEMMA SliceTakesNothing ==
  ASSUME IInv, NEW s \in Sessions, queue[s] # <<>>, Head(queue[s]).type # "open",
         NEW at, phase' = [phase EXCEPT ![s] = at], UNCHANGED <<queue, building, hCompiles>>
  PROVE  Taken' = Taken
<1>1. Unanswered' = Unanswered
  BY DEF Unanswered
<1>2. ASSUME NEW r \in Unanswered PROVE Found(r)' = Found(r)
  <2>1. r.type = "open" => r.session \in Sessions \ {s}
    BY UnansweredSound
  <2>2. r.type = "open" => phase'[r.session] = phase[r.session]
    BY <2>1 DEF IInv, TypeOK
  <2>3. QED
    BY <2>2 DEF Found
<1>3. QED
  BY <1>1, <1>2, SameTaken

LEMMA SliceRefines ==
  ASSUME IInv, NEW s \in Sessions, Slice(s)
  PROVE  Contract!Heartbeat \/ UNCHANGED <<Contract!workerVars, channels>>
<1>1. queue[s] # <<>> /\ s \notin rejected /\ Head(queue[s]).type = "op" /\ ~hung
  BY DEF Slice, Job, CanRun
<1>2. Taken' = Taken
  BY <1>1, SliceTakesNothing DEF Slice
<1>3. QED
  BY <1>1, <1>2, HeartbeatRefines DEF Slice

LEMMA NextSliceRefines ==
  ASSUME IInv, NEW s \in Sessions, NextSlice(s)
  PROVE  Contract!Heartbeat \/ Contract!Answer \/ UNCHANGED <<Contract!workerVars, channels>>
<1>1. phase[s] = "sliced" /\ ~hung /\ UNCHANGED <<rejected, hSessions, run, runs, timers>>
  BY DEF NextSlice, AtRest
<1>2. queue[s] # <<>> /\ s \notin rejected /\ Head(queue[s]).type = "op" /\ s \in hSessions
  BY <1>1 DEF IInv, SessionSound, PhaseSound
<1>3. PICK head \in Request : head = Head(queue[s]) /\ head.session = s /\ head.type = "op"
  BY <1>2, HeadIsOldest
<1>4. CASE /\ MayHeartbeat
           /\ UNCHANGED <<hCompiles, building, built, queue, phase, hung, envVars, toRelay,
                          toPage, toWorker>>
  <2>1. phase' = [phase EXCEPT ![s] = "sliced"]
    BY <1>1, <1>4 DEF IInv, TypeOK
  <2>2. Taken' = Taken
    BY <2>1, <1>2, <1>4, SliceTakesNothing
  <2>3. QED
    BY <2>2, <1>1, <1>2, <1>4, HeartbeatRefines
<1>5. CASE /\ \/ Post(ReplyTo(head, "updated", StateOf(run, s)))
              \/ Post(Failed(head.id))
           /\ Finished(s)
  <2>1. Found(head) = head /\ Running' = Running
    BY <1>1, <1>3, FoundIs DEF Running
  <2>2. StateOf(run, s) = Contract!StateOf(s, Running)
    BY DEF StateOf, Contract!StateOf, Running
  <2>3. Contract!Done(head) \/ Contract!Throws(head)
    BY <2>1, <2>2, <1>1, <1>2, <1>3, <1>5
    DEF Contract!Done, Contract!Throws, Contract!Post, Contract!ReplyTo, Contract!Failed, Failed,
        Post, ReplyTo
  <2>4. QED
    BY <2>1, <2>3, <1>1, <1>2, <1>3, <1>5, AnswerRefines
<1>6. QED
  BY <1>3, <1>4, <1>5 DEF NextSlice

\* Found is steady as a request arrives: at rest, no open in a queue is still
\* to look its compile up.
LEMMA FoundAtRest ==
  ASSUME IInv, AtRest, UNCHANGED phase, NEW r \in Unanswered
  PROVE  Found(r)' = Found(r) /\ Found(r) = r
<1>1. CASE r.type = "open"
  <2>1. r.session \in Sessions /\ queue[r.session] # <<>> /\ r.session \notin rejected
    BY <1>1, UnansweredSound
  <2>2. phase[r.session] # "ready"
    BY <2>1 DEF AtRest, CanRun
  <2>3. QED
    BY <2>2, <1>1 DEF Found
<1>2. CASE r.type # "open"
  BY <1>2 DEF Found
<1>3. QED
  BY <1>1, <1>2

LEMMA HandleRefines == ASSUME IInv, Handle PROVE Contract!Take
<1>1. /\ AtRest /\ ~hung /\ toWorker # <<>> /\ toWorker' = Tail(toWorker)
      /\ UNCHANGED <<phase, hSessions, run, rejected, hung, toRelay, toPage>>
  BY DEF Handle, AtRest
<1>2. /\ toWorker \in Seq(Request) /\ queue \in [Sessions -> Seq(Jobs)]
  BY DEF IInv, TypeOK
<1>3. PICK request \in Request : request = Head(toWorker)
  BY <1>1, <1>2, TailItems
<1>4. /\ request = toWorker[1] /\ 1 \in 1 .. Len(toWorker)
      /\ request.type \notin {"compile", "release"} => request.session \in Sessions
      /\ request.type # "step" /\ request \in Jobs
  BY <1>1, <1>2, <1>3, TailItems, RequestsTyped
<1>5. Running' = Running
  BY <1>1 DEF Running
<1>6. \A r \in Unanswered : Found(r)' = Found(r)
  BY <1>1, FoundAtRest
<1>7. CASE request.type = "compile"
  <2>1. /\ hCompiles' = hCompiles \cup {request.compile} /\ building' = building \cup {request}
        /\ UNCHANGED <<queue, fromWorker>>
    BY <1>3, <1>7 DEF Handle
  <2>2. Unanswered' = Unanswered \cup {request}
    BY <2>1 DEF Unanswered
  <2>3. Found(request)' = request /\ Contract!Found(request) = request
    BY <1>7 DEF Found, Contract!Found
  <2>4. Taken' = Taken \cup {Contract!Found(request)}
    BY <2>2, <2>3, <1>6 DEF Taken
  <2>5. QED
    BY <2>1, <2>4, <1>1, <1>3, <1>5, <1>7 DEF Contract!Take
<1>8. CASE request.type = "release"
  <2>1. /\ hCompiles' = hCompiles \ {request.compile} /\ UNCHANGED <<building, queue>>
        /\ Post([id |-> request.id, type |-> "released", session |-> None, state |-> "none"])
    BY <1>3, <1>8 DEF Handle
  <2>2. Unanswered' = Unanswered
    BY <2>1 DEF Unanswered
  <2>3. Taken' = Taken
    BY <2>2, <1>6, SameTaken
  <2>4. QED
    BY <2>1, <2>3, <1>1, <1>3, <1>5, <1>8 DEF Contract!Take, Contract!Post, Post
<1>9. CASE request.type \notin {"compile", "release"}
  <2>1. PICK s \in Sessions : s = request.session
    BY <1>4, <1>9
  <2>2. Enqueue(s, request) /\ UNCHANGED <<hCompiles, building, fromWorker>>
    BY <2>1, <1>3, <1>9 DEF Handle
  <2>3. /\ queue'[s] = Append(queue[s], request) /\ \A z \in Sessions \ {s} : queue'[z] = queue[z]
        /\ queue' \in [Sessions -> Seq(Jobs)]
    BY <2>2, <1>4, Enqueued
  <2>4. /\ Len(queue'[s]) = Len(queue[s]) + 1 /\ Len(queue[s]) \in Nat
        /\ queue'[s][Len(queue[s]) + 1] = request
        /\ \A k \in 1 .. Len(queue[s]) : queue'[s][k] = queue[s][k]
        /\ \A k \in 1 .. Len(queue'[s]) : k \in 1 .. Len(queue[s]) \/ k = Len(queue[s]) + 1
    BY <2>3, <1>2, <1>4, AppendItems
  <2>5. ASSUME NEW r \in Unanswered' PROVE r \in Unanswered \cup {request}
    <3>1. CASE r \in building
      BY <3>1, UnansweredAre
    <3>2. ASSUME NEW k \in 1 .. Len(queue'[s]), queue'[s][k].type # "step", r = queue'[s][k]
          PROVE  r \in Unanswered \cup {request}
      BY <3>2, <2>4, UnansweredAre
    <3>3. ASSUME NEW z \in Sessions \ {s}, NEW k \in 1 .. Len(queue'[z]),
                 queue'[z][k].type # "step", r = queue'[z][k]
          PROVE  r \in Unanswered
      BY <3>3, <2>3, UnansweredAre
    <3>4. QED
      BY <3>1, <3>2, <3>3, <2>2, <2>3, UnansweredWillBe
  <2>6. request \in Unanswered'
    <3>1. Len(queue[s]) + 1 \in 1 .. Len(queue'[s])
      BY <2>4
    <3>2. QED
      BY <3>1, <2>3, <2>4, <1>4, UnansweredWillBe
  <2>7. ASSUME NEW r \in Unanswered PROVE r \in Unanswered'
    <3>1. CASE r \in building
      BY <3>1, <2>2, <2>3, UnansweredWillBe
    <3>2. ASSUME NEW k \in 1 .. Len(queue[s]), queue[s][k].type # "step", r = queue[s][k]
          PROVE  r \in Unanswered'
      <4>1. k \in 1 .. Len(queue'[s]) /\ queue'[s][k] = queue[s][k]
        BY <2>4
      <4>2. QED
        BY <4>1, <3>2, <2>3, UnansweredWillBe
    <3>3. ASSUME NEW z \in Sessions \ {s}, NEW k \in 1 .. Len(queue[z]),
                 queue[z][k].type # "step", r = queue[z][k]
          PROVE  r \in Unanswered'
      BY <3>3, <2>3, UnansweredWillBe
    <3>4. QED
      BY <3>1, <3>2, <3>3, UnansweredAre
  <2>8. Unanswered' = Unanswered \cup {request}
    BY <2>5, <2>6, <2>7
  <2>9. Found(request)' = Contract!Found(request)
    <3>1. request.type = "open" => phase[s] = "ready"
      <4>1. request.type = "open" => Fresh(s)
        BY <2>1, <1>4 DEF IInv, RequestsSound
      <4>2. QED
        BY <4>1 DEF IInv, SessionSound, PhaseSound, Fresh, Untouched
    <3>2. QED
      BY <3>1, <2>1, <2>2, <1>1 DEF Found, Contract!Found
  <2>10. Taken' = Taken \cup {Contract!Found(request)}
    BY <2>8, <2>9, <1>6 DEF Taken
  <2>11. QED
    BY <2>2, <2>10, <1>1, <1>3, <1>5, <1>9 DEF Contract!Take
<1>10. QED
  BY <1>7, <1>8, <1>9

LEMMA CompileDoneRefines == ASSUME IInv, CompileDone PROVE Contract!Answer
<1>1. PICK request \in building :
        /\ building' = building \ {request}
        /\ Post(ReplyTo(request, "compiled", "none")) \/ Post(Failed(request.id))
  BY DEF CompileDone
<1>2. /\ AtRest /\ ~hung
      /\ UNCHANGED <<hCompiles, queue, phase, rejected, hSessions, run, hung, toRelay, toPage,
                     toWorker>>
  BY DEF CompileDone, AtRest
<1>3. /\ request \in Contract!Answerable /\ Found(request) = request /\ request \in Request
      /\ request.type = "compile"
  BY BuildIsAnswerable
<1>4. Unanswered' = Unanswered \ {request}
  <2>2. ASSUME NEW s \in Sessions, NEW k \in 1 .. Len(queue[s]), queue[s][k].type # "step"
        PROVE  queue[s][k] # request
    BY <2>2, <1>3 DEF IInv, SessionSound, QueueSound, JobSound
  <2>3. queue' \in [Sessions -> Seq(Jobs)]
    BY <1>2 DEF IInv, TypeOK
  <2>4. \A r : r \in Unanswered' <=> r \in Unanswered /\ r # request
    BY <1>1, <1>2, <2>2, <2>3, UnansweredAre, UnansweredWillBe
  <2>5. QED
    BY <2>4
<1>5. \A r \in Unanswered : Found(r)' = Found(r) /\ Found(r) = r
  BY <1>2, FoundAtRest
<1>6. Taken' = Taken \ {request}
  BY <1>4, <1>5 DEF Taken
<1>7. Running' = Running
  BY <1>2 DEF Running
<1>8. Contract!Done(request) \/ Contract!Throws(request)
  BY <1>1, <1>2, <1>3, <1>7
  DEF Contract!Done, Contract!Throws, Contract!Post, Contract!ReplyTo, Contract!Failed, Failed,
      Post, ReplyTo
<1>9. QED
  BY <1>2, <1>3, <1>6, <1>8 DEF Contract!Answer

\* A step's job is of a request no one waits for.
LEMMA StepTakesNothing ==
  ASSUME IInv, NEW s \in Sessions, queue[s] # <<>>, Head(queue[s]).type = "step",
         queue' = [queue EXCEPT ![s] = Tail(@)], UNCHANGED <<phase, building, hCompiles>>
  PROVE  Taken' = Taken
<1>1. queue \in [Sessions -> Seq(Jobs)] /\ queue[s] \in Seq(Jobs)
  BY DEF IInv, TypeOK
<1>2. /\ queue'[s] = Tail(queue[s]) /\ \A z \in Sessions \ {s} : queue'[z] = queue[z]
      /\ queue' \in [Sessions -> Seq(Jobs)]
  <2>1. Tail(queue[s]) \in Seq(Jobs)
    BY <1>1, TailItems
  <2>2. QED
    BY <2>1, <1>1
<1>3. /\ Len(queue'[s]) = Len(queue[s]) - 1 /\ Len(queue[s]) \in Nat \ {0}
      /\ queue[s][1].type = "step"
      /\ \A k \in 1 .. Len(queue'[s]) : queue'[s][k] = queue[s][k + 1] /\ k + 1 \in 2 .. Len(queue[s])
  BY <1>1, <1>2, TailItems
<1>4. ASSUME NEW r \in Unanswered' PROVE r \in Unanswered
  <2>1. CASE r \in building
    BY <2>1, UnansweredAre
  <2>2. ASSUME NEW k \in 1 .. Len(queue'[s]), queue'[s][k].type # "step", r = queue'[s][k]
        PROVE  r \in Unanswered
    <3>1. r = queue[s][k + 1] /\ k + 1 \in 1 .. Len(queue[s])
      BY <2>2, <1>3
    <3>2. QED
      BY <3>1, <2>2, UnansweredAre
  <2>3. ASSUME NEW z \in Sessions \ {s}, NEW k \in 1 .. Len(queue'[z]), queue'[z][k].type # "step",
               r = queue'[z][k]
        PROVE  r \in Unanswered
    BY <2>3, <1>2, UnansweredAre
  <2>4. QED
    BY <2>1, <2>2, <2>3, <1>2, UnansweredWillBe
<1>5. ASSUME NEW r \in Unanswered PROVE r \in Unanswered'
  <2>1. CASE r \in building
    BY <2>1, <1>2, UnansweredWillBe
  <2>2. ASSUME NEW k \in 1 .. Len(queue[s]), queue[s][k].type # "step", r = queue[s][k]
        PROVE  r \in Unanswered'
    <3>1. k - 1 \in 1 .. Len(queue'[s])
      BY <2>2, <1>3
    <3>2. queue'[s][k - 1] = r /\ r.type # "step"
      BY <3>1, <2>2, <1>3
    <3>3. \E j \in 1 .. Len(queue'[s]) : queue'[s][j].type # "step" /\ r = queue'[s][j]
      BY <3>1, <3>2
    <3>4. QED
      BY <3>3, <1>2, UnansweredWillBe
  <2>3. ASSUME NEW z \in Sessions \ {s}, NEW k \in 1 .. Len(queue[z]), queue[z][k].type # "step",
               r = queue[z][k]
        PROVE  r \in Unanswered'
    BY <2>3, <1>2, UnansweredWillBe
  <2>4. QED
    BY <2>1, <2>2, <2>3, UnansweredAre
<1>6. Unanswered' = Unanswered
  BY <1>4, <1>5
<1>7. QED
  BY <1>6, SameTaken DEF Found

LEMMA StepRefines ==
  ASSUME IInv, NEW s \in Sessions, Step(s)
  PROVE  Contract!PushFrame(s) \/ UNCHANGED <<Contract!workerVars, channels>>
<1>1. /\ queue[s] # <<>> /\ s \notin rejected /\ Head(queue[s]).type = "step" /\ ~hung
      /\ phase[s] = "ready" /\ Head(queue[s]).run \in 1 .. runs[s]
  BY StepJobs DEF Step
<1>2. /\ queue' = [queue EXCEPT ![s] = Tail(@)] /\ phase' = phase
      /\ UNCHANGED <<hCompiles, building, hSessions, run, rejected, hung, toRelay, toPage, toWorker>>
  BY <1>1 DEF Step, Finished, IInv, TypeOK
<1>3. Taken' = Taken
  BY <1>1, <1>2, StepTakesNothing
<1>4. UNCHANGED Contract!workerVars
  BY <1>2, <1>3 DEF Contract!workerVars, Running
<1>5. CASE UNCHANGED fromWorker
  BY <1>2, <1>4, <1>5 DEF channels
<1>6. CASE /\ run[s] = Head(queue[s]).run /\ Post(Frame(s, "running"))
           /\ ~Contains(fromWorker \o toPage, Frame(s, "running"))
  <2>1. s \in Running
    BY <1>1, <1>6 DEF Running, IInv, TypeOK
  <2>2. Contract!Frame(s, "running") = Frame(s, "running")
    BY DEF Frame, Contract!Frame, NoId, Contract!NoId
  <2>3. QED
    BY <2>1, <2>2, <1>1, <1>2, <1>4, <1>6 DEF Contract!PushFrame, Contract!Post, Contract!Contains, Contains, Post
<1>7. QED
  BY <1>5, <1>6 DEF Step

LEMMA StepThrowsRefines ==
  ASSUME IInv, NEW s \in Sessions, StepThrows(s) PROVE Contract!StepThrows(s)
<1>1. /\ queue[s] # <<>> /\ s \notin rejected /\ Head(queue[s]).type = "step" /\ ~hung
      /\ Head(queue[s]).run \in 1 .. runs[s] /\ run[s] = Head(queue[s]).run
  BY StepJobs DEF StepThrows
<1>2. Taken' = Taken
  BY <1>1, StepTakesNothing DEF StepThrows
<1>3. s \in Running /\ Running' = Running
  BY <1>1 DEF Running, StepThrows, IInv, TypeOK
<1>4. QED
  BY <1>1, <1>2, <1>3 DEF StepThrows, Contract!StepThrows, Contract!channels, channels

LEMMA StepTimerRefines ==
  ASSUME IInv, NEW s \in Sessions, StepTimer(s)
  PROVE  UNCHANGED <<Contract!workerVars, channels>>
<1>1. PICK n \in 1 .. runs[s] : Enqueue(s, StepJob(s, n))
  BY DEF StepTimer
<1>2. UNCHANGED <<hCompiles, building, phase, rejected, hSessions, run, hung, channels>>
  BY DEF StepTimer
<1>3. queue \in [Sessions -> Seq(Jobs)] /\ n \in Nat
  BY DEF IInv, TypeOK
<1>4. PICK job \in Jobs : job = StepJob(s, n) /\ job.type = "step"
  BY <1>3, StepJobTyped
<1>5. /\ queue'[s] = Append(queue[s], job) /\ \A z \in Sessions \ {s} : queue'[z] = queue[z]
      /\ queue' \in [Sessions -> Seq(Jobs)]
  BY <1>1, <1>4, Enqueued
<1>6. /\ Len(queue'[s]) = Len(queue[s]) + 1 /\ Len(queue[s]) \in Nat
      /\ queue'[s][Len(queue[s]) + 1].type = "step"
      /\ \A k \in 1 .. Len(queue[s]) : queue'[s][k] = queue[s][k] /\ k \in 1 .. Len(queue'[s])
      /\ \A k \in 1 .. Len(queue'[s]) : k \in 1 .. Len(queue[s]) \/ k = Len(queue[s]) + 1
  BY <1>3, <1>4, <1>5, AppendItems
<1>7. building' = building
  BY <1>2
<1>8. ASSUME NEW r \in Unanswered' PROVE r \in Unanswered
  <2>1. CASE r \in building
    BY <2>1, UnansweredAre
  <2>2. ASSUME NEW k \in 1 .. Len(queue'[s]), queue'[s][k].type # "step", r = queue'[s][k]
        PROVE  r \in Unanswered
    <3>1. k \in 1 .. Len(queue[s]) /\ queue'[s][k] = queue[s][k]
      BY <2>2, <1>6
    <3>2. QED
      BY <3>1, <2>2, UnansweredAre
  <2>3. ASSUME NEW z \in Sessions \ {s}, NEW k \in 1 .. Len(queue'[z]), queue'[z][k].type # "step",
               r = queue'[z][k]
        PROVE  r \in Unanswered
    BY <2>3, <1>5, UnansweredAre
  <2>4. r \in building \/ \E z \in Sessions : \E k \in 1 .. Len(queue'[z]) :
                               queue'[z][k].type # "step" /\ r = queue'[z][k]
    BY <1>5, <1>7, UnansweredWillBe
  <2>5. QED
    BY <2>1, <2>2, <2>3, <2>4
<1>9. ASSUME NEW r \in Unanswered PROVE r \in Unanswered'
  <2>1. CASE r \in building
    BY <2>1, <1>2, <1>5, UnansweredWillBe
  <2>2. ASSUME NEW k \in 1 .. Len(queue[s]), queue[s][k].type # "step", r = queue[s][k]
        PROVE  r \in Unanswered'
    <3>1. k \in 1 .. Len(queue'[s]) /\ queue'[s][k] = queue[s][k]
      BY <1>6
    <3>2. QED
      BY <3>1, <2>2, <1>5, UnansweredWillBe
  <2>3. ASSUME NEW z \in Sessions \ {s}, NEW k \in 1 .. Len(queue[z]), queue[z][k].type # "step",
               r = queue[z][k]
        PROVE  r \in Unanswered'
    BY <2>3, <1>5, UnansweredWillBe
  <2>4. QED
    BY <2>1, <2>2, <2>3, UnansweredAre
<1>10. Taken' = Taken
  BY <1>2, <1>8, <1>9, SameTaken DEF Found
<1>11. QED
  BY <1>2, <1>10 DEF Contract!workerVars, Running

LEMMA HangRefines == ASSUME IInv, Hang PROVE Contract!Hang
<1>1. /\ ~hung /\ hung' = TRUE
      /\ UNCHANGED <<hCompiles, building, queue, phase, rejected, hSessions, run, channels>>
  BY DEF Hang
<1>2. Taken' = Taken /\ Running' = Running
  BY <1>1 DEF Taken, Unanswered, Found, Running
<1>3. ASSUME NEW s \in Sessions, s \notin rejected, queue[s] # <<>>,
             Head(queue[s]).type \in {"open", "op", "scan", "pause"}
      PROVE  \E request \in Contract!Answerable : request.type \in {"compile", "open", "op", "scan", "pause"}
  <2>1. Head(queue[s]).type # "step"
    BY <1>3
  <2>2. Found(Head(queue[s])) \in Contract!Answerable
        /\ Found(Head(queue[s])).type = Head(queue[s]).type
    BY <1>3, <2>1, HeadIsAnswerable, HeadIsOldest, FoundIs
  <2>3. QED
    BY <1>3, <2>2
<1>4. ASSUME NEW s \in Sessions, HangsIn(s)
      PROVE  \/ \E request \in Contract!Answerable :
                  request.type \in {"compile", "open", "op", "scan", "pause"}
             \/ Running \ rejected # {}
  <2>1. CASE Job(s, {"open", "op", "scan", "pause"})
    BY <2>1, <1>3 DEF Job, CanRun
  <2>2. CASE phase[s] = "sliced"
    <3>1. queue[s] # <<>> /\ s \notin rejected /\ Head(queue[s]).type = "op"
      BY <2>2 DEF IInv, SessionSound, PhaseSound
    <3>2. QED
      BY <3>1, <1>3
  <2>3. CASE Job(s, {"step"}) /\ run[s] = Head(queue[s]).run
    <3>1. s \notin rejected /\ Head(queue[s]).run \in 1 .. runs[s]
      BY <2>3, StepJobs
    <3>2. s \in Running
      BY <2>3, <3>1 DEF Running, IInv, TypeOK
    <3>3. QED
      BY <3>1, <3>2
  <2>4. QED
    BY <2>1, <2>2, <2>3, <1>4 DEF HangsIn
<1>5. building # {} => \E request \in Contract!Answerable : request.type = "compile"
  BY BuildIsAnswerable
<1>6. QED
  BY <1>1, <1>2, <1>4, <1>5 DEF Hang, Contract!Hang, Contract!channels, channels

LEMMA RelayRefines ==
  ASSUME IInv
  PROVE  /\ RelayPosts => Contract!RelayPosts
         /\ RelayTakes => Contract!RelayTakes
<1>1. ASSUME RelayPosts PROVE Contract!RelayPosts
  <2>1. PICK request \in Request : Posts(request)
    BY <1>1, PostsNext
  <2>2. /\ toWorker' = Append(toWorker, request)
        /\ UNCHANGED <<hCompiles, building, queue, phase, rejected, hSessions, run, hung, toRelay,
                       toPage, fromWorker>>
    BY <2>1 DEF Posts
  <2>3. toWorker' # <<>> /\ Contract!Last(toWorker') = request
    <3>1. toWorker \in Seq(Request)
      BY DEF IInv, TypeOK
    <3>2. /\ toWorker' # <<>> /\ Len(toWorker') = Len(toWorker) + 1
          /\ toWorker'[Len(toWorker) + 1] = request
      BY <2>2, <3>1, AppendItems
    <3>3. QED
      BY <3>2 DEF Contract!Last
  <2>4. UNCHANGED Contract!workerVars
    BY <2>2 DEF Contract!workerVars, Taken, Unanswered, Found, Running
  <2>5. UNCHANGED <<toRelay, toPage, fromWorker>>
    BY <2>2
  <2>6. Contract!Request = Request
    BY DEF Contract!Request, Request, Contract!ReplayId, ReplayId, Contract!PageIds, PageIds,
           Contract!RequestTypes, RequestTypes, Contract!SessionOps, SessionOps
  <2>7. QED
    BY <2>2, <2>3, <2>4, <2>5, <2>6 DEF Contract!RelayPosts
<1>2. ASSUME RelayTakes PROVE Contract!RelayTakes
  <2>1. UNCHANGED Contract!workerVars
    BY <1>2 DEF RelayTakes, hostVars, Contract!workerVars, Taken, Unanswered, Found, Running
  <2>2. QED
    BY <2>1, <1>2 DEF RelayTakes, Contract!RelayTakes
<1>3. QED
  BY <1>1, <1>2

LEMMA InitRefines == Init => Contract!AloneInit
<1> SUFFICES ASSUME Init PROVE Contract!AloneInit
  OBVIOUS
<1>1. queue \in [Sessions -> Seq(Jobs)] /\ building = {} /\ \A s \in Sessions : Len(queue[s]) = 0
  BY InitIInv DEF IInv, TypeOK, Init
<1>2. Unanswered = {}
  BY <1>1, InitIInv, UnansweredAre
<1>3. Taken = {} /\ Running = {}
  BY <1>2 DEF Taken, Running, Init
<1>4. QED
  BY <1>3 DEF Init, Contract!AloneInit, Contract!WorkerInit, Contract!Idle

LEMMA NextRefines ==
  IInv /\ [Next]_vars => [Contract!AloneNext]_<<Contract!workerVars, Contract!channels>>
<1> SUFFICES ASSUME IInv, [Next]_vars
             PROVE  Contract!AloneNext \/ UNCHANGED <<Contract!workerVars, channels>>
  BY DEF Contract!channels, channels
<1>1. ASSUME NEW s \in Sessions,
             \/ Open(s) \/ NoSession(s) \/ Run(s) \/ Pause(s) \/ CloseSession(s) \/ Apply(s)
             \/ Slice(s) \/ Step(s) \/ StepThrows(s) \/ NextSlice(s) \/ StepTimer(s)
      PROVE  \/ Contract!Answer \/ Contract!Heartbeat \/ Contract!PushFrame(s)
             \/ Contract!StepThrows(s) \/ UNCHANGED <<Contract!workerVars, channels>>
  BY <1>1, OpenRefines, OpRefines, SliceRefines, StepRefines, StepThrowsRefines,
     NextSliceRefines, StepTimerRefines
<1>2. ASSUME NEW s \in Sessions,
             \/ Contract!Answer \/ Contract!Heartbeat \/ Contract!PushFrame(s)
             \/ Contract!StepThrows(s)
      PROVE  Contract!AloneNext
  BY <1>2 DEF Contract!AloneNext, Contract!WorkerNext
<1>3. Handle \/ CompileDone \/ Hang => Contract!AloneNext
  BY HandleRefines, CompileDoneRefines, HangRefines DEF Contract!AloneNext, Contract!WorkerNext
<1>4. RelayPosts \/ RelayTakes => Contract!AloneNext
  BY RelayRefines DEF Contract!AloneNext
<1>5. UNCHANGED vars => UNCHANGED <<Contract!workerVars, channels>>
  BY DEF vars, hostVars, Contract!workerVars, Taken, Unanswered, Found, Running
<1>6. QED
  BY <1>1, <1>2, <1>3, <1>4, <1>5 DEF Next, HostNext

\* The host does what the relay expects of a worker: it answers each session's
\* requests in order and each request once, whatever slices, timers and builds
\* come between, and pushes frames only for sessions that auto-run
\* (createSessionHost of session-host.ts).
THEOREM HostImplementsWorker == Spec => ImplementsWorker
BY InvariantHolds, InitRefines, NextRefines, PTL DEF Spec, ImplementsWorker, Contract!AloneSpec

=============================================================================
