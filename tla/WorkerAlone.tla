---------------------------- MODULE WorkerAlone ----------------------------
(***************************************************************************)
(* The worker's promise as a specification by itself: a worker and a relay *)
(* that posts it requests and takes what it sends.  SessionHost, the code  *)
(* the worker runs, is shown to implement it.                              *)
(***************************************************************************)
EXTENDS Worker

\* The relay posts a request of the page's, or takes the next message.
RelayPosts ==
  /\ toWorker' # <<>> /\ Last(toWorker') \in Request
  /\ toWorker' = Append(toWorker, Last(toWorker'))
  /\ UNCHANGED <<workerVars, toRelay, toPage, fromWorker>>

RelayTakes ==
  /\ fromWorker # <<>>
  /\ fromWorker' = Tail(fromWorker)
  /\ UNCHANGED <<workerVars, toRelay, toPage, toWorker>>

AloneInit ==
  /\ WorkerInit
  /\ toRelay = <<>> /\ toPage = <<>> /\ toWorker = <<>> /\ fromWorker = <<>>

AloneNext == WorkerNext \/ RelayPosts \/ RelayTakes

AloneSpec == AloneInit /\ [][AloneNext]_<<workerVars, channels>>

=============================================================================
