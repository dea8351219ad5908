----------------------------- MODULE LoadClient -----------------------------
(***************************************************************************)
(* The threads of one networked client: n senders that generate requests   *)
(* behind a start-up barrier and n receivers that read one stream of       *)
(* messages under recvLock and apply what they read after releasing it.    *)
(*                                                                         *)
(* The server and the other clients are the environment: it answers the    *)
(* requests it was sent in any order, counts its answers, broadcasts       *)
(* ROI_BEGIN and FINISH by that count, and ends at any time.  sendLock is  *)
(* left out: it makes the writing of a request one step.                   *)
(***************************************************************************)
EXTENDS Integers, Sequences, FiniteSets

CONSTANTS
  Senders, Receivers,    \* bound: the threads there may be
  ThreadCounts,          \* values of TBENCH_CLIENT_THREADS
  NoThread,
  warmupReqs, maxReqs,   \* of the server
  MaxStarted,   \* bound: requests this client generates
  MaxOthers     \* bound: answers the server sends to other clients

ASSUME LoadClientAssumption ==
  /\ IsFiniteSet(Senders) /\ IsFiniteSet(Receivers)
  /\ ThreadCounts \subseteq (1..Cardinality(Senders)) \cap (1..Cardinality(Receivers))
  /\ Senders \cap Receivers = {} /\ NoThread \notin Receivers
  /\ warmupReqs \in Nat \ {0} /\ maxReqs \in Nat \ {0}
  /\ MaxStarted \in Nat /\ MaxOthers \in Nat

Requests == 0..MaxStarted

VARIABLES
  process,      \* "up", or how the client ended
  nthreads,     \* the senders, and the receivers, that main has created
  pc,           \* control point of every thread
  status, dist, \* the client's phase; whether the arrival process exists
  barrier,      \* the senders that wait at the start-up barrier
  startedReqs, inFlightReqs, samples, lats,
  req,          \* the request a sender has generated
  recvLock, resp,  \* the owner of recvLock; the message a receiver has read
  conn,         \* the connection: "open", or how it was closed
  wire,         \* what the server has sent and nobody has read
  pending,      \* requests the server has yet to answer
  finishedReqs, others,  \* the server's counter; answers to other clients
  ordinal       \* of each request, the server's counter when it was answered

threadVars == <<nthreads, pc, req, resp>>
clientVars == <<status, dist, startedReqs, inFlightReqs, samples, lats>>
serverVars == <<pending, finishedReqs, others, ordinal>>
vars == <<process, threadVars, clientVars, barrier, recvLock, conn, wire, serverVars>>

Nothing == [type |-> "NONE", id |-> 0]

Init ==
  /\ process = "up"
  /\ nthreads \in ThreadCounts
  /\ \E S \in SUBSET Senders, R \in SUBSET Receivers :
       /\ Cardinality(S) = nthreads /\ Cardinality(R) = nthreads
       /\ pc = [t \in Senders \cup Receivers |->
                  IF t \in S THEN "start" ELSE IF t \in R THEN "recv" ELSE "none"]
  /\ status = "INIT" /\ dist = FALSE /\ barrier = {}
  /\ startedReqs = 0 /\ inFlightReqs = {} /\ samples = {} /\ lats = {}
  /\ req = [s \in Senders |-> 0] /\ resp = [r \in Receivers |-> Nothing]
  /\ recvLock = NoThread
  /\ conn = "open" /\ wire = <<>>
  /\ pending = {} /\ finishedReqs = 0 /\ others = 0 /\ ordinal = [id \in Requests |-> 0]

Goto(t, from, to) == pc[t] = from /\ pc' = [pc EXCEPT ![t] = to]

\* An operator whose name ends in _Faulty is the one behind it with a plausible
\* mistake; no specification uses it.
-----------------------------------------------------------------------------
(* Client::startReq.                                                       *)
Opens_FaultyEarly(arrived) == Cardinality(arrived) >= nthreads - 1
Opens(arrived) == Cardinality(arrived) = nthreads

\* pthread_barrier_wait by s, when the senders of set wait: the last one to arrive
\* opens the barrier. A thread leaves when it is no longer in the set.
Wait(s, set) == barrier' = IF Opens(set \cup {s}) THEN {} ELSE set \cup {s}

TestStatus(s) ==
  /\ \/ status = "INIT" /\ Goto(s, "start", "wait1") /\ Wait(s, barrier)
     \/ status # "INIT" /\ Goto(s, "start", "generate") /\ UNCHANGED barrier
  /\ UNCHANGED <<process, nthreads, req, resp, clientVars, recvLock, conn, wire,
                 serverVars>>

Leave(s, wait, to) ==
  /\ s \notin barrier
  /\ Goto(s, wait, to)
  /\ UNCHANGED <<process, nthreads, req, resp, clientVars, barrier, recvLock,
                 conn, wire, serverVars>>

\* if (!dist): the first sender destroys the barrier, which lasts until every
\* thread has left its first round, and makes a new one.
FirstHere_Faulty == TRUE
FirstHere == ~dist
SetUp(s) ==
  /\ Goto(s, "setup", "wait2")
  /\ IF FirstHere
     THEN /\ \A u \in Senders : pc[u] # "wait1"
          /\ dist' = TRUE /\ status' = "WARMUP" /\ Wait(s, {})
     ELSE UNCHANGED <<dist, status>> /\ Wait(s, barrier)
  /\ UNCHANGED <<process, nthreads, req, resp, startedReqs, inFlightReqs,
                 samples, lats, recvLock, conn, wire, serverVars>>


\* The sender sleeps until the arrival time before it sends.
\* The bound is for requests somebody may answer; those that are generated when
\* the connection is closed need no number of their own.
Generate(s) ==
  /\ startedReqs < MaxStarted \/ conn # "open"
  /\ Goto(s, "generate", "send")
  /\ req' = [req EXCEPT ![s] = startedReqs]
  /\ startedReqs' = IF startedReqs < MaxStarted THEN startedReqs + 1 ELSE startedReqs
  /\ inFlightReqs' = inFlightReqs \cup {startedReqs}
  /\ UNCHANGED <<process, nthreads, resp, status, dist, samples, lats, barrier,
                 recvLock,
                 conn, wire, serverVars>>

-----------------------------------------------------------------------------
(* NetworkedClient::send and the sender's loop.  What is written to a      *)
(* connection the server has closed is answered by a reset.  A connection  *)
(* that was reset with requests unread fails once with an error; any later *)
(* write raises SIGPIPE.                                                   *)
Send(s) ==
  /\ conn \in {"open", "closed", "answered"}
  /\ Goto(s, "send", "start")
  /\ IF conn = "open" THEN pending' = pending \cup {req[s]} /\ UNCHANGED conn
     ELSE conn' = "answered" /\ UNCHANGED pending
  /\ UNCHANGED <<process, nthreads, req, resp, clientVars, barrier, recvLock,
                 wire,
                 finishedReqs, others, ordinal>>

SendFails(s) ==
  /\ conn = "reset"
  /\ conn' = "broken"
  /\ Goto(s, "send", "returned")
  /\ UNCHANGED <<process, nthreads, req, resp, clientVars, barrier, recvLock,
                 wire, serverVars>>

\* The default action of SIGPIPE; the program neither ignores nor handles it,
\* and sendfull passes no MSG_NOSIGNAL.
BrokenPipe_Faulty(s) ==
  /\ conn = "broken"
  /\ Goto(s, "send", "returned")
  /\ UNCHANGED <<process, nthreads, req, resp, clientVars, barrier, recvLock,
                 conn, wire, serverVars>>
BrokenPipe(s) ==
  /\ conn = "broken" /\ pc[s] = "send"
  /\ process' = "killed"
  /\ UNCHANGED <<threadVars, clientVars, barrier, recvLock, conn, wire,
                 serverVars>>
-----------------------------------------------------------------------------
(* NetworkedClient::recv.                                                  *)
LockRecv(r) ==
  /\ recvLock = NoThread
  /\ Goto(r, "recv", "read")
  /\ recvLock' = r
  /\ UNCHANGED <<process, nthreads, req, resp, clientVars, barrier, conn, wire,
                 serverVars>>

\* Header and, for a RESPONSE, body; then the lock is released.
Read(r) ==
  /\ wire # <<>>
  /\ Goto(r, "read", "apply")
  /\ resp' = [resp EXCEPT ![r] = Head(wire)]
  /\ wire' = Tail(wire)
  /\ recvLock' = NoThread
  /\ UNCHANGED <<process, nthreads, req, clientVars, barrier, conn, serverVars>>

\* return false, with recvLock held.
ReadFails(r) ==
  /\ wire = <<>> /\ conn # "open"
  /\ Goto(r, "read", "returned")
  /\ conn' = IF conn = "reset" THEN "broken" ELSE conn
  /\ UNCHANGED <<process, nthreads, req, resp, clientVars, barrier, recvLock,
                 wire, serverVars>>
-----------------------------------------------------------------------------
(* The receiver's loop: Client::finiReq, startRoi, dumpStats.              *)
FiniReq(r) ==
  /\ resp[r].type = "RESPONSE" /\ resp[r].id \in inFlightReqs
  /\ Goto(r, "apply", "recv")
  /\ samples' = IF status = "ROI" THEN samples \cup {resp[r].id} ELSE samples
  /\ inFlightReqs' = inFlightReqs \ {resp[r].id}
  /\ resp' = [resp EXCEPT ![r] = Nothing]
  /\ UNCHANGED <<process, nthreads, req, status, dist, startedReqs, lats,
                 barrier, recvLock,
                 conn, wire, serverVars>>

PhaseInRoi_Faulty == "WARMUP"
PhaseInRoi == "ROI"
StartRoi(r) ==
  /\ resp[r].type = "ROI_BEGIN" /\ status = "WARMUP"
  /\ Goto(r, "apply", "recv")
  /\ status' = PhaseInRoi /\ samples' = {}
  /\ resp' = [resp EXCEPT ![r] = Nothing]
  /\ UNCHANGED <<process, nthreads, req, dist, startedReqs, inFlightReqs, lats,
                 barrier,
                 recvLock, conn, wire, serverVars>>

\* assert(it != inFlightReqs.end()), assert(status == WARMUP)
UnknownId(r) == resp[r].type = "RESPONSE" /\ resp[r].id \notin inFlightReqs
RoiUnexpected(r) == resp[r].type = "ROI_BEGIN" /\ status # "WARMUP"
AssertFails(r) ==
  /\ pc[r] = "apply"
  /\ UnknownId(r) \/ RoiUnexpected(r)
  /\ process' = "aborted"
  /\ UNCHANGED <<threadVars, clientVars, barrier, recvLock, conn, wire,
                 serverVars>>

\* dumpStats takes no lock; exit_group.
Finish(r) ==
  /\ pc[r] = "apply" /\ resp[r].type = "FINISH"
  /\ lats' = samples
  /\ process' = "exit 0"
  /\ UNCHANGED <<threadVars, status, dist, startedReqs, inFlightReqs, samples,
                 barrier,
                 recvLock, conn, wire, serverVars>>

\* main joins senders and receivers.
Join ==
  /\ \A t \in Senders \cup Receivers : pc[t] \in {"returned", "none"}
  /\ process' = "returned"
  /\ UNCHANGED <<threadVars, clientVars, barrier, recvLock, conn, wire,
                 serverVars>>

\* kill_networked.sh.
Killed ==
  /\ process' = "killed"
  /\ UNCHANGED <<threadVars, clientVars, barrier, recvLock, conn, wire,
                 serverVars>>
-----------------------------------------------------------------------------
(* The server and the other clients.                                       *)
Broadcast(n) ==
  CASE n = warmupReqs -> <<[type |-> "ROI_BEGIN", id |-> 0]>>
    [] n = warmupReqs + maxReqs -> <<[type |-> "FINISH", id |-> 0]>>
    [] OTHER -> <<>>

Answer(id) ==
  /\ conn = "open" /\ id \in pending
  /\ pending' = pending \ {id}
  /\ finishedReqs' = finishedReqs + 1
  /\ wire' = Append(wire, [type |-> "RESPONSE", id |-> id]) \o Broadcast(finishedReqs')
  /\ ordinal' = [ordinal EXCEPT ![id] = finishedReqs']
  /\ UNCHANGED <<process, threadVars, clientVars, barrier, recvLock, conn,
                 others>>

AnswerOther ==
  /\ conn = "open" /\ others < MaxOthers
  /\ others' = others + 1
  /\ finishedReqs' = finishedReqs + 1
  /\ wire' = wire \o Broadcast(finishedReqs')
  /\ UNCHANGED <<process, threadVars, clientVars, barrier, recvLock, conn,
                 pending, ordinal>>

\* The server ends; requests it has not read reset the connection, and the reset
\* may overtake what it had sent.
ServerEnds ==
  /\ conn = "open"
  /\ \/ conn' = "closed" /\ UNCHANGED wire
     \/ conn' = "reset" /\ wire' \in {wire, <<>>}
  /\ UNCHANGED <<process, threadVars, clientVars, barrier, recvLock, serverVars>>

\* The reset that answers a request sent after the end of the server.
ResetArrives ==
  /\ conn = "answered"
  /\ conn' = "broken"
  /\ UNCHANGED <<process, threadVars, clientVars, barrier, recvLock, wire,
                 serverVars>>
-----------------------------------------------------------------------------
SenderStep(s) ==
  \/ TestStatus(s) \/ Leave(s, "wait1", "setup") \/ SetUp(s) \/ Leave(s, "wait2", "generate")
  \/ Generate(s) \/ Send(s) \/ SendFails(s) \/ BrokenPipe(s)

ReceiverStep(r) ==
  \/ LockRecv(r) \/ Read(r) \/ ReadFails(r)
  \/ FiniReq(r) \/ StartRoi(r) \/ AssertFails(r) \/ Finish(r)

Next ==
  \/ /\ process = "up"
     /\ \/ \E s \in Senders : SenderStep(s)
        \/ \E r \in Receivers : ReceiverStep(r)
        \/ \E id \in pending : Answer(id)
        \/ AnswerOther \/ ServerEnds \/ ResetArrives \/ Join \/ Killed
  \/ process # "up" /\ UNCHANGED vars

Spec == Init /\ [][Next]_vars

\* Every thread of the client runs, and a reset arrives; the server owes it
\* nothing.
FairSpec ==
  /\ Spec
  /\ \A s \in Senders : WF_vars(process = "up" /\ SenderStep(s))
  /\ \A r \in Receivers : WF_vars(process = "up" /\ ReceiverStep(r))
  /\ WF_vars(process = "up" /\ Join)
  /\ WF_vars(process = "up" /\ ResetArrives)
-----------------------------------------------------------------------------
(* Properties.                                                             *)
Message == [type : {"NONE", "RESPONSE", "ROI_BEGIN", "FINISH"}, id : Requests]

\* Every variable has its type; the senders that wait are fewer than the barrier
\* is made for.
TypeOK ==
  /\ process \in {"up", "killed", "aborted", "exit 0", "returned"}
  /\ pc \in [Senders \cup Receivers ->
              {"start", "wait1", "setup", "wait2", "generate", "send",
               "recv", "read", "apply", "returned", "none"}]
  /\ nthreads \in ThreadCounts
  /\ status \in {"INIT", "WARMUP", "ROI"} /\ dist \in BOOLEAN
  /\ barrier \subseteq Senders /\ Cardinality(barrier) < nthreads
  /\ startedReqs \in 0..MaxStarted /\ inFlightReqs \subseteq Requests
  /\ samples \subseteq Requests /\ lats \subseteq samples
  /\ req \in [Senders -> Requests] /\ resp \in [Receivers -> Message]
  /\ recvLock \in Receivers \cup {NoThread}
  /\ conn \in {"open", "closed", "answered", "reset", "broken"}
  /\ wire \in Seq(Message) /\ pending \subseteq Requests
  /\ finishedReqs \in 0..(MaxStarted + MaxOthers) /\ others \in 0..MaxOthers
  /\ ordinal \in [Requests -> 0..(MaxStarted + MaxOthers)]

\* The arrival times run from a moment at which every sender is there: when the
\* first request is generated nobody is still on its way to the second round of
\* the barrier, and the arrival process exists.
StartTogether ==
  startedReqs > 0 =>
    dist /\ \A s \in Senders : pc[s] \notin {"wait1", "setup"}

\* Although one barrier is destroyed and made anew between its two rounds, every
\* sender gets through both.
SendersStart ==
  <>(\/ process # "up"
     \/ status # "INIT" /\ \A s \in Senders : pc[s] \notin {"wait1", "setup", "wait2"})

\* finiReq finds every response's request, and startRoi the phase WARMUP: no
\* order of the receivers makes an assertion fail, as long as the warm-up is not
\* over with the answers to other clients alone.
AssertionsHold == MaxOthers < warmupReqs => process # "aborted"

\* What every state of a client satisfies.
ClientInv == TypeOK /\ StartTogether /\ AssertionsHold

\* A client with one receiver dumps the latencies of exactly its requests that
\* were answered between ROI_BEGIN and FINISH.  With several a message may be
\* overtaken between its reading and its application: the latencies of warm-up
\* requests that are recorded for this reason are fewer than the receivers.
WarmupSamples == {id \in samples : ordinal[id] <= warmupReqs}
Measured == {id \in Requests : ordinal[id] \in (warmupReqs + 1)..(warmupReqs + maxReqs)}
RecordsWindow ==
  /\ Cardinality(WarmupSamples) < nthreads
  /\ nthreads = 1 /\ process = "exit 0" => lats = Measured

\* When the server ends, or has sent FINISH, the client ends, although a receiver
\* that fails keeps recvLock and the others wait for it for ever: SIGPIPE ends the
\* process.
ClientEnds ==
  (conn # "open" \/ \E i \in DOMAIN wire : wire[i].type = "FINISH") ~> process # "up"
=============================================================================
