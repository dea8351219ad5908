-------------------------- MODULE NetworkedServer --------------------------
(***************************************************************************)
(* The networked TailBench server running the Xapian search application,   *)
(* together with the client processes connected to it.                     *)
(*                                                                         *)
(* Server process: the worker threads of Server::_run, each of which takes *)
(* a request (recvReq, under recvLock), evaluates it and answers it        *)
(* (sendResp, under sendLock); the broadcasts of ROI_BEGIN and FINISH; the *)
(* removal of clients that left; the end of the process.                   *)
(*                                                                         *)
(* Client process: seen from the wire, one in-order stream of requests and *)
(* one in-order stream of responses.                                       *)
(***************************************************************************)
EXTENDS Integers, Sequences, FiniteSets, ClientFds

CONSTANTS
  Workers,           \* the server threads
  Main,              \* the one that is the process's main thread
  NumClients,        \* TBENCH_NCLIENTS
  WarmupReqs,        \* TBENCH_WARMUPREQS
  MaxReqs,           \* TBENCH_MAXREQS
  NumReqsToProcess,  \* the -r argument
  Supply,            \* bound: requests one client generates
  Mortal,            \* clients that may be killed at any time
  Partial,           \* whether a send may be cut off by the end of its process
  NoThread           \* a lock nobody holds

Clients == 1..NumClients
Slots   == 0..(Cardinality(Workers) - 1)

ASSUME ServerAssumption ==
  /\ IsFiniteSet(Workers) /\ Main \in Workers /\ NoThread \notin Workers
  /\ NumClients \in Nat \ {0}
  /\ WarmupReqs \in Nat /\ MaxReqs \in Nat /\ NumReqsToProcess \in Nat
  /\ Supply \in Nat /\ Mortal \subseteq Clients /\ Partial \in BOOLEAN

VARIABLES
  server,            \* "up", or how the process ended
  pc,                \* control point of each worker
  curTid, tid,       \* the thread counter and the __thread slot numbers
  numReqsProcessed,  \* the application's shared counter
  recvLock, sendLock,
  fdMem, fdCount,    \* clientFds: its memory and its size
  recvClientHead,
  slot,              \* reqInfo and activeFds, by thread slot
  finishedReqs,
  bcast,             \* the broadcast loop of the holder of sendLock
  c2s, s2c,          \* the two directions of each connection
  phase,             \* status of each client process
  started, inFlight, \* startedReqs and inFlightReqs of each client
  samples            \* latencies each client recorded

idVars     == <<curTid, tid>>
lockVars   == <<recvLock, sendLock>>
fdVars     == <<fdMem, fdCount, recvClientHead>>
countVars  == <<numReqsProcessed, finishedReqs>>
serverVars == <<server, pc, idVars, lockVars, fdVars, countVars, slot, bcast>>
clientVars == <<phase, started, inFlight, samples>>
vars == <<serverVars, c2s, s2c, clientVars>>
-----------------------------------------------------------------------------
(* Messages.  A request is its id; a client that goes away in the middle of *)
(* a send leaves a truncated message, Cut, as the last thing on its stream. *)
Cut == -1
RespMsg(id) == [type |-> "RESPONSE", id |-> id]
RoiBegin    == [type |-> "ROI_BEGIN", id |-> 0]
Finish      == [type |-> "FINISH", id |-> 0]
Idle        == [msg |-> Finish, it |-> 0, end |-> 0]
Messages    == [type : {"RESPONSE", "ROI_BEGIN", "FINISH"}, id : Nat]

Connected(c) == phase[c] \in {"WARMUP", "ROI"}

\* select() reports a descriptor that has data or whose peer has closed.
Readable == {c \in Clients : c2s[c] # <<>> \/ ~Connected(c)}

\* Workers between the test of the loop of _run and its ++numReqsProcessed.
InBody == {w \in Workers : pc[w] \in {"recv", "select", "shrink", "serve",
                                      "respond", "broadcast", "count"}}
\* Workers that went through tBenchServerThreadStart.
Registered == {w \in Workers : pc[w] \notin {"start", "barrier"}}

\* Workers that hold a request that is not answered yet.
Serving == {w \in Workers : pc[w] \in {"serve", "respond"}}

Init ==
  /\ server = "up"
  /\ pc = [w \in Workers |-> "start"]
  /\ curTid = 0
  /\ tid = [w \in Workers |-> 0]
  /\ numReqsProcessed = 0
  /\ recvLock = NoThread /\ sendLock = NoThread
  /\ fdMem = [i \in 1..NumClients |-> i]
  /\ fdCount = NumClients
  /\ recvClientHead = 0
  /\ slot = [k \in Slots |-> [fd |-> 0, id |-> 0]]
  /\ finishedReqs = 0
  /\ bcast = Idle
  /\ c2s = [c \in Clients |-> <<>>]
  /\ s2c = [c \in Clients |-> <<>>]
  /\ phase = [c \in Clients |-> "WARMUP"]
  /\ started = [c \in Clients |-> 0]
  /\ inFlight = [c \in Clients |-> {}]
  /\ samples = [c \in Clients |-> 0]
-----------------------------------------------------------------------------
(* The worker loop, Server::_run.  An operator whose name ends in _Faulty   *)
(* is what the operator behind it would be with a plausible mistake in it; *)
(* no specification uses it.                                               *)
Goto(w, from, to) == pc[w] = from /\ pc' = [pc EXCEPT ![w] = to]

\* pthread_barrier_wait: a worker waits until all have arrived.
Arrive(w) ==
  /\ Goto(w, "start", "barrier")
  /\ UNCHANGED <<server, idVars, lockVars, fdVars, countVars, slot, bcast,
                 c2s, s2c, clientVars>>

\* tBenchServerThreadStart: tid = curTid++, on an atomic_int.
NextTid_Faulty == curTid
NextTid == curTid + 1
ThreadStart(w) ==
  /\ \A v \in Workers : pc[v] # "start"
  /\ Goto(w, "barrier", "check")
  /\ tid' = [tid EXCEPT ![w] = curTid]
  /\ curTid' = NextTid
  /\ UNCHANGED <<server, lockVars, fdVars, countVars, slot, bcast, c2s, s2c,
                 clientVars>>

\* while (numReqsProcessed < numReqsToProcess)
QuotaOpen_Faulty == numReqsProcessed <= NumReqsToProcess
QuotaOpen_FaultyTest == numReqsProcessed # NumReqsToProcess
QuotaOpen == numReqsProcessed < NumReqsToProcess
CheckQuota(w) ==
  /\ \/ QuotaOpen /\ Goto(w, "check", "recv")
     \/ ~QuotaOpen /\ Goto(w, "check", "done")
  /\ UNCHANGED <<server, idVars, lockVars, fdVars, countVars, slot, bcast,
                 c2s, s2c, clientVars>>

\* ++numReqsProcessed
CountRequest(w) ==
  /\ Goto(w, "count", "check")
  /\ numReqsProcessed' = numReqsProcessed + 1
  /\ UNCHANGED <<server, idVars, lockVars, fdVars, finishedReqs, slot, bcast,
                 c2s, s2c, clientVars>>
-----------------------------------------------------------------------------
(* NetworkedServer::recvReq.  recvLock is held from LockRecv until a whole *)
(* request has been read, also while select blocks.                        *)

\* A mutex can be taken when nobody holds it.
Free(lock) == lock = NoThread

LockRecv(w) ==
  /\ Free(recvLock)
  /\ Goto(w, "recv", "select")
  /\ recvLock' = w
  /\ UNCHANGED <<server, idVars, sendLock, fdVars, countVars, slot, bcast,
                 c2s, s2c, clientVars>>

\* select returns and the scan settles on a descriptor.
Selects(w) == pc[w] = "select" /\ Elements(fdMem, fdCount) \cap Readable # {}
Picked == PickFd(fdMem, fdCount, recvClientHead, Readable)

\* The slot a worker files its request in.
SlotOf_Faulty(w) == 0
SlotOf(w) == tid[w]

\* Header and body arrive: the request is filed under the thread's slot.
RecvRequest(w) ==
  /\ Selects(w)
  /\ c2s[Picked] # <<>> /\ Head(c2s[Picked]) # Cut
  /\ recvClientHead' = NextHead(fdCount, recvClientHead)
  /\ slot' = [slot EXCEPT ![SlotOf(w)] = [fd |-> Picked, id |-> Head(c2s[Picked])]]
  /\ c2s' = [c2s EXCEPT ![Picked] = Tail(@)]
  /\ recvLock' = NoThread
  /\ Goto(w, "select", "serve")
  /\ UNCHANGED <<server, idVars, sendLock, fdMem, fdCount, countVars, bcast,
                 s2c, clientVars>>

\* The peer closed, before a header or right behind one: checkRecv starts to
\* erase the client from the vector.
RecvEof(w) ==
  /\ Selects(w)
  /\ c2s[Picked] \in {<<>>, <<Cut>>}
  /\ c2s' = [c2s EXCEPT ![Picked] = <<>>]
  /\ recvClientHead' = NextHead(fdCount, recvClientHead)
  /\ fdMem' = MoveDown(fdMem, fdCount, FindFd(fdMem, fdCount, Picked))
  /\ Goto(w, "select", "shrink")
  /\ UNCHANGED <<server, idVars, lockVars, fdCount, countVars, slot, bcast,
                 s2c, clientVars>>

\* The erase gives up the last cell; the receive loop goes on.
Shrink(w) ==
  /\ Goto(w, "shrink", "select")
  /\ fdCount' = fdCount - 1
  /\ UNCHANGED <<server, idVars, lockVars, fdMem, recvClientHead, countVars,
                 slot, bcast, c2s, s2c, clientVars>>

\* The peer closed inside a header or a body: checkRecv calls exit(-1).
RecvTruncated(w) ==
  /\ Selects(w)
  /\ c2s[Picked] = <<Cut>>
  /\ server' = "exit -1"
  /\ UNCHANGED <<pc, idVars, lockVars, fdVars, countVars, slot, bcast, c2s, s2c,
                 clientVars>>

\* "All clients exited. Server finishing": exit(0).
AllClientsGone(w) ==
  /\ pc[w] = "select"
  /\ fdCount = 0
  /\ server' = "exit 0"
  /\ UNCHANGED <<pc, idVars, lockVars, fdVars, countVars, slot, bcast, c2s, s2c,
                 clientVars>>
-----------------------------------------------------------------------------
(* NetworkedServer::sendResp and finish.                                   *)

\* sendfull to a client: delivered while the peer is there.  Once it is gone
\* the kernel may still accept the bytes, or send() fails, which ends the
\* process (SIGPIPE, or the assertion sent == totalLen).
Deliver_Faulty(c, msg) ==
  /\ s2c' = [s2c EXCEPT ![c] = IF Connected(c) THEN @ \o <<msg, msg>> ELSE @]
  /\ UNCHANGED server
Deliver(c, msg) ==
  \/ /\ Connected(c)
     /\ s2c' = [s2c EXCEPT ![c] = Append(@, msg)]
     /\ UNCHANGED server
  \/ /\ ~Connected(c)
     /\ UNCHANGED s2c
     /\ server' \in {"up", "send failed"}

LockSend(w) ==
  /\ Free(sendLock)
  /\ Goto(w, "serve", "respond")
  /\ sendLock' = w
  /\ UNCHANGED <<server, idVars, recvLock, fdVars, countVars, slot, bcast,
                 c2s, s2c, clientVars>>

\* The loop "for (int fd : clientFds)" takes its end from the size it finds.
Broadcast_Faulty(w, msg, at) ==
  /\ bcast' = [msg |-> msg, it |-> 2, end |-> fdCount]
  /\ pc' = [pc EXCEPT ![w] = at]
Broadcast(w, msg, at) ==
  /\ bcast' = [msg |-> msg, it |-> 1, end |-> fdCount]
  /\ pc' = [pc EXCEPT ![w] = at]

\* Whether the n-th response is the last one of the warm-up, or of the ROI.
EndsWarmup(n) == n = WarmupReqs
EndsRoi_Faulty(n) == n = WarmupReqs + MaxReqs - 1
EndsRoi_FaultyLate(n) == n = WarmupReqs + MaxReqs + 1
EndsRoi(n) == ~EndsWarmup(n) /\ n = WarmupReqs + MaxReqs

\* Send the response, count it, and see whether it closes a phase.
Respond(w) ==
  /\ pc[w] = "respond"
  /\ Deliver(slot[tid[w]].fd, RespMsg(slot[tid[w]].id))
  /\ finishedReqs' = finishedReqs + 1
  /\ \/ /\ EndsWarmup(finishedReqs + 1)
        /\ Broadcast(w, RoiBegin, "broadcast")
        /\ UNCHANGED sendLock
     \/ /\ EndsRoi(finishedReqs + 1)
        /\ Broadcast(w, Finish, "broadcast")
        /\ UNCHANGED sendLock
     \/ /\ ~EndsWarmup(finishedReqs + 1) /\ ~EndsRoi(finishedReqs + 1)
        /\ pc' = [pc EXCEPT ![w] = "count"]
        /\ sendLock' = NoThread
        /\ UNCHANGED bcast
  /\ UNCHANGED <<idVars, numReqsProcessed, recvLock, fdVars, slot, c2s, clientVars>>

\* One iteration: the descriptor is read from the memory of the vector.
BroadcastSend(w) ==
  /\ pc[w] \in {"broadcast", "finish"}
  /\ bcast.it <= bcast.end
  /\ Deliver(fdMem[bcast.it], bcast.msg)
  /\ bcast' = [bcast EXCEPT !.it = @ + 1]
  /\ UNCHANGED <<pc, idVars, lockVars, fdVars, countVars, slot, c2s, clientVars>>

\* The loop ends and sendLock is released.
BroadcastEnd_Faulty(w) ==
  /\ bcast.it > bcast.end
  /\ \/ Goto(w, "broadcast", "count") \/ Goto(w, "finish", "return")
  /\ bcast' = Idle
  /\ UNCHANGED <<server, idVars, lockVars, fdVars, countVars, slot, c2s, s2c,
                 clientVars>>
BroadcastEnd(w) ==
  /\ bcast.it > bcast.end
  /\ \/ Goto(w, "broadcast", "count") \/ Goto(w, "finish", "return")
  /\ bcast' = Idle
  /\ sendLock' = NoThread
  /\ UNCHANGED <<server, idVars, recvLock, fdVars, countVars, slot, c2s, s2c,
                 clientVars>>

\* pthread_join of every thread, behind main's own loop.
AllJoined_Faulty == pc[Main] = "done"
AllJoined == \A v \in Workers : pc[v] = "done"

\* main joins the other threads, then tBenchServerFinish broadcasts FINISH.
JoinAndFinish(w) ==
  /\ w = Main
  /\ AllJoined
  /\ Free(sendLock)
  /\ sendLock' = w
  /\ Broadcast(w, Finish, "finish")
  /\ UNCHANGED <<server, idVars, recvLock, fdVars, countVars, slot, c2s, s2c,
                 clientVars>>

\* Server::fini and the return from main.
MainReturns(w) ==
  /\ pc[w] = "return"
  /\ server' = "returned"
  /\ UNCHANGED <<pc, idVars, lockVars, fdVars, countVars, slot, bcast, c2s, s2c,
                 clientVars>>
-----------------------------------------------------------------------------
(* The client processes, as the wire shows them.                           *)

\* startReq and send: a fresh id enters inFlightReqs and the stream.
ClientSend(c) ==
  /\ server = "up"
  /\ Connected(c)
  /\ started[c] < Supply
  /\ started' = [started EXCEPT ![c] = @ + 1]
  /\ inFlight' = [inFlight EXCEPT ![c] = @ \cup {started[c]}]
  /\ c2s' = [c2s EXCEPT ![c] = Append(@, started[c])]
  /\ UNCHANGED <<serverVars, s2c, phase, samples>>

Receives(c, type) ==
  /\ Connected(c)
  /\ s2c[c] # <<>>
  /\ Head(s2c[c]).type = type
  /\ s2c' = [s2c EXCEPT ![c] = Tail(@)]

\* The process ends, perhaps while one of its threads is inside a send.
Leaves(c, how) ==
  /\ phase' = [phase EXCEPT ![c] = how]
  /\ \/ UNCHANGED c2s
     \/ Partial /\ c2s' = [c2s EXCEPT ![c] = Append(@, Cut)]

\* finiReq: the request leaves inFlightReqs and, in the ROI, is recorded.
ClientResponse(c) ==
  /\ Receives(c, "RESPONSE")
  /\ inFlight' = [inFlight EXCEPT ![c] = @ \ {Head(s2c[c]).id}]
  /\ samples' = [samples EXCEPT ![c] = IF phase[c] = "ROI" THEN @ + 1 ELSE @]
  /\ UNCHANGED <<serverVars, c2s, phase, started>>

\* startRoi: a second ROI_BEGIN fails assert(status == WARMUP).
ClientRoiBegin(c) ==
  /\ Receives(c, "ROI_BEGIN")
  /\ \/ /\ phase[c] = "WARMUP"
        /\ phase' = [phase EXCEPT ![c] = "ROI"]
        /\ samples' = [samples EXCEPT ![c] = 0]
        /\ UNCHANGED c2s
     \/ /\ phase[c] # "WARMUP"
        /\ Leaves(c, "ABORTED")
        /\ UNCHANGED samples
  /\ UNCHANGED <<serverVars, started, inFlight>>

\* FINISH: dumpStats and exit_group.
ClientFinish(c) ==
  /\ Receives(c, "FINISH")
  /\ Leaves(c, "FINISHED")
  /\ UNCHANGED <<serverVars, started, inFlight, samples>>

\* The process is killed from outside (kill_networked.sh).
ClientKilled(c) ==
  /\ c \in Mortal
  /\ Connected(c)
  /\ Leaves(c, "KILLED")
  /\ UNCHANGED <<serverVars, s2c, started, inFlight, samples>>

\* An end that closes its socket with input unread, or gets input afterwards,
\* resets the connection: what it had sent last may never arrive.
Front(stream) == SubSeq(stream, 1, Len(stream) - 1)
ResetLoses(c) ==
  /\ \/ /\ ~Connected(c) /\ c2s[c] # <<>>
        /\ c2s' = [c2s EXCEPT ![c] = Front(@)]
        /\ UNCHANGED s2c
     \/ /\ server # "up" /\ s2c[c] # <<>>
        /\ s2c' = [s2c EXCEPT ![c] = Front(@)]
        /\ UNCHANGED c2s
  /\ UNCHANGED <<serverVars, clientVars>>
-----------------------------------------------------------------------------
\* A step of a worker, taken while the process lives.
WorkerStep(w) ==
  /\ server = "up"
  /\ \/ Arrive(w) \/ ThreadStart(w) \/ CheckQuota(w) \/ CountRequest(w)
     \/ LockRecv(w) \/ RecvRequest(w) \/ RecvEof(w) \/ Shrink(w)
     \/ RecvTruncated(w) \/ AllClientsGone(w)
     \/ LockSend(w) \/ Respond(w) \/ BroadcastSend(w) \/ BroadcastEnd(w)
     \/ JoinAndFinish(w) \/ MainReturns(w)

ClientReceive(c) == ClientResponse(c) \/ ClientRoiBegin(c) \/ ClientFinish(c)

\* The server process is over.
Stopped == server # "up" /\ UNCHANGED vars

Next ==
  \/ \E w \in Workers : WorkerStep(w)
  \/ \E c \in Clients :
       ClientSend(c) \/ ClientReceive(c) \/ ClientKilled(c) \/ ResetLoses(c)
  \/ Stopped

Spec == Init /\ [][Next]_vars

\* Every thread of the server and of the clients keeps running.  The mutexes
\* promise nothing about who gets them next, so no more than weak fairness is
\* assumed of a worker.
Fairness ==
  /\ \A w \in Workers : WF_vars(WorkerStep(w))
  /\ \A c \in Clients : WF_vars(ClientSend(c)) /\ WF_vars(ClientReceive(c))

FairSpec == Spec /\ Fairness
-----------------------------------------------------------------------------
(* Properties.                                                             *)

ThreadTypes ==
  /\ server \in {"up", "exit 0", "exit -1", "send failed", "returned"}
  /\ pc \in [Workers -> {"start", "barrier", "check", "recv", "select", "shrink",
                         "serve", "respond", "broadcast", "count", "done",
                         "finish", "return"}]
  /\ curTid \in 0..Cardinality(Workers)
  /\ tid \in [Workers -> Slots]
  /\ recvLock \in Workers \cup {NoThread} /\ sendLock \in Workers \cup {NoThread}

RequestTypes ==
  /\ numReqsProcessed \in Nat /\ finishedReqs \in Nat
  /\ slot \in [Slots -> [fd : Clients \cup {0}, id : Nat]]
  /\ bcast \in [msg : Messages, it : 0..(NumClients + 1), end : 0..NumClients]

\* The head of the receive queue never points past the end of the vector by
\* more than the element that was erased last.
VectorTypes ==
  /\ fdMem \in [Clients -> Clients]
  /\ fdCount \in 0..NumClients
  /\ recvClientHead \in 0..fdCount
  /\ \A w \in Workers : pc[w] = "shrink" => recvClientHead < fdCount

StreamTypes ==
  /\ c2s \in [Clients -> Seq(Nat \cup {Cut})]
  /\ s2c \in [Clients -> Seq(Messages)]

ClientTypes ==
  /\ phase \in [Clients -> {"WARMUP", "ROI", "FINISHED", "ABORTED", "KILLED"}]
  /\ started \in [Clients -> 0..Supply]
  /\ inFlight \in [Clients -> SUBSET Nat]
  /\ samples \in [Clients -> Nat]

\* Every variable has its type; no operation of this module touches a value
\* of another shape.
TypeOK == ThreadTypes /\ RequestTypes /\ VectorTypes /\ StreamTypes /\ ClientTypes

\* Responses are written to a socket, and requests read from one, by a single
\* worker at a time: whoever is inside recvReq or sendResp owns its lock.
LocksExclusive ==
  \A w \in Workers :
    /\ pc[w] \in {"select", "shrink"} <=> recvLock = w
    /\ pc[w] \in {"respond", "broadcast", "finish"} <=> sendLock = w

\* Each worker that has registered has a slot of its own in reqInfo, reqbuf and activeFds.
SlotsDistinct ==
  /\ curTid = Cardinality(Registered)
  /\ \A v, w \in Registered : tid[v] < curTid /\ (tid[v] = tid[w] => v = w)

\* The test numReqsProcessed < numReqsToProcess and the increment are not one
\* step; the workers overshoot the quota by less than their number.
QuotaOvershoot == numReqsProcessed < NumReqsToProcess + Cardinality(Workers)

\* The inductive form: a worker in the loop's body is about to count.
QuotaReserved ==
  numReqsProcessed + Cardinality(InBody) < NumReqsToProcess + Cardinality(Workers)

\* A return from main leaves no request received and unanswered: what was
\* answered is what was counted, and it met the quota.
CleanReturn ==
  server = "returned" =>
    /\ finishedReqs = numReqsProcessed /\ finishedReqs >= NumReqsToProcess
    /\ \A w \in Workers \ {Main} : pc[w] = "done"

\* Where a request of c is: on its stream, with a worker, or answered on the
\* stream back.
Queued(c) == {i \in DOMAIN c2s[c] : c2s[c][i] # Cut}
ServedBy(c) == {w \in Serving : slot[tid[w]].fd = c}
Replied(c) == {i \in DOMAIN s2c[c] : s2c[c][i].type = "RESPONSE"}
SentIds(c) == {c2s[c][i] : i \in Queued(c)}
ServedIds(c) == {slot[tid[w]].id : w \in ServedBy(c)}
ReplyIds(c) == {s2c[c][i].id : i \in Replied(c)}

\* No request is in two places.
OnePlace(c) ==
  /\ \A i, j \in Queued(c) : c2s[c][i] = c2s[c][j] => i = j
  /\ \A v, w \in ServedBy(c) : slot[tid[v]].id = slot[tid[w]].id => v = w
  /\ \A i, j \in Replied(c) : s2c[c][i].id = s2c[c][j].id => i = j
  /\ SentIds(c) \cap ServedIds(c) = {}
  /\ (SentIds(c) \cup ServedIds(c)) \cap ReplyIds(c) = {}

\* A request that a live client has in inFlightReqs is in exactly one place,
\* and nothing else is on the way: every response finds its request, as
\* assert(it != inFlightReqs.end()) of finiReq demands.
InFlightAccounted ==
  \A c \in Clients :
    /\ OnePlace(c)
    /\ server = "up" /\ Connected(c) =>
         inFlight[c] = SentIds(c) \cup ServedIds(c) \cup ReplyIds(c)

\* No live client is ever dropped from clientFds, and outside an erase no
\* client is in it twice.
LiveClientsListed ==
  /\ \A c \in Clients : Connected(c) => c \in Elements(fdMem, fdCount)
  /\ (\A w \in Workers : pc[w] # "shrink")
       => Cardinality(Elements(fdMem, fdCount)) = fdCount

\* FINISH has been broadcast, because of the count, and these clients run on without it.
Announced ==
  server = "up" /\ MaxReqs > 0 /\ finishedReqs >= WarmupReqs + MaxReqs /\ bcast = Idle
Unfinished == {c \in Clients : Connected(c) /\ \A i \in DOMAIN s2c[c] : s2c[c][i] # Finish}

\* Every client that still runs has FINISH on its stream once it has been broadcast.
\* The code breaks this with three clients: one that leaves on FINISH, and is erased
\* while the loop walks clientFds, makes the loop pass over the client behind it.
FinishReachesAll == Announced => Unfinished = {}

\* Fewer than half of the clients are passed over by the broadcast of FINISH, however
\* many of those it has reached leave and are erased under it: each erase costs one
\* client at most, and the last in the vector is always reached.
MostGetFinish == Announced => 2 * Cardinality(Unfinished) < NumClients

\* The latencies the clients recorded, as pairs of a client and a number, and how many
\* of the responses counted fall in the region of interest.
Latencies == UNION {{c} \X (1..samples[c]) : c \in Clients}
InWindow ==
  IF WarmupReqs = 0 \/ finishedReqs < WarmupReqs THEN 0
  ELSE IF finishedReqs < WarmupReqs + MaxReqs THEN finishedReqs - WarmupReqs ELSE MaxReqs

\* When all clients have finished by the count, the latencies they recorded are exactly
\* those of the MaxReqs responses behind the warm-up, however the broadcasts of ROI_BEGIN
\* and FINISH interleaved with the responses.
WindowExact ==
  MaxReqs > 0 /\ (\A c \in Clients : phase[c] = "FINISHED")
    => Cardinality(Latencies) = InWindow

\* assert(status == WARMUP) of Client::_startRoi holds in every client.
RoiStartsOnce == \A c \in Clients : phase[c] # "ABORTED"

\* assert(sent == totalLen) of NetworkedServer::sendResp and finish.
SendsComplete == server # "send failed"
-----------------------------------------------------------------------------
\* Requests are answered exactly once: the abstract service.  ROI_BEGIN and FINISH
\* are its notices.
Notice == -1
AnswerIn(m) == IF m.type = "RESPONSE" THEN m.id ELSE Notice
Service == INSTANCE ExactlyOnce WITH
  submitted <- started,
  pending <- [c \in Clients |-> SentIds(c) \cup ServedIds(c)],
  mailbox <- [c \in Clients |-> [i \in DOMAIN s2c[c] |-> AnswerIn(s2c[c][i])]],
  connected <- {c \in Clients : Connected(c)},
  open <- (server = "up")
ImplementsService == Service!Spec
=============================================================================
