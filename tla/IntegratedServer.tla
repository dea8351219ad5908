-------------------------- MODULE IntegratedServer --------------------------
(***************************************************************************)
(* xapian_integrated: server and client in one process.  Every worker      *)
(* generates its own request, evaluates it and records its latency.        *)
(* sendResp takes the client's lock twice, for finiReq and for the count   *)
(* that ends the warm-up and the measurement, and other workers may pass   *)
(* between the two.                                                        *)
(***************************************************************************)
EXTENDS Integers, FiniteSets

CONSTANTS
  Workers,           \* numServers threads, main being one of them
  NumReqsToProcess,  \* the -r argument
  warmupReqs, maxReqs

ASSUME IntegratedAssumption ==
  /\ IsFiniteSet(Workers) /\ Workers # {}
  /\ NumReqsToProcess \in Nat /\ warmupReqs \in Nat /\ maxReqs \in Nat

VARIABLES
  process,           \* "up", or how it ended
  pc,                \* control point of each worker
  waiting,           \* the workers that wait at the barrier of Server or Client
  status, dist,      \* the client's phase; whether the arrival process exists
  startedReqs, inFlightReqs, samples,
  reqInfo,           \* the id of each worker's request
  finishedReqs, numReqsProcessed,
  lats               \* the ids dumped in lats.bin

clientVars == <<status, dist, startedReqs, inFlightReqs, samples, lats>>
countVars  == <<finishedReqs, numReqsProcessed>>
vars == <<process, pc, waiting, clientVars, reqInfo, countVars>>

numServers == Cardinality(Workers)
None == -1           \* no lats.bin, no request

Init ==
  /\ process = "up"
  /\ pc = [w \in Workers |-> "run"]
  /\ waiting = {} /\ status = "INIT" /\ dist = FALSE
  /\ startedReqs = 0 /\ inFlightReqs = {} /\ samples = {} /\ lats = {None}
  /\ reqInfo = [w \in Workers |-> None]
  /\ finishedReqs = 0 /\ numReqsProcessed = 0

Goto(w, from, to) == pc[w] = from /\ pc' = [pc EXCEPT ![w] = to]

\* An operator whose name ends in _Faulty is the one behind it with a plausible
\* mistake; no specification uses it.
-----------------------------------------------------------------------------
\* pthread_barrier_wait by w, when the workers of set wait: the last one to arrive
\* opens the barrier. Every barrier here is made for all workers.
Wait(w, set) ==
  waiting' = IF set \cup {w} = Workers THEN {} ELSE set \cup {w}

Leave(w, wait, to) ==
  /\ w \notin waiting
  /\ Goto(w, wait, to)
  /\ UNCHANGED <<process, waiting, clientVars, reqInfo, countVars>>

\* Server::_run, up to its barrier.
Run(w) ==
  /\ Goto(w, "run", "runWait")
  /\ Wait(w, waiting)
  /\ UNCHANGED <<process, clientVars, reqInfo, countVars>>

QuotaOpen == numReqsProcessed < NumReqsToProcess
CheckQuota(w) ==
  /\ \/ QuotaOpen  /\ Goto(w, "check", "startReq")
     \/ ~QuotaOpen /\ Goto(w, "check", "done")
  /\ UNCHANGED <<process, waiting, clientVars, reqInfo, countVars>>

\* startReq: in the phase INIT two rounds of the client's barrier, between which
\* the first worker makes the arrival process and a new barrier.
TestStatus(w) ==
  /\ \/ status = "INIT" /\ Goto(w, "startReq", "wait1") /\ Wait(w, waiting)
     \/ status # "INIT" /\ Goto(w, "startReq", "generate") /\ UNCHANGED waiting
  /\ UNCHANGED <<process, clientVars, reqInfo, countVars>>

Remade_Faulty == {}
Remade == waiting
SetUp(w) ==
  /\ Goto(w, "setUp", "wait2")
  /\ IF ~dist
     THEN /\ \A u \in Workers : pc[u] # "wait1"
          /\ dist' = TRUE /\ status' = "WARMUP" /\ Wait(w, {})
     ELSE UNCHANGED <<dist, status>> /\ Wait(w, Remade)
  /\ UNCHANGED <<process, startedReqs, inFlightReqs, samples, lats, reqInfo, countVars>>

\* The rest of startReq and of recvReq.
NextStarted_Faulty == finishedReqs + 1
NextStarted == startedReqs + 1
Generate(w) ==
  /\ Goto(w, "generate", "serve")
  /\ startedReqs' = NextStarted
  /\ inFlightReqs' = inFlightReqs \cup {startedReqs}
  /\ reqInfo' = [reqInfo EXCEPT ![w] = startedReqs]
  /\ UNCHANGED <<process, waiting, status, dist, samples, lats, countVars>>

\* The evaluation of the query, then finiReq.
Recording_Faulty == finishedReqs > warmupReqs
Recording == status = "ROI"
FiniReq(w) ==
  /\ Goto(w, "serve", "count")
  /\ samples' = IF Recording THEN samples \cup {reqInfo[w]} ELSE samples
  /\ inFlightReqs' = inFlightReqs \ {reqInfo[w]}
  /\ UNCHANGED <<process, waiting, status, dist, startedReqs, lats, reqInfo, countVars>>

\* The second critical section of sendResp. The assertion in _startRoi holds: the
\* count meets warmupReqs once, when the phase is WARMUP.
EndsWarmup(n) == n = warmupReqs
EndsRoi(n, max) == n = warmupReqs + max
CountUpTo(w, max) ==
  /\ finishedReqs' = finishedReqs + 1
  /\ CASE EndsWarmup(finishedReqs') ->
            /\ IF status = "WARMUP" THEN Goto(w, "count", "processed") /\ UNCHANGED process
               ELSE pc[w] = "count" /\ process' = "aborted" /\ UNCHANGED pc
            /\ status' = "ROI" /\ samples' = {}
            /\ UNCHANGED lats
       [] ~EndsWarmup(finishedReqs') /\ EndsRoi(finishedReqs', max) ->
            /\ pc[w] = "count"
            /\ lats' = samples
            /\ process' = "exit 0"
            /\ UNCHANGED <<pc, status, samples>>
       [] OTHER ->
            /\ Goto(w, "count", "processed")
            /\ UNCHANGED <<process, status, samples, lats>>
  /\ UNCHANGED <<waiting, dist, startedReqs, inFlightReqs, reqInfo, numReqsProcessed>>
Count(w) == CountUpTo(w, maxReqs)

Processed(w) ==
  /\ Goto(w, "processed", "check")
  /\ numReqsProcessed' = numReqsProcessed + 1
  /\ UNCHANGED <<process, waiting, clientVars, reqInfo, finishedReqs>>

\* main has joined the others: tBenchServerFinish dumps, main returns.
Finish ==
  /\ \A w \in Workers : pc[w] = "done"
  /\ lats' = samples
  /\ process' = "returned"
  /\ UNCHANGED <<pc, waiting, status, dist, startedReqs, inFlightReqs, samples,
                 reqInfo, countVars>>

\* The user ends the process.
Killed ==
  /\ process' = "killed"
  /\ UNCHANGED <<pc, waiting, clientVars, reqInfo, countVars>>
-----------------------------------------------------------------------------
Step(w) ==
  \/ Run(w) \/ Leave(w, "runWait", "check") \/ CheckQuota(w)
  \/ TestStatus(w) \/ Leave(w, "wait1", "setUp") \/ SetUp(w) \/ Leave(w, "wait2", "generate")
  \/ Generate(w) \/ FiniReq(w) \/ Count(w) \/ Processed(w)

Next ==
  \/ process = "up" /\ (Finish \/ Killed \/ \E w \in Workers : Step(w))
  \/ process # "up" /\ UNCHANGED vars

Spec == Init /\ [][Next]_vars
-----------------------------------------------------------------------------
(* Properties.                                                             *)
Ids == 0..(startedReqs - 1)

\* Every variable has its type; a barrier never holds all workers. Two of the ends
\* are those of InstrumentedServer.
TypeOK ==
  /\ process \in {"up", "aborted", "exit 0", "schedule over", "returned", "killed",
                 "crashed"}
  /\ pc \in [Workers -> {"run", "runWait", "check", "startReq", "wait1", "setUp", "wait2",
                         "generate", "serve", "count", "processed", "done"}]
  /\ waiting \subseteq Workers /\ waiting # Workers
  /\ status \in {"INIT", "WARMUP", "ROI"} /\ dist \in BOOLEAN
  /\ startedReqs \in Nat /\ finishedReqs \in Nat /\ numReqsProcessed \in Nat
  /\ reqInfo \in [Workers -> Ids \cup {None}]
  /\ inFlightReqs \subseteq Ids /\ samples \subseteq Ids
  /\ lats = {None} \/ lats \subseteq Ids

\* The requests in flight are those of the workers that evaluate one, and no two
\* workers evaluate the same request.
Serving == {w \in Workers : pc[w] = "serve"}
InFlightServed ==
  /\ inFlightReqs = {reqInfo[w] : w \in Serving}
  /\ Cardinality(inFlightReqs) = Cardinality(Serving)

\* The quota is passed by at most one request for each other worker.
QuotaKept ==
  startedReqs <= NumReqsToProcess + numServers - 1

\* ROI begins once: the assertion of _startRoi holds.
RoiOnce == process # "aborted"

\* What every state of the server satisfies.
WorkersInv == TypeOK /\ InFlightServed /\ QuotaKept /\ RoiOnce

\* The process ends, by the count, by the quota or with its schedule: no worker
\* takes the last of the quota while others wait for it at one of the barriers.
ProcessEnds == <>(process # "up")
=============================================================================
