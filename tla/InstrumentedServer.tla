------------------------- MODULE InstrumentedServer -------------------------
(***************************************************************************)
(* The integrated server of xapian-mod-pure, built on harness-mod: the     *)
(* rate of the arrivals follows a schedule of periods, and whenever as many*)
(* latencies are recorded as the rate has requests per second, their       *)
(* quantiles are printed and the latencies dropped.  The rest is that of   *)
(* IntegratedServer.                                                       *)
(*                                                                         *)
(* maxReqs is 2^30 here: the end of the measurement by the count, where    *)
(* dumpStats would wait for the lock its caller holds, is out of reach.    *)
(***************************************************************************)
EXTENDS IntegratedServer, Sequences

CONSTANTS
  Schedule,      \* the rates of TBENCH_INPUT, one for each period
  TBENCH_QPS,    \* the rate of the environment variable
  Uninitialized  \* what the memory of the member current_qps may hold

ASSUME InstrumentedAssumption ==
  /\ Schedule \in Seq(Nat \ {0}) /\ TBENCH_QPS \in Nat \ {0}
  /\ Uninitialized \subseteq Int

VARIABLES
  QPStiming,     \* what is left of the schedule
  current_qps, distRate,  \* the rate last looked up; the rate of the arrivals
  counter, printed        \* requests since the last line; the requests of each line

rateVars == <<QPStiming, current_qps, distRate>>
lineVars == <<counter, printed>>
instrumentedVars == <<vars, rateVars, lineVars>>

InstrumentedInit ==
  /\ Init
  /\ QPStiming = Schedule
  /\ current_qps \in Uninitialized /\ distRate = TBENCH_QPS
  /\ counter = 0 /\ printed = <<>>

\* DQPSLookup::currentQPS: what remains of the schedule, when the first period has
\* elapsed or not.
Remaining == {QPStiming} \cup (IF QPStiming = <<>> THEN {} ELSE {Tail(QPStiming)})
Rate(timing) == IF timing = <<>> THEN -1 ELSE Head(timing)

\* The rate of the arrivals: a new rate makes a new arrival process.
ArrivalRate_Faulty(rate) == distRate
ArrivalRate(rate) == IF current_qps # rate THEN rate ELSE distRate

\* startReq in the phase ROI; a schedule that runs out ends the process by exit.
Lookup ==
  \E timing \in Remaining :
    /\ ~(timing = <<>> /\ QPStiming # <<>>)
    /\ QPStiming' = timing
    /\ current_qps' = Rate(timing)
    /\ distRate' = ArrivalRate(Rate(timing))

IGenerate(w) ==
  /\ Generate(w)
  /\ IF status = "ROI" THEN Lookup ELSE UNCHANGED rateVars
  /\ UNCHANGED lineVars

ScheduleOver(w) ==
  /\ pc[w] = "generate" /\ status = "ROI" /\ Len(QPStiming) = 1
  /\ process' = "schedule over"
  /\ UNCHANGED <<pc, waiting, clientVars, reqInfo, countVars, rateVars, lineVars>>

\* if ((counter == current_qps * 1.0) && (RPS > 0))
LineFull_Faulty(n) == n > current_qps
LineFull(n) == n = current_qps
AfterLine_Faulty(recorded) == recorded
AfterLine(recorded) == {}
IFiniReq(w) ==
  /\ Goto(w, "serve", "count")
  /\ inFlightReqs' = inFlightReqs \ {reqInfo[w]}
  /\ IF status # "ROI"
     THEN UNCHANGED <<samples, lineVars>>
     ELSE LET recorded == samples \cup {reqInfo[w]} IN
          IF LineFull(counter + 1)
          THEN /\ printed' = Append(printed, recorded)
               /\ samples' = AfterLine(recorded) /\ counter' = 0
          ELSE samples' = recorded /\ counter' = counter + 1 /\ UNCHANGED printed
  /\ UNCHANGED <<process, waiting, status, dist, startedReqs, lats, reqInfo, countVars, rateVars>>

ICount(w) ==
  /\ CountUpTo(w, 2^30)
  /\ counter' = IF EndsWarmup(finishedReqs') THEN 0 ELSE counter
  /\ UNCHANGED <<rateVars, printed>>

\* recvReq pushes to recvReq_queue and sendResp pops from it without a lock: two of
\* these at once may end in a crash.
QueueRace ==
  /\ Cardinality({w \in Workers : pc[w] \in {"generate", "serve"}}) > 1
  /\ process' = "crashed"
  /\ UNCHANGED <<pc, waiting, clientVars, reqInfo, countVars, rateVars, lineVars>>

Unchanged(A) == A /\ UNCHANGED <<rateVars, lineVars>>
IStep(w) ==
  \/ Unchanged(Run(w) \/ Leave(w, "runWait", "check") \/ CheckQuota(w) \/ Processed(w))
  \/ Unchanged(TestStatus(w) \/ Leave(w, "wait1", "setUp") \/ SetUp(w)
                 \/ Leave(w, "wait2", "generate"))
  \/ IGenerate(w) \/ ScheduleOver(w) \/ IFiniReq(w) \/ ICount(w)

InstrumentedNext ==
  \/ /\ process = "up"
     /\ \/ Unchanged(Finish) \/ Unchanged(Killed) \/ QueueRace
        \/ \E w \in Workers : IStep(w)
  \/ process # "up" /\ UNCHANGED instrumentedVars

InstrumentedSpec == InstrumentedInit /\ [][InstrumentedNext]_instrumentedVars
-----------------------------------------------------------------------------
(* Properties.                                                             *)
LookedUp == status = "ROI" /\ current_qps \in {Schedule[i] : i \in DOMAIN Schedule}

\* The counter is compared for equality. It does not run past the rate as long as
\* the rates of the schedule do not fall, and the first is at least the number of
\* workers, which may all finish a request before the rate is first looked up.
NoLineMissed ==
  (\A i, j \in DOMAIN Schedule : i < j => Schedule[i] <= Schedule[j])
  /\ Schedule # <<>> /\ Schedule[1] >= numServers
  => (LookedUp => counter < current_qps)

\* No latency is in two lines, or in a line and in what lats.bin will get; what
\* is left after a line is counted for the next.
LinesDisjoint ==
  /\ \A i, j \in DOMAIN printed : i # j => printed[i] \cap printed[j] = {}
  /\ \A i \in DOMAIN printed : printed[i] \cap samples = {}
  /\ printed # <<>> => Cardinality(samples) = counter

\* A process has recorded the requests past the warm-up, in its lines or in
\* lats.bin: maxReqs when the count ends it, the number answered when the quota
\* does.  Each other worker may be between finiReq and the count when the phase ROI
\* begins, and again when it ends: that is the error.
WindowNear ==
  LET recorded == lats \cup UNION {printed[i] : i \in DOMAIN printed}
      measured == CASE process = "exit 0" -> maxReqs
                    [] process = "returned" /\ status = "ROI" -> finishedReqs - warmupReqs
                    [] OTHER -> Cardinality(recorded)
  IN /\ Cardinality(recorded) >= measured - (numServers - 1)
     /\ Cardinality(recorded) <= measured + (IF process = "exit 0" THEN numServers - 1 ELSE 0)

\* The arrivals have the rate that was looked up, unless the member current_qps,
\* which nothing initializes, happened to hold the first rate.
ArrivalsFollow ==
  LookedUp /\ Uninitialized \cap {Schedule[i] : i \in DOMAIN Schedule} = {} =>
    distRate = current_qps
=============================================================================
