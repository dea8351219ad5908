------------------------- MODULE InstrumentedProofs -------------------------
(***************************************************************************)
(* Proofs about the two programs with an integrated server: IntegratedServer*)
(* (xapian-pure) and InstrumentedServer (xapian-mod-pure), for any number  *)
(* of workers and any schedule.  What they have in common is proved of     *)
(* CoreNext, which the steps of both are steps of.                         *)
(***************************************************************************)
EXTENDS InstrumentedServer, FiniteSetTheorems, TLAPS

\* numServers is a positive integer.
LEMMA WorkersFinite ==
  IsFiniteSet(Workers) /\ numServers \in Nat \ {0} /\ Cardinality(Workers) = numServers
  BY IntegratedAssumption, FS_CardinalityType, FS_EmptySet DEF IntegratedAssumption, numServers

\* A set of workers can be counted, and the size of a part that misses somebody is
\* smaller.
LEMMA CountWorkers ==
  ASSUME NEW S, S \subseteq Workers
  PROVE  /\ IsFiniteSet(S) /\ Cardinality(S) \in Nat /\ Cardinality(S) <= numServers
         /\ \A w \in Workers \ S : /\ Cardinality(S) < numServers
                                   /\ Cardinality(S \cup {w}) = Cardinality(S) + 1
         /\ \A w \in S : /\ Cardinality(S \ {w}) = Cardinality(S) - 1
                         /\ Cardinality(S) >= 1
  <1>1. IsFiniteSet(S) /\ Cardinality(S) \in Nat /\ Cardinality(S) <= numServers
    BY WorkersFinite, FS_Subset, FS_CardinalityType
  <1>2. ASSUME NEW w \in Workers \ S
        PROVE  Cardinality(S) < numServers /\ Cardinality(S \cup {w}) = Cardinality(S) + 1
    <2>1. Cardinality(S \cup {w}) = Cardinality(S) + 1
      BY <1>1, FS_AddElement
    <2>2. S \cup {w} \subseteq Workers
      OBVIOUS
    <2>3. Cardinality(S \cup {w}) <= numServers
      BY <2>2, WorkersFinite, FS_Subset
    <2> QED
      BY <1>1, <2>1, <2>3, WorkersFinite
  <1>3. ASSUME NEW w \in S
        PROVE  Cardinality(S \ {w}) = Cardinality(S) - 1 /\ Cardinality(S) >= 1
    <2>1. Cardinality(S \ {w}) = Cardinality(S) - 1
      BY <1>1, FS_RemoveElement
    <2>2. Cardinality(S) # 0
      BY <1>1, FS_EmptySet
    <2> QED
      BY <1>1, <2>1, <2>2
  <1> QED
    BY <1>1, <1>2, <1>3
-----------------------------------------------------------------------------
(* What the two programs have in common.                                   *)

\* finiReq, whatever of the recorded latencies it keeps.
Fini(w) ==
  /\ Goto(w, "serve", "count")
  /\ inFlightReqs' = inFlightReqs \ {reqInfo[w]}
  /\ samples' \subseteq samples \cup {reqInfo[w]}
  /\ UNCHANGED <<process, waiting, status, dist, startedReqs, lats, reqInfo, countVars>>

\* The end of the process in any other way than by finishing or counting.
Ends ==
  /\ process' \in {"killed", "crashed", "schedule over"}
  /\ UNCHANGED <<pc, waiting, clientVars, reqInfo, countVars>>

Moves(w) == Run(w) \/ Leave(w, "runWait", "check") \/ TestStatus(w)
            \/ Leave(w, "wait1", "setUp") \/ SetUp(w) \/ Leave(w, "wait2", "generate")

CoreStep(w) ==
  \/ Moves(w) \/ CheckQuota(w) \/ Generate(w) \/ Fini(w) \/ Processed(w)
  \/ \E max : CountUpTo(w, max)

CoreNext == process = "up" /\ (Finish \/ Ends \/ \E w \in Workers : CoreStep(w))

\* The steps of xapian-pure are such steps.
LEMMA PureIsCore == [Next]_vars => [CoreNext]_vars
  <1>1. ASSUME NEW w \in Workers, Step(w) PROVE CoreStep(w)
    <2>1. FiniReq(w) => Fini(w)
      BY DEF FiniReq, Fini
    <2>2. Count(w) => \E max : CountUpTo(w, max)
      BY DEF Count
    <2> QED
      BY <1>1, <2>1, <2>2 DEF Step, CoreStep, Moves
  <1>2. Killed => Ends
    BY DEF Killed, Ends
  <1> QED
    BY <1>1, <1>2 DEF Next, CoreNext

\* So are those of xapian-mod-pure.
LEMMA InstrumentedIsCore == [InstrumentedNext]_instrumentedVars => [CoreNext]_vars
  <1>1. ASSUME NEW w \in Workers, IStep(w) PROVE CoreStep(w) \/ Ends
    <2>1. IGenerate(w) => Generate(w)
      BY DEF IGenerate
    <2>2. IFiniReq(w) => Fini(w)
      BY DEF IFiniReq, Fini, AfterLine
    <2>3. ICount(w) => \E max : CountUpTo(w, max)
      BY DEF ICount
    <2>4. ScheduleOver(w) => Ends
      BY DEF ScheduleOver, Ends
    <2> QED
      BY <1>1, <2>1, <2>2, <2>3, <2>4 DEF IStep, CoreStep, Moves, Unchanged
  <1>2. Unchanged(Killed) \/ QueueRace => Ends
    BY DEF Unchanged, Killed, QueueRace, Ends
  <1>3. UNCHANGED instrumentedVars => UNCHANGED vars
    BY DEF instrumentedVars
  <1> QED
    BY <1>1, <1>2, <1>3 DEF InstrumentedNext, CoreNext, Unchanged
-----------------------------------------------------------------------------
(* The workers and the client.                                             *)

\* The workers that have started a request and not counted it as processed, and
\* those that are committed to count one.
Busy == {w \in Workers : pc[w] \in {"serve", "count", "processed"}}
InBody == {w \in Workers : pc[w] \notin {"run", "runWait", "check", "done"}}

\* Nobody is past the set-up in the phase INIT, and the phase ROI has seen the
\* warm-up's last answer.
PhaseInv ==
  /\ dist <=> status # "INIT"
  /\ \A w \in Workers :
       pc[w] \in {"wait2", "generate", "serve", "count", "processed"} => status # "INIT"
  /\ status = "ROI" => finishedReqs >= warmupReqs
  /\ process # "aborted"

\* The requests in flight are those that are served, each by one worker.
ServeInv ==
  /\ inFlightReqs = {reqInfo[w] : w \in Serving}
  /\ \A v, w \in Serving : reqInfo[v] = reqInfo[w] => v = w

\* Every worker past the test of the quota has a part of it reserved.
QuotaInv ==
  /\ startedReqs = numReqsProcessed + Cardinality(Busy)
  /\ numReqsProcessed + Cardinality(InBody) < NumReqsToProcess + numServers

CoreInv == TypeOK /\ PhaseInv /\ ServeInv /\ QuotaInv

\* What the constructors leave.
LEMMA CoreInit == Init => CoreInv
  <1> SUFFICES ASSUME Init PROVE CoreInv
    OBVIOUS
  <1>1. TypeOK
    BY IntegratedAssumption DEF Init, TypeOK, Ids, None, IntegratedAssumption
  <1>2. PhaseInv
    BY DEF Init, PhaseInv
  <1>3. Busy = {} /\ InBody = {} /\ Serving = {}
    BY DEF Init, Busy, InBody, Serving
  <1>4. ServeInv
    BY <1>3 DEF Init, ServeInv
  <1>5. QuotaInv
    BY <1>3, FS_EmptySet, WorkersFinite, IntegratedAssumption
       DEF Init, QuotaInv, IntegratedAssumption
  <1> QED
    BY <1>1, <1>2, <1>4, <1>5 DEF CoreInv

\* What a step may do to the control point of its worker.
LEMMA PcMoves ==
  ASSUME TypeOK, NEW w \in Workers, NEW from, NEW to, Goto(w, from, to)
  PROVE  /\ pc[w] = from /\ pc' = [pc EXCEPT ![w] = to]
         /\ pc'[w] = to /\ \A v \in Workers : v # w => pc'[v] = pc[v]
  BY DEF Goto, TypeOK

\* The types of what the workers go through and of what they count.
ControlTypes ==
  /\ process \in {"up", "aborted", "exit 0", "schedule over", "returned", "killed",
                 "crashed"}
  /\ pc \in [Workers -> {"run", "runWait", "check", "startReq", "wait1", "setUp", "wait2",
                         "generate", "serve", "count", "processed", "done"}]
  /\ waiting \subseteq Workers /\ waiting # Workers
  /\ status \in {"INIT", "WARMUP", "ROI"} /\ dist \in BOOLEAN
CountTypes == startedReqs \in Nat /\ finishedReqs \in Nat /\ numReqsProcessed \in Nat
IdTypes ==
  /\ reqInfo \in [Workers -> Ids \cup {None}]
  /\ inFlightReqs \subseteq Ids /\ samples \subseteq Ids
  /\ lats = {None} \/ lats \subseteq Ids

\* These are the parts of TypeOK.
LEMMA TypeParts == TypeOK <=> ControlTypes /\ CountTypes /\ IdTypes
  BY DEF TypeOK, ControlTypes, CountTypes, IdTypes

\* The branches of the second critical section of sendResp.
LEMMA CountBranches ==
  ASSUME NEW w, NEW max, CountUpTo(w, max)
  PROVE  /\ UNCHANGED <<waiting, dist, startedReqs, inFlightReqs, reqInfo, numReqsProcessed>>
         /\ finishedReqs' = finishedReqs + 1 /\ pc[w] = "count"
         /\ \/ /\ finishedReqs + 1 = warmupReqs
               /\ status = "WARMUP" /\ Goto(w, "count", "processed") /\ UNCHANGED process
               /\ status' = "ROI" /\ samples' = {} /\ UNCHANGED lats
            \/ /\ finishedReqs + 1 = warmupReqs
               /\ status # "WARMUP" /\ process' = "aborted" /\ UNCHANGED pc
               /\ status' = "ROI" /\ samples' = {} /\ UNCHANGED lats
            \/ /\ finishedReqs + 1 # warmupReqs /\ finishedReqs + 1 = warmupReqs + max
               /\ lats' = samples /\ process' = "exit 0"
               /\ UNCHANGED <<pc, status, samples>>
            \/ /\ finishedReqs + 1 # warmupReqs /\ finishedReqs + 1 # warmupReqs + max
               /\ Goto(w, "count", "processed")
               /\ UNCHANGED <<process, status, samples, lats>>
  <1>1. /\ UNCHANGED <<waiting, dist, startedReqs, inFlightReqs, reqInfo, numReqsProcessed>>
        /\ finishedReqs' = finishedReqs + 1
    BY DEF CountUpTo
  <1>2. CASE finishedReqs + 1 = warmupReqs
    <2>1. EndsWarmup(finishedReqs')
      BY <1>1, <1>2 DEF EndsWarmup
    <2>2. /\ IF status = "WARMUP" THEN Goto(w, "count", "processed") /\ UNCHANGED process
             ELSE pc[w] = "count" /\ process' = "aborted" /\ UNCHANGED pc
          /\ status' = "ROI" /\ samples' = {}
          /\ UNCHANGED lats
      BY <2>1 DEF CountUpTo
    <2> QED
      BY <1>1, <1>2, <2>2 DEF Goto
  <1>3. CASE finishedReqs + 1 # warmupReqs /\ finishedReqs + 1 = warmupReqs + max
    <2>1. ~EndsWarmup(finishedReqs') /\ EndsRoi(finishedReqs', max)
      BY <1>1, <1>3 DEF EndsWarmup, EndsRoi
    <2> QED
      BY <1>1, <1>3, <2>1 DEF CountUpTo
  <1>4. CASE finishedReqs + 1 # warmupReqs /\ finishedReqs + 1 # warmupReqs + max
    <2>1. ~EndsWarmup(finishedReqs') /\ ~EndsRoi(finishedReqs', max)
      BY <1>1, <1>4 DEF EndsWarmup, EndsRoi
    <2> QED
      BY <1>1, <1>4, <2>1 DEF CountUpTo, Goto
  <1> QED
    BY <1>2, <1>3, <1>4

\* Every step keeps the types.
LEMMA CoreTypes ==
  ASSUME CoreInv, [CoreNext]_vars
  PROVE  TypeOK'
  <1> SUFFICES ControlTypes' /\ CountTypes' /\ IdTypes'
    BY DEF TypeOK, ControlTypes, CountTypes, IdTypes
  <1>0. ControlTypes /\ CountTypes /\ IdTypes
    BY TypeParts DEF CoreInv
  <1>1. ASSUME UNCHANGED <<startedReqs, reqInfo, inFlightReqs, samples, lats>> PROVE IdTypes'
    BY <1>0, <1>1 DEF IdTypes, Ids
  <1>2. ASSUME NEW w \in Workers, Moves(w) PROVE ControlTypes' /\ CountTypes' /\ IdTypes'
    <2>1. ASSUME NEW set \in SUBSET Workers, Wait(w, set)
          PROVE  waiting' \subseteq Workers /\ waiting' # Workers
      BY <2>1 DEF Wait
    <2>2. CASE Run(w)
      BY <1>0, <1>1, <2>1, <2>2 DEF Run, Goto, ControlTypes, CountTypes, clientVars, countVars
    <2>3. CASE TestStatus(w)
      BY <1>0, <1>1, <2>1, <2>3 DEF TestStatus, Goto, ControlTypes, CountTypes, clientVars, countVars
    <2>4. CASE SetUp(w)
      BY <1>0, <1>1, <2>1, <2>4 DEF SetUp, Remade, Goto, ControlTypes, CountTypes, countVars
    <2>5. ASSUME NEW from, NEW to \in {"check", "setUp", "generate"}, Leave(w, from, to)
          PROVE  ControlTypes' /\ CountTypes' /\ IdTypes'
      BY <1>0, <1>1, <2>5 DEF Leave, Goto, ControlTypes, CountTypes, clientVars, countVars
    <2> QED
      BY <1>2, <2>2, <2>3, <2>4, <2>5 DEF Moves
  <1>3. ASSUME NEW w \in Workers, CheckQuota(w) PROVE ControlTypes' /\ CountTypes' /\ IdTypes'
    BY <1>0, <1>1, <1>3 DEF CheckQuota, Goto, ControlTypes, CountTypes, clientVars, countVars
  <1>4. ASSUME NEW w \in Workers, Generate(w) PROVE ControlTypes' /\ CountTypes' /\ IdTypes'
    <2>1. startedReqs \in Nat /\ startedReqs' = startedReqs + 1
      BY <1>0, <1>4 DEF Generate, NextStarted, CountTypes
    <2>2. Ids \subseteq Ids' /\ startedReqs \in Ids'
      BY <2>1 DEF Ids
    <2>3. ControlTypes'
      BY <1>0, <1>4 DEF Generate, Goto, ControlTypes
    <2>5. CountTypes'
      BY <1>0, <1>4, <2>1 DEF Generate, CountTypes, countVars
    <2>4. IdTypes'
      BY <1>0, <1>4, <2>2 DEF Generate, IdTypes
    <2> QED
      BY <2>3, <2>4, <2>5
  <1>5. ASSUME NEW w \in Workers, Fini(w) PROVE ControlTypes' /\ CountTypes' /\ IdTypes'
    <2>1. reqInfo[w] \in Ids
      BY <1>0, <1>5 DEF Fini, Goto, CoreInv, ServeInv, Serving, IdTypes
    <2>2. Ids' = Ids
      BY <1>5 DEF Fini, Ids
    <2>3. IdTypes'
      BY <1>0, <1>5, <2>1, <2>2 DEF Fini, IdTypes
    <2>4. ControlTypes' /\ CountTypes'
      BY <1>0, <1>5 DEF Fini, Goto, ControlTypes, CountTypes, countVars
    <2> QED
      BY <2>3, <2>4
  <1>6. ASSUME NEW w \in Workers, NEW max, CountUpTo(w, max)
        PROVE  ControlTypes' /\ CountTypes' /\ IdTypes'
    <2>1. /\ UNCHANGED <<waiting, dist, startedReqs, inFlightReqs, reqInfo, numReqsProcessed>>
          /\ finishedReqs' = finishedReqs + 1
          /\ pc' = pc \/ pc' = [pc EXCEPT ![w] = "processed"]
          /\ process' = process \/ process' \in {"aborted", "exit 0"}
          /\ status' = status \/ status' = "ROI"
          /\ samples' = samples \/ samples' = {}
          /\ lats' = lats \/ lats' = samples
      BY <1>6, CountBranches DEF Goto
    <2>2. Ids' = Ids
      BY <2>1 DEF Ids
    <2>3. ControlTypes'
      BY <1>0, <2>1 DEF ControlTypes
    <2>5. CountTypes'
      <3>1. UNCHANGED <<startedReqs, numReqsProcessed>> /\ finishedReqs' = finishedReqs + 1
        BY <2>1
      <3> QED
        BY <1>0, <3>1 DEF CountTypes
    <2>4. IdTypes'
      BY <1>0, <2>1, <2>2 DEF IdTypes
    <2> QED
      BY <2>3, <2>4, <2>5
  <1>7. ASSUME NEW w \in Workers, Processed(w) PROVE ControlTypes' /\ CountTypes' /\ IdTypes'
    <2>1. ControlTypes' /\ IdTypes'
      BY <1>0, <1>1, <1>7 DEF Processed, Goto, ControlTypes, clientVars
    <2>2. CountTypes'
      BY <1>0, <1>7 DEF Processed, CountTypes, clientVars
    <2> QED
      BY <2>1, <2>2
  <1>8. CASE Finish
    <2>1. Ids' = Ids
      BY <1>8 DEF Finish, Ids
    <2>2. IdTypes'
      BY <1>0, <1>8, <2>1 DEF Finish, IdTypes
    <2>3. ControlTypes'
      BY <1>0, <1>8 DEF Finish, ControlTypes
    <2>4. CountTypes'
      BY <1>0, <1>8 DEF Finish, CountTypes, countVars
    <2> QED
      BY <2>2, <2>3, <2>4
  <1>9. CASE Ends
    <2>1. ControlTypes'
      BY <1>0, <1>9 DEF Ends, ControlTypes, clientVars
    <2> QED
      BY <1>0, <1>1, <1>9, <2>1 DEF Ends, CountTypes, clientVars, countVars
  <1>10. CASE UNCHANGED vars
    <2>1. ControlTypes'
      BY <1>0, <1>10 DEF vars, ControlTypes, clientVars
    <2> QED
      BY <1>0, <1>1, <1>10, <2>1 DEF vars, CountTypes, clientVars, countVars
  <1>11. ASSUME NEW w \in Workers, CoreStep(w) PROVE ControlTypes' /\ CountTypes' /\ IdTypes'
    BY <1>2, <1>3, <1>4, <1>5, <1>6, <1>7, <1>11 DEF CoreStep
  <1> QED
    BY <1>8, <1>9, <1>10, <1>11 DEF CoreNext

\* The steps that serve nobody move one worker between points outside the requests,
\* and start the warm-up at most.
LEMMA MovesAre ==
  ASSUME NEW w \in Workers, Moves(w)
  PROVE  /\ UNCHANGED <<process, startedReqs, inFlightReqs, samples, lats, reqInfo, countVars>>
         /\ \E from, to : /\ Goto(w, from, to)
                          /\ <<from, to>> \in {<<"run", "runWait">>, <<"runWait", "check">>,
                               <<"startReq", "wait1">>, <<"startReq", "generate">>,
                               <<"wait1", "setUp">>, <<"setUp", "wait2">>, <<"wait2", "generate">>}
  <1>1. ASSUME NEW from, NEW to, Leave(w, from, to)
        PROVE  /\ UNCHANGED <<process, startedReqs, inFlightReqs, samples, lats, reqInfo, countVars>>
               /\ Goto(w, from, to)
    BY <1>1 DEF Leave, clientVars
  <1>2. CASE Run(w)
    BY <1>2 DEF Run, clientVars
  <1>3. CASE TestStatus(w)
    BY <1>3 DEF TestStatus, clientVars
  <1>4. CASE SetUp(w)
    BY <1>4 DEF SetUp
  <1> QED
    BY <1>1, <1>2, <1>3, <1>4 DEF Moves

\* The phases follow each other, and the assertion of _startRoi holds.
LEMMA PhaseStep ==
  ASSUME CoreInv, [CoreNext]_vars
  PROVE  PhaseInv'
  <1>0. /\ TypeOK /\ PhaseInv
    BY DEF CoreInv
  <1>1. ASSUME NEW w \in Workers, Moves(w) PROVE PhaseInv'
    <2>1. ASSUME NEW from, NEW to, Leave(w, from, to),
                 <<from, to>> \in {<<"runWait", "check">>, <<"wait1", "setUp">>, <<"wait2", "generate">>}
          PROVE  PhaseInv'
      <3>1. UNCHANGED <<process, dist, status, finishedReqs>> /\ Goto(w, from, to)
        BY <2>1 DEF Leave, clientVars, countVars
      <3> QED
        BY <1>0, <2>1, <3>1, PcMoves DEF PhaseInv
    <2>2. CASE Run(w)
      <3>1. UNCHANGED <<process, dist, status, finishedReqs>> /\ Goto(w, "run", "runWait")
        BY <2>2 DEF Run, clientVars, countVars
      <3> QED
        BY <1>0, <3>1, PcMoves DEF PhaseInv
    <2>3. CASE TestStatus(w)
      <3>1. UNCHANGED <<process, dist, status, finishedReqs>>
        BY <2>3 DEF TestStatus, clientVars, countVars
      <3>2. Goto(w, "startReq", "wait1") \/ (status # "INIT" /\ Goto(w, "startReq", "generate"))
        BY <2>3 DEF TestStatus
      <3> QED
        BY <1>0, <3>1, <3>2, PcMoves DEF PhaseInv
    <2>4. CASE SetUp(w)
      <3>1. UNCHANGED <<process, finishedReqs>> /\ Goto(w, "setUp", "wait2")
        BY <2>4 DEF SetUp, countVars
      <3>2. (~dist /\ dist' = TRUE /\ status' = "WARMUP") \/ (dist /\ UNCHANGED <<dist, status>>)
        BY <2>4 DEF SetUp
      <3> QED
        BY <1>0, <3>1, <3>2, PcMoves DEF PhaseInv
    <2> QED
      BY <1>1, <2>1, <2>2, <2>3, <2>4 DEF Moves
  <1>2. ASSUME NEW w \in Workers, CheckQuota(w) \/ Generate(w) \/ Fini(w) \/ Processed(w)
        PROVE  PhaseInv'
    <2>1. UNCHANGED <<process, dist, status, finishedReqs>>
      BY <1>2 DEF CheckQuota, Generate, Fini, Processed, clientVars, countVars
    <2>2. \E from, to : /\ Goto(w, from, to)
                        /\ <<from, to>> \in {<<"check", "startReq">>, <<"check", "done">>,
                             <<"generate", "serve">>, <<"serve", "count">>, <<"processed", "check">>}
      BY <1>2 DEF CheckQuota, Generate, Fini, Processed
    <2> QED
      BY <1>0, <2>1, <2>2, PcMoves DEF PhaseInv
  <1>3. ASSUME NEW w \in Workers, NEW max, CountUpTo(w, max) PROVE PhaseInv'
    <2>1. /\ UNCHANGED dist /\ finishedReqs' = finishedReqs + 1 /\ pc[w] = "count"
          /\ finishedReqs \in Nat /\ warmupReqs \in Nat
          /\ status \in {"WARMUP", "ROI"}
      BY <1>0, <1>3, CountBranches, IntegratedAssumption
         DEF TypeOK, PhaseInv, IntegratedAssumption
    <2>2. UNCHANGED pc \/ Goto(w, "count", "processed")
      BY <1>3, CountBranches
    <2>3. /\ status' = "ROI" \/ status' = status
          /\ status' # status => finishedReqs + 1 = warmupReqs
      BY <1>3, <2>1, CountBranches
    <2>4. process' # "aborted"
      <3>1. status = "ROI" => finishedReqs + 1 # warmupReqs
        BY <1>0, <2>1 DEF PhaseInv
      <3> QED
        BY <1>0, <1>3, <2>1, <3>1, CountBranches DEF PhaseInv
    <2>5. status' = "ROI" => finishedReqs' >= warmupReqs
      BY <1>0, <2>1, <2>3 DEF PhaseInv
    <2>6. \A v \in Workers : pc'[v] \in {"wait2", "generate", "serve", "count", "processed"}
                               => status' # "INIT"
      BY <1>0, <2>1, <2>3
    <2>7. dist' <=> status' # "INIT"
      BY <1>0, <2>1, <2>3 DEF PhaseInv
    <2> QED
      BY <2>4, <2>5, <2>6, <2>7 DEF PhaseInv
  <1>4. CASE Finish \/ Ends \/ UNCHANGED vars
    <2>1. UNCHANGED <<pc, dist, status, finishedReqs>> /\ (process' = process \/ process' # "aborted")
      BY <1>4 DEF Finish, Ends, vars, clientVars, countVars
    <2> QED
      BY <1>0, <2>1 DEF PhaseInv
  <1> QED
    BY <1>1, <1>2, <1>3, <1>4 DEF CoreNext, CoreStep

\* A step outside recvReq and finiReq leaves the requests that are served alone.
LEMMA ServeKept ==
  ASSUME ServeInv, Serving' = Serving, UNCHANGED <<inFlightReqs, reqInfo>>
  PROVE  ServeInv'
  BY DEF ServeInv

\* No two workers serve the same request.
LEMMA ServeStep ==
  ASSUME CoreInv, [CoreNext]_vars
  PROVE  ServeInv'
  <1>0. TypeOK /\ ServeInv
    BY DEF CoreInv
  <1>1. ASSUME NEW w \in Workers, Moves(w) \/ CheckQuota(w) \/ Processed(w) PROVE ServeInv'
    <2>1. \E from, to : Goto(w, from, to) /\ from # "serve" /\ to # "serve"
      BY <1>1, MovesAre DEF CheckQuota, Processed
    <2>2. Serving' = Serving
      BY <1>0, <2>1, PcMoves DEF Serving
    <2>3. UNCHANGED <<inFlightReqs, reqInfo>>
      BY <1>1, MovesAre DEF CheckQuota, Processed, clientVars
    <2> QED
      BY <1>0, <2>2, <2>3, ServeKept
  <1>2. ASSUME NEW w \in Workers, Generate(w) PROVE ServeInv'
    <2>1. Serving' = Serving \cup {w} /\ w \notin Serving
      BY <1>0, <1>2, PcMoves DEF Generate, Serving
    <2>2. /\ \A v \in Serving : reqInfo'[v] = reqInfo[v]
          /\ reqInfo'[w] = startedReqs
          /\ inFlightReqs' = inFlightReqs \cup {startedReqs}
      <3>1. reqInfo \in [Workers -> Ids \cup {None}]
        BY <1>0 DEF TypeOK
      <3>2. /\ reqInfo' = [reqInfo EXCEPT ![w] = startedReqs]
            /\ inFlightReqs' = inFlightReqs \cup {startedReqs}
        BY <1>2 DEF Generate
      <3>3. \A v \in Serving : v \in Workers /\ v # w
        BY <2>1 DEF Serving
      <3> QED
        BY <3>1, <3>2, <3>3
    <2>3. startedReqs \notin inFlightReqs
      <3>1. inFlightReqs \subseteq Ids /\ startedReqs \in Nat
        BY <1>0 DEF TypeOK
      <3>2. startedReqs \notin Ids
        BY <3>1 DEF Ids
      <3> QED
        BY <3>1, <3>2
    <2>4. inFlightReqs' = {reqInfo'[v] : v \in Serving'}
      <3>1. inFlightReqs = {reqInfo[v] : v \in Serving}
        BY <1>0 DEF ServeInv
      <3>2. {reqInfo'[v] : v \in Serving'} = {reqInfo[v] : v \in Serving} \cup {startedReqs}
        BY <2>1, <2>2
      <3> QED
        BY <2>2, <3>1, <3>2
    <2>5. \A u, v \in Serving' : reqInfo'[u] = reqInfo'[v] => u = v
      <3>1. \A v \in Serving : reqInfo[v] # startedReqs
        BY <1>0, <2>3 DEF ServeInv
      <3> QED
        BY <1>0, <2>1, <2>2, <3>1 DEF ServeInv
    <2> QED
      BY <2>4, <2>5 DEF ServeInv
  <1>3. ASSUME NEW w \in Workers, Fini(w) PROVE ServeInv'
    <2>1. Serving' = Serving \ {w} /\ w \in Serving
      BY <1>0, <1>3, PcMoves DEF Fini, Serving
    <2>2. inFlightReqs' = inFlightReqs \ {reqInfo[w]} /\ UNCHANGED reqInfo
      BY <1>3 DEF Fini
    <2> QED
      BY <1>0, <2>1, <2>2 DEF ServeInv
  <1>4. ASSUME NEW w \in Workers, NEW max, CountUpTo(w, max) PROVE ServeInv'
    <2>1. UNCHANGED pc \/ Goto(w, "count", "processed")
      BY <1>4, CountBranches
    <2>2. Serving' = Serving
      BY <1>0, <2>1, PcMoves DEF Serving
    <2>3. UNCHANGED <<inFlightReqs, reqInfo>>
      BY <1>4, CountBranches
    <2> QED
      BY <1>0, <2>2, <2>3, ServeKept
  <1>5. CASE Finish \/ Ends \/ UNCHANGED vars
    <2>1. UNCHANGED <<pc, inFlightReqs, reqInfo>>
      BY <1>5 DEF Finish, Ends, vars, clientVars
    <2> QED
      BY <1>0, <2>1, ServeKept DEF Serving
  <1> QED
    BY <1>1, <1>2, <1>3, <1>4, <1>5 DEF CoreNext, CoreStep

\* The quota is reserved before a request is started.
LEMMA QuotaStep ==
  ASSUME CoreInv, [CoreNext]_vars
  PROVE  QuotaInv'
  <1>0. /\ TypeOK /\ QuotaInv /\ startedReqs \in Nat /\ numReqsProcessed \in Nat
        /\ NumReqsToProcess \in Nat /\ numServers \in Nat
        /\ Busy \subseteq Workers /\ InBody \subseteq Workers
        /\ Cardinality(Busy) \in Nat /\ Cardinality(InBody) \in Nat
    BY CountWorkers, WorkersFinite, IntegratedAssumption
       DEF CoreInv, TypeOK, Busy, InBody, IntegratedAssumption
  <1>1. ASSUME Busy' = Busy, InBody' = InBody, UNCHANGED <<startedReqs, numReqsProcessed>>
        PROVE  QuotaInv'
    BY <1>0, <1>1 DEF QuotaInv
  <1>2. ASSUME NEW w \in Workers, Moves(w) PROVE QuotaInv'
    <2>1. Busy' = Busy /\ InBody' = InBody
      BY <1>0, <1>2, MovesAre, PcMoves DEF Busy, InBody
    <2> QED
      BY <1>1, <1>2, <2>1, MovesAre DEF countVars
  <1>3. ASSUME NEW w \in Workers, CheckQuota(w) PROVE QuotaInv'
    <2>1. UNCHANGED <<startedReqs, numReqsProcessed>>
      BY <1>3 DEF CheckQuota, clientVars, countVars
    <2>2. CASE QuotaOpen /\ Goto(w, "check", "startReq")
      <3>1. w \notin InBody /\ InBody' = InBody \cup {w} /\ Busy' = Busy
        BY <1>0, <2>2, PcMoves DEF Busy, InBody
      <3>2. Cardinality(InBody') = Cardinality(InBody) + 1 /\ Cardinality(InBody) < numServers
        BY <1>0, <3>1, CountWorkers
      <3> QED
        BY <1>0, <2>1, <2>2, <3>1, <3>2 DEF QuotaInv, QuotaOpen
    <2>3. CASE Goto(w, "check", "done")
      <3>1. InBody' = InBody /\ Busy' = Busy
        BY <1>0, <2>3, PcMoves DEF Busy, InBody
      <3> QED
        BY <1>1, <2>1, <3>1
    <2> QED
      BY <1>3, <2>2, <2>3 DEF CheckQuota
  <1>4. ASSUME NEW w \in Workers, Generate(w) PROVE QuotaInv'
    <2>1. InBody' = InBody /\ Busy' = Busy \cup {w} /\ w \notin Busy
      BY <1>0, <1>4, PcMoves DEF Generate, Busy, InBody
    <2>2. startedReqs' = startedReqs + 1 /\ UNCHANGED numReqsProcessed
      BY <1>4 DEF Generate, NextStarted, countVars
    <2>3. Cardinality(Busy') = Cardinality(Busy) + 1
      BY <1>0, <2>1, CountWorkers
    <2> QED
      BY <1>0, <2>1, <2>2, <2>3 DEF QuotaInv
  <1>5. ASSUME NEW w \in Workers, Fini(w) PROVE QuotaInv'
    <2>1. InBody' = InBody /\ Busy' = Busy
      BY <1>0, <1>5, PcMoves DEF Fini, Busy, InBody
    <2> QED
      BY <1>1, <1>5, <2>1 DEF Fini, countVars
  <1>6. ASSUME NEW w \in Workers, NEW max, CountUpTo(w, max) PROVE QuotaInv'
    <2>1. UNCHANGED pc \/ Goto(w, "count", "processed")
      BY <1>6, CountBranches
    <2>2. InBody' = InBody /\ Busy' = Busy
      BY <1>0, <2>1, PcMoves DEF Busy, InBody
    <2> QED
      BY <1>1, <1>6, <2>2, CountBranches
  <1>7. ASSUME NEW w \in Workers, Processed(w) PROVE QuotaInv'
    <2>1. InBody' = InBody \ {w} /\ Busy' = Busy \ {w} /\ w \in Busy /\ w \in InBody
      BY <1>0, <1>7, PcMoves DEF Processed, Busy, InBody
    <2>2. numReqsProcessed' = numReqsProcessed + 1 /\ UNCHANGED startedReqs
      BY <1>7 DEF Processed, clientVars
    <2>3. Cardinality(Busy') = Cardinality(Busy) - 1
          /\ Cardinality(InBody') = Cardinality(InBody) - 1
      BY <1>0, <2>1, CountWorkers
    <2> QED
      BY <1>0, <2>2, <2>3 DEF QuotaInv
  <1>8. CASE Finish \/ Ends \/ UNCHANGED vars
    <2>1. UNCHANGED <<pc, startedReqs, numReqsProcessed>>
      BY <1>8 DEF Finish, Ends, vars, clientVars, countVars
    <2> QED
      BY <1>1, <2>1 DEF Busy, InBody
  <1> QED
    BY <1>2, <1>3, <1>4, <1>5, <1>6, <1>7, <1>8 DEF CoreNext, CoreStep

\* Every step of either program keeps the invariant.
LEMMA CoreInvStep == CoreInv /\ [CoreNext]_vars => CoreInv'
  BY CoreTypes, PhaseStep, ServeStep, QuotaStep DEF CoreInv

\* The invariant gives what the runs check.
LEMMA CoreImplies == CoreInv => WorkersInv
  <1> SUFFICES ASSUME CoreInv PROVE WorkersInv
    OBVIOUS
  <1>0. TypeOK /\ ServeInv /\ QuotaInv /\ PhaseInv
    BY DEF CoreInv
  <1>1. InFlightServed
    <2> DEFINE f == [w \in Serving |-> reqInfo[w]]
    <2>1. f \in Bijection(Serving, inFlightReqs)
      BY <1>0 DEF ServeInv, Bijection, Injection, Surjection, IsInjective
    <2>2. IsFiniteSet(Serving)
      BY CountWorkers DEF Serving
    <2>3. Cardinality(inFlightReqs) = Cardinality(Serving)
      BY <2>1, <2>2, FS_Bijection DEF ExistsBijection
    <2> QED
      BY <1>0, <2>3 DEF ServeInv, InFlightServed
  <1>2. QuotaKept
    <2>1. Busy \subseteq InBody /\ InBody \subseteq Workers
      BY DEF Busy, InBody
    <2>2. IsFiniteSet(InBody) /\ Cardinality(InBody) \in Nat /\ Cardinality(Busy) \in Nat
      BY <2>1, CountWorkers DEF Busy
    <2>3. Cardinality(Busy) <= Cardinality(InBody)
      BY <2>1, <2>2, FS_Subset
    <2>4. startedReqs \in Nat /\ numReqsProcessed \in Nat /\ NumReqsToProcess \in Nat
      BY <1>0, IntegratedAssumption DEF TypeOK, IntegratedAssumption
    <2> QED
      BY <1>0, <2>2, <2>3, <2>4, WorkersFinite DEF QuotaInv, QuotaKept
  <1>3. RoiOnce
    BY <1>0 DEF PhaseInv, RoiOnce
  <1> QED
    BY <1>0, <1>1, <1>2, <1>3 DEF WorkersInv

\* The invariant holds of every reachable state of xapian-pure.
LEMMA PureCore == Spec => []CoreInv
  <1>1. CoreInv /\ [Next]_vars => CoreInv'
    BY PureIsCore, CoreInvStep
  <1> QED
    BY <1>1, CoreInit, PTL DEF Spec

\* So it does of xapian-mod-pure.
LEMMA InstrumentedCore == InstrumentedSpec => []CoreInv
  <1>1. CoreInv /\ [InstrumentedNext]_instrumentedVars => CoreInv'
    BY InstrumentedIsCore, CoreInvStep
  <1>2. InstrumentedInit => CoreInv
    BY CoreInit DEF InstrumentedInit
  <1> QED
    BY <1>1, <1>2, PTL DEF InstrumentedSpec

\* In xapian-pure the requests in flight are those that workers serve, one each; the
\* quota is passed by less than the number of workers; and the phase ROI begins once,
\* so the assertion of _startRoi holds.
THEOREM PureWorkers == Spec => []WorkersInv
  BY PureCore, CoreImplies, PTL

\* The same of xapian-mod-pure, whatever its schedule.
THEOREM InstrumentedWorkers == InstrumentedSpec => []WorkersInv
  BY InstrumentedCore, CoreImplies, PTL
-----------------------------------------------------------------------------
(* The rate of the arrivals.                                               *)

\* The steps that neither start, finish nor count a request.
Quiet ==
  /\ UNCHANGED <<rateVars, lineVars>>
  /\ \/ Finish \/ Ends \/ UNCHANGED vars
     \/ \E w \in Workers : Moves(w) \/ CheckQuota(w) \/ Processed(w)

\* Every step of xapian-mod-pure is one of these, or one of the three.
LEMMA InstrumentedSteps ==
  ASSUME [InstrumentedNext]_instrumentedVars
  PROVE  Quiet \/ \E w \in Workers : IGenerate(w) \/ IFiniReq(w) \/ ICount(w)
  <1>1. ASSUME NEW w \in Workers, IStep(w), ~IGenerate(w), ~IFiniReq(w), ~ICount(w)
        PROVE  Quiet
    <2>1. CASE ScheduleOver(w)
      BY <2>1 DEF ScheduleOver, Quiet, Ends
    <2>2. CASE ~ScheduleOver(w)
      BY <1>1, <2>2 DEF IStep, Unchanged, Quiet, Moves
    <2> QED
      BY <2>1, <2>2
  <1>2. Unchanged(Killed) \/ QueueRace => Quiet
    BY DEF Unchanged, Killed, QueueRace, Ends, Quiet
  <1>3. UNCHANGED instrumentedVars => Quiet
    BY DEF instrumentedVars, Quiet
  <1>4. Unchanged(Finish) => Quiet
    BY DEF Unchanged, Quiet
  <1> QED
    BY <1>1, <1>2, <1>3, <1>4 DEF InstrumentedNext

\* The rates of the schedule.
Rates == {Schedule[i] : i \in DOMAIN Schedule}

\* Once the rate looked up is one of the schedule, the arrivals have it.
ArrivalsInv == Uninitialized \cap Rates = {} /\ current_qps \in Rates => distRate = current_qps

\* Every lookup makes a new arrival process when the rate has changed.
LEMMA ArrivalsStep ==
  ASSUME ArrivalsInv, [InstrumentedNext]_instrumentedVars
  PROVE  ArrivalsInv'
  <1>1. CASE Lookup
    BY <1>1 DEF Lookup, ArrivalRate, ArrivalsInv
  <1>2. CASE UNCHANGED rateVars
    BY <1>2 DEF rateVars, ArrivalsInv
  <1>3. Lookup \/ UNCHANGED rateVars
    BY InstrumentedSteps DEF Quiet, IGenerate, IFiniReq, ICount
  <1> QED
    BY <1>1, <1>2, <1>3

\* The arrivals have the rate that startReq looked up, when the uninitialized member
\* current_qps does not hold a rate of the schedule at the start.
THEOREM ArrivalsHaveTheRate == InstrumentedSpec => []ArrivalsFollow
  <1>1. InstrumentedInit => ArrivalsInv
    BY DEF InstrumentedInit, ArrivalsInv
  <1>2. ArrivalsInv => ArrivalsFollow
    BY DEF ArrivalsInv, ArrivalsFollow, LookedUp, Rates
  <1> QED
    BY <1>1, <1>2, ArrivalsStep, PTL DEF InstrumentedSpec
-----------------------------------------------------------------------------
(* The lines of quantiles.                                                 *)

\* The requests whose latency is recorded, and the workers between finiReq and the count.
Recorded == samples \cup UNION {printed[i] : i \in DOMAIN printed}
AtCount == {w \in Workers : pc[w] = "count"}

\* What a quiet step keeps.
LEMMA QuietKeeps ==
  ASSUME CoreInv, Quiet
  PROVE  /\ UNCHANGED <<samples, printed, inFlightReqs, startedReqs, finishedReqs, counter>>
         /\ Serving' = Serving /\ AtCount' = AtCount /\ Ids' = Ids /\ Recorded' = Recorded
         /\ status' = "ROI" <=> status = "ROI"
  <1>0. TypeOK /\ PhaseInv
    BY DEF CoreInv
  <1>1. UNCHANGED <<samples, printed, inFlightReqs, startedReqs, finishedReqs, counter>>
    BY MovesAre DEF Quiet, Finish, Ends, CheckQuota, Processed, vars, lineVars, clientVars, countVars
  <1>2. Ids' = Ids /\ Recorded' = Recorded
    BY <1>1 DEF Ids, Recorded
  <1>3. Serving' = Serving /\ AtCount' = AtCount
    <2>1. ASSUME NEW w \in Workers, Moves(w) \/ CheckQuota(w) \/ Processed(w)
          PROVE  Serving' = Serving /\ AtCount' = AtCount
      <3>1. \E from, to : /\ Goto(w, from, to)
                         /\ from \notin {"serve", "count"} /\ to \notin {"serve", "count"}
        BY <2>1, MovesAre DEF CheckQuota, Processed
      <3> QED
        BY <1>0, <3>1, PcMoves DEF Serving, AtCount
    <2>2. CASE UNCHANGED pc
      BY <2>2 DEF Serving, AtCount
    <2>3. UNCHANGED pc \/ \E w \in Workers : Moves(w) \/ CheckQuota(w) \/ Processed(w)
      BY DEF Quiet, Finish, Ends, vars
    <2> QED
      BY <2>1, <2>2, <2>3
  <1>4. status' = "ROI" <=> status = "ROI"
    <2>1. UNCHANGED status \/ (~dist /\ status' = "WARMUP")
      BY DEF Quiet, Finish, Ends, Moves, Run, Leave, TestStatus, SetUp, CheckQuota, Processed,
             vars, clientVars
    <2> QED
      BY <1>0, <2>1 DEF PhaseInv
  <1> QED
    BY <1>1, <1>2, <1>3, <1>4

\* The lines and what is recorded since are disjoint, and none of it is in flight.
LineInv ==
  /\ printed \in Seq(SUBSET Nat)
  /\ \A i, j \in DOMAIN printed : i # j => printed[i] \cap printed[j] = {}
  /\ \A i \in DOMAIN printed : printed[i] \cap samples = {}
  /\ Recorded \subseteq Ids \ inFlightReqs
  /\ status # "ROI" => Recorded = {}
  /\ counter = Cardinality(samples)

\* The request that finiReq takes out of flight is recorded nowhere yet.
LEMMA FiniTakes ==
  ASSUME CoreInv, NEW w \in Workers, Goto(w, "serve", "count")
  PROVE  /\ reqInfo[w] \in inFlightReqs /\ reqInfo[w] \in Ids /\ Ids \subseteq Nat
         /\ w \in Serving /\ w \notin AtCount
         /\ Serving' = Serving \ {w} /\ AtCount' = AtCount \cup {w}
  <1>0. TypeOK /\ ServeInv
    BY DEF CoreInv
  <1>1. /\ w \in Serving /\ w \notin AtCount
        /\ Serving' = Serving \ {w} /\ AtCount' = AtCount \cup {w}
    BY <1>0, PcMoves DEF Serving, AtCount
  <1>2. reqInfo[w] \in inFlightReqs /\ inFlightReqs \subseteq Ids
    BY <1>0, <1>1 DEF ServeInv, TypeOK
  <1>3. Ids \subseteq Nat
    <2>1. startedReqs \in Nat
      BY <1>0 DEF TypeOK
    <2> QED
      BY <2>1 DEF Ids
  <1> QED
    BY <1>1, <1>2, <1>3

\* finiReq of the instrumented harness records one request, in a line or in samples.
LEMMA RecordsOne ==
  ASSUME CoreInv, LineInv, NEW w \in Workers, IFiniReq(w)
  PROVE  /\ printed' \in Seq(SUBSET Nat)
         /\ \A i, j \in DOMAIN printed' : i # j => printed'[i] \cap printed'[j] = {}
         /\ \A i \in DOMAIN printed' : printed'[i] \cap samples' = {}
         /\ Recorded' = Recorded \cup (IF status = "ROI" THEN {reqInfo[w]} ELSE {})
  <1> DEFINE id == reqInfo[w]
  <1>1. /\ id \in inFlightReqs /\ id \in Ids /\ Ids \subseteq Nat /\ id \notin Recorded
        /\ Recorded \subseteq Nat
    BY FiniTakes DEF IFiniReq, LineInv
  <1>2. printed \in Seq(SUBSET Nat) /\ samples \subseteq Recorded
        /\ \A i \in DOMAIN printed : id \notin printed[i]
    BY <1>1 DEF LineInv, Recorded
  <1> HIDE DEF id
  <1>3. CASE UNCHANGED <<samples, printed>> /\ status # "ROI"
    BY <1>3 DEF LineInv, Recorded
  <1>4. CASE samples' = samples \cup {id} /\ UNCHANGED printed /\ status = "ROI"
    BY <1>2, <1>4 DEF LineInv, Recorded, id
  <1>5. CASE printed' = Append(printed, samples \cup {id}) /\ samples' = {} /\ status = "ROI"
    <2> DEFINE n == Len(printed) + 1
               line == samples \cup {id}
    <2>1. line \in SUBSET Nat
      BY <1>1, <1>2
    <2>2. /\ printed' \in Seq(SUBSET Nat) /\ DOMAIN printed' = DOMAIN printed \cup {n}
          /\ printed'[n] = line /\ n \notin DOMAIN printed
          /\ \A i \in DOMAIN printed : printed'[i] = printed[i]
      BY <1>2, <1>5, <2>1
    <2> HIDE DEF n
    <2>3. \A i \in DOMAIN printed : printed[i] \cap line = {}
      BY <1>2 DEF LineInv
    <2>4. \A i, j \in DOMAIN printed' : i # j => printed'[i] \cap printed'[j] = {}
      BY <2>2, <2>3 DEF LineInv
    <2>5. Recorded' = Recorded \cup {id}
      BY <1>5, <2>2 DEF Recorded
    <2> QED
      BY <1>5, <2>2, <2>4, <2>5 DEF id
  <1>6. \/ UNCHANGED <<samples, printed>> /\ status # "ROI"
        \/ samples' = samples \cup {id} /\ UNCHANGED printed /\ status = "ROI"
        \/ printed' = Append(printed, samples \cup {id}) /\ samples' = {} /\ status = "ROI"
    BY DEF IFiniReq, AfterLine, lineVars, id
  <1> QED
    BY <1>3, <1>4, <1>5, <1>6

\* The samples can be counted.
LEMMA SamplesFinite ==
  ASSUME TypeOK
  PROVE  /\ IsFiniteSet(Ids) /\ Ids \subseteq Nat
         /\ IsFiniteSet(samples) /\ Cardinality(samples) \in Nat
  <1>1. startedReqs \in Nat /\ samples \subseteq Ids
    BY DEF TypeOK
  <1>2. IsFiniteSet(Ids)
    BY <1>1, FS_Interval DEF Ids
  <1>3. Ids \subseteq Nat
    BY <1>1 DEF Ids
  <1> QED
    BY <1>1, <1>2, <1>3, FS_Subset, FS_CardinalityType

\* ICount begins a phase ROI with nothing recorded, or leaves what is recorded alone.
LEMMA CountRecords ==
  ASSUME CoreInv, CoreInv', NEW w \in Workers, ICount(w)
  PROVE  /\ UNCHANGED <<printed, inFlightReqs, startedReqs>>
         /\ \/ /\ status # "ROI" /\ status' = "ROI" /\ samples' = {} /\ counter' = 0
               /\ finishedReqs + 1 = warmupReqs
            \/ UNCHANGED <<status, samples, counter>> /\ finishedReqs + 1 # warmupReqs
  <1>1. CountUpTo(w, 2^30) /\ UNCHANGED printed /\ process' # "aborted"
        /\ counter' = IF EndsWarmup(finishedReqs') THEN 0 ELSE counter
    BY DEF ICount, CoreInv, PhaseInv
  <1>2. UNCHANGED <<inFlightReqs, startedReqs>> /\ finishedReqs' = finishedReqs + 1
    BY <1>1, CountBranches
  <1>3. CASE finishedReqs + 1 = warmupReqs
    <2>1. status = "WARMUP" /\ status' = "ROI" /\ samples' = {}
      <3>1. \/ status = "WARMUP" /\ status' = "ROI" /\ samples' = {}
            \/ process' = "aborted"
        BY <1>1, <1>3, CountBranches
      <3> QED
        BY <1>1, <3>1
    <2>2. counter' = 0
      BY <1>1, <1>2, <1>3 DEF EndsWarmup
    <2> QED
      BY <1>1, <1>2, <1>3, <2>1, <2>2
  <1>4. CASE finishedReqs + 1 # warmupReqs
    <2>1. UNCHANGED <<status, samples>>
      BY <1>1, <1>4, CountBranches
    <2>2. UNCHANGED counter
      BY <1>1, <1>2, <1>4 DEF EndsWarmup
    <2> QED
      BY <1>1, <1>2, <1>4, <2>1, <2>2
  <1> QED
    BY <1>3, <1>4

\* Every step of xapian-mod-pure keeps the invariant of its lines.
LEMMA LineStep ==
  ASSUME CoreInv, CoreInv', LineInv, [InstrumentedNext]_instrumentedVars
  PROVE  LineInv'
  <1>1. CASE Quiet
    BY <1>1, QuietKeeps DEF LineInv
  <1>2. ASSUME NEW w \in Workers, IGenerate(w) PROVE LineInv'
    <2>1. /\ UNCHANGED <<samples, printed, counter, status>>
          /\ inFlightReqs' = inFlightReqs \cup {startedReqs} /\ startedReqs' = startedReqs + 1
      BY <1>2 DEF IGenerate, Generate, NextStarted, lineVars
    <2>2. startedReqs \in Nat
      BY DEF CoreInv, TypeOK
    <2>3. Ids \subseteq Ids' /\ startedReqs \notin Ids
      BY <2>1, <2>2 DEF Ids
    <2>4. Recorded' = Recorded
      BY <2>1 DEF Recorded
    <2>5. Recorded' \subseteq Ids' \ inFlightReqs'
      BY <2>1, <2>3, <2>4 DEF LineInv
    <2> QED
      BY <2>1, <2>4, <2>5 DEF LineInv
  <1>3. ASSUME NEW w \in Workers, IFiniReq(w) PROVE LineInv'
    <2>1. /\ UNCHANGED <<status, startedReqs>> /\ inFlightReqs' = inFlightReqs \ {reqInfo[w]}
          /\ Goto(w, "serve", "count")
      BY <1>3 DEF IFiniReq
    <2>2. Ids' = Ids
      BY <2>1 DEF Ids
    <2>3. reqInfo[w] \in Ids /\ reqInfo[w] \in inFlightReqs
      BY <2>1, FiniTakes
    <2>4. Recorded' \subseteq Ids' \ inFlightReqs'
      BY <1>3, <2>1, <2>2, <2>3, RecordsOne DEF LineInv
    <2>5. status' # "ROI" => Recorded' = {}
      BY <1>3, <2>1, RecordsOne DEF LineInv
    <2>6. counter' = Cardinality(samples')
      <3>1. reqInfo[w] \notin samples
        BY <2>3 DEF LineInv, Recorded
      <3>2. IsFiniteSet(samples)
        BY SamplesFinite DEF CoreInv
      <3>3. Cardinality(samples \cup {reqInfo[w]}) = counter + 1
        BY <3>1, <3>2, FS_AddElement DEF LineInv
      <3>4. \/ UNCHANGED <<samples, counter>>
            \/ samples' = samples \cup {reqInfo[w]} /\ counter' = counter + 1
            \/ samples' = {} /\ counter' = 0
        BY <1>3 DEF IFiniReq, AfterLine, lineVars
      <3> QED
        BY <3>3, <3>4, FS_EmptySet DEF LineInv
    <2> QED
      BY <1>3, <2>4, <2>5, <2>6, RecordsOne DEF LineInv
  <1>4. ASSUME NEW w \in Workers, ICount(w) PROVE LineInv'
    <2>1. UNCHANGED <<printed, inFlightReqs, startedReqs>>
      BY <1>4, CountRecords
    <2>2. Ids' = Ids
      BY <2>1 DEF Ids
    <2>3. CASE UNCHANGED <<status, samples, counter>>
      BY <2>1, <2>2, <2>3 DEF LineInv, Recorded
    <2>4. CASE status # "ROI" /\ samples' = {} /\ counter' = 0
      <3>1. Recorded = {}
        BY <2>4 DEF LineInv
      <3>2. Recorded' = {}
        BY <2>1, <2>4, <3>1 DEF Recorded
      <3>3. counter' = Cardinality(samples')
        BY <2>4, FS_EmptySet
      <3>4. \A i \in DOMAIN printed' : printed'[i] \cap samples' = {}
        BY <2>4
      <3> QED
        BY <2>1, <3>2, <3>3, <3>4 DEF LineInv
    <2> QED
      BY <1>4, <2>3, <2>4, CountRecords
  <1> QED
    BY <1>1, <1>2, <1>3, <1>4, InstrumentedSteps

\* It holds of every reachable state.
LEMMA LinesHold == InstrumentedSpec => [](CoreInv /\ LineInv)
  <1>1. InstrumentedInit => CoreInv /\ LineInv
    <2> SUFFICES ASSUME InstrumentedInit PROVE CoreInv /\ LineInv
      OBVIOUS
    <2>1. CoreInv /\ samples = {} /\ printed = <<>> /\ counter = 0 /\ inFlightReqs = {}
      BY CoreInit DEF InstrumentedInit, Init
    <2>2. Recorded = {}
      BY <2>1 DEF Recorded
    <2> QED
      BY <2>1, <2>2, FS_EmptySet DEF LineInv
  <1>2. CoreInv /\ LineInv /\ [InstrumentedNext]_instrumentedVars => (CoreInv /\ LineInv)'
    BY LineStep, InstrumentedIsCore, CoreInvStep
  <1> QED
    BY <1>1, <1>2, PTL DEF InstrumentedSpec

\* No latency is printed twice, or printed and kept for lats.bin, and the counter
\* says how many wait for the next line.
THEOREM EachLatencyOnce == InstrumentedSpec => []LinesDisjoint
  <1>1. LineInv => LinesDisjoint
    BY DEF LineInv, LinesDisjoint
  <1> QED
    BY <1>1, LinesHold, PTL
-----------------------------------------------------------------------------
(* The comparison of the counter with the rate.                            *)

\* What is left of the schedule is a part of it that ends where it ends, and is not
\* empty unless the schedule is.
TimingInv ==
  /\ QPStiming \in Seq(Nat \ {0}) /\ Len(QPStiming) <= Len(Schedule)
  /\ \A i \in 1..Len(QPStiming) : QPStiming[i] = Schedule[Len(Schedule) - Len(QPStiming) + i]
  /\ Schedule # <<>> => QPStiming # <<>>

\* The assumption of NoLineMissed.
Ascending ==
  /\ \A i, j \in DOMAIN Schedule : i < j => Schedule[i] <= Schedule[j]
  /\ Schedule # <<>> /\ Schedule[1] >= numServers

\* In the phase ROI the counter is below the rate that was looked up in it; before the
\* first request of the phase, the requests that may still be recorded cannot bring the
\* counter to the number of workers.
Looked == current_qps = Head(QPStiming) /\ counter < current_qps
NotYet ==
  /\ counter + Cardinality(Serving) < numServers
  /\ current_qps \in Rates => counter < current_qps
RateInv ==
  /\ status # "ROI" => counter = 0
  /\ Ascending /\ status = "ROI" => Looked \/ NotYet

\* A lookup drops at most the first rate, and the next is no smaller in a schedule
\* that rises.
LEMMA LookupRises ==
  ASSUME TimingInv, Lookup
  PROVE  /\ TimingInv'
         /\ Ascending => /\ current_qps' = Head(QPStiming')
                         /\ Head(QPStiming) \in Nat /\ Head(QPStiming') \in Nat
                         /\ Head(QPStiming') >= Head(QPStiming)
                         /\ Head(QPStiming') >= numServers
  <1>0. /\ Schedule \in Seq(Nat \ {0}) /\ QPStiming \in Seq(Nat \ {0}) /\ numServers \in Nat
    BY InstrumentedAssumption, WorkersFinite DEF InstrumentedAssumption, TimingInv
  <1>1. /\ current_qps' = Rate(QPStiming')
        /\ \/ QPStiming' = QPStiming
           \/ /\ QPStiming # <<>> /\ QPStiming' # <<>> /\ QPStiming' = Tail(QPStiming)
    BY DEF Lookup, Remaining
  <1>2. TimingInv'
    <2>1. CASE QPStiming' = QPStiming
      BY <2>1 DEF TimingInv
    <2>2. CASE QPStiming # <<>> /\ QPStiming' # <<>> /\ QPStiming' = Tail(QPStiming)
      <3>1. /\ QPStiming' \in Seq(Nat \ {0}) /\ Len(QPStiming') = Len(QPStiming) - 1
            /\ Len(QPStiming) \in Nat /\ Len(Schedule) \in Nat
            /\ \A i \in 1..Len(QPStiming') : QPStiming'[i] = QPStiming[i + 1]
        BY <1>0, <2>2
      <3>2. ASSUME NEW i \in 1..Len(QPStiming')
            PROVE  QPStiming'[i] = Schedule[Len(Schedule) - Len(QPStiming') + i]
        <4>1. i + 1 \in 1..Len(QPStiming)
          BY <3>1
        <4>2. QPStiming[i + 1] = Schedule[Len(Schedule) - Len(QPStiming) + (i + 1)]
          BY <4>1 DEF TimingInv
        <4>3. Len(Schedule) - Len(QPStiming) + (i + 1) = Len(Schedule) - Len(QPStiming') + i
          BY <3>1
        <4> QED
          BY <3>1, <4>2, <4>3
      <3> QED
        BY <2>2, <3>1, <3>2 DEF TimingInv
    <2> QED
      BY <1>1, <2>1, <2>2
  <1>3. ASSUME NEW q \in Seq(Nat \ {0}), q # <<>>, Len(q) <= Len(Schedule),
               q[1] = Schedule[Len(Schedule) - Len(q) + 1], Ascending
        PROVE  Head(q) \in Nat /\ Head(q) = q[1] /\ Head(q) >= Schedule[1]
    <2>1. Len(q) \in Nat \ {0} /\ Len(Schedule) \in Nat /\ Head(q) = q[1] /\ q[1] \in Nat
      BY <1>0, <1>3
    <2> DEFINE k == Len(Schedule) - Len(q) + 1
    <2>2. k \in 1..Len(Schedule) /\ 1 \in 1..Len(Schedule)
      BY <1>3, <2>1
    <2>3. \A i, j \in 1..Len(Schedule) : i < j => Schedule[i] <= Schedule[j]
      BY <1>0, <1>3 DEF Ascending
    <2>4. Schedule[1] \in Nat /\ Schedule[k] \in Nat
      BY <1>0, <2>2
    <2> QED
      BY <1>3, <2>1, <2>2, <2>3, <2>4
  <1>4. ASSUME Ascending
        PROVE  /\ current_qps' = Head(QPStiming')
               /\ Head(QPStiming) \in Nat /\ Head(QPStiming') \in Nat
               /\ Head(QPStiming') >= Head(QPStiming)
               /\ Head(QPStiming') >= numServers
    <2>1. QPStiming # <<>> /\ QPStiming' # <<>> /\ QPStiming' \in Seq(Nat \ {0})
          /\ Len(QPStiming) <= Len(Schedule) /\ Len(QPStiming') <= Len(Schedule)
      BY <1>2, <1>4 DEF TimingInv, Ascending
    <2>2. 1 \in 1..Len(QPStiming) /\ 1 \in 1..Len(QPStiming')
      BY <1>0, <2>1
    <2>3. QPStiming[1] = Schedule[Len(Schedule) - Len(QPStiming) + 1]
      BY <2>2 DEF TimingInv
    <2>4. QPStiming'[1] = Schedule[Len(Schedule) - Len(QPStiming') + 1]
      BY <1>2, <2>2 DEF TimingInv
    <2>5. Head(QPStiming) \in Nat
      BY <1>0, <1>3, <1>4, <2>1, <2>3
    <2>6. Head(QPStiming') \in Nat /\ Head(QPStiming') >= Schedule[1] /\ Head(QPStiming') = QPStiming'[1]
      BY <1>3, <1>4, <2>1, <2>4
    <2>7. Head(QPStiming') >= Head(QPStiming)
      <3>1. CASE QPStiming' = QPStiming
        BY <2>5, <3>1
      <3>2. CASE QPStiming' = Tail(QPStiming)
        <4>1. /\ Len(QPStiming') = Len(QPStiming) - 1 /\ QPStiming'[1] = QPStiming[2]
              /\ Len(QPStiming') >= 1 /\ Len(QPStiming) \in Nat /\ Len(Schedule) \in Nat
          BY <1>0, <2>1, <3>2
        <4> DEFINE k == Len(Schedule) - Len(QPStiming) + 1
        <4>2. k \in DOMAIN Schedule /\ k + 1 \in DOMAIN Schedule /\ k < k + 1
          <5>1. Len(QPStiming) >= 2 /\ Len(QPStiming) <= Len(Schedule)
            BY <2>1, <4>1
          <5>2. k \in 1..Len(Schedule) /\ k + 1 \in 1..Len(Schedule) /\ k < k + 1
            BY <4>1, <5>1
          <5>3. DOMAIN Schedule = 1..Len(Schedule)
            BY <1>0
          <5> QED
            BY <5>2, <5>3
        <4>3. Schedule[k] <= Schedule[k + 1]
          BY <1>4, <4>2 DEF Ascending
        <4>4. Len(Schedule) - Len(QPStiming') + 1 = k + 1
          BY <4>1
        <4>5. Head(QPStiming) = Schedule[k]
          BY <1>0, <2>1, <2>3
        <4>6. Head(QPStiming') = Schedule[k + 1]
          BY <2>4, <2>6, <4>4
        <4> HIDE DEF k
        <4> QED
          BY <4>3, <4>5, <4>6
      <3> QED
        BY <1>1, <3>1, <3>2
    <2>8. Schedule[1] \in Nat /\ Schedule[1] >= numServers
      BY <1>0, <1>4 DEF Ascending
    <2> QED
      BY <1>0, <1>1, <2>1, <2>5, <2>6, <2>7, <2>8 DEF Rate
  <1> QED
    BY <1>2, <1>4

\* Every step of xapian-mod-pure keeps what is said of the schedule and the counter.
LEMMA RateStep ==
  ASSUME CoreInv, CoreInv', LineInv, TimingInv, RateInv,
         [InstrumentedNext]_instrumentedVars
  PROVE  TimingInv' /\ RateInv'
  <1>0. TypeOK /\ counter \in Nat /\ numServers \in Nat \ {0}
        /\ Cardinality(Serving) \in Nat
    BY SamplesFinite, WorkersFinite, CountWorkers DEF CoreInv, LineInv, Serving
  <1>1. CASE Quiet
    <2>1. UNCHANGED <<counter, QPStiming, current_qps>> /\ Serving' = Serving
          /\ (status' = "ROI" <=> status = "ROI")
      BY <1>1, QuietKeeps DEF Quiet, rateVars
    <2> QED
      BY <2>1 DEF TimingInv, RateInv, Looked, NotYet
  <1>2. ASSUME NEW w \in Workers, IGenerate(w) PROVE TimingInv' /\ RateInv'
    <2>1. UNCHANGED <<status, counter>>
      BY <1>2 DEF IGenerate, Generate, lineVars
    <2>2. CASE status # "ROI"
      <3>1. UNCHANGED QPStiming
        BY <1>2, <2>2 DEF IGenerate, rateVars
      <3> QED
        BY <2>1, <2>2, <3>1 DEF TimingInv, RateInv
    <2>3. CASE status = "ROI"
      <3>1. Lookup
        BY <1>2, <2>3 DEF IGenerate
      <3>2. ASSUME Ascending PROVE Looked'
        <4>1. Looked \/ NotYet
          BY <2>3, <3>2 DEF RateInv
        <4>2. /\ current_qps' = Head(QPStiming')
              /\ Head(QPStiming) \in Nat /\ Head(QPStiming') \in Nat
              /\ Head(QPStiming') >= Head(QPStiming)
              /\ Head(QPStiming') >= numServers
          BY <3>1, <3>2, LookupRises
        <4>3. counter < Head(QPStiming) \/ counter < numServers
          BY <1>0, <4>1 DEF Looked, NotYet
        <4> HIDE DEF numServers
        <4>4. counter' < Head(QPStiming')
          BY <1>0, <2>1, <4>2, <4>3
        <4> QED
          BY <4>2, <4>4 DEF Looked
      <3> QED
        BY <2>1, <2>3, <3>1, <3>2, LookupRises DEF RateInv
    <2> QED
      BY <2>2, <2>3
  <1>3. ASSUME NEW w \in Workers, IFiniReq(w) PROVE TimingInv' /\ RateInv'
    <2>1. UNCHANGED <<status, QPStiming, current_qps>> /\ Goto(w, "serve", "count")
      BY <1>3 DEF IFiniReq, rateVars
    <2>2. Cardinality(Serving') = Cardinality(Serving) - 1
      BY <2>1, FiniTakes, CountWorkers DEF Serving
    <2>3. TimingInv'
      BY <2>1 DEF TimingInv
    <2>4. CASE status # "ROI"
      <3>1. UNCHANGED counter
        BY <1>3, <2>4 DEF IFiniReq, lineVars
      <3> QED
        BY <2>1, <2>3, <2>4, <3>1 DEF RateInv
    <2>5. CASE status = "ROI"
      <3>1. \/ counter + 1 = current_qps /\ counter' = 0
            \/ counter + 1 # current_qps /\ counter' = counter + 1
        BY <1>3, <2>5 DEF IFiniReq, LineFull
      <3>2. ASSUME Ascending PROVE Looked' \/ NotYet'
        <4>1. CASE Looked
          <5>1. current_qps \in Nat /\ counter < current_qps
            BY <3>2, <4>1 DEF Looked, TimingInv, Ascending
          <5>2. counter' < current_qps
            BY <1>0, <3>1, <5>1
          <5> QED
            BY <2>1, <4>1, <5>2 DEF Looked
        <4>2. CASE NotYet
          <5>1. counter' + Cardinality(Serving') < numServers
            BY <1>0, <2>2, <3>1, <4>2 DEF NotYet
          <5>2. ASSUME current_qps \in Rates PROVE counter' < current_qps
            <6>1. current_qps \in Nat
              BY <5>2, InstrumentedAssumption DEF Rates, InstrumentedAssumption
            <6>2. counter < current_qps
              BY <4>2, <5>2 DEF NotYet
            <6> QED
              BY <1>0, <3>1, <6>1, <6>2
          <5> QED
            BY <2>1, <5>1, <5>2 DEF NotYet, Rates
        <4> QED
          BY <2>5, <3>2, <4>1, <4>2 DEF RateInv
      <3> QED
        BY <2>1, <2>3, <2>5, <3>2 DEF RateInv
    <2> QED
      BY <2>4, <2>5
  <1>4. ASSUME NEW w \in Workers, ICount(w) PROVE TimingInv' /\ RateInv'
    <2>1. UNCHANGED <<QPStiming, current_qps>> /\ CountUpTo(w, 2^30)
      BY <1>4 DEF ICount, rateVars
    <2>2. TimingInv'
      BY <2>1 DEF TimingInv
    <2>3. Serving' = Serving /\ w \notin Serving
      <3>1. pc[w] = "count" /\ (UNCHANGED pc \/ Goto(w, "count", "processed"))
        BY <2>1, CountBranches
      <3> QED
        BY <1>0, <3>1, PcMoves DEF Serving
    <2>4. CASE UNCHANGED <<status, counter>>
      BY <2>1, <2>2, <2>3, <2>4 DEF RateInv, Looked, NotYet, Rates
    <2>5. CASE status' = "ROI" /\ counter' = 0
      <3>1. Cardinality(Serving') < numServers
        BY <2>3, CountWorkers DEF Serving
      <3>2. current_qps' \in Rates => 0 < current_qps'
        BY InstrumentedAssumption DEF Rates, InstrumentedAssumption
      <3>3. counter' + Cardinality(Serving') < numServers
        BY <1>0, <2>3, <2>5, <3>1
      <3>4. NotYet'
        BY <2>5, <3>2, <3>3 DEF NotYet, Rates
      <3> QED
        BY <2>2, <2>5, <3>4 DEF RateInv
    <2> QED
      BY <1>4, <2>4, <2>5, CountRecords
  <1> QED
    BY <1>1, <1>2, <1>3, <1>4, InstrumentedSteps

\* The counter never runs past the rate: the comparison for equality misses no line,
\* for every schedule that rises from at least the number of workers.
THEOREM EveryLineComes == InstrumentedSpec => []NoLineMissed
  <1> DEFINE Inv == CoreInv /\ LineInv /\ TimingInv /\ RateInv
  <1>1. InstrumentedInit => TimingInv /\ RateInv
    <2> SUFFICES ASSUME InstrumentedInit PROVE TimingInv /\ RateInv
      OBVIOUS
    <2>1. QPStiming = Schedule /\ counter = 0 /\ status # "ROI"
      BY DEF InstrumentedInit, Init
    <2>2. Schedule \in Seq(Nat \ {0}) /\ Len(Schedule) \in Nat
      BY InstrumentedAssumption DEF InstrumentedAssumption
    <2>3. TimingInv
      BY <2>1, <2>2 DEF TimingInv
    <2> QED
      BY <2>1, <2>3 DEF RateInv
  <1>2. TimingInv /\ RateInv /\ CoreInv /\ LineInv /\ (CoreInv /\ LineInv)'
          /\ [InstrumentedNext]_instrumentedVars
        => (TimingInv /\ RateInv)'
    BY RateStep
  <1>3. RateInv => NoLineMissed
    <2> SUFFICES ASSUME RateInv, Ascending, LookedUp PROVE counter < current_qps
      BY DEF NoLineMissed, Ascending
    <2>1. status = "ROI" /\ current_qps \in Rates
      BY DEF LookedUp, Rates
    <2> QED
      BY <2>1 DEF RateInv, Looked, NotYet
  <1> QED
    BY <1>1, <1>2, <1>3, LinesHold, PTL DEF InstrumentedSpec
-----------------------------------------------------------------------------
(* The window of the measurement.                                          *)

\* In the phase ROI every request between finiReq and the count is recorded and not
\* counted yet, but for those that were there when the phase began: never all workers,
\* because one of them began it.
WindowInv ==
  /\ Recorded \subseteq Ids \ inFlightReqs
  /\ status # "ROI" => Recorded = {} /\ finishedReqs < warmupReqs
  /\ process = "up" /\ status = "ROI" =>
       \E missed \in 0..(numServers - 1) :
         Cardinality(Recorded) + missed = finishedReqs - warmupReqs + Cardinality(AtCount)
  /\ process # "up" => WindowNear

\* How far what is recorded may be from the requests answered in the phase ROI, and from
\* maxReqs.
AnsweredNear ==
  \E missed \in 0..(numServers - 1) : Cardinality(Recorded) + missed = finishedReqs - warmupReqs
MeasuredNear ==
  \E missed \in 0..(numServers - 1), ahead \in 0..(numServers - 1) :
    Cardinality(Recorded) + missed = maxReqs + ahead

\* What is recorded, and what a process has recorded when it ends, can be counted.
LEMMA RecordedFinite ==
  ASSUME TypeOK, Recorded \subseteq Ids
  PROVE  /\ Cardinality(Recorded) \in Nat /\ IsFiniteSet(Recorded)
         /\ Cardinality(lats \cup UNION {printed[i] : i \in DOMAIN printed}) \in Nat
  <1>1. IsFiniteSet(Ids) /\ IsFiniteSet({None})
    BY SamplesFinite, FS_Singleton
  <1>2. IsFiniteSet(Ids \cup {None})
    BY <1>1, FS_Union
  <1>3. UNION {printed[i] : i \in DOMAIN printed} \subseteq Ids /\ lats \subseteq Ids \cup {None}
    BY DEF Recorded, TypeOK
  <1>4. lats \cup UNION {printed[i] : i \in DOMAIN printed} \subseteq Ids \cup {None}
    BY <1>3
  <1> QED
    BY <1>1, <1>2, <1>4, FS_Subset, FS_CardinalityType

\* The sums of the window, of any numbers.
LEMMA WindowSums ==
  \A x, m \in Nat, y \in Nat \ {0} :
    /\ x >= x - (y - 1) /\ x <= x + 0
    /\ \A z, a \in 0..(y - 1) : x + z = m + a => x >= m - (y - 1) /\ x <= m + (y - 1)
  OBVIOUS

\* Nothing is asked of a process that was ended otherwise, or before the phase ROI.
LEMMA OtherwiseNear ==
  TypeOK /\ Recorded \subseteq Ids /\ process # "exit 0"
    /\ ~(process = "returned" /\ status = "ROI") => WindowNear
  <1> SUFFICES ASSUME TypeOK, Recorded \subseteq Ids, process # "exit 0",
                      ~(process = "returned" /\ status = "ROI")
               PROVE  WindowNear
    OBVIOUS
  <1> DEFINE recorded == lats \cup UNION {printed[i] : i \in DOMAIN printed}
             n == Cardinality(recorded)
  <1>1. n \in Nat /\ numServers \in Nat \ {0}
    BY RecordedFinite, WorkersFinite
  <1> DEFINE measured == CASE process = "exit 0" -> maxReqs
                           [] process = "returned" /\ status = "ROI" -> finishedReqs - warmupReqs
                           [] OTHER -> n
  <1>2. measured = n
    OBVIOUS
  <1>3. WindowNear <=> /\ n >= measured - (numServers - 1)
                       /\ n <= measured + (IF process = "exit 0" THEN numServers - 1 ELSE 0)
    BY DEF WindowNear
  <1> HIDE DEF measured, n
  <1>4. n >= n - (numServers - 1) /\ n <= n + 0
    BY <1>1, WindowSums
  <1>5. (IF process = "exit 0" THEN numServers - 1 ELSE 0) = 0
    OBVIOUS
  <1> QED
    BY <1>2, <1>3, <1>4, <1>5

\* What a process that returns in the phase ROI has recorded.
LEMMA ReturnedNear ==
  TypeOK /\ Recorded \subseteq Ids /\ process = "returned" /\ status = "ROI" /\ lats = samples
    /\ AnsweredNear => WindowNear
  <1> SUFFICES ASSUME TypeOK, Recorded \subseteq Ids, process = "returned", status = "ROI",
                      lats = samples, NEW missed \in 0..(numServers - 1),
                      Cardinality(Recorded) + missed = finishedReqs - warmupReqs
               PROVE  WindowNear
    BY DEF AnsweredNear
  <1> DEFINE recorded == lats \cup UNION {printed[i] : i \in DOMAIN printed}
             n == Cardinality(recorded)
  <1>1. n = Cardinality(Recorded) /\ n \in Nat /\ numServers \in Nat \ {0}
    BY RecordedFinite, WorkersFinite DEF Recorded
  <1> DEFINE measured == CASE process = "exit 0" -> maxReqs
                           [] process = "returned" /\ status = "ROI" -> finishedReqs - warmupReqs
                           [] OTHER -> n
  <1>2. measured = finishedReqs - warmupReqs
    OBVIOUS
  <1>3. WindowNear <=> /\ n >= measured - (numServers - 1)
                       /\ n <= measured + (IF process = "exit 0" THEN numServers - 1 ELSE 0)
    BY DEF WindowNear
  <1>4. finishedReqs \in Nat /\ warmupReqs \in Nat
    BY IntegratedAssumption DEF TypeOK, IntegratedAssumption
  <1> HIDE DEF measured, n
  <1> QED
    BY <1>1, <1>2, <1>3, <1>4

\* What a process that the count ends has recorded.
LEMMA CountedNear ==
  TypeOK /\ Recorded \subseteq Ids /\ process = "exit 0" /\ lats = samples
    /\ MeasuredNear => WindowNear
  <1> SUFFICES ASSUME TypeOK, Recorded \subseteq Ids, process = "exit 0", lats = samples,
                      NEW missed \in 0..(numServers - 1), NEW ahead \in 0..(numServers - 1),
                      Cardinality(Recorded) + missed = maxReqs + ahead
               PROVE  WindowNear
    BY DEF MeasuredNear
  <1> DEFINE recorded == lats \cup UNION {printed[i] : i \in DOMAIN printed}
             n == Cardinality(recorded)
  <1>1. n = Cardinality(Recorded) /\ n \in Nat /\ numServers \in Nat \ {0} /\ maxReqs \in Nat
    BY RecordedFinite, WorkersFinite, IntegratedAssumption DEF Recorded, IntegratedAssumption
  <1> DEFINE measured == CASE process = "exit 0" -> maxReqs
                           [] process = "returned" /\ status = "ROI" -> finishedReqs - warmupReqs
                           [] OTHER -> n
  <1>2. measured = maxReqs
    OBVIOUS
  <1>3. WindowNear <=> /\ n >= measured - (numServers - 1)
                       /\ n <= measured + (IF process = "exit 0" THEN numServers - 1 ELSE 0)
    BY DEF WindowNear
  <1> HIDE DEF measured, n
  <1>4. n >= maxReqs - (numServers - 1) /\ n <= maxReqs + (numServers - 1)
    BY <1>1, WindowSums
  <1>5. (IF process = "exit 0" THEN numServers - 1 ELSE 0) = numServers - 1
    OBVIOUS
  <1> QED
    BY <1>2, <1>3, <1>4, <1>5

\* What a step has to show that neither counts nor ends anything.
LEMMA WindowKept ==
  ASSUME WindowInv, process = "up", process' = "up", UNCHANGED finishedReqs,
         Recorded' = Recorded, AtCount' = AtCount, Recorded' \subseteq Ids' \ inFlightReqs',
         status' = "ROI" <=> status = "ROI"
  PROVE  WindowInv'
  BY DEF WindowInv

\* A quiet step ends the process, or leaves the window alone.
LEMMA WindowQuiet ==
  ASSUME CoreInv, CoreInv', WindowInv, Quiet, process = "up"
  PROVE  WindowInv'
  <1>1. /\ UNCHANGED <<samples, inFlightReqs, finishedReqs>>
        /\ AtCount' = AtCount /\ Ids' = Ids /\ Recorded' = Recorded
        /\ (status' = "ROI" <=> status = "ROI")
    BY QuietKeeps
  <1>2. TypeOK' /\ Recorded' \subseteq Ids' \ inFlightReqs' /\ Recorded' \subseteq Ids'
    BY <1>1 DEF CoreInv, WindowInv
  <1>3. CASE process' = "up"
    BY <1>1, <1>2, <1>3, WindowKept
  <1>4. ASSUME process' # "up", WindowNear' PROVE WindowInv'
    BY <1>1, <1>2, <1>4 DEF WindowInv
  <1>5. process' # "exit 0"
    BY MovesAre DEF Quiet, Finish, Ends, CheckQuota, Processed, vars
  <1>6. CASE process' # "up" /\ ~(process' = "returned" /\ status' = "ROI")
    <2>1. WindowNear'
      <3>1. (TypeOK /\ Recorded \subseteq Ids /\ process # "exit 0"
               /\ ~(process = "returned" /\ status = "ROI") => WindowNear)'
        BY OtherwiseNear, PTL
      <3> QED
        BY <1>2, <1>5, <1>6, <3>1
    <2> QED
      BY <1>4, <1>6, <2>1
  <1>7. CASE process' = "returned" /\ status' = "ROI"
    <2>1. Finish
      BY <1>7, MovesAre DEF Quiet, Ends, CheckQuota, Processed, vars
    <2>2. lats' = samples' /\ AtCount = {}
      BY <2>1 DEF Finish, AtCount
    <2>3. PICK k \in 0..(numServers - 1) :
            Cardinality(Recorded) + k = finishedReqs - warmupReqs + Cardinality(AtCount)
      BY <1>1, <1>7 DEF WindowInv
    <2>4. finishedReqs - warmupReqs + Cardinality(AtCount) = finishedReqs - warmupReqs
      <3>1. finishedReqs \in Nat /\ warmupReqs \in Nat /\ Cardinality(AtCount) = 0
        BY <2>2, FS_EmptySet, IntegratedAssumption DEF CoreInv, TypeOK, IntegratedAssumption
      <3> QED
        BY <3>1
    <2>5. numServers' = numServers
      BY DEF numServers
    <2>6. AnsweredNear'
      BY <1>1, <2>3, <2>4, <2>5 DEF AnsweredNear
    <2>7. (TypeOK /\ Recorded \subseteq Ids /\ process = "returned" /\ status = "ROI"
             /\ lats = samples /\ AnsweredNear => WindowNear)'
      BY ReturnedNear, PTL
    <2>8. WindowNear'
      BY <1>2, <1>7, <2>2, <2>6, <2>7
    <2> QED
      BY <1>4, <1>7, <2>8
  <1> QED
    BY <1>3, <1>6, <1>7

\* So does a request that starts.
LEMMA WindowStart ==
  ASSUME CoreInv, WindowInv, process = "up", NEW w \in Workers, Generate(w), UNCHANGED printed
  PROVE  WindowInv'
  <1>1. /\ UNCHANGED <<process, status, samples, finishedReqs>>
        /\ inFlightReqs' = inFlightReqs \cup {startedReqs} /\ startedReqs' = startedReqs + 1
        /\ Goto(w, "generate", "serve")
    BY DEF Generate, NextStarted, countVars
  <1>2. TypeOK /\ startedReqs \in Nat
    BY DEF CoreInv, TypeOK
  <1>3. Ids \subseteq Ids' /\ startedReqs \notin Ids
    BY <1>1, <1>2 DEF Ids
  <1>4. Recorded' = Recorded
    BY <1>1 DEF Recorded
  <1>5. AtCount' = AtCount
    BY <1>1, <1>2, PcMoves DEF AtCount
  <1>6. Recorded' \subseteq Ids' \ inFlightReqs'
    BY <1>1, <1>3, <1>4 DEF WindowInv
  <1> QED
    BY <1>1, <1>4, <1>5, <1>6, WindowKept

\* finiReq records the request in the phase ROI, and leaves its worker before the count.
LEMMA WindowFini ==
  ASSUME CoreInv, WindowInv, process = "up", NEW w \in Workers, Fini(w),
         Recorded' = Recorded \cup (IF status = "ROI" THEN {reqInfo[w]} ELSE {})
  PROVE  WindowInv'
  <1>1. /\ UNCHANGED <<process, status, startedReqs, finishedReqs>>
        /\ inFlightReqs' = inFlightReqs \ {reqInfo[w]} /\ Goto(w, "serve", "count")
    BY DEF Fini, countVars
  <1>2. /\ reqInfo[w] \in inFlightReqs /\ reqInfo[w] \in Ids
        /\ w \in Workers \ AtCount /\ AtCount' = AtCount \cup {w}
    BY <1>1, FiniTakes
  <1>3. Ids' = Ids
    BY <1>1 DEF Ids
  <1>4. Recorded' \subseteq Ids' \ inFlightReqs'
    BY <1>1, <1>2, <1>3 DEF WindowInv
  <1>5. CASE status # "ROI"
    BY <1>1, <1>4, <1>5 DEF WindowInv
  <1>6. CASE status = "ROI"
    <2>1. reqInfo[w] \notin Recorded /\ Recorded \subseteq Ids /\ Recorded' = Recorded \cup {reqInfo[w]}
      BY <1>2, <1>6 DEF WindowInv
    <2>2. IsFiniteSet(Recorded) /\ Cardinality(Recorded) \in Nat
      BY <2>1, RecordedFinite DEF CoreInv
    <2>3. Cardinality(Recorded') = Cardinality(Recorded) + 1
      BY <2>1, <2>2, FS_AddElement
    <2>4. Cardinality(AtCount') = Cardinality(AtCount) + 1 /\ Cardinality(AtCount) \in Nat
      BY <1>2, CountWorkers DEF AtCount
    <2>5. PICK missed \in 0..(numServers - 1) :
            Cardinality(Recorded) + missed = finishedReqs - warmupReqs + Cardinality(AtCount)
      BY <1>6 DEF WindowInv
    <2>6. finishedReqs \in Nat /\ warmupReqs \in Nat /\ numServers \in Nat
      BY IntegratedAssumption, WorkersFinite DEF CoreInv, TypeOK, IntegratedAssumption
    <2>7. Cardinality(Recorded') + missed = finishedReqs' - warmupReqs + Cardinality(AtCount')
      BY <1>1, <2>2, <2>3, <2>4, <2>5, <2>6
    <2>8. numServers' = numServers
      BY DEF numServers
    <2> QED
      BY <1>1, <1>4, <1>6, <2>7, <2>8 DEF WindowInv
  <1> QED
    BY <1>5, <1>6

\* The count begins the phase ROI with nothing recorded, ends the process within the
\* window, or takes one request from those between finiReq and the count.
LEMMA WindowCount ==
  ASSUME CoreInv, CoreInv', WindowInv, process = "up", warmupReqs > 0,
         NEW w \in Workers, CountUpTo(w, maxReqs), UNCHANGED printed
  PROVE  WindowInv'
  <1>1. /\ UNCHANGED <<startedReqs, inFlightReqs>> /\ finishedReqs' = finishedReqs + 1
        /\ w \in AtCount
    BY CountBranches DEF AtCount
  <1>2. /\ finishedReqs \in Nat /\ warmupReqs \in Nat /\ maxReqs \in Nat
        /\ numServers \in Nat \ {0} /\ TypeOK /\ TypeOK'
        /\ Cardinality(AtCount) \in Nat /\ Cardinality(AtCount) >= 1
        /\ Cardinality(AtCount) <= numServers
        /\ Cardinality(AtCount \ {w}) = Cardinality(AtCount) - 1
    BY <1>1, IntegratedAssumption, WorkersFinite, CountWorkers
       DEF CoreInv, TypeOK, AtCount, IntegratedAssumption
  <1>3. Ids' = Ids /\ numServers' = numServers
    BY <1>1 DEF Ids, numServers
  <1>4. Goto(w, "count", "processed") => AtCount' = AtCount \ {w}
    BY <1>2, PcMoves DEF AtCount
  <1>5. CASE finishedReqs + 1 = warmupReqs
    <2>1. \/ /\ status = "WARMUP" /\ Goto(w, "count", "processed") /\ UNCHANGED process
             /\ status' = "ROI" /\ samples' = {}
          \/ process' = "aborted"
      BY <1>5, CountBranches
    <2>2. /\ status = "WARMUP" /\ Goto(w, "count", "processed") /\ process' = "up"
          /\ status' = "ROI" /\ samples' = {}
      BY <2>1 DEF CoreInv, PhaseInv
    <2>3. Recorded = {}
      BY <2>2 DEF WindowInv
    <2>4. Recorded' = {}
      BY <2>2, <2>3 DEF Recorded
    <2>5. Cardinality(Recorded') + Cardinality(AtCount') =
            finishedReqs' - warmupReqs + Cardinality(AtCount')
      <3>1. Cardinality(Recorded') = 0 /\ finishedReqs' - warmupReqs = 0
        BY <1>1, <1>2, <1>5, <2>4, FS_EmptySet
      <3> QED
        BY <3>1
    <2>6. Cardinality(AtCount') \in 0..(numServers' - 1)
      BY <1>2, <1>3, <1>4, <2>2
    <2> QED
      BY <2>2, <2>4, <2>5, <2>6 DEF WindowInv
  <1>6. CASE finishedReqs + 1 # warmupReqs
    <2>1. UNCHANGED <<status, samples>>
      BY <1>6, CountBranches
    <2>2. Recorded' = Recorded
      BY <2>1 DEF Recorded
    <2>3. status' # "ROI" => Recorded' = {} /\ finishedReqs' < warmupReqs
      BY <1>1, <1>2, <1>6, <2>1, <2>2 DEF WindowInv
    <2>4. Recorded' \subseteq Ids' \ inFlightReqs' /\ Recorded' \subseteq Ids'
      BY <1>1, <1>3, <2>2 DEF WindowInv
    <2>5. ASSUME status = "ROI"
          PROVE  \E missed \in 0..(numServers - 1) :
                   Cardinality(Recorded) + missed = finishedReqs - warmupReqs + Cardinality(AtCount)
      BY <2>5 DEF WindowInv
    <2>6. Cardinality(Recorded) \in Nat
      BY <1>2, RecordedFinite DEF WindowInv
    <2>7. CASE finishedReqs + 1 # warmupReqs + maxReqs
      <3>1. Goto(w, "count", "processed") /\ process' = "up"
        BY <1>6, <2>7, CountBranches
      <3>2. ASSUME status' = "ROI"
            PROVE  \E missed \in 0..(numServers' - 1) :
                     Cardinality(Recorded') + missed
                       = finishedReqs' - warmupReqs + Cardinality(AtCount')
        <4>1. PICK missed \in 0..(numServers - 1) :
                Cardinality(Recorded) + missed = finishedReqs - warmupReqs + Cardinality(AtCount)
          BY <2>1, <2>5, <3>2
        <4>2. Cardinality(Recorded') + missed
                = finishedReqs' - warmupReqs + Cardinality(AtCount')
          BY <1>1, <1>2, <1>4, <2>2, <2>6, <3>1, <4>1
        <4> QED
          BY <1>3, <4>2
      <3> QED
        BY <2>3, <2>4, <3>1, <3>2 DEF WindowInv
    <2>8. CASE finishedReqs + 1 = warmupReqs + maxReqs
      <3>1. lats' = samples' /\ process' = "exit 0"
        BY <1>6, <2>1, <2>8, CountBranches
      <3>2. status = "ROI"
        <4>1. status # "ROI" => finishedReqs < warmupReqs
          BY DEF WindowInv
        <4> QED
          BY <1>2, <1>6, <2>8, <4>1
      <3>3. PICK missed \in 0..(numServers - 1) :
              Cardinality(Recorded) + missed = finishedReqs - warmupReqs + Cardinality(AtCount)
        BY <2>5, <3>2
      <3>4. /\ Cardinality(AtCount) - 1 \in 0..(numServers - 1)
            /\ Cardinality(Recorded) + missed = maxReqs + (Cardinality(AtCount) - 1)
        BY <1>2, <2>6, <2>8, <3>3
      <3>5. MeasuredNear'
        BY <1>3, <2>2, <3>4 DEF MeasuredNear
      <3>6. (TypeOK /\ Recorded \subseteq Ids /\ process = "exit 0" /\ lats = samples
               /\ MeasuredNear => WindowNear)'
        BY CountedNear, PTL
      <3>7. WindowNear'
        BY <1>2, <2>4, <3>1, <3>5, <3>6
      <3> QED
        BY <2>3, <2>4, <3>1, <3>7 DEF WindowInv
    <2> QED
      BY <2>7, <2>8
  <1> QED
    BY <1>5, <1>6

\* A process that has ended, or a step of nobody, changes nothing of it.
LEMMA WindowStutter == WindowInv /\ UNCHANGED instrumentedVars => WindowInv'
  <1> SUFFICES ASSUME WindowInv, UNCHANGED instrumentedVars PROVE WindowInv'
    OBVIOUS
  <1>1. UNCHANGED <<process, pc, status, startedReqs, inFlightReqs, samples, finishedReqs, lats,
                    printed>>
    BY DEF instrumentedVars, vars, clientVars, countVars, lineVars
  <1>2. Recorded' = Recorded /\ AtCount' = AtCount /\ Ids' = Ids /\ numServers' = numServers
    BY <1>1 DEF Recorded, AtCount, Ids, numServers
  <1>3. WindowNear' <=> WindowNear
    BY <1>1, <1>2 DEF WindowNear
  <1> QED
    BY <1>1, <1>2, <1>3 DEF WindowInv

\* What the constructors leave, when there is a warm-up.
LEMMA WindowInit == InstrumentedInit /\ warmupReqs > 0 => CoreInv /\ WindowInv
  <1> SUFFICES ASSUME InstrumentedInit, warmupReqs > 0 PROVE CoreInv /\ WindowInv
    OBVIOUS
  <1>1. /\ CoreInv /\ process = "up" /\ status = "INIT" /\ finishedReqs = 0
        /\ samples = {} /\ printed = <<>> /\ inFlightReqs = {}
    BY CoreInit DEF InstrumentedInit, Init
  <1>2. Recorded = {}
    BY <1>1 DEF Recorded
  <1> QED
    BY <1>1, <1>2 DEF WindowInv

\* xapian-pure has no schedule and prints no line.
PureSpec == InstrumentedInit /\ [][Unchanged(Next)]_instrumentedVars

\* A run of xapian-pure with a warm-up records the requests past it, but for one of each
\* worker other than the one that ended the warm-up, and lats.bin has at most one more
\* of each worker other than the one that ended the measurement.
THEOREM PureWindow == PureSpec /\ warmupReqs > 0 => []WindowNear
  <1> DEFINE Inv == CoreInv /\ WindowInv /\ printed = <<>>
  <1>1. InstrumentedInit /\ warmupReqs > 0 => Inv
    BY WindowInit DEF InstrumentedInit
  <1>2. ASSUME warmupReqs > 0, Inv, [Unchanged(Next)]_instrumentedVars PROVE Inv'
    <2>1. CoreInv' /\ printed' = <<>>
      <3>1. [Next]_vars
        BY <1>2 DEF Unchanged, instrumentedVars
      <3>2. printed' = <<>>
        BY <1>2 DEF Unchanged, instrumentedVars, lineVars
      <3> QED
        BY <1>2, <3>1, <3>2, PureIsCore, CoreInvStep
    <2>2. CASE UNCHANGED instrumentedVars
      BY <1>2, <2>1, <2>2, WindowStutter
    <2>3. CASE Unchanged(Next) /\ process # "up"
      <3>1. UNCHANGED instrumentedVars
        BY <2>3 DEF Unchanged, Next, instrumentedVars
      <3> QED
        BY <1>2, <2>1, <3>1, WindowStutter
    <2>4. CASE Unchanged(Next) /\ process = "up"
      <3>1. UNCHANGED printed /\ UNCHANGED <<rateVars, lineVars>>
        BY <2>4 DEF Unchanged, lineVars
      <3>2. ASSUME NEW w \in Workers, Generate(w) PROVE WindowInv'
        BY <1>2, <2>4, <3>1, <3>2, WindowStart
      <3>3. ASSUME NEW w \in Workers, FiniReq(w) PROVE WindowInv'
        <4>1. Fini(w)
          BY <3>3 DEF FiniReq, Fini
        <4>2. samples' = samples \cup (IF status = "ROI" THEN {reqInfo[w]} ELSE {})
          BY <3>3 DEF FiniReq, Recording
        <4>3. Recorded' = Recorded \cup (IF status = "ROI" THEN {reqInfo[w]} ELSE {})
          BY <3>1, <4>2 DEF Recorded
        <4> QED
          BY <1>2, <2>4, <4>1, <4>3, WindowFini
      <3>4. ASSUME NEW w \in Workers, Count(w) PROVE WindowInv'
        BY <1>2, <2>1, <2>4, <3>1, <3>4, WindowCount DEF Count
      <3>5. CASE Quiet
        BY <1>2, <2>1, <2>4, <3>5, WindowQuiet
      <3>6. Finish \/ Killed \/ (\E w \in Workers : Step(w))
        BY <2>4 DEF Unchanged, Next
      <3>7. Finish \/ Killed => Quiet
        BY <3>1 DEF Quiet, Killed, Ends
      <3>8. ASSUME NEW w \in Workers, Step(w)
            PROVE  Generate(w) \/ FiniReq(w) \/ Count(w) \/ Quiet
        <4>1. Generate(w) \/ FiniReq(w) \/ Count(w) \/ Moves(w) \/ CheckQuota(w) \/ Processed(w)
          BY <3>8 DEF Step, Moves
        <4>2. Moves(w) \/ CheckQuota(w) \/ Processed(w) => Quiet
          BY <3>1 DEF Quiet
        <4> QED
          BY <4>1, <4>2
      <3>9. WindowInv'
        BY <3>2, <3>3, <3>4, <3>5, <3>6, <3>7, <3>8
      <3> QED
        BY <2>1, <3>9
    <2> QED
      BY <1>2, <2>2, <2>3, <2>4
  <1>3. Inv => WindowNear
    <2> SUFFICES ASSUME Inv PROVE WindowNear
      OBVIOUS
    <2>1. CASE process = "up"
      BY <2>1, OtherwiseNear DEF CoreInv, WindowInv
    <2> QED
      BY <2>1 DEF WindowInv
  <1>4. ASSUME warmupReqs > 0 PROVE PureSpec => []WindowNear
    <2>1. Inv /\ [Unchanged(Next)]_instrumentedVars => Inv'
      BY <1>2, <1>4
    <2>2. InstrumentedInit => Inv
      BY <1>1, <1>4
    <2> QED
      BY <1>3, <2>1, <2>2, PTL DEF PureSpec
  <1> QED
    BY <1>4

\* So does a run of xapian-mod-pure, in its lines and in lats.bin together.
THEOREM InstrumentedWindow ==
  InstrumentedSpec /\ warmupReqs > 0 /\ maxReqs = 2^30 => []WindowNear
  <1> DEFINE Inv == CoreInv /\ LineInv /\ WindowInv
  <1>1. InstrumentedInit /\ warmupReqs > 0 => WindowInv
    BY WindowInit
  <1>2. ASSUME warmupReqs > 0, maxReqs = 2^30, CoreInv, LineInv, WindowInv, CoreInv',
               [InstrumentedNext]_instrumentedVars
        PROVE  WindowInv'
    <2>1. CASE UNCHANGED instrumentedVars
      BY <1>2, <2>1, WindowStutter
    <2>2. CASE process = "up"
      <3>1. CASE Quiet
        BY <1>2, <2>2, <3>1, WindowQuiet
      <3>2. ASSUME NEW w \in Workers, IGenerate(w) PROVE WindowInv'
        BY <1>2, <2>2, <3>2, WindowStart DEF IGenerate, lineVars
      <3>3. ASSUME NEW w \in Workers, IFiniReq(w) PROVE WindowInv'
        <4>1. Fini(w)
          BY <3>3 DEF IFiniReq, Fini, AfterLine
        <4>2. Recorded' = Recorded \cup (IF status = "ROI" THEN {reqInfo[w]} ELSE {})
          BY <1>2, <3>3, RecordsOne
        <4> QED
          BY <1>2, <2>2, <4>1, <4>2, WindowFini
      <3>4. ASSUME NEW w \in Workers, ICount(w) PROVE WindowInv'
        <4>1. CountUpTo(w, maxReqs) /\ UNCHANGED printed
          BY <1>2, <3>4 DEF ICount
        <4> QED
          BY <1>2, <2>2, <4>1, WindowCount
      <3> QED
        BY <1>2, <3>1, <3>2, <3>3, <3>4, InstrumentedSteps
    <2> QED
      BY <1>2, <2>1, <2>2 DEF InstrumentedNext
  <1>3. Inv => WindowNear
    <2> SUFFICES ASSUME Inv PROVE WindowNear
      OBVIOUS
    <2>1. CASE process = "up"
      BY <2>1, OtherwiseNear DEF CoreInv, WindowInv
    <2> QED
      BY <2>1 DEF WindowInv
  <1>4. ASSUME warmupReqs > 0, maxReqs = 2^30 PROVE InstrumentedSpec => []WindowNear
    <2>1. WindowInv /\ CoreInv /\ LineInv /\ (CoreInv /\ LineInv)'
            /\ [InstrumentedNext]_instrumentedVars => WindowInv'
      BY <1>2, <1>4
    <2>2. InstrumentedInit => WindowInv
      BY <1>1, <1>4
    <2> QED
      BY <1>3, <2>1, <2>2, LinesHold, PTL DEF InstrumentedSpec
  <1> QED
    BY <1>4
=============================================================================
