--------------------------- MODULE HurryUpProofs ---------------------------
(***************************************************************************)
(* Theorems about HurryUp, for any number of server threads and any quota, *)
(* and about OndemHurryUp, whose steps are HurryUp's and which never leaves*)
(* its table.                                                              *)
(***************************************************************************)
EXTENDS OndemHurryUp, FiniteSetTheorems, TLAPS

Early == {"none", "start", "barrier"}
Mapped == {t \in Threads : core_mapping[t] # Absent}

\* main goes through its creation loop before any worker passes the barrier.
CreationInv ==
  /\ pc[Main] # "none"
  /\ \A t \in Created : pc[t] \notin {"create", "map", "fini"}
  /\ pc[Main] \in {"create", "map", "start"} => \A t \in Created : pc[t] \in Early
  /\ pc[Main] \in {"create", "map"} <=> spc = "none"
  /\ pc[Main] = "map" => made < N - 1
  /\ pc[Main] \notin {"create", "map"} => made = N - 1

\* What main has entered into core_mapping is the thread's core, and open; no
\* thread but main enters itself.
MappingInv ==
  /\ \A t \in Created : t <= made => core_mapping[t] = CoreOf(t) /\ CoreOf(t) \in opened
  /\ core_mapping[Main] \in {Absent, 0}
  /\ pc[Main] \in {"create", "map"} => core_mapping[Main] = Absent
  /\ \A t \in Created : pc[t] # "linkCore"

\* The scheduler visits only threads that are in core_mapping.
ScanInv ==
  /\ todo \subseteq Mapped
  /\ spc \in {"link", "write"} => at \in Mapped

\* The scheduler is told to stop when all workers are through.
StopInv ==
  /\ ~running => pc[Main] = "fini" /\ \A t \in Created : pc[t] = "done"
  /\ spc = "exit" => ~running

IndInv == TypeOK /\ CreationInv /\ MappingInv /\ ScanInv /\ StopInv
-----------------------------------------------------------------------------
\* main is not a created thread, main's core is that of the first one if there is
\* one, and no core is -1 or -2.
LEMMA Constants ==
  /\ N \in Nat /\ N >= 1
  /\ Main \in Threads /\ Main \notin Created
  /\ Created = Threads \ {Main} /\ (N > 1 => 1 \in Created)
  /\ Threads \subseteq Nat
  /\ \A t \in Created : CoreOf(t) \in Cores
  /\ \A c \in Cores : c \in Nat
  /\ 0 \in Cores /\ CoreOf(1) = 0
  /\ Absent \notin Nat /\ Idle \notin Nat /\ Idle # Absent
  <1>1. N \in Nat /\ N >= 1
    BY HurryUpAssumption
  <1>2. Created = Threads \ {Main} /\ Main \in Threads /\ Main \notin Created
    BY <1>1 DEF Created, Threads, Main
  <1>3. \A t \in Created : CoreOf(t) \in Nat /\ CoreOf(t) \in Cores
    BY <1>1 DEF Created, CoreOf, Cores
  <1>4. 0 \in Cores /\ \A c \in Cores : c \in Nat
    BY <1>3 DEF Cores
  <1>5. CoreOf(1) = 0 /\ (N > 1 => 1 \in Created)
    BY <1>1 DEF CoreOf, Created
  <1> QED
    BY <1>1, <1>2, <1>3, <1>4, <1>5 DEF Threads, Absent, Idle

\* The barrier opens when every thread has arrived at it.
LEMMA BarrierNeedsAll == BarrierOpen => Arrived = Threads
  <1>1. IsFiniteSet(Threads) /\ Cardinality(Threads) = N
    <2>1. 1 \in Int /\ N \in Int /\ ~(1 > N) /\ N - 1 + 1 = N
      BY Constants
    <2>2. IsFiniteSet(1..N) /\ Cardinality(1..N) = IF 1 > N THEN 0 ELSE N - 1 + 1
      BY <2>1, FS_Interval
    <2> QED
      BY <2>1, <2>2 DEF Threads
  <1>2. Arrived \subseteq Threads
    BY DEF Arrived
  <1>3. Cardinality(Arrived) <= N /\ Cardinality(Arrived) \in Nat
    BY <1>1, <1>2, FS_Subset, FS_CardinalityType
  <1>4. Cardinality(Arrived) = Cardinality(Threads) => Arrived = Threads
    BY <1>1, <1>2, FS_Subset
  <1> QED
    BY <1>1, <1>3, <1>4, Constants DEF BarrierOpen

\* The state in which main enters the creation loop.
LEMMA IndInvInit == Init => IndInv
  <1> SUFFICES ASSUME Init PROVE IndInv
    OBVIOUS
  <1>1. TypeOK
    BY Constants, HurryUpAssumption DEF Init, TypeOK, Marks
  <1>2. pc[Main] = "create" /\ \A t \in Created : pc[t] = "none"
    BY Constants DEF Init
  <1>3. CreationInv
    BY <1>2 DEF Init, CreationInv, Early
  <1>4. MappingInv
    BY <1>2, Constants DEF Init, MappingInv, Created
  <1>5. ScanInv /\ StopInv
    BY <1>2 DEF Init, ScanInv, StopInv
  <1> QED
    BY <1>1, <1>3, <1>4, <1>5 DEF IndInv
-----------------------------------------------------------------------------
(* Types.                                                                  *)

PcValues == {"none", "create", "map", "start", "barrier", "check", "recv", "lookup",
             "linkCore", "mark", "linkMark", "search", "unmark", "linkIdle", "count", "done", "fini"}

\* While main's creation loop goes on, the next thread is a created one.
LEMMA NextThread ==
  ASSUME TypeOK, made < N - 1
  PROVE  /\ made \in Nat /\ made + 1 \in 0..(N - 1)
         /\ made + 1 \in Created /\ made + 1 \in Threads /\ made + 1 # Main
  <1>1. made \in 0..(N - 1)
    BY DEF TypeOK
  <1>2. N \in Nat
    BY Constants
  <1> QED
    BY <1>1, <1>2 DEF Created, Threads, Main

\* An insertion into schedMap keeps its values marks, also when it cuts off keys.
LEMMA InsertTypes ==
  ASSUME TypeOK, NEW u, NEW k \in Threads, NEW v \in Marks, Insert(u, k, v)
  PROVE  /\ schedMap' \in [Threads -> Marks]
         /\ since' \in [Threads \cup {Scheduler} -> SUBSET Threads]
  <1>1. Absent \in Marks
    BY DEF Marks
  <1>2. schedMap' \in [Threads -> Marks]
    BY <1>1 DEF Insert, TypeOK
  <1>3. since' \in [Threads \cup {Scheduler} -> SUBSET Threads]
    BY DEF Insert, TypeOK
  <1> QED
    BY <1>2, <1>3

\* A worker's store of a mark moves it to one of two control points.
LEMMA StoreTypes ==
  ASSUME TypeOK, NEW t \in Threads, NEW v \in Marks, NEW from, NEW link \in PcValues,
         NEW to \in PcValues, Store(t, v, from, link, to)
  PROVE  /\ schedMap' \in [Threads -> Marks]
         /\ since' \in [Threads \cup {Scheduler} -> SUBSET Threads]
         /\ pc' \in [Threads -> PcValues]
         /\ pc[t] \in {from, link}
         /\ \/ pc' = [pc EXCEPT ![t] = link]
            \/ pc' = [pc EXCEPT ![t] = to]
  <1>1. CASE schedMap' = [schedMap EXCEPT ![t] = v] /\ Goto(t, from, to) /\ UNCHANGED since
    BY <1>1 DEF TypeOK, Goto, PcValues
  <1>2. CASE Goto(t, from, link) /\ UNCHANGED <<schedMap, since>>
    BY <1>2 DEF TypeOK, Goto, PcValues
  <1>3. CASE Goto(t, link, to) /\ Insert(t, t, v)
    BY <1>3, InsertTypes DEF TypeOK, Goto, PcValues
  <1> QED
    BY <1>1, <1>2, <1>3 DEF Store

\* Every step keeps the types; the proof has one step per operation.
LEMMA TypeStep ==
  ASSUME IndInv, [Next]_vars
  PROVE  TypeOK'
  <1>0. TypeOK /\ CreationInv
    BY DEF IndInv
  <1>1. CASE CreateThread
    BY <1>0, <1>1, Constants DEF TypeOK, CreateThread, mainVars, schedVars, reqVars
  <1>2. CASE MapThread
    <2>0. made < N - 1 /\ made' = made + 1
      BY <1>0, <1>2 DEF MapThread, Goto, CreationInv
    <2>1. made + 1 \in Threads /\ made' \in 0..(N - 1) /\ CoreOf(made + 1) \in Cores
      BY <1>0, <2>0, NextThread, Constants
    <2>2. pc' \in [Threads -> PcValues]
      BY <1>0, <1>2 DEF TypeOK, MapThread, Goto, PcValues
    <2>3. opened' \subseteq Cores
      BY <1>0, <1>2, <2>1 DEF TypeOK, MapThread, OpenedFor
    <2>4. core_mapping' \in [Threads -> Cores \cup {Absent}]
      BY <1>0, <1>2, <2>1 DEF TypeOK, MapThread
    <2> QED
      BY <1>0, <1>2, <2>1, <2>2, <2>3, <2>4 DEF TypeOK, MapThread, PcValues, schedVars, reqVars
  <1>3. CASE StartScheduler
    BY <1>0, <1>3, Constants DEF TypeOK, StartScheduler, Goto, mainVars, schedVars, reqVars
  <1>4. CASE Fini
    BY <1>0, <1>4, Constants DEF TypeOK, Fini, StopFlag, mainVars, schedVars, reqVars
  <1>5. CASE JoinScheduler
    BY <1>0, <1>5 DEF TypeOK, JoinScheduler, mainVars, schedVars, reqVars
  <1>6. CASE ScanBegin
    BY <1>0, <1>6 DEF TypeOK, ScanBegin, mainVars, schedVars, reqVars
  <1>7. CASE InsertDefault
    <2>1. 0 \in Marks /\ at \in Threads
      BY <1>0, Constants DEF TypeOK, Marks
    <2>2. Insert(Scheduler, at, 0)
      BY <1>0, <1>7 DEF InsertDefault
    <2>3. schedMap' \in [Threads -> Marks] /\ since' \in [Threads \cup {Scheduler} -> SUBSET Threads]
      BY <1>0, <2>1, <2>2, InsertTypes
    <2> QED
      BY <1>0, <1>7, <2>3 DEF TypeOK, InsertDefault, Level, mainVars, schedVars, reqVars
  <1>8. CASE WriteFreq
    BY <1>0, <1>8, Constants DEF TypeOK, WriteFreq, mainVars, schedVars, reqVars
  <1>9. CASE ScanEnd
    BY <1>0, <1>9 DEF TypeOK, ScanEnd, mainVars, schedVars, reqVars
  <1>10. CASE SchedulerExits
    BY <1>0, <1>10 DEF TypeOK, SchedulerExits, mainVars, schedVars, reqVars
  <1>11. CASE Crash
    BY <1>0, <1>11 DEF TypeOK, Crash, mainVars, schedVars, reqVars
  <1>12. CASE \E t \in todo : Visit(t)
    BY <1>0, <1>12 DEF TypeOK, Visit, Level, mainVars, schedVars, reqVars
  <1>13. ASSUME NEW t \in Threads, Arrive(t) PROVE TypeOK'
    BY <1>0, <1>13 DEF TypeOK, Arrive, Goto, mainVars, schedVars, reqVars
  <1>14. ASSUME NEW t \in Threads, PassBarrier(t) PROVE TypeOK'
    BY <1>0, <1>14 DEF TypeOK, PassBarrier, Goto, mainVars, schedVars, reqVars
  <1>15. ASSUME NEW t \in Threads, CheckQuota(t) PROVE TypeOK'
    BY <1>0, <1>15 DEF TypeOK, CheckQuota, Goto, mainVars, schedVars, reqVars
  <1>16. ASSUME NEW t \in Threads, RecvReq(t) PROVE TypeOK'
    <2>0. left \in 0..Supply /\ left > 0 /\ left' = left - 1
      BY <1>0, <1>16 DEF TypeOK, RecvReq
    <2>1. left' \in 0..Supply
      BY <2>0, HurryUpAssumption
    <2>2. pc' \in [Threads -> PcValues]
      BY <1>0, <1>16 DEF TypeOK, RecvReq, Goto, PcValues
    <2> QED
      BY <1>0, <1>16, <2>1, <2>2 DEF TypeOK, RecvReq, PcValues, mainVars, schedVars, reqVars
  <1>17. ASSUME NEW t \in Threads, LookupCore(t) PROVE TypeOK'
    BY <1>0, <1>17 DEF TypeOK, LookupCore, Goto, mainVars, schedVars, reqVars
  <1>24. ASSUME NEW t \in Threads, InsertCore(t) PROVE TypeOK'
    <2>0. core_mapping' = [core_mapping EXCEPT ![t] = 0] /\ todo' \subseteq todo \cup {t}
      BY <1>24 DEF InsertCore
    <2>1. core_mapping' \in [Threads -> Cores \cup {Absent}] /\ todo' \subseteq Threads
      BY <1>0, <2>0, Constants DEF TypeOK
    <2>2. pc' \in [Threads -> PcValues]
      BY <1>0, <1>24 DEF TypeOK, InsertCore, Goto, PcValues
    <2> QED
      BY <1>0, <1>24, <2>1, <2>2 DEF TypeOK, InsertCore, PcValues, mainVars, reqVars
  <1>18. ASSUME NEW t \in Threads, MarkBusy(t) PROVE TypeOK'
    <2>1. core_mapping[t] \in Marks
      BY <1>0, <1>18 DEF TypeOK, Marks, IdleMark
    <2>2. Store(t, core_mapping[t], "mark", "linkMark", "search")
      BY <1>0, <1>18 DEF MarkBusy
    <2>3. /\ schedMap' \in [Threads -> Marks]
          /\ since' \in [Threads \cup {Scheduler} -> SUBSET Threads]
          /\ pc' \in [Threads -> PcValues]
      BY <1>0, <2>1, <2>2, StoreTypes DEF PcValues
    <2> QED
      BY <1>0, <1>18, <2>3 DEF TypeOK, PcValues, MarkBusy, mainVars, schedVars, reqVars
  <1>19. ASSUME NEW t \in Threads, MarkIdle(t) PROVE TypeOK'
    <2>1. IdleMark \in Marks
      BY <1>0, <1>19 DEF TypeOK, Marks, IdleMark
    <2>2. Store(t, IdleMark, "unmark", "linkIdle", "count")
      BY <1>0, <1>19 DEF MarkIdle
    <2>3. /\ schedMap' \in [Threads -> Marks]
          /\ since' \in [Threads \cup {Scheduler} -> SUBSET Threads]
          /\ pc' \in [Threads -> PcValues]
      BY <1>0, <2>1, <2>2, StoreTypes DEF PcValues
    <2> QED
      BY <1>0, <1>19, <2>3 DEF TypeOK, PcValues, MarkIdle, mainVars, schedVars, reqVars
  <1>20. ASSUME NEW t \in Threads, CountRequest(t) PROVE TypeOK'
    <2>0. numReqsProcessed \in Nat /\ numReqsProcessed' = numReqsProcessed + 1
      BY <1>0, <1>20 DEF TypeOK, CountRequest
    <2>1. numReqsProcessed' \in Nat
      BY <2>0
    <2>2. pc' \in [Threads -> PcValues]
      BY <1>0, <1>20 DEF TypeOK, CountRequest, Goto, PcValues
    <2> QED
      BY <1>0, <1>20, <2>1, <2>2 DEF TypeOK, CountRequest, PcValues, mainVars, schedVars, reqVars
  <1>21. ASSUME NEW t \in Threads, EndSearch(t) PROVE TypeOK'
    BY <1>0, <1>21 DEF TypeOK, EndSearch, Goto, mainVars, schedVars, reqVars
  <1>22. ASSUME NEW t \in Threads, ClientsGone(t) PROVE TypeOK'
    BY <1>0, <1>22 DEF TypeOK, ClientsGone, mainVars, schedVars, reqVars
  <1>23. CASE UNCHANGED vars
    BY <1>0, <1>23 DEF TypeOK, vars, mainVars, schedVars, reqVars, mainVars, schedVars, reqVars
  <1> QED
    BY <1>1, <1>2, <1>3, <1>4, <1>5, <1>6, <1>7, <1>8,
       <1>9, <1>10, <1>11, <1>12, <1>13, <1>14, <1>15, <1>16,
       <1>17, <1>18, <1>19, <1>20, <1>21, <1>22, <1>23, <1>24
    DEF Next, MainStep, SchedulerStep, WorkerStep, Stopped

-----------------------------------------------------------------------------
(* What the steps of the workers do to the state main and the scheduler use.*)

Busy == {"check", "recv", "lookup", "linkCore", "mark", "linkMark", "search", "unmark",
         "linkIdle", "count"}

\* A worker moves itself only, past the barrier only when that is open, and it
\* enters itself into core_mapping at most, as core 0.
WorkerMoves(t) ==
  /\ UNCHANGED <<made, opened, running, spc, at>>
  /\ \A u \in Threads \ {t} : pc'[u] = pc[u]
  /\ \/ pc'[t] = pc[t]
     \/ pc[t] = "start" /\ pc'[t] = "barrier"
     \/ pc[t] = "barrier" /\ BarrierOpen /\ pc'[t] = "check"
     \/ pc[t] \in Busy /\ pc'[t] \in Busy \cup {"done"}
  /\ pc'[t] = "linkCore" => pc[t] = "linkCore" \/ core_mapping[t] = Absent
  /\ \/ UNCHANGED <<core_mapping, todo>>
     \/ /\ pc[t] = "linkCore"
        /\ core_mapping' = [core_mapping EXCEPT ![t] = 0]
        /\ todo' \subseteq todo \cup {t}

\* Every operation of a worker does no more than WorkerMoves says.
LEMMA WorkersMove ==
  ASSUME TypeOK, NEW t \in Threads, WorkerStep(t) \/ EndSearch(t) \/ ClientsGone(t)
  PROVE  WorkerMoves(t)
  <1> USE DEF WorkerMoves, mainVars, schedVars
  <1>1. CASE Arrive(t)
    BY <1>1 DEF Arrive, Goto, TypeOK
  <1>2. CASE PassBarrier(t)
    BY <1>2 DEF PassBarrier, Goto, TypeOK
  <1>3. CASE CheckQuota(t)
    BY <1>3 DEF CheckQuota, Goto, TypeOK, Busy
  <1>4. CASE RecvReq(t)
    BY <1>4 DEF RecvReq, Goto, TypeOK, Busy
  <1>5. CASE LookupCore(t)
    BY <1>5 DEF LookupCore, Goto, TypeOK, Busy
  <1>11. CASE InsertCore(t)
    <2>1. pc[t] = "linkCore" /\ pc' = [pc EXCEPT ![t] = "mark"]
      BY <1>11 DEF InsertCore, Goto
    <2>2. core_mapping' = [core_mapping EXCEPT ![t] = 0] /\ todo' \subseteq todo \cup {t}
      BY <1>11 DEF InsertCore
    <2> QED
      BY <1>11, <2>1, <2>2 DEF InsertCore, TypeOK, Busy
  <1>6. CASE MarkBusy(t)
    <2>1. core_mapping[t] \in Marks
      BY DEF TypeOK, Marks
    <2>2. Store(t, core_mapping[t], "mark", "linkMark", "search")
      BY <1>6 DEF MarkBusy
    <2>3. /\ pc[t] \in {"mark", "linkMark"}
          /\ \/ pc' = [pc EXCEPT ![t] = "linkMark"]
             \/ pc' = [pc EXCEPT ![t] = "search"]
      BY <2>1, <2>2, StoreTypes DEF PcValues
    <2> QED
      BY <1>6, <2>3 DEF MarkBusy, TypeOK, Busy
  <1>7. CASE MarkIdle(t)
    <2>1. IdleMark \in Marks
      BY DEF IdleMark, Marks
    <2>2. Store(t, IdleMark, "unmark", "linkIdle", "count")
      BY <1>7 DEF MarkIdle
    <2>3. /\ pc[t] \in {"unmark", "linkIdle"}
          /\ \/ pc' = [pc EXCEPT ![t] = "linkIdle"]
             \/ pc' = [pc EXCEPT ![t] = "count"]
      BY <2>1, <2>2, StoreTypes DEF PcValues
    <2> QED
      BY <1>7, <2>3 DEF MarkIdle, TypeOK, Busy
  <1>8. CASE CountRequest(t)
    BY <1>8 DEF CountRequest, Goto, TypeOK, Busy
  <1>9. CASE EndSearch(t)
    BY <1>9 DEF EndSearch, Goto, TypeOK, Busy
  <1>10. CASE ClientsGone(t)
    BY <1>10 DEF ClientsGone
  <1> QED
    BY <1>1, <1>2, <1>3, <1>4, <1>5, <1>6, <1>7, <1>8, <1>9, <1>10, <1>11
    DEF WorkerStep

\* The steps of the scheduler, and a crash, leave main and the map of cores alone.
LEMMA SchedulerMoves ==
  ASSUME SchedulerStep \/ Crash
  PROVE  UNCHANGED <<pc, made, opened, running, core_mapping>>
  BY DEF SchedulerStep, Crash, ScanBegin, Visit, InsertDefault, WriteFreq, ScanEnd,
         SchedulerExits, mainVars

\* A step is one of main, of the scheduler, of a worker, or changes nothing.
LEMMA StepKinds ==
  ASSUME [Next]_vars
  PROVE  \/ MainStep
         \/ SchedulerStep \/ Crash
         \/ \E t \in Threads : WorkerStep(t) \/ EndSearch(t) \/ ClientsGone(t)
         \/ UNCHANGED vars
  BY DEF Next, Stopped

\* No thread is past the barrier before main is.
LEMMA PastBarrier ==
  ASSUME CreationInv, NEW t \in Created, pc[t] \notin Early
  PROVE  pc[Main] \notin {"create", "map", "start"} /\ made = N - 1
  BY DEF CreationInv

\* A created thread that is past the barrier is in core_mapping with its own core.
LEMMA MappedPastBarrier ==
  ASSUME IndInv, NEW t \in Created, pc[t] \notin Early
  PROVE  core_mapping[t] = CoreOf(t) /\ core_mapping[t] # Absent
  <1>1. made = N - 1 /\ t <= made
    BY PastBarrier, Constants DEF IndInv, Created
  <1>2. core_mapping[t] = CoreOf(t)
    BY <1>1 DEF IndInv, MappingInv
  <1>3. CoreOf(t) \in Nat
    BY Constants
  <1> QED
    BY <1>2, <1>3, Constants
-----------------------------------------------------------------------------
(* The parts of the invariant.                                             *)

\* Every step keeps the order of main's creation loop and the barrier.
LEMMA CreationStep ==
  ASSUME IndInv, [Next]_vars
  PROVE  CreationInv'
  <1> USE Constants DEF IndInv
  <1>1. CASE CreateThread
    <2>0. /\ pc[Main] = "create" /\ made < N - 1 /\ UNCHANGED <<made, spc>>
          /\ pc' = [pc EXCEPT ![Main] = "map", ![made + 1] = "start"]
      BY <1>1 DEF CreateThread, mainVars, schedVars
    <2>1. made + 1 \in Threads /\ made + 1 # Main
      BY <2>0, NextThread
    <2>2. pc'[Main] = "map" /\ \A t \in Created : pc'[t] \in {"start", pc[t]}
      BY <2>0, <2>1 DEF TypeOK
    <2>3. spc = "none" /\ \A t \in Created : pc[t] \in Early
      BY <2>0 DEF CreationInv
    <2>4. \A t \in Created : pc'[t] \in Early
      BY <2>2, <2>3 DEF Early
    <2> QED
      BY <2>0, <2>2, <2>3, <2>4 DEF CreationInv, Early
  <1>2. CASE MapThread
    <2>1. pc'[Main] = "create" /\ \A t \in Created : pc'[t] = pc[t]
      BY <1>2 DEF MapThread, Goto, TypeOK
    <2> QED
      BY <1>2, <2>1 DEF MapThread, Goto, CreationInv, schedVars
  <1>3. CASE StartScheduler
    <2>1. pc'[Main] = "start" /\ \A t \in Created : pc'[t] = pc[t]
      BY <1>3 DEF StartScheduler, Goto, TypeOK
    <2> QED
      BY <1>3, <2>1 DEF StartScheduler, Goto, CreationInv, mainVars
  <1>4. CASE Fini
    <2>1. pc'[Main] = "fini" /\ \A t \in Created : pc'[t] = pc[t]
      BY <1>4 DEF Fini, TypeOK
    <2>2. pc[Main] = "done"
      BY <1>4 DEF Fini, AllJoined
    <2> QED
      BY <1>4, <2>1, <2>2 DEF Fini, CreationInv, schedVars
  <1>5. CASE JoinScheduler
    BY <1>5 DEF JoinScheduler, CreationInv, mainVars, schedVars
  <1>6. CASE SchedulerStep \/ Crash
    <2>1. UNCHANGED <<pc, made>>
      BY <1>6, SchedulerMoves
    <2>2. spc' = "none" <=> spc = "none"
      BY <1>6 DEF SchedulerStep, Crash, ScanBegin, Visit, InsertDefault, WriteFreq,
                  ScanEnd, SchedulerExits, schedVars
    <2> QED
      BY <2>1, <2>2 DEF CreationInv
  <1>7. ASSUME NEW t \in Threads, WorkerStep(t) \/ EndSearch(t) \/ ClientsGone(t)
        PROVE  CreationInv'
    <2>1. WorkerMoves(t)
      BY <1>7, WorkersMove
    <2>2. CASE t = Main
      <3>1. \A u \in Created : pc'[u] = pc[u]
        BY <2>1, <2>2 DEF WorkerMoves
      <3>2. \/ pc'[Main] = pc[Main]
            \/ pc'[Main] \notin {"create", "map", "start", "none"}
               /\ pc[Main] \notin {"create", "map", "none"}
        BY <2>1, <2>2 DEF WorkerMoves, Busy
      <3> QED
        BY <2>1, <3>1, <3>2 DEF WorkerMoves, CreationInv
    <2>3. CASE t \in Created
      <3>1. pc'[Main] = pc[Main]
        BY <2>1, <2>3 DEF WorkerMoves
      <3>2. \A u \in Created : pc'[u] \notin {"create", "map", "fini"}
        BY <2>1, <2>3 DEF WorkerMoves, CreationInv, Busy
      <3>3. pc[Main] \in {"create", "map", "start"} => \A u \in Created : pc'[u] \in Early
        <4>1. CASE pc'[t] = pc[t] \/ (pc[t] = "start" /\ pc'[t] = "barrier")
          BY <2>1, <2>3, <4>1 DEF WorkerMoves, CreationInv, Early
        <4>2. CASE pc[t] = "barrier" /\ BarrierOpen
          BY <4>2, BarrierNeedsAll DEF Arrived
        <4>3. CASE pc[t] \in Busy
          BY <2>3, <4>3 DEF CreationInv, Early, Busy
        <4> QED
          BY <2>1, <4>1, <4>2, <4>3 DEF WorkerMoves
      <3> QED
        BY <2>1, <3>1, <3>2, <3>3 DEF WorkerMoves, CreationInv
    <2> QED
      BY <2>2, <2>3
  <1>8. CASE UNCHANGED vars
    BY <1>8 DEF vars, CreationInv, mainVars, schedVars
  <1> QED
    BY StepKinds, <1>1, <1>2, <1>3, <1>4, <1>5, <1>6, <1>7, <1>8 DEF MainStep

\* Every step keeps the entries of core_mapping: the created threads' are their
\* own cores, and main's is core 0 at most.
LEMMA MappingStep ==
  ASSUME IndInv, [Next]_vars
  PROVE  MappingInv'
  <1> USE Constants DEF IndInv
  <1>1. CASE CreateThread
    <2>0. /\ pc[Main] = "create" /\ made < N - 1
          /\ pc' = [pc EXCEPT ![Main] = "map", ![made + 1] = "start"]
      BY <1>1 DEF CreateThread
    <2>1. /\ pc'[Main] = "map" /\ pc[Main] = "create"
          /\ \A t \in Created : pc'[t] \in {pc[t], "start"}
      BY <2>0, NextThread DEF TypeOK
    <2> QED
      BY <1>1, <2>1 DEF CreateThread, MappingInv, mainVars
  <1>2. CASE MapThread
    <2>0. made < N - 1 /\ made' = made + 1
      BY <1>2 DEF MapThread, Goto, CreationInv
    <2>1. made + 1 \in Created /\ made + 1 \in Threads /\ made + 1 # Main /\ made \in Nat
      BY <2>0, NextThread
    <2>2. /\ core_mapping' = [core_mapping EXCEPT ![made + 1] = CoreOf(made + 1)]
          /\ opened' = opened \cup {CoreOf(made + 1)}
      BY <1>2 DEF MapThread, OpenedFor
    <2>3. /\ core_mapping'[made + 1] = CoreOf(made + 1)
          /\ \A t \in Threads \ {made + 1} : core_mapping'[t] = core_mapping[t]
      BY <2>1, <2>2 DEF TypeOK
    <2>4. \A t \in Created : t <= made + 1 => t = made + 1 \/ t <= made
      BY <2>1 DEF Created
    <2>5. \A t \in Created : t <= made' => core_mapping'[t] = CoreOf(t) /\ CoreOf(t) \in opened'
      BY <2>0, <2>1, <2>2, <2>3, <2>4 DEF MappingInv
    <2>6. core_mapping'[Main] = core_mapping[Main] /\ core_mapping[Main] = Absent
      BY <1>2, <2>1, <2>3 DEF MapThread, Goto, MappingInv
    <2>7. \A t \in Created : pc'[t] = pc[t]
      BY <1>2 DEF MapThread, Goto, TypeOK
    <2> QED
      BY <2>5, <2>6, <2>7 DEF MappingInv
  <1>3. CASE StartScheduler
    <2>1. pc'[Main] = "start" /\ \A t \in Created : pc'[t] = pc[t]
      BY <1>3 DEF StartScheduler, Goto, TypeOK
    <2> QED
      BY <1>3, <2>1 DEF StartScheduler, MappingInv, mainVars
  <1>4. CASE Fini
    <2>1. pc'[Main] = "fini" /\ \A t \in Created : pc'[t] = pc[t]
      BY <1>4 DEF Fini, TypeOK
    <2> QED
      BY <1>4, <2>1 DEF Fini, MappingInv
  <1>5. CASE JoinScheduler
    BY <1>5 DEF JoinScheduler, MappingInv, mainVars
  <1>6. CASE SchedulerStep \/ Crash
    BY <1>6, SchedulerMoves DEF MappingInv
  <1>7. ASSUME NEW t \in Threads, WorkerStep(t) \/ EndSearch(t) \/ ClientsGone(t)
        PROVE  MappingInv'
    <2>1. WorkerMoves(t)
      BY <1>7, WorkersMove
    <2>2. pc'[Main] \in {"create", "map"} => pc[Main] \in {"create", "map"}
      BY <2>1 DEF WorkerMoves, Busy
    <2>5. \A u \in Created : pc'[u] # "linkCore"
      <3>1. pc'[t] = "linkCore" => pc[t] = "linkCore" \/ (core_mapping[t] = Absent /\ pc[t] \notin Early)
        BY <2>1 DEF WorkerMoves, Busy, Early
      <3>2. t \in Created => pc'[t] # "linkCore"
        BY <3>1, MappedPastBarrier DEF MappingInv
      <3> QED
        BY <2>1, <3>2 DEF WorkerMoves, MappingInv
    <2>3. CASE UNCHANGED core_mapping
      BY <2>1, <2>2, <2>3, <2>5 DEF WorkerMoves, MappingInv
    <2>4. CASE /\ pc[t] = "linkCore"
               /\ core_mapping' = [core_mapping EXCEPT ![t] = 0]
      <3>1. t = Main
        BY <2>4 DEF MappingInv
      <3>2. core_mapping'[Main] = 0 /\ \A u \in Created : core_mapping'[u] = core_mapping[u]
        BY <2>4, <3>1 DEF TypeOK
      <3>3. pc[Main] \notin {"create", "map"}
        BY <2>4, <3>1
      <3> QED
        BY <2>1, <2>2, <2>5, <3>2, <3>3 DEF WorkerMoves, MappingInv
    <2> QED
      BY <2>1, <2>3, <2>4 DEF WorkerMoves
  <1>8. CASE UNCHANGED vars
    BY <1>8 DEF vars, MappingInv, mainVars
  <1> QED
    BY StepKinds, <1>1, <1>2, <1>3, <1>4, <1>5, <1>6, <1>7, <1>8 DEF MainStep

\* No step takes a thread out of core_mapping.
LEMMA MappedGrows ==
  ASSUME IndInv, [Next]_vars
  PROVE  Mapped \subseteq Mapped'
  <1>1. CASE MapThread
    <2>0. /\ made < N - 1
          /\ core_mapping' = [core_mapping EXCEPT ![made + 1] = CoreOf(made + 1)]
      BY <1>1 DEF MapThread, Goto, IndInv, CreationInv
    <2>1. CoreOf(made + 1) # Absent
      BY <2>0, NextThread, Constants DEF IndInv
    <2>2. \A t \in Threads : core_mapping'[t] \in {core_mapping[t], CoreOf(made + 1)}
      BY <2>0 DEF IndInv, TypeOK
    <2> QED
      BY <2>1, <2>2 DEF Mapped
  <1>2. CASE CreateThread \/ StartScheduler \/ Fini \/ JoinScheduler
    BY <1>2 DEF CreateThread, StartScheduler, Fini, JoinScheduler, Mapped
  <1>3. CASE SchedulerStep \/ Crash
    BY <1>3, SchedulerMoves DEF Mapped
  <1>4. ASSUME NEW t \in Threads, WorkerStep(t) \/ EndSearch(t) \/ ClientsGone(t)
        PROVE  Mapped \subseteq Mapped'
    <2>1. WorkerMoves(t)
      BY <1>4, WorkersMove DEF IndInv
    <2>2. 0 # Absent
      BY DEF Absent
    <2> QED
      BY <2>1, <2>2 DEF WorkerMoves, Mapped, IndInv, TypeOK
  <1>5. CASE UNCHANGED vars
    BY <1>5 DEF vars, Mapped
  <1> QED
    BY StepKinds, <1>1, <1>2, <1>3, <1>4, <1>5 DEF MainStep

\* Every step keeps the scheduler's scan within core_mapping.
LEMMA ScanStep ==
  ASSUME IndInv, [Next]_vars
  PROVE  ScanInv'
  <1> USE DEF IndInv, ScanInv
  <1>1. CASE MainStep \/ Crash \/ UNCHANGED vars
    <2>1. UNCHANGED <<todo, at>> /\ (spc' = spc \/ spc' = "test")
      BY <1>1 DEF MainStep, CreateThread, MapThread, StartScheduler, Fini, JoinScheduler,
                  Crash, vars, schedVars
    <2> QED
      BY <2>1, MappedGrows
  <1>2. CASE SchedulerStep
    <2>0. UNCHANGED core_mapping
      BY <1>2, SchedulerMoves
    <2>1. CASE ScanBegin
      BY <2>0, <2>1 DEF ScanBegin, Mapped
    <2>2. ASSUME NEW t \in todo, Visit(t) PROVE ScanInv'
      BY <2>0, <2>2 DEF Visit, Mapped
    <2>3. CASE InsertDefault
      BY <2>0, <2>3 DEF InsertDefault, Mapped
    <2>4. CASE WriteFreq
      BY <2>0, <2>4 DEF WriteFreq, Mapped
    <2>5. CASE ScanEnd
      BY <2>0, <2>5 DEF ScanEnd, Mapped
    <2>6. CASE SchedulerExits
      BY <2>0, <2>6 DEF SchedulerExits, Mapped
    <2> QED
      BY <1>2, <2>1, <2>2, <2>3, <2>4, <2>5, <2>6 DEF SchedulerStep
  <1>3. ASSUME NEW t \in Threads, WorkerStep(t) \/ EndSearch(t) \/ ClientsGone(t)
        PROVE  ScanInv'
    <2>1. WorkerMoves(t)
      BY <1>3, WorkersMove
    <2>2. CASE UNCHANGED <<core_mapping, todo>>
      BY <2>1, <2>2 DEF WorkerMoves, Mapped
    <2>3. CASE /\ core_mapping' = [core_mapping EXCEPT ![t] = 0]
               /\ todo' \subseteq todo \cup {t}
      <3>0. core_mapping'[t] = 0
        BY <2>3 DEF TypeOK
      <3>1. t \in Mapped'
        BY <3>0 DEF Mapped, Absent
      <3> QED
        BY <2>1, <2>3, <3>1, MappedGrows DEF WorkerMoves
    <2> QED
      BY <2>1, <2>2, <2>3 DEF WorkerMoves
  <1> QED
    BY StepKinds, <1>1, <1>2, <1>3

\* Every step keeps the scheduler from being stopped before the workers are through.
LEMMA StopStep ==
  ASSUME IndInv, [Next]_vars
  PROVE  StopInv'
  <1> USE Constants DEF IndInv, StopInv
  <1>1. CASE CreateThread
    <2>1. running /\ spc # "exit"
      BY <1>1 DEF CreateThread
    <2> QED
      BY <1>1, <2>1 DEF CreateThread, mainVars, schedVars
  <1>2. CASE MapThread
    BY <1>2 DEF MapThread, Goto, schedVars
  <1>3. CASE StartScheduler
    BY <1>3 DEF StartScheduler, Goto, mainVars
  <1>4. CASE Fini
    <2>1. \A t \in Threads : pc[t] = "done"
      BY <1>4 DEF Fini, AllJoined
    <2>2. pc'[Main] = "fini" /\ \A t \in Created : pc'[t] = "done"
      BY <1>4, <2>1 DEF Fini, TypeOK
    <2> QED
      BY <1>4, <2>2 DEF Fini, StopFlag, schedVars
  <1>5. CASE JoinScheduler
    BY <1>5 DEF JoinScheduler, mainVars, schedVars
  <1>6. CASE SchedulerStep \/ Crash
    <2>1. UNCHANGED <<pc, running>>
      BY <1>6, SchedulerMoves
    <2>2. spc' = "exit" => spc = "exit" \/ ~running
      BY <1>6 DEF SchedulerStep, Crash, ScanBegin, Visit, InsertDefault, WriteFreq,
                  ScanEnd, SchedulerExits, schedVars
    <2> QED
      BY <2>1, <2>2
  <1>7. ASSUME NEW t \in Threads, WorkerStep(t) \/ EndSearch(t) \/ ClientsGone(t)
        PROVE  StopInv'
    <2>1. WorkerMoves(t)
      BY <1>7, WorkersMove
    <2>2. ~running => \A u \in Threads : pc'[u] = pc[u]
      BY <2>1 DEF WorkerMoves, Busy
    <2> QED
      BY <2>1, <2>2 DEF WorkerMoves
  <1>8. CASE UNCHANGED vars
    BY <1>8 DEF vars, mainVars, schedVars
  <1> QED
    BY StepKinds, <1>1, <1>2, <1>3, <1>4, <1>5, <1>6, <1>7, <1>8 DEF MainStep

\* The invariant holds of every reachable state.
LEMMA IndInvHolds == Spec => []IndInv
  <1>1. IndInv /\ [Next]_vars => IndInv'
    BY TypeStep, CreationStep, MappingStep, ScanStep, StopStep DEF IndInv
  <1> QED
    BY IndInvInit, <1>1, PTL DEF Spec
-----------------------------------------------------------------------------
\* All variables keep their types; schedMap holds nothing but cores and -1.
THEOREM TypeCorrect == Spec => []TypeOK
  BY IndInvHolds, PTL DEF IndInv

\* No created thread looks up its core before main has entered it, whatever the
\* number of threads: the barrier is wide enough.
THEOREM WorkersAreMapped == Spec => []ServesMapped
  <1>1. IndInv => ServesMapped
    BY MappedPastBarrier DEF ServesMapped, Early
  <1> QED
    BY IndInvHolds, <1>1, PTL

\* With any number of servers above one, also above the 13 that fd has room for,
\* the scheduler writes for no core but those whose file main has opened.
THEOREM WritesAreOpened == Spec => []WritesOpened
  <1>1. ASSUME IndInv, N > 1, spc = "write" PROVE core_mapping[at] \in opened
    <2>1. at \in Threads /\ core_mapping[at] # Absent /\ made = N - 1
      BY <1>1, Constants DEF IndInv, ScanInv, Mapped, CreationInv
    <2>2. \A t \in Created : t <= made
      BY <2>1, Constants DEF Created
    <2>3. \A t \in Created : core_mapping[t] = CoreOf(t) /\ CoreOf(t) \in opened
      BY <1>1, <2>2 DEF IndInv, MappingInv
    <2>4. 0 \in opened
      BY <1>1, <2>3, Constants
    <2> QED
      BY <1>1, <2>1, <2>3, <2>4, Constants DEF IndInv, MappingInv
  <1>2. IndInv => WritesOpened
    BY <1>1 DEF WritesOpened
  <1> QED
    BY IndInvHolds, <1>2, PTL

\* While a query is being evaluated the scheduler runs and has not been stopped.
THEOREM SearchesAreWatched == Spec => []SearchIsWatched
  <1>1. IndInv => SearchIsWatched
    BY Constants DEF IndInv, StopInv, SearchIsWatched
  <1> QED
    BY IndInvHolds, <1>1, PTL

\* With all entries in place, no step inserts or removes one.
LEMMA SettledStep ==
  ASSUME IndInv, [Next]_vars, Settled
  PROVE  Settled'
  <1> DEFINE Link == {"linkMark", "linkIdle"}
             Calm == /\ \A t \in Threads : schedMap'[t] # Absent /\ pc'[t] \notin Link
                     /\ spc' # "link"
  <1>1. \A t \in Threads : core_mapping[t] # Absent /\ schedMap[t] # Absent /\ pc[t] \notin Link
    BY DEF Settled, Inserting
  <1>2. spc # "link"
    BY DEF Settled, Inserting
  <1>3. TypeOK /\ CreationInv
    BY DEF IndInv
  <1>4. ASSUME MainStep PROVE Calm
    <2>1. UNCHANGED schedMap
      BY <1>4 DEF MainStep, CreateThread, MapThread, StartScheduler, Fini, JoinScheduler
    <2>2. spc' # "link"
      BY <1>2, <1>4 DEF MainStep, CreateThread, MapThread, StartScheduler, Fini,
                        JoinScheduler, schedVars
    <2>3. \A t \in Threads : pc'[t] \in {pc[t], "map", "start", "create", "fini"}
      BY <1>3, <1>4 DEF MainStep, CreateThread, MapThread, StartScheduler, Fini,
                        JoinScheduler, Goto, TypeOK
    <2> QED
      BY <1>1, <2>1, <2>2, <2>3
  <1>5. ASSUME SchedulerStep \/ Crash PROVE Calm
    <2>1. UNCHANGED pc
      BY <1>5, SchedulerMoves
    <2>2. ~InsertDefault
      BY <1>2 DEF InsertDefault
    <2>3. ASSUME NEW t \in todo, Visit(t) PROVE UNCHANGED schedMap /\ spc' # "link"
      <3>1. t \in Threads
        BY <1>3 DEF TypeOK
      <3> QED
        BY <1>1, <2>3, <3>1 DEF Visit
    <2>4. UNCHANGED schedMap /\ spc' # "link"
      BY <1>2, <1>5, <2>2, <2>3 DEF SchedulerStep, Crash, ScanBegin, WriteFreq, ScanEnd,
                                    SchedulerExits, schedVars
    <2> QED
      BY <1>1, <2>1, <2>4
  <1>6. ASSUME NEW t \in Threads, WorkerStep(t) \/ EndSearch(t) \/ ClientsGone(t)
        PROVE  Calm
    <2>1. spc' = spc /\ \A u \in Threads \ {t} : pc'[u] = pc[u]
      BY <1>3, <1>6, WorkersMove DEF WorkerMoves
    <2>2. ASSUME NEW v, v # Absent, NEW from, NEW link \in Link, NEW to \in PcValues \ Link,
                 Store(t, v, from, link, to)
          PROVE  pc'[t] \notin Link /\ \A u \in Threads : schedMap'[u] # Absent
      <3>1. pc[t] # link /\ schedMap[t] # Absent
        BY <1>1
      <3>2. pc' = [pc EXCEPT ![t] = to] /\ schedMap' = [schedMap EXCEPT ![t] = v]
        BY <2>2, <3>1 DEF Store, Goto
      <3> QED
        BY <1>1, <1>3, <2>2, <3>2 DEF TypeOK
    <2>3. CASE MarkBusy(t)
      <3>1. Store(t, core_mapping[t], "mark", "linkMark", "search")
        BY <2>3 DEF MarkBusy
      <3> QED
        BY <1>1, <1>2, <2>1, <2>2, <3>1 DEF PcValues
    <2>4. CASE MarkIdle(t)
      <3>1. Store(t, IdleMark, "unmark", "linkIdle", "count")
        BY <2>4 DEF MarkIdle
      <3>2. IdleMark # Absent
        BY DEF IdleMark, Idle, Absent
      <3> QED
        BY <1>1, <1>2, <2>1, <2>2, <3>1, <3>2 DEF PcValues
    <2>5. CASE ~MarkBusy(t) /\ ~MarkIdle(t)
      <3>1. UNCHANGED schedMap
        BY <1>6, <2>5 DEF WorkerStep, Arrive, PassBarrier, CheckQuota, RecvReq, LookupCore,
                          InsertCore, CountRequest, EndSearch, ClientsGone
      <3>2. pc'[t] \in {pc[t], "barrier", "check", "recv", "done", "lookup", "linkCore",
                        "mark", "unmark"}
        BY <1>3, <1>6, <2>5 DEF WorkerStep, Arrive, PassBarrier, CheckQuota, RecvReq,
           LookupCore, InsertCore, CountRequest, EndSearch, ClientsGone, Goto, TypeOK
      <3> QED
        BY <1>1, <1>2, <2>1, <3>1, <3>2
    <2> QED
      BY <2>3, <2>4, <2>5
  <1>7. ASSUME UNCHANGED vars PROVE Calm
    BY <1>1, <1>2, <1>7 DEF vars, schedVars
  <1>8. Calm
    BY StepKinds, <1>4, <1>5, <1>6, <1>7
  <1>9. \A t \in Threads : core_mapping'[t] # Absent
    BY <1>1, MappedGrows DEF Mapped
  <1> QED
    BY <1>8, <1>9 DEF Settled, Inserting

\* The maps are not restructured any more once every thread has its entries: the
\* unlocked accesses of a warmed-up server only touch values.
THEOREM SettledForGood == Spec => SettledStays
  <1>1. IndInv /\ [Next]_vars => [Settled => Settled']_vars
    BY SettledStep
  <1> QED
    BY IndInvHolds, <1>1, PTL DEF Spec, SettledStays
-----------------------------------------------------------------------------
(* The governor.                                                           *)

\* Whatever the governor does is a step of the scheduler it was derived from.
LEMMA StepRefines ==
  ASSUME [OndemNext]_ondemVars
  PROVE  [Next]_vars
  <1>1. CASE OndemNext
    <2>1. (OndemCreate \/ OndemStop) => MainStep
      BY DEF OndemCreate, OndemStop, MainStep
    <2>2. OndemScheduler => SchedulerStep
      BY DEF OndemScheduler, OndemScan, VisitNext, Govern, SchedulerStep
    <2>3. ASSUME NEW t \in Threads, OndemWorker(t) PROVE WorkerStep(t)
      BY <2>3 DEF OndemWorker, OndemRun, OndemRequest, WorkerStep
    <2>4. ASSUME NEW t \in Threads, OndemSearch(t) PROVE EndSearch(t)
      BY <2>4 DEF OndemSearch
    <2>5. Next
      BY <1>1, <2>1, <2>2, <2>3, <2>4 DEF OndemNext, Next
    <2> QED
      BY <2>5
  <1>2. CASE UNCHANGED ondemVars
    BY <1>2 DEF ondemVars
  <1> QED
    BY <1>1, <1>2

\* So the governor implements the scheduler of xapian-hurryup.
LEMMA ImplementsHurryUp == OndemSpec => Spec
  <1>1. OndemInit => Init
    BY DEF OndemInit
  <1>2. [OndemNext]_ondemVars => [Next]_vars
    BY StepRefines
  <1> QED
    BY <1>1, <1>2, PTL DEF OndemSpec, Spec

\* Its maps settle for good.
THEOREM OndemSettledForGood == OndemSpec => SettledStays
  BY ImplementsHurryUp, SettledForGood, PTL

\* Both moves of a step stay in the table.
LEMMA MovesStay ==
  ASSUME NEW s \in 0..Top
  PROVE  Raised(s) \in 0..Top /\ Lowered(s) \in 0..Top
  <1>1. Raised(s) \in 0..Top
    BY DEF Raised, Top
  <1>2. CASE 10 * s - 4 * QPS >= 0
    <2>1. (10 * s - 12) \div 10 \in 0..Top
      BY <1>2 DEF Top, QPS
    <2> QED
      BY <1>1, <1>2, <2>1 DEF Lowered, Toward0, QPS, Top
  <1>3. CASE ~(10 * s - 4 * QPS >= 0)
    <2>1. (12 - 10 * s) \div 10 \in 0..1
      BY <1>3 DEF Top, QPS
    <2>2. -(10 * s - 12) = 12 - 10 * s
      BY DEF Top
    <2> QED
      BY <1>1, <1>3, <2>1, <2>2 DEF Lowered, Toward0, QPS, Top
  <1> QED
    BY <1>2, <1>3

\* No raise or lowering, in any order and on any core, leaves the table of
\* fourteen frequencies.
THEOREM StepsStayInTable == OndemSpec => []StepInTable
  <1>1. OndemInit => StepInTable
    BY DEF OndemInit, StepInTable, Top
  <1>2. ASSUME StepInTable, [OndemNext]_ondemVars PROVE StepInTable'
    <2>1. CASE Govern
      <3>1. ASSUME NEW c \in Governed PROVE coreFreqs'[c] \in 0..Top
        BY <1>2, <2>1, MovesStay DEF Govern, StepInTable
      <3>2. coreFreqs' = [c \in Governed |-> coreFreqs'[c]]
        BY <1>2, <2>1 DEF Govern, StepInTable
      <3> QED
        BY <3>1, <3>2 DEF StepInTable
    <2>2. CASE UNCHANGED coreFreqs
      BY <1>2, <2>2 DEF StepInTable
    <2> QED
      BY <1>2, <2>1, <2>2 DEF OndemNext, OndemCreate, OndemStop, OndemScheduler, OndemScan,
           OndemWorker, OndemRun, OndemRequest, OndemSearch, ondemVars
  <1> QED
    BY <1>1, <1>2, PTL DEF OndemSpec
=============================================================================
