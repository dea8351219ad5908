------------------------------ MODULE HurryUp ------------------------------
(***************************************************************************)
(* The hurry-up scheduler of xapian-hurryup.  main creates the server      *)
(* threads, pins the i-th one to core 2(i-1) and opens that core's         *)
(* frequency file; it is itself the last server thread, and is not pinned. *)
(* A worker marks itself in schedMap with its core while it evaluates a    *)
(* query and with -1 otherwise.  The scheduler thread goes over            *)
(* core_mapping and writes the high frequency for a thread whose mark is   *)
(* its core, the low one for any other.                                    *)
(*                                                                         *)
(* Both maps are unordered_maps without a lock.  operator[] inserts a      *)
(* missing key with the value 0.  Of the data races the model admits that  *)
(* of two insertions that overlap the one that ends last cuts off any key  *)
(* the other one linked in the meantime; that a scan misses entries of a   *)
(* map that grows under it; and that any lookup, scan or insertion that    *)
(* overlaps an insertion crashes the process.                              *)
(***************************************************************************)
EXTENDS Integers, FiniteSets

CONSTANTS
  N,                 \* numServers, the -n argument
  NumReqsToProcess,  \* the -r argument
  Supply             \* bound: requests that the clients send

FdSize == 24         \* int fd[24]

\* main does not check -n: with one server no file is opened and fd[0] is the
\* standard input, with more than 13 the last ones are stored behind fd.
ASSUME HurryUpAssumption ==
  /\ N \in Nat \ {0}
  /\ NumReqsToProcess \in Nat /\ Supply \in Nat

Threads   == 1..N
Main      == N
Created   == 1..(N - 1)
Scheduler == 0
CoreOf(i) == 2 * (i - 1)
Cores     == {0} \cup {CoreOf(i) : i \in Created}
Absent    == -2      \* no such key in the map
Idle      == -1      \* the mark of a thread that evaluates nothing

VARIABLES
  process,        \* "up", or how it ended
  pc,             \* control point of each server thread
  made,           \* the loop counter of main's creation loop
  opened,         \* the cores whose frequency file is open in fd
  core_mapping,   \* the two maps, Absent for a key that is not there
  schedMap,
  since,          \* keys linked into schedMap while a user was inserting
  numReqsProcessed,
  left,           \* requests that are still to come
  running,        \* the flag that stops the scheduler
  spc, todo, at, level,  \* the scheduler: control, scan, entry, decision
  freq            \* what was last written to each core's descriptor

mainVars  == <<made, opened, running>>
schedVars == <<spc, todo, at, level, freq>>
reqVars   == <<numReqsProcessed, left>>
vars == <<process, pc, mainVars, core_mapping, schedMap, since, reqVars, schedVars>>

Init ==
  /\ process = "up"
  /\ pc = [t \in Threads |-> IF t = Main THEN "create" ELSE "none"]
  /\ made = 0 /\ opened = {} /\ running = TRUE
  /\ core_mapping = [t \in Threads |-> Absent]
  /\ schedMap = [t \in Threads |-> Absent]
  /\ since = [u \in Threads \cup {Scheduler} |-> {}]
  /\ numReqsProcessed = 0 /\ left = Supply
  /\ spc = "none" /\ todo = {} /\ at = Main /\ level = "min"
  /\ freq = [c \in Cores |-> "unset"]

Goto(t, from, to) == pc[t] = from /\ pc' = [pc EXCEPT ![t] = to]

\* An operator whose name ends in _Faulty is the one behind it with a plausible
\* mistake; no specification uses it.
-----------------------------------------------------------------------------
(* main: creation of the threads.                                          *)
CreateThread ==
  /\ pc[Main] = "create" /\ made < N - 1
  /\ pc' = [pc EXCEPT ![Main] = "map", ![made + 1] = "start"]
  /\ UNCHANGED <<process, mainVars, core_mapping, schedMap, since, reqVars, schedVars>>

\* open the frequency file, pin the thread, enter it into core_mapping. An index
\* past the end of fd overwrites what lies there, unnoticed or not.
OpenedFor_Faulty(i) == CoreOf(i + 1)
OpenedFor(i) == CoreOf(i)
MapThread ==
  /\ Goto(Main, "map", "create")
  /\ made' = made + 1
  /\ opened' = opened \cup {OpenedFor(made + 1)}
  /\ core_mapping' = [core_mapping EXCEPT ![made + 1] = CoreOf(made + 1)]
  /\ process' \in {"up"} \cup (IF CoreOf(made + 1) < FdSize THEN {} ELSE {"crashed"})
  /\ UNCHANGED <<running, schedMap, since, reqVars, schedVars>>

\* pthread_create(&hurryup, ...), and on to Server::run.
StartScheduler ==
  /\ made = N - 1
  /\ Goto(Main, "create", "start")
  /\ spc' = "test"
  /\ UNCHANGED <<process, mainVars, core_mapping, schedMap, since, reqVars,
                 todo, at, level, freq>>
-----------------------------------------------------------------------------
(* schedMap[k] = v, for a user u of the map: at once if the key is found,  *)
(* else in two steps.                                                      *)
Inserting == {t \in Threads : pc[t] \in {"linkMark", "linkIdle"}}
               \cup (IF spc = "link" THEN {Scheduler} ELSE {})

Insert(u, k, v) ==
  /\ \E cut \in SUBSET (since[u] \ {k}) :
       schedMap' = [t \in Threads |-> IF t = k THEN v
                                      ELSE IF t \in cut THEN Absent
                                      ELSE schedMap[t]]
  /\ since' = [w \in DOMAIN since |->
                 IF w \in Inserting \ {u} THEN since[w] \cup {k} ELSE {}]

Store(t, v, from, link, to) ==
  \/ /\ schedMap[t] # Absent
     /\ Goto(t, from, to)
     /\ schedMap' = [schedMap EXCEPT ![t] = v]
     /\ UNCHANGED since
  \/ /\ schedMap[t] = Absent
     /\ Goto(t, from, link)
     /\ UNCHANGED <<schedMap, since>>
  \/ /\ Goto(t, link, to)
     /\ Insert(t, t, v)

\* Who looks keys up in schedMap, and who looks them up in core_mapping or
\* iterates over it.
Readers == {t \in Threads : pc[t] \in {"mark", "unmark"}}
             \cup (IF spc = "scan" /\ todo # {} THEN {Scheduler} ELSE {})
MappingReaders == {t \in Threads : pc[t] = "lookup"}
                    \cup (IF spc \in {"scan", "link", "write"} THEN {Scheduler} ELSE {})

\* The worst outcome of an insertion that overlaps another insertion, a lookup
\* or the scheduler's iteration.
Crash ==
  /\ \/ \E u \in Inserting : since[u] # {} \/ Readers # {}
     \/ \E t \in Threads : pc[t] = "linkCore" /\ MappingReaders # {}
  /\ process' = "crashed"
  /\ UNCHANGED <<pc, mainVars, core_mapping, schedMap, since, reqVars, schedVars>>
-----------------------------------------------------------------------------
(* The workers: Server::_run and processRequest.                           *)
Arrive(t) ==
  /\ Goto(t, "start", "barrier")
  /\ UNCHANGED <<process, mainVars, core_mapping, schedMap, since, reqVars, schedVars>>

\* pthread_barrier_wait, for numServers threads.
Arrived == {t \in Threads : pc[t] \notin {"none", "create", "map", "start"}}
BarrierOpen_Faulty == Cardinality(Arrived) >= N - 1
BarrierOpen == Cardinality(Arrived) >= N
PassBarrier(t) ==
  /\ BarrierOpen
  /\ Goto(t, "barrier", "check")
  /\ UNCHANGED <<process, mainVars, core_mapping, schedMap, since, reqVars, schedVars>>

CheckQuota(t) ==
  /\ \/ numReqsProcessed < NumReqsToProcess /\ Goto(t, "check", "recv")
     \/ numReqsProcessed >= NumReqsToProcess /\ Goto(t, "check", "done")
  /\ UNCHANGED <<process, mainVars, core_mapping, schedMap, since, reqVars, schedVars>>

RecvReq(t) ==
  /\ left > 0
  /\ Goto(t, "recv", "lookup")
  /\ left' = left - 1
  /\ UNCHANGED <<process, mainVars, core_mapping, schedMap, since,
                 numReqsProcessed, schedVars>>

\* All clients left: the harness calls exit(0).
ClientsGone(t) ==
  /\ left = 0 /\ pc[t] = "recv"
  /\ process' = "exit 0"
  /\ UNCHANGED <<pc, mainVars, core_mapping, schedMap, since, reqVars, schedVars>>

\* core_mapping[autoThread]. main is not in the map: its first request enters
\* it with core 0; nobody else inserts into this map any more.
LookupCore(t) ==
  /\ \/ core_mapping[t] # Absent /\ Goto(t, "lookup", "mark")
     \/ core_mapping[t] = Absent /\ Goto(t, "lookup", "linkCore")
  /\ UNCHANGED <<process, mainVars, core_mapping, schedMap, since, reqVars, schedVars>>

\* An iteration that is under way may or may not meet the new entry, and may miss
\* others when the table grows. (A lookup that is under way while it grows could
\* also miss its own key and enter a second one: not modelled, the table would
\* have to grow at this very insertion.)
InsertCore(t) ==
  /\ Goto(t, "linkCore", "mark")
  /\ core_mapping' = [core_mapping EXCEPT ![t] = 0]
  /\ todo' \in IF todo = {} THEN {todo} ELSE SUBSET (todo \cup {t})
  /\ UNCHANGED <<process, mainVars, schedMap, since, reqVars, spc, at, level, freq>>

MarkBusy(t) ==
  /\ Store(t, core_mapping[t], "mark", "linkMark", "search")
  /\ UNCHANGED <<process, mainVars, core_mapping, reqVars, schedVars>>

\* parse_query and get_mset.
EndSearch(t) ==
  /\ Goto(t, "search", "unmark")
  /\ UNCHANGED <<process, mainVars, core_mapping, schedMap, since, reqVars, schedVars>>

IdleMark_Faulty == Absent
IdleMark_FaultyZero == 0
IdleMark == Idle
MarkIdle(t) ==
  /\ Store(t, IdleMark, "unmark", "linkIdle", "count")
  /\ UNCHANGED <<process, mainVars, core_mapping, reqVars, schedVars>>

CountRequest(t) ==
  /\ Goto(t, "count", "check")
  /\ numReqsProcessed' = numReqsProcessed + 1
  /\ UNCHANGED <<process, mainVars, core_mapping, schedMap, since, left, schedVars>>
-----------------------------------------------------------------------------
(* hurryScheduler.                                                         *)

\* The loop condition. As hurryScheduler returns a pointer but has no return
\* statement, a compiler that optimises (g++ -O3 does) takes the end of the loop
\* for unreachable and drops the test of running: the scan may go on whatever
\* running is.
ScanBegin ==
  /\ spc = "test"
  /\ spc' = "scan"
  /\ todo' = {t \in Threads : core_mapping[t] # Absent}
  /\ UNCHANGED <<process, pc, mainVars, core_mapping, schedMap, since, reqVars,
                 at, level, freq>>

\* if (schedMap[x.first] == x.second)
Level_Faulty(mark, core) == IF mark >= 0 THEN "max" ELSE "min"
Level(mark, core) == IF mark = core THEN "max" ELSE "min"

Visit(t) ==
  /\ spc = "scan" /\ t \in todo
  /\ at' = t
  /\ \/ /\ schedMap[t] # Absent
        /\ level' = Level(schedMap[t], core_mapping[t])
        /\ spc' = "write"
     \/ /\ schedMap[t] = Absent
        /\ spc' = "link"
        /\ UNCHANGED level
  /\ UNCHANGED <<process, pc, mainVars, core_mapping, schedMap, since, reqVars,
                 todo, freq>>

\* operator[] has not found the thread's mark and inserts 0.
InsertDefault ==
  /\ spc = "link"
  /\ Insert(Scheduler, at, 0)
  /\ level' = Level(0, core_mapping[at])
  /\ spc' = "write"
  /\ UNCHANGED <<process, pc, mainVars, core_mapping, reqVars, todo, at, freq>>

\* write and lseek on fd[x.second]; the loop's locals are done with.
WriteFreq ==
  /\ spc = "write"
  /\ freq' = [freq EXCEPT ![core_mapping[at]] = level]
  /\ todo' = todo \ {at}
  /\ spc' = "scan"
  /\ at' = Main /\ level' = "min"
  /\ UNCHANGED <<process, pc, mainVars, core_mapping, schedMap, since, reqVars>>

ScanEnd ==
  /\ spc = "scan" /\ todo = {}
  /\ spc' = "test"
  /\ UNCHANGED <<process, pc, mainVars, core_mapping, schedMap, since, reqVars,
                 todo, at, level, freq>>

\* Where the test was compiled: the loop ends, and with it the thread, or the
\* thread runs on into unrelated code.
SchedulerExits ==
  /\ spc = "test" /\ ~running
  /\ spc' = "exit"
  /\ process' \in {"up", "crashed"}
  /\ UNCHANGED <<pc, mainVars, core_mapping, schedMap, since, reqVars,
                 todo, at, level, freq>>

SchedulerStep ==
  \/ ScanBegin \/ \E t \in todo : Visit(t)
  \/ InsertDefault \/ WriteFreq \/ ScanEnd \/ SchedulerExits
-----------------------------------------------------------------------------
(* main, behind its own loop: pthread_join, then Server::fini.             *)
AllJoined_Faulty == pc[Main] = "done"
AllJoined == \A t \in Threads : pc[t] = "done"

StopFlag_Faulty == running
StopFlag == FALSE
Fini ==
  /\ AllJoined
  /\ running' = StopFlag
  /\ pc' = [pc EXCEPT ![Main] = "fini"]
  /\ UNCHANGED <<process, made, opened, core_mapping, schedMap, since, reqVars, schedVars>>

\* pthread_join(hurryup), and the return from main.
JoinScheduler ==
  /\ pc[Main] = "fini" /\ spc = "exit"
  /\ process' = "returned"
  /\ UNCHANGED <<pc, mainVars, core_mapping, schedMap, since, reqVars, schedVars>>

WorkerStep(t) ==
  \/ Arrive(t) \/ PassBarrier(t) \/ CheckQuota(t) \/ RecvReq(t)
  \/ LookupCore(t) \/ InsertCore(t) \/ MarkBusy(t) \/ MarkIdle(t) \/ CountRequest(t)

MainStep ==
  CreateThread \/ MapThread \/ StartScheduler \/ Fini \/ JoinScheduler

Stopped == process # "up" /\ UNCHANGED vars

Next ==
  \/ /\ process = "up"
     /\ \/ MainStep \/ SchedulerStep \/ Crash
        \/ \E t \in Threads : WorkerStep(t) \/ EndSearch(t) \/ ClientsGone(t)
  \/ Stopped

Spec == Init /\ [][Next]_vars

\* The threads run; a search may take arbitrarily long, and a client may stay
\* connected without sending anything.
FairSpec ==
  /\ Spec
  /\ WF_vars(process = "up" /\ MainStep)
  /\ WF_vars(process = "up" /\ SchedulerStep)
  /\ \A t \in Threads : WF_vars(process = "up" /\ WorkerStep(t))

-----------------------------------------------------------------------------
(* Properties.                                                             *)
Marks == {Absent, Idle} \cup Cores

\* Every variable has its type; the marks are cores, -1, or absent.
TypeOK ==
  /\ process \in {"up", "crashed", "exit 0", "returned"}
  /\ pc \in [Threads -> {"none", "create", "map", "start", "barrier", "check", "recv",
                         "lookup", "linkCore", "mark", "linkMark", "search", "unmark", "linkIdle",
                         "count", "done", "fini"}]
  /\ made \in 0..(N - 1) /\ opened \subseteq Cores /\ running \in BOOLEAN
  /\ core_mapping \in [Threads -> Cores \cup {Absent}]
  /\ schedMap \in [Threads -> Marks]
  /\ since \in [Threads \cup {Scheduler} -> SUBSET Threads]
  /\ numReqsProcessed \in Nat /\ left \in 0..Supply
  /\ spc \in {"none", "test", "scan", "link", "write", "exit"}
  /\ todo \subseteq Threads /\ at \in Threads /\ level \in {"min", "max"}
  /\ freq \in [Cores -> {"unset", "min", "max"}]

\* A created thread looks itself up only after main has entered it with its own
\* core: the barrier it waits at opens when main has gone through its creation
\* loop. Else operator[] would give it core 0.
ServesMapped ==
  \A t \in Created :
    pc[t] \notin {"none", "start", "barrier"} => core_mapping[t] = CoreOf(t)

\* With more than one server the scheduler writes only to frequency files main
\* has opened: main's own entry, which nobody opened a file for, shares core 0
\* with the first thread. With one server its entry leads to fd[0], unopened. Whether
\* fd has room for the entry is another matter (MapThread).
WritesOpened == N > 1 /\ spc = "write" => core_mapping[at] \in opened

\* Every thread has an entry in both maps and nobody is inserting one.
Settled ==
  /\ \A t \in Threads : core_mapping[t] # Absent /\ schedMap[t] # Absent
  /\ Inserting = {}

\* Once all threads have their entries the maps are never restructured again:
\* from then on the accesses without a lock only touch the values.
SettledStays == [][Settled => Settled']_vars

\* The thread waits for a request that does not come, or has ended.
Waits(t) == <>[](process = "up" /\ running /\ pc[t] \in {"recv", "done"})

\* A core with a thread of its own gets the low frequency and keeps it while the
\* thread waits, whatever marks were lost to insertions that overlapped.
WaitingCoreSlowed ==
  \A t \in Created : Waits(t) /\ CoreOf(t) # 0 => <>[](freq[CoreOf(t)] = "min")

\* A query that was taken after the maps had settled, and that goes on for ever.
LastingQuery(t) ==
  /\ <>(Settled /\ pc[t] # "search")
  /\ <>[](process = "up" /\ pc[t] = "search")

\* Core 0, which main shares with the first thread, gets the high frequency while
\* both evaluate lasting queries, and the low one while both wait, if each has
\* evaluated a query since the maps have settled. Before that the code does
\* otherwise. A mark that an insertion has cut off reads as operator[]'s 0. For
\* another core that is a query that runs slowly; but 0 is core 0's own mark, and
\* until its threads have served, waiting core 0 is held at the high frequency.
Served(t) == <>(Settled /\ pc[t] = "search")
SharedCoreFollows ==
  \A t \in Created : CoreOf(t) = 0 =>
    /\ LastingQuery(t) /\ LastingQuery(Main) => <>[](freq[0] = "max")
    /\ Waits(t) /\ Served(t) /\ Waits(Main) /\ Served(Main) => <>[](freq[0] = "min")

\* The scheduler runs as long as any worker evaluates a query; the join of the
\* workers comes before running = 0.
SearchIsWatched ==
  process = "up" /\ (\E t \in Threads : pc[t] = "search") => running /\ spc # "exit"

\* If no search and no wait for a request goes on for ever, the process ends, by
\* the clients or by the quota, or main gets through all of its joins up to the
\* last, with running cleared: it is only the scheduler, compiled without its
\* test of running, that can keep it for ever.
ProcessEnds ==
  (\A t \in Threads : []<>(pc[t] \notin {"search", "recv"}))
    => \/ <>(process # "up")
       \/ <>[](pc[Main] = "fini" /\ ~running /\ spc # "exit")
=============================================================================
