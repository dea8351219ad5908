---------------------------- MODULE OndemHurryUp ----------------------------
(***************************************************************************)
(* The governor of xapian-ondem-hurryup.  Its threads, maps, start and stop*)
(* are those of HurryUp; only what the scheduler does with a decision      *)
(* differs.  It keeps a step of a frequency table for every core and moves *)
(* it up by four for a thread that evaluates a query, down for any other,  *)
(* and writes the entry of the table it arrives at.  HurryUp's variable    *)
(* freq keeps the direction of the last decision, coreFreqs[c] is the step *)
(* whose frequency was written.                                            *)
(***************************************************************************)
EXTENDS HurryUp, Functions

VARIABLES
  coreFreqs,
  order    \* where each thread's entry is in the iteration over core_mapping

ondemVars == <<vars, coreFreqs, order>>

Top == 13    \* string steps[14]
QPS == 3     \* int QPS = 3.6

\* int coreFreqs[27]. The core of a 15th thread is behind the array: its step is
\* whatever lies there, which is not modelled.
Governed == Cores \cap 0..26

\* The order is that of the pthread_t's hashes: any, and the same in every scan.
OndemInit ==
  /\ Init
  /\ coreFreqs = [c \in Governed |-> 3]
  /\ order \in Injection(Threads, Threads)

\* The conversion of a / b to int drops the fraction, on either side of zero.
Toward0(a, b) == IF a >= 0 THEN a \div b ELSE -((-a) \div b)

Raised_Faulty(step) == step + 4
Raised(step) == IF step + 4 > Top THEN Top ELSE step + 4

\* coreFreqs[x.second] -= 0.4*QPS, in tenths.
Lowered_Faulty(step) == IF step < 4 THEN 0 ELSE step - 4
Lowered(step) ==
  LET s == Toward0(10 * step - 4 * QPS, 10) IN IF s < 0 THEN 0 ELSE s

Govern ==
  /\ WriteFreq
  /\ coreFreqs' = [coreFreqs EXCEPT ![core_mapping[at]] =
                     IF level = "max" THEN Raised(@) ELSE Lowered(@)]
  /\ UNCHANGED order

VisitNext ==
  \E t \in todo : /\ \A u \in todo : order[t] <= order[u]
                  /\ Visit(t)

OndemScan ==
  /\ ScanBegin \/ VisitNext \/ InsertDefault \/ ScanEnd \/ SchedulerExits
  /\ UNCHANGED <<coreFreqs, order>>

OndemScheduler == OndemScan \/ Govern

OndemRun(t) ==
  /\ Arrive(t) \/ PassBarrier(t) \/ CheckQuota(t) \/ CountRequest(t)
  /\ UNCHANGED <<coreFreqs, order>>

OndemRequest(t) ==
  /\ RecvReq(t) \/ LookupCore(t) \/ InsertCore(t) \/ MarkBusy(t) \/ MarkIdle(t)
  /\ UNCHANGED <<coreFreqs, order>>

OndemWorker(t) == OndemRun(t) \/ OndemRequest(t)

OndemSearch(t) == EndSearch(t) /\ UNCHANGED <<coreFreqs, order>>

OndemCreate == (CreateThread \/ MapThread \/ StartScheduler) /\ UNCHANGED <<coreFreqs, order>>

OndemStop == (Fini \/ JoinScheduler) /\ UNCHANGED <<coreFreqs, order>>

OndemNext ==
  \/ /\ process = "up"
     /\ \/ OndemCreate \/ OndemStop \/ OndemScheduler
        \/ Crash /\ UNCHANGED <<coreFreqs, order>>
        \/ \E t \in Threads : \/ OndemWorker(t) \/ OndemSearch(t)
                              \/ ClientsGone(t) /\ UNCHANGED <<coreFreqs, order>>
  \/ Stopped /\ UNCHANGED <<coreFreqs, order>>

OndemSpec == OndemInit /\ [][OndemNext]_ondemVars

\* As in HurryUp: the threads run, a search may go on for ever.
OndemFairSpec ==
  /\ OndemSpec
  /\ WF_ondemVars(process = "up" /\ (OndemCreate \/ OndemStop))
  /\ WF_ondemVars(process = "up" /\ OndemScheduler)
  /\ \A t \in Threads : WF_ondemVars(process = "up" /\ OndemWorker(t))
-----------------------------------------------------------------------------
(* Properties.                                                             *)

\* The step of a core is an index of the table, whatever the order of raises
\* and lowerings.
StepInTable == coreFreqs \in [Governed -> 0..Top]

\* If both threads of core 0 evaluate lasting queries, the core climbs to the top
\* of the table and stays there; if both wait and have served since the maps have
\* settled, it sinks to the bottom in spite of the fractions that the conversion
\* to int drops. As in HurryUp, a waiting core 0 that has not served is left out:
\* operator[]'s 0 keeps its step rising.
Converges ==
  \A t \in Created : CoreOf(t) = 0 =>
    /\ LastingQuery(t) /\ LastingQuery(Main) => <>[](coreFreqs[0] = Top)
    /\ Waits(t) /\ Served(t) /\ Waits(Main) /\ Served(Main) => <>[](coreFreqs[0] = 0)

\* A lasting query keeps its core within one lowering of the top, whatever the
\* other thread of the core does and in whichever order the scan visits the two:
\* the raise is the larger.
BusyWins ==
  \A t \in Threads, c \in Governed :
    LastingQuery(t) => <>[](core_mapping[t] = c => coreFreqs[c] >= Top - 2)

\* The step of a core converges, in spite of the fractions and of what the threads
\* of a shared core do to each other.
StepConverges == Converges /\ BusyWins
=============================================================================
