------------------------------ MODULE RaplPerf ------------------------------
(***************************************************************************)
(* rapl_perf: the events of the RAPL domains are looked up under /sys, one *)
(* counter is opened for each domain and package, and after a second of    *)
(* sleep all are read and closed.  A counter that cannot be opened ends it,*)
(* with the others open.                                                   *)
(***************************************************************************)
EXTENDS RaplTopology

CONSTANT PERF_DOMAINS   \* the domains by name, a sequence; five in the code

ASSUME RaplPerfAssumption == PERF_DOMAINS \in Seq(STRING) /\ PERF_DOMAINS # <<>>

VARIABLES
  config,       \* what config[i] holds: an event, 0, or what was left on the stack
  pos,          \* <<j, i>> of the loop that opens
  counters,     \* the open counters: [i, j, cpu]
  perfShown     \* the <<i, j>> a consumption was printed for

perfVars == <<config, pos, counters, perfShown>>

PerfInit == config = <<>> /\ pos = <<0, 1>> /\ counters = {} /\ perfShown = {}

Events == {i \in DOMAIN config : config[i] = "event"}

\* There is no event source: rapl_perf returns -1.
PerfNoType ==
  /\ pc = "rapl_perf" /\ config = <<>>
  /\ Return(-1, "main_898")
  /\ UNCHANGED <<topologyVars, perfVars>>

\* config[i] is read for a domain that has an event, and is whatever the stack
\* holds for the others.
PerfEvents ==
  /\ pc = "rapl_perf" /\ config = <<>>
  /\ config' \in [DOMAIN PERF_DOMAINS -> {"event", "zero", "left"}]
  /\ UNCHANGED <<topologyVars, processVars, pos, counters, perfShown>>

NextPos == IF pos[2] < Len(PERF_DOMAINS) THEN <<pos[1], pos[2] + 1>> ELSE <<pos[1] + 1, 1>>
Opening == pc = "rapl_perf" /\ config # <<>> /\ pos[1] \in Packages

Skipped(i) == config[i] = "zero"

PerfSkip ==
  /\ Opening /\ Skipped(pos[2])
  /\ pos' = NextPos
  /\ UNCHANGED <<topologyVars, processVars, config, counters, perfShown>>

\* perf_event_open succeeds; there is no cpu -1.
PerfOpen ==
  /\ Opening /\ ~Skipped(pos[2])
  /\ package_map[pos[1]] # NoCpu
  /\ counters' = counters \cup {[i |-> pos[2], j |-> pos[1], cpu |-> package_map[pos[1]]]}
  /\ pos' = NextPos
  /\ UNCHANGED <<topologyVars, processVars, config, perfShown>>

\* perf_event_open fails, whatever the reason: rapl_perf returns -1.
PerfOpenFails ==
  /\ Opening /\ ~Skipped(pos[2])
  /\ Return(-1, "main_898")
  /\ UNCHANGED <<topologyVars, perfVars>>

\* All counters are read, printed and closed.
PerfPrint ==
  /\ pc = "rapl_perf" /\ config # <<>> /\ pos[1] \notin Packages
  /\ perfShown' = {<<c.i, c.j>> : c \in counters}
  /\ counters' = {}
  /\ Return(0, "main_898")
  /\ UNCHANGED <<topologyVars, config, pos>>

PerfNext ==
  PerfNoType \/ PerfEvents \/ PerfSkip \/ PerfOpen \/ PerfOpenFails \/ PerfPrint
-----------------------------------------------------------------------------
(* Properties.                                                             *)

\* rapl_perf prints all or nothing: every domain with an event for every package,
\* with the counter on a cpu in that package; counters stay open only after a
\* failure, where nothing was printed.
PerfAllOrNothing ==
  /\ \A c \in counters : PackageOf(c.cpu) = c.j
  /\ perfShown # {} => counters = {} /\ Events \X Packages \subseteq perfShown
=============================================================================
