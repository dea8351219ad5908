------------------------------ MODULE RaplRead ------------------------------
(***************************************************************************)
(* rapl-read: main reads the options, finds out about the cpus, and tries  *)
(* the interfaces in turn until one returns 0.                             *)
(***************************************************************************)
EXTENDS RaplMsr, RaplSysfs, RaplPerf

CONSTANT Args       \* the command lines: sequences of option letters

VARIABLES
  args,       \* the options not read yet
  forced,     \* the letters of the modes forced: "m", "p", "s"
  tried       \* the interfaces main has called

vars == <<topologyVars, processVars, msrVars, sysfsVars, perfVars,
          args, forced, tried>>
interfaceVars == <<msrVars, sysfsVars, perfVars>>

Init ==
  /\ TopologyInit /\ MsrInit /\ SysfsInit /\ PerfInit
  /\ args \in Args /\ forced = {} /\ tried = {}

\* One round of getopt.
Option ==
  /\ pc = "options" /\ args # <<>>
  /\ args' = Tail(args)
  /\ LET c == Head(args)
     IN CASE c = "h"               -> Exit(0) /\ UNCHANGED forced
          [] c \in {"m", "p", "s"} -> forced' = forced \cup {c} /\ UNCHANGED processVars
          [] c = "c"               -> UNCHANGED <<forced, processVars>>
          [] OTHER                 -> Exit(255) /\ UNCHANGED forced
  /\ UNCHANGED <<topologyVars, interfaceVars, tried>>

OptionsRead ==
  /\ pc = "options" /\ args = <<>>
  /\ pc' = "detect_cpu"
  /\ UNCHANGED <<topologyVars, interfaceVars, result, code, args, forced, tried>>

Call(function) ==
  /\ pc' = function
  /\ tried' = tried \cup {function}

\* -s sets a flag that main does not read.
TrySysfs ==
  /\ pc = "main_888"
  /\ IF "m" \notin forced /\ "p" \notin forced
       THEN Call("rapl_sysfs")
       ELSE pc' = "main_892" /\ UNCHANGED tried
  /\ UNCHANGED <<topologyVars, interfaceVars, result, code, args, forced>>

TryPerf ==
  /\ pc = "main_892"
  /\ IF result < 0 /\ "p" \in forced /\ "m" \notin forced
       THEN Call("rapl_perf")
       ELSE pc' = "main_898" /\ UNCHANGED tried
  /\ UNCHANGED <<topologyVars, interfaceVars, result, code, args, forced>>

\* An operator whose name ends in _Faulty is the one behind it with a plausible
\* mistake; no specification uses it.
LastResort_Faulty == result < 0 \/ "m" \notin forced
LastResort == result < 0

TryMsr ==
  /\ pc = "main_898"
  /\ IF LastResort
       THEN Call("rapl_msr")
       ELSE pc' = "main_902" /\ UNCHANGED tried
  /\ UNCHANGED <<topologyVars, interfaceVars, result, code, args, forced>>

MainEnds ==
  /\ pc = "main_902"
  /\ Exit(IF result < 0 THEN 255 ELSE 0)
  /\ UNCHANGED <<topologyVars, interfaceVars, args, forced, tried>>

Detect ==
  /\ DetectModel \/ DetectPackage \/ PackagesDetected
  /\ UNCHANGED <<interfaceVars, args, forced, tried>>

RaplSysfsStep == SysfsNext /\ UNCHANGED <<msrVars, perfVars, args, forced, tried>>
RaplPerfStep == PerfNext /\ UNCHANGED <<msrVars, sysfsVars, args, forced, tried>>
RaplMsrStep == MsrNext /\ UNCHANGED <<sysfsVars, perfVars, args, forced, tried>>

Next ==
  \/ Option \/ OptionsRead \/ Detect
  \/ TrySysfs \/ TryPerf \/ TryMsr \/ MainEnds
  \/ RaplSysfsStep \/ RaplPerfStep \/ RaplMsrStep

Spec == Init /\ [][Next]_vars
-----------------------------------------------------------------------------
(* Properties.                                                             *)

\* The packages each interface has printed the energy of.
By == [rapl_sysfs |-> {d[1] : d \in shown},
       rapl_perf  |-> {d[2] : d \in perfShown},
       rapl_msr   |-> {r.j : r \in after}]

\* At most one interface prints energy, and exit status 0 says that one printed
\* it for every package that was found, the help aside (main's chain of results).
\* A run of rapl_perf in which no domain has an event prints none and returns 0.
\* Status 255 says that the chip is not supported, or an option is not: a failure
\* of the interface tried first is not the end where the registers could be tried.
OneReport ==
  /\ Cardinality({f \in DOMAIN By : By[f] # {}}) <= 1
  /\ code = 0 /\ tried # {} =>
       \/ \E f \in tried : By[f] = Packages
       \/ "rapl_perf" \in tried /\ Events = {}
  /\ code = 255 =>
       \/ tried = {}
       \/ "rapl_msr" \in tried /\ cpu_model = Unsupported

\* Every printed energy is accounted for: it is the difference of two readings in the
\* package it is printed for, or it is one of the two kinds the code prints without:
\* PP0 of a Knights chip, and a file of rapl_sysfs whose failure was reported on
\* stderr.  SysfsMeasured is the claim without the second kind.
ReportExplained == PairsMeasured /\ UnreadIsSaid /\ PerfAllOrNothing
=============================================================================
