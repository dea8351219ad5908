------------------------------ MODULE RaplMsr -------------------------------
(***************************************************************************)
(* rapl_msr: the registers of a cpu of each package are read through       *)
(* /dev/cpu/N/msr in three rounds, one that lists parameters, one before   *)
(* and one after a second of sleep.  Opening a file and reading a register *)
(* may fail, which ends the process.                                       *)
(***************************************************************************)
EXTENDS RaplTopology

VARIABLES
  phase, pkg, fd,   \* rapl_msr: the round, its j, the cpu whose file is open
  todo,             \* the registers this round has still to read from fd
  before, after     \* the counters read: [reg, j, cpu]

msrVars == <<phase, pkg, fd, todo, before, after>>

\* The counter registers a model has, by the flags of rapl_msr.
Avail(m) ==
  {"PKG"} \cup
  CASE m \in BridgeEP \cup LaterEP -> {"PP0", "DRAM"}
    [] m \in Knights               -> {"DRAM"}
    [] m \in Bridge                -> {"PP0", "PP1"}
    [] m \in Haswell               -> {"PP0", "PP1", "DRAM"}
    [] m \in Skylake               -> {"PP0", "PP1", "DRAM", "PSYS"}

\* A register that is read if there is reason to.
When(reason, reg) == IF reason THEN <<reg>> ELSE <<>>

\* The rounds test different things: the second the model, the third a flag,
\* and PP0 is read in the third whatever the flag.
ListRegs(m) ==
  <<"POWER_UNIT", "PKG_POWER_INFO", "PKG_POWER_LIMIT">>
    \o (IF m \in BridgeEP THEN <<"PKG_PERF", "PP0_PERF", "PP0_POLICY">> ELSE <<>>)
    \o When("PP1" \in Avail(m), "PP1_POLICY")

PsysModel_Faulty(m) == m \in Skylake \ {"KABYLAKE_MOBILE"}
PsysModel(m) == m \in {"SKYLAKE", "SKYLAKE_HS", "KABYLAKE", "KABYLAKE_MOBILE"}
BeforeRegs(m) ==
  <<"PKG">> \o When("PP0" \in Avail(m), "PP0") \o When("PP1" \in Avail(m), "PP1")
    \o When("DRAM" \in Avail(m), "DRAM") \o When(PsysModel(m), "PSYS")

AfterRegs(m) ==
  <<"PKG", "PP0">> \o When("PP1" \in Avail(m), "PP1")
    \o When("DRAM" \in Avail(m), "DRAM") \o When("PSYS" \in Avail(m), "PSYS")

Regs(ph, m) == CASE ph = "list"   -> ListRegs(m)
                 [] ph = "before" -> BeforeRegs(m)
                 [] ph = "after"  -> AfterRegs(m)

MsrInit ==
  /\ phase = "list" /\ pkg = 0 /\ fd = NoCpu /\ todo = <<>>
  /\ before = {} /\ after = {}

\* rapl_msr does not know the chip: it returns -1.
MsrUnsupported ==
  /\ pc = "rapl_msr" /\ cpu_model = Unsupported
  /\ Return(-1, "main_902")
  /\ UNCHANGED <<topologyVars, msrVars>>

\* open_msr(package_map[j]) succeeds.
OpenMsr ==
  /\ pc = "rapl_msr" /\ cpu_model # Unsupported
  /\ fd = NoCpu /\ pkg \in Packages /\ package_map[pkg] # NoCpu
  /\ fd' = package_map[pkg]
  /\ todo' = Regs(phase, cpu_model)
  /\ UNCHANGED <<topologyVars, phase, pkg, before, after, processVars>>

\* open_msr fails with ENXIO, EIO or another error; /dev/cpu/-1/msr does not exist.
OpenMsrFails ==
  /\ pc = "rapl_msr" /\ cpu_model # Unsupported
  /\ fd = NoCpu /\ pkg \in Packages
  /\ \E status \in {2, 3, 127} :
       /\ package_map[pkg] = NoCpu => status = 127
       /\ Exit(status)
  /\ UNCHANGED <<topologyVars, phase, pkg, fd, todo, before, after>>

Reading(reg) == [reg |-> reg, j |-> pkg, cpu |-> fd]

\* read_msr of the next register.
ReadMsr ==
  /\ fd # NoCpu /\ todo # <<>> /\ pc = "rapl_msr"
  /\ todo' = Tail(todo)
  /\ before' = before \cup IF phase = "before" THEN {Reading(Head(todo))} ELSE {}
  /\ after' = after \cup IF phase = "after" THEN {Reading(Head(todo))} ELSE {}
  /\ UNCHANGED <<topologyVars, phase, pkg, fd, processVars>>

ReadMsrFails ==
  /\ fd # NoCpu /\ todo # <<>> /\ pc = "rapl_msr"
  /\ Exit(127)
  /\ UNCHANGED <<topologyVars, phase, pkg, fd, todo, before, after>>

\* The end of a round for package j: the file is closed.
CloseMsr ==
  /\ fd # NoCpu /\ todo = <<>> /\ pc = "rapl_msr"
  /\ fd' = NoCpu
  /\ pkg' = pkg + 1
  /\ UNCHANGED <<topologyVars, phase, todo, before, after, processVars>>

\* The end of a round for all packages; main returns 0 after the last.
RoundEnds ==
  /\ pc = "rapl_msr" /\ cpu_model # Unsupported
  /\ fd = NoCpu /\ pkg \notin Packages
  /\ IF phase = "after"
       THEN Return(0, "main_902") /\ UNCHANGED <<phase, pkg>>
       ELSE /\ phase' = IF phase = "list" THEN "before" ELSE "after"
            /\ pkg' = 0
            /\ UNCHANGED processVars
  /\ UNCHANGED <<topologyVars, fd, todo, before, after>>

MsrNext ==
  \/ MsrUnsupported \/ OpenMsr \/ OpenMsrFails
  \/ ReadMsr \/ ReadMsrFails \/ CloseMsr \/ RoundEnds
-----------------------------------------------------------------------------
(* Properties.                                                             *)

\* A printed difference is that of two readings of the same counter, of the same
\* cpu of the package, one of each round (the flags and the model tests of the rounds
\* agree).  The exception is PP0 of a Knights chip: "Not available on Knights*", the
\* first round says, and the third reads and prints it of every chip.
PairsMeasured ==
  /\ \A a \in after :
       \/ a.reg = "PP0" /\ cpu_model \in Knights
       \/ {b \in before : b.reg = a.reg /\ b.j = a.j} = {a}
  /\ \A r \in before \cup after : PackageOf(r.cpu) = r.j
=============================================================================
