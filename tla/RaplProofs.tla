----------------------------- MODULE RaplProofs -----------------------------
(***************************************************************************)
(* Proofs about rapl-read, for any number of cpus, packages and domains,   *)
(* any chip and any command line: the packages are found, one interface    *)
(* reports, and every energy it prints is accounted for.                   *)
(***************************************************************************)
EXTENDS RaplRead, FiniteSetTheorems, TLAPS

\* Where main is before it calls an interface.
BeforeSysfs == {"options", "detect_cpu", "detect_packages", "main_888"}
BeforePerf  == BeforeSysfs \cup {"rapl_sysfs", "main_892"}
BeforeMsr   == BeforePerf \cup {"rapl_perf", "main_898"}

\* The packages of the cpus that have been looked at.
Found == {PackageOf(i) : i \in 0..(total_cores - 1)}
\* What detect_packages has found so far is right, and is not touched afterwards.
ModelInv == ids \in Topologies /\ cpu_model \in Supported \cup {Unsupported}
CoresInv == total_cores \in Nat /\ \A i \in 0..(total_cores - 1) : HasFile(i)
MapInv ==
  /\ package_map \in [0..(MAX_PACKAGES - 1) -> Nat \cup {NoCpu}]
  /\ \A p \in DOMAIN package_map : package_map[p] # NoCpu <=> p \in Found
  /\ \A p \in Found :
       /\ package_map[p] \in 0..(total_cores - 1) /\ PackageOf(package_map[p]) = p
       /\ \A i \in 0..(total_cores - 1) : PackageOf(i) = p => package_map[p] <= i
TopologyInv ==
  /\ ModelInv /\ CoresInv /\ MapInv
  /\ total_packages \in Nat /\ total_packages = Cardinality(Found)
  /\ pc = "main_888" => ~HasFile(total_cores)

\* The loop of rapl_sysfs is past a domain; its file has been opened, or that failed.
Passed(d) == d[1] < at[1] \/ (d[1] = at[1] /\ d[2] < at[2])
Sought(r, d) == <<r, d>> \in got \cup missed
\* Each of the four loops of rapl_sysfs goes through what the ones before went through.
SysfsInv ==
  /\ round \in {"name", "before", "after"} /\ at \in Nat \X Domains
  /\ pc \in BeforeSysfs => round = "name" /\ at = <<0, 0>> /\ valid = {} /\ shown = {}
  /\ valid \subseteq Packages \X Domains
  /\ \A j \in Packages : round # "name" \/ Passed(<<j, 0>>) => <<j, 0>> \in valid
  /\ \A d \in valid :
       /\ round = "after" \/ (round = "before" /\ Passed(d)) => Sought("before", d)
       /\ round = "after" /\ Passed(d) => Sought("after", d)
  /\ shown # {} => shown = valid /\ round = "after" /\ at[1] \notin Packages

\* The counter for domain i and package j; whether the loop that opens is past them.
Counter(i, j) == [i |-> i, j |-> j, cpu |-> package_map[j]]
Opened(i, j) == j < pos[1] \/ (j = pos[1] /\ i < pos[2])
\* rapl_perf has opened a counter for every event and package it is past.
PerfInv ==
  /\ config = <<>> \/ config \in [DOMAIN PERF_DOMAINS -> {"event", "zero", "left"}]
  /\ pos \in Nat \X DOMAIN PERF_DOMAINS
  /\ config = <<>> \/ pc \in BeforePerf => pos = <<0, 1>> /\ counters = {} /\ perfShown = {}
  /\ \A c \in counters :
       \E i \in DOMAIN PERF_DOMAINS, j \in Packages : c = Counter(i, j) /\ package_map[j] # NoCpu
  /\ pc = "rapl_perf" =>
       /\ perfShown = {}
       /\ \A i \in Events, j \in Packages : Opened(i, j) => Counter(i, j) \in counters
  /\ perfShown # {} => counters = {} /\ Events \X Packages \subseteq perfShown
  /\ \A d \in perfShown : d[2] \in Packages

\* A register is in a sequence.
Has(s, r) == \E k \in DOMAIN s : s[k] = r
\* The counter registers; the reading of one for a package.
Registers == {"PKG", "PP0", "PP1", "DRAM", "PSYS"}
Names ==
  Registers \cup {"POWER_UNIT", "PKG_POWER_INFO", "PKG_POWER_LIMIT",
                 "PKG_PERF", "PP0_PERF", "PP0_POLICY", "PP1_POLICY"}
ReadingOf(reg, j) == [reg |-> reg, j |-> j, cpu |-> package_map[j]]
\* The round of rapl_msr is past a register of a package.
Done(reg, j) == j < pkg \/ (j = pkg /\ fd # NoCpu /\ ~Has(todo, reg))
\* What is read is of the cpu of its package, and a round that is over has read all its
\* registers for every package.
MsrInv ==
  /\ phase \in {"list", "before", "after"} /\ pkg \in Nat /\ todo \in Seq(Names)
  /\ pc \in BeforeMsr => phase = "list" /\ pkg = 0 /\ fd = NoCpu /\ before = {} /\ after = {}
  /\ fd # NoCpu =>
       /\ cpu_model # Unsupported
       /\ pkg \in Packages /\ package_map[pkg] = fd
       /\ \A k \in DOMAIN todo : Has(Regs(phase, cpu_model), todo[k])
  /\ \A r \in before \cup after :
       /\ cpu_model # Unsupported
       /\ \E j \in Packages : r = ReadingOf(r.reg, j) /\ package_map[j] # NoCpu
  /\ \A r \in after : Has(AfterRegs(cpu_model), r.reg)
  /\ phase # "after" => after = {}
  /\ \A j \in Packages, reg \in Registers :
       /\ (phase = "before" /\ Done(reg, j)) \/ phase = "after" =>
            (Has(BeforeRegs(cpu_model), reg) => ReadingOf(reg, j) \in before)
       /\ phase = "after" /\ Done(reg, j) =>
            (Has(AfterRegs(cpu_model), reg) => ReadingOf(reg, j) \in after)

\* An interface has printed every package, or there was no event to count.
Reported ==
  \/ \E f \in tried : By[f] = Packages
  \/ "rapl_perf" \in tried /\ Events = {}
\* The result is -1 until an interface has reported, and none is called after that.
FlowInv ==
  /\ result \in {-1, 0} /\ tried \subseteq DOMAIN By
  /\ pc \in BeforeSysfs => result = -1 /\ tried = {}
  /\ pc \in {"rapl_sysfs", "rapl_perf", "rapl_msr"} => result = -1 /\ pc \in tried
  /\ result = -1 => shown = {} /\ perfShown = {}
  /\ after = {} \/ shown \cup perfShown = {}
  /\ shown = {} \/ perfShown = {}
  /\ result = 0 => Reported
  /\ pc = "main_902" => result = 0 \/ ("rapl_msr" \in tried /\ cpu_model = Unsupported)
  /\ pc # "exit" => code = Running
  /\ code = 0 /\ tried # {} => Reported
  /\ code = 255 => tried = {} \/ ("rapl_msr" \in tried /\ cpu_model = Unsupported)

-----------------------------------------------------------------------------
(* The way of main.                                                        *)

\* No step leads back to before an interface.  Packages are counted before the first,
\* and the topology does not change after that.
LEMMA StepsForward ==
  ASSUME [Next]_vars
  PROVE  /\ pc' \in BeforeSysfs => pc \in BeforeSysfs
         /\ pc' \in BeforePerf => pc \in BeforePerf
         /\ pc' \in BeforeMsr => pc \in BeforeMsr
         /\ pc \in BeforeSysfs \/ UNCHANGED topologyVars
         /\ pc' = "main_888" => pc \in {"main_888", "detect_packages"}
  <1> USE DEF BeforeSysfs, BeforePerf, BeforeMsr, topologyVars, processVars
  <1>1. CASE Option \/ OptionsRead \/ Detect
    BY <1>1 DEF Option, OptionsRead, Detect, DetectModel, DetectPackage, PackagesDetected, Exit
  <1>2. CASE TrySysfs \/ TryPerf \/ TryMsr \/ MainEnds
    BY <1>2 DEF TrySysfs, TryPerf, TryMsr, MainEnds, Call, Exit
  <1>3. CASE RaplSysfsStep
    BY <1>3 DEF RaplSysfsStep, SysfsNext, SysfsName, SysfsNoName, SysfsRead, NextRound,
                SysfsPrint, InRound, RoundOver, Return
  <1>4. CASE RaplPerfStep
    BY <1>4 DEF RaplPerfStep, PerfNext, PerfNoType, PerfEvents, PerfSkip, PerfOpen,
                PerfOpenFails, PerfPrint, Opening, Return
  <1>5. CASE RaplMsrStep
    BY <1>5 DEF RaplMsrStep, MsrNext, MsrUnsupported, OpenMsr, OpenMsrFails, ReadMsr,
                ReadMsrFails, CloseMsr, RoundEnds, Return, Exit
  <1>6. CASE UNCHANGED vars
    BY <1>6 DEF vars
  <1> QED
    BY <1>1, <1>2, <1>3, <1>4, <1>5, <1>6 DEF Next
-----------------------------------------------------------------------------
(* The topology.                                                           *)

\* The packages are indices of package_map, and the cpu of one is in it.
LEMMA PackageFacts ==
  ASSUME TopologyInv
  PROVE  /\ total_packages \in Nat /\ total_packages <= MAX_PACKAGES
         /\ Packages \subseteq Nat /\ Packages \subseteq DOMAIN package_map
         /\ IsFiniteSet(Found) /\ Found \subseteq DOMAIN package_map
         /\ \A j \in Packages : package_map[j] # NoCpu =>
              package_map[j] \in Nat /\ PackageOf(package_map[j]) = j
  <1>1. MAX_PACKAGES \in Nat \ {0} /\ DOMAIN package_map = 0..(MAX_PACKAGES - 1)
    BY RaplTopologyAssumption DEF TopologyInv, ModelInv, CoresInv, MapInv
  <1>2. ASSUME NEW i \in 0..(total_cores - 1) PROVE PackageOf(i) \in 0..(MAX_PACKAGES - 1)
    <2>1. HasFile(i) /\ i \in Nat
      BY <1>2 DEF TopologyInv, CoresInv, HasFile
    <2>2. ids \in Seq((0..(MAX_PACKAGES - 1)) \cup {NoFile})
      BY RaplTopologyAssumption DEF TopologyInv, ModelInv
    <2> QED
      BY <2>1, <2>2 DEF HasFile, PackageOf
  <1>3. Found \subseteq 0..(MAX_PACKAGES - 1)
    BY <1>2 DEF Found
  <1>4. IsFiniteSet(0..(MAX_PACKAGES - 1)) /\ Cardinality(0..(MAX_PACKAGES - 1)) = MAX_PACKAGES
    BY <1>1, FS_Interval
  <1>5. IsFiniteSet(Found) /\ Cardinality(Found) <= MAX_PACKAGES /\ Cardinality(Found) \in Nat
    BY <1>3, <1>4, FS_Subset, FS_CardinalityType
  <1>6. total_packages \in Nat /\ total_packages <= MAX_PACKAGES
    BY <1>5 DEF TopologyInv, ModelInv, CoresInv, MapInv
  <1>7. Packages \subseteq Nat /\ Packages \subseteq DOMAIN package_map
    BY <1>1, <1>6 DEF Packages
  <1>8. ASSUME NEW j \in Packages, package_map[j] # NoCpu
        PROVE  package_map[j] \in Nat /\ PackageOf(package_map[j]) = j
    <2>1. j \in Found
      BY <1>7, <1>8 DEF TopologyInv, ModelInv, CoresInv, MapInv
    <2> QED
      BY <2>1 DEF TopologyInv, CoresInv, MapInv, PackageOf
  <1> QED
    BY <1>1, <1>3, <1>5, <1>6, <1>7, <1>8

\* detect_cpu returns a supported model or none.
LEMMA ModelType == DetectCpu(cpuinfo) \in Supported \cup {Unsupported}
  BY DEF DetectCpu

\* No cpu has been looked at when the process starts.
LEMMA TopologyInit1 == Init => TopologyInv
  <1> SUFFICES ASSUME Init PROVE TopologyInv
    OBVIOUS
  <1>1. Found = {} /\ total_packages = 0 /\ Cardinality({}) = 0
    BY FS_EmptySet DEF Init, TopologyInit, Found
  <1>2. MAX_PACKAGES \in Nat
    BY RaplTopologyAssumption
  <1> QED
    BY <1>1, <1>2 DEF Init, TopologyInit, TopologyInv, ModelInv, CoresInv, MapInv, NoCpu

\* One more cpu: its package is new, or has an earlier cpu.
LEMMA DetectPackageKeeps ==
  ASSUME TopologyInv, DetectPackage
  PROVE  TopologyInv'
  <1>1. /\ HasFile(total_cores) /\ total_cores' = total_cores + 1 /\ total_cores \in Nat
        /\ ids' = ids /\ cpu_model' = cpu_model /\ pc' = "detect_packages"
    BY DEF DetectPackage, processVars, TopologyInv, CoresInv, HasFile
  <1> DEFINE p0 == PackageOf(total_cores)
  <1>2. p0 \in 0..(MAX_PACKAGES - 1)
    <2>1. ids \in Seq((0..(MAX_PACKAGES - 1)) \cup {NoFile})
      BY RaplTopologyAssumption DEF TopologyInv, ModelInv, CoresInv, MapInv
    <2> QED
      BY <1>1, <2>1 DEF HasFile, PackageOf
  <1>3. \A i : HasFile(i)' = HasFile(i) /\ PackageOf(i)' = PackageOf(i)
    BY <1>1 DEF HasFile, PackageOf
  <1>4. 0..(total_cores' - 1) = (0..(total_cores - 1)) \cup {total_cores}
    BY <1>1
  <1>5. Found' = Found \cup {p0}
    BY <1>3, <1>4 DEF Found
  <1>6. \A i \in 0..(total_cores' - 1) : HasFile(i)'
    BY <1>1, <1>3, <1>4 DEF TopologyInv, ModelInv, CoresInv, MapInv
  <1>7. IsFiniteSet(Found) /\ Found \subseteq DOMAIN package_map
    BY PackageFacts
  <1>8. package_map \in [0..(MAX_PACKAGES - 1) -> Nat \cup {NoCpu}] /\ total_cores # NoCpu
    BY <1>1 DEF TopologyInv, MapInv, NoCpu
  <1>9. CASE NewPackage(p0)
    <2>1. total_packages' = total_packages + 1 /\ package_map' = [package_map EXCEPT ![p0] = total_cores]
      BY <1>9 DEF DetectPackage, Mapped
    <2>2. p0 \notin Found
      BY <1>2, <1>8, <1>9 DEF NewPackage, TopologyInv, MapInv
    <2>3. Cardinality(Found') = Cardinality(Found) + 1
      BY <1>5, <1>7, <2>2, FS_AddElement
    <2>4. \A p \in DOMAIN package_map' : package_map'[p] # NoCpu <=> p \in Found'
      BY <1>2, <1>5, <1>8, <2>1 DEF TopologyInv, ModelInv, CoresInv, MapInv
    <2>5. ASSUME NEW p \in Found'
          PROVE  /\ package_map'[p] \in 0..(total_cores' - 1) /\ PackageOf(package_map'[p]) = p
                 /\ \A i \in 0..(total_cores' - 1) : PackageOf(i) = p => package_map'[p] <= i
      <3>1. CASE p = p0
        <4>1. \A i \in 0..(total_cores - 1) : PackageOf(i) # p0
          BY <2>2 DEF Found
        <4> QED
          BY <1>1, <1>2, <1>4, <1>8, <2>1, <3>1, <4>1
      <3>2. CASE p # p0
        <4>1. p \in Found /\ package_map'[p] = package_map[p]
          BY <1>5, <1>7, <1>8, <2>1, <2>5, <3>2
        <4>2. /\ package_map[p] \in 0..(total_cores - 1) /\ PackageOf(package_map[p]) = p
              /\ \A i \in 0..(total_cores - 1) : PackageOf(i) = p => package_map[p] <= i
          BY <4>1 DEF TopologyInv, ModelInv, CoresInv, MapInv
        <4> QED
          BY <1>4, <3>2, <4>1, <4>2
      <3> QED
        BY <3>1, <3>2
    <2>6. package_map' \in [0..(MAX_PACKAGES - 1) -> Nat \cup {NoCpu}]
      BY <1>1, <1>8, <2>1
    <2>7. MapInv'
      BY <1>3, <2>4, <2>5, <2>6 DEF MapInv
    <2> QED
      BY <1>1, <1>6, <2>1, <2>3, <2>7 DEF TopologyInv, ModelInv, CoresInv
  <1>10. CASE ~NewPackage(p0)
    <2>1. UNCHANGED <<total_packages, package_map>>
      BY <1>10 DEF DetectPackage
    <2>2. p0 \in Found
      BY <1>2, <1>8, <1>10 DEF NewPackage, TopologyInv, MapInv
    <2>3. Found' = Found
      BY <1>5, <2>2
    <2>4. ASSUME NEW p \in Found
          PROVE  /\ package_map[p] \in 0..(total_cores' - 1) /\ PackageOf(package_map[p]) = p
                 /\ \A i \in 0..(total_cores' - 1) : PackageOf(i) = p => package_map[p] <= i
      <3>1. /\ package_map[p] \in 0..(total_cores - 1) /\ PackageOf(package_map[p]) = p
            /\ \A i \in 0..(total_cores - 1) : PackageOf(i) = p => package_map[p] <= i
        BY <2>4 DEF TopologyInv, ModelInv, CoresInv, MapInv
      <3> QED
        BY <1>1, <1>4, <3>1
    <2>5. \A p \in DOMAIN package_map : package_map[p] # NoCpu <=> p \in Found
      BY DEF TopologyInv, ModelInv, CoresInv, MapInv
    <2> QED
      BY <1>1, <1>3, <1>6, <1>8, <2>1, <2>3, <2>4, <2>5 DEF TopologyInv, ModelInv, CoresInv, MapInv
  <1> QED
    BY <1>9, <1>10

\* Every step of rapl-read keeps what is known of the topology.
LEMMA TopologyStep ==
  ASSUME TopologyInv, [Next]_vars
  PROVE  TopologyInv'
  <1>1. CASE DetectPackage
    BY <1>1, DetectPackageKeeps
  <1>2. CASE DetectModel
    BY <1>2, ModelType DEF DetectModel, TopologyInv, ModelInv, CoresInv, MapInv, Found, HasFile, PackageOf
  <1>3. CASE PackagesDetected
    BY <1>3 DEF PackagesDetected, topologyVars, TopologyInv, ModelInv, CoresInv, MapInv, Found, HasFile, PackageOf
  <1>4. CASE UNCHANGED topologyVars /\ (pc' = "main_888" => pc = "main_888")
    <2>1. ids' = ids /\ cpu_model' = cpu_model /\ package_map' = package_map
          /\ total_cores' = total_cores /\ total_packages' = total_packages
      BY <1>4 DEF topologyVars
    <2>2. /\ Found' = Found
          /\ \A i : HasFile(i)' = HasFile(i) /\ PackageOf(i)' = PackageOf(i)
      BY <2>1 DEF Found, HasFile, PackageOf
    <2>3. ModelInv' /\ CoresInv'
      BY <2>1 DEF TopologyInv, ModelInv, CoresInv, HasFile
    <2>4. MapInv'
      BY <2>1, <2>2 DEF TopologyInv, MapInv, PackageOf
    <2>5. pc' = "main_888" => ~HasFile(total_cores)'
      BY <1>4, <2>1 DEF TopologyInv, HasFile
    <2> QED
      BY <2>1, <2>2, <2>3, <2>4, <2>5 DEF TopologyInv
  <1>5. ~Detect => UNCHANGED topologyVars /\ (pc' = "main_888" => pc = "main_888")
    <2>1. CASE Option \/ OptionsRead
      BY <2>1 DEF Option, OptionsRead, Exit, processVars
    <2>2. CASE ~(Option \/ OptionsRead \/ Detect)
      <3>1. UNCHANGED topologyVars
        BY <2>2 DEF Next, vars, TrySysfs, TryPerf, TryMsr, MainEnds, RaplSysfsStep, SysfsNext,
             SysfsName, SysfsNoName, SysfsRead, NextRound, SysfsPrint, RaplPerfStep, PerfNext,
             PerfNoType, PerfEvents, PerfSkip, PerfOpen, PerfOpenFails, PerfPrint, RaplMsrStep,
             MsrNext, MsrUnsupported, OpenMsr, OpenMsrFails, ReadMsr, ReadMsrFails, CloseMsr,
             RoundEnds
      <3>2. pc' = "main_888" => pc = "main_888"
        BY <2>2 DEF Next, vars, TrySysfs, TryPerf, TryMsr, MainEnds, RaplSysfsStep, SysfsNext,
             SysfsName, SysfsNoName, SysfsRead, NextRound, SysfsPrint, RaplPerfStep, PerfNext,
             PerfNoType, PerfEvents, PerfSkip, PerfOpen, PerfOpenFails, PerfPrint, RaplMsrStep,
             MsrNext, MsrUnsupported, OpenMsr, OpenMsrFails, ReadMsr, ReadMsrFails, CloseMsr,
             RoundEnds, Call, Exit, Return, processVars
      <3> QED
        BY <3>1, <3>2
    <2> QED
      BY <2>1, <2>2
  <1> QED
    BY <1>1, <1>2, <1>3, <1>4, <1>5 DEF Detect

\* detect_packages finds the packages, whatever the cpus and their order.
THEOREM PackagesAreFound == Spec => []PackagesFound
  <1>1. TopologyInv => PackagesFound
    <2> SUFFICES ASSUME TopologyInv PROVE PackagesFound
      OBVIOUS
    <2>1. {p \in DOMAIN package_map : package_map[p] # NoCpu} = Found
      BY PackageFacts DEF TopologyInv, ModelInv, CoresInv, MapInv
    <2> QED
      BY <2>1 DEF TopologyInv, ModelInv, CoresInv, MapInv, PackagesFound, Found
  <1> QED
    BY <1>1, TopologyInit1, TopologyStep, PTL DEF Spec
-----------------------------------------------------------------------------
(* rapl_sysfs.                                                             *)

\* rapl_sysfs starts at the first name.
LEMMA SysfsInit1 == Init => SysfsInv
  <1> SUFFICES ASSUME Init PROVE SysfsInv
    OBVIOUS
  <1>1. /\ round = "name" /\ at = <<0, 0>> /\ valid = {} /\ shown = {}
        /\ pc = "options" /\ total_packages = 0
    BY DEF Init, SysfsInit, TopologyInit
  <1>2. Packages = {} /\ 0 \in Domains
    BY <1>1, RaplSysfsAssumption DEF Packages, Domains
  <1> QED
    BY <1>1, <1>2 DEF SysfsInv

\* Other steps leave the loops alone; packages are found before the first begins.
LEMMA SysfsFrame ==
  ASSUME TopologyInv, TopologyInv', SysfsInv, UNCHANGED sysfsVars,
         pc' \in BeforeSysfs => pc \in BeforeSysfs,
         pc \in BeforeSysfs \/ UNCHANGED topologyVars
  PROVE  SysfsInv'
  <1>1. /\ round' = round /\ at' = at /\ valid' = valid /\ got' = got
        /\ missed' = missed /\ shown' = shown
    BY DEF sysfsVars
  <1>2. CASE pc \in BeforeSysfs
    <2>1. round = "name" /\ at = <<0, 0>> /\ valid = {} /\ shown = {} /\ at \in Nat \X Domains
      BY <1>2 DEF SysfsInv
    <2>2. Packages' \subseteq Nat
      <3>1. total_packages' \in Nat
        BY DEF TopologyInv
      <3>2. Packages' = 0..(total_packages' - 1)
        BY DEF Packages
      <3>3. ASSUME NEW n \in Nat PROVE 0..(n - 1) \subseteq Nat
        OBVIOUS
      <3> QED
        BY <3>1, <3>2, <3>3, Zenon
    <2>3. \A j \in Packages' : ~Passed(<<j, 0>>)'
      BY <1>1, <2>1, <2>2 DEF Passed
    <2> QED
      BY <1>1, <2>1, <2>3 DEF SysfsInv
  <1>3. CASE UNCHANGED topologyVars
    <2>1. Packages' = Packages
      BY <1>3 DEF topologyVars, Packages
    <2> QED
      BY <1>1, <2>1 DEF SysfsInv, Passed, Sought
  <1> QED
    BY <1>2, <1>3

\* The loops go through the domains of a package, and then on to the next package.
LEMMA NextAtPasses ==
  ASSUME at \in Nat \X Domains, at' = NextAt(NUM_RAPL_DOMAINS)
  PROVE  /\ at' \in Nat \X Domains
         /\ \A d \in Nat \X Domains : Passed(d)' <=> Passed(d) \/ d = at
  <1>1. NUM_RAPL_DOMAINS \in Nat \ {0} /\ Domains = 0..(NUM_RAPL_DOMAINS - 1)
    BY RaplSysfsAssumption DEF Domains
  <1>2. PICK j \in Nat, i \in Domains : at = <<j, i>>
    OBVIOUS
  <1>3. /\ i + 1 < NUM_RAPL_DOMAINS => at' = <<j, i + 1>>
        /\ ~(i + 1 < NUM_RAPL_DOMAINS) => at' = <<j + 1, 0>>
    BY <1>2 DEF NextAt
  <1>4. at' \in Nat \X Domains
    BY <1>1, <1>2, <1>3
  <1>5. ASSUME NEW k \in Nat, NEW l \in Domains
        PROVE  Passed(<<k, l>>)' <=> Passed(<<k, l>>) \/ <<k, l>> = at
    BY <1>1, <1>2, <1>3, <1>5 DEF Passed
  <1> QED
    BY <1>4, <1>5

\* When a loop is through it is past every domain of every package.
LEMMA RoundPassed ==
  ASSUME TopologyInv, at \in Nat \X Domains, at[1] \notin Packages
  PROVE  \A d \in Packages \X Domains : Passed(d)
  <1>1. total_packages \in Nat /\ at[1] \in Nat
    BY PackageFacts
  <1>2. at[1] >= total_packages
    BY <1>1 DEF Packages
  <1>3. ASSUME NEW d \in Packages \X Domains PROVE d[1] < at[1]
    <2>1. d[1] \in Packages
      OBVIOUS
    <2> QED
      BY <1>1, <1>2, <2>1 DEF Packages
  <1> QED
    BY <1>3 DEF Passed

\* Each step of rapl_sysfs leaves the domains behind it named, or sought.
LEMMA SysfsNextKeeps ==
  ASSUME TopologyInv, SysfsInv, SysfsNext
  PROVE  SysfsInv'
  <1>0. /\ Packages' = Packages /\ pc = "rapl_sysfs" /\ pc' \in {"rapl_sysfs", "main_892"}
        /\ shown = {} \/ (shown = valid /\ round = "after" /\ at[1] \notin Packages)
        /\ Packages \subseteq Nat /\ 0 \in Domains
    <2>1. UNCHANGED topologyVars /\ pc = "rapl_sysfs" /\ pc' \in {"rapl_sysfs", "main_892"}
      BY DEF SysfsNext, SysfsName, SysfsNoName, SysfsRead, NextRound, SysfsPrint, InRound,
             RoundOver, Return, processVars
    <2>2. Packages \subseteq Nat /\ 0 \in Domains
      BY PackageFacts, RaplSysfsAssumption DEF Domains
    <2> QED
      BY <2>1, <2>2 DEF topologyVars, Packages, SysfsInv
  <1>1. pc \notin BeforeSysfs /\ pc' \notin BeforeSysfs
    BY <1>0 DEF BeforeSysfs
  <1>2. CASE SysfsName
    <2>1. /\ round = "name" /\ round' = "name" /\ shown' = shown /\ at[1] \in Packages
          /\ valid' = valid \cup {at} \/ (at[2] # 0 /\ valid' = valid)
          /\ at' = NextAt(NUM_RAPL_DOMAINS) /\ at \in Nat \X Domains
      BY <1>2 DEF SysfsName, InRound, SysfsInv
    <2>2. shown' = {} /\ at \in Packages \X Domains
      BY <1>0, <2>1
    <2>3. /\ at' \in Nat \X Domains
          /\ \A d \in Nat \X Domains : Passed(d)' <=> Passed(d) \/ d = at
      BY <2>1, NextAtPasses
    <2>4. \A j \in Packages : Passed(<<j, 0>>)' => <<j, 0>> \in valid'
      <3>1. SUFFICES ASSUME NEW j \in Packages, Passed(<<j, 0>>)' PROVE <<j, 0>> \in valid'
        OBVIOUS
      <3>2. Passed(<<j, 0>>) \/ <<j, 0>> = at
        BY <1>0, <2>3, <3>1
      <3>3. Passed(<<j, 0>>) => <<j, 0>> \in valid
        BY <3>1 DEF SysfsInv
      <3> QED
        BY <2>1, <3>2, <3>3
    <2>5. valid' \subseteq Packages \X Domains
      BY <2>1, <2>2 DEF SysfsInv
    <2> QED
      BY <1>0, <1>1, <2>1, <2>2, <2>3, <2>4, <2>5 DEF SysfsInv
  <1>3. CASE SysfsNoName
    BY <1>0, <1>1, <1>3 DEF SysfsNoName, sysfsVars, SysfsInv, Passed, Sought
  <1>4. CASE SysfsRead
    <2>1. /\ round \in {"before", "after"} /\ round' = round /\ valid' = valid
          /\ shown' = shown /\ at[1] \in Packages
          /\ at' = NextAt(NUM_RAPL_DOMAINS) /\ at \in Nat \X Domains
          /\ valid \subseteq Packages \X Domains
      BY <1>4 DEF SysfsRead, InRound, SysfsInv
    <2>6. /\ got \subseteq got' /\ missed \subseteq missed'
          /\ at \in valid => <<round, at>> \in got' \cup missed'
      BY <1>4 DEF SysfsRead
    <2>7. \A r, d : Sought(r, d) \/ (at \in valid /\ r = round /\ d = at) => Sought(r, d)'
      BY <2>1, <2>6 DEF Sought
    <2>2. shown' = {}
      BY <1>0, <2>1
    <2>3. /\ at' \in Nat \X Domains
          /\ \A d \in Nat \X Domains : Passed(d)' <=> Passed(d) \/ d = at
      BY <2>1, NextAtPasses
    <2>4. ASSUME NEW d \in valid
          PROVE  /\ round = "after" \/ (round = "before" /\ Passed(d)') => Sought("before", d)'
                 /\ round = "after" /\ Passed(d)' => Sought("after", d)'
      <3>1. d \in Nat \X Domains
        BY <1>0, <2>1
      <3>2. Passed(d)' => Passed(d) \/ d = at
        BY <2>3, <3>1
      <3>3. /\ round = "after" \/ (round = "before" /\ Passed(d)) => Sought("before", d)
            /\ round = "after" /\ Passed(d) => Sought("after", d)
        BY DEF SysfsInv
      <3> QED
        BY <2>1, <2>7, <3>2, <3>3
    <2>5. \A j \in Packages : <<j, 0>> \in valid
      BY <2>1 DEF SysfsInv
    <2> QED
      BY <1>0, <1>1, <2>1, <2>2, <2>3, <2>4, <2>5 DEF SysfsInv
  <1>5. CASE NextRound
    <2>1. /\ at[1] \notin Packages /\ at' = <<0, 0>>
          /\ valid' = valid /\ got' = got /\ missed' = missed /\ shown' = shown
          /\ \/ round = "name" /\ round' = "before"
             \/ round = "before" /\ round' = "after"
      BY <1>5 DEF NextRound, RoundOver
    <2>2. shown' = {} /\ at \in Nat \X Domains /\ at' \in Nat \X Domains
          /\ valid \subseteq Packages \X Domains
      BY <1>0, <2>1 DEF SysfsInv
    <2>3. \A d \in Packages \X Domains : Passed(d)
      BY <2>1, <2>2, RoundPassed
    <2>4. \A j \in Packages : <<j, 0>> \in valid
      BY <1>0, <2>3 DEF SysfsInv
    <2>5. \A d \in valid : ~Passed(d)'
      <3>1. SUFFICES ASSUME NEW d \in valid PROVE ~Passed(d)'
        OBVIOUS
      <3>3. Domains \subseteq Nat
        BY RaplSysfsAssumption DEF Domains
      <3>2. d[1] \in Nat /\ d[2] \in Nat
        BY <1>0, <2>2, <3>3
      <3> QED
        BY <2>1, <3>2 DEF Passed
    <2>6. \A d \in valid : round = "before" => Sought("before", d)'
      BY <2>1, <2>2, <2>3 DEF SysfsInv, Sought
    <2> QED
      BY <1>0, <1>1, <2>1, <2>2, <2>4, <2>5, <2>6 DEF SysfsInv
  <1>6. CASE SysfsPrint
    <2>1. /\ round = "after" /\ round' = round /\ at' = at /\ at[1] \notin Packages
          /\ valid' = valid /\ got' = got /\ missed' = missed
          /\ valid \subseteq Packages \X Domains
          /\ shown' = {d \in Packages \X Domains : d \in valid}
      BY <1>6 DEF SysfsPrint, RoundOver, SysfsInv
    <2>2. shown' = valid
      BY <2>1
    <2> QED
      BY <1>0, <1>1, <2>1, <2>2 DEF SysfsInv, Passed, Sought
  <1> QED
    BY <1>2, <1>3, <1>4, <1>5, <1>6 DEF SysfsNext

\* Every other step is none of rapl_sysfs.
LEMMA SysfsStep ==
  ASSUME TopologyInv, SysfsInv, [Next]_vars
  PROVE  SysfsInv'
  <1>1. CASE RaplSysfsStep
    BY <1>1, SysfsNextKeeps DEF RaplSysfsStep
  <1>2. CASE ~RaplSysfsStep
    <2>1. UNCHANGED sysfsVars
      BY <1>2 DEF Next, vars, interfaceVars, Option, OptionsRead, Detect, TrySysfs, TryPerf,
                  TryMsr, MainEnds, RaplPerfStep, RaplMsrStep
    <2> QED
      BY <2>1, StepsForward, TopologyStep, SysfsFrame
  <1> QED
    BY <1>1, <1>2

\* What rapl_sysfs prints was read or complained of, in both rounds.
LEMMA ShownIsSaid ==
  ASSUME TopologyInv, SysfsInv
  PROVE  UnreadIsSaid
  <1>1. SUFFICES ASSUME shown # {} PROVE UnreadIsSaid
    BY DEF UnreadIsSaid
  <1>2. /\ shown = valid /\ round = "after" /\ at[1] \notin Packages
        /\ at \in Nat \X Domains /\ valid \subseteq Packages \X Domains
    BY <1>1 DEF SysfsInv
  <1>3. \A d \in Packages \X Domains : Passed(d)
    BY <1>2, RoundPassed
  <1>4. \A d \in valid : Sought("before", d) /\ Sought("after", d)
    BY <1>2, <1>3 DEF SysfsInv
  <1>5. \A j \in Packages : <<j, 0>> \in valid
    BY <1>2 DEF SysfsInv
  <1> QED
    BY <1>2, <1>4, <1>5 DEF UnreadIsSaid, Sought
-----------------------------------------------------------------------------
(* rapl_perf.                                                              *)

\* The domains are numbered from 1.
LEMMA PerfDomains ==
  /\ Len(PERF_DOMAINS) \in Nat \ {0} /\ DOMAIN PERF_DOMAINS = 1..Len(PERF_DOMAINS)
  /\ DOMAIN PERF_DOMAINS \subseteq Nat \ {0} /\ 1 \in DOMAIN PERF_DOMAINS
  BY RaplPerfAssumption

\* rapl_perf starts at the first counter with none open.
LEMMA PerfInit1 == Init => PerfInv
  <1> SUFFICES ASSUME Init PROVE PerfInv
    OBVIOUS
  <1>1. /\ config = <<>> /\ pos = <<0, 1>> /\ counters = {} /\ perfShown = {}
        /\ pc = "options"
    BY DEF Init, PerfInit, TopologyInit
  <1> QED
    BY <1>1, PerfDomains DEF PerfInv

\* Other steps leave the counters alone; before the first is opened there is none.
LEMMA PerfFrame ==
  ASSUME TopologyInv, PerfInv, [Next]_vars, UNCHANGED perfVars
  PROVE  PerfInv'
  <1>1. /\ config' = config /\ pos' = pos /\ counters' = counters /\ perfShown' = perfShown
        /\ Events' = Events
    BY DEF perfVars, Events
  <1>2. pc' \in BeforePerf => pc \in BeforePerf
    BY StepsForward
  <1>3. CASE pc \in BeforePerf
    <2>1. pos = <<0, 1>> /\ counters = {} /\ perfShown = {}
      BY <1>3 DEF PerfInv
    <2>2. \A i \in Events, j \in Packages' : ~Opened(i, j)'
      <3>1. SUFFICES ASSUME NEW i \in Events, NEW j \in Packages' PROVE ~Opened(i, j)'
        OBVIOUS
      <3>2. i \in Nat \ {0}
        BY PerfDomains DEF Events, PerfInv
      <3>3. total_packages' \in Nat
        BY TopologyStep DEF TopologyInv
      <3>4. j \in 0..(total_packages' - 1)
        BY DEF Packages
      <3>5. j \in Nat
        BY <3>3, <3>4
      <3> QED
        BY <1>1, <2>1, <3>2, <3>5 DEF Opened
    <2> QED
      BY <1>1, <1>2, <2>1, <2>2 DEF PerfInv
  <1>4. CASE pc \notin BeforePerf
    <2>1. Packages' = Packages /\ package_map' = package_map
      BY <1>4, StepsForward DEF BeforePerf, topologyVars, Packages
    <2>2. \A i, j : Counter(i, j)' = Counter(i, j) /\ Opened(i, j)' = Opened(i, j)
      BY <1>1, <2>1 DEF Counter, Opened
    <2>3. pc' = "rapl_perf" => pc = "rapl_perf" \/ pc \in BeforePerf
      <3>1. CASE TrySysfs \/ TryPerf \/ TryMsr \/ MainEnds
        BY <3>1 DEF TrySysfs, TryPerf, TryMsr, MainEnds, Call, Exit, BeforePerf, BeforeSysfs
      <3>2. CASE RaplMsrStep
        BY <3>2 DEF RaplMsrStep, MsrNext, MsrUnsupported, OpenMsr, OpenMsrFails, ReadMsr,
                    ReadMsrFails, CloseMsr, RoundEnds, Return, Exit, processVars
      <3>3. CASE RaplPerfStep
        BY <3>3 DEF RaplPerfStep, PerfNext, PerfNoType, PerfEvents, PerfSkip, PerfOpen,
                    PerfOpenFails, PerfPrint, Opening
      <3>4. CASE Option \/ OptionsRead \/ Detect \/ RaplSysfsStep
        BY <3>4 DEF Option, OptionsRead, Detect, DetectModel, DetectPackage, PackagesDetected,
                    RaplSysfsStep, SysfsNext, SysfsName, SysfsNoName, SysfsRead, NextRound,
                    SysfsPrint, InRound, RoundOver, BeforePerf, BeforeSysfs
      <3>5. CASE UNCHANGED vars
        BY <3>5 DEF vars, processVars
      <3> QED
        BY <3>1, <3>2, <3>3, <3>4, <3>5 DEF Next
    <2> QED
      BY <1>1, <1>2, <1>4, <2>1, <2>2, <2>3 DEF PerfInv
  <1> QED
    BY <1>3, <1>4

\* The loop that opens goes through the domains of a package and on to the next.
LEMMA NextPosOpens ==
  ASSUME pos \in Nat \X DOMAIN PERF_DOMAINS, pos' = NextPos
  PROVE  /\ pos' \in Nat \X DOMAIN PERF_DOMAINS
         /\ \A i \in DOMAIN PERF_DOMAINS, j \in Nat :
              Opened(i, j)' <=> Opened(i, j) \/ <<j, i>> = pos
  <1>1. PICK j0 \in Nat, i0 \in DOMAIN PERF_DOMAINS : pos = <<j0, i0>>
    OBVIOUS
  <1>2. /\ i0 < Len(PERF_DOMAINS) => pos' = <<j0, i0 + 1>>
        /\ ~(i0 < Len(PERF_DOMAINS)) => pos' = <<j0 + 1, 1>>
    BY <1>1 DEF NextPos
  <1>3. pos' \in Nat \X DOMAIN PERF_DOMAINS
    BY <1>1, <1>2, PerfDomains
  <1>4. ASSUME NEW i \in DOMAIN PERF_DOMAINS, NEW j \in Nat
        PROVE  Opened(i, j)' <=> Opened(i, j) \/ <<j, i>> = pos
    <2>1. i \in 1..Len(PERF_DOMAINS) /\ i0 \in 1..Len(PERF_DOMAINS) /\ Len(PERF_DOMAINS) \in Nat
      BY PerfDomains
    <2> QED
      BY <1>1, <1>2, <2>1 DEF Opened
  <1> QED
    BY <1>3, <1>4

\* Each step of rapl_perf leaves the counters behind it open, until all are printed.
LEMMA PerfNextKeeps ==
  ASSUME TopologyInv, PerfInv, PerfNext
  PROVE  PerfInv'
  <1>0. /\ Packages' = Packages /\ package_map' = package_map /\ pc = "rapl_perf"
        /\ pc' \in {"rapl_perf", "main_898"} /\ Packages \subseteq Nat
    <2>1. /\ UNCHANGED topologyVars /\ pc = "rapl_perf" /\ pc' \in {"rapl_perf", "main_898"}
      BY DEF PerfNext, PerfNoType, PerfEvents, PerfSkip, PerfOpen, PerfOpenFails, PerfPrint,
             Opening, Return, processVars
    <2> QED
      BY <2>1, PackageFacts DEF topologyVars, Packages
  <1>1. /\ pc \notin BeforePerf /\ pc' \notin BeforePerf
        /\ \A i, j : Counter(i, j)' = Counter(i, j)
    BY <1>0 DEF BeforePerf, BeforeSysfs, Counter
  <1>2. /\ config = <<>> \/ config \in [DOMAIN PERF_DOMAINS -> {"event", "zero", "left"}]
        /\ config = <<>> => pos = <<0, 1>> /\ counters = {}
        /\ pos \in Nat \X DOMAIN PERF_DOMAINS
        /\ perfShown = {} /\ Events \subseteq DOMAIN PERF_DOMAINS
        /\ \A i \in Events, j \in Packages : Opened(i, j) => Counter(i, j) \in counters
    <2>1. Events \subseteq DOMAIN PERF_DOMAINS
      BY DEF Events, PerfInv
    <2> QED
      BY <1>0, <2>1 DEF PerfInv
  <1>3. CASE PerfNoType \/ PerfOpenFails
    <2>1. UNCHANGED perfVars /\ pc' = "main_898"
      BY <1>3 DEF PerfNoType, PerfOpenFails, Return
    <2>2. /\ config' = config /\ pos' = pos /\ counters' = counters /\ perfShown' = perfShown
          /\ Events' = Events
      BY <2>1 DEF perfVars, Events
    <2> QED
      BY <1>0, <1>1, <1>2, <2>1, <2>2 DEF PerfInv
  <1>4. CASE PerfEvents
    <2>1. /\ config = <<>> /\ config' \in [DOMAIN PERF_DOMAINS -> {"event", "zero", "left"}]
          /\ pos' = pos /\ counters' = counters /\ perfShown' = perfShown
          /\ pos = <<0, 1>> /\ counters = {}
      BY <1>2, <1>4 DEF PerfEvents
    <2>2. Events' \subseteq DOMAIN PERF_DOMAINS
      BY <2>1 DEF Events
    <2>3. \A i \in Events', j \in Packages : ~Opened(i, j)'
      <3>1. SUFFICES ASSUME NEW i \in Events', NEW j \in Packages PROVE ~Opened(i, j)'
        OBVIOUS
      <3>2. i \in Nat \ {0} /\ j \in Nat
        BY <1>0, <2>2, PerfDomains
      <3> QED
        BY <2>1, <3>2 DEF Opened
    <2> QED
      BY <1>0, <1>1, <1>2, <2>1, <2>3 DEF PerfInv
  <1>5. CASE PerfSkip \/ PerfOpen
    <2>1. /\ config # <<>> /\ config' = config /\ Events' = Events /\ perfShown' = perfShown
          /\ pos[1] \in Packages /\ pos' = NextPos
          /\ pos[2] \in DOMAIN PERF_DOMAINS
      BY <1>2, <1>5 DEF PerfSkip, PerfOpen, Opening, Events
    <2>2. /\ pos' \in Nat \X DOMAIN PERF_DOMAINS
          /\ \A i \in DOMAIN PERF_DOMAINS, j \in Nat :
               Opened(i, j)' <=> Opened(i, j) \/ <<j, i>> = pos
      BY <1>2, <2>1, NextPosOpens
    <2>3. /\ counters \subseteq counters'
          /\ pos[2] \in Events => Counter(pos[2], pos[1]) \in counters'
          /\ \A c \in counters' : c \in counters \/
               (c = Counter(pos[2], pos[1]) /\ package_map[pos[1]] # NoCpu)
      <3>1. CASE PerfSkip
        <4>1. counters' = counters /\ config[pos[2]] = "zero"
          BY <3>1 DEF PerfSkip, Skipped
        <4>2. pos[2] \notin Events
          BY <4>1 DEF Events
        <4> QED
          BY <4>1, <4>2
      <3>2. CASE PerfOpen
        <4>1. /\ counters' = counters \cup {Counter(pos[2], pos[1])}
              /\ package_map[pos[1]] # NoCpu
          BY <3>2 DEF PerfOpen, Counter
        <4> QED
          BY <4>1
      <3> QED
        BY <1>5, <3>1, <3>2
    <2>4. \A i \in Events, j \in Packages : Opened(i, j)' => Counter(i, j) \in counters'
      <3>1. SUFFICES ASSUME NEW i \in Events, NEW j \in Packages, Opened(i, j)'
                     PROVE  Counter(i, j) \in counters'
        OBVIOUS
      <3>2. Opened(i, j) \/ <<j, i>> = pos
        BY <1>0, <1>2, <2>2, <3>1
      <3>3. CASE <<j, i>> = pos
        <4>1. i = pos[2] /\ j = pos[1]
          BY <3>3
        <4> QED
          BY <2>3, <4>1
      <3> QED
        BY <1>2, <2>3, <3>1, <3>2, <3>3
    <2>5. \A c \in counters' :
            \E i \in DOMAIN PERF_DOMAINS, j \in Packages :
              c = Counter(i, j) /\ package_map[j] # NoCpu
      BY <2>1, <2>3 DEF PerfInv
    <2> QED
      BY <1>0, <1>1, <1>2, <2>1, <2>2, <2>4, <2>5 DEF PerfInv
  <1>6. CASE PerfPrint
    <2>1. /\ config # <<>> /\ config' = config /\ pos' = pos /\ Events' = Events
          /\ counters' = {} /\ pc' = "main_898" /\ pos[1] \notin Packages
          /\ perfShown' = {<<c.i, c.j>> : c \in counters}
      BY <1>6 DEF PerfPrint, Return, Events
    <2>2. Events \X Packages \subseteq perfShown'
      <3>1. SUFFICES ASSUME NEW i \in Events, NEW j \in Packages PROVE <<i, j>> \in perfShown'
        OBVIOUS
      <3>2. total_packages \in Nat /\ pos[1] \in Nat
        BY <1>2, PackageFacts
      <3>3. Opened(i, j)
        BY <2>1, <3>2 DEF Packages, Opened
      <3>4. Counter(i, j) \in counters
        BY <1>2, <3>3
      <3>5. Counter(i, j).i = i /\ Counter(i, j).j = j
        BY DEF Counter
      <3> QED
        BY <2>1, <3>4, <3>5
    <2>3. \A d \in perfShown' : d[2] \in Packages
      <3>1. SUFFICES ASSUME NEW c \in counters PROVE c.j \in Packages
        BY <2>1
      <3>2. PICK i \in DOMAIN PERF_DOMAINS, j \in Packages : c = Counter(i, j)
        BY DEF PerfInv
      <3> QED
        BY <3>2 DEF Counter
    <2> QED
      BY <1>0, <1>1, <1>2, <2>1, <2>2, <2>3 DEF PerfInv
  <1> QED
    BY <1>3, <1>4, <1>5, <1>6 DEF PerfNext

\* Every other step is none of rapl_perf.
LEMMA PerfStep ==
  ASSUME TopologyInv, PerfInv, [Next]_vars
  PROVE  PerfInv'
  <1>1. CASE RaplPerfStep
    BY <1>1, PerfNextKeeps DEF RaplPerfStep
  <1>2. CASE ~RaplPerfStep
    <2>1. UNCHANGED perfVars
      BY <1>2 DEF Next, vars, interfaceVars, Option, OptionsRead, Detect, TrySysfs, TryPerf,
                  TryMsr, MainEnds, RaplSysfsStep, RaplMsrStep
    <2> QED
      BY <2>1, PerfFrame
  <1> QED
    BY <1>1, <1>2

\* The counters are open on a cpu of their package, and all or none are printed.
LEMMA PerfAll ==
  ASSUME TopologyInv, PerfInv
  PROVE  PerfAllOrNothing
  <1>1. ASSUME NEW c \in counters PROVE PackageOf(c.cpu) = c.j
    <2>1. PICK i \in DOMAIN PERF_DOMAINS, j \in Packages :
            c = Counter(i, j) /\ package_map[j] # NoCpu
      BY DEF PerfInv
    <2>2. c.cpu = package_map[j] /\ c.j = j
      BY <2>1 DEF Counter
    <2> QED
      BY <2>1, <2>2, PackageFacts
  <1> QED
    BY <1>1 DEF PerfAllOrNothing, PerfInv
-----------------------------------------------------------------------------
(* rapl_msr.                                                               *)

\* What is in a sequence that is put together, and in its tail.
LEMMA HasConcat ==
  ASSUME NEW s \in Seq(Names), NEW t \in Seq(Names), NEW r
  PROVE  s \o t \in Seq(Names) /\ (Has(s \o t, r) <=> Has(s, r) \/ Has(t, r))
  <1>1. s \o t \in Seq(Names)
    OBVIOUS
  <1>2. ASSUME Has(s \o t, r) PROVE Has(s, r) \/ Has(t, r)
    <2>1. PICK k \in DOMAIN (s \o t) : (s \o t)[k] = r
      BY <1>2 DEF Has
    <2>2. CASE k <= Len(s)
      <3>1. k \in DOMAIN s /\ s[k] = r
        BY <2>1, <2>2
      <3> QED
        BY <3>1 DEF Has
    <2>3. CASE ~(k <= Len(s))
      <3>1. k - Len(s) \in DOMAIN t /\ t[k - Len(s)] = r
        BY <2>1, <2>3
      <3> QED
        BY <3>1 DEF Has
    <2> QED
      BY <2>2, <2>3
  <1>3. ASSUME Has(s, r) PROVE Has(s \o t, r)
    <2>1. PICK k \in DOMAIN s : s[k] = r
      BY <1>3 DEF Has
    <2>2. k \in DOMAIN (s \o t) /\ (s \o t)[k] = r
      BY <2>1
    <2> QED
      BY <2>2 DEF Has
  <1>4. ASSUME Has(t, r) PROVE Has(s \o t, r)
    <2>1. PICK k \in DOMAIN t : t[k] = r
      BY <1>4 DEF Has
    <2>2. Len(s) + k \in DOMAIN (s \o t) /\ (s \o t)[Len(s) + k] = r
      BY <2>1
    <2> QED
      BY <2>2 DEF Has
  <1> QED
    BY <1>1, <1>2, <1>3, <1>4

\* A sequence of one register.
LEMMA HasOne ==
  ASSUME NEW reg \in Names, NEW r
  PROVE  <<reg>> \in Seq(Names) /\ (Has(<<reg>>, r) <=> r = reg)
  <1> DEFINE s == <<reg>>
  <1>1. s \in Seq(Names) /\ DOMAIN s = {1} /\ s[1] = reg
    OBVIOUS
  <1> HIDE DEF s
  <1>2. Has(s, r) <=> r = reg
    BY <1>1 DEF Has
  <1> QED
    BY <1>1, <1>2 DEF s

\* A sequence of two registers.
LEMMA HasTwo ==
  ASSUME NEW x \in Names, NEW y \in Names, NEW r
  PROVE  <<x, y>> \in Seq(Names) /\ (Has(<<x, y>>, r) <=> r = x \/ r = y)
  <1> DEFINE s == <<x, y>>
  <1>1. s \in Seq(Names) /\ DOMAIN s = {1, 2} /\ s[1] = x /\ s[2] = y
    OBVIOUS
  <1> HIDE DEF s
  <1>2. Has(s, r) <=> r = x \/ r = y
    BY <1>1 DEF Has
  <1> QED
    BY <1>1, <1>2 DEF s

\* A conditional register is in its sequence on its condition.
LEMMA HasWhen ==
  ASSUME NEW reason, NEW reg \in Names, NEW r
  PROVE  When(reason, reg) \in Seq(Names) /\ (Has(When(reason, reg), r) <=> reason /\ r = reg)
  <1>1. CASE reason
    <2>1. When(reason, reg) = <<reg>>
      BY <1>1 DEF When
    <2>2. When(reason, reg) \in Seq(Names) /\ (Has(When(reason, reg), r) <=> r = reg)
      BY <2>1, HasOne
    <2> QED
      BY <1>1, <2>2, Zenon
  <1>2. CASE ~reason
    <2>1. When(reason, reg) = <<>>
      BY <1>2 DEF When
    <2>2. <<>> \in Seq(Names) /\ ~Has(<<>>, r)
      BY DEF Has
    <2> QED
      BY <1>2, <2>1, <2>2
  <1> QED
    BY <1>1, <1>2

\* Of the registers to read, the first is read and the rest remain.
LEMMA HasTail ==
  ASSUME NEW s \in Seq(Names), s # <<>>
  PROVE  /\ Tail(s) \in Seq(Names) /\ Has(s, Head(s))
         /\ \A r : Has(s, r) => r = Head(s) \/ Has(Tail(s), r)
         /\ \A k \in DOMAIN Tail(s) : Has(s, Tail(s)[k])
  <1>1. Tail(s) \in Seq(Names) /\ 1 \in DOMAIN s /\ s[1] = Head(s)
    OBVIOUS
  <1>2. ASSUME NEW r, Has(s, r) PROVE r = Head(s) \/ Has(Tail(s), r)
    <2>1. PICK k \in DOMAIN s : s[k] = r
      BY <1>2 DEF Has
    <2>2. CASE k = 1
      BY <1>1, <2>1, <2>2
    <2>3. CASE k # 1
      <3>1. k - 1 \in DOMAIN Tail(s) /\ Tail(s)[k - 1] = r
        BY <2>1, <2>3
      <3> QED
        BY <3>1 DEF Has
    <2> QED
      BY <2>2, <2>3
  <1>3. ASSUME NEW k \in DOMAIN Tail(s) PROVE Has(s, Tail(s)[k])
    <2>1. k + 1 \in DOMAIN s /\ s[k + 1] = Tail(s)[k]
      BY <1>3
    <2> QED
      BY <2>1 DEF Has
  <1> QED
    BY <1>1, <1>2, <1>3 DEF Has

\* The conditional registers are names.
LEMMA AreNames ==
  /\ Registers \subseteq Names
  /\ {"POWER_UNIT", "PKG_POWER_INFO", "PKG_POWER_LIMIT",
      "PKG_PERF", "PP0_PERF", "PP0_POLICY", "PP1_POLICY"} \subseteq Names
  /\ "PKG" \in Names /\ "PP0" \in Names /\ "PP1" \in Names
  /\ "DRAM" \in Names /\ "PSYS" \in Names /\ "PP1_POLICY" \in Names
  BY DEF Names, Registers

\* What the second round reads, and what the third.
LEMMA BeforeHas ==
  ASSUME NEW m
  PROVE  /\ BeforeRegs(m) \in Seq(Names)
         /\ \A r : Has(BeforeRegs(m), r) <=>
              \/ r = "PKG"
              \/ r \in {"PP0", "PP1", "DRAM"} /\ r \in Avail(m)
              \/ r = "PSYS" /\ PsysModel(m)
  <1>1. ASSUME NEW r
        PROVE  /\ BeforeRegs(m) \in Seq(Names)
               /\ Has(BeforeRegs(m), r) <=>
                    \/ r = "PKG"
                    \/ r = "PP0" /\ "PP0" \in Avail(m)
                    \/ r = "PP1" /\ "PP1" \in Avail(m)
                    \/ r = "DRAM" /\ "DRAM" \in Avail(m)
                    \/ r = "PSYS" /\ PsysModel(m)
    <2> DEFINE a == When("PP0" \in Avail(m), "PP0")
               b == When("PP1" \in Avail(m), "PP1")
               c == When("DRAM" \in Avail(m), "DRAM")
               d == When(PsysModel(m), "PSYS")
    <2>1. /\ a \in Seq(Names) /\ (Has(a, r) <=> "PP0" \in Avail(m) /\ r = "PP0")
          /\ b \in Seq(Names) /\ (Has(b, r) <=> "PP1" \in Avail(m) /\ r = "PP1")
          /\ c \in Seq(Names) /\ (Has(c, r) <=> "DRAM" \in Avail(m) /\ r = "DRAM")
      BY HasWhen, AreNames
    <2>2. d \in Seq(Names) /\ (Has(d, r) <=> PsysModel(m) /\ r = "PSYS")
      BY HasWhen, AreNames
    <2>3. <<"PKG">> \in Seq(Names) /\ (Has(<<"PKG">>, r) <=> r = "PKG")
      BY HasOne, AreNames
    <2>4. BeforeRegs(m) = <<"PKG">> \o a \o b \o c \o d
      BY DEF BeforeRegs
    <2> HIDE DEF a, b, c, d
    <2>5. <<"PKG">> \o a \in Seq(Names) /\ (Has(<<"PKG">> \o a, r) <=> r = "PKG" \/ Has(a, r))
      BY <2>1, <2>3, HasConcat
    <2>6. /\ <<"PKG">> \o a \o b \in Seq(Names)
          /\ Has(<<"PKG">> \o a \o b, r) <=> r = "PKG" \/ Has(a, r) \/ Has(b, r)
      BY <2>1, <2>5, HasConcat
    <2>7. /\ <<"PKG">> \o a \o b \o c \in Seq(Names)
          /\ Has(<<"PKG">> \o a \o b \o c, r) <=> r = "PKG" \/ Has(a, r) \/ Has(b, r) \/ Has(c, r)
      BY <2>1, <2>6, HasConcat
    <2>8. /\ <<"PKG">> \o a \o b \o c \o d \in Seq(Names)
          /\ Has(<<"PKG">> \o a \o b \o c \o d, r) <=>
               r = "PKG" \/ Has(a, r) \/ Has(b, r) \/ Has(c, r) \/ Has(d, r)
      BY <2>2, <2>7, HasConcat
    <2>9. /\ BeforeRegs(m) \in Seq(Names)
          /\ Has(BeforeRegs(m), r) <=>
               r = "PKG" \/ Has(a, r) \/ Has(b, r) \/ Has(c, r) \/ Has(d, r)
      BY <2>4, <2>8
    <2> QED
      BY <2>1, <2>2, <2>9
  <1>2. BeforeRegs(m) \in Seq(Names)
    BY <1>1
  <1> QED
    BY <1>1, <1>2

\* The registers of the round after the sleep, by the flags of the chip.
LEMMA AfterHas ==
  ASSUME NEW m
  PROVE  /\ AfterRegs(m) \in Seq(Names)
         /\ \A r : Has(AfterRegs(m), r) <=>
              r \in {"PKG", "PP0"} \/ (r \in {"PP1", "DRAM", "PSYS"} /\ r \in Avail(m))
  <1>1. ASSUME NEW r
        PROVE  /\ AfterRegs(m) \in Seq(Names)
               /\ Has(AfterRegs(m), r) <=>
                    \/ r = "PKG" \/ r = "PP0"
                    \/ r = "PP1" /\ "PP1" \in Avail(m)
                    \/ r = "DRAM" /\ "DRAM" \in Avail(m)
                    \/ r = "PSYS" /\ "PSYS" \in Avail(m)
    <2> DEFINE p == <<"PKG", "PP0">>
               b == When("PP1" \in Avail(m), "PP1")
               c == When("DRAM" \in Avail(m), "DRAM")
               d == When("PSYS" \in Avail(m), "PSYS")
    <2>1. /\ b \in Seq(Names) /\ (Has(b, r) <=> "PP1" \in Avail(m) /\ r = "PP1")
          /\ c \in Seq(Names) /\ (Has(c, r) <=> "DRAM" \in Avail(m) /\ r = "DRAM")
          /\ d \in Seq(Names) /\ (Has(d, r) <=> "PSYS" \in Avail(m) /\ r = "PSYS")
      BY HasWhen, AreNames
    <2>2. p \in Seq(Names) /\ (Has(p, r) <=> r = "PKG" \/ r = "PP0")
      BY HasTwo, AreNames
    <2>3. AfterRegs(m) = p \o b \o c \o d
      BY DEF AfterRegs
    <2> HIDE DEF p, b, c, d
    <2>4. p \o b \in Seq(Names) /\ (Has(p \o b, r) <=> Has(p, r) \/ Has(b, r))
      BY <2>1, <2>2, HasConcat
    <2>5. p \o b \o c \in Seq(Names) /\ (Has(p \o b \o c, r) <=> Has(p, r) \/ Has(b, r) \/ Has(c, r))
      BY <2>1, <2>4, HasConcat
    <2>6. /\ p \o b \o c \o d \in Seq(Names)
          /\ Has(p \o b \o c \o d, r) <=> Has(p, r) \/ Has(b, r) \/ Has(c, r) \/ Has(d, r)
      BY <2>1, <2>5, HasConcat
    <2>7. /\ AfterRegs(m) \in Seq(Names)
          /\ Has(AfterRegs(m), r) <=> Has(p, r) \/ Has(b, r) \/ Has(c, r) \/ Has(d, r)
      BY <2>3, <2>6
    <2> QED
      BY <2>1, <2>2, <2>7
  <1>2. AfterRegs(m) \in Seq(Names)
    BY <1>1
  <1> QED
    BY <1>1, <1>2

\* The registers of every round are names.
LEMMA RegsType ==
  ASSUME NEW m, NEW ph \in {"list", "before", "after"}
  PROVE  Regs(ph, m) \in Seq(Names)
  <1>1. ListRegs(m) \in Seq(Names)
    <2> DEFINE p == <<"POWER_UNIT", "PKG_POWER_INFO", "PKG_POWER_LIMIT">>
               e == IF m \in BridgeEP THEN <<"PKG_PERF", "PP0_PERF", "PP0_POLICY">> ELSE <<>>
               q == When("PP1" \in Avail(m), "PP1_POLICY")
    <2>1. p \in Seq(Names) /\ e \in Seq(Names)
      <3>1. \A x, y, z \in Names : <<x, y, z>> \in Seq(Names)
        OBVIOUS
      <3>2. <<>> \in Seq(Names)
        OBVIOUS
      <3> QED
        BY <3>1, <3>2, AreNames
    <2>2. q \in Seq(Names)
      BY HasWhen, AreNames
    <2>3. ListRegs(m) = p \o e \o q
      BY DEF ListRegs
    <2> HIDE DEF p, e, q
    <2> QED
      BY <2>1, <2>2, <2>3
  <1> QED
    BY <1>1, BeforeHas, AfterHas DEF Regs

\* The third round reads nothing that the second has not read, but for PP0 of a
\* Knights chip.
LEMMA RoundsAgree ==
  ASSUME NEW m \in Supported, NEW r, Has(AfterRegs(m), r)
  PROVE  r \in Registers /\ (Has(BeforeRegs(m), r) \/ (r = "PP0" /\ m \in Knights))
  <1>1. r \in {"PKG", "PP0"} \/ (r \in {"PP1", "DRAM", "PSYS"} /\ r \in Avail(m))
    BY AfterHas
  <1>2. "PP0" \in Avail(m) \/ m \in Knights
    BY DEF Avail, Supported, BridgeEP, LaterEP, Knights, Bridge, Haswell, Skylake
  <1>3. "PSYS" \in Avail(m) => PsysModel(m)
    BY DEF Avail, Supported, BridgeEP, LaterEP, Knights, Bridge, Haswell, Skylake, PsysModel
  <1> QED
    BY <1>1, <1>2, <1>3, BeforeHas DEF Registers

\* rapl_msr starts with the list, and no file is open.
LEMMA MsrInit1 == Init => MsrInv
  <1> SUFFICES ASSUME Init PROVE MsrInv
    OBVIOUS
  <1>1. /\ phase = "list" /\ pkg = 0 /\ fd = NoCpu /\ todo = <<>>
        /\ before = {} /\ after = {}
    BY DEF Init, MsrInit
  <1> QED
    BY <1>1 DEF MsrInv

\* Other steps leave the rounds alone; before the first nothing is read.
LEMMA MsrFrame ==
  ASSUME TopologyInv, MsrInv, [Next]_vars, UNCHANGED msrVars
  PROVE  MsrInv'
  <1>1. /\ phase' = phase /\ pkg' = pkg /\ fd' = fd /\ todo' = todo
        /\ before' = before /\ after' = after
    BY DEF msrVars
  <1>2. pc' \in BeforeMsr => pc \in BeforeMsr
    BY StepsForward
  <1>3. CASE pc \in BeforeMsr
    <2>1. phase = "list" /\ pkg = 0 /\ fd = NoCpu /\ before = {} /\ after = {} /\ todo \in Seq(Names)
      BY <1>3 DEF MsrInv
    <2> QED
      BY <1>1, <2>1 DEF MsrInv
  <1>4. CASE pc \notin BeforeMsr
    <2>1. Packages' = Packages /\ package_map' = package_map /\ cpu_model' = cpu_model
      BY <1>4, StepsForward DEF BeforeMsr, BeforePerf, topologyVars, Packages
    <2>2. /\ \A reg, j : ReadingOf(reg, j)' = ReadingOf(reg, j) /\ Done(reg, j)' = Done(reg, j)
          /\ \A s, r : Has(s, r)' = Has(s, r)
      BY <1>1, <2>1 DEF ReadingOf, Done, Has
    <2> QED
      BY <1>1, <1>2, <1>4, <2>1, <2>2 DEF MsrInv
  <1> QED
    BY <1>3, <1>4

\* Opening a file, and closing one, reads nothing.
LEMMA OpenMsrKeeps ==
  ASSUME TopologyInv, MsrInv, OpenMsr
  PROVE  MsrInv'
  <1>1. /\ cpu_model # Unsupported /\ fd = NoCpu /\ pkg \in Packages /\ package_map[pkg] # NoCpu
        /\ fd' = package_map[pkg] /\ todo' = Regs(phase, cpu_model)
        /\ phase' = phase /\ pkg' = pkg /\ before' = before /\ after' = after
        /\ UNCHANGED topologyVars /\ pc = "rapl_msr" /\ pc' = pc
    BY DEF OpenMsr, processVars
  <1>2. /\ Packages' = Packages /\ package_map' = package_map /\ cpu_model' = cpu_model
        /\ pc' \notin BeforeMsr
        /\ \A reg, j : ReadingOf(reg, j)' = ReadingOf(reg, j)
    BY <1>1 DEF topologyVars, Packages, BeforeMsr, BeforePerf, BeforeSysfs, ReadingOf
  <1>3. phase \in {"list", "before", "after"} /\ pkg \in Nat
    BY DEF MsrInv
  <1>4. todo' \in Seq(Names)
    BY <1>1, <1>3, RegsType
  <1>5. \A k \in DOMAIN todo' : Has(Regs(phase, cpu_model), todo'[k])
    BY <1>1 DEF Has
  <1>6. ASSUME NEW j \in Packages, NEW reg, Done(reg, j)', Has(Regs(phase, cpu_model), reg)
        PROVE  Done(reg, j)
    BY <1>1, <1>6 DEF Done
  <1>7. /\ phase = "before" => Regs(phase, cpu_model) = BeforeRegs(cpu_model)
        /\ phase = "after" => Regs(phase, cpu_model) = AfterRegs(cpu_model)
    BY DEF Regs
  <1>8. ASSUME NEW j \in Packages, NEW reg \in Registers
        PROVE  /\ (phase = "before" /\ Done(reg, j)') \/ phase = "after" =>
                    (Has(BeforeRegs(cpu_model), reg) => ReadingOf(reg, j) \in before)
               /\ phase = "after" /\ Done(reg, j)' =>
                    (Has(AfterRegs(cpu_model), reg) => ReadingOf(reg, j) \in after)
    <2>1. /\ (phase = "before" /\ Done(reg, j)) \/ phase = "after" =>
               (Has(BeforeRegs(cpu_model), reg) => ReadingOf(reg, j) \in before)
          /\ phase = "after" /\ Done(reg, j) =>
               (Has(AfterRegs(cpu_model), reg) => ReadingOf(reg, j) \in after)
      BY DEF MsrInv
    <2> QED
      BY <1>6, <1>7, <2>1
  <1> QED
    BY <1>1, <1>2, <1>3, <1>4, <1>5, <1>8 DEF MsrInv

\* A file is closed when all its registers have been read.
LEMMA CloseMsrKeeps ==
  ASSUME TopologyInv, MsrInv, CloseMsr
  PROVE  MsrInv'
  <1>1. /\ fd # NoCpu /\ todo = <<>> /\ fd' = NoCpu /\ pkg' = pkg + 1 /\ todo' = todo
        /\ phase' = phase /\ before' = before /\ after' = after
        /\ UNCHANGED topologyVars /\ pc = "rapl_msr" /\ pc' = pc
    BY DEF CloseMsr, processVars
  <1>2. /\ Packages' = Packages /\ package_map' = package_map /\ cpu_model' = cpu_model
        /\ pc' \notin BeforeMsr
        /\ \A reg, j : ReadingOf(reg, j)' = ReadingOf(reg, j)
    BY <1>1 DEF topologyVars, Packages, BeforeMsr, BeforePerf, BeforeSysfs, ReadingOf
  <1>3. phase \in {"list", "before", "after"} /\ pkg \in Nat /\ todo \in Seq(Names)
    BY DEF MsrInv
  <1>4. ASSUME NEW j \in Packages, NEW reg, Done(reg, j)'
        PROVE  Done(reg, j)
    <2>1. j \in Nat /\ j < pkg + 1
      BY <1>1, <1>4, PackageFacts DEF Done
    <2>2. ~Has(todo, reg)
      BY <1>1 DEF Has
    <2> QED
      BY <1>1, <1>3, <2>1, <2>2 DEF Done
  <1>5. ASSUME NEW j \in Packages, NEW reg \in Registers
        PROVE  /\ (phase = "before" /\ Done(reg, j)') \/ phase = "after" =>
                    (Has(BeforeRegs(cpu_model), reg) => ReadingOf(reg, j) \in before)
               /\ phase = "after" /\ Done(reg, j)' =>
                    (Has(AfterRegs(cpu_model), reg) => ReadingOf(reg, j) \in after)
    <2>1. /\ (phase = "before" /\ Done(reg, j)) \/ phase = "after" =>
               (Has(BeforeRegs(cpu_model), reg) => ReadingOf(reg, j) \in before)
          /\ phase = "after" /\ Done(reg, j) =>
               (Has(AfterRegs(cpu_model), reg) => ReadingOf(reg, j) \in after)
      BY DEF MsrInv
    <2> QED
      BY <1>4, <2>1
  <1> QED
    BY <1>1, <1>2, <1>3, <1>5 DEF MsrInv

\* One register is read, for the package whose file is open.
LEMMA ReadMsrKeeps ==
  ASSUME TopologyInv, MsrInv, ReadMsr
  PROVE  MsrInv'
  <1> DEFINE reg0 == Head(todo)
  <1>1. /\ fd # NoCpu /\ todo # <<>> /\ todo' = Tail(todo) /\ fd' = fd /\ pkg' = pkg
        /\ phase' = phase
        /\ before' = before \cup IF phase = "before" THEN {Reading(reg0)} ELSE {}
        /\ after' = after \cup IF phase = "after" THEN {Reading(reg0)} ELSE {}
        /\ UNCHANGED topologyVars /\ pc = "rapl_msr" /\ pc' = pc
    BY DEF ReadMsr, processVars
  <1>2. /\ Packages' = Packages /\ package_map' = package_map /\ cpu_model' = cpu_model
        /\ pc' \notin BeforeMsr
        /\ \A reg, j : ReadingOf(reg, j)' = ReadingOf(reg, j)
    BY <1>1 DEF topologyVars, Packages, BeforeMsr, BeforePerf, BeforeSysfs, ReadingOf
  <1>3. /\ phase \in {"list", "before", "after"} /\ pkg \in Nat /\ todo \in Seq(Names)
        /\ cpu_model # Unsupported /\ pkg \in Packages /\ package_map[pkg] = fd
        /\ phase # "after" => after = {}
    BY <1>1 DEF MsrInv
  <1>4. /\ Tail(todo) \in Seq(Names) /\ Has(todo, reg0)
        /\ \A r : Has(todo, r) => r = reg0 \/ Has(Tail(todo), r)
        /\ \A k \in DOMAIN Tail(todo) : Has(todo, Tail(todo)[k])
    BY <1>1, <1>3, HasTail
  <1>5. \A r : Has(todo, r) => Has(Regs(phase, cpu_model), r)
    BY <1>1 DEF MsrInv, Has
  <1>6. Reading(reg0) = ReadingOf(reg0, pkg) /\ ReadingOf(reg0, pkg).reg = reg0
    BY <1>3 DEF Reading, ReadingOf
  <1>7. ASSUME NEW r \in before' \cup after'
        PROVE  \E j \in Packages : r = ReadingOf(r.reg, j) /\ package_map[j] # NoCpu
    <2>1. CASE r \in before \cup after
      BY <2>1 DEF MsrInv
    <2>2. CASE r \notin before \cup after
      <3>1. r = ReadingOf(reg0, pkg)
        BY <1>1, <1>6, <1>7, <2>2
      <3> QED
        BY <1>1, <1>3, <1>6, <3>1
    <2> QED
      BY <2>1, <2>2
  <1>8. ASSUME NEW r \in after' PROVE Has(AfterRegs(cpu_model), r.reg)
    <2>1. CASE r \in after
      BY <2>1 DEF MsrInv
    <2>2. CASE r \notin after
      <3>1. phase = "after" /\ r.reg = reg0
        BY <1>1, <1>6, <1>8, <2>2
      <3>2. Regs(phase, cpu_model) = AfterRegs(cpu_model)
        BY <3>1 DEF Regs
      <3> QED
        BY <1>4, <1>5, <3>1, <3>2
    <2> QED
      BY <2>1, <2>2
  <1>9. ASSUME NEW j \in Packages, NEW reg, Done(reg, j)'
        PROVE  Done(reg, j) \/ (reg = reg0 /\ j = pkg)
    BY <1>1, <1>4, <1>9 DEF Done
  <1>10. ASSUME NEW j \in Packages, NEW reg \in Registers
         PROVE  /\ (phase = "before" /\ Done(reg, j)') \/ phase = "after" =>
                    (Has(BeforeRegs(cpu_model), reg) => ReadingOf(reg, j) \in before')
                /\ phase = "after" /\ Done(reg, j)' =>
                    (Has(AfterRegs(cpu_model), reg) => ReadingOf(reg, j) \in after')
    <2>1. /\ (phase = "before" /\ Done(reg, j)) \/ phase = "after" =>
               (Has(BeforeRegs(cpu_model), reg) => ReadingOf(reg, j) \in before)
          /\ phase = "after" /\ Done(reg, j) =>
               (Has(AfterRegs(cpu_model), reg) => ReadingOf(reg, j) \in after)
      BY DEF MsrInv
    <2>2. /\ before \subseteq before' /\ after \subseteq after'
          /\ phase = "before" => ReadingOf(reg0, pkg) \in before'
          /\ phase = "after" => ReadingOf(reg0, pkg) \in after'
      BY <1>1, <1>6
    <2> QED
      BY <1>9, <2>1, <2>2
  <1>11. \A k \in DOMAIN todo' : Has(Regs(phase, cpu_model), todo'[k])
    BY <1>1, <1>4, <1>5
  <1>12. phase # "after" => after' = {}
    BY <1>1, <1>3
  <1> QED
    BY <1>1, <1>2, <1>3, <1>4, <1>7, <1>8, <1>10, <1>11, <1>12 DEF MsrInv

\* At the end of a round its registers have been read for every package.
LEMMA RoundDone ==
  ASSUME TopologyInv, MsrInv, pkg \notin Packages
  PROVE  \A j \in Packages : \A reg : Done(reg, j)
  <1>1. total_packages \in Nat /\ pkg \in Nat
    BY PackageFacts DEF MsrInv
  <1> QED
    BY <1>1 DEF Packages, Done

\* A round ends when it has been through all packages; the next starts at the first.
LEMMA RoundEndsKeeps ==
  ASSUME TopologyInv, MsrInv, RoundEnds
  PROVE  MsrInv'
  <1>1. /\ cpu_model # Unsupported /\ fd = NoCpu /\ pkg \notin Packages
        /\ fd' = fd /\ todo' = todo /\ before' = before /\ after' = after
        /\ UNCHANGED topologyVars /\ pc' \in {"rapl_msr", "main_902"}
        /\ phase \in {"list", "before", "after"} /\ pkg \in Nat
        /\ \/ phase = "after" /\ phase' = phase /\ pkg' = pkg
           \/ phase = "list" /\ phase' = "before" /\ pkg' = 0
           \/ phase = "before" /\ phase' = "after" /\ pkg' = 0
    BY DEF RoundEnds, Return, processVars, MsrInv
  <1>2. /\ Packages' = Packages /\ package_map' = package_map /\ cpu_model' = cpu_model
        /\ pc' \notin BeforeMsr
        /\ \A reg, j : ReadingOf(reg, j)' = ReadingOf(reg, j)
    BY <1>1 DEF topologyVars, Packages, BeforeMsr, BeforePerf, BeforeSysfs, ReadingOf
  <1>3. \A j \in Packages : \A reg : Done(reg, j)
    BY <1>1, RoundDone
  <1>4. ASSUME NEW j \in Packages, NEW reg, phase' # phase PROVE ~Done(reg, j)'
    <2>1. j \in Nat /\ pkg' = 0
      BY <1>1, <1>4, PackageFacts
    <2> QED
      BY <1>1, <2>1 DEF Done
  <1>5. ASSUME NEW j \in Packages, NEW reg \in Registers
        PROVE  /\ (phase' = "before" /\ Done(reg, j)') \/ phase' = "after" =>
                    (Has(BeforeRegs(cpu_model), reg) => ReadingOf(reg, j) \in before)
               /\ phase' = "after" /\ Done(reg, j)' =>
                    (Has(AfterRegs(cpu_model), reg) => ReadingOf(reg, j) \in after)
    <2>1. /\ (phase = "before" /\ Done(reg, j)) \/ phase = "after" =>
               (Has(BeforeRegs(cpu_model), reg) => ReadingOf(reg, j) \in before)
          /\ phase = "after" /\ Done(reg, j) =>
               (Has(AfterRegs(cpu_model), reg) => ReadingOf(reg, j) \in after)
      BY DEF MsrInv
    <2> QED
      BY <1>1, <1>3, <1>4, <2>1
  <1>6. /\ todo \in Seq(Names) /\ (phase # "after" => after = {})
        /\ \A r \in before \cup after :
             /\ cpu_model # Unsupported
             /\ \E j \in Packages : r = ReadingOf(r.reg, j) /\ package_map[j] # NoCpu
        /\ \A r \in after : Has(AfterRegs(cpu_model), r.reg)
    BY DEF MsrInv
  <1>7. phase' # "after" => after = {}
    BY <1>1, <1>6
  <1> QED
    BY <1>1, <1>2, <1>5, <1>6, <1>7 DEF MsrInv

\* Every step of rapl-read keeps what is known of the readings.
LEMMA MsrStep ==
  ASSUME TopologyInv, MsrInv, [Next]_vars
  PROVE  MsrInv'
  <1>1. CASE RaplMsrStep
    <2>1. CASE OpenMsr \/ CloseMsr \/ ReadMsr \/ RoundEnds
      BY <2>1, OpenMsrKeeps, CloseMsrKeeps, ReadMsrKeeps, RoundEndsKeeps
    <2>2. CASE MsrUnsupported \/ OpenMsrFails \/ ReadMsrFails
      <3>1. UNCHANGED msrVars
        BY <2>2 DEF MsrUnsupported, OpenMsrFails, ReadMsrFails, msrVars
      <3> QED
        BY <3>1, MsrFrame
    <2> QED
      BY <1>1, <2>1, <2>2 DEF RaplMsrStep, MsrNext
  <1>2. CASE ~RaplMsrStep
    <2>1. UNCHANGED msrVars
      BY <1>2 DEF Next, vars, interfaceVars, Option, OptionsRead, Detect, TrySysfs, TryPerf,
                  TryMsr, MainEnds, RaplSysfsStep, RaplPerfStep
    <2> QED
      BY <2>1, MsrFrame
  <1> QED
    BY <1>1, <1>2

\* Each reading of the last round has its partner of the round before.
LEMMA PairsAreMeasured ==
  ASSUME TopologyInv, MsrInv
  PROVE  PairsMeasured
  <1>1. ASSUME NEW r \in before \cup after PROVE PackageOf(r.cpu) = r.j
    <2>1. PICK j \in Packages : r = ReadingOf(r.reg, j) /\ package_map[j] # NoCpu
      BY DEF MsrInv
    <2>2. r.cpu = package_map[j] /\ r.j = j
      BY <2>1 DEF ReadingOf
    <2> QED
      BY <2>1, <2>2, PackageFacts
  <1>2. ASSUME NEW a \in after
        PROVE  \/ a.reg = "PP0" /\ cpu_model \in Knights
               \/ {b \in before : b.reg = a.reg /\ b.j = a.j} = {a}
    <2>1. PICK j \in Packages : a = ReadingOf(a.reg, j)
      BY DEF MsrInv
    <2>2. a.j = j
      BY <2>1 DEF ReadingOf
    <2>3. phase = "after" /\ cpu_model \in Supported /\ Has(AfterRegs(cpu_model), a.reg)
      BY DEF MsrInv, TopologyInv, ModelInv
    <2>4. a.reg \in Registers
          /\ (Has(BeforeRegs(cpu_model), a.reg) \/ (a.reg = "PP0" /\ cpu_model \in Knights))
      BY <2>3, RoundsAgree
    <2>5. ASSUME Has(BeforeRegs(cpu_model), a.reg)
          PROVE  {b \in before : b.reg = a.reg /\ b.j = a.j} = {a}
      <3>1. ReadingOf(a.reg, j) \in before
        BY <2>3, <2>4, <2>5 DEF MsrInv
      <3>2. ASSUME NEW b \in before, b.reg = a.reg, b.j = a.j PROVE b = a
        <4>1. PICK i \in Packages : b = ReadingOf(b.reg, i)
          BY DEF MsrInv
        <4>2. b.j = i
          BY <4>1 DEF ReadingOf
        <4> QED
          BY <2>1, <2>2, <3>2, <4>1, <4>2
      <3> QED
        BY <2>1, <3>1, <3>2
    <2> QED
      BY <2>4, <2>5
  <1> QED
    BY <1>1, <1>2 DEF PairsMeasured
-----------------------------------------------------------------------------
(* main.                                                                   *)

\* What the other invariants say, taken together.
ReadInv == TopologyInv /\ SysfsInv /\ PerfInv /\ MsrInv

\* Every step keeps the invariants of the parts, each with that of the topology.
LEMMA ReadStep ==
  ASSUME ReadInv, [Next]_vars
  PROVE  ReadInv'
  BY TopologyStep, SysfsStep, PerfStep, MsrStep DEF ReadInv

\* The interfaces, and the packages each has printed.
LEMMA ByFacts ==
  /\ DOMAIN By = {"rapl_sysfs", "rapl_perf", "rapl_msr"}
  /\ By["rapl_sysfs"] = {d[1] : d \in shown}
  /\ By["rapl_perf"] = {d[2] : d \in perfShown}
  /\ By["rapl_msr"] = {r.j : r \in after}
  BY DEF By

\* No interface has been called when the process starts.
LEMMA FlowInit == Init => FlowInv
  <1> SUFFICES ASSUME Init PROVE FlowInv
    OBVIOUS
  <1>1. /\ result = -1 /\ tried = {} /\ pc = "options" /\ code = 256
        /\ shown = {} /\ perfShown = {} /\ after = {}
    BY DEF Init, TopologyInit, SysfsInit, PerfInit, MsrInit, Running
  <1> QED
    BY <1>1 DEF FlowInv, Running

\* Before the process ends and an interface is called, nothing is reported.
LEMMA EarlySteps ==
  ASSUME ReadInv, FlowInv, Option \/ OptionsRead \/ Detect
  PROVE  FlowInv'
  <1>1. /\ pc \in {"options", "detect_cpu", "detect_packages"}
        /\ UNCHANGED interfaceVars /\ tried' = tried /\ result' = result
        /\ \/ pc' \in BeforeSysfs /\ code' = code
           \/ pc' = "exit" /\ code' \in {0, 255}
    BY DEF Option, OptionsRead, Detect, DetectModel, DetectPackage, PackagesDetected, Exit,
           processVars, BeforeSysfs
  <1>2. result = -1 /\ tried = {} /\ code = Running /\ shown = {} /\ perfShown = {}
    BY <1>1 DEF FlowInv, BeforeSysfs
  <1>3. shown' = {} /\ perfShown' = {}
    BY <1>1, <1>2 DEF interfaceVars, sysfsVars, perfVars
  <1>4. pc' \notin {"main_892", "main_902", "rapl_sysfs", "rapl_perf", "rapl_msr"}
    BY <1>1 DEF BeforeSysfs
  <1> QED
    BY <1>1, <1>2, <1>3, <1>4 DEF FlowInv

\* What an interface has reported does not change while main goes on.
LEMMA ReportStays ==
  ASSUME Reported, UNCHANGED interfaceVars, UNCHANGED topologyVars, tried \subseteq tried'
  PROVE  Reported'
  <1>1. Packages' = Packages /\ By' = By /\ Events' = Events
    BY DEF interfaceVars, topologyVars, sysfsVars, perfVars, msrVars, Packages, By, Events
  <1> QED
    BY <1>1 DEF Reported

\* main calls an interface while the result is -1, and returns it.
LEMMA MainSteps ==
  ASSUME ReadInv, FlowInv, TrySysfs \/ TryPerf \/ TryMsr \/ MainEnds
  PROVE  FlowInv'
  <1>1. /\ UNCHANGED interfaceVars /\ UNCHANGED topologyVars /\ result' = result
        /\ tried \subseteq tried'
    BY DEF TrySysfs, TryPerf, TryMsr, MainEnds, Call, Exit
  <1>2. /\ shown' = shown /\ perfShown' = perfShown /\ after' = after /\ cpu_model' = cpu_model
        /\ Reported => Reported'
    BY <1>1, ReportStays DEF interfaceVars, topologyVars, sysfsVars, perfVars, msrVars
  <1>3. /\ result \in {-1, 0} /\ tried \subseteq DOMAIN By
        /\ result = -1 => shown = {} /\ perfShown = {}
        /\ after = {} \/ shown \cup perfShown = {}
        /\ shown = {} \/ perfShown = {}
        /\ result = 0 => Reported
    BY DEF FlowInv
  <1>4. DOMAIN By' = DOMAIN By
    BY ByFacts DEF By
  <1>5. CASE TrySysfs
    <2>1. /\ pc = "main_888" /\ code' = code /\ forced' = forced
          /\ \/ pc' = "rapl_sysfs" /\ tried' = tried \cup {"rapl_sysfs"}
             \/ pc' = "main_892" /\ tried' = tried
      BY <1>5 DEF TrySysfs, Call
    <2>2. result = -1 /\ tried = {} /\ code = Running
      BY <2>1 DEF FlowInv, BeforeSysfs
    <2>3. pc' \notin BeforeSysfs /\ pc' \notin {"rapl_perf", "rapl_msr", "main_902", "exit"}
      BY <2>1 DEF BeforeSysfs
    <2> QED
      BY <1>1, <1>2, <1>3, <1>4, <2>1, <2>2, <2>3, ByFacts DEF FlowInv, Running
  <1>6. CASE TryPerf
    <2>1. /\ pc = "main_892" /\ code' = code
          /\ \/ pc' = "rapl_perf" /\ tried' = tried \cup {"rapl_perf"} /\ result < 0
             \/ pc' = "main_898" /\ tried' = tried
      BY <1>6 DEF TryPerf, Call
    <2>2. code = Running
      BY <2>1 DEF FlowInv
    <2>3. pc' \notin BeforeSysfs
          /\ pc' \notin {"main_892", "rapl_sysfs", "rapl_msr", "main_902", "exit"}
      BY <2>1 DEF BeforeSysfs
    <2>4. pc' = "rapl_perf" => result = -1
      BY <1>3, <2>1
    <2> QED
      BY <1>1, <1>2, <1>3, <1>4, <2>1, <2>2, <2>3, <2>4, ByFacts DEF FlowInv, Running
  <1>7. CASE TryMsr
    <2>1. /\ pc = "main_898" /\ code' = code
          /\ \/ pc' = "rapl_msr" /\ tried' = tried \cup {"rapl_msr"} /\ result < 0
             \/ pc' = "main_902" /\ tried' = tried /\ ~(result < 0)
      BY <1>7 DEF TryMsr, Call, LastResort
    <2>2. code = Running
      BY <2>1 DEF FlowInv
    <2>3. pc' \notin BeforeSysfs
          /\ pc' \notin {"main_892", "rapl_sysfs", "rapl_perf", "exit"}
      BY <2>1 DEF BeforeSysfs
    <2>4. /\ pc' = "rapl_msr" => result = -1
          /\ pc' = "main_902" => result = 0
      BY <1>3, <2>1
    <2> QED
      BY <1>1, <1>2, <1>3, <1>4, <2>1, <2>2, <2>3, <2>4, ByFacts DEF FlowInv, Running
  <1>8. CASE MainEnds
    <2>1. /\ pc = "main_902" /\ pc' = "exit" /\ tried' = tried
          /\ code' = IF result < 0 THEN 255 ELSE 0
      BY <1>8 DEF MainEnds, Exit
    <2>2. result = 0 \/ ("rapl_msr" \in tried /\ cpu_model = Unsupported)
      BY <2>1 DEF FlowInv
    <2>3. /\ code' = 0 => Reported'
          /\ code' = 255 => "rapl_msr" \in tried' /\ cpu_model' = Unsupported
      BY <1>2, <1>3, <2>1, <2>2
    <2> QED
      BY <1>1, <1>2, <1>3, <1>4, <2>1, <2>3 DEF FlowInv, BeforeSysfs
  <1> QED
    BY <1>5, <1>6, <1>7, <1>8

\* rapl_sysfs reports all packages, or returns -1.
LEMMA SysfsFlow ==
  ASSUME ReadInv, FlowInv, RaplSysfsStep
  PROVE  FlowInv'
  <1>1. /\ pc = "rapl_sysfs" /\ code' = code /\ tried' = tried /\ forced' = forced
        /\ UNCHANGED <<msrVars, perfVars, topologyVars>>
        /\ \/ pc' = pc /\ result' = result /\ shown' = shown
           \/ pc' = "main_892" /\ result' = -1 /\ shown' = shown
           \/ SysfsPrint /\ pc' = "main_892" /\ result' = 0
    BY DEF RaplSysfsStep, SysfsNext, SysfsName, SysfsNoName, SysfsRead, NextRound, SysfsPrint,
           InRound, RoundOver, Return, processVars, sysfsVars
  <1>2. /\ result = -1 /\ "rapl_sysfs" \in tried /\ code = Running
        /\ shown = {} /\ perfShown = {} /\ tried \subseteq DOMAIN By
    BY <1>1 DEF FlowInv
  <1>3. /\ perfShown' = {} /\ after' = {}
        /\ Packages' = Packages
    BY <1>1, <1>2 DEF ReadInv, MsrInv, BeforeMsr, BeforePerf, perfVars, msrVars, topologyVars, Packages
  <1>4. tried' \subseteq DOMAIN By'
    BY <1>1, <1>2 DEF By
  <1>5. pc' \notin BeforeSysfs /\ pc' \notin {"rapl_perf", "rapl_msr", "main_902", "exit"}
    BY <1>1 DEF BeforeSysfs
  <1>7. result' = 0 => Reported'
    <2>1. SUFFICES ASSUME SysfsPrint PROVE Reported'
      BY <1>1, <1>2
    <2>2. /\ shown' = {d \in Packages \X Domains : d \in valid}
          /\ round = "after" /\ 0 \in Domains
      BY <2>1, RaplSysfsAssumption DEF SysfsPrint, RoundOver, Domains
    <2>3. \A j \in Packages : <<j, 0>> \in shown'
      BY <2>2 DEF ReadInv, SysfsInv
    <2>4. {d[1] : d \in shown'} = Packages
      <3>1. \A j \in Packages : \E d \in shown' : j = d[1]
        BY <2>3
      <3>2. \A d \in shown' : d[1] \in Packages
        BY <2>2
      <3> QED
        BY <3>1, <3>2
    <2>5. By'["rapl_sysfs"] = Packages'
      BY <1>3, <2>4 DEF By
    <2> QED
      BY <1>1, <1>2, <2>5 DEF Reported
  <1> QED
    BY <1>1, <1>2, <1>3, <1>4, <1>5, <1>7 DEF FlowInv, Running

\* rapl_perf prints every package, or there is no event, or it returns -1.
LEMMA PerfFlow ==
  ASSUME ReadInv, FlowInv, RaplPerfStep
  PROVE  FlowInv'
  <1>1. /\ pc = "rapl_perf" /\ code' = code /\ tried' = tried
        /\ UNCHANGED <<msrVars, sysfsVars, topologyVars>>
        /\ \/ pc' = pc /\ result' = result /\ perfShown' = perfShown
           \/ pc' = "main_898" /\ result' = -1 /\ perfShown' = perfShown
           \/ PerfPrint /\ pc' = "main_898" /\ result' = 0
    BY DEF RaplPerfStep, PerfNext, PerfNoType, PerfEvents, PerfSkip, PerfOpen, PerfOpenFails,
           PerfPrint, Opening, Return, processVars, perfVars
  <1>2. /\ result = -1 /\ "rapl_perf" \in tried /\ code = Running
        /\ shown = {} /\ perfShown = {} /\ tried \subseteq DOMAIN By
    BY <1>1 DEF FlowInv
  <1>3. /\ shown' = {} /\ after' = {}
        /\ Packages' = Packages
    BY <1>1, <1>2 DEF ReadInv, MsrInv, BeforeMsr, sysfsVars, msrVars, topologyVars, Packages
  <1>4. tried' \subseteq DOMAIN By'
    BY <1>1, <1>2 DEF By
  <1>5. pc' \notin BeforeSysfs /\ pc' \notin {"rapl_sysfs", "rapl_msr", "main_902", "exit"}
    BY <1>1 DEF BeforeSysfs
  <1>6. result' = 0 => Reported'
    <2>1. SUFFICES ASSUME PerfPrint, Events # {} PROVE Reported'
      <3>1. Events' = Events \/ ~PerfPrint
        BY DEF PerfPrint, Events
      <3> QED
        BY <1>1, <1>2, <2>1, <3>1 DEF Reported
    <2>2. PICK i \in Events : TRUE
      BY <2>1
    <2>3. ASSUME NEW j \in Packages PROVE <<i, j>> \in perfShown'
      <3>1. Counter(i, j) \in counters
        <4>1. /\ pos \in Nat \X DOMAIN PERF_DOMAINS /\ pos[1] \notin Packages
              /\ pc = "rapl_perf" /\ total_packages \in Nat
          BY <1>1, <2>1, PackageFacts DEF ReadInv, PerfInv, PerfPrint
        <4>2. j < pos[1]
          BY <4>1 DEF Packages
        <4> QED
          BY <4>1, <4>2 DEF ReadInv, PerfInv, Opened
      <3>2. <<i, j>> = <<Counter(i, j).i, Counter(i, j).j>>
        BY DEF Counter
      <3> QED
        BY <2>1, <3>1, <3>2 DEF PerfPrint
    <2>4. \A d \in perfShown' : d[2] \in Packages
      <3>1. ASSUME NEW c \in counters PROVE c.j \in Packages
        BY <3>1 DEF ReadInv, PerfInv, Counter
      <3> QED
        BY <2>1, <3>1 DEF PerfPrint
    <2>5. {d[2] : d \in perfShown'} = Packages
      <3>1. \A j \in Packages : \E d \in perfShown' : j = d[2]
        BY <2>3
      <3> QED
        BY <2>4, <3>1
    <2>6. By'["rapl_perf"] = Packages'
      BY <1>3, <2>5 DEF By
    <2> QED
      BY <1>1, <1>2, <2>6 DEF Reported
  <1> QED
    BY <1>1, <1>2, <1>3, <1>4, <1>5, <1>6 DEF FlowInv, Running

\* rapl_msr reads the package's own counter last for every package, or the chip is not
\* supported, or the process ends with another status.
LEMMA MsrFlow ==
  ASSUME ReadInv, FlowInv, RaplMsrStep
  PROVE  FlowInv'
  <1>1. /\ pc = "rapl_msr" /\ tried' = tried
        /\ UNCHANGED <<sysfsVars, perfVars, topologyVars>>
        /\ \/ pc' = pc /\ result' = result /\ code' = code
           \/ pc' = "exit" /\ result' = result /\ code' \in {2, 3, 127}
           \/ cpu_model = Unsupported /\ pc' = "main_902" /\ result' = -1 /\ code' = code
           \/ RoundEnds /\ phase = "after" /\ pc' = "main_902" /\ result' = 0 /\ code' = code
    BY DEF RaplMsrStep, MsrNext, MsrUnsupported, OpenMsr, OpenMsrFails, ReadMsr, ReadMsrFails,
           CloseMsr, RoundEnds, Return, Exit, processVars
  <1>2. /\ result = -1 /\ "rapl_msr" \in tried /\ code = Running
        /\ shown = {} /\ perfShown = {} /\ tried \subseteq DOMAIN By
    BY <1>1 DEF FlowInv
  <1>3. /\ shown' = {} /\ perfShown' = {}
        /\ Packages' = Packages /\ cpu_model' = cpu_model
    BY <1>1, <1>2 DEF sysfsVars, perfVars, topologyVars, Packages
  <1>4. tried' \subseteq DOMAIN By'
    BY <1>1, <1>2 DEF By
  <1>5. pc' \notin BeforeSysfs /\ pc' \notin {"rapl_sysfs", "rapl_perf", "main_892"}
    BY <1>1 DEF BeforeSysfs
  <1>6. result' = 0 => Reported'
    <2>1. SUFFICES ASSUME RoundEnds, phase = "after" PROVE Reported'
      BY <1>1, <1>2
    <2>2. after' = after /\ cpu_model # Unsupported /\ pkg \notin Packages
      BY <2>1 DEF RoundEnds
    <2>3. Has(AfterRegs(cpu_model), "PKG")
      BY AfterHas DEF Registers
    <2>4. ASSUME NEW j \in Packages PROVE ReadingOf("PKG", j) \in after
      BY <2>1, <2>2, <2>3, RoundDone DEF ReadInv, MsrInv, Registers
    <2>5. \A j \in Packages : \E r \in after : r.j = j
      BY <2>4 DEF ReadingOf
    <2>6. \A r \in after : r.j \in Packages
      <3> SUFFICES ASSUME NEW r \in after PROVE r.j \in Packages
        OBVIOUS
      <3>1. PICK j \in Packages : r = ReadingOf(r.reg, j)
        BY DEF ReadInv, MsrInv
      <3> QED
        BY <3>1 DEF ReadingOf
    <2>7. {r.j : r \in after'} = Packages
      BY <2>2, <2>5, <2>6
    <2>8. By'["rapl_msr"] = Packages'
      BY <1>3, <2>7 DEF By
    <2> QED
      BY <1>1, <1>2, <2>8 DEF Reported
  <1> QED
    BY <1>1, <1>2, <1>3, <1>4, <1>5, <1>6 DEF FlowInv, Running

\* The flow of main goes on as it should.
LEMMA FlowStep ==
  ASSUME ReadInv, FlowInv, [Next]_vars
  PROVE  FlowInv'
  <1>1. CASE UNCHANGED vars
    <2>1. /\ UNCHANGED interfaceVars /\ UNCHANGED topologyVars /\ tried' = tried
          /\ pc' = pc /\ result' = result /\ code' = code
      BY <1>1 DEF vars, processVars, interfaceVars
    <2>2. /\ shown' = shown /\ perfShown' = perfShown /\ after' = after /\ cpu_model' = cpu_model
          /\ Reported => Reported'
      BY <2>1, ReportStays DEF interfaceVars, topologyVars, sysfsVars, perfVars, msrVars
    <2>3. DOMAIN By' = DOMAIN By
      BY DEF By
    <2> QED
      BY <2>1, <2>2, <2>3 DEF FlowInv
  <1> QED
    BY <1>1, EarlySteps, MainSteps, SysfsFlow, PerfFlow, MsrFlow DEF Next

\* What FlowInv says of the report.
LEMMA OneOfThem ==
  ASSUME FlowInv
  PROVE  OneReport
  <1> DEFINE printed == {f \in DOMAIN By : By[f] # {}}
  <1>1. PICK g : printed \subseteq {g}
    <2>1. /\ shown = {} => By["rapl_sysfs"] = {}
          /\ perfShown = {} => By["rapl_perf"] = {}
          /\ after = {} => By["rapl_msr"] = {}
      BY ByFacts
    <2>2. /\ after = {} \/ (shown = {} /\ perfShown = {})
          /\ shown = {} \/ perfShown = {}
      BY DEF FlowInv
    <2> QED
      BY <2>1, <2>2, ByFacts
  <1>2. Cardinality(printed) <= 1
    <2>1. IsFiniteSet({g}) /\ Cardinality({g}) = 1
      BY FS_Singleton
    <2> QED
      BY <1>1, <2>1, FS_Subset
  <1>3. /\ code = 0 /\ tried # {} => Reported
        /\ code = 255 => tried = {} \/ ("rapl_msr" \in tried /\ cpu_model = Unsupported)
    BY DEF FlowInv
  <1> QED
    BY <1>2, <1>3 DEF OneReport, Reported

\* What the four invariants say of what is reported.
LEMMA ExplainedInv ==
  ASSUME ReadInv
  PROVE  ReportExplained
  BY ShownIsSaid, PerfAll, PairsAreMeasured DEF ReadInv, ReportExplained

\* The invariants of the parts hold when the process starts.
LEMMA ReadInit == Init => ReadInv
  BY TopologyInit1, SysfsInit1, PerfInit1, MsrInit1 DEF ReadInv

\* Whatever fails on the way, an energy that rapl-read prints was measured in the package
\* it is printed for, in both rounds; the exceptions are an energy file of rapl_sysfs that
\* could not be opened, which has then been said, and PP0 of a Knights chip.
THEOREM ReportIsExplained == Spec => []ReportExplained
  BY ReadInit, ReadStep, ExplainedInv, PTL DEF Spec

\* One interface prints, and the exit status says whether one did.
THEOREM OneInterfaceReports == Spec => []OneReport
  BY ReadInit, ReadStep, FlowInit, FlowStep, OneOfThem, PTL DEF Spec
=============================================================================
