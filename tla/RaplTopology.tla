---------------------------- MODULE RaplTopology ----------------------------
(***************************************************************************)
(* rapl-read finds out what it runs on: detect_cpu reads /proc/cpuinfo,    *)
(* detect_packages the package of each cpu under /sys.  The files do not   *)
(* change while it runs.  The other modules of rapl-read EXTEND this one.  *)
(***************************************************************************)
EXTENDS Integers, Sequences, FiniteSets

CONSTANTS
  CpuInfos,     \* what /proc/cpuinfo may hold: the lines, as <<key, value>>
  Topologies,   \* what /sys may hold: the package of each cpu, or NoFile
  MAX_PACKAGES, MAX_CPUS,
  NoFile        \* the file cannot be opened

NoCpu == -1     \* a package no cpu was found in
Running == 256

\* A package id is an index of package_map: the code does not check it.
ASSUME RaplTopologyAssumption ==
  /\ MAX_PACKAGES \in Nat \ {0} /\ MAX_CPUS \in Nat
  /\ \A ids \in Topologies : ids \in Seq((0..(MAX_PACKAGES - 1)) \cup {NoFile})

VARIABLES
  pc,               \* where main is: a function it is in, a line, or "exit"
  result, code,     \* main's result; the exit status of the process, or Running
  cpuinfo, ids,     \* the files
  cpu_model, package_map,
  total_cores, total_packages

topologyVars == <<cpuinfo, ids, cpu_model, package_map, total_cores, total_packages>>
processVars == <<pc, result, code>>

\* exit(status), or the end of main.
Exit(status) ==
  /\ code' = status /\ pc' = "exit"
  /\ UNCHANGED result

\* A function main has called returns r; main goes on at the line given.
Return(r, line) ==
  /\ result' = r /\ pc' = line
  /\ UNCHANGED code

BridgeEP  == {"SANDYBRIDGE_EP", "IVYBRIDGE_EP"}
LaterEP   == {"HASWELL_EP", "BROADWELL_EP", "SKYLAKE_X"}
Knights   == {"KNIGHTS_LANDING", "KNIGHTS_MILL"}
Bridge    == {"SANDYBRIDGE", "IVYBRIDGE"}
Haswell   == {"HASWELL", "HASWELL_ULT", "HASWELL_GT3E", "BROADWELL", "BROADWELL_GT3E",
              "ATOM_GOLDMONT", "ATOM_GEMINI_LAKE", "ATOM_DENVERTON"}
Skylake   == {"SKYLAKE", "SKYLAKE_HS", "KABYLAKE", "KABYLAKE_MOBILE"}

\* BROADWELL_DE and five of the Atoms have a number but no case in the switch.
Supported == BridgeEP \cup LaterEP \cup Knights \cup Bridge \cup Haswell \cup Skylake

Unsupported == "-1"

\* The model detect_cpu returns: the one of the last "model" line, unless a line
\* names another vendor or family.
DetectCpu(info) ==
  LET models == {k \in DOMAIN info : info[k][1] = "model"}
      last   == CHOOSE k \in models : \A l \in models : l <= k
  IN IF \/ info = NoFile
        \/ \E k \in DOMAIN info : info[k][1] = "vendor_id" /\ info[k][2] # "GenuineIntel"
        \/ \E k \in DOMAIN info : info[k][1] = "cpu family" /\ info[k][2] # 6
        \/ models = {}
        \/ info[last][2] \notin Supported
     THEN Unsupported ELSE info[last][2]

TopologyInit ==
  /\ cpuinfo \in CpuInfos /\ ids \in Topologies
  /\ cpu_model = Unsupported
  /\ package_map = [p \in 0..(MAX_PACKAGES - 1) |-> NoCpu]
  /\ total_cores = 0 /\ total_packages = 0
  /\ pc = "options" /\ result = -1 /\ code = Running

DetectModel ==
  /\ pc = "detect_cpu"
  /\ cpu_model' = DetectCpu(cpuinfo)
  /\ pc' = "detect_packages"
  /\ UNCHANGED <<result, code, cpuinfo, ids, package_map, total_cores, total_packages>>

\* The file of cpu i; cpus are counted from 0.
HasFile(i) == i < MAX_CPUS /\ i < Len(ids) /\ ids[i + 1] # NoFile
PackageOf(i) == ids[i + 1]

\* An operator whose name ends in _Faulty is the one behind it with a plausible
\* mistake; no specification uses it.
NewPackage_Faulty(p) == TRUE
NewPackage(p) == package_map[p] = NoCpu
Mapped(i) == [package_map EXCEPT ![PackageOf(i)] = i]

\* One round of the loop of detect_packages; total_cores is its i.
DetectPackage ==
  /\ pc = "detect_packages" /\ HasFile(total_cores)
  /\ IF NewPackage(PackageOf(total_cores))
       THEN /\ total_packages' = total_packages + 1
            /\ package_map' = Mapped(total_cores)
       ELSE UNCHANGED <<total_packages, package_map>>
  /\ total_cores' = total_cores + 1
  /\ UNCHANGED <<processVars, cpuinfo, ids, cpu_model>>

PackagesDetected ==
  /\ pc = "detect_packages" /\ ~HasFile(total_cores)
  /\ pc' = "main_888"
  /\ UNCHANGED <<topologyVars, result, code>>

Packages == 0..(total_packages - 1)   \* what the loops over j go through
-----------------------------------------------------------------------------
(* Properties.                                                             *)

\* detect_packages counts the packages of the cpus below the first whose file is
\* missing, and maps each package to the first cpu in it.
PackagesFound ==
  pc = "main_888" =>
    LET found == {PackageOf(i) : i \in 0..(total_cores - 1)}
    IN /\ ~HasFile(total_cores)
       /\ total_packages = Cardinality(found)
       /\ {p \in DOMAIN package_map : package_map[p] # NoCpu} = found
       /\ \A p \in found :
            /\ PackageOf(package_map[p]) = p
            /\ \A i \in 0..(total_cores - 1) : PackageOf(i) = p => package_map[p] <= i
=============================================================================
