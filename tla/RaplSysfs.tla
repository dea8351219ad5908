----------------------------- MODULE RaplSysfs ------------------------------
(***************************************************************************)
(* rapl_sysfs: the names of the domains of each package are read, then the *)
(* energy of each domain before and after a second of sleep, then all is   *)
(* printed.  Any file may fail to open; that an energy file cannot be      *)
(* opened is only said.                                                    *)
(***************************************************************************)
EXTENDS RaplTopology

CONSTANT NUM_RAPL_DOMAINS   \* 5: domain 0 is the package itself

ASSUME RaplSysfsAssumption == NUM_RAPL_DOMAINS \in Nat \ {0}

VARIABLES
  round, at,      \* the loop rapl_sysfs is in, and its <<j, i>>
  valid,          \* the domains <<j, i>> with a name
  got, missed,    \* the <<round, j, i>> whose file could be opened, and could not
  shown           \* the domains a difference was printed for

sysfsVars == <<round, at, valid, got, missed, shown>>

Domains == 0..(NUM_RAPL_DOMAINS - 1)

SysfsInit ==
  /\ round = "name" /\ at = <<0, 0>>
  /\ valid = {} /\ got = {} /\ missed = {} /\ shown = {}

NextAt(last) ==
  IF at[2] + 1 < last THEN <<at[1], at[2] + 1>> ELSE <<at[1] + 1, 0>>

InRound(r) == pc = "rapl_sysfs" /\ round = r /\ at[1] \in Packages
RoundOver(r) == pc = "rapl_sysfs" /\ round = r /\ at[1] \notin Packages

\* The name of a domain is read, or the domain is not valid.
SysfsName ==
  /\ InRound("name")
  /\ \/ valid' = valid \cup {at}
     \/ at[2] # 0 /\ UNCHANGED valid
  /\ at' = NextAt(NUM_RAPL_DOMAINS)
  /\ UNCHANGED <<topologyVars, processVars, round, got, missed, shown>>

\* A package has no name: rapl_sysfs returns -1.
SysfsNoName ==
  /\ InRound("name") /\ at[2] = 0
  /\ Return(-1, "main_892")
  /\ UNCHANGED <<topologyVars, sysfsVars>>

\* The energy of the domain at hand is read, if it is valid and its file opens.
SysfsRead ==
  /\ InRound("before") \/ InRound("after")
  /\ \/ at \notin valid /\ UNCHANGED <<got, missed>>
     \/ /\ at \in valid
        /\ \/ got' = got \cup {<<round, at>>} /\ UNCHANGED missed
           \/ missed' = missed \cup {<<round, at>>} /\ UNCHANGED got
  /\ at' = NextAt(NUM_RAPL_DOMAINS)
  /\ UNCHANGED <<topologyVars, processVars, round, valid, shown>>

NextRound ==
  /\ \E r \in {"name", "before"} :
       /\ RoundOver(r)
       /\ round' = IF r = "name" THEN "before" ELSE "after"
  /\ at' = <<0, 0>>
  /\ UNCHANGED <<topologyVars, processVars, valid, got, missed, shown>>

\* The differences are printed, of what was never read too.
SysfsPrint ==
  /\ RoundOver("after")
  /\ shown' = {d \in Packages \X Domains : d \in valid}
  /\ Return(0, "main_892")
  /\ UNCHANGED <<topologyVars, round, at, valid, got, missed>>

SysfsNext == SysfsName \/ SysfsNoName \/ SysfsRead \/ NextRound \/ SysfsPrint
-----------------------------------------------------------------------------
(* Properties.                                                             *)

\* What rapl_sysfs promises by "Gather before values" and "Gather after values":
\* the two energies of every printed difference were read.  The code prints the
\* difference of a file that did not open too, from a value it never assigned.
SysfsMeasured == \A d \in shown, r \in {"before", "after"} : <<r, d>> \in got

\* What does hold: rapl_sysfs prints every package or none, and a difference it
\* prints without a reading has been complained of on stderr in that round: no
\* domain gets past either loop unseen (the four loops agree on the domains).
UnreadIsSaid ==
  /\ \A d \in shown, r \in {"before", "after"} : <<r, d>> \in got \/ <<r, d>> \in missed
  /\ shown # {} => \A j \in Packages : <<j, 0>> \in shown
=============================================================================
