--------------------------- MODULE MCOndemHurryUp ---------------------------
(***************************************************************************)
(* HurryUp and OndemHurryUp with two server threads, the created one and   *)
(* main: both decide the frequency of core 0.  A behaviour is one of       *)
(* xapian-hurryup or one of xapian-ondem-hurryup.                          *)
(***************************************************************************)
EXTENDS OndemHurryUp

VARIABLE program

mcVars == <<ondemVars, program>>

Ondem == program = "xapian-ondem-hurryup"
Frame == UNCHANGED <<coreFreqs, order, program>>

\* The order of the iteration is the governor's; HurryUp's scan takes any.
MCInit ==
  /\ program \in {"xapian-hurryup", "xapian-ondem-hurryup"}
  /\ OndemInit
  /\ ~Ondem => order = [t \in Threads |-> t]

MCNext ==
  \/ ~Ondem /\ Next /\ Frame
  \/ Ondem /\ OndemNext /\ UNCHANGED program

Runs(hurryUp, governor) ==
  /\ process = "up"
  /\ \/ ~Ondem /\ hurryUp /\ Frame
     \/ Ondem /\ governor /\ UNCHANGED program

\* FairSpec, or OndemFairSpec.
MCSpec ==
  /\ MCInit /\ [][MCNext]_mcVars
  /\ WF_mcVars(Runs(MainStep, OndemCreate \/ OndemStop))
  /\ WF_mcVars(Runs(SchedulerStep, OndemScheduler))
  /\ \A t \in Threads : WF_mcVars(Runs(WorkerStep(t), OndemWorker(t)))
-----------------------------------------------------------------------------
\* The step of the core the governor's threads share converges.
GovernorConverges == Ondem => StepConverges
=============================================================================
