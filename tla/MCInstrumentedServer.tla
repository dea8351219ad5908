------------------------ MODULE MCInstrumentedServer ------------------------
(***************************************************************************)
(* The two programs with an integrated server, with three workers: that of *)
(* xapian-pure (IntegratedServer), and that of xapian-mod-pure             *)
(* (InstrumentedServer) with a schedule of two rising rates.               *)
(***************************************************************************)
EXTENDS InstrumentedServer

VARIABLE program

mcVars == <<instrumentedVars, program>>

MCInit == InstrumentedInit /\ program \in {"xapian-pure", "xapian-mod-pure"}

Pure == program = "xapian-pure"

MCNext ==
  /\ \/ Pure /\ Next /\ UNCHANGED <<rateVars, lineVars>>
     \/ ~Pure /\ InstrumentedNext
  /\ UNCHANGED program

\* Every worker runs, and every evaluation of a query ends.
MCSpec ==
  /\ MCInit /\ [][MCNext]_mcVars
  /\ \A w \in Workers :
       /\ WF_mcVars(process = "up" /\ Pure /\ Step(w) /\ UNCHANGED <<rateVars, lineVars, program>>)
       /\ WF_mcVars(process = "up" /\ ~Pure /\ IStep(w) /\ UNCHANGED program)
  /\ WF_mcVars(process = "up" /\ Finish /\ UNCHANGED <<rateVars, lineVars, program>>)

Rising == <<3, 4>>
=============================================================================
