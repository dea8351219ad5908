------------------------- MODULE MCNetworkedServer -------------------------
(***************************************************************************)
(* NetworkedServer on small instances.                                     *)
(***************************************************************************)
EXTENDS NetworkedServer, FiniteSetsExt

CONSTANTS w1, w2
MCWorkers == {w1, w2}
NobodyMortal == {}
FirstMortal == {1}
=============================================================================
