---------------------------- MODULE MCLoadClient ----------------------------
(***************************************************************************)
(* LoadClient with one or two threads of each kind, and a second client,   *)
(* of whose requests one is answered.                                      *)
(***************************************************************************)
EXTENDS LoadClient

OneOrTwo == {1, 2}
=============================================================================
