----------------------------- MODULE MCHurryUp -----------------------------
(***************************************************************************)
(* HurryUp with three server threads: two created ones, on cores 0 and 2,  *)
(* and main, which shares core 0.                                          *)
(***************************************************************************)
EXTENDS HurryUp
=============================================================================
