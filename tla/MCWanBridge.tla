----------------------------- MODULE MCWanBridge -----------------------------
(* WanBridge for TLC.  The clients are interchangeable: Init, Next and the *)
(* invariants treat them alike, so a run of invariants alone may use the   *)
(* symmetry.                                                               *)
EXTENDS WanBridge, TLC

Symmetry == Permutations(Clients)
=============================================================================
