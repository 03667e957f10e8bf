----------------------------- MODULE MCGateway -----------------------------
(***************************************************************************)
(* Gateway with its symmetries: goroutines are interchangeable, and so are *)
(* the values JWT_SECRET may be given.                                     *)
(***************************************************************************)
EXTENDS Gateway, TLC

Symmetry == Permutations(Procs) \cup Permutations(ServerKeys)
=============================================================================
