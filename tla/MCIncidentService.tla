------------------------- MODULE MCIncidentService -------------------------
(***************************************************************************)
(* Model checking of IncidentService: the goroutines are interchangeable,  *)
(* and every property checked with this module is a safety property.       *)
(***************************************************************************)
EXTENDS IncidentService, TLC

ThreadSymmetry == Permutations(Threads)
============================================================================
