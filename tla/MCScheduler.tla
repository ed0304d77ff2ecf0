---------------------------- MODULE MCScheduler ----------------------------
(* Instances of Scheduler for TLC. *)
EXTENDS Scheduler, TLC

Symmetry == Permutations(Ids) \cup Permutations(Tickers) \cup Permutations(Users)
=============================================================================
