------------------------------ MODULE MCWorkers ------------------------------
(***************************************************************************)
(* TLC instance of Workers: names and schedulers are interchangeable.      *)
(***************************************************************************)
EXTENDS Workers, TLC

Symmetry == Permutations(Worker) \union Permutations(Scheduler)

==============================================================================
