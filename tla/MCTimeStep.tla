------------------------------ MODULE MCTimeStep ------------------------------
(* Instances of TimeStep for TLC.                                            *)
EXTENDS TimeStep, TLC

(* The processes of a fire-only run are interchangeable.                     *)
Symmetry == Permutations(FireRanks)
=============================================================================
