----------------------------- MODULE MCKeyCache -----------------------------
(* Instances of KeyCache for TLC.                                          *)
EXTENDS KeyCache, TLC

CONSTANTS p1, p2, r1, r2

MCGrants == {{}, {"admin"}, {"sdk"}}

Symmetry == Permutations(Requests) \cup Permutations(Procs)
=============================================================================
