----------------------------- MODULE MCFlagStore ----------------------------
(* Instances of FlagStore for TLC.                                         *)
EXTENDS FlagStore, TLC

CONSTANTS x, y, o1, o2

\* Rules, and off_variant, may name x, which a boolean flag lacks, or "" (Blank).
BooleanOrArms == {{}, {x, y}}
PinNothingOrX == {{}, {x, Blank}}

Symmetry == Permutations(Operators)
=============================================================================
