---------------------------- MODULE MCPlayerSync ----------------------------
(* The instance of PlayerSync that TLC checks. *)
EXTENDS PlayerSync, TLC

CONSTANTS i1, i2, i3

\* The items are alike: no definition of the model orders them.
Alike == Permutations(Items)

=============================================================================
