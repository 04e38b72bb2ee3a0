---------------------------- MODULE MCFirewall ----------------------------
(***************************************************************************)
(* Firewall for TLC.  Two rule sets that are not the empty one, and two    *)
(* configurations, differ in nothing but their identity, so the safety     *)
(* runs identify states up to their permutations.                          *)
(***************************************************************************)
EXTENDS Firewall, TLC

Symmetry == Permutations(Rules \ {Empty}) \cup Permutations(Configs)
===========================================================================
