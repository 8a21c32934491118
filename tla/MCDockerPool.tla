---------------------------- MODULE MCDockerPool ----------------------------
(* Sessions a and b have one key and d another; r restores a snapshot      *)
(* under the key of a and b, so its container would be handed to them.     *)
EXTENDS DockerPool, TLC

CONSTANTS a, b, d, r, k, k2

MCKeyOf == [s \in Sessions |-> IF s = d THEN k2 ELSE k]
Symmetry == Permutations(Containers) \cup Permutations({a, b})
============================================================================
