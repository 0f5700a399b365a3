-------------------------- MODULE MCIntegrityGate --------------------------
(* Instances of the integrity gate for TLC.                                *)
EXTENDS IntegrityGate, TLC

(* Handlers do the same work; so do the probes.                            *)
GateSymmetry == Permutations(Handlers) \cup Permutations(Probes)
=============================================================================
