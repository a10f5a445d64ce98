---------------------------- MODULE MCGpuSession ----------------------------
(* GpuSession with interchangeable callers. *)
EXTENDS GpuSession, TLC

Symmetry == Permutations(Callers)
=============================================================================
