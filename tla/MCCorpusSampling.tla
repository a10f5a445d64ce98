--------------------------- MODULE MCCorpusSampling ---------------------------
(* Small instances of CorpusSampling.                                      *)
EXTENDS CorpusSampling

CONSTANTS a, b, c, long, short, bytes, merged

\* A long text holds a slice out and has several windows; a short one has
\* two windows, or none once its bytes are merged.
TokenCount(v, t) ==
    IF t = long THEN IF v = bytes THEN 12 ELSE 8
    ELSE IF v = bytes THEN 5 ELSE 2

\* A permutation that depends on the pass.
Rotated(s, epoch, slots) == [i \in 1 .. slots |-> (i + epoch) % slots]

Interchangeable == Permutations(Sources)
=============================================================================
