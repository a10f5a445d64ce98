---------------------------- MODULE MCGpuTraining ----------------------------
EXTENDS GpuTraining

\* One sequence, two sequences the second of which has fewer distinct ids,
\* and a run of ids that is not a whole number of sequences.
MCInputs == {<<1, 2, 1>>, <<2, 1, 3, 1, 1, 1>>, <<1, 2>>}
=============================================================================
