----------------------------- MODULE MCWorkerLoop -----------------------------
(* WorkerLoop with the settings a page may ask for. *)
EXTENDS WorkerLoop

\* A planned run with every cadence, a sample on every second step.
Dense == [max |-> 3, sample |-> 2, save |-> 1, validate |-> 1]
\* A run until stopped, without samples.
Plain == [max |-> 0, sample |-> 0, save |-> 1, validate |-> 1]

PlainOrDense == {Plain, Dense}

\* With every cadence on, one press of Train is explored; without samples,
\* MaxClicks of them.  No step of the loop or of its fairness changes what
\* Within speaks of, so nothing that must happen is kept from happening.
Within == clicks <= 1 \/ live # Dense
MCSpec == Init /\ [][Next /\ Within']_vars /\ Fairness
=============================================================================
