----------------------------- MODULE MCSchedule ------------------------------
(* Small instances of Schedule.                                             *)
EXTENDS Schedule

S(steps, rate, mode, variance) ==
    [steps |-> steps, rate |-> rate, mode |-> mode, variance |-> variance]

\* Until stopped at the rate of a new model; plans whose warmup is cut short
\* by half the plan, by ten steps, by the strategy; the rate of a trained
\* model and one set by hand.
FewSettings == {S(0, 12, "cosine-cuts", FALSE), S(40, 1, "cosine-cuts", TRUE),
                S(40, 12, "wsd", FALSE), S(5, 4, "cosine", TRUE), S(600, 1, "wsd", TRUE)}
=============================================================================
