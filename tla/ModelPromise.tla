----------------------------- MODULE ModelPromise -----------------------------
(***************************************************************************)
(* What a WasmLLM promises the page, whatever device its weights are on:   *)
(* one current set of weights, replaced or trained one version at a time;  *)
(* checkpoints of exactly those weights; and generations that are served   *)
(* from them and that nothing changes them under.                          *)
(*                                                                         *)
(* One thing is outside the promise.  Timing the kernels may spoil the     *)
(* weights without a step; until a step or a copy of them makes them like  *)
(* any others, checkpoints and generations are of those before them, and a *)
(* failing device may take them away.                                      *)
(***************************************************************************)
EXTENDS Naturals

CONSTANT None

VARIABLES
    current,  \* version of the model's weights
    spoilt,   \* they came with no step
    serving,  \* version a generation on the GPU is being served from, or None
    saved     \* the last checkpoint handed out

Init ==
    /\ current = 0
    /\ spoilt = FALSE
    /\ serving = None
    /\ saved = [weights |-> None, step |-> 0]

\* What checkpoints and generations are of.
Given == IF spoilt THEN current - 1 ELSE current

\* A training update, an import, or a new vocabulary.
Change ==
    /\ serving = None
    /\ current' > current /\ spoilt' = FALSE
    /\ UNCHANGED <<serving, saved>>

\* The kernels are timed before the first step.
Spoil ==
    /\ serving = None /\ ~spoilt
    /\ current' = current + 1 /\ spoilt' = TRUE
    /\ UNCHANGED <<serving, saved>>

\* A step is counted, or a copy made: the weights are like any others.
Settle ==
    /\ serving = None /\ spoilt
    /\ spoilt' = FALSE
    /\ UNCHANGED <<current, serving, saved>>

\* Either may come with a copy.
Save ==
    /\ serving = None
    /\ spoilt' \in {spoilt, FALSE}
    /\ saved' \in [weights : {Given'}, step : Nat]
    /\ UNCHANGED <<current, serving>>

Serve ==
    /\ serving = None
    /\ spoilt' \in {spoilt, FALSE}
    /\ serving' = Given'
    /\ UNCHANGED <<current, saved>>

Served ==
    /\ serving # None
    /\ serving' = None
    /\ UNCHANGED <<current, spoilt, saved>>

\* The device fails in the middle of a generation, and spoilt weights are gone.
Lost ==
    /\ serving # None /\ spoilt
    /\ serving' = None
    /\ current' = Given /\ spoilt' = FALSE
    /\ UNCHANGED saved

Next == Change \/ Spoil \/ Settle \/ Save \/ Serve \/ Served \/ Lost

Spec == Init /\ [][Next]_<<current, spoilt, serving, saved>>
=============================================================================
