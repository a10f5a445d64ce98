------------------------------- MODULE Schedule -------------------------------
(***************************************************************************)
(* The learning rate of a project: the TrainConfig that lr_at reads        *)
(* (llm-core train.rs), the calls that shape it (wasm-app training_api.rs, *)
(* model_state.rs), the settings a page applies before and during a run    *)
(* (worker.js applyLiveSettings), the cuts the worker makes when held-out  *)
(* loss stops improving, and what of it a checkpoint brings back.          *)
(*                                                                         *)
(* A rate is in units of 5e-5, a ratio or a scale in thousandths; a        *)
(* scheduled rate is in millionths of that unit.                           *)
(***************************************************************************)
EXTENDS Integers, FiniteSets

CONSTANTS None,
          Settings,   \* what readTrainingSettings may send: steps, rate, mode, variance
          Rates,      \* rates set by themselves while a run goes on
          Patience,   \* PLATEAU_PATIENCE, in measurements
          CutAfter,   \* TOKENS_BEFORE_CUTTING_THE_RATE, in steps
          MaxStep     \* bound on the steps of a model

ASSUME ScheduleAssumption ==
    /\ Settings \subseteq [steps : Nat, rate : Nat, mode : {"wsd", "cosine", "cosine-cuts"},
                           variance : BOOLEAN]
    /\ Rates \subseteq Nat /\ {Patience, CutAfter, MaxStep} \subseteq Nat /\ None \notin Nat

VARIABLES
    train,    \* Inner.train, with Inner.warmup_variance
    step,     \* Inner.step
    live,     \* the worker's settings, as last applied; steps 0 for none
    running,  \* the worker's `training`
    flat,     \* sinceImprovement
    sources,  \* the page has sources
    stored,   \* the checkpoint in the page's database, or None
    just      \* history: what was done last, "loaded", "synced" or "other"

vars == <<train, step, live, running, flat, sources, stored, just>>

AtMost(a, b) == IF a < b THEN a ELSE b
AtLeast(a, b) == IF a < b THEN b ELSE a

-----------------------------------------------------------------------------
(* TrainConfig.                                                            *)

Full == 1000

\* 2% of the plan, or 2 / (1 - ADAM_BETA2) steps.
Clamped(n, total) == AtMost(AtMost(AtLeast(n, 10), 200), AtLeast(total, 1) \div 2)
warmup_for(total) == Clamped(total \div 50, total)
warmup_for_variance(total) == Clamped(40, total)
Warmup(variance, total) == IF variance THEN warmup_for_variance(total) ELSE warmup_for(total)

\* Mutant of progress: past its end the window goes on.
progress_unclamped(elapsed, steps) == (elapsed * Full) \div steps

\* How far into a decay window, in thousandths.
progress(elapsed, steps) == AtMost((elapsed * Full) \div steps, Full)

\* The cosine is a falling line here, and rises again past its half turn.
decayed_ratio(t, p) ==
    t.min_lr_ratio + ((Full - t.min_lr_ratio) * (IF p <= Full THEN Full - p ELSE p - Full)) \div Full

\* Where decay begins: after warmup, or in the last fifth of the plan.
DecayStart(t) ==
    IF t.schedule = "wsd" THEN AtLeast((t.total_steps * 4) \div 5, t.warmup_steps)
    ELSE t.warmup_steps

lr_at(t, s) ==
    LET into_run == AtLeast(s - t.start_step, 0)
        start == DecayStart(t)
        steps == AtLeast(t.total_steps - start, 1)
    IN IF into_run < t.warmup_steps THEN ((t.lr * Full * (into_run + 1)) \div t.warmup_steps) * Full
       ELSE IF into_run < start THEN t.lr * Full * t.plateau_scale
       ELSE t.lr * decayed_ratio(t, progress(into_run - start, steps)) * t.plateau_scale

-----------------------------------------------------------------------------
(* The calls that shape it, as functions of Inner.train.                   *)

set_warmup_strategy(t, variance) ==
    [t EXCEPT !.variance = variance, !.warmup_steps = Warmup(variance, t.total_steps)]

\* Mutant of set_project_plan: the warmup stays that of the plan before.
set_project_plan_only(t, steps) ==
    IF steps = 0 THEN t ELSE [t EXCEPT !.start_step = 0, !.total_steps = steps]

set_project_plan(t, steps) ==
    IF steps = 0 \/ (t.total_steps = steps /\ t.start_step = 0) THEN t
    ELSE [t EXCEPT !.start_step = 0, !.total_steps = steps,
                   !.warmup_steps = Warmup(t.variance, steps)]

reset_plateau_scale(t) == [t EXCEPT !.plateau_scale = Full]

\* decay_on_plateau(PLATEAU_FACTOR, PLATEAU_FLOOR).
decay_on_plateau(t) == [t EXCEPT !.plateau_scale = AtLeast(@ \div 2, 50)]

\* Mutant of ApplyMode: a cut stays, whatever the mode.
ApplyMode_only(t, mode) == [t EXCEPT !.schedule = IF mode = "wsd" THEN "wsd" ELSE "cosine"]

\* set_schedule_kind, and the cut a mode without cuts must not inherit.
ApplyMode(t, mode) ==
    LET shaped == [t EXCEPT !.schedule = IF mode = "wsd" THEN "wsd" ELSE "cosine"]
    IN IF mode # "cosine-cuts" THEN reset_plateau_scale(shaped) ELSE shaped

\* set_learning_rate, and the cut a rate set by hand must not suffer.
ApplyRate(t, rate) ==
    IF rate = 0 \/ rate = t.lr THEN t ELSE reset_plateau_scale([t EXCEPT !.lr = rate])

applyLiveSettings(s) ==
    /\ live' = s
    /\ train' = ApplyRate(ApplyMode(set_project_plan(set_warmup_strategy(train, s.variance),
                                                     s.steps), s.mode), s.rate)

-----------------------------------------------------------------------------
(* Models.                                                                 *)

Default == [lr |-> 6, warmup_steps |-> 200, total_steps |-> 10000, start_step |-> 0,
            min_lr_ratio |-> 100, plateau_scale |-> Full, schedule |-> "cosine",
            variance |-> FALSE]

from_checkpoint(c) ==
    LET flatly == [Default EXCEPT !.lr = 1, !.min_lr_ratio = Full]
    IN IF c.planned_steps > 0
       THEN [flatly EXCEPT !.total_steps = c.planned_steps,
                           !.warmup_steps = warmup_for(c.planned_steps),
                           !.plateau_scale = c.plateau_scale]
       ELSE [flatly EXCEPT !.total_steps = 2000, !.warmup_steps = 20]

import_checkpoint(t, c) ==
    IF c.planned_steps = 0 THEN t
    ELSE [t EXCEPT !.start_step = 0, !.total_steps = c.planned_steps,
                   !.warmup_steps = warmup_for(c.planned_steps),
                   !.plateau_scale = c.plateau_scale]

LiveDefault == [steps |-> 0, rate |-> 0, mode |-> "wsd", variance |-> FALSE]

Init ==
    /\ train = Default /\ step = 0 /\ live = LiveDefault
    /\ running = FALSE /\ flat = 0 /\ sources = FALSE /\ stored = None /\ just = "other"

-----------------------------------------------------------------------------
(* Runs.                                                                   *)

\* Without sources a run ends before its first step.
Train(s) ==
    /\ ~ running /\ sources
    /\ running' = TRUE /\ flat' = 0
    /\ applyLiveSettings(s)
    /\ just' = "other" /\ UNCHANGED <<step, sources, stored>>

\* Any control of the page that changes sends all of them.
Update(s) ==
    /\ applyLiveSettings(s)
    /\ just' = "other" /\ UNCHANGED <<step, running, flat, sources, stored>>

\* The rate alone, from the field beside the chart.
UpdateRate(rate) ==
    /\ live' = [live EXCEPT !.rate = rate] /\ train' = ApplyRate(train, rate)
    /\ just' = "other" /\ UNCHANGED <<step, running, flat, sources, stored>>

\* A step and, when one is due, the measurement after it.
Step(measured) ==
    LET cutting == live.mode = "cosine-cuts" /\ measured # "not due"
        count == IF measured = "better" THEN 0 ELSE flat + 1
        cut == cutting /\ measured = "flat" /\ step + 1 >= CutAfter /\ count >= Patience
    IN /\ running /\ step < MaxStep
       /\ step' = step + 1
       /\ flat' = IF ~ cutting THEN flat ELSE IF cut THEN 0 ELSE AtMost(count, Patience)
       /\ train' = IF cut THEN decay_on_plateau(train) ELSE train
       /\ just' = "other" /\ UNCHANGED <<live, running, sources, stored>>

StopRun ==
    /\ running /\ running' = FALSE
    /\ just' = "other" /\ UNCHANGED <<train, step, live, flat, sources, stored>>

\* reset-schedule.
ResetSchedule ==
    /\ train' = reset_plateau_scale(train)
    /\ just' = "other" /\ UNCHANGED <<step, live, running, flat, sources, stored>>

\* upsert-source and remove-source: what is left may be nothing.
ChangeSources ==
    /\ train' = reset_plateau_scale(train) /\ sources' \in BOOLEAN
    /\ just' = "other" /\ UNCHANGED <<step, live, running, flat, stored>>

-----------------------------------------------------------------------------
(* Checkpoints.                                                            *)

Save ==
    /\ stored' = [step |-> step, planned_steps |-> train.total_steps,
                  plateau_scale |-> train.plateau_scale]
    /\ just' = "other" /\ UNCHANGED <<train, step, live, running, flat, sources>>

\* A page that opens again: restoreModel loads the model in a new worker,
\* and then hands it every source.
Load ==
    /\ stored # None
    /\ train' = from_checkpoint(stored) /\ step' = stored.step
    /\ live' = LiveDefault /\ running' = FALSE /\ flat' = 0
    /\ just' = "loaded" /\ UNCHANGED <<sources, stored>>

syncAllSources ==
    /\ just = "loaded" /\ sources
    /\ train' = reset_plateau_scale(train)
    /\ just' = "synced" /\ UNCHANGED <<step, live, running, flat, sources, stored>>

\* A checkpoint file, of this project or another, over the model there is.
ImportCheckpoint(planned, scale, steps) ==
    LET c == [planned_steps |-> planned, plateau_scale |-> scale]
    IN /\ ~ running
       /\ train' = import_checkpoint(train, c) /\ step' = steps
       /\ just' = "other" /\ UNCHANGED <<live, running, flat, sources, stored>>

\* New Project, and the model the next press of Train makes.
CreateModel ==
    /\ ~ running
    /\ train' = Default /\ step' = 0 /\ flat' = 0 /\ stored' = None
    /\ just' = "other" /\ UNCHANGED <<live, running, sources>>

Next ==
    \/ \E s \in Settings : Train(s) \/ Update(s)
    \/ \E rate \in Rates : UpdateRate(rate)
    \/ \E measured \in {"not due", "better", "flat"} : Step(measured)
    \/ StopRun \/ ResetSchedule \/ ChangeSources
    \/ Save \/ Load \/ syncAllSources \/ CreateModel
    \/ \E planned \in {0, 40}, scale \in {50, Full}, steps \in {0, MaxStep} :
          ImportCheckpoint(planned, scale, steps)

Spec == Init /\ [][Next]_vars

-----------------------------------------------------------------------------
TypeOK ==
    /\ train.lr \in Nat \ {0} /\ train.plateau_scale \in 50 .. Full
    /\ train.min_lr_ratio \in {100, Full} /\ train.schedule \in {"wsd", "cosine"}
    /\ step \in 0 .. MaxStep /\ live.mode \in {"wsd", "cosine", "cosine-cuts"}
    /\ {running, sources} \subseteq BOOLEAN /\ flat \in 0 .. Patience

\* Steps at which the schedule changes shape, and those around them.
Corners(t) ==
    {c + d : c \in {t.warmup_steps, DecayStart(t), t.total_steps, 2 * t.total_steps},
             d \in {-1, 0, 1}} \cap Nat

(* Whatever plan, shape, strategy and cut have come together, the phases   *)
(* of the schedule join: past warmup no step's rate is above the one       *)
(* before it, nor under the floor; no rate is above the peak, and none is  *)
(* zero (train.rs lr_at, decayed_ratio).                                   *)
RateFallsAfterWarmup ==
    /\ TypeOK
    /\ \A s \in Corners(train) :
          LET rate == lr_at(train, s)
          IN /\ 0 < rate /\ rate <= train.lr * Full * Full
             /\ s >= train.warmup_steps =>
                    /\ rate >= train.lr * train.min_lr_ratio * train.plateau_scale
                    /\ lr_at(train, s + 1) <= rate

(* A run trains to the plan, shape, warmup strategy and peak last asked    *)
(* for, whatever model, checkpoint or earlier plan it started over: the    *)
(* shape of its warmup is that of its own plan (worker.js                  *)
(* applyLiveSettings, training_api.rs set_project_plan).                   *)
RunFollowsItsSettings ==
    running =>
        /\ live.steps > 0 => train.total_steps = live.steps /\ train.start_step = 0
        /\ train.warmup_steps = Warmup(live.variance, train.total_steps)
        /\ (train.schedule = "wsd") <=> (live.mode = "wsd")
        /\ live.rate > 0 => train.lr = live.rate

(* A run whose mode does not cut the rate is not cut, whatever cut the     *)
(* model, a checkpoint, an import or an earlier mode of the same run       *)
(* brought along (worker.js applyLiveSettings).                            *)
CutsAreAskedFor ==
    running /\ live.mode # "cosine-cuts" => train.plateau_scale = Full

-----------------------------------------------------------------------------
(* model_state.rs says of the plan and the plateau cut that restoring them *)
(* "is what makes a reload continue the same absolute schedule": once the  *)
(* page has restored a model and its sources, both are those saved.        *)
CutSurvivesReload ==
    just = "synced" /\ stored.planned_steps > 0 =>
        /\ train.total_steps = stored.planned_steps
        /\ train.plateau_scale = stored.plateau_scale
=============================================================================
