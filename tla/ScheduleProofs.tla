---------------------------- MODULE ScheduleProofs ----------------------------
(***************************************************************************)
(* A run trains to its settings, and the rate that comes of them falls     *)
(* after its warmup, for every plan, rate, mode and strategy, every        *)
(* patience and any number of steps.                                       *)
(***************************************************************************)
EXTENDS Schedule, TLAPS

Config == [lr : Nat, warmup_steps : Nat, total_steps : Nat, start_step : Nat,
           min_lr_ratio : Nat, plateau_scale : Nat, schedule : {"wsd", "cosine"},
           variance : BOOLEAN]
Setting == [steps : Nat, rate : Nat, mode : {"wsd", "cosine", "cosine-cuts"},
            variance : BOOLEAN]
Saved == [step : Nat, planned_steps : Nat, plateau_scale : Nat]

\* A warmup is a number of steps.
LEMMA WarmupIsNat ==
    ASSUME NEW total \in Nat, NEW variance \in BOOLEAN
    PROVE  Warmup(variance, total) \in Nat /\ warmup_for(total) \in Nat
<1>1. \A n \in Nat : Clamped(n, total) \in Nat
  BY DEF Clamped, AtMost, AtLeast
<1>2. total \div 50 \in Nat
  OBVIOUS
<1> QED
  BY <1>1, <1>2 DEF Warmup, warmup_for, warmup_for_variance

\* A cut is a scale.
LEMMA CutIsNat ==
    ASSUME NEW n \in Nat
    PROVE  AtLeast(n \div 2, 50) \in Nat
<1>1. n \div 2 \in Nat
  OBVIOUS
<1> QED
  BY <1>1 DEF AtLeast

\* Three numbers of a configuration may be any.
LEMMA PlanFields ==
    ASSUME NEW t \in Config, NEW a \in Nat, NEW b \in Nat, NEW c \in Nat
    PROVE  /\ [t EXCEPT !.start_step = a, !.total_steps = b, !.warmup_steps = c] \in Config
           /\ [t EXCEPT !.total_steps = a, !.warmup_steps = b, !.plateau_scale = c] \in Config
           /\ [t EXCEPT !.total_steps = a, !.warmup_steps = b] \in Config
<1>1. [t EXCEPT !.start_step = a, !.total_steps = b] \in Config
  BY DEF Config
<1>2. [t EXCEPT !.total_steps = a, !.warmup_steps = b] \in Config
  BY DEF Config
<1>3. [t EXCEPT !.start_step = a, !.total_steps = b, !.warmup_steps = c]
      = [[t EXCEPT !.start_step = a, !.total_steps = b] EXCEPT !.warmup_steps = c]
  BY DEF Config
<1>4. [t EXCEPT !.total_steps = a, !.warmup_steps = b, !.plateau_scale = c]
      = [[t EXCEPT !.total_steps = a, !.warmup_steps = b] EXCEPT !.plateau_scale = c]
  BY DEF Config
<1>5. \A r \in Config : /\ [r EXCEPT !.warmup_steps = c] \in Config
                        /\ [r EXCEPT !.plateau_scale = c] \in Config
  BY DEF Config
<1> QED
  BY <1>1, <1>2, <1>3, <1>4, <1>5

\* The plan: its length, counted from step 0, and the warmup of that length.
LEMMA PlanIsSet ==
    ASSUME NEW t \in Config, NEW s \in Setting, NEW r,
           r = set_project_plan(set_warmup_strategy(t, s.variance), s.steps)
    PROVE  /\ r \in Config
           /\ s.steps > 0 => r.total_steps = s.steps /\ r.start_step = 0
           /\ r.warmup_steps = Warmup(s.variance, r.total_steps)
<1> DEFINE u == set_warmup_strategy(t, s.variance)
<1>1. s.steps \in Nat /\ s.variance \in BOOLEAN /\ t.total_steps \in Nat
  BY DEF Setting, Config
<1>2. /\ u \in Config /\ u.variance = s.variance
      /\ u.warmup_steps = Warmup(s.variance, u.total_steps)
  BY <1>1, WarmupIsNat DEF set_warmup_strategy, Config
<1> HIDE DEF u
<1>3. CASE s.steps = 0 \/ (u.total_steps = s.steps /\ u.start_step = 0)
  <2>1. r = u
    BY <1>3 DEF set_project_plan, u
  <2>2. s.steps > 0 => r.total_steps = s.steps /\ r.start_step = 0
    BY <1>1, <1>3, <2>1
  <2> QED
    BY <1>2, <2>1, <2>2
<1>4. CASE ~ (s.steps = 0 \/ (u.total_steps = s.steps /\ u.start_step = 0))
  <2> DEFINE warmup == Warmup(u.variance, s.steps)
  <2>1. r = [u EXCEPT !.start_step = 0, !.total_steps = s.steps, !.warmup_steps = warmup]
    BY <1>4 DEF set_project_plan, u
  <2>2. warmup \in Nat /\ warmup = Warmup(s.variance, s.steps)
    BY <1>1, <1>2, WarmupIsNat, SMTT(60) DEF Config
  <2> HIDE DEF warmup
  <2>3. r \in Config
    <3>1. u \in Config /\ 0 \in Nat /\ s.steps \in Nat /\ warmup \in Nat
      BY <1>1, <1>2, <2>2
    <3>2. [u EXCEPT !.start_step = 0, !.total_steps = s.steps, !.warmup_steps = warmup] \in Config
      BY ONLY <3>1, PlanFields
    <3> QED
      BY <2>1, <3>2
  <2>4. r.total_steps = s.steps /\ r.start_step = 0 /\ r.warmup_steps = warmup
    BY <1>2, <2>1 DEF Config
  <2> QED
    BY <2>2, <2>3, <2>4
<1> QED
  BY <1>3, <1>4

\* The shape, and the cut that goes when the mode does not cut.
LEMMA ModeIsSet ==
    ASSUME NEW t \in Config, NEW mode \in {"wsd", "cosine", "cosine-cuts"}
    PROVE  LET r == ApplyMode(t, mode)
           IN /\ r \in Config
              /\ (r.schedule = "wsd") <=> (mode = "wsd")
              /\ mode # "cosine-cuts" => r.plateau_scale = Full
              /\ r.total_steps = t.total_steps /\ r.start_step = t.start_step
              /\ r.warmup_steps = t.warmup_steps
<1>1. Full \in Nat
  BY DEF Full
<1> QED
  BY <1>1 DEF ApplyMode, reset_plateau_scale, Config

\* The rate, and the cut a new one does not suffer.
LEMMA RateIsSet ==
    ASSUME NEW t \in Config, NEW rate \in Nat
    PROVE  LET r == ApplyRate(t, rate)
           IN /\ r \in Config
              /\ rate > 0 => r.lr = rate
              /\ t.plateau_scale = Full => r.plateau_scale = Full
              /\ r.total_steps = t.total_steps /\ r.start_step = t.start_step
              /\ r.warmup_steps = t.warmup_steps /\ r.schedule = t.schedule
<1>1. Full \in Nat
  BY DEF Full
<1>2. CASE rate = 0 \/ rate = t.lr
  BY <1>2 DEF ApplyRate
<1>3. CASE ~ (rate = 0 \/ rate = t.lr)
  <2> DEFINE r == [t EXCEPT !.lr = rate, !.plateau_scale = Full]
  <2>1. ApplyRate(t, rate) = r
    BY <1>1, <1>3 DEF ApplyRate, reset_plateau_scale, Config
  <2>2. r \in Config
    BY <1>1 DEF Config
  <2>3. /\ r.lr = rate /\ r.plateau_scale = Full
        /\ r.total_steps = t.total_steps /\ r.start_step = t.start_step
        /\ r.warmup_steps = t.warmup_steps /\ r.schedule = t.schedule
    BY <1>1 DEF Config
  <2> HIDE DEF r
  <2> QED
    BY <2>1, <2>2, <2>3
<1> QED
  BY <1>2, <1>3

-----------------------------------------------------------------------------
\* What applyLiveSettings establishes, on any model.
Follows(t, s) ==
    /\ s.steps > 0 => t.total_steps = s.steps /\ t.start_step = 0
    /\ t.warmup_steps = Warmup(s.variance, t.total_steps)
    /\ (t.schedule = "wsd") <=> (s.mode = "wsd")
    /\ s.rate > 0 => t.lr = s.rate
    /\ s.mode # "cosine-cuts" => t.plateau_scale = Full

\* Whatever the model was trained to before, it follows the settings.
LEMMA SettingsAreApplied ==
    ASSUME NEW s \in Setting, train \in Config, applyLiveSettings(s)
    PROVE  train' \in Config /\ live' = s /\ Follows(train', s)
<1> DEFINE planned == set_project_plan(set_warmup_strategy(train, s.variance), s.steps)
           shaped == ApplyMode(planned, s.mode)
<1>1. s.mode \in {"wsd", "cosine", "cosine-cuts"} /\ s.rate \in Nat
  BY DEF Setting
<1>2. /\ planned \in Config
      /\ s.steps > 0 => planned.total_steps = s.steps /\ planned.start_step = 0
      /\ planned.warmup_steps = Warmup(s.variance, planned.total_steps)
  BY PlanIsSet
<1> HIDE DEF planned
<1>3. /\ shaped \in Config
      /\ (shaped.schedule = "wsd") <=> (s.mode = "wsd")
      /\ s.mode # "cosine-cuts" => shaped.plateau_scale = Full
      /\ shaped.total_steps = planned.total_steps
      /\ shaped.start_step = planned.start_step
      /\ shaped.warmup_steps = planned.warmup_steps
  BY <1>1, <1>2, ModeIsSet
<1> HIDE DEF shaped
<1>4. train' = ApplyRate(shaped, s.rate) /\ live' = s
  BY DEF applyLiveSettings, shaped, planned
<1>5. /\ train' \in Config
      /\ s.rate > 0 => train'.lr = s.rate
      /\ shaped.plateau_scale = Full => train'.plateau_scale = Full
      /\ train'.total_steps = shaped.total_steps
      /\ train'.start_step = shaped.start_step
      /\ train'.warmup_steps = shaped.warmup_steps /\ train'.schedule = shaped.schedule
  BY <1>1, <1>3, <1>4, RateIsSet
<1> QED
  BY <1>2, <1>3, <1>4, <1>5 DEF Follows

-----------------------------------------------------------------------------
\* The inductive invariant.
Typed ==
    /\ train \in Config /\ live \in Setting /\ step \in Nat
    /\ stored # None => stored \in Saved

RunInv == Typed /\ (running => Follows(train, live))

\* It holds of a page that has just opened.
LEMMA RunInvInit == Init => RunInv
<1>1. Default \in Config
  BY DEF Default, Config, Full
<1>2. LiveDefault \in Setting
  BY DEF LiveDefault, Setting
<1> QED
  BY <1>1, <1>2 DEF Init, RunInv, Typed

\* Every step keeps it.
LEMMA RunInvNext == RunInv /\ [Next]_vars => RunInv'
<1> SUFFICES ASSUME RunInv, [Next]_vars PROVE RunInv'
  OBVIOUS
<1>1. /\ train \in Config /\ live \in Setting /\ step \in Nat
      /\ (stored # None => stored \in Saved) /\ (running => Follows(train, live))
      /\ Full \in Nat
  BY DEF RunInv, Typed, Full
<1>0. step + 1 \in Nat
  BY <1>1
<1>2. reset_plateau_scale(train) \in Config
      /\ (Follows(train, live) => Follows(reset_plateau_scale(train), live))
  BY <1>1 DEF reset_plateau_scale, Config, Follows
<1>3. ASSUME NEW s \in Settings, Train(s) PROVE RunInv'
  BY <1>1, <1>3, ScheduleAssumption, SettingsAreApplied DEF Train, RunInv, Typed, Setting
<1>4. ASSUME NEW s \in Settings, Update(s) PROVE RunInv'
  BY <1>1, <1>4, ScheduleAssumption, SettingsAreApplied DEF Update, RunInv, Typed, Setting
<1>5. ASSUME NEW rate \in Rates, UpdateRate(rate) PROVE RunInv'
  <2>1. /\ rate \in Nat /\ train' = ApplyRate(train, rate)
        /\ live' = [live EXCEPT !.rate = rate]
        /\ UNCHANGED <<step, running, stored>>
    BY <1>5, ScheduleAssumption DEF UpdateRate
  <2>2. /\ live' \in Setting /\ live'.rate = rate /\ live'.steps = live.steps
        /\ live'.mode = live.mode /\ live'.variance = live.variance
    BY <1>1, <2>1 DEF Setting
  <2>3. /\ train' \in Config
        /\ rate > 0 => train'.lr = rate
        /\ train.plateau_scale = Full => train'.plateau_scale = Full
        /\ train'.total_steps = train.total_steps
        /\ train'.start_step = train.start_step
        /\ train'.warmup_steps = train.warmup_steps /\ train'.schedule = train.schedule
    BY <1>1, <2>1, RateIsSet
  <2>4. Follows(train, live) => Follows(train', live')
    BY <2>2, <2>3 DEF Follows
  <2> QED
    BY <1>1, <2>1, <2>2, <2>3, <2>4 DEF RunInv, Typed
<1>6. ASSUME NEW measured \in {"not due", "better", "flat"}, Step(measured) PROVE RunInv'
  <2>1. /\ step' \in Nat /\ UNCHANGED <<live, running, stored>>
        /\ \/ train' = train
           \/ train' = decay_on_plateau(train) /\ live.mode = "cosine-cuts"
    <3>1. step' = step + 1 /\ UNCHANGED <<live, running, stored>>
      BY <1>6 DEF Step
    <3>2. train' = train \/ (train' = decay_on_plateau(train) /\ live.mode = "cosine-cuts")
      BY <1>6 DEF Step
    <3>3. step' \in Nat
      BY <1>0, <3>1
    <3> QED
      BY <3>1, <3>2, <3>3, Zenon
  <2>2. CASE train' = train
    BY <1>1, <2>1, <2>2 DEF RunInv, Typed
  <2>3. CASE train' = decay_on_plateau(train) /\ live.mode = "cosine-cuts"
    <3>1. train' \in Config
      <4>1. AtLeast(train.plateau_scale \div 2, 50) \in Nat
        <5>1. train.plateau_scale \in Nat
          BY <1>1 DEF Config
        <5> QED
          BY <5>1, CutIsNat
      <4> QED
        BY <1>1, <2>3, <4>1 DEF decay_on_plateau, Config
    <3>2. Follows(train, live) => Follows(train', live)
      BY <1>1, <2>3 DEF decay_on_plateau, Config, Follows
    <3> QED
      BY <1>1, <2>1, <3>1, <3>2 DEF RunInv, Typed
  <2> QED
    BY <2>1, <2>2, <2>3
<1>7. CASE StopRun
  BY <1>1, <1>7 DEF StopRun, RunInv, Typed
<1>8. CASE ResetSchedule
  BY <1>1, <1>2, <1>8 DEF ResetSchedule, RunInv, Typed
<1>9. CASE ChangeSources
  BY <1>1, <1>2, <1>9 DEF ChangeSources, RunInv, Typed
<1>10. CASE syncAllSources
  BY <1>1, <1>2, <1>10 DEF syncAllSources, RunInv, Typed
<1>11. CASE Save
  <2>1. stored' \in Saved
    BY <1>1, <1>11 DEF Save, Saved, Config
  <2> QED
    BY <1>1, <1>11, <2>1 DEF Save, RunInv, Typed
<1>12. CASE Load
  <2>1. stored \in Saved
    BY <1>1, <1>12 DEF Load
  <2>2. warmup_for(stored.planned_steps) \in Nat
    BY <2>1, WarmupIsNat DEF Saved
  <2>3. from_checkpoint(stored) \in Config /\ LiveDefault \in Setting
    <3>1. LiveDefault \in Setting
      BY DEF LiveDefault, Setting
    <3>2. Default \in Config
      BY <1>1 DEF Default, Config
    <3> DEFINE flatly == [Default EXCEPT !.lr = 1, !.min_lr_ratio = Full]
               warmup == warmup_for(stored.planned_steps)
    <3>3. flatly \in Config
      BY <1>1, <3>2 DEF Config
    <3>4. stored.planned_steps \in Nat /\ stored.plateau_scale \in Nat
      BY <2>1 DEF Saved
    <3>5. from_checkpoint(stored) =
             IF stored.planned_steps > 0
             THEN [flatly EXCEPT !.total_steps = stored.planned_steps,
                                 !.warmup_steps = warmup,
                                 !.plateau_scale = stored.plateau_scale]
             ELSE [flatly EXCEPT !.total_steps = 2000, !.warmup_steps = 20]
      BY DEF from_checkpoint
    <3> HIDE DEF flatly, warmup
    <3>6. from_checkpoint(stored) \in Config
      <4>1. warmup \in Nat
        BY <2>2 DEF warmup
      <4> QED
        <5> DEFINE kept == [flatly EXCEPT !.total_steps = stored.planned_steps,
                                          !.warmup_steps = warmup,
                                          !.plateau_scale = stored.plateau_scale]
                   unknown == 2000
                   short == 20
                   fresh == [flatly EXCEPT !.total_steps = unknown, !.warmup_steps = short]
        <5>1. kept \in Config
          BY ONLY <3>3, <3>4, <4>1, PlanFields, ZenonT(60)
        <5>2. fresh \in Config
          <6>1. unknown \in Nat /\ short \in Nat
            OBVIOUS
          <6> HIDE DEF unknown, short
          <6> QED
            BY ONLY <3>3, <6>1, PlanFields
        <5> HIDE DEF kept, fresh
        <5> QED
          BY <3>5, <5>1, <5>2 DEF kept, fresh
    <3> QED
      BY <3>1, <3>6
  <2> QED
    BY <1>12, <2>1, <2>3 DEF Load, RunInv, Typed, Saved
<1>13. CASE CreateModel
  BY <1>1, <1>13 DEF CreateModel, Default, Config, RunInv, Typed
<1>14. ASSUME NEW planned \in {0, 40}, NEW scale \in {50, Full}, NEW steps \in {0, MaxStep},
              ImportCheckpoint(planned, scale, steps)
       PROVE  RunInv'
  <2>1. planned \in Nat /\ scale \in Nat /\ steps \in Nat
    BY <1>1, ScheduleAssumption
  <2>2. warmup_for(planned) \in Nat
    BY <2>1, WarmupIsNat
  <2>3. train' \in Config
    BY <1>1, <1>14, <2>1, <2>2 DEF ImportCheckpoint, import_checkpoint, Config
  <2> QED
    BY <1>1, <1>14, <2>1, <2>3 DEF ImportCheckpoint, RunInv, Typed
<1>15. CASE UNCHANGED vars
  BY <1>1, <1>15 DEF vars, RunInv, Typed
<1> QED
  BY <1>3, <1>4, <1>5, <1>6, <1>7, <1>8, <1>9, <1>10, <1>11, <1>12, <1>13, <1>14, <1>15, ZenonT(60)
     DEF Next

\* The plan, shape, warmup and peak of a run are those last asked for
\* (worker.js applyLiveSettings).
THEOREM RunsFollow == Spec => []RunFollowsItsSettings
<1>1. RunInv => RunFollowsItsSettings
  BY DEF RunInv, Follows, RunFollowsItsSettings
<1> QED
  BY <1>1, RunInvInit, RunInvNext, PTL DEF Spec

\* A mode that does not cut the rate never inherits a cut.
THEOREM NoInheritedCut == Spec => []CutsAreAskedFor
<1>1. RunInv => CutsAreAskedFor
  BY DEF RunInv, Follows, CutsAreAskedFor
<1> QED
  BY <1>1, RunInvInit, RunInvNext, PTL DEF Spec

-----------------------------------------------------------------------------
\* The arithmetic of a rate.

\* A larger number has a larger quotient.
LEMMA QuotientsRise ==
    ASSUME NEW a \in Nat, NEW b \in Nat, a <= b, NEW n \in Nat \ {0}
    PROVE  a \div n <= b \div n /\ a \div n \in Nat /\ b \div n \in Nat
<1> DEFINE p == a \div n
           q == b \div n
<1>1. /\ p \in Nat /\ q \in Nat
      /\ n * p <= a /\ b < n * q + n
  OBVIOUS
<1> HIDE DEF p, q
<1>2. p <= q
  <2> SUFFICES ASSUME q + 1 <= p PROVE FALSE
    BY <1>1
  <2>1. n * (q + 1) <= n * p /\ n * (q + 1) = n * q + n
    BY <1>1
  <2> QED
    BY <1>1, <2>1
<1> QED
  BY <1>1, <1>2 DEF p, q

\* A number of times n, halved n times.
LEMMA QuotientOfProduct ==
    ASSUME NEW a \in Nat, NEW k \in Nat, NEW n \in Nat \ {0}, a <= k * n
    PROVE  a \div n <= k
<1> DEFINE p == a \div n
<1>1. p \in Nat /\ n * p <= a
  OBVIOUS
<1> HIDE DEF p
<1>2. p <= k
  <2> SUFFICES ASSUME k + 1 <= p PROVE FALSE
    BY <1>1
  <2>1. n * (k + 1) <= n * p /\ n * (k + 1) = k * n + n
    BY <1>1
  <2> QED
    BY <1>1, <2>1
<1> QED
  BY <1>2 DEF p

\* Products keep the order of their factors.
LEMMA ProductsRise ==
    ASSUME NEW a \in Nat, NEW b \in Nat, NEW c \in Nat, NEW d \in Nat, a <= b, c <= d
    PROVE  a * c <= b * d /\ a * c \in Nat
<1>1. a * c <= b * c
  OBVIOUS
<1>2. b * c <= b * d
  OBVIOUS
<1>3. a * c \in Nat /\ b * c \in Nat /\ b * d \in Nat
  OBVIOUS
<1> QED
  BY <1>1, <1>2, <1>3

\* A configuration as the calls leave it.
Shaped(t) ==
    /\ t.start_step = 0 /\ t.lr > 0 /\ t.plateau_scale \in 50 .. Full
    /\ t.min_lr_ratio \in {100, Full} /\ t.warmup_steps <= 200

\* The ratio of a decay is between the floor and one, and falls.
LEMMA RatioFalls ==
    ASSUME NEW t \in Config, Shaped(t), NEW p \in 0 .. Full, NEW q \in 0 .. Full, p <= q
    PROVE  /\ decayed_ratio(t, p) \in Nat /\ decayed_ratio(t, q) \in Nat
           /\ decayed_ratio(t, q) <= decayed_ratio(t, p)
           /\ t.min_lr_ratio <= decayed_ratio(t, p) /\ decayed_ratio(t, p) <= Full
<1>1. t.min_lr_ratio = 100 \/ t.min_lr_ratio = 1000
  BY DEF Shaped, Full
<1>2. /\ decayed_ratio(t, p) = t.min_lr_ratio + ((1000 - t.min_lr_ratio) * (1000 - p)) \div 1000
      /\ decayed_ratio(t, q) = t.min_lr_ratio + ((1000 - t.min_lr_ratio) * (1000 - q)) \div 1000
  BY DEF decayed_ratio, Full
<1>3. CASE t.min_lr_ratio = 1000
  <2>1. (0 * (1000 - p)) \div 1000 = 0 /\ (0 * (1000 - q)) \div 1000 = 0
    BY DEF Full
  <2>2. decayed_ratio(t, p) = 1000 /\ decayed_ratio(t, q) = 1000
    BY <1>2, <1>3, <2>1
  <2> QED
    BY <1>3, <2>2 DEF Full
<1>4. CASE t.min_lr_ratio = 100
  <2>1. /\ decayed_ratio(t, p) = 100 + (900 * (1000 - p)) \div 1000
        /\ decayed_ratio(t, q) = 100 + (900 * (1000 - q)) \div 1000
    BY <1>2, <1>4
  <2>2. p \in 0 .. 1000 /\ q \in 0 .. 1000
    BY DEF Full
  <2> QED
    BY <1>4, <2>1, <2>2 DEF Full
<1> QED
  BY <1>1, <1>3, <1>4

\* The further into a decay, the nearer to its end.
LEMMA ProgressRises ==
    ASSUME NEW a \in Nat, NEW b \in Nat, a <= b, NEW n \in Nat \ {0}
    PROVE  /\ progress(a, n) \in 0 .. Full /\ progress(b, n) \in 0 .. Full
           /\ progress(a, n) <= progress(b, n)
<1>1. a * Full \in Nat /\ b * Full \in Nat /\ a * Full <= b * Full
  BY DEF Full
<1>2. /\ (a * Full) \div n <= (b * Full) \div n
      /\ (a * Full) \div n \in Nat /\ (b * Full) \div n \in Nat
  BY <1>1, QuotientsRise
<1> QED
  BY <1>2 DEF progress, AtMost, Full

\* The three phases of a schedule.
LEMMA Phases ==
    ASSUME NEW t \in Config, Shaped(t), NEW s \in Nat,
           NEW start, start = DecayStart(t), NEW n, n = AtLeast(t.total_steps - start, 1)
    PROVE  /\ start \in Nat /\ n \in Nat \ {0} /\ t.warmup_steps <= start
           /\ s < t.warmup_steps =>
                 lr_at(t, s) = ((t.lr * Full * (s + 1)) \div t.warmup_steps) * Full
           /\ t.warmup_steps <= s /\ s < start => lr_at(t, s) = t.lr * Full * t.plateau_scale
           /\ start <= s =>
                 lr_at(t, s) = t.lr * decayed_ratio(t, progress(s - start, n)) * t.plateau_scale
<1>1. t.total_steps \in Nat /\ t.warmup_steps \in Nat /\ t.start_step = 0
  BY DEF Config, Shaped
<1>2. (t.total_steps * 4) \div 5 \in Nat
  BY <1>1
<1>3. start \in Nat /\ t.warmup_steps <= start
  BY <1>1, <1>2 DEF DecayStart, AtLeast
<1>4. n \in Nat \ {0}
  BY <1>1, <1>3 DEF AtLeast
<1>5. AtLeast(s - t.start_step, 0) = s
  BY <1>1 DEF AtLeast
<1>6. lr_at(t, s) =
        IF s < t.warmup_steps THEN ((t.lr * Full * (s + 1)) \div t.warmup_steps) * Full
        ELSE IF s < start THEN t.lr * Full * t.plateau_scale
        ELSE t.lr * decayed_ratio(t, progress(s - start, n)) * t.plateau_scale
  BY <1>5 DEF lr_at
<1> QED
  BY <1>1, <1>3, <1>4, <1>6

\* No rate is zero or above the peak.
LEMMA RatesAreBounded ==
    ASSUME NEW t \in Config, Shaped(t), NEW s \in Nat
    PROVE  0 < lr_at(t, s) /\ lr_at(t, s) <= t.lr * Full * Full
<1> PICK start : start = DecayStart(t)
  OBVIOUS
<1> PICK n : n = AtLeast(t.total_steps - start, 1)
  OBVIOUS
<1>1. /\ start \in Nat /\ n \in Nat \ {0} /\ t.warmup_steps <= start
      /\ s < t.warmup_steps =>
            lr_at(t, s) = ((t.lr * Full * (s + 1)) \div t.warmup_steps) * Full
      /\ t.warmup_steps <= s /\ s < start => lr_at(t, s) = t.lr * Full * t.plateau_scale
      /\ start <= s =>
            lr_at(t, s) = t.lr * decayed_ratio(t, progress(s - start, n)) * t.plateau_scale
  BY Phases
<1> PICK l, w, scale : l = t.lr /\ w = t.warmup_steps /\ scale = t.plateau_scale
  OBVIOUS
<1>2. /\ l \in Nat \ {0} /\ w \in 0 .. 200 /\ scale \in 50 .. 1000 /\ l * 1000 \in Nat
      /\ Full = 1000
  BY DEF Config, Shaped, Full
<1>3. CASE s < w
  <2>1. lr_at(t, s) = ((l * 1000 * (s + 1)) \div w) * 1000
    BY <1>1, <1>2, <1>3
  <2>2. w \in Nat \ {0} /\ s + 1 \in Nat /\ s + 1 <= w /\ 1 <= s + 1
    BY <1>2, <1>3
  <2>3. l * 1000 * (s + 1) <= (l * 1000) * w /\ l * 1000 * (s + 1) \in Nat
    <3>1. l * 1000 \in Nat
      BY <1>2
    <3> QED
      BY <2>2, <3>1, ProductsRise
  <2>4. (l * 1000 * (s + 1)) \div w <= l * 1000
    BY <1>2, <2>2, <2>3, QuotientOfProduct
  <2>5. w <= l * 1000 * (s + 1)
    <3>1. w <= l * 1000
      BY <1>2
    <3>2. (l * 1000) * 1 <= (l * 1000) * (s + 1)
      BY <1>2, <2>2, ProductsRise
    <3> QED
      BY <1>2, <2>3, <3>1, <3>2
  <2>6. w \div w = 1
    BY <2>2
  <2>7. /\ w \div w <= (l * 1000 * (s + 1)) \div w
        /\ (l * 1000 * (s + 1)) \div w \in Nat
    BY <2>2, <2>3, <2>5, QuotientsRise
  <2> PICK q : q = (l * 1000 * (s + 1)) \div w
    OBVIOUS
  <2>8. q \in Nat /\ 1 <= q /\ q <= l * 1000 /\ lr_at(t, s) = q * 1000
    BY <2>1, <2>4, <2>6, <2>7
  <2> QED
    BY <1>2, <2>8
<1>4. CASE w <= s /\ s < start
  <2>1. lr_at(t, s) = (l * 1000) * scale
    BY <1>1, <1>2, <1>4
  <2>2. (l * 1000) * scale <= (l * 1000) * 1000
    BY <1>2, ProductsRise, SMTT(60)
  <2>3. (l * 1000) * 1 <= (l * 1000) * scale
    BY <1>2, ProductsRise, SMTT(60)
  <2> QED
    BY <1>2, <2>1, <2>2, <2>3
<1>5. CASE start <= s
  <2> PICK p : p = progress(s - start, n)
    OBVIOUS
  <2> PICK r : r = decayed_ratio(t, p)
    OBVIOUS
  <2>1. p \in 0 .. Full
    <3>1. s - start \in Nat
      BY <1>1, <1>5
    <3> QED
      BY <1>1, <3>1, ProgressRises
  <2>2. r \in Nat /\ t.min_lr_ratio <= r /\ r <= 1000 /\ 100 <= t.min_lr_ratio
    <3>1. p <= p
      BY <1>2, <2>1
    <3>2. r \in Nat /\ t.min_lr_ratio <= r /\ r <= Full
      BY <2>1, <3>1, RatioFalls
    <3> QED
      BY <1>2, <3>2 DEF Shaped
  <2>3. lr_at(t, s) = (l * r) * scale /\ 100 <= r
    BY <1>1, <1>2, <1>5, <2>2 DEF Config
  <2>4. l * r <= l * 1000 /\ l * r \in Nat
    BY <1>2, <2>2, ProductsRise
  <2>5. (l * r) * scale <= (l * 1000) * 1000
    BY <1>2, <2>4, ProductsRise, SMTT(60)
  <2>6. l * 1 <= l * r
    BY <1>2, <2>2, <2>3, ProductsRise
  <2>7. (l * r) * 1 <= (l * r) * scale
    BY <1>2, <2>4, ProductsRise
  <2> QED
    BY <1>2, <2>3, <2>4, <2>5, <2>6, <2>7
<1> QED
  BY <1>1, <1>2, <1>3, <1>4, <1>5

\* After its warmup a rate is not under the floor, and not under the next.
LEMMA RatesFall ==
    ASSUME NEW t \in Config, Shaped(t), NEW s \in Nat, t.warmup_steps <= s
    PROVE  /\ t.lr * t.min_lr_ratio * t.plateau_scale <= lr_at(t, s)
           /\ lr_at(t, s + 1) <= lr_at(t, s)
<1> PICK start : start = DecayStart(t)
  OBVIOUS
<1> PICK n : n = AtLeast(t.total_steps - start, 1)
  OBVIOUS
<1>1. /\ start \in Nat /\ n \in Nat \ {0} /\ t.warmup_steps <= start
      /\ s < start => lr_at(t, s) = t.lr * Full * t.plateau_scale
      /\ start <= s =>
            lr_at(t, s) = t.lr * decayed_ratio(t, progress(s - start, n)) * t.plateau_scale
  BY Phases
<1>2. /\ s + 1 < start => lr_at(t, s + 1) = t.lr * Full * t.plateau_scale
      /\ start <= s + 1 =>
            lr_at(t, s + 1) = t.lr * decayed_ratio(t, progress(s + 1 - start, n)) * t.plateau_scale
  <2>1. s + 1 \in Nat /\ t.warmup_steps <= s + 1
    BY DEF Config
  <2> QED
    BY <2>1, Phases
<1> PICK l, low, scale : l = t.lr /\ low = t.min_lr_ratio /\ scale = t.plateau_scale
  OBVIOUS
<1>3. /\ l \in Nat /\ low \in Nat /\ low <= 1000 /\ scale \in Nat /\ l * 1000 \in Nat
      /\ Full = 1000
  BY DEF Config, Shaped, Full
<1>4. \A a, b \in Nat : a <= b => (l * a) * scale <= (l * b) * scale
  <2> SUFFICES ASSUME NEW a \in Nat, NEW b \in Nat, a <= b
               PROVE  (l * a) * scale <= (l * b) * scale
    OBVIOUS
  <2>1. l * a <= l * b /\ l * a \in Nat /\ l * b \in Nat
    BY <1>3, ProductsRise
  <2> QED
    BY <1>3, <2>1, ProductsRise
<1>5. CASE s + 1 < start
  <2>1. lr_at(t, s) = (l * 1000) * scale /\ lr_at(t, s + 1) = (l * 1000) * scale
    BY <1>1, <1>2, <1>3, <1>5
  <2>2. (l * low) * scale <= (l * 1000) * scale /\ (l * 1000) * scale \in Nat
    BY <1>3, <1>4
  <2> QED
    BY <1>3, <2>1, <2>2
<1>6. CASE s + 1 = start
  <2> PICK x : x = progress(s + 1 - start, n)
    OBVIOUS
  <2> PICK q : q = decayed_ratio(t, x)
    OBVIOUS
  <2>1. lr_at(t, s) = (l * 1000) * scale /\ lr_at(t, s + 1) = (l * q) * scale
    BY <1>1, <1>2, <1>3, <1>6
  <2>2. x \in 0 .. Full
    <3>1. s + 1 - start \in Nat
      BY <1>1, <1>6
    <3> QED
      BY <1>1, <3>1, ProgressRises
  <2>3. q \in Nat /\ q <= 1000
    <3>1. x <= x
      BY <1>3, <2>2
    <3>2. q \in Nat /\ q <= Full
      BY <2>2, <3>1, RatioFalls
    <3> QED
      BY <1>3, <3>2
  <2>4. /\ (l * q) * scale <= (l * 1000) * scale
        /\ (l * low) * scale <= (l * 1000) * scale
    BY <1>3, <1>4, <2>3
  <2> QED
    BY <1>3, <2>1, <2>4
<1>7. CASE start <= s
  <2> PICK x, y : x = progress(s - start, n) /\ y = progress(s + 1 - start, n)
    OBVIOUS
  <2> PICK p, q : p = decayed_ratio(t, x) /\ q = decayed_ratio(t, y)
    OBVIOUS
  <2>1. x \in 0 .. Full /\ y \in 0 .. Full /\ x <= y
    <3>1. s - start \in Nat /\ s + 1 - start \in Nat /\ s - start <= s + 1 - start
      BY <1>1, <1>7
    <3> QED
      BY <1>1, <3>1, ProgressRises
  <2>2. lr_at(t, s) = (l * p) * scale /\ lr_at(t, s + 1) = (l * q) * scale
    BY <1>1, <1>2, <1>3, <1>7
  <2>3. p \in Nat /\ q \in Nat /\ q <= p /\ t.min_lr_ratio <= p
    BY <2>1, RatioFalls
  <2>4. (l * q) * scale <= (l * p) * scale /\ (l * low) * scale <= (l * p) * scale
    <3>1. low <= p /\ low \in Nat
      BY <1>3, <2>3
    <3> QED
      BY <1>4, <2>3, <3>1
  <2> QED
    BY <1>3, <2>2, <2>4
<1> QED
  BY <1>1, <1>5, <1>6, <1>7

-----------------------------------------------------------------------------
\* A warmup is at most 200 steps.
LEMMA WarmupIsShort ==
    ASSUME NEW total \in Nat, NEW variance \in BOOLEAN
    PROVE  Warmup(variance, total) <= 200 /\ warmup_for(total) <= 200
<1>1. \A n \in Nat : Clamped(n, total) <= 200
  <2> SUFFICES ASSUME NEW n \in Nat PROVE Clamped(n, total) <= 200
    OBVIOUS
  <2>1. AtLeast(total, 1) \div 2 \in Nat
    BY DEF AtLeast
  <2> QED
    BY <2>1 DEF Clamped, AtMost, AtLeast
<1>2. total \div 50 \in Nat
  OBVIOUS
<1> QED
  BY <1>1, <1>2 DEF Warmup, warmup_for, warmup_for_variance

\* Neither uncutting nor cutting takes a configuration out of shape.
LEMMA CutsKeepShape ==
    ASSUME NEW t \in Config, Shaped(t)
    PROVE  Shaped(reset_plateau_scale(t)) /\ Shaped(decay_on_plateau(t))
<1>1. AtLeast(t.plateau_scale \div 2, 50) \in 50 .. Full
  <2>1. t.plateau_scale \in 50 .. 1000
    BY DEF Shaped, Full
  <2> QED
    BY <2>1 DEF AtLeast, Full
<1> QED
  BY <1>1 DEF Shaped, Config, reset_plateau_scale, decay_on_plateau, Full

\* Nor does a rate.
LEMMA RateKeepsShape ==
    ASSUME NEW t \in Config, Shaped(t), NEW rate \in Nat
    PROVE  Shaped(ApplyRate(t, rate))
<1>1. CASE rate = 0 \/ rate = t.lr
  BY <1>1 DEF ApplyRate
<1>2. CASE ~ (rate = 0 \/ rate = t.lr)
  <2> PICK u : u = [t EXCEPT !.lr = rate]
    OBVIOUS
  <2>1. u \in Config /\ Shaped(u)
    BY <1>2 DEF Config, Shaped
  <2>2. ApplyRate(t, rate) = reset_plateau_scale(u)
    BY <1>2 DEF ApplyRate
  <2> QED
    BY <2>1, <2>2, CutsKeepShape
<1> QED
  BY <1>1, <1>2

\* Nor do all the settings together.
LEMMA SettingsKeepShape ==
    ASSUME NEW s \in Setting, train \in Config, Shaped(train), applyLiveSettings(s)
    PROVE  Shaped(train')
<1> PICK u : u = set_warmup_strategy(train, s.variance)
  OBVIOUS
<1> PICK v : v = set_project_plan(u, s.steps)
  OBVIOUS
<1> PICK x : x = ApplyMode(v, s.mode)
  OBVIOUS
<1>1. /\ s.steps \in Nat /\ s.variance \in BOOLEAN /\ s.rate \in Nat
      /\ s.mode \in {"wsd", "cosine", "cosine-cuts"} /\ train.total_steps \in Nat
  BY DEF Setting, Config
<1>2. u \in Config /\ Shaped(u) /\ u.variance \in BOOLEAN
  <2>1. /\ Warmup(s.variance, train.total_steps) \in Nat
        /\ Warmup(s.variance, train.total_steps) <= 200
    BY <1>1, WarmupIsNat, WarmupIsShort
  <2> QED
    BY <1>1, <2>1, ZenonT(60) DEF set_warmup_strategy, Config, Shaped
<1>3. v \in Config /\ Shaped(v)
  <2>1. CASE s.steps = 0 \/ (u.total_steps = s.steps /\ u.start_step = 0)
    BY <1>2, <2>1 DEF set_project_plan
  <2>2. CASE ~ (s.steps = 0 \/ (u.total_steps = s.steps /\ u.start_step = 0))
    <3> PICK warmup : warmup = Warmup(u.variance, s.steps)
      OBVIOUS
    <3>1. warmup \in Nat /\ warmup <= 200
      BY <1>1, <1>2, WarmupIsNat, WarmupIsShort
    <3>2. v = [u EXCEPT !.start_step = 0, !.total_steps = s.steps, !.warmup_steps = warmup]
      BY <2>2 DEF set_project_plan
    <3>3. v \in Config
      <4>1. u \in Config /\ 0 \in Nat /\ s.steps \in Nat /\ warmup \in Nat
        BY <1>1, <1>2, <3>1
      <4>2. [u EXCEPT !.start_step = 0, !.total_steps = s.steps, !.warmup_steps = warmup] \in Config
        BY ONLY <4>1, PlanFields
      <4> QED
        BY <3>2, <4>2
    <3>4. /\ v.start_step = 0 /\ v.warmup_steps = warmup /\ v.lr = u.lr
          /\ v.plateau_scale = u.plateau_scale /\ v.min_lr_ratio = u.min_lr_ratio
      BY <1>2, <3>2 DEF Config
    <3> QED
      BY <1>2, <3>1, <3>3, <3>4 DEF Shaped
  <2> QED
    BY <2>1, <2>2
<1>4. x \in Config /\ Shaped(x)
  <2> PICK y : y = [v EXCEPT !.schedule = IF s.mode = "wsd" THEN "wsd" ELSE "cosine"]
    OBVIOUS
  <2>1. y \in Config /\ Shaped(y)
    BY <1>3 DEF Config, Shaped
  <2>2. x = y \/ x = reset_plateau_scale(y)
    BY DEF ApplyMode
  <2>3. x \in Config
    BY <1>1, <1>3, ModeIsSet
  <2> QED
    BY <2>1, <2>2, <2>3, CutsKeepShape
<1>5. train' = ApplyRate(x, s.rate)
  BY DEF applyLiveSettings
<1> QED
  BY <1>1, <1>4, <1>5, RateKeepsShape

\* What a checkpoint brings back has a shape.
LEMMA CheckpointsHaveShape ==
    ASSUME NEW c \in Saved, c.plateau_scale \in 50 .. Full
    PROVE  Shaped(from_checkpoint(c))
<1> PICK warmup : warmup = warmup_for(c.planned_steps)
  OBVIOUS
<1> PICK flatly : flatly = [Default EXCEPT !.lr = 1, !.min_lr_ratio = Full]
  OBVIOUS
<1>1. warmup \in Nat /\ warmup <= 200
  BY WarmupIsNat, WarmupIsShort DEF Saved
<1>2. flatly \in Config /\ Shaped(flatly)
  <2>1. Default \in Config /\ Full \in Nat
    BY DEF Default, Config, Full
  <2>2. flatly \in Config
    BY <2>1 DEF Config
  <2>3. /\ flatly.lr = 1 /\ flatly.min_lr_ratio = Full /\ flatly.start_step = 0
        /\ flatly.plateau_scale = Full /\ flatly.warmup_steps = 200
    BY DEF Default
  <2> QED
    BY <2>2, <2>3 DEF Shaped, Full
<1>3. from_checkpoint(c) =
         IF c.planned_steps > 0
         THEN [flatly EXCEPT !.total_steps = c.planned_steps, !.warmup_steps = warmup,
                             !.plateau_scale = c.plateau_scale]
         ELSE [flatly EXCEPT !.total_steps = 2000, !.warmup_steps = 20]
  BY DEF from_checkpoint
<1>4. from_checkpoint(c).lr = flatly.lr /\ from_checkpoint(c).start_step = flatly.start_step
      /\ from_checkpoint(c).min_lr_ratio = flatly.min_lr_ratio
      /\ from_checkpoint(c).warmup_steps \in {warmup, 20}
      /\ from_checkpoint(c).plateau_scale \in {c.plateau_scale, flatly.plateau_scale}
  BY <1>2, <1>3 DEF Config
<1> QED
  BY <1>1, <1>2, <1>4 DEF Shaped

-----------------------------------------------------------------------------
\* The inductive invariant of the rates.
Ordered ==
    /\ Shaped(train) /\ step \in 0 .. MaxStep /\ flat \in 0 .. Patience
    /\ running \in BOOLEAN /\ sources \in BOOLEAN
    /\ stored # None => stored.step \in 0 .. MaxStep /\ stored.plateau_scale \in 50 .. Full

RateInv == RunInv /\ Ordered

\* It holds of a page that has just opened.
LEMMA RateInvInit == Init => RateInv
<1> SUFFICES ASSUME Init PROVE RateInv
  OBVIOUS
<1>1. Shaped(train)
  BY DEF Init, Default, Shaped, Full
<1> QED
  <2>1. /\ step = 0 /\ flat = 0 /\ running = FALSE /\ sources = FALSE /\ stored = None
        /\ RunInv
    BY RunInvInit DEF Init
  <2>2. 0 \in 0 .. MaxStep /\ 0 \in 0 .. Patience
    BY ScheduleAssumption
  <2> QED
    BY <1>1, <2>1, <2>2 DEF RateInv, Ordered

\* Every step keeps it.
LEMMA RateInvNext == RateInv /\ [Next]_vars => RateInv'
<1> SUFFICES ASSUME RateInv, [Next]_vars PROVE RateInv'
  OBVIOUS
<1>1. /\ train \in Config /\ live \in Setting /\ Ordered /\ RunInv'
      /\ (stored # None => stored \in Saved) /\ MaxStep \in Nat /\ Patience \in Nat
  BY RunInvNext, ScheduleAssumption DEF RateInv, RunInv, Typed
<1>2. Shaped(train)
  BY <1>1 DEF Ordered
<1>0. /\ step < MaxStep => step + 1 \in 0 .. MaxStep
      /\ flat \in 0 .. Patience /\ 0 \in 0 .. Patience
      /\ AtMost(0, Patience) \in 0 .. Patience /\ AtMost(flat + 1, Patience) \in 0 .. Patience
  BY <1>1 DEF Ordered, AtMost
<1> SUFFICES Ordered'
  BY <1>1 DEF RateInv
<1>3. ASSUME NEW s \in Settings, Train(s) PROVE Ordered'
  <2>1. s \in Setting /\ applyLiveSettings(s)
    BY <1>3, ScheduleAssumption DEF Train, Setting
  <2>2. Shaped(train')
    BY <1>1, <1>2, <2>1, SettingsKeepShape
  <2> QED
    BY <1>1, <1>3, <2>2 DEF Train, Ordered
<1>4. ASSUME NEW s \in Settings, Update(s) PROVE Ordered'
  <2>1. s \in Setting /\ applyLiveSettings(s)
    BY <1>4, ScheduleAssumption DEF Update, Setting
  <2>2. Shaped(train')
    BY <1>1, <1>2, <2>1, SettingsKeepShape
  <2> QED
    BY <1>1, <1>4, <2>2 DEF Update, Ordered
<1>5. ASSUME NEW rate \in Rates, UpdateRate(rate) PROVE Ordered'
  <2>1. Shaped(train')
    BY <1>1, <1>2, <1>5, ScheduleAssumption, RateKeepsShape DEF UpdateRate
  <2> QED
    BY <1>1, <1>5, <2>1 DEF UpdateRate, Ordered
<1>6. ASSUME NEW measured \in {"not due", "better", "flat"}, Step(measured) PROVE Ordered'
  <2>1. /\ step < MaxStep /\ step' = step + 1 /\ UNCHANGED <<running, sources, stored>>
        /\ train' = train \/ train' = decay_on_plateau(train)
    BY <1>6 DEF Step
  <2>2. \/ flat' = flat \/ flat' = 0
        \/ flat' = AtMost(0, Patience) \/ flat' = AtMost(flat + 1, Patience)
    BY <1>6 DEF Step
  <2>3. flat' \in 0 .. Patience
    BY <1>0, <2>2, Zenon
  <2>4. step' \in 0 .. MaxStep
    BY <1>0, <2>1, Zenon
  <2>5. Shaped(train')
    BY <1>1, <1>2, <2>1, CutsKeepShape
  <2> QED
    BY <1>1, <2>1, <2>3, <2>4, <2>5 DEF Ordered
<1>7. CASE StopRun
  BY <1>1, <1>7 DEF StopRun, Ordered
<1>8. CASE ResetSchedule
  BY <1>1, <1>2, <1>8, CutsKeepShape DEF ResetSchedule, Ordered
<1>9. CASE ChangeSources
  BY <1>1, <1>2, <1>9, CutsKeepShape DEF ChangeSources, Ordered
<1>10. CASE syncAllSources
  BY <1>1, <1>2, <1>10, CutsKeepShape DEF syncAllSources, Ordered
<1>11. CASE Save
  <2>1. stored'.step = step /\ stored'.plateau_scale = train.plateau_scale
    BY <1>11 DEF Save
  <2> QED
    BY <1>1, <1>11, <2>1 DEF Save, Ordered, Shaped
<1>12. CASE Load
  <2>1. stored \in Saved /\ stored.step \in 0 .. MaxStep /\ stored.plateau_scale \in 50 .. Full
    BY <1>1, <1>12 DEF Load, Ordered
  <2>2. Shaped(train') /\ step' \in 0 .. MaxStep
    BY <1>12, <2>1, CheckpointsHaveShape DEF Load
  <2> QED
    <3>1. 0 \in 0 .. Patience
      BY <1>1
    <3>2. flat' = 0 /\ running' = FALSE /\ UNCHANGED <<sources, stored>>
      BY <1>12 DEF Load
    <3> QED
      BY <1>1, <2>1, <2>2, <3>1, <3>2 DEF Ordered
<1>13. CASE CreateModel
  <2>1. Shaped(train')
    BY <1>13 DEF CreateModel, Default, Shaped, Full
  <2> QED
    BY <1>1, <1>13, <2>1 DEF CreateModel, Ordered
<1>14. ASSUME NEW planned \in {0, 40}, NEW scale \in {50, Full}, NEW steps \in {0, MaxStep},
              ImportCheckpoint(planned, scale, steps)
       PROVE  Ordered'
  <2>1. planned \in Nat /\ scale \in 50 .. Full /\ steps \in 0 .. MaxStep
    BY <1>1 DEF Full
  <2> PICK warmup : warmup = warmup_for(planned)
    OBVIOUS
  <2>2. warmup \in Nat /\ warmup <= 200
    BY <2>1, WarmupIsNat, WarmupIsShort
  <2>3. \/ train' = train
        \/ train' = [train EXCEPT !.start_step = 0, !.total_steps = planned,
                                  !.warmup_steps = warmup, !.plateau_scale = scale]
    BY <1>14 DEF ImportCheckpoint, import_checkpoint
  <2>4. Shaped(train')
    BY <1>1, <1>2, <2>1, <2>2, <2>3, ZenonT(60) DEF Shaped, Config
  <2> QED
    BY <1>1, <1>14, <2>1, <2>4 DEF ImportCheckpoint, Ordered
<1>15. CASE UNCHANGED vars
  BY <1>1, <1>15 DEF vars, Ordered
<1> QED
  BY <1>3, <1>4, <1>5, <1>6, <1>7, <1>8, <1>9, <1>10, <1>11, <1>12, <1>13, <1>14, <1>15, ZenonT(60)
     DEF Next

\* Whatever plan, shape, strategy and cut have come together, after its
\* warmup the rate falls, and it is between the floor and the peak
\* (train.rs lr_at, decayed_ratio).
THEOREM RatesFallAfterWarmup == Spec => []RateFallsAfterWarmup
<1>1. RateInv => RateFallsAfterWarmup
  <2> SUFFICES ASSUME RateInv PROVE RateFallsAfterWarmup
    OBVIOUS
  <2>1. train \in Config /\ live \in Setting /\ Ordered /\ Shaped(train)
    BY DEF RateInv, RunInv, Typed, Ordered
  <2>2. TypeOK
    <3>1. /\ train.lr \in Nat \ {0} /\ train.plateau_scale \in 50 .. Full
          /\ train.min_lr_ratio \in {100, Full} /\ train.schedule \in {"wsd", "cosine"}
      BY <2>1 DEF Shaped, Config
    <3>2. live.mode \in {"wsd", "cosine", "cosine-cuts"}
      BY <2>1 DEF Setting
    <3>3. step \in 0 .. MaxStep /\ {running, sources} \subseteq BOOLEAN /\ flat \in 0 .. Patience
      BY <2>1 DEF Ordered
    <3> QED
      BY <3>1, <3>2, <3>3 DEF TypeOK
  <2>3. ASSUME NEW s \in Corners(train)
        PROVE  /\ 0 < lr_at(train, s) /\ lr_at(train, s) <= train.lr * Full * Full
               /\ s >= train.warmup_steps =>
                      /\ lr_at(train, s) >= train.lr * train.min_lr_ratio * train.plateau_scale
                      /\ lr_at(train, s + 1) <= lr_at(train, s)
    <3>1. s \in Nat /\ train.warmup_steps \in Nat
      BY <2>1 DEF Corners, Config
    <3>2. 0 < lr_at(train, s) /\ lr_at(train, s) <= train.lr * Full * Full
      BY <2>1, <3>1, RatesAreBounded
    <3>3. CASE train.warmup_steps <= s
      <4>1. /\ train.lr * train.min_lr_ratio * train.plateau_scale <= lr_at(train, s)
            /\ lr_at(train, s + 1) <= lr_at(train, s)
        BY <2>1, <3>1, <3>3, RatesFall
      <4> PICK floor : floor = train.lr * train.min_lr_ratio * train.plateau_scale
        OBVIOUS
      <4>2. lr_at(train, s) >= floor
        BY <4>1
      <4> QED
        BY <3>2, <4>1, <4>2
    <3>4. CASE ~ (train.warmup_steps <= s)
      BY <3>1, <3>2, <3>4
    <3> QED
      BY <3>3, <3>4
  <2> QED
    BY <2>2, <2>3 DEF RateFallsAfterWarmup
<1> QED
  BY <1>1, RateInvInit, RateInvNext, PTL DEF Spec
=============================================================================
