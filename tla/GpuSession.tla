------------------------------ MODULE GpuSession ------------------------------
(***************************************************************************)
(* One WasmLLM object (crates/wasm-app) and the asynchronous calls the     *)
(* worker's message handlers have in flight on it.                         *)
(*                                                                         *)
(* The trained weights exist in up to three places: the host-side copy,    *)
(* the resident GpuTrainer, and the GpuModel generation decodes with.  A   *)
(* guarded call sets `busy`, moves the trainer (or the decoder) out of     *)
(* `gpu`, awaits the device, and puts it back.  Calls interleave at their  *)
(* awaits, so a call is one action up to its await and one after it.       *)
(*                                                                         *)
(* Weights are abstracted to versions: every optimizer update, import and  *)
(* vocabulary rebuild makes a new one, and so does timing the kernels on a *)
(* trainer whose own step counter is zero.  Calls that are refused or      *)
(* return early without changing anything are stuttering steps.            *)
(***************************************************************************)
EXTENDS Naturals

CONSTANTS Callers,     \* message handlers that may be in flight at once
          NoWeights,        \* an empty Option
          MaxVersion,  \* bound on the weight versions made
          MaxStep      \* bound on the step counter

ASSUME SessionAssumption ==
    /\ MaxVersion \in Nat
    /\ MaxStep \in Nat
    /\ NoWeights \notin Nat

VARIABLES
    busy,        \* Inner.busy
    host,        \* version of Inner.weights
    step,        \* Inner.step
    tokensSeen,  \* Inner.tokens_seen, in batches since the model was loaded
    pretrained,  \* Inner.pretrained
    open,        \* Inner.gpu.is_some()
    trainer,     \* gpu.trainer: version of its weights, or NoWeights
    decoder,     \* gpu.model: version of its weights, or NoWeights
    uploadedAt,  \* gpu.uploaded_at_step
    warm,        \* the trainer's own step counter is above zero
    pc,          \* where each caller is
    held,        \* what each caller moved or cloned out: a version, or NoWeights
    saved,       \* the last checkpoint exported: its weights and its step
    newest,      \* history: version of the weights made last
    uncounted,   \* history: the newest version came with no step, and none came since
    updates      \* history: optimizer updates since the model was loaded

backend == <<open, trainer, decoder, uploadedAt, warm>>
counters == <<step, tokensSeen, updates, newest, uncounted>>
sessionVars == <<busy, host, pretrained, backend, pc, held, saved, counters>>

Version == 0 .. MaxVersion
Option == Version \cup {NoWeights}

\* Phases in which a caller has moved the trainer out of `gpu`.
TrainerPhases == {"training", "profiling", "benchmarking", "measuring", "kernels",
                  "syncing", "exporting", "preparing"}
\* Phases entered through `acquire` and left through `release`.
Guarded == TrainerPhases \cup {"opening", "decoding", "fallback"}
Phases == Guarded \cup {"idle", "cpu"}

SessionTypeOK ==
    /\ busy \in BOOLEAN /\ open \in BOOLEAN /\ pretrained \in BOOLEAN
    /\ warm \in BOOLEAN /\ uncounted \in BOOLEAN
    /\ host \in Version /\ newest \in Version
    /\ step \in 0 .. MaxStep /\ uploadedAt \in 0 .. MaxStep
    /\ tokensSeen \in Nat /\ updates \in Nat
    /\ trainer \in Option /\ decoder \in Option
    /\ pc \in [Callers -> Phases]
    /\ held \in [Callers -> Option]
    /\ saved \in [weights : Option, step : 0 .. MaxStep]

\* create-model has constructed the object and, in the same turn, called
\* init_gpu on it.
SessionInit ==
    /\ busy = TRUE /\ host = 0 /\ step = 0 /\ tokensSeen = 0
    /\ pretrained = FALSE
    /\ open = FALSE /\ trainer = NoWeights /\ decoder = NoWeights /\ uploadedAt = 0
    /\ warm = FALSE /\ uncounted = FALSE
    /\ \E c \in Callers :
          /\ pc = [d \in Callers |-> IF d = c THEN "opening" ELSE "idle"]
          /\ held = [d \in Callers |-> IF d = c THEN 0 ELSE NoWeights]
    /\ saved = [weights |-> NoWeights, step |-> 0]
    /\ newest = 0 /\ updates = 0

----------------------------------------------------------------------------
(* The guard, and what moving a value out of `gpu` and back does.          *)

\* acquire(): whoever asks second is told no.
Acquire(c, phase, value) ==
    /\ ~busy
    /\ busy' = TRUE
    /\ pc' = [pc EXCEPT ![c] = phase]
    /\ held' = [held EXCEPT ![c] = value]

\* release(), at the end of the call.
Release(c) ==
    /\ busy' = FALSE
    /\ pc' = [pc EXCEPT ![c] = "idle"]
    /\ held' = [held EXCEPT ![c] = NoWeights]

\* A guarded call that goes on to its next await.
Continue(c, phase, value) ==
    /\ pc' = [pc EXCEPT ![c] = phase]
    /\ held' = [held EXCEPT ![c] = value]
    /\ UNCHANGED busy

CloseGpu ==
    /\ open' = FALSE /\ trainer' = NoWeights /\ decoder' = NoWeights /\ uploadedAt' = 0
    /\ warm' = FALSE

\* gpu.trainer.take(), building a trainer from the host weights if there
\* is none yet.  A new trainer counts its own steps from zero.
TrainerOrNew == IF trainer = NoWeights THEN host ELSE trainer

TakeTrainer(c, phase) ==
    /\ Acquire(c, phase, TrainerOrNew)
    /\ trainer' = NoWeights
    /\ warm' = (warm /\ trainer # NoWeights)
    /\ UNCHANGED <<open, decoder, uploadedAt>>

\* Mutant of PutBack: a way out of a call that drops the trainer.
PutBackNothing(version) == UNCHANGED trainer

\* `if let Some(gpu) = inner.gpu.as_mut() { gpu.trainer = Some(trainer) }`
PutBack(version) == trainer' = IF open THEN version ELSE NoWeights

\* One optimizer update made `newest + 1`.
NewVersion == newest + 1
MakeVersion == newest < MaxVersion /\ newest' = NewVersion

----------------------------------------------------------------------------
(* init_gpu: clone the host weights, await a device, upload them.          *)
(* It is called right after the model was created, imported or rebuilt, in *)
(* the same turn of the event loop, so nothing comes between the two.      *)

OpenDone(c) ==
    /\ pc[c] = "opening"
    /\ Release(c)
    /\ \/ /\ open' = TRUE /\ decoder' = held[c]
          /\ trainer' = NoWeights /\ uploadedAt' = step /\ warm' = FALSE
       \/ UNCHANGED backend          \* unsupported shape, no device, no memory
    /\ UNCHANGED <<host, pretrained, saved, counters>>

----------------------------------------------------------------------------
(* Steps that train.                                                       *)

\* train_step up to its await: refused without a device.
TrainStart(c) ==
    /\ pc[c] = "idle" /\ open
    /\ TakeTrainer(c, "training")
    /\ UNCHANGED <<host, pretrained, saved, counters>>

\* GpuTrainer::train_step fails only before it submits Adam.
TrainDone(c) ==
    /\ pc[c] = "training"
    /\ Release(c)
    /\ \/ /\ MakeVersion /\ step < MaxStep
          /\ PutBack(NewVersion)
          /\ step' = step + 1 /\ warm' = TRUE /\ uncounted' = FALSE
          /\ tokensSeen' = tokensSeen + 1 /\ updates' = updates + 1
       \/ PutBack(held[c]) /\ UNCHANGED <<warm, counters>>
    /\ UNCHANGED <<host, pretrained, open, decoder, uploadedAt, saved>>

ProfileStart(c) ==
    /\ pc[c] = "idle" /\ open /\ step < MaxStep
    /\ TakeTrainer(c, "profiling")
    /\ UNCHANGED <<host, pretrained, saved, counters>>

\* Mutant of ProfileDone: a profiled step is not counted.
ProfileDoneUncounted(c) ==
    /\ pc[c] = "profiling"
    /\ Release(c)
    /\ MakeVersion /\ PutBack(NewVersion) /\ updates' = updates + 1
    /\ warm' = TRUE
    /\ UNCHANGED <<uncounted, step, tokensSeen, host, pretrained, open, decoder, uploadedAt, saved>>

\* profile_step counts a step whether or not it failed, may fail on either
\* side of its Adam pass, and never adds to tokens_seen.  The trainer's own
\* counter moves just before that pass.
ProfileDone(c) ==
    /\ pc[c] = "profiling"
    /\ Release(c)
    /\ step' = step + 1 /\ uncounted' = FALSE
    /\ \/ /\ MakeVersion
          /\ PutBack(NewVersion)
          /\ updates' = updates + 1 /\ warm' = TRUE
       \/ PutBack(held[c]) /\ warm' = warm /\ UNCHANGED <<newest, updates>>
    /\ UNCHANGED <<tokensSeen, host, pretrained, open, decoder, uploadedAt, saved>>

----------------------------------------------------------------------------
(* Calls that measure.  bench_step builds the trainer if there is none; the *)
(* others need one: validation_loss, training_probe_loss,                  *)
(* debug_compare_forward and export_optimizer, which read it, and          *)
(* profile_kernels.                                                        *)

MeasureStart(c, phase) ==
    /\ pc[c] = "idle" /\ open
    /\ phase = "benchmarking" \/ trainer # NoWeights
    /\ TakeTrainer(c, phase)
    /\ UNCHANGED <<host, pretrained, saved, counters>>

\* A step at rate zero leaves the weights as they are.  The trainer's own
\* counter is put back, but not when the wait after the step fails.
BenchDone(c) ==
    /\ pc[c] = "benchmarking"
    /\ Release(c)
    /\ PutBack(held[c])
    /\ warm' \in {warm, TRUE}
    /\ UNCHANGED <<host, pretrained, open, decoder, uploadedAt, saved, counters>>

MeasureDone(c) ==
    /\ pc[c] = "measuring"
    /\ Release(c)
    /\ PutBack(held[c])
    /\ UNCHANGED <<host, pretrained, open, decoder, uploadedAt, warm, saved, counters>>

\* profile_kernels encodes the Adam kernel at rate zero and at the trainer's
\* own step.  At step zero its bias corrections are zero, and what they
\* divide turns the weights to NaN: a new version, with no step counted.
\* Weights that are NaN already stay so.
KernelsDone(c) ==
    /\ pc[c] = "kernels"
    /\ Release(c)
    /\ \/ PutBack(held[c]) /\ UNCHANGED <<newest, uncounted>>
       \/ /\ ~warm /\ ~uncounted
          /\ MakeVersion
          /\ PutBack(NewVersion)
          /\ uncounted' = TRUE
    /\ UNCHANGED <<host, pretrained, open, decoder, uploadedAt, warm, saved,
                   step, tokensSeen, updates>>

\* import_optimizer never awaits: it leaves a trainer in place, built from
\* the host weights when there was none.  The step it has is the file's, or
\* its own when the file is refused.
ImportOptimizer(c) ==
    /\ pc[c] = "idle" /\ open /\ ~busy
    /\ PutBack(TrainerOrNew)
    /\ warm' \in BOOLEAN
    /\ UNCHANGED <<busy, pc, held, host, pretrained, open, decoder, uploadedAt, saved, counters>>
----------------------------------------------------------------------------
(* sync_from_gpu_inner, on behalf of sync_from_gpu, export_checkpoint and  *)
(* generate.                                                               *)

\* Mutant of SyncNotNeeded: the comparison the wrong way round.
SyncNeverNeeded == ~open \/ uploadedAt <= step \/ trainer = NoWeights

\* The early return: nothing on the GPU is newer than what was uploaded.
SyncNotNeeded == ~open \/ uploadedAt = step \/ trainer = NoWeights

\* write_checkpoint, from borrowed parts and with no await before it.
WriteCheckpoint(weights) == saved' = [weights |-> weights, step |-> step]

SyncStart(c, phase) ==
    /\ pc[c] = "idle" /\ ~SyncNotNeeded
    /\ TakeTrainer(c, phase)
    /\ UNCHANGED <<host, pretrained, saved, counters>>

\* Mutant of Downloaded: the decoder keeps the weights it had.
DownloadedHostOnly(c) ==
    /\ PutBack(held[c])
    /\ host' = held[c] /\ pretrained' = TRUE
    /\ uploadedAt' = step /\ uncounted' = FALSE
    /\ UNCHANGED <<decoder, open, warm>>

\* download_weights and the upload both succeeded: the host copy and the
\* decoder are replaced together.
Downloaded(c) ==
    /\ PutBack(held[c])
    /\ host' = held[c] /\ pretrained' = TRUE
    /\ decoder' = held[c] /\ uploadedAt' = step
    /\ uncounted' = FALSE
    /\ UNCHANGED <<open, warm>>

NotDownloaded(c) ==
    /\ PutBack(held[c])
    /\ UNCHANGED <<host, pretrained, decoder, uploadedAt, open, warm, uncounted>>

SyncDone(c) ==
    /\ pc[c] = "syncing"
    /\ Release(c)
    /\ Downloaded(c) \/ NotDownloaded(c)
    /\ UNCHANGED <<saved, step, tokensSeen, updates, newest>>

ExportNow(c) ==
    /\ pc[c] = "idle" /\ ~busy /\ SyncNotNeeded
    /\ WriteCheckpoint(host)
    /\ UNCHANGED <<busy, pc, held, host, pretrained, backend, counters>>

\* A failed sync fails the export; nothing is written.
ExportDone(c) ==
    /\ pc[c] = "exporting"
    /\ Release(c)
    /\ \/ Downloaded(c) /\ WriteCheckpoint(held[c])
       \/ NotDownloaded(c) /\ UNCHANGED saved
    /\ UNCHANGED <<step, tokensSeen, updates, newest>>

----------------------------------------------------------------------------
(* generate.                                                               *)

\* Mutant of GenerateNow: any open device will do.
GenerateNowStale(c) ==
    /\ pc[c] = "idle"
    /\ open
    /\ Acquire(c, "decoding", decoder)
    /\ decoder' = NoWeights
    /\ UNCHANGED <<open, trainer, uploadedAt, warm, host, pretrained, saved, counters>>

\* With the GPU preferred and nothing to sync: decode with what is uploaded
\* if it is current, and otherwise finish on the CPU from the host weights.
GenerateNow(c) ==
    /\ pc[c] = "idle" /\ SyncNotNeeded
    /\ IF open /\ uploadedAt = step
       THEN /\ Acquire(c, "decoding", decoder)
            /\ decoder' = NoWeights /\ UNCHANGED <<open, trainer, uploadedAt, warm>>
       ELSE Acquire(c, "fallback", host) /\ UNCHANGED backend
    /\ UNCHANGED <<host, pretrained, saved, counters>>

\* The sync generate waited for has ended; its error is ignored.  The fresh
\* decoder goes straight into the generation's hands.
PrepareDone(c) ==
    /\ pc[c] = "preparing"
    /\ PutBack(held[c])
    /\ \/ /\ host' = held[c] /\ pretrained' = TRUE
          /\ uploadedAt' = step /\ decoder' = NoWeights
          /\ uncounted' = FALSE
          /\ Continue(c, "decoding", held[c])
       \/ /\ Continue(c, "fallback", host)
          /\ UNCHANGED <<host, pretrained, decoder, uploadedAt, uncounted>>
    /\ UNCHANGED <<open, warm, saved, step, tokensSeen, updates, newest>>

DecodeDone(c) ==
    /\ pc[c] = "decoding" /\ held[c] # NoWeights
    /\ Release(c)
    /\ decoder' = held[c]
    /\ UNCHANGED <<open, trainer, uploadedAt, warm, host, pretrained, saved, counters>>

\* A lost device or a failed kernel: the whole backend is dropped, with the
\* trainer in it, and the generation finishes on the CPU.
DecodeFailed(c) ==
    /\ pc[c] = "decoding"
    /\ CloseGpu
    /\ Continue(c, "fallback", host)
    /\ UNCHANGED <<host, pretrained, saved, counters>>

FallbackDone(c) ==
    /\ pc[c] = "fallback"
    /\ Release(c)
    /\ UNCHANGED <<host, pretrained, backend, saved, counters>>

\* With the CPU preferred: no guard, a clone of the host weights.
CpuStart(c) ==
    /\ pc[c] = "idle"
    /\ pc' = [pc EXCEPT ![c] = "cpu"]
    /\ held' = [held EXCEPT ![c] = host]
    /\ UNCHANGED <<busy, host, pretrained, backend, saved, counters>>

CpuDone(c) ==
    /\ pc[c] = "cpu"
    /\ pc' = [pc EXCEPT ![c] = "idle"]
    /\ held' = [held EXCEPT ![c] = NoWeights]
    /\ UNCHANGED <<busy, host, pretrained, backend, saved, counters>>

----------------------------------------------------------------------------
(* Replacing the model.                                                    *)

\* import_checkpoint, guarded but synchronous; its handler then opens a
\* device for the new model.
Import(c, atStep) ==
    /\ pc[c] = "idle"
    /\ MakeVersion
    /\ host' = NewVersion /\ step' = atStep /\ pretrained' = TRUE
    /\ tokensSeen' = 0 /\ updates' = 0 /\ uncounted' = FALSE
    /\ CloseGpu
    /\ Acquire(c, "opening", NewVersion)
    /\ UNCHANGED saved

\* learn_vocabulary: refused for a trained model.  The handler opens a new
\* device only when the vocabulary's size changed.
LearnVocabulary(c, sizeChanged) ==
    /\ pc[c] = "idle" /\ ~busy
    /\ step = 0 /\ ~pretrained
    /\ MakeVersion
    /\ host' = NewVersion /\ uncounted' = FALSE
    /\ CloseGpu
    /\ IF sizeChanged THEN Acquire(c, "opening", NewVersion) ELSE UNCHANGED <<busy, pc, held>>
    /\ UNCHANGED <<pretrained, saved, step, tokensSeen, updates>>

----------------------------------------------------------------------------
Start(c) ==
    \/ TrainStart(c) \/ ProfileStart(c)
    \/ \E phase \in {"benchmarking", "measuring", "kernels"} : MeasureStart(c, phase)
    \/ ImportOptimizer(c)
    \/ \E phase \in {"syncing", "exporting", "preparing"} : SyncStart(c, phase)
    \/ ExportNow(c) \/ GenerateNow(c) \/ CpuStart(c)
    \/ \E atStep \in 0 .. MaxStep : Import(c, atStep)
    \/ \E sizeChanged \in BOOLEAN : LearnVocabulary(c, sizeChanged)

Finish(c) ==
    \/ OpenDone(c) \/ TrainDone(c) \/ ProfileDone(c)
    \/ BenchDone(c) \/ MeasureDone(c) \/ KernelsDone(c)
    \/ SyncDone(c) \/ ExportDone(c) \/ PrepareDone(c)
    \/ DecodeDone(c) \/ DecodeFailed(c) \/ FallbackDone(c) \/ CpuDone(c)

SessionNext == \E c \in Callers : Start(c) \/ Finish(c)

SessionSpec == SessionInit /\ [][SessionNext]_sessionVars

----------------------------------------------------------------------------
(* Properties.                                                             *)

TrainerHolders == {c \in Callers : pc[c] \in TrainerPhases}

\* The guard admits one call at a time and every way out of a call gives it
\* back: `busy` is set exactly while one caller is in a guarded phase, and
\* the trainer that caller holds is not also in `gpu` (no second copy of
\* the training state is ever built).
OneOwner ==
    /\ \A c, d \in Callers : pc[c] \in Guarded /\ pc[d] \in Guarded => c = d
    /\ busy <=> \E c \in Callers : pc[c] \in Guarded
    /\ \A c \in TrainerHolders : trainer = NoWeights /\ held[c] # NoWeights

\* What there is to hand out: the newest weights, but for those the timing of
\* the kernels turned to NaN with no step counted.  Nothing carries them to
\* the host or to the decoder until the step has moved past the last upload.
Handed == IF uncounted THEN newest - 1 ELSE newest

\* Whatever fails, is dropped, or is interrupted between two calls, the
\* newest weights are still somewhere: on the host, in the resident
\* trainer, or in the hands of the call that will put the trainer back.
\* Only weights made with no step can go, with the backend.
NewestNeverLost ==
    \/ host = newest
    \/ open /\ trainer = newest
    \/ open /\ \E c \in TrainerHolders : held[c] = newest
    \/ uncounted /\ ~open /\ host = Handed

\* A generation on the GPU decodes with the newest weights there are to hand
\* out, however many steps were trained since the last upload.
DecodesNewest ==
    \A c \in Callers : pc[c] = "decoding" => held[c] = Handed

\* A checkpoint carries the newest weights there are to hand out and the
\* step they are at: it is never written from a host copy that a step on
\* the GPU has moved past.
ExportsNewest ==
    [][saved' # saved => saved'.weights = Handed' /\ saved'.step = step]_sessionVars

\* Where the model's weights are: with the call that has the trainer, else
\* in the resident trainer, else on the host; and whether they came with no
\* step.
Current ==
    IF TrainerHolders # {} THEN held[CHOOSE c \in TrainerHolders : TRUE]
    ELSE IF trainer # NoWeights THEN trainer
    ELSE host

Decoders == {c \in Callers : pc[c] = "decoding"}
Serving == IF Decoders = {} THEN NoWeights ELSE held[CHOOSE c \in Decoders : TRUE]

Spoilt == uncounted /\ open

Promise == INSTANCE ModelPromise WITH None <- NoWeights, current <- Current,
                                     spoilt <- Spoilt, serving <- Serving

\* Three copies of the weights, moved about by calls that interleave and
\* fail, behave like the one model ModelPromise describes.
KeepsPromise == Promise!Spec

\* The inductive invariant.  `newest` is where the phase of the guarded call
\* and the step of the last upload say it is.  An upload made at the current
\* step is of the weights there are to hand out: whatever changes the weights
\* of an open backend also advances the step, but for the kernels timed on a
\* trainer at its own step zero, whose weights stay in that trainer.
Uploaded(version) == decoder = version \/ \E c \in Decoders : held[c] = version

Placement ==
    /\ \A c \in TrainerHolders : open /\ held[c] = newest
    /\ trainer \in {NoWeights, newest}
    /\ trainer = NoWeights /\ TrainerHolders = {} => host = Handed /\ (open => ~uncounted)
    /\ ~open => trainer = NoWeights /\ decoder = NoWeights /\ uploadedAt = 0
    /\ uploadedAt <= step
    /\ open /\ uploadedAt = step => host = Handed /\ Uploaded(Handed)
    /\ \A c \in Decoders : open /\ uploadedAt = step /\ held[c] = Handed
    /\ \A c \in Callers : pc[c] = "opening" => ~open /\ ~uncounted /\ held[c] = newest
    /\ \A c \in Callers : pc[c] = "profiling" => step < MaxStep
    /\ uncounted => newest > 0
    /\ step = 0 => updates = 0

IInv == SessionTypeOK /\ OneOwner /\ Placement

\* Learning a vocabulary throws the weights away; it never does so to a
\* model that has had an update.
LearningLosesNothing ==
    [][(\E c \in Callers, b \in BOOLEAN : LearnVocabulary(c, b)) => updates = 0]_sessionVars

=============================================================================
