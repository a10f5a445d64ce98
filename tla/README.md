# A verification development of scriptonait

scriptonait trains and runs a small language model in the browser: a Rust model
compiled to WebAssembly and WebGPU, driven by a worker, shown by a page, and
optionally trained on a remote server that owns a native GPU.  The arithmetic of
the model is covered by gradient tests in the repository.  What tests hardly
reach is everything around it: calls that interleave at their awaits and share
one set of weights, a training loop that must survive collisions and hear a
stop, two pages competing for a server that trains for one of them at a time,
and a page that saves the model while it changes.  That is what these TLA+
modules model, TLC checks on small instances, and TLAPS proves where a proof for
every value of the constants is worth having.  Three things inside the model are
of the same kind and are modelled too: which keys a token attends to when its
text outgrows its window, which buffer of the GPU holds what when a command runs,
and which window of which source comes next.

All paths below are relative to `src/`; line numbers are those of this commit.

## The system and its parts

| Part | State it keeps | Operations | Talks to | Correct when |
| --- | --- | --- | --- | --- |
| Model session, `WasmLLM` (`crates/wasm-app/src`) | `Inner`: host weights, `step`, `tokens_seen`, `pretrained`, `busy`, `gpu` (trainer, decoder, `uploaded_at_step`) | train, profile, measure, import and export optimizer or checkpoint, sync, generate, learn a vocabulary, open a device | called by the worker's handlers, several in flight | the newest weights exist in one place that no failure loses; what is decoded or exported is the newest |
| Worker (`frontend/worker.js`) | `llm`, `training`, `stopRequested`, `live` settings, next validate/save/sample step | one handler per message; `train()` is the long one | page (messages), model session (calls) | one run at a time; a run stops when told or planned, on the step; a collision never ends it; cadences stay on their grid |
| Page (`frontend/app.js`) | `training`, `model`, settings, what autosave is doing | buttons, live settings, save, autosave, New/Import/Export Project, restore | worker or remote backend, IndexedDB | what it says about a run is true; what is stored catches up with what was to be saved |
| Stores (`frontend/db.js`) | sources, history, models, settings | get, put, clear, replace all | page | records are not lost between transactions |
| Local backend (`frontend/backend/local-wasm-backend.js`) | request table with timeouts | request, reply, push messages | page, worker | each request settles once |
| Remote backend (`frontend/backend/remote-backend.js`) | `sessionId`, `lastSyncStep`, event stream | start, stop, sync, delete, events | page, server over HTTP and SSE | every await settles; the final weights come home; the server keeps nothing of a finished run |
| Training server (`crates/llm-server/src`) | sessions, next name, the run, command channel, event registry | create, start, stop, checkpoint, delete, events, health | pages over HTTP; one thread owns the GPU | every command is answered; a stop ends its run; checkpoints are consistent |
| Corpus and sampling (`crates/llm-core/src/corpus*`) | sources, rotation, per-source cursors | add, remove, draw a window, progress | model session | every window of every source is drawn once per pass |
| Schedule and plateau (`crates/llm-core/src/train.rs`, the worker's detector) | `TrainConfig`, measurements without improvement | rate at a step, set a plan, a mode, a rate, cut | model session, worker | phases join; a run follows the settings last applied |
| Tokenizer, generation, length guard, instruct (`crates/llm-core/src`) | merges; the cache and text of a generator; words counted, bytes pending | encode, decode, advance, observe, flush | model session | what is decoded is what was trained; the page is shown the answer's text |
| Model mathematics, checkpoints, text preparation (`crates/llm-core/src`) | weights, KV cache | forward, backward, Adam, read and write | model session, server | numerically right; a file read is the file written |
| GPU trainer and shaders (`crates/llm-gpu`, `crates/shader-check`) | device buffers, a pool of parameter blocks, an encoder | a step, a benchmark or profile of one, evaluate, decode, download | model session, server | every buffer holds what the host's arithmetic would give |

How they interact:

- **Shared state.** Every handler of the worker works on one `WasmLLM`.  The
  handlers are `async`, so a handler's turn ends at each `await`; `Inner.busy` is
  the only thing that keeps two of them from using the trainer at once.  Whoever
  asks second is refused, not queued.
- **Messages.** The page posts requests to the worker; the worker answers, and
  also pushes `train-progress`, `train-autosave`, `train-sample` and
  `train-stopped` that answer nothing.  Both say that a run has ended.
- **HTTP.** Each request of a page becomes one command on the GPU thread's
  channel with a one-shot reply.  The thread reads the channel between commands
  and between training steps; during a run everything but a stop is refused.
  Events go round the thread, through a bounded broadcast channel per session.
- **Device.** The trainer and the decoder encode commands into submissions; a
  buffer write is not a command and overtakes what is still in an encoder, and
  all commands share one pool of parameter blocks.  Only a readback waits.
- **Storage.** `saveModel` at the end of a run and `autosave` during it both
  write the record `'current'`; New Project and Import Project clear or replace
  what is around it.

## What is hard here

1. *Interleaving at awaits.*  A call moves the trainer out of `gpu`, awaits a
   device, and puts it back, while other handlers run.
2. *Stale copies.*  The weights are in up to three places and which one is
   current is inferred from step numbers.
3. *One flag, several owners.*  `stopRequested`, `training` and `busy` are each
   set and cleared by several handlers.
4. *Refusal instead of waiting.*  Retried six times (autosave), once
   (`saveModel`), or never (the final checkpoint pull): what is lost when the
   refusal comes at the wrong moment?
5. *Order of messages.*  Requests of a page overtake one another on the network;
   the end of a run is broadcast once and a slow reader loses its oldest events.
6. *Failure of one step of several.*  A download that fails after a run, a start
   answered after its page has gone, a transaction refused by a full disk.
7. *Reused memory.*  One set of activations and scratch buffers serves every
   layer and sequence; a failed step leaves its gradients in them.
8. *Positions that start over.*  A cache is trimmed, a ring wraps, a context is
   reset in the middle of an answer.
9. *Loss of everything volatile.*  The server keeps sessions in memory only; a
   tab can go away between any two steps.

`PROJECT.json` lists these per line under `hazards`, with the properties that
cover each and, where none does, why.

## The modules

| Module | Models | Composed with |
| --- | --- | --- |
| `ModelPromise` | the abstract specification of a model session: one current set of weights, checkpoints of exactly those, generations nothing changes them under | implemented by `GpuSession` |
| `GpuSession` | `WasmLLM`: the guard, the three copies of the weights, every call that moves them | `ModelPromise` through a refinement mapping |
| `TrainingServer` | the GPU thread, channel, registry and process of `llm-server` | extended by `RemoteTraining` |
| `RemoteTraining` | pages, their remote backends and buttons, and the network, composed with the server | extends `TrainingServer` |
| `RemoteTrainingProofs` | proofs about the server and its pages | extends `RemoteTraining` |
| `WorkerLoop` | `train()` and the messages that share the worker, the stop flag and the guard with it; the page's buttons | stands alone; the guard is `GpuSession`'s, reduced to its holder |
| `WorkerLoopProofs` | proofs about `WorkerLoop` | extends it |
| `ModelStore` | `saveModel`, `autosave`, the stored record, New/Import Project, reload | stands alone; the worker is reduced to steps and the guard |
| `ModelStoreProofs` | proofs about `ModelStore` | extends it |
| `Schedule` | `TrainConfig`, every call that shapes it, the cuts of a plateau, what a checkpoint brings back | stands alone; the loop is reduced to its steps and measurements |
| `ScheduleProofs` | proofs about `Schedule` | extends it |
| `CorpusSampling` | sources, streams, rotation, passes, fixed sets, and the passes a page keeps | stands alone |
| `CorpusSamplingProofs` | proofs about `CorpusSampling` | extends it |
| `KvCache` | the keys a token attends to: the training pass, the host's cache, the GPU's ring | extended by `Generation` |
| `Generation` | one answer, on either device: generator, characters, length guard, cancelling, falling back | extends `KvCache` |
| `GenerationProofs` | proofs about `KvCache` and `Generation`, and about the session that answers, `GpuSession` | extends `Generation` and `GpuSession` |
| `HostMath` | the model's arithmetic as calls of named operations, forward and backward: the reference | extended by `GpuKernels` |
| `GpuKernels` | commands, encoder, parameter pool, and what each kernel does to the buffers | extends `HostMath` |
| `GpuPasses` | the buffers of the GPU and the passes as sequences of commands | extends `GpuKernels` |
| `GpuTraining` | the calls of `GpuTrainer` and `GpuGenModel` over that memory | extends `GpuPasses` |
| `GpuTrainingProofs` | proofs about `GpuTraining`: types, submissions, what a sequence of commands needs to be complete | extends it |
| `GpuHostProofs` | proofs that what `GpuTraining` computes is what `HostMath` does | extends `GpuTrainingProofs` |
| `MC*` | one per component: symmetry, settings and inputs TLC needs | |

### GpuSession

A guarded call of `WasmLLM` (`lib.rs:170-185`) is two or three actions: up to its
await, and after.  `pc[c]` says where caller `c` is, `held[c]` what it moved or
cloned out of `gpu`.  Weights are *versions*: each update, import or vocabulary
makes the next one, so "the newest" can be said.  `trainer`, `decoder` and
`host` are the versions in `gpu.trainer`, `gpu.model` and `Inner.weights`;
`uploadedAt` is `uploaded_at_step`.  `warm` says that the trainer's own step counter,
which a new trainer starts at zero and the session does not see, has left zero:
`profile_kernels` runs the optimizer at that counter, and at zero turns the weights
to NaN, a version made with no step (`KernelsDone`, and `uncounted` until a step or
a copy makes it like any other).  Failure is a disjunct of the closing action
(`NotDownloaded`, the second branch of `TrainDone`, `DecodeFailed`, which drops
the backend as `generate_inner` does).  `import_optimizer` never awaits and does
not take the guard; it is one action.  CPU generation (`CpuStart`) takes no guard
either and works on a clone.  `init_gpu` runs in the same turn as the call that
replaced the model, so `Import` and `LearnVocabulary` end in the phase `opening`.
Losses, corpora and the numbers in the weights are left out.  The corpus a call
samples, the schedule it reads and the answer it generates are modules of their
own.

### TrainingServer and RemoteTraining

`TrainingServer` has one action per command of `gpu_actor.rs::handle`, one per
way the training loop can go on (`TrainStep`, `Drain`, `RunFinished`,
`TrainStepFailed`), and what does not go through the thread: `Subscribe`,
`Enqueue`, `Disconnect`, `Crash`.  A session has the step and the weights of its
own host copy and those of its trainer on the device, which is what makes a
checkpoint written in the middle of a run inconsistent; `write_checkpoint` reads
the host copy with the session's step (`CheckpointOf`).  `Overflow` is
`tokio::sync::broadcast`: a full channel drops its oldest event.

`RemoteTraining` adds, per page, the phase of `startTraining` or `handleStopped`
it awaits in (`Awaits`), and the fire-and-forget requests (`stop`, `pull`,
`delete`).  Requests travel in `wire` and arrive in any order; answers are a set.
`LoseRequest`, `LoseReply`, `LoseStream`, `Disconnect` and `ServerCrash` are the
failures, bounded together by `MaxFaults`.  A page whose stream is refused or
breaks is `deaf`: the code reports it and does nothing else.

### WorkerLoop

A stretch of `train()` from one await to the next is one action.  `loop` names
what is awaited: a step, a measurement, a save, a sample, or the pause between
slices.  The stages of a stretch are operators that pass the new `next` on
(`Step`, `Measure`, `Save`, `Sample`, `Pause`), in the code's order and with its
fall-through when the guard is taken.  `guard` is who holds `busy`; the page's
other calls are `calls`, which hold it or, on the CPU, do not.  `SliceOver` is the
condition that ends a slice before its time is up; that time is not modelled, so a
slice may end after any step.  CPU samples are not awaited and live in `samples`.
The page's part is the Train button, both Stop buttons, its `training` flag and
the inbox of what the worker said about its runs: a failed run says it twice.

### ModelStore

The record in `MODELS_STORE`, `saveModel` as asking, exporting and putting,
`autosave` as asking (with retries), exporting, reading the stored moments,
putting them back with the bytes, and writing the file; its `pending` slot and
the `finally` that starts what waited.  A model is its project, its steps and the
project its Adam moments are from.  IndexedDB transactions are atomic, and an
import of a project replaces sources and model in one step.

### Schedule

`train` is `TrainConfig` with `warmup_variance`.  `lr_at`, `warmup_for` and
`warmup_for_variance` are operators in whole numbers: a rate in units of 5e-5, a
ratio in thousandths; a cosine is a falling line that rises past its end, as the
cosine does past its half turn.  `applyLiveSettings` is the composition of
`set_project_plan`, `ApplyMode` and `ApplyRate` in the worker's order, and `Train`
and `Update` are the two messages that lead to it.  A `Step` may measure; whether
the measurement is better is chosen, and the cut of a flat stretch follows from
`flat`.  `Save`, `Load` and `syncAllSources` are the page's save and its restore,
in which every source handed over resets the scale.

### CorpusSampling

A token is where it came from (source, text, vocabulary, place), so "this window
is text of that source as it is now" can be said.  The streams are rebuilt when
somebody asks (`Ask`, or any draw), as `rebuild_flat_if_needed` does, and stay as
they were until then.  A batch (`SampleBatch`) first drops from the rotation what
holds no window any more (`Kept`, the `retain`) and then takes its draws one after
another (`DrawBatch`, a recursive function over the turns, so that it can be
reasoned about), each turn with a shuffle of its own should it refill the rotation.  A draw (`DrawOne`) takes the next source of the rotation,
refilling it when it is empty, and the next slot of the source's pass; where a
source's first window may be its opening, it is a choice.  `WriteBack` and
`Reload` are the page's: what it stores of a source's pass, and what it puts back
with `set_window_progress` into a new corpus.  The generator that shuffles is
any choice of order for the rotation and a given function (`Shuffle`) for a pass,
of which `ShuffleAssumption` says no more than that it permutes the slots, as a
Fisher-Yates shuffle does.
Duplicate detection and statistics change nothing and are left out.

### KvCache and Generation

`KvCache` says which keys (token and position) are attended to in three ways:
`attention_fwd` is the band of the training pass; `prefill`, `decode_step` and
`trim_to_window` are the host's cache; `RingStep` and `seed_from_cpu_cache` are
the GPU's ring, which is indexed by position.  `GeneratorNew` and
`GeneratorAdvance` are `generate.rs`, with the reset from half of the text when
the context is full.

`Generation` has one action per token and device and one per way to end.  A token
is a string of bytes, some of which are halves of a character; a piece is what
`take_complete_chars` makes of the bytes so far, and the guard counts words over
pieces.  The same tokens are given to `generate_response`, the blocking call, as a
fold.  `GpuFails` is the device's failure at any token, after which the host
begins again.

### HostMath, GpuKernels, GpuPasses, GpuTraining

The numbers are not modelled; *which* operation is applied to *what* is.
`HostMath` lists the calls of `ops` the host makes for a layer, forward and
backward, each with its operands, dimensions and result, all named.  A buffer of
the GPU holds such a name together with the sequence it was computed from.  A
kernel looks its operands up in the host's table: operands the host never puts
together, or of two sequences, give `Junk`.  A gradient is the list of
contributions accumulated since it was zeroed, a weight the list of updates it
has had, a moment the list of gradients it absorbed, so that a contribution left
over from a failed step, added twice, or lost, shows.

The memory model is WebGPU's: `enc` appends a command whose parameter block it
writes *now* into the next slot of the pool; `flush` submits; `write_buffer` takes
effect before whatever has not been submitted.  `Encoded` runs a sequence of
commands so, in submissions of `dispatches_per_submit` operations; it is a recursive
function over the commands, cut into parts of `PartLength` so that TLC does not nest
the evaluation of one command in that of all that follow.  `GpuPasses`
gives `encode_forward`, `encode_backward`, `encode_adam` and `decode_step` as such
sequences, and `GpuTraining` has the calls: `train_step`, `bench_step` and
`profile_step` in two actions with a readback between that may fail, the second wait
of `bench_step`, after which alone its step is put back (`Outcomes`), `eval_loss`,
`forward_logits`, `profile_kernels`, `download_weights`, the moments up and down,
and the decoder's calls.

## The runs

All runs use two workers.

| Run | Instance | Distinct states | Question |
| --- | --- | --- | --- |
| `session` | 3 callers, 4 versions, 4 steps, symmetric callers | 2,348,634 | Can any interleaving of three calls, each failing or not, lose weights, build a second trainer, decode or export old weights, a spoilt trainer among them? |
| `remote` | 2 pages, 2 sessions, 2 runs of 1 step or without limit, channel of 1 | 2,615,264 | Are checkpoints consistent and one's own, and does the server only train for a page that knows? |
| `remote_liveness` | 2 pages, 2 runs without limit | 130,599 | Does every stop that arrives in time end its run, and every listener hear the end its run has? |
| `remote_one_page` | 1 page, a run of 2 steps or without limit, 2 faults | 52,653 | The same page with whatever may fail, twice: does every await end, does nothing go back, is the server left clean? |
| `worker_loop` | 1 other call, 3 clicks, 3 steps | 1,154,619 | Guard, plan, the samples' grid, two runs, two Stops, the end of a run |
| `store` | 2 projects, 1 step, 1 autosave on its way | 386,583 | Does autosave catch up, come to rest, and never stack exports? |
| `generation` | 3 shapes, 4 lengths of prompt, 3 targets, 5 pieces, 3 tokens | 738,786 | Does decoding attend to what was trained, end where the blocking call does, and show the answer? |
| `corpus` | 3 sources, 2 lengths in 2 vocabularies, 4 draws, an edit, a reload | 373,939 | Are windows of one source and one side of its split, passes whole, turns shared? |
| `gpu_training` | 2 layers, batches of 1 and 2 sequences, 2 calls, or 4 decoded tokens | 8,521 | Does every buffer hold what the host's arithmetic would give? |
| `schedule` | 5 settings, 5 steps, cuts after 2 measurements | 447,577 | Do the phases join, and does a run follow its settings? |
| `ring`, `cut_lost` | as `generation`, `schedule` | | What a comment of the repository says and the code does not do; see below |

What the properties of each run say of the code is in the comment over each
property.

**Why the bounds are enough.**

- `session`: the guard admits one call, so a third caller is enough for one
  inside, one refused and one unguarded on the CPU.  An update, an export and
  another update need three versions; the fourth leaves room for an import or a
  vocabulary in between.  Above that `IInv` is proved for every bound.
- `remote*`: two pages is the first number at which a command is refused because
  of another's run.  `Capacity` 1 makes the event channel overflow at the second
  unread event.  `SyncEvery` 1 lets pulls be due during and at the end of a run,
  whose one step is what sets the session's step and its weights apart.  Two
  faults let a failure meet the handling of another.  All that is safety here
  is proved for every number of pages, sessions, steps, runs and faults.
- `worker_loop`: the settings are either `Dense`, planned for three steps with a
  measurement and a save due on every one and a sample on every second, and then
  Train is pressed once, which an imported model can start on the grid of the
  samples or off it; or `Plain`, until stopped and without samples, and then three times, so
  that the third click meets the two runs the first two started.  `Within` in
  `MCWorkerLoop` says so; it bounds clicks and a change of settings only, neither
  of which is fair, so the liveness checked is that of the whole specification
  on the runs it keeps.  The safety properties are proved for any settings,
  clicks and calls.
- `store`: the pending slot, the save in flight and the message on its way are
  three saves at once; steps beyond the first only repeat the comparison "older".
  The safety properties are proved for any number of projects, steps and messages.
- `generation`: the shapes have a window shorter than the context, and one that
  `effective_window` cuts; prompts are empty, at, above and well above a window,
  a multiple of it and not, at and above the context.  Three tokens are enough to
  pass a reset and wrap a ring.  The pieces split a character, a word and a
  paragraph between tokens.  What the host and the ring attend to is proved for
  every bound.
- `corpus`: a long text holds a slice out and has several windows, a short one
  two windows in bytes and none once merged; three sources are what it takes
  for one to leave a rotation that two others are still in.  Four draws finish
  a short source's pass, two in a row if nothing else has a window.  All three
  invariants are proved for any sources, texts, context and batch.
- `gpu_training`: two layers are the first number at which scratch is reused
  between layers; the second sequence of a batch has fewer distinct ids than the
  first, so that scatter indices left over would show; the third input is not a
  whole number of sequences.  A submission of seven operations ends inside every
  pass, one of none is raised to one.  Two calls are a failed or measured one and
  one after it.  Trainer and decoder are explored apart: they share nothing but the
  parameter pool, which both take from the same way.
- `schedule`: plans with a warmup cut by half the plan, by ten steps and by the
  strategy, the rates of a new, a trained and a hand-set model, and all three
  modes.  `Patience` is 2 where the code has 4, `CutAfter` 2 steps where the code
  has two million tokens.  What a run follows, and that its rate falls after the
  warmup, is proved for every setting.

At a bound a counter stands still (`Up` in `WorkerLoop`, an unlimited run on the
server that trains on uncounted) or the action is not enabled (a version, a
session name, a click, a token of an answer's budget), so runs that may simply
have used up what they were given are checked without deadlock detection: all
but `session` and `store`, which never stop.

## Fairness

- `RemoteTraining`: weak fairness of the GPU thread (`Work`), and per page of
  delivery, of taking answers and of reading events.  The thread is a loop on a
  blocking `recv`; the network is TCP, whose losses are explicit actions that turn
  into failures at the page; a browser's event loop runs what is ready.  Nobody
  is assumed to press a button, and neither a fault nor a failing step has to
  happen, so that a run without a limit may go on for ever.
- `WorkerLoop`: weak fairness of the loop's own continuation, of the queued
  `train` message, of unawaited samples, of each call's end and of the page's
  inbox: a promise of the device settles, a timer fires, a message is delivered.
  `setTimeout` at the end of each slice is what lets the queue be read.  Starting
  a call and changing a setting are not fair, and `RunsEnd` asks that they cease in
  the end, since settings can postpone a plan for ever and calls can win the guard
  each time.
- `ModelStore`: weak fairness of the steps of a save that has begun.  Training,
  clicks and reloads are free.
- The other modules state safety only: an answer, a draw or a call of the trainer
  ends by itself, and what it does on the way is the question.

## What is proved

TLAPS proves 42 theorems with 589 lemmas in eight modules (about 28,000
obligations), each for every value of the constants that satisfies the named
assumption of its component.

| Module | Theorem | Says |
| --- | --- | --- |
| `GenerationProofs`, the session | `Inductive` | `IInv` holds |
| | `TypeCorrect` | every variable keeps its type |
| | `OneOwnerHolds` | one guarded caller at most, `busy` exactly then, and the trainer in one place |
| | `NewestKept` | the newest weights are on the host, in the trainer, or with the call that will put it back; only those that timing the kernels has spoilt can go |
| | `DecodingIsCurrent` | a generation on the device holds the newest weights there are to hand out |
| | `ExportsAreNewest` | a checkpoint is written with the newest weights there are to hand out and their step |
| | `LearningIsSafe` | a vocabulary is learned only over a model without updates |
| | `SessionKeepsPromise` | `GpuSession` implements `ModelPromise` |
| `RemoteTrainingProofs` | `RemoteTypeCorrect` | every variable keeps its type, and no copy of the weights is ahead of the step its header claims, whatever fails |
| | `PagesKeepTheirModel` | no page gets another's model, while the server is not restarted |
| | `CheckpointsAreTrue` | weights have been through exactly the steps their checkpoint claims, while no download fails |
| | `RemoteHolds` | `RemoteInv` holds |
| | `NoRunIsOrphaned` | a run belongs to a page that says it is training, while nothing fails |
| | `SessionsAreFreed` | the only run there has been leaves no session behind, while nothing fails |
| | `ResultsStay` | a page that has the result of the only run keeps it, whatever is answered late and whatever fails |
| `WorkerLoopProofs` | `LoopHolds`, `LoopTypeCorrect` | `LoopInv` holds; the types, and `next` on its grid |
| | `GuardNeverLeftHeld` | the guard is held exactly while somebody works behind it |
| | `RunsNeverShare` | a second `train` leaves the run that is going as it is |
| | `StopsAtTheStep` | no step is started after a Stop or past the plan |
| | `SamplesStayOnGrid` | a step that reaches the samples' grid is sampled before the run takes another or ends |
| `ModelStoreProofs` | `StoreHolds`, `StoreTypeCorrect` | `StoreInv` holds; the types, and the mail's bound |
| | `OneExport` | no two exports of the page at once |
| | `SaverCatches` | what is stored catches up with what the last autosave was asked for |
| `ScheduleProofs` | `RunsFollow` | a run trains to the plan, warmup, shape and peak last asked for |
| | `NoInheritedCut` | a run whose mode does not cut the rate is not cut |
| | `RatesFallAfterWarmup` | past its warmup a rate falls, between the floor and the peak |
| `GenerationProofs`, the answer | `HostIsFaithful` | decoding on the host attends to exactly what the training pass over the end of the text would, at positions inside the context |
| | `RingIsFaithful` | the ring attends to the window of the last token wherever the host's cache was copied into it in line, and never to a slot nothing wrote |
| | `SessionsAreBlocking` | token by token, with every reset, cut and trim, a session holds what the blocking call would have produced |
| | `AnswersAreShown` | what the page has been shown, with what is still pending, is the text of the tokens so far |
| `GpuTrainingProofs` | `TypeCorrect` | every variable keeps its type |
| | `SubmissionsStayBounded` | no submission of a training, evaluation or comparison call is longer than was asked for |
| | `SubmissionsDoNotMatter` | a call leaves the same memory however its commands are cut into submissions |
| `GpuHostProofs` | `StepsAreTheHosts` | a training step leaves the gradients the host's chain rule gives for the same sequences, and a step or an evaluation reports their loss |
| | `OptimizerIsTheHosts` | weights and moments carry the updates of exactly the steps taken, each with its gradient, scale and decay and the bias correction of the steps counted |
| | `DecodingIsTheModels` | logits read back, of a sequence on the trainer or of a token decoded, are the model's |
| `CorpusSamplingProofs` | `CorpusHolds` | `CorpusInv` holds |
| | `WindowsInside` | a window drawn, measured or probed is text of one source as it stands, on one side of its split |
| | `PassesWhole` | a pass draws each window once |
| | `TurnsShared` | the rotation shares the turns, for batches of any size |

Few of the properties are inductive as they stand; what each needed is the
following.  The runs `session`, `remote`, `worker_loop` and `store` check the inductive
invariants `IInv`, `RemoteInv`, `LoopInv` and `StoreInv` on their instances, type
correctness included.  `SMTT` and `ZenonT` in a proof only give a leaf more time.

**Session.**  That a decoder is current follows
from `uploadedAt = step`.  A failed `profile_step` advances the step *without*
changing the weights, which errs on the safe side.  One call does the reverse:
`profile_kernels` on a trainer whose own counter is zero makes weights (NaN) and
counts no step.  These stay in that trainer: as long as they are `uncounted`, what
can be handed out is the version before them (`Handed`), and when the device goes,
they do.  `Placement` says this phase by phase: a caller with the trainer holds the
newest version; a resident trainer is the newest; with neither, the host is what
can be handed out; an upload at the current step means that host and decoder both
are; a closed backend has neither trainer nor decoder; a caller opening a device
holds the newest; and at step 0 there has been no update.
`IInv == TypeOK /\ OneOwner /\ Placement` is inductive: `InitIInv`, and
`NextIInv`, with one case per action, each of which first shows that nobody else
is in a guarded phase.  The properties are consequences; the two action
properties use `IInv` before the step; the refinement maps `Current` (which
`CurrentIsNewest` shows to be `newest`) and `Serving` (the version a decoding
caller holds) and matches each action with `Change`, `Spoil`, `Settle`, `Save`, `Serve`,
`Served`, `Lost` or a stutter.  The run `session` checks `IInv` and every one of these on its instance.

**Server and pages.**  `RemoteInv` is layered by what may fail.  `TypeOK /\ Sound`
hold whatever does: a copy of the weights may lag behind its step, as it does
after a failed download, and never leads it.  `Owned` needs that the server is not
restarted, because a restarted one hands its names out again; `Trained` that no
download fails; `Orderly`, that nothing does.  `PagesKeepTheirModel` and
`CheckpointsAreTrue` state just those conditions, as a restriction of the steps
of the specification, and not that nothing fails.  The proofs classify each
action once: what it does to a session, what it puts on its way, which pages and
streams it touches; each layer is then proved over that classification and not
over the actions.  `Orderly` says that what a page awaits is on its way exactly once
(`OneCall`), is the call its phase awaits and about its session (`Fits`), and that
the page of a run has been told, or is about to be (`RunsFor`): without the first
two, an answer of an earlier call could be taken for that of the next.
`Tidy` accounts for each session by somebody who will see to its deletion, and holds
of a single run only: with a second page a deletion can be refused as busy.

**The result of a run.**  That a late pull takes nothing back is not a matter of one
state: a pull sent during a run is refused, and the proof must know that one
answered after it was read after it.  The run goes through four stages,
`Untouched`, `Opening`, `Running` and `Settled`.  While it opens there is at most one
request that may still lead to a run, in the wire, in the queue or as the answer to
a `create` (`AtWire`, `AtQueue`, `AtReply`); once it is settled, no copy that can be
handed out differs from the result (`Agreed`).  Faults only take things away, so
they move no stage back.

**Loop.**  `LoopInv` ties `training` to the stage of the loop and the guard to its
holder, counts a `train` message in the queue against the clicks, and has one
unawaited sample at most waiting for the weights.  The stages of a stretch
(`Step`, `Measure`, `Save`, `Sample`, `Pause`) call each other, so the lemmas are about
stages and are cited in the order of the code: `WhereStepsBegin` says from where a
step can be reached at all, and under which condition.
That samples keep to their grid (`SamplesKept`) is about the history `sampling`: the
interval `nextSampleAt` was last set with, and whether a step has reached a multiple
of it that was not sampled yet.  `GridAhead` makes it inductive: `nextSampleAt` skips
no multiple, and has come where a sample is owed.  Since `SliceOver` ends a slice
there, the loop is then past its steps, and the lemmas `SaveDeals`, `MeasureDeals` and
`SampleDeals` follow what is owed through the stages to the sample.

**Store.**  What is stored catches up because every write still to come already
covers what the last autosave was asked for (`Covered`): the one at the end of a run,
the autosave in flight when nothing waits behind it, and what waits otherwise.  That
does not order the two writers: an autosave in flight may store older weights after
`saveModel` has stored newer ones, as the divergences below say.  For that one needs
that nothing posted or heard is ahead of the model, and that a forgotten model is of
an earlier project than the one begun next (`Ordered`); and that whoever is about to
use a model has one (`Present`).

**Schedule.**  `RunInv == Typed /\ (running => Follows(train, live))`.  The work is
in the calls: `PlanIsSet`, `ModeIsSet` and `RateIsSet` say what each leaves and
what it keeps of the one before, and `SettingsAreApplied` puts them together in
the worker's order.  Every other action either leaves `train` alone, or changes
its scale in a run whose mode allows it, or happens while nothing runs.
`RateInv` adds the shape of a configuration (`Shaped`: a rate above 0, a scale between
the floor of the cuts and the whole, one of two floors of the decay), which every
call keeps, a checkpoint's included.  `RatesAreBounded` and `RatesFall` are about `lr_at` and hold
of every step, while the property looks at the steps where the phases meet:
quotients rise with their dividends (`QuotientsRise`), progress with the step, and
the ratio of a decay falls with progress (`RatioFalls`), so the rate does, through
the joints of the three phases.

**Generation.**  `HostAttendsAsTrained` compares three things: the cache, the
attended set and the text.  The first two follow from each other only if the
generator's tokens are the end of the text and its position is their number, and
only while the call's prompt, budget and output are what they were: that is
`HostInv == Kept /\ CacheStands`, where `Stands` says of one generator that its keys
are the last of `Keys(tokens)` in the window and its position the number of
tokens.  `Trimmed` and `WindowMoves` show that evicting one key after adding one is
the same as trimming the whole; `WindowIsLastQuery` that a trimmed cache is the
band of the training pass at its last position; `NewStands` and `AdvanceStands`
that a new generator and one more token, reset included, keep it.
`RingInv` adds the ring: each live slot holds a key (`Live`), the ring is as far as
the answer while that goes on, and a prompt that fitted left every live position
in the slot of its remainder (`Aligned`), from which one more token overwrites
exactly the key that leaves the window.  Where the prompt did not fit it does not
hold, which is what the run `ring` shows.
`AnswerInv` adds the text.  What was shown is the text of the bytes of all tokens up
to the last complete character, what is pending is the rest (`TextStands`), and that
this is so a token at a time is a fact about cutting bytes: what two pieces leave
behind is what the whole leaves behind, and words counted over pieces are the words
of the text.  The state of the session is the blocking call's fold over the tokens
so far, not yet over (`StreamStands`), so it ends where that does, cancelled or not.

**Corpus.**  `CorpusInv` has three parts beside the properties.  `StreamsStand`: unless
dirty, each source's part lies in its stream where its span says, so that a slot
inside a span is text of that source (`WindowsInside` follows for the draws, and
for the fixed sets by `FirstAbove`, which says where an offset into the total room
falls).  `PassesStand`: a pass begun in this session has drawn just the windows up to
its cursor, so the next one is new; a source that has gone has left nothing.
`TurnsStand`: counting the window a source is still due in the rotation, no two
sources are more than one apart, and the last source drawn is not due again until
the sources change.  A batch is proved by induction over its turns: `Turn` is the
invariant inside the loop of `sample_batch`, `TurnIsTaken` one turn of it, and
`BatchIsDrawn` the whole.  The library's induction theorems take an operator; here
the bounded induction is instead derived each time from a set of numbers and its
least element (`Climb`), and a recursive function's existence and values
in the same way (`Iterated`), which the provers do take.

What is assumed is what the code grants: non-zero sizes, steps and cadences, finite
sets of sources, a default that is no value (`None`), and shuffles that permute.

**GPU.**  `Stands` says of a call under way that the pool has handed out one slot to
each dispatch encoded and that no submission, done or waiting, is longer than
allowed.  Then the memory a call ends with is what its commands leave if each runs
as soon as it is encoded (`EncodedInTurn`, `PhasesInTurn`), provided that a
buffer write overtakes no command still waiting but one that zeroes another
buffer: `Complete` says of a sequence of commands that this is so and that it closes
with a flush, and is shown of every call.  Two ways to cut it
into submissions then agree (`TurnsAgree`).

What the commands leave is followed one at a time, for any number of layers.  A
kernel's arguments determine what its output means (`Known` in the table `Results`
of the host's operations), so each command has a fact of the form: if its inputs hold
the host's values for a sequence, so does its output, and the rest is as before.  The
layers are an induction (`ThroughLayer` forwards, `BehindLayer` backwards, where each
gradient grows by its layer's share), and the sequences of a batch another one
(`SequencesTurn`), because gradients add up over them.  The gradient of the embedding
is scattered by rows grouped by token, so the groups must partition the positions and
each hold the occurrences of its token in their order (`GroupIs`, `ScatteredRowsAre`).
Between commands the three sets of state a step keeps must not be touched by what it
computes: `CarriedOn` says so for every call.
`HostInv` then holds of the trainer between calls: each weight has the updates of the
steps taken (`did`) and each moment those of all that went through the optimizer,
benchmarks and profiled kernels included (`absorbed`), unless a kernel profiled at step
0 has spoilt the weights; the trainer's step is the number of `absorbed` that count,
a benchmark that failed at its last wait (`"lapsed"`) among them;
a call waiting for its readback has left its gradients (`Graded`); and what was
downloaded is what the trainer had.  A failed call may stop after any phase, and only
the last command of a step changes weights, so a failure leaves `HostInv` as it was.
A token on the generation backend goes the same way through its layers (`DecodeTurn`):
each writes its key and value into the slot of the rings, the others stand
(`StoredStill`), and its attention reads a ring whose every live slot is of that layer.
`LogitsInv` keeps this between tokens: as long as nothing has been trained, the rings
hold as many positions as have gone by, up to their capacity, so the next slot is
free or the oldest (`SlotReady`).  That the slots hold the positions the window asks
for, in which order, is the other half, and `RingIsFaithful`'s.

**Only model-checked**, and why:

- Liveness (`EveryCallAnswered`, `StopIsHeeded`, `HeardToTheEnd`, `RunsEnd`, `StopIsHeard`,
  `SaverComesToRest`) needs fairness and `ENABLED`, which TLAPS does not take.

Every invariant and every action property the passing runs check is a theorem.

## Known divergences

Where the code and what the repository says of it disagree.  Two are runs that
end in a counterexample.

| Said | Done | Run |
| --- | --- | --- |
| `llm-gpu/src/model.rs:404-406` host cache and ring: "so with a fresh ring the two layouts coincide and it's a straight copy" | `decode_step` writes at position % capacity (line 427): after a prompt longer than the window and not a whole number of windows, the key overwritten is not the oldest | `ring` |
| `model_state.rs:47-50` restoring the plan and the cut "is what makes a reload continue the same absolute schedule" | `restoreModel` (`app.js:3393`) hands over the sources after the model, and each resets the cut (`worker.js:1863`) | `cut_lost` |

Others the models show or their construction turned up, not run.

The worker, the page, the server:

- `main.rs:23` "the page still owns the periodic checkpoint pull that keeps a local
  copy current": every pull during a run, the only time the page pulls, is refused
  as busy (`gpu_actor.rs:174`).
- `app.js:2490` "Stopping after this step…": `generate` and `train` clear
  `stopRequested` whoever set it (`worker.js:337`), and the disabled button cannot
  be pressed again.
- `worker.js:1060` settings are "plain data the training loop rereads every cycle —
  a change just lands on the next check": `nextSampleAt` is computed at the start
  and after a sample only, so samples switched on later never come
  (`worker.js:1233`).  `SamplesKept` speaks of the interval they were last set by.
- `app.js:2919` "Saved after every training run, so the most that can be lost is the
  run you are in": an autosave in flight when the run ends stores older weights
  over it (`app.js:3125`).
- `app.js:3103` "Keep whatever optimizer state is already stored rather than writing
  null over it": the moments written back are those read before `saveModel` stored
  its own (`app.js:3120`).
- `lib.rs:123-126` `tokens_seen` is "cumulative over every run" and "counted as it
  happens"; `profile_step` trains and counts no tokens (`training_api.rs:344`).
- `worker.js:1895` a vocabulary is learned and then the model's "GPU state"
  rebuilt "around it"; the device is dropped always (`corpus_api.rs:191`) and
  reopened only when the vocabulary's size changed (`worker.js:1919`).
- `app.js:1697` "A run that ends before you asked it to has to say so, loudly": a
  run over before its page has opened the event stream says it to nobody
  (`gpu_actor.rs:483`, `remote-backend.js:141`), and the page waits on.  The Stop
  of a generation ends a training run quietly (`app.js:772`).
- `app.js:1719` "The model is saved", of a run that failed: the click handler's
  `catch` goes past `saveModel`, so only its last autosave is (`RunEnds` in
  `ModelStore`).
- `app.js:2490` again, on a server: a Stop pressed before the session is known, or
  one that overtakes the start, is dropped (`remote-backend.js:146`,
  `gpu_actor.rs:335`).
- `main.rs:20` a session is "gone on restart": its *name* is handed out again
  (`gpu_actor.rs:259`), so a page that was listening can be given, or can stop,
  another page's run.  `OwnModel` is checked without restarts.
- `remote-backend.js:169` a pull's answer is imported whenever it comes: one of a
  first run that is answered after the result of a second takes the page's copy
  back (`NeverBack` is stated and proved for the first run).
- `remote-backend.js:254` a finished run's session is deleted without looking at the
  answer: refused during another page's run, it stays on the server for good
  (`SessionsFreed` is checked and proved for a single run).
- `gpu_actor.rs:475` the weights are pulled back because "a checkpoint download or
  a later resumed run needs them here"; a failure to is ignored (line 478), and
  the session then has the step of weights it does not have.
- `worker.js:407` a sample "shows the model as it is at this step": a CPU sample
  is filed under the step at which its text is ready (`worker.js:1323`).
- `app.js:3113-3121` the stored moments are kept across an autosave, also those of
  the model an import has replaced.
- `db.js:210-211` a model left behind "means a reload could restore a model from a
  project that's gone": New Project clears the sources first (`app.js:2639`) and
  waits for no save in flight (`app.js:2641`).
- `app.js:2791` an import "replaces the current model": nothing stores it until
  the next save (`app.js:2834`), and a worker that is training refuses it with an
  answer the page takes for a model.
- `corpus_api.rs:76-80`, `worker.js:1850-1854`: a restored cursor keeps a reload
  from starting a source's pass over; the first draw of a source whose order has
  not been built resets it.

The GPU:

- `trainer/profile.rs:88-91` what a profiled kernel writes is "overwritten by the
  next real step": case 13 runs the optimizer with rate 0 at the trainer's step.
  At step 0 its bias correction divides by zero and the weights are gone; at any
  other it decays the moments.  `UpdatesAreTheHosts` leaves out the weights after
  the first and counts the second.  In the session the weights after the first are a
  version no step has made (`KernelsDone`), which nothing decodes or exports until
  the step has moved past the last upload, and which a lost device takes with it.
- `training_api.rs:372` a benchmark "leaves no trace": it leaves the moments changed,
  builds a trainer without the saved ones when there is none, and, when its second
  wait fails (`trainer/mod.rs:370`), one more step on the trainer's counter: the
  bias corrections from then on are not the host's.  `trainer/mod.rs:346-356` says
  that "the step counter does not move".  `profile_step_inner` advances the
  session's step also when it fails.
- The decoder's norm is given epsilon word 0 (`llm-gpu/src/model.rs:177`) where the
  host uses 1e-6; `rope.wgsl` has its base written in, and `supports()` does not ask
  whether the model's is another.  Both are inside an operation, and not modelled.

Answers:

- A prompt longer than the context is cut for the host's generator and not for
  the GPU's, which neither resets at `context_len`: it decodes at positions that
  were never trained.
- When the device fails in the middle of an answer the host begins it again, and
  the page is given its beginning twice.  The text left in the tail on `cancel()` is
  not sent by `generate_on_cpu`, and on the GPU not counted by the guard.
- The window of the repetition penalty is shorter after a reset of the context.
- `sample_with` may fall through to `order.last()`, a token that was masked, when
  `top_p` is 1 or more.

The corpus:

- `can_sample` (`store.rs:73`) looks at the length of the whole stream, so it says
  yes when no source holds a window of its own.  After a removal in the middle of a rotation a source may be
  drawn twice in a row (`changed` in `TurnsAreShared`).

The schedule:

- `train.rs:50` extending a plan "just extends the stable phase": a longer plan also
  has a longer warmup (2% of it, up to 200 steps), so a model past the old one can
  be put back into it, at a lower rate than before.
- After a reload the decay is gone (`min_lr_ratio` 1.0) until settings are applied.
  `from_checkpoint` and `import_checkpoint` ignore `warmup_variance`.  The first
  Train with a rate other than 5e-5 clears a cut that was restored.
- A sync marks the model as pretrained (`gpu_session.rs:156`), so that the page's
  automatic rate for a model begun from nothing drops from 6e-4 to 5e-5 after its
  first export, and the worker takes that for a change by hand and clears the cut.

## Not modelled, and why

- **Arithmetic inside an operation**, numeric precision, choosing a token from
  logits, Adam's formula: real arithmetic, which the repository's gradient tests
  compare with finite differences and the CPU with the GPU.
- **Losses and what is computed from them** (plan advice, early stopping): not
  needed by the properties; better and flat are inputs of `Schedule`.
- **The native trainer** (`train.rs:237-430`, behind the feature `native-trainer`).
- **Workgroups, pipelines, device creation, bind groups**: a kernel is the operation
  it computes over whole tensors; shaders are parsed and validated by
  `shader-check`.
- **Tokenizer merges and encoding**: pure functions of text; a text is the number
  of its tokens.
- **Authentication, health, text preparation, evaluation, file layouts**:
  stateless.
- **The local backend's request table, and the read-modify-write of source
  records**: in the plan; their hazards are listed.
- **Sizes**: heap exhaustion is modelled by its cause (two exports at once) only.
- **`load-model` and `create-model` under a run**: they replace `llm` under whatever
  is running; only the page's disabled controls prevent it.  `Schedule` has both
  where the page allows them.

## Plan

Done: 1 `GpuSession` with `ModelPromise` and proofs, 2 `TrainingServer` and
`RemoteTraining` with proofs, 3 `WorkerLoop` with proofs, 4 `ModelStore` with proofs,
5 `CorpusSampling` with proofs, 6 `Schedule` with the plateau and proofs, 7 `KvCache`
and `Generation` with proofs, 8 the GPU's passes against the host's arithmetic, with
proofs.

Left, in this order:

9. `LocalBackend`: the request table, timeouts and late answers.
10. `SourceStore`: sources and history as read-modify-write on IndexedDB, and the
    two-transaction replacement.
11. BPE merges and the header arithmetic of a checkpoint: pure functions against
    reference definitions.

## Running

    tlc -workers 2 -config GpuSession.cfg MCGpuSession
    tlc -workers 2 -config Generation.cfg MCGeneration
    tlapm RemoteTrainingProofs.tla
    tlapm WorkerLoopProofs.tla
    tlapm ModelStoreProofs.tla
    tlapm ScheduleProofs.tla
    tlapm GenerationProofs.tla
    tlapm CorpusSamplingProofs.tla
    tlapm GpuTrainingProofs.tla
    tlapm GpuHostProofs.tla

`PROJECT.json` gives the module and configuration of each run, a mutant of the
model that breaks each property, and, for each definition, the lines it models.
