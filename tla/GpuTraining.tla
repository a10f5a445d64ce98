------------------------------ MODULE GpuTraining ------------------------------
(***************************************************************************)
(* The GPU trainer (llm-gpu trainer/mod.rs, profile.rs, io.rs) and the     *)
(* generation backend (model.rs) over the GPU's memory: every call encodes *)
(* the commands the code encodes, in submissions of a bounded length, and  *)
(* the memory they leave is compared with what the host's arithmetic       *)
(* gives.                                                                  *)
(*                                                                         *)
(* A weight is the list of updates applied to it, a moment the list of     *)
(* gradients it absorbed, a gradient the list of contributions added since *)
(* it was zeroed.  `did` and `absorbed` are what the same calls would do   *)
(* on the host.  A call that waits for a readback has two actions, and may *)
(* fail where it waits.                                                    *)
(***************************************************************************)
EXTENDS GpuPasses, FiniteSets

CONSTANTS
    Inputs,      \* what a call is given: runs of token ids
    TLen,        \* t_len
    PerSubmit,   \* the values set_dispatches_per_submit is given
    Capacity,    \* the ring's capacity
    MaxCalls,    \* bound: calls of the trainer
    MaxTokens,   \* bound: tokens decoded
    Idle

ASSUME GpuTrainingAssumption ==
    /\ TLen \in Nat \ {0} /\ Capacity \in Nat \ {0}
    /\ MaxCalls \in Nat /\ MaxTokens \in Nat /\ PerSubmit \subseteq Nat
    /\ Inputs \subseteq Seq(Nat)

VARIABLES
    use_ple,     \* the model has per-layer embeddings
    mem,         \* the GPU's memory, buffer by buffer
    trainer,     \* [step, dispatches_per_submit], or Idle when there is none
    call,        \* the call waiting for its readback, or Idle
    answer,      \* [kind, seqs, got]: what the last readback returned
    longest,     \* commands in the longest submission of the last call
    held,        \* the host's copy of the weights and the moments
    did,         \* the updates the weights have had
    absorbed,    \* the batches the moments have absorbed
    spoilt,      \* the kernels were profiled at step 0
    calls,       \* calls of the trainer so far
    decoded      \* [position, cached_len] of the generation backend

vars == <<use_ple, mem, trainer, call, answer, longest, held, did, absorbed, spoilt, calls, decoded>>
history == <<held, did, absorbed, spoilt>>

-----------------------------------------------------------------------------
(* Memory.                                                                 *)

ActNames == {"h_in", "normed1", "inv_rms1", "q", "k", "v", "probs", "concat",
             "h_after_attn", "normed2", "inv_rms2", "gate", "up"}
ScratchNames == {"tokens", "targets", "hidden", "tmp_h", "h_final", "final_normed",
                 "final_inv_rms", "logits", "d_logits", "loss_rows", "d_hidden", "d_a",
                 "d_b", "d_c", "d_q", "d_k", "d_v", "d_score", "act", "d_act", "d_gate",
                 "d_up", "partials"}
DecoderNames == {"token", "hidden", "ple_row", "normed", "inv_rms", "q", "k", "v", "attn",
                 "proj", "gate", "up", "act", "logits", "logits_read"}

zeroed(n) == [i \in 1 .. n |-> 0]

\* GpuTrainer::new: weights uploaded, everything else zero.
TrainerBuffers ==
    {InSet(set, i) : set \in {"weights", "grads", "m", "v"}, i \in Slots}
    \cup {Acts(name, l) : name \in ActNames, l \in 1 .. Layers}
    \cup {Scratch(name) : name \in ScratchNames \cup {"stats", "row_ids", "row_offsets", "row_positions"}}

TrainerMemory(weights, m, v) ==
    LET params == [weights |-> [i \in Slots |-> [of |-> shapes[i], seq |-> NoSeq, past |-> weights[i]]],
                   grads |-> [i \in Slots |-> << >>], m |-> m, v |-> v]
        sums == [stats |-> [i \in 0 .. StatsLen - 1 |-> << >>], row_ids |-> zeroed(TLen),
                 row_offsets |-> zeroed(TLen + 1), row_positions |-> zeroed(TLen)]
    IN [b \in TrainerBuffers |->
           IF b[3] = "params" THEN params[b[1]][b[2]]
           ELSE IF b[3] = "scratch" /\ b[1] \in DOMAIN sums THEN sums[b[1]]
           ELSE Zero]

\* GpuModel::upload.
LayerWeights == {LayerTensors[t] : t \in 1 .. TENSORS_PER_LAYER} \cup {"ple"}
Caches == {DecoderLayer(name, l) : name \in {"k_cache", "v_cache"}, l \in 1 .. Layers}
DecoderWeights == {DecoderLayer(name, l) : name \in LayerWeights, l \in 1 .. Layers}
                  \cup {Decoder("embed"), Decoder("final_norm_gain")}

DecoderMemory ==
    [b \in DecoderWeights \cup Caches \cup {Decoder(name) : name \in DecoderNames} |->
        IF b \in Caches THEN [s \in 0 .. Capacity - 1 |-> Zero]
        ELSE IF b \in DecoderWeights THEN Value(<<b[1], b[2]>>, NoSeq) ELSE Zero]

NoUpdates == [i \in Slots |-> << >>]

Init ==
    /\ use_ple \in BOOLEAN
    /\ mem = DecoderMemory /\ decoded = [position |-> 0, cached_len |-> 0]
    /\ trainer = Idle /\ call = Idle /\ answer = Idle /\ longest = 0 /\ calls = 0
    /\ held = [weights |-> NoUpdates, m |-> NoUpdates, v |-> NoUpdates, step |-> 0,
               did |-> << >>, absorbed |-> << >>]
    /\ did = << >> /\ absorbed = << >> /\ spoilt = FALSE

-----------------------------------------------------------------------------
(* GpuTrainer::new, with or without upload_optimizer, and upload_optimizer *)
(* into a trainer that is there already.                                   *)

supports_training == ~use_ple

\* Training and generation share only the pool of parameter blocks, which
\* every call of either resets: the runs explore them apart.
NotDecoding == decoded.position = 0
NotTraining == trainer = Idle /\ calls = 0

\* The moments a new trainer starts from.
StartingMoments(optimizer) ==
    [m |-> IF optimizer THEN held.m ELSE NoUpdates, v |-> IF optimizer THEN held.v ELSE NoUpdates]

DEFAULT_DISPATCHES_PER_SUBMIT == 32

New(optimizer) ==
    LET moments == StartingMoments(optimizer)
        memory == TrainerMemory(held.weights, moments.m, moments.v)
    IN /\ trainer = Idle /\ call = Idle /\ NotDecoding /\ calls < MaxCalls
       /\ supports_training
       /\ mem' = [b \in TrainerBuffers \cup DOMAIN mem |->
                     IF b \in TrainerBuffers THEN memory[b] ELSE mem[b]]
       /\ trainer' = [step |-> IF optimizer THEN held.step ELSE 0,
                      dispatches_per_submit |-> DEFAULT_DISPATCHES_PER_SUBMIT]
       /\ did' = held.did
       /\ absorbed' = IF optimizer THEN held.absorbed ELSE << >>
       /\ UNCHANGED <<use_ple, call, answer, longest, held, spoilt, calls, decoded>>

\* The moments downloaded last are written over the trainer's own, and the
\* step they were at is its step again.  The weights stay.
upload_optimizer ==
    /\ trainer # Idle /\ call = Idle /\ calls < MaxCalls
    /\ mem' = [b \in DOMAIN mem |->
                  IF b[3] = "params" /\ b[1] = "m" THEN held.m[b[2]]
                  ELSE IF b[3] = "params" /\ b[1] = "v" THEN held.v[b[2]]
                  ELSE mem[b]]
    /\ trainer' = [trainer EXCEPT !.step = held.step]
    /\ absorbed' = held.absorbed
    /\ UNCHANGED <<use_ple, call, answer, longest, held, did, spoilt, calls, decoded>>

AtLeastOne(n) == IF n > 1 THEN n ELSE 1

set_dispatches_per_submit(n) ==
    /\ trainer # Idle /\ call = Idle /\ calls < MaxCalls
    /\ trainer' = [trainer EXCEPT !.dispatches_per_submit = AtLeastOne(n)]
    /\ trainer' # trainer
    /\ UNCHANGED <<use_ple, mem, call, answer, longest, history, calls, decoded>>

\* The device is lost, or the session drops the trainer.
Lost ==
    /\ trainer # Idle
    /\ trainer' = Idle /\ call' = Idle
    /\ UNCHANGED <<use_ple, mem, answer, longest, history, calls, decoded>>

-----------------------------------------------------------------------------
(* A batch.  The sequences of a call are told apart by the call and their  *)
(* place in it.                                                            *)

Tagged(batch) == [b \in DOMAIN batch |-> [call |-> calls + 1, at |-> b, toks |-> batch[b]]]

\* Sequences are cut out of one flat run of ids, t_len at a time.
Fits(flat) == flat # << >> /\ Len(flat) % TLen = 0
Cut(flat) == [b \in 1 .. Len(flat) \div TLen |-> SubSeq(flat, (b - 1) * TLen + 1, b * TLen)]

WriteTokens(seq) == <<WriteBuffer(Scratch("tokens"), Value(Tokens, seq)),
                      WriteBuffer(Scratch("targets"), Value(Top("targets"), seq))>>

ZeroAll ==
    [i \in Slots |-> dispatch_zero(InSet("grads", i), "all")] \o <<dispatch_zero(Stats, StatsLen)>>

ReduceGradients ==
    FlattenSeq([i \in Slots |-> ReduceInto(InSet("grads", i), i, TRUE, shapes[i])])

\* The commands up to the readback, and where profile_step waits for the
\* device in between.
SequencePhases(kind, seq) ==
    LET uploads == WriteTokens(seq) \o upload_scatter_index(seq.toks)
    IN IF kind = "profile"
       THEN <<uploads \o encode_forward \o <<Flush>>, encode_loss \o <<Flush>>,
              encode_backward(seq) \o <<Flush>>>>
       ELSE <<uploads \o encode_forward \o encode_loss \o encode_backward(seq) \o <<Flush>>>>

Phases(kind, seqs) ==
    <<ZeroAll \o <<Flush>>>>
    \o FlattenSeq([b \in DOMAIN seqs |-> SequencePhases(kind, seqs[b])])
    \o <<ReduceGradients \o <<Flush>>>>

\* A call that ends with its readback, or fails where it waits.
Ready == trainer # Idle /\ call = Idle /\ calls < MaxCalls

train_step(kind, flat) ==
    LET seqs == Tagged(Cut(flat))
        phases == Phases(kind, seqs)
    IN /\ Ready /\ Fits(flat)
       /\ \E reached \in IF kind = "profile" THEN 1 .. Len(phases) ELSE {Len(phases)} :
            LET g == EncodedInPhases(Begin(use_ple, mem, trainer.dispatches_per_submit),
                                     SubSeq(phases, 1, reached))
            IN /\ mem' = g.mem /\ longest' = g.longest
               /\ call' = IF reached = Len(phases) THEN [kind |-> kind, seqs |-> seqs] ELSE Idle
       /\ answer' = Idle
       /\ calls' = calls + 1
       /\ UNCHANGED <<use_ple, trainer, history, decoded>>

\* The gradient's norm is the root of slots 1 and up: right when each holds
\* one whole sum of squares, of the gradient the update is about to take.
NormOf(memory) ==
    IF \A i \in Slots : memory[Stats][i] = <<[of |-> memory[InSet("grads", i)], square |-> TRUE,
                                              groups |-> shapes[i]]>>
    THEN "own" ELSE "other"

\* Mutant of StepAfter: a benchmark counts.
StepAfter_all(kind) == trainer.step + 1

\* bench_step waits once more, for its update, and puts the step back when
\* that wait succeeds; when it fails, the benchmark has lapsed.
Outcomes(kind) == IF kind = "bench" THEN {"bench", "lapsed"} ELSE {kind}
StepAfter(kind) == IF kind = "bench" THEN trainer.step ELSE trainer.step + 1

\* The steps the trainer has counted, of the batches it was shown.
StepsCounted == Cardinality({k \in DOMAIN absorbed :
                                absorbed[k].kind \in {"train", "profile", "lapsed"}})

\* The readback arrives, and encode_adam is submitted.  bench_step runs at
\* rate zero.
FinishStep ==
    LET bench == call.kind = "bench"
        scale == [batch |-> Len(call.seqs), norm |-> NormOf(mem)]
        g == Encoded(Begin(use_ple, mem, trainer.dispatches_per_submit),
                     encode_adam(trainer.step + 1, IF bench THEN 0 ELSE 1, scale) \o <<Flush>>)
    IN /\ call # Idle
       /\ mem' = g.mem /\ longest' = IF g.longest > longest THEN g.longest ELSE longest
       /\ answer' = [kind |-> "loss", seqs |-> call.seqs, got |-> mem[Stats][0]]
       /\ did' = IF bench THEN did
                 ELSE Append(did, [seqs |-> call.seqs, kind |-> call.kind, step |-> 1 + StepsCounted])
       /\ \E kind \in Outcomes(call.kind) :
             /\ trainer' = [trainer EXCEPT !.step = StepAfter(kind)]
             /\ absorbed' = Append(absorbed, [seqs |-> call.seqs, kind |-> kind])
       /\ call' = Idle
       /\ UNCHANGED <<use_ple, held, spoilt, calls, decoded>>

ReadbackFails ==
    /\ call # Idle
    /\ call' = Idle
    /\ UNCHANGED <<use_ple, mem, trainer, answer, longest, history, calls, decoded>>

-----------------------------------------------------------------------------
(* Calls that learn nothing.                                               *)

Runs(commands, per_submit) == Encoded(Begin(use_ple, mem, per_submit), commands)

Answered(kind, seqs, g, buffer) ==
    /\ mem' = g.mem /\ longest' = g.longest
    /\ answer' = [kind |-> kind, seqs |-> seqs, got |-> buffer]
    /\ calls' = calls + 1

\* Only the loss slot is used.
EvalZeroes == <<dispatch_zero(Stats, 1)>>

eval_loss(flat) ==
    LET seqs == Tagged(Cut(flat))
        g == Runs(EvalZeroes
                  \o FlattenSeq([b \in DOMAIN seqs |->
                         WriteTokens(seqs[b]) \o encode_forward \o encode_loss \o <<Flush>>]),
                  trainer.dispatches_per_submit)
    IN /\ Ready /\ Fits(flat)
       /\ Answered("loss", seqs, g, g.mem[Stats][0])
       /\ UNCHANGED <<use_ple, trainer, call, history, decoded>>

debug_compare_forward(flat) ==
    LET seqs == Tagged(Cut(flat))
        g == Runs(<<WriteTokens(seqs[1])[1]>> \o encode_forward \o <<Flush>>,
                  trainer.dispatches_per_submit)
    IN /\ Ready /\ Len(flat) = TLen
       /\ Answered("logits", seqs, g, g.mem[Scratch("logits")])
       /\ UNCHANGED <<use_ple, trainer, call, history, decoded>>

\* profile_kernels runs each case against the buffers of the first layer.
encode_profile_case ==
    LET A(name) == Acts(name, 1)
        S(name) == Scratch(name)
        W(which) == LayerOf("weights", 1, which)
        G(which) == LayerOf("grads", 1, which)
    IN <<<<dispatch_linear(A("normed1"), W("wq"), A("q"), "t", "h", "h")>>,
         <<dispatch_linear(A("normed1"), W("wk"), A("k"), "t", "h", "kv")>>,
         <<dispatch_linear(A("normed2"), W("w_gate"), A("gate"), "t", "h", "ffn")>>,
         <<dispatch_linear(S("act"), W("w_down"), S("tmp_h"), "t", "ffn", "h")>>,
         <<dispatch_linear(S("final_normed"), EmbedOf("weights"), S("logits"),
                           "t", "h", "vocab")>>,
         <<dispatch_linear_bwd_dw(S("d_gate"), A("normed2"), G("w_gate"), "h", "ffn")>>,
         <<dispatch_linear_bwd_dx(S("d_gate"), W("w_gate"), S("d_a"), "h", "ffn")>>,
         <<dispatch_attention_fwd(A("q"), A("k"), A("v"), A("concat"), A("probs"))>>,
         dispatch_attention_bwd(1),
         <<dispatch_rmsnorm(S("hidden"), W("attn_norm_gain"), A("normed1"), A("inv_rms1"), "t")>>,
         <<dispatch_rmsnorm_bwd_dx(S("d_a"), A("h_in"), W("attn_norm_gain"), A("inv_rms1"),
                                   S("d_c")),
           dispatch_rmsnorm_bwd_dgain(S("d_a"), A("h_in"), A("inv_rms1"), G("attn_norm_gain"))>>,
         <<dispatch_rope(A("q"), "t", "heads", NoSeq, "fwd")>>,
         <<dispatch_swiglu(A("gate"), A("up"), S("act"), "t")>>,
         encode_adam(trainer.step, 0, [batch |-> 0, norm |-> "none"])>>

\* A warm run of each case and a timed one.
profile_kernels ==
    LET cases == encode_profile_case
        g == Runs(FlattenSeq([c \in DOMAIN cases |-> cases[c] \o <<Flush>> \o cases[c] \o <<Flush>>]),
                  64)
        nothing == [seqs |-> << >>, kind |-> "kernels"]
    IN /\ Ready
       /\ mem' = g.mem /\ longest' = 0
       /\ absorbed' = absorbed \o <<nothing, nothing>>
       /\ spoilt' = (spoilt \/ trainer.step = 0)
       /\ calls' = calls + 1 /\ answer' = Idle
       /\ UNCHANGED <<use_ple, trainer, call, held, did, decoded>>

\* download_weights and download_optimizer, one after the other.
Download ==
    /\ trainer # Idle /\ call = Idle /\ calls < MaxCalls
    /\ held' = [weights |-> [i \in Slots |-> mem[InSet("weights", i)].past],
                m |-> [i \in Slots |-> mem[InSet("m", i)]],
                v |-> [i \in Slots |-> mem[InSet("v", i)]],
                step |-> trainer.step, did |-> did, absorbed |-> absorbed]
    /\ held' # held
    /\ UNCHANGED <<use_ple, mem, trainer, call, answer, longest, did, absorbed, spoilt, calls, decoded>>

-----------------------------------------------------------------------------
(* The generation backend.  A prompt's keys and values come from the host, *)
(* oldest first; its positions are the sequences of call 0 and up.         *)

At(position) == [call |-> 0, at |-> position, toks |-> << >>]

\* `n` positions of a prompt: the host kept the last `Capacity` of them.
seed_from_cpu_cache(n) ==
    LET first == IF n > Capacity THEN n - Capacity ELSE 0
        kept == n - first
    IN /\ decoded.position = 0 /\ NotTraining
       /\ mem' = [b \in DOMAIN mem |->
                     IF b \in Caches
                     THEN [s \in 0 .. Capacity - 1 |->
                             IF s < kept
                             THEN Value(<<IF b[1] = "k_cache" THEN "k" ELSE "v", b[2]>>, At(first + s + 1))
                             ELSE mem[b][s]]
                     ELSE mem[b]]
       /\ decoded' = [position |-> n, cached_len |-> IF kept > Capacity THEN Capacity ELSE kept]
       /\ UNCHANGED <<use_ple, trainer, call, answer, longest, history, calls>>

decode_step ==
    LET seq == At(decoded.position + 1)
        cached_len == IF decoded.cached_len < Capacity THEN decoded.cached_len + 1 ELSE Capacity
        commands == decode_commands(use_ple, seq, decoded.position % Capacity, cached_len)
        g == Runs(commands, Len(commands))
    IN /\ NotTraining /\ decoded.position \in 1 .. MaxTokens
       /\ mem' = g.mem
       /\ answer' = [kind |-> "logits", seqs |-> <<seq>>, got |-> g.mem[Decoder("logits_read")]]
       /\ decoded' = [position |-> decoded.position + 1, cached_len |-> cached_len]
       /\ UNCHANGED <<use_ple, trainer, call, longest, history, calls>>

-----------------------------------------------------------------------------

Next ==
    \/ \E optimizer \in BOOLEAN : New(optimizer)
    \/ upload_optimizer
    \/ \E n \in PerSubmit : set_dispatches_per_submit(n)
    \/ \E kind \in {"train", "bench", "profile"}, flat \in Inputs : train_step(kind, flat)
    \/ FinishStep
    \/ ReadbackFails
    \/ \E flat \in Inputs : eval_loss(flat) \/ debug_compare_forward(flat)
    \/ profile_kernels
    \/ Download
    \/ Lost
    \/ \E n \in 1 .. Capacity + 1 : seed_from_cpu_cache(n)
    \/ decode_step

Spec == Init /\ [][Next]_vars

-----------------------------------------------------------------------------
(* Properties.                                                             *)

\* What the host's backward pass adds to a tensor's gradient for a batch.
HostGradient(i, seqs) ==
    FlattenSeq([b \in DOMAIN seqs |->
        [c \in DOMAIN Contributions(shapes[i]) |-> Value(Contributions(shapes[i])[c], seqs[b])]])

HostScale(seqs) == [batch |-> Len(seqs), norm |-> "own"]

\* Numbers stay in range; the GPU never holds a step the trainer has not
\* taken.
TypeOK ==
    /\ use_ple \in BOOLEAN /\ spoilt \in BOOLEAN
    /\ trainer = Idle \/ (trainer.step \in 0 .. MaxCalls /\ trainer.dispatches_per_submit >= 1)
    /\ call = Idle \/ (call.kind \in {"train", "bench", "profile"} /\ trainer # Idle)
    /\ decoded.position \in 0 .. MaxTokens + Capacity + 1 /\ decoded.cached_len \in 0 .. Capacity
    /\ calls \in 0 .. MaxCalls

\* What a step of training computes from its batch is what the host would:
\* after the backward passes every gradient buffer holds exactly what the
\* host's backward pass would have accumulated, in the same order, nothing
\* left of an earlier or a failed step, no scratch buffer reused while still
\* needed, no sequence's tokens or scatter index overwritten before its
\* commands ran; and the loss reported is summed over the sequences of the
\* batch, each once (trainer/mod.rs train_step, backward.rs, forward.rs
\* upload_scatter_index, io.rs eval_loss).
GradientsAreTheHosts ==
    /\ TypeOK
    /\ call # Idle => \A i \in Slots : mem[InSet("grads", i)] = HostGradient(i, call.seqs)
    /\ (answer # Idle /\ answer.kind = "loss") =>
          answer.got = [b \in DOMAIN answer.seqs |->
                           [of |-> Value(Top("loss_rows"), answer.seqs[b]), square |-> FALSE,
                            groups |-> "rows"]]

\* Logits read back are the model's for the tokens given: for a whole
\* sequence on the trainer, for the token decoded on the generation backend.
LogitsAreTheModels ==
    answer # Idle /\ answer.kind = "logits" =>
        answer.got = Value(Top("logits"), answer.seqs[1])

\* The updates a weight has had are those of the training steps taken, each
\* with the gradient of its own batch, the scale of that gradient's norm, the
\* bias correction of the steps counted with it, and decay for the matrices
\* only.
UpdatesAre(past) ==
    \A i \in Slots :
        past[i] = [k \in DOMAIN did |->
                      [grad |-> HostGradient(i, did[k].seqs), scale |-> HostScale(did[k].seqs),
                       step |-> did[k].step, decayed |-> decays(shapes[i])]]
WeightsInMemory == [i \in Slots |-> mem[InSet("weights", i)].past]

\* Both moments have absorbed the gradients of the batches they were shown,
\* in order, on this trainer and on those it was restored from.
MomentsAreTheHosts ==
    \A i \in Slots, set \in {"m", "v"} :
        mem[InSet(set, i)] =
            [k \in DOMAIN absorbed |->
                IF absorbed[k].kind = "kernels"
                THEN [grad |-> << >>, scale |-> [batch |-> 0, norm |-> "none"]]
                ELSE [grad |-> HostGradient(i, absorbed[k].seqs),
                      scale |-> HostScale(absorbed[k].seqs)]]

\* Weights and moments are what the host's optimizer would have made of the
\* steps taken, through measurements, benchmarks, failed and profiled steps,
\* downloads and restored moments (train_step, bench_step, profile_step,
\* upload_optimizer).  Two things the code does are not the host's.  A
\* benchmark that fails at its last wait leaves its step counted, and the
\* bias corrections from then on count it too.  The optimizer's kernel
\* profiled at step 0 divides by zero, and the weights after it are left out.
UpdatesAreTheHosts ==
    trainer # Idle => MomentsAreTheHosts /\ (~ spoilt => UpdatesAre(WeightsInMemory))

\* No submission of a training, evaluation or comparison call is longer than
\* the number of operations the page asked for (dispatch.rs Chunks, against
\* the driver's watchdog).
SubmissionsAreBounded ==
    [][longest' # longest /\ trainer # Idle => longest' <= trainer.dispatches_per_submit]_vars
=============================================================================
