------------------------------ MODULE GpuPasses ------------------------------
(***************************************************************************)
(* The buffers of the GPU (llm-gpu trainer/layout.rs, model.rs) and the    *)
(* sequences of commands that make a pass of the model over them           *)
(* (trainer/forward.rs, trainer/backward.rs, model.rs decode_step).        *)
(***************************************************************************)
EXTENDS GpuKernels

-----------------------------------------------------------------------------
(* Buffers.  ParamSets store their tensors in one fixed order.             *)

Acts(name, l) == <<name, l, "acts">>
Scratch(name) == <<name, 0, "scratch">>
Decoder(name) == <<name, 0, "decoder">>
DecoderLayer(name, l) == <<name, l, "decoder">>

LayerTensors == <<"attn_norm_gain", "wq", "wk", "wv", "wo", "mlp_norm_gain",
                  "w_gate", "w_up", "w_down">>
TENSORS_PER_LAYER == Len(LayerTensors)

shapes == <<Top("embed")>>
          \o FlattenSeq([l \in 1 .. Layers |->
                 [t \in 1 .. TENSORS_PER_LAYER |-> <<LayerTensors[t], l>>]])
          \o <<Top("final_norm_gain")>>
decays(tensor) == tensor[1] \notin {"attn_norm_gain", "mlp_norm_gain", "final_norm_gain"}

Slots == 1 .. Len(shapes)
InSet(set, slot) == <<set, slot, "params">>
EmbedOf(set) == InSet(set, 1)
LayerOf(set, l, which) ==
    InSet(set, 1 + (l - 1) * TENSORS_PER_LAYER
                 + (CHOOSE t \in 1 .. TENSORS_PER_LAYER : LayerTensors[t] = which))
FinalGainOf(set) == InSet(set, 2 + Layers * TENSORS_PER_LAYER)

Stats == Scratch("stats")
StatsLen == 1 + Len(shapes)

-----------------------------------------------------------------------------
(* encode_forward.                                                         *)

ForwardLayer(l) ==
    LET A(name) == Acts(name, l)
        S(name) == Scratch(name)
        W(which) == LayerOf("weights", l, which)
    IN <<Copy(S("hidden"), A("h_in")),
         dispatch_rmsnorm(S("hidden"), W("attn_norm_gain"), A("normed1"), A("inv_rms1"), "t"),
         dispatch_linear(A("normed1"), W("wq"), A("q"), "t", "h", "h"),
         dispatch_linear(A("normed1"), W("wk"), A("k"), "t", "h", "kv"),
         dispatch_linear(A("normed1"), W("wv"), A("v"), "t", "h", "kv"),
         dispatch_rope(A("q"), "t", "heads", NoSeq, "fwd"),
         dispatch_rope(A("k"), "t", "kv_heads", NoSeq, "fwd"),
         dispatch_attention_fwd(A("q"), A("k"), A("v"), A("concat"), A("probs")),
         dispatch_linear(A("concat"), W("wo"), S("tmp_h"), "t", "h", "h"),
         dispatch_add_inplace(S("hidden"), S("tmp_h"), "t"),
         Copy(S("hidden"), A("h_after_attn")),
         dispatch_rmsnorm(S("hidden"), W("mlp_norm_gain"), A("normed2"), A("inv_rms2"), "t"),
         dispatch_linear(A("normed2"), W("w_gate"), A("gate"), "t", "h", "ffn"),
         dispatch_linear(A("normed2"), W("w_up"), A("up"), "t", "h", "ffn"),
         dispatch_swiglu(A("gate"), A("up"), S("act"), "t"),
         dispatch_linear(S("act"), W("w_down"), S("tmp_h"), "t", "ffn", "h"),
         dispatch_add_inplace(S("hidden"), S("tmp_h"), "t")>>

encode_forward ==
    LET S(name) == Scratch(name)
    IN <<dispatch_gather(EmbedOf("weights"), S("tokens"), S("hidden"), "t")>>
       \o FlattenSeq([l \in 1 .. Layers |-> ForwardLayer(l)])
       \o <<Copy(S("hidden"), S("h_final")),
            dispatch_rmsnorm(S("hidden"), FinalGainOf("weights"), S("final_normed"),
                             S("final_inv_rms"), "t"),
            dispatch_linear(S("final_normed"), EmbedOf("weights"), S("logits"),
                            "t", "h", "vocab")>>

\* The groups of a reduction stand for the length of what it sums.
ReduceInto(src, slot, square, groups) ==
    dispatch_reduce(src, Scratch("partials"), Stats, slot, square, groups)

encode_loss ==
    <<Dispatch("cross_entropy", <<"t", "vocab">>, NoSeq,
               <<Scratch("logits"), Scratch("targets")>>,
               <<Scratch("d_logits"), Scratch("loss_rows")>>)>>
    \o ReduceInto(Scratch("loss_rows"), 0, FALSE, "rows")

\* upload_scatter_index: the token ids in the order they first occur, the
\* positions of each, one id's after another's, and where each begins.
RowIds(tokens) ==
    LET ids[t \in 0 .. Len(tokens)] ==
          IF t = 0 THEN << >>
          ELSE IF \E g \in DOMAIN ids[t - 1] : ids[t - 1][g] = tokens[t] THEN ids[t - 1]
          ELSE Append(ids[t - 1], tokens[t])
    IN ids[Len(tokens)]
ScatterGroups(tokens) == Len(RowIds(tokens))

PositionsUpTo(tokens) ==
    LET upto[g \in 0 .. ScatterGroups(tokens)] ==
          IF g = 0 THEN << >> ELSE upto[g - 1] \o Occurrences(tokens, RowIds(tokens)[g])
    IN upto
RowOffsets(tokens) ==
    [g \in 1 .. ScatterGroups(tokens) + 1 |-> Len(PositionsUpTo(tokens)[g - 1])]
RowPositions(tokens) == PositionsUpTo(tokens)[ScatterGroups(tokens)]

upload_scatter_index(tokens) ==
    <<WriteBuffer(Scratch("row_ids"), RowIds(tokens)),
      WriteBuffer(Scratch("row_offsets"), RowOffsets(tokens)),
      WriteBuffer(Scratch("row_positions"), RowPositions(tokens))>>

-----------------------------------------------------------------------------
(* encode_backward.                                                        *)

\* Mutant of dispatch_attention_bwd: the scores' gradient comes last.
dispatch_attention_bwd_late(l) ==
    LET A(name) == Acts(name, l)
        S(name) == Scratch(name)
        band == <<"t", "band">>
    IN <<Dispatch("attention_dq", band, NoSeq, <<S("d_score"), A("k")>>, <<S("d_q")>>),
         Dispatch("attention_dkdv", band, NoSeq,
                  <<S("d_score"), A("probs"), A("q"), S("d_a")>>, <<S("d_k"), S("d_v")>>),
         Dispatch("attention_dscore", band, NoSeq, <<S("d_a"), A("v"), A("probs")>>,
                  <<S("d_score")>>)>>

dispatch_attention_bwd(l) ==
    LET A(name) == Acts(name, l)
        S(name) == Scratch(name)
        band == <<"t", "band">>
    IN <<Dispatch("attention_dscore", band, NoSeq, <<S("d_a"), A("v"), A("probs")>>,
                  <<S("d_score")>>),
         Dispatch("attention_dq", band, NoSeq, <<S("d_score"), A("k")>>, <<S("d_q")>>),
         Dispatch("attention_dkdv", band, NoSeq,
                  <<S("d_score"), A("probs"), A("q"), S("d_a")>>, <<S("d_k"), S("d_v")>>)>>

BackwardMlp(l) ==
    LET A(name) == Acts(name, l)
        S(name) == Scratch(name)
        W(which) == LayerOf("weights", l, which)
        G(which) == LayerOf("grads", l, which)
    IN <<dispatch_swiglu(A("gate"), A("up"), S("act"), "t"),
         dispatch_linear_bwd_dw(S("d_hidden"), S("act"), G("w_down"), "ffn", "h"),
         dispatch_linear_bwd_dx(S("d_hidden"), W("w_down"), S("d_act"), "ffn", "h"),
         dispatch_swiglu_bwd(S("d_act"), A("gate"), A("up"), S("d_gate"), S("d_up")),
         dispatch_linear_bwd_dw(S("d_gate"), A("normed2"), G("w_gate"), "h", "ffn"),
         dispatch_linear_bwd_dw(S("d_up"), A("normed2"), G("w_up"), "h", "ffn"),
         dispatch_linear_bwd_dx(S("d_gate"), W("w_gate"), S("d_a"), "h", "ffn"),
         dispatch_linear_bwd_dx(S("d_up"), W("w_up"), S("d_b"), "h", "ffn"),
         dispatch_add_inplace(S("d_a"), S("d_b"), "t"),
         dispatch_rmsnorm_bwd_dgain(S("d_a"), A("h_after_attn"), A("inv_rms2"),
                                    G("mlp_norm_gain")),
         dispatch_rmsnorm_bwd_dx(S("d_a"), A("h_after_attn"), W("mlp_norm_gain"),
                                 A("inv_rms2"), S("d_c")),
         dispatch_add_inplace(S("d_hidden"), S("d_c"), "t")>>

BackwardOutput(l) ==
    LET A(name) == Acts(name, l)
        S(name) == Scratch(name)
    IN <<dispatch_linear_bwd_dw(S("d_hidden"), A("concat"), LayerOf("grads", l, "wo"), "h", "h"),
         dispatch_linear_bwd_dx(S("d_hidden"), LayerOf("weights", l, "wo"), S("d_a"), "h", "h")>>

BackwardProjections(l) ==
    LET A(name) == Acts(name, l)
        S(name) == Scratch(name)
        W(which) == LayerOf("weights", l, which)
        G(which) == LayerOf("grads", l, which)
    IN <<dispatch_rope(S("d_q"), "t", "heads", NoSeq, "inv"),
         dispatch_rope(S("d_k"), "t", "kv_heads", NoSeq, "inv"),
         dispatch_linear_bwd_dw(S("d_q"), A("normed1"), G("wq"), "h", "h"),
         dispatch_linear_bwd_dw(S("d_k"), A("normed1"), G("wk"), "h", "kv"),
         dispatch_linear_bwd_dw(S("d_v"), A("normed1"), G("wv"), "h", "kv"),
         dispatch_linear_bwd_dx(S("d_q"), W("wq"), S("d_a"), "h", "h"),
         dispatch_linear_bwd_dx(S("d_k"), W("wk"), S("d_b"), "h", "kv"),
         dispatch_linear_bwd_dx(S("d_v"), W("wv"), S("d_c"), "h", "kv"),
         dispatch_add_inplace(S("d_a"), S("d_b"), "t"),
         dispatch_add_inplace(S("d_a"), S("d_c"), "t"),
         dispatch_rmsnorm_bwd_dgain(S("d_a"), A("h_in"), A("inv_rms1"), G("attn_norm_gain")),
         dispatch_rmsnorm_bwd_dx(S("d_a"), A("h_in"), W("attn_norm_gain"), A("inv_rms1"),
                                 S("d_c")),
         dispatch_add_inplace(S("d_hidden"), S("d_c"), "t")>>

BackwardAttention(l) ==
    BackwardOutput(l) \o dispatch_attention_bwd(l) \o BackwardProjections(l)

encode_backward(seq) ==
    LET S(name) == Scratch(name)
    IN <<dispatch_linear_bwd_dw(S("d_logits"), S("final_normed"), EmbedOf("grads"),
                                "h", "vocab"),
         dispatch_linear_bwd_dx(S("d_logits"), EmbedOf("weights"), S("d_a"), "h", "vocab"),
         dispatch_rmsnorm_bwd_dgain(S("d_a"), S("h_final"), S("final_inv_rms"),
                                    FinalGainOf("grads")),
         dispatch_rmsnorm_bwd_dx(S("d_a"), S("h_final"), FinalGainOf("weights"),
                                 S("final_inv_rms"), S("d_hidden"))>>
       \o FlattenSeq([k \in 1 .. Layers |->
              BackwardMlp(Layers + 1 - k) \o BackwardAttention(Layers + 1 - k)])
       \o <<dispatch_scatter_add(S("d_hidden"), S("row_ids"), S("row_offsets"),
                                 S("row_positions"), EmbedOf("grads"), seq,
                                 ScatterGroups(seq.toks))>>

-----------------------------------------------------------------------------
(* encode_adam: one command for each tensor.                               *)

encode_adam(step, lr, scale) ==
    [i \in Slots |->
        Dispatch("adam", [step |-> step, lr |-> lr, scale |-> scale,
                          decay |-> decays(shapes[i])],
                 NoSeq, <<InSet("grads", i)>>,
                 <<InSet("weights", i), InSet("m", i), InSet("v", i)>>)]

-----------------------------------------------------------------------------
(* decode_step of the generation backend, one command buffer for a token.  *)

\* Mutant of Attend: the cache is read before the token's key is in it.
Attend_first(l, slot, cached_len) ==
    <<dispatch_attention_decode(Decoder("q"), DecoderLayer("k_cache", l),
                                DecoderLayer("v_cache", l), Decoder("attn"), cached_len),
      CopyToSlot(Decoder("k"), DecoderLayer("k_cache", l), slot),
      CopyToSlot(Decoder("v"), DecoderLayer("v_cache", l), slot)>>

\* The token's key and value go into their slot of the ring, which is then
\* attended to.
Attend(l, slot, cached_len) ==
    <<CopyToSlot(Decoder("k"), DecoderLayer("k_cache", l), slot),
      CopyToSlot(Decoder("v"), DecoderLayer("v_cache", l), slot),
      dispatch_attention_decode(Decoder("q"), DecoderLayer("k_cache", l),
                                DecoderLayer("v_cache", l), Decoder("attn"), cached_len)>>

DecodeLayer(l, ple, seq, slot, cached_len) ==
    LET D(name) == Decoder(name)
        W(name) == DecoderLayer(name, l)
    IN (IF ple
        THEN <<dispatch_gather(W("ple"), D("token"), D("ple_row"), "1"),
               dispatch_add_inplace(D("hidden"), D("ple_row"), "1")>>
        ELSE << >>)
       \o <<dispatch_rmsnorm(D("hidden"), W("attn_norm_gain"), D("normed"), D("inv_rms"), "1"),
            dispatch_linear(D("normed"), W("wq"), D("q"), "1", "h", "h"),
            dispatch_linear(D("normed"), W("wk"), D("k"), "1", "h", "kv"),
            dispatch_linear(D("normed"), W("wv"), D("v"), "1", "h", "kv"),
            dispatch_rope(D("q"), "1", "heads", seq, "fwd"),
            dispatch_rope(D("k"), "1", "kv_heads", seq, "fwd")>>
       \o Attend(l, slot, cached_len)
       \o <<dispatch_linear(D("attn"), W("wo"), D("proj"), "1", "h", "h"),
            dispatch_add_inplace(D("hidden"), D("proj"), "1"),
            dispatch_rmsnorm(D("hidden"), W("mlp_norm_gain"), D("normed"), D("inv_rms"), "1"),
            dispatch_linear(D("normed"), W("w_gate"), D("gate"), "1", "h", "ffn"),
            dispatch_linear(D("normed"), W("w_up"), D("up"), "1", "h", "ffn"),
            dispatch_swiglu(D("gate"), D("up"), D("act"), "1"),
            dispatch_linear(D("act"), W("w_down"), D("proj"), "1", "ffn", "h"),
            dispatch_add_inplace(D("hidden"), D("proj"), "1")>>

decode_commands(ple, seq, slot, cached_len) ==
    LET D(name) == Decoder(name)
    IN <<WriteBuffer(D("token"), Value(Tokens, seq)),
         dispatch_gather(D("embed"), D("token"), D("hidden"), "1")>>
       \o FlattenSeq([l \in 1 .. Layers |-> DecodeLayer(l, ple, seq, slot, cached_len)])
       \o <<dispatch_rmsnorm(D("hidden"), D("final_norm_gain"), D("normed"), D("inv_rms"), "1"),
            dispatch_linear(D("normed"), D("embed"), D("logits"), "1", "h", "vocab"),
            Copy(D("logits"), D("logits_read")),
            Flush>>
=============================================================================
