------------------------------- MODULE HostMath -------------------------------
(***************************************************************************)
(* The model's arithmetic as the host computes it (llm-core model.rs,      *)
(* model/layer.rs, ops/), one record for each call of a function of ops:   *)
(* what it is given, the dimensions it is told, and what it returns.  A    *)
(* tensor is named by what it is and by its layer, 0 outside the layers;   *)
(* it has the same name whichever buffer it is in, and what a call returns *)
(* depends on its operands only.  Accumulating into a gradient is part of  *)
(* the call that computes the contribution.                                *)
(*                                                                         *)
(* `rows` is "t" for a whole sequence and "1" for a token being decoded.   *)
(***************************************************************************)
EXTENDS Naturals, Sequences

CONSTANT Layers    \* num_layers

ASSUME LayersAssumption == Layers \in Nat \ {0}

Call(op, ins, dims, outs) == [op |-> op, ins |-> ins, dims |-> dims, outs |-> outs]

Tokens == <<"tokens", 0>>
Top(name) == <<name, 0>>

\* The residual stream between layers.  Per-layer embeddings are added to
\* it on the way in.
StreamIn(l, ple) == IF ple THEN <<"x", l>> ELSE <<"h_in", l>>
StreamOut(l, ple) == IF l = Layers THEN Top("h_final") ELSE StreamIn(l + 1, ple)

-----------------------------------------------------------------------------
(* Forward: LayerWeights::forward, and the layer of decode_step.           *)

PleForward(l, rows) ==
    {Call("gather", <<<<"ple", l>>, Tokens>>, <<rows, "h">>, <<<<"ple_row", l>>>>),
     Call("add", <<<<"x", l>>, <<"ple_row", l>>>>, <<rows, "h">>, <<<<"h_in", l>>>>)}

LayerForward(l, rows, ple) ==
    LET T(name) == <<name, l>>
        linear(x, w, i, o, y) == Call("linear", <<T(x), T(w)>>, <<rows, i, o>>, <<T(y)>>)
        rope(x, heads, y) == Call("rope", <<T(x)>>, <<rows, heads, "fwd">>, <<T(y)>>)
        rmsnorm(x, gain, y, inv) ==
            Call("rmsnorm", <<T(x), T(gain)>>, <<rows, "h">>, <<T(y), T(inv)>>)
    IN {rmsnorm("h_in", "attn_norm_gain", "normed1", "inv_rms1"),
        linear("normed1", "wq", "h", "h", "q_raw"),
        linear("normed1", "wk", "h", "kv", "k_raw"),
        linear("normed1", "wv", "h", "kv", "v"),
        rope("q_raw", "heads", "q"), rope("k_raw", "kv_heads", "k"),
        Call("attention_fwd", <<T("q"), T("k"), T("v")>>, <<"t", "band">>,
             <<T("concat"), T("probs")>>),
        linear("concat", "wo", "h", "h", "attn_out"),
        Call("add", <<T("h_in"), T("attn_out")>>, <<rows, "h">>, <<T("h_after_attn")>>),
        rmsnorm("h_after_attn", "mlp_norm_gain", "normed2", "inv_rms2"),
        linear("normed2", "w_gate", "h", "ffn", "gate"),
        linear("normed2", "w_up", "h", "ffn", "up"),
        Call("swiglu", <<T("gate"), T("up")>>, <<rows, "ffn">>, <<T("act")>>),
        linear("act", "w_down", "ffn", "h", "mlp_out"),
        Call("add", <<T("h_after_attn"), T("mlp_out")>>, <<rows, "h">>, <<StreamOut(l, ple)>>)}

Forward(rows, ple) ==
    {Call("gather", <<Top("embed"), Tokens>>, <<rows, "h">>, <<StreamIn(1, ple)>>),
     Call("rmsnorm", <<Top("h_final"), Top("final_norm_gain")>>, <<rows, "h">>,
          <<Top("final_normed"), Top("final_inv_rms")>>),
     Call("linear", <<Top("final_normed"), Top("embed")>>, <<rows, "h", "vocab">>,
          <<Top("logits")>>)}
    \cup (UNION {LayerForward(l, rows, ple) : l \in 1 .. Layers})
    \cup (IF ple THEN UNION {PleForward(l, rows) : l \in 1 .. Layers} ELSE {})

-----------------------------------------------------------------------------
(* Backward: cross_entropy, backward_into and LayerWeights::backward,      *)
(* without per-layer embeddings.  linear_bwd and rmsnorm_bwd return two    *)
(* results, attention_bwd three by way of the gradient of the scores.      *)

StreamGradient(l) == IF l = Layers THEN Top("d_final") ELSE <<"d_in", l + 1>>

LayerBackward(l) ==
    LET T(name) == <<name, l>>
        dw(dy, x, i, o, g) == Call("linear_bwd_dw", <<dy, T(x)>>, <<"t", i, o>>, <<T(g)>>)
        dx(dy, w, i, o, d) == Call("linear_bwd_dx", <<dy, T(w)>>, <<"t", i, o>>, <<T(d)>>)
        add(a, b, c) == Call("add", <<a, T(b)>>, <<"t", "h">>, <<T(c)>>)
        inverse(x, heads, y) == Call("rope", <<T(x)>>, <<"t", heads, "inv">>, <<T(y)>>)
        normed(dy, x, gain, inv, dgain, d) ==
            {Call("rmsnorm_bwd_dgain", <<T(dy), T(x), T(inv)>>, <<"t", "h">>, <<T(dgain)>>),
             Call("rmsnorm_bwd_dx", <<T(dy), T(x), T(gain), T(inv)>>, <<"t", "h">>, <<T(d)>>)}
        mlp == {dw(StreamGradient(l), "act", "ffn", "h", "d_w_down"),
                dx(StreamGradient(l), "w_down", "ffn", "h", "d_act"),
                Call("swiglu_bwd", <<T("d_act"), T("gate"), T("up")>>, <<"t", "ffn">>,
                     <<T("d_gate"), T("d_up")>>),
                dw(T("d_gate"), "normed2", "h", "ffn", "d_w_gate"),
                dw(T("d_up"), "normed2", "h", "ffn", "d_w_up"),
                dx(T("d_gate"), "w_gate", "h", "ffn", "d_normed2_gate"),
                dx(T("d_up"), "w_up", "h", "ffn", "d_normed2_up"),
                add(T("d_normed2_gate"), "d_normed2_up", "d_normed2"),
                add(StreamGradient(l), "d_norm2", "d_after_attn")}
               \cup normed("d_normed2", "h_after_attn", "mlp_norm_gain", "inv_rms2",
                           "d_mlp_norm_gain", "d_norm2")
        attention == {dw(T("d_after_attn"), "concat", "h", "h", "d_wo"),
                      dx(T("d_after_attn"), "wo", "h", "h", "d_concat"),
                      Call("attention_dscore", <<T("d_concat"), T("v"), T("probs")>>,
                           <<"t", "band">>, <<T("d_score")>>),
                      Call("attention_dq", <<T("d_score"), T("k")>>, <<"t", "band">>,
                           <<T("d_q_raw")>>),
                      Call("attention_dkdv", <<T("d_score"), T("probs"), T("q"), T("d_concat")>>,
                           <<"t", "band">>, <<T("d_k_raw"), T("d_v")>>),
                      inverse("d_q_raw", "heads", "d_q"), inverse("d_k_raw", "kv_heads", "d_k"),
                      dw(T("d_q"), "normed1", "h", "h", "d_wq"),
                      dw(T("d_k"), "normed1", "h", "kv", "d_wk"),
                      dw(T("d_v"), "normed1", "h", "kv", "d_wv"),
                      dx(T("d_q"), "wq", "h", "h", "d_normed1_q"),
                      dx(T("d_k"), "wk", "h", "kv", "d_normed1_k"),
                      dx(T("d_v"), "wv", "h", "kv", "d_normed1_v"),
                      add(T("d_normed1_q"), "d_normed1_k", "d_normed1_qk"),
                      add(T("d_normed1_qk"), "d_normed1_v", "d_normed1"),
                      add(T("d_after_attn"), "d_norm1", "d_in")}
                     \cup normed("d_normed1", "h_in", "attn_norm_gain", "inv_rms1",
                                 "d_attn_norm_gain", "d_norm1")
    IN mlp \cup attention

Backward ==
    {Call("cross_entropy", <<Top("logits"), Top("targets")>>, <<"t", "vocab">>,
          <<Top("d_logits"), Top("loss_rows")>>),
     Call("linear_bwd_dw", <<Top("d_logits"), Top("final_normed")>>, <<"t", "h", "vocab">>,
          <<Top("d_embed_head")>>),
     Call("linear_bwd_dx", <<Top("d_logits"), Top("embed")>>, <<"t", "h", "vocab">>,
          <<Top("d_final_normed")>>),
     Call("rmsnorm_bwd_dgain", <<Top("d_final_normed"), Top("h_final"), Top("final_inv_rms")>>,
          <<"t", "h">>, <<Top("d_final_norm_gain")>>),
     Call("rmsnorm_bwd_dx", <<Top("d_final_normed"), Top("h_final"), Top("final_norm_gain"),
                              Top("final_inv_rms")>>, <<"t", "h">>, <<Top("d_final")>>)}
    \cup UNION {LayerBackward(l) : l \in 1 .. Layers}

\* scatter_add_rows: the positions whose gradient each row of the embedding
\* table receives, in the order they are added.
Occurrences(tokens, id) ==
    LET found[t \in 0 .. Len(tokens)] ==
          IF t = 0 THEN << >>
          ELSE IF tokens[t] = id THEN Append(found[t - 1], t) ELSE found[t - 1]
    IN found[Len(tokens)]

ScatterAddRows(tokens) ==
    [id \in {tokens[t] : t \in DOMAIN tokens} |-> Occurrences(tokens, id)]

\* What one sequence adds to the gradient of a tensor, in order.
GradientName ==
    [attn_norm_gain |-> "d_attn_norm_gain", wq |-> "d_wq", wk |-> "d_wk", wv |-> "d_wv",
     wo |-> "d_wo", mlp_norm_gain |-> "d_mlp_norm_gain", w_gate |-> "d_w_gate",
     w_up |-> "d_w_up", w_down |-> "d_w_down", final_norm_gain |-> "d_final_norm_gain"]
Contributions(tensor) ==
    IF tensor[1] = "embed" THEN <<Top("d_embed_head"), Top("d_embed_gather")>>
    ELSE <<<<GradientName[tensor[1]], tensor[2]>>>>

-----------------------------------------------------------------------------
(* What a call returns, by its operation, operands and dimensions.         *)

Calls(ple) == Forward("1", ple) \cup (IF ple THEN {} ELSE Forward("t", ple) \cup Backward)

Key(c) == <<c.op, c.ins, c.dims>>
Results == [ple \in BOOLEAN |->
               [k \in {Key(c) : c \in Calls(ple)} |->
                   (CHOOSE c \in Calls(ple) : Key(c) = k).outs]]
=============================================================================
