----------------------------- MODULE GpuHostProofs -----------------------------
(***************************************************************************)
(* Proofs about GpuTraining: what its memory holds is what the host's      *)
(* arithmetic gives.  The passes over all layers leave what the host's     *)
(* table says (ForwardTurn, BackwardTurn), a step's phases leave the       *)
(* gradients of its batch (StepTurn), the optimizer's pass the updates     *)
(* made with them (AdamTurn), and HostInv holds through every call.  A     *)
(* token on the generation backend leaves the model's logits (DecodeTurn), *)
(* and LogitsInv holds through every call.                                 *)
(***************************************************************************)
EXTENDS GpuTrainingProofs, FiniteSetTheorems

-----------------------------------------------------------------------------
(* Around the layers.                                                      *)

\* What the host returns of a whole sequence, before the layers and after.
LEMMA EndsKnown ==
    ASSUME NEW table, table = Results[FALSE]
    PROVE  /\ Known(table, "gather", <<Top("embed"), Tokens>>, <<"t", "h">>, <<<<"h_in", 1>>>>)
           /\ Known(table, "rmsnorm", <<Top("h_final"), Top("final_norm_gain")>>, <<"t", "h">>,
                    <<Top("final_normed"), Top("final_inv_rms")>>)
           /\ Known(table, "linear", <<Top("final_normed"), Top("embed")>>, <<"t", "h", "vocab">>,
                    <<Top("logits")>>)
<1>p. PICK ple, rows : ple = FALSE /\ rows = "t"
  OBVIOUS
<1>1. ple \in BOOLEAN /\ (rows = "1" \/ (rows = "t" /\ ~ ple))
  BY <1>p
<1>2. StreamIn(1, ple) = <<"h_in", 1>>
  BY <1>p DEF StreamIn
<1> QED
  BY <1>1, <1>2, <1>p, ForwardKnown

\* The first and the last commands of the passes.
ForwardStart ==
    <<dispatch_gather(EmbedOf("weights"), Scratch("tokens"), Scratch("hidden"), "t")>>
LossStart ==
    <<Dispatch("cross_entropy", <<"t", "vocab">>, NoSeq, <<Scratch("logits"), Scratch("targets")>>,
               <<Scratch("d_logits"), Scratch("loss_rows")>>)>>

\* The rows of the tokens.
LEMMA ForwardStartIs ==
    ASSUME NEW s, s = ForwardStart
    PROVE  /\ IsSeq(s) /\ Len(s) = 1
           /\ s[1] = dispatch_gather(EmbedOf("weights"), Scratch("tokens"), Scratch("hidden"), "t")
<1>1. DOMAIN s = 1 .. 1 /\ s = [i \in 1 .. 1 |-> s[i]] /\ 1 \in Nat
  BY DEF ForwardStart
<1>2. IsSeq(s) /\ Len(s) = 1
  BY <1>1, SeqMade
<1> QED
  BY <1>2 DEF ForwardStart

\* A sequence goes in as the rows of its tokens.
LEMMA ForwardStartTurn ==
    ASSUME NEW table, table = Results[FALSE], NEW m, Trains(m), NEW s, s # NoSeq,
           Holds(m, Scratch("tokens"), Tokens, s),
           NEW n, Turns(table, m, ForwardStart, n)
    PROVE  Holds(n, Scratch("hidden"), <<"h_in", 1>>, s)
<1>h. s # NoSeq
  OBVIOUS
<1>t. table = Results[FALSE]
  OBVIOUS
<1>b. PICK w_embed, b_tokens, b_hidden :
        /\ w_embed = EmbedOf("weights")
        /\ b_tokens = Scratch("tokens")
        /\ b_hidden = Scratch("hidden")
  OBVIOUS
<1>v. PICK n_h_in, n_embed, n_tokens :
        /\ n_h_in = <<"h_in", 1>>
        /\ n_embed = Top("embed")
        /\ n_tokens = Tokens
  OBVIOUS
<1>c. /\ w_embed[1] = "weights"
      /\ b_tokens[1] = "tokens"
      /\ b_hidden[1] = "hidden"
  BY <1>b, LayerIn DEF Scratch, Acts, Decoder, DecoderLayer, EmbedOf, FinalGainOf, InSet
<1>d. /\ w_embed \in DOMAIN m
      /\ b_tokens \in DOMAIN m
      /\ b_hidden \in DOMAIN m
  <2>1. /\ \A i \in Slots : InSet("weights", i) \in DOMAIN m
       /\ \A i \in Slots : InSet("grads", i) \in DOMAIN m
    BY DEF Trains
  <2>2. /\ w_embed = InSet("weights", 1)
        /\ 1 \in Slots /\ 2 + Layers * 9 \in Slots
    BY <1>b, TopWeighs
  <2>3. w_embed \in DOMAIN m
    BY ONLY <2>1, <2>2
  <2> QED
    BY <1>b, <2>3 DEF Trains, ScratchNames
<1>s. PICK sq : sq = ForwardStart
  OBVIOUS
<1>q. /\ IsSeq(sq) /\ Len(sq) = 1
      /\ sq[1] = dispatch_gather(w_embed, b_tokens, b_hidden, "t")
  BY <1>b, <1>s, ForwardStartIs
<1>m. PICK mm : /\ mm[0] = m /\ mm[1] = n
                /\ \A i \in 1 .. 1 : mm[i] = Now(table, mm[i - 1], sq[i])
  BY <1>q, <1>s DEF Turns
<1>w. PICK m0, m1 :
        m0 = mm[0] /\ m1 = mm[1]
  OBVIOUS
<1>0. /\ m0 = m /\ DOMAIN m0 = DOMAIN m
      /\ Holds(m0, b_tokens, n_tokens, s)
      /\ Weighs(m0, w_embed, n_embed)
  BY <1>b, <1>v, <1>m, <1>w, TopWeighs
<1>1n. m1 = Now(table, m0, dispatch_gather(w_embed, b_tokens, b_hidden, "t"))
  <2>1. 1 \in 1 .. 1 /\ 1 - 1 = 0
    OBVIOUS
  <2> QED
    BY <1>m, <1>q, <1>w, <2>1
<1>1w. Wrote(m0, b_hidden, Value(n_h_in, s), m1)
  <2>1. Known(table, "gather", <<n_embed, n_tokens>>, <<"t", "h">>, <<n_h_in>>)
    BY <1>v, <1>t, EndsKnown
  <2> QED
    BY ONLY <1>c, <1>d, <1>h, <1>0, <1>1n, <2>1, gatherTurn
<1>1. /\ DOMAIN m1 = DOMAIN m
      /\ Holds(m1, b_hidden, n_h_in, s)
  BY ONLY <1>c, <1>d, <1>0, <1>1w DEF Wrote, WroteBoth, Holds, Weighs
<1>z. mm[0] = m /\ m0 = mm[0] /\ mm[1] = n /\ m1 = mm[1]
  BY <1>m, <1>w
<1>y. n = m1 /\ m = m0
  BY ONLY <1>z
<1> QED
  BY <1>b, <1>v, <1>y, <1>1

\* From the stream to the logits.
LEMMA ForwardEndIs ==
    ASSUME NEW s, s = ForwardEnd
    PROVE  /\ IsSeq(s) /\ Len(s) = 3
           /\ s[1] = Copy(Scratch("hidden"), Scratch("h_final"))
           /\ s[2] = dispatch_rmsnorm(Scratch("hidden"), FinalGainOf("weights"),
                 Scratch("final_normed"), Scratch("final_inv_rms"), "t")
           /\ s[3] = dispatch_linear(Scratch("final_normed"), EmbedOf("weights"), Scratch("logits"),
                 "t", "h", "vocab")
<1>1. DOMAIN s = 1 .. 3 /\ s = [i \in 1 .. 3 |-> s[i]] /\ 3 \in Nat
  BY DEF ForwardEnd
<1>2. IsSeq(s) /\ Len(s) = 3
  BY <1>1, SeqMade
<1> QED
  BY <1>2 DEF ForwardEnd

\* The logits are the host's.
LEMMA ForwardEndTurn ==
    ASSUME NEW table, table = Results[FALSE], NEW m, Trains(m), NEW s, s # NoSeq,
           Holds(m, Scratch("hidden"), Top("h_final"), s),
           NEW n, Turns(table, m, ForwardEnd, n)
    PROVE  /\ Holds(n, Scratch("h_final"), Top("h_final"), s)
           /\ Holds(n, Scratch("final_normed"), Top("final_normed"), s)
           /\ Holds(n, Scratch("final_inv_rms"), Top("final_inv_rms"), s)
           /\ Holds(n, Scratch("logits"), Top("logits"), s)
<1>h. s # NoSeq
  OBVIOUS
<1>t. table = Results[FALSE]
  OBVIOUS
<1>b. PICK b_hidden, b_h_final, w_gain, b_final_normed, b_final_inv_rms, w_embed, b_logits :
        /\ b_hidden = Scratch("hidden")
        /\ b_h_final = Scratch("h_final")
        /\ w_gain = FinalGainOf("weights")
        /\ b_final_normed = Scratch("final_normed")
        /\ b_final_inv_rms = Scratch("final_inv_rms")
        /\ w_embed = EmbedOf("weights")
        /\ b_logits = Scratch("logits")
  OBVIOUS
<1>v. PICK n_final_normed, n_final_inv_rms, n_logits, n_h_final, n_final_norm_gain, n_embed :
        /\ n_final_normed = Top("final_normed")
        /\ n_final_inv_rms = Top("final_inv_rms")
        /\ n_logits = Top("logits")
        /\ n_h_final = Top("h_final")
        /\ n_final_norm_gain = Top("final_norm_gain")
        /\ n_embed = Top("embed")
  OBVIOUS
<1>c. /\ b_hidden[1] = "hidden"
      /\ b_h_final[1] = "h_final"
      /\ w_gain[1] = "weights"
      /\ b_final_normed[1] = "final_normed"
      /\ b_final_inv_rms[1] = "final_inv_rms"
      /\ w_embed[1] = "weights"
      /\ b_logits[1] = "logits"
  BY <1>b, LayerIn DEF Scratch, Acts, Decoder, DecoderLayer, EmbedOf, FinalGainOf, InSet
<1>d. /\ b_hidden \in DOMAIN m
      /\ b_h_final \in DOMAIN m
      /\ w_gain \in DOMAIN m
      /\ b_final_normed \in DOMAIN m
      /\ b_final_inv_rms \in DOMAIN m
      /\ w_embed \in DOMAIN m
      /\ b_logits \in DOMAIN m
  <2>1. /\ \A i \in Slots : InSet("weights", i) \in DOMAIN m
       /\ \A i \in Slots : InSet("grads", i) \in DOMAIN m
    BY DEF Trains
  <2>2. /\ w_gain = InSet("weights", 2 + Layers * 9)
        /\ w_embed = InSet("weights", 1)
        /\ 1 \in Slots /\ 2 + Layers * 9 \in Slots
    BY <1>b, TopWeighs
  <2>3. /\ w_gain \in DOMAIN m
        /\ w_embed \in DOMAIN m
    BY ONLY <2>1, <2>2
  <2> QED
    BY <1>b, <2>3 DEF Trains, ScratchNames
<1>s. PICK sq : sq = ForwardEnd
  OBVIOUS
<1>q. /\ IsSeq(sq) /\ Len(sq) = 3
      /\ sq[1] = Copy(b_hidden, b_h_final)
      /\ sq[2] = dispatch_rmsnorm(b_hidden, w_gain, b_final_normed, b_final_inv_rms, "t")
      /\ sq[3] = dispatch_linear(b_final_normed, w_embed, b_logits, "t", "h", "vocab")
  BY <1>b, <1>s, ForwardEndIs
<1>m. PICK mm : /\ mm[0] = m /\ mm[3] = n
                /\ \A i \in 1 .. 3 : mm[i] = Now(table, mm[i - 1], sq[i])
  BY <1>q, <1>s DEF Turns
<1>w. PICK m0, m1, m2, m3 :
        m0 = mm[0] /\ m1 = mm[1] /\ m2 = mm[2] /\ m3 = mm[3]
  OBVIOUS
<1>0. /\ m0 = m /\ DOMAIN m0 = DOMAIN m
      /\ Holds(m0, b_hidden, n_h_final, s)
      /\ Weighs(m0, w_embed, n_embed)
      /\ Weighs(m0, w_gain, n_final_norm_gain)
  BY <1>b, <1>v, <1>m, <1>w, TopWeighs
<1>1n. m1 = Now(table, m0, Copy(b_hidden, b_h_final))
  <2>1. 1 \in 1 .. 3 /\ 1 - 1 = 0
    OBVIOUS
  <2> QED
    BY <1>m, <1>q, <1>w, <2>1
<1>1w. Wrote(m0, b_h_final, m0[b_hidden], m1)
  BY ONLY <1>0, <1>d, <1>1n, Copies
<1>1. /\ DOMAIN m1 = DOMAIN m
      /\ Holds(m1, b_h_final, n_h_final, s)
      /\ Holds(m1, b_hidden, n_h_final, s)
      /\ Weighs(m1, w_embed, n_embed)
      /\ Weighs(m1, w_gain, n_final_norm_gain)
  BY ONLY <1>c, <1>d, <1>0, <1>1w DEF Wrote, WroteBoth, Holds, Weighs
<1>2n. m2 = Now(table, m1, dispatch_rmsnorm(b_hidden, w_gain, b_final_normed, b_final_inv_rms, "t"))
  <2>1. 2 \in 1 .. 3 /\ 2 - 1 = 1
    OBVIOUS
  <2> QED
    BY <1>m, <1>q, <1>w, <2>1
<1>2w. WroteBoth(m1, b_final_normed, Value(n_final_normed, s), b_final_inv_rms,
          Value(n_final_inv_rms, s), m2)
  <2>1. Known(table, "rmsnorm", <<n_h_final, n_final_norm_gain>>, <<"t", "h">>, <<n_final_normed,
            n_final_inv_rms>>)
    BY <1>v, <1>t, EndsKnown
  <2> QED
    BY ONLY <1>c, <1>d, <1>h, <1>1, <1>2n, <2>1, rmsnormTurn
<1>2. /\ DOMAIN m2 = DOMAIN m
      /\ Holds(m2, b_final_inv_rms, n_final_inv_rms, s)
      /\ Holds(m2, b_final_normed, n_final_normed, s)
      /\ Holds(m2, b_h_final, n_h_final, s)
      /\ Weighs(m2, w_embed, n_embed)
  BY ONLY <1>c, <1>d, <1>1, <1>2w DEF Wrote, WroteBoth, Holds, Weighs
<1>3n. m3 = Now(table, m2, dispatch_linear(b_final_normed, w_embed, b_logits, "t", "h", "vocab"))
  <2>1. 3 \in 1 .. 3 /\ 3 - 1 = 2
    OBVIOUS
  <2> QED
    BY <1>m, <1>q, <1>w, <2>1
<1>3w. Wrote(m2, b_logits, Value(n_logits, s), m3)
  <2>1. Known(table, "linear", <<n_final_normed, n_embed>>, <<"t", "h", "vocab">>, <<n_logits>>)
    BY <1>v, <1>t, EndsKnown
  <2> QED
    BY ONLY <1>c, <1>d, <1>h, <1>2, <1>3n, <2>1, linearTurn
<1>3. /\ DOMAIN m3 = DOMAIN m
      /\ Holds(m3, b_final_inv_rms, n_final_inv_rms, s)
      /\ Holds(m3, b_final_normed, n_final_normed, s)
      /\ Holds(m3, b_h_final, n_h_final, s)
      /\ Holds(m3, b_logits, n_logits, s)
  BY ONLY <1>c, <1>d, <1>2, <1>3w DEF Wrote, WroteBoth, Holds, Weighs
<1>z. mm[0] = m /\ m0 = mm[0] /\ mm[3] = n /\ m3 = mm[3]
  BY <1>m, <1>w
<1>y. n = m3 /\ m = m0
  BY ONLY <1>z
<1> QED
  BY <1>b, <1>v, <1>y, <1>3

\* The loss of each position.
LEMMA LossStartIs ==
    ASSUME NEW s, s = LossStart
    PROVE  /\ IsSeq(s) /\ Len(s) = 1
           /\ s[1] = Dispatch("cross_entropy", <<"t", "vocab">>, NoSeq, <<Scratch("logits"),
                 Scratch("targets")>>, <<Scratch("d_logits"), Scratch("loss_rows")>>)
<1>1. DOMAIN s = 1 .. 1 /\ s = [i \in 1 .. 1 |-> s[i]] /\ 1 \in Nat
  BY DEF LossStart
<1>2. IsSeq(s) /\ Len(s) = 1
  BY <1>1, SeqMade
<1> QED
  BY <1>2 DEF LossStart

\* The losses and the logits' gradient are the host's.
LEMMA LossStartTurn ==
    ASSUME NEW table, table = Results[FALSE], NEW m, Trains(m), NEW s, s # NoSeq,
           Holds(m, Scratch("logits"), Top("logits"), s),
           Holds(m, Scratch("targets"), Top("targets"), s),
           NEW n, Turns(table, m, LossStart, n)
    PROVE  /\ Holds(n, Scratch("d_logits"), Top("d_logits"), s)
           /\ Holds(n, Scratch("loss_rows"), Top("loss_rows"), s)
<1>h. s # NoSeq
  OBVIOUS
<1>t. table = Results[FALSE]
  OBVIOUS
<1>b. PICK b_logits, b_targets, b_d_logits, b_loss_rows :
        /\ b_logits = Scratch("logits")
        /\ b_targets = Scratch("targets")
        /\ b_d_logits = Scratch("d_logits")
        /\ b_loss_rows = Scratch("loss_rows")
  OBVIOUS
<1>v. PICK n_d_logits, n_loss_rows, n_logits, n_targets :
        /\ n_d_logits = Top("d_logits")
        /\ n_loss_rows = Top("loss_rows")
        /\ n_logits = Top("logits")
        /\ n_targets = Top("targets")
  OBVIOUS
<1>c. /\ b_logits[1] = "logits"
      /\ b_targets[1] = "targets"
      /\ b_d_logits[1] = "d_logits"
      /\ b_loss_rows[1] = "loss_rows"
  BY <1>b, LayerIn DEF Scratch, Acts, Decoder, DecoderLayer, EmbedOf, FinalGainOf, InSet
<1>d. /\ b_logits \in DOMAIN m
      /\ b_targets \in DOMAIN m
      /\ b_d_logits \in DOMAIN m
      /\ b_loss_rows \in DOMAIN m
  BY <1>b DEF Trains, ScratchNames
<1>s. PICK sq : sq = LossStart
  OBVIOUS
<1>q. /\ IsSeq(sq) /\ Len(sq) = 1
      /\ sq[1] = Dispatch("cross_entropy", <<"t", "vocab">>, NoSeq, <<b_logits, b_targets>>,
            <<b_d_logits, b_loss_rows>>)
  BY <1>b, <1>s, LossStartIs
<1>m. PICK mm : /\ mm[0] = m /\ mm[1] = n
                /\ \A i \in 1 .. 1 : mm[i] = Now(table, mm[i - 1], sq[i])
  BY <1>q, <1>s DEF Turns
<1>w. PICK m0, m1 :
        m0 = mm[0] /\ m1 = mm[1]
  OBVIOUS
<1>0. /\ m0 = m /\ DOMAIN m0 = DOMAIN m
      /\ Holds(m0, b_logits, n_logits, s)
      /\ Holds(m0, b_targets, n_targets, s)
  BY <1>b, <1>v, <1>m, <1>w, TopWeighs
<1>1n. m1 = Now(table, m0, Dispatch("cross_entropy", <<"t", "vocab">>, NoSeq, <<b_logits,
          b_targets>>, <<b_d_logits, b_loss_rows>>))
  <2>1. 1 \in 1 .. 1 /\ 1 - 1 = 0
    OBVIOUS
  <2> QED
    BY <1>m, <1>q, <1>w, <2>1
<1>1w. WroteBoth(m0, b_d_logits, Value(n_d_logits, s), b_loss_rows, Value(n_loss_rows, s), m1)
  <2>1. Known(table, "cross_entropy", <<n_logits, n_targets>>, <<"t", "vocab">>, <<n_d_logits,
            n_loss_rows>>)
    BY <1>v, <1>t, BackwardKnown
  <2> QED
    BY ONLY <1>c, <1>d, <1>h, <1>0, <1>1n, <2>1, cross_entropyTurn
<1>1. /\ DOMAIN m1 = DOMAIN m
      /\ Holds(m1, b_d_logits, n_d_logits, s)
      /\ Holds(m1, b_loss_rows, n_loss_rows, s)
  BY ONLY <1>c, <1>d, <1>0, <1>1w DEF Wrote, WroteBoth, Holds, Weighs
<1>z. mm[0] = m /\ m0 = mm[0] /\ mm[1] = n /\ m1 = mm[1]
  BY <1>m, <1>w
<1>y. n = m1 /\ m = m0
  BY ONLY <1>z
<1> QED
  BY <1>b, <1>v, <1>y, <1>1

\* From the logits back.
LEMMA BackwardStartIs ==
    ASSUME NEW s, s = BackwardStart
    PROVE  /\ IsSeq(s) /\ Len(s) = 4
           /\ s[1] = dispatch_linear_bwd_dw(Scratch("d_logits"), Scratch("final_normed"),
                 EmbedOf("grads"), "h", "vocab")
           /\ s[2] = dispatch_linear_bwd_dx(Scratch("d_logits"), EmbedOf("weights"), Scratch("d_a"),
                 "h", "vocab")
           /\ s[3] = dispatch_rmsnorm_bwd_dgain(Scratch("d_a"), Scratch("h_final"),
                 Scratch("final_inv_rms"), FinalGainOf("grads"))
           /\ s[4] = dispatch_rmsnorm_bwd_dx(Scratch("d_a"), Scratch("h_final"),
                 FinalGainOf("weights"), Scratch("final_inv_rms"), Scratch("d_hidden"))
<1>1. DOMAIN s = 1 .. 4 /\ s = [i \in 1 .. 4 |-> s[i]] /\ 4 \in Nat
  BY DEF BackwardStart
<1>2. IsSeq(s) /\ Len(s) = 4
  BY <1>1, SeqMade
<1> QED
  BY <1>2 DEF BackwardStart

\* The tensors outside the layers grow by what comes from the logits.
HeadGrows(m, n, s) ==
    /\ n[EmbedOf("grads")] = Append(m[EmbedOf("grads")], Value(Top("d_embed_head"), s))
    /\ n[FinalGainOf("grads")] = Append(m[FinalGainOf("grads")], Value(Top("d_final_norm_gain"), s))

\* Back from the logits to the stream.
LEMMA BackwardStartTurn ==
    ASSUME NEW table, table = Results[FALSE], NEW m, Trains(m), NEW s, s # NoSeq,
           Holds(m, Scratch("d_logits"), Top("d_logits"), s),
           Holds(m, Scratch("final_normed"), Top("final_normed"), s),
           Holds(m, Scratch("h_final"), Top("h_final"), s),
           Holds(m, Scratch("final_inv_rms"), Top("final_inv_rms"), s),
           NEW n, Turns(table, m, BackwardStart, n)
    PROVE  /\ Holds(n, Scratch("d_hidden"), Top("d_final"), s)
           /\ HeadGrows(m, n, s)
<1>h. s # NoSeq
  OBVIOUS
<1>t. table = Results[FALSE]
  OBVIOUS
<1>b. PICK b_d_logits, b_final_normed, g_embed, w_embed, b_d_a, b_h_final, b_final_inv_rms, g_gain,
          w_gain, b_d_hidden :
        /\ b_d_logits = Scratch("d_logits")
        /\ b_final_normed = Scratch("final_normed")
        /\ g_embed = EmbedOf("grads")
        /\ w_embed = EmbedOf("weights")
        /\ b_d_a = Scratch("d_a")
        /\ b_h_final = Scratch("h_final")
        /\ b_final_inv_rms = Scratch("final_inv_rms")
        /\ g_gain = FinalGainOf("grads")
        /\ w_gain = FinalGainOf("weights")
        /\ b_d_hidden = Scratch("d_hidden")
  OBVIOUS
<1>v. PICK n_d_embed_head, n_d_final_normed, n_d_final_norm_gain, n_d_final, n_d_logits,
          n_final_normed, n_embed, n_h_final, n_final_inv_rms, n_final_norm_gain :
        /\ n_d_embed_head = Top("d_embed_head")
        /\ n_d_final_normed = Top("d_final_normed")
        /\ n_d_final_norm_gain = Top("d_final_norm_gain")
        /\ n_d_final = Top("d_final")
        /\ n_d_logits = Top("d_logits")
        /\ n_final_normed = Top("final_normed")
        /\ n_embed = Top("embed")
        /\ n_h_final = Top("h_final")
        /\ n_final_inv_rms = Top("final_inv_rms")
        /\ n_final_norm_gain = Top("final_norm_gain")
  OBVIOUS
<1>c. /\ b_d_logits[1] = "d_logits"
      /\ b_final_normed[1] = "final_normed"
      /\ g_embed[1] = "grads"
      /\ w_embed[1] = "weights"
      /\ b_d_a[1] = "d_a"
      /\ b_h_final[1] = "h_final"
      /\ b_final_inv_rms[1] = "final_inv_rms"
      /\ g_gain[1] = "grads"
      /\ w_gain[1] = "weights"
      /\ b_d_hidden[1] = "d_hidden"
  BY <1>b, LayerIn DEF Scratch, Acts, Decoder, DecoderLayer, EmbedOf, FinalGainOf, InSet
<1>d. /\ b_d_logits \in DOMAIN m
      /\ b_final_normed \in DOMAIN m
      /\ g_embed \in DOMAIN m
      /\ w_embed \in DOMAIN m
      /\ b_d_a \in DOMAIN m
      /\ b_h_final \in DOMAIN m
      /\ b_final_inv_rms \in DOMAIN m
      /\ g_gain \in DOMAIN m
      /\ w_gain \in DOMAIN m
      /\ b_d_hidden \in DOMAIN m
  <2>1. /\ \A i \in Slots : InSet("weights", i) \in DOMAIN m
       /\ \A i \in Slots : InSet("grads", i) \in DOMAIN m
    BY DEF Trains
  <2>2. /\ g_embed = InSet("grads", 1)
        /\ w_embed = InSet("weights", 1)
        /\ g_gain = InSet("grads", 2 + Layers * 9)
        /\ w_gain = InSet("weights", 2 + Layers * 9)
        /\ 1 \in Slots /\ 2 + Layers * 9 \in Slots
    BY <1>b, TopWeighs
  <2>3. /\ g_embed \in DOMAIN m
        /\ w_embed \in DOMAIN m
        /\ g_gain \in DOMAIN m
        /\ w_gain \in DOMAIN m
    BY ONLY <2>1, <2>2
  <2> QED
    BY <1>b, <2>3 DEF Trains, ScratchNames
<1>e. g_embed # g_gain
  <2>1. Layers \in Nat /\ g_embed = InSet("grads", 1) /\ g_gain = InSet("grads", 2 + Layers * 9)
    BY <1>b, TopWeighs, ShapesAre
  <2> QED
    BY <2>1 DEF InSet
<1>s. PICK sq : sq = BackwardStart
  OBVIOUS
<1>q. /\ IsSeq(sq) /\ Len(sq) = 4
      /\ sq[1] = dispatch_linear_bwd_dw(b_d_logits, b_final_normed, g_embed, "h", "vocab")
      /\ sq[2] = dispatch_linear_bwd_dx(b_d_logits, w_embed, b_d_a, "h", "vocab")
      /\ sq[3] = dispatch_rmsnorm_bwd_dgain(b_d_a, b_h_final, b_final_inv_rms, g_gain)
      /\ sq[4] = dispatch_rmsnorm_bwd_dx(b_d_a, b_h_final, w_gain, b_final_inv_rms, b_d_hidden)
  BY <1>b, <1>s, BackwardStartIs
<1>m. PICK mm : /\ mm[0] = m /\ mm[4] = n
                /\ \A i \in 1 .. 4 : mm[i] = Now(table, mm[i - 1], sq[i])
  BY <1>q, <1>s DEF Turns
<1>w. PICK m0, m1, m2, m3, m4 :
        m0 = mm[0] /\ m1 = mm[1] /\ m2 = mm[2] /\ m3 = mm[3] /\ m4 = mm[4]
  OBVIOUS
<1>0. /\ m0 = m /\ DOMAIN m0 = DOMAIN m
      /\ Holds(m0, b_d_logits, n_d_logits, s)
      /\ Holds(m0, b_final_inv_rms, n_final_inv_rms, s)
      /\ Holds(m0, b_final_normed, n_final_normed, s)
      /\ Holds(m0, b_h_final, n_h_final, s)
      /\ m0[g_embed] = m0[g_embed]
      /\ m0[g_gain] = m0[g_gain]
      /\ Weighs(m0, w_embed, n_embed)
      /\ Weighs(m0, w_gain, n_final_norm_gain)
  BY <1>b, <1>v, <1>m, <1>w, TopWeighs
<1>1n. m1 = Now(table, m0, dispatch_linear_bwd_dw(b_d_logits, b_final_normed, g_embed, "h",
          "vocab"))
  <2>1. 1 \in 1 .. 4 /\ 1 - 1 = 0
    OBVIOUS
  <2> QED
    BY <1>m, <1>q, <1>w, <2>1
<1>1w. Wrote(m0, g_embed, Append(m0[g_embed], Value(n_d_embed_head, s)), m1)
  <2>1. Known(table, "linear_bwd_dw", <<n_d_logits, n_final_normed>>, <<"t", "h", "vocab">>,
            <<n_d_embed_head>>)
    BY <1>v, <1>t, BackwardKnown
  <2> QED
    BY ONLY <1>c, <1>e, <1>d, <1>h, <1>0, <1>1n, <2>1, linear_bwd_dwTurn
<1>1. /\ DOMAIN m1 = DOMAIN m
      /\ Holds(m1, b_d_logits, n_d_logits, s)
      /\ Holds(m1, b_final_inv_rms, n_final_inv_rms, s)
      /\ Holds(m1, b_h_final, n_h_final, s)
      /\ m1[g_embed] = Append(m0[g_embed], Value(n_d_embed_head, s))
      /\ m1[g_gain] = m0[g_gain]
      /\ Weighs(m1, w_embed, n_embed)
      /\ Weighs(m1, w_gain, n_final_norm_gain)
  BY ONLY <1>c, <1>e, <1>d, <1>0, <1>1w DEF Wrote, WroteBoth, Holds, Weighs
<1>2n. m2 = Now(table, m1, dispatch_linear_bwd_dx(b_d_logits, w_embed, b_d_a, "h", "vocab"))
  <2>1. 2 \in 1 .. 4 /\ 2 - 1 = 1
    OBVIOUS
  <2> QED
    BY <1>m, <1>q, <1>w, <2>1
<1>2w. Wrote(m1, b_d_a, Value(n_d_final_normed, s), m2)
  <2>1. Known(table, "linear_bwd_dx", <<n_d_logits, n_embed>>, <<"t", "h", "vocab">>,
            <<n_d_final_normed>>)
    BY <1>v, <1>t, BackwardKnown
  <2> QED
    BY ONLY <1>c, <1>e, <1>d, <1>h, <1>1, <1>2n, <2>1, linear_bwd_dxTurn
<1>2. /\ DOMAIN m2 = DOMAIN m
      /\ Holds(m2, b_d_a, n_d_final_normed, s)
      /\ Holds(m2, b_final_inv_rms, n_final_inv_rms, s)
      /\ Holds(m2, b_h_final, n_h_final, s)
      /\ m2[g_embed] = Append(m0[g_embed], Value(n_d_embed_head, s))
      /\ m2[g_gain] = m0[g_gain]
      /\ Weighs(m2, w_gain, n_final_norm_gain)
  BY ONLY <1>c, <1>e, <1>d, <1>1, <1>2w DEF Wrote, WroteBoth, Holds, Weighs
<1>3n. m3 = Now(table, m2, dispatch_rmsnorm_bwd_dgain(b_d_a, b_h_final, b_final_inv_rms, g_gain))
  <2>1. 3 \in 1 .. 4 /\ 3 - 1 = 2
    OBVIOUS
  <2> QED
    BY <1>m, <1>q, <1>w, <2>1
<1>3w. Wrote(m2, g_gain, Append(m2[g_gain], Value(n_d_final_norm_gain, s)), m3)
  <2>1. Known(table, "rmsnorm_bwd_dgain", <<n_d_final_normed, n_h_final, n_final_inv_rms>>, <<"t",
            "h">>, <<n_d_final_norm_gain>>)
    BY <1>v, <1>t, BackwardKnown
  <2> QED
    BY ONLY <1>c, <1>e, <1>d, <1>h, <1>2, <1>3n, <2>1, rmsnorm_bwd_dgainTurn
<1>3. /\ DOMAIN m3 = DOMAIN m
      /\ Holds(m3, b_d_a, n_d_final_normed, s)
      /\ Holds(m3, b_final_inv_rms, n_final_inv_rms, s)
      /\ Holds(m3, b_h_final, n_h_final, s)
      /\ m3[g_embed] = Append(m0[g_embed], Value(n_d_embed_head, s))
      /\ m3[g_gain] = Append(m0[g_gain], Value(n_d_final_norm_gain, s))
      /\ Weighs(m3, w_gain, n_final_norm_gain)
  BY ONLY <1>c, <1>e, <1>d, <1>2, <1>3w DEF Wrote, WroteBoth, Holds, Weighs
<1>4n. m4 = Now(table, m3, dispatch_rmsnorm_bwd_dx(b_d_a, b_h_final, w_gain, b_final_inv_rms,
          b_d_hidden))
  <2>1. 4 \in 1 .. 4 /\ 4 - 1 = 3
    OBVIOUS
  <2> QED
    BY <1>m, <1>q, <1>w, <2>1
<1>4w. Wrote(m3, b_d_hidden, Value(n_d_final, s), m4)
  <2>1. Known(table, "rmsnorm_bwd_dx", <<n_d_final_normed, n_h_final, n_final_norm_gain,
            n_final_inv_rms>>, <<"t", "h">>, <<n_d_final>>)
    BY <1>v, <1>t, BackwardKnown
  <2> QED
    BY ONLY <1>c, <1>e, <1>d, <1>h, <1>3, <1>4n, <2>1, rmsnorm_bwd_dxTurn
<1>4. /\ DOMAIN m4 = DOMAIN m
      /\ Holds(m4, b_d_hidden, n_d_final, s)
      /\ m4[g_embed] = Append(m0[g_embed], Value(n_d_embed_head, s))
      /\ m4[g_gain] = Append(m0[g_gain], Value(n_d_final_norm_gain, s))
  BY ONLY <1>c, <1>e, <1>d, <1>3, <1>4w DEF Wrote, WroteBoth, Holds, Weighs
<1>z. mm[0] = m /\ m0 = mm[0] /\ mm[4] = n /\ m4 = mm[4]
  BY <1>m, <1>w
<1>y. n = m4 /\ m = m0
  BY ONLY <1>z
<1> QED
  BY <1>b, <1>v, <1>y, <1>4 DEF HeadGrows

-----------------------------------------------------------------------------
(* The forward pass, as a whole.                                           *)

\* Sequences one after another are a sequence.
LEMMA FlatIsSeq ==
    ASSUME NEW n \in Nat, NEW ss, DOMAIN ss = 1 .. n, ss = [i \in 1 .. n |-> ss[i]],
           \A i \in 1 .. n : IsSeq(ss[i])
    PROVE  IsSeq(FlattenSeq(ss))
<1>1. PICK f : /\ f[0] = << >> /\ f[n] = FlattenSeq(ss)
               /\ \A k \in 0 .. n : IsSeq(f[k])
               /\ \A k \in 1 .. n : f[k] = f[k - 1] \o ss[k]
  BY FlatIs
<1>2. n \in 0 .. n
  OBVIOUS
<1> QED
  BY ONLY <1>1, <1>2

\* What the first and the last commands leave alone.
LEMMA ForwardEndsPass ==
    ASSUME NEW b
    PROVE  /\ b # Scratch("hidden") => Passing(ForwardStart, b)
           /\ b \notin {Scratch("h_final"), Scratch("final_normed"), Scratch("final_inv_rms"),
                        Scratch("logits")} => Passing(ForwardEnd, b)
<1>1. b # Scratch("hidden") => Passing(ForwardStart, b)
  BY OnePassing, CommandsPass DEF ForwardStart
<1>2. ASSUME b \notin {Scratch("h_final"), Scratch("final_normed"), Scratch("final_inv_rms"),
                       Scratch("logits")}
      PROVE  Passing(ForwardEnd, b)
  <2>p. PICK s : s = ForwardEnd
    OBVIOUS
  <2>1. Passes(s[1], b)
    BY <1>2, <2>p, ForwardEndIs, CommandsPass
  <2>2. Passes(s[2], b)
    BY <1>2, <2>p, ForwardEndIs, CommandsPass
  <2>3. Passes(s[3], b)
    BY <1>2, <2>p, ForwardEndIs, CommandsPass
  <2>4. \A i \in 1 .. 3 : Passes(s[i], b)
    BY ONLY <2>1, <2>2, <2>3
  <2> QED
    BY <2>p, <2>4, ForwardEndIs DEF Passing
<1> QED
  BY <1>1, <1>2

\* The layers have the host's activations, and the stream is what the last
\* of them gave.
Through(m, k, s) ==
    /\ \A l \in 1 .. k : Activated(m, l, s)
    /\ Holds(m, Scratch("hidden"), IF k = Layers THEN Top("h_final") ELSE <<"h_in", k + 1>>, s)

\* One layer more.
LEMMA ThroughLayer ==
    ASSUME NEW table, table = Results[FALSE], NEW m, Trains(m), NEW s, s # NoSeq,
           NEW k \in 0 .. Layers - 1, Through(m, k, s),
           NEW n, Turns(table, m, ForwardLayer(k + 1), n)
    PROVE  Trains(n) /\ DOMAIN n = DOMAIN m /\ Through(n, k + 1, s)
<1>p. PICK l : l = k + 1
  OBVIOUS
<1>1. Layers \in Nat /\ k \in Nat /\ l \in 1 .. Layers /\ k # Layers
  BY <1>p, LayersAssumption
<1>2. Turns(table, m, ForwardLayer(l), n)
  BY <1>p
<1>3. Holds(m, Scratch("hidden"), <<"h_in", l>>, s)
  BY <1>1, <1>p DEF Through
<1>4. Activated(n, l, s) /\ Holds(n, Scratch("hidden"), StreamOut(l, FALSE), s)
  BY <1>1, <1>2, <1>3, ForwardLayerTurn
<1>5. \A b : Lasting(b) => Passing(ForwardLayer(l), b)
  <2> SUFFICES ASSUME NEW b, Lasting(b) PROVE Passing(ForwardLayer(l), b)
    OBVIOUS
  <2>1. /\ \A name : Acts(name, l) # b
        /\ Scratch("hidden") # b /\ Scratch("tmp_h") # b /\ Scratch("act") # b
    BY LastingApart DEF ScratchNames
  <2> QED
    BY <2>1, ForwardLayerPasses
<1>6. Trains(n) /\ DOMAIN n = DOMAIN m
  BY ONLY <1>2, <1>5, Trains(m), TrainsStill
<1>7. ASSUME NEW j \in 1 .. k PROVE Activated(n, j, s)
  <2>1. j \in 1 .. Layers /\ j # l /\ Activated(m, j, s)
    BY <1>1, <1>p DEF Through
  <2>2. \A name : Passing(ForwardLayer(l), Acts(name, j))
    <3> SUFFICES ASSUME NEW name PROVE Passing(ForwardLayer(l), Acts(name, j))
      OBVIOUS
    <3>p. PICK b : b = Acts(name, j)
      OBVIOUS
    <3>1. \A x : Acts(x, l) # b
      BY <2>1, <3>p DEF Acts
    <3>2. Scratch("hidden") # b /\ Scratch("tmp_h") # b /\ Scratch("act") # b
      BY <3>p, ActsApart
    <3> QED
      BY <3>1, <3>2, <3>p, ForwardLayerPasses
  <2> QED
    BY ONLY <1>2, <2>1, <2>2, Trains(m), ActivatedStill
<1>8. \A j \in 1 .. l : Activated(n, j, s)
  <2>1. \A j \in 1 .. l : j = l \/ j \in 1 .. k
    BY <1>1, <1>p
  <2> QED
    BY ONLY <1>4, <1>7, <2>1
<1>9. Holds(n, Scratch("hidden"), IF l = Layers THEN Top("h_final") ELSE <<"h_in", l + 1>>, s)
  <2>1. StreamOut(l, FALSE) = IF l = Layers THEN Top("h_final") ELSE <<"h_in", l + 1>>
    BY DEF StreamOut, StreamIn
  <2> QED
    BY <1>4, <2>1
<1> QED
  BY <1>6, <1>8, <1>9, <1>p DEF Through

\* What the forward pass leaves: the memory of a trainer with the
\* activations of every layer and the end of the stream.
Forwarded(n, s) ==
    /\ \A l \in 1 .. Layers : Activated(n, l, s)
    /\ Holds(n, Scratch("h_final"), Top("h_final"), s)
    /\ Holds(n, Scratch("final_normed"), Top("final_normed"), s)
    /\ Holds(n, Scratch("final_inv_rms"), Top("final_inv_rms"), s)
    /\ Holds(n, Scratch("logits"), Top("logits"), s)

\* The forward pass computes what the host's does of a sequence.
LEMMA ForwardTurn ==
    ASSUME NEW table, table = Results[FALSE], NEW m, Trains(m), NEW s, s # NoSeq,
           Holds(m, Scratch("tokens"), Tokens, s),
           NEW n, Turns(table, m, encode_forward, n)
    PROVE  Trains(n) /\ DOMAIN n = DOMAIN m /\ Forwarded(n, s)
<1>p. PICK ss : ss = [l \in 1 .. Layers |-> ForwardLayer(l)]
  OBVIOUS
<1>q. PICK q1, q2, q3 : q1 = ForwardStart /\ q2 = FlattenSeq(ss) /\ q3 = ForwardEnd
  OBVIOUS
<1>1. Layers \in Nat \ {0} /\ Layers \in Nat /\ DOMAIN ss = 1 .. Layers /\ ss = [l \in 1 .. Layers |-> ss[l]]
  BY <1>p, LayersAssumption
<1>2. \A l \in 1 .. Layers : IsSeq(ss[l]) /\ ss[l] = ForwardLayer(l)
  BY <1>p, ForwardLayerIs
<1>3. IsSeq(q1) /\ IsSeq(q2) /\ IsSeq(q3) /\ IsSeq(q1 \o q2)
  <2>1. IsSeq(q1) /\ IsSeq(q3)
    BY <1>q, ForwardStartIs, ForwardEndIs
  <2>2. IsSeq(q2)
    BY <1>1, <1>2, <1>q, FlatIsSeq
  <2> QED
    BY <2>1, <2>2, ConcatIs
<1>4. Turns(table, m, (q1 \o q2) \o q3, n)
  BY <1>p, <1>q DEF encode_forward, ForwardStart, ForwardEnd
<1>5. PICK m2 : Turns(table, m, q1 \o q2, m2) /\ Turns(table, m2, q3, n)
  BY ONLY <1>3, <1>4, TurnsSplit
<1>6. PICK m1 : Turns(table, m, q1, m1) /\ Turns(table, m1, q2, m2)
  BY ONLY <1>3, <1>5, TurnsSplit
<1>7. PICK mm : /\ mm[0] = m1 /\ mm[Layers] = m2
                /\ \A k \in 1 .. Layers : Turns(table, mm[k - 1], ss[k], mm[k])
  <2>1. Turns(table, m1, FlattenSeq(ss), m2)
    BY <1>6, <1>q
  <2>2. \A l \in 1 .. Layers : IsSeq(ss[l])
    BY <1>2
  <2> QED
    BY ONLY <1>1, <2>1, <2>2, TurnsFlat
<1>8. \A b : Lasting(b) => Passing(q1, b) /\ Passing(q3, b)
  <2> SUFFICES ASSUME NEW b, Lasting(b) PROVE Passing(q1, b) /\ Passing(q3, b)
    OBVIOUS
  <2>1. /\ b # Scratch("hidden")
        /\ b \notin {Scratch("h_final"), Scratch("final_normed"), Scratch("final_inv_rms"),
                     Scratch("logits")}
    BY LastingApart DEF ScratchNames
  <2> QED
    BY <1>q, <2>1, ForwardEndsPass
<1>9. Trains(m1) /\ DOMAIN m1 = DOMAIN m
  BY ONLY <1>6, <1>8, Trains(m), TrainsStill
<1>10. Through(m1, 0, s)
  <2>1. Holds(m1, Scratch("hidden"), <<"h_in", 1>>, s)
    BY <1>6, <1>q, ForwardStartTurn
  <2>2. (IF 0 = Layers THEN Top("h_final") ELSE <<"h_in", 0 + 1>>) = <<"h_in", 1>>
    BY <1>1
  <2> QED
    BY <2>1, <2>2 DEF Through
<1> DEFINE Reached(k) == Trains(mm[k]) /\ DOMAIN mm[k] = DOMAIN m /\ Through(mm[k], k, s)
           Q == {k \in 0 .. Layers : Reached(k)}
<1>11. 0 \in Q
  BY <1>1, <1>7, <1>9, <1>10
<1>12. ASSUME NEW k \in 0 .. Layers - 1, k \in Q PROVE k + 1 \in Q
  <2>p. PICK j : j = k + 1
    OBVIOUS
  <2>1. j \in 1 .. Layers /\ j - 1 = k /\ j \in 0 .. Layers /\ k \in 0 .. Layers
    BY <1>1, <2>p
  <2>2. Turns(table, mm[k], ForwardLayer(k + 1), mm[j])
    BY <1>2, <1>7, <2>1, <2>p
  <2>3. Reached(k)
    BY <1>12
  <2>4. Trains(mm[j]) /\ DOMAIN mm[j] = DOMAIN mm[k] /\ Through(mm[j], k + 1, s)
    <3> PICK x, y : x = mm[k] /\ y = mm[j]
      OBVIOUS
    <3> HIDE DEF Q
    <3> QED
      BY <2>2, <2>3, ThroughLayer
  <2>5. Reached(j)
    BY <2>3, <2>4, <2>p
  <2> QED
    BY <2>1, <2>5, <2>p
<1>13. Reached(Layers)
  <2>1. 0 .. Layers \subseteq Q
    <3> HIDE DEF Q
    <3> QED
      BY <1>1, <1>11, <1>12, Climb
  <2>2. Layers \in 0 .. Layers
    BY <1>1
  <2> QED
    BY ONLY <2>1, <2>2
<1>14. Trains(m2) /\ DOMAIN m2 = DOMAIN m /\ Through(m2, Layers, s)
  BY <1>7, <1>13
<1>15. Trains(n) /\ DOMAIN n = DOMAIN m2
  BY ONLY <1>5, <1>8, <1>14, TrainsStill
<1>16. ASSUME NEW l \in 1 .. Layers PROVE Activated(n, l, s)
  <2>1. \A name : Passing(q3, Acts(name, l))
    <3> SUFFICES ASSUME NEW name PROVE Passing(q3, Acts(name, l))
      OBVIOUS
    <3>p. PICK b : b = Acts(name, l)
      OBVIOUS
    <3>1. b \notin {Scratch("h_final"), Scratch("final_normed"), Scratch("final_inv_rms"),
                    Scratch("logits")}
      BY <3>p, ActsApart
    <3> QED
      BY <1>q, <3>1, <3>p, ForwardEndsPass
  <2>2. Activated(m2, l, s)
    BY <1>14 DEF Through
  <2> QED
    BY ONLY <1>5, <1>14, <2>1, <2>2, l \in 1 .. Layers, ActivatedStill
<1>17. /\ Holds(n, Scratch("h_final"), Top("h_final"), s)
       /\ Holds(n, Scratch("final_normed"), Top("final_normed"), s)
       /\ Holds(n, Scratch("final_inv_rms"), Top("final_inv_rms"), s)
       /\ Holds(n, Scratch("logits"), Top("logits"), s)
  <2>1. Holds(m2, Scratch("hidden"), Top("h_final"), s)
    BY <1>14 DEF Through
  <2> QED
    BY <1>5, <1>14, <1>q, <2>1, ForwardEndTurn
<1> QED
  BY <1>14, <1>15, <1>16, <1>17 DEF Forwarded

-----------------------------------------------------------------------------
(* Sums.                                                                   *)

Sum(value, square, groups) == [of |-> value, square |-> square, groups |-> groups]

\* A reduction adds the sum of all of a buffer to its slot.
LEMMA ReduceTurn ==
    ASSUME NEW table, NEW m, NEW src, NEW slot, NEW square, NEW groups, NEW n,
           Scratch("partials") \in DOMAIN m, Stats \in DOMAIN m, slot \in DOMAIN m[Stats],
           Turns(table, m, ReduceInto(src, slot, square, groups), n)
    PROVE  /\ n[Stats] = [m[Stats] EXCEPT ![slot] = Append(@, Sum(m[src], square, groups))]
           /\ DOMAIN n = DOMAIN m
<1>p. PICK s, partials, c1, c2 :
        /\ s = ReduceInto(src, slot, square, groups) /\ partials = Scratch("partials")
        /\ c1 = Dispatch("reduce", <<square, groups>>, NoSeq, <<src>>, <<partials>>)
        /\ c2 = Dispatch("reduce_finish", <<slot, groups>>, NoSeq, <<partials>>, <<Stats>>)
  OBVIOUS
<1>1. s[1] = c1 /\ s[2] = c2 /\ IsSeq(s) /\ Len(s) = 2
  <2>1. /\ s[1] = c1 /\ s[2] = c2
        /\ DOMAIN s = 1 .. 2 /\ s = [i \in 1 .. 2 |-> s[i]] /\ 2 \in Nat
    BY <1>p DEF ReduceInto, dispatch_reduce
  <2> QED
    BY <2>1, SeqMade
<1>2. PICK mm : mm[0] = m /\ mm[2] = n /\ \A i \in 1 .. 2 : mm[i] = Now(table, mm[i - 1], s[i])
  BY <1>1, <1>p DEF Turns
<1>w. PICK k : k = mm[1]
  OBVIOUS
<1>3. k = Now(table, m, c1) /\ n = Now(table, k, c2)
  <2>1. 1 \in 1 .. 2 /\ 2 \in 1 .. 2 /\ 1 - 1 = 0 /\ 2 - 1 = 1
    OBVIOUS
  <2> QED
    BY <1>1, <1>2, <1>w, <2>1
<1>4. /\ c1.do = "dispatch" /\ c1.op = "reduce" /\ c1.reads[1] = src /\ c1.writes[1] = partials
      /\ c1.params.dims[1] = square /\ c1.params.dims[2] = groups
  BY <1>p DEF Dispatch
<1>5. /\ c2.do = "dispatch" /\ c2.op = "reduce_finish" /\ c2.reads[1] = partials
      /\ c2.writes[1] = Stats /\ c2.params.dims[1] = slot /\ c2.params.dims[2] = groups
  BY <1>p DEF Dispatch
<1>6. k = [m EXCEPT ![partials] = Sum(m[src], square, groups)]
  <2>1. Now(table, m, c1) = Execute(table, c1.params, m, c1)
    BY <1>4 DEF Now
  <2>2. Execute(table, c1.params, m, c1) = Reduced(m, c1, c1.params)
    BY <1>4 DEF Execute, Computing, Accumulating
  <2> QED
    BY <1>3, <1>4, <2>1, <2>2 DEF Reduced, Sum
<1>7. partials # Stats
  BY <1>p DEF Scratch, Stats
<1>8. k[partials] = Sum(m[src], square, groups) /\ k[Stats] = m[Stats] /\ DOMAIN k = DOMAIN m
  BY <1>6, <1>7, <1>p
<1>9. n = ReductionFinished(k, c2, c2.params)
  <2>1. Now(table, k, c2) = Execute(table, c2.params, k, c2)
    BY <1>5 DEF Now
  <2>2. Execute(table, c2.params, k, c2) = ReductionFinished(k, c2, c2.params)
    BY <1>5 DEF Execute, Computing, Accumulating
  <2> QED
    BY <1>3, <2>1, <2>2
<1>10. k[partials].groups = groups
  BY <1>8 DEF Sum
<1>11. n = [k EXCEPT ![Stats][slot] = Append(@, k[partials])]
  BY <1>5, <1>9, <1>10 DEF ReductionFinished
<1>12. DOMAIN n = DOMAIN k
  BY ONLY <1>11
<1>13. n[Stats] = [k[Stats] EXCEPT ![slot] = Append(@, k[partials])]
  BY <1>8, <1>11
<1> QED
  BY <1>8, <1>12, <1>13

\* The loss of a sequence goes to the first slot.
LossOf(s) == Sum(Value(Top("loss_rows"), s), FALSE, "rows")

\* The loss and its gradient are the host's.
LEMMA LossTurn ==
    ASSUME NEW table, table = Results[FALSE], NEW m, Trains(m), NEW s, s # NoSeq,
           Holds(m, Scratch("logits"), Top("logits"), s),
           Holds(m, Scratch("targets"), Top("targets"), s),
           NEW n, Turns(table, m, encode_loss, n)
    PROVE  /\ Holds(n, Scratch("d_logits"), Top("d_logits"), s)
           /\ n[Stats] = [m[Stats] EXCEPT ![0] = Append(@, LossOf(s))]
           /\ DOMAIN n = DOMAIN m
<1>p. PICK q1, q2, square : /\ q1 = LossStart /\ square = FALSE
                            /\ q2 = ReduceInto(Scratch("loss_rows"), 0, square, "rows")
  OBVIOUS
<1>1. IsSeq(q1) /\ IsSeq(q2)
  <2>1. DOMAIN q2 = 1 .. 2 /\ q2 = [i \in 1 .. 2 |-> q2[i]] /\ 2 \in Nat
    BY <1>p DEF ReduceInto, dispatch_reduce
  <2> QED
    BY <1>p, <2>1, SeqMade, LossStartIs
<1>2. Turns(table, m, q1 \o q2, n)
  BY <1>p DEF encode_loss, LossStart
<1>3. PICK k : Turns(table, m, q1, k) /\ Turns(table, k, q2, n)
  BY ONLY <1>1, <1>2, TurnsSplit
<1>4. Holds(k, Scratch("d_logits"), Top("d_logits"), s) /\ Holds(k, Scratch("loss_rows"), Top("loss_rows"), s)
  BY <1>3, <1>p, LossStartTurn
<1>5. \A b : b \notin {Scratch("d_logits"), Scratch("loss_rows")} => Passing(q1, b)
  <2>1. \A dims, reads, y, z, b : y # b /\ z # b =>
          Passes(Dispatch("cross_entropy", dims, NoSeq, reads, <<y, z>>), b)
    <3>1. "cross_entropy" \in Ops \ {"adam"}
      BY DEF Ops, Computing
    <3> QED
      BY <3>1, TwoPasses
  <2> QED
    BY <1>p, <2>1, OnePassing DEF LossStart
<1>6. DOMAIN k = DOMAIN m /\ k[Stats] = m[Stats]
  <2>1. Stats \notin {Scratch("d_logits"), Scratch("loss_rows")} /\ Stats \in DOMAIN m
    BY DEF Stats, Scratch, Trains
  <2>2. Passing(q1, Stats)
    BY <1>5, <2>1
  <2>3. DOMAIN k = DOMAIN m /\ (Stats \in DOMAIN m => k[Stats] = m[Stats])
    BY ONLY <1>3, <2>2, TurnsKeep
  <2> QED
    BY ONLY <2>1, <2>3
<1>7. Scratch("partials") \in DOMAIN k /\ Stats \in DOMAIN k /\ 0 \in DOMAIN k[Stats]
  <2>1. Scratch("partials") \in DOMAIN m /\ Stats \in DOMAIN m
    BY DEF Trains, ScratchNames
  <2>2. DOMAIN m[Stats] = 0 .. StatsLen - 1 /\ StatsLen - 1 \in Nat
    BY ShapesAre DEF Trains, StatsLen
  <2> QED
    BY <1>6, <2>1, <2>2
<1>8. /\ n[Stats] = [k[Stats] EXCEPT ![0] = Append(@, Sum(k[Scratch("loss_rows")], square, "rows"))]
      /\ DOMAIN n = DOMAIN k
  BY <1>3, <1>7, <1>p, ReduceTurn
<1>9. n[Scratch("d_logits")] = k[Scratch("d_logits")]
  <2>p. PICK b, src : b = Scratch("d_logits") /\ src = Scratch("loss_rows")
    OBVIOUS
  <2>1. b # Scratch("partials") /\ b # Stats
    BY <2>p DEF Scratch, Stats
  <2>2. Passing(q2, b)
    BY <1>p, <2>1, ReducePasses
  <2>3. b \in DOMAIN k
    BY <1>6, <2>p DEF Trains, ScratchNames
  <2>4. DOMAIN n = DOMAIN k /\ (b \in DOMAIN k => n[b] = k[b])
    BY ONLY <1>3, <2>2, TurnsKeep
  <2> QED
    BY ONLY <2>p, <2>3, <2>4
<1>10. Holds(n, Scratch("d_logits"), Top("d_logits"), s)
  BY <1>4, <1>9 DEF Holds
<1>11. n[Stats] = [m[Stats] EXCEPT ![0] = Append(@, LossOf(s))]
  BY <1>4, <1>6, <1>8, <1>p DEF Holds, LossOf
<1> QED
  BY <1>6, <1>8, <1>10, <1>11

-----------------------------------------------------------------------------
(* The backward pass, as a whole.                                          *)

\* The gradient has come back through the top k layers, whose tensors'
\* gradients have grown by the host's contributions; the others are as in o.
Behind(o, m, k, s) ==
    /\ \A l \in 1 .. Layers : Activated(m, l, s)
    /\ Holds(m, Scratch("d_hidden"), IF k = 0 THEN Top("d_final") ELSE <<"d_in", Layers + 1 - k>>, s)
    /\ \A l \in 1 .. Layers : Grows(o, m, l, s, IF l > Layers - k THEN GradNames ELSE {})
    /\ m[EmbedOf("grads")] = o[EmbedOf("grads")] /\ m[FinalGainOf("grads")] = o[FinalGainOf("grads")]

\* One layer more.
LEMMA BehindLayer ==
    ASSUME NEW table, table = Results[FALSE], NEW o, NEW m, Trains(m), NEW s, s # NoSeq,
           NEW l \in 1 .. Layers, Behind(o, m, Layers - l, s),
           NEW n, Turns(table, m, BackwardMlp(l) \o BackwardAttention(l), n)
    PROVE  Trains(n) /\ DOMAIN n = DOMAIN m /\ Behind(o, n, Layers + 1 - l, s)
<1>1. Layers \in Nat /\ l \in Nat /\ l >= 1 /\ l <= Layers
  BY LayersAssumption
<1>p. PICK q : q = BackwardMlp(l) \o BackwardAttention(l)
  OBVIOUS
<1>2. Turns(table, m, q, n)
  BY <1>p
<1>3. Holds(m, Scratch("d_hidden"), StreamGradient(l), s)
  <2>1. (IF Layers - l = 0 THEN Top("d_final") ELSE <<"d_in", Layers + 1 - (Layers - l)>>)
        = StreamGradient(l)
    <3>1. CASE l = Layers
      BY <1>1, <3>1 DEF StreamGradient
    <3>2. CASE l # Layers
      <4>1. Layers - l # 0 /\ Layers + 1 - (Layers - l) = l + 1
        BY <1>1, <3>2
      <4> QED
        BY <3>2, <4>1 DEF StreamGradient
    <3> QED
      BY <3>1, <3>2
  <2> QED
    BY <2>1 DEF Behind
<1>4. Activated(m, l, s)
  BY DEF Behind
<1>5. Holds(n, Scratch("d_hidden"), <<"d_in", l>>, s) /\ Grows(m, n, l, s, GradNames)
  BY <1>3, <1>4, LayerBackwardTurn
<1>6. ASSUME NEW b, \A which \in GradNames : LayerOf("grads", l, which) # b,
             \A name \in ScratchNames : Scratch(name) # b
      PROVE  Passing(q, b)
  <2>1. b \notin {Scratch("act"), Scratch("d_act"), Scratch("d_gate"), Scratch("d_up"),
                  Scratch("d_a"), Scratch("d_b"), Scratch("d_c"), Scratch("d_hidden"),
                  Scratch("d_score"), Scratch("d_q"), Scratch("d_k"), Scratch("d_v")}
    BY <1>6 DEF ScratchNames
  <2> QED
    BY <1>6, <1>p, <2>1, LayerBackwardPasses
<1>7. \A b : Lasting(b) => Passing(q, b)
  BY <1>6, LastingApart
<1>8. Trains(n) /\ DOMAIN n = DOMAIN m
  BY ONLY <1>2, <1>7, Trains(m), TrainsStill
<1>9. ASSUME NEW j \in 1 .. Layers PROVE Activated(n, j, s)
  <2>1. \A name : Passing(q, Acts(name, j))
    BY <1>6, ActsApart
  <2>2. Activated(m, j, s)
    BY DEF Behind
  <2> QED
    BY ONLY <1>2, <2>1, <2>2, Trains(m), j \in 1 .. Layers, ActivatedStill
<1>10. ASSUME NEW i \in Slots, \A which \in GradNames : LayerOf("grads", l, which) # InSet("grads", i)
       PROVE  n[InSet("grads", i)] = m[InSet("grads", i)]
  <2>p. PICK b : b = InSet("grads", i)
    OBVIOUS
  <2>1. \A name \in ScratchNames : Scratch(name) # b
    BY <2>p DEF Scratch, InSet
  <2>2. Passing(q, b)
    BY <1>6, <1>10, <2>1, <2>p
  <2>3. b \in DOMAIN m
    BY <2>p DEF Trains
  <2>4. DOMAIN n = DOMAIN m /\ (b \in DOMAIN m => n[b] = m[b])
    BY ONLY <1>2, <2>2, TurnsKeep
  <2> QED
    BY ONLY <2>3, <2>4, <2>p
<1>11. ASSUME NEW j \in 1 .. Layers
       PROVE  Grows(o, n, j, s, IF j > Layers - (Layers + 1 - l) THEN GradNames ELSE {})
  <2>1. j \in Nat /\ Layers - (Layers + 1 - l) = l - 1 /\ Layers - (Layers - l) = l
    BY <1>1
  <2>2. Grows(o, m, j, s, IF j > l THEN GradNames ELSE {})
    BY <2>1 DEF Behind
  <2>3. CASE j = l
    <3>1. ~ (j > l) /\ j > l - 1
      BY <1>1, <2>3
    <3>2. Grows(o, m, l, s, {}) /\ Grows(m, n, l, s, GradNames)
      BY <1>5, <2>2, <2>3, <3>1
    <3>3. Grows(o, n, l, s, GradNames)
      BY ONLY <3>2 DEF Grows
    <3> QED
      BY <2>1, <2>3, <3>1, <3>3
  <2>4. CASE j # l
    <3>1. j > l <=> j > l - 1
      BY <1>1, <2>1, <2>4
    <3>2. ASSUME NEW which \in GradNames
          PROVE  n[LayerOf("grads", j, which)] = m[LayerOf("grads", j, which)]
      <4>1. PICK t \in 1 .. 9 : LayerOf("grads", j, which) = InSet("grads", 1 + (j - 1) * 9 + t)
        BY LayerHasSlot
      <4>p. PICK i : i = 1 + (j - 1) * 9 + t
        OBVIOUS
      <4>2. i \in Slots
        <5>1. 1 + (j - 1) * 9 + t \in 2 .. 1 + Layers * 9 /\ Slots = 1 .. 2 + Layers * 9
          BY ShapesAre
        <5> QED
          BY <1>1, <4>p, <5>1
      <4>3. \A a \in GradNames : LayerOf("grads", l, a) # InSet("grads", i)
        BY <1>1, <2>1, <2>4, <4>1, <4>p, LayersApart
      <4> QED
        BY <1>10, <4>1, <4>2, <4>3, <4>p
    <3>3. PICK added : added = IF j > l THEN GradNames ELSE {}
      OBVIOUS
    <3>4. Grows(o, n, j, s, added)
      <4>1. Grows(o, m, j, s, added)
        BY <2>2, <3>3
      <4> QED
        BY ONLY <3>2, <4>1 DEF Grows
    <3> QED
      BY <2>1, <3>1, <3>3, <3>4
  <2> QED
    BY <2>3, <2>4
<1>12. /\ n[EmbedOf("grads")] = o[EmbedOf("grads")] /\ n[FinalGainOf("grads")] = o[FinalGainOf("grads")]
  <2>1. /\ EmbedOf("grads") = InSet("grads", 1) /\ FinalGainOf("grads") = InSet("grads", 2 + Layers * 9)
        /\ 1 \in Slots /\ 2 + Layers * 9 \in Slots
    BY TopWeighs
  <2>2. \A which \in GradNames : /\ LayerOf("grads", l, which) # EmbedOf("grads")
                                 /\ LayerOf("grads", l, which) # FinalGainOf("grads")
    BY LayersInside
  <2>3. n[EmbedOf("grads")] = m[EmbedOf("grads")] /\ n[FinalGainOf("grads")] = m[FinalGainOf("grads")]
    BY <1>10, <2>1, <2>2
  <2> QED
    BY <2>3 DEF Behind
<1>13. Holds(n, Scratch("d_hidden"),
             IF Layers + 1 - l = 0 THEN Top("d_final") ELSE <<"d_in", Layers + 1 - (Layers + 1 - l)>>, s)
  <2>1. Layers + 1 - l # 0 /\ Layers + 1 - (Layers + 1 - l) = l
    BY <1>1
  <2> QED
    BY <1>5, <2>1
<1> QED
  BY <1>8, <1>9, <1>11, <1>12, <1>13 DEF Behind

\* What the commands before the layers leave alone.
LEMMA BackwardStartPasses ==
    ASSUME NEW b, b \notin {EmbedOf("grads"), FinalGainOf("grads"), Scratch("d_a"), Scratch("d_hidden")}
    PROVE  Passing(BackwardStart, b)
<1>p. PICK s : s = BackwardStart
  OBVIOUS
<1>1. Passes(s[1], b)
  BY <1>p, BackwardStartIs, CommandsPass
<1>2. Passes(s[2], b)
  BY <1>p, BackwardStartIs, CommandsPass
<1>3. Passes(s[3], b)
  BY <1>p, BackwardStartIs, CommandsPass
<1>4. Passes(s[4], b)
  BY <1>p, BackwardStartIs, CommandsPass
<1>5. \A i \in 1 .. 4 : Passes(s[i], b)
  BY ONLY <1>1, <1>2, <1>3, <1>4
<1> QED
  BY <1>p, <1>5, BackwardStartIs DEF Passing

\* Back from the logits to the rows of the tokens.
LEMMA BackwardLayersTurn ==
    ASSUME NEW table, table = Results[FALSE], NEW m, Trains(m), NEW s, s # NoSeq,
           Forwarded(m, s), Holds(m, Scratch("d_logits"), Top("d_logits"), s),
           NEW ss, ss = [k \in 1 .. Layers |->
                           BackwardMlp(Layers + 1 - k) \o BackwardAttention(Layers + 1 - k)],
           NEW n, Turns(table, m, BackwardStart \o FlattenSeq(ss), n)
    PROVE  /\ Trains(n) /\ DOMAIN n = DOMAIN m
           /\ Holds(n, Scratch("d_hidden"), <<"d_in", 1>>, s)
           /\ \A l \in 1 .. Layers : Grows(m, n, l, s, GradNames)
           /\ HeadGrows(m, n, s)
<1>1. Layers \in Nat \ {0} /\ Layers \in Nat /\ DOMAIN ss = 1 .. Layers /\ ss = [k \in 1 .. Layers |-> ss[k]]
  BY LayersAssumption
<1>2. ASSUME NEW k \in 1 .. Layers
      PROVE  /\ Layers + 1 - k \in 1 .. Layers /\ IsSeq(ss[k])
             /\ ss[k] = BackwardMlp(Layers + 1 - k) \o BackwardAttention(Layers + 1 - k)
  <2>p. PICK l : l = Layers + 1 - k
    OBVIOUS
  <2>1. l \in 1 .. Layers /\ ss[k] = BackwardMlp(l) \o BackwardAttention(l)
    BY <1>1, <2>p
  <2>2. IsSeq(BackwardMlp(l) \o BackwardAttention(l))
    BY BackwardMlpIs, BackwardOutputIs, dispatch_attention_bwdIs, BackwardProjectionsIs, ConcatIs
       DEF BackwardAttention
  <2> QED
    BY <2>1, <2>2, <2>p
<1>p. PICK q1, q2 : q1 = BackwardStart /\ q2 = FlattenSeq(ss)
  OBVIOUS
<1>3. IsSeq(q1) /\ IsSeq(q2)
  <2>1. IsSeq(q1)
    BY <1>p, BackwardStartIs
  <2>2. \A k \in 1 .. Layers : IsSeq(ss[k])
    BY <1>2
  <2>3. IsSeq(FlattenSeq(ss))
    BY ONLY <1>1, <2>2, FlatIsSeq
  <2> QED
    BY <1>p, <2>1, <2>3
<1>4. PICK o : Turns(table, m, q1, o) /\ Turns(table, o, q2, n)
  <2>1. Turns(table, m, q1 \o q2, n)
    BY <1>p
  <2> QED
    BY ONLY <1>3, <2>1, TurnsSplit
<1>5. Holds(o, Scratch("d_hidden"), Top("d_final"), s) /\ HeadGrows(m, o, s)
  <2>1. Turns(table, m, BackwardStart, o)
    BY <1>4, <1>p
  <2>2. /\ Holds(m, Scratch("h_final"), Top("h_final"), s)
        /\ Holds(m, Scratch("final_normed"), Top("final_normed"), s)
        /\ Holds(m, Scratch("final_inv_rms"), Top("final_inv_rms"), s)
    BY DEF Forwarded
  <2>3. Holds(o, Scratch("d_hidden"), Top("d_final"), s)
    BY <2>1, <2>2, BackwardStartTurn
  <2>4. HeadGrows(m, o, s)
    BY <2>1, <2>2, BackwardStartTurn
  <2> QED
    BY <2>3, <2>4
<1>6. ASSUME NEW b, b # EmbedOf("grads"), b # FinalGainOf("grads"), \A name \in ScratchNames : Scratch(name) # b
      PROVE  Passing(q1, b)
  <2>1. b \notin {EmbedOf("grads"), FinalGainOf("grads"), Scratch("d_a"), Scratch("d_hidden")}
    BY <1>6 DEF ScratchNames
  <2> QED
    BY <1>p, <2>1, BackwardStartPasses
<1>7. \A b : Lasting(b) => Passing(q1, b)
  BY <1>6, LastingApart
<1>8. Trains(o) /\ DOMAIN o = DOMAIN m
  BY ONLY <1>4, <1>7, Trains(m), TrainsStill
<1>9. ASSUME NEW l \in 1 .. Layers PROVE Activated(o, l, s)
  <2>1. \A name : Passing(q1, Acts(name, l))
    BY <1>6, ActsApart
  <2>2. Activated(m, l, s)
    BY DEF Forwarded
  <2> QED
    BY ONLY <1>4, <2>1, <2>2, Trains(m), l \in 1 .. Layers, ActivatedStill
<1>10. ASSUME NEW l \in 1 .. Layers, NEW which \in GradNames
       PROVE  o[LayerOf("grads", l, which)] = m[LayerOf("grads", l, which)]
  <2>p. PICK b : b = LayerOf("grads", l, which)
    OBVIOUS
  <2>1. b # EmbedOf("grads") /\ b # FinalGainOf("grads")
    BY <2>p, LayersInside
  <2>2. \A name \in ScratchNames : Scratch(name) # b
    <3>1. b[3] = "params" /\ \A name : Scratch(name)[3] = "scratch"
      BY <2>p, LayerIn DEF Scratch
    <3> QED
      BY ONLY <3>1
  <2>3. Passing(q1, b)
    BY <1>6, <2>1, <2>2
  <2>4. b \in DOMAIN m
    <3>1. PICK t \in 1 .. 9 : LayerOf("grads", l, which) = InSet("grads", 1 + (l - 1) * 9 + t)
      BY LayerHasSlot
    <3>2. PICK i : i = 1 + (l - 1) * 9 + t
      OBVIOUS
    <3>3. i \in Slots
      <4>1. 1 + (l - 1) * 9 + t \in 2 .. 1 + Layers * 9 /\ Slots = 1 .. 2 + Layers * 9
        BY ShapesAre
      <4> QED
        BY <1>1, <3>2, <4>1
    <3> QED
      BY <2>p, <3>1, <3>2, <3>3 DEF Trains
  <2>5. DOMAIN o = DOMAIN m /\ (b \in DOMAIN m => o[b] = m[b])
    BY ONLY <1>4, <2>3, TurnsKeep
  <2> QED
    BY ONLY <2>4, <2>5, <2>p
<1>11. Behind(o, o, 0, s)
  <2>1. \A l \in 1 .. Layers : Grows(o, o, l, s, IF l > Layers - 0 THEN GradNames ELSE {})
    <3> TAKE l \in 1 .. Layers
    <3>1. (IF l > Layers - 0 THEN GradNames ELSE {}) = {}
      BY <1>1
    <3>2. Grows(o, o, l, s, {})
      BY DEF Grows
    <3> QED
      BY <3>1, <3>2
  <2>2. (IF 0 = 0 THEN Top("d_final") ELSE <<"d_in", Layers + 1 - 0>>) = Top("d_final")
    OBVIOUS
  <2> QED
    BY <1>5, <1>9, <2>1, <2>2 DEF Behind
<1>12. PICK mm : /\ mm[0] = o /\ mm[Layers] = n
                 /\ \A k \in 1 .. Layers : Turns(table, mm[k - 1], ss[k], mm[k])
  <2>1. Turns(table, o, FlattenSeq(ss), n)
    BY <1>4, <1>p
  <2>2. \A k \in 1 .. Layers : IsSeq(ss[k])
    BY <1>2
  <2> QED
    BY ONLY <1>1, <2>1, <2>2, TurnsFlat
<1> DEFINE Reached(k) == Trains(mm[k]) /\ DOMAIN mm[k] = DOMAIN m /\ Behind(o, mm[k], k, s)
           Q == {k \in 0 .. Layers : Reached(k)}
<1>13. 0 \in Q
  BY <1>1, <1>8, <1>11, <1>12
<1>14. ASSUME NEW k \in 0 .. Layers - 1, k \in Q PROVE k + 1 \in Q
  <2>p. PICK j, l : j = k + 1 /\ l = Layers + 1 - j
    OBVIOUS
  <2>1. /\ j \in 1 .. Layers /\ j - 1 = k /\ j \in 0 .. Layers
        /\ l \in 1 .. Layers /\ Layers - l = k /\ Layers + 1 - l = j
    BY <1>1, <2>p
  <2>2. Turns(table, mm[k], BackwardMlp(l) \o BackwardAttention(l), mm[j])
    BY <1>2, <1>12, <2>1, <2>p
  <2>3. Reached(k)
    BY <1>14
  <2>4. Trains(mm[j]) /\ DOMAIN mm[j] = DOMAIN mm[k] /\ Behind(o, mm[j], j, s)
    <3>p. PICK x, y : x = mm[k] /\ y = mm[j]
      OBVIOUS
    <3>1. /\ table = Results[FALSE] /\ Trains(x) /\ s # NoSeq /\ l \in 1 .. Layers
          /\ Behind(o, x, Layers - l, s) /\ Turns(table, x, BackwardMlp(l) \o BackwardAttention(l), y)
      BY <2>1, <2>2, <2>3, <3>p
    <3>2. Trains(y) /\ DOMAIN y = DOMAIN x /\ Behind(o, y, Layers + 1 - l, s)
      BY ONLY <3>1, BehindLayer
    <3> QED
      BY ONLY <2>1, <3>2, <3>p
  <2>5. Reached(j)
    BY <2>3, <2>4
  <2> QED
    BY <2>1, <2>5, <2>p
<1>15. Reached(Layers)
  <2>1. 0 .. Layers \subseteq Q
    <3> HIDE DEF Q
    <3> QED
      BY <1>1, <1>13, <1>14, Climb
  <2>2. Layers \in 0 .. Layers
    BY <1>1
  <2> QED
    BY ONLY <2>1, <2>2
<1>16. Trains(n) /\ DOMAIN n = DOMAIN m /\ Behind(o, n, Layers, s)
  BY <1>12, <1>15
<1>17. Holds(n, Scratch("d_hidden"), <<"d_in", 1>>, s)
  <2>1. (IF Layers = 0 THEN Top("d_final") ELSE <<"d_in", Layers + 1 - Layers>>) = <<"d_in", 1>>
    BY <1>1
  <2> QED
    BY <1>16, <2>1 DEF Behind
<1>18. ASSUME NEW l \in 1 .. Layers PROVE Grows(m, n, l, s, GradNames)
  <2>1. (IF l > Layers - Layers THEN GradNames ELSE {}) = GradNames
    BY <1>1
  <2>2. Grows(o, n, l, s, GradNames)
    BY <1>16, <2>1 DEF Behind
  <2> QED
    BY ONLY <1>10, <1>18, <2>2 DEF Grows
<1>19. n[EmbedOf("grads")] = o[EmbedOf("grads")] /\ n[FinalGainOf("grads")] = o[FinalGainOf("grads")]
  BY <1>16 DEF Behind
<1>20. HeadGrows(m, n, s)
  BY <1>5, <1>19 DEF HeadGrows
<1> QED
  BY <1>16, <1>17, <1>18, <1>20

-----------------------------------------------------------------------------
(* The scatter index.                                                      *)

\* The occurrences among the first tokens, for each number of them.
OccurringOf(tokens, id, n, f) ==
    f = [t \in 0 .. n |->
           IF t = 0 THEN << >>
           ELSE IF tokens[t] = id THEN Append(f[t - 1], t) ELSE f[t - 1]]

\* There are such.
LEMMA OccurringExists ==
    ASSUME NEW tokens, NEW id, NEW n \in Nat
    PROVE  \E f : OccurringOf(tokens, id, n, f)
<1> DEFINE Q == {k \in 0 .. n : \E f : OccurringOf(tokens, id, k, f)}
           Z == [t \in 0 .. 0 |-> << >>]
<1>1. 0 \in Q
  <2>1. \A t \in 0 .. 0 : (IF t = 0 THEN << >>
            ELSE IF tokens[t] = id THEN Append(Z[t - 1], t) ELSE Z[t - 1]) = << >>
    OBVIOUS
  <2>2. OccurringOf(tokens, id, 0, Z)
    BY <2>1 DEF OccurringOf
  <2> QED
    BY <2>2
<1>2. ASSUME NEW k \in 0 .. n - 1, k \in Q PROVE k + 1 \in Q
  <2>1. PICK f : OccurringOf(tokens, id, k, f)
    BY <1>2
  <2>2. k \in Nat /\ k + 1 \in 0 .. n
    OBVIOUS
  <2> PICK g : g = [t \in 0 .. k + 1 |->
                      IF t = 0 THEN << >>
                      ELSE IF tokens[t] = id THEN Append(f[t - 1], t) ELSE f[t - 1]]
    OBVIOUS
  <2>3. ASSUME NEW t \in 0 .. k + 1, t # 0 PROVE g[t - 1] = f[t - 1]
    <3> PICK j : j = t - 1
      OBVIOUS
    <3>1. j \in 0 .. k /\ j \in 0 .. k + 1
      BY <2>2, <2>3
    <3>2. f[j] = IF j = 0 THEN << >>
                 ELSE IF tokens[j] = id THEN Append(f[j - 1], j) ELSE f[j - 1]
      BY ONLY <2>1, <3>1, Zenon DEF OccurringOf
    <3>3. g[j] = IF j = 0 THEN << >>
                 ELSE IF tokens[j] = id THEN Append(f[j - 1], j) ELSE f[j - 1]
      BY <3>1
    <3> QED
      BY <3>2, <3>3
  <2>4. \A t \in 0 .. k + 1 :
           (IF t = 0 THEN << >>
            ELSE IF tokens[t] = id THEN Append(f[t - 1], t) ELSE f[t - 1])
           = (IF t = 0 THEN << >>
              ELSE IF tokens[t] = id THEN Append(g[t - 1], t) ELSE g[t - 1])
    BY <2>3
  <2>5. OccurringOf(tokens, id, k + 1, g)
    BY <2>4 DEF OccurringOf
  <2> QED
    BY <2>2, <2>5
<1>3. 0 .. n \subseteq Q
  <2> HIDE DEF Q
  <2> QED
    BY <1>1, <1>2, Climb
<1> QED
  BY <1>3

\* The occurrences of an id are a sequence.
LEMMA OccurrencesIs ==
    ASSUME NEW tokens, IsSeq(tokens), NEW id
    PROVE  IsSeq(Occurrences(tokens, id))
<1> PICK n : n = Len(tokens)
  OBVIOUS
<1>1. n \in Nat
  BY SeqIs
<1> DEFINE g == CHOOSE f : OccurringOf(tokens, id, Len(tokens), f)
<1>2. OccurringOf(tokens, id, Len(tokens), g)
  BY <1>1, OccurringExists
<1>3. Occurrences(tokens, id) = g[Len(tokens)]
  BY ONLY DEF Occurrences, OccurringOf
<1> HIDE DEF g
<1>4. \A t \in 0 .. n : g[t] = IF t = 0 THEN << >>
                               ELSE IF tokens[t] = id THEN Append(g[t - 1], t) ELSE g[t - 1]
  BY ONLY <1>2, n = Len(tokens), Zenon DEF OccurringOf
<1> DEFINE Q == {k \in 0 .. n : IsSeq(g[k])}
<1>5. 0 \in Q
  <2>1. g[0] = << >> /\ 0 \in 0 .. n
    BY <1>1, <1>4
  <2>2. IsSeq(<< >>)
    <3>1. << >> \in Seq({})
      OBVIOUS
    <3> QED
      BY <3>1 DEF IsSeq
  <2> QED
    BY <2>1, <2>2
<1>6. ASSUME NEW k \in 0 .. n - 1, k \in Q PROVE k + 1 \in Q
  <2>p. PICK t : t = k + 1
    OBVIOUS
  <2>1. t \in 0 .. n /\ t # 0 /\ t - 1 = k
    BY <1>1, <2>p
  <2>2. g[t] = IF tokens[t] = id THEN Append(g[k], t) ELSE g[k]
    BY <1>4, <2>1
  <2>3. IsSeq(g[k])
    BY <1>6
  <2>4. IsSeq(Append(g[k], t))
    BY <2>3, AppendIs
  <2>5. IsSeq(g[t])
    BY <2>2, <2>3, <2>4
  <2> QED
    BY <2>1, <2>5, <2>p
<1>7. IsSeq(g[n])
  <2>1. 0 .. n \subseteq Q
    <3> HIDE DEF Q
    <3> QED
      BY <1>1, <1>5, <1>6, Climb
  <2>2. n \in 0 .. n
    BY <1>1
  <2> QED
    BY ONLY <2>1, <2>2
<1> QED
  BY <1>3, <1>7

\* The ids among the first tokens, for each number of them.
IdsOf(tokens, n, f) ==
    f = [t \in 0 .. n |->
           IF t = 0 THEN << >>
           ELSE IF \E g \in DOMAIN f[t - 1] : f[t - 1][g] = tokens[t] THEN f[t - 1]
           ELSE Append(f[t - 1], tokens[t])]

\* There are such.
LEMMA IdsExist ==
    ASSUME NEW tokens, NEW n \in Nat
    PROVE  \E f : IdsOf(tokens, n, f)
<1> DEFINE Q == {k \in 0 .. n : \E f : IdsOf(tokens, k, f)}
           Z == [t \in 0 .. 0 |-> << >>]
           Of(f, t) == IF t = 0 THEN << >>
                       ELSE IF \E g \in DOMAIN f[t - 1] : f[t - 1][g] = tokens[t] THEN f[t - 1]
                       ELSE Append(f[t - 1], tokens[t])
<1>1. 0 \in Q
  <2>1. \A t \in 0 .. 0 : Of(Z, t) = << >>
    OBVIOUS
  <2>2. IdsOf(tokens, 0, Z)
    BY <2>1 DEF IdsOf
  <2> QED
    BY <2>2
<1>2. ASSUME NEW k \in 0 .. n - 1, k \in Q PROVE k + 1 \in Q
  <2>1. PICK f : IdsOf(tokens, k, f)
    BY <1>2
  <2>2. k \in Nat /\ k + 1 \in 0 .. n
    OBVIOUS
  <2> PICK g : g = [t \in 0 .. k + 1 |-> Of(f, t)]
    OBVIOUS
  <2>3. ASSUME NEW t \in 0 .. k + 1, t # 0 PROVE g[t - 1] = f[t - 1]
    <3> PICK j : j = t - 1
      OBVIOUS
    <3>1. j \in 0 .. k /\ j \in 0 .. k + 1
      BY <2>2, <2>3
    <3>2. f[j] = Of(f, j)
      BY ONLY <2>1, <3>1, Zenon DEF IdsOf
    <3>3. g[j] = Of(f, j)
      <4> HIDE DEF Of
      <4> QED
        BY <3>1
    <3> QED
      BY <3>2, <3>3
  <2>4. \A t \in 0 .. k + 1 : Of(f, t) = Of(g, t)
    BY <2>3, ZenonT(60)
  <2>5. IdsOf(tokens, k + 1, g)
    <3>1. g = [t \in 0 .. k + 1 |-> Of(g, t)]
      <4> HIDE DEF Of
      <4> QED
        BY <2>4
    <3> QED
      BY ONLY <3>1 DEF IdsOf
  <2> QED
    BY <2>2, <2>5
<1>3. 0 .. n \subseteq Q
  <2> HIDE DEF Q
  <2> QED
    BY <1>1, <1>2, Climb
<1> QED
  BY <1>3

\* The ids of the first tokens, each once.
Lists(s, tokens, k) ==
    /\ IsSeq(s)
    /\ \A g \in 1 .. Len(s) : \E t \in 1 .. k : s[g] = tokens[t]
    /\ \A t \in 1 .. k : \E g \in 1 .. Len(s) : s[g] = tokens[t]
    /\ \A g, h \in 1 .. Len(s) : s[g] = s[h] => g = h

\* Each id is there once.
LEMMA RowIdsIs ==
    ASSUME NEW tokens, IsSeq(tokens)
    PROVE  /\ IsSeq(RowIds(tokens))
           /\ {RowIds(tokens)[g] : g \in 1 .. Len(RowIds(tokens))}
              = {tokens[t] : t \in DOMAIN tokens}
           /\ \A g, h \in 1 .. Len(RowIds(tokens)) :
                 RowIds(tokens)[g] = RowIds(tokens)[h] => g = h
<1> PICK n : n = Len(tokens)
  OBVIOUS
<1>1. n \in Nat /\ DOMAIN tokens = 1 .. n
  BY SeqIs
<1> DEFINE ids == CHOOSE f : IdsOf(tokens, Len(tokens), f)
<1>2. IdsOf(tokens, Len(tokens), ids)
  BY <1>1, IdsExist
<1>3. RowIds(tokens) = ids[Len(tokens)]
  BY ONLY DEF RowIds, IdsOf
<1> HIDE DEF ids
<1>4. \A t \in 0 .. n :
         ids[t] = IF t = 0 THEN << >>
                  ELSE IF \E g \in DOMAIN ids[t - 1] : ids[t - 1][g] = tokens[t] THEN ids[t - 1]
                  ELSE Append(ids[t - 1], tokens[t])
  BY ONLY <1>2, n = Len(tokens), Zenon DEF IdsOf
<1> DEFINE Q == {k \in 0 .. n : Lists(ids[k], tokens, k)}
<1>5. 0 \in Q
  <2>1. ids[0] = << >> /\ 0 \in 0 .. n
    BY <1>1, <1>4
  <2>2. IsSeq(<< >>) /\ Len(<< >>) = 0
    <3>1. << >> \in Seq({})
      OBVIOUS
    <3> QED
      BY <3>1 DEF IsSeq
  <2>3. Lists(<< >>, tokens, 0)
    BY <2>2 DEF Lists
  <2> QED
    BY <2>1, <2>3
<1>6. ASSUME NEW k \in 0 .. n - 1, k \in Q PROVE k + 1 \in Q
  <2>p. PICK t, s : t = k + 1 /\ s = ids[k]
    OBVIOUS
  <2>1. t \in 0 .. n /\ t # 0 /\ t - 1 = k /\ k \in Nat /\ t \in 1 .. t /\ \A i \in 1 .. t : i \in 1 .. k \/ i = t
    BY <1>1, <2>p
  <2>2. Lists(s, tokens, k)
    BY <1>6, <2>p
  <2>3. Len(s) \in Nat /\ DOMAIN s = 1 .. Len(s)
    BY <2>2, SeqIs DEF Lists
  <2>4. ids[t] = IF \E g \in DOMAIN s : s[g] = tokens[t] THEN s ELSE Append(s, tokens[t])
    BY <1>4, <2>1, <2>p
  <2>5. CASE \E g \in 1 .. Len(s) : s[g] = tokens[t]
    <3>1. ids[t] = s
      BY <2>3, <2>4, <2>5
    <3>2. Lists(s, tokens, t)
      <4>1. \A g \in 1 .. Len(s) : \E i \in 1 .. t : s[g] = tokens[i]
        <5>1. \A i \in 1 .. k : i \in 1 .. t
          BY <2>1
        <5> QED
          BY <2>2, <5>1 DEF Lists
      <4>2. \A i \in 1 .. t : \E g \in 1 .. Len(s) : s[g] = tokens[i]
        BY <2>1, <2>2, <2>5 DEF Lists
      <4> QED
        BY <2>2, <4>1, <4>2 DEF Lists
    <3>3. Lists(ids[t], tokens, t)
      BY <3>1, <3>2
    <3> QED
      BY ONLY <2>1, <2>p, <3>3, SMTT(60)
  <2>6. CASE \A g \in 1 .. Len(s) : s[g] # tokens[t]
    <3>p. PICK z : z = Append(s, tokens[t])
      OBVIOUS
    <3>1. ids[t] = z
      BY <2>3, <2>4, <2>6, <3>p
    <3>2. /\ IsSeq(z) /\ Len(z) = Len(s) + 1 /\ z[Len(s) + 1] = tokens[t]
          /\ \A i \in 1 .. Len(s) : z[i] = s[i]
      BY <2>2, <3>p, AppendIs DEF Lists
    <3>3. \A i \in 1 .. Len(z) : i \in 1 .. Len(s) \/ i = Len(s) + 1
      BY <2>3, <3>2
    <3>4. \A i \in 1 .. Len(s) : i \in 1 .. Len(z)
      BY <2>3, <3>2
    <3>5. Len(s) + 1 \in 1 .. Len(z)
      BY <2>3, <3>2
    <3>6. \A g \in 1 .. Len(z) : \E i \in 1 .. t : z[g] = tokens[i]
      <4> TAKE g \in 1 .. Len(z)
      <4>1. CASE g \in 1 .. Len(s)
        <5>1. PICK i \in 1 .. k : s[g] = tokens[i]
          BY <2>2, <4>1 DEF Lists
        <5>2. i \in 1 .. t
          BY <2>1
        <5> QED
          BY <3>2, <4>1, <5>1, <5>2
      <4>2. CASE g = Len(s) + 1
        BY <2>1, <3>2, <4>2
      <4> QED
        BY <3>3, <4>1, <4>2
    <3>7. \A i \in 1 .. t : \E g \in 1 .. Len(z) : z[g] = tokens[i]
      <4> TAKE i \in 1 .. t
      <4>1. CASE i \in 1 .. k
        <5>1. PICK g \in 1 .. Len(s) : s[g] = tokens[i]
          BY <2>2, <4>1 DEF Lists
        <5> QED
          BY <3>2, <3>4, <5>1
      <4>2. CASE i = t
        BY <3>2, <3>5, <4>2
      <4> QED
        BY <2>1, <4>1, <4>2
    <3>8. \A g, h \in 1 .. Len(z) : z[g] = z[h] => g = h
      BY <2>2, <2>6, <3>2, <3>3 DEF Lists
    <3>9. Lists(z, tokens, t)
      BY <3>2, <3>6, <3>7, <3>8 DEF Lists
    <3>10. Lists(ids[t], tokens, t)
      BY <3>1, <3>9
    <3> QED
      BY ONLY <2>1, <2>p, <3>10
  <2> QED
    BY <2>5, <2>6
<1>7. Lists(ids[n], tokens, n)
  <2>1. 0 .. n \subseteq Q
    <3> HIDE DEF Q
    <3> QED
      BY <1>1, <1>5, <1>6, Climb
  <2>2. n \in 0 .. n
    BY <1>1
  <2> QED
    BY ONLY <2>1, <2>2
<1>8. Lists(RowIds(tokens), tokens, n)
  BY <1>3, <1>7
<1>9. {RowIds(tokens)[g] : g \in 1 .. Len(RowIds(tokens))} = {tokens[t] : t \in 1 .. n}
  <2>p. PICK s, A, B : /\ s = RowIds(tokens) /\ A = {s[g] : g \in 1 .. Len(s)}
                       /\ B = {tokens[t] : t \in 1 .. n}
    OBVIOUS
  <2>1. /\ \A g \in 1 .. Len(s) : \E t \in 1 .. n : s[g] = tokens[t]
        /\ \A t \in 1 .. n : \E g \in 1 .. Len(s) : s[g] = tokens[t]
    BY <1>8, <2>p DEF Lists
  <2>2. \A x \in A : x \in B
    <3> TAKE x \in A
    <3>1. PICK g \in 1 .. Len(s) : x = s[g]
      BY <2>p
    <3>2. PICK t \in 1 .. n : s[g] = tokens[t]
      BY <2>1
    <3> QED
      BY <2>p, <3>1, <3>2
  <2>3. \A x \in B : x \in A
    <3> TAKE x \in B
    <3>1. PICK t \in 1 .. n : x = tokens[t]
      BY <2>p
    <3>2. PICK g \in 1 .. Len(s) : s[g] = tokens[t]
      BY <2>1
    <3> QED
      BY <2>p, <3>1, <3>2
  <2>4. A = B
    BY ONLY <2>2, <2>3
  <2> QED
    BY ONLY <2>p, <2>4
<1> QED
  BY <1>1, <1>8, <1>9 DEF Lists

\* The positions of the first groups, for each number of them.
UptoOf(tokens, ids, n, f) ==
    f = [g \in 0 .. n |-> IF g = 0 THEN << >> ELSE f[g - 1] \o Occurrences(tokens, ids[g])]

\* There are such.
LEMMA UptoExists ==
    ASSUME NEW tokens, NEW ids, NEW n \in Nat
    PROVE  \E f : UptoOf(tokens, ids, n, f)
<1> DEFINE Q == {k \in 0 .. n : \E f : UptoOf(tokens, ids, k, f)}
           Z == [g \in 0 .. 0 |-> << >>]
           Of(f, g) == IF g = 0 THEN << >> ELSE f[g - 1] \o Occurrences(tokens, ids[g])
<1>1. 0 \in Q
  <2>1. \A g \in 0 .. 0 : Of(Z, g) = << >>
    OBVIOUS
  <2>2. UptoOf(tokens, ids, 0, Z)
    BY <2>1 DEF UptoOf
  <2> QED
    BY <2>2
<1>2. ASSUME NEW k \in 0 .. n - 1, k \in Q PROVE k + 1 \in Q
  <2>1. PICK f : UptoOf(tokens, ids, k, f)
    BY <1>2
  <2>2. k \in Nat /\ k + 1 \in 0 .. n
    OBVIOUS
  <2> PICK h : h = [g \in 0 .. k + 1 |-> Of(f, g)]
    OBVIOUS
  <2>3. ASSUME NEW g \in 0 .. k + 1, g # 0 PROVE h[g - 1] = f[g - 1]
    <3> PICK j : j = g - 1
      OBVIOUS
    <3>1. j \in 0 .. k /\ j \in 0 .. k + 1
      BY <2>2, <2>3
    <3>2. f[j] = Of(f, j)
      BY ONLY <2>1, <3>1, Zenon DEF UptoOf
    <3>3. h[j] = Of(f, j)
      <4> HIDE DEF Of
      <4> QED
        BY <3>1
    <3> QED
      BY <3>2, <3>3
  <2>4. \A g \in 0 .. k + 1 : Of(f, g) = Of(h, g)
    BY <2>3
  <2>5. UptoOf(tokens, ids, k + 1, h)
    <3>1. h = [g \in 0 .. k + 1 |-> Of(h, g)]
      <4> HIDE DEF Of
      <4> QED
        BY <2>4
    <3> QED
      BY ONLY <3>1 DEF UptoOf
  <2> QED
    BY <2>2, <2>5
<1>3. 0 .. n \subseteq Q
  <2> HIDE DEF Q
  <2> QED
    BY <1>1, <1>2, Climb
<1> QED
  BY <1>3

\* The positions of the groups, one group's after another's.
LEMMA PositionsAre ==
    ASSUME NEW tokens, IsSeq(tokens), NEW u, u = PositionsUpTo(tokens)
    PROVE  /\ u[0] = << >> /\ ScatterGroups(tokens) \in Nat
           /\ \A g \in 0 .. ScatterGroups(tokens) : IsSeq(u[g])
           /\ \A g \in 1 .. ScatterGroups(tokens) :
                 u[g] = u[g - 1] \o Occurrences(tokens, RowIds(tokens)[g])
<1>p. PICK n, ids : n = ScatterGroups(tokens) /\ ids = RowIds(tokens)
  OBVIOUS
<1>1. n \in Nat
  BY <1>p, RowIdsIs, SeqIs DEF ScatterGroups
<1>2. UptoOf(tokens, RowIds(tokens), ScatterGroups(tokens), u)
  <2>1. \E f : UptoOf(tokens, RowIds(tokens), ScatterGroups(tokens), f)
    BY <1>1, <1>p, UptoExists
  <2>2. PositionsUpTo(tokens)
        = CHOOSE f : UptoOf(tokens, RowIds(tokens), ScatterGroups(tokens), f)
    BY ONLY DEF PositionsUpTo, UptoOf
  <2> QED
    BY <2>1, <2>2
<1>3. \A g \in 0 .. n : u[g] = IF g = 0 THEN << >> ELSE u[g - 1] \o Occurrences(tokens, ids[g])
  BY ONLY <1>2, <1>p, Zenon DEF UptoOf
<1>4. u[0] = << >>
  BY <1>1, <1>3
<1>5. \A g \in 1 .. n : u[g] = u[g - 1] \o Occurrences(tokens, ids[g])
  <2> TAKE g \in 1 .. n
  <2>1. g \in 0 .. n /\ g # 0
    BY <1>1
  <2> QED
    BY <1>3, <2>1
<1> DEFINE Q == {k \in 0 .. n : IsSeq(u[k])}
<1>6. 0 \in Q
  <2>1. IsSeq(<< >>)
    <3>1. << >> \in Seq({})
      OBVIOUS
    <3> QED
      BY <3>1 DEF IsSeq
  <2> QED
    BY <1>1, <1>4, <2>1
<1>7. ASSUME NEW k \in 0 .. n - 1, k \in Q PROVE k + 1 \in Q
  <2>p. PICK g : g = k + 1
    OBVIOUS
  <2>1. g \in 0 .. n /\ g \in 1 .. n /\ g - 1 = k
    BY <1>1, <2>p
  <2>2. IsSeq(u[k]) /\ IsSeq(Occurrences(tokens, ids[g]))
    BY <1>7, OccurrencesIs
  <2>3. IsSeq(u[k] \o Occurrences(tokens, ids[g]))
    BY ONLY <2>2, ConcatIs
  <2>4. IsSeq(u[g])
    BY <1>5, <2>1, <2>3
  <2> QED
    BY ONLY <2>1, <2>4, <2>p
<1>8. 0 .. n \subseteq Q
  <2> HIDE DEF Q
  <2> QED
    BY <1>1, <1>6, <1>7, Climb
<1> QED
  BY <1>1, <1>4, <1>5, <1>8, <1>p

GroupsComeFirst(tokens, u, g) ==
    /\ Len(u[g]) \in Nat /\ Len(u[g]) <= Len(RowPositions(tokens))
    /\ Len(RowPositions(tokens)) \in Nat
    /\ \A i \in 1 .. Len(u[g]) : RowPositions(tokens)[i] = u[g][i]

\* Those of the first groups come first.
LEMMA PositionsStart ==
    ASSUME NEW tokens, IsSeq(tokens), NEW u, u = PositionsUpTo(tokens),
           NEW g \in 0 .. ScatterGroups(tokens)
    PROVE  GroupsComeFirst(tokens, u, g)
<1>p. PICK n : n = ScatterGroups(tokens)
  OBVIOUS
<1>1. /\ n \in Nat /\ \A k \in 0 .. n : IsSeq(u[k])
      /\ \A k \in 1 .. n : u[k] = u[k - 1] \o Occurrences(tokens, RowIds(tokens)[k])
  BY <1>p, PositionsAre
<1>2. \A k \in 0 .. n : Len(u[k]) \in Nat
  BY <1>1, SeqIs
<1> DEFINE Starts(k) == k >= g => /\ Len(u[g]) <= Len(u[k])
                                  /\ \A i \in 1 .. Len(u[g]) : u[k][i] = u[g][i]
           Q == {k \in 0 .. n : Starts(k)}
<1>3. 0 \in Q
  <2>1. 0 >= g => g = 0
    BY <1>1, <1>p
  <2>2. Starts(0)
    BY <1>1, <1>2, <1>p, <2>1
  <2> QED
    BY <1>1, <2>2
<1>4. ASSUME NEW k \in 0 .. n - 1, k \in Q PROVE k + 1 \in Q
  <2>p. PICK h, o : h = k + 1 /\ o = Occurrences(tokens, RowIds(tokens)[h])
    OBVIOUS
  <2>1. h \in 0 .. n /\ h \in 1 .. n /\ h - 1 = k /\ k \in 0 .. n /\ g \in Nat
    BY <1>1, <1>p, <2>p
  <2>2. CASE h > g
    <3>1. k >= g
      BY <2>1, <2>2
    <3>2. IsSeq(u[k]) /\ IsSeq(o) /\ u[h] = u[k] \o o
      BY <1>1, <2>1, <2>p, OccurrencesIs
    <3>3. /\ Len(u[h]) = Len(u[k]) + Len(o) /\ Len(o) \in Nat
          /\ \A i \in 1 .. Len(u[k]) : u[h][i] = u[k][i]
      <4>1. /\ Len(u[k] \o o) = Len(u[k]) + Len(o)
            /\ \A i \in 1 .. Len(u[k]) : (u[k] \o o)[i] = u[k][i]
        BY <3>2, ConcatIs
      <4> QED
        BY <3>2, <4>1, SeqIs
    <3>4. Starts(k)
      BY <1>4
    <3>5. Starts(h)
      BY <1>2, <1>p, <2>1, <3>1, <3>3, <3>4
    <3> QED
      BY ONLY <2>1, <2>p, <3>5
  <2>3. CASE ~ h > g
    <3>1. h >= g => h = g
      BY <2>1, <2>3
    <3>2. Starts(h)
      BY <1>2, <1>p, <2>1, <3>1
    <3> QED
      BY ONLY <2>1, <2>p, <3>2
  <2> QED
    BY <2>2, <2>3
<1>5. Starts(n)
  <2>1. 0 .. n \subseteq Q
    <3> HIDE DEF Q
    <3> QED
      BY <1>1, <1>3, <1>4, Climb
  <2>2. n \in 0 .. n
    BY <1>1
  <2> QED
    BY ONLY <2>1, <2>2
<1>6. n >= g /\ n \in 0 .. n
  BY <1>1, <1>p
<1>7. RowPositions(tokens) = u[n]
  BY <1>p DEF RowPositions
<1> QED
  BY <1>2, <1>5, <1>6, <1>7, <1>p DEF GroupsComeFirst

\* Each group's positions are cut out of all of them where its offsets say,
\* whatever comes after them.
LEMMA GroupIs ==
    ASSUME NEW tokens, IsSeq(tokens), NEW g \in 1 .. ScatterGroups(tokens), NEW u, u = PositionsUpTo(tokens),
           NEW p, \A i \in 1 .. Len(RowPositions(tokens)) : p[i] = RowPositions(tokens)[i]
    PROVE  SubSeq(p, Len(u[g - 1]) + 1, Len(u[g])) = Occurrences(tokens, RowIds(tokens)[g])
<1>p. PICK o, h, a, b : /\ o = Occurrences(tokens, RowIds(tokens)[g]) /\ h = g - 1
                        /\ a = Len(u[h]) /\ b = Len(u[g])
  OBVIOUS
<1>1. ScatterGroups(tokens) \in Nat /\ \A k \in 0 .. ScatterGroups(tokens) : IsSeq(u[k])
  BY PositionsAre
<1>2. h \in 0 .. ScatterGroups(tokens) /\ g \in 0 .. ScatterGroups(tokens)
  BY <1>1, <1>p
<1>3. IsSeq(u[h]) /\ IsSeq(o) /\ u[g] = u[h] \o o
  BY <1>1, <1>2, <1>p, OccurrencesIs, PositionsAre
<1>q. PICK w : w = Len(o)
  OBVIOUS
<1>4. a \in Nat /\ w \in Nat /\ Len(u[h]) = a /\ Len(o) = w /\ o = [i \in 1 .. w |-> o[i]] /\ DOMAIN o = 1 .. w
  BY <1>3, <1>p, <1>q, SeqIs
<1>5. b = a + w /\ \A i \in 1 .. w : u[g][a + i] = o[i]
  <2>1. Len(u[h] \o o) = Len(u[h]) + Len(o) /\ \A i \in 1 .. Len(o) : (u[h] \o o)[Len(u[h]) + i] = o[i]
    BY <1>3, ConcatIs, SMTT(60)
  <2> QED
    BY <1>3, <1>4, <1>p, <2>1
<1>s. GroupsComeFirst(tokens, u, g)
  BY <1>2, PositionsStart
<1>6. /\ b <= Len(RowPositions(tokens)) /\ Len(RowPositions(tokens)) \in Nat
      /\ \A i \in 1 .. b : RowPositions(tokens)[i] = u[g][i]
  BY <1>p, <1>s DEF GroupsComeFirst
<1>7. \A i \in 1 .. w : p[a + i] = o[i]
  <2> TAKE i \in 1 .. w
  <2>1. a + i \in 1 .. b /\ a + i \in 1 .. Len(RowPositions(tokens))
    BY <1>4, <1>5, <1>6
  <2> QED
    BY <1>5, <1>6, <2>1
<1>r. PICK c, S, s : c = a + 1 /\ S = {p[i] : i \in c .. b} /\ s = SubSeq(p, c, b)
  OBVIOUS
<1>8. c \in Int /\ b \in Int /\ \A i \in c .. b : p[i] \in S
  BY <1>4, <1>5, <1>r
<1>9. /\ s \in Seq(S) /\ Len(s) = (IF c <= b THEN b - c + 1 ELSE 0)
      /\ \A i \in 1 .. b - c + 1 : s[i] = p[c + i - 1]
  BY ONLY <1>8, <1>r, SubSeqProperties
<1>10. Len(s) = w /\ \A i \in 1 .. w : s[i] = o[i]
  <2>1. b - c + 1 = w /\ (c <= b <=> w # 0)
    BY <1>4, <1>5, <1>r
  <2>2. \A i \in 1 .. w : s[i] = p[a + i]
    <3> TAKE i \in 1 .. w
    <3>1. c + i - 1 = a + i
      BY <1>4, <1>r
    <3> QED
      BY <1>9, <2>1, <3>1
  <2> QED
    BY <1>4, <1>7, <1>9, <2>1, <2>2
<1>11. IsSeq(s)
  BY <1>9 DEF IsSeq
<1>12. s = [i \in 1 .. w |-> s[i]]
  BY <1>10, <1>11, SeqIs
<1>13. s = o
  BY ONLY <1>4, <1>10, <1>12
<1> QED
  BY <1>13, <1>p, <1>r

\* Sequences put together, all but one of them empty, are that one.
LEMMA FlatAlone ==
    ASSUME NEW n \in Nat, NEW ss, DOMAIN ss = 1 .. n, ss = [i \in 1 .. n |-> ss[i]],
           NEW h \in 1 .. n, IsSeq(ss[h]), \A i \in 1 .. n : i # h => ss[i] = << >>
    PROVE  FlattenSeq(ss) = ss[h]
<1>0. IsSeq(<< >>)
  <2>1. << >> \in Seq({})
    OBVIOUS
  <2> QED
    BY <2>1 DEF IsSeq
<1>1. \A i \in 1 .. n : IsSeq(ss[i])
  BY <1>0
<1>2. PICK f : /\ f[0] = << >> /\ f[n] = FlattenSeq(ss)
               /\ \A k \in 0 .. n : IsSeq(f[k])
               /\ \A k \in 1 .. n : f[k] = f[k - 1] \o ss[k]
  BY <1>1, FlatIs
<1> DEFINE Q == {k \in 0 .. n : f[k] = IF k < h THEN << >> ELSE ss[h]}
<1>3. 0 \in Q
  BY <1>2
<1>4. ASSUME NEW k \in 0 .. n - 1, k \in Q PROVE k + 1 \in Q
  <2>p. PICK i : i = k + 1
    OBVIOUS
  <2>1. i \in 1 .. n /\ i \in 0 .. n /\ i - 1 = k
    BY <2>p
  <2>2. f[i] = f[k] \o ss[i]
    BY <1>2, <2>1
  <2>3. f[k] = IF k < h THEN << >> ELSE ss[h]
    BY <1>4
  <2>4. f[i] = IF i < h THEN << >> ELSE ss[h]
    <3>1. CASE i < h
      <4>1. f[k] = << >> /\ ss[i] = << >>
        BY <2>1, <2>3, <3>1
      <4>2. << >> \o << >> = << >>
        BY <1>0, ConcatNothing
      <4> QED
        BY <2>2, <3>1, <4>1, <4>2
    <3>2. CASE i = h
      <4>1. f[k] = << >> /\ ss[i] = ss[h]
        BY <2>1, <2>3, <3>2
      <4>2. << >> \o ss[h] = ss[h]
        BY ConcatNothing
      <4> QED
        BY <2>1, <2>2, <3>2, <4>1, <4>2
    <3>3. CASE i > h
      <4>1. f[k] = ss[h] /\ ss[i] = << >>
        BY <2>1, <2>3, <3>3
      <4>2. ss[h] \o << >> = ss[h]
        BY ConcatNothing
      <4>3. f[i] = ss[h]
        BY ONLY <2>2, <4>1, <4>2
      <4>4. ~ i < h
        BY <2>1, <3>3
      <4> QED
        BY ONLY <4>3, <4>4
    <3> QED
      BY <2>1, <3>1, <3>2, <3>3
  <2> QED
    BY ONLY <2>1, <2>4, <2>p
<1>5. f[n] = IF n < h THEN << >> ELSE ss[h]
  <2>1. 0 .. n \subseteq Q
    <3> HIDE DEF Q
    <3> QED
      BY <1>3, <1>4, Climb
  <2> QED
    BY <2>1
<1> QED
  BY <1>2, <1>5

\* The index in memory is that of these tokens, whatever comes after it.
Indexes(m, tokens) ==
    /\ \A g \in 1 .. ScatterGroups(tokens) : m[Scratch("row_ids")][g] = RowIds(tokens)[g]
    /\ \A g \in 1 .. ScatterGroups(tokens) + 1 :
          m[Scratch("row_offsets")][g] = RowOffsets(tokens)[g]
    /\ \A i \in 1 .. Len(RowPositions(tokens)) :
          m[Scratch("row_positions")][i] = RowPositions(tokens)[i]

\* The rows the kernel adds to are those the host adds to.
LEMMA ScatteredRowsAre ==
    ASSUME NEW m, NEW tokens, IsSeq(tokens), Indexes(m, tokens)
    PROVE  ScatteredRows(ScatterGroups(tokens), m[Scratch("row_ids")], m[Scratch("row_offsets")],
                         m[Scratch("row_positions")]) = ScatterAddRows(tokens)
<1>p. PICK n, ids, offsets, positions, u :
        /\ n = ScatterGroups(tokens) /\ ids = m[Scratch("row_ids")]
        /\ offsets = m[Scratch("row_offsets")] /\ positions = m[Scratch("row_positions")]
        /\ u = PositionsUpTo(tokens)
  OBVIOUS
<1>1. /\ \A g \in 1 .. n : ids[g] = RowIds(tokens)[g]
      /\ \A g \in 1 .. n + 1 : offsets[g] = RowOffsets(tokens)[g]
      /\ \A i \in 1 .. Len(RowPositions(tokens)) : positions[i] = RowPositions(tokens)[i]
  BY <1>p DEF Indexes
<1>2. n \in Nat /\ n = Len(RowIds(tokens))
  BY <1>p, PositionsAre DEF ScatterGroups
<1>3. \A g \in 1 .. n + 1 : offsets[g] = Len(u[g - 1])
  <2> TAKE g \in 1 .. n + 1
  <2>1. RowOffsets(tokens)[g] = Len(PositionsUpTo(tokens)[g - 1])
    BY <1>p DEF RowOffsets
  <2> QED
    BY <1>1, <1>p, <2>1
<1>4. {RowIds(tokens)[g] : g \in 1 .. n} = {tokens[t] : t \in DOMAIN tokens}
  BY <1>2, RowIdsIs
<1>5. {ids[g] : g \in 1 .. n} = {RowIds(tokens)[g] : g \in 1 .. n}
  BY <1>1
<1> DEFINE Rows(id) == FlattenSeq([g \in 1 .. n |->
                           IF ids[g] = id THEN SubSeq(positions, offsets[g] + 1, offsets[g + 1]) ELSE << >>])
<1>6. ASSUME NEW id \in {tokens[t] : t \in DOMAIN tokens}
      PROVE  Rows(id) = Occurrences(tokens, id)
  <2>1. PICK h \in 1 .. n : RowIds(tokens)[h] = id
    BY <1>4
  <2>p. PICK ss : ss = [g \in 1 .. n |->
                     IF ids[g] = id THEN SubSeq(positions, offsets[g] + 1, offsets[g + 1]) ELSE << >>]
    OBVIOUS
  <2>2. ASSUME NEW g \in 1 .. n, g # h PROVE ss[g] = << >>
    <3>1. ids[g] # id
      BY <1>1, <1>2, <2>1, <2>2, RowIdsIs
    <3> QED
      BY <2>p, <3>1
  <2>3. ss[h] = Occurrences(tokens, id)
    <3>1. ids[h] = id
      BY <1>1, <2>1
    <3>2. ss[h] = SubSeq(positions, offsets[h] + 1, offsets[h + 1])
      BY <2>p, <3>1
    <3>3. offsets[h] = Len(u[h - 1]) /\ offsets[h + 1] = Len(u[h])
      <4>p. PICK k : k = h + 1
        OBVIOUS
      <4>1. h \in 1 .. n + 1 /\ k \in 1 .. n + 1 /\ k - 1 = h
        BY <1>2, <4>p
      <4> QED
        BY <1>3, <4>1, <4>p
    <3>4. SubSeq(positions, Len(u[h - 1]) + 1, Len(u[h])) = Occurrences(tokens, RowIds(tokens)[h])
      BY <1>1, <1>p, GroupIs, ZenonT(60)
    <3> QED
      BY <2>1, <3>2, <3>3, <3>4
  <2>4. DOMAIN ss = 1 .. n /\ ss = [g \in 1 .. n |-> ss[g]] /\ IsSeq(ss[h])
    BY <2>p, <2>3, OccurrencesIs
  <2>5. FlattenSeq(ss) = ss[h]
    BY ONLY <1>2, <2>2, <2>4, FlatAlone
  <2> QED
    BY <2>p, <2>3, <2>5
<1>7. ScatteredRows(n, ids, offsets, positions) = [id \in {ids[g] : g \in 1 .. n} |-> Rows(id)]
  BY DEF ScatteredRows
<1>8. ScatterAddRows(tokens) = [id \in {tokens[t] : t \in DOMAIN tokens} |-> Occurrences(tokens, id)]
  BY DEF ScatterAddRows
<1> HIDE DEF Rows
<1>9. [id \in {ids[g] : g \in 1 .. n} |-> Rows(id)]
      = [id \in {tokens[t] : t \in DOMAIN tokens} |-> Occurrences(tokens, id)]
  BY <1>4, <1>5, <1>6
<1> QED
  BY <1>7, <1>8, <1>9, <1>p

\* The last command of the backward pass.
Scatter(seq) ==
    dispatch_scatter_add(Scratch("d_hidden"), Scratch("row_ids"), Scratch("row_offsets"),
                         Scratch("row_positions"), EmbedOf("grads"), seq, ScatterGroups(seq.toks))

\* It adds the rows of the sequence to the gradient of the embedding.
LEMMA ScatterTurn ==
    ASSUME NEW table, NEW m, NEW s, IsSeq(s.toks), Indexes(m, s.toks),
           Holds(m, Scratch("d_hidden"), <<"d_in", 1>>, s), EmbedOf("grads") \in DOMAIN m
    PROVE  Wrote(m, EmbedOf("grads"), Append(m[EmbedOf("grads")], Value(Top("d_embed_gather"), s)),
                 Now(table, m, Scatter(s)))
<1>p. PICK reads, writes, dims, y, x :
        /\ y = EmbedOf("grads") /\ x = Scratch("d_hidden") /\ writes = <<y>>
        /\ reads = <<x, Scratch("row_ids"), Scratch("row_offsets"), Scratch("row_positions")>>
        /\ dims = <<ScatterGroups(s.toks)>>
  OBVIOUS
<1>1. PICK c, p : /\ c = Dispatch("scatter_add", dims, s, reads, writes)
                  /\ c.do = "dispatch" /\ c.op = "scatter_add" /\ c.params = p /\ c.reads = reads
                  /\ c.writes = writes /\ p.dims = dims /\ p.seq = s
  BY DispatchIs
<1>2. Scatter(s) = c
  BY <1>1, <1>p DEF Scatter, dispatch_scatter_add
<1>3. Now(table, m, c) = ScatterAdded(m, c, p)
  <2>1. Now(table, m, c) = Execute(table, p, m, c)
    BY <1>1 DEF Now
  <2>2. Execute(table, p, m, c) = ScatterAdded(m, c, p)
    BY <1>1 DEF Execute, Computing, Accumulating
  <2> QED
    BY <2>1, <2>2
<1>4. /\ m[c.reads[1]].of = <<"d_in", 1>> /\ m[c.reads[1]].seq = s
      /\ c.reads[2] = Scratch("row_ids") /\ c.reads[3] = Scratch("row_offsets")
      /\ c.reads[4] = Scratch("row_positions") /\ p.dims[1] = ScatterGroups(s.toks)
      /\ c.writes[1] = y
  BY <1>1, <1>p DEF Holds, Value
<1>5. Scattered(m, c, p) = Value(Top("d_embed_gather"), s)
  <2>1. ScatteredRows(p.dims[1], m[c.reads[2]], m[c.reads[3]], m[c.reads[4]]) = ScatterAddRows(s.toks)
    BY <1>4, ScatteredRowsAre
  <2> QED
    BY <1>4, <2>1 DEF Scattered
<1>6. Now(table, m, c) = [m EXCEPT ![y] = Append(@, Value(Top("d_embed_gather"), s))]
  BY <1>3, <1>4, <1>5 DEF ScatterAdded
<1> QED
  BY <1>2, <1>6, <1>p DEF Wrote

-----------------------------------------------------------------------------
(* The whole backward pass.                                                *)

\* What goes past two passes goes past each.
LEMMA PassingParts ==
    ASSUME NEW s, NEW t, NEW b, IsSeq(s), IsSeq(t), Passing(s \o t, b)
    PROVE  Passing(s, b) /\ Passing(t, b)
<1>p. PICK n, k : n = Len(s) /\ k = Len(t)
  OBVIOUS
<1>1. /\ n \in Nat /\ k \in Nat /\ Len(s \o t) = n + k
      /\ \A i \in 1 .. n : (s \o t)[i] = s[i]
      /\ \A i \in 1 .. k : (s \o t)[n + i] = t[i]
  BY <1>p, ConcatIs, SeqIs
<1>2. \A i \in 1 .. n + k : Passes((s \o t)[i], b)
  BY <1>1 DEF Passing
<1>3. \A i \in 1 .. n : Passes(s[i], b)
  <2> TAKE i \in 1 .. n
  <2>1. i \in 1 .. n + k
    BY <1>1
  <2> QED
    BY <1>1, <1>2, <2>1
<1>4. \A i \in 1 .. k : Passes(t[i], b)
  <2> TAKE i \in 1 .. k
  <2>1. n + i \in 1 .. n + k
    BY <1>1
  <2> QED
    BY <1>1, <1>2, <2>1
<1> QED
  BY <1>3, <1>4, <1>p DEF Passing

\* A command on its own.
LEMMA TurnOne ==
    ASSUME NEW table, NEW m, NEW c, NEW n, Turns(table, m, <<c>>, n)
    PROVE  n = Now(table, m, c)
<1>p. PICK q : q = <<c>>
  OBVIOUS
<1>1. Len(q) = 1 /\ q[1] = c
  BY <1>p
<1>2. PICK mm : /\ mm[0] = m /\ mm[Len(q)] = n
                /\ \A i \in 1 .. Len(q) : mm[i] = Now(table, mm[i - 1], q[i])
  BY <1>p DEF Turns
<1>3. 1 \in 1 .. Len(q) /\ 1 - 1 = 0
  BY <1>1
<1>4. mm[1] = Now(table, mm[0], c)
  BY <1>1, <1>2, <1>3
<1> QED
  BY ONLY <1>1, <1>2, <1>4

\* One more at the end, and two.
LEMMA AppendsAre ==
    ASSUME NEW q, IsSeq(q), NEW x, NEW y
    PROVE  Append(q, x) = q \o <<x>> /\ Append(Append(q, x), y) = q \o <<x, y>>
<1>1. PICK S : q \in Seq(S)
  BY DEF IsSeq
<1>p. PICK T : T = S \cup {x, y}
  OBVIOUS
<1>2. q \in Seq(T) /\ x \in T /\ y \in T
  BY <1>1, <1>p
<1>3. Append(q, x) = q \o <<x>>
  BY <1>2
<1>4. Append(Append(q, x), y) = q \o <<x, y>>
  BY <1>2
<1> QED
  BY <1>3, <1>4

\* What a sequence adds to the gradient of a tensor.
Added(i, s) == [c \in DOMAIN Contributions(shapes[i]) |-> Value(Contributions(shapes[i])[c], s)]

\* For the embedding, the last gain and the tensors of a layer.
LEMMA AddedIs ==
    ASSUME NEW s
    PROVE  /\ Added(1, s) = <<Value(Top("d_embed_head"), s), Value(Top("d_embed_gather"), s)>>
           /\ Added(2 + Layers * 9, s) = <<Value(Top("d_final_norm_gain"), s)>>
           /\ \A l \in 1 .. Layers, t \in 1 .. 9 :
                 Added(1 + (l - 1) * 9 + t, s) = <<Value(<<GradientName[LayerTensors[t]], l>>, s)>>
<1>1. Added(1, s) = <<Value(Top("d_embed_head"), s), Value(Top("d_embed_gather"), s)>>
  <2>p. PICK z : z = <<Top("d_embed_head"), Top("d_embed_gather")>>
    OBVIOUS
  <2>1. Contributions(shapes[1]) = z
    BY <2>p, ShapesAre DEF Contributions, Top
  <2>2. Added(1, s) = [c \in DOMAIN z |-> Value(z[c], s)]
    BY <2>1 DEF Added
  <2> QED
    BY <2>p, <2>2
<1>2. ASSUME NEW i, NEW name, NEW l, shapes[i] = <<name, l>>, name # "embed"
      PROVE  Added(i, s) = <<Value(<<GradientName[name], l>>, s)>>
  <2>p. PICK z, x : z = <<x>> /\ x = <<GradientName[name], l>>
    OBVIOUS
  <2>1. Contributions(shapes[i]) = z
    BY <1>2, <2>p DEF Contributions
  <2>2. Added(i, s) = [c \in DOMAIN z |-> Value(z[c], s)]
    BY <2>1 DEF Added
  <2> QED
    BY <2>p, <2>2
<1>3. Added(2 + Layers * 9, s) = <<Value(Top("d_final_norm_gain"), s)>>
  <2>1. shapes[2 + Layers * 9] = <<"final_norm_gain", 0>>
    BY ShapesAre DEF Top
  <2>2. GradientName["final_norm_gain"] = "d_final_norm_gain"
    BY DEF GradientName
  <2> QED
    BY <1>2, <2>1, <2>2 DEF Top
<1>4. ASSUME NEW l \in 1 .. Layers, NEW t \in 1 .. 9
      PROVE  Added(1 + (l - 1) * 9 + t, s) = <<Value(<<GradientName[LayerTensors[t]], l>>, s)>>
  <2>1. shapes[1 + (l - 1) * 9 + t] = <<LayerTensors[t], l>>
    BY ShapesAre
  <2>2. LayerTensors[t] # "embed"
    BY SlotOfLayer DEF GradNames
  <2> QED
    BY <1>2, <2>1, <2>2
<1> QED
  BY <1>1, <1>3, <1>4

\* The gradients, sequences of contributions, and what a sequence adds.
Gradients(m) == \A i \in Slots : IsSeq(m[InSet("grads", i)])
Contributed(m, n, s) == \A i \in Slots : n[InSet("grads", i)] = m[InSet("grads", i)] \o Added(i, s)

\* After the backward pass of a sequence each gradient has grown by what the
\* host's backward pass would have added.
LEMMA BackwardTurn ==
    ASSUME NEW table, table = Results[FALSE], NEW m, Trains(m), Gradients(m),
           NEW s, s # NoSeq, IsSeq(s.toks), Indexes(m, s.toks),
           Forwarded(m, s), Holds(m, Scratch("d_logits"), Top("d_logits"), s),
           NEW n, Turns(table, m, encode_backward(s), n)
    PROVE  Trains(n) /\ DOMAIN n = DOMAIN m /\ Contributed(m, n, s)
<1>ss. PICK ss : ss = [k \in 1 .. Layers |->
                         BackwardMlp(Layers + 1 - k) \o BackwardAttention(Layers + 1 - k)]
  OBVIOUS
<1>p. PICK q, z, c : q = BackwardStart \o FlattenSeq(ss) /\ c = Scatter(s) /\ z = <<c>>
  OBVIOUS
<1>1. encode_backward(s) = q \o z
  BY <1>ss, <1>p DEF encode_backward, BackwardStart, Scatter
<1>2. IsSeq(q) /\ IsSeq(z)
  <2>1. Layers \in Nat /\ DOMAIN ss = 1 .. Layers /\ ss = [k \in 1 .. Layers |-> ss[k]]
    BY <1>ss, LayersAssumption
  <2>2. ASSUME NEW k \in 1 .. Layers PROVE IsSeq(ss[k])
    <3>p. PICK l : l = Layers + 1 - k
      OBVIOUS
    <3>1. ss[k] = BackwardMlp(l) \o BackwardAttention(l)
      BY <1>ss, <3>p
    <3>2. IsSeq(BackwardMlp(l) \o BackwardAttention(l))
      BY BackwardMlpIs, BackwardOutputIs, dispatch_attention_bwdIs, BackwardProjectionsIs, ConcatIs
         DEF BackwardAttention
    <3> QED
      BY <3>1, <3>2
  <2>3. IsSeq(FlattenSeq(ss))
    BY ONLY <2>1, <2>2, FlatIsSeq
  <2>4. IsSeq(BackwardStart)
    BY BackwardStartIs
  <2> QED
    BY <1>p, <2>3, <2>4, ConcatIs, OneIs
<1>3. PICK o : Turns(table, m, q, o) /\ Turns(table, o, z, n)
  <2>1. Turns(table, m, q \o z, n)
    BY <1>1
  <2> QED
    BY ONLY <1>2, <2>1, TurnsSplit
<1>4. /\ Trains(o) /\ DOMAIN o = DOMAIN m
      /\ Holds(o, Scratch("d_hidden"), <<"d_in", 1>>, s)
      /\ \A l \in 1 .. Layers : Grows(m, o, l, s, GradNames)
      /\ HeadGrows(m, o, s)
  <2>1. Turns(table, m, BackwardStart \o FlattenSeq(ss), o)
    BY <1>3, <1>p
  <2>2. /\ table = Results[FALSE] /\ Trains(m) /\ s # NoSeq /\ Forwarded(m, s)
        /\ Holds(m, Scratch("d_logits"), Top("d_logits"), s)
    OBVIOUS
  <2> QED
    BY ONLY <1>ss, <2>1, <2>2, BackwardLayersTurn
<1>5. ASSUME NEW b, Lasting(b) PROVE Passing(q, b) /\ Passing(z, b)
  <2>1. /\ \A l, which : LayerOf("grads", l, which) # b
        /\ EmbedOf("grads") # b /\ FinalGainOf("grads") # b
        /\ \A name \in ScratchNames : Scratch(name) # b
    BY <1>5, LastingApart
  <2>2. b \notin {Scratch("act"), Scratch("d_act"), Scratch("d_gate"), Scratch("d_up"),
                  Scratch("d_a"), Scratch("d_b"), Scratch("d_c"), Scratch("d_hidden"),
                  Scratch("d_score"), Scratch("d_q"), Scratch("d_k"), Scratch("d_v")}
    BY ONLY <2>1 DEF ScratchNames
  <2>3. Passing(encode_backward(s), b)
    BY <2>1, <2>2, BackwardPasses
  <2>4. Passing(q \o z, b)
    BY <1>1, <2>3
  <2> QED
    BY ONLY <1>2, <2>4, PassingParts
<1>6. ASSUME NEW name \in RowNames PROVE o[Scratch(name)] = m[Scratch(name)]
  <2>p. PICK b : b = Scratch(name)
    OBVIOUS
  <2>1. Lasting(b) /\ b \in DOMAIN m
    BY <2>p DEF Lasting, Trains
  <2>2. Passing(q, b)
    BY <1>5, <2>1
  <2>3. DOMAIN o = DOMAIN m /\ (b \in DOMAIN m => o[b] = m[b])
    BY ONLY <1>3, <2>2, TurnsKeep
  <2> QED
    BY <2>1, <2>3, <2>p
<1>7. Indexes(o, s.toks)
  <2>1. "row_ids" \in RowNames /\ "row_offsets" \in RowNames /\ "row_positions" \in RowNames
    BY DEF RowNames
  <2>2. /\ o[Scratch("row_ids")] = m[Scratch("row_ids")]
        /\ o[Scratch("row_offsets")] = m[Scratch("row_offsets")]
        /\ o[Scratch("row_positions")] = m[Scratch("row_positions")]
    BY <1>6, <2>1
  <2> QED
    BY <2>2 DEF Indexes
<1>y. PICK y : y = EmbedOf("grads")
  OBVIOUS
<1>8. /\ DOMAIN n = DOMAIN o /\ n[y] = Append(o[y], Value(Top("d_embed_gather"), s))
      /\ \A b \in DOMAIN o : b # y => n[b] = o[b]
  <2>1. n = Now(table, o, c)
    BY <1>3, <1>p, TurnOne
  <2>2. y \in DOMAIN o
    BY <1>4, <1>y, TopWeighs DEF Trains
  <2>3. Wrote(o, y, Append(o[y], Value(Top("d_embed_gather"), s)), Now(table, o, c))
    BY <1>4, <1>7, <1>p, <1>y, <2>2, ScatterTurn
  <2> QED
    BY <2>1, <2>3 DEF Wrote
<1>9. Trains(n) /\ DOMAIN n = DOMAIN m
  <2>1. \A b : Lasting(b) => Passing(z, b)
    BY <1>5
  <2>2. Trains(n) /\ DOMAIN n = DOMAIN o
    BY ONLY <1>3, <1>4, <2>1, TrainsStill
  <2> QED
    BY <1>4, <2>2
<1>10. ASSUME NEW i \in Slots PROVE n[InSet("grads", i)] = m[InSet("grads", i)] \o Added(i, s)
  <2>p. PICK b, g : b = InSet("grads", i) /\ g = m[b]
    OBVIOUS
  <2>1. IsSeq(g)
    BY <2>p DEF Gradients
  <2>2. b \in DOMAIN o
    BY <1>4, <2>p DEF Trains
  <2>3. \A j : InSet("grads", j) = InSet("grads", 1) => j = 1
    BY DEF InSet
  <2>4. y = InSet("grads", 1)
    BY <1>y, TopWeighs
  <2>5. CASE i = 1
    <3>1. b = y
      BY <2>p, <2>4, <2>5
    <3>p. PICK u, v : u = Value(Top("d_embed_head"), s) /\ v = Value(Top("d_embed_gather"), s)
      OBVIOUS
    <3>2. o[y] = Append(g, u)
      BY <1>4, <1>y, <2>p, <3>1, <3>p DEF HeadGrows
    <3>3. n[b] = Append(Append(g, u), v)
      BY <1>8, <3>1, <3>2, <3>p
    <3>4. Append(Append(g, u), v) = g \o <<u, v>>
      BY ONLY <2>1, AppendsAre
    <3>5. Added(i, s) = <<u, v>>
      BY <2>5, <3>p, AddedIs
    <3> QED
      BY ONLY <2>p, <3>3, <3>4, <3>5
  <2>6. CASE i # 1
    <3>1. n[b] = o[b]
      BY <1>8, <2>p, <2>2, <2>3, <2>4, <2>6
    <3>2. CASE i = 2 + Layers * 9
      <4>p. PICK u : u = Value(Top("d_final_norm_gain"), s)
        OBVIOUS
      <4>1. b = FinalGainOf("grads")
        BY <2>p, <3>2, TopWeighs
      <4>2. o[b] = Append(g, u)
        BY <1>4, <2>p, <4>1, <4>p DEF HeadGrows
      <4>3. Append(g, u) = g \o <<u>>
        BY ONLY <2>1, AppendsAre
      <4>4. Added(i, s) = <<u>>
        BY <3>2, <4>p, AddedIs
      <4> QED
        BY ONLY <2>p, <3>1, <4>2, <4>3, <4>4
    <3>3. CASE \E l \in 1 .. Layers, t \in 1 .. 9 : i = 1 + (l - 1) * 9 + t
      <4>1. PICK l \in 1 .. Layers, t \in 1 .. 9 : i = 1 + (l - 1) * 9 + t
        BY <3>3
      <4>p. PICK u, which : u = Value(<<GradientName[which], l>>, s) /\ which = LayerTensors[t]
        OBVIOUS
      <4>2. b = LayerOf("grads", l, which) /\ which \in GradNames
        BY <2>p, <4>1, <4>p, SlotOfLayer
      <4>3. o[b] = Append(g, u)
        <5>1. Grows(m, o, l, s, GradNames)
          BY <1>4
        <5> QED
          BY <2>p, <4>2, <4>p, <5>1 DEF Grows
      <4>4. Append(g, u) = g \o <<u>>
        BY ONLY <2>1, AppendsAre
      <4>5. Added(i, s) = <<u>>
        BY <4>1, <4>p, AddedIs
      <4> QED
        BY ONLY <2>p, <3>1, <4>3, <4>4, <4>5
    <3> QED
      BY <2>6, <3>2, <3>3, SlotsAre
  <2> QED
    BY <2>5, <2>6
<1> QED
  BY <1>9, <1>10 DEF Contributed

-----------------------------------------------------------------------------
(* What goes up before a sequence.                                         *)

\* A write of a buffer.
LEMMA WriteTurn ==
    ASSUME NEW table, NEW m, NEW b, b \in DOMAIN m, NEW v
    PROVE  Wrote(m, b, IF b[1] \in RowNames THEN Overwrite(m[b], v) ELSE v,
                 Now(table, m, WriteBuffer(b, v)))
<1>p. PICK c : c = WriteBuffer(b, v)
  OBVIOUS
<1>1. c.do = "write" /\ c.dst = b /\ c.value = v
  BY <1>p, WriteIs
<1>2. Now(table, m, c) = write_buffer(m, c)
  BY <1>1 DEF Now
<1>3. write_buffer(m, c) = [m EXCEPT ![b] = IF b[1] \in RowNames THEN Overwrite(@, v) ELSE v]
  BY <1>1 DEF write_buffer, RowNames
<1> QED
  BY <1>2, <1>3, <1>p DEF Wrote

\* What is written over a buffer comes first in it.
LEMMA OverwriteIs ==
    ASSUME NEW old, NEW new, IsSeq(old), IsSeq(new)
    PROVE  IsSeq(Overwrite(old, new)) /\ \A i \in 1 .. Len(new) : Overwrite(old, new)[i] = new[i]
<1>p. PICK a, b, n, s : /\ a = Len(old) /\ b = Len(new) /\ n = (IF a > b THEN a ELSE b)
                        /\ s = Overwrite(old, new)
  OBVIOUS
<1>1. a \in Nat /\ b \in Nat
  BY <1>p, SeqIs
<1>2. n \in Nat /\ b <= n
  BY <1>1, <1>p
<1>3. s = [i \in 1 .. n |-> IF i <= b THEN new[i] ELSE old[i]]
  BY <1>p DEF Overwrite
<1>4. DOMAIN s = 1 .. n /\ s = [i \in 1 .. n |-> s[i]]
  BY <1>3
<1>5. IsSeq(s)
  BY ONLY <1>2, <1>4, SeqMade
<1>6. \A i \in 1 .. b : s[i] = new[i]
  BY <1>1, <1>2, <1>3
<1> QED
  BY <1>5, <1>6, <1>p

\* Memory n is memory m but for these buffers.
Outside(m, n, buffers) ==
    DOMAIN n = DOMAIN m /\ \A b \in DOMAIN m : b \notin buffers => n[b] = m[b]

TokenBuffers == {Scratch("tokens"), Scratch("targets")}
RowBuffers == {Scratch(name) : name \in RowNames}

\* The tokens and the targets are those of the sequence.
LEMMA TokensTurn ==
    ASSUME NEW table, NEW m, Trains(m), NEW s, NEW n, Turns(table, m, WriteTokens(s), n)
    PROVE  /\ Holds(n, Scratch("tokens"), Tokens, s)
           /\ Holds(n, Scratch("targets"), Top("targets"), s)
           /\ Outside(m, n, TokenBuffers)
<1>p. PICK q, b1, b2, v1, v2 :
        /\ q = WriteTokens(s) /\ b1 = Scratch("tokens") /\ b2 = Scratch("targets")
        /\ v1 = Value(Tokens, s) /\ v2 = Value(Top("targets"), s)
  OBVIOUS
<1>1. Len(q) = 2 /\ q[1] = WriteBuffer(b1, v1) /\ q[2] = WriteBuffer(b2, v2)
  BY <1>p, WritesIs
<1>2. PICK mm : mm[0] = m /\ mm[2] = n /\ \A i \in 1 .. 2 : mm[i] = Now(table, mm[i - 1], q[i])
  BY <1>1, <1>p DEF Turns
<1>w. PICK k : k = mm[1]
  OBVIOUS
<1>3. k = Now(table, m, q[1]) /\ n = Now(table, k, q[2])
  <2>1. 1 \in 1 .. 2 /\ 2 \in 1 .. 2 /\ 1 - 1 = 0 /\ 2 - 1 = 1
    OBVIOUS
  <2> QED
    BY <1>2, <1>w, <2>1
<1>4. b1[1] \notin RowNames /\ b2[1] \notin RowNames /\ b1 # b2
  BY <1>p DEF RowNames, Scratch
<1>5. b1 \in DOMAIN m /\ b2 \in DOMAIN m
  BY <1>p DEF Trains, ScratchNames
<1>6. Wrote(m, b1, v1, k)
  <2>1. Wrote(m, b1, IF b1[1] \in RowNames THEN Overwrite(m[b1], v1) ELSE v1,
              Now(table, m, WriteBuffer(b1, v1)))
    BY <1>5, WriteTurn
  <2> QED
    BY <1>1, <1>3, <1>4, <2>1
<1>7. Wrote(k, b2, v2, n)
  <2>0. b2 \in DOMAIN k
    BY <1>5, <1>6 DEF Wrote
  <2>1. Wrote(k, b2, IF b2[1] \in RowNames THEN Overwrite(k[b2], v2) ELSE v2,
              Now(table, k, WriteBuffer(b2, v2)))
    BY <2>0, WriteTurn
  <2> QED
    BY <1>1, <1>3, <1>4, <2>1
<1>8. n[b1] = v1 /\ n[b2] = v2 /\ Outside(m, n, {b1, b2})
  BY <1>4, <1>5, <1>6, <1>7 DEF Wrote, Outside
<1> QED
  BY <1>8, <1>p DEF Holds, TokenBuffers

\* The index is that of its tokens.
LEMMA IndexTurn ==
    ASSUME NEW table, NEW m, Trains(m), NEW tokens, IsSeq(tokens), NEW n,
           Turns(table, m, upload_scatter_index(tokens), n)
    PROVE  /\ Indexes(n, tokens) /\ \A name \in RowNames : IsSeq(n[Scratch(name)])
           /\ Outside(m, n, RowBuffers)
<1>p. PICK q, b1, b2, b3, v1, v2, v3 :
        /\ q = upload_scatter_index(tokens) /\ b1 = Scratch("row_ids")
        /\ b2 = Scratch("row_offsets") /\ b3 = Scratch("row_positions")
        /\ v1 = RowIds(tokens) /\ v2 = RowOffsets(tokens) /\ v3 = RowPositions(tokens)
  OBVIOUS
<1>1. Len(q) = 3 /\ q[1] = WriteBuffer(b1, v1) /\ q[2] = WriteBuffer(b2, v2) /\ q[3] = WriteBuffer(b3, v3)
  BY <1>p, IndexIs
<1>2. PICK mm : mm[0] = m /\ mm[3] = n /\ \A i \in 1 .. 3 : mm[i] = Now(table, mm[i - 1], q[i])
  BY <1>1, <1>p DEF Turns
<1>w. PICK j, k : j = mm[1] /\ k = mm[2]
  OBVIOUS
<1>3. j = Now(table, m, q[1]) /\ k = Now(table, j, q[2]) /\ n = Now(table, k, q[3])
  <2>1. 1 \in 1 .. 3 /\ 2 \in 1 .. 3 /\ 3 \in 1 .. 3 /\ 1 - 1 = 0 /\ 2 - 1 = 1 /\ 3 - 1 = 2
    OBVIOUS
  <2> QED
    BY <1>2, <1>w, <2>1
<1>4. /\ b1[1] \in RowNames /\ b2[1] \in RowNames /\ b3[1] \in RowNames
      /\ b1 # b2 /\ b1 # b3 /\ b2 # b3
  BY <1>p DEF RowNames, Scratch
<1>5. /\ b1 \in DOMAIN m /\ b2 \in DOMAIN m /\ b3 \in DOMAIN m
      /\ IsSeq(m[b1]) /\ IsSeq(m[b2]) /\ IsSeq(m[b3])
  BY <1>p DEF Trains, RowNames
<1>6. Wrote(m, b1, Overwrite(m[b1], v1), j)
  <2>1. Wrote(m, b1, IF b1[1] \in RowNames THEN Overwrite(m[b1], v1) ELSE v1,
              Now(table, m, WriteBuffer(b1, v1)))
    BY <1>5, WriteTurn
  <2> QED
    BY <1>1, <1>3, <1>4, <2>1
<1>7. Wrote(j, b2, Overwrite(j[b2], v2), k)
  <2>0. b2 \in DOMAIN j
    BY <1>5, <1>6 DEF Wrote
  <2>1. Wrote(j, b2, IF b2[1] \in RowNames THEN Overwrite(j[b2], v2) ELSE v2,
              Now(table, j, WriteBuffer(b2, v2)))
    BY <2>0, WriteTurn
  <2> QED
    BY <1>1, <1>3, <1>4, <2>1
<1>8. Wrote(k, b3, Overwrite(k[b3], v3), n)
  <2>0. b3 \in DOMAIN k
    BY <1>5, <1>6, <1>7 DEF Wrote
  <2>1. Wrote(k, b3, IF b3[1] \in RowNames THEN Overwrite(k[b3], v3) ELSE v3,
              Now(table, k, WriteBuffer(b3, v3)))
    BY <2>0, WriteTurn
  <2> QED
    BY <1>1, <1>3, <1>4, <2>1
<1>9. /\ n[b1] = Overwrite(m[b1], v1) /\ n[b2] = Overwrite(m[b2], v2) /\ n[b3] = Overwrite(m[b3], v3)
      /\ Outside(m, n, {b1, b2, b3})
  BY <1>4, <1>5, <1>6, <1>7, <1>8 DEF Wrote, Outside
<1>10. IsSeq(v1) /\ IsSeq(v2) /\ IsSeq(v3) /\ Len(v2) = ScatterGroups(tokens) + 1 /\ Len(v1) = ScatterGroups(tokens)
  <2>1. IsSeq(v1) /\ Len(v1) = ScatterGroups(tokens)
    BY <1>p, RowIdsIs DEF ScatterGroups
  <2>2. ScatterGroups(tokens) \in Nat
    BY PositionsAre
  <2>3. IsSeq(v3)
    <3>p. PICK u, h : u = PositionsUpTo(tokens) /\ h = ScatterGroups(tokens)
      OBVIOUS
    <3>1. h \in 0 .. h /\ v3 = u[h]
      BY <1>p, <2>2, <3>p DEF RowPositions
    <3>2. \A g \in 0 .. h : IsSeq(u[g])
      BY <3>p, PositionsAre
    <3> QED
      BY <3>1, <3>2
  <2>4. IsSeq(v2) /\ Len(v2) = ScatterGroups(tokens) + 1
    <3>p. PICK h : h = ScatterGroups(tokens) + 1
      OBVIOUS
    <3>1. h \in Nat /\ DOMAIN v2 = 1 .. h /\ v2 = [i \in 1 .. h |-> v2[i]]
      BY <1>p, <2>2, <3>p DEF RowOffsets
    <3> QED
      BY <3>1, <3>p, SeqMade
  <2> QED
    BY <2>1, <2>3, <2>4
<1>11. /\ IsSeq(n[b1]) /\ \A i \in 1 .. Len(v1) : n[b1][i] = v1[i]
       /\ IsSeq(n[b2]) /\ \A i \in 1 .. Len(v2) : n[b2][i] = v2[i]
       /\ IsSeq(n[b3]) /\ \A i \in 1 .. Len(v3) : n[b3][i] = v3[i]
  BY <1>5, <1>9, <1>10, OverwriteIs
<1>12. Indexes(n, tokens)
  BY <1>10, <1>11, <1>p DEF Indexes
<1>13. \A name \in RowNames : IsSeq(n[Scratch(name)])
  BY <1>11, <1>p DEF RowNames
<1>14. Outside(m, n, RowBuffers)
  <2>1. RowBuffers = {b1, b2, b3}
    BY <1>p DEF RowBuffers, RowNames
  <2> QED
    BY <1>9, <2>1
<1> QED
  BY <1>12, <1>13, <1>14

\* Memory stays a trainer's.
LEMMA TrainsOutside ==
    ASSUME NEW m, NEW n, Trains(m), Outside(m, n, TokenBuffers) \/
           (Outside(m, n, RowBuffers) /\ \A name \in RowNames : IsSeq(n[Scratch(name)]))
    PROVE  Trains(n) /\ DOMAIN n = DOMAIN m
<1>1. DOMAIN n = DOMAIN m
  BY DEF Outside
<1>2. ASSUME NEW i \in Slots PROVE n[InSet("weights", i)] = m[InSet("weights", i)]
  <2>1. InSet("weights", i) \notin TokenBuffers /\ InSet("weights", i) \notin RowBuffers
    BY DEF InSet, TokenBuffers, RowBuffers, Scratch
  <2>2. InSet("weights", i) \in DOMAIN m
    BY DEF Trains
  <2> QED
    BY <2>1, <2>2 DEF Outside
<1>3. n[Stats] = m[Stats]
  <2>1. Stats \notin TokenBuffers /\ Stats \notin RowBuffers
    BY DEF Stats, TokenBuffers, RowBuffers, RowNames, Scratch
  <2>2. Stats \in DOMAIN m
    BY DEF Trains
  <2> QED
    BY <2>1, <2>2 DEF Outside
<1>4. ASSUME NEW name \in RowNames PROVE IsSeq(n[Scratch(name)])
  <2>1. Scratch(name) \notin TokenBuffers
    BY DEF TokenBuffers, RowNames, Scratch
  <2>2. Scratch(name) \in DOMAIN m /\ IsSeq(m[Scratch(name)])
    BY DEF Trains
  <2> QED
    BY <2>1, <2>2 DEF Outside
<1> QED
  BY <1>1, <1>2, <1>3, <1>4 DEF Trains, Weighs

-----------------------------------------------------------------------------
(* A sequence of a batch, in its three parts.                              *)

\* A set of tensors is left alone.
Same(m, n, set) == \A i \in Slots : n[InSet(set, i)] = m[InSet(set, i)]
Unmoved(m, n) == Same(m, n, "weights") /\ Same(m, n, "m") /\ Same(m, n, "v")

\* By commands that write none of them.
LEMMA SameStill ==
    ASSUME NEW results, NEW m, Trains(m), NEW q, NEW n, Turns(results, m, q, n),
           NEW set \in {"weights", "grads", "m", "v"}, \A i \in Slots : Passing(q, InSet(set, i))
    PROVE  Same(m, n, set)
<1>1. ASSUME NEW i \in Slots PROVE n[InSet(set, i)] = m[InSet(set, i)]
  <2>p. PICK b : b = InSet(set, i)
    OBVIOUS
  <2>1. b \in DOMAIN m /\ Passing(q, b)
    BY <2>p DEF Trains
  <2>2. DOMAIN n = DOMAIN m /\ (b \in DOMAIN m => n[b] = m[b])
    BY ONLY Turns(results, m, q, n), <2>1, TurnsKeep
  <2> QED
    BY <2>1, <2>2, <2>p
<1> QED
  BY <1>1 DEF Same

\* One after another.
LEMMA SameTwice ==
    ASSUME NEW m, NEW k, NEW n, NEW set, Same(m, k, set), Same(k, n, set)
    PROVE  Same(m, n, set)
BY DEF Same

\* A buffer no command writes.
Stays(m, n, b) == n[b] = m[b]

\* So it stays.
LEMMA StayStill ==
    ASSUME NEW results, NEW m, NEW q, NEW n, Turns(results, m, q, n), NEW b, b \in DOMAIN m, Passing(q, b)
    PROVE  Stays(m, n, b)
<1>1. DOMAIN n = DOMAIN m /\ (b \in DOMAIN m => n[b] = m[b])
  BY TurnsKeep
<1> QED
  BY <1>1 DEF Stays

\* Tensors are apart from what the passes write.
LEMMA TensorsApart ==
    ASSUME NEW set, NEW i
    PROVE  /\ \A name, l : Acts(name, l) # InSet(set, i)
           /\ \A name : Scratch(name) # InSet(set, i)
           /\ Stats # InSet(set, i)
BY DEF Acts, InSet, Scratch, Stats

\* So are the sums, the index and the targets.
LEMMA ScratchApart ==
    ASSUME NEW b, b \in {Stats, Scratch("row_ids"), Scratch("row_offsets"), Scratch("row_positions"),
                         Scratch("targets")}
    PROVE  /\ \A name, l : Acts(name, l) # b
           /\ \A set, i : InSet(set, i) # b
           /\ \A name \in ScratchNames \ {"targets"} : Scratch(name) # b
<1>1. \A name, l : Acts(name, l) # b
  BY DEF Acts, Scratch, Stats
<1>2. \A set, i : InSet(set, i) # b
  BY DEF InSet, Scratch, Stats
<1>3. \A name \in ScratchNames \ {"targets"} : Scratch(name) # b
  <2> TAKE name \in ScratchNames \ {"targets"}
  <2>1. name \notin {"stats", "row_ids", "row_offsets", "row_positions", "targets"}
    BY DEF ScratchNames
  <2> QED
    BY <2>1 DEF Scratch, Stats
<1> QED
  BY <1>1, <1>2, <1>3

\* The forward pass leaves them alone.
LEMMA ForwardLeaves ==
    ASSUME NEW b, \/ \E set, i : b = InSet(set, i)
                  \/ b \in {Stats, Scratch("row_ids"), Scratch("row_offsets"), Scratch("row_positions"),
                            Scratch("targets")}
    PROVE  Passing(encode_forward, b)
<1>1. \A name, l : Acts(name, l) # b
  BY TensorsApart, ScratchApart
<1>2. \A name \in ScratchNames \ {"targets"} : Scratch(name) # b
  BY TensorsApart, ScratchApart
<1>3. b \notin {Scratch("hidden"), Scratch("tmp_h"), Scratch("act"), Scratch("h_final"),
                Scratch("final_normed"), Scratch("final_inv_rms"), Scratch("logits")}
  BY <1>2 DEF ScratchNames
<1> QED
  BY <1>1, <1>3, ForwardPasses

\* The loss leaves all alone but the sums and what it computes.
LEMMA LossLeaves ==
    ASSUME NEW b, \/ \E set, i : b = InSet(set, i)
                  \/ \E name, l : b = Acts(name, l)
                  \/ b \in {Scratch("row_ids"), Scratch("row_offsets"), Scratch("row_positions"),
                            Scratch("targets"), Scratch("h_final"), Scratch("final_normed"),
                            Scratch("final_inv_rms"), Scratch("logits")}
    PROVE  Passing(encode_loss, b)
<1>1. b \notin {Scratch("d_logits"), Scratch("loss_rows"), Scratch("partials"), Stats}
  <2>1. CASE \E set, i : b = InSet(set, i)
    BY <2>1, TensorsApart
  <2>2. CASE \E name, l : b = Acts(name, l)
    BY <2>2, ActsApart
  <2>3. CASE b \in {Scratch("row_ids"), Scratch("row_offsets"), Scratch("row_positions"),
                    Scratch("targets"), Scratch("h_final"), Scratch("final_normed"),
                    Scratch("final_inv_rms"), Scratch("logits")}
    BY <2>3 DEF Scratch, Stats
  <2> QED
    BY <2>1, <2>2, <2>3
<1> QED
  BY <1>1, LossPasses

\* The backward pass leaves weights, moments and sums alone.
LEMMA BackwardLeaves ==
    ASSUME NEW s, NEW b, b = Stats \/ \E set \in {"weights", "m", "v"} : \E i : b = InSet(set, i)
    PROVE  Passing(encode_backward(s), b)
<1>1. b = Stats \/ (b[3] = "params" /\ b[1] # "grads")
  BY DEF InSet
<1>2. /\ \A l, which : LayerOf("grads", l, which) # b
      /\ EmbedOf("grads") # b /\ FinalGainOf("grads") # b
  <2>1. /\ \A l, which : LayerOf("grads", l, which)[1] = "grads" /\ LayerOf("grads", l, which)[3] = "params"
        /\ EmbedOf("grads")[1] = "grads" /\ EmbedOf("grads")[3] = "params"
        /\ FinalGainOf("grads")[1] = "grads" /\ FinalGainOf("grads")[3] = "params"
    BY LayerIn DEF EmbedOf, FinalGainOf, InSet
  <2>2. Stats[3] = "scratch"
    BY DEF Stats, Scratch
  <2> QED
    BY ONLY <1>1, <2>1, <2>2
<1>3. b \notin {Scratch("act"), Scratch("d_act"), Scratch("d_gate"), Scratch("d_up"),
                Scratch("d_a"), Scratch("d_b"), Scratch("d_c"), Scratch("d_hidden"),
                Scratch("d_score"), Scratch("d_q"), Scratch("d_k"), Scratch("d_v")}
  <2>1. CASE b = Stats
    BY <2>1 DEF Scratch, Stats
  <2>2. CASE \E set \in {"weights", "m", "v"} : \E i : b = InSet(set, i)
    BY <2>2, TensorsApart
  <2> QED
    BY <2>1, <2>2
<1> QED
  BY <1>2, <1>3, BackwardPasses

\* The first part: the tokens and their index go up, and the forward pass.
ForwardPart(s) == (WriteTokens(s) \o upload_scatter_index(s.toks)) \o encode_forward
Prepared(m, s) ==
    /\ Trains(m) /\ Forwarded(m, s) /\ Holds(m, Scratch("targets"), Top("targets"), s)
    /\ Indexes(m, s.toks)

\* It leaves everything ready for the loss, and changes no tensor or sum.
LEMMA ForwardPartTurn ==
    ASSUME NEW table, table = Results[FALSE], NEW m, Trains(m), NEW s, s # NoSeq, IsSeq(s.toks),
           NEW n, Turns(table, m, ForwardPart(s), n)
    PROVE  /\ Prepared(n, s) /\ DOMAIN n = DOMAIN m /\ n[Stats] = m[Stats]
           /\ Unmoved(m, n) /\ Same(m, n, "grads")
<1>p. PICK q1, q2, q3, toks : /\ q1 = WriteTokens(s) /\ toks = s.toks
                              /\ q2 = upload_scatter_index(toks) /\ q3 = encode_forward
  OBVIOUS
<1>1. IsSeq(q1) /\ IsSeq(q2) /\ IsSeq(q3) /\ IsSeq(q1 \o q2)
  <2>1. IsSeq(q1) /\ IsSeq(q2)
    BY <1>p, WritesIs, IndexIs
  <2>2. IsSeq(q3)
    <3>1. Passing(q3, Stats)
      BY <1>p, ForwardLeaves
    <3> QED
      BY <3>1 DEF Passing
  <2> QED
    BY <2>1, <2>2, ConcatIs
<1>2. PICK o : Turns(table, m, q1 \o q2, o) /\ Turns(table, o, q3, n)
  <2>1. Turns(table, m, (q1 \o q2) \o q3, n)
    BY <1>p DEF ForwardPart
  <2>p. PICK q : q = q1 \o q2
    OBVIOUS
  <2>2. \E o : Turns(table, m, q, o) /\ Turns(table, o, q3, n)
    BY ONLY <1>1, <2>1, <2>p, TurnsSplit
  <2> QED
    BY <2>2, <2>p
<1>3. PICK k : Turns(table, m, q1, k) /\ Turns(table, k, q2, o)
  BY ONLY <1>1, <1>2, TurnsSplit
<1>4. /\ Holds(k, Scratch("tokens"), Tokens, s) /\ Holds(k, Scratch("targets"), Top("targets"), s)
      /\ Outside(m, k, TokenBuffers)
  BY <1>3, <1>p, TokensTurn
<1>5. Trains(k) /\ DOMAIN k = DOMAIN m
  BY <1>4, TrainsOutside
<1>6. /\ Indexes(o, toks) /\ \A name \in RowNames : IsSeq(o[Scratch(name)])
      /\ Outside(k, o, RowBuffers)
  <2>1. IsSeq(toks) /\ Turns(table, k, upload_scatter_index(toks), o)
    BY <1>3, <1>p
  <2> QED
    BY <1>5, <2>1, IndexTurn
<1>7. Trains(o) /\ DOMAIN o = DOMAIN k
  BY <1>5, <1>6, TrainsOutside
<1>8. Holds(o, Scratch("tokens"), Tokens, s) /\ Holds(o, Scratch("targets"), Top("targets"), s)
  <2>1. Scratch("tokens") \notin RowBuffers /\ Scratch("targets") \notin RowBuffers
    BY DEF RowBuffers, RowNames, Scratch
  <2>2. Scratch("tokens") \in DOMAIN k /\ Scratch("targets") \in DOMAIN k
    BY <1>5 DEF Trains, ScratchNames
  <2> QED
    BY <1>4, <1>6, <2>1, <2>2 DEF Holds, Outside
<1>9. Trains(n) /\ DOMAIN n = DOMAIN o /\ Forwarded(n, s)
  BY <1>2, <1>7, <1>8, <1>p, ForwardTurn
<1>10. Holds(n, Scratch("targets"), Top("targets"), s)
  <2>1. Scratch("targets") \in DOMAIN o
    BY <1>7 DEF Trains, ScratchNames
  <2>2. Passing(q3, Scratch("targets"))
    BY <1>p, ForwardLeaves
  <2>3. Stays(o, n, Scratch("targets"))
    BY <1>2, <2>1, <2>2, StayStill
  <2> QED
    BY <1>8, <2>3 DEF Holds, Stays
<1>11. Indexes(n, toks)
  <2>1. Scratch("row_ids") \in DOMAIN o /\ Scratch("row_offsets") \in DOMAIN o /\ Scratch("row_positions") \in DOMAIN o
    BY <1>7 DEF Trains, RowNames
  <2>2. Passing(q3, Scratch("row_ids")) /\ Passing(q3, Scratch("row_offsets")) /\ Passing(q3, Scratch("row_positions"))
    BY <1>p, ForwardLeaves
  <2>3. /\ Stays(o, n, Scratch("row_ids")) /\ Stays(o, n, Scratch("row_offsets"))
        /\ Stays(o, n, Scratch("row_positions"))
    BY <1>2, <2>1, <2>2, StayStill
  <2> QED
    BY <1>6, <2>3 DEF Indexes, Stays
<1>12. n[Stats] = m[Stats]
  <2>1. Stats \notin RowBuffers /\ Stats \notin TokenBuffers
    BY DEF RowBuffers, TokenBuffers, RowNames, Scratch, Stats
  <2>2. Stats \in DOMAIN m /\ Stats \in DOMAIN k /\ Stats \in DOMAIN o
    BY <1>5, <1>7 DEF Trains
  <2>3. k[Stats] = m[Stats] /\ o[Stats] = k[Stats]
    BY <1>4, <1>6, <2>1, <2>2 DEF Outside
  <2>4. Passing(q3, Stats)
    BY <1>p, ForwardLeaves
  <2>5. Stays(o, n, Stats)
    BY <1>2, <2>2, <2>4, StayStill
  <2> QED
    BY <2>3, <2>5 DEF Stays
<1>13. ASSUME NEW set \in {"weights", "grads", "m", "v"} PROVE Same(m, n, set)
  <2>1. Same(m, k, set) /\ Same(k, o, set)
    <3>1. \A i : InSet(set, i) \notin RowBuffers /\ InSet(set, i) \notin TokenBuffers
      BY TensorsApart DEF RowBuffers, TokenBuffers
    <3>2. \A i \in Slots : InSet(set, i) \in DOMAIN m /\ InSet(set, i) \in DOMAIN k
      BY <1>5 DEF Trains
    <3> QED
      BY <1>4, <1>6, <3>1, <3>2 DEF Outside, Same
  <2>2. \A i \in Slots : Passing(q3, InSet(set, i))
    BY <1>p, ForwardLeaves
  <2>3. Same(o, n, set)
    BY ONLY <1>2, <1>7, <2>2, <1>13, SameStill
  <2> QED
    BY <2>1, <2>3, SameTwice
<1>14. Unmoved(m, n) /\ Same(m, n, "grads")
  BY <1>13 DEF Unmoved
<1> QED
  BY <1>5, <1>7, <1>9, <1>10, <1>11, <1>12, <1>14, <1>p DEF Prepared

-----------------------------------------------------------------------------
(* The loss, and the backward pass, of a sequence.                         *)

\* What the backward pass starts from.
Scored(m, s) ==
    /\ Trains(m) /\ Forwarded(m, s) /\ Holds(m, Scratch("d_logits"), Top("d_logits"), s)
    /\ Indexes(m, s.toks)

\* The sums, with the loss of a sequence added to the first.
WithLoss(m, s) == [m[Stats] EXCEPT ![0] = Append(@, LossOf(s))]

\* Computing the loss moves no tensor.
LEMMA LossPartTurn ==
    ASSUME NEW table, table = Results[FALSE], NEW m, NEW s, Prepared(m, s), s # NoSeq,
           NEW n, Turns(table, m, encode_loss, n)
    PROVE  /\ Scored(n, s) /\ DOMAIN n = DOMAIN m /\ n[Stats] = WithLoss(m, s)
           /\ Unmoved(m, n) /\ Same(m, n, "grads")
<1>p. PICK q : q = encode_loss
  OBVIOUS
<1>0. /\ Trains(m) /\ Forwarded(m, s) /\ Holds(m, Scratch("targets"), Top("targets"), s)
      /\ Indexes(m, s.toks) /\ Turns(table, m, q, n)
  BY <1>p DEF Prepared
<1>1. /\ Holds(n, Scratch("d_logits"), Top("d_logits"), s)
      /\ n[Stats] = WithLoss(m, s) /\ DOMAIN n = DOMAIN m
  BY <1>0, LossTurn DEF Forwarded, WithLoss
<1>2. ASSUME NEW set \in {"weights", "grads", "m", "v"} PROVE Same(m, n, set)
  <2>1. \A i \in Slots : Passing(q, InSet(set, i))
    BY <1>p, LossLeaves
  <2> QED
    BY ONLY <1>0, <1>2, <2>1, SameStill
<1>3. Unmoved(m, n) /\ Same(m, n, "grads")
  BY <1>2 DEF Unmoved
<1>4. ASSUME NEW b \in DOMAIN m,
             \/ \E name, l : b = Acts(name, l)
             \/ b \in {Scratch("row_ids"), Scratch("row_offsets"), Scratch("row_positions"),
                       Scratch("targets"), Scratch("h_final"), Scratch("final_normed"),
                       Scratch("final_inv_rms"), Scratch("logits")}
      PROVE  n[b] = m[b]
  <2>1. Passing(q, b)
    BY <1>4, <1>p, LossLeaves
  <2>2. Stays(m, n, b)
    BY <1>0, <2>1, StayStill
  <2> QED
    BY <2>2 DEF Stays
<1>5. ASSUME NEW name \in RowNames PROVE n[Scratch(name)] = m[Scratch(name)]
  <2>1. Scratch(name) \in DOMAIN m
    BY <1>0 DEF Trains
  <2>2. Scratch(name) \in {Scratch("row_ids"), Scratch("row_offsets"), Scratch("row_positions")}
    BY DEF RowNames
  <2> QED
    BY <1>4, <2>1, <2>2
<1>6. DOMAIN n[Stats] = DOMAIN m[Stats]
  BY <1>1 DEF WithLoss
<1>7. Trains(n)
  <2>1. \A i \in Slots : n[InSet("weights", i)] = m[InSet("weights", i)]
    BY <1>2 DEF Same
  <2> QED
    BY <1>0, <1>1, <1>5, <1>6, <2>1 DEF Trains, Weighs
<1>8. Indexes(n, s.toks)
  <2>1. "row_ids" \in RowNames /\ "row_offsets" \in RowNames /\ "row_positions" \in RowNames
    BY DEF RowNames
  <2> QED
    BY <1>0, <1>5, <2>1 DEF Indexes
<1>9. Forwarded(n, s)
  <2>1. ASSUME NEW name \in ActNames, NEW l \in 1 .. Layers PROVE n[Acts(name, l)] = m[Acts(name, l)]
    <3>1. Acts(name, l) \in DOMAIN m
      BY <1>0 DEF Trains
    <3> QED
      BY <1>4, <3>1
  <2>2. ASSUME NEW name \in {"h_final", "final_normed", "final_inv_rms", "logits"}
        PROVE  n[Scratch(name)] = m[Scratch(name)]
    <3>1. Scratch(name) \in DOMAIN m
      BY <1>0 DEF Trains, ScratchNames
    <3> QED
      BY <1>4, <3>1
  <2> QED
    BY <1>0, <2>1, <2>2 DEF Forwarded, Activated, Holds
<1> QED
  BY <1>1, <1>3, <1>7, <1>8, <1>9 DEF Scored

\* The backward pass adds to the gradients and moves nothing else that lasts.
LEMMA BackPartTurn ==
    ASSUME NEW table, table = Results[FALSE], NEW m, NEW s, Scored(m, s), Gradients(m),
           s # NoSeq, IsSeq(s.toks), NEW n, Turns(table, m, encode_backward(s), n)
    PROVE  /\ Trains(n) /\ DOMAIN n = DOMAIN m /\ n[Stats] = m[Stats] /\ Unmoved(m, n)
           /\ Contributed(m, n, s)
<1>0. Trains(m)
  BY DEF Scored
<1>1. Trains(n) /\ DOMAIN n = DOMAIN m /\ Contributed(m, n, s)
  BY BackwardTurn DEF Scored
<1>p. PICK q : q = encode_backward(s)
  OBVIOUS
<1>2. Turns(table, m, q, n)
  BY <1>p
<1>3. ASSUME NEW set \in {"weights", "m", "v"} PROVE Same(m, n, set)
  <2>1. \A i \in Slots : Passing(q, InSet(set, i))
    BY <1>p, BackwardLeaves
  <2>2. set \in {"weights", "grads", "m", "v"}
    OBVIOUS
  <2> QED
    BY ONLY <1>0, <1>2, <2>1, <2>2, SameStill
<1>4. n[Stats] = m[Stats]
  <2>1. Stats \in DOMAIN m /\ Passing(q, Stats)
    BY <1>0, <1>p, BackwardLeaves DEF Trains
  <2>2. Stays(m, n, Stats)
    BY <1>2, <2>1, StayStill
  <2> QED
    BY <2>2 DEF Stays
<1> QED
  BY <1>1, <1>3, <1>4 DEF Unmoved

-----------------------------------------------------------------------------
(* The phases of a call.                                                   *)

\* Submitting changes nothing of what the commands make.
LEMMA FlushTurn ==
    ASSUME NEW table, NEW m, NEW q, IsSeq(q), NEW n, Turns(table, m, q \o <<Flush>>, n)
    PROVE  Turns(table, m, q, n)
<1>p. PICK c, z : c = Flush /\ z = <<c>>
  OBVIOUS
<1>1. IsSeq(z) /\ Turns(table, m, q \o z, n)
  BY <1>p, OneIs
<1>2. PICK o : Turns(table, m, q, o) /\ Turns(table, o, z, n)
  BY ONLY <1>1, IsSeq(q), TurnsSplit
<1>3. n = Now(table, o, c)
  BY <1>2, <1>p, TurnOne
<1>4. n = o
  BY <1>3, <1>p DEF Now, Flush
<1> QED
  BY <1>2, <1>4

\* Phases one after the other, each of which makes a memory of what it finds.
Stages(results, a, phases, b) ==
    \E m : /\ m[0] = a /\ m[Len(phases)] = b
           /\ \A i \in 1 .. Len(phases) : Turns(results, m[i - 1], phases[i], m[i])

\* The first phases make a memory the others go on from.
LEMMA StagesSplit ==
    ASSUME NEW results, NEW a, NEW s, NEW t, NEW c, IsSeq(s), IsSeq(t), Stages(results, a, s \o t, c)
    PROVE  \E b : Stages(results, a, s, b) /\ Stages(results, b, t, c)
<1> PICK n, k : n = Len(s) /\ k = Len(t)
  OBVIOUS
<1>1. /\ n \in Nat /\ k \in Nat /\ Len(s \o t) = n + k
      /\ \A i \in 1 .. n : (s \o t)[i] = s[i]
      /\ \A i \in 1 .. k : (s \o t)[n + i] = t[i]
  BY ConcatIs, SeqIs
<1>2. PICK m : /\ m[0] = a /\ m[n + k] = c
               /\ \A i \in 1 .. n + k : Turns(results, m[i - 1], (s \o t)[i], m[i])
  BY <1>1 DEF Stages
<1>3. Stages(results, a, s, m[n])
  <2>1. \A i \in 1 .. n : Turns(results, m[i - 1], s[i], m[i])
    BY <1>1, <1>2
  <2> QED
    BY <1>2, <2>1 DEF Stages
<1>4. Stages(results, m[n], t, c)
  <2> PICK h : h = [i \in 0 .. k |-> m[n + i]]
    OBVIOUS
  <2>1. h[0] = m[n] /\ h[k] = c
    BY <1>1, <1>2
  <2>2. ASSUME NEW i \in 1 .. k PROVE Turns(results, h[i - 1], t[i], h[i])
    <3> PICK j, o : j = i - 1 /\ o = n + i
      OBVIOUS
    <3>1. i \in 0 .. k /\ j \in 0 .. k /\ o \in 1 .. n + k /\ o - 1 = n + j
      BY <1>1
    <3>2. h[i] = m[o] /\ h[j] = m[o - 1]
      BY <3>1
    <3>3. Turns(results, m[o - 1], (s \o t)[o], m[o])
      BY <1>2, <3>1
    <3>4. (s \o t)[o] = t[i]
      BY <1>1
    <3> QED
      BY <3>2, <3>3, <3>4
  <2>3. /\ h[0] = m[n] /\ h[Len(t)] = c
        /\ \A i \in 1 .. Len(t) : Turns(results, h[i - 1], t[i], h[i])
    <3>1. Len(t) = k
      BY <1>1
    <3> QED
      BY ONLY <2>1, <2>2, <3>1, Zenon
  <2> QED
    BY ONLY <2>3, Zenon DEF Stages
<1> QED
  BY <1>3, <1>4

\* Phases put together go through a memory for each part.
LEMMA StagesFlat ==
    ASSUME NEW n \in Nat, NEW ss, DOMAIN ss = 1 .. n, ss = [i \in 1 .. n |-> ss[i]],
           \A i \in 1 .. n : IsSeq(ss[i]),
           NEW results, NEW a, NEW c, Stages(results, a, FlattenSeq(ss), c)
    PROVE  \E m : /\ m[0] = a /\ m[n] = c
                  /\ \A k \in 1 .. n : Stages(results, m[k - 1], ss[k], m[k])
<1>1. PICK f : /\ f[0] = << >> /\ f[n] = FlattenSeq(ss)
               /\ \A k \in 0 .. n : IsSeq(f[k])
               /\ \A k \in 1 .. n : f[k] = f[k - 1] \o ss[k]
  BY FlatIs
<1> DEFINE Chained(m, k, b) == /\ m[0] = a /\ m[k] = b
                               /\ \A j \in 1 .. k : Stages(results, m[j - 1], ss[j], m[j])
           Q == {k \in 0 .. n : \A b : Stages(results, a, f[k], b) => \E m : Chained(m, k, b)}
<1>2. 0 \in Q
  <2> SUFFICES ASSUME NEW b, Stages(results, a, f[0], b) PROVE \E m : Chained(m, 0, b)
    OBVIOUS
  <2>1. a = b
    <3>1. Len(f[0]) = 0
      BY <1>1
    <3> QED
      BY <3>1 DEF Stages
  <2>2. Chained([j \in 0 .. 0 |-> a], 0, b)
    BY <2>1
  <2> QED
    BY <2>2
<1>3. ASSUME NEW k \in 0 .. n - 1, k \in Q PROVE k + 1 \in Q
  <2> PICK i : i = k + 1
    OBVIOUS
  <2>1. i \in 1 .. n /\ i \in 0 .. n /\ i - 1 = k /\ k \in 0 .. n
    OBVIOUS
  <2>2. ASSUME NEW b, Stages(results, a, f[i], b) PROVE \E m : Chained(m, i, b)
    <3>1. f[i] = f[k] \o ss[i] /\ IsSeq(f[k]) /\ IsSeq(ss[i])
      BY <1>1, <2>1
    <3>2. PICK d : Stages(results, a, f[k], d) /\ Stages(results, d, ss[i], b)
      BY <2>2, <3>1, StagesSplit
    <3>3. PICK m : Chained(m, k, d)
      BY <1>3, <3>2
    <3> PICK h : h = [j \in 0 .. i |-> IF j = i THEN b ELSE m[j]]
      OBVIOUS
    <3>4. h[i] = b /\ \A j \in 0 .. k : h[j] = m[j]
      BY <2>1
    <3>5. ASSUME NEW j \in 1 .. i PROVE Stages(results, h[j - 1], ss[j], h[j])
      <4> PICK o : o = j - 1
        OBVIOUS
      <4>1. CASE j = i
        <5>1. h[o] = d
          BY <2>1, <3>3, <3>4, <4>1
        <5> QED
          BY <3>2, <3>4, <4>1, <5>1
      <4>2. CASE j # i
        <5>1. j \in 1 .. k /\ j \in 0 .. k /\ o \in 0 .. k
          BY <2>1, <4>2
        <5> QED
          BY <3>3, <3>4, <5>1
      <4> QED
        BY <4>1, <4>2
    <3>6. h[0] = a
      BY <2>1, <3>3, <3>4
    <3>7. Chained(h, i, b)
      BY <3>4, <3>5, <3>6
    <3> QED
      BY <3>7
  <2>3. \A b : Stages(results, a, f[i], b) => \E m : Chained(m, i, b)
    BY ONLY <2>2
  <2> HIDE DEF Chained
  <2> QED
    BY <2>1, <2>3
<1>4. 0 .. n \subseteq Q
  <2> HIDE DEF Q
  <2> QED
    BY <1>2, <1>3, Climb
<1>5. Stages(results, a, f[n], c)
  BY <1>1
<1> HIDE DEF Chained
<1>6. \A b : Stages(results, a, f[n], b) => \E m : Chained(m, n, b)
  BY <1>4
<1>7. \E m : Chained(m, n, c)
  BY <1>5, <1>6
<1> QED
  BY <1>7 DEF Chained

-----------------------------------------------------------------------------
(* A sequence of a batch, however its commands are cut into phases.        *)

\* What a sequence does to a trainer's memory: each gradient and the loss
\* have grown by the host's, weights and moments are as they were.
Sequenced(m, n, s) ==
    /\ Trains(n) /\ DOMAIN n = DOMAIN m /\ Unmoved(m, n)
    /\ Contributed(m, n, s) /\ n[Stats] = WithLoss(m, s)

\* Gradients that are as they were are sequences still, and grow by the same.
LEMMA GradientsOn ==
    ASSUME NEW m, NEW n, Same(m, n, "grads"), Gradients(m)
    PROVE  Gradients(n)
BY DEF Same, Gradients

\* What is added to them is added to what they were.
LEMMA ContributedOn ==
    ASSUME NEW m, NEW k, NEW n, NEW s, Same(m, k, "grads"), Contributed(k, n, s)
    PROVE  Contributed(m, n, s)
BY DEF Same, Contributed

\* What two passes leave alone, one after the other.
LEMMA UnmovedTwice ==
    ASSUME NEW m, NEW k, NEW n, Unmoved(m, k), Unmoved(k, n)
    PROVE  Unmoved(m, n)
BY DEF Unmoved, Same

\* The three parts, one after the other.
LEMMA PartsTurn ==
    ASSUME NEW table, table = Results[FALSE], NEW m, Trains(m), Gradients(m),
           NEW s, s # NoSeq, IsSeq(s.toks), NEW k, NEW o, NEW n,
           Turns(table, m, ForwardPart(s), k), Turns(table, k, encode_loss, o),
           Turns(table, o, encode_backward(s), n)
    PROVE  Sequenced(m, n, s)
<1>1. /\ Prepared(k, s) /\ DOMAIN k = DOMAIN m /\ k[Stats] = m[Stats]
      /\ Unmoved(m, k) /\ Same(m, k, "grads")
  BY ForwardPartTurn
<1>2. /\ Scored(o, s) /\ DOMAIN o = DOMAIN k /\ o[Stats] = WithLoss(k, s)
      /\ Unmoved(k, o) /\ Same(k, o, "grads")
  BY <1>1, LossPartTurn
<1>3. Same(m, o, "grads")
  BY <1>1, <1>2 DEF Same
<1>4. Gradients(o)
  BY <1>3, GradientsOn
<1>5. /\ Trains(n) /\ DOMAIN n = DOMAIN o /\ n[Stats] = o[Stats] /\ Unmoved(o, n)
      /\ Contributed(o, n, s)
  BY <1>2, <1>4, BackPartTurn
<1>6. Contributed(m, n, s)
  BY <1>3, <1>5, ContributedOn
<1>7. Unmoved(m, n)
  BY <1>1, <1>2, <1>5, UnmovedTwice
<1>8. n[Stats] = WithLoss(m, s)
  BY <1>1, <1>2, <1>5 DEF WithLoss
<1> QED
  BY <1>1, <1>2, <1>5, <1>6, <1>7, <1>8 DEF Sequenced

\* The passes are sequences of commands.
LEMMA PartsAre ==
    ASSUME NEW s
    PROVE  /\ IsSeq(WriteTokens(s)) /\ IsSeq(upload_scatter_index(s.toks))
           /\ IsSeq(WriteTokens(s) \o upload_scatter_index(s.toks)) /\ IsSeq(encode_forward)
           /\ IsSeq(ForwardPart(s)) /\ IsSeq(encode_loss) /\ IsSeq(encode_backward(s))
           /\ IsSeq(ZeroAll) /\ IsSeq(ReduceGradients)
<1>p. PICK q1, q2, q3 : /\ q1 = WriteTokens(s) /\ q2 = upload_scatter_index(s.toks)
                        /\ q3 = encode_forward
  OBVIOUS
<1>1. IsSeq(q1) /\ IsSeq(q2)
  BY <1>p, WritesIs, IndexIs
<1>2. /\ IsSeq(q3) /\ IsSeq(encode_loss) /\ IsSeq(encode_backward(s))
      /\ IsSeq(ZeroAll) /\ IsSeq(ReduceGradients)
  BY <1>p, PassesPass DEF Passing
<1>3. IsSeq(q1 \o q2)
  BY ONLY <1>1, ConcatIs
<1>4. IsSeq((q1 \o q2) \o q3)
  BY ONLY <1>2, <1>3, ConcatIs
<1> QED
  BY <1>1, <1>2, <1>3, <1>4, <1>p DEF ForwardPart

\* A phase on its own.
LEMMA StageOne ==
    ASSUME NEW table, NEW m, NEW q, NEW n, Stages(table, m, <<q>>, n)
    PROVE  Turns(table, m, q, n)
<1>p. PICK z : z = <<q>>
  OBVIOUS
<1>1. Len(z) = 1 /\ z[1] = q
  BY <1>p
<1>2. PICK mm : /\ mm[0] = m /\ mm[Len(z)] = n
                /\ \A i \in 1 .. Len(z) : Turns(table, mm[i - 1], z[i], mm[i])
  BY <1>p DEF Stages
<1>3. 1 \in 1 .. Len(z) /\ 1 - 1 = 0
  BY <1>1
<1>4. Turns(table, mm[0], z[1], mm[1])
  BY <1>2, <1>3
<1> QED
  BY <1>1, <1>2, <1>4

\* Three phases.
LEMMA StageThree ==
    ASSUME NEW table, NEW m, NEW q1, NEW q2, NEW q3, NEW n, Stages(table, m, <<q1, q2, q3>>, n)
    PROVE  \E k, o : Turns(table, m, q1, k) /\ Turns(table, k, q2, o) /\ Turns(table, o, q3, n)
<1>p. PICK z : z = <<q1, q2, q3>>
  OBVIOUS
<1>1. Len(z) = 3 /\ z[1] = q1 /\ z[2] = q2 /\ z[3] = q3
  BY <1>p
<1>2. PICK mm : /\ mm[0] = m /\ mm[Len(z)] = n
                /\ \A i \in 1 .. Len(z) : Turns(table, mm[i - 1], z[i], mm[i])
  BY <1>p DEF Stages
<1>3. /\ 1 \in 1 .. Len(z) /\ 2 \in 1 .. Len(z) /\ 3 \in 1 .. Len(z)
      /\ 1 - 1 = 0 /\ 2 - 1 = 1 /\ 3 - 1 = 2
  BY <1>1
<1>4. Turns(table, mm[0], z[1], mm[1]) /\ Turns(table, mm[1], z[2], mm[2]) /\ Turns(table, mm[2], z[3], mm[3])
  BY <1>2, <1>3
<1> QED
  BY <1>1, <1>2, <1>4

\* Whether it is profiled or not.
LEMMA SequenceTurn ==
    ASSUME NEW table, table = Results[FALSE], NEW m, Trains(m), Gradients(m),
           NEW s, s # NoSeq, IsSeq(s.toks), NEW kind, NEW n,
           Stages(table, m, SequencePhases(kind, s), n)
    PROVE  Sequenced(m, n, s)
<1>p. PICK q1, q2, q3 : q1 = ForwardPart(s) /\ q2 = encode_loss /\ q3 = encode_backward(s)
  OBVIOUS
<1>0. IsSeq(q1) /\ IsSeq(q2) /\ IsSeq(q3) /\ IsSeq(q1 \o q2) /\ IsSeq((q1 \o q2) \o q3)
  <2>1. IsSeq(q1) /\ IsSeq(q2) /\ IsSeq(q3)
    BY <1>p, PartsAre
  <2>2. IsSeq(q1 \o q2)
    BY ONLY <2>1, ConcatIs
  <2> QED
    BY ONLY <2>1, <2>2, ConcatIs
<1>1. \E k, o : Turns(table, m, q1, k) /\ Turns(table, k, q2, o) /\ Turns(table, o, q3, n)
  <2>1. CASE kind = "profile"
    <3>1. SequencePhases(kind, s) = <<q1 \o <<Flush>>, q2 \o <<Flush>>, q3 \o <<Flush>>>>
      BY <2>1, <1>p DEF SequencePhases, ForwardPart
    <3>2. Stages(table, m, <<q1 \o <<Flush>>, q2 \o <<Flush>>, q3 \o <<Flush>>>>, n)
      BY <3>1
    <3>3. PICK k, o : /\ Turns(table, m, q1 \o <<Flush>>, k) /\ Turns(table, k, q2 \o <<Flush>>, o)
                      /\ Turns(table, o, q3 \o <<Flush>>, n)
      BY ONLY <3>2, StageThree
    <3>4. Turns(table, m, q1, k) /\ Turns(table, k, q2, o) /\ Turns(table, o, q3, n)
      BY ONLY <1>0, <3>3, FlushTurn
    <3> QED
      BY <3>4
  <2>2. CASE kind # "profile"
    <3>p. PICK q : q = (q1 \o q2) \o q3
      OBVIOUS
    <3>1. SequencePhases(kind, s) = <<q \o <<Flush>>>>
      BY <2>2, <1>p, <3>p DEF SequencePhases, ForwardPart
    <3>2. Turns(table, m, q \o <<Flush>>, n)
      BY <3>1, StageOne
    <3>3. Turns(table, m, q, n)
      BY <1>0, <3>p, <3>2, FlushTurn
    <3>4. PICK o : Turns(table, m, q1 \o q2, o) /\ Turns(table, o, q3, n)
      <4>1. Turns(table, m, (q1 \o q2) \o q3, n)
        BY <3>3, <3>p
      <4>p. PICK r : r = q1 \o q2
        OBVIOUS
      <4>2. \E o : Turns(table, m, r, o) /\ Turns(table, o, q3, n)
        BY ONLY <1>0, <4>1, <4>p, TurnsSplit
      <4> QED
        BY <4>2, <4>p
    <3>5. PICK k : Turns(table, m, q1, k) /\ Turns(table, k, q2, o)
      BY ONLY <1>0, <3>4, TurnsSplit
    <3> QED
      BY <3>4, <3>5
  <2> QED
    BY <2>1, <2>2
<1>2. PICK k, o : /\ Turns(table, m, ForwardPart(s), k) /\ Turns(table, k, encode_loss, o)
                  /\ Turns(table, o, encode_backward(s), n)
  BY <1>1, <1>p
<1> QED
  BY <1>2, PartsTurn

-----------------------------------------------------------------------------
(* What every phase of a step leaves alone.                                *)

\* A trainer's memory with the same weights and moments.
Carries(m, n) == Trains(n) /\ DOMAIN n = DOMAIN m /\ Unmoved(m, n)

\* Commands that keep it so, from whatever memory of a trainer.
Keeping(table, q) == \A m, n : Trains(m) /\ Turns(table, m, q, n) => Carries(m, n)

\* One after another.
LEMMA CarriesTwice ==
    ASSUME NEW m, NEW k, NEW n, Carries(m, k), Carries(k, n)
    PROVE  Carries(m, n)
BY UnmovedTwice DEF Carries

\* Nothing done keeps everything.
LEMMA CarriesSelf == ASSUME NEW m, Trains(m) PROVE Carries(m, m)
BY DEF Carries, Unmoved, Same

\* Two passes.
LEMMA KeepConcat ==
    ASSUME NEW table, NEW q, NEW r, IsSeq(q), IsSeq(r), Keeping(table, q), Keeping(table, r)
    PROVE  IsSeq(q \o r) /\ Keeping(table, q \o r)
<1>1. ASSUME NEW m, NEW n, Trains(m), Turns(table, m, q \o r, n) PROVE Carries(m, n)
  <2>1. PICK k : Turns(table, m, q, k) /\ Turns(table, k, r, n)
    BY ONLY <1>1, IsSeq(q), IsSeq(r), TurnsSplit
  <2>2. Carries(m, k)
    BY <1>1, <2>1 DEF Keeping
  <2>3. Carries(k, n)
    BY <2>1, <2>2 DEF Keeping, Carries
  <2> QED
    BY <2>2, <2>3, CarriesTwice
<1>2. IsSeq(q \o r)
  BY ConcatIs
<1> QED
  BY <1>1, <1>2 DEF Keeping

\* A pass, submitted.
LEMMA KeepFlush ==
    ASSUME NEW table, NEW q, IsSeq(q), Keeping(table, q)
    PROVE  Keeping(table, q \o <<Flush>>)
<1>1. ASSUME NEW m, NEW n, Trains(m), Turns(table, m, q \o <<Flush>>, n) PROVE Carries(m, n)
  <2>1. Turns(table, m, q, n)
    BY ONLY <1>1, IsSeq(q), FlushTurn
  <2> QED
    BY <1>1, <2>1 DEF Keeping
<1> QED
  BY <1>1 DEF Keeping

\* Passes put together.
LEMMA KeepFlat ==
    ASSUME NEW table, NEW N \in Nat, NEW ss, DOMAIN ss = 1 .. N, ss = [i \in 1 .. N |-> ss[i]],
           \A i \in 1 .. N : IsSeq(ss[i]) /\ Keeping(table, ss[i])
    PROVE  IsSeq(FlattenSeq(ss)) /\ Keeping(table, FlattenSeq(ss))
<1>0. IsSeq(FlattenSeq(ss))
  BY FlatIsSeq
<1>1. ASSUME NEW m, NEW n, Trains(m), Turns(table, m, FlattenSeq(ss), n) PROVE Carries(m, n)
  <2>1. \A i \in 1 .. N : IsSeq(ss[i])
    OBVIOUS
  <2>2. PICK mm : /\ mm[0] = m /\ mm[N] = n
                  /\ \A k \in 1 .. N : Turns(table, mm[k - 1], ss[k], mm[k])
    BY ONLY <1>1, <2>1, N \in Nat, DOMAIN ss = 1 .. N, ss = [i \in 1 .. N |-> ss[i]], TurnsFlat
  <2> DEFINE Q == {k \in 0 .. N : Carries(m, mm[k])}
  <2>3. 0 \in Q
    BY <1>1, <2>2, CarriesSelf
  <2>4. ASSUME NEW k \in 0 .. N - 1, k \in Q PROVE k + 1 \in Q
    <3>p. PICK i : i = k + 1
      OBVIOUS
    <3>1. i \in 1 .. N /\ i \in 0 .. N /\ i - 1 = k
      BY <3>p
    <3>2. Turns(table, mm[k], ss[i], mm[i]) /\ Keeping(table, ss[i]) /\ Carries(m, mm[k])
      BY <2>2, <2>4, <3>1
    <3>3. Carries(mm[k], mm[i])
      BY <3>2 DEF Keeping, Carries
    <3>4. Carries(m, mm[i])
      BY <3>2, <3>3, CarriesTwice
    <3> QED
      BY <3>1, <3>4, <3>p
  <2>5. 0 .. N \subseteq Q
    <3> HIDE DEF Q
    <3> QED
      BY <2>3, <2>4, Climb
  <2> QED
    BY <2>2, <2>5
<1> QED
  BY <1>0, <1>1 DEF Keeping

\* Phases.
LEMMA KeepStages ==
    ASSUME NEW table, NEW N \in Nat, NEW phases, Len(phases) = N,
           \A i \in 1 .. N : Keeping(table, phases[i]),
           NEW m, Trains(m), NEW n, Stages(table, m, phases, n)
    PROVE  Carries(m, n)
<1>2. PICK mm : /\ mm[0] = m /\ mm[N] = n
                /\ \A k \in 1 .. N : Turns(table, mm[k - 1], phases[k], mm[k])
  BY DEF Stages
<1> DEFINE Q == {k \in 0 .. N : Carries(m, mm[k])}
<1>3. 0 \in Q
  BY <1>2, CarriesSelf
<1>4. ASSUME NEW k \in 0 .. N - 1, k \in Q PROVE k + 1 \in Q
  <2>p. PICK i : i = k + 1
    OBVIOUS
  <2>1. i \in 1 .. N /\ i \in 0 .. N /\ i - 1 = k
    BY <2>p
  <2>2. Turns(table, mm[k], phases[i], mm[i]) /\ Keeping(table, phases[i]) /\ Carries(m, mm[k])
    BY <1>2, <1>4, <2>1
  <2>3. Carries(mm[k], mm[i])
    BY <2>2 DEF Keeping, Carries
  <2>4. Carries(m, mm[i])
    BY <2>2, <2>3, CarriesTwice
  <2> QED
    BY <2>1, <2>4, <2>p
<1>5. 0 .. N \subseteq Q
  <2> HIDE DEF Q
  <2> QED
    BY <1>3, <1>4, Climb
<1> QED
  BY <1>2, <1>5

\* A trainer's memory changed elsewhere.
LEMMA CarriesMade ==
    ASSUME NEW m, NEW n, Trains(m), DOMAIN n = DOMAIN m, Unmoved(m, n),
           \A name \in RowNames : n[Scratch(name)] = m[Scratch(name)],
           DOMAIN n[Stats] = DOMAIN m[Stats]
    PROVE  Carries(m, n)
<1>1. \A i \in Slots : n[InSet("weights", i)] = m[InSet("weights", i)]
  BY DEF Unmoved, Same
<1> QED
  BY <1>1 DEF Carries, Trains, Weighs

\* What a pass that writes nothing lasting keeps.
LEMMA KeepPassing ==
    ASSUME NEW table, NEW q, \A b : Lasting(b) \/ Kept(b) => Passing(q, b)
    PROVE  Keeping(table, q)
<1>1. ASSUME NEW m, NEW n, Trains(m), Turns(table, m, q, n) PROVE Carries(m, n)
  <2>1. Trains(n) /\ DOMAIN n = DOMAIN m
    BY ONLY <1>1, TrainsStill, \A b : Lasting(b) \/ Kept(b) => Passing(q, b)
  <2>2. ASSUME NEW set \in {"weights", "m", "v"} PROVE Same(m, n, set)
    <3>1. \A i \in Slots : Passing(q, InSet(set, i))
      BY DEF Kept, InSet
    <3>2. set \in {"weights", "grads", "m", "v"}
      OBVIOUS
    <3> QED
      BY ONLY <1>1, <3>1, <3>2, SameStill
  <2> QED
    BY <2>1, <2>2 DEF Carries, Unmoved
<1> QED
  BY <1>1 DEF Keeping

\* What goes up before a sequence.
LEMMA KeepUploads ==
    ASSUME NEW table, NEW s
    PROVE  /\ Keeping(table, WriteTokens(s))
           /\ IsSeq(s.toks) => Keeping(table, upload_scatter_index(s.toks))
<1>1. ASSUME NEW m, NEW n, Trains(m), Outside(m, n, TokenBuffers) \/ Outside(m, n, RowBuffers)
      PROVE  Unmoved(m, n)
  <2>1. ASSUME NEW set \in {"weights", "m", "v"} PROVE Same(m, n, set)
    <3>1. \A i : InSet(set, i) \notin RowBuffers /\ InSet(set, i) \notin TokenBuffers
      BY TensorsApart DEF RowBuffers, TokenBuffers
    <3>2. \A i \in Slots : InSet(set, i) \in DOMAIN m
      BY <1>1 DEF Trains
    <3> QED
      BY <1>1, <3>1, <3>2 DEF Outside, Same
  <2> QED
    BY <2>1 DEF Unmoved
<1>2. ASSUME NEW m, NEW n, Trains(m), Turns(table, m, WriteTokens(s), n) PROVE Carries(m, n)
  <2>1. Outside(m, n, TokenBuffers)
    BY ONLY <1>2, TokensTurn
  <2>2. Trains(n) /\ DOMAIN n = DOMAIN m
    BY <1>2, <2>1, TrainsOutside
  <2> QED
    BY <1>1, <1>2, <2>1, <2>2 DEF Carries
<1>3. ASSUME IsSeq(s.toks), NEW m, NEW n, Trains(m), Turns(table, m, upload_scatter_index(s.toks), n)
      PROVE  Carries(m, n)
  <2>1. Outside(m, n, RowBuffers) /\ \A name \in RowNames : IsSeq(n[Scratch(name)])
    BY ONLY <1>3, IndexTurn
  <2>2. Trains(n) /\ DOMAIN n = DOMAIN m
    BY <1>3, <2>1, TrainsOutside
  <2> QED
    BY <1>1, <1>3, <2>1, <2>2 DEF Carries
<1> QED
  BY <1>2, <1>3 DEF Keeping

\* A sum changes only its slot.
LEMMA KeepReduce ==
    ASSUME NEW table, NEW src, NEW slot \in 0 .. StatsLen - 1, NEW square, NEW groups
    PROVE  Keeping(table, ReduceInto(src, slot, square, groups))
<1>p. PICK q : q = ReduceInto(src, slot, square, groups)
  OBVIOUS
<1>1. ASSUME NEW m, NEW n, Trains(m), Turns(table, m, q, n) PROVE Carries(m, n)
  <2>1. Scratch("partials") \in DOMAIN m /\ Stats \in DOMAIN m /\ slot \in DOMAIN m[Stats]
    BY <1>1 DEF Trains, ScratchNames
  <2>2. /\ n[Stats] = [m[Stats] EXCEPT ![slot] = Append(@, Sum(m[src], square, groups))]
        /\ DOMAIN n = DOMAIN m
    BY <1>1, <1>p, <2>1, ReduceTurn
  <2>3. DOMAIN n[Stats] = DOMAIN m[Stats]
    BY <2>2
  <2>4. \A b : b # Scratch("partials") /\ b # Stats => Passing(q, b)
    BY <1>p, ReducePasses
  <2>5. ASSUME NEW set \in {"weights", "m", "v"} PROVE Same(m, n, set)
    <3>1. \A i \in Slots : Passing(q, InSet(set, i))
      BY <2>4, TensorsApart
    <3>2. set \in {"weights", "grads", "m", "v"}
      OBVIOUS
    <3> QED
      BY ONLY <1>1, <3>1, <3>2, SameStill
  <2>6. ASSUME NEW name \in RowNames PROVE n[Scratch(name)] = m[Scratch(name)]
    <3>1. Scratch(name) # Scratch("partials") /\ Scratch(name) # Stats
      BY DEF RowNames, Scratch, Stats
    <3>2. Passing(q, Scratch(name)) /\ Scratch(name) \in DOMAIN m
      BY <1>1, <2>4, <3>1 DEF Trains
    <3>3. Stays(m, n, Scratch(name))
      BY <1>1, <3>2, StayStill
    <3> QED
      BY <3>3 DEF Stays
  <2>7. Unmoved(m, n)
    BY <2>5 DEF Unmoved
  <2> QED
    BY <1>1, <2>2, <2>3, <2>6, <2>7, CarriesMade
<1> QED
  BY <1>1, <1>p DEF Keeping

-----------------------------------------------------------------------------
(* The passes of a step.                                                   *)

\* Buffers that last are apart from what the passes compute in.
LEMMA LastingOrKept ==
    ASSUME NEW b, Lasting(b) \/ Kept(b)
    PROVE  /\ \A name, l : Acts(name, l) # b
           /\ \A name \in ScratchNames : Scratch(name) # b
           /\ \A l, which : LayerOf("grads", l, which) # b
           /\ EmbedOf("grads") # b /\ FinalGainOf("grads") # b
<1>1. CASE Lasting(b)
  <2>1. \A name, l : Acts(name, l) # b
    BY <1>1 DEF Lasting, Acts, InSet, Scratch, Stats
  <2> QED
    BY <1>1, <2>1, LastingApart
<1>2. CASE Kept(b)
  <2>1. \A name \in ScratchNames : name # "stats"
    BY DEF ScratchNames
  <2> QED
    BY <1>2, <2>1, NotAside DEF Aside
<1> QED
  BY <1>1, <1>2

\* The passes of the model.
LEMMA KeepPasses ==
    ASSUME NEW table, NEW s
    PROVE  Keeping(table, encode_forward) /\ Keeping(table, encode_backward(s))
<1>1. ASSUME NEW b, Lasting(b) \/ Kept(b)
      PROVE  Passing(encode_forward, b) /\ Passing(encode_backward(s), b)
  <2>1. /\ \A name, l : Acts(name, l) # b
        /\ \A name \in ScratchNames : Scratch(name) # b
        /\ \A l, which : LayerOf("grads", l, which) # b
        /\ EmbedOf("grads") # b /\ FinalGainOf("grads") # b
    BY ONLY <1>1, LastingOrKept
  <2>2. b \notin {Scratch("hidden"), Scratch("tmp_h"), Scratch("act"), Scratch("h_final"),
                  Scratch("final_normed"), Scratch("final_inv_rms"), Scratch("logits")}
    BY ONLY <2>1 DEF ScratchNames
  <2>3. b \notin {Scratch("act"), Scratch("d_act"), Scratch("d_gate"), Scratch("d_up"),
                  Scratch("d_a"), Scratch("d_b"), Scratch("d_c"), Scratch("d_hidden"),
                  Scratch("d_score"), Scratch("d_q"), Scratch("d_k"), Scratch("d_v")}
    BY ONLY <2>1 DEF ScratchNames
  <2>4. Passing(encode_forward, b)
    BY <2>1, <2>2, ForwardPasses
  <2>5. Passing(encode_backward(s), b)
    BY <2>1, <2>3, BackwardPasses
  <2> QED
    BY <2>4, <2>5
<1> QED
  BY <1>1, KeepPassing

\* The loss.
LEMMA KeepLoss == ASSUME NEW table PROVE Keeping(table, encode_loss)
<1>p. PICK q1, q2, square : /\ q1 = LossStart /\ square = FALSE
                            /\ q2 = ReduceInto(Scratch("loss_rows"), 0, square, "rows")
  OBVIOUS
<1>0. encode_loss = q1 \o q2
  BY <1>p DEF encode_loss, LossStart
<1>1. IsSeq(q1)
  BY <1>p, LossStartIs
<1>2. ASSUME NEW b, Lasting(b) \/ Kept(b) PROVE Passing(q1, b)
  <2>1. \A name \in ScratchNames : Scratch(name) # b
    BY ONLY <1>2, LastingOrKept
  <2>2. Scratch("d_logits") # b /\ Scratch("loss_rows") # b
    BY <2>1 DEF ScratchNames
  <2>3. \A dims, reads, y, z : y # b /\ z # b =>
          Passes(Dispatch("cross_entropy", dims, NoSeq, reads, <<y, z>>), b)
    <3>1. "cross_entropy" \in Ops \ {"adam"}
      BY DEF Ops, Computing
    <3> QED
      BY <3>1, TwoPasses
  <2> QED
    BY <1>p, <2>2, <2>3, OnePassing DEF LossStart
<1>3. Keeping(table, q1)
  BY <1>2, KeepPassing
<1>4. Keeping(table, q2)
  <2>1. 0 \in 0 .. StatsLen - 1
    BY ShapesAre DEF StatsLen
  <2>p. PICK slot : slot = 0
    OBVIOUS
  <2> QED
    BY <1>p, <2>1, <2>p, KeepReduce
<1>5. IsSeq(q2)
  <2>1. Passing(q2, Nowhere)
    <3>1. Nowhere # Scratch("partials") /\ Nowhere # Stats
      BY DEF Nowhere, Scratch, Stats
    <3> QED
      BY <1>p, <3>1, ReducePasses
  <2> QED
    BY <2>1 DEF Passing
<1> QED
  BY <1>0, <1>1, <1>3, <1>4, <1>5, KeepConcat

\* The norms of the gradients.
LEMMA KeepNorms == ASSUME NEW table PROVE Keeping(table, ReduceGradients)
<1>p. PICK N, square, ss :
        /\ N = Len(shapes) /\ square = TRUE
        /\ ss = [i \in Slots |-> ReduceInto(InSet("grads", i), i, square, shapes[i])]
  OBVIOUS
<1>1. N \in Nat /\ DOMAIN ss = 1 .. N /\ ss = [i \in 1 .. N |-> ss[i]]
  BY <1>p, ShapesIs
<1>2. ASSUME NEW i \in 1 .. N PROVE IsSeq(ss[i]) /\ Keeping(table, ss[i])
  <2>p. PICK src, groups : src = InSet("grads", i) /\ groups = shapes[i]
    OBVIOUS
  <2>1. ss[i] = ReduceInto(src, i, square, groups)
    BY <1>p, <2>p, ShapesIs
  <2>2. i \in 0 .. StatsLen - 1
    BY <1>1, <1>p DEF StatsLen
  <2>3. Keeping(table, ReduceInto(src, i, square, groups))
    BY <2>2, KeepReduce
  <2>4. Passing(ReduceInto(src, i, square, groups), Nowhere)
    <3>1. Nowhere # Scratch("partials") /\ Nowhere # Stats
      BY DEF Nowhere, Scratch, Stats
    <3> QED
      BY <3>1, ReducePasses
  <2> QED
    BY <2>1, <2>3, <2>4 DEF Passing
<1>3. Keeping(table, FlattenSeq(ss))
  BY ONLY <1>1, <1>2, KeepFlat
<1> QED
  BY <1>3, <1>p DEF ReduceGradients

-----------------------------------------------------------------------------
(* Zeroing.                                                                *)

\* A gradient, or the first of the sums.
LEMMA ZeroOne ==
    ASSUME NEW table, NEW m, NEW b \in DOMAIN m, NEW len
    PROVE  Wrote(m, b, IF b[1] = "stats"
                       THEN [i \in DOMAIN m[b] |-> IF i < len THEN << >> ELSE m[b][i]] ELSE << >>,
                 Now(table, m, dispatch_zero(b, len)))
<1>p. PICK c : c = dispatch_zero(b, len)
  OBVIOUS
<1>1. c.do = "dispatch" /\ c.op = "zero" /\ c.writes[1] = b /\ c.params.dims[1] = len
  BY <1>p DEF dispatch_zero, Dispatch
<1>2. Now(table, m, c) = Zeroed(m, c, c.params)
  <2>1. Now(table, m, c) = Execute(table, c.params, m, c)
    BY <1>1 DEF Now
  <2>2. Execute(table, c.params, m, c) = Zeroed(m, c, c.params)
    BY <1>1 DEF Execute, Computing, Accumulating
  <2> QED
    BY <2>1, <2>2
<1>3. Zeroed(m, c, c.params)
      = [m EXCEPT ![b] = IF b[1] = "stats"
                         THEN [i \in DOMAIN @ |-> IF i < len THEN << >> ELSE @[i]] ELSE << >>]
  BY <1>1 DEF Zeroed
<1> QED
  BY <1>2, <1>3, <1>p DEF Wrote

\* All gradients, one by one.
LEMMA ZeroTurn ==
    ASSUME NEW table, NEW m, Trains(m), NEW n, Turns(table, m, ZeroAll, n)
    PROVE  /\ Carries(m, n) /\ \A i \in Slots : n[InSet("grads", i)] = << >>
           /\ n[Stats] = [i \in 0 .. StatsLen - 1 |-> << >>]
<1>p. PICK N, s, c, z : /\ N = Len(shapes) /\ c = dispatch_zero(Stats, StatsLen) /\ z = <<c>>
                        /\ s = [i \in Slots |-> dispatch_zero(InSet("grads", i), "all")]
  OBVIOUS
<1>1. N \in Nat /\ Slots = 1 .. N /\ DOMAIN s = 1 .. N /\ s = [i \in 1 .. N |-> s[i]]
  BY <1>p, ShapesIs
<1>2. IsSeq(s) /\ Len(s) = N /\ IsSeq(z)
  BY <1>1, <1>p, SeqMade, OneIs
<1>3. PICK o : Turns(table, m, s, o) /\ Turns(table, o, z, n)
  <2>1. Turns(table, m, s \o z, n)
    BY <1>p DEF ZeroAll
  <2> QED
    BY ONLY <1>2, <2>1, TurnsSplit
<1>4. PICK mm : mm[0] = m /\ mm[N] = o /\ \A i \in 1 .. N : mm[i] = Now(table, mm[i - 1], s[i])
  BY <1>2, <1>3 DEF Turns
<1> DEFINE Gone(k) == /\ DOMAIN mm[k] = DOMAIN m
                      /\ \A i \in 1 .. k : mm[k][InSet("grads", i)] = << >>
                      /\ \A b \in DOMAIN m : (\A i \in Slots : b # InSet("grads", i)) => mm[k][b] = m[b]
           Q == {k \in 0 .. N : Gone(k)}
<1>5. 0 \in Q
  BY <1>1, <1>4
<1>6. ASSUME NEW k \in 0 .. N - 1, k \in Q PROVE k + 1 \in Q
  <2>p. PICK i, b : i = k + 1 /\ b = InSet("grads", i)
    OBVIOUS
  <2>1. i \in 1 .. N /\ i \in 0 .. N /\ i - 1 = k /\ i \in Slots /\ k \in Nat
    BY <1>1, <2>p
  <2>2. mm[i] = Now(table, mm[k], dispatch_zero(b, "all"))
    BY <1>1, <1>4, <1>p, <2>1, <2>p
  <2>3. b \in DOMAIN mm[k] /\ b[1] # "stats"
    <3>1. b \in DOMAIN m
      BY <2>1, <2>p DEF Trains
    <3>2. b[1] = "grads"
      BY <2>p DEF InSet
    <3> QED
      BY <1>6, <3>1, <3>2
  <2>4. Wrote(mm[k], b, << >>, mm[i])
    BY <2>2, <2>3, ZeroOne
  <2>5. \A j : InSet("grads", j) = b => j = i
    BY <2>p DEF InSet
  <2>6. ASSUME NEW j \in 1 .. i PROVE mm[i][InSet("grads", j)] = << >>
    <3>1. CASE j = i
      BY <2>4, <2>p, <3>1 DEF Wrote
    <3>2. CASE j # i
      <4>1. j \in 1 .. k /\ j \in Slots
        BY <1>1, <2>1, <2>p, <3>2
      <4>2. InSet("grads", j) # b /\ InSet("grads", j) \in DOMAIN mm[k]
        <5>1. InSet("grads", j) \in DOMAIN m
          BY <4>1 DEF Trains
        <5> QED
          BY <1>6, <2>5, <3>2, <5>1
      <4> QED
        BY <1>6, <2>4, <4>1, <4>2 DEF Wrote
    <3> QED
      BY <3>1, <3>2
  <2>7. DOMAIN mm[i] = DOMAIN m
    BY <1>6, <2>4 DEF Wrote
  <2>8. ASSUME NEW a \in DOMAIN m, \A j \in Slots : a # InSet("grads", j) PROVE mm[i][a] = m[a]
    BY <1>6, <2>1, <2>4, <2>8, <2>p DEF Wrote
  <2> QED
    BY <2>1, <2>6, <2>7, <2>8, <2>p
<1>7. 0 .. N \subseteq Q
  <2> HIDE DEF Q
  <2> QED
    BY <1>1, <1>5, <1>6, Climb
<1>8. /\ DOMAIN o = DOMAIN m /\ \A i \in Slots : o[InSet("grads", i)] = << >>
      /\ \A b \in DOMAIN m : (\A i \in Slots : b # InSet("grads", i)) => o[b] = m[b]
  <2>1. N \in Q
    BY <1>1, <1>7
  <2> QED
    BY <1>1, <1>4, <2>1
<1>9. Wrote(o, Stats, [i \in DOMAIN o[Stats] |-> IF i < StatsLen THEN << >> ELSE o[Stats][i]], n)
  <2>1. Stats \in DOMAIN o /\ Stats[1] = "stats"
    BY <1>8 DEF Trains, Stats, Scratch
  <2>2. n = Now(table, o, c)
    BY <1>3, <1>p, TurnOne
  <2>p. PICK b, len : b = Stats /\ len = StatsLen
    OBVIOUS
  <2>3. Wrote(o, b, IF b[1] = "stats"
                    THEN [i \in DOMAIN o[b] |-> IF i < len THEN << >> ELSE o[b][i]] ELSE << >>,
              Now(table, o, dispatch_zero(b, len)))
    BY <2>1, <2>p, ZeroOne
  <2> QED
    BY <1>p, <2>1, <2>2, <2>3, <2>p
<1>10. \A set, i : Stats # InSet(set, i)
  BY TensorsApart
<1>11. \A i \in Slots : n[InSet("grads", i)] = << >>
  <2>1. \A i \in Slots : InSet("grads", i) \in DOMAIN m
    BY DEF Trains
  <2> QED
    BY <1>8, <1>9, <1>10, <2>1 DEF Wrote
<1>12. n[Stats] = [i \in 0 .. StatsLen - 1 |-> << >>]
  <2>1. DOMAIN m[Stats] = 0 .. StatsLen - 1 /\ StatsLen \in Nat /\ Stats \in DOMAIN m
    BY ShapesAre DEF Trains, StatsLen
  <2>2. o[Stats] = m[Stats]
    BY <1>8, <1>10, <2>1
  <2>3. \A i \in 0 .. StatsLen - 1 : i < StatsLen
    BY <2>1
  <2> QED
    BY <1>9, <2>1, <2>2, <2>3 DEF Wrote
<1>13. DOMAIN n = DOMAIN m /\ \A b \in DOMAIN m : (\A i \in Slots : b # InSet("grads", i)) /\ b # Stats => n[b] = m[b]
  BY <1>8, <1>9 DEF Wrote
<1>14. Carries(m, n)
  <2>1. ASSUME NEW set \in {"weights", "m", "v"} PROVE Same(m, n, set)
    <3>1. \A i \in Slots : InSet(set, i) \in DOMAIN m
      BY DEF Trains
    <3>2. \A i, j : InSet(set, i) # InSet("grads", j)
      BY DEF InSet
    <3> QED
      BY <1>10, <1>13, <3>1, <3>2 DEF Same
  <2>2. ASSUME NEW name \in RowNames PROVE n[Scratch(name)] = m[Scratch(name)]
    <3>1. Scratch(name) \in DOMAIN m
      BY DEF Trains
    <3>2. Scratch(name) # Stats /\ \A i : Scratch(name) # InSet("grads", i)
      BY DEF RowNames, Scratch, Stats, InSet
    <3> QED
      BY <1>13, <3>1, <3>2
  <2>3. DOMAIN n[Stats] = DOMAIN m[Stats]
    BY <1>12 DEF Trains
  <2>4. Unmoved(m, n)
    BY <2>1 DEF Unmoved
  <2> QED
    BY <1>13, <2>2, <2>3, <2>4, CarriesMade
<1> QED
  BY <1>11, <1>12, <1>14

-----------------------------------------------------------------------------
(* The sequences of a batch.                                               *)

\* A sequence adds a sequence of contributions.
LEMMA AddedIsSeq == ASSUME NEW s, NEW i \in Slots PROVE IsSeq(Added(i, s))
<1>p. PICK q : q = Contributions(shapes[i])
  OBVIOUS
<1>1. IsSeq(q)
  <2>1. CASE shapes[i][1] = "embed"
    <3>1. q = <<Top("d_embed_head"), Top("d_embed_gather")>>
      BY <1>p, <2>1 DEF Contributions
    <3>2. DOMAIN q = 1 .. 2 /\ q = [j \in 1 .. 2 |-> q[j]] /\ 2 \in Nat
      BY <3>1
    <3> QED
      BY <3>2, SeqMade
  <2>2. CASE shapes[i][1] # "embed"
    <3>1. q = <<<<GradientName[shapes[i][1]], shapes[i][2]>>>>
      BY <1>p, <2>2 DEF Contributions
    <3> QED
      BY <3>1, OneIs
  <2> QED
    BY <2>1, <2>2
<1>2. Len(q) \in Nat /\ DOMAIN q = 1 .. Len(q)
  BY <1>1, SeqIs
<1>a. PICK a : a = Added(i, s)
  OBVIOUS
<1>3. a = [c \in DOMAIN q |-> Value(q[c], s)]
  BY <1>a, <1>p DEF Added
<1>4. DOMAIN a = 1 .. Len(q) /\ a = [c \in 1 .. Len(q) |-> a[c]]
  BY <1>2, <1>3
<1> QED
  BY <1>2, <1>4, <1>a, SeqMade

\* Sequences a call has tagged, of whatever number of ids.
Fresh(seqs) == \A b \in DOMAIN seqs : seqs[b] # NoSeq /\ IsSeq(seqs[b].toks)

\* The sums y, but for the losses of a batch in the first, are the sums x.
Losses(x, y, seqs) ==
    /\ DOMAIN y = DOMAIN x /\ y[0] = [b \in DOMAIN seqs |-> LossOf(seqs[b])]
    /\ \A i \in DOMAIN x : i # 0 => y[i] = x[i]

\* A memory for each sequence: the losses, in their order.
LEMMA LossChain ==
    ASSUME NEW N \in Nat, NEW seqs, DOMAIN seqs = 1 .. N,
           NEW mm, 0 \in DOMAIN mm[0][Stats], mm[0][Stats][0] = << >>,
           \A k \in 1 .. N : mm[k][Stats] = WithLoss(mm[k - 1], seqs[k])
    PROVE  Losses(mm[0][Stats], mm[N][Stats], seqs)
<1> DEFINE Summed(k) == /\ DOMAIN mm[k][Stats] = DOMAIN mm[0][Stats]
                        /\ \A i \in DOMAIN mm[0][Stats] : i # 0 => mm[k][Stats][i] = mm[0][Stats][i]
                        /\ IsSeq(mm[k][Stats][0]) /\ Len(mm[k][Stats][0]) = k
                        /\ \A b \in 1 .. k : mm[k][Stats][0][b] = LossOf(seqs[b])
           Q == {k \in 0 .. N : Summed(k)}
<1>1. 0 \in Q
  <2>1. IsSeq(<< >>) /\ Len(<< >>) = 0
    BY << >> \in Seq({}) DEF IsSeq
  <2> QED
    BY <2>1
<1>2. ASSUME NEW k \in 0 .. N - 1, k \in Q PROVE k + 1 \in Q
  <2>p. PICK i, x, y, q : /\ i = k + 1 /\ x = mm[k][Stats] /\ y = mm[i][Stats] /\ q = x[0]
    OBVIOUS
  <2>1. i \in 1 .. N /\ i \in 0 .. N /\ i - 1 = k /\ k \in Nat
    BY <2>p
  <2>2. y = [x EXCEPT ![0] = Append(@, LossOf(seqs[i]))]
    <3>1. y = WithLoss(mm[i - 1], seqs[i])
      BY <2>1, <2>p
    <3> QED
      BY <2>1, <2>p, <3>1 DEF WithLoss
  <2>3. IsSeq(q) /\ Len(q) = k /\ (\A b \in 1 .. k : q[b] = LossOf(seqs[b])) /\ 0 \in DOMAIN x
    BY <1>2, <2>p
  <2>4. y[0] = Append(q, LossOf(seqs[i]))
    BY <2>2, <2>3, <2>p
  <2>5. /\ IsSeq(y[0]) /\ Len(y[0]) = i /\ y[0][i] = LossOf(seqs[i])
        /\ \A b \in 1 .. k : y[0][b] = q[b]
    BY <2>1, <2>3, <2>4, <2>p, AppendIs
  <2>6. \A b \in 1 .. i : b \in 1 .. k \/ b = i
    BY <2>1, <2>p
  <2>7. \A b \in 1 .. i : y[0][b] = LossOf(seqs[b])
    BY <2>3, <2>5, <2>6
  <2>8. /\ DOMAIN y = DOMAIN mm[0][Stats]
        /\ \A j \in DOMAIN mm[0][Stats] : j # 0 => y[j] = mm[0][Stats][j]
    BY <1>2, <2>2, <2>p
  <2> QED
    BY <2>1, <2>5, <2>7, <2>8, <2>p
<1>3. 0 .. N \subseteq Q
  <2> HIDE DEF Q
  <2> QED
    BY <1>1, <1>2, Climb
<1>4. Summed(N)
  BY <1>3
<1>p. PICK q : q = mm[N][Stats][0]
  OBVIOUS
<1>5. q = [b \in 1 .. N |-> LossOf(seqs[b])]
  <2>1. q = [b \in 1 .. Len(q) |-> q[b]] /\ Len(q) = N
    BY <1>4, <1>p, SeqIs
  <2>2. \A b \in 1 .. N : q[b] = LossOf(seqs[b])
    BY <1>4, <1>p
  <2> QED
    BY <2>1, <2>2
<1> QED
  BY <1>4, <1>5, <1>p DEF Losses

\* And the contributions.
LEMMA GradientChain ==
    ASSUME NEW N \in Nat, NEW seqs, DOMAIN seqs = 1 .. N, NEW mm,
           \A i \in Slots : mm[0][InSet("grads", i)] = << >>,
           \A k \in 1 .. N : Contributed(mm[k - 1], mm[k], seqs[k])
    PROVE  \A i \in Slots : mm[N][InSet("grads", i)] = HostGradient(i, seqs)
<1> TAKE i \in Slots
<1>p. PICK ss, b : ss = [k \in 1 .. N |-> Added(i, seqs[k])] /\ b = InSet("grads", i)
  OBVIOUS
<1>1. DOMAIN ss = 1 .. N /\ ss = [k \in 1 .. N |-> ss[k]] /\ \A k \in 1 .. N : IsSeq(ss[k])
  BY <1>p, AddedIsSeq
<1>2. PICK f : /\ f[0] = << >> /\ f[N] = FlattenSeq(ss)
               /\ \A k \in 0 .. N : IsSeq(f[k])
               /\ \A k \in 1 .. N : f[k] = f[k - 1] \o ss[k]
  BY <1>1, FlatIs
<1> DEFINE Q == {k \in 0 .. N : mm[k][b] = f[k]}
<1>3. 0 \in Q
  BY <1>2, <1>p
<1>4. ASSUME NEW k \in 0 .. N - 1, k \in Q PROVE k + 1 \in Q
  <2>p. PICK j : j = k + 1
    OBVIOUS
  <2>1. j \in 1 .. N /\ j \in 0 .. N /\ j - 1 = k
    BY <2>p
  <2>2. mm[j][b] = mm[k][b] \o ss[j]
    BY <1>p, <2>1 DEF Contributed
  <2>3. f[j] = f[k] \o ss[j]
    BY <1>2, <2>1
  <2> QED
    BY <1>4, <2>1, <2>2, <2>3, <2>p
<1>5. 0 .. N \subseteq Q
  <2> HIDE DEF Q
  <2> QED
    BY <1>3, <1>4, Climb
<1>6. mm[N][b] = FlattenSeq(ss)
  BY <1>2, <1>5
<1>7. ss = [k \in DOMAIN seqs |->
              [c \in DOMAIN Contributions(shapes[i]) |-> Value(Contributions(shapes[i])[c], seqs[k])]]
  BY <1>p DEF Added
<1> QED
  BY <1>6, <1>7, <1>p DEF HostGradient

\* Sequences one after the other, each with its memory.
LEMMA SequencesTurn ==
    ASSUME NEW N \in Nat, NEW seqs, DOMAIN seqs = 1 .. N, NEW mm, Trains(mm[0]), Gradients(mm[0]),
           \A k \in 1 .. N : Trains(mm[k - 1]) /\ Gradients(mm[k - 1])
                             => Sequenced(mm[k - 1], mm[k], seqs[k])
    PROVE  /\ Carries(mm[0], mm[N])
           /\ \A k \in 1 .. N : Sequenced(mm[k - 1], mm[k], seqs[k])
<1> DEFINE Good(k) == Carries(mm[0], mm[k]) /\ Gradients(mm[k])
           Q == {k \in 0 .. N : Good(k)}
<1>1. 0 \in Q
  BY CarriesSelf
<1>2. ASSUME NEW k \in 0 .. N - 1, k \in Q PROVE k + 1 \in Q
  <2>p. PICK j : j = k + 1
    OBVIOUS
  <2>1. j \in 1 .. N /\ j \in 0 .. N /\ j - 1 = k
    BY <2>p
  <2>2. Trains(mm[k]) /\ Gradients(mm[k]) /\ Carries(mm[0], mm[k])
    BY <1>2 DEF Carries
  <2>3. Sequenced(mm[k], mm[j], seqs[j])
    BY <2>1, <2>2
  <2>4. Carries(mm[k], mm[j])
    BY <2>3 DEF Sequenced, Carries
  <2>5. Carries(mm[0], mm[j])
    BY <2>2, <2>4, CarriesTwice
  <2>6. Gradients(mm[j])
    <3>1. ASSUME NEW i \in Slots PROVE IsSeq(mm[j][InSet("grads", i)])
      <4>1. mm[j][InSet("grads", i)] = mm[k][InSet("grads", i)] \o Added(i, seqs[j])
        BY <2>3 DEF Sequenced, Contributed
      <4>2. IsSeq(mm[k][InSet("grads", i)]) /\ IsSeq(Added(i, seqs[j]))
        BY <2>2, AddedIsSeq DEF Gradients
      <4> QED
        BY ONLY <4>1, <4>2, ConcatIs
    <3> QED
      BY <3>1 DEF Gradients
  <2> QED
    BY <2>1, <2>5, <2>6, <2>p
<1>3. 0 .. N \subseteq Q
  <2> HIDE DEF Q
  <2> QED
    BY <1>1, <1>2, Climb
<1>4. Carries(mm[0], mm[N])
  BY <1>3
<1>5. ASSUME NEW k \in 1 .. N PROVE Sequenced(mm[k - 1], mm[k], seqs[k])
  <2>1. k - 1 \in 0 .. N
    OBVIOUS
  <2>2. Good(k - 1)
    BY <1>3, <2>1
  <2> QED
    BY <2>2 DEF Carries
<1> QED
  BY <1>4, <1>5

-----------------------------------------------------------------------------
(* A step, as far as its readback.                                         *)

\* The norms of m's gradients are in the slots of n.
Norms(m, n) == \A i \in Slots : n[Stats][i] = <<Sum(m[InSet("grads", i)], TRUE, shapes[i])>>

\* The norms: each slot but the first gets the sum of squares of a gradient.
LEMMA NormsTurn ==
    ASSUME NEW table, NEW m, Trains(m), \A i \in Slots : m[Stats][i] = << >>,
           NEW n, Turns(table, m, ReduceGradients, n)
    PROVE  /\ Carries(m, n) /\ Same(m, n, "grads") /\ n[Stats][0] = m[Stats][0]
           /\ Norms(m, n)
<1>p. PICK N, square, ss, r :
        /\ N = Len(shapes) /\ square = TRUE /\ r = ReduceGradients
        /\ ss = [i \in Slots |-> ReduceInto(InSet("grads", i), i, square, shapes[i])]
  OBVIOUS
<1>0. Turns(table, m, r, n)
  BY <1>p
<1>1. N \in Nat /\ Slots = 1 .. N /\ DOMAIN ss = 1 .. N /\ ss = [i \in 1 .. N |-> ss[i]]
  BY <1>p, ShapesIs
<1>2. ASSUME NEW i \in 1 .. N, NEW b, b # Scratch("partials"), b # Stats PROVE Passing(ss[i], b)
  <2>p. PICK src, groups : src = InSet("grads", i) /\ groups = shapes[i]
    OBVIOUS
  <2>1. ss[i] = ReduceInto(src, i, square, groups)
    BY <1>p, <1>1, <2>p
  <2>2. Passing(ReduceInto(src, i, square, groups), b)
    BY ONLY <1>2, ReducePasses
  <2> QED
    BY <2>1, <2>2
<1>3. \A i \in 1 .. N : IsSeq(ss[i])
  <2>1. Nowhere # Scratch("partials") /\ Nowhere # Stats
    BY DEF Nowhere, Scratch, Stats
  <2> QED
    BY <1>2, <2>1 DEF Passing
<1>4. PICK mm : /\ mm[0] = m /\ mm[N] = n
                /\ \A k \in 1 .. N : Turns(table, mm[k - 1], ss[k], mm[k])
  <2>1. Turns(table, m, FlattenSeq(ss), n)
    BY <1>0, <1>p DEF ReduceGradients
  <2> QED
    BY ONLY <1>1, <1>3, <2>1, TurnsFlat
<1> DEFINE Normed(k) ==
             /\ DOMAIN mm[k] = DOMAIN m /\ DOMAIN mm[k][Stats] = DOMAIN m[Stats]
             /\ \A i \in Slots : mm[k][InSet("grads", i)] = m[InSet("grads", i)]
             /\ \A i \in 1 .. k : mm[k][Stats][i] = <<Sum(m[InSet("grads", i)], square, shapes[i])>>
             /\ \A i \in DOMAIN m[Stats] : i \notin 1 .. k => mm[k][Stats][i] = m[Stats][i]
           Q == {k \in 0 .. N : Normed(k)}
<1>5. 0 \in Q
  BY <1>1, <1>4
<1>6. ASSUME NEW k \in 0 .. N - 1, k \in Q PROVE k + 1 \in Q
  <2>p. PICK i, o, q, src, groups, x, y :
          /\ i = k + 1 /\ o = mm[k] /\ q = mm[i] /\ src = InSet("grads", i) /\ groups = shapes[i]
          /\ x = o[Stats] /\ y = q[Stats]
    OBVIOUS
  <2>1. i \in 1 .. N /\ i \in 0 .. N /\ i - 1 = k /\ i \in Slots /\ i # 0 /\ i \notin 1 .. k
        /\ 1 .. i = (1 .. k) \cup {i} /\ k \in Nat
    BY <1>1, <2>p
  <2>0. /\ DOMAIN o = DOMAIN m /\ DOMAIN x = DOMAIN m[Stats]
        /\ \A j \in Slots : o[InSet("grads", j)] = m[InSet("grads", j)]
        /\ \A j \in 1 .. k : x[j] = <<Sum(m[InSet("grads", j)], square, shapes[j])>>
        /\ \A j \in DOMAIN m[Stats] : j \notin 1 .. k => x[j] = m[Stats][j]
    BY <1>6, <2>p
  <2>2. Turns(table, o, ReduceInto(src, i, square, groups), q)
    <3>1. ss[i] = ReduceInto(src, i, square, groups)
      BY <1>p, <2>1, <2>p
    <3> QED
      BY <1>4, <2>1, <2>p, <3>1
  <2>3. Scratch("partials") \in DOMAIN o /\ Stats \in DOMAIN o /\ i \in DOMAIN x /\ i \in DOMAIN m[Stats]
    <3>1. i \in 0 .. StatsLen - 1
      BY <1>1, <1>p, <2>1 DEF StatsLen
    <3> QED
      BY <2>0, <3>1 DEF Trains, ScratchNames
  <2>4. y = [x EXCEPT ![i] = Append(@, Sum(o[src], square, groups))] /\ DOMAIN q = DOMAIN o
    BY <2>2, <2>3, <2>p, ReduceTurn
  <2>5. ASSUME NEW j \in Slots PROVE q[InSet("grads", j)] = m[InSet("grads", j)]
    <3>p. PICK b : b = InSet("grads", j)
      OBVIOUS
    <3>1. b # Scratch("partials") /\ b # Stats
      BY <3>p, TensorsApart
    <3>2. Passing(ReduceInto(src, i, square, groups), b)
      BY ONLY <3>1, ReducePasses
    <3>3. b \in DOMAIN o
      BY <2>0, <3>p DEF Trains
    <3>4. Stays(o, q, b)
      BY ONLY <2>2, <3>2, <3>3, StayStill
    <3> QED
      BY <2>0, <3>4, <3>p DEF Stays
  <2>6. y[i] = <<Sum(m[src], square, groups)>>
    <3>1. x[i] = << >>
      BY <2>0, <2>1, <2>3
    <3>2. y[i] = Append(<< >>, Sum(o[src], square, groups))
      BY <2>3, <2>4, <3>1
    <3>3. o[src] = m[src]
      BY <2>0, <2>1, <2>p
    <3>4. \A e : Append(<< >>, e) = <<e>>
      OBVIOUS
    <3> QED
      BY <3>2, <3>3, <3>4
  <2>7. DOMAIN y = DOMAIN x /\ \A j \in DOMAIN x : j # i => y[j] = x[j]
    BY <2>4
  <2>8. \A j \in 1 .. i : y[j] = <<Sum(m[InSet("grads", j)], square, shapes[j])>>
    <3> TAKE j \in 1 .. i
    <3>1. CASE j = i
      BY <2>6, <2>p, <3>1
    <3>2. CASE j # i
      <4>1. j \in 1 .. k /\ j \in DOMAIN x
        <5>1. j \in 1 .. k
          BY <2>1, <3>2
        <5>2. j \in 0 .. StatsLen - 1
          BY <1>1, <1>p, <2>1, <5>1 DEF StatsLen
        <5> QED
          BY <2>0, <5>1, <5>2 DEF Trains
      <4> QED
        BY <2>0, <2>7, <3>2, <4>1
    <3> QED
      BY <3>1, <3>2
  <2>9. \A j \in DOMAIN m[Stats] : j \notin 1 .. i => y[j] = m[Stats][j]
    BY <2>0, <2>1, <2>7
  <2>10. Normed(i)
    BY <2>0, <2>4, <2>5, <2>7, <2>8, <2>9, <2>p, ZenonT(60)
  <2> QED
    BY <2>1, <2>10, <2>p
<1>7. 0 .. N \subseteq Q
  <2> HIDE DEF Q
  <2> QED
    BY <1>1, <1>5, <1>6, Climb
<1>8. Normed(N)
  BY <1>1, <1>7
<1>9. n[Stats][0] = m[Stats][0]
  <2>1. 0 \in DOMAIN m[Stats] /\ 0 \notin 1 .. N
    BY <1>1, ShapesAre DEF Trains, StatsLen
  <2> QED
    BY <1>4, <1>8, <2>1
<1>10. Carries(m, n)
  <2>1. Keeping(table, r)
    BY <1>p, KeepNorms
  <2> QED
    BY <1>0, <2>1 DEF Keeping
<1>11. Same(m, n, "grads") /\ \A i \in Slots : n[Stats][i] = <<Sum(m[InSet("grads", i)], square, shapes[i])>>
  BY <1>1, <1>4, <1>8 DEF Same
<1> QED
  BY <1>9, <1>10, <1>11, <1>p DEF Norms

\* What a step leaves for its readback and its update.
Trained(m, n, seqs) ==
    /\ Carries(m, n) /\ \A i \in Slots : n[InSet("grads", i)] = HostGradient(i, seqs)
    /\ n[Stats][0] = [b \in DOMAIN seqs |-> LossOf(seqs[b])]
    /\ Norms(n, n)

\* The phases of a sequence are a sequence.
LEMMA SequencePhasesAre == ASSUME NEW kind, NEW s PROVE IsSeq(SequencePhases(kind, s))
BY SequencePhasesComplete DEF IsSeq

\* All of a step.
LEMMA StepTurn ==
    ASSUME NEW table, table = Results[FALSE], NEW m, Trains(m), NEW N \in Nat,
           NEW seqs, DOMAIN seqs = 1 .. N, Fresh(seqs), NEW kind,
           NEW n, Stages(table, m, Phases(kind, seqs), n)
    PROVE  Trained(m, n, seqs)
<1>p. PICK z, r, a, c, ss, f :
        /\ z = ZeroAll \o <<Flush>> /\ r = ReduceGradients \o <<Flush>> /\ a = <<z>> /\ c = <<r>>
        /\ ss = [b \in DOMAIN seqs |-> SequencePhases(kind, seqs[b])] /\ f = FlattenSeq(ss)
  OBVIOUS
<1>1. DOMAIN ss = 1 .. N /\ ss = [b \in 1 .. N |-> ss[b]] /\ \A b \in 1 .. N : IsSeq(ss[b])
  BY <1>p, SequencePhasesAre
<1>2. IsSeq(a) /\ IsSeq(c) /\ IsSeq(f) /\ IsSeq(a \o f)
  <2>1. IsSeq(f)
    BY <1>1, <1>p, FlatIsSeq
  <2>2. IsSeq(a) /\ IsSeq(c)
    BY <1>p, OneIs
  <2> QED
    BY <2>1, <2>2, ConcatIs
<1>3. PICK k, o : Stages(table, m, a, k) /\ Stages(table, k, f, o) /\ Stages(table, o, c, n)
  <2>1. Stages(table, m, (a \o f) \o c, n)
    BY <1>p DEF Phases
  <2>p. PICK g : g = a \o f
    OBVIOUS
  <2>2. PICK o : Stages(table, m, g, o) /\ Stages(table, o, c, n)
    BY ONLY <1>2, <2>1, <2>p, StagesSplit
  <2>3. Stages(table, m, a \o f, o)
    BY <2>2, <2>p
  <2>4. PICK k : Stages(table, m, a, k) /\ Stages(table, k, f, o)
    BY ONLY <1>2, <2>3, StagesSplit
  <2> QED
    BY <2>2, <2>4
<1>0. IsSeq(ZeroAll) /\ IsSeq(ReduceGradients)
  BY PartsAre
<1>4. Turns(table, m, ZeroAll, k)
  <2>1. Turns(table, m, ZeroAll \o <<Flush>>, k)
    BY <1>3, <1>p, StageOne
  <2> QED
    BY ONLY <1>0, <2>1, FlushTurn
<1>5. Turns(table, o, ReduceGradients, n)
  <2>1. Turns(table, o, ReduceGradients \o <<Flush>>, n)
    BY <1>3, <1>p, StageOne
  <2> QED
    BY ONLY <1>0, <2>1, FlushTurn
<1>6. /\ Carries(m, k) /\ \A i \in Slots : k[InSet("grads", i)] = << >>
      /\ k[Stats] = [i \in 0 .. StatsLen - 1 |-> << >>]
  BY <1>4, ZeroTurn
<1>7. Trains(k) /\ Gradients(k)
  <2>1. IsSeq(<< >>)
    BY << >> \in Seq({}) DEF IsSeq
  <2> QED
    BY <1>6, <2>1 DEF Carries, Gradients
<1>8. PICK mm : /\ mm[0] = k /\ mm[N] = o
                /\ \A b \in 1 .. N : Stages(table, mm[b - 1], ss[b], mm[b])
  <2>1. Stages(table, k, FlattenSeq(ss), o)
    BY <1>3, <1>p
  <2> QED
    BY ONLY <1>1, <2>1, N \in Nat, StagesFlat, SMTT(60)
<1>9. ASSUME NEW b \in 1 .. N, Trains(mm[b - 1]), Gradients(mm[b - 1])
      PROVE  Sequenced(mm[b - 1], mm[b], seqs[b])
  <2>p. PICK x, y, s : x = mm[b - 1] /\ y = mm[b] /\ s = seqs[b]
    OBVIOUS
  <2>1. Stages(table, x, SequencePhases(kind, s), y) /\ Trains(x) /\ Gradients(x)
    BY <1>8, <1>9, <1>p, <2>p
  <2>2. s # NoSeq /\ IsSeq(s.toks)
    BY <2>p DEF Fresh
  <2> QED
    BY <2>1, <2>2, <2>p, SequenceTurn
<1>10. /\ Carries(k, o) /\ \A b \in 1 .. N : Sequenced(mm[b - 1], mm[b], seqs[b])
  <2>1. Trains(mm[0]) /\ Gradients(mm[0])
    BY <1>7, <1>8
  <2>2. /\ Carries(mm[0], mm[N])
        /\ \A b \in 1 .. N : Sequenced(mm[b - 1], mm[b], seqs[b])
    BY ONLY <2>1, <1>9, N \in Nat, DOMAIN seqs = 1 .. N, SequencesTurn
  <2> QED
    BY <1>8, <2>2
<1>11. \A i \in Slots : o[InSet("grads", i)] = HostGradient(i, seqs)
  <2>1. \A i \in Slots : mm[0][InSet("grads", i)] = << >>
    BY <1>6, <1>8
  <2>2. \A b \in 1 .. N : Contributed(mm[b - 1], mm[b], seqs[b])
    BY <1>10 DEF Sequenced
  <2> QED
    BY <1>8, <2>1, <2>2, GradientChain
<1>12. /\ o[Stats][0] = [b \in DOMAIN seqs |-> LossOf(seqs[b])]
       /\ \A i \in Slots : o[Stats][i] = << >>
  <2>1. 0 \in DOMAIN mm[0][Stats] /\ mm[0][Stats][0] = << >> /\ \A i \in Slots : i \in DOMAIN mm[0][Stats] /\ i # 0
        /\ mm[0][Stats][i] = << >>
    <3>1. StatsLen = 1 + Len(shapes) /\ Len(shapes) \in Nat /\ Slots = 1 .. Len(shapes)
      BY ShapesIs DEF StatsLen
    <3>2. 0 \in 0 .. StatsLen - 1 /\ \A i \in Slots : i \in 0 .. StatsLen - 1 /\ i # 0
      BY <3>1
    <3> QED
      BY <1>6, <1>8, <3>2
  <2>2. \A b \in 1 .. N : mm[b][Stats] = WithLoss(mm[b - 1], seqs[b])
    BY <1>10 DEF Sequenced
  <2>3. Losses(mm[0][Stats], mm[N][Stats], seqs)
    BY <2>1, <2>2, LossChain
  <2> QED
    BY <1>8, <2>1, <2>3 DEF Losses
<1>13. /\ Carries(o, n) /\ Same(o, n, "grads") /\ n[Stats][0] = o[Stats][0]
       /\ Norms(o, n)
  <2>1. Trains(o)
    BY <1>10 DEF Carries
  <2> QED
    BY <1>5, <1>12, <2>1, NormsTurn
<1>14. Carries(m, n)
  BY <1>6, <1>10, <1>13, CarriesTwice
<1>15. \A i \in Slots : n[InSet("grads", i)] = o[InSet("grads", i)]
  BY <1>13 DEF Same
<1>16. Norms(n, n)
  BY <1>13, <1>15 DEF Norms
<1> QED
  BY <1>11, <1>12, <1>13, <1>14, <1>15, <1>16 DEF Trained

-----------------------------------------------------------------------------
(* Calls that are cut short, or learn nothing.                             *)

\* Each phase of a step keeps weights and moments.
LEMMA PhasesKeep ==
    ASSUME NEW table, NEW kind, NEW N \in Nat, NEW seqs, DOMAIN seqs = 1 .. N, Fresh(seqs)
    PROVE  \E S : Phases(kind, seqs) \in Seq(S) /\ \A s \in S : Keeping(table, s)
<1>p. PICK z, r, ss : /\ z = ZeroAll \o <<Flush>> /\ r = ReduceGradients \o <<Flush>>
                      /\ ss = [b \in DOMAIN seqs |-> SequencePhases(kind, seqs[b])]
  OBVIOUS
<1>u. PICK U : U = {s : s \in {z, r}} \cup UNION {{ss[b][i] : i \in 1 .. Len(ss[b])} : b \in 1 .. N}
  OBVIOUS
<1>0. IsSeq(ZeroAll) /\ IsSeq(ReduceGradients)
  BY PartsAre
<1>1. Keeping(table, z) /\ Keeping(table, r)
  <2>1. Keeping(table, ZeroAll)
    <3>1. \A m, n : Trains(m) /\ Turns(table, m, ZeroAll, n) => Carries(m, n)
      BY ZeroTurn
    <3> QED
      BY <3>1 DEF Keeping
  <2>2. Keeping(table, ReduceGradients)
    BY KeepNorms
  <2> QED
    BY <1>0, <1>p, <2>1, <2>2, KeepFlush
<1>2. ASSUME NEW b \in 1 .. N
      PROVE  IsSeq(ss[b]) /\ \A i \in 1 .. Len(ss[b]) : Keeping(table, ss[b][i])
  <2>p. PICK s, u, f, l, q : /\ s = seqs[b] /\ u = WriteTokens(s) \o upload_scatter_index(s.toks)
                             /\ f = encode_forward /\ l = encode_loss /\ q = encode_backward(s)
    OBVIOUS
  <2>1. IsSeq(u) /\ IsSeq(f) /\ IsSeq(l) /\ IsSeq(q)
    BY <2>p, PartsAre
  <2>2. Keeping(table, u) /\ Keeping(table, f) /\ Keeping(table, l) /\ Keeping(table, q)
    <3>1. IsSeq(s.toks)
      BY <2>p DEF Fresh
    <3>2. Keeping(table, WriteTokens(s)) /\ Keeping(table, upload_scatter_index(s.toks))
      BY <3>1, KeepUploads
    <3>3. IsSeq(WriteTokens(s)) /\ IsSeq(upload_scatter_index(s.toks))
      BY PartsAre
    <3>4. Keeping(table, WriteTokens(s) \o upload_scatter_index(s.toks))
      BY ONLY <3>2, <3>3, KeepConcat
    <3> QED
      BY <2>p, <3>4, KeepPasses, KeepLoss
  <2>3. /\ IsSeq(u \o f) /\ Keeping(table, u \o f)
    BY ONLY <2>1, <2>2, KeepConcat
  <2>4. /\ IsSeq((u \o f) \o l) /\ Keeping(table, (u \o f) \o l)
    BY ONLY <2>1, <2>2, <2>3, KeepConcat
  <2>5. /\ IsSeq(((u \o f) \o l) \o q) /\ Keeping(table, ((u \o f) \o l) \o q)
    BY ONLY <2>1, <2>2, <2>4, KeepConcat
  <2>6. /\ Keeping(table, (u \o f) \o <<Flush>>) /\ Keeping(table, l \o <<Flush>>)
        /\ Keeping(table, q \o <<Flush>>) /\ Keeping(table, (((u \o f) \o l) \o q) \o <<Flush>>)
    BY ONLY <2>1, <2>2, <2>3, <2>5, KeepFlush
  <2>7. ss[b] = SequencePhases(kind, s)
    BY <1>p, <2>p
  <2>8. CASE kind = "profile"
    <3>p. PICK x, y, w, t : /\ x = (u \o f) \o <<Flush>> /\ y = l \o <<Flush>> /\ w = q \o <<Flush>>
                            /\ t = <<x, y, w>>
      OBVIOUS
    <3>1. ss[b] = t
      BY <2>7, <2>8, <2>p, <3>p DEF SequencePhases
    <3>2. Keeping(table, x) /\ Keeping(table, y) /\ Keeping(table, w)
      BY <2>6, <3>p
    <3>3. Len(t) = 3 /\ t[1] = x /\ t[2] = y /\ t[3] = w /\ DOMAIN t = 1 .. 3 /\ t = [i \in 1 .. 3 |-> t[i]]
          /\ 3 \in Nat
      BY <3>p, SMTT(60)
    <3>4. IsSeq(t)
      BY <3>3, SeqMade
    <3>5. \A i \in 1 .. 3 : Keeping(table, t[i])
      BY <3>2, <3>3
    <3> QED
      BY <3>1, <3>3, <3>4, <3>5
  <2>9. CASE kind # "profile"
    <3>p. PICK x, t : x = (((u \o f) \o l) \o q) \o <<Flush>> /\ t = <<x>>
      OBVIOUS
    <3>1. ss[b] = t
      BY <2>7, <2>9, <2>p, <3>p DEF SequencePhases
    <3>2. IsSeq(t) /\ Len(t) = 1 /\ t[1] = x /\ Keeping(table, x)
      BY <2>6, <3>p, OneIs
    <3> QED
      BY <3>1, <3>2
  <2> QED
    BY <2>8, <2>9
<1>3. ASSUME NEW s \in U PROVE Keeping(table, s)
  <2>1. s \in {z, r} \/ \E b \in 1 .. N : \E i \in 1 .. Len(ss[b]) : s = ss[b][i]
    BY <1>u
  <2> QED
    BY <1>1, <1>2, <2>1
<1>4. FlattenSeq(ss) \in Seq(U)
  <2>1. ASSUME NEW b \in 1 .. N PROVE ss[b] \in Seq(U)
    <3>p. PICK t : t = ss[b]
      OBVIOUS
    <3>1. Len(t) \in Nat /\ DOMAIN t = 1 .. Len(t) /\ t = [i \in 1 .. Len(t) |-> t[i]]
      BY <1>2, <3>p, SeqIs
    <3>2. \A i \in 1 .. Len(t) : t[i] \in U
      BY <1>u, <3>p
    <3>3. PICK k : k = Len(t)
      OBVIOUS
    <3>4. k \in Nat /\ t \in [1 .. k -> U]
      BY <3>1, <3>2, <3>3
    <3> QED
      BY <3>4, <3>p
  <2>2. DOMAIN ss = 1 .. N /\ ss = [b \in 1 .. N |-> ss[b]]
    BY <1>p
  <2> QED
    BY ONLY <2>1, <2>2, N \in Nat, FlatIn
<1>5. Phases(kind, seqs) \in Seq(U)
  <2>p. PICK f, a, b : f = FlattenSeq(ss) /\ a = <<z>> /\ b = <<r>>
    OBVIOUS
  <2>0. z \in U /\ r \in U
    BY <1>u
  <2>1. a \in Seq(U) /\ b \in Seq(U)
    BY ONLY <2>0, <2>p
  <2>2. (a \o f) \o b \in Seq(U)
    BY ONLY <1>4, <2>1, <2>p
  <2>3. Phases(kind, seqs) = (a \o f) \o b
    BY <1>p, <2>p DEF Phases
  <2> QED
    BY <2>2, <2>3
<1> QED
  BY <1>3, <1>5

\* So a step cut short has changed none of them.
LEMMA PrefixTurn ==
    ASSUME NEW table, NEW m, Trains(m), NEW N \in Nat, NEW seqs, DOMAIN seqs = 1 .. N, Fresh(seqs),
           NEW kind, NEW reached \in 0 .. Len(Phases(kind, seqs)),
           NEW n, Stages(table, m, SubSeq(Phases(kind, seqs), 1, reached), n)
    PROVE  Carries(m, n)
<1>p. PICK phases, p : phases = Phases(kind, seqs) /\ p = SubSeq(phases, 1, reached)
  OBVIOUS
<1>1. PICK S : phases \in Seq(S) /\ \A s \in S : Keeping(table, s)
  BY <1>p, PhasesKeep
<1>2. p \in Seq(S) /\ Len(p) = reached /\ reached \in Nat
  BY <1>1, <1>p
<1>3. \A i \in 1 .. reached : Keeping(table, p[i])
  BY <1>1, <1>2
<1>4. Stages(table, m, p, n)
  BY <1>p
<1> QED
  BY ONLY <1>2, <1>3, <1>4, Trains(m), KeepStages

\* The loss of a sequence is in n's sums.
Evaluated(m, n, s) == Carries(m, n) /\ n[Stats] = WithLoss(m, s)

\* What an evaluation does with a sequence.
LEMMA EvalPartTurn ==
    ASSUME NEW table, table = Results[FALSE], NEW m, Trains(m), NEW s, s # NoSeq,
           NEW n, Turns(table, m, EvalPart(s), n)
    PROVE  Evaluated(m, n, s)
<1>p. PICK w, f, l, q : w = WriteTokens(s) /\ f = encode_forward /\ l = encode_loss /\ q = w \o f
  OBVIOUS
<1>0. IsSeq(w) /\ IsSeq(f) /\ IsSeq(l) /\ IsSeq(q) /\ IsSeq(q \o l)
  <2>1. IsSeq(w) /\ IsSeq(f) /\ IsSeq(l)
    BY <1>p, PartsAre
  <2>2. IsSeq(q)
    BY <2>1, <1>p, ConcatIs
  <2> QED
    BY ONLY <2>1, <2>2, ConcatIs
<1>1. Turns(table, m, q \o l, n)
  <2>1. Turns(table, m, (q \o l) \o <<Flush>>, n)
    BY <1>p DEF EvalPart
  <2>p. PICK t : t = q \o l
    OBVIOUS
  <2>2. Turns(table, m, t, n)
    BY ONLY <1>0, <2>1, <2>p, FlushTurn
  <2> QED
    BY <2>2, <2>p
<1>2. PICK o : Turns(table, m, q, o) /\ Turns(table, o, l, n)
  BY ONLY <1>0, <1>1, TurnsSplit
<1>3. PICK k : Turns(table, m, w, k) /\ Turns(table, k, f, o)
  <2>1. Turns(table, m, w \o f, o)
    BY <1>2, <1>p
  <2> QED
    BY ONLY <1>0, <2>1, TurnsSplit
<1>4. /\ Holds(k, Scratch("tokens"), Tokens, s) /\ Holds(k, Scratch("targets"), Top("targets"), s)
      /\ Outside(m, k, TokenBuffers)
  BY <1>3, <1>p, TokensTurn
<1>5. Carries(m, k)
  <2>1. Keeping(table, w)
    BY <1>p, KeepUploads
  <2> QED
    BY <1>3, <2>1 DEF Keeping
<1>6. Carries(k, o) /\ Carries(o, n)
  <2>1. Keeping(table, f) /\ Keeping(table, l)
    BY <1>p, KeepPasses, KeepLoss
  <2>2. Carries(k, o)
    BY <1>3, <1>5, <2>1 DEF Keeping, Carries
  <2>3. Carries(o, n)
    BY <1>2, <2>1, <2>2 DEF Keeping, Carries
  <2> QED
    BY <2>2, <2>3
<1>7. Trains(k) /\ Trains(o)
  BY <1>5, <1>6 DEF Carries
<1>8. Forwarded(o, s)
  BY <1>3, <1>4, <1>7, <1>p, ForwardTurn
<1>9. Holds(o, Scratch("targets"), Top("targets"), s)
  <2>1. Scratch("targets") \in DOMAIN k
    BY <1>7 DEF Trains, ScratchNames
  <2>2. Passing(f, Scratch("targets"))
    BY <1>p, ForwardLeaves
  <2>3. Stays(k, o, Scratch("targets"))
    BY <1>3, <2>1, <2>2, StayStill
  <2> QED
    BY <1>4, <2>3 DEF Holds, Stays
<1>10. n[Stats] = WithLoss(o, s)
  <2>1. Holds(o, Scratch("logits"), Top("logits"), s)
    BY <1>8 DEF Forwarded
  <2>2. Turns(table, o, encode_loss, n) /\ Trains(o)
    BY <1>2, <1>7, <1>p
  <2>3. /\ Holds(n, Scratch("d_logits"), Top("d_logits"), s)
        /\ n[Stats] = [o[Stats] EXCEPT ![0] = Append(@, LossOf(s))] /\ DOMAIN n = DOMAIN o
    BY ONLY <1>9, <2>1, <2>2, table = Results[FALSE], s # NoSeq, LossTurn
  <2> QED
    BY <2>3 DEF WithLoss
<1>11. o[Stats] = m[Stats]
  <2>1. Stats \in DOMAIN m /\ Stats \in DOMAIN k
    BY <1>7 DEF Trains
  <2>2. k[Stats] = m[Stats]
    <3>1. Stats \notin TokenBuffers
      BY DEF TokenBuffers, Scratch, Stats
    <3> QED
      BY <1>4, <2>1, <3>1 DEF Outside
  <2>3. Passing(f, Stats)
    BY <1>p, ForwardLeaves
  <2>4. Stays(k, o, Stats)
    BY <1>3, <2>1, <2>3, StayStill
  <2> QED
    BY <2>2, <2>4 DEF Stays
<1>12. Carries(m, n)
  BY <1>5, <1>6, CarriesTwice
<1> QED
  BY <1>10, <1>11, <1>12 DEF WithLoss, Evaluated

\* The losses of a batch are in n's sums.
Assessed(m, n, seqs) == Carries(m, n) /\ n[Stats][0] = [b \in DOMAIN seqs |-> LossOf(seqs[b])]

\* A whole evaluation.
LEMMA EvalTurn ==
    ASSUME NEW table, table = Results[FALSE], NEW m, Trains(m), NEW N \in Nat, NEW seqs,
           DOMAIN seqs = 1 .. N, Fresh(seqs), NEW n, Turns(table, m, EvalCommands(seqs), n)
    PROVE  Assessed(m, n, seqs)
<1>p. PICK c, z, ss : /\ c = dispatch_zero(Stats, 1) /\ z = <<c>>
                      /\ ss = [b \in DOMAIN seqs |-> EvalPart(seqs[b])]
  OBVIOUS
<1>1. /\ DOMAIN ss = 1 .. N /\ ss = [b \in 1 .. N |-> ss[b]]
      /\ \A b \in 1 .. N : IsSeq(ss[b])
  BY <1>p, EvalPartComplete DEF Complete
<1>2. PICK k : Turns(table, m, z, k) /\ Turns(table, k, FlattenSeq(ss), n)
  <2>1. Turns(table, m, z \o FlattenSeq(ss), n)
    BY <1>p DEF EvalCommands, EvalZeroes, EvalPart
  <2>p. PICK f : f = FlattenSeq(ss)
    OBVIOUS
  <2>2. IsSeq(z) /\ IsSeq(f)
    BY <1>1, <1>p, <2>p, OneIs, FlatIsSeq
  <2>3. \E k : Turns(table, m, z, k) /\ Turns(table, k, f, n)
    BY ONLY <2>1, <2>2, <2>p, TurnsSplit
  <2> QED
    BY <2>3, <2>p
<1>3. Wrote(m, Stats, [i \in DOMAIN m[Stats] |-> IF i < 1 THEN << >> ELSE m[Stats][i]], k)
  <2>p. PICK b, len : b = Stats /\ len = 1
    OBVIOUS
  <2>1. b \in DOMAIN m /\ b[1] = "stats"
    BY <2>p DEF Trains, Stats, Scratch
  <2>2. k = Now(table, m, c)
    BY <1>2, <1>p, TurnOne
  <2>3. Wrote(m, b, IF b[1] = "stats"
                    THEN [i \in DOMAIN m[b] |-> IF i < len THEN << >> ELSE m[b][i]] ELSE << >>,
              Now(table, m, dispatch_zero(b, len)))
    BY <2>1, ZeroOne
  <2> QED
    BY <1>p, <2>1, <2>2, <2>3, <2>p
<1>4. 0 \in DOMAIN k[Stats] /\ k[Stats][0] = << >> /\ DOMAIN k[Stats] = DOMAIN m[Stats]
  <2>1. 0 \in DOMAIN m[Stats]
    BY ShapesAre DEF Trains, StatsLen
  <2> QED
    BY <1>3, <2>1 DEF Wrote
<1>5. Carries(m, k)
  <2>1. ASSUME NEW set \in {"weights", "m", "v"} PROVE Same(m, k, set)
    <3>1. \A i \in Slots : InSet(set, i) \in DOMAIN m
      BY DEF Trains
    <3> QED
      BY <1>3, <3>1, TensorsApart DEF Same, Wrote
  <2>2. ASSUME NEW name \in RowNames PROVE k[Scratch(name)] = m[Scratch(name)]
    <3>1. Scratch(name) \in DOMAIN m
      BY DEF Trains
    <3>2. Scratch(name) # Stats
      BY DEF RowNames, Scratch, Stats
    <3> QED
      BY <1>3, <3>1, <3>2 DEF Wrote
  <2>3. Unmoved(m, k) /\ DOMAIN k = DOMAIN m
    BY <1>3, <2>1 DEF Unmoved, Wrote
  <2> QED
    BY <1>4, <2>2, <2>3, CarriesMade
<1>6. PICK mm : /\ mm[0] = k /\ mm[N] = n
                /\ \A b \in 1 .. N : Turns(table, mm[b - 1], ss[b], mm[b])
  BY ONLY <1>1, <1>2, N \in Nat, TurnsFlat
<1>7. ASSUME NEW b \in 1 .. N, Trains(mm[b - 1])
      PROVE  Carries(mm[b - 1], mm[b]) /\ mm[b][Stats] = WithLoss(mm[b - 1], seqs[b])
  <2>p. PICK x, y, s : x = mm[b - 1] /\ y = mm[b] /\ s = seqs[b]
    OBVIOUS
  <2>1. Turns(table, x, EvalPart(s), y) /\ Trains(x) /\ s # NoSeq
    BY <1>6, <1>7, <1>p, <2>p DEF Fresh
  <2>3. Evaluated(x, y, s)
    BY ONLY <2>1, table = Results[FALSE], EvalPartTurn
  <2> QED
    BY <2>3, <2>p DEF Evaluated
<1> DEFINE Q == {b \in 0 .. N : Carries(k, mm[b])}
<1>8. 0 \in Q
  BY <1>5, <1>6, CarriesSelf DEF Carries
<1>9. ASSUME NEW b \in 0 .. N - 1, b \in Q PROVE b + 1 \in Q
  <2>p. PICK j : j = b + 1
    OBVIOUS
  <2>1. j \in 1 .. N /\ j \in 0 .. N /\ j - 1 = b
    BY <2>p
  <2>2. Carries(k, mm[b]) /\ Trains(mm[b])
    BY <1>9 DEF Carries
  <2>3. Carries(mm[b], mm[j])
    BY <1>7, <2>1, <2>2
  <2>4. Carries(k, mm[j])
    BY <2>2, <2>3, CarriesTwice
  <2> QED
    BY <2>1, <2>4, <2>p
<1>10. 0 .. N \subseteq Q
  <2> HIDE DEF Q
  <2> QED
    BY <1>8, <1>9, Climb
<1>11. Carries(k, n)
  BY <1>6, <1>10
<1>12. \A b \in 1 .. N : mm[b][Stats] = WithLoss(mm[b - 1], seqs[b])
  <2> TAKE b \in 1 .. N
  <2>1. b - 1 \in 0 .. N
    OBVIOUS
  <2>2. Trains(mm[b - 1])
    BY <1>10, <2>1 DEF Carries
  <2> QED
    BY <1>7, <2>2
<1>13. Losses(mm[0][Stats], mm[N][Stats], seqs)
  BY <1>4, <1>6, <1>12, LossChain
<1> QED
  BY <1>5, <1>6, <1>11, <1>13, CarriesTwice DEF Losses, Assessed

\* A comparison of the forward pass reads back the logits of its sequence.
LEMMA CompareTurn ==
    ASSUME NEW table, table = Results[FALSE], NEW m, Trains(m), NEW s, s # NoSeq,
           NEW n, Turns(table, m, CompareCommands(s), n)
    PROVE  Carries(m, n) /\ Holds(n, Scratch("logits"), Top("logits"), s)
<1>p. PICK b, v, c, z, f : /\ b = Scratch("tokens") /\ v = Value(Tokens, s) /\ c = WriteBuffer(b, v)
                           /\ z = <<c>> /\ f = encode_forward
  OBVIOUS
<1>0. IsSeq(z) /\ IsSeq(f) /\ IsSeq(z \o f)
  <2>1. IsSeq(z) /\ IsSeq(f)
    BY <1>p, OneIs, PartsAre
  <2> QED
    BY ONLY <2>1, ConcatIs
<1>1. Turns(table, m, z \o f, n)
  <2>1. WriteTokens(s)[1] = c
    BY <1>p, WritesIs
  <2>2. Turns(table, m, (z \o f) \o <<Flush>>, n)
    BY <1>p, <2>1 DEF CompareCommands
  <2>p. PICK t : t = z \o f
    OBVIOUS
  <2>3. Turns(table, m, t, n)
    BY ONLY <1>0, <2>2, <2>p, FlushTurn
  <2> QED
    BY <2>3, <2>p
<1>2. PICK k : Turns(table, m, z, k) /\ Turns(table, k, f, n)
  BY ONLY <1>0, <1>1, TurnsSplit
<1>3. Wrote(m, b, v, k)
  <2>1. b \in DOMAIN m
    BY <1>p DEF Trains, ScratchNames
  <2>2. k = Now(table, m, c)
    BY <1>2, <1>p, TurnOne
  <2>3. Wrote(m, b, IF b[1] \in RowNames THEN Overwrite(m[b], v) ELSE v, Now(table, m, WriteBuffer(b, v)))
    BY <2>1, WriteTurn
  <2>4. b[1] \notin RowNames
    BY <1>p DEF RowNames, Scratch
  <2> QED
    BY <1>p, <2>2, <2>3, <2>4
<1>4. Outside(m, k, TokenBuffers)
  BY <1>3, <1>p DEF Wrote, Outside, TokenBuffers
<1>5. Carries(m, k)
  <2>1. Trains(k) /\ DOMAIN k = DOMAIN m
    BY <1>4, TrainsOutside
  <2>2. ASSUME NEW set \in {"weights", "m", "v"} PROVE Same(m, k, set)
    <3>1. \A i : InSet(set, i) \notin TokenBuffers
      BY TensorsApart DEF TokenBuffers
    <3>2. \A i \in Slots : InSet(set, i) \in DOMAIN m
      BY DEF Trains
    <3> QED
      BY <1>4, <3>1, <3>2 DEF Outside, Same
  <2> QED
    BY <2>1, <2>2 DEF Carries, Unmoved
<1>6. Holds(k, b, Tokens, s) /\ Trains(k)
  BY <1>3, <1>5, <1>p DEF Holds, Wrote, Carries
<1>7. Forwarded(n, s)
  BY <1>2, <1>6, <1>p, ForwardTurn
<1>8. Carries(k, n)
  BY <1>2, <1>6, <1>p, KeepPasses DEF Keeping
<1> QED
  BY <1>5, <1>7, <1>8, CarriesTwice DEF Forwarded

-----------------------------------------------------------------------------
(* The optimizer.                                                          *)

\* What the moments take in, and what becomes of a weight.
Take(g, scale) == [grad |-> IF scale.batch = 0 THEN << >> ELSE g, scale |-> scale]
Update(i, g, step, lr, scale) ==
    IF step = 0 THEN <<Junk>>
    ELSE IF lr = 0 THEN << >>
    ELSE <<[grad |-> g, scale |-> scale, step |-> step, decayed |-> decays(shapes[i])]>>

\* Memory n is memory m after tensor i has been updated.
Stepped(m, n, i, step, lr, scale) ==
    LET g == m[InSet("grads", i)]
    IN /\ DOMAIN n = DOMAIN m
       /\ n[InSet("weights", i)]
          = [m[InSet("weights", i)] EXCEPT !.past = @ \o Update(i, g, step, lr, scale)]
       /\ n[InSet("m", i)] = Append(m[InSet("m", i)], Take(g, scale))
       /\ n[InSet("v", i)] = Append(m[InSet("v", i)], Take(g, scale))

\* And nothing else.
Beside(m, n, i) ==
    \A b \in DOMAIN m :
        b # InSet("weights", i) /\ b # InSet("m", i) /\ b # InSet("v", i) => n[b] = m[b]

\* One tensor.
LEMMA AdamOne ==
    ASSUME NEW table, NEW m, NEW i, NEW step, NEW lr, NEW scale,
           InSet("weights", i) \in DOMAIN m, InSet("m", i) \in DOMAIN m, InSet("v", i) \in DOMAIN m,
           NEW c, c = Dispatch("adam", [step |-> step, lr |-> lr, scale |-> scale,
                                        decay |-> decays(shapes[i])],
                               NoSeq, <<InSet("grads", i)>>,
                               <<InSet("weights", i), InSet("m", i), InSet("v", i)>>)
    PROVE  Stepped(m, Now(table, m, c), i, step, lr, scale) /\ Beside(m, Now(table, m, c), i)
<1>p. PICK w, x, y, g, n : /\ w = InSet("weights", i) /\ x = InSet("m", i) /\ y = InSet("v", i)
                           /\ g = m[InSet("grads", i)] /\ n = Now(table, m, c)
  OBVIOUS
<1>0. w # x /\ w # y /\ x # y /\ w \in DOMAIN m /\ x \in DOMAIN m /\ y \in DOMAIN m
  BY <1>p DEF InSet
<1>1. /\ c.do = "dispatch" /\ c.op = "adam" /\ c.reads[1] = InSet("grads", i)
      /\ c.writes[1] = w /\ c.writes[2] = x /\ c.writes[3] = y
      /\ c.params.dims.step = step /\ c.params.dims.lr = lr /\ c.params.dims.scale = scale
      /\ c.params.dims.decay = decays(shapes[i])
  BY <1>p DEF Dispatch
<1>2. n = Adam(m, c, c.params)
  <2>1. n = Execute(table, c.params, m, c)
    BY <1>1, <1>p DEF Now
  <2>2. Execute(table, c.params, m, c) = Adam(m, c, c.params)
    BY <1>1 DEF Execute, Computing, Accumulating
  <2> QED
    BY <2>1, <2>2
<1>3. n = [m EXCEPT ![w].past = @ \o Update(i, g, step, lr, scale),
                    ![x] = Append(@, Take(g, scale)), ![y] = Append(@, Take(g, scale))]
  <2>p. PICK u, a : u = Update(i, g, step, lr, scale) /\ a = Take(g, scale)
    OBVIOUS
  <2>1. a = [grad |-> IF c.params.dims.scale.batch = 0 THEN << >> ELSE m[c.reads[1]],
             scale |-> c.params.dims.scale]
    BY <1>1, <1>p, <2>p DEF Take
  <2>2. u = IF c.params.dims.step = 0 THEN <<Junk>>
            ELSE IF c.params.dims.lr = 0 THEN << >>
            ELSE <<[grad |-> m[c.reads[1]], scale |-> c.params.dims.scale,
                    step |-> c.params.dims.step, decayed |-> c.params.dims.decay]>>
    BY <1>1, <1>p, <2>p DEF Update
  <2>3. Adam(m, c, c.params)
        = [m EXCEPT ![c.writes[1]].past = @ \o u, ![c.writes[2]] = Append(@, a),
                    ![c.writes[3]] = Append(@, a)]
    BY <2>1, <2>2, Zenon DEF Adam
  <2>4. n = [m EXCEPT ![w].past = @ \o u, ![x] = Append(@, a), ![y] = Append(@, a)]
    BY ONLY <1>1, <1>2, <2>3
  <2> QED
    BY ONLY <2>4, <2>p
<1>4. /\ DOMAIN n = DOMAIN m /\ n[w] = [m[w] EXCEPT !.past = @ \o Update(i, g, step, lr, scale)]
      /\ n[x] = Append(m[x], Take(g, scale)) /\ n[y] = Append(m[y], Take(g, scale))
      /\ \A b \in DOMAIN m : b # w /\ b # x /\ b # y => n[b] = m[b]
  BY <1>0, <1>3
<1> QED
  BY <1>4, <1>p DEF Stepped, Beside

\* All of them.
Optimized(m, n, step, lr, scale) ==
    Trains(n) /\ \A i \in Slots : Stepped(m, n, i, step, lr, scale)

\* One by one.
LEMMA AdamTurn ==
    ASSUME NEW table, NEW m, Trains(m), NEW step, NEW lr, NEW scale, NEW n,
           Turns(table, m, encode_adam(step, lr, scale), n)
    PROVE  Optimized(m, n, step, lr, scale)
<1>p. PICK N, s : N = Len(shapes) /\ s = encode_adam(step, lr, scale)
  OBVIOUS
<1>1. N \in Nat /\ Slots = 1 .. N /\ DOMAIN s = 1 .. N /\ s = [i \in 1 .. N |-> s[i]]
  BY <1>p, ShapesIs DEF encode_adam
<1>2. IsSeq(s) /\ Len(s) = N
  BY <1>1, SeqMade
<1>3. PICK mm : mm[0] = m /\ mm[N] = n /\ \A i \in 1 .. N : mm[i] = Now(table, mm[i - 1], s[i])
  BY <1>2, <1>p DEF Turns
<1>4. \A set \in {"weights", "grads", "m", "v"}, i \in Slots : InSet(set, i) \in DOMAIN m
  BY DEF Trains
<1> DEFINE Fine(k) == /\ DOMAIN mm[k] = DOMAIN m
                      /\ \A i \in 1 .. k : Stepped(m, mm[k], i, step, lr, scale)
                      /\ \A b \in DOMAIN m :
                            (\A i \in 1 .. k : b # InSet("weights", i) /\ b # InSet("m", i) /\ b # InSet("v", i))
                            => mm[k][b] = m[b]
           Q == {k \in 0 .. N : Fine(k)}
<1>5. 0 \in Q
  BY <1>1, <1>3
<1>6. ASSUME NEW k \in 0 .. N - 1, k \in Q PROVE k + 1 \in Q
  <2>p. PICK i, c, o, q : i = k + 1 /\ c = s[i] /\ o = mm[k] /\ q = mm[i]
    OBVIOUS
  <2>1. i \in 1 .. N /\ i \in 0 .. N /\ i - 1 = k /\ i \in Slots /\ i \notin 1 .. k
        /\ 1 .. i = (1 .. k) \cup {i} /\ k \in Nat
    BY <1>1, <2>p
  <2>2. c = Dispatch("adam", [step |-> step, lr |-> lr, scale |-> scale, decay |-> decays(shapes[i])],
                     NoSeq, <<InSet("grads", i)>>,
                     <<InSet("weights", i), InSet("m", i), InSet("v", i)>>)
    BY <1>p, <2>1, <2>p DEF encode_adam
  <2>3. q = Now(table, o, c)
    BY <1>3, <2>1, <2>p
  <2>0. /\ DOMAIN o = DOMAIN m
        /\ \A j \in 1 .. k : Stepped(m, o, j, step, lr, scale)
        /\ \A b \in DOMAIN m :
              (\A j \in 1 .. k : b # InSet("weights", j) /\ b # InSet("m", j) /\ b # InSet("v", j))
              => o[b] = m[b]
    BY <1>6, <2>p
  <2>4. InSet("weights", i) \in DOMAIN o /\ InSet("m", i) \in DOMAIN o /\ InSet("v", i) \in DOMAIN o
    BY <1>4, <2>0, <2>1
  <2>5. Stepped(o, q, i, step, lr, scale) /\ Beside(o, q, i)
    BY ONLY <2>2, <2>3, <2>4, AdamOne
  <2>6. /\ o[InSet("weights", i)] = m[InSet("weights", i)] /\ o[InSet("m", i)] = m[InSet("m", i)]
        /\ o[InSet("v", i)] = m[InSet("v", i)] /\ o[InSet("grads", i)] = m[InSet("grads", i)]
    <3>1. ASSUME NEW set \in {"weights", "grads", "m", "v"} PROVE o[InSet(set, i)] = m[InSet(set, i)]
      <4>1. InSet(set, i) \in DOMAIN m
        BY <1>4, <2>1
      <4>2. \A j \in 1 .. k : InSet(set, i) # InSet("weights", j) /\ InSet(set, i) # InSet("m", j)
                              /\ InSet(set, i) # InSet("v", j)
        <5>1. \A j \in 1 .. k : j # i
          BY <2>1
        <5> QED
          BY <5>1 DEF InSet
      <4> QED
        BY <2>0, <4>1, <4>2
    <3> QED
      BY <3>1
  <2>7. Stepped(m, q, i, step, lr, scale)
    BY <2>0, <2>5, <2>6 DEF Stepped
  <2>8. ASSUME NEW j \in 1 .. k PROVE Stepped(m, q, j, step, lr, scale)
    <3>1. j # i /\ j \in Slots
      BY <1>1, <2>1
    <3>2. ASSUME NEW set \in {"weights", "m", "v"} PROVE q[InSet(set, j)] = o[InSet(set, j)]
      <4>1. InSet(set, j) \in DOMAIN o
        BY <1>4, <2>0, <3>1
      <4>2. InSet(set, j) # InSet("weights", i) /\ InSet(set, j) # InSet("m", i)
            /\ InSet(set, j) # InSet("v", i)
        BY <3>1 DEF InSet
      <4> QED
        BY <2>5, <4>1, <4>2 DEF Beside
    <3>3. /\ q[InSet("weights", j)] = o[InSet("weights", j)] /\ q[InSet("m", j)] = o[InSet("m", j)]
          /\ q[InSet("v", j)] = o[InSet("v", j)]
      BY <3>2
    <3>4. Stepped(m, o, j, step, lr, scale) /\ DOMAIN q = DOMAIN o
      BY <2>0, <2>5 DEF Stepped
    <3> QED
      BY <3>3, <3>4 DEF Stepped
  <2>9. ASSUME NEW b \in DOMAIN m,
               \A j \in 1 .. i : b # InSet("weights", j) /\ b # InSet("m", j) /\ b # InSet("v", j)
        PROVE  q[b] = m[b]
    <3>1. /\ b # InSet("weights", i) /\ b # InSet("m", i) /\ b # InSet("v", i)
          /\ \A j \in 1 .. k : b # InSet("weights", j) /\ b # InSet("m", j) /\ b # InSet("v", j)
      BY <2>1, <2>9
    <3> QED
      BY <2>0, <2>5, <3>1 DEF Beside
  <2>10. DOMAIN q = DOMAIN m /\ \A j \in 1 .. i : Stepped(m, q, j, step, lr, scale)
    BY <2>0, <2>1, <2>5, <2>7, <2>8 DEF Stepped
  <2>11. Fine(i)
    BY <2>9, <2>10, <2>p
  <2> QED
    BY <2>1, <2>11, <2>p
<1>7. 0 .. N \subseteq Q
  <2> HIDE DEF Q
  <2> QED
    BY <1>1, <1>5, <1>6, Climb
<1>8. Fine(N)
  BY <1>1, <1>7
<1>9. /\ DOMAIN n = DOMAIN m /\ \A i \in Slots : Stepped(m, n, i, step, lr, scale)
      /\ \A b \in DOMAIN m :
            (\A i \in Slots : b # InSet("weights", i) /\ b # InSet("m", i) /\ b # InSet("v", i))
            => n[b] = m[b]
  BY <1>1, <1>3, <1>8
<1>10. \A i \in Slots : Weighs(n, InSet("weights", i), shapes[i])
  <2> TAKE i \in Slots
  <2>1. n[InSet("weights", i)]
        = [m[InSet("weights", i)] EXCEPT !.past = @ \o Update(i, m[InSet("grads", i)], step, lr, scale)]
    BY <1>9 DEF Stepped
  <2>2. n[InSet("weights", i)].of = m[InSet("weights", i)].of /\ n[InSet("weights", i)].seq = m[InSet("weights", i)].seq
    BY <2>1
  <2> QED
    BY <2>2 DEF Trains, Weighs
<1>11. ASSUME NEW name \in RowNames \cup {"stats"} PROVE n[Scratch(name)] = m[Scratch(name)]
  <2>1. Scratch(name) \in DOMAIN m
    BY DEF Trains, Stats
  <2>2. \A set, i : Scratch(name) # InSet(set, i)
    BY TensorsApart
  <2> QED
    BY <1>9, <2>1, <2>2
<1>12. n[Stats] = m[Stats] /\ \A name \in RowNames : n[Scratch(name)] = m[Scratch(name)]
  BY <1>11 DEF Stats
<1>13. Trains(n)
  BY <1>9, <1>10, <1>12 DEF Trains
<1> QED
  BY <1>9, <1>13 DEF Optimized

-----------------------------------------------------------------------------
(* The kernels' measurements.                                              *)

\* What leaves of memory all that training keeps.
Apart(b) ==
    /\ \A name, l : Acts(name, l) # b
    /\ \A name \in ScratchNames : Scratch(name) # b
    /\ \A l, which : LayerOf("grads", l, which) # b

\* The cases measured: the optimizer's is the last, the others are passes
\* over what is computed.
LEMMA CasesAre ==
    /\ Len(encode_profile_case) = 14 /\ IsSeq(encode_profile_case)
    /\ encode_profile_case[14] = encode_adam(trainer.step, 0, [batch |-> 0, norm |-> "none"])
    /\ \A b : Apart(b) => \A c \in 1 .. 13 : Passing(encode_profile_case[c], b)
<1>p. PICK q : q = encode_profile_case
  OBVIOUS
<1>1. /\ Len(q) = 14 /\ DOMAIN q = 1 .. 14 /\ q = [c \in 1 .. 14 |-> q[c]]
      /\ q[14] = encode_adam(trainer.step, 0, [batch |-> 0, norm |-> "none"])
  BY <1>p DEF encode_profile_case
<1>2. /\ q[1] = <<dispatch_linear(Acts("normed1", 1), LayerOf("weights", 1, "wq"), Acts("q",
                                 1), "t", "h", "h")>>
      /\ q[2] = <<dispatch_linear(Acts("normed1", 1), LayerOf("weights", 1, "wk"), Acts("k",
                                 1), "t", "h", "kv")>>
      /\ q[3] = <<dispatch_linear(Acts("normed2", 1), LayerOf("weights", 1, "w_gate"),
                                 Acts("gate", 1), "t", "h", "ffn")>>
      /\ q[4] = <<dispatch_linear(Scratch("act"), LayerOf("weights", 1, "w_down"),
                                 Scratch("tmp_h"), "t", "ffn", "h")>>
      /\ q[5] = <<dispatch_linear(Scratch("final_normed"), EmbedOf("weights"),
                                 Scratch("logits"), "t", "h", "vocab")>>
      /\ q[6] = <<dispatch_linear_bwd_dw(Scratch("d_gate"), Acts("normed2", 1),
                                 LayerOf("grads", 1, "w_gate"), "h", "ffn")>>
      /\ q[7] = <<dispatch_linear_bwd_dx(Scratch("d_gate"), LayerOf("weights", 1, "w_gate"),
                                 Scratch("d_a"), "h", "ffn")>>
      /\ q[8] = <<dispatch_attention_fwd(Acts("q", 1), Acts("k", 1), Acts("v", 1),
                                 Acts("concat", 1), Acts("probs", 1))>>
      /\ q[9] = dispatch_attention_bwd(1)
      /\ q[10] = <<dispatch_rmsnorm(Scratch("hidden"), LayerOf("weights", 1, "attn_norm_gain"),
                                 Acts("normed1", 1), Acts("inv_rms1", 1), "t")>>
      /\ q[11] = <<dispatch_rmsnorm_bwd_dx(Scratch("d_a"), Acts("h_in", 1), LayerOf("weights",
                                 1, "attn_norm_gain"), Acts("inv_rms1", 1), Scratch("d_c")),
                dispatch_rmsnorm_bwd_dgain(Scratch("d_a"), Acts("h_in", 1), Acts("inv_rms1",
                                 1), LayerOf("grads", 1, "attn_norm_gain"))>>
      /\ q[12] = <<dispatch_rope(Acts("q", 1), "t", "heads", NoSeq, "fwd")>>
      /\ q[13] = <<dispatch_swiglu(Acts("gate", 1), Acts("up", 1), Scratch("act"), "t")>>
  BY <1>p DEF encode_profile_case
<1>3. ASSUME NEW b, Apart(b) PROVE \A c \in 1 .. 13 : Passing(q[c], b)
  <2>1. /\ Acts("normed1", 1) # b
        /\ Acts("q", 1) # b
        /\ Acts("k", 1) # b
        /\ Acts("v", 1) # b
        /\ Acts("gate", 1) # b
        /\ Acts("concat", 1) # b
        /\ Acts("probs", 1) # b
        /\ Acts("inv_rms1", 1) # b
        /\ LayerOf("grads", 1, "w_gate") # b /\ LayerOf("grads", 1, "attn_norm_gain") # b
    BY <1>3 DEF Apart
  <2>2. /\ Scratch("act") # b
        /\ Scratch("tmp_h") # b
        /\ Scratch("logits") # b
        /\ Scratch("d_a") # b
        /\ Scratch("d_c") # b
        /\ Scratch("d_score") # b
        /\ Scratch("d_q") # b
        /\ Scratch("d_k") # b
        /\ Scratch("d_v") # b
    BY <1>3 DEF Apart, ScratchNames
  <2>3. Passing(q[1], b)
    <3>1. Passes(dispatch_linear(Acts("normed1", 1), LayerOf("weights", 1, "wq"), Acts("q",
                                 1), "t", "h", "h"), b)
      BY <2>1, <2>2, CommandsPass
    <3> QED
      BY <1>2, <3>1, OnePassing
  <2>4. Passing(q[2], b)
    <3>1. Passes(dispatch_linear(Acts("normed1", 1), LayerOf("weights", 1, "wk"), Acts("k",
                                 1), "t", "h", "kv"), b)
      BY <2>1, <2>2, CommandsPass
    <3> QED
      BY <1>2, <3>1, OnePassing
  <2>5. Passing(q[3], b)
    <3>1. Passes(dispatch_linear(Acts("normed2", 1), LayerOf("weights", 1, "w_gate"),
                                 Acts("gate", 1), "t", "h", "ffn"), b)
      BY <2>1, <2>2, CommandsPass
    <3> QED
      BY <1>2, <3>1, OnePassing
  <2>6. Passing(q[4], b)
    <3>1. Passes(dispatch_linear(Scratch("act"), LayerOf("weights", 1, "w_down"),
                                 Scratch("tmp_h"), "t", "ffn", "h"), b)
      BY <2>1, <2>2, CommandsPass
    <3> QED
      BY <1>2, <3>1, OnePassing
  <2>7. Passing(q[5], b)
    <3>1. Passes(dispatch_linear(Scratch("final_normed"), EmbedOf("weights"),
                                 Scratch("logits"), "t", "h", "vocab"), b)
      BY <2>1, <2>2, CommandsPass
    <3> QED
      BY <1>2, <3>1, OnePassing
  <2>8. Passing(q[6], b)
    <3>1. Passes(dispatch_linear_bwd_dw(Scratch("d_gate"), Acts("normed2", 1),
                                 LayerOf("grads", 1, "w_gate"), "h", "ffn"), b)
      BY <2>1, <2>2, CommandsPass
    <3> QED
      BY <1>2, <3>1, OnePassing
  <2>9. Passing(q[7], b)
    <3>1. Passes(dispatch_linear_bwd_dx(Scratch("d_gate"), LayerOf("weights", 1, "w_gate"),
                                 Scratch("d_a"), "h", "ffn"), b)
      BY <2>1, <2>2, CommandsPass
    <3> QED
      BY <1>2, <3>1, OnePassing
  <2>10. Passing(q[8], b)
    <3>1. Passes(dispatch_attention_fwd(Acts("q", 1), Acts("k", 1), Acts("v", 1),
                                 Acts("concat", 1), Acts("probs", 1)), b)
      BY <2>1, <2>2, CommandsPass
    <3> QED
      BY <1>2, <3>1, OnePassing
  <2>11. Passing(q[9], b)
    <3>1. b \notin {Scratch("d_score"), Scratch("d_q"), Scratch("d_k"), Scratch("d_v")}
      BY <2>2
    <3> QED
      BY <1>2, <3>1, dispatch_attention_bwdPasses
  <2>12. Passing(q[10], b)
    <3>1. Passes(dispatch_rmsnorm(Scratch("hidden"), LayerOf("weights", 1, "attn_norm_gain"),
                                 Acts("normed1", 1), Acts("inv_rms1", 1), "t"), b)
      BY <2>1, <2>2, CommandsPass
    <3> QED
      BY <1>2, <3>1, OnePassing
  <2>13. Passing(q[11], b)
    <3>p. PICK x, y, t : /\ x = dispatch_rmsnorm_bwd_dx(Scratch("d_a"), Acts("h_in", 1),
                                             LayerOf("weights", 1, "attn_norm_gain"), Acts("inv_rms1", 1), Scratch("d_c"))
                         /\ y = dispatch_rmsnorm_bwd_dgain(Scratch("d_a"), Acts("h_in", 1),
                                             Acts("inv_rms1", 1), LayerOf("grads", 1, "attn_norm_gain"))
                         /\ t = <<x, y>>
      OBVIOUS
    <3>1. Passes(x, b) /\ Passes(y, b)
      BY <2>1, <2>2, <3>p, CommandsPass
    <3>2. Len(t) = 2 /\ DOMAIN t = 1 .. 2 /\ t = [i \in 1 .. 2 |-> t[i]] /\ t[1] = x /\ t[2] = y
          /\ 2 \in Nat
      BY <3>p
    <3>3. IsSeq(t)
      BY <3>2, SeqMade
    <3>4. \A i \in 1 .. 2 : Passes(t[i], b)
      BY <3>1, <3>2
    <3> QED
      BY <1>2, <3>2, <3>3, <3>4, <3>p DEF Passing
  <2>14. Passing(q[12], b)
    <3>1. Passes(dispatch_rope(Acts("q", 1), "t", "heads", NoSeq, "fwd"), b)
      BY <2>1, <2>2, CommandsPass
    <3> QED
      BY <1>2, <3>1, OnePassing
  <2>15. Passing(q[13], b)
    <3>1. Passes(dispatch_swiglu(Acts("gate", 1), Acts("up", 1), Scratch("act"), "t"), b)
      BY <2>1, <2>2, CommandsPass
    <3> QED
      BY <1>2, <3>1, OnePassing
  <2> TAKE c \in 1 .. 13
  <2>16. \/ c = 1 \/ c = 2 \/ c = 3 \/ c = 4 \/ c = 5 \/ c = 6 \/ c = 7 \/ c = 8
        \/ c = 9 \/ c = 10 \/ c = 11 \/ c = 12 \/ c = 13
    OBVIOUS
  <2> QED
    BY ONLY <2>3, <2>4, <2>5, <2>6, <2>7, <2>8, <2>9,
       <2>10, <2>11, <2>12, <2>13, <2>14, <2>15, <2>16
<1>4. IsSeq(q)
  <2>1. 14 \in Nat
    OBVIOUS
  <2> QED
    BY <1>1, <2>1, SeqMade
<1> QED
  BY <1>1, <1>3, <1>4, <1>p

\* A warm run of a case and a timed one.
Twice(q) == ((q \o <<Flush>>) \o q) \o <<Flush>>

\* All that is measured.
KernelsCommands == FlattenSeq([c \in DOMAIN encode_profile_case |-> Twice(encode_profile_case[c])])

\* Each run of a case is submitted.
LEMMA TwiceIs ==
    ASSUME NEW q, Passing(q, Nowhere)
    PROVE  Complete(Twice(q)) /\ IsSeq(Twice(q))
<1>p. PICK h, s : h = <<Flush>> /\ s = q \o h
  OBVIOUS
<1>1. IsSeq(q) /\ IsSeq(h)
  BY <1>p, OneIs DEF Passing
<1>2. Complete(s)
  <2>1. IsSeq(<< >>) /\ 1 .. Len(<< >>) = {}
    BY << >> \in Seq({}) DEF IsSeq
  <2>2. \A i \in 1 .. Len(<< >>) : << >>[i].do = "write" /\ << >>[i].dst # Stats
    BY <2>1
  <2>3. Complete(q \o <<Flush>>)
    BY <2>1, <2>2, PassComplete
  <2> QED
    BY <2>3, <1>p
<1>3. Complete(s \o s) /\ IsSeq(s)
  BY <1>2, CompleteConcat DEF Complete
<1>4. (s \o q) \o h = s \o (q \o h)
  BY ONLY <1>1, <1>3, ConcatThree
<1>5. Twice(q) = s \o s
  BY <1>4, <1>p DEF Twice
<1> QED
  BY <1>3, <1>5 DEF Complete

\* It does the case twice.
LEMMA TwiceTurn ==
    ASSUME NEW table, NEW m, NEW q, IsSeq(q), NEW n, Turns(table, m, Twice(q), n)
    PROVE  \E o : Turns(table, m, q, o) /\ Turns(table, o, q, n)
<1>p. PICK h, s, t : h = <<Flush>> /\ s = q \o h /\ t = s \o q
  OBVIOUS
<1>1. IsSeq(h) /\ IsSeq(s) /\ IsSeq(t)
  <2>1. IsSeq(h)
    BY <1>p, OneIs
  <2>2. IsSeq(s)
    BY <1>p, <2>1, ConcatIs
  <2> QED
    BY <1>p, <2>1, <2>2, ConcatIs
<1>2. Turns(table, m, t \o <<Flush>>, n)
  BY <1>p DEF Twice
<1>3. Turns(table, m, t, n)
  BY ONLY <1>1, <1>2, FlushTurn
<1>4. Turns(table, m, s \o q, n)
  BY <1>3, <1>p
<1>5. PICK o : Turns(table, m, s, o) /\ Turns(table, o, q, n)
  BY ONLY <1>1, <1>4, IsSeq(q), TurnsSplit
<1>6. Turns(table, m, q \o <<Flush>>, o)
  BY <1>5, <1>p
<1>7. Turns(table, m, q, o)
  BY ONLY <1>6, IsSeq(q), FlushTurn
<1> QED
  BY <1>5, <1>7

\* What lasts is apart from what is computed, and so is no buffer at all.
LEMMA LastingApartToo ==
    ASSUME NEW b, Lasting(b) \/ Kept(b) \/ b = Nowhere
    PROVE  Apart(b)
<1>1. CASE Lasting(b) \/ Kept(b)
  BY <1>1, LastingOrKept DEF Apart
<1>2. CASE b = Nowhere
  BY <1>2 DEF Apart, Nowhere, Acts, Scratch, LayerOf, InSet
<1> QED
  BY <1>1, <1>2

\* All of it is submitted.
LEMMA KernelsComplete ==
    /\ Complete(KernelsCommands)
    /\ \A c \in 1 .. 14 : Complete(Twice(encode_profile_case[c])) /\ IsSeq(encode_profile_case[c])
<1>p. PICK N, q, ss, e : /\ N = 14 /\ q = encode_profile_case /\ e = << >>
                         /\ ss = [c \in DOMAIN encode_profile_case |-> Twice(encode_profile_case[c])]
  OBVIOUS
<1>1. N \in Nat /\ N > 0 /\ IsSeq(q) /\ Len(q) = N /\ DOMAIN q = 1 .. N
  BY <1>p, CasesAre, SeqIs
<1>2. ASSUME NEW c \in 1 .. N PROVE Passing(q[c], Nowhere)
  <2>1. CASE c = 14
    BY <1>p, <2>1, CasesAre, PassesPass
  <2>2. CASE c # 14
    <3>1. c \in 1 .. 13 /\ Apart(Nowhere)
      BY <1>p, <2>2, LastingApartToo
    <3> QED
      BY <1>p, <3>1, CasesAre
  <2> QED
    BY <2>1, <2>2
<1>3. DOMAIN ss = 1 .. N /\ ss = [i \in 1 .. N |-> ss[i]] /\ \A i \in 1 .. N : ss[i] = Twice(q[i])
  BY <1>1, <1>p
<1>4. \A i \in 1 .. N : Complete(ss[i])
  BY <1>2, <1>3, TwiceIs
<1>5. IsSeq(e) /\ Complete(e \o ss[1])
  <2>1. IsSeq(e)
    BY <1>p, << >> \in Seq({}) DEF IsSeq
  <2>2. Complete(ss[1]) /\ 1 .. Len(e) = {}
    BY <1>1, <1>4, <1>p
  <2>3. e \o ss[1] = ss[1]
    BY <1>p, <2>2, ConcatNothing DEF Complete
  <2> QED
    BY <2>1, <2>2, <2>3
<1>6. Complete(e \o FlattenSeq(ss))
  BY ONLY <1>1, <1>3, <1>4, <1>5, CompleteFlat
<1>7. IsSeq(FlattenSeq(ss))
  BY <1>1, <1>3, <1>4, FlatIsSeq DEF Complete
<1>8. e \o FlattenSeq(ss) = FlattenSeq(ss)
  BY <1>p, <1>7, ConcatNothing
<1>9. Complete(KernelsCommands)
  BY <1>6, <1>8, <1>p DEF KernelsCommands
<1>10. \A c \in 1 .. N : Complete(Twice(q[c])) /\ IsSeq(q[c])
  BY <1>2, <1>3, <1>4 DEF Passing
<1> QED
  BY <1>9, <1>10, <1>p

\* A weight that has had these updates.
Weight(i, past) == [of |-> shapes[i], seq |-> NoSeq, past |-> past]
Nothing == [grad |-> << >>, scale |-> [batch |-> 0, norm |-> "none"]]

\* The moments take in nothing, twice; weights stay as they were, but for
\* the division by zero.
Measured(m, n) ==
    /\ Trains(n)
    /\ \A i \in Slots :
          /\ n[InSet("m", i)] = Append(Append(m[InSet("m", i)], Nothing), Nothing)
          /\ n[InSet("v", i)] = Append(Append(m[InSet("v", i)], Nothing), Nothing)
          /\ \A past : m[InSet("weights", i)] = Weight(i, past) =>
                /\ \E later : n[InSet("weights", i)] = Weight(i, later)
                /\ trainer.step # 0 /\ IsSeq(past) => n[InSet("weights", i)] = Weight(i, past)

\* What the optimizer makes of a weight.
LEMMA WeightStepped ==
    ASSUME NEW m, NEW n, NEW i, NEW step, NEW lr, NEW scale, Stepped(m, n, i, step, lr, scale),
           NEW past, m[InSet("weights", i)] = Weight(i, past)
    PROVE  n[InSet("weights", i)]
           = Weight(i, past \o Update(i, m[InSet("grads", i)], step, lr, scale))
<1>p. PICK u, w : /\ u = Update(i, m[InSet("grads", i)], step, lr, scale)
                  /\ w = n[InSet("weights", i)]
  OBVIOUS
<1>1. w = [m[InSet("weights", i)] EXCEPT !.past = @ \o u]
  BY <1>p DEF Stepped
<1>2. w = [Weight(i, past) EXCEPT !.past = @ \o u]
  BY <1>1
<1>3. w = [of |-> shapes[i], seq |-> NoSeq, past |-> past \o u]
  BY <1>2 DEF Weight
<1> QED
  BY <1>3, <1>p DEF Weight

\* The measurements of all the kernels.
LEMMA KernelsTurn ==
    ASSUME NEW table, NEW m, Trains(m), NEW n, Turns(table, m, KernelsCommands, n)
    PROVE  Measured(m, n)
<1>p. PICK N, q, ss, step, lr, scale :
        /\ N = 14 /\ q = encode_profile_case
        /\ ss = [c \in DOMAIN encode_profile_case |-> Twice(encode_profile_case[c])]
        /\ step = trainer.step /\ lr = 0 /\ scale = [batch |-> 0, norm |-> "none"]
  OBVIOUS
<1>1. N \in Nat /\ IsSeq(q) /\ Len(q) = N /\ DOMAIN q = 1 .. N /\ 13 \in 0 .. N /\ 14 \in 1 .. N
  BY <1>p, CasesAre, SeqIs
<1>2. DOMAIN ss = 1 .. N /\ ss = [i \in 1 .. N |-> ss[i]] /\ \A i \in 1 .. N : ss[i] = Twice(q[i])
  BY <1>1, <1>p
<1>3. \A i \in 1 .. N : IsSeq(ss[i]) /\ IsSeq(q[i])
  BY <1>2, <1>p, KernelsComplete DEF Complete
<1>4. PICK mm : /\ mm[0] = m /\ mm[N] = n
                /\ \A k \in 1 .. N : Turns(table, mm[k - 1], ss[k], mm[k])
  <2>1. Turns(table, m, FlattenSeq(ss), n)
    BY <1>p DEF KernelsCommands
  <2>2. \A i \in 1 .. N : IsSeq(ss[i])
    BY <1>3
  <2> QED
    BY ONLY <1>1, <1>2, <2>1, <2>2, TurnsFlat, SMTT(60)
<1>5. ASSUME NEW c \in 1 .. 13 PROVE Keeping(table, q[c])
  <2>1. \A b : Lasting(b) \/ Kept(b) => Passing(q[c], b)
    BY <1>p, CasesAre, LastingApartToo
  <2> QED
    BY <2>1, KeepPassing
<1>t. PICK T : T = 13
  OBVIOUS
<1> DEFINE Q == {k \in 0 .. T : Carries(m, mm[k])}
<1>6. 0 \in Q
  BY <1>4, <1>t, CarriesSelf
<1>7. ASSUME NEW k \in 0 .. T - 1, k \in Q PROVE k + 1 \in Q
  <2>p. PICK j, s : j = k + 1 /\ s = q[j]
    OBVIOUS
  <2>1. j \in 1 .. N /\ j \in 0 .. T /\ j - 1 = k /\ j \in 1 .. 13
    BY <1>p, <1>t, <2>p
  <2>2. Turns(table, mm[k], Twice(s), mm[j]) /\ IsSeq(s) /\ Keeping(table, s)
    BY <1>2, <1>3, <1>4, <1>5, <2>1, <2>p
  <2>3. PICK o : Turns(table, mm[k], s, o) /\ Turns(table, o, s, mm[j])
    BY ONLY <2>2, TwiceTurn
  <2>4. Carries(m, mm[k])
    BY <1>7
  <2>5. Carries(mm[k], o)
    BY <2>2, <2>3, <2>4 DEF Keeping, Carries
  <2>6. Carries(o, mm[j])
    BY <2>2, <2>3, <2>5 DEF Keeping, Carries
  <2>7. Carries(mm[k], mm[j])
    BY <2>5, <2>6, CarriesTwice
  <2>8. Carries(m, mm[j])
    BY <2>4, <2>7, CarriesTwice
  <2> QED
    BY <2>1, <2>8, <2>p
<1>8. 0 .. T \subseteq Q
  <2>1. T \in Nat
    BY <1>t
  <2> HIDE DEF Q
  <2> QED
    BY <2>1, <1>6, <1>7, Climb
<1>o. PICK o : o = mm[13]
  OBVIOUS
<1>9. Carries(m, o)
  BY <1>8, <1>o, <1>t
<1>10. Turns(table, o, Twice(encode_adam(step, lr, scale)), n)
  <2>1. 14 - 1 = 13 /\ q[14] = encode_adam(step, lr, scale)
    BY <1>p, CasesAre
  <2>2. Turns(table, mm[14 - 1], ss[14], mm[14])
    BY <1>1, <1>4
  <2> QED
    BY <1>1, <1>2, <1>4, <1>o, <1>p, <2>1, <2>2
<1>11. PICK k : Turns(table, o, encode_adam(step, lr, scale), k)
                /\ Turns(table, k, encode_adam(step, lr, scale), n)
  <2>1. IsSeq(encode_adam(step, lr, scale))
    BY PassesPass DEF Passing
  <2> QED
    BY ONLY <1>10, <2>1, TwiceTurn
<1>12. Optimized(o, k, step, lr, scale)
  BY <1>9, <1>11, AdamTurn DEF Carries
<1>13. Optimized(k, n, step, lr, scale)
  BY <1>11, <1>12, AdamTurn DEF Optimized
<1>14. \A g : Take(g, scale) = Nothing
  BY <1>p DEF Take, Nothing
<1>15. \A i, g : step # 0 => Update(i, g, step, lr, scale) = << >>
  BY <1>p DEF Update
<1>16. ASSUME NEW i \in Slots, NEW set \in {"m", "v"}
       PROVE  n[InSet(set, i)] = Append(Append(m[InSet(set, i)], Nothing), Nothing)
  <2>1. Stepped(o, k, i, step, lr, scale) /\ Stepped(k, n, i, step, lr, scale)
    BY <1>12, <1>13 DEF Optimized
  <2>2. o[InSet(set, i)] = m[InSet(set, i)]
    BY <1>9 DEF Carries, Unmoved, Same
  <2>3. k[InSet(set, i)] = Append(o[InSet(set, i)], Nothing)
    BY <1>14, <2>1 DEF Stepped
  <2>4. n[InSet(set, i)] = Append(k[InSet(set, i)], Nothing)
    BY <1>14, <2>1 DEF Stepped
  <2> QED
    BY <2>2, <2>3, <2>4
<1>17. ASSUME NEW i \in Slots, NEW past, m[InSet("weights", i)] = Weight(i, past)
       PROVE  /\ \E later : n[InSet("weights", i)] = Weight(i, later)
              /\ step # 0 /\ IsSeq(past) => n[InSet("weights", i)] = Weight(i, past)
  <2>1. Stepped(o, k, i, step, lr, scale) /\ Stepped(k, n, i, step, lr, scale)
    BY <1>12, <1>13 DEF Optimized
  <2>2. o[InSet("weights", i)] = Weight(i, past)
    BY <1>9, <1>17 DEF Carries, Unmoved, Same
  <2>p. PICK u, w : /\ u = Update(i, o[InSet("grads", i)], step, lr, scale)
                    /\ w = Update(i, k[InSet("grads", i)], step, lr, scale)
    OBVIOUS
  <2>3. k[InSet("weights", i)] = Weight(i, past \o u)
    BY <2>1, <2>2, <2>p, WeightStepped
  <2>4. n[InSet("weights", i)] = Weight(i, (past \o u) \o w)
    BY <2>1, <2>3, <2>p, WeightStepped
  <2>5. step # 0 /\ IsSeq(past) => (past \o u) \o w = past
    <3>1. step # 0 => u = << >> /\ w = << >>
      BY <1>15, <2>p
    <3>2. IsSeq(past) => past \o << >> = past
      BY ConcatNothing
    <3> QED
      BY <3>1, <3>2
  <2> QED
    BY <2>4, <2>5
<1>18. Trains(n)
  BY <1>13 DEF Optimized
<1> QED
  BY <1>16, <1>17, <1>18, <1>p DEF Measured

-----------------------------------------------------------------------------
(* What the steps taken make of weights and moments.                       *)

\* A sequence mapped element by element, with one more element.
LEMMA MapAppend ==
    ASSUME NEW n \in Nat, NEW t, DOMAIN t = 1 .. n, t = [k \in 1 .. n |-> t[k]],
           NEW u, DOMAIN u = 1 .. n + 1, u = [k \in 1 .. n + 1 |-> u[k]],
           \A k \in 1 .. n : u[k] = t[k]
    PROVE  u = Append(t, u[n + 1])
<1>1. IsSeq(t) /\ Len(t) = n
  BY SeqMade
<1> PICK w, x : w = Append(t, x) /\ x = u[n + 1]
  OBVIOUS
<1>2. /\ IsSeq(w) /\ Len(w) = n + 1 /\ w[n + 1] = x /\ \A k \in 1 .. n : w[k] = t[k]
  BY <1>1, AppendIs
<1>3. w = [k \in 1 .. n + 1 |-> w[k]]
  BY ONLY <1>2, SeqIs
<1>4. \A k \in 1 .. n + 1 : w[k] = u[k]
  <2> TAKE k \in 1 .. n + 1
  <2>1. k \in 1 .. n \/ k = n + 1
    OBVIOUS
  <2> QED
    BY <1>2, <2>1
<1> QED
  BY <1>3, <1>4

\* The steps that count.
Counted == {"train", "profile", "lapsed"}
Steps(a) == Cardinality({k \in DOMAIN a : a[k].kind \in Counted})

\* One more call that counts, or does not.
LEMMA StepsAppend ==
    ASSUME NEW a, IsSeq(a), NEW x
    PROVE  /\ Steps(a) \in Nat
           /\ x.kind \in Counted => Steps(Append(a, x)) = Steps(a) + 1
           /\ x.kind \notin Counted => Steps(Append(a, x)) = Steps(a)
<1> PICK n, b, P, Q, m : /\ n = Len(a) /\ b = Append(a, x) /\ m = n + 1
                         /\ P = {k \in DOMAIN a : a[k].kind \in Counted}
                         /\ Q = {k \in DOMAIN b : b[k].kind \in Counted}
  OBVIOUS
<1>1. n \in Nat /\ DOMAIN a = 1 .. n
  BY SeqIs
<1>2. DOMAIN b = 1 .. m /\ b[m] = x /\ \A k \in 1 .. n : b[k] = a[k]
  BY <1>1, AppendIs, SeqIs
<1>3. IsFiniteSet(P)
  <2>1. IsFiniteSet(1 .. n)
    BY <1>1, FS_Interval
  <2> QED
    BY <1>1, <2>1, FS_Subset
<1>4. Cardinality(P) \in Nat
  BY <1>3, FS_CardinalityType
<1>5. m \notin P /\ P \subseteq 1 .. n
  BY <1>1
<1>6. ASSUME x.kind \in Counted PROVE Cardinality(Q) = Cardinality(P) + 1
  <2>1. Q = P \cup {m}
    BY <1>1, <1>2, <1>6
  <2> QED
    BY <1>3, <1>5, <2>1, FS_AddElement, ZenonT(60)
<1>7. ASSUME x.kind \notin Counted PROVE Q = P
  BY <1>1, <1>2, <1>7
<1>8. Steps(a) = Cardinality(P) /\ Steps(b) = Cardinality(Q)
  BY DEF Steps
<1> QED
  BY <1>4, <1>6, <1>7, <1>8

\* What the host's optimizer makes of tensor i.
UpdateOf(i, e) ==
    [grad |-> HostGradient(i, e.seqs), scale |-> HostScale(e.seqs), step |-> e.step,
     decayed |-> decays(shapes[i])]
MomentOf(i, e) ==
    IF e.kind = "kernels" THEN Nothing
    ELSE [grad |-> HostGradient(i, e.seqs), scale |-> HostScale(e.seqs)]
UpdatesOf(i, d) == [k \in DOMAIN d |-> UpdateOf(i, d[k])]
MomentsOf(i, a) == [k \in DOMAIN a |-> MomentOf(i, a[k])]

\* One more step.
LEMMA UpdatesAppend ==
    ASSUME NEW i, NEW d, IsSeq(d), NEW x
    PROVE  /\ IsSeq(UpdatesOf(i, d))
           /\ UpdatesOf(i, Append(d, x)) = Append(UpdatesOf(i, d), UpdateOf(i, x))
<1> PICK n, t, u, b, m : /\ n = Len(d) /\ b = Append(d, x) /\ t = UpdatesOf(i, d) /\ u = UpdatesOf(i, b)
                         /\ m = n + 1
  OBVIOUS
<1>1. n \in Nat /\ DOMAIN d = 1 .. n
  BY SeqIs
<1>2. DOMAIN b = 1 .. n + 1 /\ b[n + 1] = x /\ \A k \in 1 .. n : b[k] = d[k]
  BY <1>1, AppendIs, SeqIs
<1>3. DOMAIN t = 1 .. n /\ t = [k \in 1 .. n |-> t[k]] /\ \A k \in 1 .. n : t[k] = UpdateOf(i, d[k])
  BY <1>1 DEF UpdatesOf
<1>4. /\ DOMAIN u = 1 .. n + 1 /\ u = [k \in 1 .. n + 1 |-> u[k]]
      /\ \A k \in 1 .. n + 1 : u[k] = UpdateOf(i, b[k])
  BY <1>2 DEF UpdatesOf
<1>5. \A k \in 1 .. n : u[k] = t[k]
  BY <1>1, <1>2, <1>3, <1>4
<1>6. u = Append(t, u[n + 1])
  BY ONLY <1>1, <1>3, <1>4, <1>5, MapAppend, SMTT(60)
<1>7. IsSeq(t)
  BY ONLY <1>1, <1>3, SeqMade
<1>8. n + 1 \in 1 .. n + 1
  BY <1>1
<1> QED
  BY <1>2, <1>4, <1>6, <1>7, <1>8

\* One more batch.
LEMMA MomentsAppend ==
    ASSUME NEW i, NEW a, IsSeq(a), NEW x
    PROVE  MomentsOf(i, Append(a, x)) = Append(MomentsOf(i, a), MomentOf(i, x))
<1> PICK n, t, u, b : /\ n = Len(a) /\ b = Append(a, x) /\ t = MomentsOf(i, a) /\ u = MomentsOf(i, b)
  OBVIOUS
<1>1. n \in Nat /\ DOMAIN a = 1 .. n
  BY SeqIs
<1>2. DOMAIN b = 1 .. n + 1 /\ b[n + 1] = x /\ \A k \in 1 .. n : b[k] = a[k]
  BY <1>1, AppendIs, SeqIs
<1>3. DOMAIN t = 1 .. n /\ t = [k \in 1 .. n |-> t[k]] /\ \A k \in 1 .. n : t[k] = MomentOf(i, a[k])
  BY <1>1 DEF MomentsOf
<1>4. /\ DOMAIN u = 1 .. n + 1 /\ u = [k \in 1 .. n + 1 |-> u[k]]
      /\ \A k \in 1 .. n + 1 : u[k] = MomentOf(i, b[k])
  BY <1>2 DEF MomentsOf
<1>5. \A k \in 1 .. n : u[k] = t[k]
  BY <1>1, <1>2, <1>3, <1>4
<1>6. u = Append(t, u[n + 1])
  BY ONLY <1>1, <1>3, <1>4, <1>5, MapAppend, SMTT(60)
<1>8. n + 1 \in 1 .. n + 1
  BY <1>1
<1> QED
  BY <1>2, <1>4, <1>6, <1>8

-----------------------------------------------------------------------------
(* A new trainer.                                                          *)

\* Memory m, as far as the weights and the moments go.
Weighted(m) == \A i \in Slots : \E past : m[InSet("weights", i)] = Weight(i, past)
Updated(m, d) == \A i \in Slots : m[InSet("weights", i)] = Weight(i, UpdatesOf(i, d))
Absorbed(m, a) ==
    \A i \in Slots : m[InSet("m", i)] = MomentsOf(i, a) /\ m[InSet("v", i)] = MomentsOf(i, a)

\* Memory n has a trainer's buffers as they are at first.
Begun(n, weights, mm, vv) ==
    /\ Trains(n)
    /\ \A i \in Slots : /\ n[InSet("weights", i)] = Weight(i, weights[i])
                        /\ n[InSet("m", i)] = mm[i] /\ n[InSet("v", i)] = vv[i]

\* Every buffer of a trainer is made.
LEMMA BuffersAre ==
    /\ \A set \in {"weights", "grads", "m", "v"}, i \in Slots : InSet(set, i) \in TrainerBuffers
    /\ \A name \in ActNames, l \in 1 .. Layers : Acts(name, l) \in TrainerBuffers
    /\ \A name \in ScratchNames \cup {"stats"} \cup RowNames : Scratch(name) \in TrainerBuffers
BY DEF TrainerBuffers, RowNames

\* GpuTrainer::new makes them.
LEMMA NewTurn ==
    ASSUME NEW weights, NEW mm, NEW vv, NEW old, NEW n,
           n = [b \in TrainerBuffers \cup DOMAIN old |->
                   IF b \in TrainerBuffers THEN TrainerMemory(weights, mm, vv)[b] ELSE old[b]]
    PROVE  Begun(n, weights, mm, vv)
<1> PICK params : params =
      [weights |-> [i \in Slots |-> [of |-> shapes[i], seq |-> NoSeq, past |-> weights[i]]],
       grads |-> [i \in Slots |-> << >>], m |-> mm, v |-> vv]
  OBVIOUS
<1> PICK sums : sums =
      [stats |-> [i \in 0 .. StatsLen - 1 |-> << >>], row_ids |-> zeroed(TLen),
       row_offsets |-> zeroed(TLen + 1), row_positions |-> zeroed(TLen)]
  OBVIOUS
<1>1. \A b \in TrainerBuffers :
         n[b] = IF b[3] = "params" THEN params[b[1]][b[2]]
                ELSE IF b[3] = "scratch" /\ b[1] \in DOMAIN sums THEN sums[b[1]]
                ELSE Zero
  <2> PICK t : t = TrainerMemory(weights, mm, vv)
    OBVIOUS
  <2>1. t = [b \in TrainerBuffers |->
                IF b[3] = "params" THEN params[b[1]][b[2]]
                ELSE IF b[3] = "scratch" /\ b[1] \in DOMAIN sums THEN sums[b[1]]
                ELSE Zero]
    BY Zenon DEF TrainerMemory
  <2>2. \A b \in TrainerBuffers : n[b] = t[b]
    OBVIOUS
  <2> QED
    BY <2>1, <2>2
<1>2. TrainerBuffers \subseteq DOMAIN n
  OBVIOUS
<1>3. \A set \in {"weights", "grads", "m", "v"}, i \in Slots : n[InSet(set, i)] = params[set][i]
  <2> TAKE set \in {"weights", "grads", "m", "v"}, i \in Slots
  <2> PICK b : b = InSet(set, i)
    OBVIOUS
  <2>1. b \in TrainerBuffers /\ b[1] = set /\ b[2] = i /\ b[3] = "params"
    BY BuffersAre DEF InSet
  <2> QED
    BY <1>1, <2>1
<1>4. \A i \in Slots : /\ n[InSet("weights", i)] = Weight(i, weights[i])
                       /\ n[InSet("m", i)] = mm[i] /\ n[InSet("v", i)] = vv[i]
  <2> TAKE i \in Slots
  <2> PICK s, q : s = shapes[i] /\ q = weights[i]
    OBVIOUS
  <2>1. /\ n[InSet("weights", i)] = params["weights"][i] /\ n[InSet("m", i)] = params["m"][i]
        /\ n[InSet("v", i)] = params["v"][i]
    BY <1>3
  <2>2. params["weights"][i] = [of |-> s, seq |-> NoSeq, past |-> q]
    OBVIOUS
  <2>3. Weight(i, q) = [of |-> s, seq |-> NoSeq, past |-> q]
    BY DEF Weight
  <2> QED
    BY <2>1, <2>2, <2>3
<1>5. \A name \in {"stats"} \cup RowNames : n[Scratch(name)] = sums[name]
  <2> TAKE name \in {"stats"} \cup RowNames
  <2> PICK b : b = Scratch(name)
    OBVIOUS
  <2>1. b \in TrainerBuffers /\ b[1] = name /\ b[3] = "scratch" /\ name \in DOMAIN sums
    BY BuffersAre DEF Scratch, RowNames
  <2> QED
    BY <1>1, <2>1
<1>6. \A name \in RowNames : IsSeq(n[Scratch(name)])
  <2>1. \A k \in Nat : IsSeq(zeroed(k))
    <3> TAKE k \in Nat
    <3> PICK z : z = zeroed(k)
      OBVIOUS
    <3>1. DOMAIN z = 1 .. k /\ z = [i \in 1 .. k |-> z[i]]
      BY DEF zeroed
    <3> QED
      BY <3>1, SeqMade
  <2>2. TLen \in Nat /\ TLen + 1 \in Nat
    BY GpuTrainingAssumption
  <2>3. /\ sums["row_ids"] = zeroed(TLen) /\ sums["row_offsets"] = zeroed(TLen + 1)
        /\ sums["row_positions"] = zeroed(TLen)
    OBVIOUS
  <2>4. \A name \in RowNames : IsSeq(sums[name])
    BY <2>1, <2>2, <2>3 DEF RowNames
  <2> QED
    BY <1>5, <2>4
<1>7. DOMAIN n[Stats] = 0 .. StatsLen - 1 /\ Stats \in DOMAIN n
  BY <1>2, <1>5, BuffersAre DEF Stats
<1>8. \A i \in Slots : Weighs(n, InSet("weights", i), shapes[i])
  <2> TAKE i \in Slots
  <2> PICK s, q, w : s = shapes[i] /\ q = weights[i] /\ w = Weight(i, q)
    OBVIOUS
  <2>1. w = [of |-> s, seq |-> NoSeq, past |-> q]
    BY DEF Weight
  <2>2. w.of = s /\ w.seq = NoSeq
    BY <2>1
  <2>3. n[InSet("weights", i)] = w
    BY <1>4
  <2> QED
    BY <2>2, <2>3 DEF Weighs
<1>9. Trains(n)
  BY <1>2, <1>6, <1>7, <1>8, BuffersAre DEF Trains
<1> QED
  BY <1>4, <1>9 DEF Begun

-----------------------------------------------------------------------------
(* A call of the trainer, and what it leaves.                              *)

\* A call that leaves weights and moments leaves what they have had.
LEMMA CarriedOn ==
    ASSUME NEW m, NEW n, Carries(m, n)
    PROVE  /\ Weighted(m) => Weighted(n)
           /\ \A d : Updated(m, d) => Updated(n, d)
           /\ \A a : Absorbed(m, a) => Absorbed(n, a)
BY DEF Carries, Unmoved, Same, Weighted, Updated, Absorbed

\* The memory a call waits with holds the gradients of its batch, their norm
\* and its loss.
Graded(m, seqs) ==
    /\ \E N \in Nat : N > 0 /\ DOMAIN seqs = 1 .. N /\ Len(seqs) = N
    /\ \A i \in Slots : m[InSet("grads", i)] = HostGradient(i, seqs)
    /\ m[Stats][0] = [b \in DOMAIN seqs |-> LossOf(seqs[b])]
    /\ Norms(m, m)

\* So the norm is its own.
LEMMA NormIs ==
    ASSUME NEW m, NEW seqs, Graded(m, seqs)
    PROVE  NormOf(m) = "own"
BY DEF Graded, Norms, NormOf, Sum

\* What the optimizer makes of memory m with the gradients of a batch.
Taught(m, n, seqs, kind, step) ==
    /\ Trains(n)
    /\ Weighted(m) => Weighted(n)
    /\ \A a, x : IsSeq(a) /\ x.seqs = seqs /\ x.kind # "kernels" /\ Absorbed(m, a)
                 => Absorbed(n, Append(a, x))
    /\ kind = "bench" => \A d : IsSeq(d) /\ Updated(m, d) => Updated(n, d)
    /\ kind # "bench" => \A d, x : IsSeq(d) /\ x.seqs = seqs /\ x.step = step /\ Updated(m, d)
                  => Updated(n, Append(d, x))

\* It takes the gradients into the moments, and moves the weights unless it
\* is measured.
LEMMA TaughtIs ==
    ASSUME NEW m, NEW seqs, Graded(m, seqs), NEW kind, NEW step \in Nat, step # 0, NEW scale,
           scale = [batch |-> Len(seqs), norm |-> NormOf(m)], NEW lr, lr = IF kind = "bench" THEN 0 ELSE 1,
           NEW n, Optimized(m, n, step, lr, scale)
    PROVE  Taught(m, n, seqs, kind, step)
<1>1. Trains(n) /\ \A i \in Slots : Stepped(m, n, i, step, lr, scale)
  BY DEF Optimized
<1>2. scale = HostScale(seqs) /\ scale.batch # 0
  <2>1. NormOf(m) = "own"
    BY NormIs
  <2>2. Len(seqs) \in Nat /\ Len(seqs) > 0
    BY DEF Graded
  <2> QED
    BY <2>1, <2>2 DEF HostScale
<1>3. \A i \in Slots : m[InSet("grads", i)] = HostGradient(i, seqs)
  BY DEF Graded
<1>4. ASSUME Weighted(m) PROVE Weighted(n)
  <2> SUFFICES ASSUME NEW i \in Slots PROVE \E past : n[InSet("weights", i)] = Weight(i, past)
    BY DEF Weighted
  <2>1. PICK past : m[InSet("weights", i)] = Weight(i, past)
    BY <1>4 DEF Weighted
  <2>2. Stepped(m, n, i, step, lr, scale)
    BY <1>1
  <2>3. n[InSet("weights", i)] = Weight(i, past \o Update(i, m[InSet("grads", i)], step, lr, scale))
    BY ONLY <2>1, <2>2, WeightStepped
  <2> QED
    BY <2>3
<1>5. ASSUME NEW a, NEW x, IsSeq(a), x.seqs = seqs, x.kind # "kernels", Absorbed(m, a)
      PROVE  Absorbed(n, Append(a, x))
  <2> SUFFICES ASSUME NEW i \in Slots
               PROVE  /\ n[InSet("m", i)] = MomentsOf(i, Append(a, x))
                      /\ n[InSet("v", i)] = MomentsOf(i, Append(a, x))
    BY DEF Absorbed
  <2>1. m[InSet("m", i)] = MomentsOf(i, a) /\ m[InSet("v", i)] = MomentsOf(i, a)
    BY <1>5 DEF Absorbed
  <2>2. Take(m[InSet("grads", i)], scale) = MomentOf(i, x)
    BY <1>2, <1>3, <1>5 DEF Take, MomentOf
  <2>3. MomentsOf(i, Append(a, x)) = Append(MomentsOf(i, a), MomentOf(i, x))
    BY <1>5, MomentsAppend
  <2>4. Stepped(m, n, i, step, lr, scale)
    BY <1>1
  <2> QED
    BY ONLY <2>1, <2>2, <2>3, <2>4 DEF Stepped
<1>6. ASSUME kind = "bench", NEW d, IsSeq(d), Updated(m, d) PROVE Updated(n, d)
  <2> SUFFICES ASSUME NEW i \in Slots PROVE n[InSet("weights", i)] = Weight(i, UpdatesOf(i, d))
    BY DEF Updated
  <2> PICK past : past = UpdatesOf(i, d)
    OBVIOUS
  <2>1. m[InSet("weights", i)] = Weight(i, past)
    BY <1>6 DEF Updated
  <2>2. Stepped(m, n, i, step, lr, scale)
    BY <1>1
  <2>3. n[InSet("weights", i)] = Weight(i, past \o Update(i, m[InSet("grads", i)], step, lr, scale))
    BY ONLY <2>1, <2>2, WeightStepped
  <2>4. Update(i, m[InSet("grads", i)], step, lr, scale) = << >>
    BY <1>6 DEF Update
  <2>5. past \o << >> = past
    BY <1>6, UpdatesAppend, ConcatNothing
  <2> QED
    BY <2>3, <2>4, <2>5
<1>7. ASSUME kind # "bench", NEW d, NEW x, IsSeq(d), x.seqs = seqs, x.step = step, Updated(m, d)
      PROVE  Updated(n, Append(d, x))
  <2> SUFFICES ASSUME NEW i \in Slots
               PROVE  n[InSet("weights", i)] = Weight(i, UpdatesOf(i, Append(d, x)))
    BY DEF Updated
  <2> PICK past : past = UpdatesOf(i, d)
    OBVIOUS
  <2>1. m[InSet("weights", i)] = Weight(i, past)
    BY <1>7 DEF Updated
  <2>2. Stepped(m, n, i, step, lr, scale)
    BY <1>1
  <2>3. n[InSet("weights", i)] = Weight(i, past \o Update(i, m[InSet("grads", i)], step, lr, scale))
    BY ONLY <2>1, <2>2, WeightStepped
  <2>4. Update(i, m[InSet("grads", i)], step, lr, scale) = <<UpdateOf(i, x)>>
    BY <1>2, <1>3, <1>7 DEF Update, UpdateOf
  <2>5. IsSeq(past) /\ UpdatesOf(i, Append(d, x)) = Append(past, UpdateOf(i, x))
    BY <1>7, UpdatesAppend
  <2> PICK u : u = UpdateOf(i, x)
    OBVIOUS
  <2>6. past \o <<u>> = Append(past, u)
    BY ONLY <2>5, AppendsAre
  <2> QED
    BY <2>3, <2>4, <2>5, <2>6
<1> QED
  BY <1>1, <1>4, <1>5, <1>6, <1>7 DEF Taught

-----------------------------------------------------------------------------
(* What each call does to memory.                                          *)

\* The sequences of a batch are none of those before, and have ids to read.
LEMMA TaggedFresh ==
    ASSUME calls \in Nat, NEW flat \in Inputs, NEW seqs, seqs = Tagged(Cut(flat))
    PROVE  Fresh(seqs)
<1>1. flat \in Seq(Nat) /\ TLen \in Nat /\ TLen > 0
  BY GpuTrainingAssumption
<1> SUFFICES ASSUME NEW b \in DOMAIN seqs PROVE seqs[b] # NoSeq /\ IsSeq(seqs[b].toks)
  BY DEF Fresh
<1> PICK cut : cut = Cut(flat)
  OBVIOUS
<1>2. /\ b \in DOMAIN cut /\ seqs[b] = [call |-> calls + 1, at |-> b, toks |-> cut[b]]
  BY DEF Tagged
<1>3. seqs[b] # NoSeq
  <2>1. seqs[b].call = calls + 1 /\ calls + 1 # 0
    BY <1>2
  <2>2. NoSeq.call = 0
    BY DEF NoSeq
  <2> QED
    BY <2>1, <2>2
<1>4. IsSeq(cut[b])
  <2>1. b \in 1 .. Len(flat) \div TLen /\ cut[b] = SubSeq(flat, (b - 1) * TLen + 1, b * TLen)
    BY <1>2 DEF Cut
  <2> PICK from, to : from = (b - 1) * TLen + 1 /\ to = b * TLen
    OBVIOUS
  <2>2. b \in Int /\ from \in Int /\ to \in Int
    <3> PICK q : q = Len(flat) \div TLen
      OBVIOUS
    <3>1. b \in 1 .. q
      BY <2>1
    <3>2. b \in Int
      BY ONLY <3>1
    <3> QED
      BY ONLY <1>1, <3>2, from = (b - 1) * TLen + 1, to = b * TLen
  <2>3. to - from + 1 = TLen
    BY ONLY <1>1, <2>2, from = (b - 1) * TLen + 1, to = b * TLen, SMTT(60)
  <2> PICK s : s = SubSeq(flat, from, to)
    OBVIOUS
  <2>4. DOMAIN s = 1 .. TLen /\ s = [i \in 1 .. TLen |-> s[i]]
    <3>1. s = [i \in 1 .. TLen |-> flat[i + from - 1]]
      BY ONLY <1>1, <2>2, <2>3, s = SubSeq(flat, from, to)
    <3> QED
      BY ONLY <3>1
  <2>5. IsSeq(s)
    BY <1>1, <2>4, SeqMade
  <2> QED
    BY <2>1, <2>5
<1> QED
  BY <1>2, <1>3, <1>4

\* Commands that are all submitted run one after another, on a model without
\* per-layer embeddings.
LEMMA RunIs ==
    ASSUME use_ple = FALSE, NEW per \in Nat, per >= 1, NEW s, Complete(s)
    PROVE  Turns(Results[FALSE], mem, s, Encoded(Begin(use_ple, mem, per), s).mem)
<1> PICK g, ple : g = Begin(ple, mem, per) /\ ple = use_ple
  OBVIOUS
<1>1. Stands(g) /\ g.encoder = << >> /\ g.results = Results[FALSE] /\ g.mem = mem
  <2>1. Stands(g) /\ g.encoder = << >> /\ g.results = Results[ple] /\ g.mem = mem
    BY BeginStands
  <2> QED
    BY <2>1
<1>2. Turns(g.results, g.mem, s, Encoded(g, s).mem)
  BY ONLY <1>1, Complete(s), EncodedInTurn
<1> QED
  BY <1>1, <1>2

\* So do the phases of a step, as far as they were reached.
LEMMA PhasesRun ==
    ASSUME use_ple = FALSE, NEW per \in Nat, per >= 1, NEW phases, IsSeq(phases),
           \A k \in 1 .. Len(phases) : Complete(phases[k]), NEW reached \in 0 .. Len(phases),
           NEW cut, cut = SubSeq(phases, 1, reached)
    PROVE  Stages(Results[FALSE], mem, cut, EncodedInPhases(Begin(use_ple, mem, per), cut).mem)
<1> PICK g, ple : g = Begin(ple, mem, per) /\ ple = use_ple
  OBVIOUS
<1>1. Stands(g) /\ g.encoder = << >> /\ g.results = Results[FALSE] /\ g.mem = mem
  <2>1. Stands(g) /\ g.encoder = << >> /\ g.results = Results[ple] /\ g.mem = mem
    BY BeginStands
  <2> QED
    BY <2>1
<1>2. Len(phases) \in Nat /\ reached \in Nat
  BY SeqIs
<1>3. Len(cut) = reached /\ \A k \in 1 .. reached : cut[k] = phases[k]
  <2>1. PICK S : phases \in Seq(S)
    BY DEF IsSeq
  <2> QED
    BY <1>2, <2>1
<1>4. \A k \in 1 .. reached : Complete(cut[k])
  BY <1>2, <1>3
<1>5. \E m : /\ m[0] = g.mem /\ m[reached] = EncodedInPhases(g, cut).mem
             /\ \A k \in 1 .. reached : Turns(g.results, m[k - 1], cut[k], m[k])
  BY ONLY <1>1, <1>2, <1>3, <1>4, PhasesInTurn, ZenonT(60)
<1> QED
  BY <1>1, <1>3, <1>5 DEF Stages

\* What a trainer's step needs.
Able == StateInv /\ use_ple = FALSE /\ Trains(mem)

\* A step leaves weights and moments, and waits with its gradients if at all.
LEMMA train_stepIs ==
    ASSUME Able, NEW kind, NEW flat \in Inputs, train_step(kind, flat)
    PROVE  /\ Carries(mem, mem') /\ answer' = Idle
           /\ call' = Idle \/ Graded(mem', call'.seqs)
<1> PICK seqs, phases, per : /\ seqs = Tagged(Cut(flat)) /\ phases = Phases(kind, seqs)
                             /\ per = trainer.dispatches_per_submit
  OBVIOUS
<1>1. /\ trainer # Idle /\ Fits(flat) /\ answer' = Idle
      /\ \E reached \in IF kind = "profile" THEN 1 .. Len(phases) ELSE {Len(phases)} :
            /\ mem' = EncodedInPhases(Begin(use_ple, mem, per), SubSeq(phases, 1, reached)).mem
            /\ call' = IF reached = Len(phases) THEN [kind |-> kind, seqs |-> seqs] ELSE Idle
  BY DEF train_step, Ready
<1>2. per \in Nat /\ per >= 1 /\ calls \in Nat
  <2>1. trainer \in [step : 0 .. calls, dispatches_per_submit : Nat \ {0}] /\ calls \in 0 .. MaxCalls
    BY <1>1 DEF Able, StateInv
  <2> QED
    BY <2>1, GpuTrainingAssumption
<1>3. PICK N \in Nat : N > 0 /\ DOMAIN seqs = 1 .. N /\ Len(seqs) = N
  BY <1>1, BatchIs
<1>4. Fresh(seqs)
  BY <1>2, TaggedFresh
<1>5. PICK S : phases \in Seq(S) /\ \A s \in S : Complete(s)
  BY ONLY <1>3, phases = Phases(kind, seqs), PhasesComplete
<1>6. /\ IsSeq(phases) /\ Len(phases) \in Nat /\ \A k \in 1 .. Len(phases) : Complete(phases[k])
  BY <1>5 DEF IsSeq
<1>7. PICK reached \in 0 .. Len(phases) :
            /\ mem' = EncodedInPhases(Begin(use_ple, mem, per), SubSeq(phases, 1, reached)).mem
            /\ call' = IF reached = Len(phases) THEN [kind |-> kind, seqs |-> seqs] ELSE Idle
  <2>1. PICK reached \in IF kind = "profile" THEN 1 .. Len(phases) ELSE {Len(phases)} :
            /\ mem' = EncodedInPhases(Begin(use_ple, mem, per), SubSeq(phases, 1, reached)).mem
            /\ call' = IF reached = Len(phases) THEN [kind |-> kind, seqs |-> seqs] ELSE Idle
    BY <1>1
  <2>2. reached \in 0 .. Len(phases)
    BY <1>6, <2>1
  <2> QED
    BY <2>1, <2>2
<1> PICK cut, n : cut = SubSeq(phases, 1, reached) /\ n = mem'
  OBVIOUS
<1>8. Stages(Results[FALSE], mem, cut, n)
  <2>1. use_ple = FALSE
    BY DEF Able
  <2>2. Stages(Results[FALSE], mem, cut, EncodedInPhases(Begin(use_ple, mem, per), cut).mem)
    BY ONLY <2>1, <1>2, <1>6, cut = SubSeq(phases, 1, reached), reached \in 0 .. Len(phases), PhasesRun
  <2> QED
    BY <1>7, <2>2
<1> PICK table, m : table = Results[FALSE] /\ m = mem
  OBVIOUS
<1>9. Trains(m)
  BY DEF Able
<1>10. Carries(m, n)
  <2>1. Stages(table, m, SubSeq(Phases(kind, seqs), 1, reached), n)
    BY <1>8
  <2>2. reached \in 0 .. Len(Phases(kind, seqs))
    BY <1>7
  <2> QED
    BY ONLY <1>3, <1>4, <1>9, <2>1, <2>2, PrefixTurn
<1>11. CASE reached = Len(phases)
  <2>1. cut = phases
    BY <1>5, <1>6, <1>11
  <2>2. Stages(table, m, Phases(kind, seqs), n)
    BY <1>8, <2>1
  <2>3. Trained(m, n, seqs)
    BY ONLY <1>3, <1>4, <1>9, <2>2, table = Results[FALSE], StepTurn
  <2>4. Graded(n, seqs)
    BY <1>3, <2>3 DEF Trained, Graded
  <2>5. call' = [kind |-> kind, seqs |-> seqs]
    BY <1>7, <1>11
  <2>6. call'.seqs = seqs
    BY <2>5
  <2> QED
    BY <1>1, <1>10, <2>4, <2>6
<1>12. CASE reached # Len(phases)
  BY <1>1, <1>7, <1>10, <1>12
<1> QED
  BY <1>11, <1>12

\* The readback's optimizer.
LEMMA FinishStepIs ==
    ASSUME Able, FinishStep, Graded(mem, call.seqs)
    PROVE  Taught(mem, mem', call.seqs, call.kind, trainer.step + 1)
<1> PICK seqs, kind, step, lr, scale, per, adam, m, n :
       /\ seqs = call.seqs /\ kind = call.kind /\ step = trainer.step + 1
       /\ lr = (IF kind = "bench" THEN 0 ELSE 1) /\ scale = [batch |-> Len(seqs), norm |-> NormOf(mem)]
       /\ per = trainer.dispatches_per_submit /\ adam = encode_adam(step, lr, scale)
       /\ m = mem /\ n = mem'
  OBVIOUS
<1>1. /\ call # Idle
      /\ n = Encoded(Begin(use_ple, mem, per), adam \o <<Flush>>).mem
  <2>1. /\ call # Idle
        /\ mem' = Encoded(Begin(use_ple, mem, trainer.dispatches_per_submit),
                         encode_adam(trainer.step + 1, IF call.kind = "bench" THEN 0 ELSE 1,
                                     [batch |-> Len(call.seqs), norm |-> NormOf(mem)])
                         \o <<Flush>>).mem
    BY Zenon DEF FinishStep
  <2> QED
    BY <2>1
<1>2. per \in Nat /\ per >= 1 /\ step \in Nat /\ step # 0
  <2>1. trainer \in [step : 0 .. calls, dispatches_per_submit : Nat \ {0}] /\ calls \in 0 .. MaxCalls
    BY <1>1 DEF Able, StateInv
  <2> QED
    <3>1. trainer.step \in Nat /\ trainer.dispatches_per_submit \in Nat \ {0}
      BY <2>1, GpuTrainingAssumption
    <3> QED
      BY <3>1
<1>3. Complete(adam \o <<Flush>>)
  BY AdamComplete
<1>4. Turns(Results[FALSE], m, adam \o <<Flush>>, n)
  <2>1. use_ple = FALSE
    BY DEF Able
  <2> QED
    BY <1>1, <1>2, <1>3, <2>1, RunIs
<1>5. Turns(Results[FALSE], m, adam, n)
  <2>1. IsSeq(adam)
    BY PassesPass DEF Passing
  <2> QED
    BY ONLY <1>4, <2>1, FlushTurn
<1>6. Trains(m) /\ Graded(m, seqs)
  BY DEF Able
<1>7. Optimized(m, n, step, lr, scale)
  <2>1. Turns(Results[FALSE], m, encode_adam(step, lr, scale), n)
    BY <1>5
  <2> QED
    BY ONLY <1>6, <2>1, AdamTurn
<1>8. Taught(m, n, seqs, kind, step)
  <2>1. scale = [batch |-> Len(seqs), norm |-> NormOf(m)]
    OBVIOUS
  <2> QED
    BY ONLY <1>2, <1>6, <1>7, <2>1, lr = IF kind = "bench" THEN 0 ELSE 1, TaughtIs
<1> QED
  BY <1>8

\* An evaluation leaves weights and moments, and answers with the losses.
LEMMA eval_lossIs ==
    ASSUME Able, NEW flat \in Inputs, eval_loss(flat)
    PROVE  /\ Carries(mem, mem') /\ answer'.kind = "loss"
           /\ answer'.got = [b \in DOMAIN answer'.seqs |-> LossOf(answer'.seqs[b])]
<1> PICK seqs, per, g : /\ seqs = Tagged(Cut(flat)) /\ per = trainer.dispatches_per_submit
                        /\ g = Encoded(Begin(use_ple, mem, per), EvalCommands(seqs))
  OBVIOUS
<1>1. /\ trainer # Idle /\ Fits(flat) /\ mem' = g.mem
      /\ answer' = [kind |-> "loss", seqs |-> seqs, got |-> g.mem[Stats][0]]
  BY DEF eval_loss, Ready, Answered, Runs, EvalCommands
<1>2. per \in Nat /\ per >= 1 /\ calls \in Nat
  <2>1. trainer \in [step : 0 .. calls, dispatches_per_submit : Nat \ {0}] /\ calls \in 0 .. MaxCalls
    BY <1>1 DEF Able, StateInv
  <2> QED
    BY <2>1, GpuTrainingAssumption
<1>3. PICK N \in Nat : N > 0 /\ DOMAIN seqs = 1 .. N /\ Len(seqs) = N
  BY <1>1, BatchIs
<1>4. Fresh(seqs)
  BY <1>2, TaggedFresh
<1> PICK table, m, n : table = Results[FALSE] /\ m = mem /\ n = mem'
  OBVIOUS
<1>5. Complete(EvalCommands(seqs))
  BY ONLY <1>3, EvalComplete
<1>6. Turns(table, m, EvalCommands(seqs), n)
  <2>1. use_ple = FALSE
    BY DEF Able
  <2> QED
    BY <1>1, <1>2, <1>5, <2>1, RunIs
<1>7. Trains(m)
  BY DEF Able
<1>8. Carries(m, n) /\ n[Stats][0] = [b \in DOMAIN seqs |-> LossOf(seqs[b])]
  <2>1. Assessed(m, n, seqs)
    BY ONLY <1>3, <1>4, <1>6, <1>7, table = Results[FALSE], EvalTurn
  <2> QED
    BY <2>1 DEF Assessed
<1> PICK a : a = answer'
  OBVIOUS
<1>9. a.kind = "loss" /\ a.seqs = seqs /\ a.got = n[Stats][0]
  <2> PICK got : got = n[Stats][0]
    OBVIOUS
  <2>1. a = [kind |-> "loss", seqs |-> seqs, got |-> got]
    BY <1>1
  <2> QED
    BY <2>1
<1> QED
  BY <1>8, <1>9

\* A comparison leaves them too, and answers with the model's logits.
LEMMA debug_compare_forwardIs ==
    ASSUME Able, NEW flat \in Inputs, debug_compare_forward(flat)
    PROVE  /\ Carries(mem, mem') /\ answer'.kind = "logits"
           /\ answer'.got = Value(Top("logits"), answer'.seqs[1])
<1> PICK seqs, per, s, g : /\ seqs = Tagged(Cut(flat)) /\ per = trainer.dispatches_per_submit
                           /\ s = seqs[1] /\ g = Encoded(Begin(use_ple, mem, per), CompareCommands(s))
  OBVIOUS
<1>1. /\ trainer # Idle /\ Len(flat) = TLen /\ mem' = g.mem
      /\ answer' = [kind |-> "logits", seqs |-> seqs, got |-> g.mem[Scratch("logits")]]
  BY DEF debug_compare_forward, Ready, Answered, Runs, CompareCommands
<1>2. per \in Nat /\ per >= 1 /\ calls \in Nat
  <2>1. trainer \in [step : 0 .. calls, dispatches_per_submit : Nat \ {0}] /\ calls \in 0 .. MaxCalls
    BY <1>1 DEF Able, StateInv
  <2> QED
    BY <2>1, GpuTrainingAssumption
<1>3. Fits(flat)
  <2>1. TLen \in Nat /\ TLen > 0 /\ TLen % TLen = 0 /\ flat \in Seq(Nat)
    BY GpuTrainingAssumption
  <2>2. flat # << >>
    BY <1>1, <2>1
  <2> QED
    BY <1>1, <2>1, <2>2 DEF Fits
<1>4. s # NoSeq
  <2>1. PICK N \in Nat : N > 0 /\ DOMAIN seqs = 1 .. N /\ Len(seqs) = N
    BY <1>3, BatchIs
  <2>2. Fresh(seqs) /\ 1 \in DOMAIN seqs
    BY <1>2, <2>1, TaggedFresh
  <2> QED
    BY <2>2 DEF Fresh
<1> PICK table, m, n : table = Results[FALSE] /\ m = mem /\ n = mem'
  OBVIOUS
<1>5. Complete(CompareCommands(s))
  BY CompareComplete
<1>6. Turns(table, m, CompareCommands(s), n)
  <2>1. use_ple = FALSE
    BY DEF Able
  <2> QED
    BY <1>1, <1>2, <1>5, <2>1, RunIs
<1>7. Trains(m)
  BY DEF Able
<1>8. Carries(m, n) /\ Holds(n, Scratch("logits"), Top("logits"), s)
  BY ONLY <1>4, <1>6, <1>7, table = Results[FALSE], CompareTurn
<1> PICK a, got : a = answer' /\ got = n[Scratch("logits")]
  OBVIOUS
<1>9. a.kind = "logits" /\ a.seqs = seqs /\ a.got = got
  <2>1. a = [kind |-> "logits", seqs |-> seqs, got |-> got]
    BY <1>1
  <2> QED
    BY <2>1
<1>10. got = Value(Top("logits"), s)
  BY <1>8 DEF Holds
<1> QED
  BY <1>8, <1>9, <1>10

\* The measurement of the kernels.
LEMMA profile_kernelsIs ==
    ASSUME Able, profile_kernels
    PROVE  Measured(mem, mem')
<1> PICK ss, commands : /\ ss = [c \in DOMAIN encode_profile_case |-> Twice(encode_profile_case[c])]
                        /\ commands = KernelsCommands
  OBVIOUS
<1>1. commands = FlattenSeq(ss)
  BY DEF KernelsCommands
<1>2. mem' = Encoded(Begin(use_ple, mem, 64), FlattenSeq(ss)).mem
  BY DEF profile_kernels, Runs, Twice
<1> PICK table, m, n, per : table = Results[FALSE] /\ m = mem /\ n = mem' /\ per = 64
  OBVIOUS
<1>3. Turns(table, m, commands, n)
  <2>1. use_ple = FALSE /\ per \in Nat /\ per >= 1 /\ Complete(commands)
    BY KernelsComplete DEF Able
  <2> QED
    BY <1>1, <1>2, <2>1, RunIs
<1>4. Trains(m)
  BY DEF Able
<1>5. Turns(table, m, KernelsCommands, n)
  BY <1>3
<1> QED
  BY ONLY <1>4, <1>5, m = mem, n = mem', KernelsTurn

\* What measuring the kernels makes of the batches absorbed.
LEMMA MeasuredIs ==
    ASSUME NEW m, NEW n, Measured(m, n), NEW a, IsSeq(a), NEW x, x.kind = "kernels"
    PROVE  /\ IsSeq(a \o <<x, x>>) /\ Steps(a \o <<x, x>>) = Steps(a)
           /\ Absorbed(m, a) => Absorbed(n, a \o <<x, x>>)
           /\ Weighted(m) => Weighted(n)
           /\ trainer.step # 0 => \A d : IsSeq(d) /\ Updated(m, d) => Updated(n, d)
<1> PICK b, c : b = Append(a, x) /\ c = Append(b, x)
  OBVIOUS
<1>1. c = a \o <<x, x>>
  BY AppendsAre
<1>2. IsSeq(b) /\ IsSeq(c)
  BY AppendIs
<1>3. Steps(c) = Steps(a)
  <2>1. Steps(b) = Steps(a) /\ Steps(c) = Steps(b)
    BY <1>2, StepsAppend DEF Counted
  <2> QED
    BY <2>1
<1>4. ASSUME Absorbed(m, a) PROVE Absorbed(n, c)
  <2> SUFFICES ASSUME NEW i \in Slots
               PROVE  n[InSet("m", i)] = MomentsOf(i, c) /\ n[InSet("v", i)] = MomentsOf(i, c)
    BY DEF Absorbed
  <2>1. m[InSet("m", i)] = MomentsOf(i, a) /\ m[InSet("v", i)] = MomentsOf(i, a)
    BY <1>4 DEF Absorbed
  <2>2. MomentOf(i, x) = Nothing
    BY DEF MomentOf
  <2>3. MomentsOf(i, b) = Append(MomentsOf(i, a), MomentOf(i, x))
    BY ONLY IsSeq(a), b = Append(a, x), MomentsAppend
  <2>4. MomentsOf(i, c) = Append(MomentsOf(i, b), MomentOf(i, x))
    BY ONLY <1>2, c = Append(b, x), MomentsAppend
  <2>5. /\ n[InSet("m", i)] = Append(Append(m[InSet("m", i)], Nothing), Nothing)
        /\ n[InSet("v", i)] = Append(Append(m[InSet("v", i)], Nothing), Nothing)
    BY DEF Measured
  <2> QED
    BY ONLY <2>1, <2>2, <2>3, <2>4, <2>5
<1>5. ASSUME Weighted(m) PROVE Weighted(n)
  <2> SUFFICES ASSUME NEW i \in Slots PROVE \E past : n[InSet("weights", i)] = Weight(i, past)
    BY DEF Weighted
  <2>1. PICK past : m[InSet("weights", i)] = Weight(i, past)
    BY <1>5 DEF Weighted
  <2> QED
    BY <2>1 DEF Measured
<1>6. ASSUME trainer.step # 0, NEW d, IsSeq(d), Updated(m, d) PROVE Updated(n, d)
  <2> SUFFICES ASSUME NEW i \in Slots PROVE n[InSet("weights", i)] = Weight(i, UpdatesOf(i, d))
    BY DEF Updated
  <2> PICK past : past = UpdatesOf(i, d)
    OBVIOUS
  <2>1. m[InSet("weights", i)] = Weight(i, past) /\ IsSeq(past)
    BY <1>6, UpdatesAppend DEF Updated
  <2> QED
    BY <1>6, <2>1 DEF Measured
<1> QED
  BY <1>1, <1>2, <1>3, <1>4, <1>5, <1>6

-----------------------------------------------------------------------------
(* What every state holds of what the host would have computed.            *)

\* While there is a trainer, its memory has the updates of the steps taken
\* and the batches absorbed, and it counts those that count.
TrainerHolds ==
    trainer # Idle =>
        /\ use_ple = FALSE /\ Trains(mem) /\ Weighted(mem) /\ Absorbed(mem, absorbed)
        /\ ~ spoilt => Updated(mem, did)
        /\ trainer.step = Steps(absorbed)

\* A call that waits has left its gradients.
CallHolds == call # Idle => Graded(mem, call.seqs)

\* A loss read back is that of its batch.
AnswerHolds ==
    (answer # Idle /\ answer.kind = "loss") =>
        answer.got = [b \in DOMAIN answer.seqs |-> LossOf(answer.seqs[b])]

\* What was downloaded is what the steps had made of it.
HeldHolds ==
    /\ IsSeq(held.did) /\ IsSeq(held.absorbed) /\ held.step = Steps(held.absorbed)
    /\ \A i \in Slots : /\ held.m[i] = MomentsOf(i, held.absorbed)
                        /\ held.v[i] = MomentsOf(i, held.absorbed)
                        /\ ~ spoilt => held.weights[i] = UpdatesOf(i, held.did)

HostInv ==
    IsSeq(did) /\ IsSeq(absorbed) /\ TrainerHolds /\ CallHolds /\ AnswerHolds /\ HeldHolds

\* Nothing has been done to anything yet.
LEMMA NothingDone ==
    /\ IsSeq(<< >>) /\ Steps(<< >>) = 0
    /\ \A i : UpdatesOf(i, << >>) = << >> /\ MomentsOf(i, << >>) = << >>
<1> PICK e : e = << >>
  OBVIOUS
<1>1. IsSeq(e) /\ DOMAIN e = {}
  BY << >> \in Seq({}) DEF IsSeq
<1>2. Steps(e) = 0
  <2>1. {k \in DOMAIN e : e[k].kind \in Counted} = {}
    BY <1>1
  <2> QED
    BY <2>1, FS_EmptySet DEF Steps
<1>3. \A i : UpdatesOf(i, e) = << >> /\ MomentsOf(i, e) = << >>
  <2> TAKE i
  <2> PICK u, v : u = UpdatesOf(i, e) /\ v = MomentsOf(i, e)
    OBVIOUS
  <2>1. /\ DOMAIN u = 1 .. 0 /\ u = [k \in 1 .. 0 |-> u[k]]
        /\ DOMAIN v = 1 .. 0 /\ v = [k \in 1 .. 0 |-> v[k]]
    BY <1>1 DEF UpdatesOf, MomentsOf
  <2>2. IsSeq(u) /\ Len(u) = 0 /\ IsSeq(v) /\ Len(v) = 0
    BY <2>1, SeqMade
  <2> QED
    BY <2>2, SeqIs
<1> QED
  BY <1>1, <1>2, <1>3

\* It holds at first.
LEMMA HostInit == Init => HostInv
<1> SUFFICES ASSUME Init PROVE HostInv
  OBVIOUS
<1> PICK h : h = held
  OBVIOUS
<1>1. /\ h = [weights |-> NoUpdates, m |-> NoUpdates, v |-> NoUpdates, step |-> 0,
              did |-> << >>, absorbed |-> << >>]
  BY DEF Init
<1>2. /\ h.weights = NoUpdates /\ h.m = NoUpdates /\ h.v = NoUpdates /\ h.step = 0
      /\ h.did = << >> /\ h.absorbed = << >>
  BY <1>1
<1>3. \A i \in Slots : NoUpdates[i] = << >>
  BY DEF NoUpdates
<1>4. HeldHolds
  BY <1>2, <1>3, NothingDone DEF HeldHolds
<1>5. trainer = Idle /\ call = Idle /\ answer = Idle /\ did = << >> /\ absorbed = << >>
  BY DEF Init
<1> QED
  BY <1>4, <1>5, NothingDone DEF HostInv, TrainerHolds, CallHolds, AnswerHolds

\* What a trainer's call that is not over at once may leave of the host's
\* account: its memory's weights and moments.
Untouched == UNCHANGED <<use_ple, trainer, held, did, absorbed, spoilt>>

\* A call that leaves weights and moments leaves the trainer's part.
LEMMA CarriesHold ==
    ASSUME HostInv, trainer # Idle, Carries(mem, mem'), Untouched
    PROVE  IsSeq(did)' /\ IsSeq(absorbed)' /\ TrainerHolds' /\ HeldHolds'
<1> PICK m, n : m = mem /\ n = mem'
  OBVIOUS
<1>1. /\ use_ple = FALSE /\ Trains(m) /\ Weighted(m) /\ Absorbed(m, absorbed)
      /\ ~ spoilt => Updated(m, did)
      /\ trainer.step = Steps(absorbed)
  BY DEF HostInv, TrainerHolds
<1>2. Carries(m, n) /\ Trains(n)
  BY DEF Carries
<1>3. Weighted(n) /\ Absorbed(n, absorbed) /\ (~ spoilt => Updated(n, did))
  BY <1>1, <1>2, CarriedOn
<1>4. TrainerHolds'
  BY <1>1, <1>2, <1>3 DEF TrainerHolds, Untouched
<1> QED
  BY <1>4 DEF HostInv, HeldHolds, Untouched

\* What upload_optimizer makes of memory m.
Restored(m, n) ==
    n = [b \in DOMAIN m |->
            IF b[3] = "params" /\ b[1] = "m" THEN held.m[b[2]]
            ELSE IF b[3] = "params" /\ b[1] = "v" THEN held.v[b[2]]
            ELSE m[b]]

\* It replaces the moments and nothing else.
LEMMA RestoredIs ==
    ASSUME NEW m, Trains(m), NEW n, Restored(m, n)
    PROVE  /\ Trains(n) /\ Same(m, n, "weights")
           /\ \A i \in Slots : n[InSet("m", i)] = held.m[i] /\ n[InSet("v", i)] = held.v[i]
           /\ \A b \in DOMAIN m : b[3] # "params" => n[b] = m[b]
<1>1. /\ DOMAIN n = DOMAIN m
      /\ \A b \in DOMAIN m : n[b] = IF b[3] = "params" /\ b[1] = "m" THEN held.m[b[2]]
                                     ELSE IF b[3] = "params" /\ b[1] = "v" THEN held.v[b[2]]
                                     ELSE m[b]
  BY DEF Restored
<1>2. \A b \in DOMAIN m : b[3] # "params" => n[b] = m[b]
  BY <1>1
<1>3. \A set \in {"weights", "grads", "m", "v"}, i \in Slots : InSet(set, i) \in DOMAIN m
  BY DEF Trains
<1>4. \A i \in Slots : n[InSet("weights", i)] = m[InSet("weights", i)]
  <2> TAKE i \in Slots
  <2> PICK b : b = InSet("weights", i)
    OBVIOUS
  <2>1. b \in DOMAIN m /\ b[1] = "weights"
    BY <1>3 DEF InSet
  <2> QED
    BY <1>1, <2>1
<1>5. \A i \in Slots : n[InSet("m", i)] = held.m[i] /\ n[InSet("v", i)] = held.v[i]
  <2> TAKE i \in Slots
  <2> PICK b, c : b = InSet("m", i) /\ c = InSet("v", i)
    OBVIOUS
  <2>1. /\ b \in DOMAIN m /\ b[1] = "m" /\ b[2] = i /\ b[3] = "params"
        /\ c \in DOMAIN m /\ c[1] = "v" /\ c[2] = i /\ c[3] = "params"
    BY <1>3 DEF InSet
  <2> QED
    BY <1>1, <2>1
<1>6. \A name : Scratch(name) \in DOMAIN m => n[Scratch(name)] = m[Scratch(name)]
  <2> TAKE name
  <2> PICK b : b = Scratch(name)
    OBVIOUS
  <2>1. b[3] # "params"
    BY DEF Scratch
  <2> QED
    BY <1>2, <2>1
<1>7. Stats \in DOMAIN m /\ n[Stats] = m[Stats]
  BY <1>6 DEF Stats, Trains
<1>8. \A i \in Slots : Weighs(n, InSet("weights", i), shapes[i])
  BY <1>4 DEF Trains, Weighs
<1>9. Trains(n)
  BY <1>1, <1>3, <1>6, <1>7, <1>8 DEF Trains
<1> QED
  BY <1>2, <1>4, <1>5, <1>9 DEF Same

\* Every step keeps it.
LEMMA HostStep ==
    ASSUME StateInv, HostInv, [Next]_vars
    PROVE  HostInv'
<1>0. trainer # Idle => Able
  BY DEF Able, HostInv, TrainerHolds
<1>1. ASSUME NEW optimizer \in BOOLEAN, New(optimizer) PROVE HostInv'
  <2> PICK ws, mm, vv, a, step :
         /\ ws = held.weights /\ mm = (IF optimizer THEN held.m ELSE NoUpdates)
         /\ vv = (IF optimizer THEN held.v ELSE NoUpdates)
         /\ a = (IF optimizer THEN held.absorbed ELSE << >>)
         /\ step = (IF optimizer THEN held.step ELSE 0)
    OBVIOUS
  <2> PICK n, t : n = mem' /\ t = trainer'
    OBVIOUS
  <2>1. /\ ~ use_ple /\ call = Idle
        /\ n = [b \in TrainerBuffers \cup DOMAIN mem |->
                   IF b \in TrainerBuffers THEN TrainerMemory(ws, mm, vv)[b] ELSE mem[b]]
        /\ t = [step |-> step, dispatches_per_submit |-> DEFAULT_DISPATCHES_PER_SUBMIT]
        /\ did' = held.did /\ absorbed' = a
        /\ UNCHANGED <<use_ple, call, answer, longest, held, spoilt, calls, decoded>>
    <3> PICK moments : moments = StartingMoments(optimizer)
      OBVIOUS
    <3>1. moments = [m |-> mm, v |-> vv]
      BY DEF StartingMoments
    <3>2. moments.m = mm /\ moments.v = vv
      BY <3>1
    <3>3. /\ ~ use_ple /\ call = Idle
          /\ mem' = [b \in TrainerBuffers \cup DOMAIN mem |->
                        IF b \in TrainerBuffers
                        THEN TrainerMemory(held.weights, moments.m, moments.v)[b] ELSE mem[b]]
          /\ trainer' = [step |-> IF optimizer THEN held.step ELSE 0, dispatches_per_submit |-> DEFAULT_DISPATCHES_PER_SUBMIT]
          /\ did' = held.did /\ absorbed' = (IF optimizer THEN held.absorbed ELSE << >>)
          /\ UNCHANGED <<use_ple, call, answer, longest, held, spoilt, calls, decoded>>
      BY <1>1, Zenon DEF New, supports_training
    <3> QED
      BY <3>2, <3>3
  <2>2. Begun(n, ws, mm, vv)
    BY ONLY <2>1, NewTurn
  <2>3. /\ IsSeq(a) /\ step = Steps(a) /\ \A i \in Slots : mm[i] = MomentsOf(i, a) /\ vv[i] = MomentsOf(i, a)
    <3>1. CASE optimizer
      BY <3>1 DEF HostInv, HeldHolds
    <3>2. CASE ~ optimizer
      BY <3>2, NothingDone DEF NoUpdates
    <3> QED
      BY <3>1, <3>2
  <2>4. Trains(n) /\ Weighted(n) /\ Absorbed(n, a)
    BY <2>2, <2>3 DEF Begun, Weighted, Absorbed
  <2>5. ~ spoilt => Updated(n, held.did)
    BY <2>2 DEF Begun, Updated, HostInv, HeldHolds
  <2>6. t.step = step
    BY <2>1
  <2>7. use_ple = FALSE
    BY <2>1 DEF StateInv
  <2>8. TrainerHolds'
    BY <2>1, <2>3, <2>4, <2>5, <2>6, <2>7 DEF TrainerHolds
  <2>9. CallHolds' /\ AnswerHolds' /\ HeldHolds'
    BY <2>1 DEF CallHolds, AnswerHolds, HeldHolds, HostInv
  <2>10. IsSeq(did)' /\ IsSeq(absorbed)'
    BY <2>1, <2>3 DEF HostInv, HeldHolds
  <2> QED
    BY <2>8, <2>9, <2>10 DEF HostInv
<1>u. CASE upload_optimizer
  <2> PICK m, n : m = mem /\ n = mem'
    OBVIOUS
  <2>1. /\ trainer # Idle /\ call = Idle /\ trainer' = [trainer EXCEPT !.step = held.step]
        /\ absorbed' = held.absorbed
        /\ UNCHANGED <<use_ple, call, answer, held, did, spoilt>>
    BY <1>u, Zenon DEF upload_optimizer
  <2>2. Restored(m, n)
    BY <1>u, Zenon DEF upload_optimizer, Restored
  <2>3. /\ use_ple = FALSE /\ Trains(m) /\ Weighted(m) /\ (~ spoilt => Updated(m, did))
        /\ IsSeq(did) /\ HeldHolds
    BY <2>1 DEF HostInv, TrainerHolds
  <2>4. /\ Trains(n) /\ Same(m, n, "weights")
        /\ \A i \in Slots : n[InSet("m", i)] = held.m[i] /\ n[InSet("v", i)] = held.v[i]
    BY ONLY <2>2, <2>3, RestoredIs
  <2>5. Weighted(n) /\ (~ spoilt => Updated(n, did))
    BY <2>3, <2>4 DEF Weighted, Updated, Same
  <2>6. Absorbed(n, held.absorbed) /\ IsSeq(held.absorbed) /\ held.step = Steps(held.absorbed)
    BY <2>3, <2>4 DEF Absorbed, HeldHolds
  <2>7. trainer'.step = held.step
    BY <2>1 DEF StateInv
  <2>8. TrainerHolds'
    BY <2>1, <2>3, <2>4, <2>5, <2>6, <2>7 DEF TrainerHolds
  <2>9. CallHolds' /\ AnswerHolds' /\ HeldHolds'
    BY <2>1 DEF CallHolds, AnswerHolds, HeldHolds, HostInv
  <2> QED
    BY <2>1, <2>3, <2>6, <2>8, <2>9 DEF HostInv
<1>2. ASSUME NEW n \in PerSubmit, set_dispatches_per_submit(n) PROVE HostInv'
  <2>1. /\ trainer # Idle /\ trainer' = [trainer EXCEPT !.dispatches_per_submit = AtLeastOne(n)]
        /\ UNCHANGED <<use_ple, mem, call, answer, held, did, absorbed, spoilt>>
    BY <1>2 DEF set_dispatches_per_submit, history
  <2>2. trainer'.step = trainer.step
    BY <2>1 DEF StateInv
  <2>3. TrainerHolds'
    BY <2>1, <2>2 DEF TrainerHolds, HostInv
  <2> QED
    BY <2>1, <2>3 DEF HostInv, CallHolds, AnswerHolds, HeldHolds
<1>3. ASSUME NEW kind \in {"train", "bench", "profile"}, NEW flat \in Inputs, train_step(kind, flat)
      PROVE  HostInv'
  <2>1. trainer # Idle /\ Untouched
    BY <1>3 DEF train_step, Ready, history, Untouched
  <2>2. Carries(mem, mem') /\ answer' = Idle /\ (call' = Idle \/ Graded(mem', call'.seqs))
    BY <1>0, <1>3, <2>1, train_stepIs
  <2>3. IsSeq(did)' /\ IsSeq(absorbed)' /\ TrainerHolds' /\ HeldHolds'
    BY <2>1, <2>2, CarriesHold
  <2> QED
    BY <2>2, <2>3 DEF HostInv, CallHolds, AnswerHolds
<1>4. ASSUME FinishStep PROVE HostInv'
  <2> PICK seqs, kind, m, n : seqs = call.seqs /\ kind = call.kind /\ m = mem /\ n = mem'
    OBVIOUS
  <2>0. /\ call # Idle /\ call' = Idle /\ kind \in {"train", "bench", "profile"} /\ trainer # Idle
        /\ Able /\ Graded(m, seqs)
    BY <1>0, <1>4 DEF FinishStep, HostInv, CallHolds, StateInv
  <2>1. trainer.step \in Nat
    BY <2>0, GpuTrainingAssumption DEF StateInv
  <2> PICK step, y : step = trainer.step + 1 /\ y = [seqs |-> seqs, kind |-> kind, step |-> step]
    OBVIOUS
  <2>a. PICK end \in Outcomes(kind) :
          /\ trainer' = [trainer EXCEPT !.step = StepAfter(end)]
          /\ absorbed' = Append(absorbed, [seqs |-> seqs, kind |-> end])
    BY <1>4, Zenon DEF FinishStep
  <2> PICK x : x = [seqs |-> seqs, kind |-> end]
    OBVIOUS
  <2>2. /\ trainer' = [trainer EXCEPT !.step = IF end = "bench" THEN trainer.step ELSE step]
        /\ did' = (IF kind = "bench" THEN did ELSE Append(did, y))
        /\ absorbed' = Append(absorbed, x)
        /\ answer' = [kind |-> "loss", seqs |-> seqs, got |-> m[Stats][0]]
        /\ UNCHANGED <<use_ple, held, spoilt>>
    <3>1. /\ did' = (IF call.kind = "bench" THEN did
                     ELSE Append(did, [seqs |-> call.seqs, kind |-> call.kind, step |-> 1 + StepsCounted]))
          /\ answer' = [kind |-> "loss", seqs |-> call.seqs, got |-> mem[Stats][0]]
          /\ UNCHANGED <<use_ple, held, spoilt, calls, decoded>>
      BY <1>4, Zenon DEF FinishStep
    <3>2. StepAfter(end) = IF end = "bench" THEN trainer.step ELSE step
      BY DEF StepAfter
    <3> PICK count : count = StepsCounted
      OBVIOUS
    <3>3. count = trainer.step
      BY <2>0 DEF HostInv, TrainerHolds, Steps, Counted, StepsCounted
    <3>4. 1 + count = step
      BY <2>1, <3>3
    <3> QED
      BY <2>a, <3>1, <3>2, <3>4
  <2>b. /\ end \in Counted \/ end = "bench"
        /\ end # "kernels"
    BY <2>0, <2>a DEF Outcomes, Counted
  <2>3. /\ x.seqs = seqs /\ x.kind = end /\ x.kind # "kernels" /\ y.seqs = seqs /\ y.step = step
    BY <2>b
  <2>4. Taught(m, n, seqs, kind, step)
    BY <1>4, <2>0, FinishStepIs
  <2>5. /\ IsSeq(did) /\ IsSeq(absorbed) /\ Weighted(m) /\ Absorbed(m, absorbed)
        /\ ~ spoilt => Updated(m, did)
        /\ trainer.step = Steps(absorbed) /\ use_ple = FALSE
    BY <2>0 DEF HostInv, TrainerHolds
  <2>6. Trains(n) /\ Weighted(n) /\ Absorbed(n, Append(absorbed, x))
    BY <2>3, <2>4, <2>5 DEF Taught
  <2>7. ~ spoilt => Updated(n, did')
    BY <2>2, <2>3, <2>4, <2>5 DEF Taught
  <2>8. trainer'.step = Steps(absorbed')
    <3>1. trainer'.step = IF end = "bench" THEN trainer.step ELSE step
      BY <2>0, <2>2 DEF StateInv
    <3>2. /\ end \in Counted => Steps(Append(absorbed, x)) = Steps(absorbed) + 1
          /\ end \notin Counted => Steps(Append(absorbed, x)) = Steps(absorbed)
      BY <2>3, <2>5, StepsAppend
    <3>3. "bench" \notin Counted
      BY DEF Counted
    <3> QED
      BY <2>2, <2>5, <2>b, <3>1, <3>2, <3>3
  <2>9. TrainerHolds'
    BY <2>2, <2>5, <2>6, <2>7, <2>8 DEF TrainerHolds
  <2>10. IsSeq(did)' /\ IsSeq(absorbed)'
    BY <2>2, <2>5, AppendIs
  <2>11. AnswerHolds'
    <3> PICK z, got : z = answer' /\ got = m[Stats][0]
      OBVIOUS
    <3>1. z = [kind |-> "loss", seqs |-> seqs, got |-> got]
      BY <2>2
    <3>2. z.seqs = seqs /\ z.got = got
      BY <3>1
    <3>3. got = [b \in DOMAIN seqs |-> LossOf(seqs[b])]
      BY <2>0 DEF Graded
    <3> QED
      BY <3>2, <3>3 DEF AnswerHolds
  <2>12. CallHolds' /\ HeldHolds'
    BY <2>0, <2>2 DEF CallHolds, HeldHolds, HostInv
  <2> QED
    BY <2>9, <2>10, <2>11, <2>12 DEF HostInv
<1>5. CASE ReadbackFails
  BY <1>5 DEF ReadbackFails, HostInv, TrainerHolds, CallHolds, AnswerHolds, HeldHolds, history
<1>6. ASSUME NEW flat \in Inputs, eval_loss(flat) \/ debug_compare_forward(flat) PROVE HostInv'
  <2>1. trainer # Idle /\ call = Idle /\ call' = call /\ Untouched
    BY <1>6 DEF eval_loss, debug_compare_forward, Ready, history, Untouched
  <2>2. Carries(mem, mem') /\ AnswerHolds'
    <3>1. CASE eval_loss(flat)
      BY <1>0, <2>1, <3>1, eval_lossIs DEF AnswerHolds
    <3>2. CASE debug_compare_forward(flat)
      BY <1>0, <2>1, <3>2, debug_compare_forwardIs DEF AnswerHolds
    <3> QED
      BY <1>6, <3>1, <3>2
  <2>3. IsSeq(did)' /\ IsSeq(absorbed)' /\ TrainerHolds' /\ HeldHolds'
    BY <2>1, <2>2, CarriesHold
  <2> QED
    BY <2>1, <2>2, <2>3 DEF HostInv, CallHolds
<1>7. CASE profile_kernels
  <2> PICK m, n, x : m = mem /\ n = mem' /\ x = [seqs |-> << >>, kind |-> "kernels"]
    OBVIOUS
  <2>1. /\ trainer # Idle /\ call = Idle /\ call' = Idle /\ answer' = Idle
        /\ absorbed' = absorbed \o <<x, x>> /\ spoilt' = (spoilt \/ trainer.step = 0)
        /\ UNCHANGED <<use_ple, trainer, held, did>>
    BY <1>7 DEF profile_kernels, Ready
  <2>2. Measured(m, n) /\ x.kind = "kernels"
    BY <1>0, <1>7, <2>1, profile_kernelsIs
  <2>3. /\ IsSeq(did) /\ IsSeq(absorbed) /\ Weighted(m) /\ Absorbed(m, absorbed)
        /\ ~ spoilt => Updated(m, did)
        /\ trainer.step = Steps(absorbed) /\ use_ple = FALSE
    BY <2>1 DEF HostInv, TrainerHolds
  <2>4. /\ IsSeq(absorbed \o <<x, x>>) /\ Steps(absorbed \o <<x, x>>) = Steps(absorbed)
        /\ Absorbed(n, absorbed \o <<x, x>>) /\ Weighted(n)
        /\ trainer.step # 0 => \A d : IsSeq(d) /\ Updated(m, d) => Updated(n, d)
    BY ONLY <2>2, <2>3, MeasuredIs
  <2>5. Trains(n)
    BY <2>2 DEF Measured
  <2>6. ~ spoilt' => Updated(n, did)
    BY <2>1, <2>3, <2>4
  <2>7. TrainerHolds'
    BY <2>1, <2>3, <2>4, <2>5, <2>6 DEF TrainerHolds
  <2>8. HeldHolds'
    BY <2>1 DEF HeldHolds, HostInv
  <2> QED
    BY <2>1, <2>3, <2>4, <2>7, <2>8 DEF HostInv, CallHolds, AnswerHolds
<1>8. CASE Download
  <2> PICK h : h = held'
    OBVIOUS
  <2>1. /\ trainer # Idle
        /\ h = [weights |-> [i \in Slots |-> mem[InSet("weights", i)].past],
                m |-> [i \in Slots |-> mem[InSet("m", i)]],
                v |-> [i \in Slots |-> mem[InSet("v", i)]],
                step |-> trainer.step, did |-> did, absorbed |-> absorbed]
        /\ UNCHANGED <<use_ple, mem, trainer, call, answer, did, absorbed, spoilt>>
    BY <1>8 DEF Download
  <2>2. /\ h.did = did /\ h.absorbed = absorbed /\ h.step = trainer.step
        /\ \A i \in Slots : /\ h.weights[i] = mem[InSet("weights", i)].past
                            /\ h.m[i] = mem[InSet("m", i)] /\ h.v[i] = mem[InSet("v", i)]
    BY <2>1
  <2>3. /\ IsSeq(did) /\ IsSeq(absorbed) /\ Absorbed(mem, absorbed)
        /\ ~ spoilt => Updated(mem, did)
        /\ trainer.step = Steps(absorbed)
    BY <2>1 DEF HostInv, TrainerHolds
  <2>4. \A i \in Slots : ~ spoilt => h.weights[i] = UpdatesOf(i, did)
    <3> TAKE i \in Slots
    <3> HAVE ~ spoilt
    <3> PICK w, p : w = mem[InSet("weights", i)] /\ p = UpdatesOf(i, did)
      OBVIOUS
    <3>1. w = Weight(i, p)
      BY <2>3 DEF Updated
    <3>2. w.past = p
      BY <3>1 DEF Weight
    <3> QED
      BY <2>2, <3>2
  <2>5. HeldHolds'
    BY <2>1, <2>2, <2>3, <2>4 DEF HeldHolds, Absorbed
  <2> QED
    BY <2>1, <2>5 DEF HostInv, TrainerHolds, CallHolds, AnswerHolds
<1>9. CASE Lost
  BY <1>9 DEF Lost, HostInv, TrainerHolds, CallHolds, AnswerHolds, HeldHolds, history
<1>10. ASSUME NEW n \in 1 .. Capacity + 1, seed_from_cpu_cache(n) PROVE HostInv'
  <2>1. trainer = Idle /\ UNCHANGED <<use_ple, trainer, call, answer, held, did, absorbed, spoilt>>
    BY <1>10 DEF seed_from_cpu_cache, NotTraining, history
  <2> QED
    BY <2>1 DEF HostInv, TrainerHolds, CallHolds, AnswerHolds, HeldHolds, StateInv
<1>11. CASE decode_step
  <2>1. /\ trainer = Idle /\ UNCHANGED <<use_ple, trainer, call, held, did, absorbed, spoilt>>
        /\ answer'.kind = "logits"
    BY <1>11 DEF decode_step, NotTraining, history
  <2> QED
    BY <2>1 DEF HostInv, TrainerHolds, CallHolds, AnswerHolds, HeldHolds, StateInv
<1>12. CASE UNCHANGED vars
  BY <1>12 DEF vars, HostInv, TrainerHolds, CallHolds, AnswerHolds, HeldHolds
<1> QED
  BY <1>u, <1>1, <1>2, <1>3, <1>4, <1>5, <1>6, <1>7, <1>8, <1>9, <1>10, <1>11, <1>12 DEF Next

\* Whatever was called before, cut short or measured, the gradients a step
\* is taken with are the host's for its batch, and a loss is that of its
\* sequences.
THEOREM StepsAreTheHosts == Spec => []GradientsAreTheHosts
<1>1. Init => StateInv /\ HostInv
  BY StateInit, HostInit
<1>2. (StateInv /\ HostInv) /\ [Next]_vars => (StateInv /\ HostInv)'
  BY StateStep, HostStep
<1>3. StateInv /\ HostInv => GradientsAreTheHosts
  <2> SUFFICES ASSUME StateInv, HostInv PROVE GradientsAreTheHosts
    OBVIOUS
  <2>1. TypeOK
    <3>1. trainer = Idle \/ (trainer.step \in 0 .. MaxCalls /\ trainer.dispatches_per_submit >= 1)
      BY GpuTrainingAssumption DEF StateInv
    <3> QED
      BY <3>1 DEF StateInv, TypeOK
  <2>2. call # Idle => \A i \in Slots : mem[InSet("grads", i)] = HostGradient(i, call.seqs)
    BY DEF HostInv, CallHolds, Graded
  <2>3. (answer # Idle /\ answer.kind = "loss") =>
           answer.got = [b \in DOMAIN answer.seqs |->
                            [of |-> Value(Top("loss_rows"), answer.seqs[b]), square |-> FALSE,
                             groups |-> "rows"]]
    BY DEF HostInv, AnswerHolds, LossOf, Sum
  <2> QED
    BY <2>1, <2>2, <2>3 DEF GradientsAreTheHosts
<1> QED
  BY <1>1, <1>2, <1>3, PTL DEF Spec

\* The weights have had the updates of the steps taken and the moments have
\* absorbed their batches, through measurements, benchmarks, steps cut short,
\* downloads and trainers restored.  The bias corrections are of the steps
\* counted, one for each benchmark that failed at its last wait included,
\* from which on they are not the host's (trainer/mod.rs train_step, bench_step).
THEOREM OptimizerIsTheHosts == Spec => []UpdatesAreTheHosts
<1>1. Init => StateInv /\ HostInv
  BY StateInit, HostInit
<1>2. (StateInv /\ HostInv) /\ [Next]_vars => (StateInv /\ HostInv)'
  BY StateStep, HostStep
<1>3. StateInv /\ HostInv => UpdatesAreTheHosts
  <2> SUFFICES ASSUME HostInv, trainer # Idle PROVE MomentsAreTheHosts /\ (~ spoilt => UpdatesAre(WeightsInMemory))
    BY DEF UpdatesAreTheHosts
  <2>1. Absorbed(mem, absorbed) /\ (~ spoilt => Updated(mem, did))
    BY DEF HostInv, TrainerHolds
  <2>2. MomentsAreTheHosts
    <3> SUFFICES ASSUME NEW i \in Slots, NEW set \in {"m", "v"}
                 PROVE  mem[InSet(set, i)] = MomentsOf(i, absorbed)
      BY Zenon DEF MomentsAreTheHosts, MomentsOf, MomentOf, Nothing
    <3>1. mem[InSet("m", i)] = MomentsOf(i, absorbed) /\ mem[InSet("v", i)] = MomentsOf(i, absorbed)
      BY <2>1 DEF Absorbed
    <3> QED
      BY <3>1
  <2>3. ASSUME ~ spoilt PROVE UpdatesAre(WeightsInMemory)
    <3> SUFFICES ASSUME NEW i \in Slots PROVE WeightsInMemory[i] = UpdatesOf(i, did)
      BY Zenon DEF UpdatesAre, UpdatesOf, UpdateOf
    <3> PICK w, p : w = mem[InSet("weights", i)] /\ p = UpdatesOf(i, did)
      OBVIOUS
    <3>1. w = Weight(i, p)
      BY <2>1, <2>3 DEF Updated
    <3>2. w.past = p
      BY <3>1 DEF Weight
    <3> QED
      BY <3>2 DEF WeightsInMemory
  <2> QED
    BY <2>2, <2>3
<1> QED
  BY <1>1, <1>2, <1>3, PTL DEF Spec

-----------------------------------------------------------------------------
(* A token on the generation backend.                                      *)

\* The decoder's memory: its buffers, the weights, and the rings of keys and values.
DecoderOutputs == DecoderNames \ {"token"}
Decodes(m) ==
    /\ \A name \in DecoderNames : Decoder(name) \in DOMAIN m
    /\ \A name \in LayerWeights, l \in 1 .. Layers :
          DecoderLayer(name, l) \in DOMAIN m /\ Weighs(m, DecoderLayer(name, l), <<name, l>>)
    /\ Decoder("embed") \in DOMAIN m /\ Weighs(m, Decoder("embed"), Top("embed"))
    /\ Decoder("final_norm_gain") \in DOMAIN m
    /\ Weighs(m, Decoder("final_norm_gain"), Top("final_norm_gain"))
    /\ \A name \in {"k_cache", "v_cache"}, l \in 1 .. Layers :
          /\ DecoderLayer(name, l) \in DOMAIN m
          /\ DOMAIN m[DecoderLayer(name, l)] = 0 .. Capacity - 1

\* The tensors of a layer, by name.
LEMMA LayerWeightsAre ==
    /\ "ple" \in LayerWeights /\ "attn_norm_gain" \in LayerWeights /\ "wq" \in LayerWeights
    /\ "wk" \in LayerWeights /\ "wv" \in LayerWeights /\ "wo" \in LayerWeights
    /\ "mlp_norm_gain" \in LayerWeights /\ "w_gate" \in LayerWeights /\ "w_up" \in LayerWeights
    /\ "w_down" \in LayerWeights
    /\ \A name \in LayerWeights : name \in GradNames \cup {"ple"}
<1> PICK t : t = LayerTensors
  OBVIOUS
<1>1. /\ Len(t) = 9 /\ t[1] = "attn_norm_gain" /\ t[2] = "wq" /\ t[3] = "wk" /\ t[4] = "wv"
      /\ t[5] = "wo" /\ t[6] = "mlp_norm_gain" /\ t[7] = "w_gate" /\ t[8] = "w_up" /\ t[9] = "w_down"
  BY DEF LayerTensors
<1>2. LayerWeights = {t[i] : i \in 1 .. 9} \cup {"ple"}
  BY <1>1 DEF LayerWeights, TENSORS_PER_LAYER
<1>3. \A i \in 1 .. 9 : t[i] \in LayerWeights
  BY <1>2
<1>4. /\ 1 \in 1 .. 9 /\ 2 \in 1 .. 9 /\ 3 \in 1 .. 9 /\ 4 \in 1 .. 9 /\ 5 \in 1 .. 9 /\ 6 \in 1 .. 9
      /\ 7 \in 1 .. 9 /\ 8 \in 1 .. 9 /\ 9 \in 1 .. 9
  OBVIOUS
<1>5. \A i \in 1 .. 9 : t[i] \in GradNames
  <2>1. \A i \in 1 .. 9 : i = 1 \/ i = 2 \/ i = 3 \/ i = 4 \/ i = 5 \/ i = 6 \/ i = 7 \/ i = 8 \/ i = 9
    OBVIOUS
  <2> QED
    BY <1>1, <2>1 DEF GradNames
<1> QED
  BY <1>1, <1>2, <1>3, <1>4, <1>5

\* What the host's layer returns of a token.
LEMMA DecodeLayerKnown ==
    ASSUME NEW ple \in BOOLEAN, NEW table, table = Results[ple], NEW l \in 1 .. Layers
    PROVE  /\ Known(table, "rmsnorm", <<<<"h_in", l>>, <<"attn_norm_gain", l>>>>, <<"1",
                    "h">>, <<<<"normed1", l>>, <<"inv_rms1", l>>>>)
           /\ Known(table, "linear", <<<<"normed1", l>>, <<"wq", l>>>>, <<"1", "h", "h">>,
                    <<<<"q_raw", l>>>>)
           /\ Known(table, "linear", <<<<"normed1", l>>, <<"wk", l>>>>, <<"1", "h", "kv">>,
                    <<<<"k_raw", l>>>>)
           /\ Known(table, "linear", <<<<"normed1", l>>, <<"wv", l>>>>, <<"1", "h", "kv">>,
                    <<<<"v", l>>>>)
           /\ Known(table, "rope", <<<<"q_raw", l>>>>, <<"1", "heads", "fwd">>, <<<<"q",
                    l>>>>)
           /\ Known(table, "rope", <<<<"k_raw", l>>>>, <<"1", "kv_heads", "fwd">>, <<<<"k",
                    l>>>>)
           /\ Known(table, "linear", <<<<"concat", l>>, <<"wo", l>>>>, <<"1", "h", "h">>,
                    <<<<"attn_out", l>>>>)
           /\ Known(table, "add", <<<<"h_in", l>>, <<"attn_out", l>>>>, <<"1", "h">>,
                    <<<<"h_after_attn", l>>>>)
           /\ Known(table, "rmsnorm", <<<<"h_after_attn", l>>, <<"mlp_norm_gain", l>>>>,
                    <<"1", "h">>, <<<<"normed2", l>>, <<"inv_rms2", l>>>>)
           /\ Known(table, "linear", <<<<"normed2", l>>, <<"w_gate", l>>>>, <<"1", "h",
                    "ffn">>, <<<<"gate", l>>>>)
           /\ Known(table, "linear", <<<<"normed2", l>>, <<"w_up", l>>>>, <<"1", "h",
                    "ffn">>, <<<<"up", l>>>>)
           /\ Known(table, "swiglu", <<<<"gate", l>>, <<"up", l>>>>, <<"1", "ffn">>,
                    <<<<"act", l>>>>)
           /\ Known(table, "linear", <<<<"act", l>>, <<"w_down", l>>>>, <<"1", "ffn", "h">>,
                    <<<<"mlp_out", l>>>>)
           /\ Known(table, "add", <<<<"h_after_attn", l>>, <<"mlp_out", l>>>>, <<"1", "h">>,
                    <<StreamOut(l, ple)>>)
<1>p. PICK rows : rows = "1"
  OBVIOUS
<1> QED
  BY <1>p, LayerForwardKnown

\* And of its own embedding.
LEMMA DecodeInKnown ==
    ASSUME NEW ple \in BOOLEAN, ple, NEW table, table = Results[ple], NEW l \in 1 .. Layers
    PROVE  /\ Known(table, "gather", <<<<"ple", l>>, Tokens>>, <<"1", "h">>, <<<<"ple_row", l>>>>)
           /\ Known(table, "add", <<<<"x", l>>, <<"ple_row", l>>>>, <<"1", "h">>, <<<<"h_in", l>>>>)
<1>p. PICK rows : rows = "1"
  OBVIOUS
<1> QED
  BY <1>p, PleForwardKnown

\* And around the layers.
LEMMA DecodeEndsKnown ==
    ASSUME NEW ple \in BOOLEAN, NEW table, table = Results[ple]
    PROVE  /\ Known(table, "gather", <<Top("embed"), Tokens>>, <<"1", "h">>, <<StreamIn(1, ple)>>)
           /\ Known(table, "rmsnorm", <<Top("h_final"), Top("final_norm_gain")>>, <<"1", "h">>,
                    <<Top("final_normed"), Top("final_inv_rms")>>)
           /\ Known(table, "linear", <<Top("final_normed"), Top("embed")>>, <<"1", "h", "vocab">>,
                    <<Top("logits")>>)
<1>p. PICK rows : rows = "1"
  OBVIOUS
<1> QED
  BY <1>p, ForwardKnown

\* The commands before, between and after.

DecodeIn(l) ==
    <<dispatch_gather(DecoderLayer("ple", l), Decoder("token"), Decoder("ple_row"), "1"),
      dispatch_add_inplace(Decoder("hidden"), Decoder("ple_row"), "1")>>

\* What these are.
LEMMA DecodeInIs ==
    ASSUME NEW l, NEW q, q = DecodeIn(l)
    PROVE  /\ IsSeq(q) /\ Len(q) = 2
           /\ q[1] = dispatch_gather(DecoderLayer("ple", l), Decoder("token"), Decoder("ple_row"),
                 "1")
           /\ q[2] = dispatch_add_inplace(Decoder("hidden"), Decoder("ple_row"), "1")
<1>1. DOMAIN q = 1 .. 2 /\ q = [i \in 1 .. 2 |-> q[i]] /\ 2 \in Nat
  BY DEF DecodeIn
<1>2. IsSeq(q) /\ Len(q) = 2
  BY <1>1, SeqMade
<1> QED
  BY <1>2 DEF DecodeIn

\* They leave what is not an output.
LEMMA DecodeInPasses ==
    ASSUME NEW l, NEW b, \A name \in DecoderOutputs : Decoder(name) # b
    PROVE  Passing(DecodeIn(l), b)
<1> PICK q : q = DecodeIn(l)
  OBVIOUS
<1>0. /\ Decoder("hidden") # b
      /\ Decoder("ple_row") # b
  BY DEF DecoderOutputs, DecoderNames
<1>1. Passes(q[1], b)
  BY <1>0, DecodeInIs, CommandsPass
<1>2. Passes(q[2], b)
  BY <1>0, DecodeInIs, CommandsPass
<1>3. \A i \in 1 .. 2 : i = 1 \/ i = 2
  OBVIOUS
<1> QED
  BY <1>1, <1>2, <1>3, DecodeInIs DEF Passing

\* The layer's own embedding is added to the stream.
LEMMA DecodeInTurn ==
    ASSUME NEW ple \in BOOLEAN, NEW table, table = Results[ple], NEW m, Decodes(m), NEW s, s #
          NoSeq, NEW l \in 1 .. Layers, ple,
           Holds(m, Decoder("token"), Tokens, s),
           Holds(m, Decoder("hidden"), <<"x", l>>, s),
           NEW n, Turns(table, m, DecodeIn(l), n)
    PROVE  Holds(n, Decoder("hidden"), <<"h_in", l>>, s)
<1>h. s # NoSeq
  OBVIOUS
<1>t. ple \in BOOLEAN /\ table = Results[ple]
  OBVIOUS
<1>b. PICK w_ple, b_token, b_ple_row, b_hidden :
        /\ w_ple = DecoderLayer("ple", l)
        /\ b_token = Decoder("token")
        /\ b_ple_row = Decoder("ple_row")
        /\ b_hidden = Decoder("hidden")
  OBVIOUS
<1>v. PICK n_ple, n_ple_row, n_h_in, n_tokens, n_x :
        /\ n_ple = <<"ple", l>>
        /\ n_ple_row = <<"ple_row", l>>
        /\ n_h_in = <<"h_in", l>>
        /\ n_tokens = Tokens
        /\ n_x = <<"x", l>>
  OBVIOUS
<1>c. /\ w_ple[1] = "ple"
      /\ b_token[1] = "token"
      /\ b_ple_row[1] = "ple_row"
      /\ b_hidden[1] = "hidden"
  BY <1>b, LayerIn DEF Scratch, Acts, Decoder, DecoderLayer, EmbedOf, FinalGainOf, InSet
<1>d. /\ w_ple \in DOMAIN m
      /\ b_token \in DOMAIN m
      /\ b_ple_row \in DOMAIN m
      /\ b_hidden \in DOMAIN m
  BY <1>b, LayerWeightsAre DEF Decodes, DecoderNames
<1>s. PICK sq : sq = DecodeIn(l)
  OBVIOUS
<1>q. /\ IsSeq(sq) /\ Len(sq) = 2
      /\ sq[1] = dispatch_gather(w_ple, b_token, b_ple_row, "1")
      /\ sq[2] = dispatch_add_inplace(b_hidden, b_ple_row, "1")
  BY <1>b, <1>s, DecodeInIs
<1>m. PICK mm : /\ mm[0] = m /\ mm[2] = n
                /\ \A i \in 1 .. 2 : mm[i] = Now(table, mm[i - 1], sq[i])
  BY <1>q, <1>s DEF Turns
<1>w. PICK m0, m1, m2 :
        m0 = mm[0] /\ m1 = mm[1] /\ m2 = mm[2]
  OBVIOUS
<1>0. /\ m0 = m /\ DOMAIN m0 = DOMAIN m
      /\ Holds(m0, b_hidden, n_x, s)
      /\ Holds(m0, b_token, n_tokens, s)
      /\ Weighs(m0, w_ple, n_ple)
  BY <1>b, <1>v, <1>m, <1>w, LayerWeightsAre DEF Decodes
<1>1n. m1 = Now(table, m0, dispatch_gather(w_ple, b_token, b_ple_row, "1"))
  <2>1. 1 \in 1 .. 2 /\ 1 - 1 = 0
    OBVIOUS
  <2> QED
    BY <1>m, <1>q, <1>w, <2>1
<1>1w. Wrote(m0, b_ple_row, Value(n_ple_row, s), m1)
  <2>1. Known(table, "gather", <<n_ple, n_tokens>>, <<"1", "h">>, <<n_ple_row>>)
    BY <1>v, <1>t, DecodeInKnown
  <2> QED
    BY ONLY <1>c, <1>d, <1>h, <1>0, <1>1n, <2>1, gatherTurn
<1>1. /\ DOMAIN m1 = DOMAIN m
      /\ Holds(m1, b_hidden, n_x, s)
      /\ Holds(m1, b_ple_row, n_ple_row, s)
  BY ONLY <1>c, <1>d, <1>0, <1>1w DEF Wrote, WroteBoth, Holds, Weighs
<1>2n. m2 = Now(table, m1, dispatch_add_inplace(b_hidden, b_ple_row, "1"))
  <2>1. 2 \in 1 .. 2 /\ 2 - 1 = 1
    OBVIOUS
  <2> QED
    BY <1>m, <1>q, <1>w, <2>1
<1>2w. Wrote(m1, b_hidden, Value(n_h_in, s), m2)
  <2>1. Known(table, "add", <<n_x, n_ple_row>>, <<"1", "h">>, <<n_h_in>>)
    BY <1>v, <1>t, DecodeInKnown
  <2> QED
    BY ONLY <1>c, <1>d, <1>h, <1>1, <1>2n, <2>1, addTurn
<1>2. /\ DOMAIN m2 = DOMAIN m
      /\ Holds(m2, b_hidden, n_h_in, s)
  BY ONLY <1>c, <1>d, <1>1, <1>2w DEF Wrote, WroteBoth, Holds, Weighs
<1>z. mm[2] = n /\ m2 = mm[2]
  BY <1>m, <1>w
<1>y. n = m2
  BY ONLY <1>z
<1> QED
  BY <1>b, <1>v, <1>y, <1>2

DecodeProjections(l, s) ==
    <<dispatch_rmsnorm(Decoder("hidden"), DecoderLayer("attn_norm_gain", l), Decoder("normed"),
              Decoder("inv_rms"), "1"),
      dispatch_linear(Decoder("normed"), DecoderLayer("wq", l), Decoder("q"), "1", "h", "h"),
      dispatch_linear(Decoder("normed"), DecoderLayer("wk", l), Decoder("k"), "1", "h", "kv"),
      dispatch_linear(Decoder("normed"), DecoderLayer("wv", l), Decoder("v"), "1", "h", "kv"),
      dispatch_rope(Decoder("q"), "1", "heads", s, "fwd"),
      dispatch_rope(Decoder("k"), "1", "kv_heads", s, "fwd")>>

\* What these are.
LEMMA DecodeProjectionsIs ==
    ASSUME NEW l, NEW s, NEW q, q = DecodeProjections(l, s)
    PROVE  /\ IsSeq(q) /\ Len(q) = 6
           /\ q[1] = dispatch_rmsnorm(Decoder("hidden"), DecoderLayer("attn_norm_gain", l),
                 Decoder("normed"), Decoder("inv_rms"), "1")
           /\ q[2] = dispatch_linear(Decoder("normed"), DecoderLayer("wq", l), Decoder("q"), "1",
                 "h", "h")
           /\ q[3] = dispatch_linear(Decoder("normed"), DecoderLayer("wk", l), Decoder("k"), "1",
                 "h", "kv")
           /\ q[4] = dispatch_linear(Decoder("normed"), DecoderLayer("wv", l), Decoder("v"), "1",
                 "h", "kv")
           /\ q[5] = dispatch_rope(Decoder("q"), "1", "heads", s, "fwd")
           /\ q[6] = dispatch_rope(Decoder("k"), "1", "kv_heads", s, "fwd")
<1>1. DOMAIN q = 1 .. 6 /\ q = [i \in 1 .. 6 |-> q[i]] /\ 6 \in Nat
  BY DEF DecodeProjections
<1>2. IsSeq(q) /\ Len(q) = 6
  BY <1>1, SeqMade
<1> QED
  BY <1>2 DEF DecodeProjections

\* They leave what is not an output.
LEMMA DecodeProjectionsPasses ==
    ASSUME NEW l, NEW s, NEW b, \A name \in DecoderOutputs : Decoder(name) # b
    PROVE  Passing(DecodeProjections(l, s), b)
<1> PICK q : q = DecodeProjections(l, s)
  OBVIOUS
<1>0. /\ Decoder("inv_rms") # b
      /\ Decoder("k") # b
      /\ Decoder("normed") # b
      /\ Decoder("q") # b
      /\ Decoder("v") # b
  BY DEF DecoderOutputs, DecoderNames
<1>1. Passes(q[1], b)
  BY <1>0, DecodeProjectionsIs, CommandsPass
<1>2. Passes(q[2], b)
  BY <1>0, DecodeProjectionsIs, CommandsPass
<1>3. Passes(q[3], b)
  BY <1>0, DecodeProjectionsIs, CommandsPass
<1>4. Passes(q[4], b)
  BY <1>0, DecodeProjectionsIs, CommandsPass
<1>5. Passes(q[5], b)
  BY <1>0, DecodeProjectionsIs, CommandsPass
<1>6. Passes(q[6], b)
  BY <1>0, DecodeProjectionsIs, CommandsPass
<1>7. \A i \in 1 .. 6 : i = 1 \/ i = 2 \/ i = 3 \/ i = 4 \/ i = 5 \/ i = 6
  OBVIOUS
<1> QED
  BY <1>1, <1>2, <1>3, <1>4, <1>5, <1>6, <1>7, DecodeProjectionsIs DEF Passing

\* A token's query, key and value.
LEMMA DecodeProjectionsTurn ==
    ASSUME NEW ple \in BOOLEAN, NEW table, table = Results[ple], NEW m, Decodes(m), NEW s, s #
          NoSeq, NEW l \in 1 .. Layers,
           Holds(m, Decoder("hidden"), <<"h_in", l>>, s),
           NEW n, Turns(table, m, DecodeProjections(l, s), n)
    PROVE  /\ Holds(n, Decoder("hidden"), <<"h_in", l>>, s)
           /\ Holds(n, Decoder("q"), <<"q", l>>, s)
           /\ Holds(n, Decoder("k"), <<"k", l>>, s)
           /\ Holds(n, Decoder("v"), <<"v", l>>, s)
<1>h. s # NoSeq
  OBVIOUS
<1>t. ple \in BOOLEAN /\ table = Results[ple]
  OBVIOUS
<1>b. PICK b_hidden, w_attn_norm_gain, b_normed, b_inv_rms, w_wq, b_q, w_wk, b_k, w_wv, b_v :
        /\ b_hidden = Decoder("hidden")
        /\ w_attn_norm_gain = DecoderLayer("attn_norm_gain", l)
        /\ b_normed = Decoder("normed")
        /\ b_inv_rms = Decoder("inv_rms")
        /\ w_wq = DecoderLayer("wq", l)
        /\ b_q = Decoder("q")
        /\ w_wk = DecoderLayer("wk", l)
        /\ b_k = Decoder("k")
        /\ w_wv = DecoderLayer("wv", l)
        /\ b_v = Decoder("v")
  OBVIOUS
<1>v. PICK n_attn_norm_gain, n_wq, n_wk, n_wv, n_normed1, n_inv_rms1, n_q_raw, n_k_raw, n_v, n_q,
          n_k, n_h_in :
        /\ n_attn_norm_gain = <<"attn_norm_gain", l>>
        /\ n_wq = <<"wq", l>>
        /\ n_wk = <<"wk", l>>
        /\ n_wv = <<"wv", l>>
        /\ n_normed1 = <<"normed1", l>>
        /\ n_inv_rms1 = <<"inv_rms1", l>>
        /\ n_q_raw = <<"q_raw", l>>
        /\ n_k_raw = <<"k_raw", l>>
        /\ n_v = <<"v", l>>
        /\ n_q = <<"q", l>>
        /\ n_k = <<"k", l>>
        /\ n_h_in = <<"h_in", l>>
  OBVIOUS
<1>c. /\ b_hidden[1] = "hidden"
      /\ w_attn_norm_gain[1] = "attn_norm_gain"
      /\ b_normed[1] = "normed"
      /\ b_inv_rms[1] = "inv_rms"
      /\ w_wq[1] = "wq"
      /\ b_q[1] = "q"
      /\ w_wk[1] = "wk"
      /\ b_k[1] = "k"
      /\ w_wv[1] = "wv"
      /\ b_v[1] = "v"
  BY <1>b, LayerIn DEF Scratch, Acts, Decoder, DecoderLayer, EmbedOf, FinalGainOf, InSet
<1>d. /\ b_hidden \in DOMAIN m
      /\ w_attn_norm_gain \in DOMAIN m
      /\ b_normed \in DOMAIN m
      /\ b_inv_rms \in DOMAIN m
      /\ w_wq \in DOMAIN m
      /\ b_q \in DOMAIN m
      /\ w_wk \in DOMAIN m
      /\ b_k \in DOMAIN m
      /\ w_wv \in DOMAIN m
      /\ b_v \in DOMAIN m
  BY <1>b, LayerWeightsAre DEF Decodes, DecoderNames
<1>s. PICK sq : sq = DecodeProjections(l, s)
  OBVIOUS
<1>q. /\ IsSeq(sq) /\ Len(sq) = 6
      /\ sq[1] = dispatch_rmsnorm(b_hidden, w_attn_norm_gain, b_normed, b_inv_rms, "1")
      /\ sq[2] = dispatch_linear(b_normed, w_wq, b_q, "1", "h", "h")
      /\ sq[3] = dispatch_linear(b_normed, w_wk, b_k, "1", "h", "kv")
      /\ sq[4] = dispatch_linear(b_normed, w_wv, b_v, "1", "h", "kv")
      /\ sq[5] = dispatch_rope(b_q, "1", "heads", s, "fwd")
      /\ sq[6] = dispatch_rope(b_k, "1", "kv_heads", s, "fwd")
  BY <1>b, <1>s, DecodeProjectionsIs
<1>m. PICK mm : /\ mm[0] = m /\ mm[6] = n
                /\ \A i \in 1 .. 6 : mm[i] = Now(table, mm[i - 1], sq[i])
  BY <1>q, <1>s DEF Turns
<1>w. PICK m0, m1, m2, m3, m4, m5, m6 :
        m0 = mm[0] /\ m1 = mm[1] /\ m2 = mm[2] /\ m3 = mm[3] /\ m4 = mm[4] /\ m5 = mm[5] /\ m6 =
              mm[6]
  OBVIOUS
<1>0. /\ m0 = m /\ DOMAIN m0 = DOMAIN m
      /\ Holds(m0, b_hidden, n_h_in, s)
      /\ Weighs(m0, w_attn_norm_gain, n_attn_norm_gain)
      /\ Weighs(m0, w_wk, n_wk)
      /\ Weighs(m0, w_wq, n_wq)
      /\ Weighs(m0, w_wv, n_wv)
  BY <1>b, <1>v, <1>m, <1>w, LayerWeightsAre DEF Decodes
<1>1n. m1 = Now(table, m0, dispatch_rmsnorm(b_hidden, w_attn_norm_gain, b_normed, b_inv_rms, "1"))
  <2>1. 1 \in 1 .. 6 /\ 1 - 1 = 0
    OBVIOUS
  <2> QED
    BY <1>m, <1>q, <1>w, <2>1
<1>1w. WroteBoth(m0, b_normed, Value(n_normed1, s), b_inv_rms, Value(n_inv_rms1, s), m1)
  <2>1. Known(table, "rmsnorm", <<n_h_in, n_attn_norm_gain>>, <<"1", "h">>, <<n_normed1,
            n_inv_rms1>>)
    BY <1>v, <1>t, DecodeLayerKnown
  <2> QED
    BY ONLY <1>c, <1>d, <1>h, <1>0, <1>1n, <2>1, rmsnormTurn
<1>1. /\ DOMAIN m1 = DOMAIN m
      /\ Holds(m1, b_hidden, n_h_in, s)
      /\ Holds(m1, b_normed, n_normed1, s)
      /\ Weighs(m1, w_wk, n_wk)
      /\ Weighs(m1, w_wq, n_wq)
      /\ Weighs(m1, w_wv, n_wv)
  BY ONLY <1>c, <1>d, <1>0, <1>1w DEF Wrote, WroteBoth, Holds, Weighs
<1>2n. m2 = Now(table, m1, dispatch_linear(b_normed, w_wq, b_q, "1", "h", "h"))
  <2>1. 2 \in 1 .. 6 /\ 2 - 1 = 1
    OBVIOUS
  <2> QED
    BY <1>m, <1>q, <1>w, <2>1
<1>2w. Wrote(m1, b_q, Value(n_q_raw, s), m2)
  <2>1. Known(table, "linear", <<n_normed1, n_wq>>, <<"1", "h", "h">>, <<n_q_raw>>)
    BY <1>v, <1>t, DecodeLayerKnown
  <2> QED
    BY ONLY <1>c, <1>d, <1>h, <1>1, <1>2n, <2>1, linearTurn
<1>2. /\ DOMAIN m2 = DOMAIN m
      /\ Holds(m2, b_hidden, n_h_in, s)
      /\ Holds(m2, b_normed, n_normed1, s)
      /\ Holds(m2, b_q, n_q_raw, s)
      /\ Weighs(m2, w_wk, n_wk)
      /\ Weighs(m2, w_wv, n_wv)
  BY ONLY <1>c, <1>d, <1>1, <1>2w DEF Wrote, WroteBoth, Holds, Weighs
<1>3n. m3 = Now(table, m2, dispatch_linear(b_normed, w_wk, b_k, "1", "h", "kv"))
  <2>1. 3 \in 1 .. 6 /\ 3 - 1 = 2
    OBVIOUS
  <2> QED
    BY <1>m, <1>q, <1>w, <2>1
<1>3w. Wrote(m2, b_k, Value(n_k_raw, s), m3)
  <2>1. Known(table, "linear", <<n_normed1, n_wk>>, <<"1", "h", "kv">>, <<n_k_raw>>)
    BY <1>v, <1>t, DecodeLayerKnown
  <2> QED
    BY ONLY <1>c, <1>d, <1>h, <1>2, <1>3n, <2>1, linearTurn
<1>3. /\ DOMAIN m3 = DOMAIN m
      /\ Holds(m3, b_hidden, n_h_in, s)
      /\ Holds(m3, b_k, n_k_raw, s)
      /\ Holds(m3, b_normed, n_normed1, s)
      /\ Holds(m3, b_q, n_q_raw, s)
      /\ Weighs(m3, w_wv, n_wv)
  BY ONLY <1>c, <1>d, <1>2, <1>3w DEF Wrote, WroteBoth, Holds, Weighs
<1>4n. m4 = Now(table, m3, dispatch_linear(b_normed, w_wv, b_v, "1", "h", "kv"))
  <2>1. 4 \in 1 .. 6 /\ 4 - 1 = 3
    OBVIOUS
  <2> QED
    BY <1>m, <1>q, <1>w, <2>1
<1>4w. Wrote(m3, b_v, Value(n_v, s), m4)
  <2>1. Known(table, "linear", <<n_normed1, n_wv>>, <<"1", "h", "kv">>, <<n_v>>)
    BY <1>v, <1>t, DecodeLayerKnown
  <2> QED
    BY ONLY <1>c, <1>d, <1>h, <1>3, <1>4n, <2>1, linearTurn
<1>4. /\ DOMAIN m4 = DOMAIN m
      /\ Holds(m4, b_hidden, n_h_in, s)
      /\ Holds(m4, b_k, n_k_raw, s)
      /\ Holds(m4, b_q, n_q_raw, s)
      /\ Holds(m4, b_v, n_v, s)
  BY ONLY <1>c, <1>d, <1>3, <1>4w DEF Wrote, WroteBoth, Holds, Weighs
<1>5n. m5 = Now(table, m4, dispatch_rope(b_q, "1", "heads", s, "fwd"))
  <2>1. 5 \in 1 .. 6 /\ 5 - 1 = 4
    OBVIOUS
  <2> QED
    BY <1>m, <1>q, <1>w, <2>1
<1>5w. Wrote(m4, b_q, Value(n_q, s), m5)
  <2>1. Known(table, "rope", <<n_q_raw>>, <<"1", "heads", "fwd">>, <<n_q>>)
    BY <1>v, <1>t, DecodeLayerKnown
  <2> QED
    BY ONLY <1>c, <1>d, <1>h, <1>4, <1>5n, <2>1, ropeTurn
<1>5. /\ DOMAIN m5 = DOMAIN m
      /\ Holds(m5, b_hidden, n_h_in, s)
      /\ Holds(m5, b_k, n_k_raw, s)
      /\ Holds(m5, b_q, n_q, s)
      /\ Holds(m5, b_v, n_v, s)
  BY ONLY <1>c, <1>d, <1>4, <1>5w DEF Wrote, WroteBoth, Holds, Weighs
<1>6n. m6 = Now(table, m5, dispatch_rope(b_k, "1", "kv_heads", s, "fwd"))
  <2>1. 6 \in 1 .. 6 /\ 6 - 1 = 5
    OBVIOUS
  <2> QED
    BY <1>m, <1>q, <1>w, <2>1
<1>6w. Wrote(m5, b_k, Value(n_k, s), m6)
  <2>1. Known(table, "rope", <<n_k_raw>>, <<"1", "kv_heads", "fwd">>, <<n_k>>)
    BY <1>v, <1>t, DecodeLayerKnown
  <2> QED
    BY ONLY <1>c, <1>d, <1>h, <1>5, <1>6n, <2>1, ropeTurn
<1>6. /\ DOMAIN m6 = DOMAIN m
      /\ Holds(m6, b_hidden, n_h_in, s)
      /\ Holds(m6, b_k, n_k, s)
      /\ Holds(m6, b_q, n_q, s)
      /\ Holds(m6, b_v, n_v, s)
  BY ONLY <1>c, <1>d, <1>5, <1>6w DEF Wrote, WroteBoth, Holds, Weighs
<1>z. mm[6] = n /\ m6 = mm[6]
  BY <1>m, <1>w
<1>y. n = m6
  BY ONLY <1>z
<1> QED
  BY <1>b, <1>v, <1>y, <1>6

DecodeMlp(l) ==
    <<dispatch_linear(Decoder("attn"), DecoderLayer("wo", l), Decoder("proj"), "1", "h", "h"),
      dispatch_add_inplace(Decoder("hidden"), Decoder("proj"), "1"),
      dispatch_rmsnorm(Decoder("hidden"), DecoderLayer("mlp_norm_gain", l), Decoder("normed"),
            Decoder("inv_rms"), "1"),
      dispatch_linear(Decoder("normed"), DecoderLayer("w_gate", l), Decoder("gate"), "1", "h",
            "ffn"),
      dispatch_linear(Decoder("normed"), DecoderLayer("w_up", l), Decoder("up"), "1", "h", "ffn"),
      dispatch_swiglu(Decoder("gate"), Decoder("up"), Decoder("act"), "1"),
      dispatch_linear(Decoder("act"), DecoderLayer("w_down", l), Decoder("proj"), "1", "ffn", "h"),
      dispatch_add_inplace(Decoder("hidden"), Decoder("proj"), "1")>>

\* What these are.
LEMMA DecodeMlpIs ==
    ASSUME NEW l, NEW q, q = DecodeMlp(l)
    PROVE  /\ IsSeq(q) /\ Len(q) = 8
           /\ q[1] = dispatch_linear(Decoder("attn"), DecoderLayer("wo", l), Decoder("proj"), "1",
                 "h", "h")
           /\ q[2] = dispatch_add_inplace(Decoder("hidden"), Decoder("proj"), "1")
           /\ q[3] = dispatch_rmsnorm(Decoder("hidden"), DecoderLayer("mlp_norm_gain", l),
                 Decoder("normed"), Decoder("inv_rms"), "1")
           /\ q[4] = dispatch_linear(Decoder("normed"), DecoderLayer("w_gate", l), Decoder("gate"),
                 "1", "h", "ffn")
           /\ q[5] = dispatch_linear(Decoder("normed"), DecoderLayer("w_up", l), Decoder("up"), "1",
                 "h", "ffn")
           /\ q[6] = dispatch_swiglu(Decoder("gate"), Decoder("up"), Decoder("act"), "1")
           /\ q[7] = dispatch_linear(Decoder("act"), DecoderLayer("w_down", l), Decoder("proj"),
                 "1", "ffn", "h")
           /\ q[8] = dispatch_add_inplace(Decoder("hidden"), Decoder("proj"), "1")
<1>1. DOMAIN q = 1 .. 8 /\ q = [i \in 1 .. 8 |-> q[i]] /\ 8 \in Nat
  BY DEF DecodeMlp
<1>2. IsSeq(q) /\ Len(q) = 8
  BY <1>1, SeqMade
<1> QED
  BY <1>2 DEF DecodeMlp

\* They leave what is not an output.
LEMMA DecodeMlpPasses ==
    ASSUME NEW l, NEW b, \A name \in DecoderOutputs : Decoder(name) # b
    PROVE  Passing(DecodeMlp(l), b)
<1> PICK q : q = DecodeMlp(l)
  OBVIOUS
<1>0. /\ Decoder("act") # b
      /\ Decoder("gate") # b
      /\ Decoder("hidden") # b
      /\ Decoder("inv_rms") # b
      /\ Decoder("normed") # b
      /\ Decoder("proj") # b
      /\ Decoder("up") # b
  BY DEF DecoderOutputs, DecoderNames
<1>1. Passes(q[1], b)
  BY <1>0, DecodeMlpIs, CommandsPass
<1>2. Passes(q[2], b)
  BY <1>0, DecodeMlpIs, CommandsPass
<1>3. Passes(q[3], b)
  BY <1>0, DecodeMlpIs, CommandsPass
<1>4. Passes(q[4], b)
  BY <1>0, DecodeMlpIs, CommandsPass
<1>5. Passes(q[5], b)
  BY <1>0, DecodeMlpIs, CommandsPass
<1>6. Passes(q[6], b)
  BY <1>0, DecodeMlpIs, CommandsPass
<1>7. Passes(q[7], b)
  BY <1>0, DecodeMlpIs, CommandsPass
<1>8. Passes(q[8], b)
  BY <1>0, DecodeMlpIs, CommandsPass
<1>9. \A i \in 1 .. 8 : i = 1 \/ i = 2 \/ i = 3 \/ i = 4 \/ i = 5 \/ i = 6 \/ i = 7 \/ i = 8
  OBVIOUS
<1> QED
  BY <1>1, <1>2, <1>3, <1>4, <1>5, <1>6, <1>7, <1>8, <1>9, DecodeMlpIs DEF Passing

\* The rest of the layer, from what was attended to.
LEMMA DecodeMlpTurn ==
    ASSUME NEW ple \in BOOLEAN, NEW table, table = Results[ple], NEW m, Decodes(m), NEW s, s #
          NoSeq, NEW l \in 1 .. Layers,
           Holds(m, Decoder("hidden"), <<"h_in", l>>, s),
           Holds(m, Decoder("attn"), <<"concat", l>>, s),
           NEW n, Turns(table, m, DecodeMlp(l), n)
    PROVE  Holds(n, Decoder("hidden"), StreamOut(l, ple), s)
<1>h. s # NoSeq
  OBVIOUS
<1>t. ple \in BOOLEAN /\ table = Results[ple]
  OBVIOUS
<1>b. PICK b_attn, w_wo, b_proj, b_hidden, w_mlp_norm_gain, b_normed, b_inv_rms, w_w_gate, b_gate,
          w_w_up, b_up, b_act, w_w_down :
        /\ b_attn = Decoder("attn")
        /\ w_wo = DecoderLayer("wo", l)
        /\ b_proj = Decoder("proj")
        /\ b_hidden = Decoder("hidden")
        /\ w_mlp_norm_gain = DecoderLayer("mlp_norm_gain", l)
        /\ b_normed = Decoder("normed")
        /\ b_inv_rms = Decoder("inv_rms")
        /\ w_w_gate = DecoderLayer("w_gate", l)
        /\ b_gate = Decoder("gate")
        /\ w_w_up = DecoderLayer("w_up", l)
        /\ b_up = Decoder("up")
        /\ b_act = Decoder("act")
        /\ w_w_down = DecoderLayer("w_down", l)
  OBVIOUS
<1>v. PICK n_wo, n_mlp_norm_gain, n_w_gate, n_w_up, n_w_down, n_attn_out, n_h_after_attn, n_normed2,
          n_inv_rms2, n_gate, n_up, n_act, n_mlp_out, n_out, n_h_in, n_concat :
        /\ n_wo = <<"wo", l>>
        /\ n_mlp_norm_gain = <<"mlp_norm_gain", l>>
        /\ n_w_gate = <<"w_gate", l>>
        /\ n_w_up = <<"w_up", l>>
        /\ n_w_down = <<"w_down", l>>
        /\ n_attn_out = <<"attn_out", l>>
        /\ n_h_after_attn = <<"h_after_attn", l>>
        /\ n_normed2 = <<"normed2", l>>
        /\ n_inv_rms2 = <<"inv_rms2", l>>
        /\ n_gate = <<"gate", l>>
        /\ n_up = <<"up", l>>
        /\ n_act = <<"act", l>>
        /\ n_mlp_out = <<"mlp_out", l>>
        /\ n_out = StreamOut(l, ple)
        /\ n_h_in = <<"h_in", l>>
        /\ n_concat = <<"concat", l>>
  OBVIOUS
<1>c. /\ b_attn[1] = "attn"
      /\ w_wo[1] = "wo"
      /\ b_proj[1] = "proj"
      /\ b_hidden[1] = "hidden"
      /\ w_mlp_norm_gain[1] = "mlp_norm_gain"
      /\ b_normed[1] = "normed"
      /\ b_inv_rms[1] = "inv_rms"
      /\ w_w_gate[1] = "w_gate"
      /\ b_gate[1] = "gate"
      /\ w_w_up[1] = "w_up"
      /\ b_up[1] = "up"
      /\ b_act[1] = "act"
      /\ w_w_down[1] = "w_down"
  BY <1>b, LayerIn DEF Scratch, Acts, Decoder, DecoderLayer, EmbedOf, FinalGainOf, InSet
<1>d. /\ b_attn \in DOMAIN m
      /\ w_wo \in DOMAIN m
      /\ b_proj \in DOMAIN m
      /\ b_hidden \in DOMAIN m
      /\ w_mlp_norm_gain \in DOMAIN m
      /\ b_normed \in DOMAIN m
      /\ b_inv_rms \in DOMAIN m
      /\ w_w_gate \in DOMAIN m
      /\ b_gate \in DOMAIN m
      /\ w_w_up \in DOMAIN m
      /\ b_up \in DOMAIN m
      /\ b_act \in DOMAIN m
      /\ w_w_down \in DOMAIN m
  BY <1>b, LayerWeightsAre DEF Decodes, DecoderNames
<1>s. PICK sq : sq = DecodeMlp(l)
  OBVIOUS
<1>q. /\ IsSeq(sq) /\ Len(sq) = 8
      /\ sq[1] = dispatch_linear(b_attn, w_wo, b_proj, "1", "h", "h")
      /\ sq[2] = dispatch_add_inplace(b_hidden, b_proj, "1")
      /\ sq[3] = dispatch_rmsnorm(b_hidden, w_mlp_norm_gain, b_normed, b_inv_rms, "1")
      /\ sq[4] = dispatch_linear(b_normed, w_w_gate, b_gate, "1", "h", "ffn")
      /\ sq[5] = dispatch_linear(b_normed, w_w_up, b_up, "1", "h", "ffn")
      /\ sq[6] = dispatch_swiglu(b_gate, b_up, b_act, "1")
      /\ sq[7] = dispatch_linear(b_act, w_w_down, b_proj, "1", "ffn", "h")
      /\ sq[8] = dispatch_add_inplace(b_hidden, b_proj, "1")
  BY <1>b, <1>s, DecodeMlpIs
<1>m. PICK mm : /\ mm[0] = m /\ mm[8] = n
                /\ \A i \in 1 .. 8 : mm[i] = Now(table, mm[i - 1], sq[i])
  BY <1>q, <1>s DEF Turns
<1>w. PICK m0, m1, m2, m3, m4, m5, m6, m7, m8 :
        m0 = mm[0] /\ m1 = mm[1] /\ m2 = mm[2] /\ m3 = mm[3] /\ m4 = mm[4] /\ m5 = mm[5] /\ m6 =
              mm[6] /\ m7 = mm[7] /\ m8 = mm[8]
  OBVIOUS
<1>0. /\ m0 = m /\ DOMAIN m0 = DOMAIN m
      /\ Holds(m0, b_attn, n_concat, s)
      /\ Holds(m0, b_hidden, n_h_in, s)
      /\ Weighs(m0, w_mlp_norm_gain, n_mlp_norm_gain)
      /\ Weighs(m0, w_w_down, n_w_down)
      /\ Weighs(m0, w_w_gate, n_w_gate)
      /\ Weighs(m0, w_w_up, n_w_up)
      /\ Weighs(m0, w_wo, n_wo)
  BY <1>b, <1>v, <1>m, <1>w, LayerWeightsAre DEF Decodes
<1>1n. m1 = Now(table, m0, dispatch_linear(b_attn, w_wo, b_proj, "1", "h", "h"))
  <2>1. 1 \in 1 .. 8 /\ 1 - 1 = 0
    OBVIOUS
  <2> QED
    BY <1>m, <1>q, <1>w, <2>1
<1>1w. Wrote(m0, b_proj, Value(n_attn_out, s), m1)
  <2>1. Known(table, "linear", <<n_concat, n_wo>>, <<"1", "h", "h">>, <<n_attn_out>>)
    BY <1>v, <1>t, DecodeLayerKnown
  <2> QED
    BY ONLY <1>c, <1>d, <1>h, <1>0, <1>1n, <2>1, linearTurn
<1>1. /\ DOMAIN m1 = DOMAIN m
      /\ Holds(m1, b_hidden, n_h_in, s)
      /\ Holds(m1, b_proj, n_attn_out, s)
      /\ Weighs(m1, w_mlp_norm_gain, n_mlp_norm_gain)
      /\ Weighs(m1, w_w_down, n_w_down)
      /\ Weighs(m1, w_w_gate, n_w_gate)
      /\ Weighs(m1, w_w_up, n_w_up)
  BY ONLY <1>c, <1>d, <1>0, <1>1w DEF Wrote, WroteBoth, Holds, Weighs
<1>2n. m2 = Now(table, m1, dispatch_add_inplace(b_hidden, b_proj, "1"))
  <2>1. 2 \in 1 .. 8 /\ 2 - 1 = 1
    OBVIOUS
  <2> QED
    BY <1>m, <1>q, <1>w, <2>1
<1>2w. Wrote(m1, b_hidden, Value(n_h_after_attn, s), m2)
  <2>1. Known(table, "add", <<n_h_in, n_attn_out>>, <<"1", "h">>, <<n_h_after_attn>>)
    BY <1>v, <1>t, DecodeLayerKnown
  <2> QED
    BY ONLY <1>c, <1>d, <1>h, <1>1, <1>2n, <2>1, addTurn
<1>2. /\ DOMAIN m2 = DOMAIN m
      /\ Holds(m2, b_hidden, n_h_after_attn, s)
      /\ Weighs(m2, w_mlp_norm_gain, n_mlp_norm_gain)
      /\ Weighs(m2, w_w_down, n_w_down)
      /\ Weighs(m2, w_w_gate, n_w_gate)
      /\ Weighs(m2, w_w_up, n_w_up)
  BY ONLY <1>c, <1>d, <1>1, <1>2w DEF Wrote, WroteBoth, Holds, Weighs
<1>3n. m3 = Now(table, m2, dispatch_rmsnorm(b_hidden, w_mlp_norm_gain, b_normed, b_inv_rms, "1"))
  <2>1. 3 \in 1 .. 8 /\ 3 - 1 = 2
    OBVIOUS
  <2> QED
    BY <1>m, <1>q, <1>w, <2>1
<1>3w. WroteBoth(m2, b_normed, Value(n_normed2, s), b_inv_rms, Value(n_inv_rms2, s), m3)
  <2>1. Known(table, "rmsnorm", <<n_h_after_attn, n_mlp_norm_gain>>, <<"1", "h">>, <<n_normed2,
            n_inv_rms2>>)
    BY <1>v, <1>t, DecodeLayerKnown
  <2> QED
    BY ONLY <1>c, <1>d, <1>h, <1>2, <1>3n, <2>1, rmsnormTurn
<1>3. /\ DOMAIN m3 = DOMAIN m
      /\ Holds(m3, b_hidden, n_h_after_attn, s)
      /\ Holds(m3, b_normed, n_normed2, s)
      /\ Weighs(m3, w_w_down, n_w_down)
      /\ Weighs(m3, w_w_gate, n_w_gate)
      /\ Weighs(m3, w_w_up, n_w_up)
  BY ONLY <1>c, <1>d, <1>2, <1>3w DEF Wrote, WroteBoth, Holds, Weighs
<1>4n. m4 = Now(table, m3, dispatch_linear(b_normed, w_w_gate, b_gate, "1", "h", "ffn"))
  <2>1. 4 \in 1 .. 8 /\ 4 - 1 = 3
    OBVIOUS
  <2> QED
    BY <1>m, <1>q, <1>w, <2>1
<1>4w. Wrote(m3, b_gate, Value(n_gate, s), m4)
  <2>1. Known(table, "linear", <<n_normed2, n_w_gate>>, <<"1", "h", "ffn">>, <<n_gate>>)
    BY <1>v, <1>t, DecodeLayerKnown
  <2> QED
    BY ONLY <1>c, <1>d, <1>h, <1>3, <1>4n, <2>1, linearTurn
<1>4. /\ DOMAIN m4 = DOMAIN m
      /\ Holds(m4, b_gate, n_gate, s)
      /\ Holds(m4, b_hidden, n_h_after_attn, s)
      /\ Holds(m4, b_normed, n_normed2, s)
      /\ Weighs(m4, w_w_down, n_w_down)
      /\ Weighs(m4, w_w_up, n_w_up)
  BY ONLY <1>c, <1>d, <1>3, <1>4w DEF Wrote, WroteBoth, Holds, Weighs
<1>5n. m5 = Now(table, m4, dispatch_linear(b_normed, w_w_up, b_up, "1", "h", "ffn"))
  <2>1. 5 \in 1 .. 8 /\ 5 - 1 = 4
    OBVIOUS
  <2> QED
    BY <1>m, <1>q, <1>w, <2>1
<1>5w. Wrote(m4, b_up, Value(n_up, s), m5)
  <2>1. Known(table, "linear", <<n_normed2, n_w_up>>, <<"1", "h", "ffn">>, <<n_up>>)
    BY <1>v, <1>t, DecodeLayerKnown
  <2> QED
    BY ONLY <1>c, <1>d, <1>h, <1>4, <1>5n, <2>1, linearTurn
<1>5. /\ DOMAIN m5 = DOMAIN m
      /\ Holds(m5, b_gate, n_gate, s)
      /\ Holds(m5, b_hidden, n_h_after_attn, s)
      /\ Holds(m5, b_up, n_up, s)
      /\ Weighs(m5, w_w_down, n_w_down)
  BY ONLY <1>c, <1>d, <1>4, <1>5w DEF Wrote, WroteBoth, Holds, Weighs
<1>6n. m6 = Now(table, m5, dispatch_swiglu(b_gate, b_up, b_act, "1"))
  <2>1. 6 \in 1 .. 8 /\ 6 - 1 = 5
    OBVIOUS
  <2> QED
    BY <1>m, <1>q, <1>w, <2>1
<1>6w. Wrote(m5, b_act, Value(n_act, s), m6)
  <2>1. Known(table, "swiglu", <<n_gate, n_up>>, <<"1", "ffn">>, <<n_act>>)
    BY <1>v, <1>t, DecodeLayerKnown
  <2> QED
    BY ONLY <1>c, <1>d, <1>h, <1>5, <1>6n, <2>1, swigluTurn
<1>6. /\ DOMAIN m6 = DOMAIN m
      /\ Holds(m6, b_act, n_act, s)
      /\ Holds(m6, b_hidden, n_h_after_attn, s)
      /\ Weighs(m6, w_w_down, n_w_down)
  BY ONLY <1>c, <1>d, <1>5, <1>6w DEF Wrote, WroteBoth, Holds, Weighs
<1>7n. m7 = Now(table, m6, dispatch_linear(b_act, w_w_down, b_proj, "1", "ffn", "h"))
  <2>1. 7 \in 1 .. 8 /\ 7 - 1 = 6
    OBVIOUS
  <2> QED
    BY <1>m, <1>q, <1>w, <2>1
<1>7w. Wrote(m6, b_proj, Value(n_mlp_out, s), m7)
  <2>1. Known(table, "linear", <<n_act, n_w_down>>, <<"1", "ffn", "h">>, <<n_mlp_out>>)
    BY <1>v, <1>t, DecodeLayerKnown
  <2> QED
    BY ONLY <1>c, <1>d, <1>h, <1>6, <1>7n, <2>1, linearTurn
<1>7. /\ DOMAIN m7 = DOMAIN m
      /\ Holds(m7, b_hidden, n_h_after_attn, s)
      /\ Holds(m7, b_proj, n_mlp_out, s)
  BY ONLY <1>c, <1>d, <1>6, <1>7w DEF Wrote, WroteBoth, Holds, Weighs
<1>8n. m8 = Now(table, m7, dispatch_add_inplace(b_hidden, b_proj, "1"))
  <2>1. 8 \in 1 .. 8 /\ 8 - 1 = 7
    OBVIOUS
  <2> QED
    BY <1>m, <1>q, <1>w, <2>1
<1>8w. Wrote(m7, b_hidden, Value(n_out, s), m8)
  <2>1. Known(table, "add", <<n_h_after_attn, n_mlp_out>>, <<"1", "h">>, <<n_out>>)
    BY <1>v, <1>t, DecodeLayerKnown
  <2> QED
    BY ONLY <1>c, <1>d, <1>h, <1>7, <1>8n, <2>1, addTurn
<1>8. /\ DOMAIN m8 = DOMAIN m
      /\ Holds(m8, b_hidden, n_out, s)
  BY ONLY <1>c, <1>d, <1>7, <1>8w DEF Wrote, WroteBoth, Holds, Weighs
<1>z. mm[8] = n /\ m8 = mm[8]
  BY <1>m, <1>w
<1>y. n = m8
  BY ONLY <1>z
<1> QED
  BY <1>b, <1>v, <1>y, <1>8

DecodeOut ==
    <<dispatch_rmsnorm(Decoder("hidden"), Decoder("final_norm_gain"), Decoder("normed"),
              Decoder("inv_rms"), "1"),
      dispatch_linear(Decoder("normed"), Decoder("embed"), Decoder("logits"), "1", "h", "vocab"),
      Copy(Decoder("logits"), Decoder("logits_read"))>>

\* What these are.
LEMMA DecodeOutIs ==
    ASSUME NEW q, q = DecodeOut
    PROVE  /\ IsSeq(q) /\ Len(q) = 3
           /\ q[1] = dispatch_rmsnorm(Decoder("hidden"), Decoder("final_norm_gain"),
                 Decoder("normed"), Decoder("inv_rms"), "1")
           /\ q[2] = dispatch_linear(Decoder("normed"), Decoder("embed"), Decoder("logits"), "1",
                 "h", "vocab")
           /\ q[3] = Copy(Decoder("logits"), Decoder("logits_read"))
<1>1. DOMAIN q = 1 .. 3 /\ q = [i \in 1 .. 3 |-> q[i]] /\ 3 \in Nat
  BY DEF DecodeOut
<1>2. IsSeq(q) /\ Len(q) = 3
  BY <1>1, SeqMade
<1> QED
  BY <1>2 DEF DecodeOut

\* They leave what is not an output.
LEMMA DecodeOutPasses ==
    ASSUME NEW b, \A name \in DecoderOutputs : Decoder(name) # b
    PROVE  Passing(DecodeOut, b)
<1> PICK q : q = DecodeOut
  OBVIOUS
<1>0. /\ Decoder("inv_rms") # b
      /\ Decoder("logits") # b
      /\ Decoder("logits_read") # b
      /\ Decoder("normed") # b
  BY DEF DecoderOutputs, DecoderNames
<1>1. Passes(q[1], b)
  BY <1>0, DecodeOutIs, CommandsPass
<1>2. Passes(q[2], b)
  BY <1>0, DecodeOutIs, CommandsPass
<1>3. Passes(q[3], b)
  BY <1>0, DecodeOutIs, CommandsPass
<1>4. \A i \in 1 .. 3 : i = 1 \/ i = 2 \/ i = 3
  OBVIOUS
<1> QED
  BY <1>1, <1>2, <1>3, <1>4, DecodeOutIs DEF Passing

\* The logits are the model's.
LEMMA DecodeOutTurn ==
    ASSUME NEW ple \in BOOLEAN, NEW table, table = Results[ple], NEW m, Decodes(m), NEW s, s #
          NoSeq,
           Holds(m, Decoder("hidden"), Top("h_final"), s),
           NEW n, Turns(table, m, DecodeOut, n)
    PROVE  Holds(n, Decoder("logits_read"), Top("logits"), s)
<1>h. s # NoSeq
  OBVIOUS
<1>t. ple \in BOOLEAN /\ table = Results[ple]
  OBVIOUS
<1>b. PICK b_hidden, e_gain, b_normed, b_inv_rms, e_embed, b_logits, b_logits_read :
        /\ b_hidden = Decoder("hidden")
        /\ e_gain = Decoder("final_norm_gain")
        /\ b_normed = Decoder("normed")
        /\ b_inv_rms = Decoder("inv_rms")
        /\ e_embed = Decoder("embed")
        /\ b_logits = Decoder("logits")
        /\ b_logits_read = Decoder("logits_read")
  OBVIOUS
<1>v. PICK n_final_norm_gain, n_embed, n_final_normed, n_final_inv_rms, n_logits, n_h_final :
        /\ n_final_norm_gain = Top("final_norm_gain")
        /\ n_embed = Top("embed")
        /\ n_final_normed = Top("final_normed")
        /\ n_final_inv_rms = Top("final_inv_rms")
        /\ n_logits = Top("logits")
        /\ n_h_final = Top("h_final")
  OBVIOUS
<1>c. /\ b_hidden[1] = "hidden"
      /\ e_gain[1] = "final_norm_gain"
      /\ b_normed[1] = "normed"
      /\ b_inv_rms[1] = "inv_rms"
      /\ e_embed[1] = "embed"
      /\ b_logits[1] = "logits"
      /\ b_logits_read[1] = "logits_read"
  BY <1>b, LayerIn DEF Scratch, Acts, Decoder, DecoderLayer, EmbedOf, FinalGainOf, InSet
<1>d. /\ b_hidden \in DOMAIN m
      /\ e_gain \in DOMAIN m
      /\ b_normed \in DOMAIN m
      /\ b_inv_rms \in DOMAIN m
      /\ e_embed \in DOMAIN m
      /\ b_logits \in DOMAIN m
      /\ b_logits_read \in DOMAIN m
  BY <1>b, LayerWeightsAre DEF Decodes, DecoderNames
<1>s. PICK sq : sq = DecodeOut
  OBVIOUS
<1>q. /\ IsSeq(sq) /\ Len(sq) = 3
      /\ sq[1] = dispatch_rmsnorm(b_hidden, e_gain, b_normed, b_inv_rms, "1")
      /\ sq[2] = dispatch_linear(b_normed, e_embed, b_logits, "1", "h", "vocab")
      /\ sq[3] = Copy(b_logits, b_logits_read)
  BY <1>b, <1>s, DecodeOutIs
<1>m. PICK mm : /\ mm[0] = m /\ mm[3] = n
                /\ \A i \in 1 .. 3 : mm[i] = Now(table, mm[i - 1], sq[i])
  BY <1>q, <1>s DEF Turns
<1>w. PICK m0, m1, m2, m3 :
        m0 = mm[0] /\ m1 = mm[1] /\ m2 = mm[2] /\ m3 = mm[3]
  OBVIOUS
<1>0. /\ m0 = m /\ DOMAIN m0 = DOMAIN m
      /\ Holds(m0, b_hidden, n_h_final, s)
      /\ Weighs(m0, e_embed, n_embed)
      /\ Weighs(m0, e_gain, n_final_norm_gain)
  BY <1>b, <1>v, <1>m, <1>w, LayerWeightsAre DEF Decodes
<1>1n. m1 = Now(table, m0, dispatch_rmsnorm(b_hidden, e_gain, b_normed, b_inv_rms, "1"))
  <2>1. 1 \in 1 .. 3 /\ 1 - 1 = 0
    OBVIOUS
  <2> QED
    BY <1>m, <1>q, <1>w, <2>1
<1>1w. WroteBoth(m0, b_normed, Value(n_final_normed, s), b_inv_rms, Value(n_final_inv_rms, s), m1)
  <2>1. Known(table, "rmsnorm", <<n_h_final, n_final_norm_gain>>, <<"1", "h">>, <<n_final_normed,
            n_final_inv_rms>>)
    BY <1>v, <1>t, DecodeEndsKnown
  <2> QED
    BY ONLY <1>c, <1>d, <1>h, <1>0, <1>1n, <2>1, rmsnormTurn
<1>1. /\ DOMAIN m1 = DOMAIN m
      /\ Holds(m1, b_normed, n_final_normed, s)
      /\ Weighs(m1, e_embed, n_embed)
  BY ONLY <1>c, <1>d, <1>0, <1>1w DEF Wrote, WroteBoth, Holds, Weighs
<1>2n. m2 = Now(table, m1, dispatch_linear(b_normed, e_embed, b_logits, "1", "h", "vocab"))
  <2>1. 2 \in 1 .. 3 /\ 2 - 1 = 1
    OBVIOUS
  <2> QED
    BY <1>m, <1>q, <1>w, <2>1
<1>2w. Wrote(m1, b_logits, Value(n_logits, s), m2)
  <2>1. Known(table, "linear", <<n_final_normed, n_embed>>, <<"1", "h", "vocab">>, <<n_logits>>)
    BY <1>v, <1>t, DecodeEndsKnown
  <2> QED
    BY ONLY <1>c, <1>d, <1>h, <1>1, <1>2n, <2>1, linearTurn
<1>2. /\ DOMAIN m2 = DOMAIN m
      /\ Holds(m2, b_logits, n_logits, s)
  BY ONLY <1>c, <1>d, <1>1, <1>2w DEF Wrote, WroteBoth, Holds, Weighs
<1>3n. m3 = Now(table, m2, Copy(b_logits, b_logits_read))
  <2>1. 3 \in 1 .. 3 /\ 3 - 1 = 2
    OBVIOUS
  <2> QED
    BY <1>m, <1>q, <1>w, <2>1
<1>3w. Wrote(m2, b_logits_read, m2[b_logits], m3)
  BY ONLY <1>2, <1>d, <1>3n, Copies
<1>3. /\ DOMAIN m3 = DOMAIN m
      /\ Holds(m3, b_logits_read, n_logits, s)
  BY ONLY <1>c, <1>d, <1>2, <1>3w DEF Wrote, WroteBoth, Holds, Weighs
<1>z. mm[3] = n /\ m3 = mm[3]
  BY <1>m, <1>w
<1>y. n = m3
  BY ONLY <1>z
<1> QED
  BY <1>b, <1>v, <1>y, <1>3

\* A copy into a slot of a ring leaves the others.
Slotted(m, c, slot, v, n) ==
    /\ DOMAIN n = DOMAIN m /\ DOMAIN n[c] = DOMAIN m[c]
    /\ \A i \in DOMAIN m[c] : n[c][i] = IF i = slot THEN v ELSE m[c][i]
    /\ \A b \in DOMAIN m : b # c => n[b] = m[b]

\* What such a copy does.
LEMMA SlotCopied ==
    ASSUME NEW table, NEW m, NEW x, NEW y, y \in DOMAIN m, NEW slot
    PROVE  Slotted(m, y, slot, m[x], Now(table, m, CopyToSlot(x, y, slot)))
<1> PICK c : c = CopyToSlot(x, y, slot)
  OBVIOUS
<1>1. c.do = "copy" /\ c.op = "copy_to_slot" /\ c.slot = slot /\ c.reads[1] = x /\ c.writes[1] = y
  BY DEF CopyToSlot
<1>2. Now(table, m, c) = CopiedToSlot(m, c)
  <2>1. Now(table, m, c) = Execute(table, << >>, m, c)
    BY <1>1 DEF Now
  <2>2. Execute(table, << >>, m, c) = CopiedToSlot(m, c)
    BY <1>1 DEF Execute, Computing, Accumulating
  <2> QED
    BY <2>1, <2>2
<1>3. CopiedToSlot(m, c) = [m EXCEPT ![y][slot] = m[x]]
  BY <1>1 DEF CopiedToSlot
<1> QED
  BY <1>2, <1>3 DEF Slotted

\* Every slot of a layer's rings up to len holds its keys and values, one of them aside.
SlotIs(m, l, i) ==
    /\ m[DecoderLayer("k_cache", l)][i].of = <<"k", l>>
    /\ m[DecoderLayer("v_cache", l)][i].of = <<"v", l>>
CachedBut(m, l, slot, len) == \A i \in 0 .. len - 1 : i = slot \/ SlotIs(m, l, i)
Cached(m, l, len) == \A i \in 0 .. len - 1 : SlotIs(m, l, i)

\* A query attends to the keys and values of its layer.
LEMMA Attends ==
    ASSUME NEW table, NEW m, NEW s, NEW l, NEW len,
           Holds(m, Decoder("q"), <<"q", l>>, s), Cached(m, l, len), Decoder("attn") \in DOMAIN m
    PROVE  Wrote(m, Decoder("attn"), Value(<<"concat", l>>, s),
                 Now(table, m, dispatch_attention_decode(Decoder("q"), DecoderLayer("k_cache", l),
                                   DecoderLayer("v_cache", l), Decoder("attn"), len)))
<1> PICK x, y, z, a, t : /\ x = Decoder("q") /\ y = DecoderLayer("k_cache", l)
                         /\ z = DecoderLayer("v_cache", l) /\ a = Decoder("attn")
                         /\ t = <<"concat", l>>
  OBVIOUS
<1> PICK reads, writes, dims : reads = <<x, y, z>> /\ writes = <<a>> /\ dims = <<len>>
  OBVIOUS
<1>1. PICK c, p : /\ c = Dispatch("attention_decode", dims, NoSeq, reads, writes)
                  /\ c.do = "dispatch" /\ c.op = "attention_decode" /\ c.params = p
                  /\ c.reads = reads /\ c.writes = writes /\ p.dims = dims /\ p.seq = NoSeq
  BY DispatchIs
<1>2. Now(table, m, c) = Decoded(m, c, p)
  <2>1. Now(table, m, c) = Execute(table, p, m, c)
    BY <1>1 DEF Now
  <2>2. Execute(table, p, m, c) = Decoded(m, c, p)
    BY <1>1 DEF Execute, Computing, Accumulating
  <2> QED
    BY <2>1, <2>2
<1>3. /\ c.reads[1] = x /\ c.reads[2] = y /\ c.reads[3] = z /\ c.writes[1] = a /\ p.dims[1] = len
  BY <1>1
<1> PICK q, o : q = m[x] /\ o = q.of
  OBVIOUS
<1>4. o = <<"q", l>> /\ q.seq = s /\ o[1] = "q" /\ o[2] = l
  BY DEF Holds, Value
<1>5. /\ \A i \in 0 .. len - 1 : m[y][i].of = <<"k", l>>
      /\ \A i \in 0 .. len - 1 : m[z][i].of = <<"v", l>>
  BY DEF Cached, SlotIs
<1>6. Attended(m, c, p) = Value(t, s)
  BY <1>3, <1>4, <1>5 DEF Attended
<1>7. Now(table, m, c) = [m EXCEPT ![a] = Value(t, s)]
  BY <1>2, <1>3, <1>6 DEF Decoded
<1>8. Wrote(m, a, Value(t, s), Now(table, m, c))
  BY <1>7 DEF Wrote
<1>9. c = dispatch_attention_decode(x, y, z, a, len)
  BY <1>1 DEF dispatch_attention_decode
<1> QED
  BY <1>8, <1>9

\* What attending is made of.
LEMMA AttendIs ==
    ASSUME NEW l, NEW slot, NEW len, NEW q, q = Attend(l, slot, len)
    PROVE  /\ IsSeq(q) /\ Len(q) = 3
           /\ q[1] = CopyToSlot(Decoder("k"), DecoderLayer("k_cache", l), slot)
           /\ q[2] = CopyToSlot(Decoder("v"), DecoderLayer("v_cache", l), slot)
           /\ q[3] = dispatch_attention_decode(Decoder("q"), DecoderLayer("k_cache", l),
                         DecoderLayer("v_cache", l), Decoder("attn"), len)
<1>1. DOMAIN q = 1 .. 3 /\ q = [i \in 1 .. 3 |-> q[i]] /\ 3 \in Nat
  BY DEF Attend
<1>2. IsSeq(q) /\ Len(q) = 3
  BY <1>1, SeqMade
<1> QED
  BY <1>2 DEF Attend

\* It leaves what is neither the layer's rings nor its output.
LEMMA AttendPasses ==
    ASSUME NEW l, NEW slot, NEW len, NEW b, Decoder("attn") # b,
           DecoderLayer("k_cache", l) # b, DecoderLayer("v_cache", l) # b
    PROVE  Passing(Attend(l, slot, len), b)
<1> PICK q : q = Attend(l, slot, len)
  OBVIOUS
<1>1. Passes(q[1], b)
  BY AttendIs, CommandsPass
<1>2. Passes(q[2], b)
  BY AttendIs, CommandsPass
<1>3. Passes(q[3], b)
  BY AttendIs, CommandsPass
<1>4. \A i \in 1 .. 3 : i = 1 \/ i = 2 \/ i = 3
  OBVIOUS
<1> QED
  BY <1>1, <1>2, <1>3, <1>4, AttendIs DEF Passing

\* What attending leaves: its result, and the layer's rings filled.
AttendedTo(n, l, s, len) ==
    /\ Holds(n, Decoder("attn"), <<"concat", l>>, s) /\ Cached(n, l, len)
    /\ DOMAIN n[DecoderLayer("k_cache", l)] = 0 .. Capacity - 1
    /\ DOMAIN n[DecoderLayer("v_cache", l)] = 0 .. Capacity - 1

\* The token's key and value take their slot, and all the slots are attended to.
LEMMA AttendTurn ==
    ASSUME NEW table, NEW m, Decodes(m), NEW s, NEW l \in 1 .. Layers,
           NEW slot \in 0 .. Capacity - 1, NEW len \in 0 .. Capacity, CachedBut(m, l, slot, len),
           Holds(m, Decoder("q"), <<"q", l>>, s), Holds(m, Decoder("k"), <<"k", l>>, s),
           Holds(m, Decoder("v"), <<"v", l>>, s),
           NEW n, Turns(table, m, Attend(l, slot, len), n)
    PROVE  AttendedTo(n, l, s, len)
<1>b. PICK q, k, v, a, y, z :
        /\ q = Decoder("q") /\ k = Decoder("k") /\ v = Decoder("v") /\ a = Decoder("attn")
        /\ y = DecoderLayer("k_cache", l) /\ z = DecoderLayer("v_cache", l)
  OBVIOUS
<1>c. /\ q[1] = "q" /\ k[1] = "k" /\ v[1] = "v" /\ a[1] = "attn" /\ y[1] = "k_cache"
      /\ z[1] = "v_cache"
  BY <1>b DEF Decoder, DecoderLayer
<1>d. /\ q \in DOMAIN m /\ k \in DOMAIN m /\ v \in DOMAIN m /\ a \in DOMAIN m
      /\ y \in DOMAIN m /\ z \in DOMAIN m
      /\ DOMAIN m[y] = 0 .. Capacity - 1 /\ DOMAIN m[z] = 0 .. Capacity - 1
  BY <1>b DEF Decodes, DecoderNames
<1>s. PICK sq : sq = Attend(l, slot, len)
  OBVIOUS
<1>q. /\ Len(sq) = 3 /\ sq[1] = CopyToSlot(k, y, slot) /\ sq[2] = CopyToSlot(v, z, slot)
      /\ sq[3] = dispatch_attention_decode(q, y, z, a, len)
  BY <1>b, <1>s, AttendIs
<1>m. PICK mm : /\ mm[0] = m /\ mm[3] = n
                /\ \A i \in 1 .. 3 : mm[i] = Now(table, mm[i - 1], sq[i])
  BY <1>q, <1>s DEF Turns
<1> PICK m1, m2 : m1 = mm[1] /\ m2 = mm[2]
  OBVIOUS
<1>1. m1 = Now(table, m, CopyToSlot(k, y, slot))
  <2>1. 1 \in 1 .. 3 /\ 1 - 1 = 0
    OBVIOUS
  <2> QED
    BY <1>m, <1>q, <2>1
<1>2. m2 = Now(table, m1, CopyToSlot(v, z, slot))
  <2>1. 2 \in 1 .. 3 /\ 2 - 1 = 1
    OBVIOUS
  <2> QED
    BY <1>m, <1>q, <2>1
<1>3. n = Now(table, m2, dispatch_attention_decode(q, y, z, a, len))
  <2>1. 3 \in 1 .. 3 /\ 3 - 1 = 2
    OBVIOUS
  <2> QED
    BY <1>m, <1>q, <2>1
<1>4. Slotted(m, y, slot, m[k], m1)
  BY ONLY <1>1, <1>d, SlotCopied
<1>5. z \in DOMAIN m1
  BY <1>4, <1>d DEF Slotted
<1>6. Slotted(m1, z, slot, m1[v], m2)
  BY ONLY <1>2, <1>5, SlotCopied
<1>7. /\ m2[q] = m[q] /\ a \in DOMAIN m2 /\ y \in DOMAIN m2 /\ z \in DOMAIN m2
      /\ DOMAIN m2[y] = 0 .. Capacity - 1 /\ DOMAIN m2[z] = 0 .. Capacity - 1
      /\ \A i \in 0 .. Capacity - 1 : /\ m2[y][i] = IF i = slot THEN m[k] ELSE m[y][i]
                                      /\ m2[z][i] = IF i = slot THEN m[v] ELSE m[z][i]
  BY ONLY <1>4, <1>6, <1>c, <1>d, ZenonT(60) DEF Slotted
<1>8. m[k].of = <<"k", l>> /\ m[v].of = <<"v", l>>
  BY <1>b DEF Holds, Value
<1>9. \A i \in 0 .. len - 1 : i \in 0 .. Capacity - 1
  BY GpuTrainingAssumption
<1>10. ASSUME NEW i \in 0 .. len - 1 PROVE m2[y][i].of = <<"k", l>> /\ m2[z][i].of = <<"v", l>>
  <2>1. i = slot \/ (m[y][i].of = <<"k", l>> /\ m[z][i].of = <<"v", l>>)
    BY <1>b DEF CachedBut, SlotIs
  <2> QED
    BY <1>7, <1>8, <1>9, <2>1
<1>11. Cached(m2, l, len)
  BY <1>10, <1>b DEF Cached, SlotIs
<1>12. Holds(m2, q, <<"q", l>>, s)
  BY <1>7, <1>b DEF Holds
<1>13. Wrote(m2, a, Value(<<"concat", l>>, s), n)
  BY <1>3, <1>7, <1>11, <1>12, <1>b, Attends
<1>14. n[y] = m2[y] /\ n[z] = m2[z] /\ n[a] = Value(<<"concat", l>>, s)
  BY ONLY <1>13, <1>7, <1>c DEF Wrote
<1>15. Cached(n, l, len)
  BY <1>11, <1>14, <1>b DEF Cached, SlotIs
<1> QED
  BY <1>7, <1>14, <1>15, <1>b DEF Holds, AttendedTo

-----------------------------------------------------------------------------
(* A layer, and all of them.                                               *)

\* What the commands of layer l leave alone: the token, the weights, and
\* the rings of the other layers.
Stored(b, l) ==
    \/ b \in {Decoder("token"), Decoder("embed"), Decoder("final_norm_gain")}
    \/ \E name \in LayerWeights, k \in 1 .. Layers : b = DecoderLayer(name, k)
    \/ \E name \in {"k_cache", "v_cache"}, k \in 1 .. Layers : k # l /\ b = DecoderLayer(name, k)
StoredSame(m, n, l) == DOMAIN n = DOMAIN m /\ \A b \in DOMAIN m : Stored(b, l) => n[b] = m[b]

\* None of it is an output, nor a ring of the layer.
LEMMA StoredApart ==
    ASSUME NEW l, NEW b, Stored(b, l)
    PROVE  /\ \A name \in DecoderOutputs : Decoder(name) # b
           /\ DecoderLayer("k_cache", l) # b /\ DecoderLayer("v_cache", l) # b
<1>1. \A name \in DecoderOutputs : name # "token" /\ name # "embed" /\ name # "final_norm_gain"
  BY DEF DecoderOutputs, DecoderNames
<1>2. \A k \in 1 .. Layers : k # 0
  BY LayersAssumption
<1>3. \A name \in LayerWeights : name # "k_cache" /\ name # "v_cache"
  BY LayerWeightsAre DEF GradNames
<1>4. CASE b \in {Decoder("token"), Decoder("embed"), Decoder("final_norm_gain")}
  BY <1>1, <1>4 DEF Decoder, DecoderLayer
<1>5. ASSUME NEW name \in LayerWeights, NEW k \in 1 .. Layers, b = DecoderLayer(name, k)
      PROVE  /\ \A other : Decoder(other) # b
             /\ DecoderLayer("k_cache", l) # b /\ DecoderLayer("v_cache", l) # b
  BY <1>2, <1>3, <1>5 DEF Decoder, DecoderLayer
<1>6. ASSUME NEW name \in {"k_cache", "v_cache"}, NEW k \in 1 .. Layers, k # l,
             b = DecoderLayer(name, k)
      PROVE  /\ \A other : Decoder(other) # b
             /\ DecoderLayer("k_cache", l) # b /\ DecoderLayer("v_cache", l) # b
  BY <1>2, <1>6 DEF Decoder, DecoderLayer
<1> QED
  BY <1>4, <1>5, <1>6 DEF Stored

\* Without a layer's own rings set aside, all the rings are left.
LEMMA StoredMore == ASSUME NEW l, NEW b, Stored(b, l) PROVE Stored(b, 0)
<1>1. \A k \in 1 .. Layers : k # 0
  BY LayersAssumption
<1> QED
  BY <1>1 DEF Stored

\* A pass that leaves what is stored leaves it the same.
LEMMA StoredStill ==
    ASSUME NEW table, NEW m, NEW q, NEW n, Turns(table, m, q, n), NEW l,
           \A b : Stored(b, l) => Passing(q, b)
    PROVE  StoredSame(m, n, l)
<1>1. Stored(Decoder("token"), l)
  BY DEF Stored
<1>2. \A b : Stored(b, l) => DOMAIN n = DOMAIN m /\ (b \in DOMAIN m => n[b] = m[b])
  BY TurnsKeep
<1> QED
  BY <1>1, <1>2 DEF StoredSame

\* The memory of a decoder is still one, if its rings have their slots.
LEMMA DecodesStill ==
    ASSUME NEW m, NEW n, Decodes(m), NEW l, StoredSame(m, n, l),
           l \in 1 .. Layers => /\ DOMAIN n[DecoderLayer("k_cache", l)] = 0 .. Capacity - 1
                                /\ DOMAIN n[DecoderLayer("v_cache", l)] = 0 .. Capacity - 1
    PROVE  Decodes(n)
<1>1. DOMAIN n = DOMAIN m /\ \A b \in DOMAIN m : Stored(b, l) => n[b] = m[b]
  BY DEF StoredSame
<1>2. \A name \in DecoderNames : Decoder(name) \in DOMAIN n
  BY <1>1 DEF Decodes
<1>3. ASSUME NEW name \in LayerWeights, NEW k \in 1 .. Layers
      PROVE  DecoderLayer(name, k) \in DOMAIN n /\ Weighs(n, DecoderLayer(name, k), <<name, k>>)
  <2> PICK b : b = DecoderLayer(name, k)
    OBVIOUS
  <2>1. Stored(b, l)
    BY DEF Stored
  <2>2. b \in DOMAIN m /\ Weighs(m, b, <<name, k>>)
    BY DEF Decodes
  <2> QED
    BY <1>1, <2>1, <2>2 DEF Weighs
<1>4. ASSUME NEW name \in {"embed", "final_norm_gain"}
      PROVE  Decoder(name) \in DOMAIN n /\ Weighs(n, Decoder(name), Top(name))
  <2> PICK b : b = Decoder(name)
    OBVIOUS
  <2>1. Stored(b, l)
    BY DEF Stored
  <2>2. b \in DOMAIN m /\ Weighs(m, b, Top(name))
    BY DEF Decodes
  <2> QED
    BY <1>1, <2>1, <2>2 DEF Weighs
<1>5. ASSUME NEW name \in {"k_cache", "v_cache"}, NEW k \in 1 .. Layers
      PROVE  DecoderLayer(name, k) \in DOMAIN n /\ DOMAIN n[DecoderLayer(name, k)] = 0 .. Capacity - 1
  <2> PICK b : b = DecoderLayer(name, k)
    OBVIOUS
  <2>1. b \in DOMAIN m /\ DOMAIN m[b] = 0 .. Capacity - 1
    BY DEF Decodes
  <2>2. k # l => Stored(b, l)
    BY DEF Stored
  <2> QED
    BY <1>1, <2>1, <2>2
<1> QED
  BY <1>2, <1>3, <1>4, <1>5 DEF Decodes

\* Rings that are the same hold the same.
LEMMA CachedStill ==
    ASSUME NEW m, NEW n, Decodes(m), NEW j, StoredSame(m, n, j), NEW l \in 1 .. Layers, j # l,
           NEW slot, NEW len
    PROVE  /\ CachedBut(m, l, slot, len) => CachedBut(n, l, slot, len)
           /\ Cached(m, l, len) => Cached(n, l, len)
<1> PICK y, z : y = DecoderLayer("k_cache", l) /\ z = DecoderLayer("v_cache", l)
  OBVIOUS
<1>1. y \in DOMAIN m /\ z \in DOMAIN m /\ Stored(y, j) /\ Stored(z, j)
  BY DEF Decodes, Stored
<1>2. n[y] = m[y] /\ n[z] = m[z]
  BY <1>1 DEF StoredSame
<1>3. \A i : SlotIs(m, l, i) => SlotIs(n, l, i)
  BY <1>2 DEF SlotIs
<1> QED
  BY <1>3 DEF CachedBut, Cached

\* The parts of a layer.
DecodeFirst(l, ple) == IF ple THEN DecodeIn(l) ELSE << >>

\* What they are and leave.
LEMMA DecodePartsAre ==
    ASSUME NEW l, NEW s, NEW slot, NEW len, NEW ple \in BOOLEAN
    PROVE  /\ DecodeLayer(l, ple, s, slot, len) =
                 ((DecodeFirst(l, ple) \o DecodeProjections(l, s)) \o Attend(l, slot, len)) \o DecodeMlp(l)
           /\ IsSeq(DecodeFirst(l, ple)) /\ IsSeq(DecodeProjections(l, s))
           /\ IsSeq(Attend(l, slot, len)) /\ IsSeq(DecodeMlp(l))
           /\ \A b : Stored(b, 0) => /\ Passing(DecodeFirst(l, ple), b)
                                     /\ Passing(DecodeProjections(l, s), b) /\ Passing(DecodeMlp(l), b)
           /\ \A b : Stored(b, l) => Passing(Attend(l, slot, len), b)
<1>1. DecodeLayer(l, ple, s, slot, len) =
          ((DecodeFirst(l, ple) \o DecodeProjections(l, s)) \o Attend(l, slot, len)) \o DecodeMlp(l)
  BY Zenon DEF DecodeLayer, DecodeFirst, DecodeIn, DecodeProjections, DecodeMlp
<1>2. IsSeq(<< >>) /\ \A b : Passing(<< >>, b)
  <2>1. IsSeq(<< >>) /\ 1 .. Len(<< >>) = {}
    BY << >> \in Seq({}) DEF IsSeq
  <2> QED
    BY <2>1 DEF Passing
<1>3. IsSeq(DecodeFirst(l, ple))
  BY <1>2, DecodeInIs DEF DecodeFirst
<1>4. IsSeq(DecodeProjections(l, s)) /\ IsSeq(Attend(l, slot, len)) /\ IsSeq(DecodeMlp(l))
  BY DecodeProjectionsIs, AttendIs, DecodeMlpIs
<1>5. ASSUME NEW b, Stored(b, 0)
      PROVE  /\ Passing(DecodeFirst(l, ple), b)
             /\ Passing(DecodeProjections(l, s), b) /\ Passing(DecodeMlp(l), b)
  <2>1. \A name \in DecoderOutputs : Decoder(name) # b
    BY <1>5, StoredApart
  <2>2. Passing(DecodeProjections(l, s), b) /\ Passing(DecodeMlp(l), b) /\ Passing(DecodeIn(l), b)
    BY <2>1, DecodeInPasses, DecodeProjectionsPasses, DecodeMlpPasses
  <2> QED
    BY <1>2, <2>2 DEF DecodeFirst
<1>6. ASSUME NEW b, Stored(b, l) PROVE Passing(Attend(l, slot, len), b)
  <2>1. "attn" \in DecoderOutputs
    BY DEF DecoderOutputs, DecoderNames
  <2>2. Decoder("attn") # b /\ DecoderLayer("k_cache", l) # b /\ DecoderLayer("v_cache", l) # b
    BY <1>6, <2>1, StoredApart
  <2> QED
    BY <2>2, AttendPasses
<1> QED
  BY <1>1, <1>3, <1>4, <1>5, <1>6

\* What a layer leaves: its rings have the token, and the stream goes on.
LayerDone(m, n, l, ple, s, len) ==
    /\ Decodes(n) /\ StoredSame(m, n, l) /\ Cached(n, l, len)
    /\ Holds(n, Decoder("hidden"), StreamOut(l, ple), s)

\* A layer does what the host's does of a token.
LEMMA DecodeLayerTurn ==
    ASSUME NEW ple \in BOOLEAN, NEW table, table = Results[ple], NEW m, Decodes(m),
           NEW s, s # NoSeq, NEW l \in 1 .. Layers,
           NEW slot \in 0 .. Capacity - 1, NEW len \in 0 .. Capacity, CachedBut(m, l, slot, len),
           Holds(m, Decoder("token"), Tokens, s), Holds(m, Decoder("hidden"), StreamIn(l, ple), s),
           NEW n, Turns(table, m, DecodeLayer(l, ple, s, slot, len), n)
    PROVE  LayerDone(m, n, l, ple, s, len)
<1>p. PICK q1, q2, q3, q4 : /\ q1 = DecodeFirst(l, ple) /\ q2 = DecodeProjections(l, s)
                            /\ q3 = Attend(l, slot, len) /\ q4 = DecodeMlp(l)
  OBVIOUS
<1>l. l # 0 /\ 0 \notin 1 .. Layers
  BY LayersAssumption
<1>1. /\ IsSeq(q1) /\ IsSeq(q2) /\ IsSeq(q3) /\ IsSeq(q4)
      /\ DecodeLayer(l, ple, s, slot, len) = ((q1 \o q2) \o q3) \o q4
  BY <1>p, DecodePartsAre, ZenonT(60)
<1>2. /\ \A b : Stored(b, 0) => Passing(q1, b)
      /\ \A b : Stored(b, 0) => Passing(q2, b)
      /\ \A b : Stored(b, 0) => Passing(q4, b)
      /\ \A b : Stored(b, l) => Passing(q3, b)
  BY <1>p, DecodePartsAre
<1>3. IsSeq(q1 \o q2) /\ IsSeq((q1 \o q2) \o q3)
  <2>1. IsSeq(q1 \o q2)
    BY <1>1, ConcatIs
  <2> QED
    BY ONLY <1>1, <2>1, ConcatIs
<1>4. PICK m3 : Turns(table, m, (q1 \o q2) \o q3, m3) /\ Turns(table, m3, q4, n)
  BY <1>1, <1>3, TurnsSplit
<1>5. PICK m2 : Turns(table, m, q1 \o q2, m2) /\ Turns(table, m2, q3, m3)
  BY ONLY <1>1, <1>3, <1>4, TurnsSplit
<1>6. PICK m1 : Turns(table, m, q1, m1) /\ Turns(table, m1, q2, m2)
  BY ONLY <1>1, <1>5, TurnsSplit
<1>7. StoredSame(m, m1, 0) /\ StoredSame(m1, m2, 0) /\ StoredSame(m2, m3, l) /\ StoredSame(m3, n, 0)
  <2>1. StoredSame(m, m1, 0)
    BY ONLY <1>2, <1>6, StoredStill
  <2>2. StoredSame(m1, m2, 0)
    BY ONLY <1>2, <1>6, StoredStill
  <2>3. StoredSame(m2, m3, l)
    BY ONLY <1>2, <1>5, StoredStill
  <2>4. StoredSame(m3, n, 0)
    BY ONLY <1>2, <1>4, StoredStill
  <2> QED
    BY <2>1, <2>2, <2>3, <2>4
<1>8. Decodes(m1) /\ Decodes(m2)
  <2>1. Decodes(m1)
    BY ONLY <1>7, <1>l, Decodes(m), DecodesStill
  <2> QED
    BY ONLY <2>1, <1>7, <1>l, DecodesStill
<1>9. CachedBut(m2, l, slot, len)
  <2>1. CachedBut(m1, l, slot, len)
    BY <1>7, <1>l, CachedStill
  <2> QED
    BY <2>1, <1>7, <1>8, <1>l, CachedStill
<1>10. Holds(m1, Decoder("hidden"), <<"h_in", l>>, s)
  <2>1. CASE ple
    <3>1. StreamIn(l, ple) = <<"x", l>> /\ q1 = DecodeIn(l)
      BY <1>p, <2>1 DEF StreamIn, DecodeFirst
    <3>2. Holds(m, Decoder("hidden"), <<"x", l>>, s) /\ Turns(table, m, DecodeIn(l), m1)
      BY <1>6, <3>1
    <3> QED
      BY <2>1, <3>2, DecodeInTurn
  <2>2. CASE ~ ple
    <3>1. StreamIn(l, ple) = <<"h_in", l>> /\ q1 = << >> /\ Len(q1) = 0
      BY <1>p, <2>2 DEF StreamIn, DecodeFirst
    <3>2. m1 = m
      BY <1>6, <3>1 DEF Turns
    <3> QED
      BY <3>1, <3>2
  <2> QED
    BY <2>1, <2>2
<1>11. /\ Holds(m2, Decoder("hidden"), <<"h_in", l>>, s) /\ Holds(m2, Decoder("q"), <<"q", l>>, s)
       /\ Holds(m2, Decoder("k"), <<"k", l>>, s) /\ Holds(m2, Decoder("v"), <<"v", l>>, s)
  <2>1. Turns(table, m1, DecodeProjections(l, s), m2)
    BY <1>6, <1>p
  <2> QED
    BY <1>8, <1>10, <2>1, DecodeProjectionsTurn
<1>12. /\ Holds(m3, Decoder("attn"), <<"concat", l>>, s) /\ Cached(m3, l, len)
       /\ DOMAIN m3[DecoderLayer("k_cache", l)] = 0 .. Capacity - 1
       /\ DOMAIN m3[DecoderLayer("v_cache", l)] = 0 .. Capacity - 1
  <2>1. Turns(table, m2, Attend(l, slot, len), m3)
    BY <1>5, <1>p
  <2>2. AttendedTo(m3, l, s, len)
    BY <1>8, <1>9, <1>11, <2>1, AttendTurn
  <2> QED
    BY <2>2 DEF AttendedTo
<1>13. Decodes(m3)
  BY ONLY <1>7, <1>8, <1>12, DecodesStill
<1>14. Holds(m3, Decoder("hidden"), <<"h_in", l>>, s)
  <2> PICK b : b = Decoder("hidden")
    OBVIOUS
  <2>1. Decoder("attn") # b /\ DecoderLayer("k_cache", l) # b /\ DecoderLayer("v_cache", l) # b
    BY DEF Decoder, DecoderLayer
  <2>2. Passing(q3, b)
    BY <1>p, <2>1, AttendPasses
  <2>3. b \in DOMAIN m2
    BY <1>8 DEF Decodes, DecoderNames
  <2>4. m3[b] = m2[b]
    BY ONLY <1>5, <2>2, <2>3, TurnsKeep
  <2> QED
    BY <1>11, <2>4 DEF Holds
<1>15. Holds(n, Decoder("hidden"), StreamOut(l, ple), s)
  <2>1. Turns(table, m3, DecodeMlp(l), n)
    BY <1>4, <1>p
  <2> QED
    BY <1>12, <1>13, <1>14, <2>1, DecodeMlpTurn
<1>16. Decodes(n)
  BY ONLY <1>7, <1>13, <1>l, DecodesStill
<1>17. Cached(n, l, len)
  BY <1>7, <1>12, <1>13, <1>l, CachedStill
<1>18. StoredSame(m, n, l)
  <2>1. \A b : Stored(b, l) => Stored(b, 0)
    BY StoredMore
  <2> QED
    BY ONLY <1>7, <2>1 DEF StoredSame
<1> QED
  BY <1>15, <1>16, <1>17, <1>18 DEF LayerDone

\* After k layers, the rings of those have the token, and the others all
\* but its slot.
DecodedThrough(n, k, ple, s, slot, len) ==
    /\ Decodes(n) /\ Holds(n, Decoder("token"), Tokens, s)
    /\ Holds(n, Decoder("hidden"), IF k = Layers THEN Top("h_final") ELSE StreamIn(k + 1, ple), s)
    /\ \A l \in 1 .. Layers : (l <= k => Cached(n, l, len)) /\ (l > k => CachedBut(n, l, slot, len))

\* One layer more.
LEMMA DecodedLayer ==
    ASSUME NEW ple \in BOOLEAN, NEW table, table = Results[ple], NEW s, s # NoSeq,
           NEW slot \in 0 .. Capacity - 1, NEW len \in 0 .. Capacity, NEW k \in 0 .. Layers - 1,
           NEW m, DecodedThrough(m, k, ple, s, slot, len),
           NEW n, Turns(table, m, DecodeLayer(k + 1, ple, s, slot, len), n)
    PROVE  DecodedThrough(n, k + 1, ple, s, slot, len) /\ DOMAIN n = DOMAIN m
<1>p. PICK l : l = k + 1
  OBVIOUS
<1>1. Layers \in Nat /\ k \in Nat /\ l \in Nat /\ l \in 1 .. Layers /\ k # Layers /\ l > k
  BY <1>p, LayersAssumption
<1>2. /\ Decodes(m) /\ Holds(m, Decoder("token"), Tokens, s) /\ CachedBut(m, l, slot, len)
      /\ Holds(m, Decoder("hidden"), StreamIn(l, ple), s)
      /\ \A j \in 1 .. Layers : (j <= k => Cached(m, j, len)) /\ (j > k => CachedBut(m, j, slot, len))
  BY <1>1, <1>p DEF DecodedThrough
<1>3. Turns(table, m, DecodeLayer(l, ple, s, slot, len), n)
  BY <1>p
<1>4. LayerDone(m, n, l, ple, s, len)
  BY <1>1, <1>2, <1>3, DecodeLayerTurn
<1>5. /\ Decodes(n) /\ StoredSame(m, n, l) /\ Cached(n, l, len)
      /\ Holds(n, Decoder("hidden"), StreamOut(l, ple), s)
  BY <1>4 DEF LayerDone
<1>6. Holds(n, Decoder("token"), Tokens, s) /\ DOMAIN n = DOMAIN m
  <2>1. Decoder("token") \in DOMAIN m /\ Stored(Decoder("token"), l)
    BY <1>2 DEF Decodes, DecoderNames, Stored
  <2> QED
    BY <1>2, <1>5, <2>1 DEF StoredSame, Holds
<1>7. ASSUME NEW j \in 1 .. Layers
      PROVE  (j <= l => Cached(n, j, len)) /\ (j > l => CachedBut(n, j, slot, len))
  <2>1. CASE j = l
    BY <1>1, <1>5, <2>1
  <2>2. CASE j # l
    <3>1. /\ CachedBut(m, j, slot, len) => CachedBut(n, j, slot, len)
          /\ Cached(m, j, len) => Cached(n, j, len)
      BY <1>2, <1>5, <2>2, CachedStill
    <3>2. (j <= l => j <= k) /\ (j > l => j > k)
      BY <1>1, <1>p, <2>2
    <3> QED
      BY <1>2, <3>1, <3>2
  <2> QED
    BY <2>1, <2>2
<1>8. StreamOut(l, ple) = IF l = Layers THEN Top("h_final") ELSE StreamIn(l + 1, ple)
  BY DEF StreamOut
<1>9. Holds(n, Decoder("hidden"), IF l = Layers THEN Top("h_final") ELSE StreamIn(l + 1, ple), s)
  BY <1>5, <1>8
<1>10. DecodedThrough(n, l, ple, s, slot, len)
  BY ONLY <1>5, <1>6, <1>7, <1>9 DEF DecodedThrough
<1> QED
  BY <1>6, <1>10, <1>p

\* What a token's commands are.
DecodeWrite(s) == <<WriteBuffer(Decoder("token"), Value(Tokens, s))>>
DecodeGather == <<dispatch_gather(Decoder("embed"), Decoder("token"), Decoder("hidden"), "1")>>
DecodeLayers(ple, s, slot, len) ==
    FlattenSeq([l \in 1 .. Layers |-> DecodeLayer(l, ple, s, slot, len)])
DecodePass(ple, s, slot, len) == (DecodeGather \o DecodeLayers(ple, s, slot, len)) \o DecodeOut

\* Sequences of the same length and elements are the same.
LEMMA SameSeqs ==
    ASSUME NEW n \in Nat, NEW u, NEW t, IsSeq(u), IsSeq(t), Len(u) = n, Len(t) = n,
           \A i \in 1 .. n : u[i] = t[i]
    PROVE  u = t
<1>1. u = [i \in 1 .. n |-> u[i]] /\ t = [i \in 1 .. n |-> t[i]]
  BY SeqIs
<1> QED
  BY <1>1

\* Two commands are one and one, and four are three and one.
LEMMA LiteralsSplit ==
    ASSUME NEW a, NEW b, NEW c, NEW d
    PROVE  <<a, b>> = <<a>> \o <<b>> /\ <<a, b, c, d>> = <<a, b, c>> \o <<d>>
<1> PICK S : S = {a, b, c, d}
  OBVIOUS
<1>1. a \in S /\ b \in S /\ c \in S /\ d \in S
  OBVIOUS
<1> PICK x, y : x = <<a>> /\ y = <<a, b, c>>
  OBVIOUS
<1>2. IsSeq(x) /\ IsSeq(y)
  BY ONLY <1>1, x = <<a>>, y = <<a, b, c>>, <<a>> \in Seq(S), <<a, b, c>> \in Seq(S) DEF IsSeq
<1>3. Append(x, b) = x \o <<b>> /\ Append(y, d) = y \o <<d>>
  BY <1>2, AppendsAre
<1> PICK u, v : u = <<a, b>> /\ v = <<a, b, c, d>>
  OBVIOUS
<1>4. x[1] = a /\ Len(x) = 1 /\ y[1] = a /\ y[2] = b /\ y[3] = c /\ Len(y) = 3
  OBVIOUS
<1>5. u[1] = a /\ u[2] = b /\ Len(u) = 2 /\ v[1] = a /\ v[2] = b /\ v[3] = c /\ v[4] = d /\ Len(v) = 4
  OBVIOUS
<1>6. IsSeq(u) /\ IsSeq(v)
  BY ONLY <1>1, u = <<a, b>>, v = <<a, b, c, d>>, <<a, b>> \in Seq(S), <<a, b, c, d>> \in Seq(S) DEF IsSeq
<1>7. u = Append(x, b)
  <2> PICK t : t = Append(x, b)
    OBVIOUS
  <2>1. IsSeq(t) /\ Len(t) = 2 /\ t[1] = a /\ t[2] = b
    <3>1. IsSeq(t) /\ Len(t) = Len(x) + 1 /\ t[Len(x) + 1] = b /\ \A i \in 1 .. Len(x) : t[i] = x[i]
      BY ONLY <1>2, t = Append(x, b), AppendIs
    <3>2. 1 \in 1 .. 1 /\ 1 + 1 = 2
      OBVIOUS
    <3> QED
      BY ONLY <1>4, <3>1, <3>2
  <2>2. \A i \in 1 .. 2 : u[i] = t[i]
    BY ONLY <1>5, <2>1
  <2>3. u = t
    BY ONLY <1>5, <1>6, <2>1, <2>2, 2 \in Nat, SameSeqs
  <2> QED
    BY <2>3
<1>8. v = Append(y, d)
  <2> PICK t : t = Append(y, d)
    OBVIOUS
  <2>1. IsSeq(t) /\ Len(t) = 4 /\ t[1] = a /\ t[2] = b /\ t[3] = c /\ t[4] = d
    <3>1. IsSeq(t) /\ Len(t) = Len(y) + 1 /\ t[Len(y) + 1] = d /\ \A i \in 1 .. Len(y) : t[i] = y[i]
      BY ONLY <1>2, t = Append(y, d), AppendIs
    <3>2. 1 \in 1 .. 3 /\ 2 \in 1 .. 3 /\ 3 \in 1 .. 3 /\ 3 + 1 = 4
      OBVIOUS
    <3> QED
      BY ONLY <1>4, <3>1, <3>2
  <2>2. \A i \in 1 .. 4 : v[i] = t[i]
    BY ONLY <1>5, <2>1
  <2>3. v = t
    BY ONLY <1>5, <1>6, <2>1, <2>2, 4 \in Nat, SameSeqs
  <2> QED
    BY <2>3
<1> QED
  BY <1>3, <1>7, <1>8

\* Brackets of five runs.
Rebracketed(w, g, h, o, f) == ((w \o g) \o h) \o (o \o f) = (w \o ((g \o h) \o o)) \o f

\* They do not matter.
LEMMA Regrouped ==
    ASSUME NEW w, NEW g, NEW h, NEW o, NEW f, IsSeq(w), IsSeq(g), IsSeq(h), IsSeq(o), IsSeq(f)
    PROVE  Rebracketed(w, g, h, o, f)
<1>1. PICK S1, S2, S3, S4, S5 :
        w \in Seq(S1) /\ g \in Seq(S2) /\ h \in Seq(S3) /\ o \in Seq(S4) /\ f \in Seq(S5)
  BY DEF IsSeq
<1> PICK V : V = S1 \cup S2 \cup S3 \cup S4 \cup S5
  OBVIOUS
<1>2. w \in Seq(V) /\ g \in Seq(V) /\ h \in Seq(V) /\ o \in Seq(V) /\ f \in Seq(V)
  BY <1>1
<1> PICK u : u = g \o h
  OBVIOUS
<1>3. u \in Seq(V)
  BY <1>2
<1>4. (w \o g) \o h = w \o u
  BY <1>2, ConcatAssociative, SMTT(60)
<1> PICK v : v = w \o u
  OBVIOUS
<1>5. v \in Seq(V)
  BY <1>2, <1>3
<1>6. v \o (o \o f) = (v \o o) \o f
  BY <1>2, <1>5, ConcatAssociative, SMTT(60)
<1>7. (w \o u) \o o = w \o (u \o o)
  BY <1>2, <1>3, ConcatAssociative, SMTT(60)
<1>8. ((w \o g) \o h) \o (o \o f) = (w \o ((g \o h) \o o)) \o f
  BY <1>4, <1>6, <1>7
<1> QED
  BY <1>8 DEF Rebracketed

\* A token's layers are a sequence, each of them one.
LEMMA DecodeLayersAre ==
    ASSUME NEW ple \in BOOLEAN, NEW s, NEW slot, NEW len
    PROVE  /\ \A l : IsSeq(DecodeLayer(l, ple, s, slot, len))
           /\ \A l : Passing(DecodeLayer(l, ple, s, slot, len), Nowhere)
           /\ IsSeq(DecodeLayers(ple, s, slot, len)) /\ Passing(DecodeLayers(ple, s, slot, len), Nowhere)
<1>1. /\ \A name : Decoder(name) # Nowhere
      /\ \A name, l : DecoderLayer(name, l) # Nowhere
  BY DEF Decoder, DecoderLayer, Nowhere
<1>2. ASSUME NEW l PROVE Passing(DecodeLayer(l, ple, s, slot, len), Nowhere)
  <2> PICK b, q1, q2, q3, q4 : /\ q1 = DecodeFirst(l, ple) /\ q2 = DecodeProjections(l, s)
                               /\ q3 = Attend(l, slot, len) /\ q4 = DecodeMlp(l) /\ b = Nowhere
    OBVIOUS
  <2>1. Passing(q1, b)
    <3>1. Passing(DecodeIn(l), b)
      BY <1>1, DecodeInPasses
    <3>2. IsSeq(<< >>) /\ 1 .. Len(<< >>) = {}
      BY << >> \in Seq({}) DEF IsSeq
    <3>3. Passing(<< >>, b)
      BY <3>2 DEF Passing
    <3> QED
      BY <3>1, <3>3 DEF DecodeFirst
  <2>2. Passing(q2, b) /\ Passing(q4, b)
    BY <1>1, DecodeProjectionsPasses, DecodeMlpPasses
  <2>3. Passing(q3, b)
    BY <1>1, AttendPasses
  <2>4. Passing(q1 \o q2, b)
    BY ONLY <2>1, <2>2, PassingConcat
  <2>5. Passing((q1 \o q2) \o q3, b)
    BY ONLY <2>3, <2>4, PassingConcat
  <2>6. Passing(((q1 \o q2) \o q3) \o q4, b)
    BY ONLY <2>2, <2>5, PassingConcat
  <2>7. DecodeLayer(l, ple, s, slot, len) = ((q1 \o q2) \o q3) \o q4
    BY DecodePartsAre
  <2> QED
    BY <2>6, <2>7
<1>3. \A l : IsSeq(DecodeLayer(l, ple, s, slot, len))
  BY <1>2 DEF Passing
<1> PICK ss : ss = [l \in 1 .. Layers |-> DecodeLayer(l, ple, s, slot, len)]
  OBVIOUS
<1>4. /\ Layers \in Nat /\ DOMAIN ss = 1 .. Layers /\ ss = [l \in 1 .. Layers |-> ss[l]]
      /\ \A l \in 1 .. Layers : Passing(ss[l], Nowhere)
  BY <1>2, LayersAssumption
<1>5. Passing(FlattenSeq(ss), Nowhere)
  BY ONLY <1>4, PassingFlat
<1>6. Passing(DecodeLayers(ple, s, slot, len), Nowhere)
  BY <1>5 DEF DecodeLayers
<1> QED
  BY <1>2, <1>3, <1>6 DEF Passing

\* The token is written, the rest is recorded and submitted.
LEMMA DecodeCommandsAre ==
    ASSUME NEW ple \in BOOLEAN, NEW s, NEW slot, NEW len
    PROVE  /\ decode_commands(ple, s, slot, len) =
                 (DecodeWrite(s) \o DecodePass(ple, s, slot, len)) \o <<Flush>>
           /\ IsSeq(DecodeWrite(s)) /\ IsSeq(DecodePass(ple, s, slot, len))
           /\ Complete(decode_commands(ple, s, slot, len))
<1> PICK w, g, ls, o, f, q, b :
       /\ w = DecodeWrite(s) /\ g = DecodeGather /\ ls = DecodeLayers(ple, s, slot, len)
       /\ o = DecodeOut /\ f = <<Flush>> /\ q = DecodePass(ple, s, slot, len) /\ b = Nowhere
  OBVIOUS
<1>1. IsSeq(w) /\ IsSeq(f) /\ \A i \in 1 .. Len(w) : w[i].do = "write" /\ w[i].dst # Stats
  <2> PICK c : c = WriteBuffer(Decoder("token"), Value(Tokens, s))
    OBVIOUS
  <2>1. c.do = "write" /\ c.dst = Decoder("token")
    BY WriteIs
  <2>2. Decoder("token") # Stats
    BY DEF Decoder, Stats, Scratch
  <2>3. w = <<c>>
    BY DEF DecodeWrite
  <2>4. IsSeq(w) /\ Len(w) = 1 /\ w[1] = c
    BY <2>3, OneIs
  <2>5. IsSeq(f)
    BY OneIs
  <2> QED
    BY <2>1, <2>2, <2>4, <2>5
<1>2. \A name : Decoder(name) # b
  BY DEF Decoder, Nowhere
<1>3. Passing(g, b) /\ Passing(o, b) /\ Passing(ls, b)
  <2>1. Passing(g, b)
    BY <1>2, OnePassing, CommandsPass DEF DecodeGather
  <2>2. Passing(o, b)
    BY <1>2, DecodeOutPasses
  <2> QED
    BY <2>1, <2>2, DecodeLayersAre
<1>4. Passing(g \o ls, b)
  BY ONLY <1>3, PassingConcat
<1>5. Passing((g \o ls) \o o, b)
  BY ONLY <1>3, <1>4, PassingConcat
<1>6. q = (g \o ls) \o o
  BY DEF DecodePass
<1>7. Passing(q, b) /\ IsSeq(q)
  BY <1>5, <1>6 DEF Passing
<1>8. decode_commands(ple, s, slot, len) = ((w \o g) \o ls) \o (o \o f)
  <2> PICK c1, c2, c3, c4, c5, c6 :
        /\ c1 = WriteBuffer(Decoder("token"), Value(Tokens, s))
        /\ c2 = dispatch_gather(Decoder("embed"), Decoder("token"), Decoder("hidden"), "1")
        /\ c3 = dispatch_rmsnorm(Decoder("hidden"), Decoder("final_norm_gain"), Decoder("normed"),
                                 Decoder("inv_rms"), "1")
        /\ c4 = dispatch_linear(Decoder("normed"), Decoder("embed"), Decoder("logits"), "1", "h", "vocab")
        /\ c5 = Copy(Decoder("logits"), Decoder("logits_read")) /\ c6 = Flush
    OBVIOUS
  <2>1. decode_commands(ple, s, slot, len) = (<<c1, c2>> \o ls) \o <<c3, c4, c5, c6>>
    BY Zenon DEF decode_commands, DecodeLayers
  <2>2. <<c1, c2>> = <<c1>> \o <<c2>> /\ <<c3, c4, c5, c6>> = <<c3, c4, c5>> \o <<c6>>
    BY LiteralsSplit, SMTT(60)
  <2>3. w = <<c1>> /\ g = <<c2>> /\ o = <<c3, c4, c5>> /\ f = <<c6>>
    BY Zenon DEF DecodeWrite, DecodeGather, DecodeOut
  <2>4. <<c1, c2>> = w \o g /\ <<c3, c4, c5, c6>> = o \o f
    BY ONLY <2>2, <2>3
  <2> QED
    BY ONLY <2>1, <2>4
<1>9. ((w \o g) \o ls) \o (o \o f) = (w \o q) \o f
  <2>1. IsSeq(w) /\ IsSeq(g) /\ IsSeq(ls) /\ IsSeq(o) /\ IsSeq(f)
    BY <1>1, <1>3 DEF Passing
  <2>2. Rebracketed(w, g, ls, o, f)
    BY ONLY <2>1, Regrouped
  <2> QED
    BY <1>6, <2>2 DEF Rebracketed
<1>10. Complete((w \o q) \o f)
  BY <1>1, <1>7, PassComplete
<1> QED
  BY <1>1, <1>7, <1>8, <1>9, <1>10

\* What a token's commands leave: every ring has the token, and the logits
\* are the model's.
TokenDone(n, s, len) ==
    /\ Decodes(n) /\ \A l \in 1 .. Layers : Cached(n, l, len)
    /\ Holds(n, Decoder("logits_read"), Top("logits"), s)

\* The token is written and its row of the table is the stream.
LEMMA DecodeStartTurn ==
    ASSUME NEW ple \in BOOLEAN, NEW table, table = Results[ple], NEW m, Decodes(m), NEW s, s # NoSeq,
           NEW slot, NEW len, \A l \in 1 .. Layers : CachedBut(m, l, slot, len),
           NEW k, Turns(table, m, DecodeWrite(s), k), NEW n, Turns(table, k, DecodeGather, n)
    PROVE  DecodedThrough(n, 0, ple, s, slot, len)
<1> PICK b, e, h, v : /\ b = Decoder("token") /\ e = Decoder("embed") /\ h = Decoder("hidden")
                      /\ v = Value(Tokens, s)
  OBVIOUS
<1>1. b \in DOMAIN m /\ e \in DOMAIN m /\ h \in DOMAIN m
  BY DEF Decodes, DecoderNames
<1>2. Wrote(m, b, v, k)
  <2>1. k = Now(table, m, WriteBuffer(b, v))
    BY TurnOne DEF DecodeWrite
  <2>2. Wrote(m, b, IF b[1] \in RowNames THEN Overwrite(m[b], v) ELSE v, Now(table, m, WriteBuffer(b, v)))
    BY <1>1, WriteTurn
  <2>3. b[1] \notin RowNames
    BY DEF RowNames, Decoder
  <2> QED
    BY <2>1, <2>2, <2>3
<1>3. b # e /\ b # h /\ e # h
  BY DEF Decoder
<1>4. /\ Holds(k, b, Tokens, s) /\ Weighs(k, e, Top("embed")) /\ h \in DOMAIN k /\ DOMAIN k = DOMAIN m
  BY <1>1, <1>2, <1>3 DEF Wrote, Holds, Weighs, Decodes
<1>5. Wrote(k, h, Value(StreamIn(1, ple), s), n)
  <2>1. n = Now(table, k, dispatch_gather(e, b, h, "1"))
    BY TurnOne DEF DecodeGather
  <2> PICK x, t : x = Top("embed") /\ t = StreamIn(1, ple)
    OBVIOUS
  <2>2. Known(table, "gather", <<x, Tokens>>, <<"1", "h">>, <<t>>)
    BY DecodeEndsKnown
  <2>3. Weighs(k, e, x)
    BY <1>4
  <2>4. Wrote(k, h, Value(t, s), Now(table, k, dispatch_gather(e, b, h, "1")))
    BY ONLY <1>4, <2>2, <2>3, s # NoSeq, gatherTurn
  <2> QED
    BY <2>1, <2>4
<1>6. StoredSame(k, n, 0)
  <2>1. "hidden" \in DecoderOutputs
    BY DEF DecoderOutputs, DecoderNames
  <2>2. \A x : Stored(x, 0) => x # h
    BY <2>1, StoredApart
  <2> QED
    BY <1>5, <2>2 DEF Wrote, StoredSame
<1>l. 0 \notin 1 .. Layers /\ Layers \in Nat /\ Layers # 0
  BY LayersAssumption
<1>7. Decodes(k) /\ \A l \in 1 .. Layers : CachedBut(k, l, slot, len)
  <2>0. \A x \in DOMAIN m : x # b => k[x] = m[x]
    BY <1>2 DEF Wrote
  <2>1. \A name, l : l \in 1 .. Layers => DecoderLayer(name, l) # b
    BY <1>l DEF Decoder, DecoderLayer
  <2>2. \A name : name # "token" => Decoder(name) # b
    BY DEF Decoder
  <2>3. Decodes(k)
    <3>1. \A name \in DecoderNames : Decoder(name) \in DOMAIN k
      BY <1>4 DEF Decodes
    <3>2. \A name \in LayerWeights, l \in 1 .. Layers :
             DecoderLayer(name, l) \in DOMAIN k /\ Weighs(k, DecoderLayer(name, l), <<name, l>>)
      BY <1>4, <2>0, <2>1 DEF Decodes, Weighs
    <3>3. \A name \in {"embed", "final_norm_gain"} :
             Decoder(name) \in DOMAIN k /\ Weighs(k, Decoder(name), Top(name))
      BY <1>4, <2>0, <2>2 DEF Decodes, Weighs
    <3>4. \A name \in {"k_cache", "v_cache"}, l \in 1 .. Layers :
             /\ DecoderLayer(name, l) \in DOMAIN k
             /\ DOMAIN k[DecoderLayer(name, l)] = 0 .. Capacity - 1
      BY <1>4, <2>0, <2>1 DEF Decodes
    <3> QED
      BY <3>1, <3>2, <3>3, <3>4 DEF Decodes
  <2>4. ASSUME NEW l \in 1 .. Layers PROVE CachedBut(k, l, slot, len)
    <3> PICK y, z : y = DecoderLayer("k_cache", l) /\ z = DecoderLayer("v_cache", l)
      OBVIOUS
    <3>1. k[y] = m[y] /\ k[z] = m[z]
      BY <2>0, <2>1 DEF Decodes
    <3>2. \A i : SlotIs(m, l, i) => SlotIs(k, l, i)
      BY <3>1 DEF SlotIs
    <3> QED
      BY <3>2 DEF CachedBut
  <2> QED
    BY <2>3, <2>4
<1>8. Decodes(n)
  BY ONLY <1>6, <1>7, <1>l, DecodesStill
<1>9. ASSUME NEW l \in 1 .. Layers PROVE CachedBut(n, l, slot, len) /\ l > 0
  <2>1. 0 # l
    BY <1>l
  <2>2. CachedBut(k, l, slot, len) => CachedBut(n, l, slot, len)
    BY <1>6, <1>7, <2>1, CachedStill
  <2> QED
    BY <1>l, <1>7, <2>2
<1>10. Holds(n, b, Tokens, s) /\ Holds(n, h, StreamIn(1, ple), s)
  BY <1>1, <1>3, <1>4, <1>5 DEF Wrote, Holds
<1>11. (IF 0 = Layers THEN Top("h_final") ELSE StreamIn(0 + 1, ple)) = StreamIn(1, ple)
  BY <1>l
<1>12. \A l \in 1 .. Layers : ~ (l <= 0)
  OBVIOUS
<1> QED
  BY <1>8, <1>9, <1>10, <1>11, <1>12 DEF DecodedThrough

\* A token's commands, as a whole.
LEMMA DecodeTurn ==
    ASSUME NEW ple \in BOOLEAN, NEW table, table = Results[ple], NEW m, Decodes(m), NEW s, s # NoSeq,
           NEW slot \in 0 .. Capacity - 1, NEW len \in 0 .. Capacity,
           \A l \in 1 .. Layers : CachedBut(m, l, slot, len),
           NEW n, Turns(table, m, decode_commands(ple, s, slot, len), n)
    PROVE  TokenDone(n, s, len)
<1>p. PICK w, g, o, ss, ls, q :
         /\ w = DecodeWrite(s) /\ g = DecodeGather /\ o = DecodeOut
         /\ ss = [l \in 1 .. Layers |-> DecodeLayer(l, ple, s, slot, len)]
         /\ ls = FlattenSeq(ss) /\ q = (g \o ls) \o o
  OBVIOUS
<1>1. IsSeq(w) /\ IsSeq(g) /\ IsSeq(ls) /\ IsSeq(o) /\ IsSeq(q)
  <2>1. IsSeq(w) /\ IsSeq(q)
    BY <1>p, DecodeCommandsAre, Zenon DEF DecodePass, DecodeLayers
  <2>2. IsSeq(g) /\ IsSeq(o)
    BY <1>p, OneIs, DecodeOutIs, Zenon DEF DecodeGather
  <2>3. IsSeq(ls)
    BY <1>p, DecodeLayersAre, Zenon DEF DecodeLayers
  <2> QED
    BY <2>1, <2>2, <2>3
<1>2. IsSeq(g \o ls) /\ IsSeq(w \o q)
  BY ONLY <1>1, ConcatIs
<1>3. Turns(table, m, w \o q, n)
  <2>1. Turns(table, m, (w \o q) \o <<Flush>>, n)
    BY <1>p, DecodeCommandsAre, ZenonT(60) DEF DecodePass, DecodeLayers
  <2> PICK t : t = w \o q
    OBVIOUS
  <2>2. Turns(table, m, t, n)
    BY ONLY <1>2, <2>1, t = w \o q, FlushTurn
  <2> QED
    BY <2>2
<1>4. PICK m0 : Turns(table, m, w, m0) /\ Turns(table, m0, q, n)
  BY ONLY <1>1, <1>3, TurnsSplit
<1>5. PICK m2 : Turns(table, m0, g \o ls, m2) /\ Turns(table, m2, o, n)
  <2>1. Turns(table, m0, (g \o ls) \o o, n)
    BY <1>4, <1>p, Zenon
  <2> QED
    BY ONLY <1>1, <1>2, <2>1, TurnsSplit
<1>6. PICK m1 : Turns(table, m0, g, m1) /\ Turns(table, m1, ls, m2)
  BY ONLY <1>1, <1>5, TurnsSplit
<1>7. Layers \in Nat /\ DOMAIN ss = 1 .. Layers /\ ss = [l \in 1 .. Layers |-> ss[l]]
  BY <1>p, LayersAssumption, Zenon
<1>8. \A l \in 1 .. Layers : IsSeq(ss[l]) /\ ss[l] = DecodeLayer(l, ple, s, slot, len)
  BY <1>p, DecodeLayersAre, Zenon
<1>9. PICK mm : /\ mm[0] = m1 /\ mm[Layers] = m2
                /\ \A k \in 1 .. Layers : Turns(table, mm[k - 1], ss[k], mm[k])
  <2>1. Turns(table, m1, FlattenSeq(ss), m2)
    BY <1>6, <1>p, Zenon
  <2>2. \A l \in 1 .. Layers : IsSeq(ss[l])
    BY <1>8
  <2> QED
    BY ONLY <1>7, <2>1, <2>2, TurnsFlat
<1>10. DecodedThrough(m1, 0, ple, s, slot, len)
  <2>1. Turns(table, m, DecodeWrite(s), m0) /\ Turns(table, m0, DecodeGather, m1)
    BY <1>4, <1>6, <1>p, Zenon
  <2> QED
    BY <2>1, DecodeStartTurn
<1> DEFINE Reached(k) == DecodedThrough(mm[k], k, ple, s, slot, len)
           Q == {k \in 0 .. Layers : Reached(k)}
<1>11. 0 \in Q
  BY <1>7, <1>9, <1>10
<1>12. ASSUME NEW k \in 0 .. Layers - 1, k \in Q PROVE k + 1 \in Q
  <2>p. PICK j : j = k + 1
    OBVIOUS
  <2>1. j \in 1 .. Layers /\ j - 1 = k /\ j \in 0 .. Layers /\ k \in 0 .. Layers
    BY <1>7, <2>p
  <2>2. Turns(table, mm[k], DecodeLayer(k + 1, ple, s, slot, len), mm[j])
    BY <1>8, <1>9, <2>1, <2>p
  <2>3. Reached(k)
    BY <1>12
  <2>4. DecodedThrough(mm[j], k + 1, ple, s, slot, len)
    <3> PICK x, y : x = mm[k] /\ y = mm[j]
      OBVIOUS
    <3> HIDE DEF Q
    <3> QED
      BY <2>2, <2>3, DecodedLayer
  <2> QED
    BY <2>1, <2>4, <2>p
<1>13. Reached(Layers)
  <2>1. 0 .. Layers \subseteq Q
    <3> HIDE DEF Q
    <3> QED
      BY <1>7, <1>11, <1>12, Climb
  <2>2. Layers \in 0 .. Layers
    BY <1>7
  <2> QED
    BY ONLY <2>1, <2>2
<1>14. DecodedThrough(m2, Layers, ple, s, slot, len)
  BY <1>9, <1>13
<1>15. /\ Decodes(m2) /\ Holds(m2, Decoder("hidden"), Top("h_final"), s)
       /\ \A l \in 1 .. Layers : Cached(m2, l, len)
  <2>1. \A l \in 1 .. Layers : l <= Layers
    BY <1>7
  <2> QED
    BY <1>14, <2>1 DEF DecodedThrough
<1>16. Holds(n, Decoder("logits_read"), Top("logits"), s)
  <2>1. Turns(table, m2, DecodeOut, n)
    BY <1>5, <1>p, Zenon
  <2> QED
    BY <1>15, <2>1, DecodeOutTurn
<1>17. StoredSame(m2, n, 0)
  <2>1. \A b : Stored(b, 0) => Passing(o, b)
    BY <1>p, StoredApart, DecodeOutPasses, Zenon
  <2> QED
    BY ONLY <1>5, <2>1, StoredStill
<1>l. 0 \notin 1 .. Layers
  OBVIOUS
<1>18. Decodes(n)
  BY ONLY <1>15, <1>17, <1>l, DecodesStill
<1>19. ASSUME NEW l \in 1 .. Layers PROVE Cached(n, l, len)
  <2>1. 0 # l
    OBVIOUS
  <2> QED
    BY <1>15, <1>17, <2>1, CachedStill
<1> QED
  BY <1>16, <1>18, <1>19 DEF TokenDone

-----------------------------------------------------------------------------
(* The generation backend in every state.                                  *)

\* Commands that are all submitted run one after another, on any model.
LEMMA RunOn ==
    ASSUME NEW ple, NEW m, NEW per \in Nat, per >= 1, NEW s, Complete(s)
    PROVE  Turns(Results[ple], m, s, Encoded(Begin(ple, m, per), s).mem)
<1> PICK g : g = Begin(ple, m, per)
  OBVIOUS
<1>1. Stands(g) /\ g.encoder = << >> /\ g.results = Results[ple] /\ g.mem = m
  BY BeginStands
<1>2. Turns(g.results, g.mem, s, Encoded(g, s).mem)
  BY ONLY <1>1, Complete(s), EncodedInTurn
<1> QED
  BY <1>1, <1>2

\* Until something is trained, the weights are the model's and the rings hold
\* what they are said to.
RingsHold ==
    calls = 0 =>
        call = Idle /\ Decodes(mem) /\ \A l \in 1 .. Layers : Cached(mem, l, decoded.cached_len)

\* The rings hold every position until they are full, and nothing is trained
\* from the first of them on.
RingsFill ==
    /\ decoded.cached_len = IF decoded.position < Capacity THEN decoded.position ELSE Capacity
    /\ decoded.position > 0 => calls = 0 /\ trainer = Idle

LogitsInv == RingsHold /\ RingsFill /\ LogitsAreTheModels

\* No slot is held at first.
LEMMA NothingCached == \A m, l : Cached(m, l, 0)
<1>1. 0 .. 0 - 1 = {}
  OBVIOUS
<1> QED
  BY <1>1 DEF Cached

\* GpuModel::upload.
LEMMA DecoderMemoryIs == Decodes(DecoderMemory)
<1> PICK m : m = DecoderMemory
  OBVIOUS
<1> PICK B : B = DecoderWeights \cup Caches \cup {Decoder(name) : name \in DecoderNames}
  OBVIOUS
<1>1. /\ DOMAIN m = B
      /\ \A b \in B : m[b] = IF b \in Caches THEN [s \in 0 .. Capacity - 1 |-> Zero]
                             ELSE IF b \in DecoderWeights THEN Value(<<b[1], b[2]>>, NoSeq) ELSE Zero
  BY DEF DecoderMemory
<1>2. \A name \in LayerWeights : name # "k_cache" /\ name # "v_cache"
  BY LayerWeightsAre DEF GradNames
<1>3. ASSUME NEW name \in {"k_cache", "v_cache"}, NEW l \in 1 .. Layers
      PROVE  DecoderLayer(name, l) \in DOMAIN m /\ DOMAIN m[DecoderLayer(name, l)] = 0 .. Capacity - 1
  <2> PICK b : b = DecoderLayer(name, l)
    OBVIOUS
  <2>1. b \in Caches /\ b \in B
    BY DEF Caches
  <2>2. m[b] = [s \in 0 .. Capacity - 1 |-> Zero]
    BY <1>1, <2>1
  <2> QED
    BY <1>1, <2>1, <2>2
<1>4. ASSUME NEW b \in DecoderWeights, NEW name, NEW l, b[1] = name, b[2] = l,
             name # "k_cache", name # "v_cache"
      PROVE  b \in DOMAIN m /\ Weighs(m, b, <<name, l>>)
  <2>1. b \in B
    OBVIOUS
  <2>2. b \notin Caches
    BY <1>4 DEF Caches, DecoderLayer
  <2>3. m[b] = Value(<<name, l>>, NoSeq)
    BY <1>1, <1>4, <2>1, <2>2
  <2> QED
    BY <1>1, <2>1, <2>3 DEF Weighs, Value
<1>5. \A name \in LayerWeights, l \in 1 .. Layers :
         DecoderLayer(name, l) \in DOMAIN m /\ Weighs(m, DecoderLayer(name, l), <<name, l>>)
  <2> TAKE name \in LayerWeights, l \in 1 .. Layers
  <2> PICK b : b = DecoderLayer(name, l)
    OBVIOUS
  <2>1. b \in DecoderWeights /\ b[1] = name /\ b[2] = l
    BY DEF DecoderWeights, DecoderLayer
  <2>2. b \in DOMAIN m /\ Weighs(m, b, <<name, l>>)
    BY <1>2, <1>4, <2>1
  <2> QED
    BY <2>2
<1>6. ASSUME NEW name \in {"embed", "final_norm_gain"}
      PROVE  Decoder(name) \in DOMAIN m /\ Weighs(m, Decoder(name), Top(name))
  <2> PICK b : b = Decoder(name)
    OBVIOUS
  <2>1. b \in DecoderWeights /\ b[1] = name /\ b[2] = 0
    BY DEF DecoderWeights, Decoder
  <2>2. b \in DOMAIN m /\ Weighs(m, b, <<name, 0>>)
    BY <1>4, <2>1
  <2> QED
    BY <2>2 DEF Top
<1>7. \A name \in DecoderNames : Decoder(name) \in DOMAIN m
  BY <1>1
<1>8. Decodes(m)
  BY <1>3, <1>5, <1>6, <1>7 DEF Decodes
<1> QED
  BY <1>8

\* A new trainer's buffers are not the generation backend's.
LEMMA NewLeavesDecoder ==
    ASSUME NEW m, Decodes(m), NEW n, NEW made, DOMAIN n = TrainerBuffers \cup DOMAIN m,
           \A b \in DOMAIN n : n[b] = IF b \in TrainerBuffers THEN made[b] ELSE m[b]
    PROVE  Decodes(n)
<1>1. \A b \in TrainerBuffers : b[3] # "decoder"
  BY DEF TrainerBuffers, InSet, Acts, Scratch
<1>2. \A name, l : DecoderLayer(name, l) \notin TrainerBuffers
  BY <1>1 DEF DecoderLayer
<1>3. \A name : Decoder(name) \notin TrainerBuffers
  BY <1>1 DEF Decoder
<1>4. \A b \in DOMAIN m : b \notin TrainerBuffers => b \in DOMAIN n /\ n[b] = m[b]
  OBVIOUS
<1>5. \A name \in DecoderNames : Decoder(name) \in DOMAIN n
  BY <1>3, <1>4 DEF Decodes
<1>6. \A name \in LayerWeights, l \in 1 .. Layers :
         DecoderLayer(name, l) \in DOMAIN n /\ Weighs(n, DecoderLayer(name, l), <<name, l>>)
  BY <1>2, <1>4 DEF Decodes, Weighs
<1>7. \A name \in {"embed", "final_norm_gain"} :
         Decoder(name) \in DOMAIN n /\ Weighs(n, Decoder(name), Top(name))
  BY <1>3, <1>4 DEF Decodes, Weighs
<1>8. \A name \in {"k_cache", "v_cache"}, l \in 1 .. Layers :
         /\ DecoderLayer(name, l) \in DOMAIN n
         /\ DOMAIN n[DecoderLayer(name, l)] = 0 .. Capacity - 1
  BY <1>2, <1>4 DEF Decodes
<1> QED
  BY <1>5, <1>6, <1>7, <1>8 DEF Decodes

\* A change of the trainer's parameters leaves the decoder.
LEMMA ParamsAside ==
    ASSUME NEW m, NEW n, DOMAIN n = DOMAIN m, \A b \in DOMAIN m : b[3] # "params" => n[b] = m[b],
           Decodes(m)
    PROVE  Decodes(n)
<1>1. \A name, l : DecoderLayer(name, l) \in DOMAIN m => n[DecoderLayer(name, l)] = m[DecoderLayer(name, l)]
  <2> TAKE name, l
  <2> PICK b : b = DecoderLayer(name, l)
    OBVIOUS
  <2>1. b[3] # "params"
    BY DEF DecoderLayer
  <2> QED
    BY <2>1
<1>2. \A name : Decoder(name) \in DOMAIN m => n[Decoder(name)] = m[Decoder(name)]
  <2> TAKE name
  <2> PICK b : b = Decoder(name)
    OBVIOUS
  <2>1. b[3] # "params"
    BY DEF Decoder
  <2> QED
    BY <2>1
<1> QED
  BY <1>1, <1>2 DEF Decodes, Weighs

\* A prompt's keys and values are put in the first slots.
Filled(m, n, kept, made) ==
    /\ DOMAIN n = DOMAIN m
    /\ \A b \in DOMAIN m :
          n[b] = IF b \in Caches
                 THEN [s \in 0 .. Capacity - 1 |->
                         IF s < kept
                         THEN Value(<<IF b[1] = "k_cache" THEN "k" ELSE "v", b[2]>>, made[s])
                         ELSE m[b][s]]
                 ELSE m[b]
PromptIn(n, kept) == Decodes(n) /\ \A l \in 1 .. Layers : Cached(n, l, kept)

\* There the backend finds them.
LEMMA Seeded ==
    ASSUME NEW m, Decodes(m), NEW n, NEW kept \in 0 .. Capacity, NEW made, Filled(m, n, kept, made)
    PROVE  PromptIn(n, kept)
<1>f. /\ DOMAIN n = DOMAIN m
      /\ \A b \in DOMAIN m :
            n[b] = IF b \in Caches
                   THEN [s \in 0 .. Capacity - 1 |->
                           IF s < kept
                           THEN Value(<<IF b[1] = "k_cache" THEN "k" ELSE "v", b[2]>>, made[s])
                           ELSE m[b][s]]
                   ELSE m[b]
  BY DEF Filled
<1>1. \A name \in LayerWeights : name # "k_cache" /\ name # "v_cache"
  BY LayerWeightsAre DEF GradNames
<1>2. \A name, l : name # "k_cache" /\ name # "v_cache" => DecoderLayer(name, l) \notin Caches
  BY DEF Caches, DecoderLayer
<1>3. \A name : name # "k_cache" /\ name # "v_cache" => Decoder(name) \notin Caches
  BY DEF Caches, Decoder, DecoderLayer
<1>4. ASSUME NEW name \in {"k_cache", "v_cache"}, NEW l \in 1 .. Layers, NEW b, b = DecoderLayer(name, l)
      PROVE  /\ b \in DOMAIN n /\ DOMAIN n[b] = 0 .. Capacity - 1
             /\ \A i \in 0 .. kept - 1 : n[b][i].of = <<IF name = "k_cache" THEN "k" ELSE "v", l>>
  <2>1. b \in Caches /\ b \in DOMAIN m /\ b[1] = name /\ b[2] = l
    BY <1>4 DEF Caches, Decodes, DecoderLayer
  <2> PICK x : x = <<IF name = "k_cache" THEN "k" ELSE "v", l>>
    OBVIOUS
  <2>2. n[b] = [s \in 0 .. Capacity - 1 |-> IF s < kept THEN Value(x, made[s]) ELSE m[b][s]]
    BY <1>f, <2>1
  <2>3. \A i \in 0 .. kept - 1 : i \in 0 .. Capacity - 1 /\ i < kept
    BY GpuTrainingAssumption
  <2>4. \A i \in 0 .. kept - 1 : n[b][i] = Value(x, made[i])
    BY <2>2, <2>3
  <2>5. \A w : Value(x, w).of = x
    BY DEF Value
  <2>6. \A i \in 0 .. kept - 1 : n[b][i].of = x
    BY ONLY <2>4, <2>5
  <2>7. DOMAIN n[b] = 0 .. Capacity - 1
    BY <2>2
  <2> QED
    BY <1>f, <2>1, <2>6, <2>7
<1>5. \A name \in DecoderNames : Decoder(name) \in DOMAIN n
  BY <1>f DEF Decodes
<1>6. \A name \in LayerWeights, l \in 1 .. Layers :
         DecoderLayer(name, l) \in DOMAIN n /\ Weighs(n, DecoderLayer(name, l), <<name, l>>)
  BY <1>f, <1>1, <1>2 DEF Decodes, Weighs
<1>7. \A name \in {"embed", "final_norm_gain"} :
         Decoder(name) \in DOMAIN n /\ Weighs(n, Decoder(name), Top(name))
  BY <1>f, <1>3 DEF Decodes, Weighs
<1>8. \A name \in {"k_cache", "v_cache"}, l \in 1 .. Layers :
         /\ DecoderLayer(name, l) \in DOMAIN n
         /\ DOMAIN n[DecoderLayer(name, l)] = 0 .. Capacity - 1
  BY <1>4
<1>9. Decodes(n)
  BY <1>5, <1>6, <1>7, <1>8 DEF Decodes
<1>10. ASSUME NEW l \in 1 .. Layers PROVE Cached(n, l, kept)
  <2>1. \A i \in 0 .. kept - 1 : /\ n[DecoderLayer("k_cache", l)][i].of = <<"k", l>>
                                 /\ n[DecoderLayer("v_cache", l)][i].of = <<"v", l>>
    BY <1>4
  <2> QED
    BY <2>1 DEF Cached, SlotIs
<1> QED
  BY <1>9, <1>10 DEF PromptIn

\* A position is not the absence of one.
LEMMA AtIsOne == ASSUME NEW p \in Nat PROVE At(p + 1) # NoSeq
<1> PICK a, b : a = At(p + 1) /\ b = NoSeq
  OBVIOUS
<1>1. a.at = p + 1 /\ b.at = 0
  BY DEF At, NoSeq
<1> QED
  BY <1>1

\* The slot a token is written to is free, or the oldest of a full ring.
SlotReady(p, d, m, l) ==
    /\ p % Capacity \in 0 .. Capacity - 1 /\ d \in 0 .. Capacity
    /\ d = IF p + 1 < Capacity THEN p + 1 ELSE Capacity
    /\ CachedBut(m, l, p % Capacity, d)

\* It is, when the ring has been filled from the first slot on.
LEMMA SlotIsNext ==
    ASSUME NEW p \in Nat, NEW c, c = (IF p < Capacity THEN p ELSE Capacity), NEW m, NEW l, Cached(m, l, c),
           NEW d, d = (IF c < Capacity THEN c + 1 ELSE Capacity)
    PROVE  SlotReady(p, d, m, l)
<1>1. Capacity \in Nat /\ Capacity > 0
  BY GpuTrainingAssumption
<1>2. p % Capacity \in 0 .. Capacity - 1 /\ (p < Capacity => p % Capacity = p)
  BY <1>1
<1>3. d \in 0 .. Capacity /\ d = (IF p + 1 < Capacity THEN p + 1 ELSE Capacity)
  BY <1>1
<1>4. \A i \in 0 .. d - 1 : i = p % Capacity \/ i \in 0 .. c - 1
  BY <1>1, <1>2
<1>5. CachedBut(m, l, p % Capacity, d)
  BY <1>4 DEF CachedBut, Cached
<1> QED
  BY <1>2, <1>3, <1>5 DEF SlotReady

\* A token decoded has the model's logits, and is in every ring.
LEMMA decode_stepIs ==
    ASSUME StateInv, LogitsInv, decode_step
    PROVE  LogitsInv'
<1> PICK p, c, d, seq, slot : /\ p = decoded.position /\ c = decoded.cached_len
                              /\ d = (IF c < Capacity THEN c + 1 ELSE Capacity)
                              /\ seq = At(p + 1) /\ slot = p % Capacity
  OBVIOUS
<1> PICK commands, per, g : /\ commands = decode_commands(use_ple, seq, slot, d)
                            /\ per = Len(commands)
                            /\ g = Encoded(Begin(use_ple, mem, per), commands)
  OBVIOUS
<1>1. /\ trainer = Idle /\ calls = 0 /\ mem' = g.mem
      /\ answer' = [kind |-> "logits", seqs |-> <<seq>>, got |-> g.mem[Decoder("logits_read")]]
      /\ decoded' = [position |-> p + 1, cached_len |-> d]
      /\ UNCHANGED <<use_ple, trainer, call, calls>>
  BY Zenon DEF decode_step, NotTraining, Runs
<1>2. p \in Nat /\ use_ple \in BOOLEAN
  <2>1. decoded.position \in 0 .. MaxTokens + Capacity + 1
    BY DEF StateInv
  <2> QED
    BY <2>1, GpuTrainingAssumption DEF StateInv
<1>3. /\ call = Idle /\ Decodes(mem) /\ \A l \in 1 .. Layers : Cached(mem, l, c)
      /\ c = IF p < Capacity THEN p ELSE Capacity
  BY <1>1 DEF LogitsInv, RingsHold, RingsFill
<1>4. 1 \in 1 .. Layers
  BY LayersAssumption
<1>5. \A l \in 1 .. Layers : /\ slot \in 0 .. Capacity - 1 /\ d \in 0 .. Capacity
                             /\ d = IF p + 1 < Capacity THEN p + 1 ELSE Capacity
                             /\ CachedBut(mem, l, slot, d)
  <2> TAKE l \in 1 .. Layers
  <2> PICK m : m = mem
    OBVIOUS
  <2>1. c = (IF p < Capacity THEN p ELSE Capacity) /\ d = (IF c < Capacity THEN c + 1 ELSE Capacity)
    BY <1>3
  <2>2. p \in Nat /\ Cached(m, l, c)
    BY <1>2, <1>3
  <2>3. SlotReady(p, d, m, l)
    BY ONLY <2>1, <2>2, SlotIsNext
  <2> QED
    BY <2>3 DEF SlotReady
<1>6. seq # NoSeq
  BY <1>2, AtIsOne
<1> PICK table, m, n, ple : table = Results[ple] /\ m = mem /\ n = mem' /\ ple = use_ple
  OBVIOUS
<1>7. Complete(commands)
  BY <1>2, DecodeCommandsAre
<1>8. per \in Nat /\ per >= 1
  BY <1>7, SeqIs DEF Complete
<1>9. Turns(table, m, commands, n)
  BY <1>1, <1>7, <1>8, RunOn
<1>10. TokenDone(n, seq, d)
  <2>1. ple \in BOOLEAN /\ Decodes(m) /\ slot \in 0 .. Capacity - 1 /\ d \in 0 .. Capacity
    BY <1>2, <1>3, <1>4, <1>5
  <2>2. \A l \in 1 .. Layers : CachedBut(m, l, slot, d)
    BY <1>5
  <2>3. Turns(table, m, decode_commands(ple, seq, slot, d), n)
    BY <1>9
  <2> QED
    BY ONLY <1>6, <2>1, <2>2, <2>3, table = Results[ple], DecodeTurn
<1> PICK h, a, x : h = decoded' /\ a = answer' /\ x = g.mem[Decoder("logits_read")]
  OBVIOUS
<1>11. h.position = p + 1 /\ h.cached_len = d
  BY <1>1
<1>12. a.seqs = <<seq>> /\ a.got = x
  BY <1>1
<1>13. x = Value(Top("logits"), seq)
  BY <1>1, <1>10, SMTT(60) DEF TokenDone, Holds
<1>14. RingsHold'
  BY <1>1, <1>3, <1>10, <1>11 DEF RingsHold, TokenDone
<1>15. RingsFill'
  BY <1>1, <1>4, <1>5, <1>11 DEF RingsFill
<1>16. LogitsAreTheModels'
  <2>1. a.seqs[1] = seq
    BY <1>12
  <2> QED
    BY <1>12, <1>13, <2>1 DEF LogitsAreTheModels
<1> QED
  BY <1>14, <1>15, <1>16 DEF LogitsInv

\* It holds at first.
LEMMA LogitsInit == Init => LogitsInv
<1> SUFFICES ASSUME Init PROVE LogitsInv
  OBVIOUS
<1> PICK h : h = decoded
  OBVIOUS
<1>1. h.position = 0 /\ h.cached_len = 0
  <2>1. h = [position |-> 0, cached_len |-> 0]
    BY DEF Init
  <2> QED
    BY <2>1
<1>2. mem = DecoderMemory /\ call = Idle /\ answer = Idle
  BY DEF Init
<1>3. RingsHold
  BY <1>1, <1>2, DecoderMemoryIs, NothingCached DEF RingsHold
<1>4. RingsFill
  BY <1>1, GpuTrainingAssumption DEF RingsFill
<1> QED
  BY <1>2, <1>3, <1>4 DEF LogitsInv, LogitsAreTheModels

\* A call of the trainer counts, and leaves the answer of a prompt only if it
\* was one.
LEMMA TrainerCalled ==
    ASSUME StateInv, LogitsInv, trainer # Idle, calls' = calls + 1, UNCHANGED decoded,
           answer' = Idle \/ answer'.kind = "loss" \/ answer'.got = Value(Top("logits"), answer'.seqs[1])
    PROVE  LogitsInv'
<1>1. calls \in Nat
  BY GpuTrainingAssumption DEF StateInv
<1>2. decoded.position = 0
  <2>1. decoded.position \in 0 .. MaxTokens + Capacity + 1
    BY DEF StateInv
  <2>2. ~ (decoded.position > 0)
    BY DEF LogitsInv, RingsFill
  <2> QED
    BY <2>1, <2>2, GpuTrainingAssumption
<1>3. RingsHold'
  BY <1>1 DEF RingsHold
<1>4. RingsFill'
  BY <1>2 DEF RingsFill, LogitsInv
<1>5. LogitsAreTheModels'
  BY DEF LogitsAreTheModels
<1> QED
  BY <1>3, <1>4, <1>5 DEF LogitsInv

\* Every step keeps it.
LEMMA LogitsStep ==
    ASSUME StateInv, HostInv, LogitsInv, [Next]_vars
    PROVE  LogitsInv'
<1>0. trainer # Idle => Able
  BY DEF Able, HostInv, TrainerHolds
<1>z. decoded.position \in Nat
  BY GpuTrainingAssumption DEF StateInv
<1>1. ASSUME NEW optimizer \in BOOLEAN, New(optimizer) PROVE LogitsInv'
  <2>1. /\ decoded.position = 0
        /\ UNCHANGED <<use_ple, call, answer, longest, held, spoilt, calls, decoded>>
        /\ \E made : mem' = [b \in TrainerBuffers \cup DOMAIN mem |->
                                IF b \in TrainerBuffers THEN made[b] ELSE mem[b]]
    BY <1>1, Zenon DEF New, NotDecoding
  <2>2. PICK made : mem' = [b \in TrainerBuffers \cup DOMAIN mem |->
                               IF b \in TrainerBuffers THEN made[b] ELSE mem[b]]
    BY <2>1
  <2>3. decoded.cached_len = 0
    BY <2>1, GpuTrainingAssumption DEF LogitsInv, RingsFill
  <2>4. Decodes(mem) => Decodes(mem')
    <3> PICK m, n : m = mem /\ n = mem'
      OBVIOUS
    <3>1. /\ DOMAIN n = TrainerBuffers \cup DOMAIN m
          /\ \A b \in DOMAIN n : n[b] = IF b \in TrainerBuffers THEN made[b] ELSE m[b]
      BY <2>2
    <3>2. Decodes(m) => Decodes(n)
      BY ONLY <3>1, NewLeavesDecoder
    <3> QED
      BY <3>2
  <2>5. RingsHold'
    BY <2>1, <2>3, <2>4, NothingCached DEF LogitsInv, RingsHold
  <2>6. RingsFill'
    BY <2>1 DEF LogitsInv, RingsFill
  <2> QED
    BY <2>1, <2>5, <2>6 DEF LogitsInv, LogitsAreTheModels
<1>u. CASE upload_optimizer
  <2>1. trainer # Idle /\ UNCHANGED <<call, answer, calls, decoded>>
    BY <1>u, Zenon DEF upload_optimizer
  <2>2. Restored(mem, mem')
    BY <1>u, Zenon DEF upload_optimizer, Restored
  <2>3. decoded.cached_len = 0 /\ decoded.position = 0
    <3>1. ~ (decoded.position > 0)
      BY <2>1 DEF LogitsInv, RingsFill
    <3>2. decoded.position = 0
      BY <1>z, <3>1
    <3> QED
      BY <3>2, GpuTrainingAssumption DEF LogitsInv, RingsFill
  <2>4. Decodes(mem) => Decodes(mem')
    <3> PICK m, n : m = mem /\ n = mem'
      OBVIOUS
    <3>1. Restored(m, n)
      BY <2>2
    <3>2. DOMAIN n = DOMAIN m /\ \A b \in DOMAIN m : b[3] # "params" => n[b] = m[b]
      BY <3>1 DEF Restored
    <3>3. Decodes(m) => Decodes(n)
      BY ONLY <3>2, ParamsAside
    <3> QED
      BY <3>3
  <2>5. RingsHold' /\ RingsFill'
    BY <2>1, <2>3, <2>4, NothingCached DEF LogitsInv, RingsHold, RingsFill
  <2> QED
    BY <2>1, <2>5 DEF LogitsInv, LogitsAreTheModels
<1>2. ASSUME NEW n \in PerSubmit, set_dispatches_per_submit(n) PROVE LogitsInv'
  <2>1. trainer # Idle /\ UNCHANGED <<mem, call, answer, calls, decoded>>
    BY <1>2 DEF set_dispatches_per_submit
  <2> QED
    BY <2>1 DEF LogitsInv, RingsHold, RingsFill, LogitsAreTheModels
<1>3. ASSUME NEW kind \in {"train", "bench", "profile"}, NEW flat \in Inputs, train_step(kind, flat)
      PROVE  LogitsInv'
  <2>1. trainer # Idle /\ answer' = Idle /\ calls' = calls + 1 /\ UNCHANGED decoded
    BY <1>3, Zenon DEF train_step, Ready
  <2> QED
    BY <2>1, TrainerCalled
<1>4. ASSUME FinishStep PROVE LogitsInv'
  <2>1. /\ call # Idle /\ UNCHANGED <<calls, decoded>>
        /\ answer' = [kind |-> "loss", seqs |-> call.seqs, got |-> mem[Stats][0]]
    BY <1>4, Zenon DEF FinishStep
  <2>2. calls # 0
    BY <2>1 DEF LogitsInv, RingsHold
  <2>3. ~ (decoded.position > 0)
    BY <2>2 DEF LogitsInv, RingsFill
  <2>4. RingsHold' /\ RingsFill'
    BY <2>1, <2>2, <2>3 DEF LogitsInv, RingsHold, RingsFill
  <2>5. LogitsAreTheModels'
    BY <2>1 DEF LogitsAreTheModels
  <2> QED
    BY <2>4, <2>5 DEF LogitsInv
<1>5. CASE ReadbackFails
  <2>1. call # Idle /\ UNCHANGED <<trainer, answer, calls, decoded>>
    BY <1>5 DEF ReadbackFails
  <2>2. calls # 0
    BY <2>1 DEF LogitsInv, RingsHold
  <2> QED
    BY <2>1, <2>2 DEF LogitsInv, RingsHold, RingsFill, LogitsAreTheModels
<1>6. ASSUME NEW flat \in Inputs, eval_loss(flat) PROVE LogitsInv'
  <2>1. trainer # Idle /\ calls' = calls + 1 /\ UNCHANGED decoded /\ answer'.kind = "loss"
    BY <1>6 DEF eval_loss, Ready, Answered
  <2> QED
    BY <2>1, TrainerCalled, SMTT(60)
<1>7. ASSUME NEW flat \in Inputs, debug_compare_forward(flat) PROVE LogitsInv'
  <2>1. trainer # Idle /\ calls' = calls + 1 /\ UNCHANGED decoded
    BY <1>7 DEF debug_compare_forward, Ready, Answered
  <2>2. answer'.got = Value(Top("logits"), answer'.seqs[1])
    BY <1>0, <1>7, <2>1, debug_compare_forwardIs
  <2> QED
    BY <2>1, <2>2, TrainerCalled
<1>8. CASE profile_kernels
  <2>1. trainer # Idle /\ answer' = Idle /\ calls' = calls + 1 /\ UNCHANGED decoded
    BY <1>8, Zenon DEF profile_kernels, Ready
  <2> QED
    BY <2>1, TrainerCalled
<1>9. CASE Download
  BY <1>9 DEF Download, LogitsInv, RingsHold, RingsFill, LogitsAreTheModels
<1>10. CASE Lost
  BY <1>10 DEF Lost, history, LogitsInv, RingsHold, RingsFill, LogitsAreTheModels
<1>11. ASSUME NEW n \in 1 .. Capacity + 1, seed_from_cpu_cache(n) PROVE LogitsInv'
  <2> PICK first, kept : first = (IF n > Capacity THEN n - Capacity ELSE 0) /\ kept = n - first
    OBVIOUS
  <2>1. /\ decoded.position = 0 /\ trainer = Idle /\ calls = 0
        /\ UNCHANGED <<use_ple, trainer, call, answer, calls>>
        /\ decoded' = [position |-> n, cached_len |-> IF kept > Capacity THEN Capacity ELSE kept]
        /\ mem' = [b \in DOMAIN mem |->
                     IF b \in Caches
                     THEN [s \in 0 .. Capacity - 1 |->
                             IF s < kept
                             THEN Value(<<IF b[1] = "k_cache" THEN "k" ELSE "v", b[2]>>, At(first + s + 1))
                             ELSE mem[b][s]]
                     ELSE mem[b]]
    BY <1>11, Zenon DEF seed_from_cpu_cache, NotTraining
  <2>2. Capacity \in Nat /\ n \in Nat /\ n > 0
    BY GpuTrainingAssumption
  <2>3. kept \in 0 .. Capacity /\ kept = (IF n < Capacity THEN n ELSE Capacity)
    BY <2>2
  <2> PICK h, len : h = decoded' /\ len = (IF kept > Capacity THEN Capacity ELSE kept)
    OBVIOUS
  <2>4. h.position = n /\ h.cached_len = kept
    <3>1. h = [position |-> n, cached_len |-> len]
      BY <2>1
    <3>2. len = kept
      BY <2>2, <2>3
    <3> QED
      BY <3>1, <3>2
  <2>5. Decodes(mem') /\ \A l \in 1 .. Layers : Cached(mem', l, kept)
    <3> PICK m, x, made : /\ m = mem /\ x = mem'
                          /\ made = [s \in 0 .. Capacity - 1 |-> At(first + s + 1)]
      OBVIOUS
    <3>1. Decodes(m)
      BY <2>1 DEF LogitsInv, RingsHold
    <3>2. /\ DOMAIN x = DOMAIN m
          /\ \A b \in DOMAIN m :
               x[b] = IF b \in Caches
                      THEN [s \in 0 .. Capacity - 1 |->
                              IF s < kept
                              THEN Value(<<IF b[1] = "k_cache" THEN "k" ELSE "v", b[2]>>, At(first + s + 1))
                              ELSE m[b][s]]
                      ELSE m[b]
      BY <2>1
    <3>3. \A s \in 0 .. Capacity - 1 : made[s] = At(first + s + 1)
      OBVIOUS
    <3>4. \A b \in DOMAIN m :
             x[b] = IF b \in Caches
                    THEN [s \in 0 .. Capacity - 1 |->
                            IF s < kept
                            THEN Value(<<IF b[1] = "k_cache" THEN "k" ELSE "v", b[2]>>, made[s])
                            ELSE m[b][s]]
                    ELSE m[b]
      BY <3>2, <3>3
    <3>5. Filled(m, x, kept, made)
      BY <3>2, <3>4 DEF Filled
    <3>6. PromptIn(x, kept)
      BY ONLY <2>3, <3>1, <3>5, Seeded
    <3> QED
      BY <3>6 DEF PromptIn
  <2>6. RingsHold'
    BY <2>1, <2>4, <2>5 DEF LogitsInv, RingsHold
  <2>7. RingsFill'
    BY <2>1, <2>3, <2>4 DEF RingsFill
  <2> QED
    BY <2>1, <2>6, <2>7 DEF LogitsInv, LogitsAreTheModels
<1>12. CASE decode_step
  BY <1>12, decode_stepIs
<1>13. CASE UNCHANGED vars
  BY <1>13 DEF vars, LogitsInv, RingsHold, RingsFill, LogitsAreTheModels
<1> QED
  BY <1>u, <1>1, <1>2, <1>3, <1>4, <1>5, <1>6, <1>7, <1>8, <1>9, <1>10, <1>11, <1>12, <1>13 DEF Next

\* Logits read back are the model's, for any number of layers and with or
\* without per-layer embeddings: those of a whole sequence from the trainer,
\* and those of each token from the generation backend, whose rings hold the
\* keys and values of the positions before it.
THEOREM DecodingIsTheModels == Spec => []LogitsAreTheModels
<1>1. Init => StateInv /\ HostInv /\ LogitsInv
  BY StateInit, HostInit, LogitsInit
<1>2. (StateInv /\ HostInv /\ LogitsInv) /\ [Next]_vars => (StateInv /\ HostInv /\ LogitsInv)'
  BY StateStep, HostStep, LogitsStep
<1>3. StateInv /\ HostInv /\ LogitsInv => LogitsAreTheModels
  BY DEF LogitsInv
<1> QED
  BY <1>1, <1>2, <1>3, PTL DEF Spec
================================================================================
