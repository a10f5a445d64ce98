------------------------------ MODULE GpuKernels ------------------------------
(***************************************************************************)
(* How the host drives the GPU (llm-gpu trainer/dispatch.rs, context.rs,   *)
(* buffers.rs, the dispatch functions of model.rs) and what the kernels    *)
(* do to its buffers (shaders/).                                           *)
(*                                                                         *)
(* A buffer is named by the field that holds it, its layer or slot, and    *)
(* its owner.  It holds a value of HostMath with the sequence it was       *)
(* computed from, so that two buffers hold the same value exactly when the *)
(* same floats were computed the same way.  The kernels look up what they  *)
(* read in the host's table: operands the host never puts together, or of  *)
(* two different sequences, give Junk.                                     *)
(*                                                                         *)
(* The queue runs submissions and buffer writes in the order they were     *)
(* given, and a readback waits for them, so a submission is modelled as    *)
(* done at once.  What matters is that write_buffer overtakes the commands *)
(* still in an encoder.                                                    *)
(***************************************************************************)
EXTENDS HostMath, SequencesExt

NoSeq == [call |-> 0, at |-> 0, toks |-> << >>]
Value(name, seq) == [of |-> name, seq |-> seq]
Junk == Value(Top("junk"), NoSeq)
Zero == Value(Top("zero"), NoSeq)

-----------------------------------------------------------------------------
(* Commands.  `dims` and `seq` are the words of the parameter block.       *)

Dispatch(op, dims, seq, reads, writes) ==
    [do |-> "dispatch", op |-> op, params |-> [dims |-> dims, seq |-> seq],
     reads |-> reads, writes |-> writes]
Copy(src, dst) == [do |-> "copy", op |-> "copy", reads |-> <<src>>, writes |-> <<dst>>]
CopyToSlot(src, dst, slot) ==
    [do |-> "copy", op |-> "copy_to_slot", slot |-> slot, reads |-> <<src>>, writes |-> <<dst>>]
WriteBuffer(dst, value) == [do |-> "write", dst |-> dst, value |-> value]
Flush == [do |-> "flush"]

dispatch_linear(x, w, y, rows, i, o) ==
    Dispatch("linear", <<rows, i, o>>, NoSeq, <<x, w>>, <<y>>)
dispatch_add_inplace(dst, src, rows) ==
    Dispatch("add", <<rows, "h">>, NoSeq, <<dst, src>>, <<dst>>)
dispatch_swiglu(gate, up, out, rows) ==
    Dispatch("swiglu", <<rows, "ffn">>, NoSeq, <<gate, up>>, <<out>>)
dispatch_gather(table, ids, out, rows) ==
    Dispatch("gather", <<rows, "h">>, NoSeq, <<table, ids>>, <<out>>)
dispatch_rmsnorm(x, gain, out, inv_rms, rows) ==
    Dispatch("rmsnorm", <<rows, "h">>, NoSeq, <<x, gain>>, <<out, inv_rms>>)
\* `seq` carries the position of a token being decoded.
dispatch_rope(x, rows, heads, seq, dir) ==
    Dispatch("rope", <<rows, heads, dir>>, seq, <<x>>, <<x>>)
dispatch_attention_decode(q, k_cache, v_cache, out, cached_len) ==
    Dispatch("attention_decode", <<cached_len>>, NoSeq, <<q, k_cache, v_cache>>, <<out>>)

dispatch_attention_fwd(q, k, v, concat, probs) ==
    Dispatch("attention_fwd", <<"t", "band">>, NoSeq, <<q, k, v>>, <<concat, probs>>)
dispatch_linear_bwd_dw(dy, x, dw, i, o) ==
    Dispatch("linear_bwd_dw", <<"t", i, o>>, NoSeq, <<dy, x>>, <<dw>>)
dispatch_linear_bwd_dx(dy, w, dx, i, o) ==
    Dispatch("linear_bwd_dx", <<"t", i, o>>, NoSeq, <<dy, w>>, <<dx>>)
dispatch_swiglu_bwd(d_act, gate, up, d_gate, d_up) ==
    Dispatch("swiglu_bwd", <<"t", "ffn">>, NoSeq, <<d_act, gate, up>>, <<d_gate, d_up>>)
dispatch_rmsnorm_bwd_dx(dy, x, gain, inv_rms, dx) ==
    Dispatch("rmsnorm_bwd_dx", <<"t", "h">>, NoSeq, <<dy, x, gain, inv_rms>>, <<dx>>)
dispatch_rmsnorm_bwd_dgain(dy, x, inv_rms, dgain) ==
    Dispatch("rmsnorm_bwd_dgain", <<"t", "h">>, NoSeq, <<dy, x, inv_rms>>, <<dgain>>)
dispatch_scatter_add(d_rows, row_ids, offsets, positions, table_grad, seq, groups) ==
    Dispatch("scatter_add", <<groups>>, seq, <<d_rows, row_ids, offsets, positions>>,
             <<table_grad>>)

\* `len` entries, of a gradient (all of it) or of the stats.
dispatch_zero(buffer, len) == Dispatch("zero", <<len>>, NoSeq, << >>, <<buffer>>)

\* Two stages: the groups' partial sums, then their sum added into a slot.
dispatch_reduce(src, partials, stats, slot, square, groups) ==
    <<Dispatch("reduce", <<square, groups>>, NoSeq, <<src>>, <<partials>>),
      Dispatch("reduce_finish", <<slot, groups>>, NoSeq, <<partials>>, <<stats>>)>>

-----------------------------------------------------------------------------
(* The kernels.  `p` is the parameter block a command runs with, `results` *)
(* what each function of ops returns.                                      *)

\* A kernel that computes what a function of ops does.
Outputs(results, mem, c, p) ==
    LET ins == [i \in DOMAIN c.reads |-> mem[c.reads[i]]]
        seqs == {ins[i].seq : i \in DOMAIN ins} \cup {p.seq}
        key == <<c.op, [i \in DOMAIN ins |-> ins[i].of], p.dims>>
    IN IF key \in DOMAIN results /\ \E s \in seqs : seqs \subseteq {s, NoSeq} /\ s # NoSeq
       THEN [k \in DOMAIN c.writes |->
                Value(results[key][k], CHOOSE s \in seqs : s # NoSeq)]
       ELSE [k \in DOMAIN c.writes |-> Junk]

\* The rows of the table each group's positions are added to.
ScatteredRows(groups, ids, offsets, positions) ==
    [id \in {ids[g] : g \in 1 .. groups} |->
        FlattenSeq([g \in 1 .. groups |->
            IF ids[g] = id THEN SubSeq(positions, offsets[g] + 1, offsets[g + 1]) ELSE << >>])]

Scattered(mem, c, p) ==
    LET d_rows == mem[c.reads[1]]
        rows == ScatteredRows(p.dims[1], mem[c.reads[2]], mem[c.reads[3]], mem[c.reads[4]])
    IN IF d_rows.of = <<"d_in", 1>> /\ rows = ScatterAddRows(d_rows.seq.toks)
       THEN Value(Top("d_embed_gather"), d_rows.seq) ELSE Junk

\* Every slot up to cached_len is attended to.
Attended(mem, c, p) ==
    LET q == mem[c.reads[1]]
        holds(cache, name) ==
            \A s \in 0 .. p.dims[1] - 1 : mem[cache][s].of = <<name, q.of[2]>>
    IN IF q.of[1] = "q" /\ holds(c.reads[2], "k") /\ holds(c.reads[3], "v")
       THEN Value(<<"concat", q.of[2]>>, q.seq) ELSE Junk

\* Results go to a buffer of their own each, or are added to a gradient.
Computed(results, mem, c, p) ==
    LET out == Outputs(results, mem, c, p)
        last == Len(c.writes)
    IN [mem EXCEPT ![c.writes[1]] = out[1], ![c.writes[last]] = out[last]]
Accumulated(results, mem, c, p) ==
    [mem EXCEPT ![c.writes[1]] = Append(@, Outputs(results, mem, c, p)[1])]
ScatterAdded(mem, c, p) == [mem EXCEPT ![c.writes[1]] = Append(@, Scattered(mem, c, p))]
Decoded(mem, c, p) == [mem EXCEPT ![c.writes[1]] = Attended(mem, c, p)]

Copied(mem, c) == [mem EXCEPT ![c.writes[1]] = mem[c.reads[1]]]
CopiedToSlot(mem, c) == [mem EXCEPT ![c.writes[1]][c.slot] = mem[c.reads[1]]]

\* The first entries of the stats, or a whole gradient.
Zeroed(mem, c, p) ==
    [mem EXCEPT ![c.writes[1]] =
        IF c.writes[1][1] = "stats"
        THEN [i \in DOMAIN @ |-> IF i < p.dims[1] THEN << >> ELSE @[i]] ELSE << >>]

Reduced(mem, c, p) ==
    [mem EXCEPT ![c.writes[1]] = [of |-> mem[c.reads[1]], square |-> p.dims[1],
                                  groups |-> p.dims[2]]]
ReductionFinished(mem, c, p) ==
    LET partials == mem[c.reads[1]]
    IN [mem EXCEPT ![c.writes[1]][p.dims[1]] =
           Append(@, IF partials.groups = p.dims[2] THEN partials ELSE Junk)]

\* At bias correction for step 0 the kernel divides by zero, and zero times
\* what comes of it is not a number whatever the learning rate.
Adam(mem, c, p) ==
    LET g == mem[c.reads[1]]
        take == [grad |-> IF p.dims.scale.batch = 0 THEN << >> ELSE g, scale |-> p.dims.scale]
        update == IF p.dims.step = 0 THEN <<Junk>>
                  ELSE IF p.dims.lr = 0 THEN << >>
                  ELSE <<[grad |-> g, scale |-> p.dims.scale, step |-> p.dims.step,
                          decayed |-> p.dims.decay]>>
    IN [mem EXCEPT ![c.writes[1]].past = @ \o update,
                   ![c.writes[2]] = Append(@, take), ![c.writes[3]] = Append(@, take)]

Computing == {"linear", "add", "swiglu", "gather", "rmsnorm", "rope", "attention_fwd",
              "cross_entropy", "linear_bwd_dx", "swiglu_bwd", "rmsnorm_bwd_dx",
              "attention_dscore", "attention_dq", "attention_dkdv"}
Accumulating == {"linear_bwd_dw", "rmsnorm_bwd_dgain"}

Execute(results, p, mem, c) ==
    CASE c.op \in Computing -> Computed(results, mem, c, p)
      [] c.op \in Accumulating -> Accumulated(results, mem, c, p)
      [] c.op = "scatter_add" -> ScatterAdded(mem, c, p)
      [] c.op = "attention_decode" -> Decoded(mem, c, p)
      [] c.op = "copy" -> Copied(mem, c)
      [] c.op = "copy_to_slot" -> CopiedToSlot(mem, c)
      [] c.op = "zero" -> Zeroed(mem, c, p)
      [] c.op = "reduce" -> Reduced(mem, c, p)
      [] c.op = "reduce_finish" -> ReductionFinished(mem, c, p)
      [] c.op = "adam" -> Adam(mem, c, p)

-----------------------------------------------------------------------------
(* Encoding.  The state of a call: the GPU's memory, the pool of parameter *)
(* blocks and its cursor, the commands in the encoder with the slot of the *)
(* pool each has, and how long the longest submission was.  Chunks::new,   *)
(* after ParamsPool::reset.                                                *)

Begin(ple, mem, per_submit) ==
    [results |-> Results[ple], mem |-> mem, per_submit |-> per_submit, params |-> << >>, cursor |-> 0,
     encoder |-> << >>, longest |-> 0]

\* What an encoded command's slot of the pool holds now; a copy has no slot.
Block(params, e) == IF e.slot = 0 THEN << >> ELSE params[e.slot]

\* The commands of the encoder run in turn, over what the pool holds now.
Submitted(g) ==
    LET ran[i \in 0 .. Len(g.encoder)] ==
          IF i = 0 THEN g.mem
          ELSE Execute(g.results, Block(g.params, g.encoder[i]), ran[i - 1], g.encoder[i].command)
    IN ran[Len(g.encoder)]

flush(g) ==
    [g EXCEPT !.mem = Submitted(g), !.encoder = << >>,
              !.longest = IF Len(g.encoder) > @ THEN Len(g.encoder) ELSE @]

\* Mutant of enc: one operation more than asked for.
enc_late(g, c, slot) ==
    LET ready == IF Len(g.encoder) > g.per_submit THEN flush(g) ELSE g
    IN [ready EXCEPT !.encoder = Append(@, [command |-> c, slot |-> slot])]

enc(g, c, slot) ==
    LET ready == IF Len(g.encoder) >= g.per_submit THEN flush(g) ELSE g
    IN [ready EXCEPT !.encoder = Append(@, [command |-> c, slot |-> slot])]

\* ParamsPool::alloc: the next slot, made when there is none, written now.
alloc(g, value) ==
    [g EXCEPT !.cursor = @ + 1,
              !.params = IF g.cursor = Len(@) THEN Append(@, value)
                         ELSE [@ EXCEPT ![g.cursor + 1] = value]]

\* Buffers of ids keep what is past the end of a shorter write.
Overwrite(old, new) ==
    [i \in 1 .. (IF Len(old) > Len(new) THEN Len(old) ELSE Len(new)) |->
        IF i <= Len(new) THEN new[i] ELSE old[i]]

write_buffer(mem, c) ==
    [mem EXCEPT ![c.dst] = IF c.dst[1] \in {"row_ids", "row_offsets", "row_positions"}
                           THEN Overwrite(@, c.value) ELSE c.value]

Do(g, c) ==
    CASE c.do = "flush" -> flush(g)
      [] c.do = "write" -> [g EXCEPT !.mem = write_buffer(@, c)]
      [] c.do = "copy" -> enc(g, c, 0)
      [] c.do = "dispatch" ->
           LET held == alloc(g, c.params) IN enc(held, c, held.cursor)

\* What commands from + 1 to `to` do, in turn.  The state before a command is
\* looked at first, so that it is evaluated first.
EncodedPart(g, commands, from, to) ==
    LET after[i \in from .. to] ==
          IF i = from THEN g
          ELSE LET before == after[i - 1]
               IN IF before.cursor >= 0 THEN Do(before, commands[i]) ELSE before
    IN after[to]

\* What a sequence of commands does: a part of it, then the next, so that the
\* evaluation of one command is not nested in that of all that follow.
PartLength == 16
PartEnd(k, n) == IF PartLength * k < n THEN PartLength * k ELSE n

Encoded(g, commands) ==
    LET n == Len(commands)
        parts == n \div PartLength + 1
        after[k \in 0 .. parts] ==
          IF k = 0 THEN g
          ELSE LET before == after[k - 1]
               IN IF before.cursor >= 0
                  THEN EncodedPart(before, commands, PartEnd(k - 1, n), PartEnd(k, n)) ELSE before
    IN after[parts]

\* The same for the phases of a call.
EncodedInPhases(g, phases) ==
    LET after[i \in 0 .. Len(phases)] ==
          IF i = 0 THEN g
          ELSE LET before == after[i - 1]
               IN IF before.cursor >= 0 THEN Encoded(before, phases[i]) ELSE before
    IN after[Len(phases)]
=============================================================================
