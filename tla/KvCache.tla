------------------------------- MODULE KvCache -------------------------------
(***************************************************************************)
(* The keys a token attends to, in the three places the code computes      *)
(* them: the whole-sequence forward pass training uses (ops/attention.rs), *)
(* the cache that decodes on the host (model.rs) and the ring that decodes *)
(* on the GPU (llm-gpu/model.rs).                                          *)
(*                                                                         *)
(* A key is the token it was computed from and the position its rotation   *)
(* was made for; a layer's values go wherever its keys go, and every layer *)
(* caches the same keys.  A model's shape is its context_len and           *)
(* local_window.                                                           *)
(***************************************************************************)
EXTENDS Naturals, Sequences

Smaller(a, b) == IF a < b THEN a ELSE b
Larger(a, b) == IF a < b THEN b ELSE a

effective_window(c) == Smaller(c.window, c.context)

-----------------------------------------------------------------------------
(* The whole-sequence forward pass.  Positions count from 0.               *)

Keys(tokens) == [i \in 1 .. Len(tokens) |-> [tok |-> tokens[i], pos |-> i - 1]]

band_width(len, window) == Smaller(Larger(window, 1), len)
band_lo(t, band) == IF t > band - 1 THEN t - (band - 1) ELSE 0

\* What the query at position t of `tokens` attends to.
attention_fwd(c, tokens, t) ==
    LET lo == band_lo(t, band_width(Len(tokens), effective_window(c)))
    IN {Keys(tokens)[s + 1] : s \in lo .. t}

\* What the last token of a text attends to.
LastQuery(c, tokens) == attention_fwd(c, tokens, Len(tokens) - 1)

-----------------------------------------------------------------------------
(* The host's cache: the keys oldest first, the position of the next       *)
(* token, and every token fed in.                                          *)

trim_to_window(keys, window) ==
    IF Len(keys) <= window THEN keys
    ELSE SubSeq(keys, Len(keys) - window + 1, Len(keys))

prefill(c, tokens) ==
    [keys |-> trim_to_window(Keys(tokens), effective_window(c)),
     pos |-> Len(tokens), tokens |-> tokens]

\* Mutant of decode_step: the oldest key is evicted before the new one is in.
decode_step_late(c, cache, token) ==
    [keys |-> Append(trim_to_window(cache.keys, effective_window(c)),
                     [tok |-> token, pos |-> cache.pos]),
     pos |-> cache.pos + 1, tokens |-> Append(cache.tokens, token)]

decode_step(c, cache, token) ==
    [keys |-> trim_to_window(Append(cache.keys, [tok |-> token, pos |-> cache.pos]),
                             effective_window(c)),
     pos |-> cache.pos + 1, tokens |-> Append(cache.tokens, token)]

\* attention_step: every cached key, in whichever order.
AttendedOnHost(cache) == {cache.keys[i] : i \in DOMAIN cache.keys}

-----------------------------------------------------------------------------
(* The generator around it: a prompt longer than the context loses its     *)
(* beginning, an empty one becomes BOS, and a cache that is full is made   *)
(* again from the last half of the text.                                   *)

LastOf(s, n) == SubSeq(s, Len(s) - n + 1, Len(s))

GeneratorNew(c, prompt, BOS) ==
    LET tokens == IF prompt = << >> THEN <<BOS>> ELSE prompt
    IN prefill(c, IF Len(tokens) > c.context THEN LastOf(tokens, c.context) ELSE tokens)

maybe_reset_cache(c, cache) ==
    IF cache.pos < c.context THEN cache
    ELSE prefill(c, LastOf(cache.tokens, Larger(c.context \div 2, 1)))

GeneratorAdvance(c, cache, token) ==
    decode_step(c, maybe_reset_cache(c, cache), token)

-----------------------------------------------------------------------------
(* The ring on the GPU: as many slots as the window has keys, a position   *)
(* and the number of slots that hold live keys.                            *)

RingNew(c, Stale) ==
    [slots |-> [s \in 0 .. effective_window(c) - 1 |-> Stale], pos |-> 0, cached |-> 0]

\* The keys are written from slot 0 on; the rest of the ring keeps what
\* another generation left in it.
seed_from_cpu_cache(ring, cache) ==
    [slots |-> [s \in DOMAIN ring.slots |->
                   IF s < Len(cache.keys) THEN cache.keys[s + 1] ELSE ring.slots[s]],
     pos |-> cache.pos, cached |-> Len(cache.keys)]

\* Mutant of RingStep: the slot after the live ones, not that of the position.
RingStep_next(c, ring, token) ==
    LET capacity == effective_window(c)
    IN [slots |-> [ring.slots EXCEPT ![ring.cached % capacity] =
                      [tok |-> token, pos |-> ring.pos]],
        pos |-> ring.pos + 1, cached |-> Smaller(ring.cached + 1, capacity)]

RingStep(c, ring, token) ==
    LET capacity == effective_window(c)
        slot == ring.pos % capacity
    IN [slots |-> [ring.slots EXCEPT ![slot] = [tok |-> token, pos |-> ring.pos]],
        pos |-> ring.pos + 1, cached |-> Smaller(ring.cached + 1, capacity)]

AttendedOnGpu(ring) == {ring.slots[s] : s \in 0 .. ring.cached - 1}
=============================================================================
