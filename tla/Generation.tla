------------------------------ MODULE Generation ------------------------------
(***************************************************************************)
(* One answer to a prompt, as inference.rs generates it: on the host, a    *)
(* token at a time through instruct::ResponseSession with a turn of the    *)
(* event loop between tokens, or on the GPU, with the sampling, the text   *)
(* and the stopping rule in generate_on_gpu, and a fall back to the host   *)
(* when the device fails.  The answer is compared with the blocking        *)
(* generate_response given the same tokens.                                *)
(*                                                                         *)
(* A token is the bytes it stands for.  A byte is a letter, a space, a     *)
(* sentence end, a paragraph break, or the lead or the continuation of a   *)
(* character of two bytes; a character is one of those, a wide character   *)
(* or a replacement.  Longer characters behave as those of two bytes do.   *)
(***************************************************************************)
EXTENDS KvCache, FiniteSets, SequencesExt

Bytes == {"word", "space", "stop", "para", "lead", "cont"}

CONSTANTS None,
          Shapes,     \* shapes of the model: [context, window]
          Pieces,     \* the byte strings of the tokens a model may choose
          Prompts,    \* lengths of a prompt, special tokens included
          Targets,    \* words a prompt asks for; None when it names no number
          Budgets     \* max_tokens: tokens a generation may produce

ASSUME GenerationAssumption ==
    /\ \A c \in Shapes : c.context \in Nat \ {0, 1} /\ c.window \in Nat \ {0}
    /\ Pieces \subseteq Seq(Bytes)
    /\ Prompts \subseteq Nat /\ Budgets \subseteq Nat
    /\ Targets \subseteq (Nat \ {0}) \cup {None}
    /\ None \notin Nat \cup [tok : Nat, pos : Nat] \cup {"caller", "budget", "eos"}

VARIABLES
    shape,     \* the model's shape
    asked,     \* the call: prompt length, target and budget
    device,    \* who is decoding: "none", "host", "gpu"
    failed,    \* the GPU failed during this call
    cache,     \* the generator's cache, on the host
    ring,      \* the GPU's
    attended,  \* the keys the logits of the next token were computed from
    out,       \* tokens produced, as their bytes
    pending,   \* bytes of a character not complete yet
    guard,     \* LengthGuard: words, carry, stopped
    shown,     \* characters reported to the page
    refused,   \* the page answered false
    reason     \* why the answer ended, or None

decoding == <<device, failed, cache, ring, attended>>
text == <<out, pending, guard, shown, refused, reason>>
vars == <<shape, asked, decoding, text>>

-----------------------------------------------------------------------------
(* Bytes and characters.                                                   *)

\* The bytes at which from_utf8 begins a character, or finds none.
Begins(b, i) == ~ (b[i] = "cont" /\ i > 1 /\ b[i - 1] = "lead")
Character(b, i) ==
    CASE b[i] = "lead" -> IF i < Len(b) /\ b[i + 1] = "cont" THEN "wide" ELSE "repl"
      [] b[i] = "cont" -> "repl"
      [] OTHER -> b[i]

from_utf8_lossy(b) ==
    LET chars[i \in 0 .. Len(b)] ==
          IF i = 0 THEN << >>
          ELSE IF Begins(b, i) THEN Append(chars[i - 1], Character(b, i)) ELSE chars[i - 1]
    IN chars[Len(b)]

Incomplete(b) == b # << >> /\ Last(b) = "lead"
take_complete_chars(b) == from_utf8_lossy(IF Incomplete(b) THEN Front(b) ELSE b)
LeftBehind(b) == IF Incomplete(b) THEN <<"lead">> ELSE << >>

decode(tokens) == from_utf8_lossy(FlattenSeq(tokens))

-----------------------------------------------------------------------------
(* The length guard.                                                       *)

is_whitespace(ch) == ch \in {"space", "para"}
split_whitespace(s) ==
    {i \in DOMAIN s : ~ is_whitespace(s[i]) /\ (i = 1 \/ is_whitespace(s[i - 1]))}

count_words(piece, carry) ==
    LET runs == Cardinality(split_whitespace(piece))
    IN IF carry /\ runs > 0 /\ ~ is_whitespace(piece[1]) THEN runs - 1 ELSE runs
EndsMidWord(piece, carry) ==
    IF piece = << >> THEN carry ELSE ~ is_whitespace(Last(piece))

\* trim_end, then the last character; or a paragraph break anywhere.
ends_a_sentence(piece) ==
    \/ \E i \in DOMAIN piece : piece[i] = "para"
    \/ \E i \in DOMAIN piece :
          piece[i] = "stop" /\ \A j \in i + 1 .. Len(piece) : is_whitespace(piece[j])

LengthGuardNew == [words |-> 0, carry |-> FALSE, stopped |-> FALSE]

observe(g, target, piece) ==
    LET words == g.words + count_words(piece, g.carry)
    IN [words |-> words, carry |-> EndsMidWord(piece, g.carry),
        stopped |-> \/ g.stopped
                    \/ /\ target # None
                       /\ \/ words >= target /\ ends_a_sentence(piece)
                          \/ words >= (target * 7) \div 5]

\* Stopping is sticky, and observe answers for this piece alone.
KeepGoing(g, target, piece) ==
    ~ observe([g EXCEPT !.stopped = FALSE], target, piece).stopped

StopReason(g, r) == IF g.stopped THEN "caller" ELSE r

-----------------------------------------------------------------------------
(* The blocking generate_response over generate_stream, given the tokens   *)
(* the model chose, what came after them and whether the page answered     *)
(* false to the last: what it reports, why it stops and how many tokens it *)
(* took.                                                                   *)

StreamStart == [pending |-> << >>, guard |-> LengthGuardNew, shown |-> << >>,
                taken |-> 0, over |-> FALSE]

StreamToken(target, st, token) ==
    LET bytes == st.pending \o token
        piece == take_complete_chars(bytes)
    IN IF st.over THEN st
       ELSE [pending |-> LeftBehind(bytes), guard |-> observe(st.guard, target, piece),
             shown |-> st.shown \o piece, taken |-> st.taken + 1,
             over |-> ~ KeepGoing(st.guard, target, piece)]

Streamed(target, tokens) ==
    LET after[n \in 0 .. Len(tokens)] ==
          IF n = 0 THEN StreamStart ELSE StreamToken(target, after[n - 1], tokens[n])
    IN after[Len(tokens)]

generate_response(target, tokens, after, no) ==
    LET st == Streamed(target, tokens)
        tail == from_utf8_lossy(st.pending)
        last == IF tail = << >> THEN st.guard ELSE observe(st.guard, target, tail)
    IN [shown |-> st.shown \o tail, taken |-> st.taken,
        reason |-> StopReason(last, IF st.over \/ no THEN "caller" ELSE after)]

-----------------------------------------------------------------------------
Init ==
    /\ shape \in Shapes
    /\ asked = [prompt |-> 0, target |-> None, budget |-> 0]
    /\ device = "none" /\ failed = FALSE
    /\ cache = None /\ ring = RingNew(shape, None) /\ attended = {}
    /\ out = << >> /\ pending = << >> /\ guard = LengthGuardNew
    /\ shown = << >> /\ refused = FALSE /\ reason = None

\* The prompt's tokens, then the answer's, are told apart by their place.
Prompt == [i \in 1 .. asked.prompt |-> i]
NextToken == asked.prompt + Len(out) + 1

Running(d) == device = d /\ reason = None

\* generate(), prefer_gpu false, or a GPU without the current weights.
GenerateOnHost(prompt, target, budget) ==
    /\ device = "none" /\ device' = "host"
    /\ asked' = [prompt |-> prompt, target |-> target, budget |-> budget]
    /\ cache' = GeneratorNew(shape, Prompt', 0)
    /\ attended' = AttendedOnHost(cache')
    /\ UNCHANGED <<shape, failed, ring, text>>

\* generate_on_gpu up to its loop: the whole prompt is prefilled.
GenerateOnGpu(prompt, target, budget) ==
    /\ device = "none" /\ device' = "gpu" /\ prompt > 0
    /\ asked' = [prompt |-> prompt, target |-> target, budget |-> budget]
    /\ ring' = seed_from_cpu_cache(ring, prefill(shape, Prompt'))
    /\ attended' = AttendedOnHost(prefill(shape, Prompt'))
    /\ UNCHANGED <<shape, failed, cache, text>>

Flushed == from_utf8_lossy(pending)

\* Mutant of HostEnds: the tail is reported and not observed.
HostEnds_unobserved(why) ==
    /\ Running("host")
    /\ (why = "budget") <=> (Len(out) >= asked.budget)
    /\ shown' = shown \o Flushed /\ pending' = << >> /\ reason' = why
    /\ UNCHANGED <<shape, asked, decoding, out, guard, refused>>

\* session.step() finds the budget spent, or the model chose EOS.
HostEnds(why) ==
    /\ Running("host")
    /\ (why = "budget") <=> (Len(out) >= asked.budget)
    /\ guard' = observe(guard, asked.target, Flushed)
    /\ shown' = shown \o Flushed /\ pending' = << >> /\ reason' = why
    /\ UNCHANGED <<shape, asked, decoding, out, refused>>

\* session.step() with a token, the report of its piece, and cancel() when
\* the page answers false; what cancel() returns is dropped.
HostToken(token, yes) ==
    LET bytes == pending \o token
        piece == take_complete_chars(bytes)
        tail == from_utf8_lossy(LeftBehind(bytes))
        go == KeepGoing(guard, asked.target, piece)
        seen == observe(guard, asked.target, piece)
    IN /\ Running("host") /\ Len(out) < asked.budget
       /\ cache' = GeneratorAdvance(shape, cache, NextToken)
       /\ attended' = AttendedOnHost(cache')
       /\ out' = Append(out, token)
       /\ guard' = IF go THEN seen ELSE observe(seen, asked.target, tail)
       /\ shown' = shown \o piece \o (IF go THEN << >> ELSE tail)
       /\ pending' = IF go /\ yes THEN LeftBehind(bytes) ELSE << >>
       /\ reason' = IF go /\ yes THEN None ELSE "caller"
       /\ refused' = (go /\ ~ yes)
       /\ UNCHANGED <<shape, asked, device, failed, ring>>

\* Mutant of GpuEnds: the bytes left over are not reported.
GpuEnds_unflushed(why) ==
    /\ Running("gpu")
    /\ (why = "budget") <=> (Len(out) >= asked.budget)
    /\ pending' = << >> /\ reason' = why
    /\ UNCHANGED <<shape, asked, decoding, out, guard, shown, refused>>

\* The loop of generate_on_gpu is left: the tail is reported, unobserved.
GpuEnds(why) ==
    /\ Running("gpu")
    /\ (why = "budget") <=> (Len(out) >= asked.budget)
    /\ shown' = shown \o Flushed /\ pending' = << >> /\ reason' = why
    /\ UNCHANGED <<shape, asked, decoding, out, guard, refused>>

\* A token that ends the loop before it is decoded, or is decoded.
GpuToken(token, yes) ==
    LET bytes == pending \o token
        piece == take_complete_chars(bytes)
        tail == from_utf8_lossy(LeftBehind(bytes))
        go == KeepGoing(guard, asked.target, piece) /\ yes
    IN /\ Running("gpu") /\ Len(out) < asked.budget
       /\ out' = Append(out, token)
       /\ guard' = observe(guard, asked.target, piece)
       /\ shown' = shown \o piece \o (IF go THEN << >> ELSE tail)
       /\ pending' = IF go THEN LeftBehind(bytes) ELSE << >>
       /\ reason' = IF go THEN None ELSE "caller"
       /\ refused' = ~ yes
       /\ IF go THEN /\ ring' = RingStep(shape, ring, NextToken)
                     /\ attended' = AttendedOnGpu(ring')
          ELSE UNCHANGED <<ring, attended>>
       /\ UNCHANGED <<shape, asked, device, failed, cache>>

\* The same token, and decode_step fails: generate_inner drops the GPU and
\* begins again on the host.
GpuFails(token) ==
    LET piece == take_complete_chars(pending \o token)
    IN /\ Running("gpu") /\ Len(out) < asked.budget
       /\ KeepGoing(guard, asked.target, piece)
       /\ shown' = shown \o piece
       /\ device' = "host" /\ failed' = TRUE
       /\ cache' = GeneratorNew(shape, Prompt, 0)
       /\ attended' = AttendedOnHost(cache')
       /\ ring' = RingNew(shape, None)
       /\ out' = << >> /\ pending' = << >> /\ guard' = LengthGuardNew
       /\ UNCHANGED <<shape, asked, refused, reason>>

Next ==
    \/ \E p \in Prompts, t \in Targets, b \in Budgets :
          GenerateOnHost(p, t, b) \/ GenerateOnGpu(p, t, b)
    \/ \E why \in {"budget", "eos"} : HostEnds(why) \/ GpuEnds(why)
    \/ \E token \in Pieces :
          \/ \E yes \in BOOLEAN : HostToken(token, yes) \/ GpuToken(token, yes)
          \/ GpuFails(token)

Spec == Init /\ [][Next]_vars

-----------------------------------------------------------------------------
TypeOK ==
    /\ shape \in Shapes /\ device \in {"none", "host", "gpu"}
    /\ asked.prompt \in Nat /\ out \in Seq(Pieces)
    /\ failed \in BOOLEAN /\ refused \in BOOLEAN
    /\ reason \in {None, "caller", "budget", "eos"}
    /\ pending \in {<< >>, <<"lead">>}
    /\ device = "host" => /\ cache.tokens \in Seq(Nat) /\ cache.tokens # << >>
                          /\ cache.pos \in 1 .. shape.context

\* The cache holds what the whole-sequence forward pass over the text it
\* stands for would attend to at its last token, at the positions that pass
\* gives it.
CacheIsTheWindow ==
    device = "host" =>
        /\ cache.keys = trim_to_window(Keys(cache.tokens), effective_window(shape))
        /\ attended = LastQuery(shape, cache.tokens)

\* No token is decoded at a position past the context, and what is kept of
\* the text is its end.
PositionsWereTrained ==
    device = "host" =>
        /\ \A k \in attended : k.pos < shape.context
        /\ LET n == Len(cache.tokens)
           IN cache.tokens = [i \in 1 .. n |-> NextToken - 1 - n + i]

(* What decodes on the host is the model that was trained: after any       *)
(* number of tokens and resets, each query attends to what the training    *)
(* pass over the end of the text would (model.rs prefill and decode_step,  *)
(* generate.rs maybe_reset_cache).                                         *)
HostAttendsAsTrained == TypeOK /\ CacheIsTheWindow /\ PositionsWereTrained

(* The GPU's ring holds the same window as long as the prompt fits it, or  *)
(* fills it a whole number of times (llm-gpu model.rs decode_step); what   *)
(* an earlier generation left in the ring is never attended to.            *)
RingIsTheWindow ==
    /\ device = "gpu" => None \notin attended
    /\ (/\ device = "gpu"
        /\ \/ asked.prompt <= effective_window(shape)
           \/ asked.prompt % effective_window(shape) = 0)
       => attended = LastQuery(shape, [i \in 1 .. ring.pos |-> i])

(* A session driven a token at a time stops at the same token, for the     *)
(* same reason and having reported the same text as generate_response does *)
(* when the same tokens are chosen (length_guard.rs ResponseSession).      *)
SameAsBlocking ==
    (device = "host" /\ reason # None /\ ~ failed) =>
        LET whole == generate_response(asked.target, out, reason, refused)
        IN /\ whole.taken = Len(out)
           /\ whole.reason = StopReason(guard, reason)
           /\ refused \/ whole.shown = shown

(* The text the page was given a piece at a time is the text of the        *)
(* answer, to the last incomplete character, whichever device decoded it   *)
(* (generate.rs take_complete_chars, length_guard.rs flush_pending), save  *)
(* after a refusal on the host or a failure of the GPU; and while it is    *)
(* under way the guard's count is the number of words the page was shown,  *)
(* however the tokens split them (count_words).                            *)
ShownIsTheAnswer ==
    ~ failed =>
        /\ (reason # None /\ ~ (refused /\ device = "host")) => shown = decode(out)
        /\ (device # "none" /\ reason = None) =>
              guard.words = Cardinality(split_whitespace(shown))

-----------------------------------------------------------------------------
(* llm-gpu model.rs says of the ring that it and the host's cache coincide *)
(* after seed_from_cpu_cache: whatever the prompt, the GPU attends to the  *)
(* window.                                                                 *)
RingIsAlwaysTheWindow ==
    device = "gpu" => attended = LastQuery(shape, [i \in 1 .. ring.pos |-> i])
=============================================================================
