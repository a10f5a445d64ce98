---------------------------- MODULE CorpusSampling ----------------------------
(***************************************************************************)
(* The corpus of llm-core: the sources and the vocabulary they are encoded *)
(* with, the flattened training and held-out streams that are built when   *)
(* somebody asks (corpus/store.rs), and what is drawn from them            *)
(* (corpus/sampling.rs): training windows by rotation over the sources and *)
(* by a shuffled pass within each, and the fixed held-out and probe sets.  *)
(* Around it the page's copy of the passes, put back after a reload.       *)
(*                                                                         *)
(* A source has a text; a text is as many tokens as Length gives it in a   *)
(* vocabulary, BOS and EOS included, and a token is where it came from.    *)
(***************************************************************************)
EXTENDS Naturals, FiniteSets, Sequences, SequencesExt

CONSTANTS None, Sources, Texts, Vocabularies,
          Length(_, _),     \* tokens of a text in a vocabulary
          Shuffle(_, _, _), \* shuffled_slots: source, epoch, number of slots
          Context,          \* context_len of the model that trains
          HeldDivisor,      \* 1 / VALIDATION_FRACTION
          MinSlice,         \* the least a split leaves on either side
          BatchSize,
          MaxDraws,         \* bound on the windows drawn
          MaxEdits,         \* bound on the changes to the sources
          MaxReloads        \* bound on the reloads of the page

ASSUME CorpusAssumption ==
    /\ IsFiniteSet(Sources)
    /\ None \notin Sources \cup [text : Texts, vocab : Vocabularies]
    /\ None \notin [epoch : Nat, cursor : Nat, order : Seq(Nat)]
    /\ None \notin [epoch : Nat, cursor : Nat, count : Nat]
    /\ Context \in Nat \ {0} /\ HeldDivisor \in Nat \ {0} /\ MinSlice \in Nat \ {0}
    /\ BatchSize \in Nat \ {0} /\ MaxDraws \in Nat /\ MaxEdits \in Nat /\ MaxReloads \in Nat
    /\ \A t \in Texts, v \in Vocabularies : Length(v, t) \in Nat

VARIABLES
    sources,   \* the text of a source and the vocabulary its tokens are in, or None
    order,     \* ids in the order they were added
    vocab,     \* the tokenizer
    dirty,     \* the streams below are not those of the sources
    flat,      \* flat_cache and val_cache: sequences of tokens
    spans,     \* spans and val_spans: <<start, len>> by place in `order`
    counts,    \* sample_counts
    cursors,   \* window_cursors: epoch, cursor and the order of the pass
    rotation,  \* sources due before any comes up again
    last,      \* last_source
    saved,     \* db.js: the passes last written back to the sources
    draws,     \* last_batch_draws of the step just taken; << >> after another
    seen,      \* history: slots a source's pass has drawn, and of how many
    turns,     \* history: windows drawn since the sources last changed
    changed,   \* history: the sources changed since the last refill
    restored,  \* history: sources whose pass a reload put back
    drawn, edits, reloads

streams == <<dirty, flat, spans>>
sampler == <<counts, cursors, rotation, last>>
history == <<seen, turns, changed, restored>>
vars == <<sources, order, vocab, streams, sampler, saved, draws, history, drawn, edits, reloads>>

-----------------------------------------------------------------------------
(* The streams.                                                            *)

Token == [source : Sources, text : Texts, vocab : Vocabularies, at : Nat]

TokensOf(s) ==
    [i \in 1 .. Length(sources[s].vocab, sources[s].text) |->
        [source |-> s, text |-> sources[s].text, vocab |-> sources[s].vocab, at |-> i]]

\* The elements of a sequence that are in S, in their order.
Kept(seq, S) ==
    LET kept[k \in 0 .. Len(seq)] ==
            IF k = 0 THEN << >>
            ELSE IF seq[k] \in S THEN Append(kept[k - 1], seq[k]) ELSE kept[k - 1]
    IN kept[Len(seq)]

\* Tokens of a source left to training: all of them when a slice of it
\* would be too short on either side.
Split(len) ==
    LET held == len \div HeldDivisor
    IN IF held < MinSlice \/ len - held < MinSlice THEN len ELSE len - held

Parts == [k \in DOMAIN order |->
            LET tokens == TokensOf(order[k])
                split == Split(Len(tokens))
            IN [train |-> SubSeq(tokens, 1, split),
                held |-> SubSeq(tokens, split + 1, Len(tokens))]]

TrainParts == [k \in DOMAIN order |-> Parts[k].train]
HeldParts == [k \in DOMAIN order |-> Parts[k].held]

Concatenated(parts) == FlattenSeq(parts)

\* Where each part begins in the stream, and how long it is.
SpansOf(parts) ==
    LET base[k \in 0 .. Len(parts)] == IF k = 0 THEN 0 ELSE base[k - 1] + Len(parts[k])
    IN [k \in DOMAIN parts |-> <<base[k - 1], Len(parts[k])>>]

rebuild_flat_if_needed ==
    IF ~ dirty THEN UNCHANGED streams
    ELSE /\ dirty' = FALSE
         /\ flat' = [train |-> Concatenated(TrainParts), held |-> Concatenated(HeldParts)]
         /\ spans' = [train |-> SpansOf(TrainParts), held |-> SpansOf(HeldParts)]

-----------------------------------------------------------------------------
(* Training windows.                                                       *)

\* Mutant of Slots: the last window's last target is not asked for.
Slots_untargeted(len) == IF len >= Context THEN (len - Context) \div Context + 1 ELSE 0

\* Windows of a span, side by side, each with a target past its end; and the
\* sources that hold one, from the spans as they are after a rebuild.
Slots(len) == IF len > Context THEN (len - Context - 1) \div Context + 1 ELSE 0

\* The orders of so many windows, and a pass's among them.
Passes(slots) == {q \in [1 .. slots -> 0 .. slots - 1] : IsInjective(q)}

ASSUME ShuffleAssumption ==
    \A s \in Sources, epoch \in 0 .. MaxDraws, t \in Texts, v \in Vocabularies :
        Shuffle(s, epoch, Slots(Split(Length(v, t)))) \in Passes(Slots(Split(Length(v, t))))

Usable(sp) == {order[k] : k \in {i \in DOMAIN order : Slots(sp.train[i][2]) > 0}}
PlaceOf(s) == CHOOSE k \in DOMAIN order : order[k] = s

Orders(S) == {q \in [1 .. Cardinality(S) -> S] : \A i, j \in DOMAIN q : q[i] = q[j] => i = j}

\* Mutant of refill_rotation: the shuffle as it comes.
refill_rotation_unnudged(shuffled, lastSource) == shuffled

\* A shuffle, nudged so as not to begin with the source drawn last.
refill_rotation(shuffled, lastSource) ==
    IF Len(shuffled) > 1 /\ shuffled[1] = lastSource
    THEN [shuffled EXCEPT ![1] = shuffled[2], ![2] = shuffled[1]]
    ELSE shuffled

WindowCursorNew == [epoch |-> 0, cursor |-> 0, order |-> << >>]

\* Mutant of NextSlot: a pass is over one window early.
NextSlot_early(s, c, slots) ==
    LET over == c.cursor + 1 >= Len(c.order)
        epoch == IF over /\ c.order # << >> THEN c.epoch + 1 ELSE c.epoch
    IN IF Len(c.order) # slots \/ over
       THEN [epoch |-> epoch, cursor |-> 1, order |-> Shuffle(s, epoch, slots)]
       ELSE [c EXCEPT !.cursor = @ + 1]

\* The cursor moved to the next slot of the pass, a new pass begun first if
\* this one is over or the number of slots has changed.
NextSlot(s, c, slots) ==
    LET over == c.cursor >= Len(c.order)
        epoch == IF over /\ c.order # << >> THEN c.epoch + 1 ELSE c.epoch
    IN IF Len(c.order) # slots \/ over
       THEN [epoch |-> epoch, cursor |-> 1, order |-> Shuffle(s, epoch, slots)]
       ELSE [c EXCEPT !.cursor = @ + 1]

\* One turn of the loop of sample_batch.  `st` is the sampler, what the
\* batch holds and what the passes have drawn.
DrawOne(sp, st, opening, shuffled) ==
    LET refill == st.rotation = << >>
        queue == IF refill THEN refill_rotation(shuffled, st.last) ELSE st.rotation
        s == Head(queue)
        base == sp.train[PlaceOf(s)][1]
        slots == Slots(sp.train[PlaceOf(s)][2])
        cursor == NextSlot(s, IF st.cursors[s] = None THEN WindowCursorNew ELSE st.cursors[s],
                           slots)
        slot == IF opening THEN 0 ELSE cursor.order[cursor.cursor]
        pass == IF st.seen[s].of # slots \/ Cardinality(st.seen[s].slots) = slots
                THEN {} ELSE st.seen[s].slots
    IN [rotation |-> Tail(queue), last |-> s,
        counts |-> [st.counts EXCEPT ![s] = @ + 1],
        cursors |-> IF opening THEN st.cursors ELSE [st.cursors EXCEPT ![s] = cursor],
        seen |-> IF opening THEN st.seen
                 ELSE [st.seen EXCEPT ![s] = [of |-> slots, slots |-> pass \cup {slot}]],
        turns |-> [st.turns EXCEPT ![s] = @ + 1],
        changed |-> st.changed /\ ~ refill,
        batch |-> Append(st.batch,
                         [source |-> s, start |-> base + slot * Context, after |-> st.last,
                          again |-> ~ opening /\ slot \in pass,
                          changed |-> st.changed /\ ~ refill])]

\* Its turns, one after another, each with a shuffle of its own to refill the
\* rotation with.
DrawBatch(sp, start, openings, shuffles) ==
    LET after[n \in 0 .. BatchSize] ==
            IF n = 0 THEN start ELSE DrawOne(sp, after[n - 1], openings[n], shuffles[n])
    IN after[BatchSize]

\* sample_batch, with an opening or the pass's next window for each draw, and
\* a shuffle of the usable sources should it find the rotation empty.
SampleBatch(openings, shuffles) ==
    /\ rebuild_flat_if_needed
    /\ LET usable == Usable(spans')
           start == [rotation |-> Kept(rotation, usable), last |-> last,
                     counts |-> counts, cursors |-> cursors, seen |-> seen, turns |-> turns,
                     changed |-> changed, batch |-> << >>]
           end == DrawBatch(spans', start, openings, shuffles)
       IN IF usable = {} THEN /\ draws' = << >>
                              /\ UNCHANGED <<sampler, history, drawn>>
          ELSE /\ shuffles \in [1 .. BatchSize -> Orders(usable)]
               /\ drawn + BatchSize <= MaxDraws /\ drawn' = drawn + BatchSize
               /\ rotation' = end.rotation /\ last' = end.last
               /\ counts' = end.counts /\ cursors' = end.cursors
               /\ draws' = end.batch /\ seen' = end.seen
               /\ turns' = end.turns /\ changed' = end.changed /\ UNCHANGED restored
    /\ UNCHANGED <<sources, order, vocab, saved, edits, reloads>>

-----------------------------------------------------------------------------
(* The fixed sets: windows spread over the usable spans of one stream, the *)
(* same ones every time.                                                   *)

fixed_windows(sp, count) ==
    LET usable == Kept(sp, {span \in ToSet(sp) : span[2] > Context + 1})
        room[k \in 0 .. Len(usable)] ==
            IF k = 0 THEN 0 ELSE room[k - 1] + usable[k][2] - Context - 1
        total == room[Len(usable)]
        Start(i) ==
            LET offset == (i * total) \div count
                k == CHOOSE p \in 1 .. Len(usable) :
                        offset < room[p] /\ \A q \in 1 .. p - 1 : offset >= room[q]
            IN usable[k][1] + offset - room[k - 1]
    IN IF usable = << >> THEN << >> ELSE [i \in 1 .. count |-> Start(i - 1)]

validation_batch(count) == fixed_windows(spans.held, count)
training_probe_batch(count) == fixed_windows(spans.train, count)

-----------------------------------------------------------------------------
(* The sources.                                                            *)

Present == {s \in Sources : sources[s] # None}

Changed ==
    /\ dirty' = TRUE /\ draws' = << >>
    /\ turns' = [s \in Sources |-> 0] /\ changed' = TRUE
    /\ edits < MaxEdits /\ edits' = edits + 1

upsert(s, text) ==
    /\ Changed
    /\ sources' = [sources EXCEPT ![s] = [text |-> text, vocab |-> vocab]]
    /\ order' = IF s \in Present THEN order ELSE Append(order, s)
    /\ UNCHANGED <<vocab, flat, spans, sampler, saved, seen, restored, drawn, reloads>>

\* The rotation and the source drawn last are left as they are.
remove(s) ==
    /\ s \in Present /\ Changed
    /\ sources' = [sources EXCEPT ![s] = None]
    /\ order' = Kept(order, Sources \ {s})
    /\ counts' = [counts EXCEPT ![s] = 0]
    /\ cursors' = [cursors EXCEPT ![s] = None]
    /\ seen' = [seen EXCEPT ![s] = [of |-> 0, slots |-> {}]]
    /\ restored' = restored \ {s}
    /\ saved' = [saved EXCEPT ![s] = None]
    /\ UNCHANGED <<vocab, flat, spans, rotation, last, drawn, reloads>>

\* learn_vocabulary, or a vocabulary loaded with a model.
set_tokenizer(v) ==
    /\ v # vocab /\ Changed
    /\ vocab' = v
    /\ sources' = [s \in Sources |->
                      IF sources[s] = None THEN None ELSE [sources[s] EXCEPT !.vocab = v]]
    /\ UNCHANGED <<order, flat, spans, sampler, saved, seen, restored, drawn, reloads>>

\* Somebody asks for the streams without drawing: training_tokens, the
\* statistics of the sources, the fixed sets.
Ask ==
    /\ dirty /\ rebuild_flat_if_needed
    /\ draws' = << >>
    /\ UNCHANGED <<sources, order, vocab, sampler, saved, history, drawn, edits, reloads>>

\* The page writes the passes and the counts back to the sources it stores.
WriteBack ==
    /\ saved' = [s \in Sources |->
                    IF s \notin Present \/ cursors[s] = None THEN saved[s]
                    ELSE [epoch |-> cursors[s].epoch, cursor |-> cursors[s].cursor,
                          count |-> counts[s]]]
    /\ saved' # saved /\ draws' = << >> /\ reloads < MaxReloads
    /\ UNCHANGED <<sources, order, vocab, streams, sampler, history, drawn, edits, reloads>>

\* A reload: the sources are upserted into a new corpus, and what was
\* written back is put in by set_sample_count and set_window_progress.
Reload ==
    /\ reloads < MaxReloads /\ reloads' = reloads + 1
    /\ dirty' = TRUE
    /\ flat' = [train |-> << >>, held |-> << >>] /\ spans' = [train |-> << >>, held |-> << >>]
    /\ counts' = [s \in Sources |-> IF saved[s] = None THEN 0 ELSE saved[s].count]
    /\ cursors' = [s \in Sources |->
                      IF saved[s] = None THEN None
                      ELSE [epoch |-> saved[s].epoch, cursor |-> saved[s].cursor,
                            order |-> << >>]]
    /\ rotation' = << >> /\ last' = None /\ draws' = << >>
    /\ restored' = Present /\ changed' = FALSE /\ turns' = [s \in Sources |-> 0]
    /\ seen' = [s \in Sources |->   \* draws not written back are not known
                   IF saved[s] # None /\ cursors[s] # None /\ saved[s].cursor = cursors[s].cursor
                      /\ saved[s].epoch = cursors[s].epoch
                   THEN seen[s] ELSE [of |-> 0, slots |-> {}]]
    /\ UNCHANGED <<sources, order, vocab, saved, drawn, edits>>

\* A page that has loaded the sources it stores.
Init ==
    /\ vocab \in Vocabularies /\ dirty = TRUE
    /\ sources \in [Sources -> [text : Texts, vocab : {vocab}] \cup {None}]
    /\ order \in Orders(Present)
    /\ flat = [train |-> << >>, held |-> << >>] /\ spans = [train |-> << >>, held |-> << >>]
    /\ counts = [s \in Sources |-> 0] /\ cursors = [s \in Sources |-> None]
    /\ rotation = << >> /\ last = None /\ saved = [s \in Sources |-> None]
    /\ draws = << >> /\ seen = [s \in Sources |-> [of |-> 0, slots |-> {}]]
    /\ turns = [s \in Sources |-> 0] /\ changed = FALSE /\ restored = {}
    /\ drawn = 0 /\ edits = 0 /\ reloads = 0

Next ==
    \/ \E openings \in [1 .. BatchSize -> BOOLEAN], S \in SUBSET Sources :
          \E shuffles \in [1 .. BatchSize -> Orders(S)] : SampleBatch(openings, shuffles)
    \/ \E s \in Sources : (\E t \in Texts : upsert(s, t)) \/ remove(s)
    \/ \E v \in Vocabularies : set_tokenizer(v)
    \/ Ask \/ WriteBack \/ Reload

Spec == Init /\ [][Next]_vars

-----------------------------------------------------------------------------
TypeOK ==
    /\ sources \in [Sources -> [text : Texts, vocab : Vocabularies] \cup {None}]
    /\ order \in Seq(Sources) /\ ToSet(order) = Present /\ IsInjective(order)
    /\ vocab \in Vocabularies /\ \A s \in Present : sources[s].vocab = vocab
    /\ flat \in [train : Seq(Token), held : Seq(Token)]
    /\ spans \in [train : Seq(Nat \X Nat), held : Seq(Nat \X Nat)]
    /\ dirty \in BOOLEAN /\ drawn \in 0 .. MaxDraws
    /\ rotation \in Seq(Sources) /\ IsInjective(rotation) /\ last \in Sources \cup {None}
    /\ counts \in [Sources -> Nat] /\ turns \in [Sources -> Nat] /\ changed \in BOOLEAN
    /\ cursors \in [Sources -> [epoch : 0 .. drawn, cursor : Nat, order : Seq(Nat)] \cup {None}]
    /\ \A s \in Sources : cursors[s] # None =>
          \/ cursors[s].order = << >>
          \/ /\ cursors[s].cursor \in 1 .. Len(cursors[s].order)
             /\ cursors[s].order \in Passes(Len(cursors[s].order))
    /\ saved \in [Sources -> [epoch : 0 .. drawn, cursor : Nat, count : Nat] \cup {None}]
    /\ seen \in [Sources -> [of : Nat, slots : SUBSET Nat]] /\ restored \subseteq Present
    /\ edits \in Nat /\ reloads \in Nat

\* The tokens a window of the sampler reads, its targets included.
WindowAt(stream, start) == SubSeq(stream, start + 1, Min({start + Context + 1, Len(stream)}))

\* A run of one source's tokens, as the source is now, on one side of its
\* split.
OneSource(window, held) ==
    /\ Len(window) = Context + 1
    /\ \E s \in Present : \E i \in 0 .. Length(vocab, sources[s].text) - Len(window) :
          /\ window = SubSeq(TokensOf(s), i + 1, i + Len(window))
          /\ sources[s].vocab = vocab
          /\ LET split == Split(Length(vocab, sources[s].text))
             IN IF held THEN i >= split ELSE i + Len(window) <= split

\* What is drawn for a batch, and the held-out set and the probe of the
\* training text.
TrainingWindows == \A k \in DOMAIN draws : OneSource(WindowAt(flat.train, draws[k].start), FALSE)
FixedWindows ==
    ~ dirty => \A count \in 1 .. 3 :
        /\ \A i \in DOMAIN validation_batch(count) :
              OneSource(WindowAt(flat.held, validation_batch(count)[i]), TRUE)
        /\ \A i \in DOMAIN training_probe_batch(count) :
              OneSource(WindowAt(flat.train, training_probe_batch(count)[i]), FALSE)

(* A window is text of one source as it now stands, in the vocabulary of   *)
(* now, on one side of its split: no training window holds a token that    *)
(* the held-out measurement reads, whatever was added, replaced, removed   *)
(* or encoded again since the streams were last built (sampling.rs         *)
(* sample_batch, fixed_windows; store.rs rebuild_flat_if_needed).          *)
WindowsStayInside == TypeOK /\ TrainingWindows /\ FixedWindows

(* Within a session a pass over a source draws every window of it once     *)
(* before it draws one again, through edits that change how many there are *)
(* and openings drawn in between (WindowCursor::next).                     *)
PassesAreWhole == \A k \in DOMAIN draws : draws[k].again => draws[k].source \in restored

(* Training does not run through one document: as long as the sources stay *)
(* the same no source gets two windows in a row if another holds one, and  *)
(* none is ever more than two windows ahead of another (rotation).         *)
TurnsAreShared ==
    /\ \A k \in DOMAIN draws :
          draws[k].source = draws[k].after => draws[k].changed \/ Cardinality(Usable(spans)) = 1
    /\ ~ dirty => \A a, b \in Usable(spans) : turns[a] <= turns[b] + 2

-----------------------------------------------------------------------------
(* The inductive invariant.                                                *)

\* A stream holds the parts of its sources, each where its span says.
Holds(stream, sp, parts) ==
    /\ Len(sp) = Len(parts)
    /\ \A k \in DOMAIN parts :
          /\ sp[k][2] = Len(parts[k]) /\ sp[k][1] + sp[k][2] <= Len(stream)
          /\ \A i \in 1 .. Len(parts[k]) : stream[sp[k][1] + i] = parts[k][i]

StreamsStand ==
    ~ dirty => /\ Holds(flat.train, spans.train, TrainParts)
               /\ Holds(flat.held, spans.held, HeldParts)

\* A pass begun in this session has drawn the windows up to its cursor.
PassesStand ==
    /\ \A s \in Sources \ restored :
          IF cursors[s] = None THEN seen[s] = [of |-> 0, slots |-> {}]
          ELSE /\ cursors[s].order # << >> /\ seen[s].of = Len(cursors[s].order)
               /\ seen[s].slots = {cursors[s].order[i] : i \in 1 .. cursors[s].cursor}
    /\ \A s \in Sources \ Present : cursors[s] = None /\ saved[s] = None

\* The windows a source has had, the one it is due in this rotation included.
Level(s) == turns[s] + (IF s \in ToSet(rotation) THEN 1 ELSE 0)
TurnsStand ==
    /\ dirty => turns = [s \in Sources |-> 0]
    /\ ~ dirty => \A a, b \in Usable(spans) : Level(a) <= Level(b) + 1
    /\ ~ changed => last \notin ToSet(rotation)

CorpusInv ==
    /\ TypeOK /\ StreamsStand /\ PassesStand /\ TurnsStand
    /\ TrainingWindows /\ PassesAreWhole /\ TurnsAreShared
=============================================================================
