--------------------------- MODULE GenerationProofs ---------------------------
(***************************************************************************)
(* What the host decodes with is what training computed, and so is what    *)
(* the GPU's ring decodes with where the host's cache was copied to fit,   *)
(* for every shape of the model, every prompt and every length of the      *)
(* answer.  A session driven a token at a time ends where the blocking     *)
(* call does, and the page is shown the text of its tokens.                *)
(***************************************************************************)
EXTENDS Generation, GpuSession, SequenceTheorems, FiniteSetTheorems, WellFoundedInduction, TLAPS

Key == [tok : Nat, pos : Nat]
Shape(c) == c.context \in Nat \ {0, 1} /\ c.window \in Nat \ {0}

\* The keys of a text are a sequence, one for each token.
LEMMA KeysOfText ==
    ASSUME NEW t \in Seq(Nat)
    PROVE  /\ Keys(t) \in Seq(Key) /\ Len(Keys(t)) = Len(t)
           /\ \A i \in 1 .. Len(t) : Keys(t)[i] = [tok |-> t[i], pos |-> i - 1]
<1>1. Len(t) \in Nat /\ \A i \in 1 .. Len(t) : t[i] \in Nat
  BY LenProperties, ElementOfSeq
<1>2. \A i \in 1 .. Len(t) : [tok |-> t[i], pos |-> i - 1] \in Key
  BY <1>1 DEF Key
<1>3. Keys(t) \in [1 .. Len(t) -> Key]
  BY <1>2 DEF Keys
<1> QED
  BY <1>1, <1>3 DEF Keys

\* trim_to_window keeps the end of a sequence, as much as fits.
LEMMA Trimmed ==
    ASSUME NEW S, NEW k \in Seq(S), NEW w \in Nat \ {0}
    PROVE  /\ trim_to_window(k, w) \in Seq(S)
           /\ Len(trim_to_window(k, w)) = Smaller(Len(k), w)
           /\ \A i \in 1 .. Smaller(Len(k), w) :
                 trim_to_window(k, w)[i] = k[Len(k) - Smaller(Len(k), w) + i]
<1> DEFINE n == Smaller(Len(k), w)
           r == trim_to_window(k, w)
<1>1. Len(k) \in Nat /\ \A i \in 1 .. Len(k) : k[i] \in S
  BY LenProperties, ElementOfSeq
<1>2. CASE Len(k) <= w
  <2>1. r = k
    BY <1>2 DEF trim_to_window
  <2>2. n = Len(k)
    BY <1>1, <1>2 DEF Smaller
  <2>3. \A i \in 1 .. n : Len(k) - n + i = i
    BY <1>1, <2>2
  <2> QED
    BY <2>1, <2>2, <2>3
<1>3. CASE ~ (Len(k) <= w)
  <2>1. r = SubSeq(k, Len(k) - w + 1, Len(k))
    BY <1>3 DEF trim_to_window
  <2>2. n = w /\ w < Len(k)
    BY <1>1, <1>3 DEF Smaller
  <2>3. /\ Len(k) - w + 1 \in 1 .. Len(k) /\ Len(k) \in 1 .. Len(k)
        /\ Len(k) - (Len(k) - w + 1) + 1 = w
    BY <1>1, <2>2
  <2>4. /\ r \in Seq(S) /\ Len(r) = w
        /\ \A i \in 1 .. w : r[i] = k[(Len(k) - w + 1) + i - 1]
    BY <2>1, <2>3, <1>1, SubSeqProperties
  <2>5. \A i \in 1 .. w : (Len(k) - w + 1) + i - 1 = Len(k) - n + i
    BY <1>1, <2>2
  <2> QED
    BY <2>2, <2>4, <2>5
<1> QED
  BY <1>2, <1>3

\* Appending a token's key to the window of a text and evicting the oldest
\* is the window of the longer text.
LEMMA WindowMoves ==
    ASSUME NEW t \in Seq(Nat), NEW token \in Nat, NEW w \in Nat \ {0}
    PROVE  trim_to_window(Append(trim_to_window(Keys(t), w), [tok |-> token, pos |-> Len(t)]), w)
           = trim_to_window(Keys(Append(t, token)), w)
<1> DEFINE new == [tok |-> token, pos |-> Len(t)]
           old == trim_to_window(Keys(t), w)
           longer == Append(t, token)
<1>1. Len(t) \in Nat /\ new \in Key
  BY LenProperties DEF Key
<1>2. /\ old \in Seq(Key) /\ Len(old) = Smaller(Len(t), w)
      /\ \A i \in 1 .. Len(old) : old[i] = Keys(t)[Len(t) - Len(old) + i]
  <2>1. Keys(t) \in Seq(Key) /\ Len(Keys(t)) = Len(t)
    BY KeysOfText
  <2>2. /\ old \in Seq(Key) /\ Len(old) = Smaller(Len(Keys(t)), w)
        /\ \A i \in 1 .. Smaller(Len(Keys(t)), w) :
              old[i] = Keys(t)[Len(Keys(t)) - Smaller(Len(Keys(t)), w) + i]
    BY <2>1, Trimmed
  <2> HIDE DEF old
  <2> QED
    BY <2>1, <2>2
<1>3. /\ longer \in Seq(Nat) /\ Len(longer) = Len(t) + 1
      /\ longer[Len(t) + 1] = token /\ \A i \in 1 .. Len(t) : longer[i] = t[i]
  BY <1>1
<1>4. /\ Append(old, new) \in Seq(Key) /\ Len(Append(old, new)) = Len(old) + 1
      /\ Append(old, new)[Len(old) + 1] = new
      /\ \A i \in 1 .. Len(old) : Append(old, new)[i] = old[i]
  BY <1>1, <1>2
<1>5. \A i \in 1 .. Len(t) : Keys(longer)[i] = Keys(t)[i]
  <2> HIDE DEF longer
  <2>1. \A i \in 1 .. Len(longer) : Keys(longer)[i] = [tok |-> longer[i], pos |-> i - 1]
    BY <1>3, KeysOfText
  <2>2. \A i \in 1 .. Len(t) : Keys(t)[i] = [tok |-> t[i], pos |-> i - 1]
    BY KeysOfText
  <2> SUFFICES ASSUME NEW i \in 1 .. Len(t) PROVE Keys(longer)[i] = Keys(t)[i]
    OBVIOUS
  <2>3. i \in 1 .. Len(longer) /\ longer[i] = t[i]
    BY <1>1, <1>3
  <2> QED
    BY <2>1, <2>2, <2>3
<1>6. Keys(longer)[Len(t) + 1] = new
  <2> HIDE DEF longer
  <2>1. \A i \in 1 .. Len(longer) : Keys(longer)[i] = [tok |-> longer[i], pos |-> i - 1]
    BY <1>3, KeysOfText
  <2>2. Len(t) + 1 \in 1 .. Len(longer) /\ (Len(t) + 1) - 1 = Len(t)
    BY <1>1, <1>3
  <2> QED
    BY <1>3, <2>1, <2>2
<1>7. \A i \in 1 .. Len(old) + 1 :
         Append(old, new)[i] = Keys(longer)[Len(t) - Len(old) + i]
  <2> SUFFICES ASSUME NEW i \in 1 .. Len(old) + 1
               PROVE  Append(old, new)[i] = Keys(longer)[Len(t) - Len(old) + i]
    OBVIOUS
  <2>1. Len(old) \in Nat /\ Len(old) <= Len(t)
    BY <1>1, <1>2 DEF Smaller
  <2>2. CASE i = Len(old) + 1
    <3>1. Len(t) - Len(old) + i = Len(t) + 1
      BY <1>1, <2>1, <2>2
    <3> QED
      BY <1>4, <1>6, <2>2, <3>1
  <2>3. CASE i \in 1 .. Len(old)
    <3>1. Len(t) - Len(old) + i \in 1 .. Len(t)
      BY <1>1, <2>1, <2>3
    <3> QED
      BY <1>2, <1>4, <1>5, <2>3, <3>1
  <2> QED
    BY <2>1, <2>2, <2>3
<1> DEFINE n == Smaller(Len(t) + 1, w)
           longest == Append(old, new)
           L == trim_to_window(longest, w)
           R == trim_to_window(Keys(longer), w)
<1>8. /\ n \in Nat /\ n <= Len(old) + 1 /\ n <= Len(t) + 1
      /\ Smaller(Len(old) + 1, w) = n /\ Len(old) \in Nat /\ Len(old) <= Len(t)
  BY <1>1, <1>2 DEF Smaller
<1>9. Keys(longer) \in Seq(Key) /\ Len(Keys(longer)) = Len(t) + 1
  BY <1>3, KeysOfText
<1>10. longest \in Seq(Key) /\ Len(longest) = Len(old) + 1
  BY <1>4
<1> HIDE DEF new, old, longer, longest
<1>11. /\ L \in Seq(Key) /\ Len(L) = Smaller(Len(longest), w)
       /\ \A i \in 1 .. Smaller(Len(longest), w) :
             L[i] = longest[Len(longest) - Smaller(Len(longest), w) + i]
  BY <1>10, Trimmed
<1>12. /\ R \in Seq(Key) /\ Len(R) = Smaller(Len(Keys(longer)), w)
       /\ \A i \in 1 .. Smaller(Len(Keys(longer)), w) :
             R[i] = Keys(longer)[Len(Keys(longer)) - Smaller(Len(Keys(longer)), w) + i]
  BY <1>9, Trimmed
<1> HIDE DEF n, L, R
<1>13. Len(L) = n /\ \A i \in 1 .. n : L[i] = longest[Len(longest) - n + i]
  <2>1. Smaller(Len(longest), w) = n
    BY <1>8, <1>10
  <2> QED
    BY <1>11, <2>1
<1>14. Len(R) = n /\ \A i \in 1 .. n : R[i] = Keys(longer)[Len(Keys(longer)) - n + i]
  <2>1. Smaller(Len(Keys(longer)), w) = n
    BY <1>9 DEF n
  <2> QED
    BY <1>12, <2>1
<1>15. \A i \in 1 .. n : L[i] = R[i]
  <2> SUFFICES ASSUME NEW i \in 1 .. n PROVE L[i] = R[i]
    OBVIOUS
  <2> DEFINE at == Len(longest) - n + i
  <2>1. /\ at \in 1 .. Len(old) + 1
        /\ Len(t) - Len(old) + at = Len(Keys(longer)) - n + i
    BY <1>1, <1>8, <1>9, <1>10
  <2>2. longest[at] = Keys(longer)[Len(t) - Len(old) + at]
    BY <1>7, <2>1 DEF longest
  <2> QED
    BY <1>13, <1>14, <2>1, <2>2
<1>16. L = R
  BY <1>11, <1>12, <1>13, <1>14, <1>15, SeqEqual
<1> QED
  BY <1>16 DEF L, R, longest, old, new, longer

-----------------------------------------------------------------------------
\* What a cache trimmed to the window holds is what the whole-sequence pass
\* attends to at the last token.
LEMMA WindowIsLastQuery ==
    ASSUME NEW c, Shape(c), NEW t \in Seq(Nat), t # << >>,
           NEW k, k = trim_to_window(Keys(t), effective_window(c))
    PROVE  /\ {k[i] : i \in DOMAIN k} = LastQuery(c, t)
           /\ \A key \in LastQuery(c, t) : key.pos < Len(t)
<1> DEFINE w == effective_window(c)
           n == Smaller(Len(t), w)
           len == Len(t)
<1>1. len \in Nat /\ len > 0
  BY LenProperties, EmptySeq
<1>2. w \in Nat \ {0}
  BY DEF Shape, effective_window, Smaller
<1>3. n \in 1 .. len
  BY <1>1, <1>2 DEF Smaller
<1>4. band_width(len, w) = n
  BY <1>1, <1>2 DEF band_width, Smaller, Larger
<1>5. band_lo(len - 1, n) = len - n
  BY <1>1, <1>3 DEF band_lo
<1> DEFINE K == Keys(t)
<1>6. K \in Seq(Key) /\ Len(K) = len
      /\ \A i \in 1 .. len : K[i] = [tok |-> t[i], pos |-> i - 1]
  BY KeysOfText
<1>7. LastQuery(c, t) = {K[s + 1] : s \in len - n .. len - 1}
  BY <1>4, <1>5 DEF LastQuery, attention_fwd
<1> HIDE DEF n, w, K
<1>8. /\ k \in Seq(Key) /\ Len(k) = n
      /\ \A i \in 1 .. n : k[i] = K[len - n + i]
  <2>1. /\ k \in Seq(Key) /\ Len(k) = Smaller(Len(K), w)
        /\ \A i \in 1 .. Smaller(Len(K), w) : k[i] = K[Len(K) - Smaller(Len(K), w) + i]
    BY <1>2, <1>6, Trimmed DEF w, K
  <2>2. Smaller(Len(K), w) = n
    BY <1>6 DEF n
  <2> QED
    BY <1>6, <2>1, <2>2
<1>9. DOMAIN k = 1 .. n
  BY <1>8, LenProperties
<1>10. \A i \in 1 .. n : k[i] \in {K[s + 1] : s \in len - n .. len - 1}
  <2> SUFFICES ASSUME NEW i \in 1 .. n
               PROVE  \E s \in len - n .. len - 1 : k[i] = K[s + 1]
    OBVIOUS
  <2>1. /\ len - n + i - 1 \in len - n .. len - 1
        /\ (len - n + i - 1) + 1 = len - n + i
    BY <1>1, <1>3
  <2> QED
    BY <1>8, <2>1
<1>11. \A s \in len - n .. len - 1 : K[s + 1] \in {k[i] : i \in 1 .. n}
  <2> SUFFICES ASSUME NEW s \in len - n .. len - 1
               PROVE  \E i \in 1 .. n : K[s + 1] = k[i]
    OBVIOUS
  <2>1. /\ s + 1 - (len - n) \in 1 .. n
        /\ len - n + (s + 1 - (len - n)) = s + 1
    BY <1>1, <1>3
  <2> QED
    BY <1>8, <2>1
<1>12. \A s \in len - n .. len - 1 : K[s + 1].pos < len
  <2> SUFFICES ASSUME NEW s \in len - n .. len - 1 PROVE K[s + 1].pos < len
    OBVIOUS
  <2>1. s + 1 \in 1 .. len /\ (s + 1) - 1 = s /\ s < len
    BY <1>1, <1>3
  <2>2. K[s + 1] = [tok |-> t[s + 1], pos |-> (s + 1) - 1]
    BY <1>6, <2>1
  <2>3. K[s + 1] = [tok |-> t[s + 1], pos |-> s]
    BY <2>1, <2>2
  <2> QED
    BY <2>1, <2>3
<1> QED
  BY <1>7, <1>9, <1>10, <1>11, <1>12

-----------------------------------------------------------------------------
\* A text that is the end of the first `last` tokens of a call.
Ending(t, last) ==
    /\ t \in Seq(Nat) /\ Len(t) > 0
    /\ \A i \in 1 .. Len(t) : t[i] = last - Len(t) + i

\* A cache that stands for such a text, within the context.
Stands(c, cch, last) ==
    /\ Ending(cch.tokens, last)
    /\ cch.pos = Len(cch.tokens) /\ cch.pos <= c.context
    /\ cch.keys = trim_to_window(Keys(cch.tokens), effective_window(c))

\* The end of an ending is one.
LEMMA EndOfEnding ==
    ASSUME NEW t, NEW last \in Nat, Ending(t, last), NEW n \in 1 .. Len(t)
    PROVE  Ending(LastOf(t, n), last) /\ Len(LastOf(t, n)) = n
<1> DEFINE len == Len(t)
           m == len - n + 1
           r == LastOf(t, n)
<1>1. t \in Seq(Nat) /\ len \in Nat /\ (\A i \in 1 .. len : t[i] \in Nat)
      /\ (\A i \in 1 .. len : t[i] = last - len + i)
  BY LenProperties, ElementOfSeq DEF Ending
<1>2. m \in 1 .. len /\ len - m + 1 = n
  BY <1>1
<1>3. r = SubSeq(t, m, len)
  BY DEF LastOf
<1>4. \A i \in m .. len : t[i] \in Nat
  BY <1>1, <1>2
<1> HIDE DEF m
<1>5. /\ r \in Seq(Nat) /\ Len(r) = n
      /\ \A i \in 1 .. n : r[i] = t[m + i - 1]
  BY <1>1, <1>2, <1>3, <1>4, SubSeqProperties, SMTT(60)
<1>6. \A i \in 1 .. n : r[i] = last - n + i
  <2> SUFFICES ASSUME NEW i \in 1 .. n PROVE r[i] = last - n + i
    OBVIOUS
  <2>1. m + i - 1 \in 1 .. len /\ last - len + (m + i - 1) = last - n + i
    BY <1>1 DEF m
  <2> QED
    BY <1>1, <1>5, <2>1
<1> QED
  BY <1>5, <1>6 DEF Ending

\* A generator starts from the end of the prompt, as much as the context
\* holds, or from BOS.
LEMMA NewStands ==
    ASSUME NEW c, Shape(c), NEW p \in Nat
    PROVE  Stands(c, GeneratorNew(c, [i \in 1 .. p |-> i], 0), p)
<1> DEFINE prompt == [i \in 1 .. p |-> i]
           whole == IF prompt = << >> THEN <<0>> ELSE prompt
           kept == IF Len(whole) > c.context THEN LastOf(whole, c.context) ELSE whole
<1>1. prompt \in Seq(Nat) /\ Len(prompt) = p /\ c.context \in Nat \ {0}
  BY DEF Shape
<1>2. Ending(whole, p)
  <2>1. CASE p = 0
    <3>1. prompt = << >>
      BY <1>1, <2>1, EmptySeq
    <3>2. whole = <<0>>
      BY <3>1
    <3> HIDE DEF whole
    <3> QED
      BY <2>1, <3>2 DEF Ending
  <2>2. CASE p > 0
    <3>1. whole = prompt
      BY <1>1, <2>2
    <3>2. \A i \in 1 .. p : prompt[i] = p - p + i
      OBVIOUS
    <3> HIDE DEF prompt
    <3> QED
      BY <1>1, <2>2, <3>1, <3>2 DEF Ending
  <2> QED
    BY <2>1, <2>2
<1> HIDE DEF whole
<1>3. Ending(kept, p) /\ Len(kept) <= c.context
  <2>1. CASE Len(whole) > c.context
    <3>1. c.context \in 1 .. Len(whole)
      BY <1>1, <1>2, <2>1, LenProperties DEF Ending
    <3> QED
      BY <1>1, <1>2, <2>1, <3>1, EndOfEnding
  <2>2. CASE ~ (Len(whole) > c.context)
    <3>1. kept = whole
      BY <2>2
    <3>2. Len(whole) \in Nat
      BY <1>2, LenProperties DEF Ending
    <3> HIDE DEF kept
    <3> QED
      BY <1>1, <1>2, <2>2, <3>1, <3>2
  <2> QED
    BY <2>1, <2>2
<1>4. GeneratorNew(c, prompt, 0) = prefill(c, kept)
  BY DEF GeneratorNew, whole
<1> QED
  BY <1>3, <1>4 DEF Stands, prefill

\* A token later, after a reset when the context is full, the cache stands
\* for the text with that token.
LEMMA AdvanceStands ==
    ASSUME NEW c, Shape(c), NEW last \in Nat, NEW cch, Stands(c, cch, last)
    PROVE  Stands(c, GeneratorAdvance(c, cch, last + 1), last + 1)
<1> DEFINE made == maybe_reset_cache(c, cch)
           w == effective_window(c)
           h == Larger(c.context \div 2, 1)
<1>1. c.context \in Nat \ {0, 1} /\ w \in Nat \ {0}
  BY DEF Shape, effective_window, Smaller
<1>2. h \in Nat /\ h > 0 /\ h < c.context
  BY <1>1 DEF Larger
<1>3. /\ cch.tokens \in Seq(Nat) /\ Len(cch.tokens) \in Nat
      /\ cch.pos = Len(cch.tokens) /\ Ending(cch.tokens, last)
  BY LenProperties DEF Stands, Ending
<1> HIDE DEF h
<1>4. Stands(c, made, last) /\ made.pos < c.context
  <2>1. CASE cch.pos < c.context
    BY <2>1 DEF maybe_reset_cache
  <2>2. CASE ~ (cch.pos < c.context)
    <3>1. made = prefill(c, LastOf(cch.tokens, h))
      BY <2>2 DEF maybe_reset_cache, h
    <3>2. h \in 1 .. Len(cch.tokens)
      BY <1>1, <1>2, <1>3, <2>2
    <3>3. Ending(LastOf(cch.tokens, h), last) /\ Len(LastOf(cch.tokens, h)) = h
      BY <1>3, <3>2, EndOfEnding
    <3> QED
      BY <1>1, <1>2, <3>1, <3>3 DEF Stands, prefill
  <2> QED
    BY <2>1, <2>2
<1>5. GeneratorAdvance(c, cch, last + 1) = decode_step(c, made, last + 1)
  BY DEF GeneratorAdvance
<1> HIDE DEF made
<1> DEFINE t == made.tokens
           longer == Append(t, last + 1)
<1>6. /\ t \in Seq(Nat) /\ Len(t) \in Nat /\ Len(t) > 0 /\ made.pos = Len(t)
      /\ (\A i \in 1 .. Len(t) : t[i] = last - Len(t) + i)
      /\ made.keys = trim_to_window(Keys(t), w)
  BY <1>4, LenProperties DEF Stands, Ending
<1>7. /\ longer \in Seq(Nat) /\ Len(longer) = Len(t) + 1
      /\ longer[Len(t) + 1] = last + 1 /\ \A i \in 1 .. Len(t) : longer[i] = t[i]
  BY <1>6, AppendProperties
<1>8. Ending(longer, last + 1)
  <2> HIDE DEF longer, t
  <2>1. ASSUME NEW i \in 1 .. Len(longer) PROVE longer[i] = (last + 1) - Len(longer) + i
    <3>1. CASE i = Len(t) + 1
      BY <1>6, <1>7, <3>1
    <3>2. CASE i # Len(t) + 1
      <4>1. i \in 1 .. Len(t)
        BY <1>6, <1>7, <3>2
      <4> QED
        BY <1>6, <1>7, <4>1
    <3> QED
      BY <3>1, <3>2
  <2> QED
    BY <1>6, <1>7, <2>1 DEF Ending
<1>9. trim_to_window(Append(made.keys, [tok |-> last + 1, pos |-> made.pos]), w)
      = trim_to_window(Keys(longer), w)
  BY <1>1, <1>6, WindowMoves
<1>10. decode_step(c, made, last + 1)
       = [keys |-> trim_to_window(Keys(longer), w), pos |-> made.pos + 1, tokens |-> longer]
  BY <1>9 DEF decode_step
<1>11. made.pos + 1 = Len(longer) /\ made.pos + 1 <= c.context
  BY <1>1, <1>4, <1>6, <1>7
<1> HIDE DEF longer
<1> QED
  BY <1>5, <1>8, <1>10, <1>11 DEF Stands

-----------------------------------------------------------------------------
\* The inductive invariant: the host's cache stands for the prompt and the
\* answer so far, and its keys are the ones attended to.
Kept ==
    /\ shape \in Shapes /\ device \in {"none", "host", "gpu"}
    /\ asked.prompt \in Nat /\ out \in Seq(Pieces)
    /\ failed \in BOOLEAN /\ refused \in BOOLEAN
    /\ reason \in {None, "caller", "budget", "eos"}
    /\ pending \in {<< >>, <<"lead">>}

CacheStands ==
    /\ device = "none" => out = << >>
    /\ device = "host" => /\ Stands(shape, cache, asked.prompt + Len(out))
                          /\ attended = AttendedOnHost(cache)

HostInv == Kept /\ CacheStands

\* The invariant gives the property.
LEMMA HostInvGives == HostInv => HostAttendsAsTrained
<1> SUFFICES ASSUME HostInv PROVE HostAttendsAsTrained
  OBVIOUS
<1>1. Kept
  BY DEF HostInv
<1>2. CASE device # "host"
  BY <1>1, <1>2 DEF Kept, HostAttendsAsTrained, TypeOK, CacheIsTheWindow, PositionsWereTrained
<1>3. CASE device = "host"
  <2> DEFINE t == cache.tokens
             last == asked.prompt + Len(out)
  <2>1. /\ Stands(shape, cache, last) /\ attended = AttendedOnHost(cache)
        /\ Ending(t, last) /\ last \in Nat
    BY <1>1, <1>3, LenProperties DEF HostInv, Kept, CacheStands, Stands
  <2>2. Shape(shape)
    BY <1>1, GenerationAssumption DEF Kept, Shape
  <2>3. /\ t \in Seq(Nat) /\ t # << >> /\ Len(t) \in Nat /\ Len(t) > 0
        /\ t \in [1 .. Len(t) -> Nat] /\ \A i \in 1 .. Len(t) : t[i] = last - Len(t) + i
    BY <2>1, LenProperties, EmptySeq DEF Ending
  <2>4. /\ cache.keys = trim_to_window(Keys(t), effective_window(shape))
        /\ cache.pos = Len(t) /\ cache.pos <= shape.context
    BY <2>1 DEF Stands
  <2>5. /\ attended = LastQuery(shape, t)
        /\ \A key \in LastQuery(shape, t) : key.pos < Len(t)
    BY <2>1, <2>2, <2>3, <2>4, WindowIsLastQuery DEF AttendedOnHost
  <2>6. TypeOK
    <3>1. cache.pos \in 1 .. shape.context
      BY <2>2, <2>3, <2>4 DEF Shape
    <3> QED
      BY <1>1, <2>3, <3>1 DEF TypeOK, Kept
  <2>7. CacheIsTheWindow
    BY <2>4, <2>5 DEF CacheIsTheWindow
  <2>8. \A k \in attended : k.pos < shape.context
    <3> SUFFICES ASSUME NEW k \in attended PROVE k.pos < shape.context
      OBVIOUS
    <3>1. k \in Key
      <4>1. attended = {cache.keys[i] : i \in DOMAIN cache.keys}
        BY <2>1 DEF AttendedOnHost
      <4>2. cache.keys \in Seq(Key)
        <5>1. effective_window(shape) \in Nat \ {0}
          BY <2>2 DEF Shape, effective_window, Smaller
        <5> QED
          BY <2>3, <2>4, <5>1, KeysOfText, Trimmed
      <4> QED
        BY <4>1, <4>2, LenProperties, ElementOfSeq
    <3>2. k.pos \in Nat /\ k.pos < Len(t)
      BY <2>5, <3>1 DEF Key
    <3> QED
      BY <2>2, <2>3, <2>4, <3>2 DEF Shape
  <2>9. t = [i \in 1 .. Len(t) |-> NextToken - 1 - Len(t) + i]
    <3>1. NextToken = last + 1
      BY DEF NextToken
    <3>2. \A i \in 1 .. Len(t) : t[i] = NextToken - 1 - Len(t) + i
      BY <2>1, <2>3, <3>1, SMTT(60)
    <3> HIDE DEF t
    <3> QED
      BY <2>3, <3>2
  <2> QED
    BY <2>6, <2>7, <2>8, <2>9 DEF HostAttendsAsTrained, PositionsWereTrained
<1> QED
  BY <1>2, <1>3

\* It holds when a call has not begun.
LEMMA HostInvInit == Init => HostInv
<1> SUFFICES ASSUME Init PROVE HostInv
  OBVIOUS
<1>1. shape \in Shapes /\ device = "none" /\ failed = FALSE /\ refused = FALSE
      /\ reason = None /\ pending = << >> /\ out = << >>
  BY DEF Init
<1>2. asked.prompt = 0
  BY DEF Init
<1>3. << >> \in Seq(Pieces)
  BY EmptySeq
<1>4. asked.prompt \in Nat /\ out \in Seq(Pieces)
  BY <1>1, <1>2, <1>3
<1>5. failed \in BOOLEAN /\ refused \in BOOLEAN
  BY <1>1
<1>6. reason \in {None, "caller", "budget", "eos"} /\ pending \in {<< >>, <<"lead">>}
  BY <1>1
<1>7. shape \in Shapes /\ device \in {"none", "host", "gpu"}
  BY <1>1
<1>8. CacheStands
  BY <1>1 DEF CacheStands
<1> QED
  BY <1>4, <1>5, <1>6, <1>7, <1>8 DEF HostInv, Kept

\* Every step keeps it.
LEMMA HostInvNext == HostInv /\ [Next]_vars => HostInv'
<1> SUFFICES ASSUME HostInv, [Next]_vars PROVE HostInv'
  OBVIOUS
<1> USE DEF HostInv
<1>1. Kept /\ CacheStands /\ Shape(shape) /\ Len(out) \in Nat
  BY GenerationAssumption, LenProperties DEF Kept, Shape
<1>2. ASSUME NEW p \in Prompts, NEW t \in Targets, NEW b \in Budgets,
             GenerateOnHost(p, t, b)
      PROVE  HostInv'
  <2>1. p \in Nat
    BY GenerationAssumption
  <2>2. /\ out' = << >> /\ asked'.prompt = p /\ shape' = shape /\ device' = "host"
        /\ attended' = AttendedOnHost(cache')
        /\ cache' = GeneratorNew(shape, [i \in 1 .. p |-> i], 0)
    BY <1>1, <1>2 DEF GenerateOnHost, text, CacheStands, Prompt
  <2>3. Kept'
    BY <1>1, <1>2, <2>1, <2>2 DEF Kept, GenerateOnHost, text
  <2>4. Stands(shape, cache', p)
    BY <1>1, <2>1, <2>2, NewStands
  <2>5. p + Len(out') = p
    BY <2>1, <2>2, EmptySeq
  <2> QED
    BY <2>2, <2>3, <2>4, <2>5 DEF CacheStands
<1>3. ASSUME NEW p \in Prompts, NEW t \in Targets, NEW b \in Budgets,
             GenerateOnGpu(p, t, b)
      PROVE  HostInv'
  BY <1>1, <1>3, GenerationAssumption DEF Kept, CacheStands, GenerateOnGpu, text
<1>4. ASSUME NEW why \in {"budget", "eos"}, HostEnds(why) PROVE HostInv'
  BY <1>1, <1>4 DEF Kept, CacheStands, HostEnds, decoding, Running
<1>5. ASSUME NEW why \in {"budget", "eos"}, GpuEnds(why) PROVE HostInv'
  BY <1>1, <1>5 DEF Kept, CacheStands, GpuEnds, decoding, Running
<1>6. ASSUME NEW token \in Pieces, NEW yes \in BOOLEAN, HostToken(token, yes)
      PROVE  HostInv'
  <2> DEFINE last == asked.prompt + Len(out)
  <2>1. /\ shape' = shape /\ asked' = asked /\ device' = "host" /\ device = "host"
        /\ attended' = AttendedOnHost(cache')
        /\ cache' = GeneratorAdvance(shape, cache, NextToken)
        /\ out' = Append(out, token)
    BY <1>6 DEF HostToken, Running
  <2>2. Kept'
    BY <1>1, <1>6, AppendProperties DEF Kept, HostToken, LeftBehind, Running
  <2>3. last \in Nat /\ NextToken = last + 1 /\ Stands(shape, cache, last)
    BY <1>1, <2>1 DEF Kept, CacheStands, NextToken
  <2>4. Stands(shape, cache', last + 1)
    BY <1>1, <2>1, <2>3, AdvanceStands
  <2>5. asked'.prompt + Len(out') = last + 1
    BY <1>1, <2>1, AppendProperties DEF Kept
  <2> QED
    BY <2>1, <2>2, <2>4, <2>5 DEF CacheStands
<1>7. ASSUME NEW token \in Pieces, NEW yes \in BOOLEAN, GpuToken(token, yes)
      PROVE  HostInv'
  BY <1>1, <1>7, AppendProperties DEF Kept, CacheStands, GpuToken, LeftBehind, Running
<1>8. ASSUME NEW token \in Pieces, GpuFails(token) PROVE HostInv'
  <2>1. /\ out' = << >> /\ asked' = asked /\ shape' = shape /\ device' = "host"
        /\ attended' = AttendedOnHost(cache')
        /\ cache' = GeneratorNew(shape, [i \in 1 .. asked.prompt |-> i], 0)
    BY <1>8 DEF GpuFails, Prompt
  <2>2. Kept'
    BY <1>1, <1>8, EmptySeq DEF Kept, GpuFails
  <2>3. asked.prompt \in Nat
    BY <1>1 DEF Kept
  <2>4. Stands(shape, cache', asked.prompt)
    BY <1>1, <2>1, <2>3, NewStands
  <2>5. asked.prompt + Len(out') = asked.prompt
    BY <2>1, <2>3, EmptySeq
  <2> QED
    BY <2>1, <2>2, <2>4, <2>5 DEF CacheStands
<1>9. CASE UNCHANGED vars
  BY <1>1, <1>9 DEF vars, decoding, text, Kept, CacheStands
<1> QED
  BY <1>2, <1>3, <1>4, <1>5, <1>6, <1>7, <1>8, <1>9 DEF Next

\* What decodes on the host is what training computed, after any number of
\* tokens and resets, for every shape of model, prompt and budget
\* (model.rs prefill and decode_step, generate.rs maybe_reset_cache).
THEOREM HostIsFaithful == Spec => []HostAttendsAsTrained
<1>1. Spec => []HostInv
  BY HostInvInit, HostInvNext, PTL DEF Spec
<1> QED
  BY <1>1, HostInvGives, PTL

-----------------------------------------------------------------------------
\* Positions in a ring: the remainders of positions, and their arithmetic.

\* A position is a whole number of turns and a slot.
LEMMA TurnsAndSlot ==
    ASSUME NEW a \in Nat, NEW w \in Nat \ {0}
    PROVE  /\ a = w * (a \div w) + (a % w)
           /\ a \div w \in Nat /\ a % w \in 0 .. w - 1 /\ a % w <= a
<1> PICK d, e : d = a \div w /\ e = a % w
  OBVIOUS
<1>1. a = w * d + e /\ d \in Nat /\ e \in 0 .. w - 1
  OBVIOUS
<1>2. w * d \in Nat
  BY <1>1
<1>3. e <= a
  BY <1>1, <1>2
<1> QED
  BY <1>1, <1>3

\* A number of turns and a slot is the slot.
LEMMA SlotOfTurns ==
    ASSUME NEW q \in Nat, NEW w \in Nat \ {0}, NEW s \in 0 .. w - 1
    PROVE  w * q + s \in Nat /\ (w * q + s) % w = s
<1> PICK a : a = w * q + s
  OBVIOUS
<1>1. a \in Nat /\ w * q \in Nat
  OBVIOUS
<1> PICK d, r : d = a \div w /\ r = a % w
  OBVIOUS
<1>2. a = w * d + r /\ d \in Nat /\ r \in 0 .. w - 1
  BY <1>1, TurnsAndSlot
<1>3. d = q
  <2>1. ASSUME d < q PROVE FALSE
    <3>1. w * (d + 1) <= w * q /\ w * (d + 1) = w * d + w
      BY <1>2, <2>1
    <3> QED
      BY <1>2, <3>1
  <2>2. ASSUME q < d PROVE FALSE
    <3>1. w * (q + 1) <= w * d /\ w * (q + 1) = w * q + w
      BY <1>2, <2>2
    <3> QED
      BY <1>2, <3>1
  <2> QED
    BY <1>2, <2>1, <2>2
<1> QED
  BY <1>1, <1>2, <1>3

\* A position of the first turn is its own slot.
LEMMA FirstTurn ==
    ASSUME NEW w \in Nat \ {0}, NEW s \in 0 .. w - 1
    PROVE  s % w = s
<1>1. 0 \in Nat /\ w * 0 + s = s
  OBVIOUS
<1>2. (w * 0 + s) % w = s
  BY ONLY 0 \in Nat, w \in Nat \ {0}, s \in 0 .. w - 1, SlotOfTurns
<1> QED
  BY ONLY <1>1, <1>2

\* Two positions less than a turn apart are in different slots.
LEMMA SlotsDiffer ==
    ASSUME NEW a \in Nat, NEW b \in Nat, NEW w \in Nat \ {0}, a < b, b < a + w
    PROVE  a % w # b % w
<1> SUFFICES ASSUME a % w = b % w PROVE FALSE
  OBVIOUS
<1> PICK x, y, r : x = a \div w /\ y = b \div w /\ r = a % w
  OBVIOUS
<1>1. /\ a = w * x + r /\ b = w * y + r
      /\ x \in Nat /\ y \in Nat /\ r \in 0 .. w - 1
  BY TurnsAndSlot, ZenonT(60)
<1>2. CASE y <= x
  <2>1. w * y <= w * x
    BY <1>1, <1>2
  <2> QED
    BY <1>1, <2>1
<1>3. CASE x + 1 <= y
  <2>1. w * (x + 1) <= w * y /\ w * (x + 1) = w * x + w
    BY <1>1, <1>3
  <2> QED
    BY <1>1, <2>1
<1> QED
  BY <1>1, <1>2, <1>3

\* A turn of positions is in every slot.
LEMMA SlotsAreCovered ==
    ASSUME NEW m \in Nat, NEW w \in Nat \ {0}, w <= m, NEW s \in 0 .. w - 1
    PROVE  \E p \in m - w .. m - 1 : p % w = s
<1> PICK q, r : q = (m - 1) \div w /\ r = (m - 1) % w
  OBVIOUS
<1>1. m - 1 \in Nat
  OBVIOUS
<1>2. m - 1 = w * q + r /\ q \in Nat /\ r \in 0 .. w - 1 /\ w * q \in Nat
  BY <1>1, TurnsAndSlot
<1>3. CASE s <= r
  <2>1. w * q + s \in m - w .. m - 1
    BY <1>2, <1>3
  <2>2. (w * q + s) % w = s
    BY ONLY <1>2, w \in Nat \ {0}, s \in 0 .. w - 1, SlotOfTurns
  <2> QED
    BY <2>1, <2>2
<1>4. CASE r < s
  <2>1. q # 0
    <3> SUFFICES ASSUME q = 0 PROVE FALSE
      OBVIOUS
    <3>1. w * q = 0
      OBVIOUS
    <3> QED
      BY <1>2, <1>4, <3>1
  <2> PICK d : d = q - 1
    OBVIOUS
  <2>2. d \in Nat /\ w * q = w * d + w /\ w * d \in Nat
    BY <1>2, <2>1
  <2>3. w * d + s \in m - w .. m - 1
    BY <1>2, <1>4, <2>2
  <2>4. (w * d + s) % w = s
    BY ONLY <2>2, w \in Nat \ {0}, s \in 0 .. w - 1, SlotOfTurns
  <2> QED
    BY <2>3, <2>4
<1> QED
  BY <1>2, <1>3, <1>4

-----------------------------------------------------------------------------
\* The key of the token at a position, when tokens are numbered by place.
Placed(p) == [tok |-> p + 1, pos |-> p]

\* The keys in the window after m tokens.
Window(c, m) == {Placed(p) : p \in m - Smaller(m, effective_window(c)) .. m - 1}

\* A ring whose live slots hold keys, as many as the window has.
Live(c, r) ==
    /\ DOMAIN r.slots = 0 .. effective_window(c) - 1
    /\ r.pos \in Nat \ {0} /\ r.cached = Smaller(r.pos, effective_window(c))
    /\ \A s \in 0 .. r.cached - 1 : r.slots[s] \in Key

\* A ring that holds each position of the window where its remainder says.
Aligned(c, r) ==
    \A p \in r.pos - r.cached .. r.pos - 1 : r.slots[p % effective_window(c)] = Placed(p)

\* The training pass over the first m tokens attends to the window.
LEMMA QueryIsWindow ==
    ASSUME NEW c, Shape(c), NEW m \in Nat \ {0}
    PROVE  LastQuery(c, [i \in 1 .. m |-> i]) = Window(c, m)
<1> PICK t : t = [i \in 1 .. m |-> i]
  OBVIOUS
<1> PICK w, n : w = effective_window(c) /\ n = Smaller(m, w)
  OBVIOUS
<1>1. t \in Seq(Nat) /\ Len(t) = m /\ \A i \in 1 .. m : t[i] = i
  OBVIOUS
<1>2. w \in Nat \ {0} /\ n \in 1 .. m
  BY DEF Shape, effective_window, Smaller
<1>3. band_width(m, w) = n
  BY <1>2 DEF band_width, Smaller, Larger
<1>4. band_lo(m - 1, n) = m - n
  BY <1>2 DEF band_lo
<1>5. LastQuery(c, t) = {Keys(t)[s + 1] : s \in m - n .. m - 1}
  BY <1>1, <1>3, <1>4 DEF LastQuery, attention_fwd
<1>6. \A s \in m - n .. m - 1 : Keys(t)[s + 1] = Placed(s)
  <2> SUFFICES ASSUME NEW s \in m - n .. m - 1 PROVE Keys(t)[s + 1] = Placed(s)
    OBVIOUS
  <2>1. s + 1 \in 1 .. m /\ (s + 1) - 1 = s
    BY <1>2
  <2>2. Keys(t)[s + 1] = [tok |-> t[s + 1], pos |-> (s + 1) - 1]
    BY <1>1, <2>1, KeysOfText
  <2>3. t[s + 1] = s + 1
    BY <1>1, <2>1
  <2> QED
    BY <2>1, <2>2, <2>3 DEF Placed
<1> QED
  BY <1>5, <1>6 DEF Window

\* What an aligned ring shows is the window.
LEMMA RingShowsWindow ==
    ASSUME NEW c, Shape(c), NEW r, Live(c, r), Aligned(c, r)
    PROVE  AttendedOnGpu(r) = Window(c, r.pos)
<1> PICK w, m, n : w = effective_window(c) /\ m = r.pos /\ n = r.cached
  OBVIOUS
<1>1. w \in Nat \ {0} /\ m \in Nat \ {0} /\ n = Smaller(m, w) /\ n \in 1 .. m /\ n <= w
  BY DEF Shape, effective_window, Smaller, Live
<1>2. AttendedOnGpu(r) = {r.slots[s] : s \in 0 .. n - 1}
  BY DEF AttendedOnGpu
<1>3. Window(c, m) = {Placed(p) : p \in m - n .. m - 1}
  BY <1>1 DEF Window
<1>4. ASSUME NEW p \in m - n .. m - 1
      PROVE  p % w \in 0 .. n - 1 /\ r.slots[p % w] = Placed(p)
  <2>0. p \in Nat /\ p < m
    BY <1>1
  <2>1. p % w \in 0 .. w - 1 /\ p % w <= p
    BY <1>1, <2>0, TurnsAndSlot
  <2>2. p % w \in 0 .. n - 1
    <3> PICK e : e = p % w
      OBVIOUS
    <3>1. e \in 0 .. w - 1 /\ e <= p /\ p < m /\ p \in Nat
      BY <2>0, <2>1
    <3>2. e \in 0 .. n - 1
      BY <1>1, <3>1 DEF Smaller
    <3> QED
      BY <3>2
  <2> QED
    BY <2>2 DEF Aligned
<1>5. ASSUME NEW s \in 0 .. n - 1
      PROVE  \E p \in m - n .. m - 1 : p % w = s
  <2>1. CASE m <= w
    <3>1. n = m /\ s \in m - n .. m - 1 /\ s \in 0 .. w - 1
      BY <1>1, <2>1 DEF Smaller
    <3>2. s % w = s
      BY <1>1, <3>1, FirstTurn
    <3> QED
      BY <3>1, <3>2
  <2>2. CASE w < m
    <3>1. n = w
      BY <1>1, <2>2 DEF Smaller
    <3>2. m \in Nat /\ w \in Nat \ {0} /\ w <= m /\ s \in 0 .. w - 1
      BY <1>1, <2>2, <3>1
    <3>3. \E p \in m - w .. m - 1 : p % w = s
      BY ONLY <3>2, SlotsAreCovered
    <3> QED
      BY <3>1, <3>3
  <2> QED
    BY <1>1, <2>1, <2>2
<1>6. \A s \in 0 .. n - 1 : r.slots[s] \in {Placed(p) : p \in m - n .. m - 1}
  BY <1>4, <1>5
<1>7. \A p \in m - n .. m - 1 : Placed(p) \in {r.slots[s] : s \in 0 .. n - 1}
  BY <1>4
<1> QED
  BY <1>2, <1>3, <1>6, <1>7

\* One more token is one more key, in the slot its position says: an aligned
\* ring stays aligned, since only the oldest key of the window was there.
LEMMA StepKeepsRing ==
    ASSUME NEW c, Shape(c), NEW r, Live(c, r), NEW r2, r2 = RingStep(c, r, r.pos + 1)
    PROVE  /\ Live(c, r2) /\ r2.pos = r.pos + 1
           /\ Aligned(c, r) => Aligned(c, r2)
<1> PICK w, m, n, at : /\ w = effective_window(c) /\ m = r.pos /\ n = r.cached /\ at = m % w
  OBVIOUS
<1>1. /\ w \in Nat \ {0} /\ m \in Nat \ {0} /\ n = Smaller(m, w) /\ n \in 1 .. m /\ n <= w
      /\ DOMAIN r.slots = 0 .. w - 1 /\ \A s \in 0 .. n - 1 : r.slots[s] \in Key
  BY DEF Shape, effective_window, Smaller, Live
<1>2. at \in 0 .. w - 1 /\ at <= m
  BY <1>1, TurnsAndSlot
<1>3. r2 = [slots |-> [r.slots EXCEPT ![at] = Placed(m)], pos |-> m + 1,
            cached |-> Smaller(n + 1, w)]
  BY DEF RingStep, Placed
<1>4. /\ r2.pos = m + 1 /\ r2.cached = Smaller(n + 1, w)
      /\ DOMAIN r2.slots = 0 .. w - 1 /\ r2.slots[at] = Placed(m)
      /\ \A s \in 0 .. w - 1 : s # at => r2.slots[s] = r.slots[s]
  <2>1. /\ r2.pos = m + 1 /\ r2.cached = Smaller(n + 1, w)
        /\ r2.slots = [r.slots EXCEPT ![at] = Placed(m)]
    BY <1>3
  <2> QED
    BY <1>1, <1>2, <2>1
<1>5. /\ Smaller(n + 1, w) = Smaller(m + 1, w) /\ m + 1 \in Nat \ {0}
      /\ Smaller(n + 1, w) \in 1 .. w /\ Smaller(n + 1, w) <= n + 1
      /\ n < w => n = m
  BY <1>1 DEF Smaller
<1>6. n < w => at = m
  <2> SUFFICES ASSUME n < w PROVE at = m
    OBVIOUS
  <2>1. w \in Nat \ {0} /\ m \in 0 .. w - 1
    BY <1>1, <1>5
  <2>2. m % w = m
    BY ONLY <2>1, FirstTurn
  <2> QED
    BY <2>1, <2>2
<1>7. Placed(m) \in Key
  BY <1>1 DEF Placed, Key
<1>8. ASSUME NEW s \in 0 .. r2.cached - 1 PROVE r2.slots[s] \in Key
  <2>1. CASE s = at
    BY <1>4, <1>7, <2>1
  <2>2. CASE s # at
    <3>1. s \in 0 .. w - 1 /\ s <= n
      BY <1>1, <1>4, <1>5, SMTT(60)
    <3>2. s \in 0 .. n - 1
      <4>1. CASE n < w
        BY <1>1, <1>5, <1>6, <2>2, <3>1, <4>1
      <4>2. CASE n = w
        BY <1>1, <3>1, <4>2
      <4> QED
        BY <1>1, <4>1, <4>2
    <3> QED
      BY <1>1, <1>4, <2>2, <3>1, <3>2
  <2> QED
    BY <2>1, <2>2
<1>9. Live(c, r2)
  BY <1>4, <1>5, <1>8 DEF Live
<1>10. ASSUME Aligned(c, r), NEW p \in r2.pos - r2.cached .. r2.pos - 1
       PROVE  r2.slots[p % w] = Placed(p)
  <2>1. CASE p = m
    BY <1>4, <2>1
  <2>2. CASE p # m
    <3>1. p \in m - n .. m - 1 /\ p \in Nat /\ p < m /\ m < p + w
      <4>1. p <= m /\ p >= m + 1 - Smaller(n + 1, w) /\ p \in Int
        BY <1>1, <1>4, <1>5, SMTT(60)
      <4> PICK k : k = Smaller(n + 1, w)
        OBVIOUS
      <4>2. k \in 1 .. w /\ k <= n + 1 /\ p >= m + 1 - k
        BY <1>5, <4>1
      <4> QED
        BY <1>1, <2>2, <4>1, <4>2, SMTT(60)
    <3>2. p % w # at /\ p % w \in 0 .. w - 1
      <4>1. p \in Nat /\ m \in Nat /\ w \in Nat \ {0} /\ p < m /\ m < p + w
        BY <1>1, <3>1
      <4>2. p % w # m % w
        BY ONLY <4>1, SlotsDiffer
      <4>3. p % w \in 0 .. w - 1
        BY ONLY <4>1, TurnsAndSlot
      <4> QED
        BY <4>2, <4>3
    <3>3. r.slots[p % w] = Placed(p)
      BY <1>10, <3>1 DEF Aligned
    <3> QED
      BY <1>4, <3>2, <3>3
  <2> QED
    BY <2>1, <2>2
<1> QED
  BY <1>4, <1>9, <1>10 DEF Aligned

\* A prompt that fits the window, or fills it a whole number of times.
Fits(c, p) == p <= effective_window(c) \/ p % effective_window(c) = 0

\* The positions of a prompt that fits are seeded where a step would look.
LEMMA SeededSlots ==
    ASSUME NEW w \in Nat \ {0}, NEW p \in Nat \ {0}, p <= w \/ p % w = 0,
           NEW n, n = Smaller(p, w), NEW q \in p - n .. p - 1
    PROVE  q % w = q - (p - n) /\ q - (p - n) \in 0 .. n - 1 /\ p - n + (q - (p - n)) = q
<1>1. CASE p <= w
  <2>1. n = p /\ q \in 0 .. p - 1
    BY <1>1 DEF Smaller
  <2>2. q \in 0 .. w - 1
    BY <1>1, <2>1
  <2>3. q % w = q
    BY <2>2, FirstTurn
  <2> QED
    BY <2>1, <2>2, <2>3
<1>2. CASE w < p
  <2>1. n = w /\ p % w = 0 /\ q \in p - w .. p - 1
    BY <1>2 DEF Smaller
  <2> PICK d : d = p \div w
    OBVIOUS
  <2>2. p = w * d /\ d \in Nat
    BY <2>1, TurnsAndSlot
  <2>3. d # 0
    <3> SUFFICES ASSUME d = 0 PROVE FALSE
      OBVIOUS
    <3>1. w * d = 0
      OBVIOUS
    <3> QED
      BY <2>2, <3>1
  <2> PICK e : e = d - 1
    OBVIOUS
  <2>4. e \in Nat /\ w * d = w * e + w /\ w * e \in Nat
    BY <2>2, <2>3
  <2> PICK s : s = q - (p - w)
    OBVIOUS
  <2>5. s \in 0 .. w - 1 /\ q = w * e + s
    BY <2>1, <2>2, <2>4
  <2>6. (w * e + s) % w = s
    BY ONLY <2>4, <2>5, w \in Nat \ {0}, SlotOfTurns
  <2> QED
    BY <2>1, <2>5, <2>6
<1> QED
  BY <1>1, <1>2

\* The ring takes the window of the prompt over; it is aligned if that fits.
LEMMA SeedKeepsRing ==
    ASSUME NEW c, Shape(c), NEW p \in Nat \ {0},
           NEW r, DOMAIN r.slots = 0 .. effective_window(c) - 1,
           NEW cch, cch = prefill(c, [i \in 1 .. p |-> i]),
           NEW r2, r2 = seed_from_cpu_cache(r, cch)
    PROVE  /\ Live(c, r2) /\ r2.pos = p
           /\ Fits(c, p) => Aligned(c, r2)
           /\ AttendedOnHost(cch) = Window(c, p) /\ AttendedOnHost(cch) \subseteq Key
<1> PICK t : t = [i \in 1 .. p |-> i]
  OBVIOUS
<1> PICK w, n, k : w = effective_window(c) /\ n = Smaller(p, w) /\ k = cch.keys
  OBVIOUS
<1>1. t \in Seq(Nat) /\ Len(t) = p /\ \A i \in 1 .. p : t[i] = i
  OBVIOUS
<1>2. w \in Nat \ {0} /\ n \in 1 .. p /\ n <= w
  BY DEF Shape, effective_window, Smaller
<1>3. cch.pos = p /\ k = trim_to_window(Keys(t), w)
  BY <1>1 DEF prefill
<1>4. /\ Keys(t) \in Seq(Key) /\ Len(Keys(t)) = p
      /\ \A i \in 1 .. p : Keys(t)[i] = [tok |-> t[i], pos |-> i - 1]
  BY <1>1, KeysOfText
<1>5. /\ k \in Seq(Key) /\ Len(k) = n
      /\ \A i \in 1 .. n : k[i] = Keys(t)[p - n + i]
  <2> PICK all : all = Keys(t)
    OBVIOUS
  <2>1. all \in Seq(Key) /\ w \in Nat \ {0} /\ k = trim_to_window(all, w)
    BY <1>2, <1>3, <1>4
  <2>2. /\ k \in Seq(Key) /\ Len(k) = Smaller(Len(all), w)
        /\ \A i \in 1 .. Smaller(Len(all), w) : k[i] = all[Len(all) - Smaller(Len(all), w) + i]
    BY ONLY <2>1, Trimmed
  <2> QED
    BY <1>4, <2>2
<1>6. \A s \in 0 .. n - 1 : k[s + 1] = Placed(p - n + s) /\ k[s + 1] \in Key
  <2> SUFFICES ASSUME NEW s \in 0 .. n - 1
               PROVE  k[s + 1] = Placed(p - n + s) /\ k[s + 1] \in Key
    OBVIOUS
  <2>1. /\ s + 1 \in 1 .. n /\ p - n + (s + 1) \in 1 .. p
        /\ (p - n + (s + 1)) - 1 = p - n + s /\ p - n + (s + 1) = (p - n + s) + 1
    BY <1>2
  <2> PICK i : i = p - n + (s + 1)
    OBVIOUS
  <2>2. k[s + 1] = [tok |-> i, pos |-> i - 1]
    BY <1>1, <1>4, <1>5, <2>1
  <2>3. k[s + 1] \in Key
    BY <1>5, <2>1, ElementOfSeq
  <2> QED
    BY <2>1, <2>2, <2>3 DEF Placed
<1>7. /\ r2.pos = p /\ r2.cached = n /\ DOMAIN r2.slots = 0 .. w - 1
      /\ \A s \in 0 .. n - 1 : r2.slots[s] = k[s + 1]
  <2>1. /\ r2.pos = p /\ r2.cached = n
        /\ r2.slots = [s \in 0 .. w - 1 |-> IF s < n THEN k[s + 1] ELSE r.slots[s]]
    BY <1>3, <1>5 DEF seed_from_cpu_cache
  <2>2. \A s \in 0 .. n - 1 : s \in 0 .. w - 1 /\ s < n
    BY <1>2
  <2>3. \A s \in 0 .. n - 1 : r2.slots[s] = k[s + 1]
    BY <2>1, <2>2
  <2>4. DOMAIN r2.slots = 0 .. w - 1
    BY <2>1
  <2> QED
    BY <2>1, <2>3, <2>4
<1>8. Live(c, r2)
  BY <1>6, <1>7 DEF Live
<1>9. ASSUME Fits(c, p), NEW q \in p - n .. p - 1 PROVE r2.slots[q % w] = Placed(q)
  <2> PICK s : s = q - (p - n)
    OBVIOUS
  <2>1. p <= w \/ p % w = 0
    BY <1>9 DEF Fits
  <2>2. p \in Nat \ {0} /\ w \in Nat \ {0} /\ n = Smaller(p, w) /\ q \in p - n .. p - 1
    BY <1>2
  <2>3. q % w = q - (p - n) /\ q - (p - n) \in 0 .. n - 1 /\ p - n + (q - (p - n)) = q
    BY ONLY <2>1, <2>2, SeededSlots
  <2> QED
    BY <1>6, <1>7, <2>3
<1>10. Fits(c, p) => Aligned(c, r2)
  BY <1>7, <1>9 DEF Aligned
<1>11. t # << >>
  BY <1>1, <1>2, EmptySeq
<1>12. AttendedOnHost(cch) = LastQuery(c, t)
  <2>1. {k[i] : i \in DOMAIN k} = LastQuery(c, t)
    <3>1. k = trim_to_window(Keys(t), effective_window(c))
      BY <1>3
    <3>2. Shape(c) /\ t \in Seq(Nat) /\ t # << >>
      BY <1>1, <1>11
    <3> QED
      BY ONLY <3>1, <3>2, WindowIsLastQuery
  <2> QED
    BY <2>1 DEF AttendedOnHost
<1>13. AttendedOnHost(cch) = Window(c, p)
  BY <1>12, QueryIsWindow
<1>14. AttendedOnHost(cch) \subseteq Key
  <2>1. \A i \in DOMAIN k : k[i] \in Key
    BY <1>5, ElementOfSeq
  <2> QED
    BY <2>1 DEF AttendedOnHost
<1> QED
  BY <1>7, <1>8, <1>10, <1>13, <1>14

-----------------------------------------------------------------------------
\* The inductive invariant of the ring: its live slots hold keys, it is as
\* far as the answer while that goes on, and a prompt that fitted left it
\* aligned.
RingStands ==
    /\ DOMAIN ring.slots = 0 .. effective_window(shape) - 1
    /\ device = "gpu" =>
          /\ Live(shape, ring) /\ attended \subseteq Key
          /\ reason = None => ring.pos = asked.prompt + Len(out)
          /\ Fits(shape, asked.prompt) =>
                Aligned(shape, ring) /\ attended = Window(shape, ring.pos)

RingInv == HostInv /\ RingStands

\* It holds when a call has not begun.
LEMMA RingInvInit == Init => RingInv
<1> SUFFICES ASSUME Init PROVE RingInv
  OBVIOUS
<1>1. HostInv /\ device = "none" /\ ring = RingNew(shape, None)
  BY HostInvInit DEF Init
<1>2. DOMAIN ring.slots = 0 .. effective_window(shape) - 1
  BY <1>1 DEF RingNew
<1> QED
  BY <1>1, <1>2 DEF RingInv, RingStands

\* Every step keeps it.
LEMMA RingInvNext == RingInv /\ [Next]_vars => RingInv'
<1> SUFFICES ASSUME RingInv, [Next]_vars PROVE RingInv'
  OBVIOUS
<1>1. /\ HostInv' /\ Kept /\ CacheStands /\ RingStands /\ Shape(shape) /\ Len(out) \in Nat
      /\ asked.prompt \in Nat /\ None \notin {"caller", "budget", "eos"}
  <2>1. Kept /\ CacheStands /\ RingStands /\ HostInv'
    BY HostInvNext DEF RingInv, HostInv
  <2>2. Shape(shape)
    BY <2>1, GenerationAssumption DEF Kept, Shape
  <2>3. Len(out) \in Nat /\ asked.prompt \in Nat
    BY <2>1, LenProperties DEF Kept
  <2> QED
    BY <2>1, <2>2, <2>3, GenerationAssumption
<1> SUFFICES RingStands'
  BY <1>1 DEF RingInv
<1>2. ASSUME NEW p \in Prompts, NEW t \in Targets, NEW b \in Budgets,
             GenerateOnHost(p, t, b)
      PROVE  RingStands'
  BY <1>1, <1>2 DEF GenerateOnHost, RingStands
<1>3. ASSUME NEW p \in Prompts, NEW t \in Targets, NEW b \in Budgets,
             GenerateOnGpu(p, t, b)
      PROVE  RingStands'
  <2>1. p \in Nat \ {0}
    BY <1>3, GenerationAssumption DEF GenerateOnGpu
  <2> PICK cch : cch = prefill(shape, [i \in 1 .. p |-> i])
    OBVIOUS
  <2>2. /\ shape' = shape /\ asked'.prompt = p /\ out' = << >>
        /\ ring' = seed_from_cpu_cache(ring, cch) /\ attended' = AttendedOnHost(cch)
    BY <1>1, <1>3 DEF GenerateOnGpu, text, CacheStands, Prompt
  <2>3. DOMAIN ring.slots = 0 .. effective_window(shape) - 1
    BY <1>1 DEF RingStands
  <2>4. /\ Live(shape, ring') /\ ring'.pos = p
        /\ Fits(shape, p) => Aligned(shape, ring')
        /\ attended' = Window(shape, p) /\ attended' \subseteq Key
    BY <1>1, <2>1, <2>2, <2>3, SeedKeepsRing
  <2>5. ring'.pos = asked'.prompt + Len(out')
    BY <2>1, <2>2, <2>4, EmptySeq
  <2> QED
    BY <2>2, <2>4, <2>5 DEF RingStands, Live
<1>4. ASSUME NEW why \in {"budget", "eos"}, HostEnds(why) PROVE RingStands'
  BY <1>1, <1>4 DEF HostEnds, decoding, Running, RingStands
<1>5. ASSUME NEW why \in {"budget", "eos"}, GpuEnds(why) PROVE RingStands'
  BY <1>1, <1>5 DEF GpuEnds, decoding, Running, RingStands
<1>6. ASSUME NEW token \in Pieces, NEW yes \in BOOLEAN, HostToken(token, yes)
      PROVE  RingStands'
  BY <1>1, <1>6 DEF HostToken, Running, RingStands
<1>7. ASSUME NEW token \in Pieces, NEW yes \in BOOLEAN, GpuToken(token, yes)
      PROVE  RingStands'
  <2>1. /\ device = "gpu" /\ reason = None /\ shape' = shape /\ asked' = asked
        /\ device' = device /\ out' = Append(out, token)
        /\ \/ reason' = "caller" /\ ring' = ring /\ attended' = attended
           \/ ring' = RingStep(shape, ring, NextToken) /\ attended' = AttendedOnGpu(ring')
    BY <1>7 DEF GpuToken, Running
  <2>2. /\ Live(shape, ring) /\ ring.pos = asked.prompt + Len(out)
        /\ Fits(shape, asked.prompt) => Aligned(shape, ring)
    BY <1>1, <2>1 DEF RingStands
  <2>3. CASE reason' = "caller" /\ ring' = ring /\ attended' = attended
    BY <1>1, <2>1, <2>3 DEF RingStands
  <2>4. CASE ring' = RingStep(shape, ring, NextToken) /\ attended' = AttendedOnGpu(ring')
    <3>1. NextToken = ring.pos + 1
      BY <2>2 DEF NextToken
    <3>2. /\ Live(shape, ring') /\ ring'.pos = ring.pos + 1
          /\ Aligned(shape, ring) => Aligned(shape, ring')
      BY <1>1, <2>2, <2>4, <3>1, StepKeepsRing
    <3>3. Len(out') = Len(out) + 1
      BY <1>1, <2>1, AppendProperties DEF Kept
    <3>4. ring'.pos = asked'.prompt + Len(out')
      BY <1>1, <2>1, <2>2, <3>2, <3>3
    <3>5. attended' \subseteq Key
      BY <2>4, <3>2 DEF AttendedOnGpu, Live
    <3>6. Fits(shape, asked.prompt) => attended' = Window(shape, ring'.pos)
      BY <1>1, <2>2, <2>4, <3>2, RingShowsWindow
    <3> QED
      BY <2>1, <2>2, <3>2, <3>4, <3>5, <3>6 DEF RingStands, Live
  <2> QED
    BY <2>1, <2>3, <2>4
<1>8. ASSUME NEW token \in Pieces, GpuFails(token) PROVE RingStands'
  <2>1. ring' = RingNew(shape, None) /\ shape' = shape /\ device' = "host"
    BY <1>8 DEF GpuFails
  <2>2. DOMAIN ring'.slots = 0 .. effective_window(shape) - 1
    BY <2>1 DEF RingNew
  <2> QED
    BY <2>1, <2>2 DEF RingStands
<1>9. CASE UNCHANGED vars
  BY <1>1, <1>9 DEF vars, decoding, text, RingStands
<1> QED
  BY <1>2, <1>3, <1>4, <1>5, <1>6, <1>7, <1>8, <1>9 DEF Next

\* The GPU never attends to what an earlier generation left in the ring, and
\* to exactly the window whenever the prompt fits it or fills it a whole
\* number of times, for every shape, prompt and length of the answer
\* (llm-gpu model.rs seed_from_cpu_cache, decode_step).
THEOREM RingIsFaithful == Spec => []RingIsTheWindow
<1>1. RingInv => RingIsTheWindow
  <2> SUFFICES ASSUME RingInv PROVE RingIsTheWindow
    OBVIOUS
  <2>1. Kept /\ RingStands /\ Shape(shape)
    BY GenerationAssumption DEF RingInv, HostInv, Kept, Shape
  <2>2. None \notin Key
    BY GenerationAssumption DEF Key
  <2>3. device = "gpu" => None \notin attended
    BY <2>1, <2>2 DEF RingStands
  <2>4. ASSUME device = "gpu", Fits(shape, asked.prompt)
        PROVE  attended = LastQuery(shape, [i \in 1 .. ring.pos |-> i])
    <3>1. attended = Window(shape, ring.pos) /\ ring.pos \in Nat \ {0}
      BY <2>1, <2>4 DEF RingStands, Live
    <3> QED
      BY <2>1, <3>1, QueryIsWindow
  <2> QED
    BY <2>3, <2>4 DEF RingIsTheWindow, Fits
<1> QED
  BY <1>1, RingInvInit, RingInvNext, PTL DEF Spec

-----------------------------------------------------------------------------
(* Induction up to a bound, and on sequences.                              *)

\* What holds of 0 and is handed on up to N holds up to N.
LEMMA Climb ==
    ASSUME NEW N \in Nat, NEW S, 0 \in S, \A k \in 0 .. N - 1 : k \in S => k + 1 \in S
    PROVE  0 .. N \subseteq S
<1> DEFINE R == OpToRel(<, Nat)
           T == (0 .. N) \ S
<1>1. SUFFICES ASSUME T # {} PROVE FALSE
  OBVIOUS
<1>2. IsWellFoundedOn(R, Nat)
  BY NatLessThanWellFounded
<1>3. T \subseteq Nat
  OBVIOUS
<1>4. \A x, y \in Nat : <<y, x>> \in R <=> y < x
  BY DEF OpToRel
<1> HIDE DEF R, T
<1>5. PICK x \in T : \A y \in T : ~ (<<y, x>> \in R)
  BY <1>1, <1>2, <1>3, WFMin
<1>6. x \in 1 .. N /\ x - 1 \in 0 .. N - 1 /\ x - 1 < x /\ x - 1 \in Nat /\ x - 1 + 1 = x
  BY <1>5, <1>3 DEF T
<1>7. x - 1 \in S
  <2>1. x - 1 \notin T
    <3>1. <<x - 1, x>> \in R
      BY <1>3, <1>4, <1>5, <1>6
    <3> QED
      BY <1>5, <3>1
  <2>2. x - 1 \in 0 .. N
    BY <1>6
  <2> QED
    BY ONLY <2>1, <2>2 DEF T
<1> QED
  BY <1>5, <1>6, <1>7 DEF T

\* What holds of no elements and survives one more holds of every sequence.
LEMMA GrownByOne ==
    ASSUME NEW T, NEW S, << >> \in S,
           \A s \in Seq(T), x \in T : s \in S => Append(s, x) \in S
    PROVE  Seq(T) \subseteq S
<1> SUFFICES ASSUME NEW s \in Seq(T) PROVE s \in S
  OBVIOUS
<1> PICK n : n = Len(s)
  OBVIOUS
<1> DEFINE Q == {k \in 0 .. n : SubSeq(s, 1, k) \in S}
<1>1. n \in Nat /\ \A i \in 1 .. n : s[i] \in T
  OBVIOUS
<1>2. 0 \in Q
  <2> PICK z : z = SubSeq(s, 1, 0)
    OBVIOUS
  <2>1. z = << >> /\ 0 \in 0 .. n
    BY <1>1
  <2>2. SubSeq(s, 1, 0) \in S
    BY ONLY <2>1, z = SubSeq(s, 1, 0), << >> \in S
  <2> QED
    BY <2>1, <2>2
<1>3. ASSUME NEW k \in 0 .. n - 1, k \in Q PROVE k + 1 \in Q
  <2>1. k + 1 \in 1 .. n /\ k \in 0 .. n
    BY <1>1
  <2>2. SubSeq(s, 1, k) \in Seq(T) /\ s[k + 1] \in T
    BY <1>1, <2>1
  <2>3. SubSeq(s, 1, k + 1) = Append(SubSeq(s, 1, k), s[k + 1])
    BY <1>1, <2>1
  <2>4. SubSeq(s, 1, k) \in S
    BY <1>3
  <2>5. SubSeq(s, 1, k + 1) \in S
    BY <2>2, <2>3, <2>4
  <2> QED
    BY <2>1, <2>5
<1>4. 0 .. n \subseteq Q
  <2> HIDE DEF Q
  <2> QED
    BY <1>1, <1>2, <1>3, Climb
<1>5. SubSeq(s, 1, n) = s /\ n \in 0 .. n
  BY <1>1
<1> QED
  BY <1>4, <1>5

-----------------------------------------------------------------------------
(* The text of a string of bytes.                                          *)

Characters == {"word", "space", "stop", "para", "wide", "repl"}

\* What the first bytes of a string say, for each number of them.
CharsOf(b, n, f) ==
    f = [i \in 0 .. n |->
           IF i = 0 THEN << >>
           ELSE IF Begins(b, i) THEN Append(f[i - 1], Character(b, i)) ELSE f[i - 1]]

\* The first n characters read, one by one.
LEMMA CharsAt ==
    ASSUME NEW b, NEW n \in Nat, NEW f, CharsOf(b, n, f)
    PROVE  /\ f[0] = << >>
           /\ \A i \in 1 .. n :
                 f[i] = IF Begins(b, i) THEN Append(f[i - 1], Character(b, i)) ELSE f[i - 1]
<1>1. 0 \in 0 .. n /\ \A i \in 1 .. n : i \in 0 .. n /\ i # 0
  OBVIOUS
<1> QED
  BY <1>1, Zenon DEF CharsOf

\* Every string of bytes is read.
LEMMA CharsExist ==
    ASSUME NEW b, NEW n \in Nat
    PROVE  \E f : CharsOf(b, n, f)
<1> DEFINE Q == {k \in 0 .. n : \E f : CharsOf(b, k, f)}
           Z == [i \in 0 .. 0 |-> << >>]
<1>1. 0 \in Q
  <2>1. CharsOf(b, 0, Z)
    BY DEF CharsOf
  <2> QED
    BY <2>1
<1>2. ASSUME NEW k \in 0 .. n - 1, k \in Q PROVE k + 1 \in Q
  <2>1. PICK f : CharsOf(b, k, f)
    BY <1>2
  <2> DEFINE g == [i \in 0 .. k + 1 |->
                     IF i = 0 THEN << >>
                     ELSE IF Begins(b, i) THEN Append(f[i - 1], Character(b, i)) ELSE f[i - 1]]
  <2>a. k \in Nat
    OBVIOUS
  <2>2. ASSUME NEW i \in 0 .. k PROVE g[i] = f[i]
    <3>1. i \in 0 .. k + 1 /\ (i # 0 => i \in 1 .. k)
      BY <2>a
    <3>2. f[0] = << >> /\ \A j \in 1 .. k : f[j] =
             IF Begins(b, j) THEN Append(f[j - 1], Character(b, j)) ELSE f[j - 1]
      BY <2>1, <2>a, CharsAt
    <3>3. g[i] = IF i = 0 THEN << >>
                 ELSE IF Begins(b, i) THEN Append(f[i - 1], Character(b, i)) ELSE f[i - 1]
      BY <3>1
    <3> QED
      BY ONLY <3>1, <3>2, <3>3
  <2>3. \A i \in 0 .. k + 1 : i # 0 => g[i - 1] = f[i - 1]
    <3>1. \A i \in 0 .. k + 1 : i # 0 => i - 1 \in 0 .. k
      BY <2>a
    <3> HIDE DEF g
    <3> QED
      BY ONLY <2>2, <3>1
  <2>b. g = [i \in 0 .. k + 1 |->
               IF i = 0 THEN << >>
               ELSE IF Begins(b, i) THEN Append(f[i - 1], Character(b, i)) ELSE f[i - 1]]
    OBVIOUS
  <2> HIDE DEF g
  <2>4. CharsOf(b, k + 1, g)
    <3>1. \A i \in 0 .. k + 1 :
            (IF i = 0 THEN << >>
             ELSE IF Begins(b, i) THEN Append(f[i - 1], Character(b, i)) ELSE f[i - 1])
          = (IF i = 0 THEN << >>
             ELSE IF Begins(b, i) THEN Append(g[i - 1], Character(b, i)) ELSE g[i - 1])
      BY ONLY <2>3
    <3> QED
      BY ONLY <2>b, <3>1 DEF CharsOf
  <2>5. k + 1 \in 0 .. n
    OBVIOUS
  <2> QED
    BY <2>4, <2>5
<1>3. 0 .. n \subseteq Q
  <2> HIDE DEF Q
  <2> QED
    BY <1>1, <1>2, Climb
<1> QED
  BY <1>3

\* Strings that read alike byte for byte say the same.
LEMMA CharsAgree ==
    ASSUME NEW b, NEW c, NEW m \in Nat, NEW k \in Nat, NEW n \in Nat, n <= m, n <= k,
           NEW f, CharsOf(b, m, f), NEW g, CharsOf(c, k, g),
           \A i \in 1 .. n : /\ Begins(b, i) = Begins(c, i)
                             /\ Character(b, i) = Character(c, i)
    PROVE  f[n] = g[n]
<1> DEFINE Q == {j \in 0 .. n : f[j] = g[j]}
<1>1. 0 \in Q
  <2>1. f[0] = << >> /\ g[0] = << >>
    BY CharsAt
  <2> QED
    BY <2>1
<1>2. ASSUME NEW j \in 0 .. n - 1, j \in Q PROVE j + 1 \in Q
  <2> PICK i : i = j + 1
    OBVIOUS
  <2>1. i \in 1 .. n /\ i \in 0 .. m /\ i \in 0 .. k /\ i # 0 /\ i - 1 = j
    OBVIOUS
  <2>2. f[i] = IF Begins(b, i) THEN Append(f[j], Character(b, i)) ELSE f[j]
    BY <2>1, CharsAt
  <2>3. g[i] = IF Begins(c, i) THEN Append(g[j], Character(c, i)) ELSE g[j]
    BY <2>1, CharsAt
  <2>4. f[i] = g[i]
    BY <1>2, <2>1, <2>2, <2>3
  <2> QED
    BY <2>1, <2>4
<1>3. 0 .. n \subseteq Q
  <2> HIDE DEF Q
  <2> QED
    BY <1>1, <1>2, Climb
<1> QED
  BY <1>3

\* Reading them one after another is what from_utf8_lossy does.
LEMMA LossyIs ==
    ASSUME NEW b \in Seq(Bytes), NEW f, CharsOf(b, Len(b), f)
    PROVE  from_utf8_lossy(b) = f[Len(b)]
<1> DEFINE g == CHOOSE h : CharsOf(b, Len(b), h)
<1>1. from_utf8_lossy(b) = g[Len(b)]
  BY DEF from_utf8_lossy, CharsOf
<1>2. CharsOf(b, Len(b), g)
  OBVIOUS
<1>3. Len(b) \in Nat
  OBVIOUS
<1> HIDE DEF g
<1>4. f[Len(b)] = g[Len(b)]
  BY <1>2, <1>3, CharsAgree
<1> QED
  BY <1>1, <1>4

\* What a byte says by itself.
Alone(x) == IF x \in {"lead", "cont"} THEN "repl" ELSE x

\* One more byte is one more character, unless it completes the last.
LEMMA LossyAppend ==
    ASSUME NEW b \in Seq(Bytes), NEW x \in Bytes, ~ (Incomplete(b) /\ x = "cont")
    PROVE  from_utf8_lossy(Append(b, x)) = Append(from_utf8_lossy(b), Alone(x))
<1> PICK c, n : c = Append(b, x) /\ n = Len(b)
  OBVIOUS
<1>1. /\ n \in Nat /\ c \in Seq(Bytes) /\ Len(c) = n + 1 /\ c[n + 1] = x
      /\ \A i \in 1 .. n : c[i] = b[i]
  OBVIOUS
<1>2. n # 0 => Incomplete(b) = (b[n] = "lead")
  BY <1>1 DEF Incomplete, Last
<1>3. PICK f : CharsOf(b, n, f)
  BY <1>1, CharsExist
<1>4. PICK g : CharsOf(c, n + 1, g)
  <2>1. n + 1 \in Nat
    BY <1>1
  <2> QED
    BY <2>1, CharsExist
<1>5. ASSUME NEW i \in 1 .. n
      PROVE  Begins(b, i) = Begins(c, i) /\ Character(b, i) = Character(c, i)
  <2>1. c[i] = b[i] /\ (i > 1 => c[i - 1] = b[i - 1])
    <3>1. i > 1 => i - 1 \in 1 .. n
      BY <1>1
    <3> QED
      BY <1>1, <3>1
  <2>2. Begins(b, i) = Begins(c, i)
    BY <2>1 DEF Begins
  <2>3. b[i] = "lead" => ((i < n /\ b[i + 1] = "cont") = (i < n + 1 /\ c[i + 1] = "cont"))
    <3>1. CASE i = n
      <4>1. n # 0 /\ n + 1 - 0 = n + 1 /\ ~ (n < n)
        BY <1>1, <3>1
      <4> QED
        BY <1>1, <1>2, <3>1, <4>1
    <3>2. CASE i < n
      <4>1. i + 1 \in 1 .. n
        BY <1>1, <3>2
      <4> QED
        BY <1>1, <3>2, <4>1
    <3> QED
      BY <1>1, <3>1, <3>2
  <2>4. Character(b, i) = Character(c, i)
    BY <1>1, <2>1, <2>3 DEF Character
  <2> QED
    BY <2>2, <2>4
<1>6. f[n] = g[n]
  <2>1. n + 1 \in Nat /\ n <= n /\ n <= n + 1
    BY <1>1
  <2> QED
    BY <1>1, <1>3, <1>4, <1>5, <2>1, CharsAgree
<1>7. Begins(c, n + 1)
  <2>1. n + 1 > 1 => c[n] = b[n] /\ n # 0 /\ n + 1 - 1 = n
    BY <1>1
  <2>2. ~ (n + 1 > 1 /\ x = "cont" /\ c[n + 1 - 1] = "lead")
    BY <1>2, <2>1
  <2> QED
    BY <1>1, <2>2 DEF Begins
<1>8. Character(c, n + 1) = Alone(x)
  BY <1>1 DEF Character, Alone
<1>9. g[n + 1] = Append(g[n], Alone(x))
  <2>1. n + 1 \in 0 .. n + 1 /\ n + 1 # 0 /\ n + 1 - 1 = n
    BY <1>1
  <2>2. n + 1 \in Nat /\ n + 1 \in 1 .. n + 1
    BY <1>1
  <2>3. \A i \in 1 .. n + 1 :
          g[i] = IF Begins(c, i) THEN Append(g[i - 1], Character(c, i)) ELSE g[i - 1]
    BY ONLY <1>4, <2>2, CharsAt
  <2>4. g[n + 1] = IF Begins(c, n + 1) THEN Append(g[n], Character(c, n + 1)) ELSE g[n]
    <3> PICK k, j : k = n + 1 /\ j = n
      OBVIOUS
    <3>1. k \in 1 .. n + 1 /\ k - 1 = j
      BY <2>1, <1>1
    <3>2. g[k] = IF Begins(c, k) THEN Append(g[k - 1], Character(c, k)) ELSE g[k - 1]
      BY ONLY <3>1, <2>2, <2>3, Zenon
    <3>3. g[k] = IF Begins(c, k) THEN Append(g[j], Character(c, k)) ELSE g[j]
      BY ONLY <3>1, <3>2, Zenon
    <3> QED
      BY ONLY <3>3, k = n + 1, j = n, Zenon
  <2> QED
    BY ONLY <1>7, <1>8, <2>4, Zenon
<1>10. from_utf8_lossy(b) = f[n] /\ from_utf8_lossy(c) = g[n + 1]
  BY <1>1, <1>3, <1>4, LossyIs
<1> QED
  BY <1>6, <1>9, <1>10

\* A lead and its continuation are one character.
LEMMA LossyWide ==
    ASSUME NEW b \in Seq(Bytes)
    PROVE  from_utf8_lossy(Append(Append(b, "lead"), "cont"))
           = Append(from_utf8_lossy(b), "wide")
<1> PICK c, n : c = Append(Append(b, "lead"), "cont") /\ n = Len(b)
  OBVIOUS
<1>1. /\ n \in Nat /\ c \in Seq(Bytes) /\ Len(c) = n + 2
      /\ c[n + 1] = "lead" /\ c[n + 2] = "cont"
      /\ \A i \in 1 .. n : c[i] = b[i]
  BY DEF Bytes
<1>3. PICK f : CharsOf(b, n, f)
  BY <1>1, CharsExist
<1>4. PICK g : CharsOf(c, n + 2, g)
  <2>1. n + 2 \in Nat
    BY <1>1
  <2> QED
    BY <2>1, CharsExist
<1>5. ASSUME NEW i \in 1 .. n
      PROVE  Begins(b, i) = Begins(c, i) /\ Character(b, i) = Character(c, i)
  <2>1. c[i] = b[i] /\ (i > 1 => c[i - 1] = b[i - 1])
    <3>1. i > 1 => i - 1 \in 1 .. n
      BY <1>1
    <3> QED
      BY <1>1, <3>1
  <2>2. Begins(b, i) = Begins(c, i)
    BY <2>1 DEF Begins
  <2>3. (i < n /\ b[i + 1] = "cont") = (i < n + 2 /\ c[i + 1] = "cont")
    <3>1. CASE i = n
      BY <1>1, <3>1
    <3>2. CASE i < n
      <4>1. i + 1 \in 1 .. n
        BY <1>1, <3>2
      <4> QED
        BY <1>1, <3>2, <4>1
    <3> QED
      BY <1>1, <3>1, <3>2
  <2>4. Character(b, i) = Character(c, i)
    BY <1>1, <2>1, <2>3 DEF Character
  <2> QED
    BY <2>2, <2>4
<1>6. f[n] = g[n]
  <2>1. n + 2 \in Nat /\ n <= n /\ n <= n + 2
    BY <1>1
  <2> QED
    BY ONLY <1>1, <1>3, <1>4, <1>5, <2>1, CharsAgree
<1>a. \A i \in 1 .. n + 2 :
         g[i] = IF Begins(c, i) THEN Append(g[i - 1], Character(c, i)) ELSE g[i - 1]
  <2>1. n + 2 \in Nat
    BY <1>1
  <2> QED
    BY ONLY <1>4, <2>1, CharsAt
<1>7. g[n + 1] = Append(g[n], "wide")
  <2>1. n + 1 \in 1 .. n + 2 /\ n + 1 \in 0 .. n + 2 /\ n + 1 # 0 /\ n + 1 - 1 = n /\ n + 1 < n + 2 /\ n + 1 + 1 = n + 2
    BY <1>1
  <2>2. Begins(c, n + 1)
    BY <1>1 DEF Begins
  <2>3. Character(c, n + 1) = "wide"
    BY <1>1, <2>1 DEF Character
  <2>4. g[n + 1] = IF Begins(c, n + 1) THEN Append(g[n], Character(c, n + 1)) ELSE g[n]
    <3> PICK k, j : k = n + 1 /\ j = n
      OBVIOUS
    <3>1. k \in 1 .. n + 2 /\ k - 1 = j
      BY <2>1, <1>1
    <3>2. g[k] = IF Begins(c, k) THEN Append(g[k - 1], Character(c, k)) ELSE g[k - 1]
      BY ONLY <3>1, <1>a, Zenon
    <3>3. g[k] = IF Begins(c, k) THEN Append(g[j], Character(c, k)) ELSE g[j]
      BY ONLY <3>1, <3>2, Zenon
    <3> QED
      BY ONLY <3>3, k = n + 1, j = n, Zenon
  <2> QED
    BY ONLY <2>2, <2>3, <2>4, Zenon
<1>8. g[n + 2] = g[n + 1]
  <2>1. n + 2 \in 1 .. n + 2 /\ n + 2 # 0 /\ n + 2 - 1 = n + 1 /\ n + 2 > 1
    BY <1>1
  <2>2. ~ Begins(c, n + 2)
    BY <1>1, <2>1 DEF Begins
  <2>4. g[n + 2] = IF Begins(c, n + 2) THEN Append(g[n + 1], Character(c, n + 2)) ELSE g[n + 1]
    <3> PICK k, j : k = n + 2 /\ j = n + 1
      OBVIOUS
    <3>1. k \in 1 .. n + 2 /\ k - 1 = j
      BY <2>1, <1>1
    <3>2. g[k] = IF Begins(c, k) THEN Append(g[k - 1], Character(c, k)) ELSE g[k - 1]
      BY ONLY <3>1, <1>a, Zenon
    <3>3. g[k] = IF Begins(c, k) THEN Append(g[j], Character(c, k)) ELSE g[j]
      BY ONLY <3>1, <3>2, Zenon
    <3> QED
      BY ONLY <3>3, k = n + 2, j = n + 1, Zenon
  <2> QED
    BY ONLY <2>2, <2>4, Zenon
<1>9. from_utf8_lossy(b) = f[n] /\ from_utf8_lossy(c) = g[n + 2]
  BY <1>1, <1>3, <1>4, LossyIs
<1> QED
  BY <1>6, <1>7, <1>8, <1>9

\* What one more byte adds to the text, after a character begun or not.
Said(p, x) ==
    IF p = << >>
    THEN IF x = "lead" THEN << >> ELSE <<Alone(x)>>
    ELSE IF x = "lead" THEN <<"repl">>
         ELSE IF x = "cont" THEN <<"wide">> ELSE <<"repl", x>>

\* No bytes say nothing.
LEMMA NothingSaid == from_utf8_lossy(<< >>) = << >> /\ from_utf8_lossy(<<"lead">>) = <<"repl">>
<1> PICK e : e = << >>
  OBVIOUS
<1>1. e \in Seq(Bytes) /\ Len(e) = 0
  OBVIOUS
<1>2. PICK f : CharsOf(e, 0, f)
  BY CharsExist
<1>3. from_utf8_lossy(e) = f[0]
  BY ONLY <1>1, <1>2, LossyIs
<1>4. from_utf8_lossy(e) = << >>
  BY <1>2, <1>3, CharsAt
<1>5. ~ Incomplete(e) /\ "lead" \in Bytes /\ Alone("lead") = "repl"
  BY DEF Incomplete, Bytes, Alone
<1>6. from_utf8_lossy(Append(e, "lead")) = Append(from_utf8_lossy(e), Alone("lead"))
  BY <1>1, <1>5, LossyAppend
<1>7. Append(e, "lead") = <<"lead">> /\ Append(e, "repl") = <<"repl">>
  OBVIOUS
<1> QED
  BY <1>4, <1>5, <1>6, <1>7

\* What is complete of a string, and what is left, when a byte comes.
LEMMA ByteComes ==
    ASSUME NEW b \in Seq(Bytes), NEW x \in Bytes,
           take_complete_chars(b) \in Seq(Characters)
    PROVE  /\ take_complete_chars(Append(b, x)) = take_complete_chars(b) \o Said(LeftBehind(b), x)
           /\ LeftBehind(Append(b, x)) = IF x = "lead" THEN <<"lead">> ELSE << >>
           /\ from_utf8_lossy(b) = take_complete_chars(b) \o from_utf8_lossy(LeftBehind(b))
           /\ Said(LeftBehind(b), x) \in Seq(Characters)
<1> PICK c : c = Append(b, x)
  OBVIOUS
<1> PICK t : t = take_complete_chars(b)
  OBVIOUS
<1>1. c \in Seq(Bytes) /\ c # << >> /\ Last(c) = x /\ Front(c) = b
  <2>1. /\ c \in Seq(Bytes) /\ Len(c) = Len(b) + 1 /\ Len(b) \in Nat /\ c[Len(b) + 1] = x
        /\ c # << >> /\ \A i \in 1 .. Len(b) : c[i] = b[i]
    OBVIOUS
  <2>2. Last(c) = x
    BY <2>1 DEF Last
  <2>3. Front(c) = b
    <3>1. Front(c) = [i \in 1 .. Len(b) |-> c[i]]
      BY <2>1 DEF Front
    <3> QED
      BY <2>1, <3>1
  <2> QED
    BY <2>1, <2>2, <2>3
<1>2. Incomplete(c) = (x = "lead")
  BY <1>1 DEF Incomplete
<1>3. LeftBehind(c) = IF x = "lead" THEN <<"lead">> ELSE << >>
  BY <1>2 DEF LeftBehind
<1>4. Alone(x) \in Characters /\ (x \notin {"lead", "cont"} => x \in Characters /\ Alone(x) = x)
  BY DEF Alone, Bytes, Characters
<1>5. CASE ~ Incomplete(b)
  <2>1. t = from_utf8_lossy(b) /\ LeftBehind(b) = << >>
    BY <1>5 DEF take_complete_chars, LeftBehind
  <2>2. from_utf8_lossy(b) = t \o from_utf8_lossy(LeftBehind(b))
    BY <2>1, NothingSaid
  <2>3. CASE x = "lead"
    <3>1. take_complete_chars(c) = t
      BY <1>1, <1>2, <2>1, <2>3 DEF take_complete_chars
    <3>2. Said(LeftBehind(b), x) = << >>
      BY <2>1, <2>3 DEF Said
    <3> QED
      BY <1>3, <2>2, <3>1, <3>2
  <2>4. CASE x # "lead"
    <3>1. take_complete_chars(c) = from_utf8_lossy(c)
      BY <1>2, <2>4 DEF take_complete_chars
    <3>2. from_utf8_lossy(c) = Append(t, Alone(x))
      BY <1>5, <2>1, LossyAppend
    <3>3. Said(LeftBehind(b), x) = <<Alone(x)>>
      BY <2>1, <2>4 DEF Said
    <3>4. Append(t, Alone(x)) = t \o <<Alone(x)>> /\ <<Alone(x)>> \in Seq(Characters)
      <4> PICK y : y = Alone(x)
        OBVIOUS
      <4>1. y \in Characters /\ t \in Seq(Characters)
        BY <1>4
      <4>2. Append(t, y) = t \o <<y>> /\ <<y>> \in Seq(Characters)
        BY ONLY <4>1
      <4> QED
        BY <4>2
    <3> QED
      BY <1>3, <2>2, <3>1, <3>2, <3>3, <3>4
  <2> QED
    BY <2>3, <2>4
<1>6. CASE Incomplete(b)
  <2> PICK a : a = Front(b)
    OBVIOUS
  <2>1. a \in Seq(Bytes) /\ b = Append(a, "lead") /\ "lead" \in Bytes
    <3>1. b # << >> /\ b[Len(b)] = "lead"
      BY <1>6 DEF Incomplete, Last
    <3>2. Len(b) \in Nat \ {0} /\ \A i \in 1 .. Len(b) : b[i] \in Bytes
      BY <3>1
    <3>3. a = [i \in 1 .. Len(b) - 1 |-> b[i]]
      BY DEF Front
    <3>4. a \in Seq(Bytes) /\ Len(a) = Len(b) - 1 /\ \A i \in 1 .. Len(b) - 1 : a[i] = b[i]
      BY <3>2, <3>3
    <3>5. b = Append(a, "lead")
      BY <3>1, <3>2, <3>4, SMTT(60)
    <3> QED
      BY <3>4, <3>5 DEF Bytes
  <2>2. t = from_utf8_lossy(a) /\ LeftBehind(b) = <<"lead">>
    BY <1>6 DEF take_complete_chars, LeftBehind
  <2>3. from_utf8_lossy(b) = Append(t, "repl")
    <3>1. ~ (Incomplete(a) /\ "lead" = "cont") /\ Alone("lead") = "repl"
      BY DEF Alone
    <3>2. from_utf8_lossy(Append(a, "lead")) = Append(from_utf8_lossy(a), Alone("lead"))
      BY ONLY <2>1, <3>1, LossyAppend
    <3> QED
      BY <2>1, <2>2, <3>1, <3>2
  <2>4. Append(t, "repl") = t \o <<"repl">> /\ <<"repl">> \in Seq(Characters)
    BY DEF Characters
  <2>5. from_utf8_lossy(b) = t \o from_utf8_lossy(LeftBehind(b))
    BY <2>2, <2>3, <2>4, NothingSaid
  <2>6. <<"lead">> # << >>
    OBVIOUS
  <2>7. CASE x = "lead"
    <3>1. take_complete_chars(c) = from_utf8_lossy(b)
      BY <1>1, <1>2, <2>7 DEF take_complete_chars
    <3>2. Said(LeftBehind(b), x) = <<"repl">>
      BY <2>2, <2>6, <2>7 DEF Said
    <3> QED
      BY <1>3, <2>3, <2>4, <2>5, <3>1, <3>2
  <2>8. CASE x = "cont"
    <3>1. take_complete_chars(c) = from_utf8_lossy(c)
      BY <1>2, <2>8 DEF take_complete_chars
    <3>2. from_utf8_lossy(c) = Append(t, "wide")
      BY <2>1, <2>2, <2>8, LossyWide
    <3>3. Said(LeftBehind(b), x) = <<"wide">>
      BY <2>2, <2>6, <2>8 DEF Said
    <3>4. Append(t, "wide") = t \o <<"wide">> /\ <<"wide">> \in Seq(Characters)
      BY DEF Characters
    <3> QED
      BY <1>3, <2>5, <3>1, <3>2, <3>3, <3>4
  <2>9. CASE x \notin {"lead", "cont"}
    <3>1. take_complete_chars(c) = from_utf8_lossy(c)
      BY <1>2, <2>9 DEF take_complete_chars
    <3>2. from_utf8_lossy(c) = Append(from_utf8_lossy(b), x)
      <4>1. ~ (Incomplete(b) /\ x = "cont") /\ Alone(x) = x
        BY <1>4, <2>9
      <4>2. from_utf8_lossy(Append(b, x)) = Append(from_utf8_lossy(b), Alone(x))
        BY ONLY <4>1, b \in Seq(Bytes), x \in Bytes, LossyAppend
      <4> QED
        BY <4>1, <4>2
    <3>3. Said(LeftBehind(b), x) = <<"repl", x>>
      BY <2>2, <2>6, <2>9 DEF Said
    <3>4. Append(Append(t, "repl"), x) = t \o <<"repl", x>> /\ <<"repl", x>> \in Seq(Characters)
      <4>1. x \in Characters /\ "repl" \in Characters
        BY <1>4, <2>9 DEF Characters
      <4> QED
        BY <4>1
    <3> QED
      BY <1>3, <2>3, <2>5, <3>1, <3>2, <3>3, <3>4
  <2> QED
    BY <2>7, <2>8, <2>9
<1> QED
  BY <1>5, <1>6

\* What is complete is characters.
LEMMA TextIsCharacters ==
    ASSUME NEW b \in Seq(Bytes)
    PROVE  /\ take_complete_chars(b) \in Seq(Characters)
           /\ LeftBehind(b) \in Seq(Bytes)
<1> DEFINE S == {s \in Seq(Bytes) : take_complete_chars(s) \in Seq(Characters)}
<1>1. << >> \in S
  <2>1. ~ Incomplete(<< >>)
    BY DEF Incomplete
  <2>2. take_complete_chars(<< >>) = << >>
    BY <2>1, NothingSaid DEF take_complete_chars
  <2>3. << >> \in Seq(Bytes) /\ << >> \in Seq(Characters)
    OBVIOUS
  <2> QED
    BY <2>2, <2>3, Zenon
<1>2. ASSUME NEW s \in Seq(Bytes), NEW x \in Bytes, s \in S PROVE Append(s, x) \in S
  <2>1. take_complete_chars(s) \in Seq(Characters)
    BY <1>2
  <2>2. /\ take_complete_chars(Append(s, x)) = take_complete_chars(s) \o Said(LeftBehind(s), x)
        /\ Said(LeftBehind(s), x) \in Seq(Characters)
    BY <2>1, ByteComes
  <2>3. take_complete_chars(Append(s, x)) \in Seq(Characters) /\ Append(s, x) \in Seq(Bytes)
    BY <2>1, <2>2
  <2> QED
    BY <2>3
<1>3. Seq(Bytes) \subseteq S
  <2> HIDE DEF S
  <2> QED
    BY <1>1, <1>2, GrownByOne
<1>4. LeftBehind(b) \in Seq(Bytes)
  <2>1. << >> \in Seq(Bytes)
    OBVIOUS
  <2>2. <<"lead">> \in Seq(Bytes)
    BY DEF Bytes
  <2> QED
    BY <2>1, <2>2 DEF LeftBehind
<1> QED
  BY <1>3, <1>4

\* The text of a string is the text of a beginning, then that of the rest
\* after the bytes the beginning left behind.
LEMMA TextSplits ==
    ASSUME NEW u \in Seq(Bytes), NEW v \in Seq(Bytes)
    PROVE  /\ take_complete_chars(u \o v)
              = take_complete_chars(u) \o take_complete_chars(LeftBehind(u) \o v)
           /\ LeftBehind(u \o v) = LeftBehind(LeftBehind(u) \o v)
<1> PICK p, t : p = LeftBehind(u) /\ t = take_complete_chars(u)
  OBVIOUS
<1>1. p \in Seq(Bytes) /\ t \in Seq(Characters)
  BY TextIsCharacters
<1> DEFINE S == {s \in Seq(Bytes) :
                   /\ take_complete_chars(u \o s) = t \o take_complete_chars(p \o s)
                   /\ LeftBehind(u \o s) = LeftBehind(p \o s)}
<1>2. << >> \in S
  <2>1. u \o << >> = u /\ p \o << >> = p /\ t \o << >> = t
    BY <1>1
  <2>2. LeftBehind(p) = p /\ take_complete_chars(p) = << >>
    <3>1. CASE p = << >>
      BY <3>1, NothingSaid DEF LeftBehind, Incomplete, take_complete_chars
    <3>2. CASE p = <<"lead">>
      <4>1. p # << >> /\ Last(p) = "lead" /\ Front(p) = << >>
        BY <3>2 DEF Last, Front
      <4> QED
        BY <3>2, <4>1, NothingSaid DEF LeftBehind, Incomplete, take_complete_chars
    <3> QED
      BY <3>1, <3>2 DEF LeftBehind
  <2>3. << >> \in Seq(Bytes)
    OBVIOUS
  <2>4. t = t \o take_complete_chars(p)
    BY <2>1, <2>2
  <2> QED
    BY <2>1, <2>2, <2>3, <2>4, Zenon
<1>3. ASSUME NEW s \in Seq(Bytes), NEW x \in Bytes, s \in S PROVE Append(s, x) \in S
  <2> PICK us, ps : us = u \o s /\ ps = p \o s
    OBVIOUS
  <2>a. us \in Seq(Bytes) /\ ps \in Seq(Bytes) /\ Append(s, x) \in Seq(Bytes)
    BY <1>1
  <2>b. u \o Append(s, x) = Append(u \o s, x)
    OBVIOUS
  <2>c. p \o Append(s, x) = Append(p \o s, x)
    BY ONLY <1>1, s \in Seq(Bytes), x \in Bytes
  <2>1. /\ us \in Seq(Bytes) /\ ps \in Seq(Bytes) /\ Append(s, x) \in Seq(Bytes)
        /\ u \o Append(s, x) = Append(us, x) /\ p \o Append(s, x) = Append(ps, x)
    BY <2>a, <2>b, <2>c
  <2>2. take_complete_chars(us) \in Seq(Characters) /\ take_complete_chars(ps) \in Seq(Characters)
    BY <2>1, TextIsCharacters
  <2>3. take_complete_chars(us) = t \o take_complete_chars(ps) /\ LeftBehind(us) = LeftBehind(ps)
    BY <1>3
  <2>4. /\ take_complete_chars(Append(us, x)) = take_complete_chars(us) \o Said(LeftBehind(us), x)
        /\ LeftBehind(Append(us, x)) = IF x = "lead" THEN <<"lead">> ELSE << >>
    BY <2>1, <2>2, ByteComes
  <2>5. /\ take_complete_chars(Append(ps, x)) = take_complete_chars(ps) \o Said(LeftBehind(ps), x)
        /\ LeftBehind(Append(ps, x)) = IF x = "lead" THEN <<"lead">> ELSE << >>
        /\ Said(LeftBehind(ps), x) \in Seq(Characters)
    BY <2>1, <2>2, ByteComes
  <2> PICK a, d : a = take_complete_chars(ps) /\ d = Said(LeftBehind(ps), x)
    OBVIOUS
  <2>6. (t \o a) \o d = t \o (a \o d)
    BY <1>1, <2>2, <2>5, SMTT(60)
  <2>7. take_complete_chars(Append(us, x)) = t \o take_complete_chars(Append(ps, x))
    BY <2>3, <2>4, <2>5, <2>6
  <2> QED
    BY <2>1, <2>4, <2>5, <2>7
<1>4. Seq(Bytes) \subseteq S
  <2> HIDE DEF S
  <2> QED
    BY <1>2, <1>3, GrownByOne
<1> QED
  BY <1>4

\* All that a string says is what is complete, then what is left over.
LEMMA WholeText ==
    ASSUME NEW b \in Seq(Bytes)
    PROVE  from_utf8_lossy(b) = take_complete_chars(b) \o from_utf8_lossy(LeftBehind(b))
<1>1. take_complete_chars(b) \in Seq(Characters) /\ "word" \in Bytes
  BY TextIsCharacters DEF Bytes
<1> QED
  BY <1>1, ByteComes

-----------------------------------------------------------------------------
(* The words of a text.                                                    *)

\* Whether a character begins a word, after one that goes on or not.
WordBegins(carry, x) == IF ~ is_whitespace(x) /\ ~ carry THEN 1 ELSE 0

\* The text before a character decides whether it begins a word.
LEMMA CharacterComes ==
    ASSUME NEW s \in Seq(Characters), NEW x \in Characters
    PROVE  /\ IsFiniteSet(split_whitespace(s)) /\ Cardinality(split_whitespace(s)) \in Nat
           /\ Cardinality(split_whitespace(Append(s, x)))
              = Cardinality(split_whitespace(s)) + WordBegins(EndsMidWord(s, FALSE), x)
           /\ \A carry \in BOOLEAN : EndsMidWord(Append(s, x), carry) = ~ is_whitespace(x)
<1> PICK l, n : l = Append(s, x) /\ n = Len(s)
  OBVIOUS
<1>1. /\ n \in Nat /\ l \in Seq(Characters) /\ Len(l) = n + 1 /\ l # << >>
      /\ l[n + 1] = x /\ \A i \in 1 .. n : l[i] = s[i]
      /\ DOMAIN s = 1 .. n /\ DOMAIN l = 1 .. n + 1
  OBVIOUS
<1>2. IsFiniteSet(split_whitespace(s)) /\ Cardinality(split_whitespace(s)) \in Nat
  <2>1. split_whitespace(s) \subseteq 1 .. n
    BY <1>1 DEF split_whitespace
  <2>2. IsFiniteSet(1 .. n)
    BY <1>1, FS_Interval
  <2> QED
    BY <2>1, <2>2, FS_Subset, FS_CardinalityType
<1>3. \A carry \in BOOLEAN : EndsMidWord(l, carry) = ~ is_whitespace(x)
  BY <1>1 DEF EndsMidWord, Last
<1> DEFINE new == ~ is_whitespace(x) /\ ~ EndsMidWord(s, FALSE)
<1>4. EndsMidWord(s, FALSE) = (n # 0 /\ ~ is_whitespace(s[n]))
  <2>1. s = << >> <=> n = 0
    BY <1>1
  <2> QED
    BY <2>1 DEF EndsMidWord, Last
<1>5. ASSUME NEW i \in 1 .. n PROVE i \in split_whitespace(l) <=> i \in split_whitespace(s)
  <2>1. i \in 1 .. n + 1 /\ l[i] = s[i] /\ (i # 1 => l[i - 1] = s[i - 1])
    <3>1. i # 1 => i - 1 \in 1 .. n
      BY <1>1
    <3> QED
      BY <1>1, <3>1
  <2> QED
    BY <1>1, <2>1, Zenon DEF split_whitespace
<1>6. n + 1 \in split_whitespace(l) <=> new
  <2>1. n + 1 \in 1 .. n + 1 /\ (n + 1 = 1 <=> n = 0) /\ (n # 0 => l[n + 1 - 1] = s[n])
    BY <1>1
  <2>2. n + 1 \in split_whitespace(l)
        <=> ~ is_whitespace(x) /\ (n = 0 \/ is_whitespace(s[n]))
    BY <1>1, <2>1 DEF split_whitespace
  <2> QED
    BY <1>4, <2>2
<1>7. split_whitespace(l) \subseteq 1 .. n + 1 /\ split_whitespace(s) \subseteq 1 .. n
  BY <1>1 DEF split_whitespace
<1>8. n + 1 \notin split_whitespace(s)
  BY <1>1, <1>7
<1>9. \A i \in 1 .. n + 1 : i = n + 1 \/ i \in 1 .. n
  BY <1>1
<1>10. 1 .. n \subseteq 1 .. n + 1
  BY <1>1
<1>11. CASE new
  <2>1. split_whitespace(l) = split_whitespace(s) \cup {n + 1}
    BY <1>5, <1>6, <1>7, <1>9, <1>10, <1>11, <1>1
  <2>2. Cardinality(split_whitespace(s) \cup {n + 1}) = Cardinality(split_whitespace(s)) + 1
    BY <1>2, <1>8, FS_AddElement
  <2>3. WordBegins(EndsMidWord(s, FALSE), x) = 1
    BY <1>11 DEF WordBegins
  <2> QED
    BY <1>2, <1>3, <2>1, <2>2, <2>3
<1>12. CASE ~ new
  <2>1. split_whitespace(l) = split_whitespace(s)
    BY <1>5, <1>6, <1>7, <1>9, <1>10, <1>12
  <2>2. WordBegins(EndsMidWord(s, FALSE), x) = 0
    BY <1>12 DEF WordBegins
  <2>3. Cardinality(split_whitespace(s)) = Cardinality(split_whitespace(s)) + 0
    BY <1>2
  <2> QED
    BY <1>2, <1>3, <2>1, <2>2, <2>3
<1> QED
  BY <1>11, <1>12

\* No text has no words.
LEMMA NoWords ==
    ASSUME NEW carry \in BOOLEAN
    PROVE  /\ split_whitespace(<< >>) = {} /\ Cardinality(split_whitespace(<< >>)) = 0
           /\ count_words(<< >>, carry) = 0 /\ EndsMidWord(<< >>, carry) = carry
<1>1. split_whitespace(<< >>) = {}
  BY DEF split_whitespace
<1>2. Cardinality(split_whitespace(<< >>)) = 0
  BY <1>1, FS_EmptySet
<1> QED
  BY <1>1, <1>2 DEF count_words, EndsMidWord

\* One more character is one more word, if it begins one.
LEMMA WordsGrow ==
    ASSUME NEW v \in Seq(Characters), NEW x \in Characters, NEW carry \in BOOLEAN
    PROVE  /\ count_words(v, carry) \in Nat
           /\ count_words(Append(v, x), carry)
              = count_words(v, carry) + WordBegins(EndsMidWord(v, carry), x)
<1> PICK l, r, m : /\ l = Append(v, x) /\ r = Cardinality(split_whitespace(v))
                   /\ m = Cardinality(split_whitespace(l))
  OBVIOUS
<1>1. /\ r \in Nat /\ IsFiniteSet(split_whitespace(v))
      /\ m = r + WordBegins(EndsMidWord(v, FALSE), x)
  BY CharacterComes
<1>2. CASE v = << >>
  <2>1. r = 0 /\ count_words(v, carry) = 0 /\ EndsMidWord(v, carry) = carry
    BY <1>2, NoWords
  <2>2. EndsMidWord(v, FALSE) = FALSE
    BY <1>2 DEF EndsMidWord
  <2>3. l[1] = x
    BY <1>2
  <2>4. count_words(l, carry) = IF carry /\ m > 0 /\ ~ is_whitespace(x) THEN m - 1 ELSE m
    BY <2>3 DEF count_words
  <2>5. m = IF ~ is_whitespace(x) THEN 1 ELSE 0
    BY <1>1, <2>1, <2>2 DEF WordBegins
  <2>6. CASE is_whitespace(x)
    BY <2>1, <2>4, <2>5, <2>6 DEF WordBegins
  <2>7. CASE ~ is_whitespace(x)
    BY <2>1, <2>4, <2>5, <2>7 DEF WordBegins
  <2> QED
    BY <2>6, <2>7
<1>3. CASE v # << >>
  <2>1. l[1] = v[1] /\ 1 \in DOMAIN v
    BY <1>3
  <2>2. ~ is_whitespace(v[1]) => r > 0
    <3>1. ~ is_whitespace(v[1]) => 1 \in split_whitespace(v)
      BY <2>1 DEF split_whitespace
    <3>2. r = 0 => split_whitespace(v) = {}
      BY <1>1, FS_EmptySet
    <3> QED
      BY <1>1, <3>1, <3>2
  <2>3. EndsMidWord(v, carry) = EndsMidWord(v, FALSE)
    BY <1>3 DEF EndsMidWord
  <2> PICK k : k = WordBegins(EndsMidWord(v, FALSE), x)
    OBVIOUS
  <2>4. k \in Nat /\ m = r + k /\ k = WordBegins(EndsMidWord(v, carry), x)
    BY <1>1, <2>3 DEF WordBegins
  <2>5. count_words(v, carry) = IF carry /\ ~ is_whitespace(v[1]) THEN r - 1 ELSE r
    BY <2>2 DEF count_words
  <2>6. count_words(l, carry) = IF carry /\ ~ is_whitespace(v[1]) THEN m - 1 ELSE m
    <3>1. ASSUME ~ is_whitespace(v[1]) PROVE m > 0
      <4>1. r > 0 /\ r \in Nat
        BY <1>1, <2>2, <3>1
      <4>2. m = r + k /\ k \in Nat
        BY <2>4
      <4> QED
        BY ONLY <4>1, <4>2
    <3> QED
      BY <2>1, <3>1 DEF count_words
  <2>7. CASE carry /\ ~ is_whitespace(v[1])
    <3>1. count_words(v, carry) = r - 1 /\ count_words(l, carry) = m - 1 /\ r > 0
      BY <2>2, <2>5, <2>6, <2>7
    <3>2. r \in Nat /\ r > 0 /\ m = r + k /\ k \in Nat
      BY <1>1, <2>4, <3>1
    <3>3. r - 1 \in Nat /\ m - 1 = (r - 1) + k
      BY ONLY <3>2
    <3> QED
      BY <2>4, <3>1, <3>3
  <2>8. CASE ~ (carry /\ ~ is_whitespace(v[1]))
    <3>1. count_words(v, carry) = r /\ count_words(l, carry) = m
      BY <2>5, <2>6, <2>8
    <3> QED
      BY <1>1, <2>4, <3>1
  <2> QED
    BY <2>7, <2>8
<1> QED
  BY <1>2, <1>3

\* The words of a text are those of a beginning and those the count finds in
\* the rest, which a word may run into.
LEMMA WordsSplit ==
    ASSUME NEW u \in Seq(Characters), NEW v \in Seq(Characters)
    PROVE  /\ Cardinality(split_whitespace(u \o v))
              = Cardinality(split_whitespace(u)) + count_words(v, EndsMidWord(u, FALSE))
           /\ EndsMidWord(u \o v, FALSE) = EndsMidWord(v, EndsMidWord(u, FALSE))
<1> PICK r, carry : r = Cardinality(split_whitespace(u)) /\ carry = EndsMidWord(u, FALSE)
  OBVIOUS
<1>1. r \in Nat /\ carry \in BOOLEAN
  <2>1. r \in Nat
    BY CharacterComes DEF Characters
  <2> QED
    BY <2>1 DEF EndsMidWord
<1> DEFINE S == {s \in Seq(Characters) :
                   /\ Cardinality(split_whitespace(u \o s)) = r + count_words(s, carry)
                   /\ EndsMidWord(u \o s, FALSE) = EndsMidWord(s, carry)}
<1>2. << >> \in S
  <2>1. u \o << >> = u /\ << >> \in Seq(Characters)
    OBVIOUS
  <2>2. r = r + count_words(<< >>, carry) /\ EndsMidWord(<< >>, carry) = carry
    <3>1. count_words(<< >>, carry) = 0 /\ EndsMidWord(<< >>, carry) = carry
      BY <1>1, NoWords
    <3>2. r = r + 0
      BY <1>1
    <3> QED
      BY <3>1, <3>2
  <2> QED
    BY <2>1, <2>2, Zenon
<1>3. ASSUME NEW s \in Seq(Characters), NEW x \in Characters, s \in S PROVE Append(s, x) \in S
  <2> PICK us : us = u \o s
    OBVIOUS
  <2>1. us \in Seq(Characters) /\ Append(s, x) \in Seq(Characters)
    OBVIOUS
  <2>2. u \o Append(s, x) = Append(us, x)
    OBVIOUS
  <2>3. Cardinality(split_whitespace(us)) = r + count_words(s, carry)
        /\ EndsMidWord(us, FALSE) = EndsMidWord(s, carry)
    BY <1>3
  <2>4. /\ Cardinality(split_whitespace(Append(us, x)))
           = Cardinality(split_whitespace(us)) + WordBegins(EndsMidWord(us, FALSE), x)
        /\ EndsMidWord(Append(us, x), FALSE) = ~ is_whitespace(x)
        /\ EndsMidWord(Append(s, x), carry) = ~ is_whitespace(x)
    BY <1>1, <2>1, CharacterComes
  <2>5. /\ count_words(s, carry) \in Nat
        /\ count_words(Append(s, x), carry) = count_words(s, carry) + WordBegins(EndsMidWord(s, carry), x)
    BY <1>1, WordsGrow
  <2> PICK a, k : a = count_words(s, carry) /\ k = WordBegins(EndsMidWord(s, carry), x)
    OBVIOUS
  <2>6. k \in Nat
    BY DEF WordBegins
  <2>a. a \in Nat
    BY <2>5
  <2>7. (r + a) + k = r + (a + k)
    BY ONLY <1>1, <2>a, <2>6
  <2>8. Cardinality(split_whitespace(Append(us, x))) = r + count_words(Append(s, x), carry)
    BY <2>3, <2>4, <2>5, <2>7
  <2> QED
    BY <2>1, <2>2, <2>4, <2>8
<1>4. Seq(Characters) \subseteq S
  <2> HIDE DEF S
  <2> QED
    BY <1>2, <1>3, GrownByOne
<1> QED
  BY <1>4

-----------------------------------------------------------------------------
(* The bytes of an answer and its stream, a token at a time.               *)

\* The bytes of the first tokens, for each number of them.
FlatOf(seqs, n, f) ==
    f = [i \in 1 .. n |-> IF i = 1 THEN seqs[i] ELSE f[i - 1] \o seqs[i]]

\* They are put together.
LEMMA FlatExists ==
    ASSUME NEW seqs, NEW n \in Nat
    PROVE  \E f : FlatOf(seqs, n, f)
<1> DEFINE Q == {k \in 0 .. n : \E f : FlatOf(seqs, k, f)}
           Z == [i \in 1 .. 0 |-> << >>]
<1>1. 0 \in Q
  <2>1. FlatOf(seqs, 0, Z)
    BY DEF FlatOf
  <2> QED
    BY <2>1
<1>2. ASSUME NEW k \in 0 .. n - 1, k \in Q PROVE k + 1 \in Q
  <2>1. PICK f : FlatOf(seqs, k, f)
    BY <1>2
  <2>2. k \in Nat /\ k + 1 \in 0 .. n
    OBVIOUS
  <2> PICK g : g = [i \in 1 .. k + 1 |-> IF i = 1 THEN seqs[i] ELSE f[i - 1] \o seqs[i]]
    OBVIOUS
  <2>3. ASSUME NEW i \in 1 .. k + 1, i # 1 PROVE g[i - 1] = f[i - 1]
    <3> PICK j : j = i - 1
      OBVIOUS
    <3>1. j \in 1 .. k /\ j \in 1 .. k + 1
      BY <2>2, <2>3
    <3>2. f[j] = IF j = 1 THEN seqs[j] ELSE f[j - 1] \o seqs[j]
      BY ONLY <2>1, <3>1, Zenon DEF FlatOf
    <3>3. g[j] = IF j = 1 THEN seqs[j] ELSE f[j - 1] \o seqs[j]
      BY <3>1
    <3> QED
      BY <3>2, <3>3
  <2>4. \A i \in 1 .. k + 1 : (IF i = 1 THEN seqs[i] ELSE f[i - 1] \o seqs[i])
                              = (IF i = 1 THEN seqs[i] ELSE g[i - 1] \o seqs[i])
    BY <2>3
  <2>5. FlatOf(seqs, k + 1, g)
    BY <2>4 DEF FlatOf
  <2> QED
    BY <2>2, <2>5
<1>3. 0 .. n \subseteq Q
  <2> HIDE DEF Q
  <2> QED
    BY <1>1, <1>2, Climb
<1> QED
  BY <1>3

\* The same tokens are put together to the same bytes.
LEMMA FlatAgrees ==
    ASSUME NEW s, NEW t, NEW m \in Nat, NEW k \in Nat, NEW n \in Nat \ {0}, n <= m, n <= k,
           NEW f, FlatOf(s, m, f), NEW g, FlatOf(t, k, g),
           \A i \in 1 .. n : s[i] = t[i]
    PROVE  f[n] = g[n]
<1> DEFINE Q == {j \in 0 .. n : j = 0 \/ f[j] = g[j]}
<1>1. 0 \in Q
  OBVIOUS
<1>2. ASSUME NEW j \in 0 .. n - 1, j \in Q PROVE j + 1 \in Q
  <2> PICK i : i = j + 1
    OBVIOUS
  <2>1. i \in 1 .. n /\ i \in 1 .. m /\ i \in 1 .. k /\ i - 1 = j /\ (i # 1 => j # 0)
    OBVIOUS
  <2>2. f[i] = IF i = 1 THEN s[i] ELSE f[i - 1] \o s[i]
    BY ONLY <2>1, FlatOf(s, m, f), Zenon DEF FlatOf
  <2>3. g[i] = IF i = 1 THEN t[i] ELSE g[i - 1] \o t[i]
    BY ONLY <2>1, FlatOf(t, k, g), Zenon DEF FlatOf
  <2>4. s[i] = t[i] /\ (i # 1 => f[i - 1] = g[i - 1])
    BY <1>2, <2>1
  <2>5. f[i] = g[i]
    BY ONLY <2>2, <2>3, <2>4, Zenon
  <2> QED
    BY <2>1, <2>5
<1>3. 0 .. n \subseteq Q
  <2> HIDE DEF Q
  <2> QED
    BY <1>1, <1>2, Climb
<1> QED
  BY <1>3

\* One more token is its bytes at the end.
LEMMA TokenAdds ==
    ASSUME NEW T, NEW s \in Seq(Seq(T)), NEW t \in Seq(T), FlattenSeq(s) \in Seq(T)
    PROVE  FlattenSeq(Append(s, t)) = FlattenSeq(s) \o t
<1> PICK l, n : l = Append(s, t) /\ n = Len(s)
  OBVIOUS
<1>1. /\ n \in Nat /\ Len(l) = n + 1 /\ l[n + 1] = t /\ \A i \in 1 .. n : l[i] = s[i]
  OBVIOUS
<1> DEFINE g == CHOOSE h : FlatOf(l, n + 1, h)
           f == CHOOSE h : FlatOf(s, n, h)
<1>2. FlatOf(l, n + 1, g) /\ FlatOf(s, n, f)
  <2>1. n + 1 \in Nat
    BY <1>1
  <2>2. (\E h : FlatOf(l, n + 1, h)) /\ (\E h : FlatOf(s, n, h))
    BY <1>1, <2>1, FlatExists
  <2> QED
    BY <2>2
<1>3. FlattenSeq(l) = g[n + 1]
  <2>1. Len(l) # 0 /\ Len(l) = n + 1
    BY <1>1
  <2> QED
    BY ONLY <2>1 DEF FlattenSeq, FlatOf
<1>4. n # 0 => FlattenSeq(s) = f[n]
  BY ONLY n = Len(s) DEF FlattenSeq, FlatOf
<1> HIDE DEF f, g
<1>5. g[n + 1] = IF n = 0 THEN t ELSE g[n] \o t
  <2> PICK i : i = n + 1
    OBVIOUS
  <2>1. i \in 1 .. n + 1 /\ i - 1 = n /\ (i = 1 <=> n = 0) /\ l[i] = t
    BY <1>1
  <2>2. g[i] = IF i = 1 THEN l[i] ELSE g[i - 1] \o l[i]
    BY ONLY <1>2, <2>1, Zenon DEF FlatOf
  <2>3. g[i] = IF n = 0 THEN t ELSE g[n] \o t
    BY ONLY <2>1, <2>2
  <2> QED
    BY <2>3
<1>6. CASE n = 0
  <2>1. FlattenSeq(s) = s /\ s = << >>
    BY <1>1, <1>6 DEF FlattenSeq
  <2>2. FlattenSeq(s) \o t = t
    BY <2>1
  <2> QED
    BY <1>3, <1>5, <1>6, <2>2
<1>7. CASE n # 0
  <2>1. n \in Nat \ {0} /\ n + 1 \in Nat /\ n <= n /\ n <= n + 1
    BY <1>1, <1>7
  <2>2. f[n] = g[n]
    <3>1. \A i \in 1 .. n : s[i] = l[i]
      BY <1>1
    <3> QED
      BY ONLY <1>2, <2>1, <3>1, FlatAgrees
  <2> QED
    BY <1>3, <1>4, <1>5, <1>7, <2>2
<1> QED
  BY <1>6, <1>7

\* The bytes of an answer are bytes.
LEMMA AnswerIsBytes ==
    ASSUME NEW T, NEW s \in Seq(Seq(T))
    PROVE  FlattenSeq(s) \in Seq(T)
<1> DEFINE S == {q \in Seq(Seq(T)) : FlattenSeq(q) \in Seq(T)}
<1>1. << >> \in S
  <2>1. FlattenSeq(<< >>) = << >>
    BY DEF FlattenSeq
  <2>2. << >> \in Seq(Seq(T)) /\ << >> \in Seq(T)
    OBVIOUS
  <2> QED
    BY <2>1, <2>2, Zenon
<1>2. ASSUME NEW q \in Seq(Seq(T)), NEW t \in Seq(T), q \in S PROVE Append(q, t) \in S
  <2>1. FlattenSeq(q) \in Seq(T)
    BY <1>2
  <2>2. FlattenSeq(Append(q, t)) = FlattenSeq(q) \o t
    BY <2>1, TokenAdds
  <2>3. FlattenSeq(Append(q, t)) \in Seq(T)
    BY ONLY <2>1, <2>2, t \in Seq(T)
  <2>4. Append(q, t) \in Seq(Seq(T))
    OBVIOUS
  <2> QED
    BY <2>3, <2>4
<1>3. Seq(Seq(T)) \subseteq S
  <2> HIDE DEF S
  <2> PICK U : U = Seq(T)
    OBVIOUS
  <2>1. Seq(U) \subseteq S
    BY <1>1, <1>2, GrownByOne
  <2> QED
    BY <2>1
<1> QED
  BY <1>3

\* The stream after the first tokens, for each number of them.
StreamOf(target, tokens, n, f) ==
    f = [k \in 0 .. n |->
           IF k = 0 THEN StreamStart ELSE StreamToken(target, f[k - 1], tokens[k])]

\* They are streamed.
LEMMA StreamExists ==
    ASSUME NEW target, NEW tokens, NEW n \in Nat
    PROVE  \E f : StreamOf(target, tokens, n, f)
<1> DEFINE Q == {k \in 0 .. n : \E f : StreamOf(target, tokens, k, f)}
           Z == [i \in 0 .. 0 |-> StreamStart]
<1>1. 0 \in Q
  <2>1. StreamOf(target, tokens, 0, Z)
    BY DEF StreamOf
  <2> QED
    BY <2>1
<1>2. ASSUME NEW k \in 0 .. n - 1, k \in Q PROVE k + 1 \in Q
  <2>1. PICK f : StreamOf(target, tokens, k, f)
    BY <1>2
  <2>2. k \in Nat /\ k + 1 \in 0 .. n
    OBVIOUS
  <2> PICK g : g = [i \in 0 .. k + 1 |->
                     IF i = 0 THEN StreamStart ELSE StreamToken(target, f[i - 1], tokens[i])]
    OBVIOUS
  <2>3. ASSUME NEW i \in 0 .. k + 1, i # 0 PROVE g[i - 1] = f[i - 1]
    <3> PICK j : j = i - 1
      OBVIOUS
    <3>1. j \in 0 .. k /\ j \in 0 .. k + 1
      BY <2>2, <2>3
    <3>2. f[j] = IF j = 0 THEN StreamStart ELSE StreamToken(target, f[j - 1], tokens[j])
      BY ONLY <2>1, <3>1, Zenon DEF StreamOf
    <3>3. g[j] = IF j = 0 THEN StreamStart ELSE StreamToken(target, f[j - 1], tokens[j])
      BY <3>1
    <3> QED
      BY <3>2, <3>3
  <2>4. \A i \in 0 .. k + 1 :
           (IF i = 0 THEN StreamStart ELSE StreamToken(target, f[i - 1], tokens[i]))
           = (IF i = 0 THEN StreamStart ELSE StreamToken(target, g[i - 1], tokens[i]))
    BY <2>3
  <2>5. StreamOf(target, tokens, k + 1, g)
    BY <2>4 DEF StreamOf
  <2> QED
    BY <2>2, <2>5
<1>3. 0 .. n \subseteq Q
  <2> HIDE DEF Q
  <2> QED
    BY <1>1, <1>2, Climb
<1> QED
  BY <1>3

\* The same tokens are streamed alike.
LEMMA StreamAgrees ==
    ASSUME NEW target, NEW s, NEW t, NEW m \in Nat, NEW k \in Nat, NEW n \in Nat, n <= m, n <= k,
           NEW f, StreamOf(target, s, m, f), NEW g, StreamOf(target, t, k, g),
           \A i \in 1 .. n : s[i] = t[i]
    PROVE  f[n] = g[n]
<1> DEFINE Q == {j \in 0 .. n : f[j] = g[j]}
<1>1. 0 \in Q
  <2>1. 0 \in 0 .. m /\ 0 \in 0 .. k /\ 0 \in 0 .. n
    OBVIOUS
  <2>2. f[0] = StreamStart /\ g[0] = StreamStart
    BY ONLY <2>1, StreamOf(target, s, m, f), StreamOf(target, t, k, g), Zenon DEF StreamOf
  <2> QED
    BY <2>1, <2>2
<1>2. ASSUME NEW j \in 0 .. n - 1, j \in Q PROVE j + 1 \in Q
  <2> PICK i : i = j + 1
    OBVIOUS
  <2>1. i \in 1 .. n /\ i \in 0 .. m /\ i \in 0 .. k /\ i - 1 = j /\ i # 0 /\ i \in 0 .. n
    OBVIOUS
  <2>2. f[i] = IF i = 0 THEN StreamStart ELSE StreamToken(target, f[i - 1], s[i])
    BY ONLY <2>1, StreamOf(target, s, m, f), Zenon DEF StreamOf
  <2>3. g[i] = IF i = 0 THEN StreamStart ELSE StreamToken(target, g[i - 1], t[i])
    BY ONLY <2>1, StreamOf(target, t, k, g), Zenon DEF StreamOf
  <2>4. s[i] = t[i] /\ f[i - 1] = g[i - 1]
    BY <1>2, <2>1
  <2>5. f[i] = g[i]
    BY ONLY <2>2, <2>3, <2>4, Zenon
  <2> QED
    BY <2>1, <2>5
<1>3. 0 .. n \subseteq Q
  <2> HIDE DEF Q
  <2> QED
    BY <1>1, <1>2, Climb
<1> QED
  BY <1>3

\* One more token is one more turn of the loop.
LEMMA StreamAdds ==
    ASSUME NEW target, NEW T, NEW s \in Seq(T), NEW t \in T
    PROVE  Streamed(target, Append(s, t)) = StreamToken(target, Streamed(target, s), t)
<1> PICK l, n : l = Append(s, t) /\ n = Len(s)
  OBVIOUS
<1>1. /\ n \in Nat /\ Len(l) = n + 1 /\ l[n + 1] = t /\ \A i \in 1 .. n : l[i] = s[i]
  OBVIOUS
<1> DEFINE g == CHOOSE h : StreamOf(target, l, n + 1, h)
           f == CHOOSE h : StreamOf(target, s, n, h)
<1>2. StreamOf(target, l, n + 1, g) /\ StreamOf(target, s, n, f)
  <2>1. n + 1 \in Nat
    BY <1>1
  <2>2. (\E h : StreamOf(target, l, n + 1, h)) /\ (\E h : StreamOf(target, s, n, h))
    BY <1>1, <2>1, StreamExists
  <2> QED
    BY <2>2
<1>3. Streamed(target, l) = g[n + 1]
  BY ONLY <1>1 DEF Streamed, StreamOf
<1>4. Streamed(target, s) = f[n]
  BY ONLY n = Len(s) DEF Streamed, StreamOf
<1> HIDE DEF f, g
<1>5. g[n + 1] = StreamToken(target, g[n], t)
  <2> PICK i : i = n + 1
    OBVIOUS
  <2>1. i \in 0 .. n + 1 /\ i - 1 = n /\ i # 0 /\ l[i] = t
    BY <1>1
  <2>2. g[i] = IF i = 0 THEN StreamStart ELSE StreamToken(target, g[i - 1], l[i])
    BY ONLY <1>2, <2>1, Zenon DEF StreamOf
  <2>3. g[i] = StreamToken(target, g[n], t)
    BY ONLY <2>1, <2>2, Zenon
  <2> QED
    BY <2>3
<1>6. f[n] = g[n]
  <2> PICK k : k = n + 1
    OBVIOUS
  <2>1. k \in Nat /\ n \in Nat /\ n <= n /\ n <= k
    BY <1>1
  <2>2. \A i \in 1 .. n : s[i] = l[i]
    BY <1>1
  <2>3. StreamOf(target, l, k, g) /\ StreamOf(target, s, n, f)
    BY <1>2
  <2> QED
    BY ONLY <2>1, <2>2, <2>3, StreamAgrees
<1> QED
  BY <1>3, <1>4, <1>5, <1>6

\* Before the first token the stream has only begun.
LEMMA StreamBegins == ASSUME NEW target PROVE Streamed(target, << >>) = StreamStart
<1> PICK e : e = << >>
  OBVIOUS
<1> DEFINE f == CHOOSE h : StreamOf(target, e, 0, h)
<1>1. StreamOf(target, e, 0, f)
  BY StreamExists
<1>2. Len(e) = 0
  OBVIOUS
<1>3. Streamed(target, e) = f[0]
  BY ONLY <1>2 DEF Streamed, StreamOf
<1> HIDE DEF f
<1>4. 0 \in 0 .. 0
  OBVIOUS
<1>5. f[0] = StreamStart
  BY ONLY <1>1, <1>4, Zenon DEF StreamOf
<1> QED
  BY <1>3, <1>5

-----------------------------------------------------------------------------
(* The answer so far.                                                      *)

\* The guard after a text that did not end the answer.
GuardOf(s) ==
    [words |-> Cardinality(split_whitespace(s)), carry |-> EndsMidWord(s, FALSE), stopped |-> FALSE]

\* The bytes of an answer.
LEMMA AnswerBytes ==
    ASSUME NEW o \in Seq(Pieces)
    PROVE  FlattenSeq(o) \in Seq(Bytes) /\ o \in Seq(Seq(Bytes))
<1> PICK U, n : U = Seq(Bytes) /\ n = Len(o)
  OBVIOUS
<1>1. n \in Nat /\ o \in [1 .. n -> Pieces] /\ Pieces \subseteq U
  BY GenerationAssumption
<1>2. o \in [1 .. n -> U]
  BY <1>1
<1>3. o \in Seq(U)
  BY <1>1, <1>2
<1> QED
  BY <1>3, AnswerIsBytes

\* The text of an answer before a token, the character it leaves begun, and
\* the text the token adds.
LEMMA TokenText ==
    ASSUME NEW o \in Seq(Pieces), NEW token \in Pieces
    PROVE  LET s == take_complete_chars(FlattenSeq(o))
               bytes == LeftBehind(FlattenSeq(o)) \o token
               piece == take_complete_chars(bytes)
               tail == from_utf8_lossy(LeftBehind(bytes))
           IN /\ s \in Seq(Characters) /\ piece \in Seq(Characters) /\ tail \in Seq(Characters)
              /\ take_complete_chars(FlattenSeq(Append(o, token))) = s \o piece
              /\ LeftBehind(FlattenSeq(Append(o, token))) = LeftBehind(bytes)
              /\ decode(Append(o, token)) = (s \o piece) \o tail
<1> PICK a, b : a = FlattenSeq(o) /\ b = FlattenSeq(Append(o, token))
  OBVIOUS
<1> PICK s, p : s = take_complete_chars(a) /\ p = LeftBehind(a)
  OBVIOUS
<1> PICK piece, tail : /\ piece = take_complete_chars(p \o token)
                       /\ tail = from_utf8_lossy(LeftBehind(p \o token))
  OBVIOUS
<1>1. /\ a \in Seq(Bytes) /\ token \in Seq(Bytes)
      /\ o \in Seq(Seq(Bytes)) /\ Append(o, token) \in Seq(Pieces)
  BY AnswerBytes, GenerationAssumption
<1>2. b = a \o token
  BY <1>1, TokenAdds
<1>3. b \in Seq(Bytes) /\ p \in Seq(Bytes) /\ p \o token \in Seq(Bytes)
  <2>1. b \in Seq(Bytes)
    BY ONLY <1>1, <1>2
  <2>2. p \in Seq(Bytes)
    BY <1>1, TextIsCharacters
  <2> QED
    BY <1>1, <2>1, <2>2
<1>4. take_complete_chars(b) = s \o piece /\ LeftBehind(b) = LeftBehind(p \o token)
  BY <1>1, <1>2, TextSplits, ZenonT(60)
<1>5. s \in Seq(Characters) /\ piece \in Seq(Characters)
  BY <1>1, <1>3, TextIsCharacters
<1>6. from_utf8_lossy(b) = take_complete_chars(b) \o from_utf8_lossy(LeftBehind(b))
  BY <1>3, WholeText
<1>7. tail \in Seq(Characters)
  <2>1. << >> \in Seq(Characters) /\ <<"repl">> \in Seq(Characters)
    BY DEF Characters
  <2> QED
    BY <2>1, NothingSaid DEF LeftBehind
<1>8. decode(Append(o, token)) = (s \o piece) \o tail
  BY <1>4, <1>6 DEF decode
<1> QED
  BY <1>4, <1>5, <1>7, <1>8, Zenon

\* What the guard counts is the words shown, and it goes on while it has not
\* stopped.
LEMMA GuardCounts ==
    ASSUME NEW s \in Seq(Characters), NEW piece \in Seq(Characters), NEW target
    PROVE  /\ observe(GuardOf(s), target, piece).words = GuardOf(s \o piece).words
           /\ observe(GuardOf(s), target, piece).carry = GuardOf(s \o piece).carry
           /\ KeepGoing(GuardOf(s), target, piece)
              = ~ observe(GuardOf(s), target, piece).stopped
           /\ observe(GuardOf(s), target, piece)
              = [words |-> GuardOf(s \o piece).words, carry |-> GuardOf(s \o piece).carry,
                 stopped |-> ~ KeepGoing(GuardOf(s), target, piece)]
           /\ GuardOf(s).words \in Nat
<1> PICK g, h : g = GuardOf(s) /\ h = observe(GuardOf(s), target, piece)
  OBVIOUS
<1> PICK z : z = [g EXCEPT !.stopped = FALSE]
  OBVIOUS
<1>1. /\ g.words = Cardinality(split_whitespace(s)) /\ g.carry = EndsMidWord(s, FALSE)
      /\ g.stopped = FALSE /\ z.words = g.words /\ z.carry = g.carry /\ z.stopped = FALSE
  <2> PICK w, c : w = Cardinality(split_whitespace(s)) /\ c = EndsMidWord(s, FALSE)
    OBVIOUS
  <2>1. g = [words |-> w, carry |-> c, stopped |-> FALSE]
    BY DEF GuardOf
  <2>2. g.words = w /\ g.carry = c /\ g.stopped = FALSE
    BY ONLY <2>1
  <2>3. z.words = g.words /\ z.carry = g.carry /\ z.stopped = FALSE
    BY ONLY <2>1, z = [g EXCEPT !.stopped = FALSE]
  <2> QED
    BY <2>2, <2>3
<1>2. /\ h.words = g.words + count_words(piece, g.carry) /\ h.carry = EndsMidWord(piece, g.carry)
      /\ h = [words |-> h.words, carry |-> h.carry, stopped |-> h.stopped]
      /\ h.stopped \in BOOLEAN
  BY <1>1 DEF observe
<1>3. h.words = GuardOf(s \o piece).words /\ h.carry = GuardOf(s \o piece).carry
  BY <1>1, <1>2, WordsSplit DEF GuardOf
<1>4. KeepGoing(g, target, piece) = ~ h.stopped
  <2>1. KeepGoing(g, target, piece) = ~ observe(z, target, piece).stopped
    BY DEF KeepGoing
  <2>2. observe(z, target, piece).stopped = observe(g, target, piece).stopped
    BY <1>1 DEF observe
  <2> QED
    BY <2>1, <2>2
<1>5. h.stopped = ~ KeepGoing(g, target, piece)
  BY <1>2, <1>4
<1>6. g.words \in Nat
  BY <1>1, CharacterComes DEF Characters
<1> QED
  BY <1>2, <1>3, <1>4, <1>5, <1>6

\* Before the first token nothing is shown, counted or left over.
LEMMA NothingYet ==
    /\ take_complete_chars(FlattenSeq(<< >>)) = << >> /\ LeftBehind(FlattenSeq(<< >>)) = << >>
    /\ GuardOf(<< >>) = LengthGuardNew
<1>1. FlattenSeq(<< >>) = << >>
  BY DEF FlattenSeq
<1>2. ~ Incomplete(<< >>)
  BY DEF Incomplete
<1>3. GuardOf(<< >>) = LengthGuardNew
  BY NoWords DEF GuardOf, LengthGuardNew
<1> QED
  BY <1>1, <1>2, <1>3, NothingSaid DEF take_complete_chars, LeftBehind

-----------------------------------------------------------------------------
\* The inductive invariant of an answer: while it goes on, what was shown is
\* the complete text of the tokens, what is pending is what they leave
\* behind, and the guard has counted what was shown; and once it is over,
\* all of it was shown.
TextStands ==
    ~ failed =>
        /\ reason = None => /\ shown = take_complete_chars(FlattenSeq(out))
                            /\ pending = LeftBehind(FlattenSeq(out))
                            /\ guard = GuardOf(shown) /\ ~ refused
        /\ (reason # None /\ ~ (refused /\ device = "host")) => shown = decode(out)

\* The bound past which the guard stops whatever the text.
Bound(target) == (target * 7) \div 5

\* And a session stands where the blocking call would after the same tokens.
StreamStands ==
    /\ asked.target \in (Nat \ {0}) \cup {None}
    /\ (device = "host" /\ ~ failed /\ reason = None) =>
          /\ Streamed(asked.target, out)
             = [pending |-> pending, guard |-> guard, shown |-> shown,
                taken |-> Len(out), over |-> FALSE]
          /\ asked.target # None => guard.words < Bound(asked.target)

\* A call that has not begun has neither ended nor failed.
Begun == device = "none" => reason = None /\ ~ failed

AnswerInv == HostInv /\ Begun /\ TextStands /\ StreamStands /\ SameAsBlocking

\* It holds when a call has not begun.
LEMMA AnswerInvInit == Init => AnswerInv
<1> SUFFICES ASSUME Init PROVE AnswerInv
  OBVIOUS
<1>1. /\ HostInv /\ device = "none" /\ reason = None /\ ~ refused /\ out = << >>
      /\ shown = << >> /\ pending = << >> /\ guard = LengthGuardNew /\ asked.target = None
      /\ ~ failed
  BY HostInvInit DEF Init
<1>2. TextStands
  BY <1>1, NothingYet DEF TextStands
<1> QED
  BY <1>1, <1>2 DEF AnswerInv, Begun, StreamStands, SameAsBlocking

\* A token on either device leaves the text in its place.
LEMMA TokenKeepsText ==
    ASSUME Kept, TextStands, reason = None, ~ failed, failed' = failed, device' = device,
           NEW token \in Pieces, out' = Append(out, token),
           NEW piece, piece = take_complete_chars(pending \o token),
           NEW tail, tail = from_utf8_lossy(LeftBehind(pending \o token)),
           NEW go \in BOOLEAN, go => KeepGoing(guard, asked.target, piece),
           go => guard' = observe(guard, asked.target, piece),
           shown' = shown \o piece \o (IF go THEN << >> ELSE tail),
           go => reason' = None /\ pending' = LeftBehind(pending \o token) /\ ~ refused',
           ~ go => reason' # None
    PROVE  TextStands'
<1>1. /\ out \in Seq(Pieces) /\ shown = take_complete_chars(FlattenSeq(out))
      /\ pending = LeftBehind(FlattenSeq(out)) /\ guard = GuardOf(shown)
  BY DEF Kept, TextStands
<1>2. /\ shown \in Seq(Characters) /\ piece \in Seq(Characters) /\ tail \in Seq(Characters)
      /\ take_complete_chars(FlattenSeq(out')) = shown \o piece
      /\ LeftBehind(FlattenSeq(out')) = LeftBehind(pending \o token)
      /\ decode(out') = (shown \o piece) \o tail
  <2> PICK o, o2 : o = out /\ o2 = Append(out, token)
    OBVIOUS
  <2>1. /\ o \in Seq(Pieces) /\ shown = take_complete_chars(FlattenSeq(o))
        /\ pending = LeftBehind(FlattenSeq(o)) /\ o2 = Append(o, token) /\ out' = o2
    BY <1>1
  <2>2. /\ shown \in Seq(Characters) /\ piece \in Seq(Characters) /\ tail \in Seq(Characters)
        /\ take_complete_chars(FlattenSeq(Append(o, token))) = shown \o piece
        /\ LeftBehind(FlattenSeq(Append(o, token))) = LeftBehind(pending \o token)
        /\ decode(Append(o, token)) = (shown \o piece) \o tail
    <3> PICK a, p : a = shown /\ p = pending
      OBVIOUS
    <3>1. /\ o \in Seq(Pieces) /\ token \in Pieces /\ a = take_complete_chars(FlattenSeq(o))
          /\ p = LeftBehind(FlattenSeq(o)) /\ piece = take_complete_chars(p \o token)
          /\ tail = from_utf8_lossy(LeftBehind(p \o token))
      BY <2>1
    <3>2. /\ a \in Seq(Characters) /\ piece \in Seq(Characters) /\ tail \in Seq(Characters)
          /\ take_complete_chars(FlattenSeq(Append(o, token))) = a \o piece
          /\ LeftBehind(FlattenSeq(Append(o, token))) = LeftBehind(p \o token)
          /\ decode(Append(o, token)) = (a \o piece) \o tail
      BY ONLY <3>1, TokenText, Zenon
    <3> QED
      BY <3>2
  <2> QED
    BY <2>1, <2>2
<1>3. CASE go
  <2>1. shown' = shown \o piece
    BY <1>2, <1>3
  <2>2. guard' = GuardOf(shown')
    <3>1. KeepGoing(guard, asked.target, piece)
      BY <1>3
    <3>2. observe(GuardOf(shown), asked.target, piece)
          = [words |-> GuardOf(shown \o piece).words, carry |-> GuardOf(shown \o piece).carry,
             stopped |-> ~ KeepGoing(GuardOf(shown), asked.target, piece)]
      BY <1>2, GuardCounts
    <3>3. guard' = [words |-> GuardOf(shown \o piece).words, carry |-> GuardOf(shown \o piece).carry,
                    stopped |-> FALSE]
      BY <1>1, <1>3, <3>1, <3>2
    <3> QED
      BY <2>1, <3>3 DEF GuardOf
  <2> QED
    BY <1>2, <1>3, <2>1, <2>2 DEF TextStands
<1>4. CASE ~ go
  <2>1. shown' = (shown \o piece) \o tail
    BY <1>4
  <2>2. (reason' # None /\ ~ (refused' /\ device' = "host")) => shown' = decode(out')
    BY <1>2, <2>1
  <2> QED
    BY <1>4, <2>2 DEF TextStands
<1> QED
  BY <1>3, <1>4

\* A token keeps a session where the blocking call would stand.
LEMMA TokenKeepsStream ==
    ASSUME Kept, TextStands, StreamStands, device = "host", reason = None, ~ failed,
           NEW token \in Pieces, NEW yes \in BOOLEAN, HostToken(token, yes)
    PROVE  StreamStands' /\ SameAsBlocking'
<1> PICK t, bytes, piece, tail, seen :
       /\ t = asked.target /\ bytes = pending \o token /\ piece = take_complete_chars(bytes)
       /\ tail = from_utf8_lossy(LeftBehind(bytes)) /\ seen = observe(guard, t, piece)
  OBVIOUS
<1> PICK go \in BOOLEAN : go = KeepGoing(guard, t, piece)
  BY DEF KeepGoing
<1>1. /\ out \in Seq(Pieces) /\ shown = take_complete_chars(FlattenSeq(out))
      /\ pending = LeftBehind(FlattenSeq(out)) /\ guard = GuardOf(shown) /\ ~ refused
      /\ Len(out) \in Nat
  BY LenProperties DEF Kept, TextStands
<1>2. /\ shown \in Seq(Characters) /\ piece \in Seq(Characters) /\ tail \in Seq(Characters)
  BY <1>1, TokenText
<1>3. /\ t \in (Nat \ {0}) \cup {None}
      /\ Streamed(t, out) = [pending |-> pending, guard |-> guard, shown |-> shown,
                             taken |-> Len(out), over |-> FALSE]
      /\ t # None => guard.words < Bound(t)
  BY DEF StreamStands
<1>4. /\ asked' = asked /\ device' = "host" /\ failed' = FALSE /\ out' = Append(out, token)
      /\ guard' = IF go THEN seen ELSE observe(seen, t, tail)
      /\ shown' = shown \o piece \o (IF go THEN << >> ELSE tail)
      /\ pending' = IF go /\ yes THEN LeftBehind(bytes) ELSE << >>
      /\ reason' = IF go /\ yes THEN None ELSE "caller"
      /\ refused' = (go /\ ~ yes)
  BY DEF HostToken, Running
<1>5. Len(out') = Len(out) + 1
  BY <1>1, <1>4, AppendProperties
<1>6. seen.stopped = ~ go /\ seen.words \in Nat
      /\ seen.stopped = (\/ guard.stopped
                         \/ /\ t # None
                            /\ \/ seen.words >= t /\ ends_a_sentence(piece)
                               \/ seen.words >= Bound(t))
  <2>1. /\ go = ~ seen.stopped /\ seen.words = GuardOf(shown \o piece).words
    BY <1>1, <1>2, GuardCounts
  <2>2. shown \o piece \in Seq(Characters)
    BY <1>2
  <2>3. GuardOf(shown \o piece).words \in Nat
    BY <1>2, <2>2, GuardCounts
  <2>4. seen.stopped \in BOOLEAN
    BY DEF observe
  <2>5. seen.stopped = (\/ guard.stopped
                         \/ /\ t # None
                            /\ \/ seen.words >= t /\ ends_a_sentence(piece)
                               \/ seen.words >= Bound(t))
    BY DEF observe, Bound
  <2> QED
    BY <2>1, <2>3, <2>4, <2>5
<1>7. Streamed(t, out') = [pending |-> LeftBehind(bytes), guard |-> seen,
                           shown |-> shown \o piece, taken |-> Len(out'), over |-> ~ go]
  <2>1. Streamed(t, out') = StreamToken(t, Streamed(t, out), token)
    BY <1>1, <1>4, StreamAdds
  <2> QED
    BY <1>3, <1>5, <2>1 DEF StreamToken
<1>8. CASE go /\ yes
  <2>1. /\ reason' = None /\ guard' = seen /\ pending' = LeftBehind(bytes)
        /\ shown' = shown \o piece
    BY <1>2, <1>4, <1>8
  <2>2. t # None => guard'.words < Bound(t)
    <3> SUFFICES ASSUME t # None PROVE seen.words < Bound(t)
      BY <2>1
    <3>1. ~ (seen.words >= Bound(t))
      BY <1>6, <1>8
    <3>2. Bound(t) \in Int
      BY <1>3 DEF Bound
    <3> QED
      BY <1>6, <3>1, <3>2
  <2> QED
    BY <1>3, <1>4, <1>7, <1>8, <2>1, <2>2 DEF StreamStands, SameAsBlocking
<1>9. CASE ~ (go /\ yes)
  <2>1. reason' = "caller" /\ reason' # None
    BY <1>4, <1>9, GenerationAssumption
  <2>2. StreamStands'
    BY <1>3, <1>4, <2>1 DEF StreamStands
  <2> PICK whole : whole = generate_response(t, out', "caller", refused')
    OBVIOUS
  <2> PICK last : last = IF tail = << >> THEN seen ELSE observe(seen, t, tail)
    OBVIOUS
  <2>3. /\ whole.shown = (shown \o piece) \o tail /\ whole.taken = Len(out')
        /\ whole.reason = StopReason(last, IF ~ go \/ refused' THEN "caller" ELSE "caller")
    BY <1>7 DEF generate_response
  <2>4. whole.reason = "caller" /\ StopReason(guard', "caller") = "caller"
    BY <2>3 DEF StopReason
  <2>5. ~ go => shown' = (shown \o piece) \o tail
    BY <1>4
  <2>6. refused' \/ ~ go
    BY <1>4, <1>9
  <2> QED
    BY <1>4, <2>1, <2>2, <2>3, <2>4, <2>5, <2>6 DEF SameAsBlocking
<1> QED
  BY <1>8, <1>9

\* The end of a session is the end of the blocking call.
LEMMA EndKeepsAnswer ==
    ASSUME Kept, TextStands, StreamStands, device # "none", reason = None, ~ failed,
           failed' = failed, device' = device, asked' = asked, out' = out, refused' = refused,
           NEW why \in {"budget", "eos"}, reason' = why,
           shown' = shown \o from_utf8_lossy(pending),
           device = "host" => guard' = observe(guard, asked.target, from_utf8_lossy(pending))
    PROVE  TextStands' /\ StreamStands' /\ SameAsBlocking'
<1> PICK t, tail, o : t = asked.target /\ tail = from_utf8_lossy(pending) /\ o = out
  OBVIOUS
<1>1. /\ o \in Seq(Pieces) /\ shown = take_complete_chars(FlattenSeq(o))
      /\ pending = LeftBehind(FlattenSeq(o)) /\ guard = GuardOf(shown) /\ ~ refused
  BY DEF Kept, TextStands
<1>2. FlattenSeq(o) \in Seq(Bytes)
  BY <1>1, AnswerBytes
<1>3. shown' = decode(o)
  BY <1>1, <1>2, WholeText DEF decode
<1>4. reason' # None
  BY GenerationAssumption
<1>5. TextStands'
  BY <1>3, <1>4 DEF TextStands
<1>6. StreamStands'
  BY <1>4 DEF StreamStands
<1>7. CASE device # "host"
  BY <1>5, <1>6, <1>7 DEF SameAsBlocking
<1>8. CASE device = "host"
  <2>1. /\ Streamed(t, o) = [pending |-> pending, guard |-> guard, shown |-> shown,
                             taken |-> Len(o), over |-> FALSE]
        /\ t # None => guard.words < Bound(t)
        /\ t \in (Nat \ {0}) \cup {None}
    BY <1>8 DEF StreamStands
  <2> PICK last : last = IF tail = << >> THEN guard ELSE observe(guard, t, tail)
    OBVIOUS
  <2> PICK whole : whole = generate_response(t, o, why, FALSE)
    OBVIOUS
  <2>2. /\ whole.shown = shown \o tail /\ whole.taken = Len(o)
        /\ whole.reason = StopReason(last, why)
    BY <2>1 DEF generate_response
  <2>3. guard' = observe(guard, t, tail)
    BY <1>8
  <2>4. last.stopped = guard'.stopped
    <3>1. CASE tail # << >>
      BY <2>3, <3>1
    <3>2. CASE tail = << >>
      <4>1. guard.stopped = FALSE /\ guard.words \in Nat
        <5>1. shown \in Seq(Characters) /\ << >> \in Seq(Characters)
          BY <1>1, <1>2, TextIsCharacters
        <5> QED
          BY <1>1, <5>1, GuardCounts DEF GuardOf
      <4>2. count_words(<< >>, guard.carry) = 0
        <5>1. split_whitespace(<< >>) = {}
          BY DEF split_whitespace
        <5>2. Cardinality(split_whitespace(<< >>)) = 0
          BY <5>1, FS_EmptySet
        <5> QED
          BY <5>2 DEF count_words
      <4>3. ~ ends_a_sentence(<< >>)
        BY DEF ends_a_sentence
      <4>4. guard'.stopped = (\/ guard.stopped
                              \/ /\ t # None
                                 /\ \/ guard.words >= t /\ ends_a_sentence(<< >>)
                                    \/ guard.words >= Bound(t))
        <5>1. guard.words + count_words(<< >>, guard.carry) = guard.words
          BY <4>1, <4>2
        <5> QED
          BY <2>3, <3>2, <5>1 DEF observe, Bound
      <4>5. t # None => ~ (guard.words >= Bound(t))
        <5>1. t # None => Bound(t) \in Int
          BY <2>1 DEF Bound
        <5> QED
          BY <2>1, <4>1, <5>1
      <4>6. guard'.stopped = FALSE
        BY <4>1, <4>3, <4>4, <4>5
      <4> QED
        BY <3>2, <4>1, <4>6
    <3> QED
      BY <3>1, <3>2
  <2>5. whole.reason = StopReason(guard', why)
    BY <2>2, <2>4 DEF StopReason
  <2>6. /\ asked'.target = t /\ out' = o /\ reason' = why /\ refused' = FALSE
        /\ shown' = shown \o tail
    BY <1>1
  <2>7. SameAsBlocking'
    BY <2>2, <2>5, <2>6 DEF SameAsBlocking
  <2> QED
    BY <1>5, <1>6, <2>7
<1> QED
  BY <1>7, <1>8

\* Every step keeps it.
LEMMA AnswerInvNext == AnswerInv /\ [Next]_vars => AnswerInv'
<1> SUFFICES ASSUME AnswerInv, [Next]_vars PROVE AnswerInv'
  OBVIOUS
<1>1. /\ HostInv' /\ Kept /\ CacheStands /\ Begun
      /\ TextStands /\ StreamStands /\ SameAsBlocking
  BY HostInvNext DEF AnswerInv, HostInv
<1>a. Begun'
  <2>1. device' = "none" => device = "none" /\ UNCHANGED <<reason, failed>>
    BY DEF Next, GenerateOnHost, GenerateOnGpu, HostEnds, GpuEnds, HostToken, GpuToken, GpuFails,
           Running, vars, decoding, text
  <2> QED
    BY <1>1, <2>1 DEF Begun
<1>2. device \in {"none", "host", "gpu"} /\ failed \in BOOLEAN
  BY <1>1 DEF Kept
<1> SUFFICES TextStands' /\ StreamStands' /\ SameAsBlocking'
  BY <1>1, <1>a DEF AnswerInv
<1>3. ASSUME NEW p \in Prompts, NEW t \in Targets, NEW b \in Budgets,
             GenerateOnHost(p, t, b)
      PROVE  TextStands' /\ StreamStands' /\ SameAsBlocking'
  <2>1. /\ device = "none" /\ device' = "host" /\ asked'.target = t /\ failed' = failed
        /\ out' = out /\ pending' = pending /\ guard' = guard /\ shown' = shown
        /\ refused' = refused /\ reason' = reason
    BY <1>3 DEF GenerateOnHost, text
  <2>2. out = << >>
    BY <1>1, <2>1 DEF CacheStands
  <2>3. t \in (Nat \ {0}) \cup {None}
    BY GenerationAssumption
  <2>4. ASSUME ~ failed, reason = None
        PROVE  /\ pending = << >> /\ guard = LengthGuardNew /\ shown = << >> /\ ~ refused
    BY <1>1, <2>2, <2>4, NothingYet DEF TextStands
  <2>5. ASSUME ~ failed, reason = None
        PROVE  /\ Streamed(t, out) = [pending |-> pending, guard |-> guard, shown |-> shown,
                                      taken |-> Len(out), over |-> FALSE]
               /\ t # None => guard.words < Bound(t)
    <3>1. Streamed(t, out) = StreamStart /\ Len(out) = 0
      BY <2>2, StreamBegins
    <3>2. Streamed(t, out) = [pending |-> pending, guard |-> guard, shown |-> shown,
                              taken |-> Len(out), over |-> FALSE]
      BY <2>4, <2>5, <3>1 DEF StreamStart
    <3>3. t # None => 0 < Bound(t)
      BY <2>3 DEF Bound
    <3>4. guard.words = 0
      BY <2>4, <2>5 DEF LengthGuardNew
    <3> QED
      BY <3>2, <3>3, <3>4
  <2>6. reason = None /\ ~ failed
    BY <1>1, <2>1 DEF Begun
  <2>7. TextStands'
    BY <1>1, <2>1, <2>6 DEF TextStands
  <2>8. StreamStands'
    BY <2>1, <2>3, <2>5 DEF StreamStands
  <2>9. SameAsBlocking'
    BY <2>1, <2>6 DEF SameAsBlocking
  <2> QED
    BY <2>7, <2>8, <2>9
<1>4. ASSUME NEW p \in Prompts, NEW t \in Targets, NEW b \in Budgets,
             GenerateOnGpu(p, t, b)
      PROVE  TextStands' /\ StreamStands' /\ SameAsBlocking'
  <2>1. /\ device = "none" /\ device' = "gpu" /\ asked'.target = t /\ failed' = failed
        /\ out' = out /\ pending' = pending /\ guard' = guard /\ shown' = shown
        /\ refused' = refused /\ reason' = reason
    BY <1>4 DEF GenerateOnGpu, text
  <2>2. t \in (Nat \ {0}) \cup {None}
    BY GenerationAssumption
  <2>3. reason = None /\ ~ failed
    BY <1>1, <2>1 DEF Begun
  <2>4. TextStands'
    BY <1>1, <2>1, <2>3 DEF TextStands
  <2>5. StreamStands' /\ SameAsBlocking'
    BY <2>1, <2>2 DEF StreamStands, SameAsBlocking
  <2> QED
    BY <2>4, <2>5
<1>5. ASSUME NEW why \in {"budget", "eos"}, HostEnds(why) \/ GpuEnds(why)
      PROVE  TextStands' /\ StreamStands' /\ SameAsBlocking'
  <2>1. /\ device # "none" /\ reason = None /\ failed' = failed /\ device' = device
        /\ asked' = asked /\ out' = out /\ refused' = refused /\ reason' = why
        /\ shown' = shown \o from_utf8_lossy(pending)
        /\ device = "host" => guard' = observe(guard, asked.target, from_utf8_lossy(pending))
    BY <1>5 DEF HostEnds, GpuEnds, Running, Flushed, decoding
  <2>2. CASE failed
    <3>1. failed' /\ asked'.target = asked.target
      BY <2>1, <2>2
    <3> QED
      BY <1>1, <3>1 DEF TextStands, StreamStands, SameAsBlocking
  <2>3. CASE ~ failed
    BY <1>1, <2>1, <2>3, EndKeepsAnswer
  <2> QED
    BY <2>2, <2>3
<1>6. ASSUME NEW token \in Pieces, NEW yes \in BOOLEAN, HostToken(token, yes)
      PROVE  TextStands' /\ StreamStands' /\ SameAsBlocking'
  <2> PICK piece, tail : /\ piece = take_complete_chars(pending \o token)
                         /\ tail = from_utf8_lossy(LeftBehind(pending \o token))
    OBVIOUS
  <2> PICK going \in BOOLEAN : going = KeepGoing(guard, asked.target, piece)
    BY DEF KeepGoing
  <2>1. /\ device = "host" /\ reason = None /\ failed' = failed /\ device' = device
        /\ asked' = asked /\ out' = Append(out, token)
        /\ going => guard' = observe(guard, asked.target, piece)
        /\ shown' = shown \o piece \o (IF going THEN << >> ELSE tail)
        /\ pending' = IF going /\ yes THEN LeftBehind(pending \o token) ELSE << >>
        /\ reason' = IF going /\ yes THEN None ELSE "caller"
        /\ refused' = (going /\ ~ yes)
    BY <1>6 DEF HostToken, Running
  <2>2. CASE failed
    <3>1. failed' /\ asked'.target = asked.target
      BY <2>1, <2>2
    <3> QED
      BY <1>1, <3>1 DEF TextStands, StreamStands, SameAsBlocking
  <2>3. CASE ~ failed
    <3>1. StreamStands' /\ SameAsBlocking'
      BY <1>1, <1>6, <2>1, <2>3, TokenKeepsStream
    <3>2. CASE going /\ ~ yes
      <4>1. reason' # None /\ refused' /\ device' = "host"
        BY <2>1, <3>2, GenerationAssumption
      <4>2. TextStands'
        BY <4>1 DEF TextStands
      <4> QED
        BY <3>1, <4>2
    <3>3. CASE ~ (going /\ ~ yes)
      <4>1. /\ going => KeepGoing(guard, asked.target, piece)
            /\ going => reason' = None /\ pending' = LeftBehind(pending \o token) /\ ~ refused'
            /\ ~ going => reason' # None
        BY <2>1, <3>3, GenerationAssumption
      <4>2. TextStands'
        BY <1>1, <2>1, <2>3, <4>1, TokenKeepsText
      <4> QED
        BY <3>1, <4>2
    <3> QED
      BY <3>2, <3>3
  <2> QED
    BY <2>2, <2>3
<1>7. ASSUME NEW token \in Pieces, NEW yes \in BOOLEAN, GpuToken(token, yes)
      PROVE  TextStands' /\ StreamStands' /\ SameAsBlocking'
  <2> PICK piece, tail : /\ piece = take_complete_chars(pending \o token)
                         /\ tail = from_utf8_lossy(LeftBehind(pending \o token))
    OBVIOUS
  <2> PICK going \in BOOLEAN : going = (KeepGoing(guard, asked.target, piece) /\ yes)
    BY DEF KeepGoing
  <2>1. /\ device = "gpu" /\ reason = None /\ failed' = failed /\ device' = device
        /\ asked' = asked /\ out' = Append(out, token)
        /\ guard' = observe(guard, asked.target, piece)
        /\ shown' = shown \o piece \o (IF going THEN << >> ELSE tail)
        /\ pending' = IF going THEN LeftBehind(pending \o token) ELSE << >>
        /\ reason' = IF going THEN None ELSE "caller"
        /\ refused' = ~ yes
    BY <1>7 DEF GpuToken, Running
  <2>2. StreamStands' /\ SameAsBlocking'
    <3>1. asked'.target = asked.target /\ device' # "host"
      BY <2>1
    <3> QED
      BY <1>1, <3>1 DEF StreamStands, SameAsBlocking
  <2>3. CASE failed
    BY <2>1, <2>2, <2>3 DEF TextStands
  <2>4. CASE ~ failed
    <3>1. /\ going => KeepGoing(guard, asked.target, piece)
          /\ going => reason' = None /\ pending' = LeftBehind(pending \o token) /\ ~ refused'
          /\ ~ going => reason' # None
      BY <2>1, GenerationAssumption
    <3>2. TextStands'
      BY <1>1, <2>1, <2>4, <3>1, TokenKeepsText
    <3> QED
      BY <2>2, <3>2
  <2> QED
    BY <2>3, <2>4
<1>8. ASSUME NEW token \in Pieces, GpuFails(token)
      PROVE  TextStands' /\ StreamStands' /\ SameAsBlocking'
  <2>1. failed' = TRUE /\ asked' = asked
    BY <1>8 DEF GpuFails
  <2>2. asked'.target = asked.target
    BY <2>1
  <2> QED
    BY <1>1, <2>1, <2>2 DEF TextStands, StreamStands, SameAsBlocking
<1>9. CASE UNCHANGED vars
  <2>1. /\ device' = device /\ failed' = failed /\ asked' = asked /\ out' = out
        /\ pending' = pending /\ guard' = guard /\ shown' = shown /\ refused' = refused
        /\ reason' = reason
    BY <1>9 DEF vars, decoding, text
  <2> QED
    BY <1>1, <2>1 DEF TextStands, StreamStands, SameAsBlocking
<1> QED
  BY <1>3, <1>4, <1>5, <1>6, <1>7, <1>8, <1>9 DEF Next

\* Whatever the tokens, their bytes, the shape, the prompt, the target and
\* the budget, a session driven a token at a time ends at the token, for the
\* reason and with the text of the blocking call (length_guard.rs
\* ResponseSession::step, cancel, generate_response).
THEOREM SessionsAreBlocking == Spec => []SameAsBlocking
<1>1. AnswerInv => SameAsBlocking
  BY DEF AnswerInv
<1> QED
  BY <1>1, AnswerInvInit, AnswerInvNext, PTL DEF Spec

\* However the tokens split words and characters, the page is shown the text
\* of the answer on either device, and the guard counts its words (generate.rs
\* take_complete_chars, length_guard.rs count_words, flush_pending).
THEOREM AnswersAreShown == Spec => []ShownIsTheAnswer
<1>1. AnswerInv => ShownIsTheAnswer
  <2> SUFFICES ASSUME AnswerInv, ~ failed PROVE ShownIsTheAnswer
    BY DEF ShownIsTheAnswer
  <2>1. TextStands
    BY DEF AnswerInv
  <2>2. reason = None => guard.words = Cardinality(split_whitespace(shown))
    BY <2>1 DEF TextStands, GuardOf
  <2>3. (reason # None /\ ~ (refused /\ device = "host")) => shown = decode(out)
    BY <2>1 DEF TextStands
  <2> QED
    BY <2>2, <2>3 DEF ShownIsTheAnswer
<1> QED
  BY <1>1, AnswerInvInit, AnswerInvNext, PTL DEF Spec

-----------------------------------------------------------------------------
(* The session that generates, for every set of callers and every bound.   *)
(*                                                                         *)
(* IInv is inductive: LEMMA InitIInv and LEMMA NextIInv.  The properties   *)
(* follow from it, and with it each step maps to a step of ModelPromise.   *)

USE SessionAssumption DEF Version, Option, Guarded, TrainerPhases, Phases

\* Every initial state satisfies the inductive invariant.
LEMMA InitIInv == SessionInit => IInv
<1> SUFFICES ASSUME SessionInit PROVE IInv
  OBVIOUS
<1>1. PICK c \in Callers :
          /\ pc = [d \in Callers |-> IF d = c THEN "opening" ELSE "idle"]
          /\ held = [d \in Callers |-> IF d = c THEN 0 ELSE NoWeights]
  BY DEF SessionInit
<1>2. SessionTypeOK
  <2>1. pc \in [Callers -> Phases] /\ held \in [Callers -> Option]
    BY <1>1
  <2>2. saved \in [weights : Option, step : 0 .. MaxStep]
    BY DEF SessionInit
  <2>3. 0 \in Version /\ 0 \in 0 .. MaxStep /\ 0 \in Nat /\ NoWeights \in Option
    OBVIOUS
  <2> QED  BY <2>1, <2>2, <2>3, Zenon DEF SessionInit, SessionTypeOK, Option
<1>3. OneOwner
  BY <1>1 DEF SessionInit, OneOwner, TrainerHolders
<1>4. Placement
  <2>1. TrainerHolders = {} /\ Decoders = {}
    BY <1>1 DEF TrainerHolders, Decoders
  <2> QED  BY <1>1, <2>1 DEF SessionInit, Placement, Uploaded, Handed
<1> QED  BY <1>2, <1>3, <1>4 DEF IInv

\* Every step preserves it: one case per action.  Each first establishes that
\* no other caller is in a guarded phase.
LEMMA NextIInv == IInv /\ [SessionNext]_sessionVars => IInv'
<1> SUFFICES ASSUME IInv, [SessionNext]_sessionVars PROVE IInv'
  OBVIOUS
<1> USE DEF IInv, Handed, TrainerHolders, Decoders, Acquire, Release, Continue,
            TakeTrainer, TrainerOrNew, PutBack, NewVersion, MakeVersion, CloseGpu,
            backend, counters
<1>1. ASSUME NEW c \in Callers, OpenDone(c) PROVE IInv'
  <2>1. \A d \in Callers \ {c} : pc[d] \notin Guarded
    BY <1>1 DEF OpenDone, OneOwner, SessionTypeOK
  <2>2. SessionTypeOK'
    BY <1>1, <2>1 DEF SessionTypeOK, OpenDone
  <2>3. OneOwner'
    BY <1>1, <2>1 DEF SessionTypeOK, OneOwner, Placement, OpenDone
  <2>4. Placement'
    BY <1>1, <2>1 DEF SessionTypeOK, OneOwner, Placement, Uploaded, OpenDone
  <2> QED  BY <2>2, <2>3, <2>4
<1>2. ASSUME NEW c \in Callers, TrainStart(c) PROVE IInv'
  <2>1. \A d \in Callers \ {c} : pc[d] \notin Guarded
    BY <1>2 DEF TrainStart, OneOwner, SessionTypeOK
  <2>2. SessionTypeOK'
    BY <1>2, <2>1 DEF SessionTypeOK, TrainStart
  <2>3. OneOwner'
    BY <1>2, <2>1 DEF SessionTypeOK, OneOwner, Placement, TrainStart
  <2>4. Placement'
    BY <1>2, <2>1 DEF SessionTypeOK, OneOwner, Placement, Uploaded, TrainStart
  <2> QED  BY <2>2, <2>3, <2>4
<1>3. ASSUME NEW c \in Callers, TrainDone(c) PROVE IInv'
  <2>1. \A d \in Callers \ {c} : pc[d] \notin Guarded
    BY <1>3 DEF TrainDone, OneOwner, SessionTypeOK
  <2>2. SessionTypeOK'
    <3>1. pc' \in [Callers -> Phases]
      BY <1>3 DEF SessionTypeOK, TrainDone
    <3>2. held' \in [Callers -> Option]
      BY <1>3 DEF SessionTypeOK, TrainDone
    <3>3. (trainer \in Option /\ decoder \in Option /\ host \in Version)'
      BY <1>3 DEF SessionTypeOK, OneOwner, TrainDone
    <3>4. (saved \in [weights : Option, step : 0 .. MaxStep])'
      BY <1>3 DEF SessionTypeOK, OneOwner, TrainDone
    <3>5. (busy \in BOOLEAN /\ open \in BOOLEAN /\ pretrained \in BOOLEAN
           /\ warm \in BOOLEAN /\ uncounted \in BOOLEAN)'
      BY <1>3 DEF SessionTypeOK, TrainDone
    <3>6. (newest \in Version /\ step \in 0 .. MaxStep /\ uploadedAt \in 0 .. MaxStep
            /\ tokensSeen \in Nat /\ updates \in Nat)'
      BY <1>3 DEF SessionTypeOK, Placement, TrainDone
    <3> QED  BY <3>1, <3>2, <3>3, <3>4, <3>5, <3>6 DEF SessionTypeOK
  <2>3. OneOwner'
    BY <1>3, <2>1 DEF SessionTypeOK, OneOwner, Placement, TrainDone
  <2>4. Placement'
    BY <1>3, <2>1 DEF SessionTypeOK, OneOwner, Placement, Uploaded, TrainDone
  <2> QED  BY <2>2, <2>3, <2>4
<1>4. ASSUME NEW c \in Callers, ProfileStart(c) PROVE IInv'
  <2>1. \A d \in Callers \ {c} : pc[d] \notin Guarded
    BY <1>4 DEF ProfileStart, OneOwner, SessionTypeOK
  <2>2. SessionTypeOK'
    BY <1>4, <2>1 DEF SessionTypeOK, ProfileStart
  <2>3. OneOwner'
    BY <1>4, <2>1 DEF SessionTypeOK, OneOwner, Placement, ProfileStart
  <2>4. Placement'
    BY <1>4, <2>1 DEF SessionTypeOK, OneOwner, Placement, Uploaded, ProfileStart
  <2> QED  BY <2>2, <2>3, <2>4
<1>5. ASSUME NEW c \in Callers, ProfileDone(c) PROVE IInv'
  <2>1. \A d \in Callers \ {c} : pc[d] \notin Guarded
    BY <1>5 DEF ProfileDone, OneOwner, SessionTypeOK
  <2>2. SessionTypeOK'
    <3>1. pc' \in [Callers -> Phases]
      BY <1>5 DEF SessionTypeOK, ProfileDone
    <3>2. held' \in [Callers -> Option]
      BY <1>5 DEF SessionTypeOK, ProfileDone
    <3>3. (trainer \in Option /\ decoder \in Option /\ host \in Version)'
      BY <1>5 DEF SessionTypeOK, OneOwner, ProfileDone
    <3>4. (saved \in [weights : Option, step : 0 .. MaxStep])'
      BY <1>5 DEF SessionTypeOK, OneOwner, ProfileDone
    <3>5. (busy \in BOOLEAN /\ open \in BOOLEAN /\ pretrained \in BOOLEAN
           /\ warm \in BOOLEAN /\ uncounted \in BOOLEAN)'
      BY <1>5 DEF SessionTypeOK, ProfileDone
    <3>6. (newest \in Version /\ step \in 0 .. MaxStep /\ uploadedAt \in 0 .. MaxStep
            /\ tokensSeen \in Nat /\ updates \in Nat)'
      BY <1>5 DEF SessionTypeOK, Placement, ProfileDone
    <3> QED  BY <3>1, <3>2, <3>3, <3>4, <3>5, <3>6 DEF SessionTypeOK
  <2>3. OneOwner'
    BY <1>5, <2>1 DEF SessionTypeOK, OneOwner, Placement, ProfileDone
  <2>4. Placement'
    BY <1>5, <2>1 DEF SessionTypeOK, OneOwner, Placement, Uploaded, ProfileDone
  <2> QED  BY <2>2, <2>3, <2>4
<1>6. ASSUME NEW c \in Callers, NEW p \in {"benchmarking", "measuring", "kernels"},
             MeasureStart(c, p)
      PROVE IInv'
  <2>1. \A d \in Callers \ {c} : pc[d] \notin Guarded
    BY <1>6 DEF MeasureStart, OneOwner, SessionTypeOK
  <2>2. SessionTypeOK'
    BY <1>6, <2>1 DEF SessionTypeOK, MeasureStart
  <2>3. OneOwner'
    BY <1>6, <2>1 DEF SessionTypeOK, OneOwner, Placement, MeasureStart
  <2>4. Placement'
    BY <1>6, <2>1 DEF SessionTypeOK, OneOwner, Placement, Uploaded, MeasureStart
  <2> QED  BY <2>2, <2>3, <2>4
<1>7. ASSUME NEW c \in Callers, MeasureDone(c) PROVE IInv'
  <2>1. \A d \in Callers \ {c} : pc[d] \notin Guarded
    BY <1>7 DEF MeasureDone, OneOwner, SessionTypeOK
  <2>2. SessionTypeOK'
    BY <1>7, <2>1 DEF SessionTypeOK, MeasureDone
  <2>3. OneOwner'
    BY <1>7, <2>1 DEF SessionTypeOK, OneOwner, Placement, MeasureDone
  <2>4. Placement'
    BY <1>7, <2>1 DEF SessionTypeOK, OneOwner, Placement, Uploaded, MeasureDone
  <2> QED  BY <2>2, <2>3, <2>4
<1>7a. ASSUME NEW c \in Callers, BenchDone(c) PROVE IInv'
  <2>1. \A d \in Callers \ {c} : pc[d] \notin Guarded
    BY <1>7a DEF BenchDone, OneOwner, SessionTypeOK
  <2>2. SessionTypeOK'
    BY <1>7a, <2>1 DEF SessionTypeOK, BenchDone
  <2>3. OneOwner'
    BY <1>7a, <2>1 DEF SessionTypeOK, OneOwner, Placement, BenchDone
  <2>4. Placement'
    BY <1>7a, <2>1 DEF SessionTypeOK, OneOwner, Placement, Uploaded, BenchDone
  <2> QED  BY <2>2, <2>3, <2>4
<1>7b. ASSUME NEW c \in Callers, KernelsDone(c) PROVE IInv'
  <2>1. \A d \in Callers \ {c} : pc[d] \notin Guarded
    BY <1>7b DEF KernelsDone, OneOwner, SessionTypeOK
  <2>2. SessionTypeOK'
    <3>1. pc' \in [Callers -> Phases]
      BY <1>7b DEF SessionTypeOK, KernelsDone
    <3>2. held' \in [Callers -> Option]
      BY <1>7b DEF SessionTypeOK, KernelsDone
    <3>3. (trainer \in Option /\ decoder \in Option /\ host \in Version)'
      BY <1>7b DEF SessionTypeOK, OneOwner, KernelsDone
    <3>4. (saved \in [weights : Option, step : 0 .. MaxStep])'
      BY <1>7b DEF SessionTypeOK, OneOwner, KernelsDone
    <3>5. (busy \in BOOLEAN /\ open \in BOOLEAN /\ pretrained \in BOOLEAN
           /\ warm \in BOOLEAN /\ uncounted \in BOOLEAN)'
      BY <1>7b DEF SessionTypeOK, KernelsDone
    <3>6. (newest \in Version /\ step \in 0 .. MaxStep /\ uploadedAt \in 0 .. MaxStep
            /\ tokensSeen \in Nat /\ updates \in Nat)'
      BY <1>7b DEF SessionTypeOK, Placement, KernelsDone
    <3> QED  BY <3>1, <3>2, <3>3, <3>4, <3>5, <3>6 DEF SessionTypeOK
  <2>3. OneOwner'
    BY <1>7b, <2>1 DEF SessionTypeOK, OneOwner, Placement, KernelsDone
  <2>4. Placement'
    BY <1>7b, <2>1 DEF SessionTypeOK, OneOwner, Placement, Uploaded, KernelsDone
  <2> QED  BY <2>2, <2>3, <2>4
<1>8. ASSUME NEW c \in Callers, ImportOptimizer(c) PROVE IInv'
  <2>1. \A d \in Callers \ {c} : pc[d] \notin Guarded
    BY <1>8 DEF ImportOptimizer, OneOwner, SessionTypeOK
  <2>2. SessionTypeOK'
    BY <1>8, <2>1 DEF SessionTypeOK, ImportOptimizer
  <2>3. OneOwner'
    BY <1>8, <2>1 DEF SessionTypeOK, OneOwner, Placement, ImportOptimizer
  <2>4. Placement'
    BY <1>8, <2>1 DEF SessionTypeOK, OneOwner, Placement, Uploaded, ImportOptimizer
  <2> QED  BY <2>2, <2>3, <2>4
<1>9. ASSUME NEW c \in Callers, NEW p \in {"syncing", "exporting", "preparing"}, SyncStart(c, p)
      PROVE IInv'
  <2>1. \A d \in Callers \ {c} : pc[d] \notin Guarded
    BY <1>9 DEF SyncStart, OneOwner, SessionTypeOK, SyncNotNeeded
  <2>2. SessionTypeOK'
    BY <1>9, <2>1 DEF SessionTypeOK, SyncStart, SyncNotNeeded
  <2>3. OneOwner'
    BY <1>9, <2>1 DEF SessionTypeOK, OneOwner, Placement, SyncStart, SyncNotNeeded
  <2>4. Placement'
    BY <1>9, <2>1 DEF SessionTypeOK, OneOwner, Placement, Uploaded, SyncStart, SyncNotNeeded
  <2> QED  BY <2>2, <2>3, <2>4
<1>10. ASSUME NEW c \in Callers, SyncDone(c) PROVE IInv'
  <2>1. \A d \in Callers \ {c} : pc[d] \notin Guarded
    BY <1>10 DEF SyncDone, OneOwner, SessionTypeOK, Downloaded, NotDownloaded
  <2>2. SessionTypeOK'
    <3>1. pc' \in [Callers -> Phases]
      BY <1>10 DEF SessionTypeOK, SyncDone, Downloaded, NotDownloaded
    <3>2. held' \in [Callers -> Option]
      BY <1>10 DEF SessionTypeOK, SyncDone, Downloaded, NotDownloaded
    <3>3. (trainer \in Option /\ decoder \in Option /\ host \in Version)'
      BY <1>10 DEF SessionTypeOK, OneOwner, SyncDone, Downloaded, NotDownloaded
    <3>4. (saved \in [weights : Option, step : 0 .. MaxStep])'
      BY <1>10 DEF SessionTypeOK, OneOwner, SyncDone, Downloaded, NotDownloaded
    <3>5. (busy \in BOOLEAN /\ open \in BOOLEAN /\ pretrained \in BOOLEAN
           /\ warm \in BOOLEAN /\ uncounted \in BOOLEAN)'
      BY <1>10 DEF SessionTypeOK, SyncDone, Downloaded, NotDownloaded
    <3>6. (newest \in Version /\ step \in 0 .. MaxStep /\ uploadedAt \in 0 .. MaxStep
            /\ tokensSeen \in Nat /\ updates \in Nat)'
      BY <1>10 DEF SessionTypeOK, Placement, SyncDone, Downloaded, NotDownloaded
    <3> QED  BY <3>1, <3>2, <3>3, <3>4, <3>5, <3>6 DEF SessionTypeOK
  <2>3. OneOwner'
    BY <1>10, <2>1 DEF SessionTypeOK, OneOwner, Placement, SyncDone, Downloaded, NotDownloaded
  <2>4. Placement'
    BY <1>10, <2>1 DEF SessionTypeOK, OneOwner, Placement, Uploaded, SyncDone, Downloaded,
           NotDownloaded
  <2> QED  BY <2>2, <2>3, <2>4
<1>11. ASSUME NEW c \in Callers, ExportNow(c) PROVE IInv'
  <2>1. \A d \in Callers \ {c} : pc[d] \notin Guarded
    BY <1>11 DEF ExportNow, OneOwner, SessionTypeOK, SyncNotNeeded, WriteCheckpoint
  <2>2. SessionTypeOK'
    BY <1>11, <2>1 DEF SessionTypeOK, ExportNow, SyncNotNeeded, WriteCheckpoint
  <2>3. OneOwner'
    BY <1>11, <2>1 DEF SessionTypeOK, OneOwner, Placement, ExportNow, SyncNotNeeded, WriteCheckpoint
  <2>4. Placement'
    BY <1>11, <2>1 DEF SessionTypeOK, OneOwner, Placement, Uploaded, ExportNow, SyncNotNeeded,
           WriteCheckpoint
  <2> QED  BY <2>2, <2>3, <2>4
<1>12. ASSUME NEW c \in Callers, ExportDone(c) PROVE IInv'
  <2>1. \A d \in Callers \ {c} : pc[d] \notin Guarded
    BY <1>12 DEF ExportDone, OneOwner, SessionTypeOK, Downloaded, NotDownloaded, WriteCheckpoint
  <2>2. SessionTypeOK'
    <3>1. pc' \in [Callers -> Phases]
      BY <1>12 DEF SessionTypeOK, ExportDone, Downloaded, NotDownloaded, WriteCheckpoint
    <3>2. held' \in [Callers -> Option]
      BY <1>12 DEF SessionTypeOK, ExportDone, Downloaded, NotDownloaded, WriteCheckpoint
    <3>3. (trainer \in Option /\ decoder \in Option /\ host \in Version)'
      BY <1>12 DEF SessionTypeOK, OneOwner, ExportDone, Downloaded, NotDownloaded, WriteCheckpoint
    <3>4. (saved \in [weights : Option, step : 0 .. MaxStep])'
      BY <1>12 DEF SessionTypeOK, OneOwner, ExportDone, Downloaded, NotDownloaded, WriteCheckpoint
    <3>5. (busy \in BOOLEAN /\ open \in BOOLEAN /\ pretrained \in BOOLEAN
           /\ warm \in BOOLEAN /\ uncounted \in BOOLEAN)'
      BY <1>12 DEF SessionTypeOK, ExportDone, Downloaded, NotDownloaded, WriteCheckpoint
    <3>6. (newest \in Version /\ step \in 0 .. MaxStep /\ uploadedAt \in 0 .. MaxStep
            /\ tokensSeen \in Nat /\ updates \in Nat)'
      BY <1>12 DEF SessionTypeOK, Placement, ExportDone, Downloaded, NotDownloaded, WriteCheckpoint
    <3> QED  BY <3>1, <3>2, <3>3, <3>4, <3>5, <3>6 DEF SessionTypeOK
  <2>3. OneOwner'
    BY <1>12, <2>1 DEF SessionTypeOK, OneOwner, Placement, ExportDone, Downloaded, NotDownloaded,
           WriteCheckpoint
  <2>4. Placement'
    BY <1>12, <2>1 DEF SessionTypeOK, OneOwner, Placement, Uploaded, ExportDone, Downloaded,
           NotDownloaded, WriteCheckpoint
  <2> QED  BY <2>2, <2>3, <2>4
<1>13. ASSUME NEW c \in Callers, GenerateNow(c) PROVE IInv'
  <2>1. \A d \in Callers \ {c} : pc[d] \notin Guarded
    BY <1>13 DEF GenerateNow, OneOwner, SessionTypeOK, SyncNotNeeded
  <2>2. SessionTypeOK'
    BY <1>13, <2>1, ZenonT(60) DEF SessionTypeOK, GenerateNow, SyncNotNeeded
  <2>3. OneOwner'
    BY <1>13, <2>1 DEF SessionTypeOK, OneOwner, Placement, GenerateNow, SyncNotNeeded
  <2>4. Placement'
    BY <1>13, <2>1 DEF SessionTypeOK, OneOwner, Placement, Uploaded, GenerateNow, SyncNotNeeded
  <2> QED  BY <2>2, <2>3, <2>4
<1>14. ASSUME NEW c \in Callers, PrepareDone(c) PROVE IInv'
  <2>1. \A d \in Callers \ {c} : pc[d] \notin Guarded
    BY <1>14 DEF PrepareDone, OneOwner, SessionTypeOK
  <2>2. SessionTypeOK'
    <3>1. pc' \in [Callers -> Phases]
      BY <1>14 DEF SessionTypeOK, PrepareDone
    <3>2. held' \in [Callers -> Option]
      BY <1>14 DEF SessionTypeOK, PrepareDone
    <3>3. (trainer \in Option /\ decoder \in Option /\ host \in Version)'
      BY <1>14 DEF SessionTypeOK, OneOwner, PrepareDone
    <3>4. (saved \in [weights : Option, step : 0 .. MaxStep])'
      BY <1>14 DEF SessionTypeOK, OneOwner, PrepareDone
    <3>5. (busy \in BOOLEAN /\ open \in BOOLEAN /\ pretrained \in BOOLEAN
           /\ warm \in BOOLEAN /\ uncounted \in BOOLEAN)'
      BY <1>14 DEF SessionTypeOK, PrepareDone
    <3>6. (newest \in Version /\ step \in 0 .. MaxStep /\ uploadedAt \in 0 .. MaxStep
            /\ tokensSeen \in Nat /\ updates \in Nat)'
      BY <1>14 DEF SessionTypeOK, Placement, PrepareDone
    <3> QED  BY <3>1, <3>2, <3>3, <3>4, <3>5, <3>6 DEF SessionTypeOK
  <2>3. OneOwner'
    BY <1>14, <2>1 DEF SessionTypeOK, OneOwner, Placement, PrepareDone
  <2>4. Placement'
    BY <1>14, <2>1 DEF SessionTypeOK, OneOwner, Placement, Uploaded, PrepareDone
  <2> QED  BY <2>2, <2>3, <2>4
<1>15. ASSUME NEW c \in Callers, DecodeDone(c) PROVE IInv'
  <2>1. \A d \in Callers \ {c} : pc[d] \notin Guarded
    BY <1>15 DEF DecodeDone, OneOwner, SessionTypeOK
  <2>2. SessionTypeOK'
    BY <1>15, <2>1 DEF SessionTypeOK, DecodeDone
  <2>3. OneOwner'
    BY <1>15, <2>1 DEF SessionTypeOK, OneOwner, Placement, DecodeDone
  <2>4. Placement'
    BY <1>15, <2>1 DEF SessionTypeOK, OneOwner, Placement, Uploaded, DecodeDone
  <2> QED  BY <2>2, <2>3, <2>4
<1>16. ASSUME NEW c \in Callers, DecodeFailed(c) PROVE IInv'
  <2>1. \A d \in Callers \ {c} : pc[d] \notin Guarded
    BY <1>16 DEF DecodeFailed, OneOwner, SessionTypeOK
  <2>2. SessionTypeOK'
    <3>1. pc' \in [Callers -> Phases]
      BY <1>16 DEF SessionTypeOK, DecodeFailed
    <3>2. held' \in [Callers -> Option]
      BY <1>16 DEF SessionTypeOK, DecodeFailed
    <3>3. (trainer \in Option /\ decoder \in Option /\ host \in Version)'
      BY <1>16 DEF SessionTypeOK, OneOwner, DecodeFailed
    <3>4. (saved \in [weights : Option, step : 0 .. MaxStep])'
      BY <1>16 DEF SessionTypeOK, OneOwner, DecodeFailed
    <3>5. (busy \in BOOLEAN /\ open \in BOOLEAN /\ pretrained \in BOOLEAN
           /\ warm \in BOOLEAN /\ uncounted \in BOOLEAN)'
      BY <1>16 DEF SessionTypeOK, DecodeFailed
    <3>6. (newest \in Version /\ step \in 0 .. MaxStep /\ uploadedAt \in 0 .. MaxStep
            /\ tokensSeen \in Nat /\ updates \in Nat)'
      BY <1>16 DEF SessionTypeOK, Placement, DecodeFailed
    <3> QED  BY <3>1, <3>2, <3>3, <3>4, <3>5, <3>6 DEF SessionTypeOK
  <2>3. OneOwner'
    BY <1>16, <2>1 DEF SessionTypeOK, OneOwner, Placement, DecodeFailed
  <2>4. Placement'
    BY <1>16, <2>1 DEF SessionTypeOK, OneOwner, Placement, Uploaded, DecodeFailed
  <2> QED  BY <2>2, <2>3, <2>4
<1>17. ASSUME NEW c \in Callers, FallbackDone(c) PROVE IInv'
  <2>1. \A d \in Callers \ {c} : pc[d] \notin Guarded
    BY <1>17 DEF FallbackDone, OneOwner, SessionTypeOK
  <2>2. SessionTypeOK'
    BY <1>17, <2>1 DEF SessionTypeOK, FallbackDone
  <2>3. OneOwner'
    BY <1>17, <2>1 DEF SessionTypeOK, OneOwner, Placement, FallbackDone
  <2>4. Placement'
    BY <1>17, <2>1 DEF SessionTypeOK, OneOwner, Placement, Uploaded, FallbackDone
  <2> QED  BY <2>2, <2>3, <2>4
<1>18. ASSUME NEW c \in Callers, CpuStart(c) PROVE IInv'
  <2>2. SessionTypeOK'
    BY <1>18 DEF SessionTypeOK, CpuStart
  <2>3. OneOwner'
    BY <1>18 DEF SessionTypeOK, OneOwner, Placement, CpuStart
  <2>4. Placement'
    BY <1>18 DEF SessionTypeOK, OneOwner, Placement, Uploaded, CpuStart
  <2> QED  BY <2>2, <2>3, <2>4
<1>19. ASSUME NEW c \in Callers, CpuDone(c) PROVE IInv'
  <2>2. SessionTypeOK'
    BY <1>19 DEF SessionTypeOK, CpuDone
  <2>3. OneOwner'
    BY <1>19 DEF SessionTypeOK, OneOwner, Placement, CpuDone
  <2>4. Placement'
    BY <1>19 DEF SessionTypeOK, OneOwner, Placement, Uploaded, CpuDone
  <2> QED  BY <2>2, <2>3, <2>4
<1>20. ASSUME NEW c \in Callers, NEW n \in 0 .. MaxStep, Import(c, n) PROVE IInv'
  <2>1. \A d \in Callers \ {c} : pc[d] \notin Guarded
    BY <1>20 DEF Import, OneOwner, SessionTypeOK
  <2>2. SessionTypeOK'
    <3>1. pc' \in [Callers -> Phases]
      BY <1>20 DEF SessionTypeOK, Import
    <3>2. held' \in [Callers -> Option]
      BY <1>20 DEF SessionTypeOK, Import
    <3>3. (trainer \in Option /\ decoder \in Option /\ host \in Version)'
      BY <1>20 DEF SessionTypeOK, OneOwner, Import
    <3>4. (saved \in [weights : Option, step : 0 .. MaxStep])'
      BY <1>20 DEF SessionTypeOK, OneOwner, Import
    <3>5. (busy \in BOOLEAN /\ open \in BOOLEAN /\ pretrained \in BOOLEAN
           /\ warm \in BOOLEAN /\ uncounted \in BOOLEAN)'
      BY <1>20 DEF SessionTypeOK, Import
    <3>6. (newest \in Version /\ step \in 0 .. MaxStep /\ uploadedAt \in 0 .. MaxStep
            /\ tokensSeen \in Nat /\ updates \in Nat)'
      BY <1>20 DEF SessionTypeOK, Placement, Import
    <3> QED  BY <3>1, <3>2, <3>3, <3>4, <3>5, <3>6 DEF SessionTypeOK
  <2>3. OneOwner'
    BY <1>20, <2>1 DEF SessionTypeOK, OneOwner, Placement, Import
  <2>4. Placement'
    BY <1>20, <2>1 DEF SessionTypeOK, OneOwner, Placement, Uploaded, Import
  <2> QED  BY <2>2, <2>3, <2>4
<1>21. ASSUME NEW c \in Callers, NEW b \in BOOLEAN, LearnVocabulary(c, b) PROVE IInv'
  <2>1. \A d \in Callers \ {c} : pc[d] \notin Guarded
    BY <1>21 DEF LearnVocabulary, OneOwner, SessionTypeOK
  <2>2. SessionTypeOK'
    <3>1. pc' \in [Callers -> Phases]
      BY <1>21 DEF SessionTypeOK, LearnVocabulary
    <3>2. held' \in [Callers -> Option]
      BY <1>21 DEF SessionTypeOK, LearnVocabulary
    <3>3. (trainer \in Option /\ decoder \in Option /\ host \in Version)'
      BY <1>21 DEF SessionTypeOK, OneOwner, LearnVocabulary
    <3>4. (saved \in [weights : Option, step : 0 .. MaxStep])'
      BY <1>21 DEF SessionTypeOK, OneOwner, LearnVocabulary
    <3>5. (busy \in BOOLEAN /\ open \in BOOLEAN /\ pretrained \in BOOLEAN
           /\ warm \in BOOLEAN /\ uncounted \in BOOLEAN)'
      BY <1>21 DEF SessionTypeOK, LearnVocabulary
    <3>6. (newest \in Version /\ step \in 0 .. MaxStep /\ uploadedAt \in 0 .. MaxStep
            /\ tokensSeen \in Nat /\ updates \in Nat)'
      BY <1>21 DEF SessionTypeOK, Placement, LearnVocabulary
    <3> QED  BY <3>1, <3>2, <3>3, <3>4, <3>5, <3>6 DEF SessionTypeOK
  <2>3. OneOwner'
    BY <1>21, <2>1 DEF SessionTypeOK, OneOwner, Placement, LearnVocabulary
  <2>4. Placement'
    BY <1>21, <2>1 DEF SessionTypeOK, OneOwner, Placement, Uploaded, LearnVocabulary
  <2> QED  BY <2>2, <2>3, <2>4
<1>22. CASE UNCHANGED sessionVars
  BY <1>22 DEF sessionVars, SessionTypeOK, OneOwner, Placement, Uploaded
<1> QED
  BY <1>1, <1>2, <1>3, <1>4, <1>5, <1>6, <1>7, <1>7a, <1>7b, <1>8, <1>9, <1>10, <1>11, <1>12, <1>13, <1>14,
         <1>15, <1>16, <1>17, <1>18, <1>19, <1>20, <1>21, <1>22 DEF SessionNext, Start, Finish

----------------------------------------------------------------------------
(* The invariants the runs check.                                          *)

\* IInv holds in every reachable state.
THEOREM Inductive == SessionSpec => []IInv
  BY InitIInv, NextIInv, PTL DEF SessionSpec

\* The state always has its type, whatever the calls in flight do.
THEOREM TypeCorrect == SessionSpec => []SessionTypeOK
<1>1. IInv => SessionTypeOK
  BY DEF IInv
<1> QED  BY <1>1, Inductive, PTL

\* Any number of callers: one guarded call at a time, the guard given back on
\* every way out, and no second trainer.
THEOREM OneOwnerHolds == SessionSpec => []OneOwner
<1>1. IInv => OneOwner
  BY DEF IInv
<1> QED  BY <1>1, Inductive, PTL

\* The newest weights survive every interleaving and every failure.
THEOREM NewestKept == SessionSpec => []NewestNeverLost
<1>1. IInv => NewestNeverLost
  BY DEF IInv, SessionTypeOK, Placement, NewestNeverLost, TrainerHolders, Handed
<1> QED  BY <1>1, Inductive, PTL

\* A generation on the GPU never decodes with weights training has moved past.
THEOREM DecodingIsCurrent == SessionSpec => []DecodesNewest
<1>1. IInv => DecodesNewest
  BY DEF IInv, Placement, DecodesNewest, Decoders
<1> QED  BY <1>1, Inductive, PTL

----------------------------------------------------------------------------
(* The action properties the runs check.                                   *)

\* Every checkpoint written carries the newest weights there are to hand out,
\* at the current step.
THEOREM ExportsAreNewest == SessionSpec => ExportsNewest
<1>1. ASSUME IInv, IInv', [SessionNext]_sessionVars
      PROVE  [saved' # saved => saved'.weights = Handed' /\ saved'.step = step]_sessionVars
  <2> SUFFICES ASSUME SessionNext, saved' # saved
               PROVE  saved'.weights = Handed' /\ saved'.step = step
    BY <1>1
  <2>1. PICK c \in Callers : ExportNow(c) \/ ExportDone(c)
    BY DEF SessionNext, Start, Finish, OpenDone, TrainStart, TrainDone, ProfileStart, ProfileDone,
           MeasureStart, BenchDone, MeasureDone, KernelsDone, ImportOptimizer, SyncStart, SyncDone,
           GenerateNow, PrepareDone, DecodeDone, DecodeFailed, FallbackDone, CpuStart, CpuDone,
           Import, LearnVocabulary
  <2>2. CASE ExportNow(c)
    <3>1. host = Handed
      BY <1>1, <2>2 DEF ExportNow, SyncNotNeeded, IInv, Placement, OneOwner, TrainerHolders,
             SessionTypeOK, Handed
    <3>2. Handed' = Handed
      BY <2>2 DEF ExportNow, counters, Handed
    <3> QED  BY <2>2, <3>1, <3>2 DEF ExportNow, WriteCheckpoint
  <2>3. CASE ExportDone(c)
    <3>1. held[c] = newest
      BY <1>1, <2>3 DEF ExportDone, IInv, Placement, TrainerHolders
    <3>2. newest' = newest /\ ~ uncounted' /\ Downloaded(c) /\ WriteCheckpoint(held[c])
      BY <2>3 DEF ExportDone, Downloaded
    <3>3. Handed' = newest
      BY <3>2 DEF Handed
    <3> QED  BY <3>1, <3>2, <3>3 DEF WriteCheckpoint
  <2> QED  BY <2>1, <2>2, <2>3
<1>2. IInv /\ [SessionNext]_sessionVars => IInv'
  BY NextIInv
<1> QED  BY <1>1, <1>2, Inductive, PTL DEF SessionSpec, ExportsNewest

\* A model that has had an update keeps its weights and its vocabulary.
THEOREM LearningIsSafe == SessionSpec => LearningLosesNothing
<1>1. ASSUME IInv
      PROVE  [(\E c \in Callers, b \in BOOLEAN : LearnVocabulary(c, b)) => updates = 0]_sessionVars
  BY <1>1 DEF IInv, Placement, LearnVocabulary
<1> QED  BY <1>1, Inductive, PTL DEF SessionSpec, LearningLosesNothing

----------------------------------------------------------------------------
(* The refinement.                                                         *)

\* The mapped weights are the newest ones wherever they are, or those before
\* the ones that went with the backend.
LEMMA CurrentIsNewest == IInv => Current = IF uncounted /\ ~ open THEN newest - 1 ELSE newest
  BY DEF IInv, Placement, Current, Handed

\* A generation on the GPU is served from what there is to hand out.
LEMMA ServingIsNewest ==
    IInv => Serving = IF Decoders = {} THEN NoWeights ELSE Handed
  BY DEF IInv, Placement, Serving

\* Every step of the session is a step of the one model, or leaves it alone.
LEMMA StepKeepsPromise ==
    IInv /\ IInv' /\ [SessionNext]_sessionVars
        => [Promise!Next]_<<Current, Spoilt, Serving, saved>>
<1> SUFFICES ASSUME IInv, IInv', [SessionNext]_sessionVars
             PROVE  Promise!Next \/ UNCHANGED <<Current, Spoilt, Serving, saved>>
  OBVIOUS
<1>a. /\ Current = IF uncounted /\ ~ open THEN newest - 1 ELSE newest
      /\ Current' = IF uncounted' /\ ~ open' THEN newest' - 1 ELSE newest'
      /\ Serving = IF Decoders = {} THEN NoWeights ELSE Handed
      /\ Serving' = IF Decoders' = {} THEN NoWeights ELSE Handed'
  BY CurrentIsNewest, ServingIsNewest DEF IInv, Placement, Current, Serving, Handed
<1>b. newest \in Nat /\ newest' \in Nat /\ step \in Nat /\ (uncounted => newest > 0)
      /\ uncounted \in BOOLEAN /\ open \in BOOLEAN /\ uncounted' \in BOOLEAN /\ open' \in BOOLEAN
  BY DEF IInv, SessionTypeOK, Placement
<1>c. Spoilt = (uncounted /\ open) /\ Spoilt' = (uncounted' /\ open')
  BY DEF Spoilt
<1> USE <1>a, <1>b, <1>c DEF Promise!Next, Promise!Change, Promise!Spoil, Promise!Settle, Promise!Save,
                       Promise!Serve, Promise!Served, Promise!Lost, Promise!Given, Handed
<1>1. ASSUME NEW c \in Callers,
             \/ OpenDone(c) \/ TrainDone(c) \/ ProfileDone(c) \/ BenchDone(c) \/ MeasureDone(c)
             \/ KernelsDone(c) \/ SyncDone(c) \/ FallbackDone(c)
      PROVE  Promise!Next \/ UNCHANGED <<Current, Spoilt, Serving, saved>>
  <2>1. Decoders = {} /\ Decoders' = {}
    BY <1>1 DEF OpenDone, TrainDone, ProfileDone, BenchDone, MeasureDone, KernelsDone, SyncDone,
                FallbackDone, Release, IInv, OneOwner, SessionTypeOK, Decoders
  <2>2. saved' = saved
    BY <1>1 DEF OpenDone, TrainDone, ProfileDone, BenchDone, MeasureDone, KernelsDone, SyncDone,
                FallbackDone, counters
  <2>3. \/ /\ newest' = newest /\ uncounted' \in {uncounted, FALSE}
           /\ (uncounted => open' = open) /\ (uncounted' # uncounted => open)
        \/ newest' = newest + 1 /\ ~ uncounted' /\ open
        \/ newest' = newest + 1 /\ uncounted' /\ ~ uncounted /\ open /\ open'
    BY <1>1 DEF OpenDone, TrainDone, ProfileDone, BenchDone, MeasureDone, KernelsDone, SyncDone,
                FallbackDone, MakeVersion, NewVersion, counters, backend, Downloaded,
                NotDownloaded, IInv, Placement, TrainerHolders
  <2>4. CASE /\ newest' = newest /\ uncounted' \in {uncounted, FALSE}
             /\ (uncounted => open' = open) /\ (uncounted' # uncounted => open)
    <3>1. CASE uncounted /\ open /\ ~ uncounted'
      <4>1. Spoilt = TRUE /\ Spoilt' = FALSE
        BY <3>1, Zenon DEF Spoilt
      <4>2. Current' = Current /\ Serving' = Serving /\ Serving = NoWeights
        BY <2>1, <2>4, <3>1
      <4> QED  BY <2>2, <4>1, <4>2 DEF Promise!Settle
    <3>2. CASE ~ (uncounted /\ open /\ ~ uncounted')
      <4>1. uncounted' = uncounted /\ (uncounted => open' = open)
        BY <2>4, <3>2
      <4>2. Spoilt' = Spoilt
        BY <4>1, Zenon DEF Spoilt
      <4>3. Serving' = Serving /\ Current' = Current
        BY <2>1, <2>4, <4>1
      <4> QED  BY ONLY <2>2, <4>2, <4>3
    <3> QED  BY <3>1, <3>2
  <2>5. CASE newest' = newest + 1 /\ ~ uncounted' /\ open
    <3>1. Spoilt' = FALSE /\ Current' > Current /\ Serving' = Serving /\ Serving = NoWeights
      BY <2>1, <2>5
    <3> QED  BY <2>2, <3>1
  <2>6. CASE newest' = newest + 1 /\ uncounted' /\ ~ uncounted /\ open /\ open'
    <3>1. Spoilt' = TRUE /\ Spoilt = FALSE /\ Current' = Current + 1
          /\ Serving' = Serving /\ Serving = NoWeights
      BY <2>1, <2>6
    <3> QED  BY <2>2, <3>1
  <2> QED  BY <2>3, <2>4, <2>5, <2>6
<1>2. ASSUME NEW c \in Callers,
             \/ TrainStart(c) \/ ProfileStart(c) \/ ImportOptimizer(c)
             \/ \E p \in {"benchmarking", "measuring", "kernels"} : MeasureStart(c, p)
             \/ \E b \in BOOLEAN : LearnVocabulary(c, b)
             \/ \E p \in {"syncing", "exporting", "preparing"} : SyncStart(c, p)
             \/ \E n \in 0 .. MaxStep : Import(c, n)
      PROVE  Promise!Next \/ UNCHANGED <<Current, Spoilt, Serving, saved>>
  <2>1. Decoders = {} /\ Decoders' = {}
    BY <1>2 DEF TrainStart, ProfileStart, MeasureStart, SyncStart, ImportOptimizer, Import,
                LearnVocabulary, TakeTrainer, Acquire, IInv, OneOwner, SessionTypeOK, Decoders
  <2>2. saved' = saved
    BY <1>2 DEF TrainStart, ProfileStart, MeasureStart, SyncStart, ImportOptimizer, Import,
                LearnVocabulary, counters
  <2>3. \/ newest' = newest /\ uncounted' = uncounted /\ open' = open
        \/ newest' = newest + 1 /\ ~ uncounted'
    BY <1>2 DEF TrainStart, ProfileStart, MeasureStart, SyncStart, ImportOptimizer, Import,
                LearnVocabulary, TakeTrainer, MakeVersion, NewVersion, counters
  <2>4. CASE newest' = newest /\ uncounted' = uncounted /\ open' = open
    <3>1. Spoilt' = Spoilt
      BY <2>4, Zenon DEF Spoilt
    <3>2. Serving' = Serving /\ Current' = Current
      BY <2>1, <2>4
    <3> QED  BY ONLY <2>2, <3>1, <3>2
  <2>5. CASE newest' = newest + 1 /\ ~ uncounted'
    <3>1. Spoilt' = FALSE /\ Current' > Current /\ Serving' = Serving /\ Serving = NoWeights
      BY <2>1, <2>5
    <3> QED  BY <2>2, <3>1
  <2> QED  BY <2>3, <2>4, <2>5
<1>3. ASSUME NEW c \in Callers, CpuStart(c) \/ CpuDone(c)
      PROVE  UNCHANGED <<Current, Spoilt, Serving, saved>>
  <2>1. Decoders' = Decoders
    BY <1>3 DEF CpuStart, CpuDone, Decoders, IInv, SessionTypeOK
  <2> QED  BY <1>3, <2>1 DEF CpuStart, CpuDone, counters, backend
<1>4. ASSUME NEW c \in Callers, ExportNow(c) \/ ExportDone(c)
      PROVE  Promise!Next \/ UNCHANGED <<Current, Spoilt, Serving, saved>>
  <2>1. Decoders = {} /\ Decoders' = {}
    BY <1>4 DEF ExportNow, ExportDone, Release, IInv, OneOwner, SessionTypeOK, Decoders
  <2>2. newest' = newest /\ open' = open /\ uncounted' \in {uncounted, FALSE}
    BY <1>4 DEF ExportNow, ExportDone, Downloaded, NotDownloaded, counters, backend
  <2>3. CASE ExportNow(c)
    <3>1. host = Handed /\ uncounted' = uncounted
      BY <2>3 DEF ExportNow, SyncNotNeeded, IInv, OneOwner, Placement, TrainerHolders,
                  SessionTypeOK, counters
    <3>2. saved' = [weights |-> Handed, step |-> step]
      BY <2>3, <3>1 DEF ExportNow, WriteCheckpoint
    <3> QED  BY <2>1, <2>2, <3>1, <3>2
  <2>4. CASE ExportDone(c)
    <3>1. open
      BY <2>4 DEF ExportDone, IInv, Placement, TrainerHolders
    <3>2. \/ saved' = [weights |-> newest, step |-> step] /\ ~ uncounted'
          \/ saved' = saved /\ uncounted' = uncounted
      BY <2>4 DEF ExportDone, WriteCheckpoint, Downloaded, NotDownloaded, IInv, Placement,
                  TrainerHolders
    <3>3. CASE saved' = [weights |-> newest, step |-> step] /\ ~ uncounted'
      <4>1. Spoilt' = FALSE /\ Current = newest /\ Current' = newest
            /\ Serving' = Serving /\ Serving = NoWeights
        BY <2>1, <2>2, <3>1, <3>3
      <4>2. Promise!Given' = newest
        BY <4>1
      <4>3. saved' \in [weights : {Promise!Given'}, step : Nat]
        BY <1>b, <3>3, <4>2
      <4> QED  BY <4>1, <4>3 DEF Promise!Save
    <3>4. CASE saved' = saved /\ uncounted' = uncounted
      <4>1. Spoilt' = Spoilt
        BY <2>2, <3>4, Zenon DEF Spoilt
      <4>2. Serving' = Serving /\ Current' = Current
        BY <2>1, <2>2, <3>4
      <4> QED  BY ONLY <3>4, <4>1, <4>2
    <3> QED  BY <3>2, <3>3, <3>4
  <2> QED  BY <1>4, <2>3, <2>4
<1>5. ASSUME NEW c \in Callers, GenerateNow(c) \/ PrepareDone(c)
      PROVE  Promise!Next \/ UNCHANGED <<Current, Spoilt, Serving, saved>>
  <2>1. Decoders = {}
    BY <1>5 DEF GenerateNow, PrepareDone, Acquire, IInv, OneOwner, SessionTypeOK, Decoders
  <2>2. newest' = newest /\ saved' = saved /\ open' = open /\ uncounted' \in {uncounted, FALSE}
    BY <1>5 DEF GenerateNow, PrepareDone, counters, backend
  <2>3. Decoders' # {} => open
    <3>1. CASE GenerateNow(c)
      BY <3>1, <2>1 DEF GenerateNow, Acquire, Decoders, IInv, SessionTypeOK
    <3>2. CASE PrepareDone(c)
      BY <3>2 DEF PrepareDone, IInv, Placement, TrainerHolders
    <3> QED  BY <1>5, <3>1, <3>2
  <2>4. uncounted' # uncounted => open
    BY <1>5 DEF GenerateNow, PrepareDone, counters, IInv, Placement, TrainerHolders
  <2> QED  BY <2>1, <2>2, <2>3, <2>4
<1>6. ASSUME NEW c \in Callers, DecodeDone(c) \/ DecodeFailed(c)
      PROVE  Promise!Next
  <2>1. Decoders # {} /\ Decoders' = {}
    BY <1>6 DEF DecodeDone, DecodeFailed, Release, Continue, IInv, OneOwner, SessionTypeOK, Decoders
  <2>2. newest' = newest /\ saved' = saved /\ uncounted' = uncounted /\ NoWeights \notin Nat
    BY <1>6 DEF DecodeDone, DecodeFailed, counters
  <2>3. open /\ open' \in {open, FALSE}
    BY <1>6 DEF DecodeDone, DecodeFailed, CloseGpu, IInv, Placement, Decoders
  <2>4. Handed # NoWeights
    BY <1>b, <2>2
  <2> QED  BY <2>1, <2>2, <2>3, <2>4
<1>7. CASE UNCHANGED sessionVars
  BY <1>7 DEF sessionVars, backend, counters, Current, Serving, TrainerHolders, Decoders
<1> QED
  BY <1>1, <1>2, <1>3, <1>4, <1>5, <1>6, <1>7 DEF SessionNext, Start, Finish

\* Weights in three places, moved by calls that interleave and fail, behave
\* like one model whose checkpoints and generations are of its current weights.
THEOREM SessionKeepsPromise == SessionSpec => KeepsPromise
<1>1. SessionInit => Promise!Init
  <2> SUFFICES ASSUME SessionInit PROVE Promise!Init
    OBVIOUS
  <2>1. Decoders = {} /\ Current = 0
    <3>1. IInv
      BY InitIInv
    <3>2. Current = newest
      BY <3>1, CurrentIsNewest DEF SessionInit
    <3> QED  BY <3>2 DEF SessionInit, Decoders
  <2>2. Spoilt = FALSE
    BY DEF SessionInit, Spoilt
  <2> QED  BY <2>1, <2>2 DEF SessionInit, Promise!Init, Serving
<1> QED
  BY <1>1, StepKeepsPromise, Inductive, PTL DEF SessionSpec, KeepsPromise, Promise!Spec
===============================================================================
