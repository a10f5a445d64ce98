-------------------------- MODULE GpuTrainingProofs --------------------------
(***************************************************************************)
(* Proofs about GpuTraining.  A call's commands compute what they would if *)
(* each ran on its own as soon as it was encoded, however they are cut     *)
(* into submissions, and no submission is longer than it may be.  Then     *)
(* what the commands of each layer leave in memory, forward and backward,  *)
(* whatever the number of layers; GpuHostProofs puts them together.        *)
(***************************************************************************)
EXTENDS GpuTraining, SequenceTheorems, WellFoundedInduction, TLAPS

-----------------------------------------------------------------------------
(* Induction up to a bound.                                                *)

\* What holds of 0 and is handed on up to N holds up to N.
LEMMA Climb ==
    ASSUME NEW N \in Nat, NEW S, 0 \in S, \A k \in 0 .. N - 1 : k \in S => k + 1 \in S
    PROVE  0 .. N \subseteq S
<1> DEFINE R == OpToRel(<, Nat)
           T == (0 .. N) \ S
<1>1. SUFFICES ASSUME T # {} PROVE FALSE
  OBVIOUS
<1>2. IsWellFoundedOn(R, Nat)
  BY NatLessThanWellFounded
<1>3. T \subseteq Nat
  OBVIOUS
<1>4. \A x, y \in Nat : <<y, x>> \in R <=> y < x
  BY DEF OpToRel
<1> HIDE DEF R, T
<1>5. PICK x \in T : \A y \in T : ~ (<<y, x>> \in R)
  BY <1>1, <1>2, <1>3, WFMin
<1>6. x \in 1 .. N /\ x - 1 \in 0 .. N - 1 /\ x - 1 < x /\ x - 1 \in Nat /\ x - 1 + 1 = x
  BY <1>5, <1>3 DEF T
<1>7. x - 1 \in S
  <2>1. x - 1 \notin T
    <3>1. <<x - 1, x>> \in R
      BY <1>3, <1>4, <1>5, <1>6
    <3> QED
      BY <1>5, <3>1
  <2>2. x - 1 \in 0 .. N
    BY <1>6
  <2> QED
    BY ONLY <2>1, <2>2 DEF T
<1> QED
  BY <1>5, <1>6, <1>7 DEF T

-----------------------------------------------------------------------------
(* Sequences, of whatever elements.                                        *)

IsSeq(s) == \E S : s \in Seq(S)

\* What a sequence is.
LEMMA SeqIs ==
    ASSUME NEW s, IsSeq(s)
    PROVE  /\ Len(s) \in Nat /\ DOMAIN s = 1 .. Len(s)
           /\ s = [i \in 1 .. Len(s) |-> s[i]]
           /\ Len(s) = 0 => s = << >>
BY DEF IsSeq

\* A function on 1 .. n is a sequence.
LEMMA SeqMade ==
    ASSUME NEW n \in Nat, NEW s, DOMAIN s = 1 .. n, s = [i \in 1 .. n |-> s[i]]
    PROVE  IsSeq(s) /\ Len(s) = n
<1>1. s \in Seq({s[i] : i \in 1 .. n})
  OBVIOUS
<1> QED
  BY <1>1, SMTT(60) DEF IsSeq

\* One more element at the end.
LEMMA AppendIs ==
    ASSUME NEW s, NEW x, IsSeq(s)
    PROVE  /\ IsSeq(Append(s, x)) /\ Len(Append(s, x)) = Len(s) + 1
           /\ Append(s, x)[Len(s) + 1] = x
           /\ \A i \in 1 .. Len(s) : Append(s, x)[i] = s[i]
<1>1. PICK S : s \in Seq(S)
  BY DEF IsSeq
<1>2. s \in Seq(S \cup {x})
  BY <1>1
<1>3. Append(s, x) \in Seq(S \cup {x})
  BY <1>2
<1> QED
  BY <1>2, <1>3 DEF IsSeq

\* One sequence after another.
LEMMA ConcatIs ==
    ASSUME NEW s, NEW t, IsSeq(s), IsSeq(t)
    PROVE  /\ IsSeq(s \o t) /\ Len(s \o t) = Len(s) + Len(t)
           /\ \A i \in 1 .. Len(s) : (s \o t)[i] = s[i]
           /\ \A i \in 1 .. Len(t) : (s \o t)[Len(s) + i] = t[i]
<1>1. PICK S, T : s \in Seq(S) /\ t \in Seq(T)
  BY DEF IsSeq
<1>2. s \in Seq(S \cup T) /\ t \in Seq(S \cup T)
  BY <1>1
<1>3. s \o t \in Seq(S \cup T)
  BY <1>2
<1> QED
  BY <1>2, <1>3 DEF IsSeq

\* The same with the places of the whole.
LEMMA ConcatAt ==
    ASSUME NEW s, NEW t, IsSeq(s), IsSeq(t), NEW n \in Nat, NEW k \in Nat, Len(s) = n, Len(t) = k
    PROVE  /\ IsSeq(s \o t) /\ Len(s \o t) = n + k
           /\ \A i \in 1 .. n : (s \o t)[i] = s[i]
           /\ \A i \in n + 1 .. n + k : (s \o t)[i] = t[i - n]
<1>1. \A i \in n + 1 .. n + k : (s \o t)[i] = t[i - n]
  <2> TAKE i \in n + 1 .. n + k
  <2> PICK j : j = i - n
    OBVIOUS
  <2>1. j \in 1 .. k /\ n + j = i
    OBVIOUS
  <2> QED
    BY <2>1, ConcatIs
<1> QED
  BY <1>1, ConcatIs

\* Where an element of the one after the other comes from.
LEMMA ConcatFrom ==
    ASSUME NEW s, NEW t, IsSeq(s), IsSeq(t), NEW i \in 1 .. Len(s \o t)
    PROVE  \/ i \in 1 .. Len(s) /\ (s \o t)[i] = s[i]
           \/ /\ i > Len(s) /\ i - Len(s) \in 1 .. Len(t)
              /\ (s \o t)[i] = t[i - Len(s)]
<1>1. /\ Len(s) \in Nat /\ Len(t) \in Nat /\ Len(s \o t) = Len(s) + Len(t)
      /\ \A k \in 1 .. Len(s) : (s \o t)[k] = s[k]
      /\ \A k \in 1 .. Len(t) : (s \o t)[Len(s) + k] = t[k]
  BY ConcatIs, SeqIs
<1>2. CASE i <= Len(s)
  BY <1>1, <1>2
<1>3. CASE i > Len(s)
  <2> PICK j : j = i - Len(s)
    OBVIOUS
  <2>1. j \in 1 .. Len(t) /\ Len(s) + j = i
    BY <1>1, <1>3
  <2> QED
    BY <1>1, <1>3, <2>1
<1> QED
  BY <1>1, <1>2, <1>3

\* Nothing before, and nothing after.
LEMMA ConcatNothing ==
    ASSUME NEW s, IsSeq(s)
    PROVE  << >> \o s = s /\ s \o << >> = s
BY DEF IsSeq

\* Where the brackets go does not matter.
LEMMA ConcatThree ==
    ASSUME NEW s, NEW t, NEW u, IsSeq(s), IsSeq(t), IsSeq(u)
    PROVE  (s \o t) \o u = s \o (t \o u)
<1>1. PICK S, T, U : s \in Seq(S) /\ t \in Seq(T) /\ u \in Seq(U)
  BY DEF IsSeq
<1> PICK V : V = S \cup T \cup U
  OBVIOUS
<1>2. s \in Seq(V) /\ t \in Seq(V) /\ u \in Seq(V)
  BY <1>1
<1> QED
  BY <1>2, ConcatAssociative, SMTT(60)

-----------------------------------------------------------------------------
(* The commands of an encoder, one after the other.                        *)

\* The memory after the first commands of an encoder, for each number of them.
RanOf(results, params, mem0, encoder, n, f) ==
    f = [i \in 0 .. n |->
           IF i = 0 THEN mem0
           ELSE Execute(results, Block(params, encoder[i]), f[i - 1], encoder[i].command)]

\* They run.
LEMMA RanExists ==
    ASSUME NEW results, NEW params, NEW mem0, NEW encoder, NEW n \in Nat
    PROVE  \E f : RanOf(results, params, mem0, encoder, n, f)
<1> DEFINE Run(m, i) == Execute(results, Block(params, encoder[i]), m, encoder[i].command)
           Q == {k \in 0 .. n : \E f : RanOf(results, params, mem0, encoder, k, f)}
           Z == [i \in 0 .. 0 |-> mem0]
<1> HIDE DEF Run
<1>1. 0 \in Q
  <2>1. RanOf(results, params, mem0, encoder, 0, Z)
    BY DEF RanOf
  <2> QED
    BY <2>1
<1>2. ASSUME NEW k \in 0 .. n - 1, k \in Q PROVE k + 1 \in Q
  <2>1. PICK f : RanOf(results, params, mem0, encoder, k, f)
    BY <1>2
  <2>a. f = [i \in 0 .. k |-> IF i = 0 THEN mem0 ELSE Run(f[i - 1], i)]
    BY ONLY <2>1, Zenon DEF RanOf, Run
  <2>2. k \in Nat /\ k + 1 \in 0 .. n
    OBVIOUS
  <2> PICK g : g = [i \in 0 .. k + 1 |-> IF i = 0 THEN mem0 ELSE Run(f[i - 1], i)]
    OBVIOUS
  <2>3. ASSUME NEW i \in 0 .. k + 1, i # 0 PROVE g[i - 1] = f[i - 1]
    <3> PICK j : j = i - 1
      OBVIOUS
    <3>1. j \in 0 .. k /\ j \in 0 .. k + 1
      BY <2>2, <2>3
    <3>2. f[j] = IF j = 0 THEN mem0 ELSE Run(f[j - 1], j)
      BY ONLY <2>a, <3>1, Zenon
    <3>3. g[j] = IF j = 0 THEN mem0 ELSE Run(f[j - 1], j)
      BY <3>1
    <3> QED
      BY <3>2, <3>3
  <2>4. \A i \in 0 .. k + 1 : (IF i = 0 THEN mem0 ELSE Run(f[i - 1], i))
                              = (IF i = 0 THEN mem0 ELSE Run(g[i - 1], i))
    BY <2>3
  <2>5. g = [i \in 0 .. k + 1 |-> IF i = 0 THEN mem0 ELSE Run(g[i - 1], i)]
    BY <2>4
  <2>6. RanOf(results, params, mem0, encoder, k + 1, g)
    BY ONLY <2>5, Zenon DEF RanOf, Run
  <2> QED
    BY <2>2, <2>6
<1>3. 0 .. n \subseteq Q
  <2> HIDE DEF Q
  <2> QED
    BY <1>1, <1>2, Climb
<1> QED
  BY <1>3

\* How one command follows another.
LEMMA RanStep ==
    ASSUME NEW results, NEW params, NEW mem0, NEW encoder, NEW n \in Nat,
           NEW f, RanOf(results, params, mem0, encoder, n, f)
    PROVE  /\ f[0] = mem0
           /\ \A i \in 1 .. n :
                f[i] = Execute(results, Block(params, encoder[i]), f[i - 1], encoder[i].command)
<1>1. 0 \in 0 .. n /\ \A i \in 1 .. n : i \in 0 .. n /\ i # 0
  OBVIOUS
<1>2. f[0] = mem0
  BY ONLY <1>1, RanOf(results, params, mem0, encoder, n, f), Zenon DEF RanOf
<1>3. ASSUME NEW i \in 1 .. n
      PROVE  f[i] = Execute(results, Block(params, encoder[i]), f[i - 1], encoder[i].command)
  BY ONLY <1>1, RanOf(results, params, mem0, encoder, n, f), Zenon DEF RanOf
<1> QED
  BY <1>2, <1>3

\* The same commands with the same blocks leave the same memory.
LEMMA RanAgrees ==
    ASSUME NEW results, NEW mem0, NEW ps, NEW pt, NEW s, NEW t,
           NEW m \in Nat, NEW k \in Nat, NEW n \in Nat, n <= m, n <= k,
           NEW f, RanOf(results, ps, mem0, s, m, f), NEW g, RanOf(results, pt, mem0, t, k, g),
           \A i \in 1 .. n : s[i] = t[i] /\ Block(ps, s[i]) = Block(pt, t[i])
    PROVE  f[n] = g[n]
<1> DEFINE Q == {j \in 0 .. n : f[j] = g[j]}
<1>1. /\ f[0] = mem0 /\ g[0] = mem0
      /\ \A i \in 1 .. m : f[i] = Execute(results, Block(ps, s[i]), f[i - 1], s[i].command)
      /\ \A i \in 1 .. k : g[i] = Execute(results, Block(pt, t[i]), g[i - 1], t[i].command)
  BY RanStep
<1>2. 0 \in Q
  BY <1>1
<1>3. ASSUME NEW j \in 0 .. n - 1, j \in Q PROVE j + 1 \in Q
  <2> PICK i : i = j + 1
    OBVIOUS
  <2>1. i \in 1 .. n /\ i \in 1 .. m /\ i \in 1 .. k /\ i - 1 = j /\ i \in 0 .. n
    OBVIOUS
  <2>2. f[i] = Execute(results, Block(ps, s[i]), f[i - 1], s[i].command)
    BY <1>1, <2>1
  <2>3. g[i] = Execute(results, Block(pt, t[i]), g[i - 1], t[i].command)
    BY <1>1, <2>1
  <2>4. s[i] = t[i] /\ Block(ps, s[i]) = Block(pt, t[i]) /\ f[i - 1] = g[i - 1]
    BY <1>3, <2>1
  <2>5. f[i] = g[i]
    BY ONLY <2>2, <2>3, <2>4, Zenon
  <2> QED
    BY <2>1, <2>5
<1>4. 0 .. n \subseteq Q
  <2> HIDE DEF Q
  <2> QED
    BY <1>2, <1>3, Climb
<1> QED
  BY <1>4

\* What a submission leaves is where its commands end.
LEMMA SubmittedIs ==
    ASSUME NEW g, Len(g.encoder) \in Nat
    PROVE  \E f : /\ RanOf(g.results, g.params, g.mem, g.encoder, Len(g.encoder), f)
                  /\ Submitted(g) = f[Len(g.encoder)]
<1> DEFINE f == CHOOSE h : RanOf(g.results, g.params, g.mem, g.encoder, Len(g.encoder), h)
<1>1. RanOf(g.results, g.params, g.mem, g.encoder, Len(g.encoder), f)
  BY RanExists
<1>2. Submitted(g) = f[Len(g.encoder)]
  BY ONLY DEF Submitted, RanOf
<1> HIDE DEF f
<1> QED
  BY <1>1, <1>2

-----------------------------------------------------------------------------
(* The state of a call, and the memory it stands for.                      *)

\* Its encoder is no longer than it may be, nor was one submitted that was;
\* the pool has handed out a slot to each dispatch.
Stands(g) ==
    /\ g = [results |-> g.results, mem |-> g.mem, per_submit |-> g.per_submit, params |-> g.params,
            cursor |-> g.cursor, encoder |-> g.encoder, longest |-> g.longest]
    /\ g.per_submit \in Nat /\ g.per_submit >= 1
    /\ IsSeq(g.params) /\ g.cursor = Len(g.params)
    /\ IsSeq(g.encoder) /\ Len(g.encoder) <= g.per_submit
    /\ \A i \in 1 .. Len(g.encoder) : g.encoder[i].slot \in 0 .. g.cursor
    /\ g.longest \in Nat /\ g.longest <= g.per_submit

\* h is a later state of the call g is a state of.
Follows(h, g) == Stands(h) /\ h.results = g.results /\ h.per_submit = g.per_submit

\* A call begins with nothing encoded.
LEMMA BeginStands ==
    ASSUME NEW ple, NEW mem0, NEW n \in Nat, n >= 1
    PROVE  /\ Stands(Begin(ple, mem0, n)) /\ Begin(ple, mem0, n).encoder = << >>
           /\ Begin(ple, mem0, n).results = Results[ple] /\ Begin(ple, mem0, n).per_submit = n
           /\ Begin(ple, mem0, n).mem = mem0
<1>1. IsSeq(<< >>) /\ Len(<< >>) = 0
  BY << >> \in Seq({}) DEF IsSeq
<1> QED
  BY <1>1 DEF Stands, Begin

\* With nothing encoded the memory is what it is.
LEMMA NothingEncoded ==
    ASSUME NEW g, g.encoder = << >>
    PROVE  Submitted(g) = g.mem
<1>1. Len(g.encoder) = 0
  OBVIOUS
<1>2. PICK f : /\ RanOf(g.results, g.params, g.mem, g.encoder, Len(g.encoder), f)
               /\ Submitted(g) = f[Len(g.encoder)]
  BY <1>1, SubmittedIs
<1>3. f[0] = g.mem
  BY <1>1, <1>2, RanStep
<1> QED
  BY <1>1, <1>2, <1>3

\* A submission leaves the memory its commands make.
LEMMA FlushKeeps ==
    ASSUME NEW g, Stands(g)
    PROVE  /\ Follows(flush(g), g) /\ flush(g).encoder = << >>
           /\ flush(g).params = g.params /\ flush(g).cursor = g.cursor
           /\ Submitted(flush(g)) = Submitted(g)
<1> PICK h : h = flush(g)
  OBVIOUS
<1>1. h = [results |-> g.results, mem |-> Submitted(g), per_submit |-> g.per_submit,
           params |-> g.params, cursor |-> g.cursor, encoder |-> << >>,
           longest |-> IF Len(g.encoder) > g.longest THEN Len(g.encoder) ELSE g.longest]
  <2>1. g = [results |-> g.results, mem |-> g.mem, per_submit |-> g.per_submit, params |-> g.params,
             cursor |-> g.cursor, encoder |-> g.encoder, longest |-> g.longest]
    BY DEF Stands
  <2> QED
    BY <2>1 DEF flush
<1>2. IsSeq(<< >>) /\ Len(<< >>) = 0
  BY << >> \in Seq({}) DEF IsSeq
<1>3. Len(g.encoder) \in Nat
  BY SeqIs DEF Stands
<1>4. Stands(h)
  BY <1>1, <1>2, <1>3 DEF Stands
<1>5. Submitted(h) = Submitted(g)
  BY <1>1, NothingEncoded
<1> QED
  BY <1>1, <1>4, <1>5 DEF Follows

\* A parameter block of the pool is not touched while its command waits.
LEMMA AllocKeeps ==
    ASSUME NEW g, NEW value, Stands(g)
    PROVE  /\ Follows(alloc(g, value), g)
           /\ alloc(g, value).encoder = g.encoder
           /\ alloc(g, value).cursor = g.cursor + 1
           /\ alloc(g, value).params[g.cursor + 1] = value
           /\ Submitted(alloc(g, value)) = Submitted(g)
<1> PICK h, ps : h = alloc(g, value) /\ ps = Append(g.params, value)
  OBVIOUS
<1>1. h = [results |-> g.results, mem |-> g.mem, per_submit |-> g.per_submit, params |-> ps,
           cursor |-> g.cursor + 1, encoder |-> g.encoder, longest |-> g.longest]
  <2>1. /\ g = [results |-> g.results, mem |-> g.mem, per_submit |-> g.per_submit, params |-> g.params,
                cursor |-> g.cursor, encoder |-> g.encoder, longest |-> g.longest]
        /\ g.cursor = Len(g.params)
    BY DEF Stands
  <2> QED
    BY <2>1 DEF alloc
<1>2. /\ IsSeq(ps) /\ Len(ps) = g.cursor + 1 /\ ps[g.cursor + 1] = value
      /\ \A i \in 1 .. g.cursor : ps[i] = g.params[i]
      /\ g.cursor \in Nat /\ IsSeq(g.encoder) /\ Len(g.encoder) \in Nat
  <2>1. IsSeq(g.params) /\ g.cursor = Len(g.params) /\ IsSeq(g.encoder)
    BY DEF Stands
  <2> QED
    BY <2>1, AppendIs, SeqIs
<1>3. \A i \in 1 .. Len(g.encoder) : g.encoder[i].slot \in 0 .. g.cursor
  BY DEF Stands
<1>4. Stands(h)
  <2>1. \A i \in 1 .. Len(g.encoder) : g.encoder[i].slot \in 0 .. g.cursor + 1
    BY <1>2, <1>3
  <2> QED
    BY <1>1, <1>2, <2>1 DEF Stands
<1>5. Submitted(h) = Submitted(g)
  <2> PICK n : n = Len(g.encoder)
    OBVIOUS
  <2>1. n \in Nat /\ Len(h.encoder) = n
    BY <1>1, <1>2
  <2>2. PICK f : RanOf(g.results, g.params, g.mem, g.encoder, n, f) /\ Submitted(g) = f[n]
    BY <2>1, SubmittedIs
  <2>3. PICK k : RanOf(h.results, h.params, h.mem, h.encoder, n, k) /\ Submitted(h) = k[n]
    BY <2>1, SubmittedIs
  <2>4. RanOf(g.results, ps, g.mem, g.encoder, n, k)
    BY <1>1, <2>3
  <2>5. ASSUME NEW i \in 1 .. n
        PROVE  Block(g.params, g.encoder[i]) = Block(ps, g.encoder[i])
    BY <1>2, <1>3 DEF Block
  <2>6. f[n] = k[n]
    <3>1. n <= n /\ n \in Nat
      BY <2>1
    <3> PICK table, pt, m0, es : /\ table = g.results /\ pt = g.params
                                 /\ m0 = g.mem /\ es = g.encoder
      OBVIOUS
    <3>2. RanOf(table, pt, m0, es, n, f) /\ RanOf(table, ps, m0, es, n, k)
      BY <2>2, <2>4
    <3>3. \A i \in 1 .. n : es[i] = es[i] /\ Block(pt, es[i]) = Block(ps, es[i])
      BY <2>5
    <3> QED
      BY ONLY <3>1, <3>2, <3>3, RanAgrees
  <2> QED
    BY <2>2, <2>3, <2>6
<1> QED
  BY <1>1, <1>2, <1>4, <1>5 DEF Follows

\* The commands that wait for their submission.
Waiting(g) == {g.encoder[i].command : i \in 1 .. Len(g.encoder)}

\* A command encoded runs after all that were encoded before it, in their
\* submission or in a later one.
LEMMA EncKeeps ==
    ASSUME NEW g, NEW c, NEW slot, Stands(g), slot \in 0 .. g.cursor
    PROVE  /\ Follows(enc(g, c, slot), g)
           /\ Submitted(enc(g, c, slot)) =
                Execute(g.results, IF slot = 0 THEN << >> ELSE g.params[slot], Submitted(g), c)
           /\ Waiting(enc(g, c, slot)) \subseteq Waiting(g) \cup {c}
<1> PICK e, r : /\ e = [command |-> c, slot |-> slot]
                /\ r = IF Len(g.encoder) >= g.per_submit THEN flush(g) ELSE g
  OBVIOUS
<1>1. /\ Follows(r, g) /\ r.params = g.params /\ r.cursor = g.cursor
      /\ Submitted(r) = Submitted(g) /\ Len(r.encoder) < g.per_submit
      /\ Waiting(r) \subseteq Waiting(g)
  <2>1. /\ Len(g.encoder) \in Nat /\ Len(g.encoder) <= g.per_submit /\ g.per_submit \in Nat
        /\ g.per_submit >= 1
    BY SeqIs DEF Stands
  <2>2. Len(<< >>) = 0
    OBVIOUS
  <2>3. CASE Len(g.encoder) >= g.per_submit
    BY <2>1, <2>2, <2>3, FlushKeeps DEF Waiting
  <2>4. CASE ~ (Len(g.encoder) >= g.per_submit)
    BY <2>1, <2>4 DEF Follows
  <2> QED
    BY <2>3, <2>4
<1> PICK h, s : h = enc(g, c, slot) /\ s = Append(r.encoder, e)
  OBVIOUS
<1>2. h = [results |-> r.results, mem |-> r.mem, per_submit |-> r.per_submit, params |-> r.params,
           cursor |-> r.cursor, encoder |-> s, longest |-> r.longest]
  <2>1. r = [results |-> r.results, mem |-> r.mem, per_submit |-> r.per_submit, params |-> r.params,
             cursor |-> r.cursor, encoder |-> r.encoder, longest |-> r.longest]
    BY <1>1 DEF Follows, Stands
  <2>2. h = [r EXCEPT !.encoder = Append(@, e)]
    BY DEF enc
  <2> QED
    BY <2>1, <2>2
<1> PICK n : n = Len(r.encoder)
  OBVIOUS
<1>3. /\ n \in Nat /\ IsSeq(s) /\ Len(s) = n + 1 /\ s[n + 1] = e
      /\ \A i \in 1 .. n : s[i] = r.encoder[i]
  <2>1. IsSeq(r.encoder)
    BY <1>1 DEF Follows, Stands
  <2> QED
    BY <2>1, AppendIs, SeqIs
<1>4. Stands(h)
  <2>1. \A i \in 1 .. n : r.encoder[i].slot \in 0 .. r.cursor
    BY <1>1 DEF Follows, Stands
  <2>2. \A i \in 1 .. n + 1 : s[i].slot \in 0 .. r.cursor
    <3>1. e.slot \in 0 .. r.cursor
      BY <1>1
    <3> TAKE i \in 1 .. n + 1
    <3>2. i = n + 1 \/ i \in 1 .. n
      BY <1>3
    <3> QED
      BY <1>3, <2>1, <3>1, <3>2
  <2>3. n + 1 <= r.per_submit
    <3>1. r.per_submit = g.per_submit /\ r.per_submit \in Nat /\ n < r.per_submit
      BY <1>1 DEF Follows, Stands
    <3> QED
      BY <1>3, <3>1
  <2>4. /\ r.per_submit \in Nat /\ r.per_submit >= 1 /\ IsSeq(r.params)
        /\ r.cursor = Len(r.params) /\ r.longest \in Nat /\ r.longest <= r.per_submit
    BY <1>1 DEF Follows, Stands
  <2> QED
    BY <1>2, <1>3, <2>2, <2>3, <2>4 DEF Stands
<1>5. Submitted(h) = Execute(r.results, Block(r.params, e), Submitted(r), c)
  <2>1. n + 1 \in Nat /\ Len(h.encoder) = n + 1
    BY <1>2, <1>3
  <2>2. PICK f : RanOf(r.results, r.params, r.mem, r.encoder, n, f) /\ Submitted(r) = f[n]
    BY <1>3, SubmittedIs
  <2>3. PICK k : RanOf(h.results, h.params, h.mem, h.encoder, n + 1, k) /\ Submitted(h) = k[n + 1]
    BY <2>1, SubmittedIs
  <2>4. RanOf(r.results, r.params, r.mem, s, n + 1, k)
    BY <1>2, <2>3
  <2>5. k[n + 1] = Execute(r.results, Block(r.params, e), k[n], c)
    <3> PICK i : i = n + 1
      OBVIOUS
    <3>1. i \in 1 .. n + 1 /\ i - 1 = n
      BY <1>3
    <3> PICK table, ps, m0 : table = r.results /\ ps = r.params /\ m0 = r.mem
      OBVIOUS
    <3>4. i \in Nat /\ i \in 1 .. i /\ RanOf(table, ps, m0, s, i, k)
      BY <1>3, <2>4
    <3>5. \A j \in 1 .. i : k[j] = Execute(table, Block(ps, s[j]), k[j - 1], s[j].command)
      BY ONLY <3>4, RanStep
    <3>2. k[i] = Execute(table, Block(ps, s[i]), k[i - 1], s[i].command)
      BY ONLY <3>4, <3>5, Zenon
    <3>3. s[i] = e /\ e.command = c
      BY <1>3
    <3> QED
      BY <3>1, <3>2, <3>3
  <2>6. f[n] = k[n]
    <3> PICK m : m = n + 1
      OBVIOUS
    <3>1. n <= n /\ n <= m /\ n \in Nat /\ m \in Nat
      BY <1>3
    <3> PICK table, ps, m0, es : /\ table = r.results /\ ps = r.params
                                 /\ m0 = r.mem /\ es = r.encoder
      OBVIOUS
    <3>2. \A i \in 1 .. n : es[i] = s[i] /\ Block(ps, es[i]) = Block(ps, s[i])
      BY <1>3
    <3>3. RanOf(table, ps, m0, es, n, f) /\ RanOf(table, ps, m0, s, m, k)
      BY <2>2, <2>4
    <3> QED
      BY ONLY <3>1, <3>2, <3>3, RanAgrees
  <2> QED
    BY <2>2, <2>3, <2>5, <2>6
<1>6. Block(r.params, e) = IF slot = 0 THEN << >> ELSE g.params[slot]
  BY <1>1 DEF Block
<1>7. Waiting(h) \subseteq Waiting(r) \cup {c}
  <2> SUFFICES ASSUME NEW i \in 1 .. n + 1
               PROVE  s[i].command \in Waiting(r) \cup {c}
    <3>1. h.encoder = s /\ Len(h.encoder) = n + 1
      BY <1>2, <1>3
    <3> QED
      BY <3>1 DEF Waiting
  <2>1. i = n + 1 \/ i \in 1 .. n
    BY <1>3
  <2> QED
    BY <1>3, <2>1 DEF Waiting
<1>8. Follows(h, g)
  BY <1>1, <1>2, <1>4 DEF Follows
<1>9. Submitted(h) = Execute(g.results, IF slot = 0 THEN << >> ELSE g.params[slot], Submitted(g), c)
  <2>1. r.results = g.results
    BY <1>1 DEF Follows
  <2> QED
    BY <1>1, <1>5, <1>6, <2>1
<1>10. Waiting(h) \subseteq Waiting(g) \cup {c}
  BY <1>1, <1>7
<1> QED
  BY <1>8, <1>9, <1>10

-----------------------------------------------------------------------------
(* What a call's commands would do if each ran at once.                    *)

Kinds == {"flush", "write", "copy", "dispatch"}

\* A command on its own, with its own parameters.
Now(results, memory, c) ==
    CASE c.do = "flush" -> memory
      [] c.do = "write" -> write_buffer(memory, c)
      [] c.do = "copy" -> Execute(results, << >>, memory, c)
      [] c.do = "dispatch" -> Execute(results, c.params, memory, c)

\* A command that neither reads nor writes the buffer written.
Spares(d, c) == d.op = "zero" /\ d.writes[1] # c.dst

\* Such a command may as well run after the write.
LEMMA SparedWrite ==
    ASSUME NEW results, NEW p, NEW memory, NEW d, NEW c, Spares(d, c)
    PROVE  Execute(results, p, write_buffer(memory, c), d)
           = write_buffer(Execute(results, p, memory, d), c)
<1> PICK b, t : b = c.dst /\ t = d.writes[1]
  OBVIOUS
<1>1. b # t /\ d.op = "zero"
  BY DEF Spares
<1> DEFINE V(old) == IF c.dst[1] \in {"row_ids", "row_offsets", "row_positions"}
                     THEN Overwrite(old, c.value) ELSE c.value
           Z(old) == IF t[1] = "stats"
                     THEN [i \in DOMAIN old |-> IF i < p.dims[1] THEN << >> ELSE old[i]]
                     ELSE << >>
<1>2. \A m : write_buffer(m, c) = [m EXCEPT ![b] = V(@)]
  BY DEF write_buffer
<1>3. ASSUME NEW m PROVE Execute(results, p, m, d) = [m EXCEPT ![t] = Z(@)]
  <2>1. Execute(results, p, m, d) = Zeroed(m, d, p)
    BY ONLY <1>1 DEF Execute, Computing, Accumulating
  <2> QED
    BY <2>1 DEF Zeroed
<1> HIDE DEF V, Z
<1>4. \A m : [[m EXCEPT ![b] = V(@)] EXCEPT ![t] = Z(@)]
             = [[m EXCEPT ![t] = Z(@)] EXCEPT ![b] = V(@)]
  BY <1>1
<1>5. Execute(results, p, write_buffer(memory, c), d)
      = [[memory EXCEPT ![b] = V(@)] EXCEPT ![t] = Z(@)]
  BY ONLY <1>2, <1>3
<1>6. write_buffer(Execute(results, p, memory, d), c)
      = [[memory EXCEPT ![t] = Z(@)] EXCEPT ![b] = V(@)]
  BY ONLY <1>2, <1>3
<1> QED
  BY ONLY <1>4, <1>5, <1>6

\* So may all that wait.
LEMMA WritePastWaiting ==
    ASSUME NEW g, NEW h, NEW c, Stands(g), \A d \in Waiting(g) : Spares(d, c),
           h.results = g.results, h.params = g.params, h.encoder = g.encoder,
           h.mem = write_buffer(g.mem, c)
    PROVE  Submitted(h) = write_buffer(Submitted(g), c)
<1> PICK n : n = Len(g.encoder)
  OBVIOUS
<1>1. n \in Nat
  BY SeqIs DEF Stands
<1>2. PICK f : RanOf(g.results, g.params, g.mem, g.encoder, n, f) /\ Submitted(g) = f[n]
  BY <1>1, SubmittedIs
<1>3. PICK k : RanOf(g.results, g.params, h.mem, g.encoder, n, k) /\ Submitted(h) = k[n]
  BY <1>1, SubmittedIs
<1>4. /\ f[0] = g.mem
      /\ \A i \in 1 .. n : f[i] = Execute(g.results, Block(g.params, g.encoder[i]), f[i - 1],
                                          g.encoder[i].command)
  <2> PICK results, ps, m0, es : results = g.results /\ ps = g.params /\ m0 = g.mem /\ es = g.encoder
    OBVIOUS
  <2>1. RanOf(results, ps, m0, es, n, f)
    BY <1>2
  <2>2. /\ f[0] = m0
        /\ \A i \in 1 .. n : f[i] = Execute(results, Block(ps, es[i]), f[i - 1], es[i].command)
    BY ONLY <1>1, <2>1, RanStep
  <2> QED
    BY <2>2
<1>8. /\ k[0] = h.mem
      /\ \A i \in 1 .. n : k[i] = Execute(g.results, Block(g.params, g.encoder[i]), k[i - 1],
                                          g.encoder[i].command)
  <2> PICK results, ps, m0, es : results = g.results /\ ps = g.params /\ m0 = h.mem /\ es = g.encoder
    OBVIOUS
  <2>1. RanOf(results, ps, m0, es, n, k)
    BY <1>3
  <2>2. /\ k[0] = m0
        /\ \A i \in 1 .. n : k[i] = Execute(results, Block(ps, es[i]), k[i - 1], es[i].command)
    BY ONLY <1>1, <2>1, RanStep
  <2> QED
    BY <2>2
<1> DEFINE Q == {i \in 0 .. n : k[i] = write_buffer(f[i], c)}
<1>5. 0 \in Q
  BY <1>1, <1>4, <1>8
<1>6. ASSUME NEW j \in 0 .. n - 1, j \in Q PROVE j + 1 \in Q
  <2> PICK i, d : i = j + 1 /\ d = g.encoder[i].command
    OBVIOUS
  <2>1. i \in 1 .. n /\ i - 1 = j /\ i \in 0 .. n
    OBVIOUS
  <2> PICK p : p = Block(g.params, g.encoder[i])
    OBVIOUS
  <2>2. f[i] = Execute(g.results, p, f[j], d) /\ k[i] = Execute(g.results, p, k[j], d)
    BY <1>4, <1>8, <2>1
  <2>3. Spares(d, c)
    BY <2>1 DEF Waiting
  <2>4. k[j] = write_buffer(f[j], c)
    BY <1>6
  <2>5. k[i] = write_buffer(f[i], c)
    BY ONLY <2>2, <2>3, <2>4, SparedWrite
  <2> QED
    BY <2>1, <2>5
<1>7. 0 .. n \subseteq Q
  <2> HIDE DEF Q
  <2> QED
    BY <1>1, <1>5, <1>6, Climb
<1> QED
  BY <1>1, <1>2, <1>3, <1>7

\* Encoding a command is as good as running it, as long as no buffer is
\* written past commands that are still to read it.
LEMMA DoInTurn ==
    ASSUME NEW g, NEW c, Stands(g), c.do \in Kinds,
           c.do = "write" => \A d \in Waiting(g) : Spares(d, c)
    PROVE  /\ Follows(Do(g, c), g)
           /\ Submitted(Do(g, c)) = Now(g.results, Submitted(g), c)
           /\ c.do = "flush" => Do(g, c).encoder = << >>
           /\ c.do = "write" => Waiting(Do(g, c)) \subseteq Waiting(g)
           /\ Waiting(Do(g, c)) \subseteq Waiting(g) \cup {c}
<1>1. CASE c.do = "flush"
  <2>1. Do(g, c) = flush(g)
    BY ONLY <1>1, Zenon DEF Do
  <2>2. Now(g.results, Submitted(g), c) = Submitted(g)
    BY ONLY <1>1, Zenon DEF Now
  <2>3. Waiting(flush(g)) = {}
    BY FlushKeeps DEF Waiting
  <2> QED
    BY <1>1, <2>1, <2>2, <2>3, FlushKeeps
<1>2. CASE c.do = "write"
  <2> PICK h : h = Do(g, c)
    OBVIOUS
  <2>1. h = [g EXCEPT !.mem = write_buffer(@, c)]
    BY ONLY <1>2, h = Do(g, c) DEF Do
  <2>2. Now(g.results, Submitted(g), c) = write_buffer(Submitted(g), c)
    BY ONLY <1>2 DEF Now
  <2>3. h = [results |-> g.results, mem |-> write_buffer(g.mem, c), per_submit |-> g.per_submit,
             params |-> g.params, cursor |-> g.cursor, encoder |-> g.encoder,
             longest |-> g.longest]
    <3>1. g = [results |-> g.results, mem |-> g.mem, per_submit |-> g.per_submit, params |-> g.params,
               cursor |-> g.cursor, encoder |-> g.encoder, longest |-> g.longest]
      BY DEF Stands
    <3> QED
      BY <2>1, <3>1
  <2>4. Stands(h)
    BY <2>3 DEF Stands
  <2>5. Submitted(h) = write_buffer(Submitted(g), c)
    BY <1>2, <2>3, WritePastWaiting
  <2>6. Waiting(h) = Waiting(g)
    BY <2>3 DEF Waiting
  <2> QED
    BY <1>2, <2>2, <2>3, <2>4, <2>5, <2>6 DEF Follows
<1>3. CASE c.do = "copy"
  <2>1. Do(g, c) = enc(g, c, 0)
    BY ONLY <1>3 DEF Do
  <2>2. Now(g.results, Submitted(g), c) = Execute(g.results, << >>, Submitted(g), c)
    BY ONLY <1>3 DEF Now
  <2>3. 0 \in 0 .. g.cursor
    BY SeqIs DEF Stands
  <2> QED
    BY <1>3, <2>1, <2>2, <2>3, EncKeeps
<1>4. CASE c.do = "dispatch"
  <2> PICK h : h = alloc(g, c.params)
    OBVIOUS
  <2>1. Do(g, c) = enc(h, c, h.cursor)
    BY ONLY <1>4, h = alloc(g, c.params) DEF Do
  <2>2. Now(g.results, Submitted(g), c) = Execute(g.results, c.params, Submitted(g), c)
    BY ONLY <1>4 DEF Now
  <2>3. /\ Follows(h, g) /\ h.cursor = g.cursor + 1 /\ h.params[g.cursor + 1] = c.params
        /\ Submitted(h) = Submitted(g)
    BY AllocKeeps
  <2>4. h.cursor \in 0 .. h.cursor /\ h.cursor # 0
    <3>1. g.cursor \in Nat
      BY SeqIs DEF Stands
    <3> QED
      BY <2>3, <3>1
  <2>5. Stands(h) /\ h.results = g.results /\ h.per_submit = g.per_submit
    BY <2>3 DEF Follows
  <2>7. Waiting(h) = Waiting(g)
    BY AllocKeeps DEF Waiting
  <2>6. /\ Follows(enc(h, c, h.cursor), h)
        /\ Waiting(enc(h, c, h.cursor)) \subseteq Waiting(h) \cup {c}
        /\ Submitted(enc(h, c, h.cursor)) = Execute(h.results, h.params[h.cursor], Submitted(h), c)
    BY <2>4, <2>5, EncKeeps
  <2> QED
    BY <1>4, <2>1, <2>2, <2>3, <2>5, <2>6, <2>7 DEF Follows
<1> QED
  BY <1>1, <1>2, <1>3, <1>4 DEF Kinds

-----------------------------------------------------------------------------
(* The state of a call, command by command and phase by phase.             *)

\* The states from one command of a sequence to another.
PartOf(g0, s, from, to, f) ==
    f = [i \in from .. to |->
           IF i = from THEN g0
           ELSE IF f[i - 1].cursor >= 0 THEN Do(f[i - 1], s[i]) ELSE f[i - 1]]

\* They come about.
LEMMA PartExists ==
    ASSUME NEW g0, NEW s, NEW from \in Nat, NEW n \in Nat
    PROVE  \E f : PartOf(g0, s, from, from + n, f)
<1> DEFINE Then(g, i) == IF g.cursor >= 0 THEN Do(g, s[i]) ELSE g
           Q == {k \in 0 .. n : \E f : PartOf(g0, s, from, from + k, f)}
           Z == [i \in from .. from |-> g0]
<1> HIDE DEF Then
<1>1. 0 \in Q
  <2>1. from + 0 = from /\ \A i \in from .. from : i = from
    OBVIOUS
  <2>2. PartOf(g0, s, from, from, Z)
    BY <2>1 DEF PartOf
  <2> QED
    BY <2>1, <2>2
<1>2. ASSUME NEW k \in 0 .. n - 1, k \in Q PROVE k + 1 \in Q
  <2> PICK a, b : a = from + k /\ b = from + (k + 1)
    OBVIOUS
  <2>1. PICK f : PartOf(g0, s, from, a, f)
    BY <1>2
  <2>2. f = [i \in from .. a |-> IF i = from THEN g0 ELSE Then(f[i - 1], i)]
    BY ONLY <2>1, Zenon DEF PartOf, Then
  <2>3. k + 1 \in 0 .. n /\ b = a + 1 /\ a \in Nat /\ from <= a
    OBVIOUS
  <2> PICK g : g = [i \in from .. b |-> IF i = from THEN g0 ELSE Then(f[i - 1], i)]
    OBVIOUS
  <2>4. ASSUME NEW i \in from .. b, i # from PROVE g[i - 1] = f[i - 1]
    <3> PICK j : j = i - 1
      OBVIOUS
    <3>1. j \in from .. a /\ j \in from .. b
      BY <2>3, <2>4
    <3>2. f[j] = IF j = from THEN g0 ELSE Then(f[j - 1], j)
      BY ONLY <2>2, <3>1, Zenon
    <3>3. g[j] = IF j = from THEN g0 ELSE Then(f[j - 1], j)
      BY <3>1
    <3> QED
      BY <3>2, <3>3
  <2>5. \A i \in from .. b : (IF i = from THEN g0 ELSE Then(f[i - 1], i))
                              = (IF i = from THEN g0 ELSE Then(g[i - 1], i))
    BY <2>4
  <2>6. g = [i \in from .. b |-> IF i = from THEN g0 ELSE Then(g[i - 1], i)]
    BY <2>5
  <2>7. PartOf(g0, s, from, b, g)
    BY ONLY <2>6, Zenon DEF PartOf, Then
  <2> QED
    BY <2>3, <2>7
<1>3. 0 .. n \subseteq Q
  <2> HIDE DEF Q
  <2> QED
    BY <1>1, <1>2, Climb
<1> QED
  BY <1>3

\* States that follow one another as the commands from one to another do.
Chain(g0, s, from, to, f) ==
    f[from] = g0 /\ \A i \in from + 1 .. to : f[i - 1].cursor >= 0 => f[i] = Do(f[i - 1], s[i])

\* The last state of a part is that of a chain.
LEMMA PartIs ==
    ASSUME NEW g0, NEW s, NEW from \in Nat, NEW to \in Nat, from <= to
    PROVE  \E f : Chain(g0, s, from, to, f) /\ EncodedPart(g0, s, from, to) = f[to]
<1> DEFINE f == CHOOSE h : PartOf(g0, s, from, to, h)
<1>1. PartOf(g0, s, from, to, f)
  <2> PICK n \in Nat : to = from + n
    <3>1. to - from \in Nat /\ to = from + (to - from)
      OBVIOUS
    <3> QED
      BY <3>1
  <2> QED
    BY PartExists
<1>2. EncodedPart(g0, s, from, to) = f[to]
  BY ONLY DEF EncodedPart, PartOf
<1> HIDE DEF f
<1>3. from \in from .. to /\ \A i \in from + 1 .. to : i \in from .. to /\ i # from
  OBVIOUS
<1>4. f[from] = g0
  BY ONLY <1>1, <1>3, Zenon DEF PartOf
<1>5. ASSUME NEW i \in from + 1 .. to, f[i - 1].cursor >= 0
      PROVE  f[i] = Do(f[i - 1], s[i])
  BY ONLY <1>1, <1>3, <1>5, Zenon DEF PartOf
<1> QED
  BY <1>2, <1>4, <1>5 DEF Chain

\* The states after the first parts, for each number of them.
PartsOf(g0, s, n, f) ==
    f = [k \in 0 .. n |->
           IF k = 0 THEN g0
           ELSE IF f[k - 1].cursor >= 0
                THEN EncodedPart(f[k - 1], s, PartEnd(k - 1, Len(s)), PartEnd(k, Len(s)))
                ELSE f[k - 1]]

\* They come about.
LEMMA PartsExist ==
    ASSUME NEW g0, NEW s, NEW n \in Nat
    PROVE  \E f : PartsOf(g0, s, n, f)
<1> DEFINE Then(g, i) == IF g.cursor >= 0
                         THEN EncodedPart(g, s, PartEnd(i - 1, Len(s)), PartEnd(i, Len(s))) ELSE g
           Q == {k \in 0 .. n : \E f : PartsOf(g0, s, k, f)}
           Z == [i \in 0 .. 0 |-> g0]
<1> HIDE DEF Then
<1>1. 0 \in Q
  <2>1. PartsOf(g0, s, 0, Z)
    BY DEF PartsOf
  <2> QED
    BY <2>1
<1>2. ASSUME NEW k \in 0 .. n - 1, k \in Q PROVE k + 1 \in Q
  <2>1. PICK f : PartsOf(g0, s, k, f)
    BY <1>2
  <2>2. f = [i \in 0 .. k |-> IF i = 0 THEN g0 ELSE Then(f[i - 1], i)]
    BY ONLY <2>1, Zenon DEF PartsOf, Then
  <2>3. k \in Nat /\ k + 1 \in 0 .. n
    OBVIOUS
  <2> PICK g : g = [i \in 0 .. k + 1 |-> IF i = 0 THEN g0 ELSE Then(f[i - 1], i)]
    OBVIOUS
  <2>4. ASSUME NEW i \in 0 .. k + 1, i # 0 PROVE g[i - 1] = f[i - 1]
    <3> PICK j : j = i - 1
      OBVIOUS
    <3>1. j \in 0 .. k /\ j \in 0 .. k + 1
      BY <2>3, <2>4
    <3>2. f[j] = IF j = 0 THEN g0 ELSE Then(f[j - 1], j)
      BY ONLY <2>2, <3>1, Zenon
    <3>3. g[j] = IF j = 0 THEN g0 ELSE Then(f[j - 1], j)
      BY <3>1
    <3> QED
      BY <3>2, <3>3
  <2>5. \A i \in 0 .. k + 1 : (IF i = 0 THEN g0 ELSE Then(f[i - 1], i))
                              = (IF i = 0 THEN g0 ELSE Then(g[i - 1], i))
    BY <2>4
  <2>6. g = [i \in 0 .. k + 1 |-> IF i = 0 THEN g0 ELSE Then(g[i - 1], i)]
    BY <2>5
  <2>7. PartsOf(g0, s, k + 1, g)
    BY ONLY <2>6, Zenon DEF PartsOf, Then
  <2> QED
    BY <2>3, <2>7
<1>3. 0 .. n \subseteq Q
  <2> HIDE DEF Q
  <2> QED
    BY <1>1, <1>2, Climb
<1> QED
  BY <1>3

\* The last state of a sequence is that of a chain from its first command to
\* its last.
LEMMA EncodingIs ==
    ASSUME NEW g0, NEW s, Len(s) \in Nat
    PROVE  \E f : Chain(g0, s, 0, Len(s), f) /\ Encoded(g0, s) = f[Len(s)]
<1> DEFINE n == Len(s)
           parts == n \div PartLength + 1
           p == CHOOSE h : PartsOf(g0, s, parts, h)
           End(k) == PartEnd(k, n)
<1>1. parts \in Nat /\ PartLength * parts >= n
  BY DEF PartLength
<1>2. PartsOf(g0, s, parts, p)
  BY <1>1, PartsExist
<1>3. Encoded(g0, s) = p[parts]
  BY ONLY DEF Encoded, PartsOf
<1> HIDE DEF p, parts, n
<1>4. n \in Nat /\ n = Len(s)
  BY DEF n
<1>5. \A k \in Nat : /\ End(k) \in 0 .. n /\ End(k) <= End(k + 1)
  BY <1>4 DEF PartEnd, PartLength
<1>6. End(0) = 0 /\ End(parts) = n
  BY <1>1, <1>4 DEF PartEnd, PartLength
<1> HIDE DEF End
<1>7. p[0] = g0
  <2>1. 0 \in 0 .. parts
    BY <1>1
  <2> QED
    BY ONLY <1>2, <2>1, Zenon DEF PartsOf
<1>8. ASSUME NEW k \in 0 .. parts - 1
      PROVE  p[k + 1] = IF p[k].cursor >= 0 THEN EncodedPart(p[k], s, End(k), End(k + 1)) ELSE p[k]
  <2> PICK i : i = k + 1
    OBVIOUS
  <2>1. i \in 0 .. parts /\ i # 0 /\ i - 1 = k
    BY <1>1
  <2>2. p[i] = IF p[i - 1].cursor >= 0
               THEN EncodedPart(p[i - 1], s, PartEnd(i - 1, Len(s)), PartEnd(i, Len(s)))
               ELSE p[i - 1]
    BY ONLY <1>2, <2>1, Zenon DEF PartsOf
  <2> QED
    BY <1>4, <2>1, <2>2 DEF End
<1> DEFINE Q == {k \in 0 .. parts : \E f : Chain(g0, s, 0, End(k), f) /\ p[k] = f[End(k)]}
<1>9. 0 \in Q
  <2> PICK f : f = [i \in 0 .. 0 |-> g0]
    OBVIOUS
  <2>1. f[0] = g0 /\ \A i \in 0 + 1 .. 0 : FALSE
    OBVIOUS
  <2> QED
    BY <1>1, <1>6, <1>7, <2>1 DEF Chain
<1>10. ASSUME NEW k \in 0 .. parts - 1, k \in Q PROVE k + 1 \in Q
  <2> PICK i : i = k + 1
    OBVIOUS
  <2> PICK a, b : a = End(k) /\ b = End(i)
    OBVIOUS
  <2>1. i \in 0 .. parts /\ a \in Nat /\ b \in Nat /\ a <= b
    BY <1>1, <1>4, <1>5
  <2>2. PICK f : Chain(g0, s, 0, a, f) /\ p[k] = f[a]
    BY <1>10
  <2>3. \E h : h[a] = p[k] /\ p[i] = h[b]
               /\ \A j \in a + 1 .. b : h[j - 1].cursor >= 0 => h[j] = Do(h[j - 1], s[j])
    <3>1. CASE p[k].cursor >= 0
      <4>1. p[i] = EncodedPart(p[k], s, a, b)
        BY <1>8, <3>1
      <4>2. PICK h : Chain(p[k], s, a, b, h) /\ EncodedPart(p[k], s, a, b) = h[b]
        <5> PICK first : first = p[k]
          OBVIOUS
        <5> QED
          BY <2>1, PartIs
      <4> QED
        BY <4>1, <4>2 DEF Chain
    <3>2. CASE ~ p[k].cursor >= 0
      <4>1. p[i] = p[k]
        BY <1>8, <3>2
      <4> PICK h : h = [j \in a .. b |-> p[k]]
        OBVIOUS
      <4>2. a \in a .. b /\ b \in a .. b /\ \A j \in a + 1 .. b : j - 1 \in a .. b
        BY <2>1
      <4> QED
        BY <3>2, <4>1, <4>2
    <3> QED
      BY <3>1, <3>2
  <2>4. PICK h : /\ h[a] = p[k] /\ p[i] = h[b]
                 /\ \A j \in a + 1 .. b : h[j - 1].cursor >= 0 => h[j] = Do(h[j - 1], s[j])
    BY <2>3
  <2> PICK c : c = [j \in 0 .. b |-> IF j <= a THEN f[j] ELSE h[j]]
    OBVIOUS
  <2>5. /\ \A j \in 0 .. a : c[j] = f[j]
        /\ \A j \in a .. b : c[j] = h[j]
    BY <2>1, <2>2, <2>4
  <2>6. c[0] = g0 /\ c[b] = p[i]
    BY <2>1, <2>2, <2>4, <2>5 DEF Chain
  <2>7. ASSUME NEW j \in 0 + 1 .. b, c[j - 1].cursor >= 0 PROVE c[j] = Do(c[j - 1], s[j])
    <3> PICK o : o = j - 1
      OBVIOUS
    <3>1. CASE j <= a
      <4>1. j \in 0 .. a /\ o \in 0 .. a /\ j \in 0 + 1 .. a
        BY <2>1, <3>1
      <4>2. c[j] = f[j] /\ c[o] = f[o]
        BY <2>5, <4>1
      <4>3. f[o].cursor >= 0 => f[j] = Do(f[o], s[j])
        BY <2>2, <4>1 DEF Chain
      <4> QED
        BY <2>7, <4>2, <4>3
    <3>2. CASE j > a
      <4>1. j \in a .. b /\ o \in a .. b /\ j \in a + 1 .. b
        BY <2>1, <3>2
      <4>2. c[j] = h[j] /\ c[o] = h[o]
        BY <2>5, <4>1
      <4>3. h[o].cursor >= 0 => h[j] = Do(h[o], s[j])
        BY <2>4, <4>1
      <4> QED
        BY <2>7, <4>2, <4>3
    <3> QED
      BY <2>1, <3>1, <3>2
  <2>8. Chain(g0, s, 0, b, c)
    BY <2>6, <2>7 DEF Chain
  <2> QED
    BY <2>1, <2>6, <2>8
<1>11. 0 .. parts \subseteq Q
  <2> HIDE DEF Q
  <2> QED
    BY <1>1, <1>9, <1>10, Climb
<1>12. \E f : Chain(g0, s, 0, n, f) /\ p[parts] = f[n]
  BY <1>1, <1>6, <1>11
<1> QED
  BY <1>3, <1>4, <1>12

\* The states after the first phases, for each number of them.
PhasingOf(g0, phases, n, f) ==
    f = [i \in 0 .. n |->
           IF i = 0 THEN g0
           ELSE IF f[i - 1].cursor >= 0 THEN Encoded(f[i - 1], phases[i]) ELSE f[i - 1]]

\* They come about.
LEMMA PhasingExists ==
    ASSUME NEW g0, NEW phases, NEW n \in Nat
    PROVE  \E f : PhasingOf(g0, phases, n, f)
<1> DEFINE Then(g, i) == IF g.cursor >= 0 THEN Encoded(g, phases[i]) ELSE g
           Q == {k \in 0 .. n : \E f : PhasingOf(g0, phases, k, f)}
           Z == [i \in 0 .. 0 |-> g0]
<1> HIDE DEF Then
<1>1. 0 \in Q
  <2>1. PhasingOf(g0, phases, 0, Z)
    BY DEF PhasingOf
  <2> QED
    BY <2>1
<1>2. ASSUME NEW k \in 0 .. n - 1, k \in Q PROVE k + 1 \in Q
  <2>1. PICK f : PhasingOf(g0, phases, k, f)
    BY <1>2
  <2>2. f = [i \in 0 .. k |-> IF i = 0 THEN g0 ELSE Then(f[i - 1], i)]
    BY ONLY <2>1, Zenon DEF PhasingOf, Then
  <2>3. k \in Nat /\ k + 1 \in 0 .. n
    OBVIOUS
  <2> PICK g : g = [i \in 0 .. k + 1 |-> IF i = 0 THEN g0 ELSE Then(f[i - 1], i)]
    OBVIOUS
  <2>4. ASSUME NEW i \in 0 .. k + 1, i # 0 PROVE g[i - 1] = f[i - 1]
    <3> PICK j : j = i - 1
      OBVIOUS
    <3>1. j \in 0 .. k /\ j \in 0 .. k + 1
      BY <2>3, <2>4
    <3>2. f[j] = IF j = 0 THEN g0 ELSE Then(f[j - 1], j)
      BY ONLY <2>2, <3>1, Zenon
    <3>3. g[j] = IF j = 0 THEN g0 ELSE Then(f[j - 1], j)
      BY <3>1
    <3> QED
      BY <3>2, <3>3
  <2>5. \A i \in 0 .. k + 1 : (IF i = 0 THEN g0 ELSE Then(f[i - 1], i))
                              = (IF i = 0 THEN g0 ELSE Then(g[i - 1], i))
    BY <2>4
  <2>6. g = [i \in 0 .. k + 1 |-> IF i = 0 THEN g0 ELSE Then(g[i - 1], i)]
    BY <2>5
  <2>7. PhasingOf(g0, phases, k + 1, g)
    BY ONLY <2>6, Zenon DEF PhasingOf, Then
  <2> QED
    BY <2>3, <2>7
<1>3. 0 .. n \subseteq Q
  <2> HIDE DEF Q
  <2> QED
    BY <1>1, <1>2, Climb
<1> QED
  BY <1>3

\* How one follows another.
LEMMA PhasingStep ==
    ASSUME NEW g0, NEW phases, NEW n \in Nat, NEW f, PhasingOf(g0, phases, n, f)
    PROVE  /\ f[0] = g0
           /\ \A i \in 1 .. n : f[i - 1].cursor >= 0 => f[i] = Encoded(f[i - 1], phases[i])
<1>1. 0 \in 0 .. n /\ \A i \in 1 .. n : i \in 0 .. n /\ i # 0
  OBVIOUS
<1>2. f[0] = g0
  BY ONLY <1>1, PhasingOf(g0, phases, n, f), Zenon DEF PhasingOf
<1>3. ASSUME NEW i \in 1 .. n, f[i - 1].cursor >= 0
      PROVE  f[i] = Encoded(f[i - 1], phases[i])
  BY ONLY <1>1, <1>3, PhasingOf(g0, phases, n, f), Zenon DEF PhasingOf
<1> QED
  BY <1>2, <1>3

\* The last of them is what the call makes.
LEMMA PhasingIs ==
    ASSUME NEW g0, NEW phases, Len(phases) \in Nat
    PROVE  \E f : PhasingOf(g0, phases, Len(phases), f) /\ EncodedInPhases(g0, phases) = f[Len(phases)]
<1> DEFINE f == CHOOSE h : PhasingOf(g0, phases, Len(phases), h)
<1>1. PhasingOf(g0, phases, Len(phases), f)
  BY PhasingExists
<1>2. EncodedInPhases(g0, phases) = f[Len(phases)]
  BY ONLY DEF EncodedInPhases, PhasingOf
<1> HIDE DEF f
<1> QED
  BY <1>1, <1>2

-----------------------------------------------------------------------------
(* How commands are cut into submissions does not matter.                  *)

\* Memory b is what the commands make of memory a, one at a time.
Turns(results, a, s, b) ==
    \E m : /\ m[0] = a /\ m[Len(s)] = b
           /\ \A i \in 1 .. Len(s) : m[i] = Now(results, m[i - 1], s[i])

\* The write at place i overtakes only commands that spare its buffer.
Overtakes(s, i) ==
    \E k \in 0 .. i - 1 :
        /\ k = 0 \/ s[k].do = "flush"
        /\ \A j \in k + 1 .. i - 1 : s[j].do = "write" \/ Spares(s[j], s[i])

\* Commands that are all submitted in the end, and write to no buffer that
\* one still waiting is to read or write.
Complete(s) ==
    /\ IsSeq(s) /\ Len(s) > 0 /\ s[Len(s)].do = "flush"
    /\ \A i \in 1 .. Len(s) : s[i].do \in Kinds /\ (s[i].do = "write" => Overtakes(s, i))

\* Encoded, they make what they would make one at a time.
LEMMA EncodedInTurn ==
    ASSUME NEW g, NEW s, Stands(g), g.encoder = << >>, Complete(s)
    PROVE  /\ Follows(Encoded(g, s), g) /\ Encoded(g, s).encoder = << >>
           /\ Turns(g.results, g.mem, s, Encoded(g, s).mem)
<1> PICK n : n = Len(s)
  OBVIOUS
<1>1. /\ n \in Nat /\ n > 0 /\ s[n].do = "flush"
      /\ \A i \in 1 .. n : s[i].do \in Kinds /\ (s[i].do = "write" => Overtakes(s, i))
  BY SeqIs DEF Complete
<1>2. PICK f : Chain(g, s, 0, n, f) /\ Encoded(g, s) = f[n]
  BY <1>1, EncodingIs
<1>3. f[0] = g /\ \A i \in 1 .. n : f[i - 1].cursor >= 0 => f[i] = Do(f[i - 1], s[i])
  BY <1>1, <1>2 DEF Chain
<1> DEFINE Since(d, k) == \E j \in 1 .. k : /\ d = s[j] /\ d.do # "write"
                                             /\ \A o \in j .. k : s[o].do # "flush"
           Fine(k) == /\ Follows(f[k], g)
                      /\ k > 0 /\ s[k].do = "flush" => f[k].encoder = << >>
                      /\ \A d \in Waiting(f[k]) : Since(d, k)
                      /\ k > 0 => Submitted(f[k]) = Now(g.results, Submitted(f[k - 1]), s[k])
           Q == {k \in 0 .. n : Fine(k)}
<1>4. 0 \in Q
  BY <1>1, <1>3 DEF Follows, Waiting
<1>5. ASSUME NEW k \in 0 .. n - 1, k \in Q PROVE k + 1 \in Q
  <2> PICK i : i = k + 1
    OBVIOUS
  <2>1. i \in 1 .. n /\ i - 1 = k /\ i \in 0 .. n /\ i > 0
    OBVIOUS
  <2>2. Stands(f[k]) /\ f[k].results = g.results /\ f[k].per_submit = g.per_submit
    BY <1>5 DEF Follows
  <2>3. f[i] = Do(f[k], s[i])
    <3>1. f[k].cursor >= 0
      BY <2>2, SeqIs DEF Stands
    <3> QED
      BY <1>3, <2>1, <3>1
  <2>4. s[i].do \in Kinds
    BY <1>1, <2>1
  <2>5. ASSUME s[i].do = "write", NEW d \in Waiting(f[k]) PROVE Spares(d, s[i])
    <3>1. PICK p \in 0 .. k : /\ p = 0 \/ s[p].do = "flush"
                              /\ \A j \in p + 1 .. k : s[j].do = "write" \/ Spares(s[j], s[i])
      BY <1>1, <2>1, <2>5 DEF Overtakes
    <3>2. PICK j \in 1 .. k : d = s[j] /\ d.do # "write" /\ \A o \in j .. k : s[o].do # "flush"
      BY <1>5
    <3>3. j \in p + 1 .. k
      BY <3>1, <3>2
    <3> QED
      BY <3>1, <3>2, <3>3
  <2>6. /\ Follows(f[i], f[k])
        /\ Submitted(f[i]) = Now(g.results, Submitted(f[k]), s[i])
        /\ s[i].do = "flush" => f[i].encoder = << >>
        /\ s[i].do = "write" => Waiting(f[i]) \subseteq Waiting(f[k])
        /\ Waiting(f[i]) \subseteq Waiting(f[k]) \cup {s[i]}
    BY <2>2, <2>3, <2>4, <2>5, DoInTurn
  <2>7. Follows(f[i], g)
    BY <2>2, <2>6 DEF Follows
  <2>8. ASSUME NEW d \in Waiting(f[i]) PROVE Since(d, i)
    <3>1. s[i].do # "flush"
      <4>1. Waiting(f[i]) # {}
        BY <2>8
      <4> QED
        BY <2>6, <4>1 DEF Waiting
    <3>2. CASE d \in Waiting(f[k])
      <4>1. PICK j \in 1 .. k : d = s[j] /\ d.do # "write" /\ \A o \in j .. k : s[o].do # "flush"
        BY <1>5, <3>2
      <4>2. \A o \in j .. i : o = i \/ o \in j .. k
        BY <2>1
      <4>3. j \in 1 .. i
        BY <2>1
      <4> QED
        BY <3>1, <4>1, <4>2, <4>3
    <3>3. CASE d \notin Waiting(f[k])
      <4>1. d = s[i] /\ d.do # "write"
        BY <2>6, <2>8, <3>3
      <4>2. i \in 1 .. i /\ \A o \in i .. i : o = i
        BY <2>1
      <4> QED
        BY <3>1, <4>1, <4>2
    <3> QED
      BY <3>2, <3>3
  <2> HIDE DEF Since
  <2> QED
    BY <2>1, <2>6, <2>7, <2>8
<1>6. \A k \in 0 .. n : Fine(k)
  <2>1. 0 .. n \subseteq Q
    <3> HIDE DEF Q
    <3> QED
      BY <1>1, <1>4, <1>5, Climb
  <2> QED
    BY <2>1
<1> HIDE DEF Fine, Q
<1>7. Follows(f[n], g) /\ f[n].encoder = << >>
  BY <1>1, <1>6 DEF Fine
<1>8. Turns(g.results, g.mem, s, f[n].mem)
  <2> PICK m : m = [k \in 0 .. n |-> Submitted(f[k])]
    OBVIOUS
  <2>1. m[0] = g.mem
    <3>1. 0 \in 0 .. n
      BY <1>1
    <3> QED
      BY <1>3, <3>1, NothingEncoded
  <2>2. m[n] = f[n].mem
    <3>1. n \in 0 .. n
      BY <1>1
    <3> QED
      BY <1>7, <3>1, NothingEncoded
  <2>3. ASSUME NEW i \in 1 .. n PROVE m[i] = Now(g.results, m[i - 1], s[i])
    <3> PICK j : j = i - 1
      OBVIOUS
    <3>1. i \in 0 .. n /\ j \in 0 .. n /\ i > 0
      BY <1>1
    <3>2. Submitted(f[i]) = Now(g.results, Submitted(f[i - 1]), s[i])
      BY <1>6, <3>1 DEF Fine
    <3>3. m[i] = Submitted(f[i]) /\ m[j] = Submitted(f[j])
      BY <3>1
    <3> QED
      BY <3>2, <3>3
  <2> QED
    BY <2>1, <2>2, <2>3 DEF Turns
<1> QED
  BY <1>2, <1>7, <1>8

\* A call in phases: each makes of the memory it finds what its commands
\* make of it one at a time.
LEMMA PhasesInTurn ==
    ASSUME NEW g, NEW phases, NEW n \in Nat, Len(phases) = n, Stands(g), g.encoder = << >>,
           \A k \in 1 .. n : Complete(phases[k])
    PROVE  /\ Follows(EncodedInPhases(g, phases), g)
           /\ \E m : /\ m[0] = g.mem /\ m[n] = EncodedInPhases(g, phases).mem
                     /\ \A k \in 1 .. n : Turns(g.results, m[k - 1], phases[k], m[k])
<1>1. PICK f : PhasingOf(g, phases, n, f) /\ EncodedInPhases(g, phases) = f[n]
  BY PhasingIs
<1>2. /\ f[0] = g
      /\ \A i \in 1 .. n : f[i - 1].cursor >= 0 => f[i] = Encoded(f[i - 1], phases[i])
  BY <1>1, PhasingStep
<1> DEFINE Fine(k) == /\ Follows(f[k], g) /\ f[k].encoder = << >>
                      /\ k > 0 => Turns(g.results, f[k - 1].mem, phases[k], f[k].mem)
           Q == {k \in 0 .. n : Fine(k)}
<1>3. 0 \in Q
  BY <1>2 DEF Follows
<1>4. ASSUME NEW k \in 0 .. n - 1, k \in Q PROVE k + 1 \in Q
  <2> PICK i : i = k + 1
    OBVIOUS
  <2>1. i \in 1 .. n /\ i - 1 = k /\ i \in 0 .. n /\ i > 0
    OBVIOUS
  <2>2. Stands(f[k]) /\ f[k].results = g.results /\ f[k].per_submit = g.per_submit
    BY <1>4 DEF Follows
  <2>3. f[i] = Encoded(f[k], phases[i])
    <3>1. f[k].cursor >= 0
      BY <2>2, SeqIs DEF Stands
    <3> QED
      BY <1>2, <2>1, <3>1
  <2>4. /\ Follows(f[i], f[k]) /\ f[i].encoder = << >>
        /\ Turns(g.results, f[k].mem, phases[i], f[i].mem)
    BY <1>4, <2>1, <2>2, <2>3, EncodedInTurn
  <2>5. Follows(f[i], g)
    BY <2>2, <2>4 DEF Follows
  <2> QED
    BY <2>1, <2>4, <2>5
<1>5. \A k \in 0 .. n : Fine(k)
  <2>1. 0 .. n \subseteq Q
    <3> HIDE DEF Q
    <3> QED
      BY <1>3, <1>4, Climb
  <2> QED
    BY <2>1
<1> HIDE DEF Fine, Q
<1>6. Follows(f[n], g)
  BY <1>5 DEF Fine
<1>7. \E m : /\ m[0] = g.mem /\ m[n] = f[n].mem
             /\ \A k \in 1 .. n : Turns(g.results, m[k - 1], phases[k], m[k])
  <2> PICK m : m = [k \in 0 .. n |-> f[k].mem]
    OBVIOUS
  <2>1. m[0] = g.mem /\ m[n] = f[n].mem
    BY <1>2
  <2>2. ASSUME NEW k \in 1 .. n PROVE Turns(g.results, m[k - 1], phases[k], m[k])
    <3> PICK j : j = k - 1
      OBVIOUS
    <3>1. k \in 0 .. n /\ j \in 0 .. n /\ k > 0
      OBVIOUS
    <3>2. Turns(g.results, f[j].mem, phases[k], f[k].mem)
      BY <1>5, <3>1 DEF Fine
    <3>3. m[k] = f[k].mem /\ m[j] = f[j].mem
      BY <3>1
    <3> QED
      BY <3>2, <3>3
  <2> QED
    BY <2>1, <2>2
<1> QED
  BY <1>1, <1>6, <1>7

\* What commands make of a memory one at a time is one memory.
LEMMA TurnsAgree ==
    ASSUME NEW results, NEW a, NEW s, IsSeq(s), NEW b, NEW c, Turns(results, a, s, b), Turns(results, a, s, c)
    PROVE  b = c
<1> PICK n : n = Len(s)
  OBVIOUS
<1>1. n \in Nat
  BY SeqIs
<1>2. PICK f : /\ f[0] = a /\ f[n] = b
               /\ \A i \in 1 .. n : f[i] = Now(results, f[i - 1], s[i])
  BY DEF Turns
<1>3. PICK g : /\ g[0] = a /\ g[n] = c
               /\ \A i \in 1 .. n : g[i] = Now(results, g[i - 1], s[i])
  BY DEF Turns
<1> DEFINE Q == {k \in 0 .. n : f[k] = g[k]}
<1>4. 0 \in Q
  BY <1>1, <1>2, <1>3
<1>5. ASSUME NEW k \in 0 .. n - 1, k \in Q PROVE k + 1 \in Q
  <2> PICK i : i = k + 1
    OBVIOUS
  <2>1. i \in 1 .. n /\ i - 1 = k /\ i \in 0 .. n
    OBVIOUS
  <2>2. f[i] = Now(results, f[k], s[i]) /\ g[i] = Now(results, g[k], s[i])
    BY <1>2, <1>3, <2>1
  <2> QED
    BY <1>5, <2>1, <2>2
<1>6. 0 .. n \subseteq Q
  <2> HIDE DEF Q
  <2> QED
    BY <1>1, <1>4, <1>5, Climb
<1> QED
  BY <1>1, <1>2, <1>3, <1>6

\* The first commands make a memory the others go on from.
LEMMA TurnsSplit ==
    ASSUME NEW results, NEW a, NEW s, NEW t, NEW c, IsSeq(s), IsSeq(t), Turns(results, a, s \o t, c)
    PROVE  \E b : Turns(results, a, s, b) /\ Turns(results, b, t, c)
<1> PICK n, k : n = Len(s) /\ k = Len(t)
  OBVIOUS
<1>1. /\ n \in Nat /\ k \in Nat /\ Len(s \o t) = n + k
      /\ \A i \in 1 .. n : (s \o t)[i] = s[i]
      /\ \A i \in 1 .. k : (s \o t)[n + i] = t[i]
  BY ConcatIs, SeqIs
<1>2. PICK m : /\ m[0] = a /\ m[n + k] = c
               /\ \A i \in 1 .. n + k : m[i] = Now(results, m[i - 1], (s \o t)[i])
  BY <1>1 DEF Turns
<1>3. Turns(results, a, s, m[n])
  <2>1. \A i \in 1 .. n : m[i] = Now(results, m[i - 1], s[i])
    BY <1>1, <1>2
  <2> QED
    BY <1>2, <2>1 DEF Turns
<1>4. Turns(results, m[n], t, c)
  <2> PICK h : h = [i \in 0 .. k |-> m[n + i]]
    OBVIOUS
  <2>1. h[0] = m[n] /\ h[k] = c
    BY <1>1, <1>2
  <2>2. ASSUME NEW i \in 1 .. k PROVE h[i] = Now(results, h[i - 1], t[i])
    <3> PICK j, o : j = i - 1 /\ o = n + i
      OBVIOUS
    <3>1. i \in 0 .. k /\ j \in 0 .. k /\ o \in 1 .. n + k /\ o - 1 = n + j
      BY <1>1
    <3>2. h[i] = m[o] /\ h[j] = m[o - 1]
      BY <3>1
    <3>3. m[o] = Now(results, m[o - 1], (s \o t)[o])
      BY <1>2, <3>1
    <3>4. (s \o t)[o] = t[i]
      BY <1>1
    <3> QED
      BY <3>2, <3>3, <3>4
  <2>3. /\ h[0] = m[n] /\ h[Len(t)] = c
        /\ \A i \in 1 .. Len(t) : h[i] = Now(results, h[i - 1], t[i])
    <3>1. Len(t) = k
      BY <1>1
    <3> QED
      BY ONLY <2>1, <2>2, <3>1, Zenon
  <2> QED
    BY ONLY <2>3, Zenon DEF Turns
<1> QED
  BY <1>3, <1>4

-----------------------------------------------------------------------------
(* Passes put together of passes.                                          *)

\* The first passes put together, for each number of them.
FlatOf(seqs, n, f) ==
    f = [i \in 1 .. n |-> IF i = 1 THEN seqs[i] ELSE f[i - 1] \o seqs[i]]

\* They are put together.
LEMMA FlatExists ==
    ASSUME NEW seqs, NEW n \in Nat
    PROVE  \E f : FlatOf(seqs, n, f)
<1> DEFINE Q == {k \in 0 .. n : \E f : FlatOf(seqs, k, f)}
           Z == [i \in 1 .. 0 |-> << >>]
<1>1. 0 \in Q
  <2>1. FlatOf(seqs, 0, Z)
    BY DEF FlatOf
  <2> QED
    BY <2>1
<1>2. ASSUME NEW k \in 0 .. n - 1, k \in Q PROVE k + 1 \in Q
  <2>1. PICK f : FlatOf(seqs, k, f)
    BY <1>2
  <2>2. k \in Nat /\ k + 1 \in 0 .. n
    OBVIOUS
  <2> PICK g : g = [i \in 1 .. k + 1 |-> IF i = 1 THEN seqs[i] ELSE f[i - 1] \o seqs[i]]
    OBVIOUS
  <2>3. ASSUME NEW i \in 1 .. k + 1, i # 1 PROVE g[i - 1] = f[i - 1]
    <3> PICK j : j = i - 1
      OBVIOUS
    <3>1. j \in 1 .. k /\ j \in 1 .. k + 1
      BY <2>2, <2>3
    <3>2. f[j] = IF j = 1 THEN seqs[j] ELSE f[j - 1] \o seqs[j]
      BY ONLY <2>1, <3>1, Zenon DEF FlatOf
    <3>3. g[j] = IF j = 1 THEN seqs[j] ELSE f[j - 1] \o seqs[j]
      BY <3>1
    <3> QED
      BY <3>2, <3>3
  <2>4. \A i \in 1 .. k + 1 : (IF i = 1 THEN seqs[i] ELSE f[i - 1] \o seqs[i])
                              = (IF i = 1 THEN seqs[i] ELSE g[i - 1] \o seqs[i])
    BY <2>3
  <2>5. FlatOf(seqs, k + 1, g)
    BY <2>4 DEF FlatOf
  <2> QED
    BY <2>2, <2>5
<1>3. 0 .. n \subseteq Q
  <2> HIDE DEF Q
  <2> QED
    BY <1>1, <1>2, Climb
<1> QED
  BY <1>3

\* Sequences one after the other, from none of them to all.
LEMMA FlatIs ==
    ASSUME NEW n \in Nat, NEW ss, DOMAIN ss = 1 .. n, ss = [i \in 1 .. n |-> ss[i]],
           \A i \in 1 .. n : IsSeq(ss[i])
    PROVE  \E f : /\ f[0] = << >> /\ f[n] = FlattenSeq(ss)
                  /\ \A k \in 0 .. n : IsSeq(f[k])
                  /\ \A k \in 1 .. n : f[k] = f[k - 1] \o ss[k]
<1>1. Len(ss) = n /\ IsSeq(ss)
  BY SeqMade
<1> DEFINE g == CHOOSE h : FlatOf(ss, n, h)
<1>2. FlatOf(ss, n, g)
  BY FlatExists
<1>3. n # 0 => FlattenSeq(ss) = g[n]
  BY ONLY <1>1 DEF FlattenSeq, FlatOf
<1>4. n = 0 => FlattenSeq(ss) = << >>
  <2>1. n = 0 => FlattenSeq(ss) = ss
    BY ONLY <1>1 DEF FlattenSeq
  <2> QED
    BY <1>1, <2>1, SeqIs
<1> HIDE DEF g
<1>5. \A i \in 1 .. n : g[i] = IF i = 1 THEN ss[i] ELSE g[i - 1] \o ss[i]
  BY ONLY <1>2, Zenon DEF FlatOf
<1> PICK f : f = [k \in 0 .. n |-> IF k = 0 THEN << >> ELSE g[k]]
  OBVIOUS
<1>6. f[0] = << >> /\ \A k \in 1 .. n : f[k] = g[k]
  OBVIOUS
<1>7. f[n] = FlattenSeq(ss)
  BY <1>3, <1>4, <1>6
<1>8. ASSUME NEW k \in 1 .. n PROVE f[k] = f[k - 1] \o ss[k]
  <2> PICK j : j = k - 1
    OBVIOUS
  <2>1. k \in 1 .. n /\ (k # 1 => j \in 1 .. n) /\ (k = 1 => j = 0)
    OBVIOUS
  <2>2. CASE k = 1
    <3>1. f[k] = ss[k] /\ f[j] = << >>
      BY <1>5, <1>6, <2>1, <2>2
    <3> QED
      BY <3>1, <2>1, ConcatNothing
  <2>3. CASE k # 1
    BY <1>5, <1>6, <2>1, <2>3
  <2> QED
    BY <2>2, <2>3
<1> DEFINE Q == {k \in 0 .. n : IsSeq(f[k])}
<1>9. 0 \in Q
  <2>1. IsSeq(<< >>)
    BY << >> \in Seq({}) DEF IsSeq
  <2> QED
    BY <1>6, <2>1
<1>10. ASSUME NEW k \in 0 .. n - 1, k \in Q PROVE k + 1 \in Q
  <2> PICK i : i = k + 1
    OBVIOUS
  <2>1. i \in 1 .. n /\ i \in 0 .. n /\ i - 1 = k
    OBVIOUS
  <2>2. f[i] = f[k] \o ss[i]
    BY <1>8, <2>1
  <2>3. IsSeq(f[k]) /\ IsSeq(ss[i])
    BY <1>10, <2>1
  <2>4. IsSeq(f[i])
    BY ONLY <2>2, <2>3, ConcatIs
  <2> QED
    BY <2>1, <2>4
<1>11. 0 .. n \subseteq Q
  <2> HIDE DEF Q
  <2> QED
    BY <1>9, <1>10, Climb
<1> QED
  BY <1>6, <1>7, <1>8, <1>11, ZenonT(60)

\* A pass put together of passes goes through a memory for each.
LEMMA TurnsFlat ==
    ASSUME NEW n \in Nat, NEW ss, DOMAIN ss = 1 .. n, ss = [i \in 1 .. n |-> ss[i]],
           \A i \in 1 .. n : IsSeq(ss[i]),
           NEW results, NEW a, NEW c, Turns(results, a, FlattenSeq(ss), c)
    PROVE  \E m : /\ m[0] = a /\ m[n] = c
                  /\ \A k \in 1 .. n : Turns(results, m[k - 1], ss[k], m[k])
<1>1. PICK f : /\ f[0] = << >> /\ f[n] = FlattenSeq(ss)
               /\ \A k \in 0 .. n : IsSeq(f[k])
               /\ \A k \in 1 .. n : f[k] = f[k - 1] \o ss[k]
  BY FlatIs
<1> DEFINE Through(m, k, b) == /\ m[0] = a /\ m[k] = b
                               /\ \A j \in 1 .. k : Turns(results, m[j - 1], ss[j], m[j])
           Q == {k \in 0 .. n : \A b : Turns(results, a, f[k], b) => \E m : Through(m, k, b)}
<1>2. 0 \in Q
  <2> SUFFICES ASSUME NEW b, Turns(results, a, f[0], b) PROVE \E m : Through(m, 0, b)
    OBVIOUS
  <2>1. a = b
    <3>1. Len(f[0]) = 0
      BY <1>1
    <3> QED
      BY <3>1 DEF Turns
  <2>2. Through([j \in 0 .. 0 |-> a], 0, b)
    BY <2>1
  <2> QED
    BY <2>2
<1>3. ASSUME NEW k \in 0 .. n - 1, k \in Q PROVE k + 1 \in Q
  <2> PICK i : i = k + 1
    OBVIOUS
  <2>1. i \in 1 .. n /\ i \in 0 .. n /\ i - 1 = k /\ k \in 0 .. n
    OBVIOUS
  <2>2. ASSUME NEW b, Turns(results, a, f[i], b) PROVE \E m : Through(m, i, b)
    <3>1. f[i] = f[k] \o ss[i] /\ IsSeq(f[k]) /\ IsSeq(ss[i])
      BY <1>1, <2>1
    <3>2. PICK d : Turns(results, a, f[k], d) /\ Turns(results, d, ss[i], b)
      BY <2>2, <3>1, TurnsSplit
    <3>3. PICK m : Through(m, k, d)
      BY <1>3, <3>2
    <3> PICK h : h = [j \in 0 .. i |-> IF j = i THEN b ELSE m[j]]
      OBVIOUS
    <3>4. h[i] = b /\ \A j \in 0 .. k : h[j] = m[j]
      BY <2>1
    <3>5. ASSUME NEW j \in 1 .. i PROVE Turns(results, h[j - 1], ss[j], h[j])
      <4> PICK o : o = j - 1
        OBVIOUS
      <4>1. CASE j = i
        <5>1. h[o] = d
          BY <2>1, <3>3, <3>4, <4>1
        <5> QED
          BY <3>2, <3>4, <4>1, <5>1
      <4>2. CASE j # i
        <5>1. j \in 1 .. k /\ j \in 0 .. k /\ o \in 0 .. k
          BY <2>1, <4>2
        <5> QED
          BY <3>3, <3>4, <5>1
      <4> QED
        BY <4>1, <4>2
    <3>6. h[0] = a
      BY <2>1, <3>3, <3>4
    <3>7. Through(h, i, b)
      BY <3>4, <3>5, <3>6
    <3> QED
      BY <3>7
  <2>3. \A b : Turns(results, a, f[i], b) => \E m : Through(m, i, b)
    BY ONLY <2>2
  <2> HIDE DEF Through
  <2> QED
    BY <2>1, <2>3
<1>4. 0 .. n \subseteq Q
  <2> HIDE DEF Q
  <2> QED
    BY <1>2, <1>3, Climb
<1>5. Turns(results, a, f[n], c)
  BY <1>1
<1> HIDE DEF Through
<1>6. \A b : Turns(results, a, f[n], b) => \E m : Through(m, n, b)
  BY <1>4
<1>7. \E m : Through(m, n, c)
  BY <1>5, <1>6
<1> QED
  BY <1>7 DEF Through

\* A command that only records, and writes its results in their places.
Ops == Computing \cup Accumulating
       \cup {"scatter_add", "attention_decode", "copy", "copy_to_slot", "zero", "reduce",
             "reduce_finish", "adam"}
Records(c) ==
    /\ c.do \in {"copy", "dispatch"} /\ c.op \in Ops
    /\ Len(c.writes) >= 1 /\ (c.op = "adam" => Len(c.writes) = 3)
    /\ Len(c.writes) \in Nat /\ DOMAIN c.writes = 1 .. Len(c.writes)

\* Commands that only record, and leave a buffer alone.
Recorded(s) == IsSeq(s) /\ \A i \in 1 .. Len(s) : Records(s[i])
Passes(c, b) == Records(c) /\ \A k \in 1 .. Len(c.writes) : c.writes[k] # b
Passing(s, b) == IsSeq(s) /\ \A i \in 1 .. Len(s) : Passes(s[i], b)

\* One pass after another.
LEMMA PassingConcat ==
    ASSUME NEW s, NEW t, NEW b, Passing(s, b), Passing(t, b)
    PROVE  Passing(s \o t, b)
<1>1. IsSeq(s) /\ IsSeq(t)
  BY DEF Passing
<1>2. IsSeq(s \o t)
  BY <1>1, ConcatIs
<1>3. ASSUME NEW i \in 1 .. Len(s \o t) PROVE Passes((s \o t)[i], b)
  <2>1. (\E k \in 1 .. Len(s) : (s \o t)[i] = s[k]) \/ (\E k \in 1 .. Len(t) : (s \o t)[i] = t[k])
    BY <1>1, ConcatFrom
  <2> QED
    BY <2>1 DEF Passing
<1> QED
  BY <1>2, <1>3 DEF Passing

\* Any number of them.
LEMMA PassingFlat ==
    ASSUME NEW n \in Nat, NEW ss, DOMAIN ss = 1 .. n, ss = [i \in 1 .. n |-> ss[i]],
           NEW b, \A i \in 1 .. n : Passing(ss[i], b)
    PROVE  Passing(FlattenSeq(ss), b)
<1>1. \A i \in 1 .. n : IsSeq(ss[i])
  BY DEF Passing
<1>2. PICK f : /\ f[0] = << >> /\ f[n] = FlattenSeq(ss)
               /\ \A k \in 0 .. n : IsSeq(f[k])
               /\ \A k \in 1 .. n : f[k] = f[k - 1] \o ss[k]
  BY <1>1, FlatIs
<1> DEFINE Q == {k \in 0 .. n : Passing(f[k], b)}
<1>3. 0 \in Q
  <2>1. 0 \in 0 .. n /\ Len(f[0]) = 0 /\ IsSeq(f[0])
    BY <1>2
  <2> QED
    BY <2>1 DEF Passing
<1>4. ASSUME NEW k \in 0 .. n - 1, k \in Q PROVE k + 1 \in Q
  <2> PICK i : i = k + 1
    OBVIOUS
  <2>1. i \in 1 .. n /\ i \in 0 .. n /\ i - 1 = k
    OBVIOUS
  <2>2. f[i] = f[k] \o ss[i]
    BY <1>2, <2>1
  <2>3. Passing(f[i], b)
    BY <1>4, <2>1, <2>2, PassingConcat
  <2> QED
    BY <2>1, <2>3
<1>5. 0 .. n \subseteq Q
  <2> HIDE DEF Q
  <2> QED
    BY <1>3, <1>4, Climb
<1> QED
  BY <1>2, <1>5

\* A command leaves every buffer it does not write as it was.
LEMMA ExecuteLeaves ==
    ASSUME NEW results, NEW p, NEW memory, NEW c, Records(c)
    PROVE  /\ DOMAIN Execute(results, p, memory, c) = DOMAIN memory
           /\ \A b \in DOMAIN memory :
                 (\A k \in 1 .. Len(c.writes) : c.writes[k] # b)
                 => Execute(results, p, memory, c)[b] = memory[b]
<1> PICK r : r = Execute(results, p, memory, c)
  OBVIOUS
<1>1. Len(c.writes) \in Nat /\ 1 \in 1 .. Len(c.writes)
      /\ Len(c.writes) \in 1 .. Len(c.writes)
  BY DEF Records
<1> SUFFICES DOMAIN r = DOMAIN memory /\ \A b \in DOMAIN memory :
               (\A k \in 1 .. Len(c.writes) : c.writes[k] # b) => r[b] = memory[b]
  OBVIOUS
<1>2. CASE c.op \in Computing
  <2>1. r = Computed(results, memory, c, p)
    BY <1>2 DEF Execute, Computing, Accumulating
  <2> QED
    BY <1>1, <2>1 DEF Computed
<1>3. CASE c.op \in Accumulating
  <2>1. r = Accumulated(results, memory, c, p)
    BY <1>3 DEF Execute, Computing, Accumulating
  <2> QED
    BY <1>1, <2>1 DEF Accumulated
<1>4. CASE c.op = "scatter_add"
  <2>1. r = ScatterAdded(memory, c, p)
    BY <1>4 DEF Execute, Computing, Accumulating
  <2> QED
    BY <1>1, <2>1 DEF ScatterAdded
<1>5. CASE c.op = "attention_decode"
  <2>1. r = Decoded(memory, c, p)
    BY <1>5 DEF Execute, Computing, Accumulating
  <2> QED
    BY <1>1, <2>1 DEF Decoded
<1>6. CASE c.op = "copy"
  <2>1. r = Copied(memory, c)
    BY <1>6 DEF Execute, Computing, Accumulating
  <2> QED
    BY <1>1, <2>1 DEF Copied
<1>7. CASE c.op = "copy_to_slot"
  <2>1. r = CopiedToSlot(memory, c)
    BY <1>7 DEF Execute, Computing, Accumulating
  <2> QED
    BY <1>1, <2>1 DEF CopiedToSlot
<1>8. CASE c.op = "zero"
  <2>1. r = Zeroed(memory, c, p)
    BY <1>8 DEF Execute, Computing, Accumulating
  <2> QED
    BY <1>1, <2>1 DEF Zeroed
<1>9. CASE c.op = "reduce"
  <2>1. r = Reduced(memory, c, p)
    BY <1>9 DEF Execute, Computing, Accumulating
  <2> QED
    BY <1>1, <2>1 DEF Reduced
<1>10. CASE c.op = "reduce_finish"
  <2>1. r = ReductionFinished(memory, c, p)
    BY <1>10, SMTT(60) DEF Execute, Computing, Accumulating
  <2> QED
    BY <1>1, <2>1, SMTT(60) DEF ReductionFinished
<1>11. CASE c.op = "adam"
  <2>1. r = Adam(memory, c, p)
    BY <1>11 DEF Execute, Computing, Accumulating
  <2>2. Len(c.writes) = 3
    BY <1>11 DEF Records
  <2>3. 1 \in 1 .. Len(c.writes) /\ 2 \in 1 .. Len(c.writes) /\ 3 \in 1 .. Len(c.writes)
    BY <2>2
  <2> QED
    BY <2>1, <2>3 DEF Adam
<1> QED
  BY <1>2, <1>3, <1>4, <1>5, <1>6, <1>7, <1>8, <1>9, <1>10, <1>11 DEF Records, Ops

-----------------------------------------------------------------------------
(* The passes of the model record: none of them waits or writes at once.   *)

\* The names of the parameters' slots.
LEMMA ShapesIs == IsSeq(shapes) /\ Len(shapes) \in Nat /\ Slots = 1 .. Len(shapes)
<1> PICK ss : ss = [l \in 1 .. Layers |->
                      [t \in 1 .. TENSORS_PER_LAYER |-> <<LayerTensors[t], l>>]]
  OBVIOUS
<1>1. Layers \in Nat /\ TENSORS_PER_LAYER = 9
  BY LayersAssumption DEF TENSORS_PER_LAYER, LayerTensors
<1>2. ASSUME NEW l \in 1 .. Layers PROVE IsSeq(ss[l])
  <2> PICK s : s = ss[l]
    OBVIOUS
  <2>1. s = [t \in 1 .. 9 |-> <<LayerTensors[t], l>>]
    BY <1>1
  <2>2. DOMAIN s = 1 .. 9 /\ s = [t \in 1 .. 9 |-> s[t]] /\ 9 \in Nat
    BY <2>1
  <2> QED
    BY <2>2, SeqMade, ZenonT(60)
<1>3. IsSeq(FlattenSeq(ss))
  <2>1. DOMAIN ss = 1 .. Layers /\ ss = [l \in 1 .. Layers |-> ss[l]]
    OBVIOUS
  <2>2. PICK f : /\ f[0] = << >> /\ f[Layers] = FlattenSeq(ss)
                 /\ \A k \in 0 .. Layers : IsSeq(f[k])
                 /\ \A k \in 1 .. Layers : f[k] = f[k - 1] \o ss[k]
    BY ONLY <1>1, <1>2, <2>1, FlatIs
  <2>3. Layers \in 0 .. Layers
    BY <1>1
  <2> QED
    BY <2>2, <2>3
<1>4. IsSeq(<<Top("embed")>>) /\ IsSeq(<<Top("final_norm_gain")>>)
  BY <<Top("embed")>> \in Seq({Top("embed")}),
     <<Top("final_norm_gain")>> \in Seq({Top("final_norm_gain")}) DEF IsSeq
<1>5. shapes = (<<Top("embed")>> \o FlattenSeq(ss)) \o <<Top("final_norm_gain")>>
  BY DEF shapes
<1>6. IsSeq(shapes)
  BY <1>3, <1>4, <1>5, ConcatIs
<1> QED
  BY <1>6, SeqIs DEF Slots

\* The weights, the moments, and the sums read back at the end of a step.
Kept(b) == b[3] = "params" /\ b[1] \in {"weights", "m", "v"}
Aside(b) == Kept(b) \/ b = Stats

\* A tensor of a layer is in the set it is asked of.
LEMMA LayerIn ==
    ASSUME NEW set, NEW l, NEW which
    PROVE  LayerOf(set, l, which)[1] = set /\ LayerOf(set, l, which)[3] = "params"
BY DEF LayerOf, InSet

\* What each kind of command leaves alone: all it does not write.
LEMMA OnePasses ==
    ASSUME NEW b, NEW op \in Ops \ {"adam"}, NEW dims, NEW seq, NEW reads, NEW w, w # b
    PROVE  Passes(Dispatch(op, dims, seq, reads, <<w>>), b)
<1> PICK c : c = Dispatch(op, dims, seq, reads, <<w>>)
  OBVIOUS
<1>1. c.do = "dispatch" /\ c.op = op /\ c.writes = <<w>>
  BY DEF Dispatch
<1> QED
  BY <1>1, SMTT(60) DEF Passes, Records

\* The same with two results.
LEMMA TwoPasses ==
    ASSUME NEW b, NEW op \in Ops \ {"adam"}, NEW dims, NEW seq, NEW reads, NEW w, w # b,
           NEW x, x # b
    PROVE  Passes(Dispatch(op, dims, seq, reads, <<w, x>>), b)
<1> PICK c : c = Dispatch(op, dims, seq, reads, <<w, x>>)
  OBVIOUS
<1>1. c.do = "dispatch" /\ c.op = op /\ c.writes = <<w, x>>
  BY DEF Dispatch
<1>2. Len(c.writes) = 2 /\ DOMAIN c.writes = 1 .. 2 /\ c.writes[1] = w /\ c.writes[2] = x
  BY <1>1
<1>3. \A k \in 1 .. 2 : c.writes[k] # b
  BY <1>2
<1> QED
  BY <1>1, <1>2, <1>3 DEF Passes, Records

\* The same, command by command.
LEMMA CommandsPass ==
    ASSUME NEW b
    PROVE  /\ \A x, y : y # b => Passes(Copy(x, y), b)
           /\ \A x, y, n : y # b => Passes(CopyToSlot(x, y, n), b)
           /\ \A x, w, y, rows, i, o : y # b => Passes(dispatch_linear(x, w, y, rows, i, o), b)
           /\ \A x, y, rows : x # b => Passes(dispatch_add_inplace(x, y, rows), b)
           /\ \A x, y, z, rows : z # b => Passes(dispatch_swiglu(x, y, z, rows), b)
           /\ \A x, y, z, rows : z # b => Passes(dispatch_gather(x, y, z, rows), b)
           /\ \A x, g, y, z, rows : y # b /\ z # b => Passes(dispatch_rmsnorm(x, g, y, z, rows), b)
           /\ \A x, rows, heads, seq, dir :
                x # b => Passes(dispatch_rope(x, rows, heads, seq, dir), b)
           /\ \A q, k, v, y, n : y # b => Passes(dispatch_attention_decode(q, k, v, y, n), b)
           /\ \A q, k, v, y, z : y # b /\ z # b => Passes(dispatch_attention_fwd(q, k, v, y, z), b)
           /\ \A x, y, z, i, o : z # b => Passes(dispatch_linear_bwd_dw(x, y, z, i, o), b)
           /\ \A x, y, z, i, o : z # b => Passes(dispatch_linear_bwd_dx(x, y, z, i, o), b)
           /\ \A x, g, u, y, z : y # b /\ z # b => Passes(dispatch_swiglu_bwd(x, g, u, y, z), b)
           /\ \A x, y, g, r, z : z # b => Passes(dispatch_rmsnorm_bwd_dx(x, y, g, r, z), b)
           /\ \A x, y, r, z : z # b => Passes(dispatch_rmsnorm_bwd_dgain(x, y, r, z), b)
           /\ \A x, i, o, p, z, seq, n : z # b => Passes(dispatch_scatter_add(x, i, o, p, z, seq, n), b)
           /\ \A z, n : z # b => Passes(dispatch_zero(z, n), b)
<1>1. ASSUME NEW x, NEW y, y # b PROVE Passes(Copy(x, y), b)
  BY <1>1 DEF Copy, Passes, Records, Ops
<1>2. ASSUME NEW x, NEW y, NEW n, y # b PROVE Passes(CopyToSlot(x, y, n), b)
  BY <1>2 DEF CopyToSlot, Passes, Records, Ops
<1>3. {"linear", "add", "swiglu", "gather", "rmsnorm", "rope", "attention_decode",
       "attention_fwd", "linear_bwd_dw", "linear_bwd_dx", "swiglu_bwd", "rmsnorm_bwd_dx",
       "rmsnorm_bwd_dgain", "scatter_add", "zero"} \subseteq Ops \ {"adam"}
  BY DEF Ops, Computing, Accumulating
<1>4. \A x, w, y, rows, i, o : y # b => Passes(dispatch_linear(x, w, y, rows, i, o), b)
  BY <1>3, OnePasses DEF dispatch_linear
<1>5. \A x, y, rows : x # b => Passes(dispatch_add_inplace(x, y, rows), b)
  BY <1>3, OnePasses DEF dispatch_add_inplace
<1>6. \A x, y, z, rows : z # b => Passes(dispatch_swiglu(x, y, z, rows), b)
  BY <1>3, OnePasses DEF dispatch_swiglu
<1>7. \A x, y, z, rows : z # b => Passes(dispatch_gather(x, y, z, rows), b)
  BY <1>3, OnePasses DEF dispatch_gather
<1>8. \A x, g, y, z, rows : y # b /\ z # b => Passes(dispatch_rmsnorm(x, g, y, z, rows), b)
  BY <1>3, TwoPasses DEF dispatch_rmsnorm
<1>9. \A x, rows, heads, seq, dir : x # b => Passes(dispatch_rope(x, rows, heads, seq, dir), b)
  BY <1>3, OnePasses DEF dispatch_rope
<1>10. \A q, k, v, y, n : y # b => Passes(dispatch_attention_decode(q, k, v, y, n), b)
  BY <1>3, OnePasses DEF dispatch_attention_decode
<1>11. \A q, k, v, y, z : y # b /\ z # b => Passes(dispatch_attention_fwd(q, k, v, y, z), b)
  BY <1>3, TwoPasses DEF dispatch_attention_fwd
<1>12. \A x, y, z, i, o : z # b => Passes(dispatch_linear_bwd_dw(x, y, z, i, o), b)
  BY <1>3, OnePasses DEF dispatch_linear_bwd_dw
<1>13. \A x, y, z, i, o : z # b => Passes(dispatch_linear_bwd_dx(x, y, z, i, o), b)
  BY <1>3, OnePasses DEF dispatch_linear_bwd_dx
<1>14. \A x, g, u, y, z : y # b /\ z # b => Passes(dispatch_swiglu_bwd(x, g, u, y, z), b)
  BY <1>3, TwoPasses DEF dispatch_swiglu_bwd
<1>15. \A x, y, g, r, z : z # b => Passes(dispatch_rmsnorm_bwd_dx(x, y, g, r, z), b)
  BY <1>3, OnePasses DEF dispatch_rmsnorm_bwd_dx
<1>16. \A x, y, r, z : z # b => Passes(dispatch_rmsnorm_bwd_dgain(x, y, r, z), b)
  BY <1>3, OnePasses DEF dispatch_rmsnorm_bwd_dgain
<1>17. \A x, i, o, p, z, seq, n : z # b => Passes(dispatch_scatter_add(x, i, o, p, z, seq, n), b)
  BY <1>3, OnePasses DEF dispatch_scatter_add
<1>18. \A z, n : z # b => Passes(dispatch_zero(z, n), b)
  BY <1>3, OnePasses DEF dispatch_zero
<1> QED
  BY <1>1, <1>2, <1>4, <1>5, <1>6, <1>7, <1>8, <1>9, <1>10, <1>11, <1>12, <1>13, <1>14, <1>15,
     <1>16, <1>17, <1>18

\* Buffers that are not among those kept aside.
LEMMA NotAside ==
    ASSUME NEW b, Aside(b)
    PROVE  /\ \A name, l : Acts(name, l) # b
           /\ \A name : name # "stats" => Scratch(name) # b
           /\ \A l, which : LayerOf("grads", l, which) # b
           /\ EmbedOf("grads") # b /\ FinalGainOf("grads") # b
BY DEF Aside, Kept, Stats, Acts, Scratch, LayerOf, InSet, EmbedOf, FinalGainOf

\* The forward pass of a layer.
LEMMA ForwardLayerIs ==
    ASSUME NEW l, NEW s, s = ForwardLayer(l)
    PROVE  /\ IsSeq(s) /\ Len(s) = 17
           /\ s[1] = Copy(Scratch("hidden"), Acts("h_in", l))
           /\ s[2] = dispatch_rmsnorm(Scratch("hidden"), LayerOf("weights", l,
                                      "attn_norm_gain"), Acts("normed1", l), Acts("inv_rms1",
                                      l), "t")
           /\ s[3] = dispatch_linear(Acts("normed1", l), LayerOf("weights", l, "wq"), Acts("q",
                                     l), "t", "h", "h")
           /\ s[4] = dispatch_linear(Acts("normed1", l), LayerOf("weights", l, "wk"), Acts("k",
                                     l), "t", "h", "kv")
           /\ s[5] = dispatch_linear(Acts("normed1", l), LayerOf("weights", l, "wv"), Acts("v",
                                     l), "t", "h", "kv")
           /\ s[6] = dispatch_rope(Acts("q", l), "t", "heads", NoSeq, "fwd")
           /\ s[7] = dispatch_rope(Acts("k", l), "t", "kv_heads", NoSeq, "fwd")
           /\ s[8] = dispatch_attention_fwd(Acts("q", l), Acts("k", l), Acts("v", l),
                                            Acts("concat", l), Acts("probs", l))
           /\ s[9] = dispatch_linear(Acts("concat", l), LayerOf("weights", l, "wo"),
                                     Scratch("tmp_h"), "t", "h", "h")
           /\ s[10] = dispatch_add_inplace(Scratch("hidden"), Scratch("tmp_h"), "t")
           /\ s[11] = Copy(Scratch("hidden"), Acts("h_after_attn", l))
           /\ s[12] = dispatch_rmsnorm(Scratch("hidden"), LayerOf("weights", l,
                                       "mlp_norm_gain"), Acts("normed2", l), Acts("inv_rms2",
                                       l), "t")
           /\ s[13] = dispatch_linear(Acts("normed2", l), LayerOf("weights", l, "w_gate"),
                                      Acts("gate", l), "t", "h", "ffn")
           /\ s[14] = dispatch_linear(Acts("normed2", l), LayerOf("weights", l, "w_up"),
                                      Acts("up", l), "t", "h", "ffn")
           /\ s[15] = dispatch_swiglu(Acts("gate", l), Acts("up", l), Scratch("act"), "t")
           /\ s[16] = dispatch_linear(Scratch("act"), LayerOf("weights", l, "w_down"),
                                      Scratch("tmp_h"), "t", "ffn", "h")
           /\ s[17] = dispatch_add_inplace(Scratch("hidden"), Scratch("tmp_h"), "t")
<1>1. DOMAIN s = 1 .. 17 /\ s = [i \in 1 .. 17 |-> s[i]] /\ 17 \in Nat
  BY DEF ForwardLayer
<1>2. IsSeq(s) /\ Len(s) = 17
  BY <1>1, SeqMade
<1> QED
  BY <1>2 DEF ForwardLayer

\* What it leaves alone.
LEMMA ForwardLayerPasses ==
    ASSUME NEW l, NEW b, \A name : Acts(name, l) # b,
           Scratch("hidden") # b, Scratch("tmp_h") # b, Scratch("act") # b
    PROVE  Passing(ForwardLayer(l), b)
<1> PICK s : s = ForwardLayer(l)
  OBVIOUS
<1>1. Passes(s[1], b)
  BY ForwardLayerIs, CommandsPass
<1>2. Passes(s[2], b)
  BY ForwardLayerIs, CommandsPass
<1>3. Passes(s[3], b)
  BY ForwardLayerIs, CommandsPass, ZenonT(60)
<1>4. Passes(s[4], b)
  BY ForwardLayerIs, CommandsPass, ZenonT(60)
<1>5. Passes(s[5], b)
  BY ForwardLayerIs, CommandsPass, ZenonT(60)
<1>6. Passes(s[6], b)
  BY ForwardLayerIs, CommandsPass
<1>7. Passes(s[7], b)
  BY ForwardLayerIs, CommandsPass
<1>8. Passes(s[8], b)
  BY ForwardLayerIs, CommandsPass
<1>9. Passes(s[9], b)
  BY ForwardLayerIs, CommandsPass, ZenonT(60)
<1>10. Passes(s[10], b)
  BY ForwardLayerIs, CommandsPass
<1>11. Passes(s[11], b)
  BY ForwardLayerIs, CommandsPass
<1>12. Passes(s[12], b)
  BY ForwardLayerIs, CommandsPass
<1>13. Passes(s[13], b)
  BY ForwardLayerIs, CommandsPass, ZenonT(60)
<1>14. Passes(s[14], b)
  BY ForwardLayerIs, CommandsPass, ZenonT(60)
<1>15. Passes(s[15], b)
  BY ForwardLayerIs, CommandsPass
<1>16. Passes(s[16], b)
  BY ForwardLayerIs, CommandsPass, SMTT(60)
<1>17. Passes(s[17], b)
  BY ForwardLayerIs, CommandsPass
<1>18. \A i \in 1 .. 17 : Passes(s[i], b)
  BY ONLY <1>1, <1>2, <1>3, <1>4, <1>5, <1>6, <1>7, <1>8, <1>9, <1>10, <1>11, <1>12, <1>13,
     <1>14, <1>15, <1>16, <1>17
<1> QED
  BY <1>18, ForwardLayerIs DEF Passing

\* The tensors of a layer.
GradNames == {"attn_norm_gain", "wq", "wk", "wv", "wo", "mlp_norm_gain", "w_gate", "w_up", "w_down"}

\* The backward pass of a layer's second half.
LEMMA BackwardMlpIs ==
    ASSUME NEW l, NEW s, s = BackwardMlp(l)
    PROVE  /\ IsSeq(s) /\ Len(s) = 12
           /\ s[1] = dispatch_swiglu(Acts("gate", l), Acts("up", l), Scratch("act"), "t")
           /\ s[2] = dispatch_linear_bwd_dw(Scratch("d_hidden"), Scratch("act"),
                                            LayerOf("grads", l, "w_down"), "ffn", "h")
           /\ s[3] = dispatch_linear_bwd_dx(Scratch("d_hidden"), LayerOf("weights", l,
                                            "w_down"), Scratch("d_act"), "ffn", "h")
           /\ s[4] = dispatch_swiglu_bwd(Scratch("d_act"), Acts("gate", l), Acts("up", l),
                                         Scratch("d_gate"), Scratch("d_up"))
           /\ s[5] = dispatch_linear_bwd_dw(Scratch("d_gate"), Acts("normed2", l),
                                            LayerOf("grads", l, "w_gate"), "h", "ffn")
           /\ s[6] = dispatch_linear_bwd_dw(Scratch("d_up"), Acts("normed2", l),
                                            LayerOf("grads", l, "w_up"), "h", "ffn")
           /\ s[7] = dispatch_linear_bwd_dx(Scratch("d_gate"), LayerOf("weights", l, "w_gate"),
                                            Scratch("d_a"), "h", "ffn")
           /\ s[8] = dispatch_linear_bwd_dx(Scratch("d_up"), LayerOf("weights", l, "w_up"),
                                            Scratch("d_b"), "h", "ffn")
           /\ s[9] = dispatch_add_inplace(Scratch("d_a"), Scratch("d_b"), "t")
           /\ s[10] = dispatch_rmsnorm_bwd_dgain(Scratch("d_a"), Acts("h_after_attn", l),
                                                 Acts("inv_rms2", l), LayerOf("grads", l,
                                                 "mlp_norm_gain"))
           /\ s[11] = dispatch_rmsnorm_bwd_dx(Scratch("d_a"), Acts("h_after_attn", l),
                                              LayerOf("weights", l, "mlp_norm_gain"),
                                              Acts("inv_rms2", l), Scratch("d_c"))
           /\ s[12] = dispatch_add_inplace(Scratch("d_hidden"), Scratch("d_c"), "t")
<1>1. DOMAIN s = 1 .. 12 /\ s = [i \in 1 .. 12 |-> s[i]] /\ 12 \in Nat
  BY DEF BackwardMlp
<1>2. IsSeq(s) /\ Len(s) = 12
  BY <1>1, SeqMade
<1> QED
  BY <1>2 DEF BackwardMlp

\* What it leaves alone.
LEMMA BackwardMlpPasses ==
    ASSUME NEW l, NEW b, \A which \in GradNames : LayerOf("grads", l, which) # b,
           b \notin {Scratch("act"), Scratch("d_act"), Scratch("d_gate"), Scratch("d_up"),
                    Scratch("d_a"), Scratch("d_b"), Scratch("d_c"), Scratch("d_hidden")}
    PROVE  Passing(BackwardMlp(l), b)
<1> PICK s : s = BackwardMlp(l)
  OBVIOUS
<1>0. /\ LayerOf("grads", l, "w_down") # b
      /\ LayerOf("grads", l, "w_gate") # b
      /\ LayerOf("grads", l, "w_up") # b
      /\ LayerOf("grads", l, "mlp_norm_gain") # b
  BY DEF GradNames
<1>1. Passes(s[1], b)
  BY BackwardMlpIs, CommandsPass
<1>2. Passes(s[2], b)
  BY <1>0, BackwardMlpIs, CommandsPass, ZenonT(60)
<1>3. Passes(s[3], b)
  BY BackwardMlpIs, CommandsPass, ZenonT(60)
<1>4. Passes(s[4], b)
  BY BackwardMlpIs, CommandsPass
<1>5. Passes(s[5], b)
  BY <1>0, BackwardMlpIs, CommandsPass, SMTT(60)
<1>6. Passes(s[6], b)
  BY <1>0, BackwardMlpIs, CommandsPass
<1>7. Passes(s[7], b)
  BY BackwardMlpIs, CommandsPass, SMTT(60)
<1>8. Passes(s[8], b)
  BY BackwardMlpIs, CommandsPass, ZenonT(60)
<1>9. Passes(s[9], b)
  BY BackwardMlpIs, CommandsPass
<1>10. Passes(s[10], b)
  BY <1>0, BackwardMlpIs, CommandsPass
<1>11. Passes(s[11], b)
  BY BackwardMlpIs, CommandsPass
<1>12. Passes(s[12], b)
  BY BackwardMlpIs, CommandsPass
<1>13. \A i \in 1 .. 12 : Passes(s[i], b)
  BY ONLY <1>1, <1>2, <1>3, <1>4, <1>5, <1>6, <1>7, <1>8, <1>9, <1>10, <1>11, <1>12
<1> QED
  BY <1>13, BackwardMlpIs DEF Passing

\* Of attention's output.
LEMMA BackwardOutputIs ==
    ASSUME NEW l, NEW s, s = BackwardOutput(l)
    PROVE  /\ IsSeq(s) /\ Len(s) = 2
           /\ s[1] = dispatch_linear_bwd_dw(Scratch("d_hidden"), Acts("concat", l),
                                            LayerOf("grads", l, "wo"), "h", "h")
           /\ s[2] = dispatch_linear_bwd_dx(Scratch("d_hidden"), LayerOf("weights", l, "wo"),
                                            Scratch("d_a"), "h", "h")
<1>1. DOMAIN s = 1 .. 2 /\ s = [i \in 1 .. 2 |-> s[i]] /\ 2 \in Nat
  BY DEF BackwardOutput
<1>2. IsSeq(s) /\ Len(s) = 2
  BY <1>1, SeqMade
<1> QED
  BY <1>2 DEF BackwardOutput

\* What it leaves alone.
LEMMA BackwardOutputPasses ==
    ASSUME NEW l, NEW b, \A which \in GradNames : LayerOf("grads", l, which) # b,
           b \notin {Scratch("d_a")}
    PROVE  Passing(BackwardOutput(l), b)
<1> PICK s : s = BackwardOutput(l)
  OBVIOUS
<1>0. LayerOf("grads", l, "wo") # b
  BY DEF GradNames
<1>1. Passes(s[1], b)
  BY <1>0, BackwardOutputIs, CommandsPass
<1>2. Passes(s[2], b)
  BY BackwardOutputIs, CommandsPass
<1>3. \A i \in 1 .. 2 : Passes(s[i], b)
  BY ONLY <1>1, <1>2
<1> QED
  BY <1>3, BackwardOutputIs DEF Passing

\* Of attention itself.
LEMMA dispatch_attention_bwdIs ==
    ASSUME NEW l, NEW s, s = dispatch_attention_bwd(l)
    PROVE  /\ IsSeq(s) /\ Len(s) = 3
           /\ s[1] = Dispatch("attention_dscore", <<"t", "band">>, NoSeq, <<Scratch("d_a"),
                              Acts("v", l), Acts("probs", l)>>, <<Scratch("d_score")>>)
           /\ s[2] = Dispatch("attention_dq", <<"t", "band">>, NoSeq, <<Scratch("d_score"),
                              Acts("k", l)>>, <<Scratch("d_q")>>)
           /\ s[3] = Dispatch("attention_dkdv", <<"t", "band">>, NoSeq, <<Scratch("d_score"),
                              Acts("probs", l), Acts("q", l), Scratch("d_a")>>,
                              <<Scratch("d_k"), Scratch("d_v")>>)
<1>1. DOMAIN s = 1 .. 3 /\ s = [i \in 1 .. 3 |-> s[i]] /\ 3 \in Nat
  BY DEF dispatch_attention_bwd
<1>2. IsSeq(s) /\ Len(s) = 3
  BY <1>1, SeqMade
<1> QED
  BY <1>2 DEF dispatch_attention_bwd

\* What it leaves alone.
LEMMA dispatch_attention_bwdPasses ==
    ASSUME NEW l, NEW b, b \notin {Scratch("d_score"), Scratch("d_q"), Scratch("d_k"), Scratch("d_v")}
    PROVE  Passing(dispatch_attention_bwd(l), b)
<1> PICK s : s = dispatch_attention_bwd(l)
  OBVIOUS
<1>0. /\ \A dims, reads, w : w # b =>
            /\ Passes(Dispatch("attention_dscore", dims, NoSeq, reads, <<w>>), b)
            /\ Passes(Dispatch("attention_dq", dims, NoSeq, reads, <<w>>), b)
      /\ \A dims, reads, w, x : w # b /\ x # b =>
            Passes(Dispatch("attention_dkdv", dims, NoSeq, reads, <<w, x>>), b)
  <2>1. {"attention_dscore", "attention_dq", "attention_dkdv"} \subseteq Ops \ {"adam"}
    BY DEF Ops, Computing, Accumulating
  <2> QED
    BY <2>1, OnePasses, TwoPasses
<1>1. Passes(s[1], b)
  BY dispatch_attention_bwdIs, <1>0
<1>2. Passes(s[2], b)
  BY dispatch_attention_bwdIs, <1>0
<1>3. Passes(s[3], b)
  BY dispatch_attention_bwdIs, <1>0
<1>4. \A i \in 1 .. 3 : Passes(s[i], b)
  BY ONLY <1>1, <1>2, <1>3
<1> QED
  BY <1>4, dispatch_attention_bwdIs DEF Passing

\* Of the projections to queries, keys and values, and the norm before them.
LEMMA BackwardProjectionsIs ==
    ASSUME NEW l, NEW s, s = BackwardProjections(l)
    PROVE  /\ IsSeq(s) /\ Len(s) = 13
           /\ s[1] = dispatch_rope(Scratch("d_q"), "t", "heads", NoSeq, "inv")
           /\ s[2] = dispatch_rope(Scratch("d_k"), "t", "kv_heads", NoSeq, "inv")
           /\ s[3] = dispatch_linear_bwd_dw(Scratch("d_q"), Acts("normed1", l), LayerOf("grads",
                                            l, "wq"), "h", "h")
           /\ s[4] = dispatch_linear_bwd_dw(Scratch("d_k"), Acts("normed1", l), LayerOf("grads",
                                            l, "wk"), "h", "kv")
           /\ s[5] = dispatch_linear_bwd_dw(Scratch("d_v"), Acts("normed1", l), LayerOf("grads",
                                            l, "wv"), "h", "kv")
           /\ s[6] = dispatch_linear_bwd_dx(Scratch("d_q"), LayerOf("weights", l, "wq"),
                                            Scratch("d_a"), "h", "h")
           /\ s[7] = dispatch_linear_bwd_dx(Scratch("d_k"), LayerOf("weights", l, "wk"),
                                            Scratch("d_b"), "h", "kv")
           /\ s[8] = dispatch_linear_bwd_dx(Scratch("d_v"), LayerOf("weights", l, "wv"),
                                            Scratch("d_c"), "h", "kv")
           /\ s[9] = dispatch_add_inplace(Scratch("d_a"), Scratch("d_b"), "t")
           /\ s[10] = dispatch_add_inplace(Scratch("d_a"), Scratch("d_c"), "t")
           /\ s[11] = dispatch_rmsnorm_bwd_dgain(Scratch("d_a"), Acts("h_in", l),
                                                 Acts("inv_rms1", l), LayerOf("grads", l,
                                                 "attn_norm_gain"))
           /\ s[12] = dispatch_rmsnorm_bwd_dx(Scratch("d_a"), Acts("h_in", l),
                                              LayerOf("weights", l, "attn_norm_gain"),
                                              Acts("inv_rms1", l), Scratch("d_c"))
           /\ s[13] = dispatch_add_inplace(Scratch("d_hidden"), Scratch("d_c"), "t")
<1>1. DOMAIN s = 1 .. 13 /\ s = [i \in 1 .. 13 |-> s[i]] /\ 13 \in Nat
  BY DEF BackwardProjections
<1>2. IsSeq(s) /\ Len(s) = 13
  BY <1>1, SeqMade
<1> QED
  BY <1>2 DEF BackwardProjections

\* What it leaves alone.
LEMMA BackwardProjectionsPasses ==
    ASSUME NEW l, NEW b, \A which \in GradNames : LayerOf("grads", l, which) # b,
           b \notin {Scratch("d_q"), Scratch("d_k"), Scratch("d_a"), Scratch("d_b"),
                    Scratch("d_c"), Scratch("d_hidden")}
    PROVE  Passing(BackwardProjections(l), b)
<1> PICK s : s = BackwardProjections(l)
  OBVIOUS
<1>0. /\ LayerOf("grads", l, "wq") # b
      /\ LayerOf("grads", l, "wk") # b
      /\ LayerOf("grads", l, "wv") # b
      /\ LayerOf("grads", l, "attn_norm_gain") # b
  BY DEF GradNames
<1>1. Passes(s[1], b)
  BY BackwardProjectionsIs, CommandsPass
<1>2. Passes(s[2], b)
  BY BackwardProjectionsIs, CommandsPass
<1>3. Passes(s[3], b)
  BY <1>0, BackwardProjectionsIs, CommandsPass
<1>4. Passes(s[4], b)
  BY <1>0, BackwardProjectionsIs, CommandsPass
<1>5. Passes(s[5], b)
  BY <1>0, BackwardProjectionsIs, CommandsPass
<1>6. Passes(s[6], b)
  BY BackwardProjectionsIs, CommandsPass, ZenonT(60)
<1>7. Passes(s[7], b)
  BY BackwardProjectionsIs, CommandsPass, SMTT(60)
<1>8. Passes(s[8], b)
  BY BackwardProjectionsIs, CommandsPass
<1>9. Passes(s[9], b)
  BY BackwardProjectionsIs, CommandsPass
<1>10. Passes(s[10], b)
  BY BackwardProjectionsIs, CommandsPass
<1>11. Passes(s[11], b)
  BY <1>0, BackwardProjectionsIs, CommandsPass
<1>12. Passes(s[12], b)
  BY BackwardProjectionsIs, CommandsPass
<1>13. Passes(s[13], b)
  BY BackwardProjectionsIs, CommandsPass
<1>14. \A i \in 1 .. 13 : Passes(s[i], b)
  BY ONLY <1>1, <1>2, <1>3, <1>4, <1>5, <1>6, <1>7, <1>8, <1>9, <1>10, <1>11, <1>12, <1>13
<1> QED
  BY <1>14, BackwardProjectionsIs DEF Passing

-----------------------------------------------------------------------------
(* The passes of a call.                                                   *)

\* One command.
LEMMA OneIs == ASSUME NEW c PROVE IsSeq(<<c>>) /\ Len(<<c>>) = 1 /\ <<c>>[1] = c
BY <<c>> \in Seq({c}) DEF IsSeq

\* It passes when it does on its own.
LEMMA OnePassing == ASSUME NEW b, NEW c, Passes(c, b) PROVE Passing(<<c>>, b)
<1>1. \A i \in 1 .. 1 : Passes(<<c>>[i], b)
  BY OneIs
<1> QED
  BY <1>1, OneIs DEF Passing

\* A layer's backward pass.
LEMMA LayerBackwardPasses ==
    ASSUME NEW l, NEW b, \A which \in GradNames : LayerOf("grads", l, which) # b,
           b \notin {Scratch("act"), Scratch("d_act"), Scratch("d_gate"), Scratch("d_up"),
                     Scratch("d_a"), Scratch("d_b"), Scratch("d_c"), Scratch("d_hidden"),
                     Scratch("d_score"), Scratch("d_q"), Scratch("d_k"), Scratch("d_v")}
    PROVE  Passing(BackwardMlp(l) \o BackwardAttention(l), b)
<1>1. Passing(BackwardMlp(l), b)
  BY BackwardMlpPasses
<1>2. Passing(BackwardOutput(l), b)
  BY BackwardOutputPasses
<1>3. Passing(dispatch_attention_bwd(l), b)
  BY dispatch_attention_bwdPasses
<1>4. Passing(BackwardProjections(l), b)
  BY BackwardProjectionsPasses
<1> QED
  BY <1>1, <1>2, <1>3, <1>4, PassingConcat DEF BackwardAttention

\* What follows the layers of the forward pass, and what goes before those
\* of the backward pass.
ForwardEnd ==
    <<Copy(Scratch("hidden"), Scratch("h_final")),
      dispatch_rmsnorm(Scratch("hidden"), FinalGainOf("weights"), Scratch("final_normed"),
                       Scratch("final_inv_rms"), "t"),
      dispatch_linear(Scratch("final_normed"), EmbedOf("weights"), Scratch("logits"),
                      "t", "h", "vocab")>>
BackwardStart ==
    <<dispatch_linear_bwd_dw(Scratch("d_logits"), Scratch("final_normed"), EmbedOf("grads"),
                             "h", "vocab"),
      dispatch_linear_bwd_dx(Scratch("d_logits"), EmbedOf("weights"), Scratch("d_a"),
                             "h", "vocab"),
      dispatch_rmsnorm_bwd_dgain(Scratch("d_a"), Scratch("h_final"), Scratch("final_inv_rms"),
                                 FinalGainOf("grads")),
      dispatch_rmsnorm_bwd_dx(Scratch("d_a"), Scratch("h_final"), FinalGainOf("weights"),
                              Scratch("final_inv_rms"), Scratch("d_hidden"))>>

\* The forward pass writes activations and scratch buffers only.
LEMMA ForwardPasses ==
    ASSUME NEW b, \A name, l : Acts(name, l) # b,
           b \notin {Scratch("hidden"), Scratch("tmp_h"), Scratch("act"), Scratch("h_final"),
                     Scratch("final_normed"), Scratch("final_inv_rms"), Scratch("logits")}
    PROVE  Passing(encode_forward, b)
<1> PICK ss : ss = [l \in 1 .. Layers |-> ForwardLayer(l)]
  OBVIOUS
<1>1. encode_forward
      = (<<dispatch_gather(EmbedOf("weights"), Scratch("tokens"), Scratch("hidden"), "t")>>
         \o FlattenSeq(ss)) \o ForwardEnd
  BY DEF encode_forward, ForwardEnd
<1>2. Passing(<<dispatch_gather(EmbedOf("weights"), Scratch("tokens"), Scratch("hidden"), "t")>>, b)
  BY OnePassing, CommandsPass
<1>3. Passing(FlattenSeq(ss), b)
  <2>1. Layers \in Nat /\ DOMAIN ss = 1 .. Layers /\ ss = [l \in 1 .. Layers |-> ss[l]]
    BY LayersAssumption
  <2>2. \A l \in 1 .. Layers : Passing(ss[l], b)
    BY ForwardLayerPasses
  <2> QED
    BY ONLY <2>1, <2>2, PassingFlat
<1>4. Passing(ForwardEnd, b)
  <2> PICK s : s = ForwardEnd
    OBVIOUS
  <2>1. IsSeq(s) /\ Len(s) = 3
    <3>1. DOMAIN s = 1 .. 3 /\ s = [i \in 1 .. 3 |-> s[i]] /\ 3 \in Nat
      BY DEF ForwardEnd
    <3> QED
      BY <3>1, SeqMade
  <2>2. Passes(s[1], b)
    BY CommandsPass DEF ForwardEnd
  <2>3. Passes(s[2], b)
    BY CommandsPass DEF ForwardEnd
  <2>4. Passes(s[3], b)
    BY CommandsPass DEF ForwardEnd
  <2>5. \A i \in 1 .. 3 : Passes(s[i], b)
    BY ONLY <2>2, <2>3, <2>4
  <2> QED
    BY <2>1, <2>5 DEF Passing
<1> QED
  BY <1>1, <1>2, <1>3, <1>4, PassingConcat

\* The backward pass writes gradients and scratch buffers only.
LEMMA BackwardPasses ==
    ASSUME NEW seq, NEW b,
           \A l \in 1 .. Layers, which \in GradNames : LayerOf("grads", l, which) # b,
           EmbedOf("grads") # b, FinalGainOf("grads") # b,
           b \notin {Scratch("act"), Scratch("d_act"), Scratch("d_gate"), Scratch("d_up"),
                     Scratch("d_a"), Scratch("d_b"), Scratch("d_c"), Scratch("d_hidden"),
                     Scratch("d_score"), Scratch("d_q"), Scratch("d_k"), Scratch("d_v")}
    PROVE  Passing(encode_backward(seq), b)
<1> PICK ss : ss = [k \in 1 .. Layers |->
                      BackwardMlp(Layers + 1 - k) \o BackwardAttention(Layers + 1 - k)]
  OBVIOUS
<1> PICK c : c = dispatch_scatter_add(Scratch("d_hidden"), Scratch("row_ids"),
                    Scratch("row_offsets"), Scratch("row_positions"), EmbedOf("grads"), seq,
                    ScatterGroups(seq.toks))
  OBVIOUS
<1>1. encode_backward(seq) = (BackwardStart \o FlattenSeq(ss)) \o <<c>>
  BY DEF encode_backward, BackwardStart
<1>2. Passing(<<c>>, b)
  BY OnePassing, CommandsPass
<1>3. Passing(FlattenSeq(ss), b)
  <2>1. Layers \in Nat /\ DOMAIN ss = 1 .. Layers /\ ss = [l \in 1 .. Layers |-> ss[l]]
    BY LayersAssumption
  <2>2. ASSUME NEW k \in 1 .. Layers PROVE Passing(ss[k], b)
    <3> PICK l : l = Layers + 1 - k
      OBVIOUS
    <3>1. ss[k] = BackwardMlp(l) \o BackwardAttention(l) /\ l \in 1 .. Layers
      BY LayersAssumption
    <3> QED
      BY <3>1, LayerBackwardPasses
  <2> QED
    BY ONLY <2>1, <2>2, PassingFlat
<1>4. Passing(BackwardStart, b)
  <2> PICK s : s = BackwardStart
    OBVIOUS
  <2>1. IsSeq(s) /\ Len(s) = 4
    <3>1. DOMAIN s = 1 .. 4 /\ s = [i \in 1 .. 4 |-> s[i]] /\ 4 \in Nat
      BY DEF BackwardStart
    <3> QED
      BY <3>1, SeqMade
  <2>2. Passes(s[1], b)
    BY CommandsPass DEF BackwardStart
  <2>3. Passes(s[2], b)
    BY CommandsPass DEF BackwardStart
  <2>4. Passes(s[3], b)
    BY CommandsPass DEF BackwardStart
  <2>5. Passes(s[4], b)
    BY CommandsPass DEF BackwardStart
  <2>6. \A i \in 1 .. 4 : Passes(s[i], b)
    BY ONLY <2>2, <2>3, <2>4, <2>5
  <2> QED
    BY <2>1, <2>6 DEF Passing
<1> QED
  BY <1>1, <1>2, <1>3, <1>4, PassingConcat

\* The two stages of a reduction.
LEMMA ReducePasses ==
    ASSUME NEW src, NEW slot, NEW square, NEW groups, NEW b, b # Scratch("partials"), b # Stats
    PROVE  Passing(ReduceInto(src, slot, square, groups), b)
<1> PICK s : s = ReduceInto(src, slot, square, groups)
  OBVIOUS
<1>1. /\ s[1] = Dispatch("reduce", <<square, groups>>, NoSeq, <<src>>, <<Scratch("partials")>>)
      /\ s[2] = Dispatch("reduce_finish", <<slot, groups>>, NoSeq, <<Scratch("partials")>>,
                         <<Stats>>)
      /\ DOMAIN s = 1 .. 2 /\ s = [i \in 1 .. 2 |-> s[i]] /\ 2 \in Nat
  BY DEF ReduceInto, dispatch_reduce
<1>2. IsSeq(s) /\ Len(s) = 2
  BY <1>1, SeqMade
<1>3. /\ \A dims, reads : Passes(Dispatch("reduce", dims, NoSeq, reads, <<Scratch("partials")>>), b)
      /\ \A dims, reads : Passes(Dispatch("reduce_finish", dims, NoSeq, reads, <<Stats>>), b)
  <2>1. "reduce" \in Ops \ {"adam"} /\ "reduce_finish" \in Ops \ {"adam"}
    BY DEF Ops
  <2> QED
    BY <2>1, OnePasses
<1>4. Passes(s[1], b) /\ Passes(s[2], b)
  BY <1>1, <1>3
<1>5. \A i \in 1 .. 2 : Passes(s[i], b)
  BY ONLY <1>4
<1> QED
  BY <1>2, <1>5 DEF Passing

\* The loss of a sequence.
LEMMA LossPasses ==
    ASSUME NEW b, b \notin {Scratch("d_logits"), Scratch("loss_rows"), Scratch("partials"), Stats}
    PROVE  Passing(encode_loss, b)
<1>1. \A dims, reads, y, z : y # b /\ z # b =>
        Passes(Dispatch("cross_entropy", dims, NoSeq, reads, <<y, z>>), b)
  <2>1. "cross_entropy" \in Ops \ {"adam"}
    BY DEF Ops, Computing
  <2> QED
    BY <2>1, TwoPasses
<1>2. \A dims, reads :
        Passing(<<Dispatch("cross_entropy", dims, NoSeq, reads,
                           <<Scratch("d_logits"), Scratch("loss_rows")>>)>>, b)
  BY <1>1, OnePassing
<1>3. Passing(ReduceInto(Scratch("loss_rows"), 0, FALSE, "rows"), b)
  <2> PICK square : square = FALSE
    OBVIOUS
  <2>1. Passing(ReduceInto(Scratch("loss_rows"), 0, square, "rows"), b)
    BY ReducePasses
  <2> QED
    BY <2>1
<1> QED
  BY <1>2, <1>3, PassingConcat DEF encode_loss

\* The norms of the gradients.
LEMMA ReduceGradientsPasses ==
    ASSUME NEW b, b # Scratch("partials"), b # Stats
    PROVE  Passing(ReduceGradients, b)
<1> PICK n, ss : /\ n = Len(shapes)
                 /\ ss = [i \in Slots |-> ReduceInto(InSet("grads", i), i, TRUE, shapes[i])]
  OBVIOUS
<1>1. n \in Nat /\ DOMAIN ss = 1 .. n /\ ss = [i \in 1 .. n |-> ss[i]]
  BY ShapesIs
<1>2. ASSUME NEW i \in 1 .. n PROVE Passing(ss[i], b)
  <2>1. i \in Slots
    BY ShapesIs
  <2> PICK square : square = TRUE
    OBVIOUS
  <2> PICK src, groups : src = InSet("grads", i) /\ groups = shapes[i]
    OBVIOUS
  <2>2. Passing(ReduceInto(src, i, square, groups), b)
    BY ONLY b # Scratch("partials"), b # Stats, ReducePasses
  <2> QED
    BY <2>1, <2>2
<1>3. Passing(FlattenSeq(ss), b)
  BY ONLY <1>1, <1>2, PassingFlat
<1> QED
  BY <1>3 DEF ReduceGradients

\* A step zeroes the gradients and the sums.
LEMMA ZeroPasses ==
    ASSUME NEW b, \A i \in Slots : InSet("grads", i) # b, b # Stats
    PROVE  Passing(ZeroAll, b)
<1> PICK n, s : /\ n = Len(shapes)
                /\ s = [i \in Slots |-> dispatch_zero(InSet("grads", i), "all")]
  OBVIOUS
<1>1. n \in Nat /\ DOMAIN s = 1 .. n /\ s = [i \in 1 .. n |-> s[i]]
  BY ShapesIs
<1>2. IsSeq(s) /\ Len(s) = n
  BY <1>1, SeqMade
<1>3. \A i \in 1 .. n : Passes(s[i], b)
  BY ShapesIs, CommandsPass
<1>4. Passing(s, b)
  BY <1>2, <1>3 DEF Passing
<1>5. Passing(<<dispatch_zero(Stats, StatsLen)>>, b)
  BY CommandsPass, OnePassing
<1> QED
  BY <1>4, <1>5, PassingConcat DEF ZeroAll

\* The optimizer writes weights and moments.
LEMMA AdamPasses ==
    ASSUME NEW step, NEW lr, NEW scale, NEW b,
           \A i \in Slots, set \in {"weights", "m", "v"} : InSet(set, i) # b
    PROVE  Passing(encode_adam(step, lr, scale), b)
<1> PICK n, s : n = Len(shapes) /\ s = encode_adam(step, lr, scale)
  OBVIOUS
<1>1. n \in Nat /\ DOMAIN s = 1 .. n /\ s = [i \in 1 .. n |-> s[i]]
  BY ShapesIs DEF encode_adam
<1>2. IsSeq(s) /\ Len(s) = n
  BY <1>1, SeqMade
<1>3. ASSUME NEW i \in 1 .. n PROVE Passes(s[i], b)
  <2> PICK c : c = s[i]
    OBVIOUS
  <2>1. /\ c.do = "dispatch" /\ c.op = "adam"
        /\ c.writes = <<InSet("weights", i), InSet("m", i), InSet("v", i)>>
    BY ShapesIs DEF encode_adam, Dispatch
  <2>2. Len(c.writes) = 3 /\ DOMAIN c.writes = 1 .. 3 /\ \A k \in 1 .. 3 : c.writes[k] # b
    <3>1. InSet("weights", i) # b /\ InSet("m", i) # b /\ InSet("v", i) # b
      BY ShapesIs
    <3> QED
      BY <2>1, <3>1
  <2> QED
    BY <2>1, <2>2 DEF Passes, Records, Ops
<1> QED
  BY <1>2, <1>3 DEF Passing

-----------------------------------------------------------------------------
(* What a call encodes is all submitted, and overtakes nothing.            *)

Recording(c) == c.do \in {"copy", "dispatch"}

\* A call's commands: buffers are zeroed, others are written at once, the
\* rest is recorded, and submitted.
LEMMA CallComplete ==
    ASSUME NEW z, NEW w, NEW r, IsSeq(z), IsSeq(w), IsSeq(r),
           \A i \in 1 .. Len(z) : Recording(z[i]) /\ z[i].op = "zero" /\ z[i].writes[1] = Stats,
           \A i \in 1 .. Len(w) : w[i].do = "write" /\ w[i].dst # Stats,
           \A i \in 1 .. Len(r) : Recording(r[i])
    PROVE  Complete(((z \o w) \o r) \o <<Flush>>)
<1> PICK n, k, o : n = Len(z) /\ k = Len(w) /\ o = Len(r)
  OBVIOUS
<1> PICK t, u, s : t = z \o w /\ u = t \o r /\ s = u \o <<Flush>>
  OBVIOUS
<1>1. n \in Nat /\ k \in Nat /\ o \in Nat
  BY SeqIs
<1>2. /\ IsSeq(t) /\ Len(t) = n + k /\ \A i \in 1 .. n : t[i] = z[i]
      /\ \A i \in n + 1 .. n + k : t[i] = w[i - n]
  BY ONLY <1>1, IsSeq(z), IsSeq(w), n = Len(z), k = Len(w), t = z \o w, ConcatAt
<1> PICK p : p = n + k
  OBVIOUS
<1>3. /\ IsSeq(u) /\ Len(u) = p + o /\ \A i \in 1 .. p : u[i] = t[i]
      /\ \A i \in p + 1 .. p + o : u[i] = r[i - p]
  <2>1. p \in Nat /\ o \in Nat /\ IsSeq(t) /\ Len(t) = p
    BY <1>1, <1>2
  <2> QED
    BY ONLY <2>1, IsSeq(r), o = Len(r), u = t \o r, ConcatAt
<1> PICK q : q = p + o
  OBVIOUS
<1>4. /\ IsSeq(s) /\ Len(s) = q + 1 /\ \A i \in 1 .. q : s[i] = u[i]
      /\ s[q + 1] = Flush
  <2>1. q \in Nat /\ Len(u) = q
    BY <1>1, <1>3
  <2>2. IsSeq(<<Flush>>) /\ Len(<<Flush>>) = 1 /\ <<Flush>>[1] = Flush
    BY OneIs
  <2>3. /\ IsSeq(s) /\ Len(s) = q + 1 /\ \A i \in 1 .. q : s[i] = u[i]
        /\ \A i \in 1 .. 1 : s[q + i] = <<Flush>>[i]
    BY <1>3, <2>1, <2>2, ConcatIs
  <2> QED
    BY <2>2, <2>3
<1>5. \A i \in 1 .. n : Recording(s[i]) /\ s[i].op = "zero" /\ s[i].writes[1] = Stats
  BY <1>1, <1>2, <1>3, <1>4
<1>6. \A i \in n + 1 .. p : s[i].do = "write" /\ s[i].dst # Stats
  <2> TAKE i \in n + 1 .. p
  <2>1. i - n \in 1 .. k /\ i \in n + 1 .. n + k /\ i \in 1 .. p /\ i \in 1 .. q
    BY <1>1
  <2>2. s[i] = w[i - n]
    BY <1>2, <1>3, <1>4, <2>1
  <2> QED
    BY <2>1, <2>2
<1>7. \A i \in p + 1 .. q : Recording(s[i])
  <2> TAKE i \in p + 1 .. q
  <2>1. i - p \in 1 .. o /\ i \in p + 1 .. p + o /\ i \in 1 .. q
    BY <1>1
  <2>2. s[i] = r[i - p]
    BY <1>3, <1>4, <2>1
  <2> QED
    BY <2>1, <2>2
<1>8. s[q + 1].do = "flush"
  BY <1>4 DEF Flush
<1>9. ASSUME NEW i \in 1 .. q + 1 PROVE s[i].do \in Kinds /\ (s[i].do = "write" => Overtakes(s, i))
  <2>1. i \in 1 .. n \/ i \in n + 1 .. p \/ i \in p + 1 .. q \/ i = q + 1
    BY <1>1
  <2>2. CASE i \in 1 .. n
    BY <1>5, <2>2 DEF Recording, Kinds
  <2>3. CASE i \in n + 1 .. p
    <3>1. 0 \in 0 .. i - 1
      BY <1>1
    <3>2. ASSUME NEW j \in 0 + 1 .. i - 1 PROVE s[j].do = "write" \/ Spares(s[j], s[i])
      <4>1. j \in 1 .. n \/ j \in n + 1 .. p
        BY <1>1, <2>3
      <4> QED
        BY <1>5, <1>6, <2>3, <4>1, SMTT(60) DEF Spares
    <3>3. Overtakes(s, i)
      BY <3>1, <3>2 DEF Overtakes
    <3> QED
      BY <1>6, <2>3, <3>3 DEF Kinds
  <2>4. CASE i \in p + 1 .. q
    BY <1>7, <2>4 DEF Recording, Kinds
  <2>5. CASE i = q + 1
    BY <1>8, <2>5 DEF Kinds
  <2> QED
    BY <2>1, <2>2, <2>3, <2>4, <2>5
<1>10. q + 1 > 0
  BY <1>1
<1> QED
  BY <1>4, <1>8, <1>9, <1>10 DEF Complete

\* Without the buffers zeroed, and without those written.
LEMMA PassComplete ==
    ASSUME NEW w, NEW r, IsSeq(w), NEW b, Passing(r, b),
           \A i \in 1 .. Len(w) : w[i].do = "write" /\ w[i].dst # Stats
    PROVE  Complete((w \o r) \o <<Flush>>) /\ Complete(r \o <<Flush>>)
<1> PICK e : e = << >>
  OBVIOUS
<1>1. IsSeq(e) /\ 1 .. Len(e) = {}
  BY << >> \in Seq({}) DEF IsSeq
<1>2. IsSeq(r) /\ \A i \in 1 .. Len(r) : Recording(r[i])
  BY DEF Passing, Passes, Records, Recording
<1>3. Complete(((e \o w) \o r) \o <<Flush>>)
  BY <1>1, <1>2, CallComplete
<1>4. Complete(((e \o e) \o r) \o <<Flush>>)
  BY <1>1, <1>2, CallComplete
<1>5. e \o w = w /\ e \o r = r /\ e \o e = e
  BY <1>1, <1>2, ConcatNothing
<1> QED
  BY <1>3, <1>4, <1>5

\* One call's commands after another's.
LEMMA CompleteConcat ==
    ASSUME NEW s, NEW t, Complete(s), Complete(t)
    PROVE  Complete(s \o t)
<1> PICK n, k, u : n = Len(s) /\ k = Len(t) /\ u = s \o t
  OBVIOUS
<1>1. /\ IsSeq(s) /\ IsSeq(t) /\ n \in Nat /\ k \in Nat /\ n > 0 /\ k > 0
      /\ s[n].do = "flush" /\ t[k].do = "flush"
      /\ \A i \in 1 .. n : s[i].do \in Kinds /\ (s[i].do = "write" => Overtakes(s, i))
      /\ \A i \in 1 .. k : t[i].do \in Kinds /\ (t[i].do = "write" => Overtakes(t, i))
  BY SeqIs DEF Complete
<1>2. /\ IsSeq(u) /\ Len(u) = n + k /\ \A i \in 1 .. n : u[i] = s[i]
      /\ \A i \in 1 .. k : u[n + i] = t[i]
  BY <1>1, ConcatIs
<1>3. ASSUME NEW i \in 1 .. n PROVE u[i].do \in Kinds /\ (u[i].do = "write" => Overtakes(u, i))
  <2>1. ASSUME u[i].do = "write" PROVE Overtakes(u, i)
    <3>1. Overtakes(s, i)
      BY <1>1, <1>2, <2>1
    <3>2. PICK p \in 0 .. i - 1 : /\ p = 0 \/ s[p].do = "flush"
                                  /\ \A j \in p + 1 .. i - 1 : s[j].do = "write" \/ Spares(s[j], s[i])
      BY <3>1 DEF Overtakes
    <3>3. p = 0 \/ u[p].do = "flush"
      BY <1>1, <1>2, <3>2
    <3>4. \A j \in p + 1 .. i - 1 : u[j].do = "write" \/ Spares(u[j], u[i])
      BY <1>1, <1>2, <3>2
    <3> QED
      BY <3>3, <3>4 DEF Overtakes
  <2> QED
    BY <1>1, <1>2, <2>1
<1>4. ASSUME NEW i \in 1 .. k
      PROVE  u[n + i].do \in Kinds /\ (u[n + i].do = "write" => Overtakes(u, n + i))
  <2>1. ASSUME u[n + i].do = "write" PROVE Overtakes(u, n + i)
    <3>1. Overtakes(t, i)
      BY <1>1, <1>2, <2>1
    <3>2. PICK p \in 0 .. i - 1 : /\ p = 0 \/ t[p].do = "flush"
                                  /\ \A j \in p + 1 .. i - 1 : t[j].do = "write" \/ Spares(t[j], t[i])
      BY <3>1 DEF Overtakes
    <3> PICK q, o : q = n + p /\ o = n + i
      OBVIOUS
    <3>3. u[q].do = "flush"
      <4>1. CASE p = 0
        BY <1>1, <1>2, <4>1
      <4>2. CASE p # 0
        <5>1. p \in 1 .. k
          BY <4>2
        <5> QED
          BY <1>2, <3>2, <4>2, <5>1
      <4> QED
        BY <4>1, <4>2
    <3>4. ASSUME NEW j \in q + 1 .. o - 1 PROVE u[j].do = "write" \/ Spares(u[j], u[o])
      <4> PICK h : h = j - n
        OBVIOUS
      <4>1. h \in p + 1 .. i - 1 /\ h \in 1 .. k /\ n + h = j
        BY <1>1
      <4>2. u[j] = t[h] /\ u[o] = t[i]
        BY <1>2, <4>1
      <4> QED
        BY <3>2, <4>1, <4>2
    <3>5. q \in 0 .. o - 1
      BY <1>1
    <3> QED
      BY <3>3, <3>4, <3>5 DEF Overtakes
  <2> QED
    BY <1>1, <1>2, <2>1
<1>5. ASSUME NEW i \in 1 .. n + k PROVE u[i].do \in Kinds /\ (u[i].do = "write" => Overtakes(u, i))
  <2>1. CASE i \in 1 .. n
    BY <1>3, <2>1
  <2>2. CASE i \notin 1 .. n
    <3> PICK j : j = i - n
      OBVIOUS
    <3>1. j \in 1 .. k /\ n + j = i
      BY <1>1, <2>2
    <3> QED
      BY <1>4, <3>1
  <2> QED
    BY <2>1, <2>2
<1>6. u[n + k].do = "flush" /\ n + k > 0
  BY <1>1, <1>2
<1> QED
  BY <1>2, <1>5, <1>6 DEF Complete

\* Any number of them, after some.
LEMMA CompleteFlat ==
    ASSUME NEW n \in Nat, NEW ss, DOMAIN ss = 1 .. n, ss = [i \in 1 .. n |-> ss[i]], n > 0,
           NEW s, IsSeq(s), \A i \in 1 .. n : Complete(ss[i]), Complete(s \o ss[1])
    PROVE  Complete(s \o FlattenSeq(ss))
<1>1. \A i \in 1 .. n : IsSeq(ss[i])
  BY DEF Complete
<1>2. PICK f : /\ f[0] = << >> /\ f[n] = FlattenSeq(ss)
               /\ \A k \in 0 .. n : IsSeq(f[k])
               /\ \A k \in 1 .. n : f[k] = f[k - 1] \o ss[k]
  BY <1>1, FlatIs
<1> DEFINE Q == {k \in 0 .. n : k = 0 \/ Complete(s \o f[k])}
<1>3. 0 \in Q
  OBVIOUS
<1>4. ASSUME NEW k \in 0 .. n - 1, k \in Q PROVE k + 1 \in Q
  <2> PICK i : i = k + 1
    OBVIOUS
  <2>1. i \in 1 .. n /\ i \in 0 .. n /\ i - 1 = k /\ k \in 0 .. n
    OBVIOUS
  <2>2. f[i] = f[k] \o ss[i]
    BY <1>2, <2>1
  <2>3. CASE k = 0
    <3> PICK a, b : a = f[k] /\ b = ss[i]
      OBVIOUS
    <3>2. i = 1 /\ a = << >> /\ IsSeq(b)
      BY <1>1, <1>2, <2>1, <2>3
    <3>3. a \o b = b
      BY ONLY <3>2, ConcatNothing
    <3>1. f[i] = ss[1]
      BY <2>2, <3>2, <3>3
    <3> QED
      BY <2>1, <3>1
  <2>4. CASE k # 0
    <3> PICK a, b : a = f[k] /\ b = ss[i]
      OBVIOUS
    <3>4. IsSeq(a) /\ IsSeq(b) /\ IsSeq(s)
      BY <1>1, <1>2, <2>1
    <3>5. (s \o a) \o b = s \o (a \o b)
      BY ONLY <3>4, ConcatThree
    <3>1. s \o f[i] = (s \o f[k]) \o ss[i]
      BY <2>2, <3>5
    <3>2. Complete(s \o f[k]) /\ Complete(ss[i])
      BY <1>4, <2>1, <2>4
    <3>3. Complete(s \o f[i])
      BY <3>1, <3>2, CompleteConcat
    <3> QED
      BY <2>1, <3>3
  <2> QED
    BY <2>3, <2>4
<1>5. 0 .. n \subseteq Q
  <2> HIDE DEF Q
  <2> QED
    BY <1>3, <1>4, Climb
<1> QED
  BY <1>2, <1>5

\* Every command recorded somewhere leaves this buffer alone: there is none.
Nowhere == <<"nowhere", 0, "nowhere">>

\* What a sequence's tokens and index are written to.
LEMMA WritesIs ==
    ASSUME NEW seq, NEW s, s = WriteTokens(seq)
    PROVE  /\ IsSeq(s) /\ Len(s) = 2
           /\ s[1] = WriteBuffer(Scratch("tokens"), Value(Tokens, seq))
           /\ s[2] = WriteBuffer(Scratch("targets"), Value(Top("targets"), seq))
<1>1. DOMAIN s = 1 .. 2 /\ s = [i \in 1 .. 2 |-> s[i]] /\ 2 \in Nat
  BY DEF WriteTokens
<1>2. IsSeq(s) /\ Len(s) = 2
  BY <1>1, SeqMade
<1> QED
  BY <1>2 DEF WriteTokens

\* Where the scatter index goes.
LEMMA IndexIs ==
    ASSUME NEW tokens, NEW s, s = upload_scatter_index(tokens)
    PROVE  /\ IsSeq(s) /\ Len(s) = 3
           /\ s[1] = WriteBuffer(Scratch("row_ids"), RowIds(tokens))
           /\ s[2] = WriteBuffer(Scratch("row_offsets"), RowOffsets(tokens))
           /\ s[3] = WriteBuffer(Scratch("row_positions"), RowPositions(tokens))
<1>1. DOMAIN s = 1 .. 3 /\ s = [i \in 1 .. 3 |-> s[i]] /\ 3 \in Nat
  BY DEF upload_scatter_index
<1>2. IsSeq(s) /\ Len(s) = 3
  BY <1>1, SeqMade
<1> QED
  BY <1>2 DEF upload_scatter_index

\* What writing a buffer is.
LEMMA WriteIs ==
    ASSUME NEW dst, NEW value
    PROVE  /\ WriteBuffer(dst, value).do = "write" /\ WriteBuffer(dst, value).dst = dst
           /\ WriteBuffer(dst, value).value = value
BY DEF WriteBuffer

\* They are written at once, and none of them is a sum.
Writing(s) == IsSeq(s) /\ \A i \in 1 .. Len(s) : s[i].do = "write" /\ s[i].dst # Stats

\* The tokens and the targets.
LEMMA TokensWriting == ASSUME NEW seq PROVE Writing(WriteTokens(seq))
<1> PICK s : s = WriteTokens(seq)
  OBVIOUS
<1>1. \A i \in 1 .. 2 : s[i].do = "write" /\ s[i].dst # Stats
  <2>1. /\ s[1].do = "write" /\ s[1].dst = Scratch("tokens")
        /\ s[2].do = "write" /\ s[2].dst = Scratch("targets")
    BY WritesIs, WriteIs
  <2> QED
    BY ONLY <2>1 DEF Scratch, Stats
<1> QED
  BY <1>1, WritesIs DEF Writing

\* The index as well.
LEMMA UploadsWriting ==
    ASSUME NEW seq
    PROVE  Writing(WriteTokens(seq) \o upload_scatter_index(seq.toks))
<1> PICK s, t, tokens : s = WriteTokens(seq) /\ t = upload_scatter_index(tokens) /\ tokens = seq.toks
  OBVIOUS
<1>1. IsSeq(s) /\ Len(s) = 2 /\ \A i \in 1 .. 2 : s[i].do = "write" /\ s[i].dst # Stats
  BY TokensWriting, WritesIs DEF Writing
<1>2. IsSeq(t) /\ Len(t) = 3 /\ \A i \in 1 .. 3 : t[i].do = "write" /\ t[i].dst # Stats
  <2>1. /\ t[1].do = "write" /\ t[1].dst = Scratch("row_ids")
        /\ t[2].do = "write" /\ t[2].dst = Scratch("row_offsets")
        /\ t[3].do = "write" /\ t[3].dst = Scratch("row_positions")
    <3>1. PICK x, y, z : /\ t[1] = WriteBuffer(Scratch("row_ids"), x)
                         /\ t[2] = WriteBuffer(Scratch("row_offsets"), y)
                         /\ t[3] = WriteBuffer(Scratch("row_positions"), z)
      BY IndexIs
    <3> QED
      BY <3>1, WriteIs
  <2>2. \A i \in 1 .. 3 : t[i].do = "write" /\ t[i].dst # Stats
    BY ONLY <2>1 DEF Scratch, Stats
  <2> QED
    BY <2>2, IndexIs
<1>3. IsSeq(s \o t)
  BY <1>1, <1>2, ConcatIs
<1>4. ASSUME NEW i \in 1 .. Len(s \o t)
      PROVE  (s \o t)[i].do = "write" /\ (s \o t)[i].dst # Stats
  <2>1. (\E k \in 1 .. Len(s) : (s \o t)[i] = s[k]) \/ (\E k \in 1 .. Len(t) : (s \o t)[i] = t[k])
    <3>1. IsSeq(s) /\ IsSeq(t)
      BY <1>1, <1>2
    <3> QED
      BY ONLY i \in 1 .. Len(s \o t), <3>1, ConcatFrom, SMTT(60)
  <2> QED
    BY <1>1, <1>2, <2>1, SMTT(60)
<1> QED
  BY <1>3, <1>4 DEF Writing

\* The passes of a call, as far as what they leave alone goes.
LEMMA PassesPass ==
    /\ Passing(encode_forward, Nowhere) /\ Passing(encode_loss, Nowhere)
    /\ \A seq : Passing(encode_backward(seq), Nowhere)
    /\ Passing(ZeroAll, Nowhere) /\ Passing(ReduceGradients, Nowhere)
    /\ \A step, lr, scale : Passing(encode_adam(step, lr, scale), Nowhere)
<1>1. /\ \A name, l : Acts(name, l) # Nowhere
      /\ \A name : Scratch(name) # Nowhere
      /\ \A set, i : InSet(set, i) # Nowhere
      /\ \A set, l, which : LayerOf(set, l, which) # Nowhere
      /\ EmbedOf("grads") # Nowhere /\ FinalGainOf("grads") # Nowhere /\ Stats # Nowhere
  BY DEF Acts, Scratch, InSet, LayerOf, EmbedOf, FinalGainOf, Stats, Nowhere
<1>2. Passing(encode_forward, Nowhere)
  BY <1>1, ForwardPasses
<1>3. Passing(encode_loss, Nowhere)
  BY <1>1, LossPasses
<1>4. \A seq : Passing(encode_backward(seq), Nowhere)
  BY <1>1, BackwardPasses
<1>5. Passing(ZeroAll, Nowhere) /\ Passing(ReduceGradients, Nowhere)
  BY <1>1, ZeroPasses, ReduceGradientsPasses
<1>6. \A step, lr, scale : Passing(encode_adam(step, lr, scale), Nowhere)
  BY <1>1, AdamPasses
<1> QED
  BY <1>2, <1>3, <1>4, <1>5, <1>6

\* Sequences over a set, one after the other.
LEMMA FlatIn ==
    ASSUME NEW S, NEW n \in Nat, NEW ss, DOMAIN ss = 1 .. n, ss = [i \in 1 .. n |-> ss[i]],
           \A i \in 1 .. n : ss[i] \in Seq(S)
    PROVE  FlattenSeq(ss) \in Seq(S)
<1>1. \A i \in 1 .. n : IsSeq(ss[i])
  BY DEF IsSeq
<1>2. PICK f : /\ f[0] = << >> /\ f[n] = FlattenSeq(ss)
               /\ \A k \in 0 .. n : IsSeq(f[k])
               /\ \A k \in 1 .. n : f[k] = f[k - 1] \o ss[k]
  BY <1>1, FlatIs
<1> DEFINE Q == {k \in 0 .. n : f[k] \in Seq(S)}
<1>3. 0 \in Q
  <2>1. << >> \in Seq(S) /\ 0 \in 0 .. n
    OBVIOUS
  <2> QED
    BY <1>2, <2>1
<1>4. ASSUME NEW k \in 0 .. n - 1, k \in Q PROVE k + 1 \in Q
  <2> PICK i : i = k + 1
    OBVIOUS
  <2>1. i \in 1 .. n /\ i \in 0 .. n /\ i - 1 = k
    OBVIOUS
  <2> PICK a, b : a = f[k] /\ b = ss[i]
    OBVIOUS
  <2>2. f[i] = a \o b /\ a \in Seq(S) /\ b \in Seq(S)
    BY <1>2, <1>4, <2>1
  <2>3. a \o b \in Seq(S)
    BY ONLY <2>2
  <2> QED
    BY <2>1, <2>2, <2>3
<1>5. 0 .. n \subseteq Q
  <2> HIDE DEF Q
  <2> QED
    BY <1>3, <1>4, Climb
<1> QED
  BY <1>2, <1>5

\* Each phase of a sequence is all submitted, and overtakes nothing.
LEMMA SequencePhasesComplete ==
    ASSUME NEW kind, NEW seq
    PROVE  \E S : SequencePhases(kind, seq) \in Seq(S) /\ \A s \in S : Complete(s)
<1> PICK u, f, l, b, h :
       /\ u = WriteTokens(seq) \o upload_scatter_index(seq.toks)
       /\ f = encode_forward /\ l = encode_loss /\ b = encode_backward(seq)
       /\ h = <<Flush>>
  OBVIOUS
<1>1. /\ IsSeq(u) /\ (\A i \in 1 .. Len(u) : u[i].do = "write" /\ u[i].dst # Stats)
      /\ Passing(f, Nowhere) /\ Passing(l, Nowhere) /\ Passing(b, Nowhere)
  BY UploadsWriting, PassesPass DEF Writing
<1>2. Complete((u \o f) \o h) /\ Complete(l \o h) /\ Complete(b \o h)
  BY <1>1, PassComplete
<1>3. Complete((((u \o f) \o l) \o b) \o h)
  <2>1. Passing((f \o l) \o b, Nowhere)
    BY <1>1, PassingConcat
  <2>2. Complete((u \o ((f \o l) \o b)) \o h)
    BY <1>1, <2>1, PassComplete
  <2>3. IsSeq(f) /\ IsSeq(l) /\ IsSeq(b) /\ IsSeq(u)
    BY <1>1 DEF Passing
  <2>4. IsSeq(f \o l)
    BY <2>3, ConcatIs
  <2>5. u \o ((f \o l) \o b) = (u \o (f \o l)) \o b
    BY ONLY <2>3, <2>4, ConcatThree
  <2>6. u \o (f \o l) = (u \o f) \o l
    BY ONLY <2>3, ConcatThree
  <2> QED
    BY <2>2, <2>5, <2>6
<1>4. CASE kind = "profile"
  <2>1. SequencePhases(kind, seq) = <<(u \o f) \o h, l \o h, b \o h>>
    BY <1>4 DEF SequencePhases
  <2> PICK x, y, z : x = (u \o f) \o h /\ y = l \o h /\ z = b \o h
    OBVIOUS
  <2>2. SequencePhases(kind, seq) \in Seq({x, y, z})
    BY <2>1
  <2>3. \A s \in {x, y, z} : Complete(s)
    BY <1>2
  <2> QED
    BY ONLY <2>2, <2>3
<1>5. CASE kind # "profile"
  <2> PICK x : x = (((u \o f) \o l) \o b) \o h
    OBVIOUS
  <2>1. SequencePhases(kind, seq) = <<x>>
    BY <1>5 DEF SequencePhases
  <2>2. SequencePhases(kind, seq) \in Seq({x})
    BY <2>1
  <2>3. \A s \in {x} : Complete(s)
    BY <1>3
  <2> QED
    BY ONLY <2>2, <2>3
<1> QED
  BY <1>4, <1>5

\* Each phase of a step is all submitted, and overtakes nothing.
LEMMA PhasesComplete ==
    ASSUME NEW kind, NEW n \in Nat, NEW seqs, DOMAIN seqs = 1 .. n
    PROVE  \E S : Phases(kind, seqs) \in Seq(S) /\ \A s \in S : Complete(s)
<1> PICK ss : ss = [b \in DOMAIN seqs |-> SequencePhases(kind, seqs[b])]
  OBVIOUS
<1> PICK z, r : z = ZeroAll \o <<Flush>> /\ r = ReduceGradients \o <<Flush>>
  OBVIOUS
<1>1. Complete(z) /\ Complete(r)
  <2>1. IsSeq(<< >>) /\ 1 .. Len(<< >>) = {}
    BY << >> \in Seq({}) DEF IsSeq
  <2> PICK e : e = << >>
    OBVIOUS
  <2>2. IsSeq(e) /\ \A i \in 1 .. Len(e) : e[i].do = "write" /\ e[i].dst # Stats
    BY <2>1
  <2> QED
    BY <2>2, PassesPass, PassComplete
<1> PICK S : S = [b \in 1 .. n |-> CHOOSE T : /\ SequencePhases(kind, seqs[b]) \in Seq(T)
                                             /\ \A s \in T : Complete(s)]
  OBVIOUS
<1>2. ASSUME NEW b \in 1 .. n
      PROVE  SequencePhases(kind, seqs[b]) \in Seq(S[b]) /\ \A s \in S[b] : Complete(s)
  <2>1. \E T : SequencePhases(kind, seqs[b]) \in Seq(T) /\ \A s \in T : Complete(s)
    BY SequencePhasesComplete
  <2>2. S[b] = CHOOSE T : SequencePhases(kind, seqs[b]) \in Seq(T) /\ \A s \in T : Complete(s)
    OBVIOUS
  <2> QED
    BY ONLY <2>1, <2>2, Zenon
<1> PICK U : U = (UNION {S[b] : b \in 1 .. n}) \cup {z, r}
  OBVIOUS
<1>3. ASSUME NEW s \in U PROVE Complete(s)
  <2>1. CASE s \in {z, r}
    BY <1>1, <2>1
  <2>2. CASE s \notin {z, r}
    <3>1. PICK b \in 1 .. n : s \in S[b]
      BY ONLY <2>2, s \in U, U = (UNION {S[b] : b \in 1 .. n}) \cup {z, r}
    <3> QED
      BY ONLY <1>2, <3>1
  <2> QED
    BY <2>1, <2>2
<1>4. \A b \in 1 .. n : S[b] \subseteq U
  BY ONLY U = (UNION {S[b] : b \in 1 .. n}) \cup {z, r}
<1>5. FlattenSeq(ss) \in Seq(U)
  <2>1. ASSUME NEW b \in 1 .. n PROVE ss[b] \in Seq(U)
    <3> PICK V, t : V = S[b] /\ t = SequencePhases(kind, seqs[b])
      OBVIOUS
    <3>1. t \in Seq(V) /\ V \subseteq U /\ ss[b] = t
      BY <1>2, <1>4
    <3> QED
      BY ONLY <3>1
  <2>2. DOMAIN ss = 1 .. n /\ ss = [b \in 1 .. n |-> ss[b]]
    OBVIOUS
  <2> QED
    BY ONLY <2>1, <2>2, n \in Nat, FlatIn
<1>6. <<z>> \in Seq(U) /\ <<r>> \in Seq(U)
  <2>1. z \in U /\ r \in U
    BY ONLY U = (UNION {S[b] : b \in 1 .. n}) \cup {z, r}
  <2> QED
    BY ONLY <2>1
<1>7. Phases(kind, seqs) = (<<z>> \o FlattenSeq(ss)) \o <<r>>
  BY DEF Phases
<1>8. Phases(kind, seqs) \in Seq(U)
  <2> PICK f, a, b : f = FlattenSeq(ss) /\ a = <<z>> /\ b = <<r>>
    OBVIOUS
  <2>1. (a \o f) \o b \in Seq(U)
    BY ONLY <1>5, <1>6, f = FlattenSeq(ss) /\ a = <<z>> /\ b = <<r>>
  <2> QED
    BY <1>7, <2>1
<1> QED
  BY <1>3, <1>8


\* A batch has as many sequences as its run of ids holds, and one at least.
LEMMA BatchIs ==
    ASSUME NEW flat \in Inputs, Fits(flat)
    PROVE  \E n \in Nat : n > 0 /\ DOMAIN Tagged(Cut(flat)) = 1 .. n /\ Len(Tagged(Cut(flat))) = n
<1>1. flat \in Seq(Nat) /\ Len(flat) \in Nat /\ Len(flat) > 0 /\ TLen \in Nat /\ TLen > 0
      /\ Len(flat) % TLen = 0
  BY GpuTrainingAssumption DEF Fits
<1> PICK k, n : k = Len(flat) /\ n = k \div TLen
  OBVIOUS
<1>2. n \in Nat /\ n > 0
  <2>1. k \in Nat /\ k > 0 /\ TLen \in Nat /\ TLen > 0 /\ k % TLen = 0
    BY <1>1
  <2>2. n \in Int /\ k = TLen * n
    BY ONLY <2>1, n = k \div TLen
  <2> QED
    BY ONLY <2>1, <2>2
<1>3. DOMAIN Cut(flat) = 1 .. n
  BY DEF Cut
<1> PICK s : s = Tagged(Cut(flat))
  OBVIOUS
<1>4. DOMAIN s = 1 .. n /\ s = [i \in 1 .. n |-> s[i]]
  BY <1>3 DEF Tagged
<1>5. Len(s) = n
  BY <1>2, <1>4, SeqMade
<1> QED
  BY <1>2, <1>4, <1>5

\* What an evaluation does with each sequence.
EvalPart(seq) == WriteTokens(seq) \o encode_forward \o encode_loss \o <<Flush>>

\* Nothing of it is left in the encoder.
LEMMA EvalPartComplete ==
    ASSUME NEW seq
    PROVE  Complete(EvalPart(seq)) /\ Complete(EvalZeroes \o EvalPart(seq))
<1> PICK z, w, f, l, h :
       z = EvalZeroes /\ w = WriteTokens(seq) /\ f = encode_forward /\ l = encode_loss /\ h = <<Flush>>
  OBVIOUS
<1>1. /\ IsSeq(w) /\ (\A i \in 1 .. Len(w) : w[i].do = "write" /\ w[i].dst # Stats)
      /\ Passing(f, Nowhere) /\ Passing(l, Nowhere)
  BY TokensWriting, PassesPass DEF Writing
<1>2. IsSeq(f) /\ IsSeq(l) /\ IsSeq(h)
  BY <1>1, OneIs DEF Passing
<1> PICK r : r = f \o l
  OBVIOUS
<1>3. Passing(r, Nowhere) /\ IsSeq(r)
  BY <1>1, PassingConcat DEF Passing
<1>4. EvalPart(seq) = (w \o r) \o h
  <2>1. (w \o f) \o l = w \o (f \o l)
    BY ONLY <1>1, <1>2, ConcatThree, SMTT(60)
  <2> QED
    BY <2>1 DEF EvalPart
<1>5. Complete((w \o r) \o h)
  BY <1>1, <1>3, PassComplete
<1>6. IsSeq(z) /\ \A i \in 1 .. Len(z) : Recording(z[i]) /\ z[i].op = "zero" /\ z[i].writes[1] = Stats
  <2> PICK c : c = dispatch_zero(Stats, 1)
    OBVIOUS
  <2>1. Recording(c) /\ c.op = "zero" /\ c.writes[1] = Stats
    BY DEF dispatch_zero, Dispatch, Recording
  <2>2. IsSeq(z) /\ Len(z) = 1 /\ z[1] = c
    BY OneIs DEF EvalZeroes
  <2> QED
    BY <2>1, <2>2
<1>7. \A i \in 1 .. Len(r) : Recording(r[i])
  BY <1>3 DEF Passing, Passes, Records, Recording
<1>8. Complete(((z \o w) \o r) \o h)
  BY <1>1, <1>3, <1>6, <1>7, CallComplete
<1>9. z \o ((w \o r) \o h) = ((z \o w) \o r) \o h
  <2> PICK v : v = w \o r
    OBVIOUS
  <2>1. IsSeq(v)
    BY <1>1, <1>3, ConcatIs
  <2>2. (z \o v) \o h = z \o (v \o h)
    BY ONLY <1>2, <1>6, <2>1, ConcatThree
  <2>3. (z \o w) \o r = z \o v
    BY ONLY <1>1, <1>3, <1>6, v = w \o r, ConcatThree
  <2> QED
    BY <2>2, <2>3
<1> QED
  BY <1>4, <1>5, <1>8, <1>9

\* An evaluation is all submitted.
EvalCommands(seqs) ==
    EvalZeroes \o FlattenSeq([b \in DOMAIN seqs |->
                      WriteTokens(seqs[b]) \o encode_forward \o encode_loss \o <<Flush>>])

\* It overtakes nothing.
LEMMA EvalComplete ==
    ASSUME NEW n \in Nat, n > 0, NEW seqs, DOMAIN seqs = 1 .. n
    PROVE  Complete(EvalCommands(seqs))
<1> PICK ss : ss = [b \in 1 .. n |-> EvalPart(seqs[b])]
  OBVIOUS
<1>1. /\ DOMAIN ss = 1 .. n /\ ss = [i \in 1 .. n |-> ss[i]]
      /\ \A i \in 1 .. n : Complete(ss[i])
  BY EvalPartComplete
<1>2. Complete(EvalZeroes \o ss[1])
  BY EvalPartComplete
<1>3. IsSeq(EvalZeroes)
  BY OneIs DEF EvalZeroes
<1>4. Complete(EvalZeroes \o FlattenSeq(ss))
  BY ONLY <1>1, <1>2, <1>3, n \in Nat, n > 0, CompleteFlat
<1> QED
  BY <1>4 DEF EvalCommands, EvalPart

\* A comparison of the forward pass.
CompareCommands(seq) == <<WriteTokens(seq)[1]>> \o encode_forward \o <<Flush>>

\* It is all submitted.
LEMMA CompareComplete ==
    ASSUME NEW seq
    PROVE  Complete(CompareCommands(seq))
<1> PICK c, w : c = WriteTokens(seq)[1] /\ w = <<c>>
  OBVIOUS
<1>1. c.do = "write" /\ c.dst # Stats
  <2>1. c.do = "write" /\ c.dst = Scratch("tokens")
    BY WritesIs, WriteIs
  <2> QED
    BY ONLY <2>1 DEF Scratch, Stats
<1>2. IsSeq(w) /\ \A i \in 1 .. Len(w) : w[i].do = "write" /\ w[i].dst # Stats
  <2>1. IsSeq(w) /\ Len(w) = 1 /\ w[1] = c
    BY OneIs
  <2> QED
    BY <1>1, <2>1
<1>3. Complete((w \o encode_forward) \o <<Flush>>)
  BY <1>2, PassesPass, PassComplete
<1> QED
  BY <1>3 DEF CompareCommands

\* So is the optimizer's pass.
LEMMA AdamComplete ==
    ASSUME NEW step, NEW lr, NEW scale
    PROVE  Complete(encode_adam(step, lr, scale) \o <<Flush>>)
<1> PICK r : r = encode_adam(step, lr, scale)
  OBVIOUS
<1>1. Passing(r, Nowhere)
  BY PassesPass
<1> PICK e : e = << >>
  OBVIOUS
<1>2. IsSeq(e) /\ \A i \in 1 .. Len(e) : e[i].do = "write" /\ e[i].dst # Stats
  <2>1. IsSeq(<< >>) /\ 1 .. Len(<< >>) = {}
    BY << >> \in Seq({}) DEF IsSeq
  <2> QED
    BY <2>1
<1> QED
  BY <1>1, <1>2, PassComplete

-----------------------------------------------------------------------------
(* What every state is like.                                               *)

\* The steps a trainer counts are calls of it: one that waits for its
\* readback has one to go.
StateInv ==
    /\ use_ple \in BOOLEAN /\ spoilt \in BOOLEAN /\ calls \in 0 .. MaxCalls
    /\ held.step \in 0 .. calls
    /\ trainer = Idle \/ trainer \in [step : 0 .. calls, dispatches_per_submit : Nat \ {0}]
    /\ call = Idle \/ /\ call.kind \in {"train", "bench", "profile"} /\ trainer # Idle
                      /\ trainer.step < calls
    /\ decoded \in [position : 0 .. MaxTokens + Capacity + 1, cached_len : 0 .. Capacity]

\* It holds at first.
LEMMA StateInit == Init => StateInv
<1> SUFFICES ASSUME Init PROVE StateInv
  OBVIOUS
<1>1. MaxCalls \in Nat /\ MaxTokens \in Nat /\ Capacity \in Nat
  BY GpuTrainingAssumption
<1>2. decoded \in [position : 0 .. MaxTokens + Capacity + 1, cached_len : 0 .. Capacity]
  BY <1>1 DEF Init
<1>3. held.step = 0 /\ calls = 0
  BY DEF Init
<1>4. /\ use_ple \in BOOLEAN /\ spoilt \in BOOLEAN /\ trainer = Idle /\ call = Idle
  BY DEF Init
<1> QED
  BY ONLY <1>1, <1>2, <1>3, <1>4 DEF StateInv

\* Every step keeps it.
LEMMA StateStep ==
    ASSUME StateInv, [Next]_vars
    PROVE  StateInv'
<1>0. /\ MaxCalls \in Nat /\ MaxTokens \in Nat /\ Capacity \in Nat /\ Capacity > 0
      /\ PerSubmit \subseteq Nat
  BY GpuTrainingAssumption
<1>1. ASSUME NEW optimizer \in BOOLEAN, New(optimizer) PROVE StateInv'
  <2>1. trainer' \in [step : 0 .. calls', dispatches_per_submit : Nat \ {0}]
    <3>1. PICK n : n = IF optimizer THEN held.step ELSE 0
      OBVIOUS
    <3>2. n \in 0 .. calls' /\ trainer' = [step |-> n, dispatches_per_submit |-> 32]
      BY <1>1, <3>1 DEF New, StateInv, DEFAULT_DISPATCHES_PER_SUBMIT
    <3> QED
      BY <3>2
  <2> QED
    BY <1>1, <2>1 DEF New, StateInv
<1>u. CASE upload_optimizer
  <2>1. /\ trainer # Idle /\ call = Idle /\ trainer' = [trainer EXCEPT !.step = held.step]
        /\ UNCHANGED <<use_ple, call, held, spoilt, calls, decoded>>
    BY <1>u, Zenon DEF upload_optimizer
  <2>2. trainer \in [step : 0 .. calls, dispatches_per_submit : Nat \ {0}] /\ held.step \in 0 .. calls
    BY <2>1 DEF StateInv
  <2>3. trainer' \in [step : 0 .. calls, dispatches_per_submit : Nat \ {0}]
    BY <2>1, <2>2
  <2> QED
    BY <2>1, <2>3 DEF StateInv
<1>2. ASSUME NEW n \in PerSubmit, set_dispatches_per_submit(n) PROVE StateInv'
  <2>1. AtLeastOne(n) \in Nat \ {0}
    BY <1>0 DEF AtLeastOne
  <2>2. trainer' \in [step : 0 .. calls', dispatches_per_submit : Nat \ {0}]
    BY <1>2, <2>1 DEF set_dispatches_per_submit, StateInv
  <2> QED
    BY <1>2, <2>2 DEF set_dispatches_per_submit, StateInv, history
<1>3. ASSUME NEW kind \in {"train", "bench", "profile"}, NEW flat \in Inputs, train_step(kind, flat)
      PROVE  StateInv'
  <2>1. call' = Idle \/ call' = [kind |-> kind, seqs |-> Tagged(Cut(flat))]
    BY <1>3 DEF train_step
  <2>2. /\ trainer # Idle /\ calls < MaxCalls /\ calls' = calls + 1
        /\ UNCHANGED <<use_ple, trainer, held, did, absorbed, spoilt, decoded>>
    BY <1>3 DEF train_step, Ready, history
  <2>3. call' = Idle \/ call'.kind = kind
    BY <2>1
  <2>4. trainer \in [step : 0 .. calls, dispatches_per_submit : Nat \ {0}]
    BY <2>2 DEF StateInv
  <2>5. trainer.step < calls + 1 /\ trainer \in [step : 0 .. calls + 1, dispatches_per_submit : Nat \ {0}]
    BY <2>4 DEF StateInv
  <2> QED
    BY <1>0, <2>2, <2>3, <2>5 DEF StateInv
<1>4. ASSUME FinishStep PROVE StateInv'
  <2>1. /\ call # Idle /\ call' = Idle
        /\ UNCHANGED <<use_ple, held, spoilt, calls, decoded>>
        /\ \E kind \in Outcomes(call.kind) : trainer' = [trainer EXCEPT !.step = StepAfter(kind)]
    BY <1>4, Zenon DEF FinishStep
  <2>2. trainer \in [step : 0 .. calls, dispatches_per_submit : Nat \ {0}] /\ trainer.step < calls
    BY <2>1 DEF StateInv
  <2>3. PICK kind : trainer' = [trainer EXCEPT !.step = StepAfter(kind)]
    BY <2>1
  <2>4. StepAfter(kind) \in 0 .. calls
    BY <2>2 DEF StepAfter, StateInv
  <2>5. trainer' \in [step : 0 .. calls, dispatches_per_submit : Nat \ {0}]
    BY <2>2, <2>3, <2>4
  <2> QED
    BY <2>1, <2>5 DEF StateInv
<1>5. CASE ReadbackFails
  BY <1>5 DEF ReadbackFails, StateInv, history
<1>6. ASSUME NEW flat \in Inputs, eval_loss(flat) \/ debug_compare_forward(flat) PROVE StateInv'
  <2>1. /\ call = Idle /\ trainer # Idle /\ calls < MaxCalls /\ calls' = calls + 1
        /\ UNCHANGED <<use_ple, trainer, call, held, did, absorbed, spoilt, decoded>>
    BY <1>6 DEF eval_loss, debug_compare_forward, Answered, Ready, history
  <2>2. trainer \in [step : 0 .. calls + 1, dispatches_per_submit : Nat \ {0}]
    BY <2>1 DEF StateInv
  <2> QED
    BY <1>0, <2>1, <2>2 DEF StateInv
<1>7. CASE profile_kernels
  <2>1. /\ call = Idle /\ trainer # Idle /\ calls < MaxCalls /\ calls' = calls + 1
        /\ spoilt' \in BOOLEAN
        /\ UNCHANGED <<use_ple, trainer, call, held, did, decoded>>
    BY <1>7 DEF profile_kernels, Ready
  <2>2. trainer \in [step : 0 .. calls + 1, dispatches_per_submit : Nat \ {0}]
    BY <2>1 DEF StateInv
  <2> QED
    BY <1>0, <2>1, <2>2 DEF StateInv
<1>8. CASE Download
  <2>1. /\ trainer # Idle /\ held'.step = trainer.step /\ call = Idle
        /\ UNCHANGED <<use_ple, trainer, call, calls, decoded, spoilt>>
    BY <1>8 DEF Download
  <2> QED
    BY <2>1 DEF StateInv
<1>9. CASE Lost
  BY <1>9 DEF Lost, StateInv, history
<1>10. ASSUME NEW n \in 1 .. Capacity + 1, seed_from_cpu_cache(n) PROVE StateInv'
  <2>1. PICK kept : kept = n - (IF n > Capacity THEN n - Capacity ELSE 0)
    OBVIOUS
  <2>2. kept \in 0 .. Capacity /\ n \in 0 .. MaxTokens + Capacity + 1
    BY <1>0, <2>1
  <2>3. /\ decoded' = [position |-> n, cached_len |-> IF kept > Capacity THEN Capacity ELSE kept]
        /\ UNCHANGED <<use_ple, trainer, call, held, spoilt, calls>>
    BY <1>10, <2>1 DEF seed_from_cpu_cache, history
  <2> PICK len, bound : /\ len = IF kept > Capacity THEN Capacity ELSE kept
                        /\ bound = MaxTokens + Capacity + 1
    OBVIOUS
  <2>5. len \in 0 .. Capacity /\ n \in 0 .. bound /\ decoded' = [position |-> n, cached_len |-> len]
    BY <1>0, <2>2, <2>3
  <2>4. decoded' \in [position : 0 .. bound, cached_len : 0 .. Capacity]
    BY ONLY <2>5
  <2> QED
    BY <2>3, <2>4 DEF StateInv
<1>11. CASE decode_step
  <2>1. /\ decoded.position \in 1 .. MaxTokens
        /\ decoded' = [position |-> decoded.position + 1,
                       cached_len |-> IF decoded.cached_len < Capacity
                                      THEN decoded.cached_len + 1 ELSE Capacity]
        /\ UNCHANGED <<use_ple, trainer, call, held, spoilt, calls>>
    BY <1>11 DEF decode_step, history
  <2>2. decoded' \in [position : 0 .. MaxTokens + Capacity + 1, cached_len : 0 .. Capacity]
    BY <1>0, <2>1 DEF StateInv
  <2> QED
    BY <2>1, <2>2 DEF StateInv
<1>12. CASE UNCHANGED vars
  BY <1>12 DEF vars, StateInv
<1> QED
  BY <1>u, <1>1, <1>2, <1>3, <1>4, <1>5, <1>6, <1>7, <1>8, <1>9, <1>10, <1>11, <1>12 DEF Next

\* Numbers stay in range, and a call waits only while there is a trainer.
THEOREM TypeCorrect == Spec => []TypeOK
<1>1. Init => StateInv
  BY StateInit
<1>2. StateInv /\ [Next]_vars => StateInv'
  BY StateStep
<1>3. StateInv => TypeOK
  <2> SUFFICES ASSUME StateInv PROVE TypeOK
    OBVIOUS
  <2>1. trainer = Idle \/ (trainer.step \in 0 .. MaxCalls /\ trainer.dispatches_per_submit >= 1)
    BY GpuTrainingAssumption DEF StateInv
  <2> QED
    BY <2>1 DEF StateInv, TypeOK
<1> QED
  BY <1>1, <1>2, <1>3, PTL DEF Spec

-----------------------------------------------------------------------------
(* No submission is longer than it may be.                                 *)

\* Commands that are all submitted are submitted a bounded number at a time.
LEMMA LongestIs ==
    ASSUME NEW ple, NEW memory, NEW n \in Nat \ {0}, NEW s, Complete(s)
    PROVE  Encoded(Begin(ple, memory, n), s).longest <= n
<1> PICK g, h : g = Begin(ple, memory, n) /\ h = Encoded(g, s)
  OBVIOUS
<1>1. Stands(g) /\ g.encoder = << >> /\ g.per_submit = n
  BY BeginStands
<1>2. Follows(h, g)
  BY <1>1, EncodedInTurn
<1> QED
  BY <1>1, <1>2 DEF Follows, Stands

\* So are the phases of a step, however many of them are reached.
LEMMA LongestPhase ==
    ASSUME NEW ple, NEW memory, NEW k \in Nat \ {0}, NEW kind, NEW n \in Nat,
           NEW seqs, DOMAIN seqs = 1 .. n, NEW reached \in 0 .. Len(Phases(kind, seqs))
    PROVE  EncodedInPhases(Begin(ple, memory, k), SubSeq(Phases(kind, seqs), 1, reached)).longest <= k
<1> PICK phases, p : phases = Phases(kind, seqs) /\ p = SubSeq(phases, 1, reached)
  OBVIOUS
<1>1. PICK S : phases \in Seq(S) /\ \A s \in S : Complete(s)
  BY PhasesComplete
<1>2. p \in Seq(S) /\ Len(p) = reached /\ reached \in Nat
  BY <1>1
<1>3. \A i \in 1 .. reached : Complete(p[i])
  BY <1>1, <1>2
<1> PICK g, h : g = Begin(ple, memory, k) /\ h = EncodedInPhases(g, p)
  OBVIOUS
<1>4. Stands(g) /\ g.encoder = << >> /\ g.per_submit = k
  BY BeginStands
<1>5. Follows(h, g)
  BY <1>2, <1>3, <1>4, PhasesInTurn
<1> QED
  BY <1>4, <1>5 DEF Follows, Stands

\* No submission of a training, evaluation or comparison call is longer than
\* the page asked for (dispatch.rs Chunks::enc).
THEOREM SubmissionsStayBounded == Spec => SubmissionsAreBounded
<1> DEFINE Bounded == longest' # longest /\ trainer # Idle => longest' <= trainer.dispatches_per_submit
<1>1. Init => StateInv
  BY StateInit
<1>2. StateInv /\ [Next]_vars => StateInv'
  BY StateStep
<1>3. StateInv /\ [Next]_vars => [Bounded]_vars
  <2> SUFFICES ASSUME StateInv, Next, longest' # longest, trainer # Idle
               PROVE  longest' <= trainer.dispatches_per_submit
    BY DEF vars
  <2> PICK k : k = trainer.dispatches_per_submit
    OBVIOUS
  <2>1. k \in Nat \ {0}
    BY DEF StateInv
  <2>2. ASSUME NEW kind \in {"train", "bench", "profile"}, NEW flat \in Inputs, train_step(kind, flat)
        PROVE  longest' <= k
    <3> PICK seqs : seqs = Tagged(Cut(flat))
      OBVIOUS
    <3>1. PICK n \in Nat : n > 0 /\ DOMAIN seqs = 1 .. n
      BY <2>2, BatchIs DEF train_step
    <3>2. Len(Phases(kind, seqs)) \in Nat
      BY <3>1, PhasesComplete
    <3>3. PICK reached \in (1 .. Len(Phases(kind, seqs))) \cup {Len(Phases(kind, seqs))} :
            longest' = EncodedInPhases(Begin(use_ple, mem, k), SubSeq(Phases(kind, seqs), 1, reached)).longest
      BY <2>2 DEF train_step
    <3>4. reached \in 0 .. Len(Phases(kind, seqs))
      BY <3>2
    <3> QED
      BY <2>1, <3>1, <3>3, <3>4, LongestPhase
  <2>3. CASE FinishStep
    <3> PICK lr, scale : /\ lr = IF call.kind = "bench" THEN 0 ELSE 1
                         /\ scale = [batch |-> Len(call.seqs), norm |-> NormOf(mem)]
      OBVIOUS
    <3> PICK g : g = Encoded(Begin(use_ple, mem, k), encode_adam(trainer.step + 1, lr, scale) \o <<Flush>>)
      OBVIOUS
    <3>1. longest' = IF g.longest > longest THEN g.longest ELSE longest
      BY <2>3 DEF FinishStep
    <3>2. g.longest <= k
      BY <2>1, AdamComplete, LongestIs
    <3> QED
      BY <3>1, <3>2
  <2>4. ASSUME NEW flat \in Inputs, eval_loss(flat) PROVE longest' <= k
    <3> PICK seqs : seqs = Tagged(Cut(flat))
      OBVIOUS
    <3>1. PICK n \in Nat : n > 0 /\ DOMAIN seqs = 1 .. n
      BY <2>4, BatchIs DEF eval_loss
    <3>2. longest' = Encoded(Begin(use_ple, mem, k), EvalCommands(seqs)).longest
      BY <2>4 DEF eval_loss, Answered, Runs, EvalCommands
    <3> QED
      BY <2>1, <3>1, <3>2, EvalComplete, LongestIs
  <2>5. ASSUME NEW flat \in Inputs, debug_compare_forward(flat) PROVE longest' <= k
    <3> PICK seq : seq = Tagged(Cut(flat))[1]
      OBVIOUS
    <3>1. longest' = Encoded(Begin(use_ple, mem, k), CompareCommands(seq)).longest
      BY <2>5 DEF debug_compare_forward, Answered, Runs, CompareCommands
    <3> QED
      BY <2>1, <3>1, CompareComplete, LongestIs
  <2>6. CASE profile_kernels
    <3>1. longest' = 0
      BY <2>6 DEF profile_kernels
    <3> QED
      BY <2>1, <3>1
  <2>7. \/ \E optimizer \in BOOLEAN : New(optimizer)
        \/ upload_optimizer
        \/ \E n \in PerSubmit : set_dispatches_per_submit(n)
        \/ ReadbackFails \/ Download \/ Lost
        \/ \E n \in 1 .. Capacity + 1 : seed_from_cpu_cache(n)
        \/ decode_step
        => UNCHANGED longest
    BY DEF New, upload_optimizer, set_dispatches_per_submit, ReadbackFails, Download, Lost,
           seed_from_cpu_cache, decode_step, history
  <2> QED
    BY <2>2, <2>3, <2>4, <2>5, <2>6, <2>7 DEF Next
<1> QED
  BY <1>1, <1>2, <1>3, PTL DEF Spec, SubmissionsAreBounded

-----------------------------------------------------------------------------
(* How a call is cut into submissions does not matter.                     *)

\* What commands leave when all are submitted does not depend on how many
\* go into a submission.
LEMMA EncodedAlike ==
    ASSUME NEW ple, NEW memory, NEW n \in Nat \ {0}, NEW k \in Nat \ {0}, NEW s, Complete(s)
    PROVE  Encoded(Begin(ple, memory, n), s).mem = Encoded(Begin(ple, memory, k), s).mem
<1> PICK g, h, a, b : /\ g = Begin(ple, memory, n) /\ a = Encoded(g, s).mem
                      /\ h = Begin(ple, memory, k) /\ b = Encoded(h, s).mem
  OBVIOUS
<1>1. /\ Stands(g) /\ g.encoder = << >> /\ g.results = Results[ple] /\ g.mem = memory
      /\ Stands(h) /\ h.encoder = << >> /\ h.results = Results[ple] /\ h.mem = memory
  BY BeginStands
<1>2. Turns(g.results, g.mem, s, a) /\ Turns(h.results, h.mem, s, b)
  BY <1>1, EncodedInTurn
<1>3. IsSeq(s)
  BY DEF Complete
<1>4. a = b
  BY <1>1, <1>2, <1>3, TurnsAgree
<1> QED
  BY <1>4

\* The same of the phases of a step.
LEMMA PhasesAlike ==
    ASSUME NEW ple, NEW memory, NEW n \in Nat \ {0}, NEW k \in Nat \ {0},
           NEW phases, NEW r \in Nat, Len(phases) = r, \A i \in 1 .. r : Complete(phases[i])
    PROVE  EncodedInPhases(Begin(ple, memory, n), phases).mem
           = EncodedInPhases(Begin(ple, memory, k), phases).mem
<1> PICK g, h, a, b : /\ g = Begin(ple, memory, n) /\ a = EncodedInPhases(g, phases).mem
                      /\ h = Begin(ple, memory, k) /\ b = EncodedInPhases(h, phases).mem
  OBVIOUS
<1> PICK table : table = Results[ple]
  OBVIOUS
<1>1. /\ Stands(g) /\ g.encoder = << >> /\ g.results = table /\ g.mem = memory
      /\ Stands(h) /\ h.encoder = << >> /\ h.results = table /\ h.mem = memory
  BY BeginStands
<1>2. PICK m : /\ m[0] = memory /\ m[r] = a
               /\ \A i \in 1 .. r : Turns(table, m[i - 1], phases[i], m[i])
  BY <1>1, PhasesInTurn, SMTT(60)
<1>3. PICK o : /\ o[0] = memory /\ o[r] = b
               /\ \A i \in 1 .. r : Turns(table, o[i - 1], phases[i], o[i])
  BY <1>1, PhasesInTurn, SMTT(60)
<1> DEFINE Q == {i \in 0 .. r : m[i] = o[i]}
<1>4. 0 \in Q
  BY <1>2, <1>3
<1>5. ASSUME NEW j \in 0 .. r - 1, j \in Q PROVE j + 1 \in Q
  <2> PICK i : i = j + 1
    OBVIOUS
  <2>1. i \in 1 .. r /\ i \in 0 .. r /\ i - 1 = j
    OBVIOUS
  <2> PICK x, y, z, s : x = m[j] /\ y = m[i] /\ z = o[i] /\ s = phases[i]
    OBVIOUS
  <2>2. Turns(table, x, s, y) /\ Turns(table, x, s, z) /\ IsSeq(s)
    BY <1>2, <1>3, <1>5, <2>1 DEF Complete
  <2>3. y = z
    BY ONLY <2>2, TurnsAgree
  <2> QED
    BY <2>1, <2>3
<1>6. 0 .. r \subseteq Q
  <2> HIDE DEF Q
  <2> QED
    BY <1>4, <1>5, Climb
<1>7. a = b
  BY <1>2, <1>3, <1>6
<1> QED
  BY <1>7

\* The number of operations to a submission changes nothing about what a
\* call computes: the memory a step's phases leave, as many as are reached,
\* what the optimizer makes of it, and what an evaluation and a comparison
\* leave are the same for any two (dispatch.rs Chunks: the queue runs the
\* submissions in order).
THEOREM SubmissionsDoNotMatter ==
    ASSUME NEW ple, NEW memory, NEW n \in Nat \ {0}, NEW k \in Nat \ {0},
           NEW flat \in Inputs, Fits(flat)
    PROVE  LET seqs == Tagged(Cut(flat))
               Left(s, per_submit) == Encoded(Begin(ple, memory, per_submit), s).mem
           IN /\ \A kind \in {"train", "bench", "profile"} :
                  \A reached \in 0 .. Len(Phases(kind, seqs)) :
                    EncodedInPhases(Begin(ple, memory, n), SubSeq(Phases(kind, seqs), 1, reached)).mem
                    = EncodedInPhases(Begin(ple, memory, k),
                                      SubSeq(Phases(kind, seqs), 1, reached)).mem
              /\ \A step, lr, scale : LET s == encode_adam(step, lr, scale) \o <<Flush>>
                                      IN Left(s, n) = Left(s, k)
              /\ Left(EvalCommands(seqs), n) = Left(EvalCommands(seqs), k)
              /\ Left(CompareCommands(seqs[1]), n) = Left(CompareCommands(seqs[1]), k)
<1> PICK seqs : seqs = Tagged(Cut(flat))
  OBVIOUS
<1>1. PICK q \in Nat : q > 0 /\ DOMAIN seqs = 1 .. q
  BY BatchIs
<1>2. ASSUME NEW kind \in {"train", "bench", "profile"},
             NEW reached \in 0 .. Len(Phases(kind, seqs))
      PROVE  EncodedInPhases(Begin(ple, memory, n), SubSeq(Phases(kind, seqs), 1, reached)).mem
             = EncodedInPhases(Begin(ple, memory, k), SubSeq(Phases(kind, seqs), 1, reached)).mem
  <2> PICK phases, p : phases = Phases(kind, seqs) /\ p = SubSeq(phases, 1, reached)
    OBVIOUS
  <2>1. PICK S : phases \in Seq(S) /\ \A s \in S : Complete(s)
    BY <1>1, PhasesComplete
  <2>2. Len(p) = reached /\ reached \in Nat /\ \A i \in 1 .. reached : Complete(p[i])
    BY <2>1
  <2>3. EncodedInPhases(Begin(ple, memory, n), p).mem = EncodedInPhases(Begin(ple, memory, k), p).mem
    BY ONLY <2>2, PhasesAlike, n \in Nat \ {0}, k \in Nat \ {0}
  <2> QED
    BY ONLY <2>3, phases = Phases(kind, seqs), p = SubSeq(phases, 1, reached), Zenon
<1>3. ASSUME NEW s, Complete(s)
      PROVE  Encoded(Begin(ple, memory, n), s).mem = Encoded(Begin(ple, memory, k), s).mem
  BY <1>3, EncodedAlike
<1>4. \A step, lr, scale : Complete(encode_adam(step, lr, scale) \o <<Flush>>)
  BY AdamComplete
<1>5. Complete(EvalCommands(seqs)) /\ Complete(CompareCommands(seqs[1]))
  BY <1>1, EvalComplete, CompareComplete
<1> QED
  BY ONLY <1>2, <1>3, <1>4, <1>5, seqs = Tagged(Cut(flat)), Zenon

-----------------------------------------------------------------------------
(* What each call of the host returns, from its operation and operands.    *)

\* What a call returns is told by its operation and operands.
Returned(ple, op, ins) ==
    LET a == ins[1][1]
        b == ins[2][1]
        l == ins[1][2]
        k == ins[2][2]
    IN IF op = "linear" THEN
              IF b = "wq" THEN <<<<"q_raw", k>>>> ELSE IF b = "wk" THEN <<<<"k_raw", k>>>>
              ELSE IF b = "wv" THEN <<<<"v", k>>>> ELSE IF b = "wo" THEN <<<<"attn_out", k>>>>
              ELSE IF b = "w_gate" THEN <<<<"gate", k>>>> ELSE IF b = "w_up" THEN <<<<"up", k>>>>
              ELSE IF b = "w_down" THEN <<<<"mlp_out", k>>>> ELSE <<Top("logits")>>
         ELSE IF op = "add" THEN
              IF b = "ple_row" THEN <<<<"h_in", k>>>> ELSE IF b = "attn_out" THEN <<<<"h_after_attn", k>>>>
              ELSE IF b = "mlp_out" THEN <<StreamOut(k, ple)>>
              ELSE IF b = "d_normed2_up" THEN <<<<"d_normed2", k>>>>
              ELSE IF b = "d_norm2" THEN <<<<"d_after_attn", k>>>>
              ELSE IF b = "d_normed1_k" THEN <<<<"d_normed1_qk", k>>>>
              ELSE IF b = "d_normed1_v" THEN <<<<"d_normed1", k>>>> ELSE <<<<"d_in", k>>>>
         ELSE IF op = "gather" THEN IF a = "ple" THEN <<<<"ple_row", l>>>> ELSE <<StreamIn(1, ple)>>
         ELSE IF op = "rmsnorm" THEN
              IF b = "attn_norm_gain" THEN <<<<"normed1", k>>, <<"inv_rms1", k>>>>
              ELSE IF b = "mlp_norm_gain" THEN <<<<"normed2", k>>, <<"inv_rms2", k>>>>
              ELSE <<Top("final_normed"), Top("final_inv_rms")>>
         ELSE IF op = "rope" THEN
              IF a = "q_raw" THEN <<<<"q", l>>>> ELSE IF a = "k_raw" THEN <<<<"k", l>>>>
              ELSE IF a = "d_q_raw" THEN <<<<"d_q", l>>>> ELSE <<<<"d_k", l>>>>
         ELSE IF op = "attention_fwd" THEN <<<<"concat", l>>, <<"probs", l>>>>
         ELSE IF op = "swiglu" THEN <<<<"act", l>>>>
         ELSE IF op = "cross_entropy" THEN <<Top("d_logits"), Top("loss_rows")>>
         ELSE IF op = "linear_bwd_dw" THEN
              IF b = "act" THEN <<<<"d_w_down", k>>>> ELSE IF a = "d_gate" THEN <<<<"d_w_gate", k>>>>
              ELSE IF a = "d_up" THEN <<<<"d_w_up", k>>>> ELSE IF b = "concat" THEN <<<<"d_wo", k>>>>
              ELSE IF a = "d_q" THEN <<<<"d_wq", k>>>> ELSE IF a = "d_k" THEN <<<<"d_wk", k>>>>
              ELSE IF a = "d_v" THEN <<<<"d_wv", k>>>> ELSE <<Top("d_embed_head")>>
         ELSE IF op = "linear_bwd_dx" THEN
              IF b = "w_down" THEN <<<<"d_act", k>>>> ELSE IF b = "w_gate" THEN <<<<"d_normed2_gate", k>>>>
              ELSE IF b = "w_up" THEN <<<<"d_normed2_up", k>>>> ELSE IF b = "wo" THEN <<<<"d_concat", k>>>>
              ELSE IF b = "wq" THEN <<<<"d_normed1_q", k>>>> ELSE IF b = "wk" THEN <<<<"d_normed1_k", k>>>>
              ELSE IF b = "wv" THEN <<<<"d_normed1_v", k>>>> ELSE <<Top("d_final_normed")>>
         ELSE IF op = "swiglu_bwd" THEN <<<<"d_gate", l>>, <<"d_up", l>>>>
         ELSE IF op = "rmsnorm_bwd_dgain" THEN
              IF a = "d_normed2" THEN <<<<"d_mlp_norm_gain", l>>>>
              ELSE IF a = "d_normed1" THEN <<<<"d_attn_norm_gain", l>>>>
              ELSE <<Top("d_final_norm_gain")>>
         ELSE IF op = "rmsnorm_bwd_dx" THEN
              IF a = "d_normed2" THEN <<<<"d_norm2", l>>>>
              ELSE IF a = "d_normed1" THEN <<<<"d_norm1", l>>>> ELSE <<Top("d_final")>>
         ELSE IF op = "attention_dscore" THEN <<<<"d_score", l>>>>
         ELSE IF op = "attention_dq" THEN <<<<"d_q_raw", l>>>>
         ELSE <<<<"d_k_raw", l>>, <<"d_v", l>>>>

\* In a layer's forward pass.
LEMMA LayerForwardReturns ==
    ASSUME NEW l, NEW rows, NEW ple, NEW c \in LayerForward(l, rows, ple)
    PROVE  c.outs = Returned(ple, c.op, c.ins)
<1>1. \/ c = Call("rmsnorm", <<<<"h_in", l>>, <<"attn_norm_gain", l>>>>, <<rows, "h">>, <<<<"normed1",
            l>>, <<"inv_rms1", l>>>>)
      \/ c = Call("linear", <<<<"normed1", l>>, <<"wq", l>>>>, <<rows, "h", "h">>, <<<<"q_raw",
                  l>>>>)
      \/ c = Call("linear", <<<<"normed1", l>>, <<"wk", l>>>>, <<rows, "h", "kv">>, <<<<"k_raw",
                  l>>>>)
      \/ c = Call("linear", <<<<"normed1", l>>, <<"wv", l>>>>, <<rows, "h", "kv">>, <<<<"v", l>>>>)
      \/ c = Call("rope", <<<<"q_raw", l>>>>, <<rows, "heads", "fwd">>, <<<<"q", l>>>>)
      \/ c = Call("rope", <<<<"k_raw", l>>>>, <<rows, "kv_heads", "fwd">>, <<<<"k", l>>>>)
      \/ c = Call("attention_fwd", <<<<"q", l>>, <<"k", l>>, <<"v", l>>>>, <<"t", "band">>,
                  <<<<"concat", l>>, <<"probs", l>>>>)
      \/ c = Call("linear", <<<<"concat", l>>, <<"wo", l>>>>, <<rows, "h", "h">>, <<<<"attn_out",
                  l>>>>)
      \/ c = Call("add", <<<<"h_in", l>>, <<"attn_out", l>>>>, <<rows, "h">>, <<<<"h_after_attn",
                  l>>>>)
      \/ c = Call("rmsnorm", <<<<"h_after_attn", l>>, <<"mlp_norm_gain", l>>>>, <<rows, "h">>,
                  <<<<"normed2", l>>, <<"inv_rms2", l>>>>)
      \/ c = Call("linear", <<<<"normed2", l>>, <<"w_gate", l>>>>, <<rows, "h", "ffn">>, <<<<"gate",
                  l>>>>)
      \/ c = Call("linear", <<<<"normed2", l>>, <<"w_up", l>>>>, <<rows, "h", "ffn">>, <<<<"up",
                  l>>>>)
      \/ c = Call("swiglu", <<<<"gate", l>>, <<"up", l>>>>, <<rows, "ffn">>, <<<<"act", l>>>>)
      \/ c = Call("linear", <<<<"act", l>>, <<"w_down", l>>>>, <<rows, "ffn", "h">>, <<<<"mlp_out",
                  l>>>>)
      \/ c = Call("add", <<<<"h_after_attn", l>>, <<"mlp_out", l>>>>, <<rows, "h">>, <<StreamOut(l,
                  ple)>>)
  BY DEF LayerForward
<1>2. CASE c = Call("rmsnorm", <<<<"h_in", l>>, <<"attn_norm_gain", l>>>>, <<rows, "h">>,
                    <<<<"normed1", l>>, <<"inv_rms1", l>>>>)
  BY <1>2 DEF Call, Returned
<1>3. CASE c = Call("linear", <<<<"normed1", l>>, <<"wq", l>>>>, <<rows, "h", "h">>, <<<<"q_raw",
                    l>>>>)
  BY <1>3 DEF Call, Returned
<1>4. CASE c = Call("linear", <<<<"normed1", l>>, <<"wk", l>>>>, <<rows, "h", "kv">>, <<<<"k_raw",
                    l>>>>)
  BY <1>4 DEF Call, Returned
<1>5. CASE c = Call("linear", <<<<"normed1", l>>, <<"wv", l>>>>, <<rows, "h", "kv">>, <<<<"v",
                    l>>>>)
  BY <1>5 DEF Call, Returned
<1>6. CASE c = Call("rope", <<<<"q_raw", l>>>>, <<rows, "heads", "fwd">>, <<<<"q", l>>>>)
  BY <1>6 DEF Call, Returned
<1>7. CASE c = Call("rope", <<<<"k_raw", l>>>>, <<rows, "kv_heads", "fwd">>, <<<<"k", l>>>>)
  BY <1>7 DEF Call, Returned
<1>8. CASE c = Call("attention_fwd", <<<<"q", l>>, <<"k", l>>, <<"v", l>>>>, <<"t", "band">>,
                    <<<<"concat", l>>, <<"probs", l>>>>)
  BY <1>8 DEF Call, Returned
<1>9. CASE c = Call("linear", <<<<"concat", l>>, <<"wo", l>>>>, <<rows, "h", "h">>, <<<<"attn_out",
                    l>>>>)
  BY <1>9 DEF Call, Returned
<1>10. CASE c = Call("add", <<<<"h_in", l>>, <<"attn_out", l>>>>, <<rows, "h">>, <<<<"h_after_attn",
                     l>>>>)
  BY <1>10 DEF Call, Returned
<1>11. CASE c = Call("rmsnorm", <<<<"h_after_attn", l>>, <<"mlp_norm_gain", l>>>>, <<rows, "h">>,
                     <<<<"normed2", l>>, <<"inv_rms2", l>>>>)
  BY <1>11 DEF Call, Returned
<1>12. CASE c = Call("linear", <<<<"normed2", l>>, <<"w_gate", l>>>>, <<rows, "h", "ffn">>,
                     <<<<"gate", l>>>>)
  BY <1>12 DEF Call, Returned
<1>13. CASE c = Call("linear", <<<<"normed2", l>>, <<"w_up", l>>>>, <<rows, "h", "ffn">>, <<<<"up",
                     l>>>>)
  BY <1>13 DEF Call, Returned
<1>14. CASE c = Call("swiglu", <<<<"gate", l>>, <<"up", l>>>>, <<rows, "ffn">>, <<<<"act", l>>>>)
  BY <1>14 DEF Call, Returned
<1>15. CASE c = Call("linear", <<<<"act", l>>, <<"w_down", l>>>>, <<rows, "ffn", "h">>,
                     <<<<"mlp_out", l>>>>)
  BY <1>15 DEF Call, Returned
<1>16. CASE c = Call("add", <<<<"h_after_attn", l>>, <<"mlp_out", l>>>>, <<rows, "h">>,
                     <<StreamOut(l, ple)>>)
  BY <1>16 DEF Call, Returned, Top, StreamIn, Tokens
<1> QED
  BY <1>1, <1>2, <1>3, <1>4, <1>5, <1>6, <1>7, <1>8, <1>9, <1>10, <1>11, <1>12, <1>13, <1>14, <1>15, <1>16

\* With per-layer embeddings.
LEMMA PleForwardReturns ==
    ASSUME NEW l, NEW rows, NEW ple, NEW c \in PleForward(l, rows)
    PROVE  c.outs = Returned(ple, c.op, c.ins)
<1>1. \/ c = Call("gather", <<<<"ple", l>>, Tokens>>, <<rows, "h">>, <<<<"ple_row", l>>>>)
      \/ c = Call("add", <<<<"x", l>>, <<"ple_row", l>>>>, <<rows, "h">>, <<<<"h_in", l>>>>)
  BY DEF PleForward
<1>2. CASE c = Call("gather", <<<<"ple", l>>, Tokens>>, <<rows, "h">>, <<<<"ple_row", l>>>>)
  BY <1>2 DEF Call, Returned, Top, StreamIn, Tokens
<1>3. CASE c = Call("add", <<<<"x", l>>, <<"ple_row", l>>>>, <<rows, "h">>, <<<<"h_in", l>>>>)
  BY <1>3 DEF Call, Returned
<1> QED
  BY <1>1, <1>2, <1>3

\* In a layer's backward pass.
LEMMA LayerBackwardReturns ==
    ASSUME NEW l, NEW ple, NEW c \in LayerBackward(l)
    PROVE  c.outs = Returned(ple, c.op, c.ins)
<1>1. \/ c = Call("linear_bwd_dw", <<StreamGradient(l), <<"act", l>>>>, <<"t", "ffn", "h">>,
            <<<<"d_w_down", l>>>>)
      \/ c = Call("linear_bwd_dx", <<StreamGradient(l), <<"w_down", l>>>>, <<"t", "ffn", "h">>,
                  <<<<"d_act", l>>>>)
      \/ c = Call("swiglu_bwd", <<<<"d_act", l>>, <<"gate", l>>, <<"up", l>>>>, <<"t", "ffn">>,
                  <<<<"d_gate", l>>, <<"d_up", l>>>>)
      \/ c = Call("linear_bwd_dw", <<<<"d_gate", l>>, <<"normed2", l>>>>, <<"t", "h", "ffn">>,
                  <<<<"d_w_gate", l>>>>)
      \/ c = Call("linear_bwd_dw", <<<<"d_up", l>>, <<"normed2", l>>>>, <<"t", "h", "ffn">>,
                  <<<<"d_w_up", l>>>>)
      \/ c = Call("linear_bwd_dx", <<<<"d_gate", l>>, <<"w_gate", l>>>>, <<"t", "h", "ffn">>,
                  <<<<"d_normed2_gate", l>>>>)
      \/ c = Call("linear_bwd_dx", <<<<"d_up", l>>, <<"w_up", l>>>>, <<"t", "h", "ffn">>,
                  <<<<"d_normed2_up", l>>>>)
      \/ c = Call("add", <<<<"d_normed2_gate", l>>, <<"d_normed2_up", l>>>>, <<"t", "h">>,
                  <<<<"d_normed2", l>>>>)
      \/ c = Call("add", <<StreamGradient(l), <<"d_norm2", l>>>>, <<"t", "h">>, <<<<"d_after_attn",
                  l>>>>)
      \/ c = Call("rmsnorm_bwd_dgain", <<<<"d_normed2", l>>, <<"h_after_attn", l>>, <<"inv_rms2",
                  l>>>>, <<"t", "h">>, <<<<"d_mlp_norm_gain", l>>>>)
      \/ c = Call("rmsnorm_bwd_dx", <<<<"d_normed2", l>>, <<"h_after_attn", l>>, <<"mlp_norm_gain",
                  l>>, <<"inv_rms2", l>>>>, <<"t", "h">>, <<<<"d_norm2", l>>>>)
      \/ c = Call("linear_bwd_dw", <<<<"d_after_attn", l>>, <<"concat", l>>>>, <<"t", "h", "h">>,
                  <<<<"d_wo", l>>>>)
      \/ c = Call("linear_bwd_dx", <<<<"d_after_attn", l>>, <<"wo", l>>>>, <<"t", "h", "h">>,
                  <<<<"d_concat", l>>>>)
      \/ c = Call("attention_dscore", <<<<"d_concat", l>>, <<"v", l>>, <<"probs", l>>>>, <<"t",
                  "band">>, <<<<"d_score", l>>>>)
      \/ c = Call("attention_dq", <<<<"d_score", l>>, <<"k", l>>>>, <<"t", "band">>, <<<<"d_q_raw",
                  l>>>>)
      \/ c = Call("attention_dkdv", <<<<"d_score", l>>, <<"probs", l>>, <<"q", l>>, <<"d_concat",
                  l>>>>, <<"t", "band">>, <<<<"d_k_raw", l>>, <<"d_v", l>>>>)
      \/ c = Call("rope", <<<<"d_q_raw", l>>>>, <<"t", "heads", "inv">>, <<<<"d_q", l>>>>)
      \/ c = Call("rope", <<<<"d_k_raw", l>>>>, <<"t", "kv_heads", "inv">>, <<<<"d_k", l>>>>)
      \/ c = Call("linear_bwd_dw", <<<<"d_q", l>>, <<"normed1", l>>>>, <<"t", "h", "h">>,
                  <<<<"d_wq", l>>>>)
      \/ c = Call("linear_bwd_dw", <<<<"d_k", l>>, <<"normed1", l>>>>, <<"t", "h", "kv">>,
                  <<<<"d_wk", l>>>>)
      \/ c = Call("linear_bwd_dw", <<<<"d_v", l>>, <<"normed1", l>>>>, <<"t", "h", "kv">>,
                  <<<<"d_wv", l>>>>)
      \/ c = Call("linear_bwd_dx", <<<<"d_q", l>>, <<"wq", l>>>>, <<"t", "h", "h">>,
                  <<<<"d_normed1_q", l>>>>)
      \/ c = Call("linear_bwd_dx", <<<<"d_k", l>>, <<"wk", l>>>>, <<"t", "h", "kv">>,
                  <<<<"d_normed1_k", l>>>>)
      \/ c = Call("linear_bwd_dx", <<<<"d_v", l>>, <<"wv", l>>>>, <<"t", "h", "kv">>,
                  <<<<"d_normed1_v", l>>>>)
      \/ c = Call("add", <<<<"d_normed1_q", l>>, <<"d_normed1_k", l>>>>, <<"t", "h">>,
                  <<<<"d_normed1_qk", l>>>>)
      \/ c = Call("add", <<<<"d_normed1_qk", l>>, <<"d_normed1_v", l>>>>, <<"t", "h">>,
                  <<<<"d_normed1", l>>>>)
      \/ c = Call("add", <<<<"d_after_attn", l>>, <<"d_norm1", l>>>>, <<"t", "h">>, <<<<"d_in",
                  l>>>>)
      \/ c = Call("rmsnorm_bwd_dgain", <<<<"d_normed1", l>>, <<"h_in", l>>, <<"inv_rms1", l>>>>,
                  <<"t", "h">>, <<<<"d_attn_norm_gain", l>>>>)
      \/ c = Call("rmsnorm_bwd_dx", <<<<"d_normed1", l>>, <<"h_in", l>>, <<"attn_norm_gain", l>>,
                  <<"inv_rms1", l>>>>, <<"t", "h">>, <<<<"d_norm1", l>>>>)
  BY DEF LayerBackward
<1>2. CASE c = Call("linear_bwd_dw", <<StreamGradient(l), <<"act", l>>>>, <<"t", "ffn", "h">>,
                    <<<<"d_w_down", l>>>>)
  BY <1>2 DEF Call, Returned, Top, StreamIn, Tokens
<1>3. CASE c = Call("linear_bwd_dx", <<StreamGradient(l), <<"w_down", l>>>>, <<"t", "ffn", "h">>,
                    <<<<"d_act", l>>>>)
  BY <1>3 DEF Call, Returned, Top, StreamIn, Tokens
<1>4. CASE c = Call("swiglu_bwd", <<<<"d_act", l>>, <<"gate", l>>, <<"up", l>>>>, <<"t", "ffn">>,
                    <<<<"d_gate", l>>, <<"d_up", l>>>>)
  BY <1>4 DEF Call, Returned
<1>5. CASE c = Call("linear_bwd_dw", <<<<"d_gate", l>>, <<"normed2", l>>>>, <<"t", "h", "ffn">>,
                    <<<<"d_w_gate", l>>>>)
  BY <1>5 DEF Call, Returned
<1>6. CASE c = Call("linear_bwd_dw", <<<<"d_up", l>>, <<"normed2", l>>>>, <<"t", "h", "ffn">>,
                    <<<<"d_w_up", l>>>>)
  BY <1>6 DEF Call, Returned
<1>7. CASE c = Call("linear_bwd_dx", <<<<"d_gate", l>>, <<"w_gate", l>>>>, <<"t", "h", "ffn">>,
                    <<<<"d_normed2_gate", l>>>>)
  BY <1>7 DEF Call, Returned
<1>8. CASE c = Call("linear_bwd_dx", <<<<"d_up", l>>, <<"w_up", l>>>>, <<"t", "h", "ffn">>,
                    <<<<"d_normed2_up", l>>>>)
  BY <1>8 DEF Call, Returned
<1>9. CASE c = Call("add", <<<<"d_normed2_gate", l>>, <<"d_normed2_up", l>>>>, <<"t", "h">>,
                    <<<<"d_normed2", l>>>>)
  BY <1>9 DEF Call, Returned
<1>10. CASE c = Call("add", <<StreamGradient(l), <<"d_norm2", l>>>>, <<"t", "h">>,
                     <<<<"d_after_attn", l>>>>)
  BY <1>10 DEF Call, Returned, Top, StreamIn, Tokens
<1>11. CASE c = Call("rmsnorm_bwd_dgain", <<<<"d_normed2", l>>, <<"h_after_attn", l>>, <<"inv_rms2",
                     l>>>>, <<"t", "h">>, <<<<"d_mlp_norm_gain", l>>>>)
  BY <1>11 DEF Call, Returned
<1>12. CASE c = Call("rmsnorm_bwd_dx", <<<<"d_normed2", l>>, <<"h_after_attn", l>>,
                     <<"mlp_norm_gain", l>>, <<"inv_rms2", l>>>>, <<"t", "h">>, <<<<"d_norm2",
                     l>>>>)
  BY <1>12 DEF Call, Returned
<1>13. CASE c = Call("linear_bwd_dw", <<<<"d_after_attn", l>>, <<"concat", l>>>>, <<"t", "h", "h">>,
                     <<<<"d_wo", l>>>>)
  BY <1>13 DEF Call, Returned
<1>14. CASE c = Call("linear_bwd_dx", <<<<"d_after_attn", l>>, <<"wo", l>>>>, <<"t", "h", "h">>,
                     <<<<"d_concat", l>>>>)
  BY <1>14 DEF Call, Returned
<1>15. CASE c = Call("attention_dscore", <<<<"d_concat", l>>, <<"v", l>>, <<"probs", l>>>>, <<"t",
                     "band">>, <<<<"d_score", l>>>>)
  BY <1>15 DEF Call, Returned
<1>16. CASE c = Call("attention_dq", <<<<"d_score", l>>, <<"k", l>>>>, <<"t", "band">>,
                     <<<<"d_q_raw", l>>>>)
  BY <1>16 DEF Call, Returned
<1>17. CASE c = Call("attention_dkdv", <<<<"d_score", l>>, <<"probs", l>>, <<"q", l>>, <<"d_concat",
                     l>>>>, <<"t", "band">>, <<<<"d_k_raw", l>>, <<"d_v", l>>>>)
  BY <1>17 DEF Call, Returned
<1>18. CASE c = Call("rope", <<<<"d_q_raw", l>>>>, <<"t", "heads", "inv">>, <<<<"d_q", l>>>>)
  BY <1>18 DEF Call, Returned
<1>19. CASE c = Call("rope", <<<<"d_k_raw", l>>>>, <<"t", "kv_heads", "inv">>, <<<<"d_k", l>>>>)
  BY <1>19 DEF Call, Returned
<1>20. CASE c = Call("linear_bwd_dw", <<<<"d_q", l>>, <<"normed1", l>>>>, <<"t", "h", "h">>,
                     <<<<"d_wq", l>>>>)
  BY <1>20 DEF Call, Returned
<1>21. CASE c = Call("linear_bwd_dw", <<<<"d_k", l>>, <<"normed1", l>>>>, <<"t", "h", "kv">>,
                     <<<<"d_wk", l>>>>)
  BY <1>21 DEF Call, Returned
<1>22. CASE c = Call("linear_bwd_dw", <<<<"d_v", l>>, <<"normed1", l>>>>, <<"t", "h", "kv">>,
                     <<<<"d_wv", l>>>>)
  BY <1>22 DEF Call, Returned
<1>23. CASE c = Call("linear_bwd_dx", <<<<"d_q", l>>, <<"wq", l>>>>, <<"t", "h", "h">>,
                     <<<<"d_normed1_q", l>>>>)
  BY <1>23 DEF Call, Returned
<1>24. CASE c = Call("linear_bwd_dx", <<<<"d_k", l>>, <<"wk", l>>>>, <<"t", "h", "kv">>,
                     <<<<"d_normed1_k", l>>>>)
  BY <1>24 DEF Call, Returned
<1>25. CASE c = Call("linear_bwd_dx", <<<<"d_v", l>>, <<"wv", l>>>>, <<"t", "h", "kv">>,
                     <<<<"d_normed1_v", l>>>>)
  BY <1>25 DEF Call, Returned
<1>26. CASE c = Call("add", <<<<"d_normed1_q", l>>, <<"d_normed1_k", l>>>>, <<"t", "h">>,
                     <<<<"d_normed1_qk", l>>>>)
  BY <1>26 DEF Call, Returned
<1>27. CASE c = Call("add", <<<<"d_normed1_qk", l>>, <<"d_normed1_v", l>>>>, <<"t", "h">>,
                     <<<<"d_normed1", l>>>>)
  BY <1>27 DEF Call, Returned
<1>28. CASE c = Call("add", <<<<"d_after_attn", l>>, <<"d_norm1", l>>>>, <<"t", "h">>, <<<<"d_in",
                     l>>>>)
  BY <1>28 DEF Call, Returned
<1>29. CASE c = Call("rmsnorm_bwd_dgain", <<<<"d_normed1", l>>, <<"h_in", l>>, <<"inv_rms1", l>>>>,
                     <<"t", "h">>, <<<<"d_attn_norm_gain", l>>>>)
  BY <1>29 DEF Call, Returned
<1>30. CASE c = Call("rmsnorm_bwd_dx", <<<<"d_normed1", l>>, <<"h_in", l>>, <<"attn_norm_gain", l>>,
                     <<"inv_rms1", l>>>>, <<"t", "h">>, <<<<"d_norm1", l>>>>)
  BY <1>30 DEF Call, Returned
<1> QED
  BY <1>1, <1>2, <1>3, <1>4, <1>5, <1>6, <1>7, <1>8, <1>9, <1>10, <1>11, <1>12, <1>13, <1>14, <1>15, <1>16, <1>17, <1>18, <1>19, <1>20, <1>21, <1>22, <1>23, <1>24, <1>25, <1>26, <1>27, <1>28, <1>29, <1>30

\* In a forward pass.
LEMMA ForwardReturns ==
    ASSUME NEW rows, NEW ple \in BOOLEAN, NEW c \in Forward(rows, ple)
    PROVE  c.outs = Returned(ple, c.op, c.ins)
<1>1. \/ c = Call("gather", <<Top("embed"), Tokens>>, <<rows, "h">>, <<StreamIn(1, ple)>>)
      \/ c = Call("rmsnorm", <<Top("h_final"), Top("final_norm_gain")>>, <<rows, "h">>,
                  <<Top("final_normed"), Top("final_inv_rms")>>)
      \/ c = Call("linear", <<Top("final_normed"), Top("embed")>>, <<rows, "h", "vocab">>,
                  <<Top("logits")>>)
      \/ \E l \in 1 .. Layers : c \in LayerForward(l, rows, ple)
      \/ \E l \in 1 .. Layers : c \in PleForward(l, rows)
  BY DEF Forward
<1>2. CASE c = Call("gather", <<Top("embed"), Tokens>>, <<rows, "h">>, <<StreamIn(1, ple)>>)
  BY <1>2 DEF Call, Returned, Top, StreamIn, Tokens
<1>3. CASE c = Call("rmsnorm", <<Top("h_final"), Top("final_norm_gain")>>, <<rows, "h">>,
                    <<Top("final_normed"), Top("final_inv_rms")>>)
  BY <1>3 DEF Call, Returned, Top, StreamIn, Tokens
<1>4. CASE c = Call("linear", <<Top("final_normed"), Top("embed")>>, <<rows, "h", "vocab">>,
                    <<Top("logits")>>)
  BY <1>4 DEF Call, Returned, Top, StreamIn, Tokens
<1>5. CASE \E l \in 1 .. Layers : c \in LayerForward(l, rows, ple)
  BY <1>5, LayerForwardReturns
<1>6. CASE \E l \in 1 .. Layers : c \in PleForward(l, rows)
  BY <1>6, PleForwardReturns
<1> QED
  BY <1>1, <1>2, <1>3, <1>4, <1>5, <1>6

\* In a backward pass.
LEMMA BackwardReturns ==
    ASSUME NEW ple, NEW c \in Backward
    PROVE  c.outs = Returned(ple, c.op, c.ins)
<1>1. \/ c = Call("cross_entropy", <<Top("logits"), Top("targets")>>, <<"t", "vocab">>, <<Top("d_logits"),
            Top("loss_rows")>>)
      \/ c = Call("linear_bwd_dw", <<Top("d_logits"), Top("final_normed")>>, <<"t", "h", "vocab">>,
                  <<Top("d_embed_head")>>)
      \/ c = Call("linear_bwd_dx", <<Top("d_logits"), Top("embed")>>, <<"t", "h", "vocab">>,
                  <<Top("d_final_normed")>>)
      \/ c = Call("rmsnorm_bwd_dgain", <<Top("d_final_normed"), Top("h_final"),
                  Top("final_inv_rms")>>, <<"t", "h">>, <<Top("d_final_norm_gain")>>)
      \/ c = Call("rmsnorm_bwd_dx", <<Top("d_final_normed"), Top("h_final"), Top("final_norm_gain"),
                  Top("final_inv_rms")>>, <<"t", "h">>, <<Top("d_final")>>)
      \/ \E l \in 1 .. Layers : c \in LayerBackward(l)
  BY DEF Backward
<1>2. CASE c = Call("cross_entropy", <<Top("logits"), Top("targets")>>, <<"t", "vocab">>,
                    <<Top("d_logits"), Top("loss_rows")>>)
  BY <1>2 DEF Call, Returned, Top, StreamIn, Tokens
<1>3. CASE c = Call("linear_bwd_dw", <<Top("d_logits"), Top("final_normed")>>, <<"t", "h",
                    "vocab">>, <<Top("d_embed_head")>>)
  BY <1>3 DEF Call, Returned, Top, StreamIn, Tokens
<1>4. CASE c = Call("linear_bwd_dx", <<Top("d_logits"), Top("embed")>>, <<"t", "h", "vocab">>,
                    <<Top("d_final_normed")>>)
  BY <1>4 DEF Call, Returned, Top, StreamIn, Tokens
<1>5. CASE c = Call("rmsnorm_bwd_dgain", <<Top("d_final_normed"), Top("h_final"),
                    Top("final_inv_rms")>>, <<"t", "h">>, <<Top("d_final_norm_gain")>>)
  BY <1>5 DEF Call, Returned, Top, StreamIn, Tokens
<1>6. CASE c = Call("rmsnorm_bwd_dx", <<Top("d_final_normed"), Top("h_final"),
                    Top("final_norm_gain"), Top("final_inv_rms")>>, <<"t", "h">>,
                    <<Top("d_final")>>)
  BY <1>6 DEF Call, Returned, Top, StreamIn, Tokens
<1>7. CASE \E l \in 1 .. Layers : c \in LayerBackward(l)
  BY <1>7, LayerBackwardReturns
<1> QED
  BY <1>1, <1>2, <1>3, <1>4, <1>5, <1>6, <1>7

\* Two calls of the same operation on the same operands return the same.
LEMMA CallsReturn ==
    ASSUME NEW ple \in BOOLEAN, NEW c \in Calls(ple)
    PROVE  c.outs = Returned(ple, c.op, c.ins)
BY ForwardReturns, BackwardReturns DEF Calls

\* The table gives what a call returns.
Known(table, op, ins, dims, outs) ==
    <<op, ins, dims>> \in DOMAIN table /\ table[<<op, ins, dims>>] = outs

LEMMA CallKnown ==
    ASSUME NEW ple \in BOOLEAN, NEW op, NEW ins, NEW dims, NEW outs,
           Call(op, ins, dims, outs) \in Calls(ple)
    PROVE  Known(Results[ple], op, ins, dims, outs)
<1> PICK c, key : c = Call(op, ins, dims, outs) /\ key = <<op, ins, dims>>
  OBVIOUS
<1>1. c \in Calls(ple) /\ Key(c) = key /\ c.outs = outs /\ c.op = op /\ c.ins = ins
  BY DEF Call, Key
<1> PICK d : d = CHOOSE e \in Calls(ple) : Key(e) = key
  OBVIOUS
<1>2. d \in Calls(ple) /\ Key(d) = key
  BY <1>1
<1>3. d.op = op /\ d.ins = ins
  BY <1>2 DEF Key
<1>4. d.outs = outs
  BY <1>1, <1>2, <1>3, CallsReturn
<1>5. Results[ple] = [k \in {Key(e) : e \in Calls(ple)} |->
                        (CHOOSE e \in Calls(ple) : Key(e) = k).outs]
  BY DEF Results
<1>6. key \in {Key(e) : e \in Calls(ple)}
  BY <1>1
<1>7. key \in DOMAIN Results[ple] /\ Results[ple][key] = d.outs
  BY <1>5, <1>6
<1> QED
  BY <1>4, <1>7 DEF Known

\* A layer's forward pass.
LEMMA LayerForwardKnown ==
    ASSUME NEW ple \in BOOLEAN, NEW rows, rows = "1" \/ (rows = "t" /\ ~ ple), NEW l \in 1 .. Layers
    PROVE  /\ Known(Results[ple], "rmsnorm", <<<<"h_in", l>>, <<"attn_norm_gain", l>>>>, <<rows,
                   "h">>, <<<<"normed1", l>>, <<"inv_rms1", l>>>>)
           /\ Known(Results[ple], "linear", <<<<"normed1", l>>, <<"wq", l>>>>, <<rows, "h", "h">>,
                   <<<<"q_raw", l>>>>)
           /\ Known(Results[ple], "linear", <<<<"normed1", l>>, <<"wk", l>>>>, <<rows, "h", "kv">>,
                   <<<<"k_raw", l>>>>)
           /\ Known(Results[ple], "linear", <<<<"normed1", l>>, <<"wv", l>>>>, <<rows, "h", "kv">>,
                   <<<<"v", l>>>>)
           /\ Known(Results[ple], "rope", <<<<"q_raw", l>>>>, <<rows, "heads", "fwd">>, <<<<"q",
                   l>>>>)
           /\ Known(Results[ple], "rope", <<<<"k_raw", l>>>>, <<rows, "kv_heads", "fwd">>, <<<<"k",
                   l>>>>)
           /\ Known(Results[ple], "attention_fwd", <<<<"q", l>>, <<"k", l>>, <<"v", l>>>>, <<"t",
                   "band">>, <<<<"concat", l>>, <<"probs", l>>>>)
           /\ Known(Results[ple], "linear", <<<<"concat", l>>, <<"wo", l>>>>, <<rows, "h", "h">>,
                   <<<<"attn_out", l>>>>)
           /\ Known(Results[ple], "add", <<<<"h_in", l>>, <<"attn_out", l>>>>, <<rows, "h">>,
                   <<<<"h_after_attn", l>>>>)
           /\ Known(Results[ple], "rmsnorm", <<<<"h_after_attn", l>>, <<"mlp_norm_gain", l>>>>,
                   <<rows, "h">>, <<<<"normed2", l>>, <<"inv_rms2", l>>>>)
           /\ Known(Results[ple], "linear", <<<<"normed2", l>>, <<"w_gate", l>>>>, <<rows, "h",
                   "ffn">>, <<<<"gate", l>>>>)
           /\ Known(Results[ple], "linear", <<<<"normed2", l>>, <<"w_up", l>>>>, <<rows, "h",
                   "ffn">>, <<<<"up", l>>>>)
           /\ Known(Results[ple], "swiglu", <<<<"gate", l>>, <<"up", l>>>>, <<rows, "ffn">>,
                   <<<<"act", l>>>>)
           /\ Known(Results[ple], "linear", <<<<"act", l>>, <<"w_down", l>>>>, <<rows, "ffn", "h">>,
                   <<<<"mlp_out", l>>>>)
           /\ Known(Results[ple], "add", <<<<"h_after_attn", l>>, <<"mlp_out", l>>>>, <<rows, "h">>,
                   <<StreamOut(l, ple)>>)
<1>1. LayerForward(l, rows, ple) \subseteq Calls(ple)
  <2>1. LayerForward(l, rows, ple) \subseteq Forward(rows, ple)
    BY DEF Forward
  <2>2. Forward(rows, ple) \subseteq Calls(ple)
    BY DEF Calls
  <2> QED
    BY <2>1, <2>2
<1>2. Known(Results[ple], "rmsnorm", <<<<"h_in", l>>, <<"attn_norm_gain", l>>>>, <<rows, "h">>,
           <<<<"normed1", l>>, <<"inv_rms1", l>>>>)
  <2>1. Call("rmsnorm", <<<<"h_in", l>>, <<"attn_norm_gain", l>>>>, <<rows, "h">>, <<<<"normed1",
             l>>, <<"inv_rms1", l>>>>) \in LayerForward(l, rows, ple)
    BY DEF LayerForward
  <2> QED
    BY <1>1, <2>1, CallKnown
<1>3. Known(Results[ple], "linear", <<<<"normed1", l>>, <<"wq", l>>>>, <<rows, "h", "h">>,
           <<<<"q_raw", l>>>>)
  <2>1. Call("linear", <<<<"normed1", l>>, <<"wq", l>>>>, <<rows, "h", "h">>, <<<<"q_raw", l>>>>) \in LayerForward(l, rows, ple)
    BY DEF LayerForward
  <2> QED
    BY <1>1, <2>1, CallKnown
<1>4. Known(Results[ple], "linear", <<<<"normed1", l>>, <<"wk", l>>>>, <<rows, "h", "kv">>,
           <<<<"k_raw", l>>>>)
  <2>1. Call("linear", <<<<"normed1", l>>, <<"wk", l>>>>, <<rows, "h", "kv">>, <<<<"k_raw", l>>>>) \in LayerForward(l, rows, ple)
    BY DEF LayerForward
  <2> QED
    BY <1>1, <2>1, CallKnown
<1>5. Known(Results[ple], "linear", <<<<"normed1", l>>, <<"wv", l>>>>, <<rows, "h", "kv">>, <<<<"v",
           l>>>>)
  <2>1. Call("linear", <<<<"normed1", l>>, <<"wv", l>>>>, <<rows, "h", "kv">>, <<<<"v", l>>>>) \in LayerForward(l, rows, ple)
    BY DEF LayerForward
  <2> QED
    BY <1>1, <2>1, CallKnown
<1>6. Known(Results[ple], "rope", <<<<"q_raw", l>>>>, <<rows, "heads", "fwd">>, <<<<"q", l>>>>)
  <2>1. Call("rope", <<<<"q_raw", l>>>>, <<rows, "heads", "fwd">>, <<<<"q", l>>>>) \in LayerForward(l, rows, ple)
    BY DEF LayerForward
  <2> QED
    BY <1>1, <2>1, CallKnown
<1>7. Known(Results[ple], "rope", <<<<"k_raw", l>>>>, <<rows, "kv_heads", "fwd">>, <<<<"k", l>>>>)
  <2>1. Call("rope", <<<<"k_raw", l>>>>, <<rows, "kv_heads", "fwd">>, <<<<"k", l>>>>) \in LayerForward(l, rows, ple)
    BY DEF LayerForward
  <2> QED
    BY <1>1, <2>1, CallKnown
<1>8. Known(Results[ple], "attention_fwd", <<<<"q", l>>, <<"k", l>>, <<"v", l>>>>, <<"t", "band">>,
           <<<<"concat", l>>, <<"probs", l>>>>)
  <2>1. Call("attention_fwd", <<<<"q", l>>, <<"k", l>>, <<"v", l>>>>, <<"t", "band">>, <<<<"concat",
             l>>, <<"probs", l>>>>) \in LayerForward(l, rows, ple)
    BY DEF LayerForward
  <2> QED
    BY <1>1, <2>1, CallKnown
<1>9. Known(Results[ple], "linear", <<<<"concat", l>>, <<"wo", l>>>>, <<rows, "h", "h">>,
           <<<<"attn_out", l>>>>)
  <2>1. Call("linear", <<<<"concat", l>>, <<"wo", l>>>>, <<rows, "h", "h">>, <<<<"attn_out", l>>>>) \in LayerForward(l, rows, ple)
    BY DEF LayerForward
  <2> QED
    BY <1>1, <2>1, CallKnown
<1>10. Known(Results[ple], "add", <<<<"h_in", l>>, <<"attn_out", l>>>>, <<rows, "h">>,
            <<<<"h_after_attn", l>>>>)
  <2>1. Call("add", <<<<"h_in", l>>, <<"attn_out", l>>>>, <<rows, "h">>, <<<<"h_after_attn", l>>>>) \in LayerForward(l, rows, ple)
    BY DEF LayerForward
  <2> QED
    BY <1>1, <2>1, CallKnown
<1>11. Known(Results[ple], "rmsnorm", <<<<"h_after_attn", l>>, <<"mlp_norm_gain", l>>>>, <<rows,
            "h">>, <<<<"normed2", l>>, <<"inv_rms2", l>>>>)
  <2>1. Call("rmsnorm", <<<<"h_after_attn", l>>, <<"mlp_norm_gain", l>>>>, <<rows, "h">>,
             <<<<"normed2", l>>, <<"inv_rms2", l>>>>) \in LayerForward(l, rows, ple)
    BY DEF LayerForward
  <2> QED
    BY <1>1, <2>1, CallKnown
<1>12. Known(Results[ple], "linear", <<<<"normed2", l>>, <<"w_gate", l>>>>, <<rows, "h", "ffn">>,
            <<<<"gate", l>>>>)
  <2>1. Call("linear", <<<<"normed2", l>>, <<"w_gate", l>>>>, <<rows, "h", "ffn">>, <<<<"gate",
             l>>>>) \in LayerForward(l, rows, ple)
    BY DEF LayerForward
  <2> QED
    BY <1>1, <2>1, CallKnown
<1>13. Known(Results[ple], "linear", <<<<"normed2", l>>, <<"w_up", l>>>>, <<rows, "h", "ffn">>,
            <<<<"up", l>>>>)
  <2>1. Call("linear", <<<<"normed2", l>>, <<"w_up", l>>>>, <<rows, "h", "ffn">>, <<<<"up", l>>>>) \in LayerForward(l, rows, ple)
    BY DEF LayerForward
  <2> QED
    BY <1>1, <2>1, CallKnown
<1>14. Known(Results[ple], "swiglu", <<<<"gate", l>>, <<"up", l>>>>, <<rows, "ffn">>, <<<<"act",
            l>>>>)
  <2>1. Call("swiglu", <<<<"gate", l>>, <<"up", l>>>>, <<rows, "ffn">>, <<<<"act", l>>>>) \in LayerForward(l, rows, ple)
    BY DEF LayerForward
  <2> QED
    BY <1>1, <2>1, CallKnown
<1>15. Known(Results[ple], "linear", <<<<"act", l>>, <<"w_down", l>>>>, <<rows, "ffn", "h">>,
            <<<<"mlp_out", l>>>>)
  <2>1. Call("linear", <<<<"act", l>>, <<"w_down", l>>>>, <<rows, "ffn", "h">>, <<<<"mlp_out",
             l>>>>) \in LayerForward(l, rows, ple)
    BY DEF LayerForward
  <2> QED
    BY <1>1, <2>1, CallKnown
<1>16. Known(Results[ple], "add", <<<<"h_after_attn", l>>, <<"mlp_out", l>>>>, <<rows, "h">>,
            <<StreamOut(l, ple)>>)
  <2>1. Call("add", <<<<"h_after_attn", l>>, <<"mlp_out", l>>>>, <<rows, "h">>, <<StreamOut(l,
             ple)>>) \in LayerForward(l, rows, ple)
    BY DEF LayerForward
  <2> QED
    BY <1>1, <2>1, CallKnown
<1> QED
  BY ONLY <1>2, <1>3, <1>4, <1>5, <1>6, <1>7, <1>8, <1>9, <1>10, <1>11, <1>12, <1>13, <1>14, <1>15, <1>16

\* With per-layer embeddings.
LEMMA PleForwardKnown ==
    ASSUME NEW ple \in BOOLEAN, ple, NEW rows, rows = "1", NEW l \in 1 .. Layers
    PROVE  /\ Known(Results[ple], "gather", <<<<"ple", l>>, Tokens>>, <<rows, "h">>, <<<<"ple_row",
                   l>>>>)
           /\ Known(Results[ple], "add", <<<<"x", l>>, <<"ple_row", l>>>>, <<rows, "h">>,
                   <<<<"h_in", l>>>>)
<1>1. PleForward(l, rows) \subseteq Calls(ple)
  <2>1. PleForward(l, rows) \subseteq Forward(rows, ple)
    BY DEF Forward
  <2>2. Forward(rows, ple) \subseteq Calls(ple)
    BY DEF Calls
  <2> QED
    BY <2>1, <2>2
<1>2. Known(Results[ple], "gather", <<<<"ple", l>>, Tokens>>, <<rows, "h">>, <<<<"ple_row", l>>>>)
  <2>1. Call("gather", <<<<"ple", l>>, Tokens>>, <<rows, "h">>, <<<<"ple_row", l>>>>) \in PleForward(l, rows)
    BY DEF PleForward
  <2> QED
    BY <1>1, <2>1, CallKnown
<1>3. Known(Results[ple], "add", <<<<"x", l>>, <<"ple_row", l>>>>, <<rows, "h">>, <<<<"h_in", l>>>>)
  <2>1. Call("add", <<<<"x", l>>, <<"ple_row", l>>>>, <<rows, "h">>, <<<<"h_in", l>>>>) \in PleForward(l, rows)
    BY DEF PleForward
  <2> QED
    BY <1>1, <2>1, CallKnown
<1> QED
  BY ONLY <1>2, <1>3

\* Before the layers and after them.
LEMMA ForwardKnown ==
    ASSUME NEW ple \in BOOLEAN, NEW rows, rows = "1" \/ (rows = "t" /\ ~ ple)
    PROVE  /\ Known(Results[ple], "gather", <<Top("embed"), Tokens>>, <<rows, "h">>, <<StreamIn(1,
                   ple)>>)
           /\ Known(Results[ple], "rmsnorm", <<Top("h_final"), Top("final_norm_gain")>>, <<rows,
                   "h">>, <<Top("final_normed"), Top("final_inv_rms")>>)
           /\ Known(Results[ple], "linear", <<Top("final_normed"), Top("embed")>>, <<rows, "h",
                   "vocab">>, <<Top("logits")>>)
<1>1. Forward(rows, ple) \subseteq Calls(ple)
  BY DEF Calls
<1>2. Known(Results[ple], "gather", <<Top("embed"), Tokens>>, <<rows, "h">>, <<StreamIn(1, ple)>>)
  <2>1. Call("gather", <<Top("embed"), Tokens>>, <<rows, "h">>, <<StreamIn(1, ple)>>) \in Forward(rows, ple)
    BY DEF Forward
  <2> QED
    BY <1>1, <2>1, CallKnown
<1>3. Known(Results[ple], "rmsnorm", <<Top("h_final"), Top("final_norm_gain")>>, <<rows, "h">>,
           <<Top("final_normed"), Top("final_inv_rms")>>)
  <2>1. Call("rmsnorm", <<Top("h_final"), Top("final_norm_gain")>>, <<rows, "h">>,
             <<Top("final_normed"), Top("final_inv_rms")>>) \in Forward(rows, ple)
    BY DEF Forward
  <2> QED
    BY <1>1, <2>1, CallKnown
<1>4. Known(Results[ple], "linear", <<Top("final_normed"), Top("embed")>>, <<rows, "h", "vocab">>,
           <<Top("logits")>>)
  <2>1. Call("linear", <<Top("final_normed"), Top("embed")>>, <<rows, "h", "vocab">>,
             <<Top("logits")>>) \in Forward(rows, ple)
    BY DEF Forward
  <2> QED
    BY <1>1, <2>1, CallKnown
<1> QED
  BY ONLY <1>2, <1>3, <1>4

\* A layer's backward pass.
LEMMA LayerBackwardKnown ==
    ASSUME NEW l \in 1 .. Layers
    PROVE  /\ Known(Results[FALSE], "linear_bwd_dw", <<StreamGradient(l), <<"act", l>>>>, <<"t",
                   "ffn", "h">>, <<<<"d_w_down", l>>>>)
           /\ Known(Results[FALSE], "linear_bwd_dx", <<StreamGradient(l), <<"w_down", l>>>>, <<"t",
                   "ffn", "h">>, <<<<"d_act", l>>>>)
           /\ Known(Results[FALSE], "swiglu_bwd", <<<<"d_act", l>>, <<"gate", l>>, <<"up", l>>>>,
                   <<"t", "ffn">>, <<<<"d_gate", l>>, <<"d_up", l>>>>)
           /\ Known(Results[FALSE], "linear_bwd_dw", <<<<"d_gate", l>>, <<"normed2", l>>>>, <<"t",
                   "h", "ffn">>, <<<<"d_w_gate", l>>>>)
           /\ Known(Results[FALSE], "linear_bwd_dw", <<<<"d_up", l>>, <<"normed2", l>>>>, <<"t",
                   "h", "ffn">>, <<<<"d_w_up", l>>>>)
           /\ Known(Results[FALSE], "linear_bwd_dx", <<<<"d_gate", l>>, <<"w_gate", l>>>>, <<"t",
                   "h", "ffn">>, <<<<"d_normed2_gate", l>>>>)
           /\ Known(Results[FALSE], "linear_bwd_dx", <<<<"d_up", l>>, <<"w_up", l>>>>, <<"t", "h",
                   "ffn">>, <<<<"d_normed2_up", l>>>>)
           /\ Known(Results[FALSE], "add", <<<<"d_normed2_gate", l>>, <<"d_normed2_up", l>>>>,
                   <<"t", "h">>, <<<<"d_normed2", l>>>>)
           /\ Known(Results[FALSE], "add", <<StreamGradient(l), <<"d_norm2", l>>>>, <<"t", "h">>,
                   <<<<"d_after_attn", l>>>>)
           /\ Known(Results[FALSE], "rmsnorm_bwd_dgain", <<<<"d_normed2", l>>, <<"h_after_attn",
                   l>>, <<"inv_rms2", l>>>>, <<"t", "h">>, <<<<"d_mlp_norm_gain", l>>>>)
           /\ Known(Results[FALSE], "rmsnorm_bwd_dx", <<<<"d_normed2", l>>, <<"h_after_attn", l>>,
                   <<"mlp_norm_gain", l>>, <<"inv_rms2", l>>>>, <<"t", "h">>, <<<<"d_norm2", l>>>>)
           /\ Known(Results[FALSE], "linear_bwd_dw", <<<<"d_after_attn", l>>, <<"concat", l>>>>,
                   <<"t", "h", "h">>, <<<<"d_wo", l>>>>)
           /\ Known(Results[FALSE], "linear_bwd_dx", <<<<"d_after_attn", l>>, <<"wo", l>>>>, <<"t",
                   "h", "h">>, <<<<"d_concat", l>>>>)
           /\ Known(Results[FALSE], "attention_dscore", <<<<"d_concat", l>>, <<"v", l>>, <<"probs",
                   l>>>>, <<"t", "band">>, <<<<"d_score", l>>>>)
           /\ Known(Results[FALSE], "attention_dq", <<<<"d_score", l>>, <<"k", l>>>>, <<"t",
                   "band">>, <<<<"d_q_raw", l>>>>)
           /\ Known(Results[FALSE], "attention_dkdv", <<<<"d_score", l>>, <<"probs", l>>, <<"q",
                   l>>, <<"d_concat", l>>>>, <<"t", "band">>, <<<<"d_k_raw", l>>, <<"d_v", l>>>>)
           /\ Known(Results[FALSE], "rope", <<<<"d_q_raw", l>>>>, <<"t", "heads", "inv">>,
                   <<<<"d_q", l>>>>)
           /\ Known(Results[FALSE], "rope", <<<<"d_k_raw", l>>>>, <<"t", "kv_heads", "inv">>,
                   <<<<"d_k", l>>>>)
           /\ Known(Results[FALSE], "linear_bwd_dw", <<<<"d_q", l>>, <<"normed1", l>>>>, <<"t", "h",
                   "h">>, <<<<"d_wq", l>>>>)
           /\ Known(Results[FALSE], "linear_bwd_dw", <<<<"d_k", l>>, <<"normed1", l>>>>, <<"t", "h",
                   "kv">>, <<<<"d_wk", l>>>>)
           /\ Known(Results[FALSE], "linear_bwd_dw", <<<<"d_v", l>>, <<"normed1", l>>>>, <<"t", "h",
                   "kv">>, <<<<"d_wv", l>>>>)
           /\ Known(Results[FALSE], "linear_bwd_dx", <<<<"d_q", l>>, <<"wq", l>>>>, <<"t", "h",
                   "h">>, <<<<"d_normed1_q", l>>>>)
           /\ Known(Results[FALSE], "linear_bwd_dx", <<<<"d_k", l>>, <<"wk", l>>>>, <<"t", "h",
                   "kv">>, <<<<"d_normed1_k", l>>>>)
           /\ Known(Results[FALSE], "linear_bwd_dx", <<<<"d_v", l>>, <<"wv", l>>>>, <<"t", "h",
                   "kv">>, <<<<"d_normed1_v", l>>>>)
           /\ Known(Results[FALSE], "add", <<<<"d_normed1_q", l>>, <<"d_normed1_k", l>>>>, <<"t",
                   "h">>, <<<<"d_normed1_qk", l>>>>)
           /\ Known(Results[FALSE], "add", <<<<"d_normed1_qk", l>>, <<"d_normed1_v", l>>>>, <<"t",
                   "h">>, <<<<"d_normed1", l>>>>)
           /\ Known(Results[FALSE], "add", <<<<"d_after_attn", l>>, <<"d_norm1", l>>>>, <<"t",
                   "h">>, <<<<"d_in", l>>>>)
           /\ Known(Results[FALSE], "rmsnorm_bwd_dgain", <<<<"d_normed1", l>>, <<"h_in", l>>,
                   <<"inv_rms1", l>>>>, <<"t", "h">>, <<<<"d_attn_norm_gain", l>>>>)
           /\ Known(Results[FALSE], "rmsnorm_bwd_dx", <<<<"d_normed1", l>>, <<"h_in", l>>,
                   <<"attn_norm_gain", l>>, <<"inv_rms1", l>>>>, <<"t", "h">>, <<<<"d_norm1", l>>>>)
<1> PICK ple : ple = FALSE
  OBVIOUS
<1>1. LayerBackward(l) \subseteq Calls(ple)
  <2>1. LayerBackward(l) \subseteq Backward
    BY DEF Backward
  <2>2. Backward \subseteq Calls(ple)
    BY DEF Calls
  <2> QED
    BY <2>1, <2>2
<1>2. Known(Results[FALSE], "linear_bwd_dw", <<StreamGradient(l), <<"act", l>>>>, <<"t", "ffn",
           "h">>, <<<<"d_w_down", l>>>>)
  <2>1. Call("linear_bwd_dw", <<StreamGradient(l), <<"act", l>>>>, <<"t", "ffn", "h">>,
             <<<<"d_w_down", l>>>>) \in LayerBackward(l)
    BY DEF LayerBackward
  <2> QED
    BY <1>1, <2>1, CallKnown
<1>3. Known(Results[FALSE], "linear_bwd_dx", <<StreamGradient(l), <<"w_down", l>>>>, <<"t", "ffn",
           "h">>, <<<<"d_act", l>>>>)
  <2>1. Call("linear_bwd_dx", <<StreamGradient(l), <<"w_down", l>>>>, <<"t", "ffn", "h">>,
             <<<<"d_act", l>>>>) \in LayerBackward(l)
    BY DEF LayerBackward
  <2> QED
    BY <1>1, <2>1, CallKnown
<1>4. Known(Results[FALSE], "swiglu_bwd", <<<<"d_act", l>>, <<"gate", l>>, <<"up", l>>>>, <<"t",
           "ffn">>, <<<<"d_gate", l>>, <<"d_up", l>>>>)
  <2>1. Call("swiglu_bwd", <<<<"d_act", l>>, <<"gate", l>>, <<"up", l>>>>, <<"t", "ffn">>,
             <<<<"d_gate", l>>, <<"d_up", l>>>>) \in LayerBackward(l)
    BY DEF LayerBackward
  <2> QED
    BY <1>1, <2>1, CallKnown
<1>5. Known(Results[FALSE], "linear_bwd_dw", <<<<"d_gate", l>>, <<"normed2", l>>>>, <<"t", "h",
           "ffn">>, <<<<"d_w_gate", l>>>>)
  <2>1. Call("linear_bwd_dw", <<<<"d_gate", l>>, <<"normed2", l>>>>, <<"t", "h", "ffn">>,
             <<<<"d_w_gate", l>>>>) \in LayerBackward(l)
    BY DEF LayerBackward
  <2> QED
    BY <1>1, <2>1, CallKnown
<1>6. Known(Results[FALSE], "linear_bwd_dw", <<<<"d_up", l>>, <<"normed2", l>>>>, <<"t", "h",
           "ffn">>, <<<<"d_w_up", l>>>>)
  <2>1. Call("linear_bwd_dw", <<<<"d_up", l>>, <<"normed2", l>>>>, <<"t", "h", "ffn">>,
             <<<<"d_w_up", l>>>>) \in LayerBackward(l)
    BY DEF LayerBackward
  <2> QED
    BY <1>1, <2>1, CallKnown
<1>7. Known(Results[FALSE], "linear_bwd_dx", <<<<"d_gate", l>>, <<"w_gate", l>>>>, <<"t", "h",
           "ffn">>, <<<<"d_normed2_gate", l>>>>)
  <2>1. Call("linear_bwd_dx", <<<<"d_gate", l>>, <<"w_gate", l>>>>, <<"t", "h", "ffn">>,
             <<<<"d_normed2_gate", l>>>>) \in LayerBackward(l)
    BY DEF LayerBackward
  <2> QED
    BY <1>1, <2>1, CallKnown
<1>8. Known(Results[FALSE], "linear_bwd_dx", <<<<"d_up", l>>, <<"w_up", l>>>>, <<"t", "h", "ffn">>,
           <<<<"d_normed2_up", l>>>>)
  <2>1. Call("linear_bwd_dx", <<<<"d_up", l>>, <<"w_up", l>>>>, <<"t", "h", "ffn">>,
             <<<<"d_normed2_up", l>>>>) \in LayerBackward(l)
    BY DEF LayerBackward
  <2> QED
    BY <1>1, <2>1, CallKnown
<1>9. Known(Results[FALSE], "add", <<<<"d_normed2_gate", l>>, <<"d_normed2_up", l>>>>, <<"t", "h">>,
           <<<<"d_normed2", l>>>>)
  <2>1. Call("add", <<<<"d_normed2_gate", l>>, <<"d_normed2_up", l>>>>, <<"t", "h">>,
             <<<<"d_normed2", l>>>>) \in LayerBackward(l)
    BY DEF LayerBackward
  <2> QED
    BY <1>1, <2>1, CallKnown
<1>10. Known(Results[FALSE], "add", <<StreamGradient(l), <<"d_norm2", l>>>>, <<"t", "h">>,
            <<<<"d_after_attn", l>>>>)
  <2>1. Call("add", <<StreamGradient(l), <<"d_norm2", l>>>>, <<"t", "h">>, <<<<"d_after_attn",
             l>>>>) \in LayerBackward(l)
    BY DEF LayerBackward
  <2> QED
    BY <1>1, <2>1, CallKnown
<1>11. Known(Results[FALSE], "rmsnorm_bwd_dgain", <<<<"d_normed2", l>>, <<"h_after_attn", l>>,
            <<"inv_rms2", l>>>>, <<"t", "h">>, <<<<"d_mlp_norm_gain", l>>>>)
  <2>1. Call("rmsnorm_bwd_dgain", <<<<"d_normed2", l>>, <<"h_after_attn", l>>, <<"inv_rms2", l>>>>,
             <<"t", "h">>, <<<<"d_mlp_norm_gain", l>>>>) \in LayerBackward(l)
    BY DEF LayerBackward
  <2> QED
    BY <1>1, <2>1, CallKnown
<1>12. Known(Results[FALSE], "rmsnorm_bwd_dx", <<<<"d_normed2", l>>, <<"h_after_attn", l>>,
            <<"mlp_norm_gain", l>>, <<"inv_rms2", l>>>>, <<"t", "h">>, <<<<"d_norm2", l>>>>)
  <2>1. Call("rmsnorm_bwd_dx", <<<<"d_normed2", l>>, <<"h_after_attn", l>>, <<"mlp_norm_gain", l>>,
             <<"inv_rms2", l>>>>, <<"t", "h">>, <<<<"d_norm2", l>>>>) \in LayerBackward(l)
    BY DEF LayerBackward
  <2> QED
    BY <1>1, <2>1, CallKnown
<1>13. Known(Results[FALSE], "linear_bwd_dw", <<<<"d_after_attn", l>>, <<"concat", l>>>>, <<"t",
            "h", "h">>, <<<<"d_wo", l>>>>)
  <2>1. Call("linear_bwd_dw", <<<<"d_after_attn", l>>, <<"concat", l>>>>, <<"t", "h", "h">>,
             <<<<"d_wo", l>>>>) \in LayerBackward(l)
    BY DEF LayerBackward
  <2> QED
    BY <1>1, <2>1, CallKnown
<1>14. Known(Results[FALSE], "linear_bwd_dx", <<<<"d_after_attn", l>>, <<"wo", l>>>>, <<"t", "h",
            "h">>, <<<<"d_concat", l>>>>)
  <2>1. Call("linear_bwd_dx", <<<<"d_after_attn", l>>, <<"wo", l>>>>, <<"t", "h", "h">>,
             <<<<"d_concat", l>>>>) \in LayerBackward(l)
    BY DEF LayerBackward
  <2> QED
    BY <1>1, <2>1, CallKnown
<1>15. Known(Results[FALSE], "attention_dscore", <<<<"d_concat", l>>, <<"v", l>>, <<"probs", l>>>>,
            <<"t", "band">>, <<<<"d_score", l>>>>)
  <2>1. Call("attention_dscore", <<<<"d_concat", l>>, <<"v", l>>, <<"probs", l>>>>, <<"t", "band">>,
             <<<<"d_score", l>>>>) \in LayerBackward(l)
    BY DEF LayerBackward
  <2> QED
    BY <1>1, <2>1, CallKnown
<1>16. Known(Results[FALSE], "attention_dq", <<<<"d_score", l>>, <<"k", l>>>>, <<"t", "band">>,
            <<<<"d_q_raw", l>>>>)
  <2>1. Call("attention_dq", <<<<"d_score", l>>, <<"k", l>>>>, <<"t", "band">>, <<<<"d_q_raw",
             l>>>>) \in LayerBackward(l)
    BY DEF LayerBackward
  <2> QED
    BY <1>1, <2>1, CallKnown
<1>17. Known(Results[FALSE], "attention_dkdv", <<<<"d_score", l>>, <<"probs", l>>, <<"q", l>>,
            <<"d_concat", l>>>>, <<"t", "band">>, <<<<"d_k_raw", l>>, <<"d_v", l>>>>)
  <2>1. Call("attention_dkdv", <<<<"d_score", l>>, <<"probs", l>>, <<"q", l>>, <<"d_concat", l>>>>,
             <<"t", "band">>, <<<<"d_k_raw", l>>, <<"d_v", l>>>>) \in LayerBackward(l)
    BY DEF LayerBackward
  <2> QED
    BY <1>1, <2>1, CallKnown
<1>18. Known(Results[FALSE], "rope", <<<<"d_q_raw", l>>>>, <<"t", "heads", "inv">>, <<<<"d_q",
            l>>>>)
  <2>1. Call("rope", <<<<"d_q_raw", l>>>>, <<"t", "heads", "inv">>, <<<<"d_q", l>>>>) \in LayerBackward(l)
    BY DEF LayerBackward
  <2> QED
    BY <1>1, <2>1, CallKnown
<1>19. Known(Results[FALSE], "rope", <<<<"d_k_raw", l>>>>, <<"t", "kv_heads", "inv">>, <<<<"d_k",
            l>>>>)
  <2>1. Call("rope", <<<<"d_k_raw", l>>>>, <<"t", "kv_heads", "inv">>, <<<<"d_k", l>>>>) \in LayerBackward(l)
    BY DEF LayerBackward
  <2> QED
    BY <1>1, <2>1, CallKnown
<1>20. Known(Results[FALSE], "linear_bwd_dw", <<<<"d_q", l>>, <<"normed1", l>>>>, <<"t", "h", "h">>,
            <<<<"d_wq", l>>>>)
  <2>1. Call("linear_bwd_dw", <<<<"d_q", l>>, <<"normed1", l>>>>, <<"t", "h", "h">>, <<<<"d_wq",
             l>>>>) \in LayerBackward(l)
    BY DEF LayerBackward
  <2> QED
    BY <1>1, <2>1, CallKnown
<1>21. Known(Results[FALSE], "linear_bwd_dw", <<<<"d_k", l>>, <<"normed1", l>>>>, <<"t", "h",
            "kv">>, <<<<"d_wk", l>>>>)
  <2>1. Call("linear_bwd_dw", <<<<"d_k", l>>, <<"normed1", l>>>>, <<"t", "h", "kv">>, <<<<"d_wk",
             l>>>>) \in LayerBackward(l)
    BY DEF LayerBackward
  <2> QED
    BY <1>1, <2>1, CallKnown
<1>22. Known(Results[FALSE], "linear_bwd_dw", <<<<"d_v", l>>, <<"normed1", l>>>>, <<"t", "h",
            "kv">>, <<<<"d_wv", l>>>>)
  <2>1. Call("linear_bwd_dw", <<<<"d_v", l>>, <<"normed1", l>>>>, <<"t", "h", "kv">>, <<<<"d_wv",
             l>>>>) \in LayerBackward(l)
    BY DEF LayerBackward
  <2> QED
    BY <1>1, <2>1, CallKnown
<1>23. Known(Results[FALSE], "linear_bwd_dx", <<<<"d_q", l>>, <<"wq", l>>>>, <<"t", "h", "h">>,
            <<<<"d_normed1_q", l>>>>)
  <2>1. Call("linear_bwd_dx", <<<<"d_q", l>>, <<"wq", l>>>>, <<"t", "h", "h">>, <<<<"d_normed1_q",
             l>>>>) \in LayerBackward(l)
    BY DEF LayerBackward
  <2> QED
    BY <1>1, <2>1, CallKnown
<1>24. Known(Results[FALSE], "linear_bwd_dx", <<<<"d_k", l>>, <<"wk", l>>>>, <<"t", "h", "kv">>,
            <<<<"d_normed1_k", l>>>>)
  <2>1. Call("linear_bwd_dx", <<<<"d_k", l>>, <<"wk", l>>>>, <<"t", "h", "kv">>, <<<<"d_normed1_k",
             l>>>>) \in LayerBackward(l)
    BY DEF LayerBackward
  <2> QED
    BY <1>1, <2>1, CallKnown
<1>25. Known(Results[FALSE], "linear_bwd_dx", <<<<"d_v", l>>, <<"wv", l>>>>, <<"t", "h", "kv">>,
            <<<<"d_normed1_v", l>>>>)
  <2>1. Call("linear_bwd_dx", <<<<"d_v", l>>, <<"wv", l>>>>, <<"t", "h", "kv">>, <<<<"d_normed1_v",
             l>>>>) \in LayerBackward(l)
    BY DEF LayerBackward
  <2> QED
    BY <1>1, <2>1, CallKnown
<1>26. Known(Results[FALSE], "add", <<<<"d_normed1_q", l>>, <<"d_normed1_k", l>>>>, <<"t", "h">>,
            <<<<"d_normed1_qk", l>>>>)
  <2>1. Call("add", <<<<"d_normed1_q", l>>, <<"d_normed1_k", l>>>>, <<"t", "h">>,
             <<<<"d_normed1_qk", l>>>>) \in LayerBackward(l)
    BY DEF LayerBackward
  <2> QED
    BY <1>1, <2>1, CallKnown
<1>27. Known(Results[FALSE], "add", <<<<"d_normed1_qk", l>>, <<"d_normed1_v", l>>>>, <<"t", "h">>,
            <<<<"d_normed1", l>>>>)
  <2>1. Call("add", <<<<"d_normed1_qk", l>>, <<"d_normed1_v", l>>>>, <<"t", "h">>, <<<<"d_normed1",
             l>>>>) \in LayerBackward(l)
    BY DEF LayerBackward
  <2> QED
    BY <1>1, <2>1, CallKnown
<1>28. Known(Results[FALSE], "add", <<<<"d_after_attn", l>>, <<"d_norm1", l>>>>, <<"t", "h">>,
            <<<<"d_in", l>>>>)
  <2>1. Call("add", <<<<"d_after_attn", l>>, <<"d_norm1", l>>>>, <<"t", "h">>, <<<<"d_in", l>>>>) \in LayerBackward(l)
    BY DEF LayerBackward
  <2> QED
    BY <1>1, <2>1, CallKnown
<1>29. Known(Results[FALSE], "rmsnorm_bwd_dgain", <<<<"d_normed1", l>>, <<"h_in", l>>, <<"inv_rms1",
            l>>>>, <<"t", "h">>, <<<<"d_attn_norm_gain", l>>>>)
  <2>1. Call("rmsnorm_bwd_dgain", <<<<"d_normed1", l>>, <<"h_in", l>>, <<"inv_rms1", l>>>>, <<"t",
             "h">>, <<<<"d_attn_norm_gain", l>>>>) \in LayerBackward(l)
    BY DEF LayerBackward
  <2> QED
    BY <1>1, <2>1, CallKnown
<1>30. Known(Results[FALSE], "rmsnorm_bwd_dx", <<<<"d_normed1", l>>, <<"h_in", l>>,
            <<"attn_norm_gain", l>>, <<"inv_rms1", l>>>>, <<"t", "h">>, <<<<"d_norm1", l>>>>)
  <2>1. Call("rmsnorm_bwd_dx", <<<<"d_normed1", l>>, <<"h_in", l>>, <<"attn_norm_gain", l>>,
             <<"inv_rms1", l>>>>, <<"t", "h">>, <<<<"d_norm1", l>>>>) \in LayerBackward(l)
    BY DEF LayerBackward
  <2> QED
    BY <1>1, <2>1, CallKnown
<1> QED
  BY ONLY <1>2, <1>3, <1>4, <1>5, <1>6, <1>7, <1>8, <1>9, <1>10, <1>11, <1>12, <1>13, <1>14, <1>15, <1>16, <1>17, <1>18, <1>19, <1>20, <1>21, <1>22, <1>23, <1>24, <1>25, <1>26, <1>27, <1>28, <1>29, <1>30

\* The loss, and before the layers of the backward pass.
LEMMA BackwardKnown ==
    ASSUME TRUE
    PROVE  /\ Known(Results[FALSE], "cross_entropy", <<Top("logits"), Top("targets")>>, <<"t",
                   "vocab">>, <<Top("d_logits"), Top("loss_rows")>>)
           /\ Known(Results[FALSE], "linear_bwd_dw", <<Top("d_logits"), Top("final_normed")>>,
                   <<"t", "h", "vocab">>, <<Top("d_embed_head")>>)
           /\ Known(Results[FALSE], "linear_bwd_dx", <<Top("d_logits"), Top("embed")>>, <<"t", "h",
                   "vocab">>, <<Top("d_final_normed")>>)
           /\ Known(Results[FALSE], "rmsnorm_bwd_dgain", <<Top("d_final_normed"), Top("h_final"),
                   Top("final_inv_rms")>>, <<"t", "h">>, <<Top("d_final_norm_gain")>>)
           /\ Known(Results[FALSE], "rmsnorm_bwd_dx", <<Top("d_final_normed"), Top("h_final"),
                   Top("final_norm_gain"), Top("final_inv_rms")>>, <<"t", "h">>, <<Top("d_final")>>)
<1> PICK ple : ple = FALSE
  OBVIOUS
<1>1. Backward \subseteq Calls(ple)
  BY DEF Calls
<1>2. Known(Results[FALSE], "cross_entropy", <<Top("logits"), Top("targets")>>, <<"t", "vocab">>,
           <<Top("d_logits"), Top("loss_rows")>>)
  <2>1. Call("cross_entropy", <<Top("logits"), Top("targets")>>, <<"t", "vocab">>,
             <<Top("d_logits"), Top("loss_rows")>>) \in Backward
    BY DEF Backward
  <2> QED
    BY <1>1, <2>1, CallKnown
<1>3. Known(Results[FALSE], "linear_bwd_dw", <<Top("d_logits"), Top("final_normed")>>, <<"t", "h",
           "vocab">>, <<Top("d_embed_head")>>)
  <2>1. Call("linear_bwd_dw", <<Top("d_logits"), Top("final_normed")>>, <<"t", "h", "vocab">>,
             <<Top("d_embed_head")>>) \in Backward
    BY DEF Backward
  <2> QED
    BY <1>1, <2>1, CallKnown
<1>4. Known(Results[FALSE], "linear_bwd_dx", <<Top("d_logits"), Top("embed")>>, <<"t", "h",
           "vocab">>, <<Top("d_final_normed")>>)
  <2>1. Call("linear_bwd_dx", <<Top("d_logits"), Top("embed")>>, <<"t", "h", "vocab">>,
             <<Top("d_final_normed")>>) \in Backward
    BY DEF Backward
  <2> QED
    BY <1>1, <2>1, CallKnown
<1>5. Known(Results[FALSE], "rmsnorm_bwd_dgain", <<Top("d_final_normed"), Top("h_final"),
           Top("final_inv_rms")>>, <<"t", "h">>, <<Top("d_final_norm_gain")>>)
  <2>1. Call("rmsnorm_bwd_dgain", <<Top("d_final_normed"), Top("h_final"), Top("final_inv_rms")>>,
             <<"t", "h">>, <<Top("d_final_norm_gain")>>) \in Backward
    BY DEF Backward
  <2> QED
    BY <1>1, <2>1, CallKnown
<1>6. Known(Results[FALSE], "rmsnorm_bwd_dx", <<Top("d_final_normed"), Top("h_final"),
           Top("final_norm_gain"), Top("final_inv_rms")>>, <<"t", "h">>, <<Top("d_final")>>)
  <2>1. Call("rmsnorm_bwd_dx", <<Top("d_final_normed"), Top("h_final"), Top("final_norm_gain"),
             Top("final_inv_rms")>>, <<"t", "h">>, <<Top("d_final")>>) \in Backward
    BY DEF Backward
  <2> QED
    BY <1>1, <2>1, CallKnown
<1> QED
  BY ONLY <1>2, <1>3, <1>4, <1>5, <1>6

-----------------------------------------------------------------------------
(* What one command does to memory.                                        *)

\* Memory n is m with v in buffer y.
Wrote(m, y, v, n) ==
    /\ DOMAIN n = DOMAIN m /\ n[y] = v
    /\ \A b \in DOMAIN m : b # y => n[b] = m[b]

\* The same with two buffers.
WroteBoth(m, y, v, z, w, n) ==
    /\ DOMAIN n = DOMAIN m /\ n[y] = v /\ n[z] = w
    /\ \A b \in DOMAIN m : b # y /\ b # z => n[b] = m[b]

\* The names of what the buffers read hold, all of one sequence or of none.
Given(m, reads, ins, s) ==
    /\ DOMAIN ins = DOMAIN reads /\ ins = [i \in DOMAIN reads |-> ins[i]]
    /\ \A i \in DOMAIN reads : m[reads[i]].of = ins[i] /\ m[reads[i]].seq \in {s, NoSeq}
    /\ \E i \in DOMAIN reads : m[reads[i]].seq = s

\* The command's operands are those the host gives an operation that returns outs.
Matches(table, m, c, p, ins, outs, s) ==
    /\ s # NoSeq /\ Given(m, c.reads, ins, s) /\ p.seq \in {s, NoSeq}
    /\ Known(table, c.op, ins, p.dims, outs)

\* What a kernel computes is what the host returns.
LEMMA OutputsAre ==
    ASSUME NEW table, NEW m, NEW c, NEW p, NEW ins, NEW outs, NEW s,
           Matches(table, m, c, p, ins, outs, s)
    PROVE  \A k \in DOMAIN c.writes : Outputs(table, m, c, p)[k] = Value(outs[k], s)
<1> DEFINE buffers == [i \in DOMAIN c.reads |-> m[c.reads[i]]]
           seqs == {buffers[i].seq : i \in DOMAIN buffers} \cup {p.seq}
           key == <<c.op, [i \in DOMAIN buffers |-> buffers[i].of], p.dims>>
<1>1. Outputs(table, m, c, p) =
        IF key \in DOMAIN table /\ \E r \in seqs : seqs \subseteq {r, NoSeq} /\ r # NoSeq
        THEN [k \in DOMAIN c.writes |-> Value(table[key][k], CHOOSE r \in seqs : r # NoSeq)]
        ELSE [k \in DOMAIN c.writes |-> Junk]
  BY DEF Outputs
<1>2. [i \in DOMAIN buffers |-> buffers[i].of] = ins
  BY DEF Given, Matches
<1>3. key \in DOMAIN table /\ table[key] = outs
  BY <1>2 DEF Known, Matches
<1>4. s \in seqs /\ seqs \subseteq {s, NoSeq} /\ s # NoSeq
  BY DEF Given, Matches
<1> HIDE DEF seqs, key
<1>5. (CHOOSE r \in seqs : r # NoSeq) = s
  BY <1>4
<1>6. Outputs(table, m, c, p) = [k \in DOMAIN c.writes |-> Value(outs[k], s)]
  BY <1>1, <1>3, <1>4, <1>5
<1> QED
  BY <1>6

\* What a dispatch is made of.
LEMMA DispatchIs ==
    ASSUME NEW op, NEW dims, NEW sq, NEW reads, NEW writes
    PROVE  \E c, p : /\ c = Dispatch(op, dims, sq, reads, writes)
                     /\ c.do = "dispatch" /\ c.op = op /\ c.params = p /\ c.reads = reads
                     /\ c.writes = writes /\ p.dims = dims /\ p.seq = sq
<1> DEFINE C == Dispatch(op, dims, sq, reads, writes)
<1>1. /\ C.do = "dispatch" /\ C.op = op /\ C.reads = reads
      /\ C.writes = writes /\ C.params.dims = dims /\ C.params.seq = sq
  BY DEF Dispatch
<1> HIDE DEF C
<1> QED
  BY <1>1 DEF C

\* A command that computes.
LEMMA Computes ==
    ASSUME NEW table, NEW m, NEW op \in Computing, NEW dims, NEW sq, NEW reads, NEW y,
           NEW ins, NEW o, NEW s, s # NoSeq, y \in DOMAIN m,
           Given(m, reads, ins, s), sq \in {s, NoSeq}, Known(table, op, ins, dims, <<o>>)
    PROVE  Wrote(m, y, Value(o, s), Now(table, m, Dispatch(op, dims, sq, reads, <<y>>)))
<1> PICK writes : writes = <<y>>
  OBVIOUS
<1> PICK outs : outs = <<o>>
  OBVIOUS
<1>1. PICK c, p : /\ c = Dispatch(op, dims, sq, reads, writes)
                  /\ c.do = "dispatch" /\ c.op = op /\ c.params = p /\ c.reads = reads
                  /\ c.writes = writes /\ p.dims = dims /\ p.seq = sq
  BY DispatchIs
<1>2. Now(table, m, c) = Computed(table, m, c, p)
  <2>1. Now(table, m, c) = Execute(table, p, m, c)
    BY <1>1 DEF Now
  <2>2. Execute(table, p, m, c) = Computed(table, m, c, p)
    BY <1>1 DEF Execute, Computing, Accumulating
  <2> QED
    BY <2>1, <2>2
<1>3. \A k \in DOMAIN c.writes : Outputs(table, m, c, p)[k] = Value(outs[k], s)
  <2>1. Matches(table, m, c, p, ins, outs, s)
    BY <1>1 DEF Matches
  <2> QED
    BY ONLY <2>1, OutputsAre
<1>4. DOMAIN c.writes = {1} /\ Len(c.writes) = 1 /\ c.writes[1] = y /\ outs[1] = o
  BY <1>1
<1>5. Outputs(table, m, c, p)[1] = Value(o, s)
  BY <1>3, <1>4
<1>6. Now(table, m, c) = [m EXCEPT ![y] = Value(o, s)]
  BY <1>2, <1>4, <1>5 DEF Computed
<1> QED
  BY <1>1, <1>6 DEF Wrote

\* A command that computes two results.
LEMMA ComputesBoth ==
    ASSUME NEW table, NEW m, NEW op \in Computing, NEW dims, NEW sq, NEW reads, NEW y, NEW z,
           NEW ins, NEW o, NEW u, NEW s, s # NoSeq, y \in DOMAIN m, z \in DOMAIN m, y # z,
           Given(m, reads, ins, s), sq \in {s, NoSeq}, Known(table, op, ins, dims, <<o, u>>)
    PROVE  WroteBoth(m, y, Value(o, s), z, Value(u, s),
                     Now(table, m, Dispatch(op, dims, sq, reads, <<y, z>>)))
<1> PICK writes : writes = <<y, z>>
  OBVIOUS
<1> PICK outs : outs = <<o, u>>
  OBVIOUS
<1>1. PICK c, p : /\ c = Dispatch(op, dims, sq, reads, writes)
                  /\ c.do = "dispatch" /\ c.op = op /\ c.params = p /\ c.reads = reads
                  /\ c.writes = writes /\ p.dims = dims /\ p.seq = sq
  BY DispatchIs
<1>2. Now(table, m, c) = Computed(table, m, c, p)
  <2>1. Now(table, m, c) = Execute(table, p, m, c)
    BY <1>1 DEF Now
  <2>2. Execute(table, p, m, c) = Computed(table, m, c, p)
    BY <1>1 DEF Execute, Computing, Accumulating
  <2> QED
    BY <2>1, <2>2
<1>3. \A k \in DOMAIN c.writes : Outputs(table, m, c, p)[k] = Value(outs[k], s)
  <2>1. Matches(table, m, c, p, ins, outs, s)
    BY <1>1 DEF Matches
  <2> QED
    BY ONLY <2>1, OutputsAre
<1>4. /\ DOMAIN c.writes = {1, 2} /\ Len(c.writes) = 2 /\ c.writes[1] = y /\ c.writes[2] = z
      /\ outs[1] = o /\ outs[2] = u
  BY <1>1
<1>5. Outputs(table, m, c, p)[1] = Value(o, s) /\ Outputs(table, m, c, p)[2] = Value(u, s)
  BY <1>3, <1>4
<1>6. Now(table, m, c) = [m EXCEPT ![y] = Value(o, s), ![z] = Value(u, s)]
  BY <1>2, <1>4, <1>5 DEF Computed
<1> QED
  BY <1>1, <1>6 DEF WroteBoth

\* A command that accumulates.
LEMMA Accumulates ==
    ASSUME NEW table, NEW m, NEW op \in Accumulating, NEW dims, NEW sq, NEW reads, NEW y,
           NEW ins, NEW o, NEW s, s # NoSeq, y \in DOMAIN m,
           Given(m, reads, ins, s), sq \in {s, NoSeq}, Known(table, op, ins, dims, <<o>>)
    PROVE  Wrote(m, y, Append(m[y], Value(o, s)),
                 Now(table, m, Dispatch(op, dims, sq, reads, <<y>>)))
<1> PICK writes : writes = <<y>>
  OBVIOUS
<1> PICK outs : outs = <<o>>
  OBVIOUS
<1>1. PICK c, p : /\ c = Dispatch(op, dims, sq, reads, writes)
                  /\ c.do = "dispatch" /\ c.op = op /\ c.params = p /\ c.reads = reads
                  /\ c.writes = writes /\ p.dims = dims /\ p.seq = sq
  BY DispatchIs
<1>2. Now(table, m, c) = Accumulated(table, m, c, p)
  <2>1. Now(table, m, c) = Execute(table, p, m, c)
    BY <1>1 DEF Now
  <2>2. Execute(table, p, m, c) = Accumulated(table, m, c, p)
    BY <1>1 DEF Execute, Computing, Accumulating
  <2> QED
    BY <2>1, <2>2
<1>3. \A k \in DOMAIN c.writes : Outputs(table, m, c, p)[k] = Value(outs[k], s)
  <2>1. Matches(table, m, c, p, ins, outs, s)
    BY <1>1 DEF Matches
  <2> QED
    BY ONLY <2>1, OutputsAre
<1>4. DOMAIN c.writes = {1} /\ c.writes[1] = y /\ outs[1] = o
  BY <1>1
<1>5. Outputs(table, m, c, p)[1] = Value(o, s)
  BY <1>3, <1>4
<1>6. Now(table, m, c) = [m EXCEPT ![y] = Append(@, Value(o, s))]
  BY <1>2, <1>4, <1>5 DEF Accumulated
<1> QED
  BY <1>1, <1>6 DEF Wrote

\* A copy.
LEMMA Copies ==
    ASSUME NEW table, NEW m, NEW x, NEW y, y \in DOMAIN m
    PROVE  Wrote(m, y, m[x], Now(table, m, Copy(x, y)))
<1> PICK c : c = Copy(x, y)
  OBVIOUS
<1>1. c.do = "copy" /\ c.op = "copy" /\ c.reads[1] = x /\ c.writes[1] = y
  BY DEF Copy
<1>2. Now(table, m, c) = Copied(m, c)
  <2>1. Now(table, m, c) = Execute(table, << >>, m, c)
    BY <1>1 DEF Now
  <2>2. Execute(table, << >>, m, c) = Copied(m, c)
    BY <1>1 DEF Execute, Computing, Accumulating
  <2> QED
    BY <2>1, <2>2
<1> QED
  BY <1>1, <1>2 DEF Wrote, Copied

-----------------------------------------------------------------------------
(* Command by command.                                                     *)

\* Buffer b holds this value of this sequence; or a weight.
Holds(m, b, name, s) == m[b] = Value(name, s)
Weighs(m, b, name) == m[b].of = name /\ m[b].seq = NoSeq

\* What a command is given by the buffers it reads.
Reads(m, b, name, s) == m[b].of = name /\ m[b].seq \in {s, NoSeq}

\* A value is read with its sequence.
LEMMA HoldsReads ==
    ASSUME NEW m, NEW b, NEW name, NEW s, Holds(m, b, name, s)
    PROVE  Reads(m, b, name, s) /\ m[b].seq = s
BY DEF Holds, Reads, Value

\* A weight with any.
LEMMA WeighsReads ==
    ASSUME NEW m, NEW b, NEW name, NEW s, Weighs(m, b, name)
    PROVE  Reads(m, b, name, s)
BY DEF Weighs, Reads

\* One operand.
LEMMA Given1 ==
    ASSUME NEW m, NEW s, NEW x1, NEW i1,
           Reads(m, x1, i1, s),
           m[x1].seq = s
    PROVE  Given(m, <<x1>>, <<i1>>, s)
<1> PICK reads, ins : reads = <<x1>> /\ ins = <<i1>>
  OBVIOUS
<1>1. /\ DOMAIN reads = 1 .. 1 /\ DOMAIN ins = 1 .. 1 /\ ins = [i \in 1 .. 1 |-> ins[i]]
      /\ reads[1] = x1 /\ ins[1] = i1
  OBVIOUS
<1>2. \A i \in 1 .. 1 : m[reads[i]].of = ins[i] /\ m[reads[i]].seq \in {s, NoSeq}
  <2>1. \A i \in 1 .. 1 : i = 1
    OBVIOUS
  <2> QED
    BY <1>1, <2>1 DEF Reads
<1>3. \E i \in 1 .. 1 : m[reads[i]].seq = s
  BY <1>1
<1> QED
  BY <1>1, <1>2, <1>3 DEF Given

\* Two operands.
LEMMA Given2 ==
    ASSUME NEW m, NEW s, NEW x1, NEW x2, NEW i1, NEW i2,
           Reads(m, x1, i1, s), Reads(m, x2, i2, s),
           m[x1].seq = s \/ m[x2].seq = s
    PROVE  Given(m, <<x1, x2>>, <<i1, i2>>, s)
<1> PICK reads, ins : reads = <<x1, x2>> /\ ins = <<i1, i2>>
  OBVIOUS
<1>1. /\ DOMAIN reads = 1 .. 2 /\ DOMAIN ins = 1 .. 2 /\ ins = [i \in 1 .. 2 |-> ins[i]]
      /\ reads[1] = x1 /\ ins[1] = i1 /\ reads[2] = x2 /\ ins[2] = i2
  OBVIOUS
<1>2. \A i \in 1 .. 2 : m[reads[i]].of = ins[i] /\ m[reads[i]].seq \in {s, NoSeq}
  <2>1. \A i \in 1 .. 2 : i = 1 \/ i = 2
    OBVIOUS
  <2> QED
    BY <1>1, <2>1 DEF Reads
<1>3. \E i \in 1 .. 2 : m[reads[i]].seq = s
  BY <1>1
<1> QED
  BY <1>1, <1>2, <1>3 DEF Given

\* Three operands.
LEMMA Given3 ==
    ASSUME NEW m, NEW s, NEW x1, NEW x2, NEW x3, NEW i1, NEW i2, NEW i3,
           Reads(m, x1, i1, s), Reads(m, x2, i2, s), Reads(m, x3, i3, s),
           m[x1].seq = s \/ m[x2].seq = s \/ m[x3].seq = s
    PROVE  Given(m, <<x1, x2, x3>>, <<i1, i2, i3>>, s)
<1> PICK reads, ins : reads = <<x1, x2, x3>> /\ ins = <<i1, i2, i3>>
  OBVIOUS
<1>1. /\ DOMAIN reads = 1 .. 3 /\ DOMAIN ins = 1 .. 3 /\ ins = [i \in 1 .. 3 |-> ins[i]]
      /\ reads[1] = x1 /\ ins[1] = i1 /\ reads[2] = x2 /\ ins[2] = i2 /\ reads[3] = x3 /\ ins[3] = i3
  OBVIOUS
<1>2. \A i \in 1 .. 3 : m[reads[i]].of = ins[i] /\ m[reads[i]].seq \in {s, NoSeq}
  <2>1. \A i \in 1 .. 3 : i = 1 \/ i = 2 \/ i = 3
    OBVIOUS
  <2> QED
    BY <1>1, <2>1 DEF Reads
<1>3. \E i \in 1 .. 3 : m[reads[i]].seq = s
  BY <1>1
<1> QED
  BY <1>1, <1>2, <1>3 DEF Given

\* Four operands.
LEMMA Given4 ==
    ASSUME NEW m, NEW s, NEW x1, NEW x2, NEW x3, NEW x4, NEW i1, NEW i2, NEW i3, NEW i4,
           Reads(m, x1, i1, s), Reads(m, x2, i2, s), Reads(m, x3, i3, s), Reads(m, x4, i4, s),
           m[x1].seq = s \/ m[x2].seq = s \/ m[x3].seq = s \/ m[x4].seq = s
    PROVE  Given(m, <<x1, x2, x3, x4>>, <<i1, i2, i3, i4>>, s)
<1> PICK reads, ins : reads = <<x1, x2, x3, x4>> /\ ins = <<i1, i2, i3, i4>>
  OBVIOUS
<1>1. /\ DOMAIN reads = 1 .. 4 /\ DOMAIN ins = 1 .. 4 /\ ins = [i \in 1 .. 4 |-> ins[i]]
      /\ reads[1] = x1 /\ ins[1] = i1 /\ reads[2] = x2 /\ ins[2] = i2 /\ reads[3] = x3 /\ ins[3] = i3 /\ reads[4] = x4 /\ ins[4] = i4
  OBVIOUS
<1>2. \A i \in 1 .. 4 : m[reads[i]].of = ins[i] /\ m[reads[i]].seq \in {s, NoSeq}
  <2>1. \A i \in 1 .. 4 : i = 1 \/ i = 2 \/ i = 3 \/ i = 4
    OBVIOUS
  <2> QED
    BY <1>1, <2>1 DEF Reads
<1>3. \E i \in 1 .. 4 : m[reads[i]].seq = s
  BY <1>1
<1> QED
  BY <1>1, <1>2, <1>3 DEF Given

\* A product with a weight.
LEMMA linearTurn ==
    ASSUME NEW table, NEW m, NEW s, s # NoSeq, NEW x, NEW w, NEW y, NEW rows, NEW i, NEW o,
           NEW n1, NEW n2, NEW r1,
           Holds(m, x, n1, s), Weighs(m, w, n2),
           Known(table, "linear", <<n1, n2>>, <<rows, i, o>>, <<r1>>), y \in DOMAIN m
    PROVE  Wrote(m, y, Value(r1, s), Now(table, m, dispatch_linear(x, w, y, rows, i, o)))
<1>1. Reads(m, x, n1, s) /\ Reads(m, w, n2, s) /\ m[x].seq = s
  BY HoldsReads, WeighsReads
<1>2. Given(m, <<x, w>>, <<n1, n2>>, s)
  BY ONLY <1>1, Given2
<1>3. "linear" \in Computing
  BY DEF Computing
<1> PICK reads, ins, dims : /\ reads = <<x, w>> /\ ins = <<n1, n2>>
                           /\ dims = <<rows, i, o>>
  OBVIOUS
<1>4. Wrote(m, y, Value(r1, s), Now(table, m, Dispatch("linear", dims, NoSeq, reads, <<y>>)))
  <2>1. Given(m, reads, ins, s) /\ Known(table, "linear", ins, dims, <<r1>>)
    BY <1>2
  <2> QED
    BY ONLY <1>3, <2>1, s # NoSeq, y \in DOMAIN m, Computes
<1> QED
  BY <1>4 DEF dispatch_linear

\* A sum.
LEMMA addTurn ==
    ASSUME NEW table, NEW m, NEW s, s # NoSeq, NEW x, NEW w, NEW rows,
           NEW n1, NEW n2, NEW r1,
           Holds(m, x, n1, s), Holds(m, w, n2, s),
           Known(table, "add", <<n1, n2>>, <<rows, "h">>, <<r1>>), x \in DOMAIN m
    PROVE  Wrote(m, x, Value(r1, s), Now(table, m, dispatch_add_inplace(x, w, rows)))
<1>1. Reads(m, x, n1, s) /\ Reads(m, w, n2, s) /\ m[x].seq = s
  BY HoldsReads, WeighsReads
<1>2. Given(m, <<x, w>>, <<n1, n2>>, s)
  BY ONLY <1>1, Given2
<1>3. "add" \in Computing
  BY DEF Computing
<1> PICK reads, ins, dims : /\ reads = <<x, w>> /\ ins = <<n1, n2>>
                           /\ dims = <<rows, "h">>
  OBVIOUS
<1>4. Wrote(m, x, Value(r1, s), Now(table, m, Dispatch("add", dims, NoSeq, reads, <<x>>)))
  <2>1. Given(m, reads, ins, s) /\ Known(table, "add", ins, dims, <<r1>>)
    BY <1>2
  <2> QED
    BY ONLY <1>3, <2>1, s # NoSeq, x \in DOMAIN m, Computes
<1> QED
  BY <1>4 DEF dispatch_add_inplace

\* The gate.
LEMMA swigluTurn ==
    ASSUME NEW table, NEW m, NEW s, s # NoSeq, NEW x, NEW w, NEW y, NEW rows,
           NEW n1, NEW n2, NEW r1,
           Holds(m, x, n1, s), Holds(m, w, n2, s),
           Known(table, "swiglu", <<n1, n2>>, <<rows, "ffn">>, <<r1>>), y \in DOMAIN m
    PROVE  Wrote(m, y, Value(r1, s), Now(table, m, dispatch_swiglu(x, w, y, rows)))
<1>1. Reads(m, x, n1, s) /\ Reads(m, w, n2, s) /\ m[x].seq = s
  BY HoldsReads, WeighsReads
<1>2. Given(m, <<x, w>>, <<n1, n2>>, s)
  BY ONLY <1>1, Given2
<1>3. "swiglu" \in Computing
  BY DEF Computing
<1> PICK reads, ins, dims : /\ reads = <<x, w>> /\ ins = <<n1, n2>>
                           /\ dims = <<rows, "ffn">>
  OBVIOUS
<1>4. Wrote(m, y, Value(r1, s), Now(table, m, Dispatch("swiglu", dims, NoSeq, reads, <<y>>)))
  <2>1. Given(m, reads, ins, s) /\ Known(table, "swiglu", ins, dims, <<r1>>)
    BY <1>2
  <2> QED
    BY ONLY <1>3, <2>1, s # NoSeq, y \in DOMAIN m, Computes
<1> QED
  BY <1>4 DEF dispatch_swiglu

\* Rows of a table.
LEMMA gatherTurn ==
    ASSUME NEW table, NEW m, NEW s, s # NoSeq, NEW x, NEW w, NEW y, NEW rows,
           NEW n1, NEW n2, NEW r1,
           Weighs(m, x, n1), Holds(m, w, n2, s),
           Known(table, "gather", <<n1, n2>>, <<rows, "h">>, <<r1>>), y \in DOMAIN m
    PROVE  Wrote(m, y, Value(r1, s), Now(table, m, dispatch_gather(x, w, y, rows)))
<1>1. Reads(m, x, n1, s) /\ Reads(m, w, n2, s) /\ m[w].seq = s
  BY HoldsReads, WeighsReads
<1>2. Given(m, <<x, w>>, <<n1, n2>>, s)
  BY ONLY <1>1, Given2
<1>3. "gather" \in Computing
  BY DEF Computing
<1> PICK reads, ins, dims : /\ reads = <<x, w>> /\ ins = <<n1, n2>>
                           /\ dims = <<rows, "h">>
  OBVIOUS
<1>4. Wrote(m, y, Value(r1, s), Now(table, m, Dispatch("gather", dims, NoSeq, reads, <<y>>)))
  <2>1. Given(m, reads, ins, s) /\ Known(table, "gather", ins, dims, <<r1>>)
    BY <1>2
  <2> QED
    BY ONLY <1>3, <2>1, s # NoSeq, y \in DOMAIN m, Computes
<1> QED
  BY <1>4 DEF dispatch_gather

\* A norm.
LEMMA rmsnormTurn ==
    ASSUME NEW table, NEW m, NEW s, s # NoSeq, NEW x, NEW w, NEW y, NEW z, NEW rows,
           NEW n1, NEW n2, NEW r1, NEW r2,
           Holds(m, x, n1, s), Weighs(m, w, n2),
           Known(table, "rmsnorm", <<n1, n2>>, <<rows, "h">>, <<r1, r2>>), y \in DOMAIN m,
           z \in DOMAIN m, y # z
    PROVE  WroteBoth(m, y, Value(r1, s), z, Value(r2, s),
                     Now(table, m, dispatch_rmsnorm(x, w, y, z, rows)))
<1>1. Reads(m, x, n1, s) /\ Reads(m, w, n2, s) /\ m[x].seq = s
  BY HoldsReads, WeighsReads
<1>2. Given(m, <<x, w>>, <<n1, n2>>, s)
  BY ONLY <1>1, Given2
<1>3. "rmsnorm" \in Computing
  BY DEF Computing
<1> PICK reads, ins, dims : /\ reads = <<x, w>> /\ ins = <<n1, n2>>
                           /\ dims = <<rows, "h">>
  OBVIOUS
<1>4. WroteBoth(m, y, Value(r1, s), z, Value(r2, s),
                     Now(table, m, Dispatch("rmsnorm", dims, NoSeq, reads, <<y, z>>)))
  <2>1. Given(m, reads, ins, s) /\ Known(table, "rmsnorm", ins, dims, <<r1, r2>>)
    BY <1>2
  <2> QED
    BY ONLY <1>3, <2>1, s # NoSeq, y \in DOMAIN m, z \in DOMAIN m, y # z, ComputesBoth
<1> QED
  BY <1>4 DEF dispatch_rmsnorm

\* A rotation, of a position or of all.
LEMMA ropeTurn ==
    ASSUME NEW table, NEW m, NEW s, s # NoSeq, NEW x, NEW rows, NEW heads, NEW sq, NEW dir,
           NEW n1, NEW r1,
           Holds(m, x, n1, s),
           Known(table, "rope", <<n1>>, <<rows, heads, dir>>, <<r1>>), x \in DOMAIN m, sq \in {s,
           NoSeq}
    PROVE  Wrote(m, x, Value(r1, s), Now(table, m, dispatch_rope(x, rows, heads, sq, dir)))
<1>1. Reads(m, x, n1, s) /\ m[x].seq = s
  BY HoldsReads, WeighsReads
<1>2. Given(m, <<x>>, <<n1>>, s)
  BY ONLY <1>1, Given1
<1>3. "rope" \in Computing
  BY DEF Computing
<1> PICK reads, ins, dims : /\ reads = <<x>> /\ ins = <<n1>>
                           /\ dims = <<rows, heads, dir>>
  OBVIOUS
<1>4. Wrote(m, x, Value(r1, s), Now(table, m, Dispatch("rope", dims, sq, reads, <<x>>)))
  <2>1. Given(m, reads, ins, s) /\ Known(table, "rope", ins, dims, <<r1>>)
    BY <1>2
  <2> QED
    BY ONLY <1>3, <2>1, s # NoSeq, x \in DOMAIN m, sq \in {s, NoSeq}, Computes
<1> QED
  BY <1>4 DEF dispatch_rope

\* Attention.
LEMMA attention_fwdTurn ==
    ASSUME NEW table, NEW m, NEW s, s # NoSeq, NEW x, NEW w, NEW u, NEW y, NEW z,
           NEW n1, NEW n2, NEW n3, NEW r1, NEW r2,
           Holds(m, x, n1, s), Holds(m, w, n2, s), Holds(m, u, n3, s),
           Known(table, "attention_fwd", <<n1, n2, n3>>, <<"t", "band">>, <<r1, r2>>),
           y \in DOMAIN m, z \in DOMAIN m, y # z
    PROVE  WroteBoth(m, y, Value(r1, s), z, Value(r2, s),
                     Now(table, m, dispatch_attention_fwd(x, w, u, y, z)))
<1>1. Reads(m, x, n1, s) /\ Reads(m, w, n2, s) /\ Reads(m, u, n3, s) /\ m[x].seq = s
  BY HoldsReads, WeighsReads
<1>2. Given(m, <<x, w, u>>, <<n1, n2, n3>>, s)
  BY ONLY <1>1, Given3
<1>3. "attention_fwd" \in Computing
  BY DEF Computing
<1> PICK reads, ins, dims : /\ reads = <<x, w, u>> /\ ins = <<n1, n2, n3>>
                           /\ dims = <<"t", "band">>
  OBVIOUS
<1>4. WroteBoth(m, y, Value(r1, s), z, Value(r2, s),
                     Now(table, m, Dispatch("attention_fwd", dims, NoSeq, reads, <<y, z>>)))
  <2>1. Given(m, reads, ins, s) /\ Known(table, "attention_fwd", ins, dims, <<r1, r2>>)
    BY <1>2
  <2> QED
    BY ONLY <1>3, <2>1, s # NoSeq, y \in DOMAIN m, z \in DOMAIN m, y # z, ComputesBoth
<1> QED
  BY <1>4 DEF dispatch_attention_fwd

\* A weight's gradient.
LEMMA linear_bwd_dwTurn ==
    ASSUME NEW table, NEW m, NEW s, s # NoSeq, NEW x, NEW w, NEW y, NEW i, NEW o,
           NEW n1, NEW n2, NEW r1,
           Holds(m, x, n1, s), Holds(m, w, n2, s),
           Known(table, "linear_bwd_dw", <<n1, n2>>, <<"t", i, o>>, <<r1>>), y \in DOMAIN m
    PROVE  Wrote(m, y, Append(m[y], Value(r1, s)), Now(table, m, dispatch_linear_bwd_dw(x, w, y,
           i, o)))
<1>1. Reads(m, x, n1, s) /\ Reads(m, w, n2, s) /\ m[x].seq = s
  BY HoldsReads, WeighsReads
<1>2. Given(m, <<x, w>>, <<n1, n2>>, s)
  BY ONLY <1>1, Given2
<1>3. "linear_bwd_dw" \in Accumulating
  BY DEF Accumulating
<1> PICK reads, ins, dims : /\ reads = <<x, w>> /\ ins = <<n1, n2>>
                           /\ dims = <<"t", i, o>>
  OBVIOUS
<1>4. Wrote(m, y, Append(m[y], Value(r1, s)), Now(table, m, Dispatch("linear_bwd_dw", dims,
NoSeq, reads, <<y>>)))
  <2>1. Given(m, reads, ins, s) /\ Known(table, "linear_bwd_dw", ins, dims, <<r1>>)
    BY <1>2
  <2> QED
    BY ONLY <1>3, <2>1, s # NoSeq, y \in DOMAIN m, Accumulates
<1> QED
  BY <1>4 DEF dispatch_linear_bwd_dw

\* A product's gradient.
LEMMA linear_bwd_dxTurn ==
    ASSUME NEW table, NEW m, NEW s, s # NoSeq, NEW x, NEW w, NEW y, NEW i, NEW o,
           NEW n1, NEW n2, NEW r1,
           Holds(m, x, n1, s), Weighs(m, w, n2),
           Known(table, "linear_bwd_dx", <<n1, n2>>, <<"t", i, o>>, <<r1>>), y \in DOMAIN m
    PROVE  Wrote(m, y, Value(r1, s), Now(table, m, dispatch_linear_bwd_dx(x, w, y, i, o)))
<1>1. Reads(m, x, n1, s) /\ Reads(m, w, n2, s) /\ m[x].seq = s
  BY HoldsReads, WeighsReads
<1>2. Given(m, <<x, w>>, <<n1, n2>>, s)
  BY ONLY <1>1, Given2
<1>3. "linear_bwd_dx" \in Computing
  BY DEF Computing
<1> PICK reads, ins, dims : /\ reads = <<x, w>> /\ ins = <<n1, n2>>
                           /\ dims = <<"t", i, o>>
  OBVIOUS
<1>4. Wrote(m, y, Value(r1, s), Now(table, m, Dispatch("linear_bwd_dx", dims, NoSeq, reads,
<<y>>)))
  <2>1. Given(m, reads, ins, s) /\ Known(table, "linear_bwd_dx", ins, dims, <<r1>>)
    BY <1>2
  <2> QED
    BY ONLY <1>3, <2>1, s # NoSeq, y \in DOMAIN m, Computes
<1> QED
  BY <1>4 DEF dispatch_linear_bwd_dx

\* The gate's gradient.
LEMMA swiglu_bwdTurn ==
    ASSUME NEW table, NEW m, NEW s, s # NoSeq, NEW x, NEW w, NEW u, NEW y, NEW z,
           NEW n1, NEW n2, NEW n3, NEW r1, NEW r2,
           Holds(m, x, n1, s), Holds(m, w, n2, s), Holds(m, u, n3, s),
           Known(table, "swiglu_bwd", <<n1, n2, n3>>, <<"t", "ffn">>, <<r1, r2>>),
           y \in DOMAIN m, z \in DOMAIN m, y # z
    PROVE  WroteBoth(m, y, Value(r1, s), z, Value(r2, s),
                     Now(table, m, dispatch_swiglu_bwd(x, w, u, y, z)))
<1>1. Reads(m, x, n1, s) /\ Reads(m, w, n2, s) /\ Reads(m, u, n3, s) /\ m[x].seq = s
  BY HoldsReads, WeighsReads
<1>2. Given(m, <<x, w, u>>, <<n1, n2, n3>>, s)
  BY ONLY <1>1, Given3
<1>3. "swiglu_bwd" \in Computing
  BY DEF Computing
<1> PICK reads, ins, dims : /\ reads = <<x, w, u>> /\ ins = <<n1, n2, n3>>
                           /\ dims = <<"t", "ffn">>
  OBVIOUS
<1>4. WroteBoth(m, y, Value(r1, s), z, Value(r2, s),
                     Now(table, m, Dispatch("swiglu_bwd", dims, NoSeq, reads, <<y, z>>)))
  <2>1. Given(m, reads, ins, s) /\ Known(table, "swiglu_bwd", ins, dims, <<r1, r2>>)
    BY <1>2
  <2> QED
    BY ONLY <1>3, <2>1, s # NoSeq, y \in DOMAIN m, z \in DOMAIN m, y # z, ComputesBoth
<1> QED
  BY <1>4 DEF dispatch_swiglu_bwd

\* A norm's gradient.
LEMMA rmsnorm_bwd_dxTurn ==
    ASSUME NEW table, NEW m, NEW s, s # NoSeq, NEW x, NEW w, NEW u, NEW t, NEW y,
           NEW n1, NEW n2, NEW n3, NEW n4, NEW r1,
           Holds(m, x, n1, s), Holds(m, w, n2, s), Weighs(m, u, n3), Holds(m, t, n4, s),
           Known(table, "rmsnorm_bwd_dx", <<n1, n2, n3, n4>>, <<"t", "h">>, <<r1>>),
           y \in DOMAIN m
    PROVE  Wrote(m, y, Value(r1, s), Now(table, m, dispatch_rmsnorm_bwd_dx(x, w, u, t, y)))
<1>1. Reads(m, x, n1, s) /\ Reads(m, w, n2, s) /\ Reads(m, u, n3, s) /\ Reads(m, t, n4,
s) /\ m[x].seq = s
  BY HoldsReads, WeighsReads
<1>2. Given(m, <<x, w, u, t>>, <<n1, n2, n3, n4>>, s)
  BY ONLY <1>1, Given4
<1>3. "rmsnorm_bwd_dx" \in Computing
  BY DEF Computing
<1> PICK reads, ins, dims : /\ reads = <<x, w, u, t>> /\ ins = <<n1, n2, n3, n4>>
                           /\ dims = <<"t", "h">>
  OBVIOUS
<1>4. Wrote(m, y, Value(r1, s), Now(table, m, Dispatch("rmsnorm_bwd_dx", dims, NoSeq, reads,
<<y>>)))
  <2>1. Given(m, reads, ins, s) /\ Known(table, "rmsnorm_bwd_dx", ins, dims, <<r1>>)
    BY <1>2
  <2> QED
    BY ONLY <1>3, <2>1, s # NoSeq, y \in DOMAIN m, Computes
<1> QED
  BY <1>4 DEF dispatch_rmsnorm_bwd_dx

\* A gain's gradient.
LEMMA rmsnorm_bwd_dgainTurn ==
    ASSUME NEW table, NEW m, NEW s, s # NoSeq, NEW x, NEW w, NEW u, NEW y,
           NEW n1, NEW n2, NEW n3, NEW r1,
           Holds(m, x, n1, s), Holds(m, w, n2, s), Holds(m, u, n3, s),
           Known(table, "rmsnorm_bwd_dgain", <<n1, n2, n3>>, <<"t", "h">>, <<r1>>), y \in DOMAIN m
    PROVE  Wrote(m, y, Append(m[y], Value(r1, s)), Now(table, m, dispatch_rmsnorm_bwd_dgain(x, w,
           u, y)))
<1>1. Reads(m, x, n1, s) /\ Reads(m, w, n2, s) /\ Reads(m, u, n3, s) /\ m[x].seq = s
  BY HoldsReads, WeighsReads
<1>2. Given(m, <<x, w, u>>, <<n1, n2, n3>>, s)
  BY ONLY <1>1, Given3
<1>3. "rmsnorm_bwd_dgain" \in Accumulating
  BY DEF Accumulating
<1> PICK reads, ins, dims : /\ reads = <<x, w, u>> /\ ins = <<n1, n2, n3>>
                           /\ dims = <<"t", "h">>
  OBVIOUS
<1>4. Wrote(m, y, Append(m[y], Value(r1, s)), Now(table, m, Dispatch("rmsnorm_bwd_dgain", dims,
NoSeq, reads, <<y>>)))
  <2>1. Given(m, reads, ins, s) /\ Known(table, "rmsnorm_bwd_dgain", ins, dims, <<r1>>)
    BY <1>2
  <2> QED
    BY ONLY <1>3, <2>1, s # NoSeq, y \in DOMAIN m, Accumulates
<1> QED
  BY <1>4 DEF dispatch_rmsnorm_bwd_dgain

\* The loss.
LEMMA cross_entropyTurn ==
    ASSUME NEW table, NEW m, NEW s, s # NoSeq, NEW x, NEW w, NEW y, NEW z,
           NEW n1, NEW n2, NEW r1, NEW r2,
           Holds(m, x, n1, s), Holds(m, w, n2, s),
           Known(table, "cross_entropy", <<n1, n2>>, <<"t", "vocab">>, <<r1, r2>>),
           y \in DOMAIN m, z \in DOMAIN m, y # z
    PROVE  WroteBoth(m, y, Value(r1, s), z, Value(r2, s),
                     Now(table, m, Dispatch("cross_entropy", <<"t", "vocab">>, NoSeq, <<x, w>>,
                     <<y, z>>)))
<1>1. Reads(m, x, n1, s) /\ Reads(m, w, n2, s) /\ m[x].seq = s
  BY HoldsReads, WeighsReads
<1>2. Given(m, <<x, w>>, <<n1, n2>>, s)
  BY ONLY <1>1, Given2
<1>3. "cross_entropy" \in Computing
  BY DEF Computing
<1> PICK reads, ins, dims : /\ reads = <<x, w>> /\ ins = <<n1, n2>>
                           /\ dims = <<"t", "vocab">>
  OBVIOUS
<1>4. WroteBoth(m, y, Value(r1, s), z, Value(r2, s),
                     Now(table, m, Dispatch("cross_entropy", dims, NoSeq, reads, <<y, z>>)))
  <2>1. Given(m, reads, ins, s) /\ Known(table, "cross_entropy", ins, dims, <<r1, r2>>)
    BY <1>2
  <2> QED
    BY ONLY <1>3, <2>1, s # NoSeq, y \in DOMAIN m, z \in DOMAIN m, y # z, ComputesBoth
<1> QED
  BY <1>4

\* The scores' gradient.
LEMMA attention_dscoreTurn ==
    ASSUME NEW table, NEW m, NEW s, s # NoSeq, NEW x, NEW w, NEW u, NEW y,
           NEW n1, NEW n2, NEW n3, NEW r1,
           Holds(m, x, n1, s), Holds(m, w, n2, s), Holds(m, u, n3, s),
           Known(table, "attention_dscore", <<n1, n2, n3>>, <<"t", "band">>, <<r1>>),
           y \in DOMAIN m
    PROVE  Wrote(m, y, Value(r1, s), Now(table, m, Dispatch("attention_dscore", <<"t", "band">>,
           NoSeq, <<x, w, u>>, <<y>>)))
<1>1. Reads(m, x, n1, s) /\ Reads(m, w, n2, s) /\ Reads(m, u, n3, s) /\ m[x].seq = s
  BY HoldsReads, WeighsReads
<1>2. Given(m, <<x, w, u>>, <<n1, n2, n3>>, s)
  BY ONLY <1>1, Given3
<1>3. "attention_dscore" \in Computing
  BY DEF Computing
<1> PICK reads, ins, dims : /\ reads = <<x, w, u>> /\ ins = <<n1, n2, n3>>
                           /\ dims = <<"t", "band">>
  OBVIOUS
<1>4. Wrote(m, y, Value(r1, s), Now(table, m, Dispatch("attention_dscore", dims, NoSeq, reads,
<<y>>)))
  <2>1. Given(m, reads, ins, s) /\ Known(table, "attention_dscore", ins, dims, <<r1>>)
    BY <1>2
  <2> QED
    BY ONLY <1>3, <2>1, s # NoSeq, y \in DOMAIN m, Computes
<1> QED
  BY <1>4

\* The queries' gradient.
LEMMA attention_dqTurn ==
    ASSUME NEW table, NEW m, NEW s, s # NoSeq, NEW x, NEW w, NEW y,
           NEW n1, NEW n2, NEW r1,
           Holds(m, x, n1, s), Holds(m, w, n2, s),
           Known(table, "attention_dq", <<n1, n2>>, <<"t", "band">>, <<r1>>), y \in DOMAIN m
    PROVE  Wrote(m, y, Value(r1, s), Now(table, m, Dispatch("attention_dq", <<"t", "band">>,
           NoSeq, <<x, w>>, <<y>>)))
<1>1. Reads(m, x, n1, s) /\ Reads(m, w, n2, s) /\ m[x].seq = s
  BY HoldsReads, WeighsReads
<1>2. Given(m, <<x, w>>, <<n1, n2>>, s)
  BY ONLY <1>1, Given2
<1>3. "attention_dq" \in Computing
  BY DEF Computing
<1> PICK reads, ins, dims : /\ reads = <<x, w>> /\ ins = <<n1, n2>>
                           /\ dims = <<"t", "band">>
  OBVIOUS
<1>4. Wrote(m, y, Value(r1, s), Now(table, m, Dispatch("attention_dq", dims, NoSeq, reads,
<<y>>)))
  <2>1. Given(m, reads, ins, s) /\ Known(table, "attention_dq", ins, dims, <<r1>>)
    BY <1>2
  <2> QED
    BY ONLY <1>3, <2>1, s # NoSeq, y \in DOMAIN m, Computes
<1> QED
  BY <1>4

\* The keys' and values' gradients.
LEMMA attention_dkdvTurn ==
    ASSUME NEW table, NEW m, NEW s, s # NoSeq, NEW x, NEW w, NEW u, NEW t, NEW y, NEW z,
           NEW n1, NEW n2, NEW n3, NEW n4, NEW r1, NEW r2,
           Holds(m, x, n1, s), Holds(m, w, n2, s), Holds(m, u, n3, s), Holds(m, t, n4, s),
           Known(table, "attention_dkdv", <<n1, n2, n3, n4>>, <<"t", "band">>, <<r1, r2>>),
           y \in DOMAIN m, z \in DOMAIN m, y # z
    PROVE  WroteBoth(m, y, Value(r1, s), z, Value(r2, s),
                     Now(table, m, Dispatch("attention_dkdv", <<"t", "band">>, NoSeq, <<x, w, u,
                     t>>, <<y, z>>)))
<1>1. Reads(m, x, n1, s) /\ Reads(m, w, n2, s) /\ Reads(m, u, n3, s) /\ Reads(m, t, n4,
s) /\ m[x].seq = s
  BY HoldsReads, WeighsReads
<1>2. Given(m, <<x, w, u, t>>, <<n1, n2, n3, n4>>, s)
  BY ONLY <1>1, Given4
<1>3. "attention_dkdv" \in Computing
  BY DEF Computing
<1> PICK reads, ins, dims : /\ reads = <<x, w, u, t>> /\ ins = <<n1, n2, n3, n4>>
                           /\ dims = <<"t", "band">>
  OBVIOUS
<1>4. WroteBoth(m, y, Value(r1, s), z, Value(r2, s),
                     Now(table, m, Dispatch("attention_dkdv", dims, NoSeq, reads, <<y, z>>)))
  <2>1. Given(m, reads, ins, s) /\ Known(table, "attention_dkdv", ins, dims, <<r1, r2>>)
    BY <1>2
  <2> QED
    BY ONLY <1>3, <2>1, s # NoSeq, y \in DOMAIN m, z \in DOMAIN m, y # z, ComputesBoth
<1> QED
  BY <1>4

-----------------------------------------------------------------------------
(* Where each tensor has its slot.                                         *)

\* The place of a tensor among those of its layer.
LEMMA LayerOfIs ==
    ASSUME NEW set, NEW l
    PROVE  /\ LayerOf(set, l, "attn_norm_gain") = InSet(set, 1 + (l - 1) * 9 + 1)
           /\ LayerOf(set, l, "wq") = InSet(set, 1 + (l - 1) * 9 + 2)
           /\ LayerOf(set, l, "wk") = InSet(set, 1 + (l - 1) * 9 + 3)
           /\ LayerOf(set, l, "wv") = InSet(set, 1 + (l - 1) * 9 + 4)
           /\ LayerOf(set, l, "wo") = InSet(set, 1 + (l - 1) * 9 + 5)
           /\ LayerOf(set, l, "mlp_norm_gain") = InSet(set, 1 + (l - 1) * 9 + 6)
           /\ LayerOf(set, l, "w_gate") = InSet(set, 1 + (l - 1) * 9 + 7)
           /\ LayerOf(set, l, "w_up") = InSet(set, 1 + (l - 1) * 9 + 8)
           /\ LayerOf(set, l, "w_down") = InSet(set, 1 + (l - 1) * 9 + 9)
<1> DEFINE P(which) == CHOOSE t \in 1 .. 9 : LayerTensors[t] = which
<1>1. /\ LayerTensors[1] = "attn_norm_gain" /\ LayerTensors[2] = "wq" /\ LayerTensors[3] = "wk"
      /\ LayerTensors[4] = "wv" /\ LayerTensors[5] = "wo" /\ LayerTensors[6] = "mlp_norm_gain"
      /\ LayerTensors[7] = "w_gate" /\ LayerTensors[8] = "w_up" /\ LayerTensors[9] = "w_down"
      /\ TENSORS_PER_LAYER = 9
  BY DEF LayerTensors, TENSORS_PER_LAYER
<1>2. ASSUME NEW t \in 1 .. 9 PROVE P(LayerTensors[t]) = t
  <2> PICK u : u = P(LayerTensors[t])
    OBVIOUS
  <2>1. u \in 1 .. 9 /\ LayerTensors[u] = LayerTensors[t]
    OBVIOUS
  <2>2. \A i, j \in 1 .. 9 : LayerTensors[i] = LayerTensors[j] => i = j
    <3>1. \A i \in 1 .. 9 : i = 1 \/ i = 2 \/ i = 3 \/ i = 4 \/ i = 5 \/ i = 6 \/ i = 7 \/ i = 8 \/ i = 9
      OBVIOUS
    <3> QED
      BY ONLY <1>1, <3>1
  <2> QED
    BY <2>1, <2>2
<1>3. \A which : LayerOf(set, l, which) = InSet(set, 1 + (l - 1) * 9 + P(which))
  BY <1>1 DEF LayerOf
<1>4. \A t \in 1 .. 9 : LayerOf(set, l, LayerTensors[t]) = InSet(set, 1 + (l - 1) * 9 + t)
  BY <1>2, <1>3
<1> HIDE DEF P
<1>5. /\ 1 \in 1 .. 9 /\ 2 \in 1 .. 9 /\ 3 \in 1 .. 9 /\ 4 \in 1 .. 9 /\ 5 \in 1 .. 9
      /\ 6 \in 1 .. 9 /\ 7 \in 1 .. 9 /\ 8 \in 1 .. 9 /\ 9 \in 1 .. 9
  OBVIOUS
<1> QED
  BY <1>1, <1>4, <1>5

\* The tensors of all layers, one layer's after another's.
LEMMA ShapesAre ==
    /\ Layers \in Nat /\ Len(shapes) = 2 + Layers * 9 /\ Slots = 1 .. 2 + Layers * 9
    /\ shapes[1] = Top("embed") /\ shapes[2 + Layers * 9] = Top("final_norm_gain")
    /\ \A l \in 1 .. Layers, t \in 1 .. 9 :
          /\ 1 + (l - 1) * 9 + t \in 2 .. 1 + Layers * 9
          /\ shapes[1 + (l - 1) * 9 + t] = <<LayerTensors[t], l>>
<1>ss. PICK ss : ss = [l \in 1 .. Layers |->
                      [t \in 1 .. TENSORS_PER_LAYER |-> <<LayerTensors[t], l>>]]
  OBVIOUS
<1>1. Layers \in Nat /\ TENSORS_PER_LAYER = 9
  BY LayersAssumption DEF TENSORS_PER_LAYER, LayerTensors
<1>2. ASSUME NEW l \in 1 .. Layers
      PROVE  /\ IsSeq(ss[l]) /\ Len(ss[l]) = 9
             /\ \A t \in 1 .. 9 : ss[l][t] = <<LayerTensors[t], l>>
  <2> PICK s : s = ss[l]
    OBVIOUS
  <2>1. s = [t \in 1 .. 9 |-> <<LayerTensors[t], l>>]
    BY <1>1, <1>ss
  <2>2. DOMAIN s = 1 .. 9 /\ s = [t \in 1 .. 9 |-> s[t]] /\ 9 \in Nat
    BY <2>1
  <2>3. IsSeq(s) /\ Len(s) = 9
    BY ONLY <2>2, SeqMade
  <2> QED
    BY <2>1, <2>3
<1>3. PICK f : /\ f[0] = << >> /\ f[Layers] = FlattenSeq(ss)
               /\ \A k \in 0 .. Layers : IsSeq(f[k])
               /\ \A k \in 1 .. Layers : f[k] = f[k - 1] \o ss[k]
  <2>1. DOMAIN ss = 1 .. Layers /\ ss = [l \in 1 .. Layers |-> ss[l]]
    BY <1>ss
  <2> QED
    BY ONLY <1>1, <1>2, <2>1, FlatIs, ZenonT(60)
<1> DEFINE Fine(k) == /\ Len(f[k]) = k * 9
                      /\ \A l \in 1 .. k, t \in 1 .. 9 :
                            f[k][(l - 1) * 9 + t] = <<LayerTensors[t], l>>
           Q == {k \in 0 .. Layers : Fine(k)}
<1>4. 0 \in Q
  BY <1>1, <1>3
<1>5. ASSUME NEW k \in 0 .. Layers - 1, k \in Q PROVE k + 1 \in Q
  <2> PICK i : i = k + 1
    OBVIOUS
  <2>1. i \in 1 .. Layers /\ i \in 0 .. Layers /\ i - 1 = k /\ k \in 0 .. Layers /\ k \in Nat
    BY <1>1
  <2>p. PICK s, t : s = f[k] /\ t = ss[i]
    OBVIOUS
  <2>q. PICK n, w : n = k * 9 /\ w = 9
    OBVIOUS
  <2>a. n \in Nat /\ w \in Nat
    BY <2>1, <2>q
  <2>b. IsSeq(s) /\ Len(s) = n
    BY <1>3, <1>5, <2>1, <2>p, <2>q
  <2>c. IsSeq(t) /\ Len(t) = w
    BY <1>2, <2>1, <2>p, <2>q
  <2>d. f[i] = s \o t
    BY <1>3, <2>1, <2>p
  <2>e. /\ Len(s \o t) = n + w /\ \A j \in 1 .. n : (s \o t)[j] = s[j]
        /\ \A j \in n + 1 .. n + w : (s \o t)[j] = t[j - n]
    BY ONLY <2>a, <2>b, <2>c, ConcatAt
  <2>2. n \in Nat /\ f[i] = s \o t
    BY <2>a, <2>d
  <2>3. /\ Len(f[i]) = n + 9 /\ \A j \in 1 .. n : f[i][j] = s[j]
        /\ \A j \in n + 1 .. n + 9 : f[i][j] = t[j - n]
    BY <2>d, <2>e, <2>q
  <2>4. Len(f[i]) = i * 9
    BY <2>1, <2>2, <2>3, <2>q
  <2>5. ASSUME NEW l \in 1 .. i, NEW u \in 1 .. 9
        PROVE  f[i][(l - 1) * 9 + u] = <<LayerTensors[u], l>>
    <3> PICK j : j = (l - 1) * 9 + u
      OBVIOUS
    <3>1. CASE l = i
      <4>1. j = n + u /\ j \in n + 1 .. n + 9 /\ j - n = u
        BY <2>1, <2>2, <2>q, <3>1
      <4>2. f[i][j] = t[u]
        BY <2>3, <4>1
      <4> QED
        BY <1>2, <2>1, <2>p, <3>1, <4>2
    <3>2. CASE l # i
      <4>1. l \in 1 .. k /\ j \in 1 .. n
        BY <2>1, <2>q, <3>2
      <4>2. f[i][j] = s[j]
        BY <2>3, <4>1
      <4>3. f[k][(l - 1) * 9 + u] = <<LayerTensors[u], l>>
        BY <1>5, <4>1
      <4> QED
        BY <2>p, <4>2, <4>3
    <3> QED
      BY <3>1, <3>2
  <2> QED
    BY <2>1, <2>4, <2>5
<1>6. /\ Len(f[Layers]) = Layers * 9
      /\ \A l \in 1 .. Layers, t \in 1 .. 9 : f[Layers][(l - 1) * 9 + t] = <<LayerTensors[t], l>>
  <2>1. 0 .. Layers \subseteq Q
    <3> HIDE DEF Q
    <3> QED
      BY <1>1, <1>4, <1>5, Climb
  <2>2. Layers \in 0 .. Layers
    BY <1>1
  <2>3. Fine(Layers)
    BY ONLY <2>1, <2>2
  <2> QED
    BY <2>3
<1> HIDE DEF Q, Fine
<1>p. PICK e, g, z : e = <<Top("embed")>> /\ g = FlattenSeq(ss) /\ z = <<Top("final_norm_gain")>>
  OBVIOUS
<1>q. PICK n, u : u = 1 /\ n = Layers * 9
  OBVIOUS
<1>a. n \in Nat /\ u \in Nat
  BY <1>1, <1>q
<1>b. IsSeq(e) /\ Len(e) = u /\ e[1] = Top("embed")
  BY <1>p, <1>q, OneIs
<1>c. IsSeq(z) /\ Len(z) = u /\ z[1] = Top("final_norm_gain")
  BY <1>p, <1>q, OneIs
<1>d. IsSeq(g) /\ Len(g) = n
  <2>1. Layers \in 0 .. Layers
    BY <1>1
  <2> QED
    BY <1>3, <1>6, <1>p, <1>q, <2>1
<1>7. n \in Nat /\ u = 1 /\ e[1] = Top("embed") /\ z[1] = Top("final_norm_gain")
  BY <1>a, <1>b, <1>c, <1>q
<1>8. /\ IsSeq(e \o g) /\ Len(e \o g) = u + n /\ \A i \in 1 .. u : (e \o g)[i] = e[i]
      /\ \A i \in u + 1 .. u + n : (e \o g)[i] = g[i - u]
  BY ONLY <1>a, <1>b, <1>d, ConcatAt
<1>r. PICK eg : eg = e \o g
  OBVIOUS
<1>s. PICK p : p = u + n
  OBVIOUS
<1>9. /\ Len(eg \o z) = p + u /\ \A i \in 1 .. p : (eg \o z)[i] = eg[i]
      /\ \A i \in p + 1 .. p + u : (eg \o z)[i] = z[i - p]
  <2>1. IsSeq(eg) /\ Len(eg) = p /\ p \in Nat
    BY <1>a, <1>8, <1>r, <1>s
  <2> QED
    BY ONLY <1>a, <1>c, <2>1, ConcatAt
<1>10. /\ Len(shapes) = p + u /\ \A i \in 1 .. p : shapes[i] = eg[i]
       /\ \A i \in p + 1 .. p + u : shapes[i] = z[i - p]
  <2>1. shapes = eg \o z
    BY <1>ss, <1>p, <1>r DEF shapes
  <2> QED
    BY <1>9, <2>1
<1>8a. \A i \in u + 1 .. u + n : eg[i] = g[i - u]
  BY <1>8, <1>r
<1>8b. eg[1] = Top("embed")
  <2>1. u \in 1 .. u /\ u = 1
    BY <1>7
  <2> QED
    BY <1>7, <1>8, <1>r, <2>1
<1>11. Len(shapes) = 2 + n
  BY <1>7, <1>10, <1>s
<1>12. shapes[1] = Top("embed")
  <2>1. 1 \in 1 .. p
    BY <1>7, <1>s
  <2> QED
    BY <1>8b, <1>10, <2>1
<1>13. shapes[2 + n] = Top("final_norm_gain")
  <2>p. PICK i : i = 2 + n
    OBVIOUS
  <2>1. i \in p + 1 .. p + u /\ i - p = 1
    BY <1>7, <1>s, <2>p
  <2> QED
    BY <1>7, <1>10, <2>p, <2>1
<1>14. ASSUME NEW l \in 1 .. Layers, NEW t \in 1 .. 9
       PROVE  /\ 1 + (l - 1) * 9 + t \in 2 .. 1 + n
              /\ shapes[1 + (l - 1) * 9 + t] = <<LayerTensors[t], l>>
  <2>p. PICK i, j : j = (l - 1) * 9 + t /\ i = 1 + (l - 1) * 9 + t
    OBVIOUS
  <2>1. i \in 2 .. 1 + n /\ i \in u + 1 .. u + n /\ i \in 1 .. p /\ i - u = j
    BY <1>1, <1>7, <1>q, <1>s, <2>p
  <2>2. shapes[i] = g[j]
    BY <1>8a, <1>10, <2>1
  <2>3. g[j] = <<LayerTensors[t], l>>
    BY <1>3, <1>6, <1>p, <2>p
  <2> QED
    BY <2>1, <2>2, <2>3, <2>p
<1> QED
  BY <1>1, <1>11, <1>12, <1>13, <1>14, <1>q DEF Slots

\* Each slot is the embedding's, a layer's or the last gain's.
LEMMA SlotsAre ==
    ASSUME NEW i \in Slots
    PROVE  \/ i = 1 \/ i = 2 + Layers * 9
           \/ \E l \in 1 .. Layers, t \in 1 .. 9 : i = 1 + (l - 1) * 9 + t
<1>1. Layers \in Nat /\ i \in 1 .. 2 + Layers * 9
  BY ShapesAre
<1>2. ASSUME i # 1, i # 2 + Layers * 9
      PROVE  \E l \in 1 .. Layers, t \in 1 .. 9 : i = 1 + (l - 1) * 9 + t
  <2> PICK j, q, r : j = i - 2 /\ q = j \div 9 /\ r = j % 9
    OBVIOUS
  <2>1. j \in Nat /\ j < Layers * 9
    BY <1>1, <1>2
  <2>2. q \in Nat /\ r \in 0 .. 8 /\ j = q * 9 + r
    BY <2>1
  <2> PICK l, t : l = q + 1 /\ t = r + 1
    OBVIOUS
  <2>3. l \in 1 .. Layers /\ t \in 1 .. 9 /\ i = 1 + (l - 1) * 9 + t
    BY ONLY <1>1, <2>1, <2>2, l = q + 1, t = r + 1, j = i - 2
  <2> QED
    BY <2>3
<1> QED
  BY <1>2

-----------------------------------------------------------------------------
(* What a pass leaves of memory, and what a trainer's memory always is.    *)

\* A command leaves what it does not write.
LEMMA NowLeaves ==
    ASSUME NEW results, NEW m, NEW c, NEW b, Passes(c, b)
    PROVE  /\ DOMAIN Now(results, m, c) = DOMAIN m
           /\ b \in DOMAIN m => Now(results, m, c)[b] = m[b]
<1>1. Records(c) /\ \A k \in 1 .. Len(c.writes) : c.writes[k] # b
  BY DEF Passes
<1>2. c.do = "copy" \/ c.do = "dispatch"
  BY <1>1 DEF Records
<1>3. PICK p : Now(results, m, c) = Execute(results, p, m, c)
  BY <1>2 DEF Now
<1> QED
  BY <1>1, <1>3, ExecuteLeaves

\* So does a sequence of them.
LEMMA TurnsKeep ==
    ASSUME NEW results, NEW a, NEW s, NEW c, NEW b, Passing(s, b), Turns(results, a, s, c)
    PROVE  DOMAIN c = DOMAIN a /\ (b \in DOMAIN a => c[b] = a[b])
<1>1. PICK m : /\ m[0] = a /\ m[Len(s)] = c
               /\ \A i \in 1 .. Len(s) : m[i] = Now(results, m[i - 1], s[i])
  BY DEF Turns
<1>2. Len(s) \in Nat /\ \A i \in 1 .. Len(s) : Passes(s[i], b)
  BY SeqIs DEF Passing
<1> DEFINE Same(k) == DOMAIN m[k] = DOMAIN a /\ (b \in DOMAIN a => m[k][b] = a[b])
           Q == {k \in 0 .. Len(s) : Same(k)}
<1>3. 0 \in Q
  BY <1>1, <1>2
<1>4. ASSUME NEW k \in 0 .. Len(s) - 1, k \in Q PROVE k + 1 \in Q
  <2>p. PICK i : i = k + 1
    OBVIOUS
  <2>1. i \in 1 .. Len(s) /\ i - 1 = k /\ i \in 0 .. Len(s)
    BY <1>2, <2>p
  <2>2. m[i] = Now(results, m[k], s[i]) /\ Passes(s[i], b)
    BY <1>1, <1>2, <2>1
  <2>3. Same(k)
    BY <1>4
  <2>4. /\ DOMAIN Now(results, m[k], s[i]) = DOMAIN m[k]
        /\ b \in DOMAIN m[k] => Now(results, m[k], s[i])[b] = m[k][b]
    BY ONLY <2>2, NowLeaves
  <2>5. Same(i)
    BY <2>2, <2>3, <2>4
  <2> QED
    BY <2>1, <2>5, <2>p
<1>5. Same(Len(s))
  <2>1. 0 .. Len(s) \subseteq Q
    <3> HIDE DEF Q
    <3> QED
      BY <1>2, <1>3, <1>4, Climb
  <2>2. Len(s) \in 0 .. Len(s)
    BY <1>2
  <2> QED
    BY ONLY <2>1, <2>2
<1> QED
  BY <1>1, <1>5

RowNames == {"row_ids", "row_offsets", "row_positions"}

\* A trainer's memory, whatever it has computed: its buffers, the weights
\* of each tensor and the slots of the stats.
Trains(m) ==
    /\ \A name \in ActNames, l \in 1 .. Layers : Acts(name, l) \in DOMAIN m
    /\ \A name \in ScratchNames : Scratch(name) \in DOMAIN m
    /\ \A set \in {"weights", "grads", "m", "v"}, i \in Slots : InSet(set, i) \in DOMAIN m
    /\ \A i \in Slots : Weighs(m, InSet("weights", i), shapes[i])
    /\ \A name \in RowNames : Scratch(name) \in DOMAIN m /\ IsSeq(m[Scratch(name)])
    /\ Stats \in DOMAIN m /\ DOMAIN m[Stats] = 0 .. StatsLen - 1

\* What these are about.
Lasting(b) == \/ \E i \in Slots : b = InSet("weights", i)
              \/ \E name \in RowNames : b = Scratch(name)
              \/ b = Stats

\* It stays so where they stay.
LEMMA TrainsOn ==
    ASSUME NEW m, NEW n, Trains(m), DOMAIN n = DOMAIN m,
           \A b \in DOMAIN m : Lasting(b) => n[b] = m[b]
    PROVE  Trains(n)
<1>1. \A i \in Slots : n[InSet("weights", i)] = m[InSet("weights", i)]
  BY DEF Trains, Lasting
<1>2. \A name \in RowNames : n[Scratch(name)] = m[Scratch(name)]
  BY DEF Trains, Lasting
<1>3. n[Stats] = m[Stats]
  BY DEF Trains, Lasting
<1> QED
  BY <1>1, <1>2, <1>3 DEF Trains, Weighs

\* The tensors of a layer.
LEMMA LayerWeighs ==
    ASSUME NEW m, Trains(m), NEW l \in 1 .. Layers
    PROVE  /\ Weighs(m, LayerOf("weights", l, "attn_norm_gain"), <<"attn_norm_gain", l>>)
           /\ Weighs(m, LayerOf("weights", l, "wq"), <<"wq", l>>)
           /\ Weighs(m, LayerOf("weights", l, "wk"), <<"wk", l>>)
           /\ Weighs(m, LayerOf("weights", l, "wv"), <<"wv", l>>)
           /\ Weighs(m, LayerOf("weights", l, "wo"), <<"wo", l>>)
           /\ Weighs(m, LayerOf("weights", l, "mlp_norm_gain"), <<"mlp_norm_gain", l>>)
           /\ Weighs(m, LayerOf("weights", l, "w_gate"), <<"w_gate", l>>)
           /\ Weighs(m, LayerOf("weights", l, "w_up"), <<"w_up", l>>)
           /\ Weighs(m, LayerOf("weights", l, "w_down"), <<"w_down", l>>)
<1>p. PICK k : k = 1 + (l - 1) * 9
  OBVIOUS
<1>1. \A t \in 1 .. 9 : Weighs(m, InSet("weights", k + t), <<LayerTensors[t], l>>)
  <2> TAKE t \in 1 .. 9
  <2>1. k + t \in Slots /\ shapes[k + t] = <<LayerTensors[t], l>>
    <3>1. Layers \in Nat /\ Slots = 1 .. 2 + Layers * 9
      BY ShapesAre
    <3>2. 1 + (l - 1) * 9 + t \in 2 .. 1 + Layers * 9 /\ shapes[1 + (l - 1) * 9 + t] = <<LayerTensors[t], l>>
      BY ShapesAre
    <3> QED
      BY <1>p, <3>1, <3>2
  <2> QED
    BY <2>1 DEF Trains
<1>2. /\ 1 \in 1 .. 9 /\ 2 \in 1 .. 9 /\ 3 \in 1 .. 9 /\ 4 \in 1 .. 9 /\ 5 \in 1 .. 9
      /\ 6 \in 1 .. 9 /\ 7 \in 1 .. 9 /\ 8 \in 1 .. 9 /\ 9 \in 1 .. 9
  OBVIOUS
<1>3. /\ LayerTensors[1] = "attn_norm_gain" /\ LayerTensors[2] = "wq" /\ LayerTensors[3] = "wk"
      /\ LayerTensors[4] = "wv" /\ LayerTensors[5] = "wo" /\ LayerTensors[6] = "mlp_norm_gain"
      /\ LayerTensors[7] = "w_gate" /\ LayerTensors[8] = "w_up" /\ LayerTensors[9] = "w_down"
  BY DEF LayerTensors
<1> QED
  BY <1>1, <1>2, <1>3, <1>p, LayerOfIs

\* Their slots in a set, told apart.
LEMMA LayerSlots ==
    ASSUME NEW set, NEW l \in 1 .. Layers
    PROVE  \E k \in Nat :
              /\ k + 1 \in Slots /\ LayerOf(set, l, "attn_norm_gain") = InSet(set, k + 1)
              /\ k + 2 \in Slots /\ LayerOf(set, l, "wq") = InSet(set, k + 2)
              /\ k + 3 \in Slots /\ LayerOf(set, l, "wk") = InSet(set, k + 3)
              /\ k + 4 \in Slots /\ LayerOf(set, l, "wv") = InSet(set, k + 4)
              /\ k + 5 \in Slots /\ LayerOf(set, l, "wo") = InSet(set, k + 5)
              /\ k + 6 \in Slots /\ LayerOf(set, l, "mlp_norm_gain") = InSet(set, k + 6)
              /\ k + 7 \in Slots /\ LayerOf(set, l, "w_gate") = InSet(set, k + 7)
              /\ k + 8 \in Slots /\ LayerOf(set, l, "w_up") = InSet(set, k + 8)
              /\ k + 9 \in Slots /\ LayerOf(set, l, "w_down") = InSet(set, k + 9)
<1>p. PICK k : k = 1 + (l - 1) * 9
  OBVIOUS
<1>1. Layers \in Nat /\ Slots = 1 .. 2 + Layers * 9
  BY ShapesAre
<1>2. k \in Nat /\ \A t \in 1 .. 9 : k + t \in Slots
  BY <1>1, <1>p
<1>3. /\ 1 \in 1 .. 9 /\ 2 \in 1 .. 9 /\ 3 \in 1 .. 9 /\ 4 \in 1 .. 9 /\ 5 \in 1 .. 9
      /\ 6 \in 1 .. 9 /\ 7 \in 1 .. 9 /\ 8 \in 1 .. 9 /\ 9 \in 1 .. 9
  OBVIOUS
<1>4. /\ k + 1 \in Slots /\ LayerOf(set, l, "attn_norm_gain") = InSet(set, k + 1)
      /\ k + 2 \in Slots /\ LayerOf(set, l, "wq") = InSet(set, k + 2)
      /\ k + 3 \in Slots /\ LayerOf(set, l, "wk") = InSet(set, k + 3)
      /\ k + 4 \in Slots /\ LayerOf(set, l, "wv") = InSet(set, k + 4)
      /\ k + 5 \in Slots /\ LayerOf(set, l, "wo") = InSet(set, k + 5)
      /\ k + 6 \in Slots /\ LayerOf(set, l, "mlp_norm_gain") = InSet(set, k + 6)
      /\ k + 7 \in Slots /\ LayerOf(set, l, "w_gate") = InSet(set, k + 7)
      /\ k + 8 \in Slots /\ LayerOf(set, l, "w_up") = InSet(set, k + 8)
      /\ k + 9 \in Slots /\ LayerOf(set, l, "w_down") = InSet(set, k + 9)
  BY <1>2, <1>3, <1>p, LayerOfIs
<1> QED
  BY ONLY <1>2, <1>4

\* The tensors outside the layers.
LEMMA TopWeighs ==
    ASSUME NEW m, Trains(m)
    PROVE  /\ Weighs(m, EmbedOf("weights"), Top("embed"))
           /\ Weighs(m, FinalGainOf("weights"), Top("final_norm_gain"))
           /\ \A set : EmbedOf(set) = InSet(set, 1) /\ FinalGainOf(set) = InSet(set, 2 + Layers * 9)
           /\ 1 \in Slots /\ 2 + Layers * 9 \in Slots
<1>1. /\ Layers \in Nat /\ Slots = 1 .. 2 + Layers * 9
      /\ shapes[1] = Top("embed") /\ shapes[2 + Layers * 9] = Top("final_norm_gain")
  BY ShapesAre
<1>2. 1 \in Slots /\ 2 + Layers * 9 \in Slots
  BY <1>1
<1>3. \A set : EmbedOf(set) = InSet(set, 1) /\ FinalGainOf(set) = InSet(set, 2 + Layers * 9)
  BY DEF EmbedOf, FinalGainOf, TENSORS_PER_LAYER, LayerTensors
<1>4. /\ Weighs(m, InSet("weights", 1), Top("embed"))
      /\ Weighs(m, InSet("weights", 2 + Layers * 9), Top("final_norm_gain"))
  BY <1>1, <1>2 DEF Trains
<1> QED
  BY <1>2, <1>3, <1>4

-----------------------------------------------------------------------------
(* The forward pass, layer by layer.                                       *)

\* What a layer of the forward pass leaves for the backward pass.
Activated(m, l, s) == \A name \in ActNames : Holds(m, Acts(name, l), <<name, l>>, s)

\* What the host's layer returns of a whole sequence.
LEMMA LayerKnown ==
    ASSUME NEW table, table = Results[FALSE], NEW l \in 1 .. Layers
    PROVE  /\ Known(table, "rmsnorm", <<<<"h_in", l>>, <<"attn_norm_gain", l>>>>, <<"t",
                    "h">>, <<<<"normed1", l>>, <<"inv_rms1", l>>>>)
           /\ Known(table, "linear", <<<<"normed1", l>>, <<"wq", l>>>>, <<"t", "h", "h">>,
                    <<<<"q_raw", l>>>>)
           /\ Known(table, "linear", <<<<"normed1", l>>, <<"wk", l>>>>, <<"t", "h", "kv">>,
                    <<<<"k_raw", l>>>>)
           /\ Known(table, "linear", <<<<"normed1", l>>, <<"wv", l>>>>, <<"t", "h", "kv">>,
                    <<<<"v", l>>>>)
           /\ Known(table, "rope", <<<<"q_raw", l>>>>, <<"t", "heads", "fwd">>, <<<<"q",
                    l>>>>)
           /\ Known(table, "rope", <<<<"k_raw", l>>>>, <<"t", "kv_heads", "fwd">>, <<<<"k",
                    l>>>>)
           /\ Known(table, "attention_fwd", <<<<"q", l>>, <<"k", l>>, <<"v", l>>>>, <<"t",
                    "band">>, <<<<"concat", l>>, <<"probs", l>>>>)
           /\ Known(table, "linear", <<<<"concat", l>>, <<"wo", l>>>>, <<"t", "h", "h">>,
                    <<<<"attn_out", l>>>>)
           /\ Known(table, "add", <<<<"h_in", l>>, <<"attn_out", l>>>>, <<"t", "h">>,
                    <<<<"h_after_attn", l>>>>)
           /\ Known(table, "rmsnorm", <<<<"h_after_attn", l>>, <<"mlp_norm_gain", l>>>>,
                    <<"t", "h">>, <<<<"normed2", l>>, <<"inv_rms2", l>>>>)
           /\ Known(table, "linear", <<<<"normed2", l>>, <<"w_gate", l>>>>, <<"t", "h",
                    "ffn">>, <<<<"gate", l>>>>)
           /\ Known(table, "linear", <<<<"normed2", l>>, <<"w_up", l>>>>, <<"t", "h",
                    "ffn">>, <<<<"up", l>>>>)
           /\ Known(table, "swiglu", <<<<"gate", l>>, <<"up", l>>>>, <<"t", "ffn">>,
                    <<<<"act", l>>>>)
           /\ Known(table, "linear", <<<<"act", l>>, <<"w_down", l>>>>, <<"t", "ffn", "h">>,
                    <<<<"mlp_out", l>>>>)
           /\ Known(table, "add", <<<<"h_after_attn", l>>, <<"mlp_out", l>>>>, <<"t", "h">>,
                    <<StreamOut(l, FALSE)>>)
<1>p. PICK ple, rows : ple = FALSE /\ rows = "t"
  OBVIOUS
<1>1. ple \in BOOLEAN /\ (rows = "1" \/ (rows = "t" /\ ~ ple))
  BY <1>p
<1> QED
  BY <1>1, <1>p, LayerForwardKnown

\* A layer computes what the host's does, of the sequence its input is of.
LEMMA ForwardLayerTurn ==
    ASSUME NEW table, table = Results[FALSE], NEW m, Trains(m), NEW s, s # NoSeq,
           NEW l \in 1 .. Layers, Holds(m, Scratch("hidden"), <<"h_in", l>>, s),
           NEW n, Turns(table, m, ForwardLayer(l), n)
    PROVE  Activated(n, l, s) /\ Holds(n, Scratch("hidden"), StreamOut(l, FALSE), s)
<1>h. s # NoSeq
  OBVIOUS
<1>t. table = Results[FALSE]
  OBVIOUS
<1>b. PICK b_hidden, b_tmp_h, b_act, a_h_in, a_normed1, a_inv_rms1, a_q, a_k, a_v, a_probs,
      a_concat, a_h_after_attn, a_normed2, a_inv_rms2, a_gate, a_up, w_attn_norm_gain, w_wq, w_wk,
      w_wv, w_wo, w_mlp_norm_gain, w_w_gate, w_w_up, w_w_down :
        /\ b_hidden = Scratch("hidden")
        /\ b_tmp_h = Scratch("tmp_h")
        /\ b_act = Scratch("act")
        /\ a_h_in = Acts("h_in", l)
        /\ a_normed1 = Acts("normed1", l)
        /\ a_inv_rms1 = Acts("inv_rms1", l)
        /\ a_q = Acts("q", l)
        /\ a_k = Acts("k", l)
        /\ a_v = Acts("v", l)
        /\ a_probs = Acts("probs", l)
        /\ a_concat = Acts("concat", l)
        /\ a_h_after_attn = Acts("h_after_attn", l)
        /\ a_normed2 = Acts("normed2", l)
        /\ a_inv_rms2 = Acts("inv_rms2", l)
        /\ a_gate = Acts("gate", l)
        /\ a_up = Acts("up", l)
        /\ w_attn_norm_gain = LayerOf("weights", l, "attn_norm_gain")
        /\ w_wq = LayerOf("weights", l, "wq")
        /\ w_wk = LayerOf("weights", l, "wk")
        /\ w_wv = LayerOf("weights", l, "wv")
        /\ w_wo = LayerOf("weights", l, "wo")
        /\ w_mlp_norm_gain = LayerOf("weights", l, "mlp_norm_gain")
        /\ w_w_gate = LayerOf("weights", l, "w_gate")
        /\ w_w_up = LayerOf("weights", l, "w_up")
        /\ w_w_down = LayerOf("weights", l, "w_down")
  OBVIOUS
<1>v. PICK n_h_in, n_normed1, n_inv_rms1, n_q, n_k, n_v, n_probs, n_concat, n_h_after_attn,
      n_normed2, n_inv_rms2, n_gate, n_up, n_q_raw, n_k_raw, n_attn_out, n_act, n_mlp_out,
      n_attn_norm_gain, n_wq, n_wk, n_wv, n_wo, n_mlp_norm_gain, n_w_gate, n_w_up, n_w_down, n_out :
        /\ n_h_in = <<"h_in", l>>
        /\ n_normed1 = <<"normed1", l>>
        /\ n_inv_rms1 = <<"inv_rms1", l>>
        /\ n_q = <<"q", l>>
        /\ n_k = <<"k", l>>
        /\ n_v = <<"v", l>>
        /\ n_probs = <<"probs", l>>
        /\ n_concat = <<"concat", l>>
        /\ n_h_after_attn = <<"h_after_attn", l>>
        /\ n_normed2 = <<"normed2", l>>
        /\ n_inv_rms2 = <<"inv_rms2", l>>
        /\ n_gate = <<"gate", l>>
        /\ n_up = <<"up", l>>
        /\ n_q_raw = <<"q_raw", l>>
        /\ n_k_raw = <<"k_raw", l>>
        /\ n_attn_out = <<"attn_out", l>>
        /\ n_act = <<"act", l>>
        /\ n_mlp_out = <<"mlp_out", l>>
        /\ n_attn_norm_gain = <<"attn_norm_gain", l>>
        /\ n_wq = <<"wq", l>>
        /\ n_wk = <<"wk", l>>
        /\ n_wv = <<"wv", l>>
        /\ n_wo = <<"wo", l>>
        /\ n_mlp_norm_gain = <<"mlp_norm_gain", l>>
        /\ n_w_gate = <<"w_gate", l>>
        /\ n_w_up = <<"w_up", l>>
        /\ n_w_down = <<"w_down", l>>
        /\ n_out = StreamOut(l, FALSE)
  OBVIOUS
<1>c. /\ b_hidden[1] = "hidden"
      /\ b_tmp_h[1] = "tmp_h"
      /\ b_act[1] = "act"
      /\ a_h_in[1] = "h_in"
      /\ a_normed1[1] = "normed1"
      /\ a_inv_rms1[1] = "inv_rms1"
      /\ a_q[1] = "q"
      /\ a_k[1] = "k"
      /\ a_v[1] = "v"
      /\ a_probs[1] = "probs"
      /\ a_concat[1] = "concat"
      /\ a_h_after_attn[1] = "h_after_attn"
      /\ a_normed2[1] = "normed2"
      /\ a_inv_rms2[1] = "inv_rms2"
      /\ a_gate[1] = "gate"
      /\ a_up[1] = "up"
      /\ w_attn_norm_gain[1] = "weights"
      /\ w_wq[1] = "weights"
      /\ w_wk[1] = "weights"
      /\ w_wv[1] = "weights"
      /\ w_wo[1] = "weights"
      /\ w_mlp_norm_gain[1] = "weights"
      /\ w_w_gate[1] = "weights"
      /\ w_w_up[1] = "weights"
      /\ w_w_down[1] = "weights"
  BY <1>b, LayerIn DEF Scratch, Acts, Decoder, DecoderLayer, EmbedOf, FinalGainOf, InSet
<1>d. /\ b_hidden \in DOMAIN m
      /\ b_tmp_h \in DOMAIN m
      /\ b_act \in DOMAIN m
      /\ a_h_in \in DOMAIN m
      /\ a_normed1 \in DOMAIN m
      /\ a_inv_rms1 \in DOMAIN m
      /\ a_q \in DOMAIN m
      /\ a_k \in DOMAIN m
      /\ a_v \in DOMAIN m
      /\ a_probs \in DOMAIN m
      /\ a_concat \in DOMAIN m
      /\ a_h_after_attn \in DOMAIN m
      /\ a_normed2 \in DOMAIN m
      /\ a_inv_rms2 \in DOMAIN m
      /\ a_gate \in DOMAIN m
      /\ a_up \in DOMAIN m
      /\ w_attn_norm_gain \in DOMAIN m
      /\ w_wq \in DOMAIN m
      /\ w_wk \in DOMAIN m
      /\ w_wv \in DOMAIN m
      /\ w_wo \in DOMAIN m
      /\ w_mlp_norm_gain \in DOMAIN m
      /\ w_w_gate \in DOMAIN m
      /\ w_w_up \in DOMAIN m
      /\ w_w_down \in DOMAIN m
  <2>1. PICK k \in Nat :
          /\ k + 1 \in Slots /\ w_attn_norm_gain = InSet("weights", k + 1)
          /\ k + 2 \in Slots /\ w_wq = InSet("weights", k + 2)
          /\ k + 3 \in Slots /\ w_wk = InSet("weights", k + 3)
          /\ k + 4 \in Slots /\ w_wv = InSet("weights", k + 4)
          /\ k + 5 \in Slots /\ w_wo = InSet("weights", k + 5)
          /\ k + 6 \in Slots /\ w_mlp_norm_gain = InSet("weights", k + 6)
          /\ k + 7 \in Slots /\ w_w_gate = InSet("weights", k + 7)
          /\ k + 8 \in Slots /\ w_w_up = InSet("weights", k + 8)
          /\ k + 9 \in Slots /\ w_w_down = InSet("weights", k + 9)
    BY <1>b, LayerSlots
  <2>2. \A i \in Slots : InSet("weights", i) \in DOMAIN m
    BY DEF Trains
  <2> QED
    BY <1>b, <2>1, <2>2 DEF Trains, ActNames, ScratchNames
<1>s. PICK sq : sq = ForwardLayer(l)
  OBVIOUS
<1>q. /\ IsSeq(sq) /\ Len(sq) = 17
      /\ sq[1] = Copy(b_hidden, a_h_in)
      /\ sq[2] = dispatch_rmsnorm(b_hidden, w_attn_norm_gain, a_normed1, a_inv_rms1, "t")
      /\ sq[3] = dispatch_linear(a_normed1, w_wq, a_q, "t", "h", "h")
      /\ sq[4] = dispatch_linear(a_normed1, w_wk, a_k, "t", "h", "kv")
      /\ sq[5] = dispatch_linear(a_normed1, w_wv, a_v, "t", "h", "kv")
      /\ sq[6] = dispatch_rope(a_q, "t", "heads", NoSeq, "fwd")
      /\ sq[7] = dispatch_rope(a_k, "t", "kv_heads", NoSeq, "fwd")
      /\ sq[8] = dispatch_attention_fwd(a_q, a_k, a_v, a_concat, a_probs)
      /\ sq[9] = dispatch_linear(a_concat, w_wo, b_tmp_h, "t", "h", "h")
      /\ sq[10] = dispatch_add_inplace(b_hidden, b_tmp_h, "t")
      /\ sq[11] = Copy(b_hidden, a_h_after_attn)
      /\ sq[12] = dispatch_rmsnorm(b_hidden, w_mlp_norm_gain, a_normed2, a_inv_rms2, "t")
      /\ sq[13] = dispatch_linear(a_normed2, w_w_gate, a_gate, "t", "h", "ffn")
      /\ sq[14] = dispatch_linear(a_normed2, w_w_up, a_up, "t", "h", "ffn")
      /\ sq[15] = dispatch_swiglu(a_gate, a_up, b_act, "t")
      /\ sq[16] = dispatch_linear(b_act, w_w_down, b_tmp_h, "t", "ffn", "h")
      /\ sq[17] = dispatch_add_inplace(b_hidden, b_tmp_h, "t")
  BY <1>b, <1>s, ForwardLayerIs
<1>m. PICK mm : /\ mm[0] = m /\ mm[17] = n
                /\ \A i \in 1 .. 17 : mm[i] = Now(table, mm[i - 1], sq[i])
  BY <1>q, <1>s, ZenonT(60) DEF Turns
<1>w. PICK m0, m1, m2, m3, m4, m5, m6, m7, m8, m9, m10, m11, m12, m13, m14, m15, m16, m17 :
        m0 = mm[0] /\ m1 = mm[1] /\ m2 = mm[2] /\ m3 = mm[3] /\ m4 = mm[4] /\ m5 = mm[5] /\ m6 =
              mm[6] /\ m7 = mm[7] /\ m8 = mm[8] /\ m9 = mm[9] /\ m10 = mm[10] /\ m11 = mm[11] /\ m12
              = mm[12] /\ m13 = mm[13] /\ m14 = mm[14] /\ m15 = mm[15] /\ m16 = mm[16] /\ m17 =
              mm[17]
  OBVIOUS
<1>0. /\ m0 = m /\ DOMAIN m0 = DOMAIN m
      /\ Holds(m0, b_hidden, n_h_in, s)
      /\ Weighs(m0, w_attn_norm_gain, n_attn_norm_gain)
      /\ Weighs(m0, w_mlp_norm_gain, n_mlp_norm_gain)
      /\ Weighs(m0, w_w_down, n_w_down)
      /\ Weighs(m0, w_w_gate, n_w_gate)
      /\ Weighs(m0, w_w_up, n_w_up)
      /\ Weighs(m0, w_wk, n_wk)
      /\ Weighs(m0, w_wo, n_wo)
      /\ Weighs(m0, w_wq, n_wq)
      /\ Weighs(m0, w_wv, n_wv)
  BY <1>b, <1>v, <1>m, <1>w, LayerWeighs
<1>1n. m1 = Now(table, m0, Copy(b_hidden, a_h_in))
  <2>1. 1 \in 1 .. 17 /\ 1 - 1 = 0
    OBVIOUS
  <2> QED
    BY <1>m, <1>q, <1>w, <2>1
<1>1w. Wrote(m0, a_h_in, m0[b_hidden], m1)
  BY ONLY <1>0, <1>d, <1>1n, Copies
<1>1. /\ DOMAIN m1 = DOMAIN m
      /\ Holds(m1, a_h_in, n_h_in, s)
      /\ Holds(m1, b_hidden, n_h_in, s)
      /\ Weighs(m1, w_attn_norm_gain, n_attn_norm_gain)
      /\ Weighs(m1, w_mlp_norm_gain, n_mlp_norm_gain)
      /\ Weighs(m1, w_w_down, n_w_down)
      /\ Weighs(m1, w_w_gate, n_w_gate)
      /\ Weighs(m1, w_w_up, n_w_up)
      /\ Weighs(m1, w_wk, n_wk)
      /\ Weighs(m1, w_wo, n_wo)
      /\ Weighs(m1, w_wq, n_wq)
      /\ Weighs(m1, w_wv, n_wv)
  BY ONLY <1>c, <1>d, <1>0, <1>1w DEF Wrote, WroteBoth, Holds, Weighs
<1>2n. m2 = Now(table, m1, dispatch_rmsnorm(b_hidden, w_attn_norm_gain, a_normed1, a_inv_rms1, "t"))
  <2>1. 2 \in 1 .. 17 /\ 2 - 1 = 1
    OBVIOUS
  <2> QED
    BY <1>m, <1>q, <1>w, <2>1
<1>2w. WroteBoth(m1, a_normed1, Value(n_normed1, s), a_inv_rms1, Value(n_inv_rms1, s), m2)
  <2>1. Known(table, "rmsnorm", <<n_h_in, n_attn_norm_gain>>, <<"t", "h">>, <<n_normed1,
        n_inv_rms1>>)
    BY <1>v, <1>t, LayerKnown
  <2> QED
    BY ONLY <1>c, <1>d, <1>h, <1>1, <1>2n, <2>1, rmsnormTurn
<1>2. /\ DOMAIN m2 = DOMAIN m
      /\ Holds(m2, a_h_in, n_h_in, s)
      /\ Holds(m2, a_inv_rms1, n_inv_rms1, s)
      /\ Holds(m2, a_normed1, n_normed1, s)
      /\ Holds(m2, b_hidden, n_h_in, s)
      /\ Weighs(m2, w_mlp_norm_gain, n_mlp_norm_gain)
      /\ Weighs(m2, w_w_down, n_w_down)
      /\ Weighs(m2, w_w_gate, n_w_gate)
      /\ Weighs(m2, w_w_up, n_w_up)
      /\ Weighs(m2, w_wk, n_wk)
      /\ Weighs(m2, w_wo, n_wo)
      /\ Weighs(m2, w_wq, n_wq)
      /\ Weighs(m2, w_wv, n_wv)
  BY ONLY <1>c, <1>d, <1>1, <1>2w DEF Wrote, WroteBoth, Holds, Weighs
<1>3n. m3 = Now(table, m2, dispatch_linear(a_normed1, w_wq, a_q, "t", "h", "h"))
  <2>1. 3 \in 1 .. 17 /\ 3 - 1 = 2
    OBVIOUS
  <2> QED
    BY <1>m, <1>q, <1>w, <2>1
<1>3w. Wrote(m2, a_q, Value(n_q_raw, s), m3)
  <2>1. Known(table, "linear", <<n_normed1, n_wq>>, <<"t", "h", "h">>, <<n_q_raw>>)
    BY <1>v, <1>t, LayerKnown
  <2> QED
    BY ONLY <1>c, <1>d, <1>h, <1>2, <1>3n, <2>1, linearTurn
<1>3. /\ DOMAIN m3 = DOMAIN m
      /\ Holds(m3, a_h_in, n_h_in, s)
      /\ Holds(m3, a_inv_rms1, n_inv_rms1, s)
      /\ Holds(m3, a_normed1, n_normed1, s)
      /\ Holds(m3, a_q, n_q_raw, s)
      /\ Holds(m3, b_hidden, n_h_in, s)
      /\ Weighs(m3, w_mlp_norm_gain, n_mlp_norm_gain)
      /\ Weighs(m3, w_w_down, n_w_down)
      /\ Weighs(m3, w_w_gate, n_w_gate)
      /\ Weighs(m3, w_w_up, n_w_up)
      /\ Weighs(m3, w_wk, n_wk)
      /\ Weighs(m3, w_wo, n_wo)
      /\ Weighs(m3, w_wv, n_wv)
  BY ONLY <1>c, <1>d, <1>2, <1>3w DEF Wrote, WroteBoth, Holds, Weighs
<1>4n. m4 = Now(table, m3, dispatch_linear(a_normed1, w_wk, a_k, "t", "h", "kv"))
  <2>1. 4 \in 1 .. 17 /\ 4 - 1 = 3
    OBVIOUS
  <2> QED
    BY <1>m, <1>q, <1>w, <2>1
<1>4w. Wrote(m3, a_k, Value(n_k_raw, s), m4)
  <2>1. Known(table, "linear", <<n_normed1, n_wk>>, <<"t", "h", "kv">>, <<n_k_raw>>)
    BY <1>v, <1>t, LayerKnown
  <2> QED
    BY ONLY <1>c, <1>d, <1>h, <1>3, <1>4n, <2>1, linearTurn
<1>4. /\ DOMAIN m4 = DOMAIN m
      /\ Holds(m4, a_h_in, n_h_in, s)
      /\ Holds(m4, a_inv_rms1, n_inv_rms1, s)
      /\ Holds(m4, a_k, n_k_raw, s)
      /\ Holds(m4, a_normed1, n_normed1, s)
      /\ Holds(m4, a_q, n_q_raw, s)
      /\ Holds(m4, b_hidden, n_h_in, s)
      /\ Weighs(m4, w_mlp_norm_gain, n_mlp_norm_gain)
      /\ Weighs(m4, w_w_down, n_w_down)
      /\ Weighs(m4, w_w_gate, n_w_gate)
      /\ Weighs(m4, w_w_up, n_w_up)
      /\ Weighs(m4, w_wo, n_wo)
      /\ Weighs(m4, w_wv, n_wv)
  BY ONLY <1>c, <1>d, <1>3, <1>4w DEF Wrote, WroteBoth, Holds, Weighs
<1>5n. m5 = Now(table, m4, dispatch_linear(a_normed1, w_wv, a_v, "t", "h", "kv"))
  <2>1. 5 \in 1 .. 17 /\ 5 - 1 = 4
    OBVIOUS
  <2> QED
    BY <1>m, <1>q, <1>w, <2>1
<1>5w. Wrote(m4, a_v, Value(n_v, s), m5)
  <2>1. Known(table, "linear", <<n_normed1, n_wv>>, <<"t", "h", "kv">>, <<n_v>>)
    BY <1>v, <1>t, LayerKnown
  <2> QED
    BY ONLY <1>c, <1>d, <1>h, <1>4, <1>5n, <2>1, linearTurn
<1>5. /\ DOMAIN m5 = DOMAIN m
      /\ Holds(m5, a_h_in, n_h_in, s)
      /\ Holds(m5, a_inv_rms1, n_inv_rms1, s)
      /\ Holds(m5, a_k, n_k_raw, s)
      /\ Holds(m5, a_normed1, n_normed1, s)
      /\ Holds(m5, a_q, n_q_raw, s)
      /\ Holds(m5, a_v, n_v, s)
      /\ Holds(m5, b_hidden, n_h_in, s)
      /\ Weighs(m5, w_mlp_norm_gain, n_mlp_norm_gain)
      /\ Weighs(m5, w_w_down, n_w_down)
      /\ Weighs(m5, w_w_gate, n_w_gate)
      /\ Weighs(m5, w_w_up, n_w_up)
      /\ Weighs(m5, w_wo, n_wo)
  BY ONLY <1>c, <1>d, <1>4, <1>5w DEF Wrote, WroteBoth, Holds, Weighs
<1>6n. m6 = Now(table, m5, dispatch_rope(a_q, "t", "heads", NoSeq, "fwd"))
  <2>1. 6 \in 1 .. 17 /\ 6 - 1 = 5
    OBVIOUS
  <2> QED
    BY <1>m, <1>q, <1>w, <2>1
<1>6w. Wrote(m5, a_q, Value(n_q, s), m6)
  <2>1. Known(table, "rope", <<n_q_raw>>, <<"t", "heads", "fwd">>, <<n_q>>)
    BY <1>v, <1>t, LayerKnown
  <2> QED
    BY ONLY <1>c, <1>d, <1>h, <1>5, <1>6n, <2>1, ropeTurn
<1>6. /\ DOMAIN m6 = DOMAIN m
      /\ Holds(m6, a_h_in, n_h_in, s)
      /\ Holds(m6, a_inv_rms1, n_inv_rms1, s)
      /\ Holds(m6, a_k, n_k_raw, s)
      /\ Holds(m6, a_normed1, n_normed1, s)
      /\ Holds(m6, a_q, n_q, s)
      /\ Holds(m6, a_v, n_v, s)
      /\ Holds(m6, b_hidden, n_h_in, s)
      /\ Weighs(m6, w_mlp_norm_gain, n_mlp_norm_gain)
      /\ Weighs(m6, w_w_down, n_w_down)
      /\ Weighs(m6, w_w_gate, n_w_gate)
      /\ Weighs(m6, w_w_up, n_w_up)
      /\ Weighs(m6, w_wo, n_wo)
  BY ONLY <1>c, <1>d, <1>5, <1>6w DEF Wrote, WroteBoth, Holds, Weighs
<1>7n. m7 = Now(table, m6, dispatch_rope(a_k, "t", "kv_heads", NoSeq, "fwd"))
  <2>1. 7 \in 1 .. 17 /\ 7 - 1 = 6
    OBVIOUS
  <2> QED
    BY <1>m, <1>q, <1>w, <2>1
<1>7w. Wrote(m6, a_k, Value(n_k, s), m7)
  <2>1. Known(table, "rope", <<n_k_raw>>, <<"t", "kv_heads", "fwd">>, <<n_k>>)
    BY <1>v, <1>t, LayerKnown
  <2> QED
    BY ONLY <1>c, <1>d, <1>h, <1>6, <1>7n, <2>1, ropeTurn
<1>7. /\ DOMAIN m7 = DOMAIN m
      /\ Holds(m7, a_h_in, n_h_in, s)
      /\ Holds(m7, a_inv_rms1, n_inv_rms1, s)
      /\ Holds(m7, a_k, n_k, s)
      /\ Holds(m7, a_normed1, n_normed1, s)
      /\ Holds(m7, a_q, n_q, s)
      /\ Holds(m7, a_v, n_v, s)
      /\ Holds(m7, b_hidden, n_h_in, s)
      /\ Weighs(m7, w_mlp_norm_gain, n_mlp_norm_gain)
      /\ Weighs(m7, w_w_down, n_w_down)
      /\ Weighs(m7, w_w_gate, n_w_gate)
      /\ Weighs(m7, w_w_up, n_w_up)
      /\ Weighs(m7, w_wo, n_wo)
  BY ONLY <1>c, <1>d, <1>6, <1>7w DEF Wrote, WroteBoth, Holds, Weighs
<1>8n. m8 = Now(table, m7, dispatch_attention_fwd(a_q, a_k, a_v, a_concat, a_probs))
  <2>1. 8 \in 1 .. 17 /\ 8 - 1 = 7
    OBVIOUS
  <2> QED
    BY <1>m, <1>q, <1>w, <2>1
<1>8w. WroteBoth(m7, a_concat, Value(n_concat, s), a_probs, Value(n_probs, s), m8)
  <2>1. Known(table, "attention_fwd", <<n_q, n_k, n_v>>, <<"t", "band">>, <<n_concat, n_probs>>)
    BY <1>v, <1>t, LayerKnown
  <2> QED
    BY ONLY <1>c, <1>d, <1>h, <1>7, <1>8n, <2>1, attention_fwdTurn
<1>8. /\ DOMAIN m8 = DOMAIN m
      /\ Holds(m8, a_concat, n_concat, s)
      /\ Holds(m8, a_h_in, n_h_in, s)
      /\ Holds(m8, a_inv_rms1, n_inv_rms1, s)
      /\ Holds(m8, a_k, n_k, s)
      /\ Holds(m8, a_normed1, n_normed1, s)
      /\ Holds(m8, a_probs, n_probs, s)
      /\ Holds(m8, a_q, n_q, s)
      /\ Holds(m8, a_v, n_v, s)
      /\ Holds(m8, b_hidden, n_h_in, s)
      /\ Weighs(m8, w_mlp_norm_gain, n_mlp_norm_gain)
      /\ Weighs(m8, w_w_down, n_w_down)
      /\ Weighs(m8, w_w_gate, n_w_gate)
      /\ Weighs(m8, w_w_up, n_w_up)
      /\ Weighs(m8, w_wo, n_wo)
  BY ONLY <1>c, <1>d, <1>7, <1>8w DEF Wrote, WroteBoth, Holds, Weighs
<1>9n. m9 = Now(table, m8, dispatch_linear(a_concat, w_wo, b_tmp_h, "t", "h", "h"))
  <2>1. 9 \in 1 .. 17 /\ 9 - 1 = 8
    OBVIOUS
  <2> QED
    BY <1>m, <1>q, <1>w, <2>1
<1>9w. Wrote(m8, b_tmp_h, Value(n_attn_out, s), m9)
  <2>1. Known(table, "linear", <<n_concat, n_wo>>, <<"t", "h", "h">>, <<n_attn_out>>)
    BY <1>v, <1>t, LayerKnown
  <2> QED
    BY ONLY <1>c, <1>d, <1>h, <1>8, <1>9n, <2>1, linearTurn
<1>9. /\ DOMAIN m9 = DOMAIN m
      /\ Holds(m9, a_concat, n_concat, s)
      /\ Holds(m9, a_h_in, n_h_in, s)
      /\ Holds(m9, a_inv_rms1, n_inv_rms1, s)
      /\ Holds(m9, a_k, n_k, s)
      /\ Holds(m9, a_normed1, n_normed1, s)
      /\ Holds(m9, a_probs, n_probs, s)
      /\ Holds(m9, a_q, n_q, s)
      /\ Holds(m9, a_v, n_v, s)
      /\ Holds(m9, b_hidden, n_h_in, s)
      /\ Holds(m9, b_tmp_h, n_attn_out, s)
      /\ Weighs(m9, w_mlp_norm_gain, n_mlp_norm_gain)
      /\ Weighs(m9, w_w_down, n_w_down)
      /\ Weighs(m9, w_w_gate, n_w_gate)
      /\ Weighs(m9, w_w_up, n_w_up)
  BY ONLY <1>c, <1>d, <1>8, <1>9w DEF Wrote, WroteBoth, Holds, Weighs
<1>10n. m10 = Now(table, m9, dispatch_add_inplace(b_hidden, b_tmp_h, "t"))
  <2>1. 10 \in 1 .. 17 /\ 10 - 1 = 9
    OBVIOUS
  <2> QED
    BY <1>m, <1>q, <1>w, <2>1
<1>10w. Wrote(m9, b_hidden, Value(n_h_after_attn, s), m10)
  <2>1. Known(table, "add", <<n_h_in, n_attn_out>>, <<"t", "h">>, <<n_h_after_attn>>)
    BY <1>v, <1>t, LayerKnown
  <2> QED
    BY ONLY <1>c, <1>d, <1>h, <1>9, <1>10n, <2>1, addTurn
<1>10. /\ DOMAIN m10 = DOMAIN m
      /\ Holds(m10, a_concat, n_concat, s)
      /\ Holds(m10, a_h_in, n_h_in, s)
      /\ Holds(m10, a_inv_rms1, n_inv_rms1, s)
      /\ Holds(m10, a_k, n_k, s)
      /\ Holds(m10, a_normed1, n_normed1, s)
      /\ Holds(m10, a_probs, n_probs, s)
      /\ Holds(m10, a_q, n_q, s)
      /\ Holds(m10, a_v, n_v, s)
      /\ Holds(m10, b_hidden, n_h_after_attn, s)
      /\ Weighs(m10, w_mlp_norm_gain, n_mlp_norm_gain)
      /\ Weighs(m10, w_w_down, n_w_down)
      /\ Weighs(m10, w_w_gate, n_w_gate)
      /\ Weighs(m10, w_w_up, n_w_up)
  BY ONLY <1>c, <1>d, <1>9, <1>10w DEF Wrote, WroteBoth, Holds, Weighs
<1>11n. m11 = Now(table, m10, Copy(b_hidden, a_h_after_attn))
  <2>1. 11 \in 1 .. 17 /\ 11 - 1 = 10
    OBVIOUS
  <2> QED
    BY <1>m, <1>q, <1>w, <2>1
<1>11w. Wrote(m10, a_h_after_attn, m10[b_hidden], m11)
  BY ONLY <1>10, <1>d, <1>11n, Copies
<1>11. /\ DOMAIN m11 = DOMAIN m
      /\ Holds(m11, a_concat, n_concat, s)
      /\ Holds(m11, a_h_after_attn, n_h_after_attn, s)
      /\ Holds(m11, a_h_in, n_h_in, s)
      /\ Holds(m11, a_inv_rms1, n_inv_rms1, s)
      /\ Holds(m11, a_k, n_k, s)
      /\ Holds(m11, a_normed1, n_normed1, s)
      /\ Holds(m11, a_probs, n_probs, s)
      /\ Holds(m11, a_q, n_q, s)
      /\ Holds(m11, a_v, n_v, s)
      /\ Holds(m11, b_hidden, n_h_after_attn, s)
      /\ Weighs(m11, w_mlp_norm_gain, n_mlp_norm_gain)
      /\ Weighs(m11, w_w_down, n_w_down)
      /\ Weighs(m11, w_w_gate, n_w_gate)
      /\ Weighs(m11, w_w_up, n_w_up)
  BY ONLY <1>c, <1>d, <1>10, <1>11w DEF Wrote, WroteBoth, Holds, Weighs
<1>12n. m12 = Now(table, m11, dispatch_rmsnorm(b_hidden, w_mlp_norm_gain, a_normed2, a_inv_rms2,
      "t"))
  <2>1. 12 \in 1 .. 17 /\ 12 - 1 = 11
    OBVIOUS
  <2> QED
    BY <1>m, <1>q, <1>w, <2>1
<1>12w. WroteBoth(m11, a_normed2, Value(n_normed2, s), a_inv_rms2, Value(n_inv_rms2, s), m12)
  <2>1. Known(table, "rmsnorm", <<n_h_after_attn, n_mlp_norm_gain>>, <<"t", "h">>, <<n_normed2,
        n_inv_rms2>>)
    BY <1>v, <1>t, LayerKnown
  <2> QED
    BY ONLY <1>c, <1>d, <1>h, <1>11, <1>12n, <2>1, rmsnormTurn
<1>12. /\ DOMAIN m12 = DOMAIN m
      /\ Holds(m12, a_concat, n_concat, s)
      /\ Holds(m12, a_h_after_attn, n_h_after_attn, s)
      /\ Holds(m12, a_h_in, n_h_in, s)
      /\ Holds(m12, a_inv_rms1, n_inv_rms1, s)
      /\ Holds(m12, a_inv_rms2, n_inv_rms2, s)
      /\ Holds(m12, a_k, n_k, s)
      /\ Holds(m12, a_normed1, n_normed1, s)
      /\ Holds(m12, a_normed2, n_normed2, s)
      /\ Holds(m12, a_probs, n_probs, s)
      /\ Holds(m12, a_q, n_q, s)
      /\ Holds(m12, a_v, n_v, s)
      /\ Holds(m12, b_hidden, n_h_after_attn, s)
      /\ Weighs(m12, w_w_down, n_w_down)
      /\ Weighs(m12, w_w_gate, n_w_gate)
      /\ Weighs(m12, w_w_up, n_w_up)
  BY ONLY <1>c, <1>d, <1>11, <1>12w DEF Wrote, WroteBoth, Holds, Weighs
<1>13n. m13 = Now(table, m12, dispatch_linear(a_normed2, w_w_gate, a_gate, "t", "h", "ffn"))
  <2>1. 13 \in 1 .. 17 /\ 13 - 1 = 12
    OBVIOUS
  <2> QED
    BY <1>m, <1>q, <1>w, <2>1
<1>13w. Wrote(m12, a_gate, Value(n_gate, s), m13)
  <2>1. Known(table, "linear", <<n_normed2, n_w_gate>>, <<"t", "h", "ffn">>, <<n_gate>>)
    BY <1>v, <1>t, LayerKnown
  <2> QED
    BY ONLY <1>c, <1>d, <1>h, <1>12, <1>13n, <2>1, linearTurn
<1>13. /\ DOMAIN m13 = DOMAIN m
      /\ Holds(m13, a_concat, n_concat, s)
      /\ Holds(m13, a_gate, n_gate, s)
      /\ Holds(m13, a_h_after_attn, n_h_after_attn, s)
      /\ Holds(m13, a_h_in, n_h_in, s)
      /\ Holds(m13, a_inv_rms1, n_inv_rms1, s)
      /\ Holds(m13, a_inv_rms2, n_inv_rms2, s)
      /\ Holds(m13, a_k, n_k, s)
      /\ Holds(m13, a_normed1, n_normed1, s)
      /\ Holds(m13, a_normed2, n_normed2, s)
      /\ Holds(m13, a_probs, n_probs, s)
      /\ Holds(m13, a_q, n_q, s)
      /\ Holds(m13, a_v, n_v, s)
      /\ Holds(m13, b_hidden, n_h_after_attn, s)
      /\ Weighs(m13, w_w_down, n_w_down)
      /\ Weighs(m13, w_w_up, n_w_up)
  BY ONLY <1>c, <1>d, <1>12, <1>13w DEF Wrote, WroteBoth, Holds, Weighs
<1>14n. m14 = Now(table, m13, dispatch_linear(a_normed2, w_w_up, a_up, "t", "h", "ffn"))
  <2>1. 14 \in 1 .. 17 /\ 14 - 1 = 13
    OBVIOUS
  <2> QED
    BY <1>m, <1>q, <1>w, <2>1
<1>14w. Wrote(m13, a_up, Value(n_up, s), m14)
  <2>1. Known(table, "linear", <<n_normed2, n_w_up>>, <<"t", "h", "ffn">>, <<n_up>>)
    BY <1>v, <1>t, LayerKnown
  <2> QED
    BY ONLY <1>c, <1>d, <1>h, <1>13, <1>14n, <2>1, linearTurn
<1>14. /\ DOMAIN m14 = DOMAIN m
      /\ Holds(m14, a_concat, n_concat, s)
      /\ Holds(m14, a_gate, n_gate, s)
      /\ Holds(m14, a_h_after_attn, n_h_after_attn, s)
      /\ Holds(m14, a_h_in, n_h_in, s)
      /\ Holds(m14, a_inv_rms1, n_inv_rms1, s)
      /\ Holds(m14, a_inv_rms2, n_inv_rms2, s)
      /\ Holds(m14, a_k, n_k, s)
      /\ Holds(m14, a_normed1, n_normed1, s)
      /\ Holds(m14, a_normed2, n_normed2, s)
      /\ Holds(m14, a_probs, n_probs, s)
      /\ Holds(m14, a_q, n_q, s)
      /\ Holds(m14, a_up, n_up, s)
      /\ Holds(m14, a_v, n_v, s)
      /\ Holds(m14, b_hidden, n_h_after_attn, s)
      /\ Weighs(m14, w_w_down, n_w_down)
  BY ONLY <1>c, <1>d, <1>13, <1>14w DEF Wrote, WroteBoth, Holds, Weighs
<1>15n. m15 = Now(table, m14, dispatch_swiglu(a_gate, a_up, b_act, "t"))
  <2>1. 15 \in 1 .. 17 /\ 15 - 1 = 14
    OBVIOUS
  <2> QED
    BY <1>m, <1>q, <1>w, <2>1
<1>15w. Wrote(m14, b_act, Value(n_act, s), m15)
  <2>1. Known(table, "swiglu", <<n_gate, n_up>>, <<"t", "ffn">>, <<n_act>>)
    BY <1>v, <1>t, LayerKnown
  <2> QED
    BY ONLY <1>c, <1>d, <1>h, <1>14, <1>15n, <2>1, swigluTurn
<1>15. /\ DOMAIN m15 = DOMAIN m
      /\ Holds(m15, a_concat, n_concat, s)
      /\ Holds(m15, a_gate, n_gate, s)
      /\ Holds(m15, a_h_after_attn, n_h_after_attn, s)
      /\ Holds(m15, a_h_in, n_h_in, s)
      /\ Holds(m15, a_inv_rms1, n_inv_rms1, s)
      /\ Holds(m15, a_inv_rms2, n_inv_rms2, s)
      /\ Holds(m15, a_k, n_k, s)
      /\ Holds(m15, a_normed1, n_normed1, s)
      /\ Holds(m15, a_normed2, n_normed2, s)
      /\ Holds(m15, a_probs, n_probs, s)
      /\ Holds(m15, a_q, n_q, s)
      /\ Holds(m15, a_up, n_up, s)
      /\ Holds(m15, a_v, n_v, s)
      /\ Holds(m15, b_act, n_act, s)
      /\ Holds(m15, b_hidden, n_h_after_attn, s)
      /\ Weighs(m15, w_w_down, n_w_down)
  BY ONLY <1>c, <1>d, <1>14, <1>15w DEF Wrote, WroteBoth, Holds, Weighs
<1>16n. m16 = Now(table, m15, dispatch_linear(b_act, w_w_down, b_tmp_h, "t", "ffn", "h"))
  <2>1. 16 \in 1 .. 17 /\ 16 - 1 = 15
    OBVIOUS
  <2> QED
    BY <1>m, <1>q, <1>w, <2>1
<1>16w. Wrote(m15, b_tmp_h, Value(n_mlp_out, s), m16)
  <2>1. Known(table, "linear", <<n_act, n_w_down>>, <<"t", "ffn", "h">>, <<n_mlp_out>>)
    BY <1>v, <1>t, LayerKnown
  <2> QED
    BY ONLY <1>c, <1>d, <1>h, <1>15, <1>16n, <2>1, linearTurn
<1>16. /\ DOMAIN m16 = DOMAIN m
      /\ Holds(m16, a_concat, n_concat, s)
      /\ Holds(m16, a_gate, n_gate, s)
      /\ Holds(m16, a_h_after_attn, n_h_after_attn, s)
      /\ Holds(m16, a_h_in, n_h_in, s)
      /\ Holds(m16, a_inv_rms1, n_inv_rms1, s)
      /\ Holds(m16, a_inv_rms2, n_inv_rms2, s)
      /\ Holds(m16, a_k, n_k, s)
      /\ Holds(m16, a_normed1, n_normed1, s)
      /\ Holds(m16, a_normed2, n_normed2, s)
      /\ Holds(m16, a_probs, n_probs, s)
      /\ Holds(m16, a_q, n_q, s)
      /\ Holds(m16, a_up, n_up, s)
      /\ Holds(m16, a_v, n_v, s)
      /\ Holds(m16, b_hidden, n_h_after_attn, s)
      /\ Holds(m16, b_tmp_h, n_mlp_out, s)
  BY ONLY <1>c, <1>d, <1>15, <1>16w DEF Wrote, WroteBoth, Holds, Weighs
<1>17n. m17 = Now(table, m16, dispatch_add_inplace(b_hidden, b_tmp_h, "t"))
  <2>1. 17 \in 1 .. 17 /\ 17 - 1 = 16
    OBVIOUS
  <2> QED
    BY <1>m, <1>q, <1>w, <2>1
<1>17w. Wrote(m16, b_hidden, Value(n_out, s), m17)
  <2>1. Known(table, "add", <<n_h_after_attn, n_mlp_out>>, <<"t", "h">>, <<n_out>>)
    BY <1>v, <1>t, LayerKnown
  <2> QED
    BY ONLY <1>c, <1>d, <1>h, <1>16, <1>17n, <2>1, addTurn
<1>17. /\ DOMAIN m17 = DOMAIN m
      /\ Holds(m17, a_concat, n_concat, s)
      /\ Holds(m17, a_gate, n_gate, s)
      /\ Holds(m17, a_h_after_attn, n_h_after_attn, s)
      /\ Holds(m17, a_h_in, n_h_in, s)
      /\ Holds(m17, a_inv_rms1, n_inv_rms1, s)
      /\ Holds(m17, a_inv_rms2, n_inv_rms2, s)
      /\ Holds(m17, a_k, n_k, s)
      /\ Holds(m17, a_normed1, n_normed1, s)
      /\ Holds(m17, a_normed2, n_normed2, s)
      /\ Holds(m17, a_probs, n_probs, s)
      /\ Holds(m17, a_q, n_q, s)
      /\ Holds(m17, a_up, n_up, s)
      /\ Holds(m17, a_v, n_v, s)
      /\ Holds(m17, b_hidden, n_out, s)
  BY ONLY <1>c, <1>d, <1>16, <1>17w DEF Wrote, WroteBoth, Holds, Weighs
<1>z. mm[17] = n /\ m17 = mm[17]
  BY <1>m, <1>w
<1>y. n = m17
  BY ONLY <1>z
<1> QED
  BY <1>b, <1>v, <1>y, <1>17 DEF Activated, ActNames

-----------------------------------------------------------------------------
(* The backward pass through a layer.                                      *)

\* What passes add to the gradients of a layer's tensors: the host's
\* contribution to each of those in `added`.
Grows(m, n, l, s, added) ==
    \A which \in GradNames :
        n[LayerOf("grads", l, which)]
        = IF which \in added
          THEN Append(m[LayerOf("grads", l, which)], Value(<<GradientName[which], l>>, s))
          ELSE m[LayerOf("grads", l, which)]

\* Back through the gated half of a layer.
LEMMA BackwardMlpTurn ==
    ASSUME NEW table, table = Results[FALSE], NEW m, Trains(m), NEW s, s # NoSeq,
           NEW l \in 1 .. Layers, Activated(m, l, s),
           Holds(m, Scratch("d_hidden"), StreamGradient(l), s),
           NEW n, Turns(table, m, BackwardMlp(l), n)
    PROVE  /\ Holds(n, Scratch("d_hidden"), <<"d_after_attn", l>>, s)
           /\ Grows(m, n, l, s, {"mlp_norm_gain", "w_gate", "w_up", "w_down"})
<1>h. s # NoSeq
  OBVIOUS
<1>t. table = Results[FALSE]
  OBVIOUS
<1>b. PICK b_act, b_d_hidden, b_d_act, b_d_gate, b_d_up, b_d_a, b_d_b, b_d_c, a_gate, a_up,
          a_normed2, a_h_after_attn, a_inv_rms2, w_w_down, w_w_gate, w_w_up, w_mlp_norm_gain,
          g_attn_norm_gain, g_wq, g_wk, g_wv, g_wo, g_mlp_norm_gain, g_w_gate, g_w_up, g_w_down :
        /\ b_act = Scratch("act")
        /\ b_d_hidden = Scratch("d_hidden")
        /\ b_d_act = Scratch("d_act")
        /\ b_d_gate = Scratch("d_gate")
        /\ b_d_up = Scratch("d_up")
        /\ b_d_a = Scratch("d_a")
        /\ b_d_b = Scratch("d_b")
        /\ b_d_c = Scratch("d_c")
        /\ a_gate = Acts("gate", l)
        /\ a_up = Acts("up", l)
        /\ a_normed2 = Acts("normed2", l)
        /\ a_h_after_attn = Acts("h_after_attn", l)
        /\ a_inv_rms2 = Acts("inv_rms2", l)
        /\ w_w_down = LayerOf("weights", l, "w_down")
        /\ w_w_gate = LayerOf("weights", l, "w_gate")
        /\ w_w_up = LayerOf("weights", l, "w_up")
        /\ w_mlp_norm_gain = LayerOf("weights", l, "mlp_norm_gain")
        /\ g_attn_norm_gain = LayerOf("grads", l, "attn_norm_gain")
        /\ g_wq = LayerOf("grads", l, "wq")
        /\ g_wk = LayerOf("grads", l, "wk")
        /\ g_wv = LayerOf("grads", l, "wv")
        /\ g_wo = LayerOf("grads", l, "wo")
        /\ g_mlp_norm_gain = LayerOf("grads", l, "mlp_norm_gain")
        /\ g_w_gate = LayerOf("grads", l, "w_gate")
        /\ g_w_up = LayerOf("grads", l, "w_up")
        /\ g_w_down = LayerOf("grads", l, "w_down")
  OBVIOUS
<1>v. PICK n_act, n_d_w_down, n_d_act, n_d_gate, n_d_up, n_d_w_gate, n_d_w_up, n_d_normed2_gate,
          n_d_normed2_up, n_d_normed2, n_d_mlp_norm_gain, n_d_norm2, n_d_after_attn, n_stream,
          n_gate, n_up, n_normed2, n_h_after_attn, n_inv_rms2, n_w_down, n_w_gate, n_w_up,
          n_mlp_norm_gain :
        /\ n_act = <<"act", l>>
        /\ n_d_w_down = <<"d_w_down", l>>
        /\ n_d_act = <<"d_act", l>>
        /\ n_d_gate = <<"d_gate", l>>
        /\ n_d_up = <<"d_up", l>>
        /\ n_d_w_gate = <<"d_w_gate", l>>
        /\ n_d_w_up = <<"d_w_up", l>>
        /\ n_d_normed2_gate = <<"d_normed2_gate", l>>
        /\ n_d_normed2_up = <<"d_normed2_up", l>>
        /\ n_d_normed2 = <<"d_normed2", l>>
        /\ n_d_mlp_norm_gain = <<"d_mlp_norm_gain", l>>
        /\ n_d_norm2 = <<"d_norm2", l>>
        /\ n_d_after_attn = <<"d_after_attn", l>>
        /\ n_stream = StreamGradient(l)
        /\ n_gate = <<"gate", l>>
        /\ n_up = <<"up", l>>
        /\ n_normed2 = <<"normed2", l>>
        /\ n_h_after_attn = <<"h_after_attn", l>>
        /\ n_inv_rms2 = <<"inv_rms2", l>>
        /\ n_w_down = <<"w_down", l>>
        /\ n_w_gate = <<"w_gate", l>>
        /\ n_w_up = <<"w_up", l>>
        /\ n_mlp_norm_gain = <<"mlp_norm_gain", l>>
  OBVIOUS
<1>c. /\ b_act[1] = "act"
      /\ b_d_hidden[1] = "d_hidden"
      /\ b_d_act[1] = "d_act"
      /\ b_d_gate[1] = "d_gate"
      /\ b_d_up[1] = "d_up"
      /\ b_d_a[1] = "d_a"
      /\ b_d_b[1] = "d_b"
      /\ b_d_c[1] = "d_c"
      /\ a_gate[1] = "gate"
      /\ a_up[1] = "up"
      /\ a_normed2[1] = "normed2"
      /\ a_h_after_attn[1] = "h_after_attn"
      /\ a_inv_rms2[1] = "inv_rms2"
      /\ w_w_down[1] = "weights"
      /\ w_w_gate[1] = "weights"
      /\ w_w_up[1] = "weights"
      /\ w_mlp_norm_gain[1] = "weights"
      /\ g_attn_norm_gain[1] = "grads"
      /\ g_wq[1] = "grads"
      /\ g_wk[1] = "grads"
      /\ g_wv[1] = "grads"
      /\ g_wo[1] = "grads"
      /\ g_mlp_norm_gain[1] = "grads"
      /\ g_w_gate[1] = "grads"
      /\ g_w_up[1] = "grads"
      /\ g_w_down[1] = "grads"
  BY <1>b, LayerIn DEF Scratch, Acts, Decoder, DecoderLayer, EmbedOf, FinalGainOf, InSet
<1>d. /\ b_act \in DOMAIN m
      /\ b_d_hidden \in DOMAIN m
      /\ b_d_act \in DOMAIN m
      /\ b_d_gate \in DOMAIN m
      /\ b_d_up \in DOMAIN m
      /\ b_d_a \in DOMAIN m
      /\ b_d_b \in DOMAIN m
      /\ b_d_c \in DOMAIN m
      /\ a_gate \in DOMAIN m
      /\ a_up \in DOMAIN m
      /\ a_normed2 \in DOMAIN m
      /\ a_h_after_attn \in DOMAIN m
      /\ a_inv_rms2 \in DOMAIN m
      /\ w_w_down \in DOMAIN m
      /\ w_w_gate \in DOMAIN m
      /\ w_w_up \in DOMAIN m
      /\ w_mlp_norm_gain \in DOMAIN m
      /\ g_attn_norm_gain \in DOMAIN m
      /\ g_wq \in DOMAIN m
      /\ g_wk \in DOMAIN m
      /\ g_wv \in DOMAIN m
      /\ g_wo \in DOMAIN m
      /\ g_mlp_norm_gain \in DOMAIN m
      /\ g_w_gate \in DOMAIN m
      /\ g_w_up \in DOMAIN m
      /\ g_w_down \in DOMAIN m
  <2>1. PICK k \in Nat :
          /\ k + 9 \in Slots /\ w_w_down = InSet("weights", k + 9)
          /\ k + 7 \in Slots /\ w_w_gate = InSet("weights", k + 7)
          /\ k + 8 \in Slots /\ w_w_up = InSet("weights", k + 8)
          /\ k + 6 \in Slots /\ w_mlp_norm_gain = InSet("weights", k + 6)
    BY <1>b, LayerSlots
  <2>2. PICK j \in Nat :
          /\ j + 1 \in Slots /\ g_attn_norm_gain = InSet("grads", j + 1)
          /\ j + 2 \in Slots /\ g_wq = InSet("grads", j + 2)
          /\ j + 3 \in Slots /\ g_wk = InSet("grads", j + 3)
          /\ j + 4 \in Slots /\ g_wv = InSet("grads", j + 4)
          /\ j + 5 \in Slots /\ g_wo = InSet("grads", j + 5)
          /\ j + 6 \in Slots /\ g_mlp_norm_gain = InSet("grads", j + 6)
          /\ j + 7 \in Slots /\ g_w_gate = InSet("grads", j + 7)
          /\ j + 8 \in Slots /\ g_w_up = InSet("grads", j + 8)
          /\ j + 9 \in Slots /\ g_w_down = InSet("grads", j + 9)
    BY <1>b, LayerSlots
  <2>3. /\ \A i \in Slots : InSet("weights", i) \in DOMAIN m
       /\ \A i \in Slots : InSet("grads", i) \in DOMAIN m
    BY DEF Trains
  <2> QED
    BY <1>b, <2>1, <2>2, <2>3 DEF Trains, ActNames, ScratchNames
<1>e. /\ g_w_down # g_attn_norm_gain
      /\ g_w_down # g_wq
      /\ g_w_down # g_wk
      /\ g_w_down # g_wv
      /\ g_w_down # g_wo
      /\ g_w_down # g_mlp_norm_gain
      /\ g_w_down # g_w_gate
      /\ g_w_down # g_w_up
      /\ g_w_gate # g_attn_norm_gain
      /\ g_w_gate # g_wq
      /\ g_w_gate # g_wk
      /\ g_w_gate # g_wv
      /\ g_w_gate # g_wo
      /\ g_w_gate # g_mlp_norm_gain
      /\ g_w_gate # g_w_up
      /\ g_w_up # g_attn_norm_gain
      /\ g_w_up # g_wq
      /\ g_w_up # g_wk
      /\ g_w_up # g_wv
      /\ g_w_up # g_wo
      /\ g_w_up # g_mlp_norm_gain
      /\ g_mlp_norm_gain # g_attn_norm_gain
      /\ g_mlp_norm_gain # g_wq
      /\ g_mlp_norm_gain # g_wk
      /\ g_mlp_norm_gain # g_wv
      /\ g_mlp_norm_gain # g_wo
  <2>1. PICK k \in Nat :
          /\ g_attn_norm_gain = InSet("grads", k + 1)
          /\ g_wq = InSet("grads", k + 2)
          /\ g_wk = InSet("grads", k + 3)
          /\ g_wv = InSet("grads", k + 4)
          /\ g_wo = InSet("grads", k + 5)
          /\ g_mlp_norm_gain = InSet("grads", k + 6)
          /\ g_w_gate = InSet("grads", k + 7)
          /\ g_w_up = InSet("grads", k + 8)
          /\ g_w_down = InSet("grads", k + 9)
    BY <1>b, LayerSlots
  <2>2. \A i, j : i # j => InSet("grads", i) # InSet("grads", j)
    BY DEF InSet
  <2> QED
    BY ONLY <2>1, <2>2
<1>s. PICK sq : sq = BackwardMlp(l)
  OBVIOUS
<1>q. /\ IsSeq(sq) /\ Len(sq) = 12
      /\ sq[1] = dispatch_swiglu(a_gate, a_up, b_act, "t")
      /\ sq[2] = dispatch_linear_bwd_dw(b_d_hidden, b_act, g_w_down, "ffn", "h")
      /\ sq[3] = dispatch_linear_bwd_dx(b_d_hidden, w_w_down, b_d_act, "ffn", "h")
      /\ sq[4] = dispatch_swiglu_bwd(b_d_act, a_gate, a_up, b_d_gate, b_d_up)
      /\ sq[5] = dispatch_linear_bwd_dw(b_d_gate, a_normed2, g_w_gate, "h", "ffn")
      /\ sq[6] = dispatch_linear_bwd_dw(b_d_up, a_normed2, g_w_up, "h", "ffn")
      /\ sq[7] = dispatch_linear_bwd_dx(b_d_gate, w_w_gate, b_d_a, "h", "ffn")
      /\ sq[8] = dispatch_linear_bwd_dx(b_d_up, w_w_up, b_d_b, "h", "ffn")
      /\ sq[9] = dispatch_add_inplace(b_d_a, b_d_b, "t")
      /\ sq[10] = dispatch_rmsnorm_bwd_dgain(b_d_a, a_h_after_attn, a_inv_rms2, g_mlp_norm_gain)
      /\ sq[11] = dispatch_rmsnorm_bwd_dx(b_d_a, a_h_after_attn, w_mlp_norm_gain, a_inv_rms2, b_d_c)
      /\ sq[12] = dispatch_add_inplace(b_d_hidden, b_d_c, "t")
  BY <1>b, <1>s, BackwardMlpIs
<1>m. PICK mm : /\ mm[0] = m /\ mm[12] = n
                /\ \A i \in 1 .. 12 : mm[i] = Now(table, mm[i - 1], sq[i])
  BY <1>q, <1>s, ZenonT(60) DEF Turns
<1>w. PICK m0, m1, m2, m3, m4, m5, m6, m7, m8, m9, m10, m11, m12 :
        m0 = mm[0] /\ m1 = mm[1] /\ m2 = mm[2] /\ m3 = mm[3] /\ m4 = mm[4] /\ m5 = mm[5] /\ m6 =
              mm[6] /\ m7 = mm[7] /\ m8 = mm[8] /\ m9 = mm[9] /\ m10 = mm[10] /\ m11 = mm[11] /\ m12
              = mm[12]
  OBVIOUS
<1>0. /\ m0 = m /\ DOMAIN m0 = DOMAIN m
      /\ Holds(m0, a_gate, n_gate, s)
      /\ Holds(m0, a_h_after_attn, n_h_after_attn, s)
      /\ Holds(m0, a_inv_rms2, n_inv_rms2, s)
      /\ Holds(m0, a_normed2, n_normed2, s)
      /\ Holds(m0, a_up, n_up, s)
      /\ Holds(m0, b_d_hidden, n_stream, s)
      /\ m0[g_attn_norm_gain] = m0[g_attn_norm_gain]
      /\ m0[g_mlp_norm_gain] = m0[g_mlp_norm_gain]
      /\ m0[g_w_down] = m0[g_w_down]
      /\ m0[g_w_gate] = m0[g_w_gate]
      /\ m0[g_w_up] = m0[g_w_up]
      /\ m0[g_wk] = m0[g_wk]
      /\ m0[g_wo] = m0[g_wo]
      /\ m0[g_wq] = m0[g_wq]
      /\ m0[g_wv] = m0[g_wv]
      /\ Weighs(m0, w_mlp_norm_gain, n_mlp_norm_gain)
      /\ Weighs(m0, w_w_down, n_w_down)
      /\ Weighs(m0, w_w_gate, n_w_gate)
      /\ Weighs(m0, w_w_up, n_w_up)
  BY <1>b, <1>v, <1>m, <1>w, LayerWeighs DEF Activated, ActNames
<1>1n. m1 = Now(table, m0, dispatch_swiglu(a_gate, a_up, b_act, "t"))
  <2>1. 1 \in 1 .. 12 /\ 1 - 1 = 0
    OBVIOUS
  <2> QED
    BY <1>m, <1>q, <1>w, <2>1
<1>1w. Wrote(m0, b_act, Value(n_act, s), m1)
  <2>1. Known(table, "swiglu", <<n_gate, n_up>>, <<"t", "ffn">>, <<n_act>>)
    BY <1>v, <1>t, LayerKnown
  <2> QED
    BY ONLY <1>c, <1>e, <1>d, <1>h, <1>0, <1>1n, <2>1, swigluTurn
<1>1. /\ DOMAIN m1 = DOMAIN m
      /\ Holds(m1, a_gate, n_gate, s)
      /\ Holds(m1, a_h_after_attn, n_h_after_attn, s)
      /\ Holds(m1, a_inv_rms2, n_inv_rms2, s)
      /\ Holds(m1, a_normed2, n_normed2, s)
      /\ Holds(m1, a_up, n_up, s)
      /\ Holds(m1, b_act, n_act, s)
      /\ Holds(m1, b_d_hidden, n_stream, s)
      /\ m1[g_attn_norm_gain] = m0[g_attn_norm_gain]
      /\ m1[g_mlp_norm_gain] = m0[g_mlp_norm_gain]
      /\ m1[g_w_down] = m0[g_w_down]
      /\ m1[g_w_gate] = m0[g_w_gate]
      /\ m1[g_w_up] = m0[g_w_up]
      /\ m1[g_wk] = m0[g_wk]
      /\ m1[g_wo] = m0[g_wo]
      /\ m1[g_wq] = m0[g_wq]
      /\ m1[g_wv] = m0[g_wv]
      /\ Weighs(m1, w_mlp_norm_gain, n_mlp_norm_gain)
      /\ Weighs(m1, w_w_down, n_w_down)
      /\ Weighs(m1, w_w_gate, n_w_gate)
      /\ Weighs(m1, w_w_up, n_w_up)
  BY ONLY <1>c, <1>e, <1>d, <1>0, <1>1w DEF Wrote, WroteBoth, Holds, Weighs
<1>2n. m2 = Now(table, m1, dispatch_linear_bwd_dw(b_d_hidden, b_act, g_w_down, "ffn", "h"))
  <2>1. 2 \in 1 .. 12 /\ 2 - 1 = 1
    OBVIOUS
  <2> QED
    BY <1>m, <1>q, <1>w, <2>1
<1>2w. Wrote(m1, g_w_down, Append(m1[g_w_down], Value(n_d_w_down, s)), m2)
  <2>1. Known(table, "linear_bwd_dw", <<n_stream, n_act>>, <<"t", "ffn", "h">>, <<n_d_w_down>>)
    BY <1>v, <1>t, LayerBackwardKnown
  <2> QED
    BY ONLY <1>c, <1>e, <1>d, <1>h, <1>1, <1>2n, <2>1, linear_bwd_dwTurn
<1>2. /\ DOMAIN m2 = DOMAIN m
      /\ Holds(m2, a_gate, n_gate, s)
      /\ Holds(m2, a_h_after_attn, n_h_after_attn, s)
      /\ Holds(m2, a_inv_rms2, n_inv_rms2, s)
      /\ Holds(m2, a_normed2, n_normed2, s)
      /\ Holds(m2, a_up, n_up, s)
      /\ Holds(m2, b_d_hidden, n_stream, s)
      /\ m2[g_attn_norm_gain] = m0[g_attn_norm_gain]
      /\ m2[g_mlp_norm_gain] = m0[g_mlp_norm_gain]
      /\ m2[g_w_down] = Append(m0[g_w_down], Value(n_d_w_down, s))
      /\ m2[g_w_gate] = m0[g_w_gate]
      /\ m2[g_w_up] = m0[g_w_up]
      /\ m2[g_wk] = m0[g_wk]
      /\ m2[g_wo] = m0[g_wo]
      /\ m2[g_wq] = m0[g_wq]
      /\ m2[g_wv] = m0[g_wv]
      /\ Weighs(m2, w_mlp_norm_gain, n_mlp_norm_gain)
      /\ Weighs(m2, w_w_down, n_w_down)
      /\ Weighs(m2, w_w_gate, n_w_gate)
      /\ Weighs(m2, w_w_up, n_w_up)
  BY ONLY <1>c, <1>e, <1>d, <1>1, <1>2w DEF Wrote, WroteBoth, Holds, Weighs
<1>3n. m3 = Now(table, m2, dispatch_linear_bwd_dx(b_d_hidden, w_w_down, b_d_act, "ffn", "h"))
  <2>1. 3 \in 1 .. 12 /\ 3 - 1 = 2
    OBVIOUS
  <2> QED
    BY <1>m, <1>q, <1>w, <2>1
<1>3w. Wrote(m2, b_d_act, Value(n_d_act, s), m3)
  <2>1. Known(table, "linear_bwd_dx", <<n_stream, n_w_down>>, <<"t", "ffn", "h">>, <<n_d_act>>)
    BY <1>v, <1>t, LayerBackwardKnown
  <2> QED
    BY ONLY <1>c, <1>e, <1>d, <1>h, <1>2, <1>3n, <2>1, linear_bwd_dxTurn
<1>3. /\ DOMAIN m3 = DOMAIN m
      /\ Holds(m3, a_gate, n_gate, s)
      /\ Holds(m3, a_h_after_attn, n_h_after_attn, s)
      /\ Holds(m3, a_inv_rms2, n_inv_rms2, s)
      /\ Holds(m3, a_normed2, n_normed2, s)
      /\ Holds(m3, a_up, n_up, s)
      /\ Holds(m3, b_d_act, n_d_act, s)
      /\ Holds(m3, b_d_hidden, n_stream, s)
      /\ m3[g_attn_norm_gain] = m0[g_attn_norm_gain]
      /\ m3[g_mlp_norm_gain] = m0[g_mlp_norm_gain]
      /\ m3[g_w_down] = Append(m0[g_w_down], Value(n_d_w_down, s))
      /\ m3[g_w_gate] = m0[g_w_gate]
      /\ m3[g_w_up] = m0[g_w_up]
      /\ m3[g_wk] = m0[g_wk]
      /\ m3[g_wo] = m0[g_wo]
      /\ m3[g_wq] = m0[g_wq]
      /\ m3[g_wv] = m0[g_wv]
      /\ Weighs(m3, w_mlp_norm_gain, n_mlp_norm_gain)
      /\ Weighs(m3, w_w_gate, n_w_gate)
      /\ Weighs(m3, w_w_up, n_w_up)
  BY ONLY <1>c, <1>e, <1>d, <1>2, <1>3w DEF Wrote, WroteBoth, Holds, Weighs
<1>4n. m4 = Now(table, m3, dispatch_swiglu_bwd(b_d_act, a_gate, a_up, b_d_gate, b_d_up))
  <2>1. 4 \in 1 .. 12 /\ 4 - 1 = 3
    OBVIOUS
  <2> QED
    BY <1>m, <1>q, <1>w, <2>1
<1>4w. WroteBoth(m3, b_d_gate, Value(n_d_gate, s), b_d_up, Value(n_d_up, s), m4)
  <2>1. Known(table, "swiglu_bwd", <<n_d_act, n_gate, n_up>>, <<"t", "ffn">>, <<n_d_gate, n_d_up>>)
    BY <1>v, <1>t, LayerBackwardKnown
  <2> QED
    BY ONLY <1>c, <1>e, <1>d, <1>h, <1>3, <1>4n, <2>1, swiglu_bwdTurn
<1>4. /\ DOMAIN m4 = DOMAIN m
      /\ Holds(m4, a_h_after_attn, n_h_after_attn, s)
      /\ Holds(m4, a_inv_rms2, n_inv_rms2, s)
      /\ Holds(m4, a_normed2, n_normed2, s)
      /\ Holds(m4, b_d_gate, n_d_gate, s)
      /\ Holds(m4, b_d_hidden, n_stream, s)
      /\ Holds(m4, b_d_up, n_d_up, s)
      /\ m4[g_attn_norm_gain] = m0[g_attn_norm_gain]
      /\ m4[g_mlp_norm_gain] = m0[g_mlp_norm_gain]
      /\ m4[g_w_down] = Append(m0[g_w_down], Value(n_d_w_down, s))
      /\ m4[g_w_gate] = m0[g_w_gate]
      /\ m4[g_w_up] = m0[g_w_up]
      /\ m4[g_wk] = m0[g_wk]
      /\ m4[g_wo] = m0[g_wo]
      /\ m4[g_wq] = m0[g_wq]
      /\ m4[g_wv] = m0[g_wv]
      /\ Weighs(m4, w_mlp_norm_gain, n_mlp_norm_gain)
      /\ Weighs(m4, w_w_gate, n_w_gate)
      /\ Weighs(m4, w_w_up, n_w_up)
  BY ONLY <1>c, <1>e, <1>d, <1>3, <1>4w DEF Wrote, WroteBoth, Holds, Weighs
<1>5n. m5 = Now(table, m4, dispatch_linear_bwd_dw(b_d_gate, a_normed2, g_w_gate, "h", "ffn"))
  <2>1. 5 \in 1 .. 12 /\ 5 - 1 = 4
    OBVIOUS
  <2> QED
    BY <1>m, <1>q, <1>w, <2>1
<1>5w. Wrote(m4, g_w_gate, Append(m4[g_w_gate], Value(n_d_w_gate, s)), m5)
  <2>1. Known(table, "linear_bwd_dw", <<n_d_gate, n_normed2>>, <<"t", "h", "ffn">>, <<n_d_w_gate>>)
    BY <1>v, <1>t, LayerBackwardKnown
  <2> QED
    BY ONLY <1>c, <1>e, <1>d, <1>h, <1>4, <1>5n, <2>1, linear_bwd_dwTurn
<1>5. /\ DOMAIN m5 = DOMAIN m
      /\ Holds(m5, a_h_after_attn, n_h_after_attn, s)
      /\ Holds(m5, a_inv_rms2, n_inv_rms2, s)
      /\ Holds(m5, a_normed2, n_normed2, s)
      /\ Holds(m5, b_d_gate, n_d_gate, s)
      /\ Holds(m5, b_d_hidden, n_stream, s)
      /\ Holds(m5, b_d_up, n_d_up, s)
      /\ m5[g_attn_norm_gain] = m0[g_attn_norm_gain]
      /\ m5[g_mlp_norm_gain] = m0[g_mlp_norm_gain]
      /\ m5[g_w_down] = Append(m0[g_w_down], Value(n_d_w_down, s))
      /\ m5[g_w_gate] = Append(m0[g_w_gate], Value(n_d_w_gate, s))
      /\ m5[g_w_up] = m0[g_w_up]
      /\ m5[g_wk] = m0[g_wk]
      /\ m5[g_wo] = m0[g_wo]
      /\ m5[g_wq] = m0[g_wq]
      /\ m5[g_wv] = m0[g_wv]
      /\ Weighs(m5, w_mlp_norm_gain, n_mlp_norm_gain)
      /\ Weighs(m5, w_w_gate, n_w_gate)
      /\ Weighs(m5, w_w_up, n_w_up)
  BY ONLY <1>c, <1>e, <1>d, <1>4, <1>5w DEF Wrote, WroteBoth, Holds, Weighs
<1>6n. m6 = Now(table, m5, dispatch_linear_bwd_dw(b_d_up, a_normed2, g_w_up, "h", "ffn"))
  <2>1. 6 \in 1 .. 12 /\ 6 - 1 = 5
    OBVIOUS
  <2> QED
    BY <1>m, <1>q, <1>w, <2>1
<1>6w. Wrote(m5, g_w_up, Append(m5[g_w_up], Value(n_d_w_up, s)), m6)
  <2>1. Known(table, "linear_bwd_dw", <<n_d_up, n_normed2>>, <<"t", "h", "ffn">>, <<n_d_w_up>>)
    BY <1>v, <1>t, LayerBackwardKnown
  <2> QED
    BY ONLY <1>c, <1>e, <1>d, <1>h, <1>5, <1>6n, <2>1, linear_bwd_dwTurn
<1>6. /\ DOMAIN m6 = DOMAIN m
      /\ Holds(m6, a_h_after_attn, n_h_after_attn, s)
      /\ Holds(m6, a_inv_rms2, n_inv_rms2, s)
      /\ Holds(m6, b_d_gate, n_d_gate, s)
      /\ Holds(m6, b_d_hidden, n_stream, s)
      /\ Holds(m6, b_d_up, n_d_up, s)
      /\ m6[g_attn_norm_gain] = m0[g_attn_norm_gain]
      /\ m6[g_mlp_norm_gain] = m0[g_mlp_norm_gain]
      /\ m6[g_w_down] = Append(m0[g_w_down], Value(n_d_w_down, s))
      /\ m6[g_w_gate] = Append(m0[g_w_gate], Value(n_d_w_gate, s))
      /\ m6[g_w_up] = Append(m0[g_w_up], Value(n_d_w_up, s))
      /\ m6[g_wk] = m0[g_wk]
      /\ m6[g_wo] = m0[g_wo]
      /\ m6[g_wq] = m0[g_wq]
      /\ m6[g_wv] = m0[g_wv]
      /\ Weighs(m6, w_mlp_norm_gain, n_mlp_norm_gain)
      /\ Weighs(m6, w_w_gate, n_w_gate)
      /\ Weighs(m6, w_w_up, n_w_up)
  BY ONLY <1>c, <1>e, <1>d, <1>5, <1>6w, SMTT(60) DEF Wrote, WroteBoth, Holds, Weighs
<1>7n. m7 = Now(table, m6, dispatch_linear_bwd_dx(b_d_gate, w_w_gate, b_d_a, "h", "ffn"))
  <2>1. 7 \in 1 .. 12 /\ 7 - 1 = 6
    OBVIOUS
  <2> QED
    BY <1>m, <1>q, <1>w, <2>1
<1>7w. Wrote(m6, b_d_a, Value(n_d_normed2_gate, s), m7)
  <2>1. Known(table, "linear_bwd_dx", <<n_d_gate, n_w_gate>>, <<"t", "h", "ffn">>,
            <<n_d_normed2_gate>>)
    BY <1>v, <1>t, LayerBackwardKnown
  <2> QED
    BY ONLY <1>c, <1>e, <1>d, <1>h, <1>6, <1>7n, <2>1, linear_bwd_dxTurn
<1>7. /\ DOMAIN m7 = DOMAIN m
      /\ Holds(m7, a_h_after_attn, n_h_after_attn, s)
      /\ Holds(m7, a_inv_rms2, n_inv_rms2, s)
      /\ Holds(m7, b_d_a, n_d_normed2_gate, s)
      /\ Holds(m7, b_d_hidden, n_stream, s)
      /\ Holds(m7, b_d_up, n_d_up, s)
      /\ m7[g_attn_norm_gain] = m0[g_attn_norm_gain]
      /\ m7[g_mlp_norm_gain] = m0[g_mlp_norm_gain]
      /\ m7[g_w_down] = Append(m0[g_w_down], Value(n_d_w_down, s))
      /\ m7[g_w_gate] = Append(m0[g_w_gate], Value(n_d_w_gate, s))
      /\ m7[g_w_up] = Append(m0[g_w_up], Value(n_d_w_up, s))
      /\ m7[g_wk] = m0[g_wk]
      /\ m7[g_wo] = m0[g_wo]
      /\ m7[g_wq] = m0[g_wq]
      /\ m7[g_wv] = m0[g_wv]
      /\ Weighs(m7, w_mlp_norm_gain, n_mlp_norm_gain)
      /\ Weighs(m7, w_w_up, n_w_up)
  BY ONLY <1>c, <1>e, <1>d, <1>6, <1>7w, SMTT(60) DEF Wrote, WroteBoth, Holds, Weighs
<1>8n. m8 = Now(table, m7, dispatch_linear_bwd_dx(b_d_up, w_w_up, b_d_b, "h", "ffn"))
  <2>1. 8 \in 1 .. 12 /\ 8 - 1 = 7
    OBVIOUS
  <2> QED
    BY <1>m, <1>q, <1>w, <2>1
<1>8w. Wrote(m7, b_d_b, Value(n_d_normed2_up, s), m8)
  <2>1. Known(table, "linear_bwd_dx", <<n_d_up, n_w_up>>, <<"t", "h", "ffn">>, <<n_d_normed2_up>>)
    BY <1>v, <1>t, LayerBackwardKnown
  <2> QED
    BY ONLY <1>c, <1>e, <1>d, <1>h, <1>7, <1>8n, <2>1, linear_bwd_dxTurn
<1>8. /\ DOMAIN m8 = DOMAIN m
      /\ Holds(m8, a_h_after_attn, n_h_after_attn, s)
      /\ Holds(m8, a_inv_rms2, n_inv_rms2, s)
      /\ Holds(m8, b_d_a, n_d_normed2_gate, s)
      /\ Holds(m8, b_d_b, n_d_normed2_up, s)
      /\ Holds(m8, b_d_hidden, n_stream, s)
      /\ m8[g_attn_norm_gain] = m0[g_attn_norm_gain]
      /\ m8[g_mlp_norm_gain] = m0[g_mlp_norm_gain]
      /\ m8[g_w_down] = Append(m0[g_w_down], Value(n_d_w_down, s))
      /\ m8[g_w_gate] = Append(m0[g_w_gate], Value(n_d_w_gate, s))
      /\ m8[g_w_up] = Append(m0[g_w_up], Value(n_d_w_up, s))
      /\ m8[g_wk] = m0[g_wk]
      /\ m8[g_wo] = m0[g_wo]
      /\ m8[g_wq] = m0[g_wq]
      /\ m8[g_wv] = m0[g_wv]
      /\ Weighs(m8, w_mlp_norm_gain, n_mlp_norm_gain)
  BY ONLY <1>c, <1>e, <1>d, <1>7, <1>8w, SMTT(60) DEF Wrote, WroteBoth, Holds, Weighs
<1>9n. m9 = Now(table, m8, dispatch_add_inplace(b_d_a, b_d_b, "t"))
  <2>1. 9 \in 1 .. 12 /\ 9 - 1 = 8
    OBVIOUS
  <2> QED
    BY <1>m, <1>q, <1>w, <2>1
<1>9w. Wrote(m8, b_d_a, Value(n_d_normed2, s), m9)
  <2>1. Known(table, "add", <<n_d_normed2_gate, n_d_normed2_up>>, <<"t", "h">>, <<n_d_normed2>>)
    BY <1>v, <1>t, LayerBackwardKnown
  <2> QED
    BY ONLY <1>c, <1>e, <1>d, <1>h, <1>8, <1>9n, <2>1, addTurn
<1>9. /\ DOMAIN m9 = DOMAIN m
      /\ Holds(m9, a_h_after_attn, n_h_after_attn, s)
      /\ Holds(m9, a_inv_rms2, n_inv_rms2, s)
      /\ Holds(m9, b_d_a, n_d_normed2, s)
      /\ Holds(m9, b_d_hidden, n_stream, s)
      /\ m9[g_attn_norm_gain] = m0[g_attn_norm_gain]
      /\ m9[g_mlp_norm_gain] = m0[g_mlp_norm_gain]
      /\ m9[g_w_down] = Append(m0[g_w_down], Value(n_d_w_down, s))
      /\ m9[g_w_gate] = Append(m0[g_w_gate], Value(n_d_w_gate, s))
      /\ m9[g_w_up] = Append(m0[g_w_up], Value(n_d_w_up, s))
      /\ m9[g_wk] = m0[g_wk]
      /\ m9[g_wo] = m0[g_wo]
      /\ m9[g_wq] = m0[g_wq]
      /\ m9[g_wv] = m0[g_wv]
      /\ Weighs(m9, w_mlp_norm_gain, n_mlp_norm_gain)
  BY ONLY <1>c, <1>e, <1>d, <1>8, <1>9w, SMTT(60) DEF Wrote, WroteBoth, Holds, Weighs
<1>10n. m10 = Now(table, m9, dispatch_rmsnorm_bwd_dgain(b_d_a, a_h_after_attn, a_inv_rms2,
          g_mlp_norm_gain))
  <2>1. 10 \in 1 .. 12 /\ 10 - 1 = 9
    OBVIOUS
  <2> QED
    BY <1>m, <1>q, <1>w, <2>1
<1>10w. Wrote(m9, g_mlp_norm_gain, Append(m9[g_mlp_norm_gain], Value(n_d_mlp_norm_gain, s)), m10)
  <2>1. Known(table, "rmsnorm_bwd_dgain", <<n_d_normed2, n_h_after_attn, n_inv_rms2>>, <<"t", "h">>,
            <<n_d_mlp_norm_gain>>)
    BY <1>v, <1>t, LayerBackwardKnown
  <2> QED
    BY ONLY <1>c, <1>e, <1>d, <1>h, <1>9, <1>10n, <2>1, rmsnorm_bwd_dgainTurn
<1>10. /\ DOMAIN m10 = DOMAIN m
      /\ Holds(m10, a_h_after_attn, n_h_after_attn, s)
      /\ Holds(m10, a_inv_rms2, n_inv_rms2, s)
      /\ Holds(m10, b_d_a, n_d_normed2, s)
      /\ Holds(m10, b_d_hidden, n_stream, s)
      /\ m10[g_attn_norm_gain] = m0[g_attn_norm_gain]
      /\ m10[g_mlp_norm_gain] = Append(m0[g_mlp_norm_gain], Value(n_d_mlp_norm_gain, s))
      /\ m10[g_w_down] = Append(m0[g_w_down], Value(n_d_w_down, s))
      /\ m10[g_w_gate] = Append(m0[g_w_gate], Value(n_d_w_gate, s))
      /\ m10[g_w_up] = Append(m0[g_w_up], Value(n_d_w_up, s))
      /\ m10[g_wk] = m0[g_wk]
      /\ m10[g_wo] = m0[g_wo]
      /\ m10[g_wq] = m0[g_wq]
      /\ m10[g_wv] = m0[g_wv]
      /\ Weighs(m10, w_mlp_norm_gain, n_mlp_norm_gain)
  BY ONLY <1>c, <1>e, <1>d, <1>9, <1>10w, ZenonT(60) DEF Wrote, WroteBoth, Holds, Weighs
<1>11n. m11 = Now(table, m10, dispatch_rmsnorm_bwd_dx(b_d_a, a_h_after_attn, w_mlp_norm_gain,
          a_inv_rms2, b_d_c))
  <2>1. 11 \in 1 .. 12 /\ 11 - 1 = 10
    OBVIOUS
  <2> QED
    BY <1>m, <1>q, <1>w, <2>1
<1>11w. Wrote(m10, b_d_c, Value(n_d_norm2, s), m11)
  <2>1. Known(table, "rmsnorm_bwd_dx", <<n_d_normed2, n_h_after_attn, n_mlp_norm_gain, n_inv_rms2>>,
            <<"t", "h">>, <<n_d_norm2>>)
    BY <1>v, <1>t, LayerBackwardKnown
  <2> QED
    BY ONLY <1>c, <1>e, <1>d, <1>h, <1>10, <1>11n, <2>1, rmsnorm_bwd_dxTurn
<1>11. /\ DOMAIN m11 = DOMAIN m
      /\ Holds(m11, b_d_c, n_d_norm2, s)
      /\ Holds(m11, b_d_hidden, n_stream, s)
      /\ m11[g_attn_norm_gain] = m0[g_attn_norm_gain]
      /\ m11[g_mlp_norm_gain] = Append(m0[g_mlp_norm_gain], Value(n_d_mlp_norm_gain, s))
      /\ m11[g_w_down] = Append(m0[g_w_down], Value(n_d_w_down, s))
      /\ m11[g_w_gate] = Append(m0[g_w_gate], Value(n_d_w_gate, s))
      /\ m11[g_w_up] = Append(m0[g_w_up], Value(n_d_w_up, s))
      /\ m11[g_wk] = m0[g_wk]
      /\ m11[g_wo] = m0[g_wo]
      /\ m11[g_wq] = m0[g_wq]
      /\ m11[g_wv] = m0[g_wv]
  BY ONLY <1>c, <1>e, <1>d, <1>10, <1>11w, SMTT(60) DEF Wrote, WroteBoth, Holds, Weighs
<1>12n. m12 = Now(table, m11, dispatch_add_inplace(b_d_hidden, b_d_c, "t"))
  <2>1. 12 \in 1 .. 12 /\ 12 - 1 = 11
    OBVIOUS
  <2> QED
    BY <1>m, <1>q, <1>w, <2>1
<1>12w. Wrote(m11, b_d_hidden, Value(n_d_after_attn, s), m12)
  <2>1. Known(table, "add", <<n_stream, n_d_norm2>>, <<"t", "h">>, <<n_d_after_attn>>)
    BY <1>v, <1>t, LayerBackwardKnown
  <2> QED
    BY ONLY <1>c, <1>e, <1>d, <1>h, <1>11, <1>12n, <2>1, addTurn
<1>12. /\ DOMAIN m12 = DOMAIN m
      /\ Holds(m12, b_d_hidden, n_d_after_attn, s)
      /\ m12[g_attn_norm_gain] = m0[g_attn_norm_gain]
      /\ m12[g_mlp_norm_gain] = Append(m0[g_mlp_norm_gain], Value(n_d_mlp_norm_gain, s))
      /\ m12[g_w_down] = Append(m0[g_w_down], Value(n_d_w_down, s))
      /\ m12[g_w_gate] = Append(m0[g_w_gate], Value(n_d_w_gate, s))
      /\ m12[g_w_up] = Append(m0[g_w_up], Value(n_d_w_up, s))
      /\ m12[g_wk] = m0[g_wk]
      /\ m12[g_wo] = m0[g_wo]
      /\ m12[g_wq] = m0[g_wq]
      /\ m12[g_wv] = m0[g_wv]
  BY ONLY <1>c, <1>e, <1>d, <1>11, <1>12w, ZenonT(60) DEF Wrote, WroteBoth, Holds, Weighs
<1>z. mm[0] = m /\ m0 = mm[0] /\ mm[12] = n /\ m12 = mm[12]
  BY <1>m, <1>w
<1>y. n = m12 /\ m = m0
  BY ONLY <1>z
<1>x. Holds(n, Scratch("d_hidden"), <<"d_after_attn", l>>, s)
  BY <1>b, <1>v, <1>y, <1>12
<1>g. /\ n[LayerOf("grads", l, "attn_norm_gain")] = m[LayerOf("grads", l, "attn_norm_gain")]
      /\ n[LayerOf("grads", l, "wq")] = m[LayerOf("grads", l, "wq")]
      /\ n[LayerOf("grads", l, "wk")] = m[LayerOf("grads", l, "wk")]
      /\ n[LayerOf("grads", l, "wv")] = m[LayerOf("grads", l, "wv")]
      /\ n[LayerOf("grads", l, "wo")] = m[LayerOf("grads", l, "wo")]
      /\ n[LayerOf("grads", l, "mlp_norm_gain")] = Append(m[LayerOf("grads", l, "mlp_norm_gain")],
            Value(<<"d_mlp_norm_gain", l>>, s))
      /\ n[LayerOf("grads", l, "w_gate")] = Append(m[LayerOf("grads", l, "w_gate")],
            Value(<<"d_w_gate", l>>, s))
      /\ n[LayerOf("grads", l, "w_up")] = Append(m[LayerOf("grads", l, "w_up")], Value(<<"d_w_up",
            l>>, s))
      /\ n[LayerOf("grads", l, "w_down")] = Append(m[LayerOf("grads", l, "w_down")],
            Value(<<"d_w_down", l>>, s))
  BY <1>b, <1>v, <1>y, <1>12
<1>f. Grows(m, n, l, s, {"mlp_norm_gain", "w_gate", "w_up", "w_down"})
  <2> SUFFICES ASSUME NEW which \in GradNames
               PROVE  n[LayerOf("grads", l, which)]
                      = IF which \in {"mlp_norm_gain", "w_gate", "w_up", "w_down"}
                        THEN Append(m[LayerOf("grads", l, which)], Value(<<GradientName[which], l>>,
                              s))
                        ELSE m[LayerOf("grads", l, which)]
    BY DEF Grows
  <2>1. CASE which = "attn_norm_gain"
    BY <1>g, <2>1 DEF GradientName
  <2>2. CASE which = "wq"
    BY <1>g, <2>2 DEF GradientName
  <2>3. CASE which = "wk"
    BY <1>g, <2>3 DEF GradientName
  <2>4. CASE which = "wv"
    BY <1>g, <2>4 DEF GradientName
  <2>5. CASE which = "wo"
    BY <1>g, <2>5 DEF GradientName
  <2>6. CASE which = "mlp_norm_gain"
    BY <1>g, <2>6 DEF GradientName
  <2>7. CASE which = "w_gate"
    BY <1>g, <2>7 DEF GradientName
  <2>8. CASE which = "w_up"
    BY <1>g, <2>8 DEF GradientName
  <2>9. CASE which = "w_down"
    BY <1>g, <2>9 DEF GradientName
  <2> QED
    BY <2>1, <2>2, <2>3, <2>4, <2>5, <2>6, <2>7, <2>8, <2>9 DEF GradNames
<1> QED
  BY <1>x, <1>f

\* Back through the projection of what attention gave.
LEMMA BackwardOutputTurn ==
    ASSUME NEW table, table = Results[FALSE], NEW m, Trains(m), NEW s, s # NoSeq,
           NEW l \in 1 .. Layers, Activated(m, l, s),
           Holds(m, Scratch("d_hidden"), <<"d_after_attn", l>>, s),
           NEW n, Turns(table, m, BackwardOutput(l), n)
    PROVE  /\ Holds(n, Scratch("d_a"), <<"d_concat", l>>, s)
           /\ Grows(m, n, l, s, {"wo"})
<1>h. s # NoSeq
  OBVIOUS
<1>t. table = Results[FALSE]
  OBVIOUS
<1>b. PICK b_d_hidden, b_d_a, a_concat, w_wo, g_attn_norm_gain, g_wq, g_wk, g_wv, g_wo,
          g_mlp_norm_gain, g_w_gate, g_w_up, g_w_down :
        /\ b_d_hidden = Scratch("d_hidden")
        /\ b_d_a = Scratch("d_a")
        /\ a_concat = Acts("concat", l)
        /\ w_wo = LayerOf("weights", l, "wo")
        /\ g_attn_norm_gain = LayerOf("grads", l, "attn_norm_gain")
        /\ g_wq = LayerOf("grads", l, "wq")
        /\ g_wk = LayerOf("grads", l, "wk")
        /\ g_wv = LayerOf("grads", l, "wv")
        /\ g_wo = LayerOf("grads", l, "wo")
        /\ g_mlp_norm_gain = LayerOf("grads", l, "mlp_norm_gain")
        /\ g_w_gate = LayerOf("grads", l, "w_gate")
        /\ g_w_up = LayerOf("grads", l, "w_up")
        /\ g_w_down = LayerOf("grads", l, "w_down")
  OBVIOUS
<1>v. PICK n_d_wo, n_d_concat, n_d_after_attn, n_concat, n_wo :
        /\ n_d_wo = <<"d_wo", l>>
        /\ n_d_concat = <<"d_concat", l>>
        /\ n_d_after_attn = <<"d_after_attn", l>>
        /\ n_concat = <<"concat", l>>
        /\ n_wo = <<"wo", l>>
  OBVIOUS
<1>c. /\ b_d_hidden[1] = "d_hidden"
      /\ b_d_a[1] = "d_a"
      /\ a_concat[1] = "concat"
      /\ w_wo[1] = "weights"
      /\ g_attn_norm_gain[1] = "grads"
      /\ g_wq[1] = "grads"
      /\ g_wk[1] = "grads"
      /\ g_wv[1] = "grads"
      /\ g_wo[1] = "grads"
      /\ g_mlp_norm_gain[1] = "grads"
      /\ g_w_gate[1] = "grads"
      /\ g_w_up[1] = "grads"
      /\ g_w_down[1] = "grads"
  BY <1>b, LayerIn DEF Scratch, Acts, Decoder, DecoderLayer, EmbedOf, FinalGainOf, InSet
<1>d. /\ b_d_hidden \in DOMAIN m
      /\ b_d_a \in DOMAIN m
      /\ a_concat \in DOMAIN m
      /\ w_wo \in DOMAIN m
      /\ g_attn_norm_gain \in DOMAIN m
      /\ g_wq \in DOMAIN m
      /\ g_wk \in DOMAIN m
      /\ g_wv \in DOMAIN m
      /\ g_wo \in DOMAIN m
      /\ g_mlp_norm_gain \in DOMAIN m
      /\ g_w_gate \in DOMAIN m
      /\ g_w_up \in DOMAIN m
      /\ g_w_down \in DOMAIN m
  <2>1. PICK k \in Nat :
          /\ k + 5 \in Slots /\ w_wo = InSet("weights", k + 5)
    BY <1>b, LayerSlots
  <2>2. PICK j \in Nat :
          /\ j + 1 \in Slots /\ g_attn_norm_gain = InSet("grads", j + 1)
          /\ j + 2 \in Slots /\ g_wq = InSet("grads", j + 2)
          /\ j + 3 \in Slots /\ g_wk = InSet("grads", j + 3)
          /\ j + 4 \in Slots /\ g_wv = InSet("grads", j + 4)
          /\ j + 5 \in Slots /\ g_wo = InSet("grads", j + 5)
          /\ j + 6 \in Slots /\ g_mlp_norm_gain = InSet("grads", j + 6)
          /\ j + 7 \in Slots /\ g_w_gate = InSet("grads", j + 7)
          /\ j + 8 \in Slots /\ g_w_up = InSet("grads", j + 8)
          /\ j + 9 \in Slots /\ g_w_down = InSet("grads", j + 9)
    BY <1>b, LayerSlots
  <2>3. /\ \A i \in Slots : InSet("weights", i) \in DOMAIN m
       /\ \A i \in Slots : InSet("grads", i) \in DOMAIN m
    BY DEF Trains
  <2> QED
    BY <1>b, <2>1, <2>2, <2>3 DEF Trains, ActNames, ScratchNames
<1>e. /\ g_wo # g_attn_norm_gain
      /\ g_wo # g_wq
      /\ g_wo # g_wk
      /\ g_wo # g_wv
      /\ g_wo # g_mlp_norm_gain
      /\ g_wo # g_w_gate
      /\ g_wo # g_w_up
      /\ g_wo # g_w_down
  <2>1. PICK k \in Nat :
          /\ g_attn_norm_gain = InSet("grads", k + 1)
          /\ g_wq = InSet("grads", k + 2)
          /\ g_wk = InSet("grads", k + 3)
          /\ g_wv = InSet("grads", k + 4)
          /\ g_wo = InSet("grads", k + 5)
          /\ g_mlp_norm_gain = InSet("grads", k + 6)
          /\ g_w_gate = InSet("grads", k + 7)
          /\ g_w_up = InSet("grads", k + 8)
          /\ g_w_down = InSet("grads", k + 9)
    BY <1>b, LayerSlots
  <2>2. \A i, j : i # j => InSet("grads", i) # InSet("grads", j)
    BY DEF InSet
  <2> QED
    BY ONLY <2>1, <2>2
<1>s. PICK sq : sq = BackwardOutput(l)
  OBVIOUS
<1>q. /\ IsSeq(sq) /\ Len(sq) = 2
      /\ sq[1] = dispatch_linear_bwd_dw(b_d_hidden, a_concat, g_wo, "h", "h")
      /\ sq[2] = dispatch_linear_bwd_dx(b_d_hidden, w_wo, b_d_a, "h", "h")
  BY <1>b, <1>s, BackwardOutputIs
<1>m. PICK mm : /\ mm[0] = m /\ mm[2] = n
                /\ \A i \in 1 .. 2 : mm[i] = Now(table, mm[i - 1], sq[i])
  BY <1>q, <1>s DEF Turns
<1>w. PICK m0, m1, m2 :
        m0 = mm[0] /\ m1 = mm[1] /\ m2 = mm[2]
  OBVIOUS
<1>0. /\ m0 = m /\ DOMAIN m0 = DOMAIN m
      /\ Holds(m0, a_concat, n_concat, s)
      /\ Holds(m0, b_d_hidden, n_d_after_attn, s)
      /\ m0[g_attn_norm_gain] = m0[g_attn_norm_gain]
      /\ m0[g_mlp_norm_gain] = m0[g_mlp_norm_gain]
      /\ m0[g_w_down] = m0[g_w_down]
      /\ m0[g_w_gate] = m0[g_w_gate]
      /\ m0[g_w_up] = m0[g_w_up]
      /\ m0[g_wk] = m0[g_wk]
      /\ m0[g_wo] = m0[g_wo]
      /\ m0[g_wq] = m0[g_wq]
      /\ m0[g_wv] = m0[g_wv]
      /\ Weighs(m0, w_wo, n_wo)
  BY <1>b, <1>v, <1>m, <1>w, LayerWeighs DEF Activated, ActNames
<1>1n. m1 = Now(table, m0, dispatch_linear_bwd_dw(b_d_hidden, a_concat, g_wo, "h", "h"))
  <2>1. 1 \in 1 .. 2 /\ 1 - 1 = 0
    OBVIOUS
  <2> QED
    BY <1>m, <1>q, <1>w, <2>1
<1>1w. Wrote(m0, g_wo, Append(m0[g_wo], Value(n_d_wo, s)), m1)
  <2>1. Known(table, "linear_bwd_dw", <<n_d_after_attn, n_concat>>, <<"t", "h", "h">>, <<n_d_wo>>)
    BY <1>v, <1>t, LayerBackwardKnown
  <2> QED
    BY ONLY <1>c, <1>e, <1>d, <1>h, <1>0, <1>1n, <2>1, linear_bwd_dwTurn
<1>1. /\ DOMAIN m1 = DOMAIN m
      /\ Holds(m1, b_d_hidden, n_d_after_attn, s)
      /\ m1[g_attn_norm_gain] = m0[g_attn_norm_gain]
      /\ m1[g_mlp_norm_gain] = m0[g_mlp_norm_gain]
      /\ m1[g_w_down] = m0[g_w_down]
      /\ m1[g_w_gate] = m0[g_w_gate]
      /\ m1[g_w_up] = m0[g_w_up]
      /\ m1[g_wk] = m0[g_wk]
      /\ m1[g_wo] = Append(m0[g_wo], Value(n_d_wo, s))
      /\ m1[g_wq] = m0[g_wq]
      /\ m1[g_wv] = m0[g_wv]
      /\ Weighs(m1, w_wo, n_wo)
  BY ONLY <1>c, <1>e, <1>d, <1>0, <1>1w DEF Wrote, WroteBoth, Holds, Weighs
<1>2n. m2 = Now(table, m1, dispatch_linear_bwd_dx(b_d_hidden, w_wo, b_d_a, "h", "h"))
  <2>1. 2 \in 1 .. 2 /\ 2 - 1 = 1
    OBVIOUS
  <2> QED
    BY <1>m, <1>q, <1>w, <2>1
<1>2w. Wrote(m1, b_d_a, Value(n_d_concat, s), m2)
  <2>1. Known(table, "linear_bwd_dx", <<n_d_after_attn, n_wo>>, <<"t", "h", "h">>, <<n_d_concat>>)
    BY <1>v, <1>t, LayerBackwardKnown
  <2> QED
    BY ONLY <1>c, <1>e, <1>d, <1>h, <1>1, <1>2n, <2>1, linear_bwd_dxTurn
<1>2. /\ DOMAIN m2 = DOMAIN m
      /\ Holds(m2, b_d_a, n_d_concat, s)
      /\ m2[g_attn_norm_gain] = m0[g_attn_norm_gain]
      /\ m2[g_mlp_norm_gain] = m0[g_mlp_norm_gain]
      /\ m2[g_w_down] = m0[g_w_down]
      /\ m2[g_w_gate] = m0[g_w_gate]
      /\ m2[g_w_up] = m0[g_w_up]
      /\ m2[g_wk] = m0[g_wk]
      /\ m2[g_wo] = Append(m0[g_wo], Value(n_d_wo, s))
      /\ m2[g_wq] = m0[g_wq]
      /\ m2[g_wv] = m0[g_wv]
  BY ONLY <1>c, <1>e, <1>d, <1>1, <1>2w DEF Wrote, WroteBoth, Holds, Weighs
<1>z. mm[0] = m /\ m0 = mm[0] /\ mm[2] = n /\ m2 = mm[2]
  BY <1>m, <1>w
<1>y. n = m2 /\ m = m0
  BY ONLY <1>z
<1>x. Holds(n, Scratch("d_a"), <<"d_concat", l>>, s)
  BY <1>b, <1>v, <1>y, <1>2
<1>g. /\ n[LayerOf("grads", l, "attn_norm_gain")] = m[LayerOf("grads", l, "attn_norm_gain")]
      /\ n[LayerOf("grads", l, "wq")] = m[LayerOf("grads", l, "wq")]
      /\ n[LayerOf("grads", l, "wk")] = m[LayerOf("grads", l, "wk")]
      /\ n[LayerOf("grads", l, "wv")] = m[LayerOf("grads", l, "wv")]
      /\ n[LayerOf("grads", l, "wo")] = Append(m[LayerOf("grads", l, "wo")], Value(<<"d_wo", l>>,
            s))
      /\ n[LayerOf("grads", l, "mlp_norm_gain")] = m[LayerOf("grads", l, "mlp_norm_gain")]
      /\ n[LayerOf("grads", l, "w_gate")] = m[LayerOf("grads", l, "w_gate")]
      /\ n[LayerOf("grads", l, "w_up")] = m[LayerOf("grads", l, "w_up")]
      /\ n[LayerOf("grads", l, "w_down")] = m[LayerOf("grads", l, "w_down")]
  BY <1>b, <1>v, <1>y, <1>2
<1>f. Grows(m, n, l, s, {"wo"})
  <2> SUFFICES ASSUME NEW which \in GradNames
               PROVE  n[LayerOf("grads", l, which)]
                      = IF which \in {"wo"}
                        THEN Append(m[LayerOf("grads", l, which)], Value(<<GradientName[which], l>>,
                              s))
                        ELSE m[LayerOf("grads", l, which)]
    BY DEF Grows
  <2>1. CASE which = "attn_norm_gain"
    BY <1>g, <2>1 DEF GradientName
  <2>2. CASE which = "wq"
    BY <1>g, <2>2 DEF GradientName
  <2>3. CASE which = "wk"
    BY <1>g, <2>3 DEF GradientName
  <2>4. CASE which = "wv"
    BY <1>g, <2>4 DEF GradientName
  <2>5. CASE which = "wo"
    BY <1>g, <2>5 DEF GradientName
  <2>6. CASE which = "mlp_norm_gain"
    BY <1>g, <2>6 DEF GradientName
  <2>7. CASE which = "w_gate"
    BY <1>g, <2>7 DEF GradientName
  <2>8. CASE which = "w_up"
    BY <1>g, <2>8 DEF GradientName
  <2>9. CASE which = "w_down"
    BY <1>g, <2>9 DEF GradientName
  <2> QED
    BY <2>1, <2>2, <2>3, <2>4, <2>5, <2>6, <2>7, <2>8, <2>9 DEF GradNames
<1> QED
  BY <1>x, <1>f

\* Back through attention.
LEMMA AttentionTurn ==
    ASSUME NEW table, table = Results[FALSE], NEW m, Trains(m), NEW s, s # NoSeq,
           NEW l \in 1 .. Layers, Activated(m, l, s),
           Holds(m, Scratch("d_a"), <<"d_concat", l>>, s),
           NEW n, Turns(table, m, dispatch_attention_bwd(l), n)
    PROVE  /\ Holds(n, Scratch("d_q"), <<"d_q_raw", l>>, s)
           /\ Holds(n, Scratch("d_k"), <<"d_k_raw", l>>, s)
           /\ Holds(n, Scratch("d_v"), <<"d_v", l>>, s)
<1>h. s # NoSeq
  OBVIOUS
<1>t. table = Results[FALSE]
  OBVIOUS
<1>b. PICK b_d_a, b_d_score, b_d_q, b_d_k, b_d_v, a_v, a_probs, a_k, a_q :
        /\ b_d_a = Scratch("d_a")
        /\ b_d_score = Scratch("d_score")
        /\ b_d_q = Scratch("d_q")
        /\ b_d_k = Scratch("d_k")
        /\ b_d_v = Scratch("d_v")
        /\ a_v = Acts("v", l)
        /\ a_probs = Acts("probs", l)
        /\ a_k = Acts("k", l)
        /\ a_q = Acts("q", l)
  OBVIOUS
<1>v. PICK n_d_score, n_d_q_raw, n_d_k_raw, n_d_v, n_d_concat, n_v, n_probs, n_k, n_q :
        /\ n_d_score = <<"d_score", l>>
        /\ n_d_q_raw = <<"d_q_raw", l>>
        /\ n_d_k_raw = <<"d_k_raw", l>>
        /\ n_d_v = <<"d_v", l>>
        /\ n_d_concat = <<"d_concat", l>>
        /\ n_v = <<"v", l>>
        /\ n_probs = <<"probs", l>>
        /\ n_k = <<"k", l>>
        /\ n_q = <<"q", l>>
  OBVIOUS
<1>c. /\ b_d_a[1] = "d_a"
      /\ b_d_score[1] = "d_score"
      /\ b_d_q[1] = "d_q"
      /\ b_d_k[1] = "d_k"
      /\ b_d_v[1] = "d_v"
      /\ a_v[1] = "v"
      /\ a_probs[1] = "probs"
      /\ a_k[1] = "k"
      /\ a_q[1] = "q"
  BY <1>b, LayerIn DEF Scratch, Acts, Decoder, DecoderLayer, EmbedOf, FinalGainOf, InSet
<1>d. /\ b_d_a \in DOMAIN m
      /\ b_d_score \in DOMAIN m
      /\ b_d_q \in DOMAIN m
      /\ b_d_k \in DOMAIN m
      /\ b_d_v \in DOMAIN m
      /\ a_v \in DOMAIN m
      /\ a_probs \in DOMAIN m
      /\ a_k \in DOMAIN m
      /\ a_q \in DOMAIN m
  BY <1>b DEF Trains, ActNames, ScratchNames
<1>s. PICK sq : sq = dispatch_attention_bwd(l)
  OBVIOUS
<1>q. /\ IsSeq(sq) /\ Len(sq) = 3
      /\ sq[1] = Dispatch("attention_dscore", <<"t", "band">>, NoSeq, <<b_d_a, a_v, a_probs>>,
            <<b_d_score>>)
      /\ sq[2] = Dispatch("attention_dq", <<"t", "band">>, NoSeq, <<b_d_score, a_k>>, <<b_d_q>>)
      /\ sq[3] = Dispatch("attention_dkdv", <<"t", "band">>, NoSeq, <<b_d_score, a_probs, a_q,
            b_d_a>>, <<b_d_k, b_d_v>>)
  BY <1>b, <1>s, dispatch_attention_bwdIs
<1>m. PICK mm : /\ mm[0] = m /\ mm[3] = n
                /\ \A i \in 1 .. 3 : mm[i] = Now(table, mm[i - 1], sq[i])
  BY <1>q, <1>s DEF Turns
<1>w. PICK m0, m1, m2, m3 :
        m0 = mm[0] /\ m1 = mm[1] /\ m2 = mm[2] /\ m3 = mm[3]
  OBVIOUS
<1>0. /\ m0 = m /\ DOMAIN m0 = DOMAIN m
      /\ Holds(m0, a_k, n_k, s)
      /\ Holds(m0, a_probs, n_probs, s)
      /\ Holds(m0, a_q, n_q, s)
      /\ Holds(m0, a_v, n_v, s)
      /\ Holds(m0, b_d_a, n_d_concat, s)
  BY <1>b, <1>v, <1>m, <1>w, LayerWeighs DEF Activated, ActNames
<1>1n. m1 = Now(table, m0, Dispatch("attention_dscore", <<"t", "band">>, NoSeq, <<b_d_a, a_v,
          a_probs>>, <<b_d_score>>))
  <2>1. 1 \in 1 .. 3 /\ 1 - 1 = 0
    OBVIOUS
  <2> QED
    BY <1>m, <1>q, <1>w, <2>1
<1>1w. Wrote(m0, b_d_score, Value(n_d_score, s), m1)
  <2>1. Known(table, "attention_dscore", <<n_d_concat, n_v, n_probs>>, <<"t", "band">>,
            <<n_d_score>>)
    BY <1>v, <1>t, LayerBackwardKnown
  <2> QED
    BY ONLY <1>c, <1>d, <1>h, <1>0, <1>1n, <2>1, attention_dscoreTurn
<1>1. /\ DOMAIN m1 = DOMAIN m
      /\ Holds(m1, a_k, n_k, s)
      /\ Holds(m1, a_probs, n_probs, s)
      /\ Holds(m1, a_q, n_q, s)
      /\ Holds(m1, b_d_a, n_d_concat, s)
      /\ Holds(m1, b_d_score, n_d_score, s)
  BY ONLY <1>c, <1>d, <1>0, <1>1w DEF Wrote, WroteBoth, Holds, Weighs
<1>2n. m2 = Now(table, m1, Dispatch("attention_dq", <<"t", "band">>, NoSeq, <<b_d_score, a_k>>,
          <<b_d_q>>))
  <2>1. 2 \in 1 .. 3 /\ 2 - 1 = 1
    OBVIOUS
  <2> QED
    BY <1>m, <1>q, <1>w, <2>1
<1>2w. Wrote(m1, b_d_q, Value(n_d_q_raw, s), m2)
  <2>1. Known(table, "attention_dq", <<n_d_score, n_k>>, <<"t", "band">>, <<n_d_q_raw>>)
    BY <1>v, <1>t, LayerBackwardKnown
  <2> QED
    BY ONLY <1>c, <1>d, <1>h, <1>1, <1>2n, <2>1, attention_dqTurn
<1>2. /\ DOMAIN m2 = DOMAIN m
      /\ Holds(m2, a_probs, n_probs, s)
      /\ Holds(m2, a_q, n_q, s)
      /\ Holds(m2, b_d_a, n_d_concat, s)
      /\ Holds(m2, b_d_q, n_d_q_raw, s)
      /\ Holds(m2, b_d_score, n_d_score, s)
  BY ONLY <1>c, <1>d, <1>1, <1>2w DEF Wrote, WroteBoth, Holds, Weighs
<1>3n. m3 = Now(table, m2, Dispatch("attention_dkdv", <<"t", "band">>, NoSeq, <<b_d_score, a_probs,
          a_q, b_d_a>>, <<b_d_k, b_d_v>>))
  <2>1. 3 \in 1 .. 3 /\ 3 - 1 = 2
    OBVIOUS
  <2> QED
    BY <1>m, <1>q, <1>w, <2>1
<1>3w. WroteBoth(m2, b_d_k, Value(n_d_k_raw, s), b_d_v, Value(n_d_v, s), m3)
  <2>1. Known(table, "attention_dkdv", <<n_d_score, n_probs, n_q, n_d_concat>>, <<"t", "band">>,
            <<n_d_k_raw, n_d_v>>)
    BY <1>v, <1>t, LayerBackwardKnown
  <2> QED
    BY ONLY <1>c, <1>d, <1>h, <1>2, <1>3n, <2>1, attention_dkdvTurn
<1>3. /\ DOMAIN m3 = DOMAIN m
      /\ Holds(m3, b_d_k, n_d_k_raw, s)
      /\ Holds(m3, b_d_q, n_d_q_raw, s)
      /\ Holds(m3, b_d_v, n_d_v, s)
  BY ONLY <1>c, <1>d, <1>2, <1>3w DEF Wrote, WroteBoth, Holds, Weighs
<1>z. mm[0] = m /\ m0 = mm[0] /\ mm[3] = n /\ m3 = mm[3]
  BY <1>m, <1>w
<1>y. n = m3 /\ m = m0
  BY ONLY <1>z
<1> QED
  BY <1>b, <1>v, <1>y, <1>3

\* Back through the projections to queries, keys and values.
LEMMA BackwardProjectionsTurn ==
    ASSUME NEW table, table = Results[FALSE], NEW m, Trains(m), NEW s, s # NoSeq,
           NEW l \in 1 .. Layers, Activated(m, l, s),
           Holds(m, Scratch("d_hidden"), <<"d_after_attn", l>>, s),
           Holds(m, Scratch("d_q"), <<"d_q_raw", l>>, s),
           Holds(m, Scratch("d_k"), <<"d_k_raw", l>>, s),
           Holds(m, Scratch("d_v"), <<"d_v", l>>, s),
           NEW n, Turns(table, m, BackwardProjections(l), n)
    PROVE  /\ Holds(n, Scratch("d_hidden"), <<"d_in", l>>, s)
           /\ Grows(m, n, l, s, {"attn_norm_gain", "wq", "wk", "wv"})
<1>h. s # NoSeq
  OBVIOUS
<1>t. table = Results[FALSE]
  OBVIOUS
<1>b. PICK b_d_q, b_d_k, b_d_v, b_d_a, b_d_b, b_d_c, b_d_hidden, a_normed1, a_h_in, a_inv_rms1,
          w_wq, w_wk, w_wv, w_attn_norm_gain, g_attn_norm_gain, g_wq, g_wk, g_wv, g_wo,
          g_mlp_norm_gain, g_w_gate, g_w_up, g_w_down :
        /\ b_d_q = Scratch("d_q")
        /\ b_d_k = Scratch("d_k")
        /\ b_d_v = Scratch("d_v")
        /\ b_d_a = Scratch("d_a")
        /\ b_d_b = Scratch("d_b")
        /\ b_d_c = Scratch("d_c")
        /\ b_d_hidden = Scratch("d_hidden")
        /\ a_normed1 = Acts("normed1", l)
        /\ a_h_in = Acts("h_in", l)
        /\ a_inv_rms1 = Acts("inv_rms1", l)
        /\ w_wq = LayerOf("weights", l, "wq")
        /\ w_wk = LayerOf("weights", l, "wk")
        /\ w_wv = LayerOf("weights", l, "wv")
        /\ w_attn_norm_gain = LayerOf("weights", l, "attn_norm_gain")
        /\ g_attn_norm_gain = LayerOf("grads", l, "attn_norm_gain")
        /\ g_wq = LayerOf("grads", l, "wq")
        /\ g_wk = LayerOf("grads", l, "wk")
        /\ g_wv = LayerOf("grads", l, "wv")
        /\ g_wo = LayerOf("grads", l, "wo")
        /\ g_mlp_norm_gain = LayerOf("grads", l, "mlp_norm_gain")
        /\ g_w_gate = LayerOf("grads", l, "w_gate")
        /\ g_w_up = LayerOf("grads", l, "w_up")
        /\ g_w_down = LayerOf("grads", l, "w_down")
  OBVIOUS
<1>v. PICK n_d_q, n_d_k, n_d_wq, n_d_wk, n_d_wv, n_d_normed1_q, n_d_normed1_k, n_d_normed1_v,
          n_d_normed1_qk, n_d_normed1, n_d_attn_norm_gain, n_d_norm1, n_d_in, n_d_q_raw, n_d_k_raw,
          n_d_v, n_d_after_attn, n_normed1, n_h_in, n_inv_rms1, n_wq, n_wk, n_wv, n_attn_norm_gain :
        /\ n_d_q = <<"d_q", l>>
        /\ n_d_k = <<"d_k", l>>
        /\ n_d_wq = <<"d_wq", l>>
        /\ n_d_wk = <<"d_wk", l>>
        /\ n_d_wv = <<"d_wv", l>>
        /\ n_d_normed1_q = <<"d_normed1_q", l>>
        /\ n_d_normed1_k = <<"d_normed1_k", l>>
        /\ n_d_normed1_v = <<"d_normed1_v", l>>
        /\ n_d_normed1_qk = <<"d_normed1_qk", l>>
        /\ n_d_normed1 = <<"d_normed1", l>>
        /\ n_d_attn_norm_gain = <<"d_attn_norm_gain", l>>
        /\ n_d_norm1 = <<"d_norm1", l>>
        /\ n_d_in = <<"d_in", l>>
        /\ n_d_q_raw = <<"d_q_raw", l>>
        /\ n_d_k_raw = <<"d_k_raw", l>>
        /\ n_d_v = <<"d_v", l>>
        /\ n_d_after_attn = <<"d_after_attn", l>>
        /\ n_normed1 = <<"normed1", l>>
        /\ n_h_in = <<"h_in", l>>
        /\ n_inv_rms1 = <<"inv_rms1", l>>
        /\ n_wq = <<"wq", l>>
        /\ n_wk = <<"wk", l>>
        /\ n_wv = <<"wv", l>>
        /\ n_attn_norm_gain = <<"attn_norm_gain", l>>
  OBVIOUS
<1>c. /\ b_d_q[1] = "d_q"
      /\ b_d_k[1] = "d_k"
      /\ b_d_v[1] = "d_v"
      /\ b_d_a[1] = "d_a"
      /\ b_d_b[1] = "d_b"
      /\ b_d_c[1] = "d_c"
      /\ b_d_hidden[1] = "d_hidden"
      /\ a_normed1[1] = "normed1"
      /\ a_h_in[1] = "h_in"
      /\ a_inv_rms1[1] = "inv_rms1"
      /\ w_wq[1] = "weights"
      /\ w_wk[1] = "weights"
      /\ w_wv[1] = "weights"
      /\ w_attn_norm_gain[1] = "weights"
      /\ g_attn_norm_gain[1] = "grads"
      /\ g_wq[1] = "grads"
      /\ g_wk[1] = "grads"
      /\ g_wv[1] = "grads"
      /\ g_wo[1] = "grads"
      /\ g_mlp_norm_gain[1] = "grads"
      /\ g_w_gate[1] = "grads"
      /\ g_w_up[1] = "grads"
      /\ g_w_down[1] = "grads"
  BY <1>b, LayerIn DEF Scratch, Acts, Decoder, DecoderLayer, EmbedOf, FinalGainOf, InSet
<1>d. /\ b_d_q \in DOMAIN m
      /\ b_d_k \in DOMAIN m
      /\ b_d_v \in DOMAIN m
      /\ b_d_a \in DOMAIN m
      /\ b_d_b \in DOMAIN m
      /\ b_d_c \in DOMAIN m
      /\ b_d_hidden \in DOMAIN m
      /\ a_normed1 \in DOMAIN m
      /\ a_h_in \in DOMAIN m
      /\ a_inv_rms1 \in DOMAIN m
      /\ w_wq \in DOMAIN m
      /\ w_wk \in DOMAIN m
      /\ w_wv \in DOMAIN m
      /\ w_attn_norm_gain \in DOMAIN m
      /\ g_attn_norm_gain \in DOMAIN m
      /\ g_wq \in DOMAIN m
      /\ g_wk \in DOMAIN m
      /\ g_wv \in DOMAIN m
      /\ g_wo \in DOMAIN m
      /\ g_mlp_norm_gain \in DOMAIN m
      /\ g_w_gate \in DOMAIN m
      /\ g_w_up \in DOMAIN m
      /\ g_w_down \in DOMAIN m
  <2>1. PICK k \in Nat :
          /\ k + 2 \in Slots /\ w_wq = InSet("weights", k + 2)
          /\ k + 3 \in Slots /\ w_wk = InSet("weights", k + 3)
          /\ k + 4 \in Slots /\ w_wv = InSet("weights", k + 4)
          /\ k + 1 \in Slots /\ w_attn_norm_gain = InSet("weights", k + 1)
    BY <1>b, LayerSlots
  <2>2. PICK j \in Nat :
          /\ j + 1 \in Slots /\ g_attn_norm_gain = InSet("grads", j + 1)
          /\ j + 2 \in Slots /\ g_wq = InSet("grads", j + 2)
          /\ j + 3 \in Slots /\ g_wk = InSet("grads", j + 3)
          /\ j + 4 \in Slots /\ g_wv = InSet("grads", j + 4)
          /\ j + 5 \in Slots /\ g_wo = InSet("grads", j + 5)
          /\ j + 6 \in Slots /\ g_mlp_norm_gain = InSet("grads", j + 6)
          /\ j + 7 \in Slots /\ g_w_gate = InSet("grads", j + 7)
          /\ j + 8 \in Slots /\ g_w_up = InSet("grads", j + 8)
          /\ j + 9 \in Slots /\ g_w_down = InSet("grads", j + 9)
    BY <1>b, LayerSlots
  <2>3. /\ \A i \in Slots : InSet("weights", i) \in DOMAIN m
       /\ \A i \in Slots : InSet("grads", i) \in DOMAIN m
    BY DEF Trains
  <2> QED
    BY <1>b, <2>1, <2>2, <2>3 DEF Trains, ActNames, ScratchNames
<1>e. /\ g_wq # g_attn_norm_gain
      /\ g_wq # g_wk
      /\ g_wq # g_wv
      /\ g_wq # g_wo
      /\ g_wq # g_mlp_norm_gain
      /\ g_wq # g_w_gate
      /\ g_wq # g_w_up
      /\ g_wq # g_w_down
      /\ g_wk # g_attn_norm_gain
      /\ g_wk # g_wv
      /\ g_wk # g_wo
      /\ g_wk # g_mlp_norm_gain
      /\ g_wk # g_w_gate
      /\ g_wk # g_w_up
      /\ g_wk # g_w_down
      /\ g_wv # g_attn_norm_gain
      /\ g_wv # g_wo
      /\ g_wv # g_mlp_norm_gain
      /\ g_wv # g_w_gate
      /\ g_wv # g_w_up
      /\ g_wv # g_w_down
      /\ g_attn_norm_gain # g_wo
      /\ g_attn_norm_gain # g_mlp_norm_gain
      /\ g_attn_norm_gain # g_w_gate
      /\ g_attn_norm_gain # g_w_up
      /\ g_attn_norm_gain # g_w_down
  <2>1. PICK k \in Nat :
          /\ g_attn_norm_gain = InSet("grads", k + 1)
          /\ g_wq = InSet("grads", k + 2)
          /\ g_wk = InSet("grads", k + 3)
          /\ g_wv = InSet("grads", k + 4)
          /\ g_wo = InSet("grads", k + 5)
          /\ g_mlp_norm_gain = InSet("grads", k + 6)
          /\ g_w_gate = InSet("grads", k + 7)
          /\ g_w_up = InSet("grads", k + 8)
          /\ g_w_down = InSet("grads", k + 9)
    BY <1>b, LayerSlots
  <2>2. \A i, j : i # j => InSet("grads", i) # InSet("grads", j)
    BY DEF InSet
  <2> QED
    BY ONLY <2>1, <2>2
<1>s. PICK sq : sq = BackwardProjections(l)
  OBVIOUS
<1>q. /\ IsSeq(sq) /\ Len(sq) = 13
      /\ sq[1] = dispatch_rope(b_d_q, "t", "heads", NoSeq, "inv")
      /\ sq[2] = dispatch_rope(b_d_k, "t", "kv_heads", NoSeq, "inv")
      /\ sq[3] = dispatch_linear_bwd_dw(b_d_q, a_normed1, g_wq, "h", "h")
      /\ sq[4] = dispatch_linear_bwd_dw(b_d_k, a_normed1, g_wk, "h", "kv")
      /\ sq[5] = dispatch_linear_bwd_dw(b_d_v, a_normed1, g_wv, "h", "kv")
      /\ sq[6] = dispatch_linear_bwd_dx(b_d_q, w_wq, b_d_a, "h", "h")
      /\ sq[7] = dispatch_linear_bwd_dx(b_d_k, w_wk, b_d_b, "h", "kv")
      /\ sq[8] = dispatch_linear_bwd_dx(b_d_v, w_wv, b_d_c, "h", "kv")
      /\ sq[9] = dispatch_add_inplace(b_d_a, b_d_b, "t")
      /\ sq[10] = dispatch_add_inplace(b_d_a, b_d_c, "t")
      /\ sq[11] = dispatch_rmsnorm_bwd_dgain(b_d_a, a_h_in, a_inv_rms1, g_attn_norm_gain)
      /\ sq[12] = dispatch_rmsnorm_bwd_dx(b_d_a, a_h_in, w_attn_norm_gain, a_inv_rms1, b_d_c)
      /\ sq[13] = dispatch_add_inplace(b_d_hidden, b_d_c, "t")
  BY <1>b, <1>s, BackwardProjectionsIs
<1>m. PICK mm : /\ mm[0] = m /\ mm[13] = n
                /\ \A i \in 1 .. 13 : mm[i] = Now(table, mm[i - 1], sq[i])
  BY <1>q, <1>s, ZenonT(60) DEF Turns
<1>w. PICK m0, m1, m2, m3, m4, m5, m6, m7, m8, m9, m10, m11, m12, m13 :
        m0 = mm[0] /\ m1 = mm[1] /\ m2 = mm[2] /\ m3 = mm[3] /\ m4 = mm[4] /\ m5 = mm[5] /\ m6 =
              mm[6] /\ m7 = mm[7] /\ m8 = mm[8] /\ m9 = mm[9] /\ m10 = mm[10] /\ m11 = mm[11] /\ m12
              = mm[12] /\ m13 = mm[13]
  OBVIOUS
<1>0. /\ m0 = m /\ DOMAIN m0 = DOMAIN m
      /\ Holds(m0, a_h_in, n_h_in, s)
      /\ Holds(m0, a_inv_rms1, n_inv_rms1, s)
      /\ Holds(m0, a_normed1, n_normed1, s)
      /\ Holds(m0, b_d_hidden, n_d_after_attn, s)
      /\ Holds(m0, b_d_k, n_d_k_raw, s)
      /\ Holds(m0, b_d_q, n_d_q_raw, s)
      /\ Holds(m0, b_d_v, n_d_v, s)
      /\ m0[g_attn_norm_gain] = m0[g_attn_norm_gain]
      /\ m0[g_mlp_norm_gain] = m0[g_mlp_norm_gain]
      /\ m0[g_w_down] = m0[g_w_down]
      /\ m0[g_w_gate] = m0[g_w_gate]
      /\ m0[g_w_up] = m0[g_w_up]
      /\ m0[g_wk] = m0[g_wk]
      /\ m0[g_wo] = m0[g_wo]
      /\ m0[g_wq] = m0[g_wq]
      /\ m0[g_wv] = m0[g_wv]
      /\ Weighs(m0, w_attn_norm_gain, n_attn_norm_gain)
      /\ Weighs(m0, w_wk, n_wk)
      /\ Weighs(m0, w_wq, n_wq)
      /\ Weighs(m0, w_wv, n_wv)
  BY <1>b, <1>v, <1>m, <1>w, LayerWeighs DEF Activated, ActNames
<1>1n. m1 = Now(table, m0, dispatch_rope(b_d_q, "t", "heads", NoSeq, "inv"))
  <2>1. 1 \in 1 .. 13 /\ 1 - 1 = 0
    OBVIOUS
  <2> QED
    BY <1>m, <1>q, <1>w, <2>1
<1>1w. Wrote(m0, b_d_q, Value(n_d_q, s), m1)
  <2>1. Known(table, "rope", <<n_d_q_raw>>, <<"t", "heads", "inv">>, <<n_d_q>>)
    BY <1>v, <1>t, LayerBackwardKnown
  <2> QED
    BY ONLY <1>c, <1>e, <1>d, <1>h, <1>0, <1>1n, <2>1, ropeTurn
<1>1. /\ DOMAIN m1 = DOMAIN m
      /\ Holds(m1, a_h_in, n_h_in, s)
      /\ Holds(m1, a_inv_rms1, n_inv_rms1, s)
      /\ Holds(m1, a_normed1, n_normed1, s)
      /\ Holds(m1, b_d_hidden, n_d_after_attn, s)
      /\ Holds(m1, b_d_k, n_d_k_raw, s)
      /\ Holds(m1, b_d_q, n_d_q, s)
      /\ Holds(m1, b_d_v, n_d_v, s)
      /\ m1[g_attn_norm_gain] = m0[g_attn_norm_gain]
      /\ m1[g_mlp_norm_gain] = m0[g_mlp_norm_gain]
      /\ m1[g_w_down] = m0[g_w_down]
      /\ m1[g_w_gate] = m0[g_w_gate]
      /\ m1[g_w_up] = m0[g_w_up]
      /\ m1[g_wk] = m0[g_wk]
      /\ m1[g_wo] = m0[g_wo]
      /\ m1[g_wq] = m0[g_wq]
      /\ m1[g_wv] = m0[g_wv]
      /\ Weighs(m1, w_attn_norm_gain, n_attn_norm_gain)
      /\ Weighs(m1, w_wk, n_wk)
      /\ Weighs(m1, w_wq, n_wq)
      /\ Weighs(m1, w_wv, n_wv)
  BY ONLY <1>c, <1>e, <1>d, <1>0, <1>1w DEF Wrote, WroteBoth, Holds, Weighs
<1>2n. m2 = Now(table, m1, dispatch_rope(b_d_k, "t", "kv_heads", NoSeq, "inv"))
  <2>1. 2 \in 1 .. 13 /\ 2 - 1 = 1
    OBVIOUS
  <2> QED
    BY <1>m, <1>q, <1>w, <2>1
<1>2w. Wrote(m1, b_d_k, Value(n_d_k, s), m2)
  <2>1. Known(table, "rope", <<n_d_k_raw>>, <<"t", "kv_heads", "inv">>, <<n_d_k>>)
    BY <1>v, <1>t, LayerBackwardKnown
  <2> QED
    BY ONLY <1>c, <1>e, <1>d, <1>h, <1>1, <1>2n, <2>1, ropeTurn
<1>2. /\ DOMAIN m2 = DOMAIN m
      /\ Holds(m2, a_h_in, n_h_in, s)
      /\ Holds(m2, a_inv_rms1, n_inv_rms1, s)
      /\ Holds(m2, a_normed1, n_normed1, s)
      /\ Holds(m2, b_d_hidden, n_d_after_attn, s)
      /\ Holds(m2, b_d_k, n_d_k, s)
      /\ Holds(m2, b_d_q, n_d_q, s)
      /\ Holds(m2, b_d_v, n_d_v, s)
      /\ m2[g_attn_norm_gain] = m0[g_attn_norm_gain]
      /\ m2[g_mlp_norm_gain] = m0[g_mlp_norm_gain]
      /\ m2[g_w_down] = m0[g_w_down]
      /\ m2[g_w_gate] = m0[g_w_gate]
      /\ m2[g_w_up] = m0[g_w_up]
      /\ m2[g_wk] = m0[g_wk]
      /\ m2[g_wo] = m0[g_wo]
      /\ m2[g_wq] = m0[g_wq]
      /\ m2[g_wv] = m0[g_wv]
      /\ Weighs(m2, w_attn_norm_gain, n_attn_norm_gain)
      /\ Weighs(m2, w_wk, n_wk)
      /\ Weighs(m2, w_wq, n_wq)
      /\ Weighs(m2, w_wv, n_wv)
  BY ONLY <1>c, <1>e, <1>d, <1>1, <1>2w DEF Wrote, WroteBoth, Holds, Weighs
<1>3n. m3 = Now(table, m2, dispatch_linear_bwd_dw(b_d_q, a_normed1, g_wq, "h", "h"))
  <2>1. 3 \in 1 .. 13 /\ 3 - 1 = 2
    OBVIOUS
  <2> QED
    BY <1>m, <1>q, <1>w, <2>1
<1>3w. Wrote(m2, g_wq, Append(m2[g_wq], Value(n_d_wq, s)), m3)
  <2>1. Known(table, "linear_bwd_dw", <<n_d_q, n_normed1>>, <<"t", "h", "h">>, <<n_d_wq>>)
    BY <1>v, <1>t, LayerBackwardKnown
  <2> QED
    BY ONLY <1>c, <1>e, <1>d, <1>h, <1>2, <1>3n, <2>1, linear_bwd_dwTurn
<1>3. /\ DOMAIN m3 = DOMAIN m
      /\ Holds(m3, a_h_in, n_h_in, s)
      /\ Holds(m3, a_inv_rms1, n_inv_rms1, s)
      /\ Holds(m3, a_normed1, n_normed1, s)
      /\ Holds(m3, b_d_hidden, n_d_after_attn, s)
      /\ Holds(m3, b_d_k, n_d_k, s)
      /\ Holds(m3, b_d_q, n_d_q, s)
      /\ Holds(m3, b_d_v, n_d_v, s)
      /\ m3[g_attn_norm_gain] = m0[g_attn_norm_gain]
      /\ m3[g_mlp_norm_gain] = m0[g_mlp_norm_gain]
      /\ m3[g_w_down] = m0[g_w_down]
      /\ m3[g_w_gate] = m0[g_w_gate]
      /\ m3[g_w_up] = m0[g_w_up]
      /\ m3[g_wk] = m0[g_wk]
      /\ m3[g_wo] = m0[g_wo]
      /\ m3[g_wq] = Append(m0[g_wq], Value(n_d_wq, s))
      /\ m3[g_wv] = m0[g_wv]
      /\ Weighs(m3, w_attn_norm_gain, n_attn_norm_gain)
      /\ Weighs(m3, w_wk, n_wk)
      /\ Weighs(m3, w_wq, n_wq)
      /\ Weighs(m3, w_wv, n_wv)
  BY ONLY <1>c, <1>e, <1>d, <1>2, <1>3w DEF Wrote, WroteBoth, Holds, Weighs
<1>4n. m4 = Now(table, m3, dispatch_linear_bwd_dw(b_d_k, a_normed1, g_wk, "h", "kv"))
  <2>1. 4 \in 1 .. 13 /\ 4 - 1 = 3
    OBVIOUS
  <2> QED
    BY <1>m, <1>q, <1>w, <2>1
<1>4w. Wrote(m3, g_wk, Append(m3[g_wk], Value(n_d_wk, s)), m4)
  <2>1. Known(table, "linear_bwd_dw", <<n_d_k, n_normed1>>, <<"t", "h", "kv">>, <<n_d_wk>>)
    BY <1>v, <1>t, LayerBackwardKnown
  <2> QED
    BY ONLY <1>c, <1>e, <1>d, <1>h, <1>3, <1>4n, <2>1, linear_bwd_dwTurn
<1>4. /\ DOMAIN m4 = DOMAIN m
      /\ Holds(m4, a_h_in, n_h_in, s)
      /\ Holds(m4, a_inv_rms1, n_inv_rms1, s)
      /\ Holds(m4, a_normed1, n_normed1, s)
      /\ Holds(m4, b_d_hidden, n_d_after_attn, s)
      /\ Holds(m4, b_d_k, n_d_k, s)
      /\ Holds(m4, b_d_q, n_d_q, s)
      /\ Holds(m4, b_d_v, n_d_v, s)
      /\ m4[g_attn_norm_gain] = m0[g_attn_norm_gain]
      /\ m4[g_mlp_norm_gain] = m0[g_mlp_norm_gain]
      /\ m4[g_w_down] = m0[g_w_down]
      /\ m4[g_w_gate] = m0[g_w_gate]
      /\ m4[g_w_up] = m0[g_w_up]
      /\ m4[g_wk] = Append(m0[g_wk], Value(n_d_wk, s))
      /\ m4[g_wo] = m0[g_wo]
      /\ m4[g_wq] = Append(m0[g_wq], Value(n_d_wq, s))
      /\ m4[g_wv] = m0[g_wv]
      /\ Weighs(m4, w_attn_norm_gain, n_attn_norm_gain)
      /\ Weighs(m4, w_wk, n_wk)
      /\ Weighs(m4, w_wq, n_wq)
      /\ Weighs(m4, w_wv, n_wv)
  BY ONLY <1>c, <1>e, <1>d, <1>3, <1>4w DEF Wrote, WroteBoth, Holds, Weighs
<1>5n. m5 = Now(table, m4, dispatch_linear_bwd_dw(b_d_v, a_normed1, g_wv, "h", "kv"))
  <2>1. 5 \in 1 .. 13 /\ 5 - 1 = 4
    OBVIOUS
  <2> QED
    BY <1>m, <1>q, <1>w, <2>1
<1>5w. Wrote(m4, g_wv, Append(m4[g_wv], Value(n_d_wv, s)), m5)
  <2>1. Known(table, "linear_bwd_dw", <<n_d_v, n_normed1>>, <<"t", "h", "kv">>, <<n_d_wv>>)
    BY <1>v, <1>t, LayerBackwardKnown
  <2> QED
    BY ONLY <1>c, <1>e, <1>d, <1>h, <1>4, <1>5n, <2>1, linear_bwd_dwTurn
<1>5. /\ DOMAIN m5 = DOMAIN m
      /\ Holds(m5, a_h_in, n_h_in, s)
      /\ Holds(m5, a_inv_rms1, n_inv_rms1, s)
      /\ Holds(m5, b_d_hidden, n_d_after_attn, s)
      /\ Holds(m5, b_d_k, n_d_k, s)
      /\ Holds(m5, b_d_q, n_d_q, s)
      /\ Holds(m5, b_d_v, n_d_v, s)
      /\ m5[g_attn_norm_gain] = m0[g_attn_norm_gain]
      /\ m5[g_mlp_norm_gain] = m0[g_mlp_norm_gain]
      /\ m5[g_w_down] = m0[g_w_down]
      /\ m5[g_w_gate] = m0[g_w_gate]
      /\ m5[g_w_up] = m0[g_w_up]
      /\ m5[g_wk] = Append(m0[g_wk], Value(n_d_wk, s))
      /\ m5[g_wo] = m0[g_wo]
      /\ m5[g_wq] = Append(m0[g_wq], Value(n_d_wq, s))
      /\ m5[g_wv] = Append(m0[g_wv], Value(n_d_wv, s))
      /\ Weighs(m5, w_attn_norm_gain, n_attn_norm_gain)
      /\ Weighs(m5, w_wk, n_wk)
      /\ Weighs(m5, w_wq, n_wq)
      /\ Weighs(m5, w_wv, n_wv)
  BY ONLY <1>c, <1>e, <1>d, <1>4, <1>5w, SMTT(60) DEF Wrote, WroteBoth, Holds, Weighs
<1>6n. m6 = Now(table, m5, dispatch_linear_bwd_dx(b_d_q, w_wq, b_d_a, "h", "h"))
  <2>1. 6 \in 1 .. 13 /\ 6 - 1 = 5
    OBVIOUS
  <2> QED
    BY <1>m, <1>q, <1>w, <2>1
<1>6w. Wrote(m5, b_d_a, Value(n_d_normed1_q, s), m6)
  <2>1. Known(table, "linear_bwd_dx", <<n_d_q, n_wq>>, <<"t", "h", "h">>, <<n_d_normed1_q>>)
    BY <1>v, <1>t, LayerBackwardKnown
  <2> QED
    BY ONLY <1>c, <1>e, <1>d, <1>h, <1>5, <1>6n, <2>1, linear_bwd_dxTurn
<1>6. /\ DOMAIN m6 = DOMAIN m
      /\ Holds(m6, a_h_in, n_h_in, s)
      /\ Holds(m6, a_inv_rms1, n_inv_rms1, s)
      /\ Holds(m6, b_d_a, n_d_normed1_q, s)
      /\ Holds(m6, b_d_hidden, n_d_after_attn, s)
      /\ Holds(m6, b_d_k, n_d_k, s)
      /\ Holds(m6, b_d_v, n_d_v, s)
      /\ m6[g_attn_norm_gain] = m0[g_attn_norm_gain]
      /\ m6[g_mlp_norm_gain] = m0[g_mlp_norm_gain]
      /\ m6[g_w_down] = m0[g_w_down]
      /\ m6[g_w_gate] = m0[g_w_gate]
      /\ m6[g_w_up] = m0[g_w_up]
      /\ m6[g_wk] = Append(m0[g_wk], Value(n_d_wk, s))
      /\ m6[g_wo] = m0[g_wo]
      /\ m6[g_wq] = Append(m0[g_wq], Value(n_d_wq, s))
      /\ m6[g_wv] = Append(m0[g_wv], Value(n_d_wv, s))
      /\ Weighs(m6, w_attn_norm_gain, n_attn_norm_gain)
      /\ Weighs(m6, w_wk, n_wk)
      /\ Weighs(m6, w_wv, n_wv)
  BY ONLY <1>c, <1>e, <1>d, <1>5, <1>6w, ZenonT(60) DEF Wrote, WroteBoth, Holds, Weighs
<1>7n. m7 = Now(table, m6, dispatch_linear_bwd_dx(b_d_k, w_wk, b_d_b, "h", "kv"))
  <2>1. 7 \in 1 .. 13 /\ 7 - 1 = 6
    OBVIOUS
  <2> QED
    BY <1>m, <1>q, <1>w, <2>1
<1>7w. Wrote(m6, b_d_b, Value(n_d_normed1_k, s), m7)
  <2>1. Known(table, "linear_bwd_dx", <<n_d_k, n_wk>>, <<"t", "h", "kv">>, <<n_d_normed1_k>>)
    BY <1>v, <1>t, LayerBackwardKnown
  <2> QED
    BY ONLY <1>c, <1>e, <1>d, <1>h, <1>6, <1>7n, <2>1, linear_bwd_dxTurn
<1>7. /\ DOMAIN m7 = DOMAIN m
      /\ Holds(m7, a_h_in, n_h_in, s)
      /\ Holds(m7, a_inv_rms1, n_inv_rms1, s)
      /\ Holds(m7, b_d_a, n_d_normed1_q, s)
      /\ Holds(m7, b_d_b, n_d_normed1_k, s)
      /\ Holds(m7, b_d_hidden, n_d_after_attn, s)
      /\ Holds(m7, b_d_v, n_d_v, s)
      /\ m7[g_attn_norm_gain] = m0[g_attn_norm_gain]
      /\ m7[g_mlp_norm_gain] = m0[g_mlp_norm_gain]
      /\ m7[g_w_down] = m0[g_w_down]
      /\ m7[g_w_gate] = m0[g_w_gate]
      /\ m7[g_w_up] = m0[g_w_up]
      /\ m7[g_wk] = Append(m0[g_wk], Value(n_d_wk, s))
      /\ m7[g_wo] = m0[g_wo]
      /\ m7[g_wq] = Append(m0[g_wq], Value(n_d_wq, s))
      /\ m7[g_wv] = Append(m0[g_wv], Value(n_d_wv, s))
      /\ Weighs(m7, w_attn_norm_gain, n_attn_norm_gain)
      /\ Weighs(m7, w_wv, n_wv)
  BY ONLY <1>c, <1>e, <1>d, <1>6, <1>7w, SMTT(60) DEF Wrote, WroteBoth, Holds, Weighs
<1>8n. m8 = Now(table, m7, dispatch_linear_bwd_dx(b_d_v, w_wv, b_d_c, "h", "kv"))
  <2>1. 8 \in 1 .. 13 /\ 8 - 1 = 7
    OBVIOUS
  <2> QED
    BY <1>m, <1>q, <1>w, <2>1
<1>8w. Wrote(m7, b_d_c, Value(n_d_normed1_v, s), m8)
  <2>1. Known(table, "linear_bwd_dx", <<n_d_v, n_wv>>, <<"t", "h", "kv">>, <<n_d_normed1_v>>)
    BY <1>v, <1>t, LayerBackwardKnown
  <2> QED
    BY ONLY <1>c, <1>e, <1>d, <1>h, <1>7, <1>8n, <2>1, linear_bwd_dxTurn
<1>8. /\ DOMAIN m8 = DOMAIN m
      /\ Holds(m8, a_h_in, n_h_in, s)
      /\ Holds(m8, a_inv_rms1, n_inv_rms1, s)
      /\ Holds(m8, b_d_a, n_d_normed1_q, s)
      /\ Holds(m8, b_d_b, n_d_normed1_k, s)
      /\ Holds(m8, b_d_c, n_d_normed1_v, s)
      /\ Holds(m8, b_d_hidden, n_d_after_attn, s)
      /\ m8[g_attn_norm_gain] = m0[g_attn_norm_gain]
      /\ m8[g_mlp_norm_gain] = m0[g_mlp_norm_gain]
      /\ m8[g_w_down] = m0[g_w_down]
      /\ m8[g_w_gate] = m0[g_w_gate]
      /\ m8[g_w_up] = m0[g_w_up]
      /\ m8[g_wk] = Append(m0[g_wk], Value(n_d_wk, s))
      /\ m8[g_wo] = m0[g_wo]
      /\ m8[g_wq] = Append(m0[g_wq], Value(n_d_wq, s))
      /\ m8[g_wv] = Append(m0[g_wv], Value(n_d_wv, s))
      /\ Weighs(m8, w_attn_norm_gain, n_attn_norm_gain)
  BY ONLY <1>c, <1>e, <1>d, <1>7, <1>8w, SMTT(60) DEF Wrote, WroteBoth, Holds, Weighs
<1>9n. m9 = Now(table, m8, dispatch_add_inplace(b_d_a, b_d_b, "t"))
  <2>1. 9 \in 1 .. 13 /\ 9 - 1 = 8
    OBVIOUS
  <2> QED
    BY <1>m, <1>q, <1>w, <2>1
<1>9w. Wrote(m8, b_d_a, Value(n_d_normed1_qk, s), m9)
  <2>1. Known(table, "add", <<n_d_normed1_q, n_d_normed1_k>>, <<"t", "h">>, <<n_d_normed1_qk>>)
    BY <1>v, <1>t, LayerBackwardKnown
  <2> QED
    BY ONLY <1>c, <1>e, <1>d, <1>h, <1>8, <1>9n, <2>1, addTurn
<1>9. /\ DOMAIN m9 = DOMAIN m
      /\ Holds(m9, a_h_in, n_h_in, s)
      /\ Holds(m9, a_inv_rms1, n_inv_rms1, s)
      /\ Holds(m9, b_d_a, n_d_normed1_qk, s)
      /\ Holds(m9, b_d_c, n_d_normed1_v, s)
      /\ Holds(m9, b_d_hidden, n_d_after_attn, s)
      /\ m9[g_attn_norm_gain] = m0[g_attn_norm_gain]
      /\ m9[g_mlp_norm_gain] = m0[g_mlp_norm_gain]
      /\ m9[g_w_down] = m0[g_w_down]
      /\ m9[g_w_gate] = m0[g_w_gate]
      /\ m9[g_w_up] = m0[g_w_up]
      /\ m9[g_wk] = Append(m0[g_wk], Value(n_d_wk, s))
      /\ m9[g_wo] = m0[g_wo]
      /\ m9[g_wq] = Append(m0[g_wq], Value(n_d_wq, s))
      /\ m9[g_wv] = Append(m0[g_wv], Value(n_d_wv, s))
      /\ Weighs(m9, w_attn_norm_gain, n_attn_norm_gain)
  BY ONLY <1>c, <1>e, <1>d, <1>8, <1>9w, SMTT(60) DEF Wrote, WroteBoth, Holds, Weighs
<1>10n. m10 = Now(table, m9, dispatch_add_inplace(b_d_a, b_d_c, "t"))
  <2>1. 10 \in 1 .. 13 /\ 10 - 1 = 9
    OBVIOUS
  <2> QED
    BY <1>m, <1>q, <1>w, <2>1
<1>10w. Wrote(m9, b_d_a, Value(n_d_normed1, s), m10)
  <2>1. Known(table, "add", <<n_d_normed1_qk, n_d_normed1_v>>, <<"t", "h">>, <<n_d_normed1>>)
    BY <1>v, <1>t, LayerBackwardKnown
  <2> QED
    BY ONLY <1>c, <1>e, <1>d, <1>h, <1>9, <1>10n, <2>1, addTurn
<1>10. /\ DOMAIN m10 = DOMAIN m
      /\ Holds(m10, a_h_in, n_h_in, s)
      /\ Holds(m10, a_inv_rms1, n_inv_rms1, s)
      /\ Holds(m10, b_d_a, n_d_normed1, s)
      /\ Holds(m10, b_d_hidden, n_d_after_attn, s)
      /\ m10[g_attn_norm_gain] = m0[g_attn_norm_gain]
      /\ m10[g_mlp_norm_gain] = m0[g_mlp_norm_gain]
      /\ m10[g_w_down] = m0[g_w_down]
      /\ m10[g_w_gate] = m0[g_w_gate]
      /\ m10[g_w_up] = m0[g_w_up]
      /\ m10[g_wk] = Append(m0[g_wk], Value(n_d_wk, s))
      /\ m10[g_wo] = m0[g_wo]
      /\ m10[g_wq] = Append(m0[g_wq], Value(n_d_wq, s))
      /\ m10[g_wv] = Append(m0[g_wv], Value(n_d_wv, s))
      /\ Weighs(m10, w_attn_norm_gain, n_attn_norm_gain)
  BY ONLY <1>c, <1>e, <1>d, <1>9, <1>10w, SMTT(60) DEF Wrote, WroteBoth, Holds, Weighs
<1>11n. m11 = Now(table, m10, dispatch_rmsnorm_bwd_dgain(b_d_a, a_h_in, a_inv_rms1,
          g_attn_norm_gain))
  <2>1. 11 \in 1 .. 13 /\ 11 - 1 = 10
    OBVIOUS
  <2> QED
    BY <1>m, <1>q, <1>w, <2>1
<1>11w. Wrote(m10, g_attn_norm_gain, Append(m10[g_attn_norm_gain], Value(n_d_attn_norm_gain, s)),
          m11)
  <2>1. Known(table, "rmsnorm_bwd_dgain", <<n_d_normed1, n_h_in, n_inv_rms1>>, <<"t", "h">>,
            <<n_d_attn_norm_gain>>)
    BY <1>v, <1>t, LayerBackwardKnown
  <2> QED
    BY ONLY <1>c, <1>e, <1>d, <1>h, <1>10, <1>11n, <2>1, rmsnorm_bwd_dgainTurn
<1>11. /\ DOMAIN m11 = DOMAIN m
      /\ Holds(m11, a_h_in, n_h_in, s)
      /\ Holds(m11, a_inv_rms1, n_inv_rms1, s)
      /\ Holds(m11, b_d_a, n_d_normed1, s)
      /\ Holds(m11, b_d_hidden, n_d_after_attn, s)
      /\ m11[g_attn_norm_gain] = Append(m0[g_attn_norm_gain], Value(n_d_attn_norm_gain, s))
      /\ m11[g_mlp_norm_gain] = m0[g_mlp_norm_gain]
      /\ m11[g_w_down] = m0[g_w_down]
      /\ m11[g_w_gate] = m0[g_w_gate]
      /\ m11[g_w_up] = m0[g_w_up]
      /\ m11[g_wk] = Append(m0[g_wk], Value(n_d_wk, s))
      /\ m11[g_wo] = m0[g_wo]
      /\ m11[g_wq] = Append(m0[g_wq], Value(n_d_wq, s))
      /\ m11[g_wv] = Append(m0[g_wv], Value(n_d_wv, s))
      /\ Weighs(m11, w_attn_norm_gain, n_attn_norm_gain)
  BY ONLY <1>c, <1>e, <1>d, <1>10, <1>11w, ZenonT(60) DEF Wrote, WroteBoth, Holds, Weighs
<1>12n. m12 = Now(table, m11, dispatch_rmsnorm_bwd_dx(b_d_a, a_h_in, w_attn_norm_gain, a_inv_rms1,
          b_d_c))
  <2>1. 12 \in 1 .. 13 /\ 12 - 1 = 11
    OBVIOUS
  <2> QED
    BY <1>m, <1>q, <1>w, <2>1
<1>12w. Wrote(m11, b_d_c, Value(n_d_norm1, s), m12)
  <2>1. Known(table, "rmsnorm_bwd_dx", <<n_d_normed1, n_h_in, n_attn_norm_gain, n_inv_rms1>>, <<"t",
            "h">>, <<n_d_norm1>>)
    BY <1>v, <1>t, LayerBackwardKnown
  <2> QED
    BY ONLY <1>c, <1>e, <1>d, <1>h, <1>11, <1>12n, <2>1, rmsnorm_bwd_dxTurn
<1>12. /\ DOMAIN m12 = DOMAIN m
      /\ Holds(m12, b_d_c, n_d_norm1, s)
      /\ Holds(m12, b_d_hidden, n_d_after_attn, s)
      /\ m12[g_attn_norm_gain] = Append(m0[g_attn_norm_gain], Value(n_d_attn_norm_gain, s))
      /\ m12[g_mlp_norm_gain] = m0[g_mlp_norm_gain]
      /\ m12[g_w_down] = m0[g_w_down]
      /\ m12[g_w_gate] = m0[g_w_gate]
      /\ m12[g_w_up] = m0[g_w_up]
      /\ m12[g_wk] = Append(m0[g_wk], Value(n_d_wk, s))
      /\ m12[g_wo] = m0[g_wo]
      /\ m12[g_wq] = Append(m0[g_wq], Value(n_d_wq, s))
      /\ m12[g_wv] = Append(m0[g_wv], Value(n_d_wv, s))
  BY ONLY <1>c, <1>e, <1>d, <1>11, <1>12w, SMTT(60) DEF Wrote, WroteBoth, Holds, Weighs
<1>13n. m13 = Now(table, m12, dispatch_add_inplace(b_d_hidden, b_d_c, "t"))
  <2>1. 13 \in 1 .. 13 /\ 13 - 1 = 12
    OBVIOUS
  <2> QED
    BY <1>m, <1>q, <1>w, <2>1
<1>13w. Wrote(m12, b_d_hidden, Value(n_d_in, s), m13)
  <2>1. Known(table, "add", <<n_d_after_attn, n_d_norm1>>, <<"t", "h">>, <<n_d_in>>)
    BY <1>v, <1>t, LayerBackwardKnown
  <2> QED
    BY ONLY <1>c, <1>e, <1>d, <1>h, <1>12, <1>13n, <2>1, addTurn
<1>13. /\ DOMAIN m13 = DOMAIN m
      /\ Holds(m13, b_d_hidden, n_d_in, s)
      /\ m13[g_attn_norm_gain] = Append(m0[g_attn_norm_gain], Value(n_d_attn_norm_gain, s))
      /\ m13[g_mlp_norm_gain] = m0[g_mlp_norm_gain]
      /\ m13[g_w_down] = m0[g_w_down]
      /\ m13[g_w_gate] = m0[g_w_gate]
      /\ m13[g_w_up] = m0[g_w_up]
      /\ m13[g_wk] = Append(m0[g_wk], Value(n_d_wk, s))
      /\ m13[g_wo] = m0[g_wo]
      /\ m13[g_wq] = Append(m0[g_wq], Value(n_d_wq, s))
      /\ m13[g_wv] = Append(m0[g_wv], Value(n_d_wv, s))
  BY ONLY <1>c, <1>e, <1>d, <1>12, <1>13w, ZenonT(60) DEF Wrote, WroteBoth, Holds, Weighs
<1>z. mm[0] = m /\ m0 = mm[0] /\ mm[13] = n /\ m13 = mm[13]
  BY <1>m, <1>w
<1>y. n = m13 /\ m = m0
  BY ONLY <1>z
<1>x. Holds(n, Scratch("d_hidden"), <<"d_in", l>>, s)
  BY <1>b, <1>v, <1>y, <1>13
<1>g. /\ n[LayerOf("grads", l, "attn_norm_gain")] = Append(m[LayerOf("grads", l, "attn_norm_gain")],
          Value(<<"d_attn_norm_gain", l>>, s))
      /\ n[LayerOf("grads", l, "wq")] = Append(m[LayerOf("grads", l, "wq")], Value(<<"d_wq", l>>,
            s))
      /\ n[LayerOf("grads", l, "wk")] = Append(m[LayerOf("grads", l, "wk")], Value(<<"d_wk", l>>,
            s))
      /\ n[LayerOf("grads", l, "wv")] = Append(m[LayerOf("grads", l, "wv")], Value(<<"d_wv", l>>,
            s))
      /\ n[LayerOf("grads", l, "wo")] = m[LayerOf("grads", l, "wo")]
      /\ n[LayerOf("grads", l, "mlp_norm_gain")] = m[LayerOf("grads", l, "mlp_norm_gain")]
      /\ n[LayerOf("grads", l, "w_gate")] = m[LayerOf("grads", l, "w_gate")]
      /\ n[LayerOf("grads", l, "w_up")] = m[LayerOf("grads", l, "w_up")]
      /\ n[LayerOf("grads", l, "w_down")] = m[LayerOf("grads", l, "w_down")]
  BY <1>b, <1>v, <1>y, <1>13
<1>f. Grows(m, n, l, s, {"attn_norm_gain", "wq", "wk", "wv"})
  <2> SUFFICES ASSUME NEW which \in GradNames
               PROVE  n[LayerOf("grads", l, which)]
                      = IF which \in {"attn_norm_gain", "wq", "wk", "wv"}
                        THEN Append(m[LayerOf("grads", l, which)], Value(<<GradientName[which], l>>,
                              s))
                        ELSE m[LayerOf("grads", l, which)]
    BY DEF Grows
  <2>1. CASE which = "attn_norm_gain"
    BY <1>g, <2>1 DEF GradientName
  <2>2. CASE which = "wq"
    BY <1>g, <2>2 DEF GradientName
  <2>3. CASE which = "wk"
    BY <1>g, <2>3 DEF GradientName
  <2>4. CASE which = "wv"
    BY <1>g, <2>4 DEF GradientName
  <2>5. CASE which = "wo"
    BY <1>g, <2>5 DEF GradientName
  <2>6. CASE which = "mlp_norm_gain"
    BY <1>g, <2>6 DEF GradientName
  <2>7. CASE which = "w_gate"
    BY <1>g, <2>7 DEF GradientName
  <2>8. CASE which = "w_up"
    BY <1>g, <2>8 DEF GradientName
  <2>9. CASE which = "w_down"
    BY <1>g, <2>9 DEF GradientName
  <2> QED
    BY <2>1, <2>2, <2>3, <2>4, <2>5, <2>6, <2>7, <2>8, <2>9 DEF GradNames
<1> QED
  BY <1>x, <1>f

-----------------------------------------------------------------------------
(* The backward pass through a layer, as a whole.                          *)

\* Buffers that last are not those the passes compute into.
LEMMA LastingApart ==
    ASSUME NEW b, Lasting(b)
    PROVE  /\ \A name, l : Acts(name, l) # b
           /\ \A name \in ScratchNames : Scratch(name) # b
           /\ \A l, which : LayerOf("grads", l, which) # b
           /\ \A i : InSet("grads", i) # b
           /\ EmbedOf("grads") # b /\ FinalGainOf("grads") # b
<1>1. \/ b[3] = "params" /\ b[1] = "weights"
      \/ b[3] = "scratch" /\ b[1] \in {"row_ids", "row_offsets", "row_positions", "stats"}
  BY DEF Lasting, InSet, Scratch, Stats, RowNames
<1>2. \A name, l : Acts(name, l)[3] = "acts"
  BY DEF Acts
<1>3. \A name : Scratch(name)[3] = "scratch" /\ Scratch(name)[1] = name
  BY DEF Scratch
<1>4. \A i : InSet("grads", i)[3] = "params" /\ InSet("grads", i)[1] = "grads"
  BY DEF InSet
<1>5. \A l, which : LayerOf("grads", l, which)[3] = "params" /\ LayerOf("grads", l, which)[1] = "grads"
  BY LayerIn
<1>6. /\ EmbedOf("grads")[3] = "params" /\ EmbedOf("grads")[1] = "grads"
      /\ FinalGainOf("grads")[3] = "params" /\ FinalGainOf("grads")[1] = "grads"
  BY DEF EmbedOf, FinalGainOf, InSet
<1> QED
  BY ONLY <1>1, <1>2, <1>3, <1>4, <1>5, <1>6 DEF ScratchNames

\* Nor are the activations those of the other passes.
LEMMA ActsApart ==
    ASSUME NEW name, NEW l
    PROVE  /\ \A x : Scratch(x) # Acts(name, l)
           /\ \A k, which : LayerOf("grads", k, which) # Acts(name, l)
           /\ \A i : InSet("grads", i) # Acts(name, l)
           /\ EmbedOf("grads") # Acts(name, l) /\ FinalGainOf("grads") # Acts(name, l)
           /\ Stats # Acts(name, l)
<1>1. Acts(name, l)[3] = "acts"
  BY DEF Acts
<1>2. \A x : Scratch(x)[3] = "scratch"
  BY DEF Scratch
<1>3. \A i : InSet("grads", i)[3] = "params"
  BY DEF InSet
<1>4. \A k, which : LayerOf("grads", k, which)[3] = "params"
  BY LayerIn
<1>5. EmbedOf("grads")[3] = "params" /\ FinalGainOf("grads")[3] = "params"
  BY DEF EmbedOf, FinalGainOf, InSet
<1>6. Stats[3] = "scratch"
  BY DEF Stats, Scratch
<1> QED
  BY ONLY <1>1, <1>2, <1>3, <1>4, <1>5, <1>6

\* A pass that leaves what lasts leaves the memory of a trainer.
LEMMA TrainsStill ==
    ASSUME NEW results, NEW m, NEW q, NEW n, Trains(m), Turns(results, m, q, n),
           \A b : Lasting(b) => Passing(q, b)
    PROVE  Trains(n) /\ DOMAIN n = DOMAIN m
<1>1. Lasting(Stats)
  BY DEF Lasting
<1>2. \A b : Lasting(b) => DOMAIN n = DOMAIN m /\ (b \in DOMAIN m => n[b] = m[b])
  BY TurnsKeep
<1>3. DOMAIN n = DOMAIN m
  BY <1>1, <1>2
<1> QED
  BY <1>2, <1>3, TrainsOn

\* One that leaves a layer's activations leaves the layer activated.
LEMMA ActivatedStill ==
    ASSUME NEW results, NEW m, NEW q, NEW n, Trains(m), Turns(results, m, q, n),
           NEW l \in 1 .. Layers, NEW s, Activated(m, l, s),
           \A name \in ActNames : Passing(q, Acts(name, l))
    PROVE  Activated(n, l, s)
<1>1. \A name \in ActNames : n[Acts(name, l)] = m[Acts(name, l)]
  <2> TAKE name \in ActNames
  <2>1. Passing(q, Acts(name, l)) /\ Acts(name, l) \in DOMAIN m
    BY DEF Trains
  <2> QED
    BY <2>1, TurnsKeep
<1> QED
  BY <1>1 DEF Activated, Holds

\* The tensors of a layer are those of its slots.
LEMMA SlotOfLayer ==
    ASSUME NEW set, NEW l, NEW t \in 1 .. 9
    PROVE  LayerTensors[t] \in GradNames /\ InSet(set, 1 + (l - 1) * 9 + t) = LayerOf(set, l, LayerTensors[t])
<1>p. PICK k : k = 1 + (l - 1) * 9
  OBVIOUS
<1>1. /\ LayerTensors[1] = "attn_norm_gain" /\ LayerTensors[2] = "wq" /\ LayerTensors[3] = "wk"
      /\ LayerTensors[4] = "wv" /\ LayerTensors[5] = "wo" /\ LayerTensors[6] = "mlp_norm_gain"
      /\ LayerTensors[7] = "w_gate" /\ LayerTensors[8] = "w_up" /\ LayerTensors[9] = "w_down"
  BY DEF LayerTensors
<1>2. /\ LayerOf(set, l, "attn_norm_gain") = InSet(set, k + 1)
      /\ LayerOf(set, l, "wq") = InSet(set, k + 2)
      /\ LayerOf(set, l, "wk") = InSet(set, k + 3)
      /\ LayerOf(set, l, "wv") = InSet(set, k + 4)
      /\ LayerOf(set, l, "wo") = InSet(set, k + 5)
      /\ LayerOf(set, l, "mlp_norm_gain") = InSet(set, k + 6)
      /\ LayerOf(set, l, "w_gate") = InSet(set, k + 7)
      /\ LayerOf(set, l, "w_up") = InSet(set, k + 8)
      /\ LayerOf(set, l, "w_down") = InSet(set, k + 9)
  BY <1>p, LayerOfIs
<1>3. t = 1 \/ t = 2 \/ t = 3 \/ t = 4 \/ t = 5 \/ t = 6 \/ t = 7 \/ t = 8 \/ t = 9
  OBVIOUS
<1>4. LayerTensors[t] \in GradNames /\ InSet(set, k + t) = LayerOf(set, l, LayerTensors[t])
  BY ONLY <1>1, <1>2, <1>3 DEF GradNames
<1> QED
  BY <1>4, <1>p

\* And every tensor of a layer has a slot.
LEMMA LayerHasSlot ==
    ASSUME NEW set, NEW l, NEW which \in GradNames
    PROVE  \E t \in 1 .. 9 : LayerTensors[t] = which /\ LayerOf(set, l, which) = InSet(set, 1 + (l - 1) * 9 + t)
<1>1. /\ LayerTensors[1] = "attn_norm_gain" /\ LayerTensors[2] = "wq" /\ LayerTensors[3] = "wk"
      /\ LayerTensors[4] = "wv" /\ LayerTensors[5] = "wo" /\ LayerTensors[6] = "mlp_norm_gain"
      /\ LayerTensors[7] = "w_gate" /\ LayerTensors[8] = "w_up" /\ LayerTensors[9] = "w_down"
  BY DEF LayerTensors
<1>2. /\ 1 \in 1 .. 9 /\ 2 \in 1 .. 9 /\ 3 \in 1 .. 9 /\ 4 \in 1 .. 9 /\ 5 \in 1 .. 9
      /\ 6 \in 1 .. 9 /\ 7 \in 1 .. 9 /\ 8 \in 1 .. 9 /\ 9 \in 1 .. 9
  OBVIOUS
<1>3. \E t \in 1 .. 9 : LayerTensors[t] = which
  BY ONLY <1>1, <1>2, which \in GradNames DEF GradNames
<1>4. PICK t \in 1 .. 9 : LayerTensors[t] = which
  BY <1>3
<1> QED
  BY <1>4, SlotOfLayer

\* Two layers share none.
LEMMA LayersApart ==
    ASSUME NEW set, NEW l \in Nat, NEW j \in Nat, l # j, NEW a \in GradNames, NEW b \in GradNames
    PROVE  LayerOf(set, l, a) # LayerOf(set, j, b)
<1>1. PICK t \in 1 .. 9 : LayerOf(set, l, a) = InSet(set, 1 + (l - 1) * 9 + t)
  BY LayerHasSlot
<1>2. PICK u \in 1 .. 9 : LayerOf(set, j, b) = InSet(set, 1 + (j - 1) * 9 + u)
  BY LayerHasSlot
<1>3. 1 + (l - 1) * 9 + t # 1 + (j - 1) * 9 + u
  OBVIOUS
<1>4. \A x, y : x # y => InSet(set, x) # InSet(set, y)
  BY DEF InSet
<1> QED
  BY <1>1, <1>2, <1>3, <1>4

\* Nor with the tensors outside the layers.
LEMMA LayersInside ==
    ASSUME NEW set, NEW l \in 1 .. Layers, NEW a \in GradNames
    PROVE  LayerOf(set, l, a) # EmbedOf(set) /\ LayerOf(set, l, a) # FinalGainOf(set)
<1>1. PICK t \in 1 .. 9 : LayerOf(set, l, a) = InSet(set, 1 + (l - 1) * 9 + t)
  BY LayerHasSlot
<1>2. EmbedOf(set) = InSet(set, 1) /\ FinalGainOf(set) = InSet(set, 2 + Layers * 9)
  BY DEF EmbedOf, FinalGainOf, TENSORS_PER_LAYER, LayerTensors
<1>3. 1 + (l - 1) * 9 + t # 1 /\ 1 + (l - 1) * 9 + t # 2 + Layers * 9
  BY LayersAssumption
<1>4. \A x, y : x # y => InSet(set, x) # InSet(set, y)
  BY DEF InSet
<1> QED
  BY <1>1, <1>2, <1>3, <1>4

\* A layer's part of the backward pass takes the gradient of what the layer
\* gave to that of what it was given, and adds to its tensors' gradients.
LEMMA LayerBackwardTurn ==
    ASSUME NEW table, table = Results[FALSE], NEW m, Trains(m), NEW s, s # NoSeq,
           NEW l \in 1 .. Layers, Activated(m, l, s),
           Holds(m, Scratch("d_hidden"), StreamGradient(l), s),
           NEW n, Turns(table, m, BackwardMlp(l) \o BackwardAttention(l), n)
    PROVE  Holds(n, Scratch("d_hidden"), <<"d_in", l>>, s) /\ Grows(m, n, l, s, GradNames)
<1>p. PICK q1, q2, q3, q4 : /\ q1 = BackwardMlp(l) /\ q2 = BackwardOutput(l)
                            /\ q3 = dispatch_attention_bwd(l) /\ q4 = BackwardProjections(l)
  OBVIOUS
<1>1. IsSeq(q1) /\ IsSeq(q2) /\ IsSeq(q3) /\ IsSeq(q4)
  BY <1>p, BackwardMlpIs, BackwardOutputIs, dispatch_attention_bwdIs, BackwardProjectionsIs
<1>2. IsSeq(q2 \o q3) /\ IsSeq((q2 \o q3) \o q4)
  BY <1>1, ConcatIs
<1>3. Turns(table, m, q1 \o ((q2 \o q3) \o q4), n)
  BY <1>p DEF BackwardAttention
<1>4. PICK m1 : Turns(table, m, q1, m1) /\ Turns(table, m1, (q2 \o q3) \o q4, n)
  BY ONLY <1>1, <1>2, <1>3, TurnsSplit
<1>5. PICK m3 : Turns(table, m1, q2 \o q3, m3) /\ Turns(table, m3, q4, n)
  BY ONLY <1>1, <1>2, <1>4, TurnsSplit
<1>6. PICK m2 : Turns(table, m1, q2, m2) /\ Turns(table, m2, q3, m3)
  BY ONLY <1>1, <1>5, TurnsSplit
<1>7. \A b : Lasting(b) => Passing(q1, b) /\ Passing(q2, b) /\ Passing(q3, b)
  <2> SUFFICES ASSUME NEW b, Lasting(b) PROVE Passing(q1, b) /\ Passing(q2, b) /\ Passing(q3, b)
    OBVIOUS
  <2>1. /\ \A which \in GradNames : LayerOf("grads", l, which) # b
        /\ b \notin {Scratch("act"), Scratch("d_act"), Scratch("d_gate"), Scratch("d_up"),
                     Scratch("d_a"), Scratch("d_b"), Scratch("d_c"), Scratch("d_hidden"),
                     Scratch("d_score"), Scratch("d_q"), Scratch("d_k"), Scratch("d_v")}
    BY LastingApart DEF ScratchNames
  <2> QED
    BY <1>p, <2>1, BackwardMlpPasses, BackwardOutputPasses, dispatch_attention_bwdPasses
<1>8. \A name : Passing(q1, Acts(name, l)) /\ Passing(q2, Acts(name, l)) /\ Passing(q3, Acts(name, l))
  <2> SUFFICES ASSUME NEW name
               PROVE  Passing(q1, Acts(name, l)) /\ Passing(q2, Acts(name, l)) /\ Passing(q3, Acts(name, l))
    OBVIOUS
  <2>p. PICK b : b = Acts(name, l)
    OBVIOUS
  <2>1. /\ \A which \in GradNames : LayerOf("grads", l, which) # b
        /\ b \notin {Scratch("act"), Scratch("d_act"), Scratch("d_gate"), Scratch("d_up"),
                     Scratch("d_a"), Scratch("d_b"), Scratch("d_c"), Scratch("d_hidden"),
                     Scratch("d_score"), Scratch("d_q"), Scratch("d_k"), Scratch("d_v")}
    BY <2>p, ActsApart
  <2> QED
    BY <1>p, <2>p, <2>1, BackwardMlpPasses, BackwardOutputPasses, dispatch_attention_bwdPasses
<1>9. Trains(m1) /\ Trains(m2) /\ Trains(m3) /\ DOMAIN m1 = DOMAIN m /\ DOMAIN m2 = DOMAIN m
  <2>1. Trains(m1) /\ DOMAIN m1 = DOMAIN m
    BY ONLY <1>4, <1>7, Trains(m), TrainsStill
  <2>2. Trains(m2) /\ DOMAIN m2 = DOMAIN m1
    BY ONLY <1>6, <1>7, <2>1, TrainsStill
  <2>3. Trains(m3)
    BY ONLY <1>6, <1>7, <2>2, TrainsStill
  <2> QED
    BY ONLY <2>1, <2>2, <2>3
<1>10. Activated(m1, l, s) /\ Activated(m2, l, s) /\ Activated(m3, l, s)
  <2>1. Activated(m1, l, s)
    BY ONLY <1>4, <1>8, Trains(m), Activated(m, l, s), l \in 1 .. Layers, ActivatedStill
  <2>2. Activated(m2, l, s)
    BY ONLY <1>6, <1>8, <1>9, <2>1, l \in 1 .. Layers, ActivatedStill
  <2>3. Activated(m3, l, s)
    BY ONLY <1>6, <1>8, <1>9, <2>2, l \in 1 .. Layers, ActivatedStill
  <2> QED
    BY ONLY <2>1, <2>2, <2>3
<1>11. Holds(m1, Scratch("d_hidden"), <<"d_after_attn", l>>, s)
  BY <1>4, <1>p, BackwardMlpTurn
<1>12. Holds(m2, Scratch("d_a"), <<"d_concat", l>>, s)
  BY <1>6, <1>9, <1>10, <1>11, <1>p, BackwardOutputTurn
<1>13. /\ Holds(m3, Scratch("d_q"), <<"d_q_raw", l>>, s) /\ Holds(m3, Scratch("d_k"), <<"d_k_raw", l>>, s)
       /\ Holds(m3, Scratch("d_v"), <<"d_v", l>>, s)
  BY <1>6, <1>9, <1>10, <1>12, <1>p, AttentionTurn
<1>14. Holds(m3, Scratch("d_hidden"), <<"d_after_attn", l>>, s)
  <2>p. PICK b : b = Scratch("d_hidden")
    OBVIOUS
  <2>1. b \in DOMAIN m1 /\ b \in DOMAIN m2
    BY <1>9, <2>p DEF Trains, ScratchNames
  <2>2. /\ \A which \in GradNames : LayerOf("grads", l, which) # b
        /\ b \notin {Scratch("d_a"), Scratch("d_score"), Scratch("d_q"), Scratch("d_k"), Scratch("d_v")}
    <3>1. b[3] = "scratch" /\ b[1] = "d_hidden"
      BY <2>p DEF Scratch
    <3>2. \A name : Scratch(name)[1] = name
      BY DEF Scratch
    <3>3. \A which : LayerOf("grads", l, which)[3] = "params"
      BY LayerIn
    <3> QED
      BY ONLY <3>1, <3>2, <3>3
  <2>3. Passing(q2, b) /\ Passing(q3, b)
    BY <1>p, <2>2, BackwardOutputPasses, dispatch_attention_bwdPasses
  <2>4. m2[b] = m1[b] /\ m3[b] = m2[b]
    <3>1. DOMAIN m2 = DOMAIN m1 /\ (b \in DOMAIN m1 => m2[b] = m1[b])
      BY ONLY <1>6, <2>3, TurnsKeep
    <3>2. DOMAIN m3 = DOMAIN m2 /\ (b \in DOMAIN m2 => m3[b] = m2[b])
      BY ONLY <1>6, <2>3, TurnsKeep
    <3> QED
      BY ONLY <2>1, <3>1, <3>2
  <2> QED
    BY <1>11, <2>p, <2>4 DEF Holds
<1>15. Holds(n, Scratch("d_hidden"), <<"d_in", l>>, s)
  BY <1>5, <1>9, <1>10, <1>13, <1>14, <1>p, BackwardProjectionsTurn
<1>16. \A which \in GradNames : m3[LayerOf("grads", l, which)] = m2[LayerOf("grads", l, which)]
  <2> TAKE which \in GradNames
  <2>p. PICK b : b = LayerOf("grads", l, which)
    OBVIOUS
  <2>1. b[3] = "params"
    BY <2>p, LayerIn
  <2>2. b \notin {Scratch("d_score"), Scratch("d_q"), Scratch("d_k"), Scratch("d_v")}
    <3>1. \A name : Scratch(name)[3] = "scratch"
      BY DEF Scratch
    <3> QED
      BY ONLY <2>1, <3>1
  <2>3. b \in DOMAIN m2
    <3>1. \A i \in Slots : InSet("grads", i) \in DOMAIN m2
      BY <1>9 DEF Trains
    <3>2. \E i \in Slots : b = InSet("grads", i)
      <4>1. PICK set : set = "grads"
        OBVIOUS
      <4>2. \E i \in Slots : LayerOf(set, l, which) = InSet(set, i)
        BY ONLY LayerSlots, which \in GradNames, l \in 1 .. Layers DEF GradNames
      <4> QED
        BY <2>p, <4>1, <4>2
    <3> QED
      BY <3>1, <3>2
  <2>4. Passing(q3, b)
    BY <1>p, <2>2, dispatch_attention_bwdPasses
  <2>5. DOMAIN m3 = DOMAIN m2 /\ (b \in DOMAIN m2 => m3[b] = m2[b])
    BY ONLY <1>6, <2>4, TurnsKeep
  <2> QED
    BY ONLY <2>p, <2>3, <2>5
<1>17. Grows(m, n, l, s, GradNames)
  <2>1. Grows(m, m1, l, s, {"mlp_norm_gain", "w_gate", "w_up", "w_down"})
    BY <1>4, <1>p, BackwardMlpTurn
  <2>2. Grows(m1, m2, l, s, {"wo"})
    BY <1>6, <1>9, <1>10, <1>11, <1>p, BackwardOutputTurn
  <2>3. Grows(m3, n, l, s, {"attn_norm_gain", "wq", "wk", "wv"})
    BY <1>5, <1>9, <1>10, <1>13, <1>14, <1>p, BackwardProjectionsTurn
  <2>4. ASSUME NEW which \in GradNames
        PROVE  n[LayerOf("grads", l, which)]
               = Append(m[LayerOf("grads", l, which)], Value(<<GradientName[which], l>>, s))
    <3>p. PICK b, z : b = LayerOf("grads", l, which) /\ z = Value(<<GradientName[which], l>>, s)
      OBVIOUS
    <3>1. m1[b] = IF which \in {"mlp_norm_gain", "w_gate", "w_up", "w_down"} THEN Append(m[b], z) ELSE m[b]
      BY ONLY <2>1, <2>4, <3>p DEF Grows
    <3>2. m2[b] = IF which \in {"wo"} THEN Append(m1[b], z) ELSE m1[b]
      BY ONLY <2>2, <2>4, <3>p DEF Grows
    <3>3. m3[b] = m2[b]
      BY ONLY <1>16, <2>4, <3>p
    <3>4. n[b] = IF which \in {"attn_norm_gain", "wq", "wk", "wv"} THEN Append(m3[b], z) ELSE m3[b]
      BY ONLY <2>3, <2>4, <3>p DEF Grows
    <3>5. n[b] = Append(m[b], z)
      BY ONLY <2>4, <3>1, <3>2, <3>3, <3>4 DEF GradNames
    <3> QED
      BY ONLY <3>5, <3>p
  <2> QED
    BY ONLY <2>4 DEF Grows
<1> QED
  BY <1>15, <1>17
=============================================================================
