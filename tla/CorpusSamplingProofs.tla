------------------------- MODULE CorpusSamplingProofs -------------------------
(***************************************************************************)
(* Proofs about CorpusSampling, for any sources, texts and vocabularies:   *)
(* a window is text of one source on one side of its split, a pass draws   *)
(* every window once, and the rotation shares the turns.                   *)
(***************************************************************************)
EXTENDS CorpusSampling, FiniteSetTheorems, WellFoundedInduction, TLAPS

-----------------------------------------------------------------------------
(* Induction up to a bound, and the functions it defines.                  *)

\* What holds of 0 and is handed on up to N holds up to N.
LEMMA Climb ==
    ASSUME NEW N \in Nat, NEW S, 0 \in S, \A k \in 0 .. N - 1 : k \in S => k + 1 \in S
    PROVE  0 .. N \subseteq S
<1> DEFINE R == OpToRel(<, Nat)
           T == (0 .. N) \ S
<1>1. SUFFICES ASSUME T # {} PROVE FALSE
  OBVIOUS
<1>2. IsWellFoundedOn(R, Nat)
  BY NatLessThanWellFounded
<1>3. T \subseteq Nat
  OBVIOUS
<1>4. \A x, y \in Nat : <<y, x>> \in R <=> y < x
  BY DEF OpToRel
<1> HIDE DEF R, T
<1>5. PICK x \in T : \A y \in T : ~ (<<y, x>> \in R)
  BY <1>1, <1>2, <1>3, WFMin
<1>6. x \in 1 .. N /\ x - 1 \in 0 .. N - 1 /\ x - 1 < x /\ x - 1 \in Nat /\ x - 1 + 1 = x
  BY <1>5, <1>3 DEF T
<1>7. x - 1 \in S
  <2>1. x - 1 \notin T
    <3>1. <<x - 1, x>> \in R
      BY <1>3, <1>4, <1>5, <1>6
    <3> QED
      BY <1>5, <3>1
  <2>2. x - 1 \in 0 .. N
    BY <1>6
  <2> QED
    BY ONLY <2>1, <2>2 DEF T
<1> QED
  BY <1>5, <1>6, <1>7 DEF T

\* N steps on a set, and what they lead to one after another.
StepsOn(N, V, Step) == \A k \in 1 .. N, v \in V : Step[k][v] \in V
Iterates(N, base, Step, f) == f[0] = base /\ \A k \in 1 .. N : f[k] = Step[k][f[k - 1]]

\* The steps can be taken.
LEMMA Iterated ==
    ASSUME NEW N \in Nat, NEW V, NEW base \in V, NEW Step, StepsOn(N, V, Step)
    PROVE  \E f \in [0 .. N -> V] : Iterates(N, base, Step, f)
<1> USE DEF StepsOn, Iterates
<1> DEFINE Up(n) == \E f \in [0 .. n -> V] :
                       f[0] = base /\ \A k \in 1 .. n : f[k] = Step[k][f[k - 1]]
           S == {n \in 0 .. N : Up(n)}
<1>1. 0 \in S
  <2> DEFINE f == [k \in 0 .. 0 |-> base]
  <2>1. f \in [0 .. 0 -> V] /\ f[0] = base /\ 1 .. 0 = {}
    OBVIOUS
  <2> HIDE DEF f
  <2>2. Up(0)
    BY <2>1
  <2> QED
    BY <2>2
<1>2. ASSUME NEW n \in 0 .. N - 1, n \in S PROVE n + 1 \in S
  <2>1. PICK f \in [0 .. n -> V] : f[0] = base /\ \A k \in 1 .. n : f[k] = Step[k][f[k - 1]]
    BY <1>2
  <2> DEFINE g == [k \in 0 .. n + 1 |-> IF k = n + 1 THEN Step[n + 1][f[n]] ELSE f[k]]
  <2>2. n + 1 \in 1 .. N /\ f[n] \in V /\ Step[n + 1][f[n]] \in V
    OBVIOUS
  <2>3. g \in [0 .. n + 1 -> V]
    BY <2>2
  <2>4. g[0] = base
    BY <2>1
  <2>5. ASSUME NEW k \in 1 .. n + 1 PROVE g[k] = Step[k][g[k - 1]]
    <3>1. k - 1 \in 0 .. n /\ k - 1 # n + 1 /\ g[k - 1] = f[k - 1]
      OBVIOUS
    <3>2. CASE k = n + 1
      BY <3>1, <3>2
    <3>3. CASE k # n + 1
      <4>1. k \in 1 .. n /\ g[k] = f[k]
        BY <3>3
      <4> QED
        BY <2>1, <3>1, <4>1
    <3> QED
      BY <3>2, <3>3
  <2> HIDE DEF g
  <2>6. Up(n + 1)
    BY <2>3, <2>4, <2>5
  <2> QED
    BY <2>6
<1>3. 0 .. N \subseteq S
  <2> HIDE DEF S
  <2> QED
    BY <1>1, <1>2, Climb
<1> QED
  BY <1>3

\* A function on the first places is a sequence.
LEMMA PlacesMakeASequence ==
    ASSUME NEW V, NEW n \in Nat, NEW f \in [1 .. n -> V]
    PROVE  f \in Seq(V) /\ Len(f) = n
OBVIOUS

-----------------------------------------------------------------------------
(* The streams and the spans in them.                                      *)

\* The beginnings of the spans are the lengths before them, added up.
LEMMA SpansAddUp ==
    ASSUME NEW T, NEW parts \in Seq(Seq(T))
    PROVE  \E base \in [0 .. Len(parts) -> Nat] :
              /\ base[0] = 0 /\ \A k \in 1 .. Len(parts) : base[k] = base[k - 1] + Len(parts[k])
              /\ SpansOf(parts) = [k \in DOMAIN parts |-> <<base[k - 1], Len(parts[k])>>]
<1> PICK n, len : n = Len(parts) /\ len = [k \in 1 .. n |-> Len(parts[k])]
  OBVIOUS
<1> DEFINE F(f) == [k \in 0 .. Len(parts) |-> IF k = 0 THEN 0 ELSE f[k - 1] + Len(parts[k])]
           base == CHOOSE f : f = F(f)
<1>1. n \in Nat /\ len \in [1 .. n -> Nat]
  OBVIOUS
<1> PICK Step : Step = [k \in 1 .. n |-> [v \in Nat |-> v + len[k]]]
  OBVIOUS
<1>2. /\ \A k \in 1 .. n, v \in Nat : Step[k][v] \in Nat
      /\ \A k \in 1 .. n, v \in Nat : Step[k][v] = v + len[k]
  BY <1>1
<1>a. \A f : F(f) = [k \in 0 .. n |-> IF k = 0 THEN 0 ELSE f[k - 1] + len[k]]
  BY <1>1
<1>7. SpansOf(parts) = [k \in DOMAIN parts |-> <<base[k - 1], Len(parts[k])>>]
  BY DEF SpansOf
<1> HIDE DEF F
<1>3. \E f \in [0 .. n -> Nat] : f[0] = 0 /\ \A k \in 1 .. n : f[k] = Step[k][f[k - 1]]
  <2> PICK V, z : V = Nat /\ z = 0
    OBVIOUS
  <2>1. n \in Nat /\ z \in V /\ StepsOn(n, V, Step)
    BY <1>1, <1>2 DEF StepsOn
  <2>2. \E f \in [0 .. n -> V] : Iterates(n, z, Step, f)
    BY ONLY <2>1, Iterated
  <2> QED
    BY <2>2 DEF Iterates
<1>4. PICK f \in [0 .. n -> Nat] : f[0] = 0 /\ \A k \in 1 .. n : f[k] = f[k - 1] + len[k]
  <2>1. PICK f \in [0 .. n -> Nat] : f[0] = 0 /\ \A k \in 1 .. n : f[k] = Step[k][f[k - 1]]
    BY <1>3
  <2>2. \A k \in 1 .. n : f[k - 1] \in Nat
    BY ONLY <1>1, <2>1
  <2> QED
    BY ONLY <1>2, <2>1, <2>2, ZenonT(60)
<1>5. f = F(f)
  BY <1>1, <1>4 DEF F
<1>6. base = F(base)
  BY ONLY <1>5
<1> HIDE DEF base
<1>8. base[0] = 0 /\ \A k \in 1 .. n : base[k] = base[k - 1] + len[k]
  BY ONLY <1>1, <1>6, <1>a, SMTT(60)
<1>9. \A k \in 0 .. n : base[k] \in Nat
  <2> DEFINE S == {k \in 0 .. n : base[k] \in Nat}
  <2>1. 0 \in S
    BY <1>1, <1>8
  <2>2. ASSUME NEW k \in 0 .. n - 1, k \in S PROVE k + 1 \in S
    <3>1. k + 1 \in 1 .. n /\ k + 1 - 1 = k
      BY <1>1
    <3> QED
      BY ONLY <1>1, <1>8, <2>2, <3>1
  <2> HIDE DEF S
  <2>3. 0 .. n \subseteq S
    BY ONLY <1>1, <2>1, <2>2, Climb
  <2> QED
    BY <2>3 DEF S
<1>10. base \in [0 .. n -> Nat]
  BY ONLY <1>6, <1>9, <1>a
<1> QED
  BY <1>7, <1>8, <1>10

\* A stream is grown part by part.
LEMMA StreamGrows ==
    ASSUME NEW T, NEW parts \in Seq(Seq(T)), parts # << >>
    PROVE  \E grown \in [1 .. Len(parts) -> Seq(T)] :
              /\ grown[1] = parts[1]
              /\ \A k \in 2 .. Len(parts) : grown[k] = grown[k - 1] \o parts[k]
              /\ Concatenated(parts) = grown[Len(parts)]
<1> PICK n, V : n = Len(parts) /\ V = Seq(T)
  OBVIOUS
<1> DEFINE F(f) == [i \in 1 .. Len(parts) |-> IF i = 1 THEN parts[i] ELSE f[i - 1] \o parts[i]]
           grown == CHOOSE f : f = F(f)
<1>1. n \in Nat \ {0} /\ parts \in [1 .. n -> V]
  OBVIOUS
<1>2. \A v \in V, k \in 1 .. n : v \o parts[k] \in V
  BY <1>1
<1>3. Concatenated(parts) = grown[Len(parts)]
  BY <1>1 DEF Concatenated, FlattenSeq
<1> PICK Step : Step = [k \in 1 .. n - 1 |-> [v \in V |-> v \o parts[k + 1]]]
  OBVIOUS
<1>4. \A k \in 1 .. n - 1, v \in V : Step[k][v] = v \o parts[k + 1] /\ Step[k][v] \in V
  BY <1>1, <1>2
<1>5. PICK g \in [0 .. n - 1 -> V] : Iterates(n - 1, parts[1], Step, g)
  <2> PICK m, p : m = n - 1 /\ p = parts[1]
    OBVIOUS
  <2>1. m \in Nat /\ p \in V /\ StepsOn(m, V, Step)
    BY <1>1, <1>4 DEF StepsOn
  <2>2. \E f \in [0 .. m -> V] : Iterates(m, p, Step, f)
    BY ONLY <2>1, Iterated
  <2> QED
    BY <2>2
<1>6. /\ g[0] = parts[1] /\ \A k \in 1 .. n - 1 : g[k] = Step[k][g[k - 1]]
      /\ \A k \in 1 .. n - 1 : g[k - 1] \in V
  <2>1. g[0] = parts[1] /\ \A k \in 1 .. n - 1 : g[k] = Step[k][g[k - 1]]
    BY <1>5 DEF Iterates
  <2>2. \A k \in 1 .. n - 1 : k - 1 \in 0 .. n - 1
    BY <1>1
  <2> QED
    BY <2>1, <2>2
<1>7. \A k \in 1 .. n - 1 : g[k] = g[k - 1] \o parts[k + 1]
  BY ONLY <1>4, <1>6
<1> PICK f : f = [i \in 1 .. n |-> g[i - 1]]
  OBVIOUS
<1>8. f \in [1 .. n -> V] /\ f[1] = parts[1]
  BY ONLY <1>1, <1>5, <1>6, f = [i \in 1 .. n |-> g[i - 1]]
<1>9. \A k \in 2 .. n : f[k] = f[k - 1] \o parts[k]
  <2> SUFFICES ASSUME NEW k \in 2 .. n PROVE f[k] = f[k - 1] \o parts[k]
    OBVIOUS
  <2>1. /\ k - 1 \in 1 .. n - 1 /\ k - 1 + 1 = k /\ k - 1 \in 1 .. n /\ k \in 1 .. n
        /\ f[k] = g[k - 1] /\ f[k - 1] = g[k - 1 - 1]
    BY <1>1
  <2> QED
    BY ONLY <1>7, <2>1
<1>10. f = F(f)
  <2>1. \A i \in 1 .. n : i = 1 \/ i \in 2 .. n
    BY <1>1
  <2>2. \A i \in 1 .. n : f[i] = IF i = 1 THEN parts[i] ELSE f[i - 1] \o parts[i]
    BY ONLY <1>8, <1>9, <2>1
  <2>3. f = [i \in 1 .. n |-> IF i = 1 THEN parts[i] ELSE f[i - 1] \o parts[i]]
    BY ONLY <1>8, <2>2
  <2> QED
    BY <2>3
<1>11. grown = F(grown)
  BY ONLY <1>10
<1>12. grown = [i \in 1 .. n |-> IF i = 1 THEN parts[i] ELSE grown[i - 1] \o parts[i]]
  <2> HIDE DEF grown
  <2> QED
    BY <1>11
<1> HIDE DEF grown, F
<1>13. /\ grown[1] = parts[1]
       /\ \A k \in 2 .. n : grown[k] = grown[k - 1] \o parts[k]
       /\ grown = [i \in 1 .. n |-> grown[i]]
  <2>1. \A k \in 2 .. n : k # 1 /\ k \in 1 .. n
    BY <1>1
  <2>2. 1 \in 1 .. n
    BY <1>1
  <2>3. \A k \in 1 .. n : grown[k] = IF k = 1 THEN parts[k] ELSE grown[k - 1] \o parts[k]
    BY ONLY <1>12
  <2>4. grown = [i \in 1 .. n |-> grown[i]]
    BY ONLY <1>12
  <2> QED
    BY ONLY <2>1, <2>2, <2>3, <2>4
<1>14. \A k \in 1 .. n : grown[k] \in V
  <2> DEFINE S == {k \in 0 .. n - 1 : grown[k + 1] \in V}
  <2>1. 0 \in S
    BY <1>1, <1>13
  <2>2. ASSUME NEW k \in 0 .. n - 1 - 1, k \in S PROVE k + 1 \in S
    <3> PICK a : a = k + 2
      OBVIOUS
    <3>1. /\ a \in 2 .. n /\ a - 1 = k + 1 /\ k + 1 + 1 = a /\ k + 1 \in 0 .. n - 1
          /\ a \in 1 .. n
      BY <1>1
    <3>2. grown[a - 1] \in V
      BY <2>2, <3>1
    <3>3. grown[a] = grown[a - 1] \o parts[a]
      BY ONLY <1>13, <3>1
    <3>4. grown[a] \in V
      BY <1>2, <3>1, <3>2, <3>3
    <3> QED
      BY <3>1, <3>4
  <2>3. n - 1 \in Nat
    BY <1>1
  <2> HIDE DEF S
  <2>4. 0 .. n - 1 \subseteq S
    BY ONLY <2>1, <2>2, <2>3, Climb
  <2> SUFFICES ASSUME NEW k \in 1 .. n PROVE grown[k] \in V
    OBVIOUS
  <2>5. k - 1 \in 0 .. n - 1 /\ k - 1 + 1 = k
    BY <1>1
  <2> QED
    BY <2>4, <2>5 DEF S
<1>15. grown \in [1 .. n -> V]
  BY ONLY <1>13, <1>14
<1> QED
  BY <1>3, <1>13, <1>15

\* Every part is in the stream, where its span says.
LEMMA StreamHolds ==
    ASSUME NEW T, NEW parts \in Seq(Seq(T))
    PROVE  /\ Concatenated(parts) \in Seq(T)
           /\ SpansOf(parts) \in Seq(Nat \X Nat)
           /\ Holds(Concatenated(parts), SpansOf(parts), parts)
<1> PICK n, sp, stream : n = Len(parts) /\ sp = SpansOf(parts) /\ stream = Concatenated(parts)
  OBVIOUS
<1>1. n \in Nat /\ DOMAIN parts = 1 .. n /\ \A k \in 1 .. n : parts[k] \in Seq(T) /\ Len(parts[k]) \in Nat
  OBVIOUS
<1>2. PICK base \in [0 .. n -> Nat] :
         /\ base[0] = 0 /\ \A k \in 1 .. n : base[k] = base[k - 1] + Len(parts[k])
         /\ sp = [k \in 1 .. n |-> <<base[k - 1], Len(parts[k])>>]
  BY <1>1, SpansAddUp, ZenonT(60)
<1>3. sp \in Seq(Nat \X Nat) /\ Len(sp) = n
  <2>1. \A k \in 1 .. n : base[k - 1] \in Nat
    <3>1. \A k \in 1 .. n : k - 1 \in 0 .. n
      BY <1>1
    <3> QED
      BY <1>2, <3>1
  <2>2. sp \in [1 .. n -> Nat \X Nat]
    BY <1>1, <1>2, <2>1
  <2> QED
    BY <1>1, <2>2, PlacesMakeASequence
<1>4. \A k \in 1 .. n : sp[k][1] = base[k - 1] /\ sp[k][2] = Len(parts[k]) /\ base[k - 1] \in Nat
  <2> SUFFICES ASSUME NEW k \in 1 .. n
               PROVE  sp[k][1] = base[k - 1] /\ sp[k][2] = Len(parts[k]) /\ base[k - 1] \in Nat
    OBVIOUS
  <2>1. base[k - 1] \in Nat
    <3>1. k - 1 \in 0 .. n
      BY <1>1
    <3> QED
      BY <1>2, <3>1
  <2>2. sp[k] = <<base[k - 1], Len(parts[k])>>
    BY <1>2
  <2> QED
    BY ONLY <2>1, <2>2
<1>5. CASE n = 0
  <2>1. parts = << >>
    BY <1>1, <1>5
  <2>2. stream = << >>
    BY <2>1 DEF Concatenated, FlattenSeq
  <2> QED
    BY <1>1, <1>3, <1>5, <2>2 DEF Holds
<1>6. CASE n # 0
  <2>1. PICK grown \in [1 .. n -> Seq(T)] :
           /\ grown[1] = parts[1] /\ \A k \in 2 .. n : grown[k] = grown[k - 1] \o parts[k]
           /\ stream = grown[n]
    <3>1. parts # << >>
      BY <1>6
    <3> QED
      BY <3>1, StreamGrows
  <2> DEFINE In(m, k) == /\ base[k - 1] + Len(parts[k]) <= base[m]
                         /\ \A i \in 1 .. Len(parts[k]) : grown[m][base[k - 1] + i] = parts[k][i]
             Good(m) == Len(grown[m]) = base[m] /\ \A k \in 1 .. m : In(m, k)
             S == {m \in 0 .. n - 1 : Good(m + 1)}
  <2>2. 0 \in S
    <3>1. 1 \in 1 .. n /\ base[0] = 0 /\ base[1] = base[0] + Len(parts[1])
      BY <1>1, <1>2, <1>6
    <3>2. Len(parts[1]) \in Nat /\ grown[1] = parts[1] /\ base[1] = Len(parts[1])
      BY <1>1, <2>1, <3>1
    <3>3. In(1, 1)
      BY <3>1, <3>2
    <3> QED
      BY <1>1, <1>6, <3>2, <3>3
  <2>3. ASSUME NEW m \in 0 .. n - 1 - 1, m \in S PROVE m + 1 \in S
    <3> PICK a, b : a = m + 1 /\ b = m + 2
      OBVIOUS
    <3>1. a \in 1 .. n /\ b \in 2 .. n /\ b \in 1 .. n /\ b - 1 = a /\ a \in Nat
      BY <1>1
    <3>a. Good(a)
      BY <2>3
    <3>b. grown[b] = grown[a] \o parts[b] /\ grown[a] \in Seq(T)
      BY <2>1, <3>1
    <3>c. base[b] = base[a] + Len(parts[b])
      BY <1>2, <3>1
    <3>d. base[a] \in Nat /\ base[b] \in Nat
      <4>1. a \in 0 .. n /\ b \in 0 .. n
        BY <1>1, <3>1
      <4> QED
        BY <1>2, <4>1
    <3>2. /\ grown[b] = grown[a] \o parts[b] /\ grown[a] \in Seq(T) /\ parts[b] \in Seq(T)
          /\ base[b] = base[a] + Len(parts[b]) /\ base[a] \in Nat /\ base[b] \in Nat
          /\ Len(grown[a]) = base[a] /\ Len(parts[b]) \in Nat
      BY <1>1, <3>1, <3>a, <3>b, <3>c, <3>d
    <3>3. /\ Len(grown[b]) = base[b]
          /\ \A i \in 1 .. base[a] : grown[b][i] = grown[a][i]
          /\ \A i \in 1 .. Len(parts[b]) : grown[b][base[a] + i] = parts[b][i]
      <4> PICK u, v, w : u = grown[a] /\ v = parts[b] /\ w = grown[b]
        OBVIOUS
      <4>1. u \in Seq(T) /\ v \in Seq(T) /\ w = u \o v /\ Len(u) \in Nat /\ Len(v) \in Nat
        BY <3>2
      <4>2. /\ Len(w) = Len(u) + Len(v)
            /\ \A i \in 1 .. Len(u) : w[i] = u[i]
            /\ \A i \in 1 .. Len(v) : w[Len(u) + i] = v[i]
        BY ONLY <4>1
      <4> QED
        BY <3>2, <4>2, ZenonT(60)
    <3>4. In(b, b)
      <4>1. base[b - 1] = base[a]
        BY <3>1
      <4>2. base[a] + Len(parts[b]) <= base[b]
        BY ONLY <3>2
      <4> QED
        BY <3>3, <4>1, <4>2
    <3>5. ASSUME NEW k \in 1 .. a PROVE In(b, k)
      <4>1. In(a, k) /\ base[k - 1] \in Nat /\ k \in 1 .. n /\ Len(parts[k]) \in Nat
        BY <1>1, <1>4, <3>1, <3>a
      <4>2. base[k - 1] + Len(parts[k]) <= base[a]
        BY <4>1
      <4>3. ASSUME NEW i \in 1 .. Len(parts[k])
            PROVE  grown[b][base[k - 1] + i] = parts[k][i]
        <5>1. base[k - 1] + i \in 1 .. base[a]
          BY <3>2, <4>1, <4>2, SMTT(60)
        <5>2. grown[a][base[k - 1] + i] = parts[k][i]
          BY <4>1
        <5> QED
          BY <3>3, <5>1, <5>2
      <4> QED
        <5>1. base[k - 1] + Len(parts[k]) <= base[b]
          BY ONLY <3>2, <4>1, <4>2, SMTT(60)
        <5> QED
          BY <4>3, <5>1
    <3>6. \A k \in 1 .. b : k \in 1 .. a \/ k = b
      BY <3>1
    <3> HIDE DEF In
    <3>7. Good(b)
      BY ONLY <3>3, <3>4, <3>5, <3>6
    <3> QED
      BY <3>1, <3>7
  <2>4. n - 1 \in Nat /\ n - 1 + 1 = n
    BY <1>1, <1>6
  <2>5. 0 .. n - 1 \subseteq S
    <3> HIDE DEF S
    <3> QED
      BY ONLY <2>2, <2>3, <2>4, Climb
  <2>6. Good(n)
    <3>1. n - 1 \in S
      <4> HIDE DEF S
      <4>1. n - 1 \in 0 .. n - 1
        BY <2>4
      <4> QED
        BY <2>5, <4>1
    <3>2. Good(n - 1 + 1)
      BY <3>1
    <3> QED
      BY <2>4, <3>2
  <2>7. stream \in Seq(T) /\ Len(stream) = base[n]
    BY <1>6, <2>1, <2>6, <1>1
  <2> QED
    <3>1. \A k \in 1 .. n : /\ sp[k][1] + sp[k][2] <= Len(stream)
                             /\ \A i \in 1 .. Len(parts[k]) : stream[sp[k][1] + i] = parts[k][i]
      BY <1>4, <2>1, <2>6, <2>7, SMTT(60)
    <3> QED
      BY <1>1, <1>3, <1>4, <2>7, <3>1 DEF Holds
<1> QED
  BY <1>5, <1>6

-----------------------------------------------------------------------------
(* What is kept of a sequence.                                             *)

\* What has been kept after each element.
KeptSoFar(seq, S, kept) ==
    /\ kept[0] = << >>
    /\ \A k \in 1 .. Len(seq) :
          kept[k] = IF seq[k] \in S THEN Append(kept[k - 1], seq[k]) ELSE kept[k - 1]

\* A sequence is gone through element by element.
LEMMA KeptGrows ==
    ASSUME NEW T, NEW seq \in Seq(T), NEW S
    PROVE  \E kept \in [0 .. Len(seq) -> Seq(T)] :
              KeptSoFar(seq, S, kept) /\ Kept(seq, S) = kept[Len(seq)]
<1> PICK n, V, e : n = Len(seq) /\ V = Seq(T) /\ e = << >>
  OBVIOUS
<1> DEFINE F(f) == [k \in 0 .. Len(seq) |->
                       IF k = 0 THEN << >>
                       ELSE IF seq[k] \in S THEN Append(f[k - 1], seq[k]) ELSE f[k - 1]]
           kept == CHOOSE f : f = F(f)
<1>1. n \in Nat /\ seq \in [1 .. n -> T] /\ e \in V
  OBVIOUS
<1>2. \A v \in V, k \in 1 .. n : Append(v, seq[k]) \in V
  BY <1>1
<1>3. Kept(seq, S) = kept[Len(seq)]
  BY DEF Kept
<1> PICK Step : Step = [k \in 1 .. n |->
                           [v \in V |-> IF seq[k] \in S THEN Append(v, seq[k]) ELSE v]]
  OBVIOUS
<1>4. \A k \in 1 .. n, v \in V : /\ Step[k][v] = IF seq[k] \in S THEN Append(v, seq[k]) ELSE v
                                 /\ Step[k][v] \in V
  BY <1>2
<1>5. PICK f \in [0 .. n -> V] : Iterates(n, e, Step, f)
  <2>1. n \in Nat /\ e \in V /\ StepsOn(n, V, Step)
    BY <1>1, <1>4 DEF StepsOn
  <2> QED
    BY ONLY <2>1, Iterated
<1>6. \A k \in 1 .. n : f[k] = Step[k][f[k - 1]] /\ f[k - 1] \in V
  <2>1. \A k \in 1 .. n : k - 1 \in 0 .. n
    BY <1>1
  <2> QED
    BY <1>5, <2>1 DEF Iterates
<1>7. \A k \in 0 .. n : f[k] = IF k = 0 THEN e
                               ELSE IF seq[k] \in S THEN Append(f[k - 1], seq[k]) ELSE f[k - 1]
  <2>1. \A k \in 0 .. n : k = 0 \/ k \in 1 .. n
    BY <1>1
  <2>2. f[0] = e
    BY <1>5 DEF Iterates
  <2> QED
    BY ONLY <1>4, <1>6, <2>1, <2>2
<1>8. f = F(f)
  BY <1>7, SMTT(60)
<1>9. kept = F(kept)
  BY ONLY <1>8
<1>10. kept = [k \in 0 .. n |-> IF k = 0 THEN e
                                ELSE IF seq[k] \in S THEN Append(kept[k - 1], seq[k])
                                ELSE kept[k - 1]]
  <2> HIDE DEF kept
  <2> QED
    BY <1>9
<1> HIDE DEF kept, F
<1>11. /\ kept[0] = e
       /\ \A k \in 1 .. n :
             kept[k] = IF seq[k] \in S THEN Append(kept[k - 1], seq[k]) ELSE kept[k - 1]
  <2>1. \A k \in 0 .. n : kept[k] = IF k = 0 THEN e
                                    ELSE IF seq[k] \in S THEN Append(kept[k - 1], seq[k])
                                    ELSE kept[k - 1]
    BY ONLY <1>10
  <2>2. 0 \in 0 .. n /\ \A k \in 1 .. n : k \in 0 .. n /\ k # 0
    BY <1>1
  <2> QED
    BY ONLY <2>1, <2>2
<1>12. \A k \in 0 .. n : kept[k] \in V
  <2> DEFINE Done == {k \in 0 .. n : kept[k] \in V}
  <2>1. 0 \in Done
    <3>1. kept[0] \in V /\ 0 \in 0 .. n
      BY ONLY <1>1, <1>11
    <3> QED
      BY <3>1
  <2>2. ASSUME NEW k \in 0 .. n - 1, k \in Done PROVE k + 1 \in Done
    <3> PICK a : a = k + 1
      OBVIOUS
    <3>1. a \in 1 .. n /\ a \in 0 .. n /\ kept[a - 1] \in V
      BY <1>1, <2>2
    <3>2. kept[a] \in V
      BY ONLY <1>2, <1>11, <3>1
    <3> QED
      BY <3>1, <3>2
  <2> HIDE DEF Done
  <2>3. 0 .. n \subseteq Done
    BY ONLY <1>1, <2>1, <2>2, Climb
  <2> QED
    BY <2>3 DEF Done
<1>13. kept \in [0 .. n -> V]
  BY ONLY <1>10, <1>12
<1> QED
  BY <1>3, <1>11, <1>13 DEF KeptSoFar

\* What is kept is what is in the set, and nothing twice that was there once.
LEMMA KeptIsTheRest ==
    ASSUME NEW T, NEW seq \in Seq(T), NEW S
    PROVE  /\ Kept(seq, S) \in Seq(T)
           /\ ToSet(Kept(seq, S)) = ToSet(seq) \cap S
           /\ IsInjective(seq) => IsInjective(Kept(seq, S))
<1> PICK n : n = Len(seq)
  OBVIOUS
<1>1. n \in Nat /\ DOMAIN seq = 1 .. n /\ \A k \in 1 .. n : seq[k] \in T
  OBVIOUS
<1>2. PICK kept \in [0 .. n -> Seq(T)] :
         /\ kept[0] = << >>
         /\ \A k \in 1 .. n :
               kept[k] = IF seq[k] \in S THEN Append(kept[k - 1], seq[k]) ELSE kept[k - 1]
         /\ Kept(seq, S) = kept[n]
  <2>1. \E kept \in [0 .. Len(seq) -> Seq(T)] :
            KeptSoFar(seq, S, kept) /\ Kept(seq, S) = kept[Len(seq)]
    BY KeptGrows
  <2> QED
    BY <2>1 DEF KeptSoFar
<1> DEFINE Elements(q) == {q[i] : i \in 1 .. Len(q)}
           Good(m) == /\ Elements(kept[m]) = {seq[j] : j \in 1 .. m} \cap S
                      /\ IsInjective(seq) =>
                            \A i, j \in 1 .. Len(kept[m]) : kept[m][i] = kept[m][j] => i = j
           Done == {m \in 0 .. n : Good(m)}
<1>3. 0 \in Done
  BY <1>1, <1>2
<1>4. ASSUME NEW m \in 0 .. n - 1, m \in Done PROVE m + 1 \in Done
  <2> PICK a, q, r, x : a = m + 1 /\ q = kept[m] /\ r = kept[a] /\ x = seq[a]
    OBVIOUS
  <2>1. /\ a \in 1 .. n /\ a \in 0 .. n /\ a - 1 = m /\ m \in 0 .. n
        /\ 1 .. a = (1 .. m) \cup {a} /\ a \notin 1 .. m /\ \A j \in 1 .. m : j \in 1 .. n
    BY <1>1
  <2>2. r = IF x \in S THEN Append(q, x) ELSE q
    BY <1>2, <2>1
  <2>3. q \in Seq(T) /\ x \in T /\ Len(q) \in Nat
    BY <1>1, <1>2, <2>1
  <2>4. /\ Elements(q) = {seq[j] : j \in 1 .. m} \cap S
        /\ IsInjective(seq) => \A i, j \in 1 .. Len(q) : q[i] = q[j] => i = j
    BY <1>4
  <2>5. {seq[j] : j \in 1 .. a} = {seq[j] : j \in 1 .. m} \cup {x}
    BY <2>1
  <2>6. IsInjective(seq) => x \notin {seq[j] : j \in 1 .. m}
    BY <1>1, <2>1 DEF IsInjective
  <2>7. CASE x \in S
    <3> PICK len : len = Len(q)
      OBVIOUS
    <3>1. r = Append(q, x) /\ len \in Nat
      BY <2>2, <2>3, <2>7
    <3>2. /\ Len(r) = len + 1 /\ r[len + 1] = x /\ \A i \in 1 .. len : r[i] = q[i]
          /\ 1 .. Len(r) = (1 .. len) \cup {len + 1}
      BY <2>3, <3>1
    <3>3. Elements(r) = Elements(q) \cup {x}
      <4>1. \A i \in 1 .. len : r[i] \in Elements(q) /\ q[i] \in Elements(r)
        BY <3>2
      <4>2. x \in Elements(r)
        BY <3>1, <3>2
      <4>3. \A i \in 1 .. Len(r) : i \in 1 .. len \/ r[i] = x
        BY <3>2
      <4>4. ASSUME NEW y \in Elements(r) PROVE y \in Elements(q) \cup {x}
        <5>1. PICK i \in 1 .. Len(r) : y = r[i]
          OBVIOUS
        <5> HIDE DEF Elements
        <5> QED
          BY <4>1, <4>3, <5>1
      <4>5. Elements(q) \subseteq Elements(r)
        BY <4>1
      <4> QED
        BY <4>2, <4>4, <4>5
    <3>4. Elements(r) = {seq[j] : j \in 1 .. a} \cap S
      BY <2>4, <2>5, <2>7, <3>3
    <3>5. ASSUME IsInjective(seq), NEW i \in 1 .. Len(r), NEW j \in 1 .. Len(r), r[i] = r[j]
          PROVE  i = j
      <4>1. \A k \in 1 .. len : r[k] # x
        <5>1. x \notin Elements(q)
          BY <2>4, <2>6, <3>5
        <5> QED
          BY <3>2, <5>1
      <4> QED
        BY <2>4, <3>2, <3>5, <4>1
    <3>6. Good(a)
      BY <3>4, <3>5
    <3> HIDE DEF Good
    <3> QED
      BY <2>1, <3>6
  <2>8. CASE x \notin S
    <3>1. r = q /\ {seq[j] : j \in 1 .. a} \cap S = {seq[j] : j \in 1 .. m} \cap S
      BY <2>2, <2>5, <2>8
    <3>2. Elements(r) = {seq[j] : j \in 1 .. a} \cap S
      <4> HIDE DEF Elements
      <4> QED
        BY ONLY <2>4, <3>1
    <3>3. IsInjective(seq) => \A i, j \in 1 .. Len(r) : r[i] = r[j] => i = j
      BY <2>4, <3>1
    <3>4. Good(a)
      <4> HIDE DEF Elements
      <4> QED
        BY <3>2, <3>3
    <3> HIDE DEF Good
    <3> QED
      BY <2>1, <3>4
  <2> QED
    BY <2>7, <2>8
<1>5. 0 .. n \subseteq Done
  <2> HIDE DEF Done
  <2> QED
    BY ONLY <1>1, <1>3, <1>4, Climb
<1>6. n \in 0 .. n /\ Good(n)
  <2>1. n \in 0 .. n
    BY <1>1
  <2> QED
    BY <1>5, <2>1
<1>7. /\ kept[n] \in Seq(T) /\ DOMAIN kept[n] = 1 .. Len(kept[n]) /\ Kept(seq, S) = kept[n]
      /\ Elements(kept[n]) = {seq[j] : j \in 1 .. n} \cap S
  <2>1. kept[n] \in Seq(T)
    BY <1>2, <1>6
  <2>2. DOMAIN kept[n] = 1 .. Len(kept[n])
    BY <2>1
  <2> HIDE DEF Elements
  <2> QED
    BY <1>2, <1>6, <2>1, <2>2
<1>8. ToSet(kept[n]) = Elements(kept[n]) /\ ToSet(seq) = {seq[j] : j \in 1 .. n}
  BY <1>1, <1>7 DEF ToSet
<1>9. IsInjective(seq) => IsInjective(kept[n])
  BY <1>6, <1>7 DEF IsInjective
<1> QED
  BY <1>7, <1>8, <1>9

-----------------------------------------------------------------------------
(* Orders, queues and passes.                                              *)

\* An order of a finite set has every element, once.
LEMMA OrdersAreWhole ==
    ASSUME NEW S, IsFiniteSet(S), NEW q \in Orders(S)
    PROVE  /\ q \in Seq(S) /\ ToSet(q) = S /\ IsInjective(q) /\ Len(q) = Cardinality(S)
<1> PICK n : n = Cardinality(S)
  OBVIOUS
<1>1. n \in Nat
  BY FS_CardinalityType
<1>2. q \in [1 .. n -> S] /\ \A i, j \in DOMAIN q : q[i] = q[j] => i = j
  BY DEF Orders
<1>3. q \in Injection(1 .. n, S)
  BY <1>2 DEF Injection, IsInjective
<1>4. IsFiniteSet(1 .. n) /\ Cardinality(1 .. n) = n
  BY <1>1, FS_Interval
<1>5. q \in Surjection(1 .. n, S)
  BY <1>3, <1>4, FS_Injection
<1>6. ToSet(q) = S
  BY <1>2, <1>5 DEF Surjection, ToSet
<1>7. q \in Seq(S) /\ Len(q) = n
  BY <1>1, <1>2, PlacesMakeASequence
<1> QED
  BY <1>2, <1>6, <1>7 DEF IsInjective

\* As many windows as a pass has begun with are different ones.
LEMMA DrawnAreCounted ==
    ASSUME NEW n \in Nat, NEW q \in Passes(n), NEW m \in 0 .. n
    PROVE  Cardinality({q[i] : i \in 1 .. m}) = m
<1> PICK f, T : f = [i \in 1 .. m |-> q[i]] /\ T = {q[i] : i \in 1 .. m}
  OBVIOUS
<1>1. q \in [1 .. n -> 0 .. n - 1] /\ \A i, j \in 1 .. n : q[i] = q[j] => i = j
  BY DEF Passes, IsInjective
<1>2. \A i \in 1 .. m : i \in 1 .. n
  OBVIOUS
<1>3. f \in [1 .. m -> T] /\ \A i \in 1 .. m : f[i] = q[i]
  OBVIOUS
<1>4. f \in Surjection(1 .. m, T)
  BY <1>3 DEF Surjection
<1>5. f \in Injection(1 .. m, T)
  BY <1>1, <1>2, <1>3 DEF Injection, IsInjective
<1>6. IsFiniteSet(1 .. m) /\ Cardinality(1 .. m) = m
  BY FS_Interval
<1> QED
  BY <1>4, <1>5, <1>6, FS_Surjection

\* What is left of a queue is without its head.
LEMMA TailDropsHead ==
    ASSUME NEW S, NEW q \in Seq(S), q # << >>, IsInjective(q)
    PROVE  /\ Tail(q) \in Seq(S) /\ IsInjective(Tail(q)) /\ Len(Tail(q)) = Len(q) - 1
           /\ Head(q) \in ToSet(q) /\ Head(q) \in S /\ ToSet(Tail(q)) = ToSet(q) \ {Head(q)}
<1> PICK n, t, h : n = Len(q) /\ t = Tail(q) /\ h = Head(q)
  OBVIOUS
<1>1. /\ n \in Nat \ {0} /\ DOMAIN q = 1 .. n /\ h = q[1] /\ h \in S
      /\ t \in Seq(S) /\ Len(t) = n - 1 /\ DOMAIN t = 1 .. n - 1
      /\ \A i \in 1 .. n - 1 : t[i] = q[i + 1]
  OBVIOUS
<1>2. \A i, j \in 1 .. n : q[i] = q[j] => i = j
  BY <1>1 DEF IsInjective
<1>3. IsInjective(t)
  <2>1. \A i \in 1 .. n - 1 : i + 1 \in 1 .. n
    BY <1>1
  <2>2. ASSUME NEW i \in 1 .. n - 1, NEW j \in 1 .. n - 1, t[i] = t[j] PROVE i = j
    <3>1. i + 1 = j + 1
      BY ONLY <1>1, <1>2, <2>1, <2>2
    <3> QED
      BY <3>1
  <2> QED
    BY <1>1, <2>2 DEF IsInjective
<1>4. 1 \in 1 .. n
  BY <1>1
<1>5. h \in ToSet(q)
  BY <1>1, <1>4 DEF ToSet
<1>6. ASSUME NEW x \in ToSet(t) PROVE x \in ToSet(q) \ {h}
  <2>1. PICK i \in 1 .. n - 1 : x = t[i]
    BY <1>1, <1>6 DEF ToSet
  <2>2. i + 1 \in 1 .. n /\ i + 1 # 1 /\ x = q[i + 1]
    BY <1>1, <2>1
  <2>3. x \in ToSet(q)
    BY <1>1, <2>2 DEF ToSet
  <2>4. x # h
    BY <1>1, <1>2, <1>4, <2>2
  <2> QED
    BY <2>3, <2>4
<1>7. ASSUME NEW x \in ToSet(q) \ {h} PROVE x \in ToSet(t)
  <2>1. PICK i \in 1 .. n : x = q[i]
    BY <1>1, <1>7 DEF ToSet
  <2>2. i # 1
    BY <1>1, <1>7, <2>1
  <2> PICK j : j = i - 1
    OBVIOUS
  <2>3. j \in 1 .. n - 1 /\ j + 1 = i
    BY <1>1, <2>1, <2>2
  <2>4. x = t[j]
    BY ONLY <1>1, <2>1, <2>3
  <2> QED
    BY <1>1, <2>3, <2>4 DEF ToSet
<1> QED
  BY <1>1, <1>3, <1>5, <1>6, <1>7

\* A refilled rotation has every usable source once, and does not begin with
\* the source drawn last unless there is no other.
LEMMA RefillIsWhole ==
    ASSUME NEW U, IsFiniteSet(U), U # {}, NEW q \in Orders(U), NEW l,
           NEW r, r = refill_rotation(q, l)
    PROVE  /\ r \in Seq(U) /\ ToSet(r) = U /\ IsInjective(r) /\ r # << >>
           /\ Head(r) = l => Cardinality(U) = 1
<1> PICK n : n = Len(q)
  OBVIOUS
<1>1. /\ q \in Seq(U) /\ ToSet(q) = U /\ IsInjective(q) /\ n = Cardinality(U)
      /\ n \in Nat /\ DOMAIN q = 1 .. n /\ \A i \in 1 .. n : q[i] \in U
  BY OrdersAreWhole
<1>2. n # 0
  BY <1>1, FS_EmptySet
<1>3. \A i, j \in 1 .. n : q[i] = q[j] => i = j
  BY <1>1 DEF IsInjective
<1>4. CASE n > 1 /\ q[1] = l
  <2>1. r = [q EXCEPT ![1] = q[2], ![2] = q[1]]
    BY <1>4 DEF refill_rotation
  <2>2. 1 \in 1 .. n /\ 2 \in 1 .. n
    BY <1>1, <1>4
  <2>3. /\ r \in [1 .. n -> U] /\ r[1] = q[2] /\ r[2] = q[1]
        /\ \A i \in 1 .. n : i # 1 /\ i # 2 => r[i] = q[i]
    BY <1>1, <2>1, <2>2
  <2>4. r \in Seq(U) /\ Len(r) = n /\ r # << >> /\ Head(r) = r[1] /\ DOMAIN r = 1 .. n
    <3>1. r \in Seq(U) /\ Len(r) = n
      BY <1>1, <2>3, PlacesMakeASequence
    <3> QED
      BY <1>2, <2>3, <3>1
  <2>5. \A i, j \in 1 .. n : r[i] = r[j] => i = j
    BY <1>3, <2>2, <2>3
  <2>6. \A i \in 1 .. n : r[i] \in ToSet(q)
    BY <1>1, <2>3
  <2>7. \A i \in 1 .. n : q[i] \in ToSet(r)
    BY <2>2, <2>3, <2>4 DEF ToSet
  <2>8. ToSet(r) = ToSet(q)
    BY <1>1, <2>4, <2>6, <2>7 DEF ToSet
  <2>9. Head(r) # l
    BY <1>3, <1>4, <2>2, <2>3, <2>4
  <2> QED
    BY <1>1, <2>4, <2>5, <2>8, <2>9 DEF IsInjective
<1>5. CASE ~ (n > 1 /\ q[1] = l)
  <2>1. r = q
    BY <1>5 DEF refill_rotation
  <2>2. r # << >> /\ Head(r) = q[1]
    BY <1>1, <1>2, <2>1
  <2>3. Head(r) = l => n = 1
    BY <1>1, <1>2, <1>5, <2>2
  <2> QED
    BY <1>1, <2>1, <2>2, <2>3
<1> QED
  BY <1>4, <1>5

-----------------------------------------------------------------------------
(* Windows of the text.                                                    *)

\* A slice is held out of a text, or nothing is.
LEMMA SplitIsInside ==
    ASSUME NEW len \in Nat
    PROVE  Split(len) \in 0 .. len
<1> PICK held : held = len \div HeldDivisor
  OBVIOUS
<1>1. HeldDivisor \in Nat \ {0} /\ MinSlice \in Nat \ {0}
  BY CorpusAssumption
<1>2. held \in Nat
  <2> PICK d : d = HeldDivisor
    OBVIOUS
  <2>1. d \in Nat \ {0} /\ len \in Nat /\ held = len \div d
    BY <1>1
  <2> QED
    BY ONLY <2>1
<1>3. Split(len) = IF held < MinSlice \/ len - held < MinSlice THEN len ELSE len - held
  BY DEF Split
<1> QED
  BY <1>1, <1>2, <1>3

\* A part is the beginning or the end of the tokens of its source.
LEMMA PartsAreText ==
    ASSUME TypeOK, NEW k \in DOMAIN order, NEW s, s = order[k],
           NEW len, len = Length(vocab, sources[s].text), NEW split, split = Split(len)
    PROVE  /\ s \in Present /\ s \in Sources /\ sources[s].vocab = vocab
           /\ len \in Nat /\ split \in 0 .. len
           /\ TokensOf(s) \in Seq(Token) /\ Len(TokensOf(s)) = len
           /\ TrainParts[k] \in Seq(Token) /\ Len(TrainParts[k]) = split
           /\ \A i \in 1 .. split : TrainParts[k][i] = TokensOf(s)[i]
           /\ HeldParts[k] \in Seq(Token) /\ Len(HeldParts[k]) = len - split
           /\ \A i \in 1 .. len - split : HeldParts[k][i] = TokensOf(s)[split + i]
<1>1. s \in Present /\ s \in Sources /\ sources[s].vocab = vocab
  BY DEF TypeOK, ToSet, Present
<1>2. sources[s].text \in Texts /\ vocab \in Vocabularies
  BY <1>1 DEF TypeOK, Present
<1>3. len \in Nat
  BY <1>2, CorpusAssumption
<1>4. split \in 0 .. len
  BY <1>3, SplitIsInside
<1> PICK tokens : tokens = TokensOf(s)
  OBVIOUS
<1>5. tokens \in Seq(Token) /\ Len(tokens) = len
  <2>1. tokens \in [1 .. len -> Token]
    BY <1>1, <1>2, <1>3 DEF TokensOf, Token
  <2> QED
    BY <1>3, <2>1, PlacesMakeASequence
<1>6. /\ TrainParts[k] = SubSeq(tokens, 1, split)
      /\ HeldParts[k] = SubSeq(tokens, split + 1, len)
  BY <1>5 DEF TrainParts, HeldParts, Parts
<1>7. /\ SubSeq(tokens, 1, split) \in Seq(Token) /\ Len(SubSeq(tokens, 1, split)) = split
      /\ \A i \in 1 .. split : SubSeq(tokens, 1, split)[i] = tokens[i]
  BY ONLY <1>3, <1>4, <1>5
<1>8. /\ SubSeq(tokens, split + 1, len) \in Seq(Token)
      /\ Len(SubSeq(tokens, split + 1, len)) = len - split
      /\ \A i \in 1 .. len - split : SubSeq(tokens, split + 1, len)[i] = tokens[split + i]
  BY ONLY <1>3, <1>4, <1>5
<1> QED
  BY <1>1, <1>3, <1>4, <1>5, <1>6, <1>7, <1>8

\* A stream and a text have the tokens of a window in common.
Agree(stream, start, tokens, off) ==
    /\ start + Context + 1 <= Len(stream) /\ off + Context + 1 <= Len(tokens)
    /\ \A i \in 1 .. Context + 1 : stream[start + i] = tokens[off + i]

\* The window is of that text.
LEMMA WindowIsText ==
    ASSUME NEW stream \in Seq(Token), NEW tokens \in Seq(Token),
           NEW start \in Nat, NEW off \in Nat, Agree(stream, start, tokens, off)
    PROVE  /\ WindowAt(stream, start) = SubSeq(tokens, off + 1, off + (Context + 1))
           /\ Len(WindowAt(stream, start)) = Context + 1
<1> USE DEF Agree
<1> PICK c, n, m : c = Context + 1 /\ n = Len(stream) /\ m = Len(tokens)
  OBVIOUS
<1>1. c \in Nat /\ n \in Nat /\ m \in Nat /\ start + c <= n /\ off + c <= m
  BY CorpusAssumption
<1>2. Min({start + Context + 1, n}) = start + c
  <2>1. start + Context + 1 = start + c
    BY <1>1, CorpusAssumption
  <2>2. \A x \in {start + c, n} : x = start + c \/ x = n
    OBVIOUS
  <2>3. Min({start + c, n}) = CHOOSE x \in {start + c, n} : \A y \in {start + c, n} : x <= y
    BY DEF Min
  <2>4. /\ start + c \in {start + c, n} /\ \A y \in {start + c, n} : start + c <= y
        /\ \A x \in {start + c, n} : (\A y \in {start + c, n} : x <= y) => x = start + c
    BY <1>1
  <2>5. Min({start + c, n}) = start + c
    BY ONLY <2>3, <2>4
  <2> QED
    BY <2>1, <2>5
<1> PICK w, v : w = SubSeq(stream, start + 1, start + c) /\ v = SubSeq(tokens, off + 1, off + c)
  OBVIOUS
<1>3. /\ w \in Seq(Token) /\ Len(w) = c /\ \A i \in 1 .. c : w[i] = stream[start + i]
  BY ONLY <1>1, stream \in Seq(Token), start \in Nat, n = Len(stream),
          w = SubSeq(stream, start + 1, start + c)
<1>4. /\ v \in Seq(Token) /\ Len(v) = c /\ \A i \in 1 .. c : v[i] = tokens[off + i]
  BY ONLY <1>1, tokens \in Seq(Token), off \in Nat, m = Len(tokens),
          v = SubSeq(tokens, off + 1, off + c)
<1>5. \A i \in 1 .. c : w[i] = v[i]
  BY <1>3, <1>4
<1>6. w = v
  BY ONLY <1>3, <1>4, <1>5, <1>1
<1> QED
  BY <1>2, <1>3, <1>6 DEF WindowAt

\* A window that fits a span is text of its source, on the span's side of the split.
LEMMA WindowOfTraining ==
    ASSUME TypeOK, NEW stream \in Seq(Token), NEW sp, Holds(stream, sp, TrainParts),
           NEW k \in DOMAIN order, sp[k][1] \in Nat,
           NEW at \in Nat, at + Context + 1 <= sp[k][2]
    PROVE  OneSource(WindowAt(stream, sp[k][1] + at), FALSE)
<1> PICK s, base, part, tokens : s = order[k] /\ base = sp[k][1] /\ part = TrainParts[k]
                                 /\ tokens = TokensOf(s)
  OBVIOUS
<1> PICK len : len = Length(vocab, sources[s].text)
  OBVIOUS
<1> PICK split : split = Split(len)
  OBVIOUS
<1>1. /\ s \in Present /\ sources[s].vocab = vocab /\ len \in Nat /\ split \in 0 .. len
      /\ tokens \in Seq(Token) /\ Len(tokens) = len /\ Len(part) = split
      /\ \A i \in 1 .. split : part[i] = tokens[i]
  BY PartsAreText
<1>2. /\ sp[k][2] = split /\ base + split <= Len(stream)
      /\ \A i \in 1 .. split : stream[base + i] = part[i]
  BY <1>1 DEF Holds, TrainParts
<1> PICK start, c : start = base + at /\ c = Context + 1
  OBVIOUS
<1>3. /\ c \in Nat /\ start \in Nat /\ at + c <= split /\ at + Context + 1 <= len
      /\ start + Context + 1 <= Len(stream) /\ Context + 1 = c
  <2> PICK n : n = Len(stream)
    OBVIOUS
  <2>1. n \in Nat /\ base \in Nat /\ Context \in Nat /\ at \in Nat
    BY CorpusAssumption
  <2>2. at + Context + 1 <= split /\ base + (split) <= n
    BY <1>2
  <2>3. start = base + at /\ c = Context + 1 /\ n = Len(stream)
    OBVIOUS
  <2>4. len \in Nat /\ split \in 0 .. len
    BY <1>1
  <2> QED
    BY ONLY <2>1, <2>2, <2>3, <2>4
<1>4. ASSUME NEW i \in 1 .. c PROVE stream[start + i] = tokens[at + i]
  <2> PICK j : j = at + i
    OBVIOUS
  <2>1. j \in 1 .. split /\ base + j = start + i
    <3>1. start = base + at /\ at \in Nat /\ base \in Nat
      OBVIOUS
    <3>2. split \in Nat
      BY <1>1
    <3> QED
      BY ONLY <1>3, <3>1, <3>2, j = at + i, i \in 1 .. c
  <2> QED
    BY <1>1, <1>2, <2>1
<1>5. /\ WindowAt(stream, start) = SubSeq(tokens, at + 1, at + c)
      /\ Len(WindowAt(stream, start)) = c
  <2>1. Agree(stream, start, tokens, at)
    BY <1>1, <1>3, <1>4 DEF Agree
  <2>2. start \in Nat /\ at \in Nat /\ tokens \in Seq(Token)
    BY <1>1, <1>3
  <2>3. /\ WindowAt(stream, start) = SubSeq(tokens, at + 1, at + (Context + 1))
        /\ Len(WindowAt(stream, start)) = Context + 1
    BY ONLY <2>1, <2>2, stream \in Seq(Token), WindowIsText
  <2> QED
    BY <1>3, <2>3
<1>6. at \in 0 .. len - c
  BY <1>1, <1>3
<1>7. OneSource(WindowAt(stream, start), FALSE)
  <2> PICK w : w = WindowAt(stream, start)
    OBVIOUS
  <2>1. Len(w) = Context + 1 /\ Len(w) = c /\ w = SubSeq(TokensOf(s), at + 1, at + Len(w))
    BY <1>3, <1>5
  <2>2. at \in 0 .. Length(vocab, sources[s].text) - Len(w)
    BY <1>6, <2>1
  <2>3. at + Len(w) <= Split(Length(vocab, sources[s].text))
    BY <1>1, <1>3, <1>6, <2>1
  <2> QED
    BY <1>1, <2>1, <2>2, <2>3 DEF OneSource
<1> QED
  BY <1>7

\* So is a window that fits a span of the held-out stream.
LEMMA WindowOfHeldOut ==
    ASSUME TypeOK, NEW stream \in Seq(Token), NEW sp, Holds(stream, sp, HeldParts),
           NEW k \in DOMAIN order, sp[k][1] \in Nat,
           NEW at \in Nat, at + Context + 1 <= sp[k][2]
    PROVE  OneSource(WindowAt(stream, sp[k][1] + at), TRUE)
<1> PICK s, base, part, tokens : s = order[k] /\ base = sp[k][1] /\ part = HeldParts[k]
                                 /\ tokens = TokensOf(s)
  OBVIOUS
<1> PICK len : len = Length(vocab, sources[s].text)
  OBVIOUS
<1> PICK split : split = Split(len)
  OBVIOUS
<1>1. /\ s \in Present /\ sources[s].vocab = vocab /\ len \in Nat /\ split \in 0 .. len
      /\ tokens \in Seq(Token) /\ Len(tokens) = len /\ Len(part) = len - split
      /\ \A i \in 1 .. len - split : part[i] = tokens[split + i]
  BY PartsAreText
<1>2. /\ sp[k][2] = len - split /\ base + (len - split) <= Len(stream)
      /\ \A i \in 1 .. len - split : stream[base + i] = part[i]
  BY <1>1, SMTT(60) DEF Holds, HeldParts
<1> PICK start, c, off : start = base + at /\ c = Context + 1 /\ off = split + at
  OBVIOUS
<1>3. /\ c \in Nat /\ start \in Nat /\ off \in Nat /\ at + c <= len - split
      /\ off + Context + 1 <= len
      /\ start + Context + 1 <= Len(stream) /\ Context + 1 = c
  <2> PICK n : n = Len(stream)
    OBVIOUS
  <2>1. n \in Nat /\ base \in Nat /\ Context \in Nat /\ at \in Nat
    BY CorpusAssumption
  <2>2. at + Context + 1 <= len - split /\ base + (len - split) <= n
    BY <1>2
  <2>3. start = base + at /\ c = Context + 1 /\ off = split + at /\ n = Len(stream)
    OBVIOUS
  <2>4. len \in Nat /\ split \in 0 .. len
    BY <1>1
  <2> QED
    BY ONLY <2>1, <2>2, <2>3, <2>4
<1>4. ASSUME NEW i \in 1 .. c PROVE stream[start + i] = tokens[off + i]
  <2> PICK j : j = at + i
    OBVIOUS
  <2>1. j \in 1 .. len - split /\ base + j = start + i /\ split + j = off + i
    <3>1. start = base + at /\ off = split + at /\ at \in Nat /\ base \in Nat
      OBVIOUS
    <3>2. len \in Nat /\ split \in 0 .. len
      BY <1>1
    <3> QED
      BY ONLY <1>3, <3>1, <3>2, j = at + i, i \in 1 .. c
  <2>2. stream[base + j] = part[j] /\ part[j] = tokens[split + j]
    BY <1>1, <1>2, <2>1
  <2> QED
    BY ONLY <2>1, <2>2
<1>5. /\ WindowAt(stream, start) = SubSeq(tokens, off + 1, off + c)
      /\ Len(WindowAt(stream, start)) = c
  <2>1. Agree(stream, start, tokens, off)
    BY <1>1, <1>3, <1>4 DEF Agree
  <2>2. start \in Nat /\ off \in Nat /\ tokens \in Seq(Token)
    BY <1>1, <1>3
  <2>3. /\ WindowAt(stream, start) = SubSeq(tokens, off + 1, off + (Context + 1))
        /\ Len(WindowAt(stream, start)) = Context + 1
    BY ONLY <2>1, <2>2, stream \in Seq(Token), WindowIsText
  <2> QED
    BY <1>3, <2>3
<1>6. off \in 0 .. len - c /\ off >= split
  BY <1>1, <1>3, SMTT(60)
<1>7. OneSource(WindowAt(stream, start), TRUE)
  <2> PICK w : w = WindowAt(stream, start)
    OBVIOUS
  <2>1. Len(w) = Context + 1 /\ Len(w) = c /\ w = SubSeq(TokensOf(s), off + 1, off + Len(w))
    BY <1>3, <1>5
  <2>2. off \in 0 .. Length(vocab, sources[s].text) - Len(w)
    BY <1>6, <2>1
  <2>3. off >= Split(Length(vocab, sources[s].text))
    BY <1>1, <1>3, <1>6, <2>1
  <2> QED
    BY <1>1, <2>1, <2>2, <2>3 DEF OneSource
<1> QED
  BY <1>7

\* A rebuild leaves the streams of the sources as they are.
Spans == [train : Seq(Nat \X Nat), held : Seq(Nat \X Nat)]
Streams == [train : Seq(Token), held : Seq(Token)]

\* They are typed, and every part is where its span says.
LEMMA RebuiltStreamsHold ==
    ASSUME TypeOK, StreamsStand, rebuild_flat_if_needed
    PROVE  /\ dirty' = FALSE /\ flat' \in Streams /\ spans' \in Spans
           /\ Holds(flat'.train, spans'.train, TrainParts)
           /\ Holds(flat'.held, spans'.held, HeldParts)
<1>1. CASE ~ dirty
  <2>1. dirty' = FALSE /\ flat' = flat /\ spans' = spans
    BY <1>1 DEF rebuild_flat_if_needed, streams, TypeOK
  <2>2. flat \in Streams /\ spans \in Spans
    BY DEF TypeOK, Streams, Spans
  <2>3. Holds(flat.train, spans.train, TrainParts) /\ Holds(flat.held, spans.held, HeldParts)
    BY <1>1 DEF StreamsStand, TrainParts, HeldParts
  <2> QED
    BY <2>1, <2>2, <2>3
<1>2. CASE dirty
  <2> PICK n, tp, hp : n = Len(order) /\ tp = TrainParts /\ hp = HeldParts
    OBVIOUS
  <2>1. n \in Nat /\ DOMAIN order = 1 .. n
    BY DEF TypeOK
  <2>2. \A k \in 1 .. n : TrainParts[k] \in Seq(Token) /\ HeldParts[k] \in Seq(Token)
    BY <2>1, PartsAreText
  <2>3. tp \in [1 .. n -> Seq(Token)] /\ hp \in [1 .. n -> Seq(Token)]
    <3>1. /\ TrainParts = [k \in 1 .. n |-> TrainParts[k]]
          /\ HeldParts = [k \in 1 .. n |-> HeldParts[k]]
      BY <2>1 DEF TrainParts, HeldParts
    <3> QED
      BY <2>2, <3>1
  <2>4. tp \in Seq(Seq(Token)) /\ hp \in Seq(Seq(Token))
    BY <2>1, <2>3, PlacesMakeASequence
  <2>5. /\ Concatenated(tp) \in Seq(Token) /\ SpansOf(tp) \in Seq(Nat \X Nat)
        /\ Holds(Concatenated(tp), SpansOf(tp), tp)
        /\ Concatenated(hp) \in Seq(Token) /\ SpansOf(hp) \in Seq(Nat \X Nat)
        /\ Holds(Concatenated(hp), SpansOf(hp), hp)
    BY <2>4, StreamHolds
  <2>6. /\ dirty' = FALSE
        /\ flat' = [train |-> Concatenated(tp), held |-> Concatenated(hp)]
        /\ spans' = [train |-> SpansOf(tp), held |-> SpansOf(hp)]
    BY <1>2 DEF rebuild_flat_if_needed, TrainParts, HeldParts
  <2> QED
    BY <2>5, <2>6 DEF Streams, Spans
<1> QED
  BY <1>1, <1>2 DEF TypeOK

-----------------------------------------------------------------------------
(* The windows of a batch.                                                 *)

SlotsOf(sp, s) == Slots(sp.train[PlaceOf(s)][2])
BaseOf(sp, s) == sp.train[PlaceOf(s)][1]

\* The windows of a span fit it.
LEMMA WindowsFit ==
    ASSUME NEW len \in Nat
    PROVE  /\ Slots(len) \in Nat
           /\ \A slot \in 0 .. Slots(len) - 1 :
                 slot * Context \in Nat /\ slot * Context + Context + 1 <= len
<1> PICK c : c = Context
  OBVIOUS
<1>1. c \in Nat \ {0}
  BY CorpusAssumption
<1>2. Slots(len) = IF len > c THEN (len - c - 1) \div c + 1 ELSE 0
  BY DEF Slots
<1>3. CASE len > c
  <2> PICK a, q, r : a = len - c - 1 /\ q = a \div c /\ r = a % c
    OBVIOUS
  <2>1. a \in Nat
    BY <1>1, <1>3
  <2>2. a = c * q + r /\ q \in Nat /\ r \in 0 .. c - 1
    BY ONLY <1>1, <2>1, q = a \div c, r = a % c
  <2>3. Slots(len) = q + 1
    BY <1>2, <1>3
  <2>4. ASSUME NEW slot \in 0 .. q
        PROVE  slot * c \in Nat /\ slot * c + c + 1 <= len
    <3>1. slot * c <= q * c /\ slot * c \in Nat /\ q * c \in Nat /\ q * c = c * q
      BY ONLY <1>1, <2>2, slot \in 0 .. q
    <3> QED
      BY ONLY <1>1, <2>1, <2>2, <3>1, a = len - c - 1, len \in Nat
  <2> QED
    BY <2>2, <2>3, <2>4
<1>4. CASE ~ (len > c)
  <2>1. Slots(len) = 0 /\ 0 .. 0 - 1 = {}
    BY <1>2, <1>4
  <2> QED
    BY <2>1
<1> QED
  BY <1>3, <1>4

\* A usable source has a place, a span, windows, and passes over them.
LEMMA UsableHasWindows ==
    ASSUME TypeOK, NEW sp \in Spans, NEW stream, Holds(stream, sp.train, TrainParts),
           NEW s \in Usable(sp)
    PROVE  /\ s \in Present /\ s \in Sources /\ PlaceOf(s) \in DOMAIN order
           /\ BaseOf(sp, s) \in Nat /\ sp.train[PlaceOf(s)][2] \in Nat
           /\ SlotsOf(sp, s) \in Nat \ {0}
           /\ \A e \in 0 .. MaxDraws : Shuffle(s, e, SlotsOf(sp, s)) \in Passes(SlotsOf(sp, s))
<1>1. PICK k \in DOMAIN order : order[k] = s /\ Slots(sp.train[k][2]) > 0
  BY DEF Usable
<1>2. \A i \in DOMAIN order : order[i] = s => i = k
  BY <1>1 DEF TypeOK, IsInjective
<1>3. PlaceOf(s) = k
  BY <1>1, <1>2 DEF PlaceOf
<1> PICK len : len = Length(vocab, sources[s].text)
  OBVIOUS
<1>4. /\ s \in Present /\ s \in Sources /\ len \in Nat /\ Split(len) \in 0 .. len
      /\ Len(TrainParts[k]) = Split(len)
  BY <1>1, PartsAreText
<1>5. sp.train[k][2] = Split(len)
  BY <1>4 DEF Holds, TrainParts
<1>6. sp.train[k][1] \in Nat
  <2>1. k \in 1 .. Len(sp.train) /\ sp.train \in Seq(Nat \X Nat)
    <3>1. DOMAIN order = 1 .. Len(order) /\ Len(order) \in Nat
      BY DEF TypeOK
    <3>2. Len(TrainParts) = Len(order)
      BY <3>1 DEF TrainParts
    <3> QED
      BY <3>1, <3>2 DEF Holds, Spans
  <2>2. sp.train[k] \in Nat \X Nat
    BY <2>1
  <2> QED
    BY <2>2
<1>7. Split(len) \in Nat
  BY <1>4
<1>8. Slots(Split(len)) \in Nat \ {0}
  BY <1>1, <1>5, <1>7, WindowsFit
<1>9. \A e \in 0 .. MaxDraws : Shuffle(s, e, Slots(Split(len))) \in Passes(Slots(Split(len)))
  <2>1. sources[s].text \in Texts /\ vocab \in Vocabularies
    BY <1>4 DEF TypeOK, Present
  <2> QED
    BY <1>4, <2>1, ShuffleAssumption
<1> QED
  BY <1>3, <1>4, <1>5, <1>6, <1>7, <1>8, <1>9 DEF SlotsOf, BaseOf

-----------------------------------------------------------------------------
(* A turn of the loop.                                                     *)

\* A cursor at no window yet, or at one of a pass.
CursorStands(c) ==
    \/ c.order = << >>
    \/ c.cursor \in 1 .. Len(c.order) /\ c.order \in Passes(Len(c.order))

\* A pass is a sequence of windows.
LEMMA PassIsASequence ==
    ASSUME NEW n \in Nat, NEW q \in Passes(n)
    PROVE  q \in Seq(Nat) /\ Len(q) = n /\ \A i \in 1 .. n : q[i] \in 0 .. n - 1
<1>1. q \in [1 .. n -> 0 .. n - 1]
  BY DEF Passes
<1>2. q \in [1 .. n -> Nat]
  BY <1>1
<1> QED
  BY <1>1, <1>2, PlacesMakeASequence

\* To the first window of a new pass, or to the one after the cursor.
MovesOn(c, d, slots) ==
    /\ d.order # << >> /\ Len(d.order) = slots
    /\ d.order \in Passes(slots) /\ d.cursor \in 1 .. slots
    /\ \/ d.cursor = 1 /\ (Len(c.order) # slots \/ c.cursor >= slots)
       \/ /\ Len(c.order) = slots /\ d.order = c.order
          /\ d.cursor = c.cursor + 1 /\ c.cursor < slots

\* That is where the next window is.
LEMMA NextSlotStands ==
    ASSUME NEW slots \in Nat \ {0}, NEW s, NEW e \in Nat,
           \A ep \in 0 .. e + 1 : Shuffle(s, ep, slots) \in Passes(slots),
           NEW c \in [epoch : 0 .. e, cursor : Nat, order : Seq(Nat)], CursorStands(c),
           NEW d, d = NextSlot(s, c, slots)
    PROVE  d \in [epoch : 0 .. e + 1, cursor : Nat, order : Seq(Nat)] /\ MovesOn(c, d, slots)
<1> PICK m, ce, cc, co : m = Len(c.order) /\ ce = c.epoch /\ cc = c.cursor /\ co = c.order
  OBVIOUS
<1>1. m \in Nat /\ cc \in Nat /\ ce \in 0 .. e /\ co \in Seq(Nat)
      /\ c = [epoch |-> ce, cursor |-> cc, order |-> co] /\ m = Len(co)
  OBVIOUS
<1> DEFINE over == cc >= m
<1> PICK ep : ep = IF over /\ co # << >> THEN ce + 1 ELSE ce
  OBVIOUS
<1>2. d = IF m # slots \/ over
          THEN [epoch |-> ep, cursor |-> 1, order |-> Shuffle(s, ep, slots)]
          ELSE [c EXCEPT !.cursor = @ + 1]
  BY DEF NextSlot
<1>3. ep \in 0 .. e + 1
  BY <1>1
<1>4. CASE m # slots \/ over
  <2> PICK q : q = Shuffle(s, ep, slots)
    OBVIOUS
  <2>1. q \in Passes(slots)
    BY <1>3
  <2>2. q \in Seq(Nat) /\ Len(q) = slots
    BY <2>1, PassIsASequence
  <2>3. d = [epoch |-> ep, cursor |-> 1, order |-> q]
    BY <1>2, <1>4
  <2>4. q # << >> /\ 1 \in 1 .. slots /\ (m # slots \/ cc >= slots)
    <3>1. q # << >>
      BY ONLY <2>2, slots \in Nat \ {0}
    <3> QED
      BY ONLY <1>1, <1>4, <3>1, slots \in Nat \ {0}
  <2> QED
    BY <1>3, <2>1, <2>2, <2>3, <2>4 DEF MovesOn
<1>5. CASE m = slots /\ ~ over
  <2>1. d = [epoch |-> ce, cursor |-> cc + 1, order |-> co]
    BY <1>1, <1>2, <1>5
  <2>2. co # << >> /\ cc < slots /\ cc + 1 \in 1 .. slots
    <3>1. m = slots /\ cc < m
      BY <1>1, <1>5
    <3>2. co # << >>
      BY ONLY <1>1, <3>1, slots \in Nat \ {0}
    <3> QED
      BY ONLY <1>1, <3>1, <3>2
  <2>3. co \in Passes(slots)
    BY <1>5, <2>2 DEF CursorStands
  <2> QED
    BY <1>1, <1>5, <2>1, <2>2, <2>3 DEF MovesOn
<1> QED
  BY <1>4, <1>5

\* A pass has drawn the windows up to its cursor.
SeenStands(w, c) ==
    IF c = None THEN w = [of |-> 0, slots |-> {}]
    ELSE /\ c.order # << >> /\ w.of = Len(c.order)
         /\ w.slots = {c.order[i] : i \in 1 .. c.cursor}

\* What is known of it when so many windows are asked for, and where it goes on.
PassOf(w, slots) == IF w.of # slots \/ Cardinality(w.slots) = slots THEN {} ELSE w.slots
CursorOf(old) == IF old = None THEN WindowCursorNew ELSE old
SlotAt(d) == d.order[d.cursor]

\* Its next window is one that it has not drawn.
LEMMA PassGoesOn ==
    ASSUME NEW slots \in Nat \ {0}, NEW old, NEW w, SeenStands(w, old),
           old # None => CursorStands(old),
           NEW d, d # None, MovesOn(CursorOf(old), d, slots)
    PROVE  /\ SlotAt(d) \notin PassOf(w, slots)
           /\ SeenStands([of |-> slots, slots |-> PassOf(w, slots) \cup {SlotAt(d)}], d)
<1> PICK q, c, pass, slot : /\ q = d.order /\ c = CursorOf(old)
                            /\ pass = PassOf(w, slots) /\ slot = SlotAt(d)
  OBVIOUS
<1>a. /\ c = (IF old = None THEN WindowCursorNew ELSE old)
      /\ pass = (IF w.of # slots \/ Cardinality(w.slots) = slots THEN {} ELSE w.slots)
      /\ slot = q[d.cursor]
  BY DEF CursorOf, PassOf, SlotAt
<1>b. /\ d.order # << >> /\ Len(d.order) = slots /\ d.order \in Passes(slots)
      /\ \/ d.cursor = 1 /\ (Len(c.order) # slots \/ c.cursor >= slots)
         \/ /\ Len(c.order) = slots /\ d.order = c.order
            /\ d.cursor = c.cursor + 1 /\ c.cursor < slots
  BY DEF MovesOn
<1>1. \A i, j \in 1 .. slots : q[i] = q[j] => i = j
  BY <1>b DEF Passes, IsInjective
<1>2. SUFFICES /\ slot \notin pass
               /\ pass \cup {slot} = {q[i] : i \in 1 .. d.cursor}
  BY <1>b DEF SeenStands
<1>3. CASE old = None
  <2>1. Len(c.order) = 0 /\ w.of = 0
    BY <1>3, <1>a DEF SeenStands, WindowCursorNew
  <2>2. d.cursor = 1 /\ pass = {}
    BY <1>a, <1>b, <2>1
  <2>3. 1 .. 1 = {1}
    OBVIOUS
  <2> QED
    BY <1>a, <2>2, <2>3
<1>4. CASE old # None
  <2> PICK m, co : m = c.cursor /\ co = c.order
    OBVIOUS
  <2>1. /\ c = old /\ co # << >> /\ w.of = Len(co)
        /\ w.slots = {co[i] : i \in 1 .. m}
    BY <1>4, <1>a DEF SeenStands
  <2>2. m \in 1 .. Len(co) /\ co \in Passes(Len(co))
    BY <1>4, <2>1 DEF CursorStands
  <2>3. CASE Len(co) # slots
    <3>1. d.cursor = 1 /\ pass = {}
      <4>1. w.of # slots /\ Len(c.order) # slots
        BY <2>1, <2>3
      <4> QED
        BY ONLY <1>a, <1>b, <4>1
    <3>2. 1 .. 1 = {1}
      OBVIOUS
    <3> QED
      BY <1>a, <3>1, <3>2
  <2>4. CASE Len(co) = slots
    <3>1. m \in 1 .. slots /\ co \in Passes(slots) /\ m \in 0 .. slots
      BY <2>2, <2>4
    <3>2. Cardinality(w.slots) = m
      <4>1. Cardinality({co[i] : i \in 1 .. m}) = m
        BY <3>1, DrawnAreCounted
      <4> QED
        BY <2>1, <4>1
    <3>3. CASE m = slots
      <4>1. pass = {}
        BY <1>a, <3>2, <3>3
      <4>2. d.cursor = 1
        BY <1>b, <2>4, <3>1, <3>3
      <4>3. 1 .. 1 = {1}
        OBVIOUS
      <4> QED
        BY <1>a, <4>1, <4>2, <4>3
    <3>4. CASE m # slots
      <4> PICK n : n = m + 1
        OBVIOUS
      <4>a. pass = {co[i] : i \in 1 .. m}
        BY <1>a, <2>1, <2>4, <3>2, <3>4
      <4>b. m < slots
        BY ONLY <3>1, <3>4, slots \in Nat \ {0}
      <4>c. d.cursor = n /\ q = co
        BY ONLY <1>b, <2>4, <3>1, <4>b, q = d.order, n = m + 1, m = c.cursor, co = c.order,
                slots \in Nat \ {0}
      <4>d. /\ n \in 1 .. slots /\ 1 .. n = (1 .. m) \cup {n} /\ n \notin 1 .. m
            /\ \A i \in 1 .. m : i \in 1 .. slots
        BY ONLY <3>1, <4>b, n = m + 1, slots \in Nat \ {0}
      <4>1. /\ pass = {co[i] : i \in 1 .. m} /\ d.cursor = n /\ q = co
            /\ n \in 1 .. slots /\ 1 .. n = (1 .. m) \cup {n} /\ n \notin 1 .. m
            /\ \A i \in 1 .. m : i \in 1 .. slots
        BY ONLY <4>a, <4>c, <4>d
      <4>2. slot = q[n]
        BY <1>a, <4>1
      <4>3. slot \notin pass
        BY ONLY <1>1, <4>1, <4>2
      <4>4. pass \cup {slot} = {q[i] : i \in 1 .. n}
        BY ONLY <4>1, <4>2
      <4> QED
        BY <4>1, <4>3, <4>4
    <3> QED
      BY <3>3, <3>4
  <2> QED
    BY <2>3, <2>4
<1> QED
  BY <1>3, <1>4

\* The windows that sources have had, the ones they are due included, are as
\* many as each other's or one more.
LevelOf(t, q, x) == t[x] + (IF x \in ToSet(q) THEN 1 ELSE 0)
LevelsMeet(U, t, q) == \A x, y \in U : LevelOf(t, q, x) <= LevelOf(t, q, y) + 1

NextQueue(q, shuffled, l) == IF q = << >> THEN refill_rotation(shuffled, l) ELSE q
Refills(U, q, shuffled) == q = << >> => shuffled \in Orders(U)

\* A source and what is left of its queue, and the windows had with its own.
QueueMoves(U, rot, l, t, s, rest, t2) ==
    /\ s \in U /\ rest \in Seq(U) /\ IsInjective(rest) /\ s \notin ToSet(rest)
    /\ rot # << >> => Len(rest) = Len(rot) - 1
    /\ t2 \in [Sources -> Nat] /\ LevelsMeet(U, t2, rest)
    /\ s = l => l \in ToSet(rot) \/ Cardinality(U) = 1
Counted(t, s) == [t EXCEPT ![s] = @ + 1]

\* A turn of the rotation, refilled when it is empty, leaves them so, and
\* begins with the source drawn last only if it was due or is the only one.
LEMMA QueueGoesOn ==
    ASSUME NEW U, IsFiniteSet(U), U # {}, U \subseteq Sources,
           NEW rot \in Seq(U), IsInjective(rot),
           NEW shuffled, Refills(U, rot, shuffled), NEW l,
           NEW t \in [Sources -> Nat], LevelsMeet(U, t, rot),
           NEW queue, queue = NextQueue(rot, shuffled, l)
    PROVE  QueueMoves(U, rot, l, t, Head(queue), Tail(queue), Counted(t, Head(queue)))
<1> PICK s, rest : s = Head(queue) /\ rest = Tail(queue)
  OBVIOUS
<1> PICK t2 : t2 = Counted(t, s)
  OBVIOUS
<1>1. /\ queue \in Seq(U) /\ queue # << >> /\ IsInjective(queue)
      /\ rot = << >> => ToSet(queue) = U /\ (Head(queue) = l => Cardinality(U) = 1)
      /\ rot # << >> => queue = rot
  <2>1. CASE rot = << >>
    <3>1. shuffled \in Orders(U) /\ queue = refill_rotation(shuffled, l)
      BY <2>1 DEF Refills, NextQueue
    <3>2. /\ queue \in Seq(U) /\ ToSet(queue) = U /\ IsInjective(queue) /\ queue # << >>
          /\ Head(queue) = l => Cardinality(U) = 1
      BY <3>1, RefillIsWhole
    <3> QED
      BY <2>1, <3>2
  <2>2. CASE rot # << >>
    BY <2>2 DEF NextQueue
  <2> QED
    BY <2>1, <2>2
<1>2. /\ rest \in Seq(U) /\ IsInjective(rest) /\ Len(rest) = Len(queue) - 1
      /\ s \in ToSet(queue) /\ s \in U /\ ToSet(rest) = ToSet(queue) \ {s}
  BY <1>1, TailDropsHead
<1>3. s \in Sources /\ t2 \in [Sources -> Nat] /\ t2[s] = t[s] + 1
      /\ \A x \in U : t[x] \in Nat /\ (x # s => t2[x] = t[x])
  BY <1>2 DEF Counted
<1>4. LevelsMeet(U, t2, rest)
  <2>1. CASE rot = << >>
    <3>1. ToSet(rot) = {}
      BY <2>1 DEF ToSet
    <3>2. \A x \in U : LevelOf(t, rot, x) = t[x] /\ LevelOf(t2, rest, x) = t[x] + 1
      BY <1>1, <1>2, <1>3, <2>1, <3>1 DEF LevelOf
    <3> QED
      BY ONLY <1>3, <3>2, LevelsMeet(U, t, rot) DEF LevelsMeet
  <2>2. CASE rot # << >>
    <3>1. \A x \in U : LevelOf(t, rot, x) = LevelOf(t2, rest, x)
      BY <1>1, <1>2, <1>3, <2>2 DEF LevelOf
    <3> QED
      BY <3>1 DEF LevelsMeet
  <2> QED
    BY <2>1, <2>2
<1>5. s = l => l \in ToSet(rot) \/ Cardinality(U) = 1
  BY <1>1, <1>2
<1> QED
  BY <1>1, <1>2, <1>3, <1>4, <1>5 DEF QueueMoves

\* The cursors of the sources, and what their passes have drawn.
Cursors(e) == [epoch : 0 .. e, cursor : Nat, order : Seq(Nat)]
CursorsStand(e, cs, sn) ==
    /\ cs \in [Sources -> Cursors(e) \cup {None}]
    /\ \A s \in Sources : cs[s] # None => CursorStands(cs[s])
    /\ sn \in [Sources -> [of : Nat, slots : SUBSET Nat]]
    /\ \A s \in Sources \ restored : SeenStands(sn[s], cs[s])
    /\ \A s \in Sources \ Present : cs[s] = None

\* They stand under a later bound on the epochs.
LEMMA CursorsStandLonger ==
    ASSUME NEW e \in Nat, NEW f \in Nat, e <= f, NEW cs, NEW sn, CursorsStand(e, cs, sn)
    PROVE  CursorsStand(f, cs, sn)
<1>1. Cursors(e) \subseteq Cursors(f)
  <2>1. 0 .. e \subseteq 0 .. f
    OBVIOUS
  <2> QED
    BY <2>1 DEF Cursors
<1>2. cs \in [Sources -> Cursors(f) \cup {None}]
  BY <1>1 DEF CursorsStand
<1> QED
  BY <1>2 DEF CursorsStand

\* No cursor is None.
LEMMA CursorsAreSome ==
    ASSUME NEW e \in Nat, NEW c \in Cursors(e)
    PROVE  c # None
<1>1. c \in [epoch : Nat, cursor : Nat, order : Seq(Nat)]
  BY DEF Cursors
<1> QED
  BY <1>1, CorpusAssumption

\* The passes of a source, so many windows to each, up to an epoch.
Shuffled(s, slots, e) == \A ep \in 0 .. e : Shuffle(s, ep, slots) \in Passes(slots)

\* A cursor moved, and its window with those that its pass has had.
Moved(cs, s, d) == [cs EXCEPT ![s] = d]
Noted(sn, s, slots, d) ==
    [sn EXCEPT ![s] = [of |-> slots, slots |-> PassOf(sn[s], slots) \cup {SlotAt(d)}]]
CursorMoves(e, cs, sn, s, slots, d) ==
    /\ SlotAt(d) \in 0 .. slots - 1
    /\ SlotAt(d) \in PassOf(sn[s], slots) => s \in restored
    /\ CursorsStand(e, Moved(cs, s, d), Noted(sn, s, slots, d))

\* A window drawn moves its source's cursor, and is none that the pass has had.
LEMMA CursorsGoOn ==
    ASSUME NEW e \in Nat, NEW cs, NEW sn, CursorsStand(e, cs, sn),
           NEW s \in Present, NEW slots \in Nat \ {0},
           Shuffled(s, slots, e + 1),
           NEW d, d = NextSlot(s, CursorOf(cs[s]), slots)
    PROVE  CursorMoves(e + 1, cs, sn, s, slots, d)
<1> PICK slot, pass : slot = SlotAt(d) /\ pass = PassOf(sn[s], slots)
  OBVIOUS
<1> PICK old, w, c : old = cs[s] /\ w = sn[s] /\ c = CursorOf(old)
  OBVIOUS
<1>1. /\ s \in Sources /\ old \in Cursors(e) \cup {None} /\ (old # None => CursorStands(old))
      /\ w \in [of : Nat, slots : SUBSET Nat]
      /\ s \notin restored => SeenStands(w, old)
  BY DEF CursorsStand, Present
<1>2. c \in Cursors(e) /\ CursorStands(c)
  <2>1. CASE old = None
    <3>1. c = [epoch |-> 0, cursor |-> 0, order |-> << >>]
      BY <2>1 DEF WindowCursorNew, CursorOf
    <3> PICK z, q : z = 0 /\ q = << >>
      OBVIOUS
    <3>2. z \in 0 .. e /\ z \in Nat /\ q \in Seq(Nat) /\ c = [epoch |-> z, cursor |-> z, order |-> q]
      BY <3>1
    <3>3. c \in Cursors(e)
      BY ONLY <3>2 DEF Cursors
    <3>4. c.order = << >>
      BY <3>1
    <3> QED
      BY <3>3, <3>4 DEF CursorStands
  <2>2. CASE old # None
    BY <1>1, <2>2 DEF CursorOf
  <2> QED
    BY <2>1, <2>2
<1>3. d = NextSlot(s, c, slots) /\ c \in [epoch : 0 .. e, cursor : Nat, order : Seq(Nat)]
  BY <1>2 DEF Cursors
<1>4. /\ d \in [epoch : 0 .. e + 1, cursor : Nat, order : Seq(Nat)]
      /\ MovesOn(c, d, slots)
  BY <1>2, <1>3, NextSlotStands DEF Shuffled
<1>5. d \in Cursors(e + 1) /\ d # None /\ CursorStands(d)
  <2>1. d \in Cursors(e + 1)
    BY <1>4 DEF Cursors
  <2>2. CursorStands(d)
    BY <1>4 DEF CursorStands, MovesOn
  <2>3. d # None
    BY <2>1, CursorsAreSome
  <2> QED
    BY <2>1, <2>2, <2>3
<1>6. slot \in 0 .. slots - 1
  BY <1>4, PassIsASequence DEF MovesOn, SlotAt
<1>7. s \notin restored => /\ slot \notin pass
                           /\ SeenStands([of |-> slots, slots |-> pass \cup {slot}], d)
  <2> SUFFICES ASSUME s \notin restored
               PROVE  /\ slot \notin pass
                      /\ SeenStands([of |-> slots, slots |-> pass \cup {slot}], d)
    OBVIOUS
  <2>1. SeenStands(w, old)
    BY <1>1
  <2> QED
    BY <1>1, <1>4, <1>5, <2>1, PassGoesOn
<1> PICK w2, cs2, sn2 : /\ w2 = [of |-> slots, slots |-> pass \cup {slot}]
                        /\ cs2 = Moved(cs, s, d) /\ sn2 = Noted(sn, s, slots, d)
  OBVIOUS
<1>c. cs2 = [cs EXCEPT ![s] = d] /\ sn2 = [sn EXCEPT ![s] = w2]
  BY DEF Moved, Noted
<1>8. w2 \in [of : Nat, slots : SUBSET Nat]
  <2>1. pass \subseteq Nat
    BY <1>1 DEF PassOf
  <2> QED
    BY <1>6, <2>1
<1>9. /\ CursorsStand(e + 1, cs, sn)
  BY CursorsStandLonger
<1>10. /\ cs2 \in [Sources -> Cursors(e + 1) \cup {None}] /\ cs2[s] = d
       /\ sn2 \in [Sources -> [of : Nat, slots : SUBSET Nat]] /\ sn2[s] = w2
       /\ \A x \in Sources : x # s => cs2[x] = cs[x] /\ sn2[x] = sn[x]
  BY <1>1, <1>5, <1>8, <1>9, <1>c DEF CursorsStand
<1>11. CursorsStand(e + 1, cs2, sn2)
  <2>1. \A x \in Sources : cs2[x] # None => CursorStands(cs2[x])
    BY <1>5, <1>9, <1>10 DEF CursorsStand
  <2>2. \A x \in Sources \ restored : SeenStands(sn2[x], cs2[x])
    BY <1>7, <1>9, <1>10 DEF CursorsStand
  <2>3. \A x \in Sources \ Present : cs2[x] = None
    BY <1>9, <1>10 DEF CursorsStand
  <2> QED
    BY <1>10, <2>1, <2>2, <2>3 DEF CursorsStand
<1> QED
  BY <1>6, <1>7, <1>11 DEF CursorMoves

\* The draws a batch may hold, and the sampler after so many turns.
Draws(sp) ==
    {d \in [source : Sources, start : Nat, after : Sources \cup {None},
            again : BOOLEAN, changed : BOOLEAN] :
        /\ \E s \in Usable(sp) : \E slot \in 0 .. SlotsOf(sp, s) - 1 :
              d.start = BaseOf(sp, s) + slot * Context
        /\ d.again => d.source \in restored
        /\ d.source = d.after => d.changed \/ Cardinality(Usable(sp)) = 1}

Turn(sp, n, st) ==
    /\ st.rotation \in Seq(Usable(sp)) /\ IsInjective(st.rotation)
    /\ st.last \in Sources \cup {None}
    /\ st.changed \in BOOLEAN /\ (~ st.changed => st.last \notin ToSet(st.rotation))
    /\ st.turns \in [Sources -> Nat] /\ LevelsMeet(Usable(sp), st.turns, st.rotation)
    /\ st.counts \in [Sources -> Nat]
    /\ CursorsStand(drawn + n, st.cursors, st.seen)
    /\ st.batch \in Seq(Draws(sp))

\* The usable sources are some of those present.
LEMMA UsableIsFinite ==
    ASSUME TypeOK, NEW sp
    PROVE  Usable(sp) \subseteq Sources /\ Usable(sp) \subseteq Present /\ IsFiniteSet(Usable(sp))
<1>1. \A k \in DOMAIN order : order[k] \in Present
  BY DEF TypeOK, ToSet
<1>2. Usable(sp) \subseteq Present
  BY <1>1 DEF Usable
<1>3. Present \subseteq Sources
  BY DEF Present
<1> QED
  BY <1>2, <1>3, CorpusAssumption, FS_Subset

\* A turn of the loop goes from one to the next.
LEMMA TurnIsTaken ==
    ASSUME TypeOK, NEW sp \in Spans, NEW stream, Holds(stream, sp.train, TrainParts),
           Usable(sp) # {}, drawn + BatchSize <= MaxDraws,
           NEW n \in 0 .. BatchSize - 1, NEW st, Turn(sp, n, st),
           NEW opening \in BOOLEAN, NEW shuffled \in Orders(Usable(sp))
    PROVE  Turn(sp, n + 1, DrawOne(sp, st, opening, shuffled))
<1> PICK U, rot, l, ch, t, cs, sn, batch :
       /\ U = Usable(sp) /\ rot = st.rotation /\ l = st.last /\ ch = st.changed /\ t = st.turns
       /\ cs = st.cursors /\ sn = st.seen /\ batch = st.batch
  OBVIOUS
<1>1. IsFiniteSet(U) /\ U # {} /\ U \subseteq Sources /\ U \subseteq Present
  BY UsableIsFinite
<1>2. /\ rot \in Seq(U) /\ IsInjective(rot)
      /\ l \in Sources \cup {None} /\ ch \in BOOLEAN /\ (~ ch => l \notin ToSet(rot))
      /\ t \in [Sources -> Nat] /\ LevelsMeet(U, t, rot)
  BY DEF Turn
<1>3. st.counts \in [Sources -> Nat] /\ CursorsStand(drawn + n, cs, sn) /\ batch \in Seq(Draws(sp))
  BY DEF Turn
<1>4. /\ n \in Nat /\ n < BatchSize /\ BatchSize \in Nat /\ drawn \in Nat /\ MaxDraws \in Nat
      /\ drawn + n \in Nat /\ drawn + n + 1 = drawn + (n + 1)
      /\ 0 .. drawn + n + 1 \subseteq 0 .. MaxDraws
  BY CorpusAssumption DEF TypeOK
<1>5. Refills(U, rot, shuffled)
  BY DEF Refills
<1> PICK queue : queue = NextQueue(rot, shuffled, l)
  OBVIOUS
<1> PICK s, rest : s = Head(queue) /\ rest = Tail(queue)
  OBVIOUS
<1> PICK t2 : t2 = Counted(t, s)
  OBVIOUS
<1>6. QueueMoves(U, rot, l, t, s, rest, t2)
  BY <1>1, <1>2, <1>5, QueueGoesOn
<1> PICK slots, base : slots = SlotsOf(sp, s) /\ base = BaseOf(sp, s)
  OBVIOUS
<1>7. /\ s \in Present /\ s \in Sources /\ base \in Nat /\ slots \in Nat \ {0}
      /\ \A e \in 0 .. MaxDraws : Shuffle(s, e, slots) \in Passes(slots)
  <2>1. s \in Usable(sp)
    BY <1>6 DEF QueueMoves
  <2> QED
    BY <2>1, UsableHasWindows
<1> PICK d, pass : d = NextSlot(s, CursorOf(cs[s]), slots) /\ pass = PassOf(sn[s], slots)
  OBVIOUS
<1> PICK moved : moved = SlotAt(d)
  OBVIOUS
<1> PICK cs2, sn2 : cs2 = Moved(cs, s, d) /\ sn2 = Noted(sn, s, slots, d)
  OBVIOUS
<1>8. CursorMoves(drawn + n + 1, cs, sn, s, slots, d)
  <2> PICK e : e = drawn + n
    OBVIOUS
  <2>1. \A ep \in 0 .. e + 1 : ep \in 0 .. MaxDraws
    BY <1>4
  <2>2. Shuffled(s, slots, e + 1)
    BY <1>7, <2>1 DEF Shuffled
  <2>3. e \in Nat /\ CursorsStand(e, cs, sn)
    BY <1>3, <1>4
  <2> QED
    BY <1>7, <2>2, <2>3, CursorsGoOn
<1> PICK next : next = DrawOne(sp, st, opening, shuffled)
  OBVIOUS
<1> PICK slot : slot = IF opening THEN 0 ELSE moved
  OBVIOUS
<1>9. /\ next.rotation = rest /\ next.last = s /\ next.turns = t2
      /\ next.counts = [st.counts EXCEPT ![s] = @ + 1]
      /\ next.cursors = IF opening THEN cs ELSE cs2
      /\ next.seen = IF opening THEN sn ELSE sn2
      /\ next.changed = (ch /\ ~ rot = << >>)
      /\ next.batch = Append(batch, [source |-> s, start |-> base + slot * Context, after |-> l,
                                     again |-> ~ opening /\ slot \in pass,
                                     changed |-> ch /\ ~ rot = << >>])
  <2> DEFINE queueX == IF st.rotation = << >> THEN refill_rotation(shuffled, st.last)
                       ELSE st.rotation
             sX == Head(queueX)
             baseX == sp.train[PlaceOf(sX)][1]
             slotsX == Slots(sp.train[PlaceOf(sX)][2])
             cursorX == NextSlot(sX, IF st.cursors[sX] = None THEN WindowCursorNew
                                     ELSE st.cursors[sX], slotsX)
             slotX == IF opening THEN 0 ELSE cursorX.order[cursorX.cursor]
             passX == IF st.seen[sX].of # slotsX \/ Cardinality(st.seen[sX].slots) = slotsX
                      THEN {} ELSE st.seen[sX].slots
  <2>1. next =
          [rotation |-> Tail(queueX), last |-> sX,
           counts |-> [st.counts EXCEPT ![sX] = @ + 1],
           cursors |-> IF opening THEN st.cursors ELSE [st.cursors EXCEPT ![sX] = cursorX],
           seen |-> IF opening THEN st.seen
                    ELSE [st.seen EXCEPT ![sX] = [of |-> slotsX, slots |-> passX \cup {slotX}]],
           turns |-> [st.turns EXCEPT ![sX] = @ + 1],
           changed |-> st.changed /\ ~ st.rotation = << >>,
           batch |-> Append(st.batch,
                            [source |-> sX, start |-> baseX + slotX * Context, after |-> st.last,
                             again |-> ~ opening /\ slotX \in passX,
                             changed |-> st.changed /\ ~ st.rotation = << >>])]
    BY DEF DrawOne
  <2>2. queueX = queue
    BY DEF NextQueue
  <2> HIDE DEF queueX
  <2>3. sX = s
    BY <2>2, SMTT(60)
  <2> HIDE DEF sX
  <2>4. baseX = base /\ slotsX = slots
    BY <2>3, SMTT(60) DEF BaseOf, SlotsOf
  <2> HIDE DEF baseX, slotsX
  <2>5. cursorX = d /\ passX = pass
    BY <2>3, <2>4, SMTT(60) DEF CursorOf, PassOf
  <2> HIDE DEF cursorX, passX
  <2>6. slotX = slot
    BY <2>5 DEF SlotAt
  <2> HIDE DEF slotX
  <2>7. ~ opening => slot = moved
    OBVIOUS
  <2>8. [st.seen EXCEPT ![s] = [of |-> slots, slots |-> pass \cup {moved}]] = sn2
    BY DEF Noted
  <2>9. [st.cursors EXCEPT ![s] = d] = cs2
    BY DEF Moved
  <2>10. [st.turns EXCEPT ![s] = @ + 1] = t2
    BY SMTT(60) DEF Counted
  <2>11. next =
          [rotation |-> rest, last |-> s,
           counts |-> [st.counts EXCEPT ![s] = @ + 1],
           cursors |-> IF opening THEN cs ELSE [st.cursors EXCEPT ![s] = d],
           seen |-> IF opening THEN sn
                    ELSE [st.seen EXCEPT ![s] = [of |-> slots, slots |-> pass \cup {slot}]],
           turns |-> [st.turns EXCEPT ![s] = @ + 1],
           changed |-> ch /\ ~ rot = << >>,
           batch |-> Append(batch,
                            [source |-> s, start |-> base + slot * Context, after |-> l,
                             again |-> ~ opening /\ slot \in pass,
                             changed |-> ch /\ ~ rot = << >>])]
    BY <2>1, <2>2, <2>3, <2>4, <2>5, <2>6
  <2>12. next.cursors = IF opening THEN cs ELSE cs2
    BY ONLY <2>9, <2>11
  <2>13. next.seen = IF opening THEN sn ELSE sn2
    <3>1. CASE opening
      BY ONLY <2>11, <3>1
    <3>2. CASE ~ opening
      <4>1. next.seen = [st.seen EXCEPT ![s] = [of |-> slots, slots |-> pass \cup {slot}]]
        BY ONLY <2>11, <3>2
      <4>2. slot = moved
        BY <2>7, <3>2
      <4>3. next.seen = sn2
        BY ONLY <2>8, <4>1, <4>2
      <4> QED
        BY ONLY <3>2, <4>3
    <3> QED
      BY <3>1, <3>2
  <2>14. /\ next.rotation = rest /\ next.last = s
         /\ next.counts = [st.counts EXCEPT ![s] = @ + 1]
    BY ONLY <2>11
  <2>15. next.turns = t2
    BY ONLY <2>10, <2>11
  <2>16. next.changed = (ch /\ ~ rot = << >>)
    BY ONLY <2>11
  <2>17. next.batch = Append(batch, [source |-> s, start |-> base + slot * Context, after |-> l,
                                     again |-> ~ opening /\ slot \in pass,
                                     changed |-> ch /\ ~ rot = << >>])
    BY ONLY <2>11, SMTT(60)
  <2> QED
    BY ONLY <2>12, <2>13, <2>14, <2>15, <2>16, <2>17, SMTT(60)
<1> PICK draw : draw = [source |-> s, start |-> base + slot * Context, after |-> l,
                        again |-> ~ opening /\ slot \in pass, changed |-> ch /\ ~ rot = << >>]
  OBVIOUS
<1>10. /\ s \in U /\ rest \in Seq(U) /\ IsInjective(rest) /\ s \notin ToSet(rest)
       /\ rot # << >> => Len(rest) = Len(rot) - 1
       /\ t2 \in [Sources -> Nat] /\ LevelsMeet(U, t2, rest)
       /\ s = l => l \in ToSet(rot) \/ Cardinality(U) = 1
  BY <1>6 DEF QueueMoves
<1>11. /\ moved \in 0 .. slots - 1 /\ (moved \in pass => s \in restored)
       /\ CursorsStand(drawn + (n + 1), cs2, sn2)
  BY <1>4, <1>8, SMTT(60) DEF CursorMoves
<1>12. draw \in Draws(sp)
  <2>1. slot \in 0 .. slots - 1
    BY <1>7, <1>11
  <2>2. slot * Context \in Nat /\ base + slot * Context \in Nat
    <3>1. slot \in Nat /\ Context \in Nat /\ base \in Nat
      BY <1>7, <2>1, CorpusAssumption, SMTT(60)
    <3> QED
      BY ONLY <3>1, SMTT(60)
  <2>3. draw \in [source : Sources, start : Nat, after : Sources \cup {None},
                  again : BOOLEAN, changed : BOOLEAN]
    BY <1>2, <1>7, <2>2, SMTT(60)
  <2>4. \E x \in Usable(sp) : \E i \in 0 .. SlotsOf(sp, x) - 1 :
           draw.start = BaseOf(sp, x) + i * Context
    <3>1. draw.start = base + slot * Context /\ s \in Usable(sp)
      BY <1>10, SMTT(60)
    <3> QED
      BY <2>1, <3>1, SMTT(60)
  <2>5. draw.again => draw.source \in restored
    <3>1. draw.source = s /\ (draw.again => ~ opening /\ slot \in pass)
      OBVIOUS
    <3>2. ~ opening => slot = moved
      OBVIOUS
    <3> QED
      BY <1>11, <3>1, <3>2
  <2>6. draw.source = draw.after => draw.changed \/ Cardinality(Usable(sp)) = 1
    <3>1. draw.source = s /\ draw.after = l /\ (ch /\ ~ rot = << >> => draw.changed)
      OBVIOUS
    <3>2. l \in ToSet(rot) => ch /\ ~ rot = << >>
      <4>1. rot = << >> => ToSet(rot) = {}
        BY SMTT(60) DEF ToSet
      <4> QED
        BY <1>2, <4>1
    <3> QED
      BY <1>10, <3>1, <3>2
  <2> QED
    BY <2>3, <2>4, <2>5, <2>6, SMTT(60) DEF Draws
<1>13. next.batch \in Seq(Draws(sp))
  <2>1. next.batch = Append(batch, draw)
    BY <1>9
  <2> QED
    BY <1>3, <1>12, <2>1, SMTT(60)
<1>14. CursorsStand(drawn + (n + 1), next.cursors, next.seen)
  <2>1. CASE opening
    <3>1. next.cursors = cs /\ next.seen = sn
      BY <1>9, <2>1
    <3>2. drawn + n <= drawn + (n + 1) /\ drawn + (n + 1) \in Nat
      BY <1>4
    <3>3. CursorsStand(drawn + (n + 1), cs, sn)
      BY <1>3, <1>4, <3>2, CursorsStandLonger, SMTT(60)
    <3> QED
      BY <3>1, <3>3
  <2>2. CASE ~ opening
    <3>1. next.cursors = cs2 /\ next.seen = sn2
      BY <1>9, <2>2, SMTT(60)
    <3> QED
      BY <1>11, <3>1, SMTT(60)
  <2> QED
    BY <2>1, <2>2
<1>15. next.counts \in [Sources -> Nat]
  BY <1>3, <1>7, <1>9, SMTT(60)
<1>16. next.changed \in BOOLEAN /\ next.last \in Sources \cup {None}
       /\ next.last \notin ToSet(next.rotation)
  BY <1>7, <1>9, <1>10, SMTT(60)
<1>17. /\ next.rotation \in Seq(U) /\ IsInjective(next.rotation)
       /\ next.turns \in [Sources -> Nat] /\ LevelsMeet(U, next.turns, next.rotation)
  BY <1>9, <1>10
<1> QED
  BY <1>13, <1>14, <1>15, <1>16, <1>17 DEF Turn

\* The turns of a batch are taken one after another.
LEMMA BatchIsDrawn ==
    ASSUME TypeOK, NEW sp \in Spans, NEW stream, Holds(stream, sp.train, TrainParts),
           Usable(sp) # {}, drawn + BatchSize <= MaxDraws,
           NEW openings \in [1 .. BatchSize -> BOOLEAN],
           NEW shuffles \in [1 .. BatchSize -> Orders(Usable(sp))],
           NEW start, Turn(sp, 0, start)
    PROVE  Turn(sp, BatchSize, DrawBatch(sp, start, openings, shuffles))
<1> DEFINE G(k, v) == DrawOne(sp, v, openings[k], shuffles[k])
           F(f) == [n \in 0 .. BatchSize |-> IF n = 0 THEN start ELSE G(n, f[n - 1])]
           after == CHOOSE f : f = F(f)
<1> PICK N : N = BatchSize
  OBVIOUS
<1>1. N \in Nat
  BY CorpusAssumption
<1>2. DrawBatch(sp, start, openings, shuffles) = after[N]
  BY DEF DrawBatch
<1>3. \A v : \A k \in 0 .. N - 1 : Turn(sp, k, v) => Turn(sp, k + 1, G(k + 1, v))
  <2> SUFFICES ASSUME NEW k \in 0 .. N - 1, NEW v, Turn(sp, k, v)
               PROVE  Turn(sp, k + 1, G(k + 1, v))
    OBVIOUS
  <2>1. openings[k + 1] \in BOOLEAN /\ shuffles[k + 1] \in Orders(Usable(sp))
    BY <1>1
  <2> QED
    BY <2>1, TurnIsTaken
<1> HIDE DEF G
<1>4. \E f : f = F(f)
  <2> DEFINE Up(n) == \E f : /\ f = [k \in 0 .. n |-> f[k]] /\ f[0] = start
                             /\ \A k \in 1 .. n : f[k] = G(k, f[k - 1])
             S == {n \in 0 .. N : Up(n)}
  <2>1. 0 \in S
    <3> PICK f : f = [k \in 0 .. 0 |-> start]
      OBVIOUS
    <3>1. f = [k \in 0 .. 0 |-> f[k]] /\ f[0] = start /\ 1 .. 0 = {}
      OBVIOUS
    <3>2. Up(0)
      BY <3>1
    <3> QED
      BY <1>1, <3>2
  <2>2. ASSUME NEW n \in 0 .. N - 1, n \in S PROVE n + 1 \in S
    <3> PICK a : a = n + 1
      OBVIOUS
    <3>1. PICK f : /\ f = [k \in 0 .. n |-> f[k]] /\ f[0] = start
                   /\ \A k \in 1 .. n : f[k] = G(k, f[k - 1])
      BY <2>2
    <3> PICK g : g = [k \in 0 .. a |-> IF k = a THEN G(a, f[n]) ELSE f[k]]
      OBVIOUS
    <3>2. /\ a \in 0 .. N /\ a \in 1 .. N /\ n \in 0 .. n /\ a - 1 = n /\ a # 0
          /\ \A k \in 1 .. a : k \in 0 .. a /\ (k = a \/ (k \in 1 .. n /\ k # a))
          /\ \A k \in 1 .. n : k - 1 \in 0 .. a /\ k - 1 # a
          /\ 0 \in 0 .. a /\ n \in 0 .. a /\ n # a
      BY <1>1
    <3>3. /\ g[a] = G(a, f[n]) /\ g[0] = f[0] /\ g[n] = f[n]
          /\ \A k \in 1 .. n : g[k] = f[k] /\ g[k - 1] = f[k - 1]
          /\ g = [k \in 0 .. a |-> g[k]]
      <4>1. \A k \in 0 .. a : g[k] = IF k = a THEN G(a, f[n]) ELSE f[k]
        BY ONLY g = [k \in 0 .. a |-> IF k = a THEN G(a, f[n]) ELSE f[k]]
      <4>2. g = [k \in 0 .. a |-> g[k]]
        BY ONLY g = [k \in 0 .. a |-> IF k = a THEN G(a, f[n]) ELSE f[k]]
      <4>3. \A k \in 1 .. n : k \in 0 .. a /\ k # a
        BY <3>2
      <4>4. a \in 0 .. a
        BY <3>2
      <4> QED
        BY ONLY <3>2, <4>1, <4>2, <4>3, <4>4
    <3>4. \A k \in 1 .. a : g[k] = G(k, g[k - 1])
      BY ONLY <3>1, <3>2, <3>3
    <3>5. Up(a)
      <4>1. g[0] = start /\ g = [k \in 0 .. a |-> g[k]]
        BY <3>1, <3>3
      <4> QED
        BY ONLY <3>4, <4>1, Zenon
    <3> QED
      BY <3>2, <3>5
  <2>3. 0 .. N \subseteq S
    <3> HIDE DEF S
    <3> QED
      BY ONLY <1>1, <2>1, <2>2, Climb
  <2>4. N \in S
    <3>1. N \in 0 .. N
      BY <1>1
    <3> HIDE DEF S
    <3> QED
      BY <2>3, <3>1
  <2>5. PICK f : /\ f = [k \in 0 .. N |-> f[k]] /\ f[0] = start
                 /\ \A k \in 1 .. N : f[k] = G(k, f[k - 1])
    BY <2>4
  <2>6. \A k \in 0 .. N : k = 0 \/ (k \in 1 .. N /\ k # 0)
    BY <1>1
  <2>7. \A k \in 0 .. N : f[k] = IF k = 0 THEN start ELSE G(k, f[k - 1])
    BY ONLY <2>5, <2>6
  <2>8. f = [k \in 0 .. N |-> IF k = 0 THEN start ELSE G(k, f[k - 1])]
    BY ONLY <2>5, <2>7
  <2> QED
    BY <2>8
<1>5. after = F(after)
  BY ONLY <1>4
<1> HIDE DEF after
<1>6. \A k \in 0 .. N : after[k] = IF k = 0 THEN start ELSE G(k, after[k - 1])
  BY ONLY <1>5, N = BatchSize
<1> DEFINE Done == {k \in 0 .. N : Turn(sp, k, after[k])}
<1>7. 0 \in Done
  BY <1>1, <1>6
<1>8. ASSUME NEW k \in 0 .. N - 1, k \in Done PROVE k + 1 \in Done
  <2> PICK a : a = k + 1
    OBVIOUS
  <2>1. a \in 0 .. N /\ a # 0 /\ a - 1 = k
    BY <1>1
  <2>2. after[a] = G(a, after[k])
    BY ONLY <1>6, <2>1
  <2>3. Turn(sp, a, after[a])
    BY <1>3, <1>8, <2>2
  <2> QED
    BY <2>1, <2>3
<1>9. 0 .. N \subseteq Done
  <2> HIDE DEF Done
  <2> QED
    BY ONLY <1>1, <1>7, <1>8, Climb
<1>10. N \in 0 .. N
  BY <1>1
<1> QED
  BY <1>2, <1>9, <1>10

-----------------------------------------------------------------------------
(* The fixed sets.                                                         *)

\* Spans with room for a window and a target more, and the room for their
\* beginnings, added up.
Wide(u) == \A k \in DOMAIN u : u[k][2] > Context + 1
RoomOf(u) ==
    CHOOSE f : f = [k \in 0 .. Len(u) |-> IF k = 0 THEN 0
                                          ELSE f[k - 1] + u[k][2] - Context - 1]
RoomIn(u, room) ==
    /\ room[0] = 0 /\ \A k \in 0 .. Len(u) : room[k] \in Nat
    /\ \A k \in 1 .. Len(u) : room[k] = room[k - 1] + u[k][2] - Context - 1

\* Each sum is the one before it and a span's own room.
LEMMA RoomAddsUp ==
    ASSUME NEW usable \in Seq(Nat \X Nat), Wide(usable)
    PROVE  RoomIn(usable, RoomOf(usable))
<1> PICK n, room : n = Len(usable) /\ room = RoomOf(usable)
  OBVIOUS
<1>a. n \in Nat /\ usable \in [1 .. n -> Nat \X Nat] /\ DOMAIN usable = 1 .. n
  OBVIOUS
<1> DEFINE F(f) == [k \in 0 .. n |-> IF k = 0 THEN 0 ELSE f[k - 1] + usable[k][2] - Context - 1]
<1> PICK c : c = Context
  OBVIOUS
<1> PICK len : len = [k \in 1 .. n |-> usable[k][2] - c - 1]
  OBVIOUS
<1>1. /\ c \in Nat
      /\ \A k \in 1 .. n : usable[k][2] \in Nat /\ len[k] = usable[k][2] - c - 1 /\ len[k] \in Nat
  <2>1. \A k \in 1 .. n : usable[k] \in Nat \X Nat /\ usable[k][2] > Context + 1
    BY <1>a DEF Wide
  <2> QED
    BY <2>1, CorpusAssumption
<1> PICK Step : Step = [k \in 1 .. n |-> [v \in Nat |-> v + len[k]]]
  OBVIOUS
<1>2. \A k \in 1 .. n, v \in Nat : Step[k][v] = v + len[k] /\ Step[k][v] \in Nat
  <2>1. \A k \in 1 .. n : Step[k] = [v \in Nat |-> v + len[k]]
    BY ONLY Step = [k \in 1 .. n |-> [v \in Nat |-> v + len[k]]]
  <2>2. \A k \in 1 .. n : len[k] \in Nat
    BY <1>1
  <2> SUFFICES ASSUME NEW k \in 1 .. n, NEW v \in Nat
               PROVE  Step[k][v] = v + len[k] /\ Step[k][v] \in Nat
    OBVIOUS
  <2> PICK l, g : l = len[k] /\ g = Step[k]
    OBVIOUS
  <2>3. l \in Nat /\ g = [x \in Nat |-> x + l]
    BY ONLY <2>1, <2>2, k \in 1 .. n, l = len[k], g = Step[k]
  <2>4. g[v] = v + l /\ g[v] \in Nat
    BY ONLY <2>3, v \in Nat
  <2> QED
    BY <2>4
<1>3. PICK f \in [0 .. n -> Nat] : f[0] = 0 /\ \A k \in 1 .. n : f[k] = Step[k][f[k - 1]]
  <2> PICK V, z : V = Nat /\ z = 0
    OBVIOUS
  <2>1. n \in Nat /\ z \in V /\ StepsOn(n, V, Step)
    BY <1>a, <1>2 DEF StepsOn
  <2>2. \E f \in [0 .. n -> V] : Iterates(n, z, Step, f)
    BY ONLY <2>1, Iterated
  <2> QED
    BY <2>2 DEF Iterates
<1>4. \A k \in 0 .. n : f[k] = IF k = 0 THEN 0 ELSE f[k - 1] + usable[k][2] - c - 1
  <2> SUFFICES ASSUME NEW k \in 1 .. n PROVE f[k] = f[k - 1] + usable[k][2] - c - 1
    BY <1>3
  <2> PICK v : v = f[k - 1]
    OBVIOUS
  <2>1. v \in Nat
    <3>1. k - 1 \in 0 .. n
      BY <1>a
    <3> QED
      BY <1>3, <3>1
  <2>2. f[k] = v + (usable[k][2] - c - 1) /\ usable[k][2] \in Nat
    BY <1>1, <1>2, <1>3, <2>1
  <2> QED
    BY ONLY <1>1, <2>1, <2>2, v = f[k - 1]
<1>5. f = F(f)
  BY <1>4
<1>b. room = CHOOSE g : g = F(g)
  BY DEF RoomOf
<1>6. room = F(room)
  BY ONLY <1>5, <1>b
<1>7. \A k \in 0 .. n : room[k] = IF k = 0 THEN 0 ELSE room[k - 1] + usable[k][2] - c - 1
  BY ONLY <1>6, c = Context
<1>8. room[0] = 0 /\ \A k \in 1 .. n : room[k] = room[k - 1] + usable[k][2] - c - 1
  <2>1. 0 \in 0 .. n /\ \A k \in 1 .. n : k \in 0 .. n /\ k # 0
    BY <1>a
  <2> QED
    BY ONLY <1>7, <2>1
<1> DEFINE Done == {k \in 0 .. n : room[k] \in Nat}
<1>9. 0 \in Done
  BY <1>a, <1>8
<1>10. ASSUME NEW k \in 0 .. n - 1, k \in Done PROVE k + 1 \in Done
  <2> PICK a, v : a = k + 1 /\ v = room[k]
    OBVIOUS
  <2>1. a \in 1 .. n /\ a \in 0 .. n /\ a - 1 = k /\ v \in Nat
    BY <1>a, <1>10
  <2>2. room[a] = v + usable[a][2] - c - 1 /\ usable[a][2] \in Nat /\ usable[a][2] - c - 1 \in Nat
    BY <1>1, <1>8, <2>1
  <2>3. room[a] \in Nat
    BY ONLY <1>1, <2>1, <2>2, SMTT(60)
  <2> QED
    BY <2>1, <2>3
<1>11. 0 .. n \subseteq Done
  <2> HIDE DEF Done
  <2> QED
    BY ONLY <1>a, <1>9, <1>10, Climb
<1> QED
  BY <1>8, <1>11 DEF RoomIn

\* A share of a total is less than the total.
LEMMA ShareIsLess ==
    ASSUME NEW total \in Nat, total > 0, NEW count \in Nat \ {0}, NEW i \in 0 .. count - 1
    PROVE  (i * total) \div count \in 0 .. total - 1
<1> PICK a, q, r : a = i * total /\ q = a \div count /\ r = a % count
  OBVIOUS
<1>1. a \in Nat /\ a <= (count - 1) * total
  BY ONLY i \in 0 .. count - 1, total \in Nat, count \in Nat \ {0}, a = i * total
<1>2. a = count * q + r /\ q \in Nat /\ r \in 0 .. count - 1
  BY ONLY <1>1, count \in Nat \ {0}, q = a \div count, r = a % count
<1>3. (count - 1) * total = count * total - total /\ count * total \in Nat
  BY ONLY total \in Nat, count \in Nat \ {0}
<1>4. count * q < count * total
  BY ONLY <1>1, <1>2, <1>3, total \in Nat, total > 0, count \in Nat \ {0}
<1>5. q < total
  BY ONLY <1>2, <1>4, total \in Nat, count \in Nat \ {0}
<1> QED
  BY <1>2, <1>5

\* The first of the ascending sums that is above an offset into their room.
FirstAbove(n, room, offset) ==
    CHOOSE p \in 1 .. n : offset < room[p] /\ \A q \in 1 .. p - 1 : offset >= room[q]

IsFirstAbove(n, room, offset, p) ==
    p \in 1 .. n /\ offset < room[p] /\ \A q \in 1 .. p - 1 : offset >= room[q]

\* There is one, since the last sum is above it.
LEMMA FirstIsFound ==
    ASSUME NEW u \in Seq(Nat \X Nat), NEW room, RoomIn(u, room), NEW n, n = Len(u), n # 0,
           NEW offset \in Nat, offset < room[n]
    PROVE  IsFirstAbove(n, room, offset, FirstAbove(n, room, offset))
<1>a. n \in Nat /\ \A k \in 1 .. n : room[k] \in Nat
  BY DEF RoomIn
<1> DEFINE P(p) == offset < room[p] /\ \A q \in 1 .. p - 1 : offset >= room[q]
           Below == {k \in 0 .. n : \A q \in 1 .. k : offset >= room[q]}
<1>1. \E p \in 1 .. n : P(p)
  <2>1. SUFFICES ASSUME ~ \E p \in 1 .. n : P(p) PROVE FALSE
    OBVIOUS
  <2>2. 0 \in Below
    BY <1>a
  <2>3. ASSUME NEW k \in 0 .. n - 1, k \in Below PROVE k + 1 \in Below
    <3> PICK a : a = k + 1
      OBVIOUS
    <3>1. a \in 1 .. n /\ a \in 0 .. n /\ a - 1 = k /\ \A q \in 1 .. a : q \in 1 .. k \/ q = a
      BY <1>a
    <3>2. ~ (offset < room[a])
      BY <2>1, <2>3, <3>1
    <3>3. \A q \in 1 .. a : offset >= room[q]
      <4>1. room[a] \in Nat
        BY <1>a, <3>1
      <4>2. offset >= room[a]
        BY ONLY <3>2, <4>1, offset \in Nat
      <4>3. \A q \in 1 .. k : offset >= room[q]
        BY <2>3
      <4> QED
        BY ONLY <3>1, <4>2, <4>3
    <3> QED
      BY <3>1, <3>3
  <2>4. 0 .. n \subseteq Below
    <3> HIDE DEF Below
    <3> QED
      BY ONLY <1>a, <2>2, <2>3, Climb
  <2>5. n \in 0 .. n /\ n \in 1 .. n
    BY <1>a
  <2>6. offset >= room[n]
    BY <2>4, <2>5
  <2> QED
    BY <1>a, <2>5, <2>6
<1> QED
  BY <1>1 DEF FirstAbove, IsFirstAbove

\* A place in a span that leaves room for a window.
Within(sp, start) ==
    \E k \in DOMAIN sp : \E at \in Nat : start = sp[k][1] + at /\ at + Context + 1 <= sp[k][2]

\* A place in the room of usable spans is within one of them.
LEMMA RoomIsWithin ==
    ASSUME NEW u \in Seq(Nat \X Nat), Wide(u), NEW n, n = Len(u), n # 0,
           NEW room, RoomIn(u, room), NEW count \in Nat \ {0}, NEW i \in 0 .. count - 1,
           NEW offset, offset = (i * room[n]) \div count,
           NEW p, p = FirstAbove(n, room, offset)
    PROVE  Within(u, u[p][1] + offset - room[p - 1])
<1> PICK c, t : c = Context /\ t = room[n]
  OBVIOUS
<1>1. /\ c \in Nat /\ n \in Nat \ {0}
      /\ \A k \in 1 .. n : u[k][1] \in Nat /\ u[k][2] \in Nat /\ u[k][2] > c + 1
  <2>1. \A k \in 1 .. n : u[k] \in Nat \X Nat /\ u[k][2] > Context + 1
    BY DEF Wide
  <2> QED
    BY <2>1, CorpusAssumption, SMTT(60)
<1>2. /\ room[0] = 0 /\ \A k \in 0 .. n : room[k] \in Nat
      /\ \A k \in 1 .. n : room[k] = room[k - 1] + u[k][2] - c - 1
  BY DEF RoomIn
<1>3. t \in Nat /\ t > 0
  <2> PICK v, w : v = room[n - 1] /\ w = u[n][2]
    OBVIOUS
  <2>1. n - 1 \in 0 .. n /\ n \in 1 .. n
    BY <1>1
  <2>2. v \in Nat /\ t = v + w - c - 1 /\ w \in Nat /\ w > c + 1
    BY <1>1, <1>2, <2>1
  <2> QED
    BY ONLY <1>1, <2>2
<1>4. offset \in 0 .. t - 1
  BY <1>3, ShareIsLess
<1>5. p \in 1 .. n /\ offset < room[p] /\ \A q \in 1 .. p - 1 : offset >= room[q]
  <2>1. offset \in Nat /\ offset < room[n]
    BY <1>3, <1>4
  <2>2. IsFirstAbove(n, room, offset, p)
    BY <2>1, FirstIsFound
  <2> QED
    BY <2>2 DEF IsFirstAbove
<1> PICK v, w, b, at : v = room[p - 1] /\ w = u[p][2] /\ b = u[p][1] /\ at = offset - v
  OBVIOUS
<1>6. v \in Nat /\ v <= offset
  <2>1. p - 1 \in 0 .. n /\ (p - 1 = 0 \/ p - 1 \in 1 .. p - 1)
    BY <1>1, <1>5, SMTT(60)
  <2> QED
    BY <1>2, <1>3, <1>4, <1>5, <2>1, SMTT(60)
<1>7. room[p] = v + w - c - 1 /\ w \in Nat /\ b \in Nat /\ w > c + 1 /\ offset \in Nat
  <2>1. room[p] = room[p - 1] + u[p][2] - c - 1
    BY <1>2, <1>5
  <2>2. w \in Nat /\ b \in Nat /\ w > c + 1
    BY <1>1, <1>5
  <2>3. offset \in Nat
    BY <1>3, <1>4
  <2> QED
    BY <2>1, <2>2, <2>3
<1>8. at \in Nat /\ at + c + 1 <= w /\ b + offset - v = b + at
  BY ONLY <1>1, <1>5, <1>6, <1>7, at = offset - v
<1>9. u[p][1] + offset - room[p - 1] = u[p][1] + at /\ at + Context + 1 <= u[p][2]
  BY <1>8
<1> QED
  BY <1>5, <1>8, <1>9 DEF Within

\* The fixed windows are in the spans.
LEMMA FixedAreInside ==
    ASSUME NEW sp \in Seq(Nat \X Nat), NEW count \in Nat \ {0},
           NEW i \in DOMAIN fixed_windows(sp, count)
    PROVE  Within(sp, fixed_windows(sp, count)[i])
<1> DEFINE u == Kept(sp, {span \in ToSet(sp) : span[2] > Context + 1})
           Offset(m) == (m * RoomOf(u)[Len(u)]) \div count
           First(m) == FirstAbove(Len(u), RoomOf(u), Offset(m))
           Start(m) == u[First(m)][1] + Offset(m) - RoomOf(u)[First(m) - 1]
<1>1. fixed_windows(sp, count) = IF u = << >> THEN << >> ELSE [m \in 1 .. count |-> Start(m - 1)]
  BY DEF fixed_windows, FirstAbove, RoomOf
<1>2. /\ u \in Seq(Nat \X Nat)
      /\ ToSet(u) = ToSet(sp) \cap {span \in ToSet(sp) : span[2] > Context + 1}
  BY KeptIsTheRest
<1> HIDE DEF u
<1>3. \A k \in DOMAIN u : u[k] \in ToSet(sp) /\ u[k][2] > Context + 1
  <2>1. \A k \in DOMAIN u : u[k] \in ToSet(u)
    BY <1>2 DEF ToSet
  <2> QED
    BY <1>2, <2>1
<1> PICK n, room : n = Len(u) /\ room = RoomOf(u)
  OBVIOUS
<1>4. u # << >> /\ n # 0 /\ i \in 1 .. count /\ fixed_windows(sp, count)[i] = Start(i - 1)
  <2> HIDE DEF Start
  <2>1. u # << >>
    BY <1>1
  <2> QED
    BY <1>1, <1>2, <2>1
<1>5. Within(u, Start(i - 1))
  <2> PICK j, offset, p : j = i - 1 /\ offset = Offset(i - 1) /\ p = First(i - 1)
    OBVIOUS
  <2>1. j \in 0 .. count - 1 /\ Wide(u) /\ RoomIn(u, room)
    <3>1. Wide(u)
      BY <1>3 DEF Wide
    <3>2. RoomIn(u, room)
      BY <1>2, <3>1, RoomAddsUp
    <3> QED
      BY <1>4, <3>1, <3>2
  <2>2. offset = (j * room[n]) \div count /\ p = FirstAbove(n, room, offset)
    OBVIOUS
  <2>3. Within(u, u[p][1] + offset - room[p - 1])
    BY <1>2, <1>4, <2>1, <2>2, RoomIsWithin
  <2>4. Start(i - 1) = u[p][1] + offset - room[p - 1]
    OBVIOUS
  <2> QED
    BY ONLY <2>3, <2>4
<1>6. ASSUME NEW k \in DOMAIN u PROVE \E j \in DOMAIN sp : sp[j] = u[k]
  BY <1>2, <1>3 DEF ToSet
<1> HIDE DEF Start
<1> QED
  BY <1>4, <1>5, <1>6, SMTT(60) DEF Within

\* As long as the streams hold the sources, the fixed windows are text.
LEMMA FixedAreText ==
    ASSUME TypeOK, StreamsStand
    PROVE  FixedWindows
<1> SUFFICES ASSUME ~ dirty, NEW count \in 1 .. 3
             PROVE  /\ \A i \in DOMAIN validation_batch(count) :
                          OneSource(WindowAt(flat.held, validation_batch(count)[i]), TRUE)
                    /\ \A i \in DOMAIN training_probe_batch(count) :
                          OneSource(WindowAt(flat.train, training_probe_batch(count)[i]), FALSE)
  BY DEF FixedWindows
<1> PICK tp, hp, train, held : /\ tp = spans.train /\ hp = spans.held
                               /\ train = flat.train /\ held = flat.held
  OBVIOUS
<1>1. /\ tp \in Seq(Nat \X Nat) /\ hp \in Seq(Nat \X Nat)
      /\ train \in Seq(Token) /\ held \in Seq(Token) /\ count \in Nat \ {0}
  BY DEF TypeOK
<1>2. Holds(train, tp, TrainParts) /\ Holds(held, hp, HeldParts)
  BY DEF StreamsStand, TrainParts, HeldParts
<1>3. DOMAIN tp = DOMAIN order /\ DOMAIN hp = DOMAIN order
  <2>1. DOMAIN order = 1 .. Len(order) /\ Len(order) \in Nat
    BY DEF TypeOK
  <2>2. Len(TrainParts) = Len(order) /\ Len(HeldParts) = Len(order)
    BY <2>1 DEF TrainParts, HeldParts
  <2>3. Len(tp) = Len(order) /\ Len(hp) = Len(order)
    BY <1>2, <2>2 DEF Holds
  <2>4. DOMAIN tp = 1 .. Len(tp) /\ DOMAIN hp = 1 .. Len(hp)
    BY <1>1
  <2> QED
    BY <2>1, <2>3, <2>4
<1>4. ASSUME NEW start, Within(hp, start) PROVE OneSource(WindowAt(held, start), TRUE)
  <2>1. PICK k \in DOMAIN hp, at \in Nat :
           start = hp[k][1] + at /\ at + Context + 1 <= hp[k][2]
    BY <1>4 DEF Within
  <2>2. k \in DOMAIN order /\ hp[k][1] \in Nat
    BY <1>1, <1>3
  <2> QED
    BY <1>1, <1>2, <2>1, <2>2, WindowOfHeldOut
<1>5. ASSUME NEW start, Within(tp, start) PROVE OneSource(WindowAt(train, start), FALSE)
  <2>1. PICK k \in DOMAIN tp, at \in Nat :
           start = tp[k][1] + at /\ at + Context + 1 <= tp[k][2]
    BY <1>5 DEF Within
  <2>2. k \in DOMAIN order /\ tp[k][1] \in Nat
    BY <1>1, <1>3, SMTT(60)
  <2> QED
    BY <1>1, <1>2, <2>1, <2>2, WindowOfTraining
<1>6. ASSUME NEW i \in DOMAIN validation_batch(count)
      PROVE  OneSource(WindowAt(flat.held, validation_batch(count)[i]), TRUE)
  <2>1. Within(hp, validation_batch(count)[i])
    BY <1>1, FixedAreInside DEF validation_batch
  <2> QED
    BY <1>4, <2>1
<1>7. ASSUME NEW i \in DOMAIN training_probe_batch(count)
      PROVE  OneSource(WindowAt(flat.train, training_probe_batch(count)[i]), FALSE)
  <2>1. Within(tp, training_probe_batch(count)[i])
    BY <1>1, FixedAreInside DEF training_probe_batch
  <2> QED
    BY <1>5, <2>1
<1> QED
  BY <1>6, <1>7

-----------------------------------------------------------------------------
(* The inductive invariant.                                                *)

\* The page begins with it.
LEMMA CorpusBegins == Init => CorpusInv
<1> SUFFICES ASSUME Init PROVE CorpusInv
  OBVIOUS
<1> USE DEF Init
<1>1. Present \subseteq Sources /\ IsFiniteSet(Present)
  <2>1. Present \subseteq Sources
    BY DEF Present
  <2> QED
    BY <2>1, CorpusAssumption, FS_Subset
<1>2. order \in Seq(Present) /\ ToSet(order) = Present /\ IsInjective(order)
  BY <1>1, OrdersAreWhole
<1>3. order \in Seq(Sources)
  BY <1>1, <1>2
<1>4. sources \in [Sources -> [text : Texts, vocab : Vocabularies] \cup {None}]
  <2>1. [text : Texts, vocab : {vocab}] \subseteq [text : Texts, vocab : Vocabularies]
    OBVIOUS
  <2> QED
    BY <2>1
<1>5. \A s \in Present : sources[s].vocab = vocab
  BY DEF Present
<1>6. /\ rotation \in Seq(Sources) /\ IsInjective(rotation) /\ ToSet(rotation) = {}
      /\ DOMAIN draws = {}
  BY DEF IsInjective, ToSet
<1>7. flat \in [train : Seq(Token), held : Seq(Token)]
      /\ spans \in [train : Seq(Nat \X Nat), held : Seq(Nat \X Nat)]
  OBVIOUS
<1>8. /\ dirty \in BOOLEAN /\ drawn \in 0 .. MaxDraws /\ last \in Sources \cup {None}
      /\ counts \in [Sources -> Nat] /\ turns \in [Sources -> Nat] /\ changed \in BOOLEAN
      /\ restored \subseteq Present /\ edits \in Nat /\ reloads \in Nat
  <2>1. drawn \in 0 .. MaxDraws
    BY CorpusAssumption
  <2> QED
    BY <2>1
<1>9. /\ cursors \in [Sources -> [epoch : 0 .. drawn, cursor : Nat, order : Seq(Nat)] \cup {None}]
      /\ saved \in [Sources -> [epoch : 0 .. drawn, cursor : Nat, count : Nat] \cup {None}]
      /\ seen \in [Sources -> [of : Nat, slots : SUBSET Nat]]
      /\ \A s \in Sources : cursors[s] = None
  OBVIOUS
<1>10. TypeOK
  BY <1>2, <1>3, <1>4, <1>5, <1>6, <1>7, <1>8, <1>9 DEF TypeOK
<1>11. PassesStand
  BY DEF PassesStand
<1>12. StreamsStand /\ TurnsStand /\ TrainingWindows /\ PassesAreWhole /\ TurnsAreShared
  BY <1>6 DEF StreamsStand, TurnsStand, TrainingWindows, PassesAreWhole, TurnsAreShared
<1> QED
  BY <1>10, <1>11, <1>12 DEF CorpusInv

\* A change of the sources leaves nothing drawn, and the streams to be built.
LEMMA ChangesLeaveNothing ==
    ASSUME dirty' = TRUE, draws' = << >>, turns' = [s \in Sources |-> 0],
           changed' = TRUE \/ rotation' = << >>
    PROVE  /\ StreamsStand' /\ TurnsStand'
           /\ TrainingWindows' /\ PassesAreWhole' /\ TurnsAreShared'
<1>1. DOMAIN draws' = {}
  OBVIOUS
<1>2. rotation' = << >> => ToSet(rotation') = {}
  BY DEF ToSet
<1> QED
  BY <1>1, <1>2
     DEF StreamsStand, TurnsStand, TrainingWindows, PassesAreWhole, TurnsAreShared

\* A cursor and a pass written back are of no later epoch.
LEMMA EpochsStay ==
    ASSUME NEW e \in Nat, NEW f \in Nat, e <= f
    PROVE  /\ Cursors(e) \subseteq Cursors(f)
           /\ [epoch : 0 .. e, cursor : Nat, count : Nat]
                 \subseteq [epoch : 0 .. f, cursor : Nat, count : Nat]
<1>1. 0 .. e \subseteq 0 .. f
  OBVIOUS
<1> QED
  BY <1>1 DEF Cursors

\* A source put in or replaced.
LEMMA UpsertStands ==
    ASSUME CorpusInv, NEW s \in Sources, NEW t \in Texts, upsert(s, t)
    PROVE  CorpusInv'
<1> USE DEF upsert, Changed, sampler
<1>1. TypeOK /\ PassesStand
  BY DEF CorpusInv
<1>2. /\ sources' = [sources EXCEPT ![s] = [text |-> t, vocab |-> vocab]]
      /\ order' = IF s \in Present THEN order ELSE Append(order, s)
      /\ dirty' = TRUE /\ edits' = edits + 1
      /\ turns' = [x \in Sources |-> 0] /\ changed' = TRUE
      /\ UNCHANGED <<vocab, flat, spans, counts, cursors, rotation, last, saved, seen,
                     restored, drawn, reloads>>
  OBVIOUS
<1>3. /\ sources'[s] = [text |-> t, vocab |-> vocab]
      /\ \A x \in Sources : x # s => sources'[x] = sources[x]
      /\ sources' \in [Sources -> [text : Texts, vocab : Vocabularies] \cup {None}]
  BY <1>1, <1>2 DEF TypeOK
<1>4. sources'[s] # None
  BY <1>1, <1>3, CorpusAssumption DEF TypeOK
<1>5. Present' = Present \cup {s}
  BY <1>3, <1>4 DEF Present
<1>6. order' \in Seq(Sources) /\ ToSet(order') = Present' /\ IsInjective(order')
  <2>1. order \in Seq(Sources) /\ ToSet(order) = Present /\ IsInjective(order)
    BY <1>1 DEF TypeOK
  <2>2. CASE s \in Present
    BY <1>2, <1>5, <2>1, <2>2
  <2>3. CASE s \notin Present
    <3> PICK n, q, r : n = Len(order) /\ q = order /\ r = order'
      OBVIOUS
    <3>1. /\ r = Append(q, s) /\ q \in Seq(Sources) /\ n = Len(q) /\ n \in Nat
          /\ DOMAIN q = 1 .. n
      BY <1>2, <2>1, <2>3
    <3>2. /\ r \in Seq(Sources) /\ Len(r) = n + 1 /\ r[n + 1] = s
          /\ \A i \in 1 .. n : r[i] = q[i]
          /\ DOMAIN r = 1 .. n + 1 /\ 1 .. n + 1 = (1 .. n) \cup {n + 1}
      BY ONLY <3>1, s \in Sources
    <3>3. \A i \in 1 .. n : q[i] # s
      BY <2>1, <2>3, <3>1 DEF ToSet
    <3>4. ToSet(r) = ToSet(q) \cup {s}
      BY ONLY <3>1, <3>2 DEF ToSet
    <3>5. \A i, j \in 1 .. n : q[i] = q[j] => i = j
      BY <2>1, <3>1 DEF IsInjective
    <3>6. IsInjective(r)
      BY ONLY <3>2, <3>3, <3>5 DEF IsInjective
    <3> QED
      BY <1>5, <2>1, <3>2, <3>4, <3>6
  <2> QED
    BY <2>2, <2>3
<1>7. vocab' \in Vocabularies /\ \A x \in Present' : sources'[x].vocab = vocab'
  BY <1>1, <1>2, <1>3, <1>5 DEF TypeOK
<1>8. /\ flat' \in [train : Seq(Token), held : Seq(Token)]
      /\ spans' \in [train : Seq(Nat \X Nat), held : Seq(Nat \X Nat)]
      /\ dirty' \in BOOLEAN /\ drawn' \in 0 .. MaxDraws
      /\ rotation' \in Seq(Sources) /\ IsInjective(rotation') /\ last' \in Sources \cup {None}
      /\ counts' \in [Sources -> Nat] /\ turns' \in [Sources -> Nat] /\ changed' \in BOOLEAN
      /\ seen' \in [Sources -> [of : Nat, slots : SUBSET Nat]] /\ restored' \subseteq Present'
      /\ edits' \in Nat /\ reloads' \in Nat
  BY <1>1, <1>2, <1>5 DEF TypeOK
<1>9. /\ cursors' \in [Sources -> [epoch : 0 .. drawn', cursor : Nat, order : Seq(Nat)] \cup {None}]
      /\ \A x \in Sources : cursors'[x] # None =>
            \/ cursors'[x].order = << >>
            \/ /\ cursors'[x].cursor \in 1 .. Len(cursors'[x].order)
               /\ cursors'[x].order \in Passes(Len(cursors'[x].order))
      /\ saved' \in [Sources -> [epoch : 0 .. drawn', cursor : Nat, count : Nat] \cup {None}]
  BY <1>1, <1>2 DEF TypeOK
<1>10. TypeOK'
  BY <1>3, <1>6, <1>7, <1>8, <1>9 DEF TypeOK
<1>11. PassesStand'
  BY <1>1, <1>2, <1>5 DEF PassesStand
<1> QED
  BY <1>2, <1>10, <1>11, ChangesLeaveNothing DEF CorpusInv

\* A source taken out.
LEMMA RemoveStands ==
    ASSUME CorpusInv, NEW s \in Sources, remove(s)
    PROVE  CorpusInv'
<1> USE DEF remove, Changed
<1>1. TypeOK /\ PassesStand
  BY DEF CorpusInv
<1>2. /\ s \in Present /\ sources' = [sources EXCEPT ![s] = None]
      /\ order' = Kept(order, Sources \ {s})
      /\ counts' = [counts EXCEPT ![s] = 0] /\ cursors' = [cursors EXCEPT ![s] = None]
      /\ seen' = [seen EXCEPT ![s] = [of |-> 0, slots |-> {}]]
      /\ restored' = restored \ {s} /\ saved' = [saved EXCEPT ![s] = None]
      /\ dirty' = TRUE /\ edits' = edits + 1
      /\ turns' = [x \in Sources |-> 0] /\ changed' = TRUE
      /\ UNCHANGED <<vocab, flat, spans, rotation, last, drawn, reloads>>
  OBVIOUS
<1>3. /\ sources'[s] = None
      /\ \A x \in Sources : x # s => sources'[x] = sources[x]
      /\ sources' \in [Sources -> [text : Texts, vocab : Vocabularies] \cup {None}]
  BY <1>1, <1>2 DEF TypeOK
<1>4. Present' = Present \ {s} /\ Present \subseteq Sources
  BY <1>3 DEF Present
<1>5. order' \in Seq(Sources) /\ ToSet(order') = Present' /\ IsInjective(order')
  <2>1. order \in Seq(Sources) /\ ToSet(order) = Present /\ IsInjective(order)
    BY <1>1 DEF TypeOK
  <2> PICK S : S = Sources \ {s}
    OBVIOUS
  <2>2. /\ Kept(order, S) \in Seq(Sources) /\ ToSet(Kept(order, S)) = ToSet(order) \cap S
        /\ IsInjective(Kept(order, S))
    BY <2>1, KeptIsTheRest
  <2> QED
    BY <1>2, <1>4, <2>1, <2>2
<1>6. vocab' \in Vocabularies /\ \A x \in Present' : sources'[x].vocab = vocab'
  BY <1>1, <1>2, <1>3, <1>4 DEF TypeOK
<1>7. /\ flat' \in [train : Seq(Token), held : Seq(Token)]
      /\ spans' \in [train : Seq(Nat \X Nat), held : Seq(Nat \X Nat)]
      /\ dirty' \in BOOLEAN /\ drawn' \in 0 .. MaxDraws
      /\ rotation' \in Seq(Sources) /\ IsInjective(rotation') /\ last' \in Sources \cup {None}
      /\ turns' \in [Sources -> Nat] /\ changed' \in BOOLEAN
      /\ edits' \in Nat /\ reloads' \in Nat
  BY <1>1, <1>2 DEF TypeOK
<1>8. /\ counts' \in [Sources -> Nat] /\ restored' \subseteq Present'
      /\ seen' \in [Sources -> [of : Nat, slots : SUBSET Nat]]
  <2>1. /\ counts \in [Sources -> Nat] /\ restored \subseteq Present
        /\ seen \in [Sources -> [of : Nat, slots : SUBSET Nat]]
    BY <1>1 DEF TypeOK
  <2> PICK w : w = [of |-> 0, slots |-> {}]
    OBVIOUS
  <2>2. w \in [of : Nat, slots : SUBSET Nat]
    BY ONLY w = [of |-> 0, slots |-> {}]
  <2>3. seen' = [seen EXCEPT ![s] = w]
    BY <1>2
  <2> QED
    BY <1>2, <1>4, <2>1, <2>2, <2>3
<1>9. /\ cursors' \in [Sources -> [epoch : 0 .. drawn', cursor : Nat, order : Seq(Nat)] \cup {None}]
      /\ cursors'[s] = None /\ \A x \in Sources : x # s => cursors'[x] = cursors[x]
      /\ saved' \in [Sources -> [epoch : 0 .. drawn', cursor : Nat, count : Nat] \cup {None}]
      /\ saved'[s] = None /\ \A x \in Sources : x # s => saved'[x] = saved[x]
  BY <1>1, <1>2 DEF TypeOK
<1>10. \A x \in Sources : cursors'[x] # None =>
          \/ cursors'[x].order = << >>
          \/ /\ cursors'[x].cursor \in 1 .. Len(cursors'[x].order)
             /\ cursors'[x].order \in Passes(Len(cursors'[x].order))
  BY <1>1, <1>9 DEF TypeOK
<1>11. TypeOK'
  BY <1>3, <1>5, <1>6, <1>7, <1>8, <1>9, <1>10 DEF TypeOK
<1>12. PassesStand'
  <2>1. /\ seen'[s] = [of |-> 0, slots |-> {}]
        /\ \A x \in Sources : x # s => seen'[x] = seen[x]
    BY <1>1, <1>2 DEF TypeOK
  <2>2. \A x \in Sources \ restored' : x # s => x \in Sources \ restored
    BY <1>2
  <2> QED
    BY <1>1, <1>4, <1>9, <2>1, <2>2 DEF PassesStand
<1> QED
  BY <1>2, <1>11, <1>12, ChangesLeaveNothing DEF CorpusInv

\* All sources encoded again.
LEMMA SetTokenizerStands ==
    ASSUME CorpusInv, NEW v \in Vocabularies, set_tokenizer(v)
    PROVE  CorpusInv'
<1> USE DEF set_tokenizer, Changed, sampler
<1>1. TypeOK /\ PassesStand
  BY DEF CorpusInv
<1>2. /\ vocab' = v
      /\ sources' = [s \in Sources |-> IF sources[s] = None THEN None
                                       ELSE [sources[s] EXCEPT !.vocab = v]]
      /\ dirty' = TRUE /\ edits' = edits + 1
      /\ turns' = [x \in Sources |-> 0] /\ changed' = TRUE
      /\ UNCHANGED <<order, flat, spans, counts, cursors, rotation, last, saved, seen,
                     restored, drawn, reloads>>
  OBVIOUS
<1>3. /\ sources' \in [Sources -> [text : Texts, vocab : Vocabularies] \cup {None}]
      /\ \A s \in Sources : sources[s] = None => sources'[s] = None
      /\ \A s \in Present : sources'[s] # None /\ sources'[s].vocab = v
  <2>1. ASSUME NEW s \in Present
        PROVE  /\ sources'[s] \in [text : Texts, vocab : Vocabularies]
               /\ sources'[s] # None /\ sources'[s].vocab = v
    <3>1. s \in Sources /\ sources[s] \in [text : Texts, vocab : Vocabularies]
      BY <1>1, <2>1 DEF TypeOK, Present
    <3>2. sources'[s] = [sources[s] EXCEPT !.vocab = v]
      BY <1>2, <2>1, <3>1 DEF Present
    <3>3. sources'[s] \in [text : Texts, vocab : Vocabularies] /\ sources'[s].vocab = v
      BY <3>1, <3>2
    <3> QED
      BY <3>3, CorpusAssumption
  <2>2. \A s \in Sources : sources[s] = None => sources'[s] = None
    BY <1>2
  <2>3. \A s \in Sources : s \in Present \/ sources[s] = None
    BY DEF Present
  <2>4. sources' = [s \in Sources |-> sources'[s]]
    BY <1>2
  <2> QED
    BY <2>1, <2>2, <2>3, <2>4
<1>4. Present' = Present
  BY <1>3 DEF Present
<1>5. /\ order' \in Seq(Sources) /\ ToSet(order') = Present' /\ IsInjective(order')
      /\ vocab' \in Vocabularies /\ \A s \in Present' : sources'[s].vocab = vocab'
  BY <1>1, <1>2, <1>3, <1>4 DEF TypeOK
<1>6. /\ flat' \in [train : Seq(Token), held : Seq(Token)]
      /\ spans' \in [train : Seq(Nat \X Nat), held : Seq(Nat \X Nat)]
      /\ dirty' \in BOOLEAN /\ drawn' \in 0 .. MaxDraws
      /\ rotation' \in Seq(Sources) /\ IsInjective(rotation') /\ last' \in Sources \cup {None}
      /\ counts' \in [Sources -> Nat] /\ turns' \in [Sources -> Nat] /\ changed' \in BOOLEAN
      /\ seen' \in [Sources -> [of : Nat, slots : SUBSET Nat]] /\ restored' \subseteq Present'
      /\ edits' \in Nat /\ reloads' \in Nat
  BY <1>1, <1>2, <1>4 DEF TypeOK
<1>7. /\ cursors' \in [Sources -> [epoch : 0 .. drawn', cursor : Nat, order : Seq(Nat)] \cup {None}]
      /\ \A x \in Sources : cursors'[x] # None =>
            \/ cursors'[x].order = << >>
            \/ /\ cursors'[x].cursor \in 1 .. Len(cursors'[x].order)
               /\ cursors'[x].order \in Passes(Len(cursors'[x].order))
      /\ saved' \in [Sources -> [epoch : 0 .. drawn', cursor : Nat, count : Nat] \cup {None}]
  BY <1>1, <1>2 DEF TypeOK
<1>8. TypeOK'
  BY <1>3, <1>5, <1>6, <1>7 DEF TypeOK
<1>9. PassesStand'
  BY <1>1, <1>2, <1>4 DEF PassesStand
<1> QED
  BY <1>2, <1>8, <1>9, ChangesLeaveNothing DEF CorpusInv

\* The page loaded again.
LEMMA ReloadStands ==
    ASSUME CorpusInv, Reload
    PROVE  CorpusInv'
<1> USE DEF Reload
<1>1. TypeOK /\ PassesStand
  BY DEF CorpusInv
<1>2. /\ flat' = [train |-> << >>, held |-> << >>] /\ spans' = [train |-> << >>, held |-> << >>]
      /\ counts' = [s \in Sources |-> IF saved[s] = None THEN 0 ELSE saved[s].count]
      /\ cursors' = [s \in Sources |->
                        IF saved[s] = None THEN None
                        ELSE [epoch |-> saved[s].epoch, cursor |-> saved[s].cursor,
                              order |-> << >>]]
      /\ rotation' = << >> /\ last' = None /\ draws' = << >>
      /\ restored' = Present /\ changed' = FALSE /\ turns' = [s \in Sources |-> 0]
      /\ dirty' = TRUE /\ reloads' = reloads + 1
      /\ UNCHANGED <<sources, order, vocab, saved, drawn, edits>>
  OBVIOUS
<1>3. \A s \in Sources :
         seen'[s] = IF saved[s] # None /\ cursors[s] # None /\ saved[s].cursor = cursors[s].cursor
                       /\ saved[s].epoch = cursors[s].epoch
                    THEN seen[s] ELSE [of |-> 0, slots |-> {}]
  OBVIOUS
<1>4. Present' = Present
  BY <1>2 DEF Present
<1>5. \A s \in Sources : saved[s] # None =>
         saved[s] \in [epoch : 0 .. drawn, cursor : Nat, count : Nat]
  BY <1>1 DEF TypeOK
<1>6. /\ cursors' \in [Sources -> [epoch : 0 .. drawn', cursor : Nat, order : Seq(Nat)] \cup {None}]
      /\ \A s \in Sources : cursors'[s] # None => cursors'[s].order = << >>
  <2> SUFFICES ASSUME NEW s \in Sources
               PROVE  /\ cursors'[s] \in [epoch : 0 .. drawn, cursor : Nat, order : Seq(Nat)]
                                         \cup {None}
                      /\ cursors'[s] # None => cursors'[s].order = << >>
    BY <1>2
  <2>1. CASE saved[s] = None
    BY <1>2, <2>1
  <2>2. CASE saved[s] # None
    <3> PICK e, c, q, d : e = saved[s].epoch /\ c = saved[s].cursor /\ q = << >> /\ d = cursors'[s]
      OBVIOUS
    <3>1. e \in 0 .. drawn /\ c \in Nat /\ q \in Seq(Nat)
      BY <1>5, <2>2
    <3>2. d = [epoch |-> e, cursor |-> c, order |-> q]
      BY <1>2, <2>2
    <3>3. d \in [epoch : 0 .. drawn, cursor : Nat, order : Seq(Nat)] /\ d.order = q
      BY ONLY <3>1, <3>2
    <3> QED
      BY <3>3
  <2> QED
    BY <2>1, <2>2
<1>7. seen' \in [Sources -> [of : Nat, slots : SUBSET Nat]]
  <2>1. seen' = [s \in Sources |-> seen'[s]]
    OBVIOUS
  <2> PICK w : w = [of |-> 0, slots |-> {}]
    OBVIOUS
  <2>2. w \in [of : Nat, slots : SUBSET Nat]
    BY ONLY w = [of |-> 0, slots |-> {}]
  <2>3. \A s \in Sources : seen'[s] = seen[s] \/ seen'[s] = w
    BY <1>3
  <2>4. \A s \in Sources : seen[s] \in [of : Nat, slots : SUBSET Nat]
    BY <1>1 DEF TypeOK
  <2> QED
    BY <2>1, <2>2, <2>3, <2>4
<1>8. counts' \in [Sources -> Nat] /\ turns' \in [Sources -> Nat]
  BY <1>2, <1>5
<1>9. /\ flat' \in [train : Seq(Token), held : Seq(Token)]
      /\ spans' \in [train : Seq(Nat \X Nat), held : Seq(Nat \X Nat)]
      /\ dirty' \in BOOLEAN
      /\ rotation' \in Seq(Sources) /\ IsInjective(rotation') /\ last' \in Sources \cup {None}
      /\ changed' \in BOOLEAN /\ restored' \subseteq Present'
  <2>1. /\ flat' \in [train : Seq(Token), held : Seq(Token)]
        /\ spans' \in [train : Seq(Nat \X Nat), held : Seq(Nat \X Nat)]
    BY <1>2
  <2>2. rotation' \in Seq(Sources) /\ IsInjective(rotation')
    BY <1>2 DEF IsInjective
  <2> QED
    BY <1>2, <1>4, <2>1, <2>2
<1>10. /\ sources' \in [Sources -> [text : Texts, vocab : Vocabularies] \cup {None}]
       /\ order' \in Seq(Sources) /\ ToSet(order') = Present' /\ IsInjective(order')
       /\ vocab' \in Vocabularies /\ \A s \in Present' : sources'[s].vocab = vocab'
       /\ drawn' \in 0 .. MaxDraws /\ edits' \in Nat /\ reloads' \in Nat
       /\ saved' \in [Sources -> [epoch : 0 .. drawn', cursor : Nat, count : Nat] \cup {None}]
  BY <1>1, <1>2, <1>4 DEF TypeOK
<1>11. TypeOK'
  BY <1>6, <1>7, <1>8, <1>9, <1>10 DEF TypeOK
<1>12. PassesStand'
  <2>1. \A s \in Sources \ Present : saved[s] = None
    BY <1>1 DEF PassesStand
  <2>2. \A s \in Sources \ Present : /\ saved'[s] = None /\ cursors'[s] = None
                                     /\ seen'[s] = [of |-> 0, slots |-> {}]
    BY <1>2, <1>3, <2>1
  <2> QED
    BY <1>2, <1>4, <2>2 DEF PassesStand
<1>13. changed' = TRUE \/ rotation' = << >>
  BY <1>2
<1> QED
  BY <1>2, <1>11, <1>12, <1>13, ChangesLeaveNothing DEF CorpusInv

\* As many windows as the ones due allow differ by no more than two.
LEMMA LevelsAreShared ==
    ASSUME NEW U, U \subseteq Sources, NEW t \in [Sources -> Nat], NEW q, LevelsMeet(U, t, q)
    PROVE  \A x, y \in U : t[x] <= t[y] + 2
<1> SUFFICES ASSUME NEW x \in U, NEW y \in U PROVE t[x] <= t[y] + 2
  OBVIOUS
<1>1. t[x] \in Nat /\ t[y] \in Nat
  OBVIOUS
<1>2. LevelOf(t, q, x) \in {t[x], t[x] + 1} /\ LevelOf(t, q, y) \in {t[y], t[y] + 1}
  BY <1>1 DEF LevelOf
<1>3. LevelOf(t, q, x) <= LevelOf(t, q, y) + 1
  BY DEF LevelsMeet
<1> QED
  BY <1>1, <1>2, <1>3

\* The levels of the invariant are these.
LEMMA TurnsMeet ==
    ASSUME TypeOK, TurnsStand, ~ dirty
    PROVE  LevelsMeet(Usable(spans), turns, rotation)
BY DEF TurnsStand, Level, LevelsMeet, LevelOf

\* The passes written back to the stored sources.
LEMMA WriteBackStands ==
    ASSUME CorpusInv, WriteBack
    PROVE  CorpusInv'
<1> USE DEF WriteBack, streams, sampler, history
<1>1. TypeOK /\ PassesStand /\ StreamsStand /\ TurnsStand /\ TurnsAreShared
  BY DEF CorpusInv
<1>2. /\ draws' = << >>
      /\ UNCHANGED <<sources, order, vocab, dirty, flat, spans, counts, cursors, rotation, last,
                     seen, turns, changed, restored, drawn, edits, reloads>>
  OBVIOUS
<1>3. saved' = [s \in Sources |->
                   IF s \notin Present \/ cursors[s] = None THEN saved[s]
                   ELSE [epoch |-> cursors[s].epoch, cursor |-> cursors[s].cursor,
                         count |-> counts[s]]]
  OBVIOUS
<1>4. Present' = Present /\ Usable(spans)' = Usable(spans)
  BY <1>2 DEF Present, Usable
<1>5. saved' \in [Sources -> [epoch : 0 .. drawn', cursor : Nat, count : Nat] \cup {None}]
  <2> SUFFICES ASSUME NEW s \in Sources
               PROVE  saved'[s] \in [epoch : 0 .. drawn, cursor : Nat, count : Nat] \cup {None}
    BY <1>2, <1>3
  <2>1. CASE s \notin Present \/ cursors[s] = None
    BY <1>1, <1>3, <2>1 DEF TypeOK
  <2>2. CASE ~ (s \notin Present \/ cursors[s] = None)
    <3>1. /\ cursors[s] \in [epoch : 0 .. drawn, cursor : Nat, order : Seq(Nat)]
          /\ counts[s] \in Nat
      BY <1>1, <2>2 DEF TypeOK
    <3> QED
      BY <1>3, <2>2, <3>1
  <2> QED
    BY <2>1, <2>2
<1>6. TypeOK'
  BY <1>1, <1>2, <1>4, <1>5 DEF TypeOK
<1>7. PassesStand'
  <2>1. \A s \in Sources \ Present : saved'[s] = saved[s]
    BY <1>3
  <2> QED
    BY <1>1, <1>2, <1>4, <2>1 DEF PassesStand
<1>8. StreamsStand'
  <2>1. TrainParts' = TrainParts /\ HeldParts' = HeldParts
    BY <1>2 DEF TrainParts, HeldParts, Parts, TokensOf
  <2> QED
    BY <1>1, <1>2, <2>1 DEF StreamsStand, Holds
<1>9. TurnsStand'
  BY <1>1, <1>2, <1>4 DEF TurnsStand, Level
<1>10. TrainingWindows' /\ PassesAreWhole' /\ TurnsAreShared'
  <2>1. DOMAIN draws' = {}
    BY <1>2
  <2> QED
    BY <1>1, <1>2, <1>4, <2>1 DEF TrainingWindows, PassesAreWhole, TurnsAreShared
<1> QED
  BY <1>6, <1>7, <1>8, <1>9, <1>10 DEF CorpusInv

\* Whatever it was, a rebuild leaves the windows due as level as they were.
LEMMA RebuiltLevelsMeet ==
    ASSUME TypeOK, TurnsStand, rebuild_flat_if_needed
    PROVE  LevelsMeet(Usable(spans'), turns, rotation)
<1>1. CASE dirty
  <2>1. Usable(spans') \subseteq Sources
    BY UsableIsFinite
  <2>2. \A s \in Sources : turns[s] = 0
    BY <1>1 DEF TurnsStand
  <2> QED
    BY <2>1, <2>2 DEF LevelsMeet, LevelOf
<1>2. CASE ~ dirty
  <2>1. spans' = spans
    BY <1>2 DEF rebuild_flat_if_needed, streams
  <2> QED
    BY <1>2, <2>1, TurnsMeet
<1> QED
  BY <1>1, <1>2

\* The streams asked for, and nothing drawn from them.
LEMMA RebuildStands ==
    ASSUME CorpusInv, rebuild_flat_if_needed, draws' = << >>,
           UNCHANGED <<sources, order, vocab, sampler, saved, history, drawn, edits, reloads>>
    PROVE  CorpusInv'
<1> USE DEF sampler, history
<1>1. TypeOK /\ PassesStand /\ StreamsStand /\ TurnsStand
  BY DEF CorpusInv
<1>2. /\ rebuild_flat_if_needed /\ draws' = << >>
      /\ UNCHANGED <<sources, order, vocab, counts, cursors, rotation, last, saved,
                     seen, turns, changed, restored, drawn, edits, reloads>>
  OBVIOUS
<1>3. /\ dirty' = FALSE /\ flat' \in Streams /\ spans' \in Spans
      /\ Holds(flat'.train, spans'.train, TrainParts)
      /\ Holds(flat'.held, spans'.held, HeldParts)
  BY <1>1, <1>2, RebuiltStreamsHold
<1>4. /\ Present' = Present /\ TrainParts' = TrainParts /\ HeldParts' = HeldParts
      /\ Usable(spans)' = Usable(spans')
  BY <1>2 DEF Present, TrainParts, HeldParts, Parts, TokensOf, Usable
<1>5. TypeOK'
  BY <1>1, <1>2, <1>3, <1>4 DEF TypeOK, Streams, Spans
<1>6. PassesStand'
  BY <1>1, <1>2, <1>4 DEF PassesStand
<1>7. StreamsStand'
  BY <1>3, <1>4 DEF StreamsStand
<1> PICK U, t, q : U = Usable(spans') /\ t = turns /\ q = rotation
  OBVIOUS
<1>8. /\ LevelsMeet(U, t, q) /\ U \subseteq Sources /\ t \in [Sources -> Nat]
      /\ \A x, y \in U : t[x] <= t[y] + 2
  <2>1. LevelsMeet(U, t, q) /\ U \subseteq Sources /\ t \in [Sources -> Nat]
    BY <1>1, <1>2, RebuiltLevelsMeet, UsableIsFinite DEF TypeOK
  <2> QED
    BY <2>1, LevelsAreShared
<1>9. TurnsStand'
  BY <1>1, <1>2, <1>3, <1>4, <1>8 DEF TurnsStand, Level, LevelsMeet, LevelOf
<1>10. TrainingWindows' /\ PassesAreWhole' /\ TurnsAreShared'
  <2>1. DOMAIN draws' = {}
    BY <1>2
  <2> QED
    BY <1>2, <1>4, <1>8, <2>1 DEF TrainingWindows, PassesAreWhole, TurnsAreShared
<1> QED
  BY <1>5, <1>6, <1>7, <1>9, <1>10 DEF CorpusInv

\* A step that changes nothing.
LEMMA StutterStands ==
    ASSUME CorpusInv, UNCHANGED vars
    PROVE  CorpusInv'
<1> USE DEF vars, streams, sampler, history
<1>1. /\ TypeOK /\ PassesStand /\ StreamsStand /\ TurnsStand
      /\ TrainingWindows /\ PassesAreWhole /\ TurnsAreShared
  BY DEF CorpusInv
<1>2. /\ Present' = Present /\ TrainParts' = TrainParts /\ HeldParts' = HeldParts
      /\ Usable(spans)' = Usable(spans)
  BY DEF Present, TrainParts, HeldParts, Parts, TokensOf, Usable
<1>3. TypeOK'
  BY <1>1, <1>2 DEF TypeOK
<1>4. PassesStand'
  BY <1>1, <1>2 DEF PassesStand
<1>5. StreamsStand'
  BY <1>1, <1>2 DEF StreamsStand
<1>6. TurnsStand'
  BY <1>1, <1>2 DEF TurnsStand, Level
<1>7. PassesAreWhole' /\ TurnsAreShared'
  BY <1>1, <1>2 DEF PassesAreWhole, TurnsAreShared
<1>8. TrainingWindows'
  BY <1>1, <1>2, ZenonT(60) DEF TrainingWindows, OneSource, TokensOf
<1> QED
  BY <1>3, <1>4, <1>5, <1>6, <1>7, <1>8 DEF CorpusInv

\* A batch drawn.
LEMMA SampleBatchStands ==
    ASSUME CorpusInv, NEW openings \in [1 .. BatchSize -> BOOLEAN], NEW shuffles,
           SampleBatch(openings, shuffles)
    PROVE  CorpusInv'
<1>1. /\ TypeOK /\ PassesStand /\ StreamsStand /\ TurnsStand
  BY DEF CorpusInv
<1>2. rebuild_flat_if_needed /\ UNCHANGED <<sources, order, vocab, saved, edits, reloads>>
  BY DEF SampleBatch
<1>3. CASE Usable(spans') = {}
  <2>1. draws' = << >> /\ UNCHANGED <<sampler, history, drawn>>
    BY <1>3 DEF SampleBatch
  <2> QED
    BY <1>2, <2>1, RebuildStands
<1>4. CASE Usable(spans') # {}
  <2> PICK sp, stream, U : sp = spans' /\ stream = flat'.train /\ U = Usable(spans')
    OBVIOUS
  <2> PICK rest : rest = Kept(rotation, U)
    OBVIOUS
  <2> PICK start : start = [rotation |-> rest, last |-> last,
                            counts |-> counts, cursors |-> cursors, seen |-> seen,
                            turns |-> turns, changed |-> changed, batch |-> << >>]
    OBVIOUS
  <2> PICK end : end = DrawBatch(sp, start, openings, shuffles)
    OBVIOUS
  <2>1. /\ shuffles \in [1 .. BatchSize -> Orders(U)]
        /\ drawn + BatchSize <= MaxDraws /\ drawn' = drawn + BatchSize
        /\ rotation' = end.rotation /\ last' = end.last
        /\ counts' = end.counts /\ cursors' = end.cursors
        /\ draws' = end.batch /\ seen' = end.seen
        /\ turns' = end.turns /\ changed' = end.changed /\ restored' = restored
    BY <1>4 DEF SampleBatch
  <2>2. /\ dirty' = FALSE /\ flat' \in Streams /\ sp \in Spans
        /\ stream \in Seq(Token) /\ flat'.held \in Seq(Token)
        /\ Holds(stream, sp.train, TrainParts) /\ Holds(flat'.held, sp.held, HeldParts)
    BY <1>1, <1>2, RebuiltStreamsHold DEF Streams
  <2>3. U = Usable(sp) /\ U \subseteq Sources /\ IsFiniteSet(U)
    BY <1>1, UsableIsFinite
  <2>4. rest \in Seq(U) /\ IsInjective(rest) /\ ToSet(rest) = ToSet(rotation) \cap U
    <3>1. rotation \in Seq(Sources) /\ IsInjective(rotation)
      BY <1>1 DEF TypeOK
    <3>2. rest \in Seq(Sources) /\ IsInjective(rest) /\ ToSet(rest) = ToSet(rotation) \cap U
      BY <3>1, KeptIsTheRest
    <3>3. \A i \in 1 .. Len(rest) : rest[i] \in U
      BY <3>2 DEF ToSet
    <3> QED
      BY <3>2, <3>3
  <2>5. LevelsMeet(U, turns, rest)
    <3>1. LevelsMeet(U, turns, rotation)
      BY <1>1, <1>2, <2>3, RebuiltLevelsMeet
    <3>2. \A x \in U : x \in ToSet(rest) <=> x \in ToSet(rotation)
      BY <2>4
    <3> QED
      BY <3>1, <3>2 DEF LevelsMeet, LevelOf
  <2>6. CursorsStand(drawn, cursors, seen)
    BY <1>1 DEF TypeOK, PassesStand, CursorsStand, Cursors, CursorStands, SeenStands
  <2>7. Turn(sp, 0, start)
    <3>1. /\ last \in Sources \cup {None} /\ changed \in BOOLEAN
          /\ turns \in [Sources -> Nat] /\ counts \in [Sources -> Nat]
          /\ drawn + 0 = drawn
      BY <1>1 DEF TypeOK
    <3>2. ~ changed => last \notin ToSet(rest)
      BY <1>1, <2>4 DEF TurnsStand
    <3>3. << >> \in Seq(Draws(sp))
      OBVIOUS
    <3> QED
      BY <2>3, <2>4, <2>5, <2>6, <3>1, <3>2, <3>3 DEF Turn
  <2>8. Turn(sp, BatchSize, end)
    BY <1>1, <1>4, <2>1, <2>2, <2>7, BatchIsDrawn
  <2>9. /\ end.rotation \in Seq(U) /\ IsInjective(end.rotation)
        /\ end.last \in Sources \cup {None}
        /\ end.changed \in BOOLEAN /\ (~ end.changed => end.last \notin ToSet(end.rotation))
        /\ end.turns \in [Sources -> Nat] /\ LevelsMeet(U, end.turns, end.rotation)
        /\ end.counts \in [Sources -> Nat]
        /\ CursorsStand(drawn + BatchSize, end.cursors, end.seen)
        /\ end.batch \in Seq(Draws(sp))
    BY <2>3, <2>8 DEF Turn
  <2>10. /\ Present' = Present /\ TrainParts' = TrainParts /\ HeldParts' = HeldParts
         /\ Usable(spans)' = U
    BY <1>2 DEF Present, TrainParts, HeldParts, Parts, TokensOf, Usable
  <2>11. drawn \in Nat /\ drawn' \in 0 .. MaxDraws /\ drawn' = drawn + BatchSize /\ drawn <= drawn'
    BY <1>1, <2>1, CorpusAssumption, SMTT(60) DEF TypeOK
  <2>12. TypeOK'
    <3>1. /\ cursors' \in [Sources -> Cursors(drawn') \cup {None}]
          /\ \A s \in Sources : cursors'[s] # None => CursorStands(cursors'[s])
          /\ seen' \in [Sources -> [of : Nat, slots : SUBSET Nat]]
      BY <2>1, <2>9 DEF CursorsStand
    <3>2. saved' \in [Sources -> [epoch : 0 .. drawn', cursor : Nat, count : Nat] \cup {None}]
      <4>1. saved \in [Sources -> [epoch : 0 .. drawn, cursor : Nat, count : Nat] \cup {None}]
        BY <1>1 DEF TypeOK
      <4>2. [epoch : 0 .. drawn, cursor : Nat, count : Nat]
               \subseteq [epoch : 0 .. drawn', cursor : Nat, count : Nat]
        <5> PICK f : f = drawn'
          OBVIOUS
        <5> QED
          BY <2>11, EpochsStay
      <4> QED
        BY <1>2, <4>1, <4>2
    <3>3. rotation' \in Seq(Sources) /\ IsInjective(rotation')
      BY <2>1, <2>3, <2>9
    <3>4. /\ sources' \in [Sources -> [text : Texts, vocab : Vocabularies] \cup {None}]
          /\ order' \in Seq(Sources) /\ ToSet(order') = Present' /\ IsInjective(order')
          /\ vocab' \in Vocabularies /\ \A s \in Present' : sources'[s].vocab = vocab'
          /\ restored' \subseteq Present' /\ edits' \in Nat /\ reloads' \in Nat
      BY <1>1, <1>2, <2>1, <2>10 DEF TypeOK
    <3>5. /\ flat' \in [train : Seq(Token), held : Seq(Token)]
          /\ spans' \in [train : Seq(Nat \X Nat), held : Seq(Nat \X Nat)]
          /\ dirty' \in BOOLEAN
      BY <2>2 DEF Streams, Spans
    <3>6. /\ last' \in Sources \cup {None} /\ counts' \in [Sources -> Nat]
          /\ turns' \in [Sources -> Nat] /\ changed' \in BOOLEAN
      BY <2>1, <2>9
    <3> QED
      BY <2>11, <3>1, <3>2, <3>3, <3>4, <3>5, <3>6 DEF TypeOK, Cursors, CursorStands
  <2>13. PassesStand'
    <3>1. /\ \A s \in Sources \ restored : SeenStands(seen'[s], cursors'[s])
          /\ \A s \in Sources \ Present : cursors'[s] = None
      BY <2>1, <2>9 DEF CursorsStand
    <3>2. \A s \in Sources \ Present : saved'[s] = None
      BY <1>1, <1>2 DEF PassesStand
    <3> QED
      BY <2>1, <2>10, <3>1, <3>2 DEF PassesStand, SeenStands
  <2>14. StreamsStand'
    BY <2>2, <2>10 DEF StreamsStand
  <2> PICK t, q : t = turns' /\ q = rotation'
    OBVIOUS
  <2>15. /\ LevelsMeet(U, t, q) /\ t \in [Sources -> Nat]
         /\ \A x, y \in U : t[x] <= t[y] + 2
    <3>1. LevelsMeet(U, t, q) /\ t \in [Sources -> Nat]
      BY <2>1, <2>9
    <3> QED
      BY <2>3, <3>1, LevelsAreShared
  <2>16. TurnsStand'
    <3>1. ~ changed' => last' \notin ToSet(rotation')
      BY <2>1, <2>9
    <3> QED
      BY <2>2, <2>10, <2>15, <3>1 DEF TurnsStand, Level, LevelsMeet, LevelOf
  <2>17. \A k \in DOMAIN draws' : draws'[k] \in Draws(sp)
    BY <2>1, <2>9
  <2>18. PassesAreWhole'
    BY <2>1, <2>17 DEF PassesAreWhole, Draws
  <2>19. TurnsAreShared'
    BY <2>3, <2>10, <2>15, <2>17 DEF TurnsAreShared, Draws
  <2>20. TrainingWindows'
    <3> SUFFICES ASSUME NEW k \in DOMAIN draws'
                 PROVE  OneSource(WindowAt(flat.train, draws[k].start), FALSE)'
      BY DEF TrainingWindows
    <3>1. PICK s \in U : \E slot \in 0 .. SlotsOf(sp, s) - 1 :
             draws'[k].start = BaseOf(sp, s) + slot * Context
      BY <2>3, <2>17 DEF Draws
    <3>2. PICK slot \in 0 .. SlotsOf(sp, s) - 1 :
             draws'[k].start = BaseOf(sp, s) + slot * Context
      BY <3>1
    <3> PICK p, at : p = PlaceOf(s) /\ at = slot * Context
      OBVIOUS
    <3>3. /\ p \in DOMAIN order /\ sp.train[p][1] \in Nat /\ sp.train[p][2] \in Nat
          /\ BaseOf(sp, s) = sp.train[p][1] /\ SlotsOf(sp, s) = Slots(sp.train[p][2])
      BY <1>1, <2>2, <2>3, UsableHasWindows DEF BaseOf, SlotsOf
    <3>4. at \in Nat /\ at + Context + 1 <= sp.train[p][2]
      BY <3>2, <3>3, WindowsFit
    <3> PICK w : w = WindowAt(stream, draws'[k].start)
      OBVIOUS
    <3>5. OneSource(w, FALSE)
      BY <1>1, <2>2, <3>2, <3>3, <3>4, WindowOfTraining
    <3>6. WindowAt(flat.train, draws[k].start)' = w
      BY DEF WindowAt
    <3>7. OneSource(w, FALSE)'
      BY <1>2, <2>10, <3>5 DEF OneSource, TokensOf
    <3> QED
      BY <3>6, <3>7 DEF OneSource
  <2> QED
    BY <2>12, <2>13, <2>14, <2>16, <2>18, <2>19, <2>20 DEF CorpusInv
<1> QED
  BY <1>3, <1>4

\* Every step keeps the inductive invariant.
LEMMA CorpusStands == CorpusInv /\ [Next]_vars => CorpusInv'
<1> SUFFICES ASSUME CorpusInv, [Next]_vars PROVE CorpusInv'
  OBVIOUS
<1>1. ASSUME NEW openings \in [1 .. BatchSize -> BOOLEAN], NEW shuffles,
             SampleBatch(openings, shuffles)
      PROVE  CorpusInv'
  BY <1>1, SampleBatchStands
<1>2. ASSUME NEW s \in Sources, NEW t \in Texts, upsert(s, t) PROVE CorpusInv'
  BY <1>2, UpsertStands
<1>3. ASSUME NEW s \in Sources, remove(s) PROVE CorpusInv'
  BY <1>3, RemoveStands
<1>4. ASSUME NEW v \in Vocabularies, set_tokenizer(v) PROVE CorpusInv'
  BY <1>4, SetTokenizerStands
<1>5. ASSUME Ask PROVE CorpusInv'
  <2>1. /\ rebuild_flat_if_needed /\ draws' = << >>
        /\ UNCHANGED <<sources, order, vocab, sampler, saved, history, drawn, edits, reloads>>
    BY <1>5 DEF Ask
  <2> QED
    BY <2>1, RebuildStands
<1>6. ASSUME WriteBack PROVE CorpusInv'
  BY <1>6, WriteBackStands
<1>7. ASSUME Reload PROVE CorpusInv'
  BY <1>7, ReloadStands
<1>8. ASSUME UNCHANGED vars PROVE CorpusInv'
  BY <1>8, StutterStands
<1> QED
  BY <1>1, <1>2, <1>3, <1>4, <1>5, <1>6, <1>7, <1>8 DEF Next

\* The corpus is as its invariant says, whatever is added, replaced, removed,
\* encoded again, drawn or loaded.
THEOREM CorpusHolds == Spec => []CorpusInv
BY CorpusBegins, CorpusStands, PTL DEF Spec

\* Every window that is drawn, measured or probed is text of one source as it
\* stands, on its side of the split (sampling.rs sample_batch, fixed_windows).
THEOREM WindowsInside == Spec => []WindowsStayInside
<1>1. CorpusInv => WindowsStayInside
  BY FixedAreText DEF CorpusInv, WindowsStayInside
<1> QED
  BY CorpusHolds, <1>1, PTL

\* A pass draws every window of its source once before any again, unless a
\* reload put it back (sampling.rs WindowCursor::next).
THEOREM PassesWhole == Spec => []PassesAreWhole
<1>1. CorpusInv => PassesAreWhole
  BY DEF CorpusInv
<1> QED
  BY CorpusHolds, <1>1, PTL

\* No source is drawn twice in a row while another holds a window, or gets
\* more than two windows ahead (sampling.rs refill_rotation).
THEOREM TurnsShared == Spec => []TurnsAreShared
<1>1. CorpusInv => TurnsAreShared
  BY DEF CorpusInv
<1> QED
  BY CorpusHolds, <1>1, PTL
===============================================================================
