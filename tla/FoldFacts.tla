----------------------------- MODULE FoldFacts -----------------------------
(* What FoldLeft of the community modules computes, for any operator Step: *)
(* a module that folds takes these facts with INSTANCE.  FoldLeft recurses *)
(* over the subsets of a sequence's domain; that its equations have a      *)
(* solution, and what it is, is shown by induction on the length.          *)
EXTENDS Integers, Sequences, SequencesExt, WellFoundedInduction, TLAPS

CONSTANT Step(_, _)

Fold(b, q) == FoldLeft(Step, b, q)

-----------------------------------------------------------------------------
(* Induction over the naturals, for a set instead of a predicate.          *)
LEMMA NatSetInduction ==
    ASSUME NEW S, 0 \in S, \A n \in Nat : n \in S => n + 1 \in S
    PROVE  Nat \subseteq S
<1> DEFINE T == Nat \ S
<1>1. SUFFICES ASSUME T # {} PROVE FALSE
  OBVIOUS
<1>2. T \subseteq Nat
  OBVIOUS
<1> HIDE DEF T
<1>3. PICK x \in T : \A y \in T : ~(<<y, x>> \in OpToRel(<, Nat))
  <2>1. IsWellFoundedOn(OpToRel(<, Nat), Nat)
    BY NatLessThanWellFounded
  <2> QED
    BY <1>1, <1>2, <2>1, WFMin
<1>4. x \in Nat /\ x \notin S /\ x # 0
  BY <1>2 DEF T
<1>5. x - 1 \in Nat /\ x - 1 \in S
  <2>1. x - 1 \in Nat
    BY <1>4
  <2>2. <<x - 1, x>> \in OpToRel(<, Nat)
    BY <1>4, <2>1 DEF OpToRel
  <2> QED
    BY <1>3, <2>1, <2>2 DEF T
<1> QED
  BY <1>4, <1>5

-----------------------------------------------------------------------------
(* g solves the equations of the fold of the first n elements of q.        *)
Solves(g, b, q, n) ==
    g = [s \in SUBSET (1 .. n) |-> IF s = {} THEN b ELSE Step(g[s \ {Max(s)}], q[Max(s)])]

LEMMA FoldSolution ==
    ASSUME NEW S, NEW q \in Seq(S), NEW b
    PROVE  Fold(b, q) = (CHOOSE g : Solves(g, b, q, Len(q)))[1 .. Len(q)]
<1>1. DOMAIN q = 1 .. Len(q)
  OBVIOUS
<1> QED
  BY <1>1 DEF Fold, FoldLeft, MapThenFoldSet, Solves

LEMMA MaxTop ==
    ASSUME NEW n \in Nat, NEW s \in SUBSET (1 .. n + 1), n + 1 \in s
    PROVE  Max(s) = n + 1
<1> DEFINE P(x) == x \in s /\ \A y \in s : x >= y
<1>1. P(n + 1)
  OBVIOUS
<1>3. Max(s) = CHOOSE x : P(x)
  BY DEF Max
<1> HIDE DEF P
<1>4. P(Max(s))
  BY <1>1, <1>3
<1>2. Max(s) \in s /\ \A y \in s : Max(s) >= y
  BY <1>4 DEF P
<1>5. Max(s) \in 1 .. n + 1 /\ Max(s) >= n + 1
  BY <1>2
<1> QED
  BY <1>5

LEMMA SolutionExists ==
    ASSUME NEW q, NEW b
    PROVE  \A n \in Nat : \E g : Solves(g, b, q, n)
<1> DEFINE D == {n \in Nat : \E g : Solves(g, b, q, n)}
<1>1. 0 \in D
  <2> DEFINE g == [s \in SUBSET (1 .. 0) |-> b]
  <2>1. SUBSET (1 .. 0) = {{}}
    OBVIOUS
  <2>2. Solves(g, b, q, 0)
    BY <2>1 DEF Solves
  <2> QED
    BY <2>2
<1>2. ASSUME NEW n \in Nat, n \in D PROVE n + 1 \in D
  <2>1. PICK g : Solves(g, b, q, n)
    BY <1>2
  <2> DEFINE h == [s \in SUBSET (1 .. n + 1) |->
                      IF n + 1 \in s THEN Step(g[s \ {n + 1}], q[n + 1]) ELSE g[s]]
  <2>2. ASSUME NEW s \in SUBSET (1 .. n + 1)
        PROVE  h[s] = IF s = {} THEN b ELSE Step(h[s \ {Max(s)}], q[Max(s)])
    <3>1. CASE n + 1 \in s
      <4>1. Max(s) = n + 1
        BY <3>1, MaxTop
      <4>2. s \ {n + 1} \in SUBSET (1 .. n + 1) /\ n + 1 \notin s \ {n + 1}
        OBVIOUS
      <4>3. h[s \ {n + 1}] = g[s \ {n + 1}]
        BY <4>2
      <4>4. h[s] = Step(g[s \ {n + 1}], q[n + 1])
        BY <3>1
      <4> QED
        BY <3>1, <4>1, <4>3, <4>4
    <3>2. CASE n + 1 \notin s
      <4>1. s \in SUBSET (1 .. n)
        BY <3>2
      <4>2. h[s] = g[s]
        BY <3>2
      <4>3. g[s] = IF s = {} THEN b ELSE Step(g[s \ {Max(s)}], q[Max(s)])
        BY <2>1, <4>1 DEF Solves
      <4>4. s \ {Max(s)} \in SUBSET (1 .. n + 1) /\ n + 1 \notin s \ {Max(s)}
        BY <3>2
      <4>5. h[s \ {Max(s)}] = g[s \ {Max(s)}]
        BY <4>4
      <4> QED
        BY <4>2, <4>3, <4>5
    <3> QED
      BY <3>1, <3>2
  <2>3. Solves(h, b, q, n + 1)
    <3> DEFINE e == [s \in SUBSET (1 .. n + 1) |-> IF s = {} THEN b ELSE Step(h[s \ {Max(s)}], q[Max(s)])]
    <3>1. h = [s \in SUBSET (1 .. n + 1) |-> h[s]]
      OBVIOUS
    <3> HIDE DEF h
    <3>2. h = e
      BY <2>2, <3>1
    <3> QED
      BY <3>2 DEF Solves
  <2> QED
    BY <2>3
<1> HIDE DEF D
<1>3. Nat \subseteq D
  BY <1>1, <1>2, NatSetInduction
<1> QED
  BY <1>3 DEF D

(* Two sequences that begin alike are folded alike up to there.            *)
LEMMA SolutionsAgree ==
    ASSUME NEW b, NEW p, NEW q, NEW m \in Nat, NEW n \in Nat, NEW g, NEW h,
           Solves(g, b, p, m), Solves(h, b, q, n),
           NEW k \in Nat, k <= m, k <= n, \A i \in 1 .. k : p[i] = q[i]
    PROVE  g[1 .. k] = h[1 .. k]
<1> DEFINE D == {j \in Nat : j <= k => g[1 .. j] = h[1 .. j]}
<1>1. 0 \in D
  BY DEF Solves
<1>2. ASSUME NEW j \in Nat, j \in D, j + 1 <= k PROVE g[1 .. j + 1] = h[1 .. j + 1]
  <2>1. Max(1 .. j + 1) = j + 1
    <3>1. j + 1 \in 1 .. j + 1
      OBVIOUS
    <3> QED
      BY <3>1, MaxTop
  <2>6. (1 .. j + 1) \ {j + 1} = 1 .. j /\ j + 1 \in 1 .. j + 1
    OBVIOUS
  <2>2. g[1 .. j] = h[1 .. j]
    BY <1>2
  <2>3. /\ 1 .. j + 1 \in SUBSET (1 .. m) /\ 1 .. j + 1 \in SUBSET (1 .. n)
        /\ p[j + 1] = q[j + 1]
    BY <1>2
  <2> DEFINE s == 1 .. j + 1
  <2>7. s \in SUBSET (1 .. m) /\ s \in SUBSET (1 .. n) /\ s # {} /\ Max(s) = j + 1 /\ s \ {j + 1} = 1 .. j
    BY <2>1, <2>3, <2>6
  <2> HIDE DEF s
  <2>8. /\ g[s] = IF s = {} THEN b ELSE Step(g[s \ {Max(s)}], p[Max(s)])
        /\ h[s] = IF s = {} THEN b ELSE Step(h[s \ {Max(s)}], q[Max(s)])
    BY <2>7 DEF Solves
  <2>4. g[s] = Step(g[1 .. j], p[j + 1])
    BY <2>7, <2>8
  <2>5. h[s] = Step(h[1 .. j], q[j + 1])
    BY <2>7, <2>8
  <2> QED
    BY <2>2, <2>3, <2>4, <2>5 DEF s
<1>3. \A j \in Nat : j \in D => j + 1 \in D
  BY <1>2
<1> HIDE DEF D
<1>4. Nat \subseteq D
  BY <1>1, <1>3, NatSetInduction
<1> QED
  BY <1>4 DEF D

-----------------------------------------------------------------------------
(* The facts, for sequences over any set S.                                *)
LEMMA FoldNone == ASSUME NEW b PROVE Fold(b, <<>>) = b
<1>1. Fold(b, <<>>) = (CHOOSE g : Solves(g, b, <<>>, 0))[1 .. 0]
  <2>1. <<>> \in Seq({}) /\ Len(<<>>) = 0
    OBVIOUS
  <2> QED
    BY <2>1, FoldSolution
<1>2. PICK g : Solves(g, b, <<>>, 0) /\ Fold(b, <<>>) = g[1 .. 0]
  BY <1>1, SolutionExists
<1> QED
  BY <1>2 DEF Solves

LEMMA FoldAppend ==
    ASSUME NEW S, NEW q \in Seq(S), NEW x \in S, NEW b
    PROVE  Fold(b, Append(q, x)) = Step(Fold(b, q), x)
<1> DEFINE r == Append(q, x)
           n == Len(q)
<1>1. /\ r \in Seq(S) /\ Len(r) = n + 1 /\ n \in Nat
      /\ r[n + 1] = x /\ \A i \in 1 .. n : r[i] = q[i]
  OBVIOUS
<1> HIDE DEF r, n
<1>2. PICK g : Solves(g, b, r, n + 1) /\ Fold(b, r) = g[1 .. n + 1]
  <2>1. Fold(b, r) = (CHOOSE g : Solves(g, b, r, n + 1))[1 .. n + 1]
    BY <1>1, FoldSolution
  <2>2. n + 1 \in Nat
    BY <1>1
  <2> QED
    BY <2>1, <2>2, SolutionExists
<1>3. PICK h : Solves(h, b, q, n) /\ Fold(b, q) = h[1 .. n]
  BY <1>1, FoldSolution, SolutionExists DEF n
<1>4. g[1 .. n] = h[1 .. n]
  <2>1. n + 1 \in Nat /\ n <= n + 1 /\ n <= n
    BY <1>1
  <2> QED
    BY <1>1, <1>2, <1>3, <2>1, SolutionsAgree
<1>5. g[1 .. n + 1] = Step(g[1 .. n], r[n + 1])
  <2> DEFINE s == 1 .. n + 1
  <2>1. Max(s) = n + 1
    BY <1>1, MaxTop
  <2>2. s \in SUBSET (1 .. n + 1) /\ s # {} /\ s \ {n + 1} = 1 .. n
    BY <1>1
  <2> HIDE DEF s
  <2>3. g[s] = Step(g[1 .. n], r[n + 1])
    BY <1>2, <2>1, <2>2 DEF Solves
  <2> QED
    BY <2>3 DEF s
<1> QED
  BY <1>1, <1>2, <1>3, <1>4, <1>5 DEF r

LEMMA FoldConcat ==
    ASSUME NEW S, NEW q \in Seq(S), NEW p \in Seq(S), NEW b
    PROVE  Fold(b, q \o p) = Fold(Fold(b, q), p)
<1> DEFINE D == {n \in Nat : \A t \in Seq(S) : Len(t) = n => Fold(b, q \o t) = Fold(Fold(b, q), t)}
<1>1. 0 \in D
  <2>1. \A t \in Seq(S) : Len(t) = 0 => t = <<>> /\ q \o t = q
    OBVIOUS
  <2> QED
    BY <2>1, FoldNone
<1>2. ASSUME NEW n \in Nat, n \in D PROVE n + 1 \in D
  <2> SUFFICES ASSUME NEW t \in Seq(S), Len(t) = n + 1
               PROVE  Fold(b, q \o t) = Fold(Fold(b, q), t)
    OBVIOUS
  <2> DEFINE u == SubSeq(t, 1, n)
             x == t[n + 1]
  <2>1. u \in Seq(S) /\ x \in S /\ Len(u) = n /\ t = Append(u, x)
    OBVIOUS
  <2>2. q \o t = Append(q \o u, x) /\ q \o u \in Seq(S)
    BY <2>1
  <2>3. Fold(b, q \o u) = Fold(Fold(b, q), u)
    BY <1>2, <2>1
  <2> HIDE DEF u, x
  <2> QED
    BY <2>1, <2>2, <2>3, FoldAppend, ZenonT(60)
<1> HIDE DEF D
<1>3. Nat \subseteq D
  BY <1>1, <1>2, NatSetInduction
<1> QED
  BY <1>3 DEF D

LEMMA FoldOne == ASSUME NEW x, NEW b PROVE Fold(b, <<x>>) = Step(b, x)
<1>1. <<>> \in Seq({x}) /\ <<x>> = Append(<<>>, x) /\ x \in {x}
  OBVIOUS
<1>2. Fold(b, Append(<<>>, x)) = Step(Fold(b, <<>>), x)
  BY <1>1, FoldAppend
<1> QED
  BY <1>1, <1>2, FoldNone

LEMMA FoldFirst ==
    ASSUME NEW S, NEW q \in Seq(S), q # <<>>, NEW b
    PROVE  Fold(b, q) = Fold(Step(b, Head(q)), Tail(q))
<1>1. /\ <<Head(q)>> \in Seq(S) /\ Tail(q) \in Seq(S)
      /\ q = <<Head(q)>> \o Tail(q)
  OBVIOUS
<1>2. Fold(b, <<Head(q)>> \o Tail(q)) = Fold(Fold(b, <<Head(q)>>), Tail(q))
  BY <1>1, FoldConcat
<1> QED
  BY <1>1, <1>2, FoldOne

(* What every step keeps, the fold keeps.                                  *)
LEMMA FoldKeeps ==
    ASSUME NEW S, NEW I, \A a \in I, x \in S : Step(a, x) \in I,
           NEW q \in Seq(S), NEW b \in I
    PROVE  Fold(b, q) \in I
<1> DEFINE D == {n \in Nat : \A t \in Seq(S) : Len(t) = n => Fold(b, t) \in I}
<1>1. 0 \in D
  <2>1. \A t \in Seq(S) : Len(t) = 0 => t = <<>>
    OBVIOUS
  <2> QED
    BY <2>1, FoldNone
<1>2. ASSUME NEW n \in Nat, n \in D PROVE n + 1 \in D
  <2> SUFFICES ASSUME NEW t \in Seq(S), Len(t) = n + 1 PROVE Fold(b, t) \in I
    OBVIOUS
  <2> DEFINE u == SubSeq(t, 1, n)
             x == t[n + 1]
  <2>1. u \in Seq(S) /\ x \in S /\ Len(u) = n /\ t = Append(u, x)
    OBVIOUS
  <2>2. Fold(b, u) \in I
    BY <1>2, <2>1
  <2> HIDE DEF u, x
  <2> QED
    BY <2>1, <2>2, FoldAppend
<1> HIDE DEF D
<1>3. Nat \subseteq D
  BY <1>1, <1>2, NatSetInduction
<1> QED
  BY <1>3 DEF D

(* The fold of a sequence, element by element.                             *)
LEMMA FoldPrefixes ==
    ASSUME NEW S, NEW q \in Seq(S), NEW b
    PROVE  /\ Fold(b, SubSeq(q, 1, 0)) = b
           /\ \A n \in Nat : n + 1 \in DOMAIN q =>
                 Fold(b, SubSeq(q, 1, n + 1)) = Step(Fold(b, SubSeq(q, 1, n)), q[n + 1])
           /\ Fold(b, SubSeq(q, 1, Len(q))) = Fold(b, q)
<1>1. SubSeq(q, 1, 0) = <<>> /\ SubSeq(q, 1, Len(q)) = q
  OBVIOUS
<1>2. ASSUME NEW n \in Nat, n + 1 \in DOMAIN q
      PROVE  Fold(b, SubSeq(q, 1, n + 1)) = Step(Fold(b, SubSeq(q, 1, n)), q[n + 1])
  <2> DEFINE u == SubSeq(q, 1, n)
             x == q[n + 1]
  <2>1. u \in Seq(S) /\ x \in S /\ SubSeq(q, 1, n + 1) = Append(u, x)
    BY <1>2
  <2> HIDE DEF u, x
  <2>2. Fold(b, Append(u, x)) = Step(Fold(b, u), x)
    BY <2>1, FoldAppend
  <2> QED
    BY <2>1, <2>2 DEF u, x
<1> QED
  BY <1>1, <1>2, FoldNone
=============================================================================
