------------------------------ MODULE FoldFacts ------------------------------
(***************************************************************************)
(* What FoldLeft computes, for one operator: instantiated once per fold of *)
(* the model.  The community modules define FoldLeft by a function on sets *)
(* of indices that takes the greatest index out at every step; these facts *)
(* are by induction on the length, with the set of lengths for which a     *)
(* fact holds in the place of a predicate.                                 *)
(***************************************************************************)
EXTENDS Sequences, Folds, WellFoundedInduction

CONSTANT Op(_, _)

\* The greatest of the indices, and FoldLeft of SequencesExt, written out: an
\* instance of this module has no other definition of that module.
Greatest(S) == CHOOSE x \in S : \A y \in S : x >= y

Fold(base, s) ==
    MapThenFoldSet(LAMBDA x, y : Op(y, x), base, LAMBDA i : s[i],
                   LAMBDA S : Greatest(S), DOMAIN s)

\* The function behind a fold over the indices D of s.
Folds(h, base, D, s) ==
    h = [x \in SUBSET D |-> IF x = {} THEN base
                            ELSE Op(h[x \ {Greatest(x)}], s[Greatest(x)])]

-----------------------------------------------------------------------------
(* Induction. *)

\* A set of naturals that is not empty has a least element.
LEMMA LeastNatural ==
    ASSUME NEW S, S \subseteq Nat, S # {}
    PROVE  \E n \in S : \A m \in S : n <= m
<1> DEFINE R == OpToRel(<, Nat)
<1>1. IsWellFoundedOn(R, Nat)
  BY NatLessThanWellFounded
<1>2. \A m, n \in Nat : m < n => <<m, n>> \in R
  BY DEF OpToRel
<1> HIDE DEF R
<1>3. PICK n \in S : \A m \in S : <<m, n>> \notin R
  BY <1>1, WFMin
<1>4. ASSUME NEW m \in S
      PROVE  n <= m
  <2>1. m \in Nat /\ n \in Nat
    OBVIOUS
  <2>2. ~(m < n)
    BY <1>2, <1>3, <2>1
  <2> QED
    BY <2>1, <2>2
<1> QED
  BY <1>4

\* A set that has 0, and n + 1 with every n, has every natural.
LEMMA SetInduction ==
    ASSUME NEW S, 0 \in S, \A n \in Nat : n \in S => n + 1 \in S
    PROVE  Nat \subseteq S
<1> SUFFICES ASSUME Nat \ S # {}
             PROVE  FALSE
  OBVIOUS
<1>1. PICK n \in Nat \ S : \A m \in Nat \ S : n <= m
  BY LeastNatural
<1>2. n - 1 \in Nat
  BY <1>1
<1>3. n - 1 \in S
  BY <1>1, <1>2
<1> QED
  BY <1>2, <1>3

\* A set that has the empty sequence, and with a sequence every one that is
\* longer by one element, has every sequence.
LEMMA SequenceInduction ==
    ASSUME NEW T, NEW S,
           << >> \in S, \A s \in S \cap Seq(T) : \A e \in T : Append(s, e) \in S
    PROVE  Seq(T) \subseteq S
<1> DEFINE N == {n \in Nat : \A s \in Seq(T) : Len(s) = n => s \in S}
<1>1. 0 \in N
  <2>1. \A s \in Seq(T) : Len(s) = 0 => s = << >>
    OBVIOUS
  <2> QED
    BY <2>1
<1>2. ASSUME NEW n \in Nat, n \in N
      PROVE  n + 1 \in N
  <2> SUFFICES ASSUME NEW s \in Seq(T), Len(s) = n + 1
               PROVE  s \in S
    OBVIOUS
  <2> DEFINE front == SubSeq(s, 1, n)
  <2>1. front \in Seq(T) /\ Len(front) = n /\ s[n + 1] \in T
    OBVIOUS
  <2>2. s = Append(front, s[n + 1])
    OBVIOUS
  <2>3. front \in S
    BY <1>2, <2>1
  <2> HIDE DEF front
  <2> QED
    BY <2>1, <2>2, <2>3
<1> HIDE DEF N
<1>3. Nat \subseteq N
  BY <1>1, <1>2, SetInduction
<1> QED
  BY <1>3 DEF N

\* The greatest of a bounded set of naturals.
LEMMA MaxOfIndices ==
    ASSUME NEW n \in Nat, NEW x \in SUBSET (1..n), x # {}
    PROVE  Greatest(x) \in x /\ \A y \in x : y <= Greatest(x)
<1> DEFINE bounds == {m \in Nat : \A y \in x : y <= m}
<1>1. bounds # {}
  BY n \in bounds
<1>2. PICK m \in bounds : \A b \in bounds : m <= b
  BY <1>1, LeastNatural
<1>3. m \in x
  <2> SUFFICES ASSUME m \notin x
               PROVE  FALSE
    OBVIOUS
  <2>1. PICK z \in x : TRUE
    OBVIOUS
  <2>2. \A y \in x : y \in Nat /\ y <= m /\ y # m
    OBVIOUS
  <2>3. m - 1 \in Nat /\ \A y \in x : y <= m - 1
    BY <2>1, <2>2
  <2>4. m - 1 \in bounds
    BY <2>3
  <2> QED
    BY <1>2, <2>4
<1>4. \E z \in x : \A y \in x : z >= y
  BY <1>3
<1> QED
  BY <1>4 DEF Greatest

\* Of the first k + 1 indices the greatest is the last.
LEMMA MaxOfRange ==
    ASSUME NEW k \in Nat
    PROVE  /\ Greatest(1..(k + 1)) = k + 1
           /\ 1..(k + 1) # {} /\ (1..(k + 1)) \ {k + 1} = 1..k
<1> DEFINE x == 1..(k + 1)
<1>1. k + 1 \in Nat /\ x \in SUBSET (1..(k + 1)) /\ x # {} /\ k + 1 \in x
  OBVIOUS
<1>2. Greatest(x) \in x /\ \A y \in x : y <= Greatest(x)
  BY <1>1, MaxOfIndices
<1>3. Greatest(x) = k + 1
  BY <1>1, <1>2
<1>4. x \ {k + 1} = 1..k
  OBVIOUS
<1> QED
  BY <1>1, <1>3, <1>4

-----------------------------------------------------------------------------
(* Folds. *)

LEMMA FoldsExist ==
    ASSUME NEW base, NEW s, NEW n \in Nat
    PROVE  \E h : Folds(h, base, 1..n, s)
<1> DEFINE S == {k \in Nat : \E h : Folds(h, base, 1..k, s)}
<1>1. 0 \in S
  <2> DEFINE h == [x \in SUBSET (1..0) |-> base]
  <2>1. \A x \in SUBSET (1..0) : x = {}
    OBVIOUS
  <2>2. Folds(h, base, 1..0, s)
    BY <2>1 DEF Folds
  <2> QED
    BY <2>2
<1>2. ASSUME NEW k \in Nat, k \in S
      PROVE  k + 1 \in S
  <2>1. PICK g : Folds(g, base, 1..k, s)
    BY <1>2
  <2> DEFINE h == [x \in SUBSET (1..(k + 1)) |->
                     IF k + 1 \in x THEN Op(g[x \ {k + 1}], s[k + 1]) ELSE g[x]]
  <2>2. ASSUME NEW x \in SUBSET (1..k)
        PROVE  /\ h[x] = g[x]
               /\ g[x] = IF x = {} THEN base ELSE Op(g[x \ {Greatest(x)}], s[Greatest(x)])
    <3>1. x \in SUBSET (1..(k + 1)) /\ k + 1 \notin x
      OBVIOUS
    <3>2. h[x] = g[x]
      BY <3>1
    <3> HIDE DEF h
    <3> QED
      BY <2>1, <3>2 DEF Folds
  <2> SUFFICES ASSUME NEW x \in SUBSET (1..(k + 1))
               PROVE  h[x] = IF x = {} THEN base
                             ELSE Op(h[x \ {Greatest(x)}], s[Greatest(x)])
    <3>1. Folds(h, base, 1..(k + 1), s)
      BY DEF Folds
    <3> QED
      BY <3>1
  <2>3. CASE k + 1 \in x
    <3>1. Greatest(x) \in x /\ \A y \in x : y <= Greatest(x)
      <4>1. k + 1 \in Nat /\ x # {}
        BY <2>3
      <4> QED
        BY <4>1, MaxOfIndices
    <3>2. Greatest(x) = k + 1
      <4> DEFINE m == Greatest(x)
      <4> HIDE DEF m
      <4>1. m \in 1..(k + 1) /\ k + 1 <= m
        BY ONLY <2>3, <3>1, x \in SUBSET (1..(k + 1)) DEF m
      <4> QED
        BY ONLY <4>1, k \in Nat DEF m
    <3>3. x \ {k + 1} \in SUBSET (1..k)
      OBVIOUS
    <3>4. h[x] = Op(g[x \ {k + 1}], s[k + 1])
      BY <2>3
    <3>5. h[x \ {k + 1}] = g[x \ {k + 1}]
      BY <2>2, <3>3
    <3> QED
      BY <2>3, <3>2, <3>4, <3>5
  <2>4. CASE k + 1 \notin x
    <3>1. x \in SUBSET (1..k)
      BY <2>4
    <3>2. CASE x = {}
      BY <2>2, <3>1, <3>2
    <3>3. CASE x # {}
      <4>1. x \ {Greatest(x)} \in SUBSET (1..k)
        BY <3>1
      <4> QED
        BY <2>2, <3>1, <3>3, <4>1
    <3> QED
      BY <3>2, <3>3
  <2> QED
    BY <2>3, <2>4
<1> HIDE DEF S
<1>3. n \in S
  BY <1>1, <1>2, SetInduction
<1> QED
  BY <1>3 DEF S

\* On the first k indices they take one value, whatever is behind them.
LEMMA FoldsAgree ==
    ASSUME NEW base, NEW s, NEW t, NEW n \in Nat, NEW m \in Nat, NEW g, NEW h,
           Folds(g, base, 1..n, s), Folds(h, base, 1..m, t),
           n <= m, \A i \in 1..n : s[i] = t[i]
    PROVE  g[1..n] = h[1..n]
<1> DEFINE S == {k \in Nat : k <= n => g[1..k] = h[1..k]}
<1>1. 0 \in S
  <2>1. 1..0 = {} /\ {} \in SUBSET (1..n) /\ {} \in SUBSET (1..m)
    OBVIOUS
  <2>2. g[{}] = base /\ h[{}] = base
    BY <2>1 DEF Folds
  <2> QED
    BY <2>1, <2>2
<1>2. ASSUME NEW k \in Nat, k \in S
      PROVE  k + 1 \in S
  <2> SUFFICES ASSUME k + 1 <= n
               PROVE  g[1..(k + 1)] = h[1..(k + 1)]
    OBVIOUS
  <2>1. g[1..k] = h[1..k]
    BY <1>2
  <2>2. Greatest(1..(k + 1)) = k + 1
    BY MaxOfRange
  <2>3. /\ (1..(k + 1)) \ {k + 1} = 1..k /\ 1..(k + 1) # {}
        /\ 1..(k + 1) \in SUBSET (1..n) /\ 1..(k + 1) \in SUBSET (1..m)
    <3>1. 1..(k + 1) \in SUBSET (1..n) /\ 1..(k + 1) \in SUBSET (1..m)
      OBVIOUS
    <3> QED
      BY <3>1, MaxOfRange
  <2>4. g[1..(k + 1)] = Op(g[1..k], s[k + 1])
    <3>1. \A x \in SUBSET (1..n) :
            g[x] = IF x = {} THEN base ELSE Op(g[x \ {Greatest(x)}], s[Greatest(x)])
      BY DEF Folds
    <3> QED
      BY <2>2, <2>3, <3>1
  <2>5. h[1..(k + 1)] = Op(h[1..k], t[k + 1])
    <3>1. \A x \in SUBSET (1..m) :
            h[x] = IF x = {} THEN base ELSE Op(h[x \ {Greatest(x)}], t[Greatest(x)])
      BY DEF Folds
    <3> QED
      BY <2>2, <2>3, <3>1
  <2>6. s[k + 1] = t[k + 1]
    OBVIOUS
  <2> QED
    BY <2>1, <2>4, <2>5, <2>6
<1> HIDE DEF S
<1>3. n \in S
  BY <1>1, <1>2, SetInduction
<1> QED
  BY <1>3 DEF S

LEMMA FoldIsFolds ==
    ASSUME NEW base, NEW n \in Nat, NEW s, DOMAIN s = 1..n
    PROVE  \E h : Folds(h, base, 1..n, s) /\ Fold(base, s) = h[1..n]
<1>1. PICK g : Folds(g, base, 1..n, s)
  BY FoldsExist
<1> DEFINE D == DOMAIN s
<1>2. \E h : Folds(h, base, D, s) /\ Fold(base, s) = h[D]
  <2>1. Folds(g, base, D, s)
    BY <1>1
  <2> QED
    BY <2>1 DEF Fold, MapThenFoldSet, Folds
<1> QED
  BY <1>2

\* A fold over nothing is the base.
THEOREM FoldEmpty ==
    ASSUME NEW base
    PROVE  Fold(base, << >>) = base
<1> DEFINE s == << >>
<1>1. DOMAIN s = 1..0 /\ 1..0 = {}
  OBVIOUS
<1>2. PICK h : Folds(h, base, 1..0, s) /\ Fold(base, s) = h[1..0]
  BY <1>1, FoldIsFolds
<1>3. {} \in SUBSET (1..0)
  OBVIOUS
<1>4. h[{}] = base
  BY <1>2, <1>3 DEF Folds
<1> QED
  BY <1>1, <1>2, <1>4

\* One more element takes one more step.
THEOREM FoldAppend ==
    ASSUME NEW base, NEW T, NEW s \in Seq(T), NEW e \in T
    PROVE  Fold(base, Append(s, e)) = Op(Fold(base, s), e)
<1> DEFINE t == Append(s, e)
           n == Len(s)
<1>1. /\ n \in Nat /\ DOMAIN s = 1..n /\ DOMAIN t = 1..(n + 1)
      /\ t[n + 1] = e /\ \A i \in 1..n : s[i] = t[i]
  OBVIOUS
<1> HIDE DEF t, n
<1>2. \A k \in Nat : \A q : DOMAIN q = 1..k =>
        \E h : Folds(h, base, 1..k, q) /\ Fold(base, q) = h[1..k]
  BY ONLY FoldIsFolds
<1>3. PICK g : Folds(g, base, 1..n, s) /\ Fold(base, s) = g[1..n]
  BY ONLY <1>1, <1>2
<1>4. PICK m \in Nat : m = n + 1
  BY <1>1
<1>5. PICK h : Folds(h, base, 1..m, t) /\ Fold(base, t) = h[1..m]
  BY ONLY <1>1, <1>2, <1>4, m \in Nat
<1>6. g[1..n] = h[1..n]
  <2>1. Folds(g, base, 1..n, s) /\ Folds(h, base, 1..m, t) /\ n <= m
    BY <1>1, <1>3, <1>4, <1>5
  <2> QED
    BY <1>1, <2>1, FoldsAgree
<1>7. Greatest(1..m) = m /\ (1..m) \ {m} = 1..n /\ 1..m # {}
  BY <1>1, <1>4, MaxOfRange
<1>8. h[1..m] = Op(h[1..n], t[m])
  <2>1. \A x \in SUBSET (1..m) :
          h[x] = IF x = {} THEN base ELSE Op(h[x \ {Greatest(x)}], t[Greatest(x)])
    BY <1>5 DEF Folds
  <2> QED
    BY <1>7, <2>1
<1> QED
  BY <1>1, <1>3, <1>4, <1>5, <1>6, <1>8 DEF t
=============================================================================
