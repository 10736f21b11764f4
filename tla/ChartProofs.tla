---------------------------- MODULE ChartProofs ----------------------------
(***************************************************************************)
(* Theorems of Chart, for any feed, windows, timeframes, playback speeds,  *)
(* trades and bounds on what is under way.                                 *)
(*                                                                         *)
(* The invariant, Sound, types the page (Typed); says that of all sockets  *)
(* only the live one can still open or send, and that of all fetches one   *)
(* that is not cancelled is the one last asked for (Connections); that the *)
(* bars held are what that source has sent (Sources); and that the picture *)
(* is of those bars up to the cursor, the markers that are not set by hand *)
(* at times of those bars (Pictures).  A callback of an earlier connection *)
(* or fetch changes nothing but its own row.  Every other event that may   *)
(* change what is held redraws (Redrawn), draws the markers again          *)
(* (Remarked), or leaves the page neither loaded nor following.            *)
(***************************************************************************)
EXTENDS Chart, FiniteSetTheorems, SequenceTheorems, TLAPS

\* What folds keep, of the trades of a window and of the markers left.
TradeFold == INSTANCE FoldFacts WITH Op <- KeepTrade
OrderFold == INSTANCE FoldFacts WITH Op <- KeepOrder

-----------------------------------------------------------------------------
(* Numbers. *)

LEMMA MaxOfTwo ==
    ASSUME NEW a \in Int, NEW b \in Int
    PROVE  Max({a, b}) = IF a >= b THEN a ELSE b
<1>1. \E x \in {a, b} : \A y \in {a, b} : x >= y
  OBVIOUS
<1>2. Max({a, b}) \in {a, b} /\ \A y \in {a, b} : Max({a, b}) >= y
  BY <1>1 DEF Max
<1> QED
  BY <1>2

LEMMA MinOfTwo ==
    ASSUME NEW a \in Int, NEW b \in Int
    PROVE  Min({a, b}) = IF a <= b THEN a ELSE b
<1>1. \E x \in {a, b} : \A y \in {a, b} : x <= y
  OBVIOUS
<1>2. Min({a, b}) \in {a, b} /\ \A y \in {a, b} : Min({a, b}) <= y
  BY <1>1 DEF Min
<1> QED
  BY <1>2

LEMMA MinOfFree ==
    ASSUME NEW S, S \subseteq Nat, S # {}
    PROVE  Min(S) \in S
<1>1. \E x \in S : \A y \in S : x <= y
  BY TradeFold!LeastNatural
<1> QED
  BY <1>1 DEF Min

LEMMA CountOfIndices ==
    ASSUME NEW n \in Nat, NEW S \in SUBSET (1..n)
    PROVE  IsFiniteSet(S) /\ Cardinality(S) \in 0..n
<1>1. IsFiniteSet(1..n) /\ Cardinality(1..n) = n
  BY FS_Interval
<1>2. IsFiniteSet(S) /\ Cardinality(S) <= n
  BY <1>1, FS_Subset
<1>3. Cardinality(S) \in Nat
  BY <1>2, FS_CardinalityType
<1> QED
  BY <1>2, <1>3

LEMMA StretchOf ==
    ASSUME NEW S, NEW s \in Seq(S), NEW m \in Nat \ {0}, NEW n \in 0..Len(s)
    PROVE  /\ SubSeq(s, m, n) \in Seq(S)
           /\ Len(SubSeq(s, m, n)) = IF m <= n THEN n - m + 1 ELSE 0
           /\ \A i \in 1..(n - m + 1) : SubSeq(s, m, n)[i] = s[m + i - 1]
<1>1. \A i \in m..n : s[i] \in S
  OBVIOUS
<1>2. m \in Int /\ n \in Int
  OBVIOUS
<1> QED
  BY <1>1, <1>2, SubSeqProperties

-----------------------------------------------------------------------------
(* Bars. *)

\* Bars of the feed, in its order and each at most once.
IsBars(s) ==
    /\ s \in Seq(Nat) /\ Len(s) <= Len(Feed)
    /\ Range(s) \subseteq Range(Feed)
    /\ \A i, j \in 1..Len(s) : i < j => s[i] < s[j]

LEMMA FeedTyped ==
    /\ Feed \in Seq(Nat) /\ Len(Feed) \in Nat
    /\ SnapshotBars \in 1..Len(Feed)
  BY ChartAssumption

LEMMA StretchIsBars ==
    ASSUME NEW m \in Nat \ {0}, NEW n \in 0..Len(Feed)
    PROVE  IsBars(SubSeq(Feed, m, n))
<1> DEFINE s == SubSeq(Feed, m, n)
<1>1. \A i \in m..n : Feed[i] \in Nat
  BY FeedTyped
<1>2. /\ s \in Seq(Nat) /\ Len(s) = (IF m <= n THEN n - m + 1 ELSE 0)
      /\ \A i \in 1..(n - m + 1) : s[i] = Feed[m + i - 1]
  BY <1>1, FeedTyped, SubSeqProperties
<1> HIDE DEF s
<1>3. Len(s) <= Len(Feed)
  BY <1>2, FeedTyped
<1>4. \A i \in 1..Len(s) : m + i - 1 \in 1..Len(Feed) /\ s[i] = Feed[m + i - 1]
  BY <1>2, FeedTyped
<1>5. Range(s) \subseteq Range(Feed)
  <2>1. DOMAIN s = 1..Len(s) /\ DOMAIN Feed = 1..Len(Feed)
    BY <1>2, FeedTyped
  <2> QED
    BY <1>4, <2>1 DEF Range
<1>6. ASSUME NEW i \in 1..Len(s), NEW j \in 1..Len(s), i < j
      PROVE  s[i] < s[j]
  <2> DEFINE p == m + i - 1
             q == m + j - 1
  <2>1. p \in 1..Len(Feed) /\ q \in 1..Len(Feed) /\ s[i] = Feed[p] /\ s[j] = Feed[q]
    BY <1>4
  <2>2. p < q
    BY <1>2, <1>6
  <2> HIDE DEF p, q
  <2> QED
    BY <2>1, <2>2, ChartAssumption
<1> QED
  BY <1>2, <1>3, <1>5, <1>6 DEF IsBars, s

LEMMA PrefixIsBars ==
    ASSUME NEW n \in 0..Len(Feed)
    PROVE  /\ IsBars(SubSeq(Feed, 1, n)) /\ Len(SubSeq(Feed, 1, n)) = n
           /\ \A i \in 1..n : SubSeq(Feed, 1, n)[i] = Feed[i]
<1>1. \A i \in 1..n : Feed[i] \in Nat
  BY FeedTyped
<1>2. 1 \in Int /\ n \in Int
  BY FeedTyped
<1>3. /\ Len(SubSeq(Feed, 1, n)) = (IF 1 <= n THEN n - 1 + 1 ELSE 0)
      /\ \A i \in 1..(n - 1 + 1) : SubSeq(Feed, 1, n)[i] = Feed[1 + i - 1]
  BY <1>1, <1>2, SubSeqProperties
<1>4. IsBars(SubSeq(Feed, 1, n))
  BY StretchIsBars
<1> QED
  BY <1>3, <1>4

LEMMA NoBarsAreBars == IsBars(<< >>) /\ Range(<< >>) = {}
<1>1. << >> \in Seq(Nat) /\ Len(<< >>) = 0
  OBVIOUS
<1>2. Range(<< >>) = {}
  BY DEF Range
<1> QED
  BY <1>1, <1>2, FeedTyped DEF IsBars

LEMMA WindowIsBars ==
    ASSUME NEW r
    PROVE  IsBars(Window(r))
<1> DEFINE Clamp(t, lo) == Max({lo, Min({t, Last(Feed)})})
           start == Clamp(r[1], Feed[1])
           end == Clamp(r[2], start)
           Earlier == {i \in 1..Len(Feed) : Feed[i] < start}
           UpToEnd == {i \in 1..Len(Feed) : Feed[i] <= end}
<1>1. Window(r) = SubSeq(Feed, Cardinality(Earlier) + 1, Cardinality(UpToEnd))
  BY DEF Window
<1>2. Earlier \in SUBSET (1..Len(Feed)) /\ UpToEnd \in SUBSET (1..Len(Feed))
  OBVIOUS
<1> HIDE DEF Earlier, UpToEnd
<1>3. Cardinality(Earlier) \in 0..Len(Feed) /\ Cardinality(UpToEnd) \in 0..Len(Feed)
  BY <1>2, FeedTyped, CountOfIndices
<1>4. Cardinality(Earlier) + 1 \in Nat \ {0}
  BY <1>3
<1> QED
  BY <1>1, <1>3, <1>4, StretchIsBars

\* What the page reveals of some items.
LEMMA RevealedItems ==
    ASSUME NEW s \in Seq(Nat), NEW cur \in Int, cur >= -1
    PROVE  /\ Revealed(FALSE, s, cur) = s
           /\ Revealed(TRUE, s, cur) \in Seq(Nat)
           /\ Len(Revealed(TRUE, s, cur)) =
                IF cur + 1 <= Len(s) THEN cur + 1 ELSE Len(s)
           /\ \A i \in 1..Len(Revealed(TRUE, s, cur)) :
                Revealed(TRUE, s, cur)[i] = s[i]
<1> DEFINE n == IF cur + 1 <= Len(s) THEN cur + 1 ELSE Len(s)
<1>1. Min({cur + 1, Len(s)}) = n
  BY MinOfTwo
<1>2. n \in Nat /\ n <= Len(s)
  OBVIOUS
<1>3. Revealed(TRUE, s, cur) = SubSeq(s, 1, n)
  BY <1>1 DEF Revealed
<1>4. \A i \in 1..n : s[i] \in Nat
  BY <1>2
<1>5. /\ SubSeq(s, 1, n) \in Seq(Nat)
      /\ Len(SubSeq(s, 1, n)) = (IF 1 <= n THEN n - 1 + 1 ELSE 0)
      /\ \A i \in 1..(n - 1 + 1) : SubSeq(s, 1, n)[i] = s[1 + i - 1]
  <2>1. 1 \in Int /\ n \in Int
    BY <1>2
  <2> HIDE DEF n
  <2> QED
    BY <1>4, <2>1, SubSeqProperties
<1>6. Revealed(FALSE, s, cur) = s
  BY DEF Revealed
<1> HIDE DEF n
<1>9. n - 1 + 1 = n /\ (1 <= n \/ n = 0)
  BY <1>2
<1>7. Len(SubSeq(s, 1, n)) = n /\ \A i \in 1..n : SubSeq(s, 1, n)[i] = s[i]
  <2>1. \A i \in 1..n : 1 + i - 1 = i
    BY <1>2
  <2> QED
    BY <1>5, <1>9, <2>1
<1>8. /\ Revealed(TRUE, s, cur) \in Seq(Nat) /\ Len(Revealed(TRUE, s, cur)) = n
      /\ \A i \in 1..n : Revealed(TRUE, s, cur)[i] = s[i]
  BY <1>3, <1>5, <1>7
<1> QED
  BY <1>6, <1>8 DEF n

LEMMA RevealedOfNone ==
    ASSUME NEW m \in BOOLEAN, NEW cur \in Int, cur >= -1
    PROVE  Revealed(m, << >>, cur) = << >>
<1>1. << >> \in Seq(Nat)
  OBVIOUS
<1>2. PICK s \in Seq(Nat) : s = << >>
  BY <1>1
<1>3. Len(s) = 0
  BY <1>2
<1>4. /\ Revealed(FALSE, s, cur) = s
      /\ Revealed(TRUE, s, cur) \in Seq(Nat)
      /\ Len(Revealed(TRUE, s, cur)) = IF cur + 1 <= Len(s) THEN cur + 1 ELSE Len(s)
  BY RevealedItems
<1>5. PICK shown : shown = Revealed(TRUE, s, cur)
  OBVIOUS
<1>6. shown \in Seq(Nat) /\ Len(shown) = IF cur + 1 <= 0 THEN cur + 1 ELSE 0
  BY <1>3, <1>4, <1>5
<1>7. shown = << >>
  BY <1>6
<1>8. m = TRUE \/ m = FALSE
  OBVIOUS
<1> QED
  BY <1>2, <1>4, <1>5, <1>7, <1>8

-----------------------------------------------------------------------------
(* Markers. *)

\* Markers as drawn: of an order, traded or blocked, or set by hand.
Marks == [kind: {"order", "manual"}, time: Nat]

Orders(marks) == {i \in DOMAIN marks : marks[i].kind # "manual"}

MaxOrders == Max({MaxMarkers, Cardinality(SignalTimes)})

\* Markers with no more set by hand, and no more of orders, than there can be.
IsMarks(marks) ==
    /\ marks \in Seq(Marks)
    /\ Cardinality(ByHand(marks)) <= MaxClicks
    /\ Cardinality(Orders(marks)) <= MaxOrders

LEMMA MaxOrdersTyped ==
    /\ MaxOrders \in Nat /\ MaxMarkers <= MaxOrders
    /\ Cardinality(SignalTimes) \in Nat /\ Cardinality(SignalTimes) <= MaxOrders
<1>1. MaxMarkers \in Nat /\ Cardinality(SignalTimes) \in Nat
  BY ChartAssumption, FS_CardinalityType
<1>2. MaxOrders = IF MaxMarkers >= Cardinality(SignalTimes) THEN MaxMarkers
                  ELSE Cardinality(SignalTimes)
  BY <1>1, MaxOfTwo DEF MaxOrders
<1> QED
  BY <1>1, <1>2

LEMMA KindsCounted ==
    ASSUME NEW marks \in Seq(Marks)
    PROVE  /\ ByHand(marks) \in SUBSET (1..Len(marks))
           /\ Orders(marks) \in SUBSET (1..Len(marks))
           /\ IsFiniteSet(ByHand(marks)) /\ Cardinality(ByHand(marks)) \in 0..Len(marks)
           /\ IsFiniteSet(Orders(marks)) /\ Cardinality(Orders(marks)) \in 0..Len(marks)
           /\ Len(marks) <= Cardinality(Orders(marks)) + Cardinality(ByHand(marks))
<1>1. DOMAIN marks = 1..Len(marks) /\ Len(marks) \in Nat
  OBVIOUS
<1>2. /\ ByHand(marks) \in SUBSET (1..Len(marks))
      /\ Orders(marks) \in SUBSET (1..Len(marks))
      /\ Orders(marks) \cup ByHand(marks) = 1..Len(marks)
      /\ Orders(marks) \cap ByHand(marks) = {}
  BY <1>1 DEF ByHand, Orders
<1>3. /\ IsFiniteSet(ByHand(marks)) /\ Cardinality(ByHand(marks)) \in 0..Len(marks)
      /\ IsFiniteSet(Orders(marks)) /\ Cardinality(Orders(marks)) \in 0..Len(marks)
  BY <1>1, <1>2, CountOfIndices
<1>4. Cardinality(Orders(marks) \cup ByHand(marks)) =
        Cardinality(Orders(marks)) + Cardinality(ByHand(marks))
        - Cardinality(Orders(marks) \cap ByHand(marks))
  BY <1>3, FS_Union
<1>5. Cardinality({}) = 0
  BY FS_EmptySet
<1>6. Cardinality(1..Len(marks)) = Len(marks)
  <2>1. 1 \in Int /\ Len(marks) \in Int
    BY <1>1
  <2>2. Cardinality(1..Len(marks)) = IF 1 > Len(marks) THEN 0 ELSE Len(marks) - 1 + 1
    BY <2>1, FS_Interval
  <2> QED
    BY <1>1, <2>2
<1>7. Len(marks) <= Cardinality(Orders(marks)) + Cardinality(ByHand(marks))
  <2>1. Cardinality(Orders(marks) \cup ByHand(marks)) = Len(marks)
    BY <1>2, <1>6
  <2>2. Cardinality(Orders(marks) \cap ByHand(marks)) = 0
    BY <1>2, <1>5
  <2>3. Cardinality(Orders(marks)) \in Nat /\ Cardinality(ByHand(marks)) \in Nat
    BY <1>1, <1>3
  <2> QED
    BY <1>1, <1>4, <2>1, <2>2, <2>3
<1> QED
  BY <1>2, <1>3, <1>7

LEMMA NoMarksAreMarks == IsMarks(<< >>)
<1>1. << >> \in Seq(Marks) /\ Len(<< >>) = 0
  OBVIOUS
<1>2. /\ Cardinality(ByHand(<< >>)) \in 0..Len(<< >>)
      /\ Cardinality(Orders(<< >>)) \in 0..Len(<< >>)
  BY <1>1, KindsCounted
<1> QED
  BY <1>1, <1>2, MaxOrdersTyped, ChartAssumption DEF IsMarks

\* What one more marker does to the counts.
LEMMA OneMoreMark ==
    ASSUME NEW marks \in Seq(Marks), NEW x \in Marks
    PROVE  /\ x.kind = "manual" =>
                /\ Orders(Append(marks, x)) = Orders(marks)
                /\ Cardinality(ByHand(Append(marks, x))) = Cardinality(ByHand(marks)) + 1
           /\ x.kind # "manual" =>
                /\ ByHand(Append(marks, x)) = ByHand(marks)
                /\ Cardinality(Orders(Append(marks, x))) = Cardinality(Orders(marks)) + 1
<1> DEFINE n == Len(marks)
           more == Append(marks, x)
<1>1. /\ n \in Nat /\ DOMAIN marks = 1..n /\ DOMAIN more = 1..(n + 1)
      /\ more[n + 1] = x /\ \A i \in 1..n : more[i] = marks[i]
  OBVIOUS
<1>2. /\ IsFiniteSet(ByHand(marks)) /\ ByHand(marks) \in SUBSET (1..n)
      /\ IsFiniteSet(Orders(marks)) /\ Orders(marks) \in SUBSET (1..n)
  BY KindsCounted
<1> HIDE DEF n, more
<1>3. n + 1 \notin 1..n
  BY <1>1
<1>4. CASE x.kind = "manual"
  <2>1. ByHand(more) = ByHand(marks) \cup {n + 1}
    BY <1>1, <1>3, <1>4 DEF ByHand
  <2>2. Orders(more) = Orders(marks)
    BY <1>1, <1>3, <1>4 DEF Orders
  <2>3. Cardinality(ByHand(marks) \cup {n + 1}) = Cardinality(ByHand(marks)) + 1
    BY <1>2, <1>3, FS_AddElement
  <2> QED
    BY <1>4, <2>1, <2>2, <2>3 DEF more
<1>5. CASE x.kind # "manual"
  <2>1. Orders(more) = Orders(marks) \cup {n + 1}
    BY <1>1, <1>3, <1>5 DEF Orders
  <2>2. ByHand(more) = ByHand(marks)
    BY <1>1, <1>3, <1>5 DEF ByHand
  <2>3. Cardinality(Orders(marks) \cup {n + 1}) = Cardinality(Orders(marks)) + 1
    BY <1>2, <1>3, FS_AddElement
  <2> QED
    BY <1>5, <2>1, <2>2, <2>3 DEF more
<1> QED
  BY <1>4, <1>5

\* The markers a live chart keeps after one more trade.
Latest(marks, x) ==
    LET all == Append(marks, x)
    IN  SubSeq(all, Max({1, Len(all) - MaxMarkers + 1}), Len(all))

LEMMA LatestMarks ==
    ASSUME NEW marks, IsMarks(marks), NEW x \in Marks, x.kind # "manual"
    PROVE  /\ IsMarks(Latest(marks, x))
           /\ Range(Latest(marks, x)) \subseteq Range(marks) \cup {x}
<1> DEFINE all == Append(marks, x)
           k == Max({1, Len(all) - MaxMarkers + 1})
           n == Len(all)
           kept == SubSeq(all, k, n)
<1>1. /\ all \in Seq(Marks) /\ n \in Nat /\ n = Len(marks) + 1
      /\ DOMAIN all = 1..n /\ all[n] = x /\ marks \in Seq(Marks)
      /\ \A i \in 1..Len(marks) : all[i] = marks[i]
  BY DEF IsMarks
<1>2. MaxMarkers \in Nat \ {0}
  BY ChartAssumption
<1> HIDE DEF n, k, all
<1>3. k = IF 1 >= n - MaxMarkers + 1 THEN 1 ELSE n - MaxMarkers + 1
  <2>1. n - MaxMarkers + 1 \in Int
    BY <1>1, <1>2
  <2>2. Max({1, n - MaxMarkers + 1}) =
          IF 1 >= n - MaxMarkers + 1 THEN 1 ELSE n - MaxMarkers + 1
    BY <2>1, MaxOfTwo
  <2> QED
    BY <2>2 DEF n, k
<1>4. k \in 1..n /\ n - k + 1 <= MaxMarkers /\ n - k + 1 \in Nat
  <2>1. n >= 1
    BY <1>1
  <2> QED
    BY <1>1, <1>2, <1>3, <2>1
<1>5. /\ kept \in Seq(Marks) /\ Len(kept) = n - k + 1
      /\ \A i \in 1..(n - k + 1) : kept[i] = all[k + i - 1]
  <2>1. k \in Nat \ {0} /\ n \in 0..Len(all)
    BY <1>1, <1>4 DEF n
  <2>2. all \in Seq(Marks)
    BY <1>1
  <2>3. /\ kept \in Seq(Marks)
        /\ Len(kept) = IF k <= n THEN n - k + 1 ELSE 0
        /\ \A i \in 1..(n - k + 1) : kept[i] = all[k + i - 1]
    BY ONLY <2>1, <2>2, StretchOf
  <2>4. k <= n
    BY <1>1, <1>4
  <2> QED
    BY ONLY <2>3, <2>4
<1> HIDE DEF kept
<1>6. DOMAIN kept = 1..(n - k + 1)
  BY <1>5
<1>7. Cardinality(Orders(kept)) <= MaxOrders
  <2>1. Cardinality(Orders(kept)) \in 0..(n - k + 1)
    BY <1>5, KindsCounted
  <2> QED
    BY <1>4, <2>1, MaxOrdersTyped, <1>2
<1>8. Cardinality(ByHand(kept)) <= Cardinality(ByHand(all))
  <2> DEFINE f == [i \in ByHand(kept) |-> k + i - 1]
  <2>1. ASSUME NEW i \in ByHand(kept)
        PROVE  f[i] \in ByHand(all) /\ i \in Nat
    <3>1. i \in 1..(n - k + 1) /\ kept[i].kind = "manual" /\ kept[i] = all[k + i - 1]
      BY <1>5, <1>6 DEF ByHand
    <3>2. k + i - 1 \in 1..n
      BY <1>1, <1>4, <3>1
    <3> QED
      BY <1>1, <3>1, <3>2 DEF ByHand
  <2>2. \A i, j \in ByHand(kept) : f[i] = f[j] => i = j
    BY <1>4, <2>1
  <2>3. f \in Injection(ByHand(kept), ByHand(all))
    BY <2>1, <2>2 DEF Injection, IsInjective
  <2>4. IsFiniteSet(ByHand(all))
    BY <1>1, KindsCounted
  <2> HIDE DEF f
  <2> QED
    BY <2>3, <2>4, FS_Injection
<1>9. ByHand(all) = ByHand(marks)
  BY <1>1, OneMoreMark DEF all
<1>10. Range(kept) \subseteq Range(marks) \cup {x}
  <2> SUFFICES ASSUME NEW i \in 1..(n - k + 1)
               PROVE  kept[i] \in Range(marks) \cup {x}
    BY <1>6 DEF Range
  <2> DEFINE p == k + i - 1
  <2>1. p \in 1..n /\ kept[i] = all[p]
    <3>1. p \in Nat /\ p >= 1 /\ p <= n
      BY <1>1, <1>4
    <3>2. kept[i] = all[p]
      BY <1>5
    <3> QED
      BY <1>1, <3>1, <3>2
  <2>2. p = n \/ p \in 1..Len(marks)
    BY <1>1, <2>1
  <2> HIDE DEF p
  <2>3. p \in 1..Len(marks) => all[p] \in Range(marks)
    BY <1>1 DEF Range
  <2> QED
    BY <1>1, <2>1, <2>2, <2>3
<1>11. Cardinality(ByHand(kept)) <= MaxClicks
  <2>1. /\ Cardinality(ByHand(marks)) <= MaxClicks /\ Cardinality(ByHand(marks)) \in Nat
        /\ Cardinality(ByHand(kept)) \in Nat /\ MaxClicks \in Nat
    BY <1>1, <1>5, KindsCounted, ChartAssumption DEF IsMarks
  <2> QED
    BY <1>8, <1>9, <2>1
<1> QED
  BY <1>5, <1>7, <1>10, <1>11 DEF IsMarks, Latest, kept, n, k, all

\* What is left when those set by hand are cleared.
Cleared(marks) == FoldLeft(KeepOrder, << >>, marks)

LEMMA ClearedMore ==
    /\ Cleared(<< >>) = << >>
    /\ \A s \in Seq(Marks) : \A x \in Marks :
        Cleared(Append(s, x)) = KeepOrder(Cleared(s), x)
<1>1. \A q : Cleared(q) = OrderFold!Fold(<< >>, q)
  BY DEF Cleared, OrderFold!Fold, FoldLeft,
         OrderFold!MapThenFoldSet, MapThenFoldSet, OrderFold!Greatest, Max
<1>2. Cleared(<< >>) = << >>
  BY <1>1, OrderFold!FoldEmpty
<1>3. ASSUME NEW s \in Seq(Marks), NEW x \in Marks
      PROVE  Cleared(Append(s, x)) = KeepOrder(Cleared(s), x)
  BY <1>1, OrderFold!FoldAppend
<1> QED
  BY <1>2, <1>3

LEMMA ClearedCounted ==
    ASSUME NEW marks \in Seq(Marks)
    PROVE  /\ Cleared(marks) \in Seq(Marks)
           /\ Range(Cleared(marks)) \subseteq Range(marks)
           /\ ByHand(Cleared(marks)) = {}
           /\ Cardinality(Orders(Cleared(marks))) = Cardinality(Orders(marks))
<1> DEFINE Counted(s) == /\ Cleared(s) \in Seq(Marks)
                         /\ Range(Cleared(s)) \subseteq Range(s)
                         /\ ByHand(Cleared(s)) = {}
                         /\ Cardinality(Orders(Cleared(s))) = Cardinality(Orders(s))
           P == {s \in Seq(Marks) : Counted(s)}
<1>1. << >> \in P
  <2>1. << >> \in Seq(Marks) /\ DOMAIN << >> = {}
    OBVIOUS
  <2>2. ByHand(<< >>) = {}
    BY <2>1 DEF ByHand
  <2> QED
    BY <2>1, <2>2, ClearedMore
<1>2. ASSUME NEW s \in Seq(Marks) \cap P, NEW x \in Marks
      PROVE  Append(s, x) \in P
  <2> DEFINE old == Cleared(s)
             more == Append(s, x)
             new == Cleared(more)
  <2>1. Counted(s) /\ s \in Seq(Marks)
    OBVIOUS
  <2>2. new = IF x.kind # "manual" THEN Append(old, x) ELSE old
    BY <2>1, ClearedMore DEF KeepOrder
  <2>3. Range(more) = Range(s) \cup {x} /\ more \in Seq(Marks)
    <3>1. /\ more \in Seq(Marks) /\ DOMAIN more = DOMAIN s \cup {Len(s) + 1}
          /\ more[Len(s) + 1] = x /\ \A i \in DOMAIN s : more[i] = s[i]
      OBVIOUS
    <3> QED
      BY <3>1 DEF Range
  <2>4. CASE x.kind = "manual"
    <3>1. Orders(more) = Orders(s)
      BY <2>1, <2>4, OneMoreMark
    <3> QED
      BY <2>1, <2>2, <2>3, <2>4, <3>1
  <2>5. CASE x.kind # "manual"
    <3>1. new = Append(old, x) /\ old \in Seq(Marks)
      BY <2>1, <2>2, <2>5
    <3>2. Range(new) = Range(old) \cup {x} /\ new \in Seq(Marks)
      <4> HIDE DEF new, old
      <4>1. /\ new \in Seq(Marks) /\ DOMAIN new = DOMAIN old \cup {Len(old) + 1}
            /\ new[Len(old) + 1] = x /\ \A i \in DOMAIN old : new[i] = old[i]
        BY <3>1
      <4> QED
        BY <4>1 DEF Range
    <3>3. /\ Cardinality(Orders(more)) = Cardinality(Orders(s)) + 1
          /\ Cardinality(Orders(new)) = Cardinality(Orders(old)) + 1
          /\ ByHand(new) = ByHand(old)
      <4> HIDE DEF new, old
      <4> QED
        BY <2>1, <2>5, <3>1, OneMoreMark
    <3> QED
      BY <2>1, <2>3, <3>2, <3>3
  <2> QED
    BY <2>4, <2>5
<1> HIDE DEF P
<1>3. Seq(Marks) \subseteq P
  BY <1>1, <1>2, OrderFold!SequenceInduction
<1> QED
  BY <1>3 DEF P

LEMMA ClearedIsMarks ==
    ASSUME NEW marks, IsMarks(marks)
    PROVE  IsMarks(Cleared(marks)) /\ Range(Cleared(marks)) \subseteq Range(marks)
<1>1. Cardinality(ByHand(Cleared(marks))) = 0
  BY ClearedCounted, FS_EmptySet DEF IsMarks
<1> QED
  BY <1>1, ClearedCounted, ChartAssumption DEF IsMarks

\* The trades of a window: orders at times of its bars, as many as the bot
\* has times to trade at.
LEMMA TradesMore ==
    /\ TradesIn(<< >>) = << >>
    /\ \A s \in Seq(Nat) : \A t \in Nat :
        TradesIn(Append(s, t)) = KeepTrade(TradesIn(s), t)
<1>1. \A q : TradesIn(q) = TradeFold!Fold(<< >>, q)
  BY DEF TradesIn, TradeFold!Fold, FoldLeft,
         TradeFold!MapThenFoldSet, MapThenFoldSet, TradeFold!Greatest, Max
<1>2. TradesIn(<< >>) = << >>
  BY <1>1, TradeFold!FoldEmpty
<1>3. ASSUME NEW s \in Seq(Nat), NEW t \in Nat
      PROVE  TradesIn(Append(s, t)) = KeepTrade(TradesIn(s), t)
  BY <1>1, TradeFold!FoldAppend
<1> QED
  BY <1>2, <1>3

\* A sequence of times that rises, if it does, gives trades that do.
Rises(s) == \A i, j \in 1..Len(s) : i < j => s[i] < s[j]

\* The trades of a window stand at its bars, one a bar at most.
TradesTell(s) ==
    LET marks == TradesIn(s)
    IN  /\ marks \in Seq(Marks)
        /\ \A i \in 1..Len(marks) : /\ marks[i].kind = "order"
                                     /\ marks[i].time \in SignalTimes
                                     /\ marks[i].time \in Range(s)
        /\ Rises(s) => \A i, j \in 1..Len(marks) :
                            i < j => marks[i].time < marks[j].time

LEMMA TradesOfTimes ==
    ASSUME NEW times \in Seq(Nat)
    PROVE  TradesTell(times)
<1> DEFINE P == {s \in Seq(Nat) : TradesTell(s)}
<1>1. << >> \in P
  <2>1. << >> \in Seq(Nat) /\ << >> \in Seq(Marks) /\ Len(<< >>) = 0
    OBVIOUS
  <2>2. \A i \in 1..Len(<< >>) : FALSE
    BY <2>1
  <2>3. TradesTell(<< >>)
    BY <2>1, <2>2, TradesMore DEF TradesTell
  <2> QED
    BY <2>1, <2>3
<1>2. ASSUME NEW s \in Seq(Nat) \cap P, NEW t \in Nat
      PROVE  Append(s, t) \in P
  <2> DEFINE old == TradesIn(s)
             more == Append(s, t)
             new == TradesIn(more)
             x == Marker("order", t)
  <2>1. /\ s \in Seq(Nat) /\ old \in Seq(Marks)
        /\ \A i \in 1..Len(old) : /\ old[i].kind = "order"
                                   /\ old[i].time \in SignalTimes
                                   /\ old[i].time \in Range(s)
        /\ Rises(s) => \A i, j \in 1..Len(old) :
                            i < j => old[i].time < old[j].time
    BY DEF TradesTell
  <2>2. new = IF t \in SignalTimes THEN Append(old, x) ELSE old
    BY <2>1, TradesMore DEF KeepTrade
  <2>3. /\ more \in Seq(Nat) /\ Len(more) = Len(s) + 1 /\ Len(s) \in Nat
        /\ more[Len(s) + 1] = t /\ \A i \in 1..Len(s) : more[i] = s[i]
        /\ DOMAIN s = 1..Len(s) /\ DOMAIN more = 1..(Len(s) + 1)
    BY <2>1
  <2>4. x \in Marks /\ x.kind = "order" /\ x.time = t
    BY DEF Marker, Marks
  <2> HIDE DEF more, x
  <2>5. Range(s) \subseteq Range(more) /\ t \in Range(more)
    <3>1. \A i \in 1..Len(s) : i \in DOMAIN more /\ s[i] = more[i]
      BY <2>3
    <3>2. Len(s) + 1 \in DOMAIN more
      BY <2>3
    <3> QED
      BY <2>3, <3>1, <3>2 DEF Range
  <2>6. ASSUME Rises(more)
        PROVE  Rises(s) /\ \A u \in Range(s) : u < t
    <3>1. Rises(s)
      BY <2>3, <2>6 DEF Rises
    <3>2. ASSUME NEW i \in 1..Len(s)
          PROVE  s[i] < t
      BY <2>3, <2>6 DEF Rises
    <3> QED
      BY <2>3, <3>1, <3>2 DEF Range
  <2> HIDE DEF new, old
  <2>7. CASE t \notin SignalTimes
    <3>1. new = old
      BY <2>2, <2>7
    <3>2. TradesTell(more)
      BY <2>1, <2>5, <2>6, <3>1 DEF TradesTell, new
    <3> QED
      BY <2>3, <3>2 DEF more
  <2>8. CASE t \in SignalTimes
    <3>1. new = Append(old, x)
      BY <2>2, <2>8
    <3>2. /\ new \in Seq(Marks) /\ Len(new) = Len(old) + 1 /\ Len(old) \in Nat
          /\ new[Len(old) + 1] = x /\ \A i \in 1..Len(old) : new[i] = old[i]
      BY <2>1, <2>4, <3>1
    <3>3. ASSUME NEW i \in 1..Len(new)
          PROVE  /\ new[i].kind = "order" /\ new[i].time \in SignalTimes
                 /\ new[i].time \in Range(more)
      <4>1. CASE i = Len(old) + 1
        BY <2>4, <2>5, <2>8, <3>2, <4>1
      <4>2. CASE i # Len(old) + 1
        <5>1. i \in 1..Len(old) /\ new[i] = old[i]
          BY <3>2, <4>2
        <5> QED
          BY <2>1, <2>5, <5>1
      <4> QED
        BY <4>1, <4>2
    <3>4. ASSUME Rises(more), NEW i \in 1..Len(new), NEW j \in 1..Len(new), i < j
          PROVE  new[i].time < new[j].time
      <4>1. i \in 1..Len(old) /\ new[i] = old[i]
        BY <3>2, <3>4
      <4>2. CASE j = Len(old) + 1
        <5>1. new[j].time = t /\ old[i].time \in Range(s)
          BY <2>1, <2>4, <3>2, <4>1, <4>2
        <5> QED
          BY <2>6, <3>4, <4>1, <5>1
      <4>3. CASE j # Len(old) + 1
        <5>1. j \in 1..Len(old) /\ new[j] = old[j]
          BY <3>2, <4>3
        <5> QED
          BY <2>1, <2>6, <3>4, <4>1, <5>1
      <4> QED
        BY <4>2, <4>3
    <3>5. TradesTell(more)
      BY <3>2, <3>3, <3>4 DEF TradesTell, new
    <3> QED
      BY <2>3, <3>5 DEF more
  <2> QED
    BY <2>7, <2>8
<1> HIDE DEF P
<1>3. Seq(Nat) \subseteq P
  BY <1>1, <1>2, TradeFold!SequenceInduction
<1> QED
  BY <1>3 DEF P

LEMMA TradesAreMarks ==
    ASSUME NEW bars, IsBars(bars)
    PROVE  /\ IsMarks(TradesIn(bars))
           /\ \A x \in Range(TradesIn(bars)) : x.time \in Range(bars)
<1> DEFINE marks == TradesIn(bars)
           f == [i \in 1..Len(marks) |-> marks[i].time]
<1>1. /\ marks \in Seq(Marks) /\ DOMAIN marks = 1..Len(marks) /\ Len(marks) \in Nat
      /\ \A i \in 1..Len(marks) : /\ marks[i].kind = "order"
                                   /\ marks[i].time \in SignalTimes
                                   /\ marks[i].time \in Range(bars)
      /\ \A i, j \in 1..Len(marks) : i < j => marks[i].time < marks[j].time
  BY TradesOfTimes DEF TradesTell, IsBars, Rises
<1> HIDE DEF marks
<1>2. \A i, j \in 1..Len(marks) : f[i] = f[j] => i = j
  <2>1. \A i \in 1..Len(marks) : marks[i].time \in Nat
    <3>1. \A i \in 1..Len(marks) : marks[i] \in Marks
      BY <1>1
    <3> QED
      BY <3>1 DEF Marks
  <2>2. \A i, j \in 1..Len(marks) : i < j \/ j < i \/ i = j
    BY <1>1
  <2> QED
    BY <1>1, <2>1, <2>2
<1>3. f \in Injection(1..Len(marks), SignalTimes)
  BY <1>1, <1>2 DEF Injection, IsInjective
<1> HIDE DEF f
<1>4. Cardinality(1..Len(marks)) <= Cardinality(SignalTimes)
  BY <1>3, ChartAssumption, FS_Injection
<1>5. Cardinality(1..Len(marks)) = Len(marks)
  <2>1. 1 \in Int /\ Len(marks) \in Int
    BY <1>1
  <2>2. Cardinality(1..Len(marks)) = IF 1 > Len(marks) THEN 0 ELSE Len(marks) - 1 + 1
    BY <2>1, FS_Interval
  <2> QED
    BY <1>1, <2>2
<1>6. Cardinality(Orders(marks)) \in Nat /\ Cardinality(Orders(marks)) <= Len(marks)
  BY <1>1, KindsCounted
<1>7. ByHand(marks) = {}
  BY <1>1 DEF ByHand
<1>8. Cardinality(ByHand(marks)) <= MaxClicks
  BY <1>7, FS_EmptySet, ChartAssumption
<1>9. Cardinality(Orders(marks)) <= MaxOrders
  BY <1>1, <1>4, <1>5, <1>6, MaxOrdersTyped
<1>10. \A x \in Range(marks) : x.time \in Range(bars)
  BY <1>1 DEF Range
<1> QED
  BY <1>1, <1>8, <1>9, <1>10 DEF IsMarks, marks

-----------------------------------------------------------------------------
(* Drawing. *)

\* What the chart library is given has candles at times.
IsDrawing(d) ==
    /\ d = [candles |-> d.candles, markers |-> d.markers, equity |-> d.equity]
    /\ DOMAIN d.candles \subseteq Nat

\* Orders stand at bars.
OnBars(marks, bars) ==
    \A x \in Range(marks) : x.kind # "manual" => x.time \in Range(bars)

LEMMA BucketTyped ==
    ASSUME NEW t \in Nat, NEW tf \in Timeframes
    PROVE  BucketTime(t, tf) \in Nat
<1>1. tf \in Nat \ {0} /\ Minute \in Nat \ {0}
  BY ChartAssumption
<1>2. PICK k : k = tf * Minute
  OBVIOUS
<1>3. k \in Nat \ {0}
  <2>1. \A x, y \in Nat \ {0} : x * y \in Nat \ {0}
    OBVIOUS
  <2> QED
    BY <1>1, <1>2, <2>1
<1>4. (t \div k) \in Nat
  BY <1>3
<1>5. (t \div k) * k \in Nat
  BY <1>3, <1>4
<1> QED
  BY <1>2, <1>5 DEF BucketTime

LEMMA RevealedRange ==
    ASSUME NEW bars, IsBars(bars), NEW m \in BOOLEAN, NEW cur \in Int, cur >= -1
    PROVE  /\ Range(Revealed(m, bars, cur)) \subseteq Range(bars)
           /\ Range(bars) \subseteq Nat
<1>1. bars \in Seq(Nat) /\ DOMAIN bars = 1..Len(bars)
  BY DEF IsBars
<1>2. Range(bars) \subseteq Nat
  BY <1>1 DEF Range
<1>3. CASE m = FALSE
  BY <1>1, <1>2, <1>3, RevealedItems
<1>4. CASE m = TRUE
  <2>1. PICK shown : shown = Revealed(TRUE, bars, cur)
    OBVIOUS
  <2>2. /\ shown \in Seq(Nat) /\ Len(shown) <= Len(bars)
        /\ \A i \in 1..Len(shown) : shown[i] = bars[i]
    <3>1. /\ shown \in Seq(Nat)
          /\ Len(shown) = IF cur + 1 <= Len(bars) THEN cur + 1 ELSE Len(bars)
          /\ \A i \in 1..Len(shown) : shown[i] = bars[i]
      BY <1>1, <2>1, RevealedItems
    <3>2. Len(bars) \in Nat
      BY <1>1
    <3> QED
      BY <3>1, <3>2
  <2>3. DOMAIN shown = 1..Len(shown) /\ Len(shown) \in Nat /\ Len(bars) \in Nat
    BY <1>1, <2>2
  <2>4. \A i \in DOMAIN shown : i \in DOMAIN bars /\ shown[i] = bars[i]
    BY <1>1, <2>2, <2>3
  <2>5. Range(shown) \subseteq Range(bars)
    BY <2>4 DEF Range
  <2> QED
    BY <1>2, <1>4, <2>1, <2>5
<1> QED
  BY <1>3, <1>4

LEMMA DrawingTyped ==
    ASSUME NEW bars, IsBars(bars), NEW m \in BOOLEAN, NEW cur \in Int, cur >= -1,
           NEW marks, NEW eq, NEW shown, NEW tf \in Timeframes
    PROVE  IsDrawing(Drawing(m, bars, marks, eq, shown, cur, tf))
<1>1. DOMAIN Candles(Revealed(m, bars, cur), tf) =
        {BucketTime(t, tf) : t \in Range(Revealed(m, bars, cur))}
  BY DEF Candles
<1>2. Range(Revealed(m, bars, cur)) \subseteq Nat
  BY RevealedRange
<1>3. DOMAIN Candles(Revealed(m, bars, cur), tf) \subseteq Nat
  BY <1>1, <1>2, BucketTyped
<1> QED
  BY <1>3 DEF IsDrawing, Drawing

\* Orders that stand at bars are drawn at candles.
LEMMA OrdersOnCandles ==
    ASSUME NEW bars, IsBars(bars), NEW m \in BOOLEAN, NEW cur \in Int, cur >= -1,
           ~Throws(m, cur), NEW tf, NEW marks \in Seq(Marks), OnBars(marks, bars),
           NEW x \in Markers(m, bars, marks, cur, tf), x.kind # "manual"
    PROVE  x.time \in DOMAIN Candles(Revealed(m, bars, cur), tf)
<1>1. PICK y \in Range(marks) :
        /\ x = Marker(y.kind, BucketTime(y.time, tf))
        /\ m /\ cur < Len(bars) => y.time <= bars[cur + 1]
  BY DEF Markers
<1>2. y.kind # "manual" /\ x.time = BucketTime(y.time, tf)
  BY <1>1 DEF Marker
<1>3. y.time \in Range(bars)
  BY <1>2 DEF OnBars
<1>4. bars \in Seq(Nat) /\ DOMAIN bars = 1..Len(bars) /\ Len(bars) \in Nat
  BY DEF IsBars
<1>5. PICK i \in 1..Len(bars) : y.time = bars[i]
  BY <1>3, <1>4 DEF Range
<1>6. y.time \in Range(Revealed(m, bars, cur))
  <2>1. CASE m = FALSE
    BY <1>3, <1>4, <2>1, RevealedItems
  <2>2. CASE m = TRUE
    <3>1. cur >= 0
      BY <2>2 DEF Throws
    <3>2. PICK shown : shown = Revealed(TRUE, bars, cur)
      OBVIOUS
    <3>3. /\ shown \in Seq(Nat)
          /\ Len(shown) = IF cur + 1 <= Len(bars) THEN cur + 1 ELSE Len(bars)
          /\ \A j \in 1..Len(shown) : shown[j] = bars[j]
      BY <1>4, <3>2, RevealedItems
    <3>4. i <= Len(shown)
      <4>1. CASE cur < Len(bars)
        <5>1. bars[i] <= bars[cur + 1] /\ cur + 1 \in 1..Len(bars)
          BY <1>1, <1>4, <1>5, <2>2, <3>1, <4>1
        <5>2. bars[i] \in Nat /\ bars[cur + 1] \in Nat
          BY <1>4, <5>1
        <5>3. ~(cur + 1 < i)
          BY <5>1, <5>2 DEF IsBars
        <5>4. Len(shown) = cur + 1
          BY <1>4, <3>3, <4>1
        <5> QED
          BY <5>3, <5>4
      <4>2. CASE ~(cur < Len(bars))
        <5>1. Len(shown) = Len(bars)
          <6>1. ~(cur + 1 <= Len(bars))
            BY <1>4, <4>2
          <6> QED
            BY <3>3, <6>1
        <5> QED
          BY <5>1
      <4> QED
        BY <4>1, <4>2
    <3>5. i \in DOMAIN shown /\ shown[i] = y.time
      <4>1. Len(shown) \in Nat /\ DOMAIN shown = 1..Len(shown)
        BY <3>3
      <4>2. i \in 1..Len(shown)
        BY <3>4, <4>1
      <4> QED
        BY <1>5, <3>3, <4>1, <4>2
    <3> QED
      BY <2>2, <3>2, <3>5 DEF Range
  <2> QED
    BY <2>1, <2>2
<1> QED
  BY <1>2, <1>6 DEF Candles

-----------------------------------------------------------------------------
(* The inductive invariant. *)

\* Values the page can hold.
Typed ==
    /\ backtest \in BOOLEAN /\ pane \in BOOLEAN
    /\ playing \in BOOLEAN /\ failed \in BOOLEAN
    /\ status \in Status /\ asked \in Ranges /\ timeframe \in Timeframes
    /\ sockets \in [Sockets -> [state: SocketStates, got: 0..Len(Feed)]]
    /\ live \in {0} \cup Sockets
    /\ cursor \in -1..Len(Feed) /\ barCount \in 0..Len(Feed)
    /\ IsBars(base) /\ IsMarks(raw) /\ IsDrawing(drawn)

\* A fetch: of a range, cancelled or not.
Requests == [range: Ranges, cancelled: BOOLEAN]

\* What the page waits for is of the mode it is in: the one socket that can
\* still open or send is the live one, and a fetch that was not cancelled is
\* the one last asked for.
Connections ==
    /\ \A s \in Sockets : sockets[s].state \in {"connecting", "open"} <=> s = live
    /\ backtest => live = 0
    /\ pane => backtest
    /\ fetches \subseteq Requests /\ IsFiniteSet(fetches)
    /\ \A f \in fetches : ~f.cancelled => backtest /\ f.range = asked
    /\ LiveMeansOpen

\* What the page holds is what that source has sent.
Sources ==
    /\ FollowsOneFeed
    /\ Loaded => /\ base = Window(asked) /\ equity = base
                 /\ pane = (base # << >>) /\ barCount = Len(base)
                 /\ cursor < 0 => failed /\ base = << >>

\* What the chart shows is what the page holds.
Pictures ==
    Loaded \/ Following =>
        /\ drawn.candles = Candles(Revealed(backtest, base, cursor), timeframe)
        /\ drawn.equity = IF Loaded THEN Revealed(backtest, base, cursor)
                          ELSE << >>
        /\ \A x \in drawn.markers :
                x.kind # "manual" => x.time \in DOMAIN drawn.candles
        /\ OnBars(raw, base)

Sound == Typed /\ Connections /\ Sources /\ Pictures

LEMMA SoundInit == Init => Sound
<1> SUFFICES ASSUME Init
             PROVE  Sound
  OBVIOUS
<1>1. 1 \in Sockets /\ 0 \notin Sockets /\ 0 \in 0..Len(Feed)
  BY FeedTyped, ChartAssumption DEF Sockets
<1>2. IsDrawing(drawn)
  BY DEF Init, IsDrawing
<1>3. Typed
  <2>1. sockets \in [Sockets -> [state: SocketStates, got: 0..Len(Feed)]]
    BY <1>1 DEF Init, SocketStates, Unused
  <2>2. cursor \in -1..Len(Feed) /\ barCount \in 0..Len(Feed)
    BY FeedTyped DEF Init
  <2>3. IsBars(base) /\ IsMarks(raw)
    BY NoBarsAreBars, NoMarksAreMarks DEF Init
  <2> QED
    BY <1>1, <1>2, <2>1, <2>2, <2>3, ChartAssumption DEF Typed, Init, Status
<1>4. Connections
  <2>1. \A s \in Sockets : sockets[s].state \in {"connecting", "open"} <=> s = live
    BY <1>1 DEF Init, Unused
  <2> QED
    BY <2>1, FS_EmptySet DEF Init, Connections, LiveMeansOpen
<1>5. ~Loaded /\ ~Following
  BY <1>1 DEF Init, Loaded, Following
<1> QED
  BY <1>3, <1>4, <1>5 DEF Sound, Sources, Pictures, FollowsOneFeed

\* An effect that redraws.
LEMMA Redrawn ==
    ASSUME RedrawEffect, IsDrawing(drawn),
           IsBars(base'), IsMarks(raw'), backtest' \in BOOLEAN,
           cursor' \in -1..Len(Feed), timeframe' \in Timeframes,
           Connections', Sources',
           (Loaded \/ Following)' => OnBars(raw', base'),
           Throws(backtest', cursor') => Pictures'
    PROVE  IsDrawing(drawn') /\ failed' \in BOOLEAN /\ Pictures'
<1>1. failed' \in BOOLEAN
  BY DEF RedrawEffect, Throws
<1>2. cursor' \in Int /\ cursor' >= -1
  BY FeedTyped
<1>3. CASE Throws(backtest', cursor')
  BY <1>1, <1>3 DEF RedrawEffect
<1>4. CASE ~Throws(backtest', cursor')
  <2> DEFINE d == Drawing(backtest', base', raw', equity', pane', cursor', timeframe')
  <2>1. drawn' = d
    BY <1>4 DEF RedrawEffect
  <2>2. IsDrawing(d)
    BY <1>2, DrawingTyped
  <2>3. /\ d.candles = Candles(Revealed(backtest', base', cursor'), timeframe')
        /\ d.markers = Markers(backtest', base', raw', cursor', timeframe')
        /\ d.equity = IF pane' THEN Revealed(backtest', equity', cursor') ELSE << >>
    BY DEF Drawing
  <2> HIDE DEF d
  <2>4. ASSUME (Loaded \/ Following)'
        PROVE  d.equity = IF Loaded' THEN Revealed(backtest', base', cursor') ELSE << >>
    <3>1. CASE Loaded'
      <4>1. equity' = base' /\ pane' = (base' # << >>)
        BY <3>1 DEF Sources
      <4>2. Revealed(backtest', << >>, cursor') = << >>
        BY <1>2, RevealedOfNone
      <4> QED
        BY <2>3, <3>1, <4>1, <4>2
    <3>2. CASE ~Loaded'
      <4>1. ~backtest'
        BY <2>4, <3>2 DEF Following
      <4>2. ~pane'
        BY <4>1 DEF Connections
      <4> QED
        BY <2>3, <3>2, <4>2
    <3> QED
      BY <3>1, <3>2
  <2>5. ASSUME (Loaded \/ Following)', NEW x \in d.markers, x.kind # "manual"
        PROVE  x.time \in DOMAIN d.candles
    <3>1. OnBars(raw', base') /\ raw' \in Seq(Marks)
      BY <2>5 DEF IsMarks
    <3> QED
      BY <1>2, <1>4, <2>3, <2>5, <3>1, OrdersOnCandles
  <2> QED
    BY <1>1, <2>1, <2>2, <2>3, <2>4, <2>5 DEF Pictures
<1> QED
  BY <1>3, <1>4

\* A callback that draws the markers only.
LEMMA Remarked ==
    ASSUME Typed, Connections, Pictures, MarkersAgain, IsMarks(raw'),
           UNCHANGED <<backtest, status, sockets, live, base, cursor, timeframe>>,
           Loaded \/ Following => OnBars(raw', base)
    PROVE  IsDrawing(drawn') /\ Pictures'
<1>1. (Loaded' <=> Loaded) /\ (Following' <=> Following)
  BY DEF Loaded, Following
<1>2. cursor \in Int /\ cursor >= -1 /\ backtest \in BOOLEAN /\ IsBars(base)
  BY FeedTyped DEF Typed
<1>3. CASE Throws(backtest, cursor)
  <2>1. drawn' = drawn
    BY <1>3 DEF MarkersAgain
  <2> QED
    BY <1>1, <2>1 DEF Pictures, Typed
<1>4. CASE ~Throws(backtest, cursor)
  <2>1. drawn' = [drawn EXCEPT !.markers = Markers(backtest, base, raw', cursor, timeframe)]
    BY <1>4 DEF MarkersAgain
  <2>2. IsDrawing(drawn)
    BY DEF Typed
  <2>3. /\ drawn'.candles = drawn.candles /\ drawn'.equity = drawn.equity
        /\ drawn'.markers = Markers(backtest, base, raw', cursor, timeframe)
        /\ IsDrawing(drawn')
    BY <2>1, <2>2 DEF IsDrawing
  <2>4. ASSUME Loaded \/ Following, NEW x \in drawn'.markers, x.kind # "manual"
        PROVE  x.time \in DOMAIN drawn'.candles
    <3>1. OnBars(raw', base) /\ raw' \in Seq(Marks)
      BY <2>4 DEF IsMarks
    <3>2. drawn'.candles = Candles(Revealed(backtest, base, cursor), timeframe)
      BY <2>3, <2>4 DEF Pictures
    <3> QED
      BY <1>2, <1>4, <2>3, <2>4, <3>1, <3>2, OrdersOnCandles
  <2> QED
    BY <1>1, <2>3, <2>4 DEF Pictures
<1> QED
  BY <1>3, <1>4

-----------------------------------------------------------------------------
(* The modes. *)

LEMMA FreeSocket ==
    ASSUME Typed, Connections, Room
    PROVE  /\ Min(FreeSockets) \in FreeSockets
           /\ FreeSockets \subseteq Sockets /\ 0 \notin Sockets
<1>1. FreeSockets \subseteq Nat /\ FreeSockets \subseteq Sockets /\ 0 \notin Sockets
  BY ChartAssumption DEF FreeSockets, Sockets
<1>2. FreeSockets # {}
  <2> SUFFICES ASSUME FreeSockets = {}
               PROVE  FALSE
    OBVIOUS
  <2>1. Cardinality(FreeSockets) = 0
    BY FS_EmptySet
  <2>2. Cardinality(fetches) \in Nat
    BY FS_CardinalityType DEF Connections
  <2> QED
    BY <2>1, <2>2 DEF Room
<1> QED
  BY <1>1, <1>2, MinOfFree

LEMMA CancelledTyped ==
    ASSUME Connections
    PROVE  /\ Cancelled \subseteq Requests /\ IsFiniteSet(Cancelled)
           /\ \A f \in Cancelled : f.cancelled
<1> DEFINE c == [f \in fetches |-> [f EXCEPT !.cancelled = TRUE]]
<1>1. ASSUME NEW f \in fetches
      PROVE  [f EXCEPT !.cancelled = TRUE] \in Requests /\ [f EXCEPT !.cancelled = TRUE].cancelled
  <2>1. f \in Requests
    BY DEF Connections
  <2> QED
    BY <2>1 DEF Requests
<1>2. c \in Surjection(fetches, Cancelled)
  BY DEF Surjection, Cancelled
<1>3. IsFiniteSet(Cancelled)
  BY <1>2, FS_Surjection DEF Connections
<1> QED
  BY <1>1, <1>3 DEF Cancelled

LEMMA EnterLiveKeeps ==
    ASSUME Sound, EnterLive
    PROVE  Sound'
<1>1. Typed /\ Connections /\ Sources
  BY DEF Sound
<1>2. /\ live' \in FreeSockets /\ FreeSockets \subseteq Sockets /\ 0 \notin Sockets
  BY <1>1, FreeSocket DEF EnterLive
<1>3. sockets' = [sockets EXCEPT ![live'] = [state |-> "connecting", got |-> 0]]
  BY DEF EnterLive
<1>4. /\ sockets' \in [Sockets -> [state: SocketStates, got: 0..Len(Feed)]]
      /\ sockets'[live'] = [state |-> "connecting", got |-> 0]
      /\ \A s \in Sockets \ {live'} : sockets'[s] = sockets[s]
  <2>1. [state |-> "connecting", got |-> 0] \in [state: SocketStates, got: 0..Len(Feed)]
    BY FeedTyped DEF SocketStates
  <2> QED
    BY <1>1, <1>2, <1>3, <2>1 DEF Typed
<1>5. IsDrawing(drawn')
  <2>1. drawn' = [drawn EXCEPT !.equity = << >>] /\ IsDrawing(drawn)
    BY <1>1 DEF EnterLive, Typed
  <2> QED
    BY <2>1 DEF IsDrawing
<1>6. Typed'
  BY <1>1, <1>2, <1>4, <1>5 DEF EnterLive, Typed, Status
<1>7. Connections'
  <2>1. live = 0
    BY <1>1 DEF EnterLive, Connections
  <2>2. \A s \in Sockets : sockets'[s].state \in {"connecting", "open"} <=> s = live'
    BY <1>1, <1>2, <1>4, <2>1 DEF Connections
  <2>3. fetches' = Cancelled /\ ~pane' /\ ~backtest' /\ status' = "connecting"
    BY DEF EnterLive
  <2> QED
    BY <1>1, <2>2, <2>3, CancelledTyped DEF Connections, LiveMeansOpen
<1>8. ~Loaded' /\ ~Following'
  BY <1>4 DEF EnterLive, Loaded, Following
<1> QED
  BY <1>6, <1>7, <1>8 DEF Sound, Sources, Pictures, FollowsOneFeed

LEMMA SocketsLeftTyped ==
    ASSUME Typed, Connections
    PROVE  /\ SocketsLeft \in [Sockets -> [state: SocketStates, got: 0..Len(Feed)]]
           /\ \A s \in Sockets : SocketsLeft[s].state \notin {"connecting", "open"}
<1>1. CASE live = 0
  <2>1. 0 \notin Sockets
    BY DEF Sockets
  <2> QED
    BY <1>1, <2>1 DEF SocketsLeft, Typed, Connections
<1>2. CASE live # 0
  <2> DEFINE row == sockets[live]
             left == [row EXCEPT !.state = IF row.state = "open" THEN "closing"
                                           ELSE "failing"]
  <2>1. live \in Sockets /\ row \in [state: SocketStates, got: 0..Len(Feed)]
    BY <1>2 DEF Typed
  <2>2. row.state \in {"connecting", "open"}
    BY <2>1 DEF Connections
  <2>3. SocketsLeft = [sockets EXCEPT ![live] = left]
    BY <1>2, <2>1, <2>2 DEF SocketsLeft, Typed
  <2>4. /\ left \in [state: SocketStates, got: 0..Len(Feed)]
        /\ left.state \notin {"connecting", "open"}
    BY <2>1 DEF SocketStates
  <2> HIDE DEF left
  <2> QED
    BY <2>1, <2>3, <2>4 DEF Typed, Connections
<1> QED
  BY <1>1, <1>2

LEMMA EnterBacktestKeeps ==
    ASSUME Sound, EnterBacktest
    PROVE  Sound'
<1>1. Typed /\ Connections
  BY DEF Sound
<1>2. sockets' = SocketsLeft /\ live' = 0 /\ backtest' = TRUE /\ status' = "connecting"
  BY DEF EnterBacktest
<1>3. Typed'
  BY <1>1, <1>2, SocketsLeftTyped DEF EnterBacktest, Typed, Status
<1>4. Connections'
  <2> DEFINE f == [range |-> asked, cancelled |-> FALSE]
  <2>1. f \in Requests
    BY <1>1 DEF Typed, Requests
  <2>2. fetches' = fetches \cup {f} /\ asked' = asked
    BY DEF EnterBacktest
  <2>3. IsFiniteSet(fetches')
    BY <1>1, <2>2, FS_AddElement DEF Connections
  <2>4. \A s \in Sockets : sockets'[s].state \in {"connecting", "open"} <=> s = live'
    <3>1. 0 \notin Sockets
      BY DEF Sockets
    <3> QED
      BY <1>1, <1>2, <3>1, SocketsLeftTyped
  <2>5. \A g \in fetches' : ~g.cancelled => backtest' /\ g.range = asked'
    BY <1>1, <1>2, <2>2 DEF Connections
  <2> QED
    BY <1>1, <1>2, <2>1, <2>2, <2>3, <2>4, <2>5 DEF Connections, LiveMeansOpen
<1>5. ~Loaded' /\ ~Following'
  BY <1>2 DEF Loaded, Following
<1> QED
  BY <1>3, <1>4, <1>5 DEF Sound, Sources, Pictures, FollowsOneFeed

LEMMA ChooseRangeKeeps ==
    ASSUME Sound, NEW r \in Ranges, ChooseRange(r)
    PROVE  Sound'
<1>1. Typed /\ Connections
  BY DEF Sound
<1>2. status' = "connecting" /\ asked' = r /\ backtest
  BY DEF ChooseRange
<1>3. Typed'
  BY <1>1, <1>2 DEF ChooseRange, Typed, Status
<1>4. Connections'
  <2> DEFINE f == [range |-> r, cancelled |-> FALSE]
  <2>1. f \in Requests
    BY DEF Requests
  <2>2. fetches' = Cancelled \cup {f}
    BY DEF ChooseRange
  <2>3. IsFiniteSet(fetches')
    BY <1>1, <2>2, CancelledTyped, FS_AddElement
  <2>4. \A g \in fetches' : ~g.cancelled => backtest' /\ g.range = asked'
    BY <1>1, <1>2, <2>2, CancelledTyped DEF ChooseRange
  <2>5. UNCHANGED <<sockets, live, pane, backtest>>
    BY DEF ChooseRange
  <2> QED
    BY <1>1, <1>2, <2>1, <2>2, <2>3, <2>4, <2>5, CancelledTyped DEF Connections, LiveMeansOpen
<1>5. ~Loaded' /\ ~Following'
  <2>1. live = 0 /\ live' = live
    BY <1>1, <1>2 DEF ChooseRange, Connections
  <2> QED
    BY <1>2, <2>1 DEF Loaded, Following
<1> QED
  BY <1>3, <1>4, <1>5 DEF Sound, Sources, Pictures, FollowsOneFeed

-----------------------------------------------------------------------------
(* The callbacks of a fetch. *)

LEMMA FetchLeft ==
    ASSUME Connections, NEW f \in fetches, fetches' = fetches \ {f},
           UNCHANGED <<backtest, sockets, live, asked>>,
           pane' => backtest', status' = "live" => status = "live"
    PROVE  Connections'
<1>1. IsFiniteSet(fetches')
  BY FS_RemoveElement DEF Connections
<1> QED
  BY <1>1 DEF Connections, LiveMeansOpen

LEMMA FetchAnsweredKeeps ==
    ASSUME Sound, ~failed, NEW f, FetchAnswered(f)
    PROVE  Sound'
<1>1. Typed /\ Connections /\ Sources /\ Pictures
  BY DEF Sound
<1>2. f \in fetches /\ fetches' = fetches \ {f} /\ f \in Requests
  BY <1>1 DEF FetchAnswered, Connections
<1>3. UNCHANGED <<backtest, sockets, live, asked, timeframe>>
  BY DEF FetchAnswered
<1>4. CASE f.cancelled
  <2>1. UNCHANGED <<base, raw, equity, pane, barCount, cursor, playing, status,
                    drawn, failed>>
    BY <1>4 DEF FetchAnswered, Applies
  <2>2. Typed'
    BY <1>1, <1>3, <2>1 DEF Typed
  <2>3. Connections'
    BY <1>1, <1>2, <1>3, <2>1, FetchLeft DEF Connections
  <2>4. (Loaded' <=> Loaded) /\ (Following' <=> Following)
    BY <1>3, <2>1 DEF Loaded, Following
  <2> QED
    BY <1>1, <1>3, <2>1, <2>2, <2>3, <2>4
       DEF Sound, Sources, Pictures, FollowsOneFeed
<1>5. CASE ~f.cancelled
  <2> DEFINE bars == Window(f.range)
             last == Max({0, Len(bars) - 1})
  <2>1. /\ base' = bars /\ raw' = TradesIn(bars)
        /\ equity' = bars /\ pane' = (bars # << >> /\ backtest)
        /\ barCount' = Len(bars) /\ cursor' = last
        /\ playing' = FALSE /\ status' = "backtest"
        /\ RedrawEffect
    BY <1>5 DEF FetchAnswered, Applies
  <2>2. backtest = TRUE /\ f.range = asked
    BY <1>1, <1>2, <1>5 DEF Connections, Typed
  <2>3. IsBars(bars)
    BY WindowIsBars
  <2> HIDE DEF bars
  <2>4. Len(bars) \in 0..Len(Feed) /\ last \in 0..Len(Feed)
    <3>1. Len(bars) \in Nat /\ Len(bars) <= Len(Feed)
      BY <2>3 DEF IsBars
    <3>2. last = IF 0 >= Len(bars) - 1 THEN 0 ELSE Len(bars) - 1
      BY <3>1, MaxOfTwo
    <3> HIDE DEF last
    <3> QED
      BY <3>1, <3>2, FeedTyped
  <2> HIDE DEF last
  <2>5. IsBars(base') /\ IsMarks(raw') /\ OnBars(raw', base')
    BY <2>1, <2>3, TradesAreMarks DEF OnBars
  <2>6. Connections'
    BY <1>1, <1>2, <1>3, <2>1, FetchLeft
  <2>7. Sources'
    <3>1. ~Following'
      BY <1>3, <2>2 DEF Following
    <3>2. base' = Window(asked') /\ equity' = base' /\ barCount' = Len(base')
      BY <1>3, <2>1, <2>2 DEF bars
    <3>3. pane' = (base' # << >>)
      BY <2>1, <2>2
    <3>4. ~(cursor' < 0)
      BY <2>1, <2>4, FeedTyped
    <3> QED
      BY <3>1, <3>2, <3>3, <3>4 DEF Sources, FollowsOneFeed
  <2>8. cursor' \in -1..Len(Feed) /\ ~Throws(backtest', cursor')
    BY <2>1, <2>4, FeedTyped DEF Throws
  <2>9. backtest' \in BOOLEAN /\ timeframe' \in Timeframes /\ IsDrawing(drawn)
    BY <1>1, <1>3 DEF Typed
  <2>10. IsDrawing(drawn') /\ failed' \in BOOLEAN /\ Pictures'
    BY <2>1, <2>5, <2>6, <2>7, <2>8, <2>9, Redrawn
  <2>11. Typed'
    BY <1>1, <1>3, <2>1, <2>2, <2>4, <2>5, <2>8, <2>10 DEF Typed, Status
  <2> QED
    BY <2>6, <2>7, <2>10, <2>11 DEF Sound
<1>6. f.cancelled \in BOOLEAN
  BY <1>2 DEF Requests
<1> QED
  BY <1>4, <1>5

LEMMA FetchFailedKeeps ==
    ASSUME Sound, NEW f, FetchFailed(f)
    PROVE  Sound'
<1>1. Typed /\ Connections /\ Sources /\ Pictures
  BY DEF Sound
<1>2. /\ f \in fetches /\ fetches' = fetches \ {f}
      /\ status' = IF f.cancelled THEN status ELSE "closed"
      /\ UNCHANGED <<backtest, sockets, live, asked, base, raw, equity, pane,
                     cursor, barCount, playing, timeframe, drawn, failed>>
  BY DEF FetchFailed
<1>3. Typed'
  BY <1>1, <1>2 DEF Typed, Status
<1>4. Connections'
  BY <1>1, <1>2, FetchLeft DEF Connections
<1>5. (Loaded' => Loaded) /\ (Following' <=> Following)
  BY <1>2 DEF Loaded, Following
<1>6. Following => ~Loaded /\ ~Loaded'
  BY <1>2 DEF Loaded, Following
<1> QED
  BY <1>1, <1>2, <1>3, <1>4, <1>5, <1>6 DEF Sound, Sources, Pictures, FollowsOneFeed

-----------------------------------------------------------------------------
(* The callbacks of a socket. *)

\* A callback of a socket that changes only the row of that socket.
SocketFrame(s, row) ==
    /\ sockets' = [sockets EXCEPT ![s] = row]
    /\ UNCHANGED <<backtest, fetches, asked, pane>>

LEMMA RowChanged ==
    ASSUME Typed, NEW s \in Sockets,
           NEW row \in [state: SocketStates, got: 0..Len(Feed)], SocketFrame(s, row)
    PROVE  /\ sockets' \in [Sockets -> [state: SocketStates, got: 0..Len(Feed)]]
           /\ sockets'[s] = row
           /\ \A q \in Sockets \ {s} : sockets'[q] = sockets[q]
BY DEF Typed, SocketFrame

LEMMA OpenedKeeps ==
    ASSUME Sound, NEW s \in Sockets, Opened(s)
    PROVE  Sound'
<1>1. Typed /\ Connections /\ Sources /\ Pictures
  BY DEF Sound
<1> DEFINE row == [sockets[s] EXCEPT !.state = "open"]
<1>2. sockets[s] \in [state: SocketStates, got: 0..Len(Feed)]
  BY <1>1 DEF Typed
<1>3. /\ row \in [state: SocketStates, got: 0..Len(Feed)]
      /\ row.state = "open" /\ row.got = sockets[s].got
  BY <1>2 DEF SocketStates
<1>4. /\ SocketFrame(s, row) /\ status' = "live"
      /\ UNCHANGED <<live, equity, cursor, barCount, playing, timeframe,
                     base, raw, drawn, failed>>
  BY DEF Opened, SocketOnly, SocketFrame
<1> HIDE DEF row
<1>5. /\ sockets' \in [Sockets -> [state: SocketStates, got: 0..Len(Feed)]]
      /\ sockets'[s] = row
      /\ \A q \in Sockets \ {s} : sockets'[q] = sockets[q]
  BY <1>1, <1>3, <1>4, RowChanged
<1>6. s = live /\ live # 0 /\ ~backtest
  <2>1. s = live
    BY <1>1 DEF Opened, Connections
  <2>2. s # 0
    BY DEF Sockets
  <2> QED
    BY <1>1, <2>1, <2>2 DEF Connections
<1>7. Typed'
  BY <1>1, <1>4, <1>5 DEF Typed, SocketFrame, Status
<1>8. Connections'
  <2>1. \A q \in Sockets : sockets'[q].state \in {"connecting", "open"} <=> q = live'
    BY <1>1, <1>3, <1>4, <1>5, <1>6 DEF Connections
  <2>2. LiveMeansOpen'
    BY <1>3, <1>4, <1>5, <1>6 DEF LiveMeansOpen, SocketFrame
  <2> QED
    BY <1>1, <1>4, <1>6, <2>1, <2>2 DEF Connections, SocketFrame
<1>9. ~Loaded' /\ ~Loaded /\ (Following' <=> Following)
  BY <1>3, <1>4, <1>5, <1>6 DEF Loaded, Following, SocketFrame
<1>10. sockets'[live'].got = sockets[live].got
  BY <1>3, <1>4, <1>5, <1>6
<1> QED
  BY <1>1, <1>4, <1>7, <1>8, <1>9, <1>10
     DEF Sound, Sources, Pictures, FollowsOneFeed, SocketFrame

\* A socket goes, and the status with it.
LEMMA SocketGone ==
    ASSUME Sound, NEW s \in Sockets,
           sockets' = [sockets EXCEPT ![s] = Unused],
           live' = IF live = s THEN 0 ELSE live,
           status' \in Status, status' = "live" => FALSE,
           status' = "backtest" => status = "backtest",
           UNCHANGED <<backtest, fetches, asked, base, raw, equity, pane,
                       cursor, barCount, playing, timeframe, drawn, failed>>
    PROVE  Sound'
<1>1. Typed /\ Connections /\ Sources /\ Pictures
  BY DEF Sound
<1>2. Unused \in [state: SocketStates, got: 0..Len(Feed)] /\ Unused.state = "unused"
  BY FeedTyped DEF Unused, SocketStates
<1>3. SocketFrame(s, Unused)
  BY DEF SocketFrame
<1>4. /\ sockets' \in [Sockets -> [state: SocketStates, got: 0..Len(Feed)]]
      /\ sockets'[s] = Unused
      /\ \A q \in Sockets \ {s} : sockets'[q] = sockets[q]
  BY <1>1, <1>2, <1>3, RowChanged
<1>5. Typed'
  BY <1>1, <1>4 DEF Typed
<1>6. 0 \notin Sockets
  BY DEF Sockets
<1>7. \A q \in Sockets : sockets'[q].state \in {"connecting", "open"} <=> q = live'
  BY <1>1, <1>2, <1>4, <1>6 DEF Connections
<1>8. Connections'
  BY <1>1, <1>7 DEF Connections, LiveMeansOpen
<1>9. (Loaded' => Loaded) /\ (Following => ~Loaded)
  BY DEF Loaded, Following
<1>10. Following' => /\ Following /\ ~Loaded' /\ live' = live
                     /\ sockets'[live] = sockets[live]
  BY <1>1, <1>4, <1>6 DEF Following, Loaded, Typed
<1> QED
  BY <1>1, <1>5, <1>8, <1>9, <1>10 DEF Sound, Sources, Pictures, FollowsOneFeed

LEMMA ClosedKeeps ==
    ASSUME Sound, NEW s \in Sockets, Closed(s)
    PROVE  Sound'
<1>1. status \in Status
  BY DEF Sound, Typed
<1>2. /\ status' \in Status /\ status' # "live"
      /\ status' = "backtest" => status = "backtest"
  BY <1>1 DEF Closed, Status
<1> QED
  BY <1>2, SocketGone DEF Closed

LEMMA ErroredKeeps ==
    ASSUME Sound, NEW s \in Sockets, Errored(s)
    PROVE  Sound'
<1>1. status' \in Status /\ status' # "live" /\ status' # "backtest"
  BY DEF Errored, Status
<1> QED
  BY <1>1, SocketGone DEF Errored

\* The bars received over the live socket are drawn.
LEMMA Received ==
    ASSUME Sound, ~failed, NEW s \in Sockets, sockets[s].state = "open",
           NEW n \in 1..Len(Feed), sockets' = [sockets EXCEPT ![s].got = n],
           base' = SubSeq(Feed, 1, n), IsMarks(raw'), OnBars(raw', base'),
           UNCHANGED SocketOnly, UNCHANGED status, RedrawEffect
    PROVE  Sound'
<1>1. Typed /\ Connections /\ Sources /\ Pictures
  BY DEF Sound
<1> DEFINE row == [sockets[s] EXCEPT !.got = n]
<1>2. sockets[s] \in [state: SocketStates, got: 0..Len(Feed)]
  BY <1>1 DEF Typed
<1>3. /\ row \in [state: SocketStates, got: 0..Len(Feed)]
      /\ row.state = "open" /\ row.got = n
  BY <1>2
<1>4. /\ SocketFrame(s, row)
      /\ UNCHANGED <<live, status, equity, cursor, barCount, playing, timeframe>>
  BY DEF SocketOnly, SocketFrame
<1> HIDE DEF row
<1>5. /\ sockets' \in [Sockets -> [state: SocketStates, got: 0..Len(Feed)]]
      /\ sockets'[s] = row
      /\ \A q \in Sockets \ {s} : sockets'[q] = sockets[q]
  BY <1>1, <1>3, <1>4, RowChanged
<1>6. s = live /\ live # 0 /\ backtest = FALSE /\ n \in Nat /\ n > 0
  <2>1. s = live
    BY <1>1 DEF Connections
  <2>2. s # 0
    BY DEF Sockets
  <2> QED
    BY <1>1, <2>1, <2>2 DEF Connections, Typed
<1>7. Connections'
  <2>1. \A q \in Sockets : sockets'[q].state \in {"connecting", "open"} <=> q = live'
    BY <1>1, <1>3, <1>4, <1>5, <1>6 DEF Connections
  <2>2. LiveMeansOpen'
    BY <1>3, <1>4, <1>5, <1>6 DEF LiveMeansOpen, SocketFrame
  <2> QED
    BY <1>1, <1>4, <2>1, <2>2 DEF Connections, SocketFrame
<1>8. ~Loaded' /\ backtest' = FALSE /\ sockets'[live'].got = n
  BY <1>3, <1>4, <1>5, <1>6 DEF Loaded, SocketFrame
<1>9. Sources'
  BY <1>8 DEF Sources, FollowsOneFeed
<1>10. IsBars(base')
  <2>1. n \in 0..Len(Feed)
    BY FeedTyped
  <2> QED
    BY <2>1, PrefixIsBars
<1>11. cursor' \in -1..Len(Feed) /\ timeframe' \in Timeframes /\ IsDrawing(drawn)
  BY <1>1, <1>4 DEF Typed
<1>12. IsDrawing(drawn') /\ failed' \in BOOLEAN /\ Pictures'
  BY <1>7, <1>8, <1>9, <1>10, <1>11, Redrawn DEF Throws
<1>13. Typed'
  BY <1>1, <1>4, <1>5, <1>8, <1>10, <1>12 DEF Typed, SocketFrame
<1> QED
  BY <1>7, <1>9, <1>12, <1>13 DEF Sound

LEMMA SnapshotKeeps ==
    ASSUME Sound, ~failed, NEW s \in Sockets, Snapshot(s)
    PROVE  Sound'
<1>1. /\ sockets[s].state = "open" /\ base' = SubSeq(Feed, 1, SnapshotBars)
      /\ sockets' = [sockets EXCEPT ![s].got = SnapshotBars]
      /\ UNCHANGED SocketOnly /\ UNCHANGED status /\ RedrawEffect /\ raw' = << >>
  BY DEF Snapshot
<1>2. IsMarks(raw') /\ OnBars(raw', base')
  BY <1>1, NoMarksAreMarks, NoBarsAreBars DEF OnBars
<1> QED
  BY <1>1, <1>2, FeedTyped, Received

LEMMA BarKeeps ==
    ASSUME Sound, ~failed, NEW s \in Sockets, Bar(s)
    PROVE  Sound'
<1>1. Typed /\ Connections /\ Sources /\ Pictures
  BY DEF Sound
<1>2. PICK n : n = sockets[s].got + 1
  OBVIOUS
<1>3. /\ sockets[s].state = "open" /\ n > SnapshotBars /\ n <= Len(Feed)
      /\ sockets' = [sockets EXCEPT ![s].got = n]
      /\ base' = IF base # << >> /\ Last(base) = Feed[n]
                 THEN [base EXCEPT ![Len(base)] = Feed[n]]
                 ELSE Append(base, Feed[n])
      /\ UNCHANGED <<SocketOnly, raw>> /\ RedrawEffect /\ UNCHANGED status
  BY <1>2 DEF Bar
<1>4. sockets[s].got \in 0..Len(Feed)
  BY <1>1 DEF Typed
<1>5. n \in 1..Len(Feed) /\ n - 1 \in 1..Len(Feed) /\ sockets[s].got = n - 1
  <2>1. n > SnapshotBars /\ n <= Len(Feed)
    BY <1>3
  <2>2. SnapshotBars \in Nat \ {0} /\ Len(Feed) \in Nat
    BY FeedTyped
  <2>3. PICK g \in 0..Len(Feed) : g = sockets[s].got
    BY <1>4
  <2>4. n = g + 1
    BY <1>2, <2>3
  <2>5. g = n - 1 /\ n \in 1..Len(Feed) /\ n - 1 \in 1..Len(Feed)
    BY ONLY <2>1, <2>2, <2>4, g \in 0..Len(Feed)
  <2> QED
    BY <2>3, <2>5
<1>6. s = live /\ Following
  <2>1. s = live
    BY <1>1, <1>3 DEF Connections
  <2>2. s # 0
    BY DEF Sockets
  <2> QED
    BY <1>1, <1>5, <2>1, <2>2 DEF Connections, Following
<1>7. base = SubSeq(Feed, 1, n - 1)
  BY <1>1, <1>5, <1>6 DEF Sources, FollowsOneFeed
<1>8. /\ base \in Seq(Nat) /\ Len(base) = n - 1
      /\ \A i \in 1..(n - 1) : base[i] = Feed[i]
  <2>1. n - 1 \in 0..Len(Feed)
    BY <1>5
  <2> QED
    BY <1>7, <2>1, PrefixIsBars DEF IsBars
<1>9. Last(base) = Feed[n - 1] /\ Feed[n - 1] < Feed[n]
  <2>1. Last(base) = base[n - 1] /\ base[n - 1] = Feed[n - 1]
    BY <1>5, <1>8 DEF Last
  <2>2. n - 1 < n
    BY <1>5
  <2> QED
    BY <1>5, <2>1, <2>2, ChartAssumption
<1>10. Feed[n] \in Nat /\ Feed[n - 1] \in Nat
  BY <1>5, FeedTyped
<1>11. base' = Append(base, Feed[n])
  BY <1>3, <1>9, <1>10
<1>12. base' = SubSeq(Feed, 1, n)
  <2> DEFINE t == SubSeq(Feed, 1, n)
  <2>1. n \in 0..Len(Feed)
    BY <1>5
  <2>2. t \in Seq(Nat) /\ Len(t) = n /\ \A i \in 1..n : t[i] = Feed[i]
    BY <2>1, PrefixIsBars DEF IsBars
  <2> HIDE DEF t
  <2>3. /\ base' \in Seq(Nat) /\ Len(base') = n
        /\ \A i \in 1..n : base'[i] = Feed[i]
    <3>1. /\ base' \in Seq(Nat) /\ Len(base') = n /\ base'[n] = Feed[n]
          /\ \A i \in 1..(n - 1) : base'[i] = base[i]
      BY <1>5, <1>8, <1>10, <1>11
    <3>2. \A i \in 1..n : i = n \/ i \in 1..(n - 1)
      BY <1>5
    <3> QED
      BY <1>8, <3>1, <3>2
  <2>4. base' = t
    BY <2>2, <2>3, SeqEqual
  <2> QED
    BY <2>4 DEF t
<1>13. IsMarks(raw') /\ OnBars(raw', base')
  <2>1. OnBars(raw, base) /\ IsMarks(raw) /\ raw' = raw
    BY <1>1, <1>3, <1>6 DEF Pictures, Typed
  <2>2. Range(base) \subseteq Range(base')
    <3>1. DOMAIN base = 1..(n - 1) /\ DOMAIN base' = 1..n
      BY <1>5, <1>8, <1>10, <1>11
    <3>2. \A i \in 1..(n - 1) : i \in 1..n /\ base'[i] = base[i]
      BY <1>5, <1>8, <1>10, <1>11
    <3> QED
      BY <3>1, <3>2 DEF Range
  <2> QED
    BY <2>1, <2>2 DEF OnBars
<1> QED
  BY <1>3, <1>5, <1>12, <1>13, Received

LEMMA TradedKeeps ==
    ASSUME Sound, NEW s \in Sockets, Traded(s)
    PROVE  Sound'
<1>1. Typed /\ Connections /\ Sources /\ Pictures
  BY DEF Sound
<1> DEFINE n == sockets[s].got
           x == Marker("order", Feed[n])
           all == Append(raw, x)
           k == Max({1, Len(all) - MaxMarkers + 1})
<1>2. /\ sockets[s].state = "open" /\ n > SnapshotBars
      /\ raw' = SubSeq(all, k, Len(all)) /\ MarkersAgain
      /\ UNCHANGED <<backtest, live, fetches, asked, equity, pane, cursor,
                     barCount, playing, timeframe, sockets, status, base, failed>>
  BY DEF Traded, TradeTime, SocketOnly
<1>3. n \in 1..Len(Feed)
  <2>1. n \in 0..Len(Feed)
    BY <1>1 DEF Typed
  <2> QED
    BY <1>2, <2>1, FeedTyped
<1>4. s = live /\ Following
  <2>1. s = live
    BY <1>1, <1>2 DEF Connections
  <2>2. s # 0
    BY DEF Sockets
  <2> QED
    BY <1>1, <1>3, <2>1, <2>2 DEF Connections, Following
<1>5. Feed[n] \in Nat /\ Feed[n] \in Range(base)
  <2>1. base = SubSeq(Feed, 1, n)
    BY <1>1, <1>4 DEF Sources, FollowsOneFeed
  <2> HIDE DEF n
  <2>2. /\ base \in Seq(Nat) /\ Len(base) = n /\ n \in 1..n
        /\ \A i \in 1..n : base[i] = Feed[i]
    <3>1. n \in 0..Len(Feed)
      BY <1>3
    <3> QED
      BY <1>3, <2>1, <3>1, PrefixIsBars DEF IsBars
  <2>3. DOMAIN base = 1..n
    BY <2>2
  <2> HIDE DEF x, all, k
  <2>4. Feed[n] \in Nat
    BY <1>3, FeedTyped
  <2>5. base[n] = Feed[n] /\ n \in DOMAIN base
    BY <2>2, <2>3
  <2> QED
    BY <2>4, <2>5 DEF Range
<1>6. x \in Marks /\ x.kind # "manual" /\ x.time = Feed[n]
  BY <1>5 DEF Marker, Marks
<1>7. IsMarks(raw) /\ OnBars(raw, base)
  BY <1>1, <1>4 DEF Typed, Pictures
<1> HIDE DEF n, x
<1>8. IsMarks(raw') /\ Range(raw') \subseteq Range(raw) \cup {x}
  <2>1. raw' = Latest(raw, x)
    BY <1>2 DEF Latest, all, k
  <2> QED
    BY <1>6, <1>7, <2>1, LatestMarks
<1>9. OnBars(raw', base)
  BY <1>5, <1>6, <1>7, <1>8 DEF OnBars
<1>10. IsDrawing(drawn') /\ Pictures'
  BY <1>1, <1>2, <1>8, <1>9, Remarked
<1>11. Typed'
  BY <1>1, <1>2, <1>8, <1>10 DEF Typed
<1>12. Connections'
  BY <1>1, <1>2 DEF Connections, LiveMeansOpen
<1>13. Sources'
  BY <1>1, <1>2 DEF Sources, FollowsOneFeed, Loaded, Following
<1> QED
  BY <1>10, <1>11, <1>12, <1>13 DEF Sound

-----------------------------------------------------------------------------
(* The events of the user and of the timer. *)

\* The markers change, and nothing else that is held.
LEMMA RemarkedKeeps ==
    ASSUME Sound, MarkersAgain, IsMarks(raw'),
           UNCHANGED <<UserOnly, cursor, playing, timeframe, failed>>,
           \A x \in Range(raw') : x.kind = "manual" \/ x \in Range(raw)
    PROVE  Sound'
<1>1. Typed /\ Connections /\ Sources /\ Pictures
  BY DEF Sound
<1>2. UNCHANGED <<backtest, status, sockets, live, fetches, asked, base,
                  equity, pane, barCount, cursor, playing, timeframe, failed>>
  BY DEF UserOnly
<1>3. Loaded \/ Following => OnBars(raw', base)
  BY <1>1 DEF Pictures, OnBars
<1>4. IsDrawing(drawn') /\ Pictures'
  BY <1>1, <1>2, <1>3, Remarked
<1>5. Typed'
  BY <1>1, <1>2, <1>4 DEF Typed
<1>6. Connections'
  BY <1>1, <1>2 DEF Connections, LiveMeansOpen
<1>7. Sources'
  BY <1>1, <1>2 DEF Sources, FollowsOneFeed, Loaded, Following
<1> QED
  BY <1>4, <1>5, <1>6, <1>7 DEF Sound

LEMMA ClickKeeps ==
    ASSUME Sound, Click
    PROVE  Sound'
<1>1. IsMarks(raw) /\ IsDrawing(drawn)
  BY DEF Sound, Typed
<1>2. PICK t \in DOMAIN drawn.candles : raw' = Append(raw, Marker("manual", t))
  BY DEF Click
<1> DEFINE x == Marker("manual", t)
<1>3. x \in Marks /\ x.kind = "manual"
  BY <1>1 DEF IsDrawing, Marker, Marks
<1>4. raw' = Append(raw, x) /\ raw \in Seq(Marks)
  BY <1>1, <1>2 DEF IsMarks
<1> HIDE DEF x
<1>5. /\ raw' \in Seq(Marks) /\ DOMAIN raw' = DOMAIN raw \cup {Len(raw) + 1}
      /\ raw'[Len(raw) + 1] = x /\ \A i \in DOMAIN raw : raw'[i] = raw[i]
  BY <1>3, <1>4
<1>6. IsMarks(raw')
  <2>1. /\ Orders(raw') = Orders(raw)
        /\ Cardinality(ByHand(raw')) = Cardinality(ByHand(raw)) + 1
    BY <1>3, <1>4, OneMoreMark
  <2>2. Cardinality(ByHand(raw)) \in Nat
    BY <1>4, KindsCounted
  <2>3. Cardinality(ByHand(raw)) < MaxClicks
    BY DEF Click
  <2> QED
    BY <1>1, <1>5, <2>1, <2>2, <2>3, ChartAssumption DEF IsMarks
<1>7. \A y \in Range(raw') : y.kind = "manual" \/ y \in Range(raw)
  BY <1>3, <1>5 DEF Range
<1> QED
  BY <1>6, <1>7, RemarkedKeeps DEF Click

LEMMA ClearKeeps ==
    ASSUME Sound, Clear
    PROVE  Sound'
<1>1. IsMarks(raw) /\ raw' = Cleared(raw)
  BY DEF Sound, Typed, Clear, Cleared
<1>2. IsMarks(raw') /\ Range(raw') \subseteq Range(raw)
  BY <1>1, ClearedIsMarks
<1> QED
  BY <1>2, RemarkedKeeps DEF Clear

LEMMA SelectTimeframeKeeps ==
    ASSUME Sound, ~failed, NEW tf \in Timeframes, SelectTimeframe(tf)
    PROVE  Sound'
<1>1. Typed /\ Connections /\ Sources /\ Pictures
  BY DEF Sound
<1>2. /\ UNCHANGED <<backtest, status, sockets, live, fetches, asked, base,
                     equity, pane, barCount, raw, cursor, playing>>
      /\ timeframe' = tf /\ RedrawEffect
  BY DEF SelectTimeframe, UserOnly
<1>3. Connections'
  BY <1>1, <1>2 DEF Connections, LiveMeansOpen
<1>4. (Loaded' <=> Loaded) /\ (Following' <=> Following)
  BY <1>2 DEF Loaded, Following
<1>5. Sources'
  BY <1>1, <1>2, <1>4 DEF Sources, FollowsOneFeed
<1>6. Throws(backtest', cursor') => Pictures'
  BY <1>1, <1>2, <1>4 DEF Throws, Sources, Following, Pictures
<1>7. (Loaded \/ Following)' => OnBars(raw', base')
  BY <1>1, <1>2, <1>4 DEF Pictures
<1>8. /\ IsDrawing(drawn) /\ IsBars(base') /\ IsMarks(raw') /\ backtest' \in BOOLEAN
      /\ cursor' \in -1..Len(Feed) /\ timeframe' \in Timeframes
  BY <1>1, <1>2 DEF Typed
<1>9. IsDrawing(drawn') /\ failed' \in BOOLEAN /\ Pictures'
  BY <1>2, <1>3, <1>5, <1>6, <1>7, <1>8, Redrawn
<1>10. Typed'
  BY <1>1, <1>2, <1>8, <1>9 DEF Typed
<1> QED
  BY <1>3, <1>5, <1>9, <1>10 DEF Sound

LEMMA MoveKeeps ==
    ASSUME Sound, ~failed, NEW c \in -1..Len(Feed), c < 0 => base = << >>,
           MoveTo(c), playing' \in BOOLEAN
    PROVE  Sound'
<1>1. Typed /\ Connections /\ Sources /\ Pictures
  BY DEF Sound
<1>2. /\ UNCHANGED <<backtest, status, sockets, live, fetches, asked, base,
                     equity, pane, barCount, raw, timeframe>>
      /\ cursor' = c
  BY DEF MoveTo, UserOnly
<1>3. Connections'
  BY <1>1, <1>2 DEF Connections, LiveMeansOpen
<1>4. (Loaded' <=> Loaded) /\ (Following' <=> Following)
  BY <1>2 DEF Loaded, Following
<1>5. CASE c = cursor
  <2>1. cursor' = cursor /\ drawn' = drawn /\ failed' = failed
    BY <1>2, <1>5 DEF MoveTo
  <2> QED
    BY <1>1, <1>2, <1>3, <1>4, <2>1 DEF Sound, Typed, Sources, FollowsOneFeed, Pictures
<1>6. CASE c # cursor
  <2>1. RedrawEffect
    BY <1>6 DEF MoveTo
  <2>2. Loaded' /\ cursor' < 0 => failed'
    BY <1>2, <1>4, <2>1 DEF RedrawEffect, Throws, Loaded
  <2>3. Sources'
    BY <1>1, <1>2, <1>4, <2>2 DEF Sources, FollowsOneFeed
  <2>4. ASSUME Throws(backtest', cursor')
        PROVE  Pictures'
    <3>1. drawn' = drawn /\ base = << >> /\ ~Following /\ base' = base
      BY <1>1, <1>2, <2>1, <2>4 DEF RedrawEffect, Throws, Following, Connections
    <3>2. /\ backtest \in BOOLEAN /\ cursor \in Int /\ cursor >= -1
          /\ cursor' \in Int /\ cursor' >= -1
      BY <1>1, <1>2, FeedTyped DEF Typed
    <3>3. /\ Revealed(backtest, base, cursor) = << >>
          /\ Revealed(backtest', base', cursor') = << >>
      BY <1>2, <3>1, <3>2, RevealedOfNone
    <3> QED
      BY <1>1, <1>2, <1>4, <3>1, <3>3 DEF Pictures
  <2>5. (Loaded \/ Following)' => OnBars(raw', base')
    BY <1>1, <1>2, <1>4 DEF Pictures
  <2>6. /\ IsDrawing(drawn) /\ IsBars(base') /\ IsMarks(raw') /\ backtest' \in BOOLEAN
        /\ cursor' \in -1..Len(Feed) /\ timeframe' \in Timeframes
    BY <1>1, <1>2 DEF Typed
  <2>7. IsDrawing(drawn') /\ failed' \in BOOLEAN /\ Pictures'
    BY <1>3, <2>1, <2>3, <2>4, <2>5, <2>6, Redrawn
  <2>8. Typed'
    BY <1>1, <1>2, <2>6, <2>7 DEF Typed
  <2> QED
    BY <1>3, <2>3, <2>7, <2>8 DEF Sound
<1> QED
  BY <1>5, <1>6

LEMMA StepKeeps ==
    ASSUME Sound, ~failed, NEW delta \in {-1, 1}, Step(delta)
    PROVE  Sound'
<1>1. cursor \in Int /\ barCount \in 0..Len(Feed) /\ Len(Feed) \in Nat
  BY FeedTyped DEF Sound, Typed
<1> DEFINE m == Min({barCount - 1, cursor + delta})
           c == Max({0, m})
<1>2. m = IF barCount - 1 <= cursor + delta THEN barCount - 1 ELSE cursor + delta
  BY <1>1, MinOfTwo
<1>3. m \in Int /\ m <= Len(Feed)
  BY <1>1, <1>2
<1> HIDE DEF m
<1>4. c = IF 0 >= m THEN 0 ELSE m
  BY <1>3, MaxOfTwo
<1> HIDE DEF c
<1>5. c \in -1..Len(Feed) /\ ~(c < 0)
  BY <1>1, <1>3, <1>4
<1>6. MoveTo(c) /\ playing' \in BOOLEAN
  BY DEF Step, m, c
<1> QED
  BY <1>5, <1>6, MoveKeeps

LEMMA SeekKeeps ==
    ASSUME Sound, ~failed, NEW c, Seek(c)
    PROVE  Sound'
<1>1. barCount \in 0..Len(Feed) /\ Len(Feed) \in Nat
  BY FeedTyped DEF Sound, Typed
<1>2. Max({0, barCount - 1}) = IF 0 >= barCount - 1 THEN 0 ELSE barCount - 1
  BY <1>1, MaxOfTwo
<1>3. c \in 0..Max({0, barCount - 1}) /\ MoveTo(c) /\ playing' \in BOOLEAN
  BY DEF Seek
<1>4. c \in -1..Len(Feed) /\ ~(c < 0)
  BY <1>1, <1>2, <1>3
<1> QED
  BY <1>3, <1>4, MoveKeeps

LEMMA TickKeeps ==
    ASSUME Sound, ~failed, NEW k \in Speeds, Tick(k)
    PROVE  Sound'
<1>1. /\ cursor \in -1..Len(Feed) /\ Len(base) \in Nat /\ Len(base) <= Len(Feed)
      /\ Len(Feed) \in Nat /\ k \in Nat \ {0} /\ base \in Seq(Nat)
  BY FeedTyped, ChartAssumption DEF Sound, Typed, IsBars
<1> DEFINE c == Min({cursor + k, Len(base) - 1})
<1>2. c = IF cursor + k <= Len(base) - 1 THEN cursor + k ELSE Len(base) - 1
  BY <1>1, MinOfTwo
<1> HIDE DEF c
<1>3. c \in -1..Len(Feed) /\ (c < 0 => Len(base) = 0)
  BY <1>1, <1>2
<1>4. Len(base) = 0 => base = << >>
  BY <1>1
<1>5. MoveTo(c) /\ playing' \in BOOLEAN
  BY DEF Tick, c
<1> QED
  BY <1>3, <1>4, <1>5, MoveKeeps

LEMMA PlayOrPauseKeeps ==
    ASSUME Sound, PlayOrPause
    PROVE  Sound'
<1>1. Typed /\ Connections /\ Sources /\ Pictures
  BY DEF Sound
<1>2. /\ UNCHANGED <<backtest, status, sockets, live, fetches, asked, base,
                     equity, pane, barCount, raw, cursor, timeframe, drawn, failed>>
      /\ playing' \in BOOLEAN
  BY DEF PlayOrPause, UserOnly
<1>3. Typed' /\ Connections'
  BY <1>1, <1>2 DEF Typed, Connections, LiveMeansOpen
<1>4. Sources' /\ Pictures'
  BY <1>1, <1>2 DEF Sources, FollowsOneFeed, Pictures, Loaded, Following
<1> QED
  BY <1>3, <1>4 DEF Sound

-----------------------------------------------------------------------------
(* The theorems. *)

LEMMA SoundStep == Sound /\ [Next]_vars => Sound'
<1> SUFFICES ASSUME Sound, [Next]_vars
             PROVE  Sound'
  OBVIOUS
<1>1. CASE UNCHANGED vars
  <2>1. Typed' /\ Connections' /\ Sources' /\ Pictures'
    BY <1>1 DEF vars, Sound, Typed, Connections, LiveMeansOpen, Sources,
                FollowsOneFeed, Pictures, Loaded, Following
  <2> QED
    BY <2>1 DEF Sound
<1>2. CASE Next
  <2>1. ~failed
    BY <1>2 DEF Next
  <2>2. CASE FetchEvent
    BY <2>1, <2>2, FetchAnsweredKeeps, FetchFailedKeeps DEF FetchEvent
  <2>3. CASE SocketEvent
    BY <2>1, <2>3, OpenedKeeps, ClosedKeeps, ErroredKeeps, SnapshotKeeps,
       BarKeeps, TradedKeeps DEF SocketEvent
  <2>4. CASE UserEvent
    BY <2>1, <2>4, EnterLiveKeeps, EnterBacktestKeeps, ChooseRangeKeeps,
       ClickKeeps, ClearKeeps, SelectTimeframeKeeps, StepKeeps, SeekKeeps,
       PlayOrPauseKeeps DEF UserEvent
  <2>5. CASE \E k \in Speeds : Tick(k)
    BY <2>1, <2>5, TickKeeps
  <2> QED
    BY <1>2, <2>2, <2>3, <2>4, <2>5 DEF Next
<1> QED
  BY <1>1, <1>2

\* Whatever the user does and the network delivers, in whatever order, the
\* page is connected to, holds and shows one source.
THEOREM ChartAlwaysSound == Spec => []Sound
  BY SoundInit, SoundStep, PTL DEF Spec

LEMMA SourceShown == Sound => ShowsItsSource
<1> SUFFICES ASSUME Sound
             PROVE  ShowsItsSource
  OBVIOUS
<1>1. Typed /\ Connections /\ Sources
  BY DEF Sound
<1>2. Len(raw) <= Max({MaxMarkers, Cardinality(SignalTimes)}) + MaxClicks
  <2>1. raw \in Seq(Marks) /\ Len(raw) \in Nat
    BY <1>1 DEF Typed, IsMarks
  <2>2. /\ Cardinality(Orders(raw)) \in Nat /\ Cardinality(ByHand(raw)) \in Nat
        /\ Len(raw) <= Cardinality(Orders(raw)) + Cardinality(ByHand(raw))
    BY <2>1, KindsCounted
  <2>3. Cardinality(Orders(raw)) <= MaxOrders /\ Cardinality(ByHand(raw)) <= MaxClicks
    BY <1>1 DEF Typed, IsMarks
  <2>4. MaxOrders \in Nat /\ MaxClicks \in Nat
    BY MaxOrdersTyped, ChartAssumption
  <2>5. Len(raw) <= MaxOrders + MaxClicks
    BY <2>1, <2>2, <2>3, <2>4
  <2> QED
    BY <2>5 DEF MaxOrders
<1>3. TypeOK
  <2>1. \A s \in Sockets : /\ sockets[s].state \in SocketStates
                           /\ sockets[s].got \in 0..Len(Feed)
    BY <1>1 DEF Typed
  <2> QED
    BY <1>1, <1>2, <2>1 DEF TypeOK, Typed, IsBars
<1> QED
  BY <1>1, <1>3 DEF ShowsItsSource, Connections, Sources, ShowsAskedWindow

\* The bars on the page are those of the mode it is in (ShowsItsSource).
THEOREM SourceAlwaysShown == Spec => []ShowsItsSource
  BY ChartAlwaysSound, SourceShown, PTL

\* The candles and the equity curve on the screen are those of the present
\* state (DrawnIsCurrent).
THEOREM DrawnAlwaysCurrent == Spec => []DrawnIsCurrent
<1>1. Sound => DrawnIsCurrent
  BY DEF Sound, Pictures, DrawnIsCurrent
<1> QED
  BY <1>1, ChartAlwaysSound, PTL

\* Every trade and refused order stands at a candle (TradesOnCandles).
THEOREM TradesAlwaysOnCandles == Spec => []TradesOnCandles
<1>1. Sound => TradesOnCandles
  BY DEF Sound, Pictures, TradesOnCandles
<1> QED
  BY <1>1, ChartAlwaysSound, PTL

\* An effect fails at a cursor before the first bar, and at no other.
FailsBeforeFirst == failed => Throws(backtest, cursor)

LEMMA FailsStep == FailsBeforeFirst /\ [Next]_vars => FailsBeforeFirst'
<1> SUFFICES ASSUME FailsBeforeFirst, [Next]_vars
             PROVE  FailsBeforeFirst'
  OBVIOUS
<1>1. RedrawEffect => FailsBeforeFirst'
  BY DEF RedrawEffect, FailsBeforeFirst
<1>2. CASE UNCHANGED vars
  BY <1>2 DEF vars, FailsBeforeFirst
<1>3. CASE Next
  <2>1. ~failed
    BY <1>3 DEF Next
  <2>2. UNCHANGED failed => FailsBeforeFirst'
    BY <2>1 DEF FailsBeforeFirst
  <2>3. ASSUME NEW f, FetchAnswered(f)
        PROVE  RedrawEffect \/ UNCHANGED failed
    <3>1. CASE Applies(f)
      BY <2>3, <3>1 DEF FetchAnswered
    <3>2. CASE ~Applies(f)
      BY <2>3, <3>2 DEF FetchAnswered
    <3> QED
      BY <3>1, <3>2
  <2>4. CASE FetchEvent
    <3>1. \A f : FetchFailed(f) => UNCHANGED failed
      BY DEF FetchFailed
    <3> QED
      BY <1>1, <2>2, <2>3, <2>4, <3>1 DEF FetchEvent
  <2>5. CASE SocketEvent
    <3>1. \A s : /\ Snapshot(s) \/ Bar(s) => RedrawEffect
                 /\ Opened(s) \/ Closed(s) \/ Errored(s) \/ Traded(s) => UNCHANGED failed
      BY DEF Snapshot, Bar, Opened, Closed, Errored, Traded
    <3> QED
      BY <1>1, <2>2, <2>5, <3>1 DEF SocketEvent
  <2>6. ASSUME NEW c, MoveTo(c)
        PROVE  FailsBeforeFirst'
    BY <1>1, <2>2, <2>6 DEF MoveTo
  <2>7. CASE UserEvent
    <3>1. EnterLive \/ EnterBacktest \/ Click \/ Clear \/ PlayOrPause => UNCHANGED failed
      BY DEF EnterLive, EnterBacktest, Click, Clear, PlayOrPause
    <3>2. \A r : ChooseRange(r) => UNCHANGED failed
      BY DEF ChooseRange
    <3>3. \A tf : SelectTimeframe(tf) => RedrawEffect
      BY DEF SelectTimeframe
    <3>4. ASSUME NEW delta, Step(delta)
          PROVE  FailsBeforeFirst'
      BY <2>6, <3>4 DEF Step
    <3>5. ASSUME NEW c, Seek(c)
          PROVE  FailsBeforeFirst'
      BY <2>6, <3>5 DEF Seek
    <3> QED
      BY <1>1, <2>2, <2>7, <3>1, <3>2, <3>3, <3>4, <3>5 DEF UserEvent
  <2>8. ASSUME NEW k, Tick(k)
        PROVE  FailsBeforeFirst'
    BY <2>6, <2>8 DEF Tick
  <2> QED
    BY <1>3, <2>4, <2>5, <2>7, <2>8 DEF Next
<1> QED
  BY <1>2, <1>3

\* A loaded window that has bars can be played, stepped and searched without
\* an error that unmounts the page (LoadedPageStays).
THEOREM LoadedPageAlwaysStays == Spec => []LoadedPageStays
<1>1. Init => FailsBeforeFirst
  BY DEF Init, FailsBeforeFirst
<1>2. Spec => []FailsBeforeFirst
  BY <1>1, FailsStep, PTL DEF Spec
<1>3. Sound /\ FailsBeforeFirst => LoadedPageStays
  BY DEF Sound, Sources, FailsBeforeFirst, Throws, LoadedPageStays
<1> QED
  BY <1>2, <1>3, ChartAlwaysSound, PTL
=============================================================================
