---------------------------- MODULE Economy_proofs ----------------------------
(***************************************************************************)
(* Theorems about paced reading, for every capacity, every regeneration    *)
(* time and every idle multiplier, and documents of any length: the bucket *)
(* never holds more than its capacity or less than nothing, and no series  *)
(* of presses, steps back, pauses and reopenings reads new text faster     *)
(* than the bucket allows.                                                 *)
(*                                                                         *)
(* The token count and the length of a burst are recursive functions.      *)
(* What the proofs know of them is their equations, shown here by          *)
(* induction: a set that holds 0 and with every number the next one holds  *)
(* all numbers.                                                            *)
(***************************************************************************)
EXTENDS Economy, FiniteSets, FiniteSetTheorems, TLAPS

-----------------------------------------------------------------------------
(* Induction over the members of a set *)

\* A set of numbers has a least one: the initial segments that end in it are
\* well founded under inclusion.
LEMMA LeastNatural ==
    ASSUME NEW T \in SUBSET Nat, T # {}
    PROVE  \E x \in T : \A y \in T : x <= y
  <1> DEFINE Below == {1 .. x : x \in T}
  <1>1. Below \subseteq FiniteSubsetsOf(Nat) /\ Below # {}
    <2>1. \A x \in T : 1 .. x \subseteq Nat /\ IsFiniteSet(1 .. x)
      BY FS_Interval
    <2> QED
      BY <2>1 DEF FiniteSubsetsOf
  <1>2. PICK b \in Below : \A c \in Below : ~ (<<c, b>> \in StrictSubsetOrdering(Nat))
    BY <1>1, FS_StrictSubsetOrderingWellFounded, WFMin
  <1>3. PICK x \in T : b = 1 .. x
    BY <1>2
  <1>4. ASSUME NEW y \in T, y < x PROVE FALSE
    <2>1. 1 .. y \in Below /\ 1 .. y \subseteq Nat /\ 1 .. x \subseteq Nat
      OBVIOUS
    <2>2. 1 .. y \subseteq 1 .. x /\ 1 .. y # 1 .. x
      <3>1. x \in 1 .. x /\ x \notin 1 .. y
        BY <1>4
      <3> QED
        BY <1>4, <3>1
    <2>3. <<1 .. y, 1 .. x>> \in StrictSubsetOrdering(Nat)
      BY <2>1, <2>2 DEF StrictSubsetOrdering
    <2> QED
      BY <1>2, <1>3, <2>1, <2>3
  <1> QED
    BY <1>4

LEMMA SetInduction ==
  ASSUME NEW S, 0 \in S, \A n \in Nat : n \in S => n + 1 \in S
  PROVE  Nat \subseteq S
<1> SUFFICES ASSUME Nat \ S # {} PROVE FALSE
  OBVIOUS
<1>1. PICK x \in Nat \ S : \A y \in Nat \ S : x <= y
  BY LeastNatural
<1>2. x # 0 /\ x - 1 \in Nat
  BY <1>1
<1>3. x - 1 \in S
  BY <1>1, <1>2
<1>4. (x - 1) + 1 \in S
  BY <1>2, <1>3
<1> QED
  BY <1>1, <1>4

-----------------------------------------------------------------------------
(* The bucket *)

Levels == 0 .. Capacity
Gaps   == 0 .. LongAbsence

LEMMA BucketNumbers ==
  /\ Capacity \in Nat \ {0} /\ RegenSeconds \in Nat \ {0}
  /\ IdleSeconds \in Nat /\ LongAbsence \in Nat
  /\ IdleSeconds < LongAbsence
<1>1. \A a, b \in Nat : a * b \in Nat
  OBVIOUS
<1> QED
  BY <1>1, BucketAssumption DEF IdleSeconds, LongAbsence

\* Started regeneration periods do not add up to more than whole ones.
LEMMA PeriodsAddUp ==
  ASSUME NEW a \in Nat, NEW b \in Nat, NEW r \in Nat \ {0}
  PROVE  /\ a \div r \in Nat /\ (a + b) \div r \in Nat
         /\ (a \div r) + (b \div r) <= (a + b) \div r
OBVIOUS

LEMMA StartInRange == Start \in Levels
BY BucketAssumption DEF Start, Levels

\* Waiting credits one token for each whole period, up to the capacity.
LEMMA CreditedInRange ==
  ASSUME NEW tokens \in Levels, NEW elapsed \in Nat
  PROVE  /\ Credited(tokens, elapsed) \in Levels
         /\ elapsed <= IdleSeconds
              => Credited(tokens, elapsed) <= tokens + elapsed \div RegenSeconds
<1>1. elapsed \div RegenSeconds \in Nat
  BY BucketNumbers
<1> DEFINE credit == tokens + elapsed \div RegenSeconds
<1>2. credit \in Nat
  BY <1>1, BucketNumbers DEF Levels
<1>3. Credited(tokens, elapsed) = IF elapsed > IdleSeconds THEN Capacity
                                  ELSE IF credit > Capacity THEN Capacity ELSE credit
  BY DEF Credited
<1> HIDE DEF credit
<1>4. Credited(tokens, elapsed) \in Levels
  BY <1>2, <1>3, BucketNumbers DEF Levels
<1>5. elapsed <= IdleSeconds => Credited(tokens, elapsed) <= credit
  BY <1>2, <1>3, BucketNumbers
<1> QED
  BY <1>4, <1>5 DEF credit

LEMMA SpendInRange ==
  ASSUME NEW tokens \in Levels
  PROVE  Spend(tokens) \in Levels /\ (tokens # 0 => Spend(tokens) = tokens - 1)
BY BucketNumbers DEF Spend, Levels

\* One turn of the loop of tokens_now.
LeftStep(left, gap, i) == IF i = 1 THEN Spend(left) ELSE Spend(Credited(left, gap))

LEMMA LeftStepInRange ==
  ASSUME NEW left \in Levels, NEW gap \in Gaps, NEW i
  PROVE  LeftStep(left, gap, i) \in Levels
<1>1. gap \in Nat
  BY BucketNumbers DEF Gaps
<1> QED
  BY <1>1, CreditedInRange, SpendInRange DEF LeftStep

\* f is the loop on the first n gaps.
IsLeft(f, gaps, n) ==
  /\ f \in [0 .. n -> Levels]
  /\ f[0] = Start
  /\ \A i \in 1 .. n : f[i] = LeftStep(f[i - 1], gaps[i], i)

LEMMA LeftExists ==
  ASSUME NEW gaps \in Seq(Gaps)
  PROVE  \E f : IsLeft(f, gaps, Len(gaps))
<1> DEFINE L == Len(gaps)
           S == {n \in Nat : n <= L => \E f : IsLeft(f, gaps, n)}
<1>1. L \in Nat /\ \A i \in 1 .. L : gaps[i] \in Gaps
  OBVIOUS
<1>2. 0 \in S
  <2>1. IsLeft([i \in 0 .. 0 |-> Start], gaps, 0)
    BY StartInRange DEF IsLeft
  <2> QED
    BY <2>1
<1> HIDE DEF L
<1>3. ASSUME NEW n \in Nat, n \in S PROVE n + 1 \in S
  <2> SUFFICES ASSUME n + 1 <= L PROVE \E f : IsLeft(f, gaps, n + 1)
    OBVIOUS
  <2>1. PICK g : IsLeft(g, gaps, n)
    BY <1>1, <1>3
  <2> DEFINE new == LeftStep(g[n], gaps[n + 1], n + 1)
             f == [i \in 0 .. n + 1 |-> IF i = n + 1 THEN new ELSE g[i]]
  <2>2. new \in Levels
    BY <1>1, <2>1, LeftStepInRange DEF IsLeft
  <2>3. f[n + 1] = LeftStep(f[n], gaps[n + 1], n + 1)
    OBVIOUS
  <2>4. \A i \in 0 .. n : f[i] = g[i]
    OBVIOUS
  <2> HIDE DEF new
  <2>5. f \in [0 .. n + 1 -> Levels]
    BY <2>1, <2>2 DEF IsLeft
  <2> HIDE DEF f
  <2>6. \A i \in 1 .. n + 1 : f[i] = LeftStep(f[i - 1], gaps[i], i)
    BY <2>1, <2>3, <2>4 DEF IsLeft
  <2>7. f[0] = Start
    BY <2>1, <2>4 DEF IsLeft
  <2> QED
    BY <2>5, <2>6, <2>7 DEF IsLeft
<1> HIDE DEF S
<1>4. L \in S
  BY <1>1, <1>2, <1>3, SetInduction
<1> QED
  BY <1>1, <1>4 DEF S, L

\* Two lists that agree on their first n gaps leave the same.
LEMMA LeftUnique ==
  ASSUME NEW p, NEW q, NEW f, NEW g, NEW m \in Nat, NEW n \in Nat, m <= n,
         IsLeft(f, p, m), IsLeft(g, q, n), \A i \in 1 .. m : p[i] = q[i]
  PROVE  \A i \in 0 .. m : f[i] = g[i]
<1> DEFINE S == {i \in Nat : i <= m => f[i] = g[i]}
<1>1. 0 \in S
  BY DEF IsLeft
<1>2. ASSUME NEW i \in Nat, i \in S PROVE i + 1 \in S
  <2> SUFFICES ASSUME i + 1 <= m PROVE f[i + 1] = g[i + 1]
    OBVIOUS
  <2>1. i + 1 \in 1 .. m /\ i + 1 \in 1 .. n /\ (i + 1) - 1 = i /\ f[i] = g[i]
    BY <1>2
  <2>2. f[i + 1] = LeftStep(f[i], p[i + 1], i + 1)
    BY <2>1 DEF IsLeft
  <2>3. g[i + 1] = LeftStep(g[i], q[i + 1], i + 1)
    BY <2>1 DEF IsLeft
  <2> QED
    BY <2>1, <2>2, <2>3
<1> HIDE DEF S
<1>3. Nat \subseteq S
  BY <1>1, <1>2, SetInduction
<1> QED
  BY <1>3 DEF S

LEMMA LeftEquations ==
  ASSUME NEW gaps \in Seq(Gaps)
  PROVE  IsLeft(LeftAfter(gaps), gaps, Len(gaps))
<1> DEFINE n == Len(gaps)
           Body(left) == [i \in 0 .. n |->
             IF i = 0 THEN Start
             ELSE IF i = 1 THEN Spend(left[0])
             ELSE Spend(Credited(left[i - 1], gaps[i]))]
<1>1. PICK f : IsLeft(f, gaps, n)
  BY LeftExists
<1>2. n \in Nat
  OBVIOUS
<1>3. f = Body(f)
  BY <1>1, <1>2 DEF IsLeft, LeftStep
<1>4. LeftAfter(gaps) = CHOOSE left : left = Body(left)
  BY DEF LeftAfter
<1>5. LeftAfter(gaps) = Body(LeftAfter(gaps))
  BY <1>3, <1>4
<1> DEFINE g == LeftAfter(gaps)
           S == {i \in Nat : i <= n => g[i] = f[i]}
<1>6. /\ DOMAIN g = 0 .. n /\ g = [i \in 0 .. n |-> g[i]] /\ g[0] = Start
      /\ \A i \in 1 .. n : g[i] = LeftStep(g[i - 1], gaps[i], i)
  BY <1>2, <1>5 DEF LeftStep
<1> HIDE DEF g, Body, n
<1>7. 0 \in S
  BY <1>1, <1>6 DEF IsLeft
<1>8. ASSUME NEW i \in Nat, i \in S PROVE i + 1 \in S
  <2> SUFFICES ASSUME i + 1 <= n PROVE g[i + 1] = f[i + 1]
    OBVIOUS
  <2>1. i + 1 \in 1 .. n /\ (i + 1) - 1 = i /\ g[i] = f[i]
    BY <1>2, <1>8
  <2>2. g[i + 1] = LeftStep(g[i], gaps[i + 1], i + 1)
    BY <1>6, <2>1
  <2>3. f[i + 1] = LeftStep(f[i], gaps[i + 1], i + 1)
    BY <1>1, <2>1 DEF IsLeft
  <2> QED
    BY <2>1, <2>2, <2>3
<1> HIDE DEF S
<1>9. Nat \subseteq S
  BY <1>7, <1>8, SetInduction
<1>10. \A i \in 0 .. n : g[i] = f[i]
  BY <1>2, <1>9 DEF S
<1>11. g \in [0 .. n -> Levels]
  BY <1>1, <1>6, <1>10 DEF IsLeft
<1> QED
  BY <1>6, <1>11 DEF IsLeft, g, n

\* What is left in the bucket after the last of the paid reveals.
LastLeft(gaps) == LeftAfter(gaps)[Len(gaps)]

\* The token count is in [0, capacity], whatever the paid reveals.
LEMMA TokensInRange ==
  ASSUME NEW gaps \in Seq(Gaps), NEW elapsed \in Gaps
  PROVE  /\ TokensNow(gaps, elapsed) \in Levels
         /\ gaps # << >> => /\ LastLeft(gaps) \in Levels
                            /\ TokensNow(gaps, elapsed) = Credited(LastLeft(gaps), elapsed)
         /\ gaps = << >> => TokensNow(gaps, elapsed) = Start
<1>1. elapsed \in Nat
  BY BucketNumbers DEF Gaps
<1>2. LastLeft(gaps) \in Levels
  BY LeftEquations DEF IsLeft, LastLeft
<1> QED
  BY <1>1, <1>2, CreditedInRange, StartInRange DEF TokensNow, LastLeft

\* A paid reveal leaves one token less than there were.
LEMMA PaidRevealSpendsOne ==
  ASSUME NEW gaps \in Seq(Gaps), NEW elapsed \in Gaps
  PROVE  LastLeft(Append(gaps, elapsed)) = Spend(TokensNow(gaps, elapsed))
<1> DEFINE more == Append(gaps, elapsed)
           n == Len(gaps)
           f == LeftAfter(gaps)
           g == LeftAfter(more)
<1>1. /\ more \in Seq(Gaps) /\ Len(more) = n + 1 /\ n \in Nat
      /\ more[n + 1] = elapsed /\ \A i \in 1 .. n : gaps[i] = more[i]
  OBVIOUS
<1>2. IsLeft(f, gaps, n)
  BY LeftEquations
<1> HIDE DEF more
<1>3. IsLeft(g, more, n + 1)
  BY <1>1, LeftEquations
<1>4. n + 1 \in Nat /\ n <= n + 1
  BY <1>1
<1> HIDE DEF f, g, n
<1>5. f[n] = g[n]
  BY <1>1, <1>2, <1>3, <1>4, LeftUnique
<1>6. g[n + 1] = LeftStep(f[n], elapsed, n + 1)
  BY <1>1, <1>3, <1>5 DEF IsLeft
<1>7. CASE gaps = << >>
  <2>1. n = 0
    BY <1>7 DEF n
  <2> QED
    BY <1>1, <1>2, <1>6, <1>7, <2>1 DEF IsLeft, LeftStep, TokensNow, LastLeft, g, more
<1>8. CASE gaps # << >>
  <2>1. n # 0
    BY <1>8 DEF n
  <2>2. g[n + 1] = Spend(Credited(f[n], elapsed))
    BY <1>1, <1>6, <2>1 DEF LeftStep
  <2> QED
    BY <1>1, <1>8, <2>2 DEF TokensNow, LastLeft, f, g, n, more
<1> QED
  BY <1>7, <1>8

-----------------------------------------------------------------------------
(* The log of paid reveals *)

Entries == [gap : 0 .. LongAbsence, first : BOOLEAN]

\* f sums the times of reveals i + 1 to j.
Adds(f, r, i, j) ==
  /\ f[i] = 0
  /\ \A k \in i + 1 .. j : f[k] = f[k - 1] + r[k].gap

Agree(p, q, i, j) == \A k \in i + 1 .. j : p[k] = q[k]

IsSum(f, r, i, j) == f \in [i .. j -> Nat] /\ Adds(f, r, i, j)

SumAfter(r, i, j) ==
  LET sum[k \in i .. j] == IF k = i THEN 0 ELSE sum[k - 1] + r[k].gap
  IN  sum

GapSum(r, i, j) == SumAfter(r, i, j)[j]

LEMMA SumExists ==
  ASSUME NEW r \in Seq(Entries), NEW i \in 1 .. Len(r), NEW j \in i .. Len(r)
  PROVE  \E f : IsSum(f, r, i, j)
<1> DEFINE L == Len(r)
           S == {n \in Nat : i + n <= L => \E f : IsSum(f, r, i, i + n)}
<1>1. L \in Nat /\ \A k \in 1 .. L : r[k].gap \in Nat
  <2>1. L \in Nat /\ \A k \in 1 .. L : r[k] \in Entries
    OBVIOUS
  <2>2. \A e \in Entries : e.gap \in Nat
    BY BucketNumbers DEF Entries
  <2> QED
    BY <2>1, <2>2
<1>2. i \in Nat /\ i >= 1 /\ j \in Nat /\ j >= i /\ j <= L
  OBVIOUS
<1>3. 0 \in S
  <2>1. IsSum([k \in i .. i |-> 0], r, i, i)
    BY <1>2 DEF IsSum, Adds
  <2>2. i + 0 = i
    BY <1>2
  <2> QED
    BY <2>1, <2>2
<1> HIDE DEF L
<1>4. ASSUME NEW n \in Nat, n \in S PROVE n + 1 \in S
  <2> SUFFICES ASSUME i + (n + 1) <= L PROVE \E f : IsSum(f, r, i, i + (n + 1))
    OBVIOUS
  <2> DEFINE m == i + n
  <2>1. PICK g : IsSum(g, r, i, m)
    BY <1>1, <1>2, <1>4
  <2>2. m \in Nat /\ m >= i /\ m + 1 = i + (n + 1) /\ m + 1 <= L
    BY <1>1, <1>2
  <2> HIDE DEF m
  <2> DEFINE new == g[m] + r[m + 1].gap
             f == [k \in i .. m + 1 |-> IF k = m + 1 THEN new ELSE g[k]]
  <2>3. new \in Nat
    BY <1>1, <1>2, <2>1, <2>2 DEF IsSum, Adds
  <2>4. f[m + 1] = f[m] + r[m + 1].gap
    BY <1>2, <2>2
  <2>5. \A k \in i .. m : f[k] = g[k]
    BY <1>2, <2>2
  <2> HIDE DEF new
  <2>6. f \in [i .. m + 1 -> Nat]
    BY <1>2, <2>1, <2>2, <2>3 DEF IsSum, Adds
  <2> HIDE DEF f
  <2>7. \A k \in i + 1 .. m + 1 : f[k] = f[k - 1] + r[k].gap
    <3> SUFFICES ASSUME NEW k \in i + 1 .. m + 1 PROVE f[k] = f[k - 1] + r[k].gap
      OBVIOUS
    <3>1. CASE k = m + 1
      BY <1>2, <2>2, <2>4, <3>1
    <3>2. CASE k # m + 1
      <4>1. k \in i + 1 .. m /\ k \in i .. m /\ k - 1 \in i .. m
        BY <1>2, <2>2, <3>2
      <4> QED
        BY <2>1, <2>5, <4>1 DEF IsSum, Adds
    <3> QED
      BY <3>1, <3>2
  <2>8. f[i] = 0
    BY <1>2, <2>1, <2>2, <2>5 DEF IsSum, Adds
  <2>9. IsSum(f, r, i, m + 1)
    BY <2>6, <2>7, <2>8 DEF IsSum, Adds
  <2> QED
    BY <2>2, <2>9
<1> HIDE DEF S
<1>5. j - i \in Nat /\ i + (j - i) = j
  BY <1>2
<1>6. j - i \in S
  BY <1>3, <1>4, <1>5, SetInduction
<1> QED
  BY <1>2, <1>5, <1>6 DEF S

\* Two logs that agree from i + 1 to m have the same sum there.
LEMMA SumUnique ==
  ASSUME NEW p, NEW q, NEW f, NEW g,
         NEW i \in Nat, NEW m \in Nat, NEW n \in Nat, m <= n,
         Adds(f, p, i, m), Adds(g, q, i, n), Agree(p, q, i, m)
  PROVE  \A k \in i .. m : f[k] = g[k]
<1> DEFINE S == {d \in Nat : i + d <= m => f[i + d] = g[i + d]}
<1>1. 0 \in S
  BY DEF Adds
<1>2. ASSUME NEW d \in Nat, d \in S PROVE d + 1 \in S
  <2> SUFFICES ASSUME i + (d + 1) <= m PROVE f[i + (d + 1)] = g[i + (d + 1)]
    OBVIOUS
  <2> DEFINE k == i + (d + 1)
  <2>1. k \in i + 1 .. m /\ k \in i + 1 .. n /\ k - 1 = i + d /\ i + d <= m
    OBVIOUS
  <2>2. f[k - 1] = g[k - 1]
    BY <1>2, <2>1
  <2> HIDE DEF k
  <2>3. f[k] = g[k]
    BY <2>1, <2>2 DEF Adds, Agree
  <2> QED
    BY <2>3 DEF k
<1> HIDE DEF S
<1>3. Nat \subseteq S
  BY <1>1, <1>2, SetInduction
<1>4. ASSUME NEW k \in i .. m PROVE f[k] = g[k]
  <2>1. k - i \in Nat /\ i + (k - i) = k /\ k <= m
    OBVIOUS
  <2>2. k - i \in S
    BY <1>3, <2>1
  <2> QED
    BY <2>1, <2>2 DEF S
<1> QED
  BY <1>4

LEMMA SumEquations ==
  ASSUME NEW r \in Seq(Entries), NEW i \in 1 .. Len(r), NEW j \in i .. Len(r)
  PROVE  IsSum(SumAfter(r, i, j), r, i, j)
<1> DEFINE Body(sum) == [k \in i .. j |-> IF k = i THEN 0 ELSE sum[k - 1] + r[k].gap]
<1>1. PICK f : IsSum(f, r, i, j)
  BY SumExists
<1>2. i \in Nat /\ j \in Nat /\ i <= j
  OBVIOUS
<1>3. f = Body(f)
  BY <1>1, <1>2 DEF IsSum, Adds
<1>4. SumAfter(r, i, j) = CHOOSE sum : sum = Body(sum)
  BY DEF SumAfter
<1>5. SumAfter(r, i, j) = Body(SumAfter(r, i, j))
  BY <1>3, <1>4
<1> DEFINE g == SumAfter(r, i, j)
<1>6. /\ g = [k \in i .. j |-> g[k]] /\ g[i] = 0
      /\ \A k \in i + 1 .. j : g[k] = g[k - 1] + r[k].gap
  BY <1>2, <1>5
<1> HIDE DEF g, Body
<1>7. \A k \in i .. j : f[k] = g[k]
  <2>1. Adds(f, r, i, j) /\ Adds(g, r, i, j)
    BY <1>1, <1>6 DEF IsSum, Adds
  <2>2. Agree(r, r, i, j)
    BY DEF Agree
  <2> QED
    BY <1>2, <2>1, <2>2, SumUnique
<1>8. g \in [i .. j -> Nat]
  BY <1>1, <1>6, <1>7 DEF IsSum, Adds
<1> QED
  BY <1>6, <1>8 DEF IsSum, Adds, g

LEMMA SumsAreNumbers ==
  ASSUME NEW r \in Seq(Entries), NEW i \in 1 .. Len(r), NEW j \in i .. Len(r)
  PROVE  GapSum(r, i, j) \in Nat /\ (i = j => GapSum(r, i, j) = 0)
<1>1. j \in i .. j
  OBVIOUS
<1> QED
  BY <1>1, SumEquations DEF IsSum, Adds, GapSum

\* One more reveal changes no earlier sum, and adds its own time to the last.
LEMMA SumsGrow ==
  ASSUME NEW r \in Seq(Entries), NEW e \in Entries, NEW i \in 1 .. Len(r)
  PROVE  /\ \A j \in i .. Len(r) : GapSum(Append(r, e), i, j) = GapSum(r, i, j)
         /\ GapSum(Append(r, e), i, Len(r) + 1) = GapSum(r, i, Len(r)) + e.gap
<1> DEFINE more == Append(r, e)
           n == Len(r)
<1>1. /\ more \in Seq(Entries) /\ Len(more) = n + 1 /\ n \in Nat /\ n >= 1
      /\ more[n + 1] = e /\ \A k \in 1 .. n : r[k] = more[k]
  OBVIOUS
<1>2. i \in 1 .. Len(more) /\ i \in Nat /\ i >= 1 /\ i <= n
  BY <1>1
<1> HIDE DEF more
<1>3. \A j \in i .. n : IsSum(SumAfter(r, i, j), r, i, j)
  BY SumEquations
<1>4. \A j \in i .. n + 1 : IsSum(SumAfter(more, i, j), more, i, j)
  BY <1>1, <1>2, SumEquations
<1> HIDE DEF n
<1>5. ASSUME NEW j \in i .. n, NEW m \in j .. n + 1
      PROVE  SumAfter(r, i, j)[j] = SumAfter(more, i, m)[j]
  <2> DEFINE f == SumAfter(r, i, j)
             g == SumAfter(more, i, m)
  <2>1. j \in Nat /\ m \in Nat /\ j <= m /\ i <= j /\ m \in i .. n + 1 /\ j \in i .. j
    BY <1>1, <1>2
  <2>2. Adds(f, r, i, j)
    BY <1>3 DEF IsSum
  <2>3. Adds(g, more, i, m)
    BY <1>4, <2>1 DEF IsSum
  <2>4. Agree(r, more, i, j)
    BY <1>1, <1>2, <2>1 DEF Agree
  <2> HIDE DEF f, g
  <2>5. \A k \in i .. j : f[k] = g[k]
    BY <1>2, <2>1, <2>2, <2>3, <2>4, SumUnique
  <2> QED
    BY <2>1, <2>5 DEF f, g
<1>6. \A j \in i .. n : GapSum(more, i, j) = GapSum(r, i, j)
  <2> SUFFICES ASSUME NEW j \in i .. n PROVE GapSum(more, i, j) = GapSum(r, i, j)
    OBVIOUS
  <2>1. j \in j .. n + 1
    BY <1>1, <1>2
  <2> QED
    BY <1>5, <2>1 DEF GapSum
<1>7. GapSum(more, i, n + 1) = GapSum(r, i, n) + e.gap
  <2>1. n \in i .. n /\ n + 1 \in n .. n + 1 /\ n + 1 \in i .. n + 1 /\ n + 1 \in i + 1 .. n + 1
        /\ (n + 1) - 1 = n
    BY <1>1, <1>2
  <2>2. SumAfter(r, i, n)[n] = SumAfter(more, i, n + 1)[n]
    BY <1>5, <2>1
  <2>3. SumAfter(more, i, n + 1)[n + 1] = SumAfter(more, i, n + 1)[n] + more[n + 1].gap
    BY <1>4, <2>1 DEF IsSum, Adds
  <2> QED
    BY <1>1, <2>2, <2>3 DEF GapSum
<1> QED
  BY <1>6, <1>7 DEF more, n

\* The reveals after i, up to j, that opened a session.
Firsts(r, i, j) == {k \in i + 1 .. j : r[k].first}

LEMMA SessionsAreNumbers ==
  ASSUME NEW r \in Seq(Entries), NEW i \in 1 .. Len(r), NEW j \in i .. Len(r)
  PROVE  /\ IsFiniteSet(Firsts(r, i, j)) /\ Cardinality(Firsts(r, i, j)) \in Nat
         /\ i = j => Cardinality(Firsts(r, i, j)) = 0
<1>1. IsFiniteSet(i + 1 .. j)
  BY FS_Interval
<1>2. Firsts(r, i, j) \subseteq i + 1 .. j
  BY DEF Firsts
<1>3. i = j => Firsts(r, i, j) = {}
  BY DEF Firsts
<1> QED
  BY <1>1, <1>2, <1>3, FS_Subset, FS_CardinalityType, FS_EmptySet

LEMMA SessionsGrow ==
  ASSUME NEW r \in Seq(Entries), NEW e \in Entries, NEW i \in 1 .. Len(r)
  PROVE  /\ \A j \in i .. Len(r) : Firsts(Append(r, e), i, j) = Firsts(r, i, j)
         /\ Cardinality(Firsts(Append(r, e), i, Len(r) + 1))
              = Cardinality(Firsts(r, i, Len(r))) + (IF e.first THEN 1 ELSE 0)
<1> DEFINE more == Append(r, e)
           n == Len(r)
<1>1. /\ n \in Nat /\ n >= 1 /\ i \in Nat /\ i >= 1 /\ i <= n
      /\ more[n + 1] = e /\ \A k \in 1 .. n : r[k] = more[k]
  OBVIOUS
<1> HIDE DEF more, n
<1>2. \A j \in i .. n : Firsts(more, i, j) = Firsts(r, i, j)
  <2> SUFFICES ASSUME NEW j \in i .. n PROVE Firsts(more, i, j) = Firsts(r, i, j)
    OBVIOUS
  <2>1. \A k \in i + 1 .. j : r[k] = more[k]
    BY <1>1
  <2> QED
    BY <2>1 DEF Firsts
<1>3. Firsts(more, i, n + 1) = Firsts(r, i, n) \cup (IF e.first THEN {n + 1} ELSE {})
  <2>1. \A k \in i + 1 .. n + 1 : k = n + 1 \/ (k \in i + 1 .. n /\ more[k] = r[k])
    BY <1>1
  <2>2. \A k \in i + 1 .. n : k \in i + 1 .. n + 1 /\ more[k] = r[k] /\ k # n + 1
    BY <1>1
  <2>3. n + 1 \in i + 1 .. n + 1
    BY <1>1
  <2> QED
    BY <1>1, <2>1, <2>2, <2>3 DEF Firsts
<1>4. n + 1 \notin Firsts(r, i, n)
  BY <1>1 DEF Firsts
<1>5. IsFiniteSet(Firsts(r, i, n)) /\ Cardinality(Firsts(r, i, n)) \in Nat
  BY <1>1, SessionsAreNumbers DEF n
<1>6. CASE e.first
  <2>1. Firsts(more, i, n + 1) = Firsts(r, i, n) \cup {n + 1}
    BY <1>3, <1>6
  <2>2. Cardinality(Firsts(r, i, n) \cup {n + 1}) = Cardinality(Firsts(r, i, n)) + 1
    BY <1>4, <1>5, FS_AddElement
  <2> QED
    BY <1>2, <1>6, <2>1, <2>2 DEF more, n
<1>7. CASE ~ e.first
  <2>1. Firsts(more, i, n + 1) = Firsts(r, i, n)
    BY <1>3, <1>7
  <2> QED
    BY <1>2, <1>5, <1>7, <2>1 DEF more, n
<1> QED
  BY <1>6, <1>7

-----------------------------------------------------------------------------
(* A burst and what it may cost *)

\* No long absence interrupts reveals i to j.
NoAbsence(r, i, j) == \A k \in i + 1 .. j : r[k].gap <= IdleSeconds

\* The tokens that reveals i to j can have had.
Allowed(r, i, j) ==
  Capacity * (1 + Cardinality(Firsts(r, i, j))) + GapSum(r, i, j) \div RegenSeconds

\* Every unbroken burst that ends now leaves room for what the bucket holds.
Reserved(r, left) ==
  \A i \in 1 .. Len(r) :
    NoAbsence(r, i, Len(r)) => Len(r) - i + 1 + left <= Allowed(r, i, Len(r))

Paced(r) ==
  \A i, j \in 1 .. Len(r) :
    i <= j /\ NoAbsence(r, i, j) => j - i + 1 <= Allowed(r, i, j)

LEMMA AllowedIsANumber ==
  ASSUME NEW r \in Seq(Entries), NEW i \in 1 .. Len(r), NEW j \in i .. Len(r)
  PROVE  /\ Allowed(r, i, j) \in Nat
         /\ i = j => Allowed(r, i, j) = Capacity
<1> DEFINE c == Cardinality(Firsts(r, i, j))
           s == GapSum(r, i, j)
<1>1. c \in Nat /\ s \in Nat /\ (i = j => c = 0 /\ s = 0)
  BY SessionsAreNumbers, SumsAreNumbers
<1>2. Allowed(r, i, j) = Capacity * (1 + c) + s \div RegenSeconds
  BY DEF Allowed
<1> HIDE DEF c, s
<1>3. \A C, x \in Nat : C * (1 + x) \in Nat
  OBVIOUS
<1>4. \A x \in Nat, q \in Nat \ {0} : x \div q \in Nat
  OBVIOUS
<1>5. \A C \in Nat : C * (1 + 0) = C
  OBVIOUS
<1>6. \A q \in Nat \ {0} : 0 \div q = 0
  OBVIOUS
<1>7. Capacity * (1 + c) \in Nat /\ s \div RegenSeconds \in Nat
  BY <1>1, <1>3, <1>4, BucketNumbers
<1>8. ASSUME i = j PROVE Allowed(r, i, j) = Capacity
  <2>1. Capacity * (1 + c) = Capacity /\ s \div RegenSeconds = 0
    BY <1>1, <1>5, <1>6, <1>8, BucketNumbers
  <2> QED
    BY <1>2, <2>1, BucketNumbers
<1> QED
  BY <1>2, <1>7, <1>8

\* What one more reveal adds to the allowance of the bursts before it.
LEMMA AllowanceGrows ==
  ASSUME NEW r \in Seq(Entries), NEW e \in Entries, NEW i \in 1 .. Len(r)
  PROVE  /\ \A j \in i .. Len(r) : Allowed(Append(r, e), i, j) = Allowed(r, i, j)
         /\ Allowed(r, i, Len(r)) + (IF e.first THEN Capacity ELSE 0)
              + e.gap \div RegenSeconds
              <= Allowed(Append(r, e), i, Len(r) + 1)
<1> DEFINE n == Len(r)
           more == Append(r, e)
           c == Cardinality(Firsts(r, i, n))
           s == GapSum(r, i, n)
           one == IF e.first THEN 1 ELSE 0
<1>1. \A j \in i .. n : Allowed(more, i, j) = Allowed(r, i, j)
  BY SessionsGrow, SumsGrow DEF Allowed
<1>2. c \in Nat /\ s \in Nat
  <2>1. n \in i .. n
    OBVIOUS
  <2> QED
    BY <2>1, SessionsAreNumbers, SumsAreNumbers
<1>3. e.gap \in Nat /\ one \in {0, 1}
  BY BucketNumbers DEF Entries
<1>4. Allowed(more, i, n + 1)
        = Capacity * (1 + (c + one)) + (s + e.gap) \div RegenSeconds
  BY SessionsGrow, SumsGrow DEF Allowed
<1>5. Allowed(r, i, n) = Capacity * (1 + c) + s \div RegenSeconds
  BY DEF Allowed
<1> HIDE DEF c, s, more, n
<1>6. /\ s \div RegenSeconds \in Nat /\ e.gap \div RegenSeconds \in Nat
      /\ (s + e.gap) \div RegenSeconds \in Nat
      /\ s \div RegenSeconds + e.gap \div RegenSeconds <= (s + e.gap) \div RegenSeconds
  BY <1>2, <1>3, BucketNumbers, PeriodsAddUp
<1>7. \A C, x \in Nat : /\ C * (1 + x) \in Nat
                        /\ C * (1 + (x + 0)) = C * (1 + x) + 0
                        /\ C * (1 + (x + 1)) = C * (1 + x) + C
  OBVIOUS
<1>8. /\ Capacity * (1 + c) \in Nat
      /\ Capacity * (1 + (c + one)) = Capacity * (1 + c) + (IF e.first THEN Capacity ELSE 0)
  BY <1>2, <1>7, BucketNumbers
<1> DEFINE A == Capacity * (1 + c)
           B == Capacity * (1 + (c + one))
           P == s \div RegenSeconds
           Q == e.gap \div RegenSeconds
           R == (s + e.gap) \div RegenSeconds
           F == IF e.first THEN Capacity ELSE 0
<1>9. /\ A \in Nat /\ P \in Nat /\ Q \in Nat /\ R \in Nat /\ F \in Nat
      /\ B = A + F /\ P + Q <= R
  BY <1>6, <1>8, BucketNumbers
<1>10. Allowed(more, i, n + 1) = B + R /\ Allowed(r, i, n) = A + P
  BY <1>4, <1>5
<1> HIDE DEF A, B, P, Q, R, F
<1>11. Allowed(r, i, n) + F + Q <= Allowed(more, i, n + 1)
  BY <1>9, <1>10
<1> QED
  BY <1>1, <1>11 DEF more, n, F, Q

\* A reveal that spends one token, of those that were left, of those the time
\* since has brought or of the bucket a new session starts with, keeps every
\* burst within its allowance.
LEMMA BurstsStayPaced ==
  ASSUME NEW r \in Seq(Entries), NEW e \in Entries,
         NEW left \in Levels, NEW new \in Levels,
         Reserved(r, left), Paced(r), new + 1 <= Capacity,
         ~ e.first /\ e.gap <= IdleSeconds => new + 1 <= left + e.gap \div RegenSeconds
  PROVE  Reserved(Append(r, e), new) /\ Paced(Append(r, e))
<1> DEFINE n == Len(r)
           more == Append(r, e)
<1>1. /\ more \in Seq(Entries) /\ Len(more) = n + 1 /\ n \in Nat
      /\ more[n + 1] = e /\ \A k \in 1 .. n : more[k] = r[k]
  OBVIOUS
<1>2. left \in Nat /\ new \in Nat
  BY BucketNumbers DEF Levels
<1>3. e.gap \div RegenSeconds \in Nat
  <2>1. e.gap \in Nat
    BY BucketNumbers DEF Entries
  <2>2. \A x \in Nat, q \in Nat \ {0} : x \div q \in Nat
    OBVIOUS
  <2> QED
    BY <2>1, <2>2, BucketNumbers
<1>4. \A i \in 1 .. n : /\ \A j \in i .. n : Allowed(more, i, j) = Allowed(r, i, j)
                        /\ Allowed(r, i, n) + (IF e.first THEN Capacity ELSE 0)
                             + e.gap \div RegenSeconds <= Allowed(more, i, n + 1)
                        /\ Allowed(r, i, n) \in Nat
  <2> SUFFICES ASSUME NEW i \in 1 .. n
               PROVE  /\ \A j \in i .. n : Allowed(more, i, j) = Allowed(r, i, j)
                      /\ Allowed(r, i, n) + (IF e.first THEN Capacity ELSE 0)
                           + e.gap \div RegenSeconds <= Allowed(more, i, n + 1)
                      /\ Allowed(r, i, n) \in Nat
    OBVIOUS
  <2>1. n \in i .. n
    OBVIOUS
  <2> QED
    BY <2>1, AllowanceGrows, AllowedIsANumber
<1>5. \A i \in 1 .. n + 1 : \A j \in i .. n + 1 : Allowed(more, i, j) \in Nat
  BY <1>1, AllowedIsANumber
<1>6. Allowed(more, n + 1, n + 1) = Capacity
  <2>1. n + 1 \in 1 .. Len(more) /\ n + 1 \in n + 1 .. Len(more)
    BY <1>1
  <2> QED
    BY <1>1, <2>1, AllowedIsANumber
<1>7. \A i \in 1 .. n : NoAbsence(r, i, n) => n - i + 1 + left <= Allowed(r, i, n)
  BY DEF Reserved
<1>8. \A i, j \in 1 .. n :
         i <= j /\ NoAbsence(r, i, j) => j - i + 1 <= Allowed(r, i, j)
  BY DEF Paced
<1> HIDE DEF n, more
<1>9. ASSUME NEW i \in 1 .. n + 1, NoAbsence(more, i, n + 1)
      PROVE  (n + 1) - i + 1 + new <= Allowed(more, i, n + 1)
  <2>1. CASE i = n + 1
    BY <1>1, <1>2, <1>6, <2>1, BucketNumbers
  <2>2. CASE i \in 1 .. n
    <3>1. NoAbsence(r, i, n)
      <4>1. \A k \in i + 1 .. n : k \in i + 1 .. n + 1 /\ more[k] = r[k]
        BY <1>1, <2>2
      <4> QED
        BY <1>9, <4>1 DEF NoAbsence
    <3>2. e.gap <= IdleSeconds
      <4>1. n + 1 \in i + 1 .. n + 1
        BY <1>1, <2>2
      <4> QED
        BY <1>1, <1>9, <4>1 DEF NoAbsence
    <3> DEFINE Q == e.gap \div RegenSeconds
               A == Allowed(r, i, n)
               B == Allowed(more, i, n + 1)
    <3>3. /\ n - i + 1 + left <= A
          /\ A + (IF e.first THEN Capacity ELSE 0) + Q <= B
          /\ A \in Nat /\ Q \in Nat
      BY <1>3, <1>4, <1>7, <2>2, <3>1
    <3>4. B \in Nat
      <4>1. n + 1 \in i .. n + 1
        BY <1>1, <2>2
      <4> QED
        BY <1>5, <4>1
    <3>5. ~ e.first => new + 1 <= left + Q
      BY <3>2
    <3> HIDE DEF A, B, Q
    <3>6. i \in Nat
      BY <1>1, <2>2
    <3>7. e.first => (n + 1) - i + 1 + new <= B
      BY <1>1, <1>2, <3>3, <3>4, <3>6, BucketNumbers
    <3>8. ~ e.first => (n + 1) - i + 1 + new <= B
      BY <1>1, <1>2, <3>3, <3>4, <3>5, <3>6
    <3>9. (n + 1) - i + 1 + new <= B
      BY <3>7, <3>8
    <3> QED
      BY <3>9 DEF B
  <2> QED
    BY <1>1, <2>1, <2>2
<1>10. Reserved(more, new)
  BY <1>1, <1>9 DEF Reserved
<1>11. ASSUME NEW i \in 1 .. n + 1, NEW j \in 1 .. n + 1, i <= j, NoAbsence(more, i, j)
       PROVE  j - i + 1 <= Allowed(more, i, j)
  <2>1. CASE j = n + 1
    <3>1. (n + 1) - i + 1 + new <= Allowed(more, i, n + 1)
      BY <1>9, <1>11, <2>1
    <3>2. Allowed(more, i, n + 1) \in Nat
      <4>1. n + 1 \in i .. n + 1
        BY <1>1, <1>11
      <4> QED
        BY <1>5, <4>1
    <3> QED
      BY <1>1, <1>2, <2>1, <3>1, <3>2
  <2>2. CASE j # n + 1
    <3>1. i \in 1 .. n /\ j \in 1 .. n /\ j \in i .. n
      BY <1>1, <1>11, <2>2
    <3>2. NoAbsence(r, i, j)
      <4>1. \A k \in i + 1 .. j : more[k] = r[k]
        BY <1>1, <3>1
      <4> QED
        BY <1>11, <4>1 DEF NoAbsence
    <3>3. Allowed(more, i, j) = Allowed(r, i, j)
      BY <1>4, <3>1
    <3> QED
      BY <1>8, <1>11, <3>1, <3>2, <3>3
  <2> QED
    BY <2>1, <2>2
<1>12. Paced(more)
  BY <1>1, <1>11 DEF Paced
<1> QED
  BY <1>10, <1>12 DEF more

-----------------------------------------------------------------------------
(* The inductive invariant *)

Shape ==
  /\ current \in 0 .. Total - 1
  /\ highWater \in 0 .. Total - 1
  /\ paid \in Seq(Gaps)
  /\ reveals \in Seq(Entries)
  /\ since \in Gaps
  /\ outcome \in Outcomes

\* What this session's reveals left in the bucket.  A session without one
\* has its first bucket still to come, and its first reveal is marked.
Left == IF paid = << >> THEN 0 ELSE LastLeft(paid)

Thrift ==
  /\ current <= highWater
  /\ highWater = Len(reveals)
  /\ Reserved(reveals, Left)
  /\ Paced(reveals)

IInv == Shape /\ Thrift

LEMMA LeftInRange == ASSUME Shape PROVE Left \in Levels
<1>1. 0 \in Levels
  BY BucketNumbers DEF Levels
<1>2. 0 \in Gaps
  BY BucketNumbers DEF Gaps
<1> QED
  BY <1>1, <1>2, TokensInRange DEF Shape, Left

LEMMA InitThrifty == Init => IInv
<1> SUFFICES ASSUME Init PROVE IInv
  OBVIOUS
<1> USE DEF Init
<1>1. Shape
  BY BucketNumbers, EconomyAssumption DEF Shape, Gaps, Outcomes
<1>2. Len(reveals) = 0
  OBVIOUS
<1>3. Thrift
  BY <1>2 DEF Thrift, Reserved, Paced
<1> QED
  BY <1>1, <1>3 DEF IInv

\* A paid reveal.
LEMMA PaidRevealThrifty ==
  ASSUME IInv, TryReveal(current, highWater, Total, Tokens) = "advanced_paid",
         outcome' = "advanced_paid", current' = current + 1, Settle(current + 1)
  PROVE  IInv'
<1> DEFINE e == [gap |-> since, first |-> paid = << >>]
<1>1. /\ current \in 0 .. Total - 1 /\ highWater \in 0 .. Total - 1 /\ paid \in Seq(Gaps)
      /\ reveals \in Seq(Entries) /\ since \in Gaps /\ current <= highWater
      /\ highWater = Len(reveals) /\ Reserved(reveals, Left) /\ Paced(reveals)
  BY DEF IInv, Shape, Thrift
<1>2. Total \in Nat \ {0}
  BY EconomyAssumption
<1>3. current + 1 < Total /\ current + 1 > highWater /\ Tokens # 0
  BY <1>1, <1>2 DEF TryReveal
<1>4. current = highWater
  BY <1>1, <1>2, <1>3
<1>5. Left \in Levels /\ Tokens \in Levels
  BY <1>1, LeftInRange, TokensInRange DEF IInv, Tokens
<1>6. e \in Entries /\ e.gap = since /\ e.first = (paid = << >>)
  BY <1>1 DEF Entries, Gaps
<1>7. /\ highWater' = current + 1 /\ paid' = Append(paid, since)
      /\ reveals' = Append(reveals, e) /\ since' = 0
  BY DEF Settle
<1> HIDE DEF e
<1>8. paid' \in Seq(Gaps) /\ paid' # << >>
  BY <1>1, <1>7
<1>9. Left' = Tokens - 1
  <2>1. Left' = LastLeft(Append(paid, since))
    BY <1>7, <1>8 DEF Left
  <2>2. LastLeft(Append(paid, since)) = Spend(Tokens)
    BY <1>1, PaidRevealSpendsOne DEF Tokens
  <2> QED
    BY <1>3, <1>5, <2>1, <2>2, SpendInRange
<1>10. Left' \in Levels /\ Left' + 1 <= Capacity
  BY <1>3, <1>5, <1>9, BucketNumbers DEF Levels
<1>11. ~ e.first /\ e.gap <= IdleSeconds => Left' + 1 <= Left + e.gap \div RegenSeconds
  <2> SUFFICES ASSUME paid # << >>, since <= IdleSeconds
               PROVE  Left' + 1 <= Left + since \div RegenSeconds
    BY <1>6
  <2>1. Tokens = Credited(Left, since)
    BY <1>1, TokensInRange DEF Tokens, Left
  <2>2. since \in Nat
    BY <1>1, BucketNumbers DEF Gaps
  <2>3. Tokens <= Left + since \div RegenSeconds
    BY <1>5, <2>1, <2>2, CreditedInRange
  <2>4. Left' + 1 = Tokens
    BY <1>5, <1>9, BucketNumbers DEF Levels
  <2> QED
    BY <2>3, <2>4
<1>12. Reserved(reveals', Left') /\ Paced(reveals')
  <2> DEFINE left == Left
             new == Left'
             r == reveals
  <2>1. /\ r \in Seq(Entries) /\ left \in Levels /\ new \in Levels
        /\ Reserved(r, left) /\ Paced(r) /\ new + 1 <= Capacity
        /\ ~ e.first /\ e.gap <= IdleSeconds => new + 1 <= left + e.gap \div RegenSeconds
    BY <1>1, <1>5, <1>10, <1>11
  <2> HIDE DEF left, new, r
  <2>2. Reserved(Append(r, e), new) /\ Paced(Append(r, e))
    BY <1>6, <2>1, BurstsStayPaced
  <2> QED
    BY <1>7, <2>2 DEF r, new
<1>13. Shape'
  <2>1. reveals' \in Seq(Entries)
    BY <1>1, <1>6, <1>7
  <2>2. since' \in Gaps
    BY <1>7, BucketNumbers DEF Gaps
  <2>3. current' \in 0 .. Total - 1 /\ highWater' \in 0 .. Total - 1
    BY <1>1, <1>2, <1>3, <1>7
  <2> QED
    BY <1>8, <2>1, <2>2, <2>3 DEF Shape, Outcomes
<1>14. current' <= highWater' /\ highWater' = Len(reveals')
  BY <1>1, <1>4, <1>6, <1>7
<1>15. Thrift'
  BY <1>12, <1>14 DEF Thrift
<1> QED
  BY <1>13, <1>15 DEF IInv

\* A step that makes no new reveal and leaves this session's as they are, or
\* forgets them.
LEMMA NoRevealThrifty ==
  ASSUME IInv, current' \in 0 .. Total - 1, current' <= highWater,
         UNCHANGED <<highWater, reveals>>, paid' \in {paid, << >>},
         since' \in Gaps, outcome' \in Outcomes
  PROVE  IInv'
<1>1. Shape'
  <2>1. paid' \in Seq(Gaps)
    <3>1. << >> \in Seq(Gaps) /\ paid \in Seq(Gaps)
      BY DEF IInv, Shape
    <3> QED
      BY <3>1
  <2>2. highWater' \in 0 .. Total - 1 /\ reveals' \in Seq(Entries)
    BY DEF IInv, Shape
  <2> QED
    BY <2>1, <2>2 DEF Shape
<1>2. Left \in Levels /\ Left' \in {Left, 0}
  BY LeftInRange DEF IInv, Left
<1>3. Reserved(reveals, Left')
  <2>1. CASE Left' = Left
    BY <2>1 DEF IInv, Thrift
  <2>2. CASE Left' = 0
    <3>1. Reserved(reveals, 0)
      <4> SUFFICES ASSUME NEW i \in 1 .. Len(reveals), NoAbsence(reveals, i, Len(reveals))
                   PROVE  Len(reveals) - i + 1 + 0
                            <= Allowed(reveals, i, Len(reveals))
        BY DEF Reserved
      <4>1. Len(reveals) - i + 1 + Left <= Allowed(reveals, i, Len(reveals))
        BY DEF IInv, Thrift, Reserved
      <4>2. Allowed(reveals, i, Len(reveals)) \in Nat
        <5>1. reveals \in Seq(Entries) /\ Len(reveals) \in i .. Len(reveals)
          BY DEF IInv, Shape
        <5> QED
          BY <5>1, AllowedIsANumber
      <4>3. Left \in Nat /\ Len(reveals) \in Nat
        BY <1>2, BucketNumbers DEF Levels, IInv, Shape
      <4> HIDE DEF Left
      <4> QED
        BY <4>1, <4>2, <4>3
    <3> QED
      BY <2>2, <3>1
  <2> QED
    BY <1>2, <2>1, <2>2
<1>4. Thrift'
  BY <1>3 DEF IInv, Thrift
<1> QED
  BY <1>1, <1>4 DEF IInv

LEMMA PressThrifty == ASSUME IInv, Press PROVE IInv'
<1> DEFINE reason == TryReveal(current, highWater, Total, Tokens)
<1>1. /\ current \in 0 .. Total - 1 /\ highWater \in 0 .. Total - 1
      /\ current <= highWater /\ since \in Gaps /\ Total \in Nat \ {0}
  BY EconomyAssumption DEF IInv, Shape, Thrift
<1>2. /\ reason \in {"end_of_document", "advanced_free", "bucket_empty", "advanced_paid"}
      /\ reason = "advanced_free" => current + 1 < Total /\ current + 1 <= highWater
  BY <1>1 DEF TryReveal
<1>3. /\ outcome' = reason
      /\ current' = IF Advances(reason) THEN current + 1 ELSE current
      /\ reason = "advanced_paid" => Settle(current + 1)
      /\ reason # "advanced_paid" => UNCHANGED <<highWater, paid, reveals, since>>
  BY DEF Press
<1>4. CASE reason = "advanced_paid"
  BY <1>3, <1>4, PaidRevealThrifty DEF Advances
<1>5. CASE reason # "advanced_paid"
  <2>1. UNCHANGED <<highWater, paid, reveals, since>>
    BY <1>3, <1>5
  <2>2. reason = "advanced_free" => current' = current + 1
    BY <1>3 DEF Advances
  <2>3. reason # "advanced_free" => current' = current
    BY <1>3, <1>5 DEF Advances
  <2>4. outcome' \in Outcomes
    BY <1>2, <1>3 DEF Outcomes
  <2> HIDE DEF reason
  <2>5. current' \in 0 .. Total - 1 /\ current' <= highWater
    BY <1>1, <1>2, <2>2, <2>3
  <2> QED
    BY <1>1, <2>1, <2>4, <2>5, NoRevealThrifty
<1> QED
  BY <1>4, <1>5

LEMMA NextThrifty == IInv /\ [Next]_vars => IInv'
<1> SUFFICES ASSUME IInv, [Next]_vars PROVE IInv'
  OBVIOUS
<1>1. /\ current \in 0 .. Total - 1 /\ highWater \in 0 .. Total - 1
      /\ current <= highWater /\ since \in Gaps /\ outcome \in Outcomes
      /\ Total \in Nat \ {0} /\ WarmChunks \in Nat
  BY EconomyAssumption DEF IInv, Shape, Thrift
<1>2. CASE Press
  BY <1>2, PressThrifty
<1>3. CASE Conceal
  BY <1>1, <1>3, NoRevealThrifty DEF Conceal, Outcomes
<1>4. CASE Reopen
  BY <1>1, <1>4, NoRevealThrifty DEF Reopen, Outcomes
<1>5. CASE Tick
  <2>1. since' \in Gaps
    BY <1>1, <1>5, BucketNumbers DEF Tick, Gaps
  <2> QED
    BY <1>1, <1>5, <2>1, NoRevealThrifty DEF Tick
<1>6. CASE UNCHANGED vars
  BY <1>1, <1>6, NoRevealThrifty DEF vars
<1> QED
  BY <1>2, <1>3, <1>4, <1>5, <1>6 DEF Next

LEMMA AlwaysThrifty == Spec => []IInv
<1> QED
  BY InitThrifty, NextThrifty, PTL DEF Spec

-----------------------------------------------------------------------------
(* The theorems *)

\* tokens_now answers with a count in [0, capacity] whatever the history of
\* presses, pauses and reopenings, and the positions stay inside the document.
THEOREM BucketsKeepTheirBounds == Spec => []TypeOK
<1>1. IInv => TypeOK
  <2> SUFFICES ASSUME IInv PROVE TypeOK
    OBVIOUS
  <2>1. Tokens \in Levels
    BY TokensInRange DEF IInv, Shape, Tokens
  <2> QED
    BY <2>1 DEF IInv, Shape, TypeOK, Gaps, Entries, Levels
<1> QED
  BY <1>1, AlwaysThrifty, PTL

\* Every chunk of the frontier was paid for, and no unbroken burst of a
\* session is longer than one bucket and one token for each regeneration
\* period (try_reveal, tokens_now).
THEOREM ReadingIsPaced == Spec => []PacingBound
<1>1. IInv => PacingBound
  <2> SUFFICES ASSUME IInv PROVE PacingBound
    OBVIOUS
  <2>1. highWater = Len(reveals) /\ Paced(reveals)
    BY DEF IInv, Thrift
  <2>2. ASSUME NEW i \in 1 .. Len(reveals), NEW j \in 1 .. Len(reveals), i <= j,
               Unbroken(i, j), \A k \in i + 1 .. j : ~ reveals[k].first
        PROVE  WithinBucket(i, j)
    <3>1. NoAbsence(reveals, i, j)
      BY <2>2 DEF Unbroken, NoAbsence
    <3>2. j - i + 1 <= Allowed(reveals, i, j)
      BY <2>1, <2>2, <3>1 DEF Paced
    <3>3. Firsts(reveals, i, j) = {}
      BY <2>2 DEF Firsts
    <3>4. Capacity * (1 + Cardinality(Firsts(reveals, i, j))) = Capacity
      <4>1. \A c \in Nat : c * (1 + 0) = c
        OBVIOUS
      <4> QED
        BY <3>3, <4>1, FS_EmptySet, BucketNumbers
    <3>5. Span(i, j) = GapSum(reveals, i, j)
      BY DEF Span, GapSum, SumAfter
    <3> QED
      BY <3>2, <3>4, <3>5 DEF Allowed, WithinBucket
  <2> QED
    BY <2>1, <2>2 DEF PacingBound
<1> QED
  BY <1>1, AlwaysThrifty, PTL

===============================================================================
