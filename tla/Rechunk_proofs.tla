---------------------------- MODULE Rechunk_proofs ----------------------------
(***************************************************************************)
(* Theorems about re-chunking, for every text, every set of ways to chunk  *)
(* it and any number of requests.                                          *)
(***************************************************************************)
EXTENDS Rechunk, FunctionTheorems, FiniteSetTheorems, TLAPS

-----------------------------------------------------------------------------
(* Least numbers and highest fractions *)

\* A set of numbers has a least one: the initial segments that end in it are
\* well founded under inclusion.
LEMMA LeastNatural ==
    ASSUME NEW T \in SUBSET Nat, T # {}
    PROVE  \E x \in T : \A y \in T : x <= y
  <1> DEFINE Below == {1 .. x : x \in T}
  <1>1. Below \subseteq FiniteSubsetsOf(Nat) /\ Below # {}
    <2>1. \A x \in T : 1 .. x \subseteq Nat /\ IsFiniteSet(1 .. x)
      BY FS_Interval
    <2> QED
      BY <2>1 DEF FiniteSubsetsOf
  <1>2. PICK b \in Below : \A c \in Below : ~ (<<c, b>> \in StrictSubsetOrdering(Nat))
    BY <1>1, FS_StrictSubsetOrderingWellFounded, WFMin
  <1>3. PICK x \in T : b = 1 .. x
    BY <1>2
  <1>4. ASSUME NEW y \in T, y < x PROVE FALSE
    <2>1. 1 .. y \in Below /\ 1 .. y \subseteq Nat /\ 1 .. x \subseteq Nat
      OBVIOUS
    <2>2. 1 .. y \subseteq 1 .. x /\ 1 .. y # 1 .. x
      <3>1. x \in 1 .. x /\ x \notin 1 .. y
        BY <1>4
      <3> QED
        BY <1>4, <3>1
    <2>3. <<1 .. y, 1 .. x>> \in StrictSubsetOrdering(Nat)
      BY <2>1, <2>2 DEF StrictSubsetOrdering
    <2> QED
      BY <1>2, <1>3, <2>1, <2>3
  <1> QED
    BY <1>4

Fractions == [num : Nat, den : Nat \ {0}]

LEMMA FractionsAreOrdered ==
    ASSUME NEW r \in Fractions, NEW s \in Fractions, NEW t \in Fractions,
           AtLeast(r, s), AtLeast(s, t)
    PROVE  AtLeast(r, t)
  <1> DEFINE a == r.num
             b == r.den
             c == s.num
             d == s.den
             e == t.num
             f == t.den
  <1>1. /\ a \in Nat /\ b \in Nat \ {0} /\ c \in Nat /\ d \in Nat \ {0}
        /\ e \in Nat /\ f \in Nat \ {0}
    BY DEF Fractions
  <1>2. a * d >= c * b /\ c * f >= e * d
    BY DEF AtLeast
  <1>3. a * f >= e * b => AtLeast(r, t)
    BY DEF AtLeast
  <1> HIDE DEF a, b, c, d, e, f
  <1>4. (a * d) * f >= (c * b) * f
    BY <1>1, <1>2
  <1>5. (c * f) * b >= (e * d) * b
    BY <1>1, <1>2
  <1> DEFINE x == a * f
             y == e * b
  <1>6. x \in Nat /\ y \in Nat /\ x * d >= y * d
    BY <1>1, <1>4, <1>5
  <1> HIDE DEF x, y
  <1>7. x >= y
    <2> SUFFICES ASSUME y > x PROVE FALSE
      BY <1>6
    <2>1. y * d > x * d
      BY <1>1, <1>6
    <2> QED
      BY <1>1, <1>6, <2>1
  <1> QED
    BY <1>3, <1>7 DEF x, y

\* Of finitely many fractions one is the highest: otherwise there is a least
\* number of them without one, and the last of those is the highest after all.
LEMMA HighestFraction ==
    ASSUME NEW n \in Nat \ {0}, NEW f \in [1 .. n -> Fractions]
    PROVE  \E i \in 1 .. n : \A j \in 1 .. n : AtLeast(f[i], f[j])
  <1> DEFINE Highest(i, m) == \A j \in 1 .. m : AtLeast(f[i], f[j])
             T == {m \in 1 .. n : ~ \E i \in 1 .. m : Highest(i, m)}
  <1> SUFFICES ASSUME n \in T PROVE FALSE
    OBVIOUS
  <1>1. PICK m \in T : \A k \in T : m <= k
    <2>1. \A m \in T : m \in 1 .. n
      OBVIOUS
    <2>2. n \in T
      OBVIOUS
    <2> HIDE DEF T
    <2>3. T \in SUBSET Nat /\ T # {}
      BY <2>1, <2>2
    <2> QED
      BY <2>3, LeastNatural
  <1>2. \A i, j \in 1 .. n : AtLeast(f[i], f[j]) \/ AtLeast(f[j], f[i])
    <2>1. ASSUME NEW r \in Fractions, NEW s \in Fractions
          PROVE  AtLeast(r, s) \/ AtLeast(s, r)
      <3>1. r.num * s.den \in Nat /\ s.num * r.den \in Nat
        <4>1. \A a, b \in Nat : a * b \in Nat
          OBVIOUS
        <4>2. r.num \in Nat /\ s.den \in Nat /\ s.num \in Nat /\ r.den \in Nat
          BY DEF Fractions
        <4> QED
          BY <4>1, <4>2
      <3> DEFINE x == r.num * s.den
                 y == s.num * r.den
      <3>2. x \in Nat /\ y \in Nat
        BY <3>1
      <3>3. (x >= y <=> AtLeast(r, s)) /\ (y >= x <=> AtLeast(s, r))
        BY DEF AtLeast
      <3> HIDE DEF x, y
      <3> QED
        BY <3>2, <3>3
    <2>2. \A i \in 1 .. n : f[i] \in Fractions
      OBVIOUS
    <2> QED
      BY <2>1, <2>2
  <1>3. CASE m = 1
    <2>1. Highest(1, 1)
      BY <1>2
    <2> QED
      BY <1>3, <2>1
  <1>4. CASE m # 1
    <2>1. m - 1 \in 1 .. n /\ m - 1 \notin T /\ m \in 1 .. n
      <3>1. m \in 1 .. n
        BY <1>1
      <3> HIDE DEF T
      <3> QED
        BY <1>1, <1>4, <3>1
    <2>2. PICK i \in 1 .. (m - 1) : Highest(i, m - 1)
      BY <2>1
    <2>3. i \in 1 .. n /\ i \in 1 .. m /\ \A j \in 1 .. m : j = m \/ j \in 1 .. (m - 1)
      BY <2>1
    <2>4. CASE AtLeast(f[i], f[m])
      <3>1. Highest(i, m)
        BY <2>2, <2>3, <2>4
      <3> QED
        BY <2>3, <3>1
    <2>5. CASE AtLeast(f[m], f[i])
      <3>1. ASSUME NEW j \in 1 .. m PROVE AtLeast(f[m], f[j])
        <4>1. CASE j = m
          BY <1>2, <2>1, <4>1
        <4>2. CASE j \in 1 .. (m - 1)
          <5>1. AtLeast(f[i], f[j]) /\ j \in 1 .. n
            BY <2>1, <2>2, <4>2
          <5> QED
            BY <2>1, <2>3, <2>5, <5>1, FractionsAreOrdered
        <4> QED
          BY <2>3, <4>1, <4>2
      <3>2. Highest(m, m) /\ m \in 1 .. m
        BY <2>1, <3>1
      <3> QED
        BY <3>2
    <2> QED
      BY <1>2, <2>1, <2>3, <2>4, <2>5
  <1> QED
    BY <1>3, <1>4

-----------------------------------------------------------------------------
(* Chunkings *)

\* The chunks of a plan are sets of ordinals with something in them.
LEMMA PlanChunks ==
    ASSUME NEW plan \in Plans
    PROVE  /\ plan \in Seq((SUBSET Ordinals) \ {{}}) /\ plan # <<>>
           /\ Len(plan) \in Nat \ {0}
           /\ \A i \in 1 .. Len(plan) : plan[i] \subseteq Ordinals /\ plan[i] # {}
  <1>1. plan \in Seq((SUBSET Ordinals) \ {{}}) /\ Len(plan) > 0
    BY RechunkAssumption
  <1>2. Len(plan) \in Nat \ {0} /\ plan # <<>>
    BY <1>1
  <1>3. \A i \in 1 .. Len(plan) : plan[i] \in (SUBSET Ordinals) \ {{}}
    BY <1>1
  <1> QED
    BY <1>1, <1>2, <1>3

\* Chunks share no piece, so there are no more chunks than pieces.
LEMMA PlanLength ==
    ASSUME NEW plan \in Plans
    PROVE  Len(plan) \in 1 .. Len(Text)
  <1> DEFINE n == Len(plan)
             piece == [i \in 1 .. n |-> CHOOSE o \in plan[i] : TRUE]
  <1>1. n \in Nat \ {0} /\ Len(Text) \in Nat
    BY PlanChunks, RechunkAssumption
  <1>2. \A i \in 1 .. n : piece[i] \in plan[i] /\ piece[i] \in 1 .. Len(Text)
    BY PlanChunks DEF Ordinals
  <1>3. \A i, j \in 1 .. n : i # j => plan[i] \cap plan[j] = {}
    BY RechunkAssumption
  <1>4. piece \in Injection(1 .. n, 1 .. Len(Text))
    BY <1>2, <1>3, Fun_IsInj
  <1>5. Cardinality(1 .. n) <= Cardinality(1 .. Len(Text))
    BY <1>1, <1>4, FS_Interval, FS_Injection
  <1>6. Cardinality(1 .. n) = n /\ Cardinality(1 .. Len(Text)) = Len(Text)
    <2>1. 1 \in Int /\ n \in Int /\ Len(Text) \in Int
      BY <1>1
    <2> DEFINE t == Len(Text)
    <2>2. n \in Nat /\ n > 0 /\ t \in Nat /\ t > 0
      BY <1>1, RechunkAssumption
    <2> HIDE DEF n, t
    <2>3. Cardinality(1 .. n) = n /\ Cardinality(1 .. t) = t
      BY <2>2, FS_Interval
    <2> QED
      BY <2>3 DEF t
  <1> QED
    BY <1>1, <1>5, <1>6

-----------------------------------------------------------------------------
(* Carrying a position over *)

LEMMA HashesAreFinite ==
    ASSUME NEW chunk \in SUBSET Ordinals
    PROVE  IsFiniteSet(Hashes(chunk)) /\ (chunk # {} => Hashes(chunk) # {})
  <1>1. IsFiniteSet(Ordinals)
    BY RechunkAssumption, FS_Interval DEF Ordinals
  <1>4. IsFiniteSet(chunk)
    BY <1>1, FS_Subset
  <1>2. [o \in chunk |-> Text[o]] \in Surjection(chunk, Hashes(chunk))
    BY Fun_IsSurj DEF Hashes
  <1>3. IsFiniteSet(Hashes(chunk))
    BY <1>4, <1>2, FS_Surjection
  <1> QED
    BY <1>3 DEF Hashes

LEMMA JaccardProperties ==
    ASSUME NEW a, NEW b, IsFiniteSet(a), IsFiniteSet(b), a # {}
    PROVE  LET score == Jaccard(a, b)
           IN  /\ score \in Fractions
               /\ score.num > 0 <=> a \cap b # {}
               /\ score.num <= score.den
               /\ score.num = score.den <=> a = b
  <1> DEFINE u == a \cup b
             i == a \cap b
  <1>1. IsFiniteSet(u) /\ i \in SUBSET u /\ u # {}
    BY FS_Union
  <1>2. IsFiniteSet(i) /\ Cardinality(i) <= Cardinality(u)
        /\ (Cardinality(u) = Cardinality(i) => u = i)
    BY <1>1, FS_Subset
  <1>3. Cardinality(u) \in Nat \ {0} /\ Cardinality(i) \in Nat
    BY <1>1, <1>2, FS_CardinalityType, FS_EmptySet
  <1>4. Cardinality(i) > 0 <=> i # {}
    BY <1>2, <1>3, FS_EmptySet
  <1>5. Cardinality(i) = Cardinality(u) <=> a = b
    BY <1>2
  <1>6. Jaccard(a, b) = [num |-> Cardinality(i), den |-> Cardinality(u)]
    BY DEF Jaccard
  <1> QED
    BY <1>2, <1>3, <1>4, <1>5, <1>6 DEF Fractions

Score(old, new, i) == Jaccard(Hashes(old), Hashes(new[i]))

LEMMA ScoreProperties ==
    ASSUME NEW old \in SUBSET Ordinals, old # {}, NEW new \in Plans,
           NEW i \in 1 .. Len(new)
    PROVE  /\ Score(old, new, i) \in Fractions
           /\ Score(old, new, i).num > 0 <=> Hashes(old) \cap Hashes(new[i]) # {}
           /\ Score(old, new, i).num <= Score(old, new, i).den
           /\ Score(old, new, i).num = Score(old, new, i).den
                <=> Hashes(old) = Hashes(new[i])
  <1>1. new[i] \in SUBSET Ordinals
    BY PlanChunks
  <1>2. /\ IsFiniteSet(Hashes(old)) /\ IsFiniteSet(Hashes(new[i]))
        /\ Hashes(old) # {}
    BY <1>1, HashesAreFinite
  <1> QED
    BY <1>2, JaccardProperties DEF Score

\* What best_chunk_by_jaccard returns: nothing, or a chunk that shares a hash
\* with the old one and is the first of the highest score.
LEMMA BestChunkProperties ==
    ASSUME NEW old, NEW new \in Plans
    PROVE  LET b == BestChunk(old, new)
           IN  \/ /\ b = 0
                  /\ ~ \E i \in 1 .. Len(new) :
                         /\ Score(old, new, i).num > 0
                         /\ \A j \in 1 .. Len(new) :
                               AtLeast(Score(old, new, i), Score(old, new, j))
               \/ /\ b \in 1 .. Len(new)
                  /\ Score(old, new, b).num > 0
                  /\ \A j \in 1 .. Len(new) :
                        AtLeast(Score(old, new, b), Score(old, new, j))
                  /\ \A i \in 1 .. b - 1 :
                        ~ /\ Score(old, new, i).num > 0
                          /\ \A j \in 1 .. Len(new) :
                                AtLeast(Score(old, new, i), Score(old, new, j))
  <1> DEFINE Good(i) == /\ Score(old, new, i).num > 0
                        /\ \A j \in 1 .. Len(new) :
                              AtLeast(Score(old, new, i), Score(old, new, j))
             best == {i \in 1 .. Len(new) : Good(i)}
             First(i) == \A j \in best : i <= j
             b == BestChunk(old, new)
  <1>1. b = IF best = {} THEN 0 ELSE CHOOSE i \in best : First(i)
    BY DEF BestChunk, Score
  <1>2. /\ \A i \in best : i \in 1 .. Len(new) /\ Good(i)
        /\ \A i \in 1 .. Len(new) : Good(i) => i \in best
    OBVIOUS
  <1>3. Len(new) \in Nat
    BY PlanChunks
  <1> HIDE DEF Good, best, b
  <1>4. CASE best = {}
    BY <1>1, <1>2, <1>4 DEF b, Good
  <1>5. CASE best # {}
    <2>1. best \in SUBSET Nat
      BY <1>2, <1>3
    <2>2. \E i \in best : First(i)
      BY <1>5, <2>1, LeastNatural
    <2>3. b \in best /\ First(b)
      BY <1>1, <1>5, <2>2
    <2>4. b \in 1 .. Len(new) /\ Good(b)
      BY <1>2, <2>3
    <2>5. ASSUME NEW i \in 1 .. b - 1 PROVE ~ Good(i)
      <3>1. i \in 1 .. Len(new) /\ ~ (b <= i)
        BY <1>3, <2>4
      <3> QED
        BY <1>2, <2>3, <3>1
    <2> QED
      BY <2>4, <2>5 DEF b, Good
  <1> QED
    BY <1>4, <1>5

\* A chunk of the text finds one that shares a hash with it.
LEMMA BestChunkOverlaps ==
    ASSUME NEW old \in SUBSET Ordinals, old # {}, NEW new \in Plans
    PROVE  /\ BestChunk(old, new) \in 1 .. Len(new)
           /\ Hashes(old) \cap Hashes(new[BestChunk(old, new)]) # {}
  <1> DEFINE n == Len(new)
             f == [i \in 1 .. n |-> Score(old, new, i)]
             b == BestChunk(old, new)
  <1>1. n \in Nat \ {0}
    BY PlanChunks
  <1>2. f \in [1 .. n -> Fractions]
    BY ScoreProperties
  <1>3. PICK i \in 1 .. n : \A j \in 1 .. n : AtLeast(f[i], f[j])
    <2> HIDE DEF n, f
    <2> QED
      BY <1>1, <1>2, HighestFraction
  <1>4. \A j \in 1 .. n : AtLeast(Score(old, new, i), Score(old, new, j))
    BY <1>3
  <1>5. PICK o \in old : o \in Ordinals
    OBVIOUS
  <1>6. PICK j \in 1 .. n : o \in new[j]
    BY <1>5, RechunkAssumption
  <1>7. Score(old, new, j).num > 0
    <2>1. Text[o] \in Hashes(old) \cap Hashes(new[j])
      BY <1>6 DEF Hashes
    <2> QED
      BY <2>1, ScoreProperties
  <1>8. Score(old, new, i).num > 0
    <2> DEFINE s == Score(old, new, i)
               t == Score(old, new, j)
    <2>1. /\ s.num \in Nat /\ s.den \in Nat \ {0} /\ t.num \in Nat /\ t.den \in Nat \ {0}
          /\ t.num > 0 /\ s.num * t.den >= t.num * s.den
      BY <1>4, <1>7, ScoreProperties DEF Fractions, AtLeast
    <2>2. \A p, q, r, u \in Nat : p * q >= r * u /\ r > 0 /\ u > 0 => p > 0
      OBVIOUS
    <2>3. s.den > 0 /\ s.den \in Nat /\ t.den \in Nat
      BY <2>1
    <2> HIDE DEF s, t
    <2>4. s.num > 0
      BY <2>1, <2>2, <2>3
    <2> QED
      BY <2>4 DEF s
  <1>9. b \in 1 .. n /\ Score(old, new, b).num > 0
    BY <1>4, <1>8, BestChunkProperties
  <1> QED
    BY <1>9, ScoreProperties

\* Among the chunks it comes from it finds one of the same text.
LEMMA BestChunkOfItself ==
    ASSUME NEW plan \in Plans, NEW i \in 1 .. Len(plan)
    PROVE  /\ BestChunk(plan[i], plan) \in 1 .. Len(plan)
           /\ Hashes(plan[BestChunk(plan[i], plan)]) = Hashes(plan[i])
  <1> DEFINE old == plan[i]
             b == BestChunk(old, plan)
             s == Score(old, plan, b)
             t == Score(old, plan, i)
  <1>1. old \in SUBSET Ordinals /\ old # {}
    BY PlanChunks
  <1>2. b \in 1 .. Len(plan) /\ AtLeast(s, t)
    <2>1. b \in 1 .. Len(plan) /\ Len(plan) \in Nat
      BY <1>1, BestChunkOverlaps, PlanChunks
    <2>2. b # 0
      BY <2>1
    <2>3. \A j \in 1 .. Len(plan) : AtLeast(s, Score(old, plan, j))
      <3> HIDE DEF old
      <3> QED
        BY <2>2, BestChunkProperties
    <2> QED
      BY <2>1, <2>3
  <1>3. /\ s \in Fractions /\ t \in Fractions /\ s.num <= s.den
        /\ t.num = t.den
        /\ s.num = s.den => Hashes(old) = Hashes(plan[b])
    BY <1>1, <1>2, ScoreProperties
  <1>4. s.num = s.den
    <2>1. /\ s.num \in Nat /\ s.den \in Nat /\ t.den \in Nat /\ t.den > 0
          /\ s.num <= s.den /\ s.num * t.den >= t.den * s.den
      BY <1>2, <1>3 DEF Fractions, AtLeast
    <2>2. \A p, q, r \in Nat : r > 0 /\ p <= q /\ p * r >= r * q => p = q
      <3> SUFFICES ASSUME NEW p \in Nat, NEW q \in Nat, NEW r \in Nat,
                          r > 0, p < q, p * r >= r * q
                   PROVE  FALSE
        OBVIOUS
      <3>1. p * r < q * r
        OBVIOUS
      <3> QED
        BY <3>1
    <2> HIDE DEF s, t
    <2> QED
      BY <2>1, <2>2
  <1> QED
    BY <1>2, <1>3, <1>4

\* Unless the text repeats itself, it finds the very chunk.
LEMMA BestChunkIsTheSame ==
    ASSUME NEW plan \in Plans, ~ Repetitive(plan), NEW i \in 1 .. Len(plan)
    PROVE  BestChunk(plan[i], plan) = i
  BY BestChunkOfItself DEF Repetitive

LEMMA AnchoredProperties ==
    ASSUME NEW old, NEW new \in Plans, NEW position \in Nat
    PROVE  /\ Anchored(old, new, position) \in 0 .. (Len(new) - 1)
           /\ old \in Plans /\ position < Len(old) =>
                /\ Hashes(old[position + 1])
                     \cap Hashes(new[Anchored(old, new, position) + 1]) # {}
                /\ old = new =>
                     /\ Hashes(old[position + 1])
                          = Hashes(new[Anchored(old, new, position) + 1])
                     /\ ~ Repetitive(new) => Anchored(old, new, position) = position
  <1> DEFINE n == Len(new)
             a == Anchored(old, new, position)
             b == BestChunk(old[position + 1], new)
  <1>1. n \in Nat /\ n > 0
    BY PlanChunks
  <1>2. b \in 0 .. n
    <2> DEFINE chunk == old[position + 1]
    <2> HIDE DEF chunk
    <2>1. BestChunk(chunk, new) = 0 \/ BestChunk(chunk, new) \in 1 .. n
      BY BestChunkProperties
    <2>2. BestChunk(chunk, new) \in 0 .. n
      BY <1>1, <2>1
    <2> QED
      BY <2>2 DEF chunk
  <1>3. a = IF position >= Len(old) THEN 0 ELSE IF b = 0 THEN 0 ELSE b - 1
    BY DEF Anchored
  <1>4. a \in 0 .. (n - 1)
    <2> HIDE DEF n, a, b
    <2> QED
      BY <1>1, <1>2, <1>3
  <1>5. ASSUME old \in Plans, position < Len(old)
        PROVE  /\ Hashes(old[position + 1]) \cap Hashes(new[a + 1]) # {}
               /\ old = new => /\ Hashes(old[position + 1]) = Hashes(new[a + 1])
                               /\ ~ Repetitive(new) => a = position
    <2>1. position + 1 \in 1 .. Len(old) /\ ~ (position >= Len(old))
      BY <1>5, PlanChunks
    <2>2. old[position + 1] \in SUBSET Ordinals /\ old[position + 1] # {}
      BY <1>5, <2>1, PlanChunks
    <2>3. b \in 1 .. n /\ Hashes(old[position + 1]) \cap Hashes(new[b]) # {}
      BY <2>2, BestChunkOverlaps
    <2>4. a + 1 = b
      <3>1. b # 0 /\ b \in Nat
        BY <1>1, <2>3
      <3>2. a = b - 1
        BY <1>3, <2>1, <3>1
      <3> HIDE DEF a, b
      <3> QED
        BY <3>1, <3>2
    <2>5. old = new => Hashes(old[position + 1]) = Hashes(new[b])
      BY <2>1, BestChunkOfItself
    <2>6. old = new /\ ~ Repetitive(new) => b = position + 1
      BY <2>1, BestChunkIsTheSame
    <2>7. b = position + 1 => a = position
      <3>1. a \in Nat
        BY <1>1, <1>4
      <3> HIDE DEF a, b
      <3> QED
        BY <2>4, <3>1
    <2> HIDE DEF a, b
    <2> QED
      BY <2>3, <2>4, <2>5, <2>6, <2>7
  <1> QED
    BY <1>4, <1>5

\* Both positions, as they are written back.
LEMMA ReanchoredProperties ==
    ASSUME NEW old, NEW new \in Plans, NEW at \in [current : Nat, high : Nat]
    PROVE  LET to == Reanchored(old, new, at)
           IN  /\ to \in [current : 0 .. (Len(new) - 1), high : 0 .. (Len(new) - 1)]
               /\ to.current <= to.high
               /\ to.high = Anchored(old, new, at.high)
               /\ \/ to.current = to.high
                  \/ to.current = Anchored(old, new, at.current)
               /\ (at.current <= at.high /\ Anchored(old, new, at.current) = at.current
                     /\ Anchored(old, new, at.high) = at.high)
                    => to = at
  <1> DEFINE c == Anchored(old, new, at.current)
             h == Anchored(old, new, at.high)
             n == Len(new)
  <1>1. at.current \in Nat /\ at.high \in Nat
        /\ at = [current |-> at.current, high |-> at.high]
    OBVIOUS
  <1>2. c \in 0 .. (n - 1) /\ h \in 0 .. (n - 1) /\ n \in Nat
    BY <1>1, AnchoredProperties, PlanChunks
  <1>3. Reanchored(old, new, at) = [current |-> IF c > h THEN h ELSE c, high |-> h]
    BY DEF Reanchored
  <1> HIDE DEF c, h, n
  <1>4. \/ c > h /\ Reanchored(old, new, at) = [current |-> h, high |-> h]
        \/ c <= h /\ Reanchored(old, new, at) = [current |-> c, high |-> h]
    BY <1>2, <1>3
  <1>5. ASSUME at.current <= at.high, c = at.current, h = at.high
        PROVE  Reanchored(old, new, at) = at
    <2>1. ~ (c > h)
      BY <1>1, <1>5
    <2> QED
      BY <1>1, <1>3, <1>5, <2>1
  <1> QED
    BY <1>2, <1>4, <1>5 DEF c, h, n

-----------------------------------------------------------------------------
(* The inductive invariant *)

RequestStates == [step : {"idle", "wiping", "parsing", "finishing", "reanchoring",
                          "placing"},
                  old : Plans \cup {<<>>}, current : Positions, high : Positions]

SessionStates == [open : BOOLEAN, chunks : Plans \cup {<<>>},
                  current : Positions, high : Positions]

Before == {"idle", "wiping"}
After  == {"finishing", "reanchoring", "placing"}

\* Nobody has wiped anything yet, or everybody is done.
Calm == \A k \in Requests : request[k].step \in Before

\* Requests that do not overlap are one at a time.
Single ==
    Never({"overlap"}) =>
        \A j, k \in Requests : ~ At(j, "idle") /\ ~ At(k, "idle") => j = k

\* Where there are chunks and where there are none.
Held ==
    Never({"crash", "overlap"}) =>
        /\ Calm /\ status = "ready" => run # <<>>
        /\ \A k \in Requests : At(k, "parsing") => run = <<>>
        /\ \A k \in Requests : request[k].step \in After => run # <<>>

\* Which chunking the place is a place of, and which the requests come from.
Framed ==
    Never(Mishaps) =>
        /\ frame # <<>>
        /\ \A k \in Requests : ~ At(k, "idle") => request[k].old = frame
        /\ Calm => run = frame
        /\ place # Unread => place.current <= place.high /\ place.high < Len(frame)
        /\ \A k \in Requests : At(k, "placing") =>
              /\ place # Unread
              /\ [current |-> request[k].current, high |-> request[k].high]
                   = Reanchored(frame, run, place)

\* The reader in an open session has a place.
Seated == session.open => place # Unread /\ session.current <= session.high

\* Marks are behind the frontier, and gone while chunks are being replaced.
Marked ==
    Never(Mishaps) =>
        /\ place = Unread => marks = {}
        /\ place # Unread => \A p \in marks : p <= place.high
        /\ \A k \in Requests : request[k].step \in After \cup {"parsing"} => marks = {}

RechunkInv == TypeOK /\ Single /\ Held /\ Framed /\ Seated /\ Marked

-----------------------------------------------------------------------------
(* Steps *)

LEMMA PositionsAreNaturals ==
    /\ Positions \subseteq Nat /\ 0 \in Positions
    /\ \A plan \in Plans : 0 .. (Len(plan) - 1) \subseteq Positions
    /\ \A x \in Nat, plan \in Plans \cup {<<>>} : x < Len(plan) => x \in Positions
    /\ \A x \in Positions, y \in Nat : x - y >= 0 => x - y \in Positions
  <1>1. Len(Text) \in Nat /\ Len(Text) > 0
    BY RechunkAssumption
  <1>2. ASSUME NEW plan \in Plans PROVE Len(plan) \in Nat /\ Len(plan) <= Len(Text)
    BY <1>1, PlanLength
  <1> DEFINE t == Len(Text)
  <1>3. Positions = 0 .. (t - 1) /\ t \in Nat /\ t > 0
    BY <1>1 DEF Positions
  <1>4. Len(<<>>) = 0
    OBVIOUS
  <1> HIDE DEF t
  <1>5. Positions \subseteq Nat /\ 0 \in Positions
    BY <1>3
  <1>6. \A n \in Nat : n <= t => 0 .. (n - 1) \subseteq Positions
    BY <1>3
  <1>7. \A x, n \in Nat : n <= t /\ x < n => x \in Positions
    BY <1>3
  <1>8. \A x \in Positions, y \in Nat : x - y >= 0 => x - y \in Positions
    BY <1>3
  <1>9. \A plan \in Plans : 0 .. (Len(plan) - 1) \subseteq Positions
    BY <1>2, <1>6 DEF t
  <1>10. \A x \in Nat, plan \in Plans : x < Len(plan) => x \in Positions
    BY <1>2, <1>7 DEF t
  <1>11. \A x \in Nat : ~ (x < Len(<<>>))
    BY <1>4
  <1> QED
    BY <1>5, <1>8, <1>9, <1>10, <1>11

\* What went wrong stays so.
LEMMA MishapsStay ==
    ASSUME TypeOK, mishaps \subseteq mishaps', mishaps' \subseteq Mishaps
    PROVE  /\ Never(Mishaps)' => Never(Mishaps) /\ mishaps' = {}
           /\ Never({"crash", "overlap"})' => Never({"crash", "overlap"})
           /\ Never({"overlap"})' => Never({"overlap"})
           /\ Never(Mishaps) => Never({"crash", "overlap"})
           /\ Never({"crash", "overlap"}) => Never({"overlap"})
  BY DEF Never, TypeOK, Mishaps

\* A step of the reader.
LEMMA ReaderStep ==
    ASSUME RechunkInv, UNCHANGED <<run, status, request, frame>>,
           place' \in Places \cup {Unread}, marks' \subseteq Positions,
           session' \in SessionStates, mishaps \subseteq mishaps',
           mishaps' \subseteq Mishaps, Seated',
           Never(Mishaps)' =>
             /\ place' # Unread =>
                   place'.current <= place'.high /\ place'.high < Len(frame)
             /\ (\E k \in Requests : At(k, "placing")) => place' = place
             /\ place' = Unread => marks' = {}
             /\ place' # Unread => \A p \in marks' : p <= place'.high
             /\ (\E k \in Requests : request[k].step \in After \cup {"parsing"})
                  => marks' = {}
    PROVE  RechunkInv'
  <1>1. TypeOK'
    BY DEF RechunkInv, TypeOK, SessionStates
  <1>2. Single'
    BY MishapsStay DEF RechunkInv, Single, At
  <1>3. Held'
    BY MishapsStay DEF RechunkInv, Held, At, Calm
  <1>4. Framed'
    BY MishapsStay DEF RechunkInv, Framed, At, Calm
  <1>5. Marked'
    BY MishapsStay DEF RechunkInv, Marked, At
  <1> QED
    BY <1>1, <1>2, <1>3, <1>4, <1>5 DEF RechunkInv

\* A step of request k to state r.
LEMMA RequestStep ==
    ASSUME RechunkInv, NEW k \in Requests, NEW r \in RequestStates,
           request' = [request EXCEPT ![k] = r],
           run' \in Plans \cup {<<>>}, status' \in {"ready", "failed"},
           place' \in Places \cup {Unread}, place # Unread => place' # Unread,
           marks' \subseteq Positions, UNCHANGED session,
           frame' \in Plans \cup {<<>>},
           mishaps \subseteq mishaps', mishaps' \subseteq Mishaps,
           Never({"overlap"})' => \A j \in Requests \ {k} : At(j, "idle"),
           Never({"crash", "overlap"})' =>
             /\ r.step \in Before /\ status' = "ready" => run' # <<>>
             /\ r.step = "parsing" => run' = <<>>
             /\ r.step \in After => run' # <<>>,
           Never(Mishaps)' =>
             /\ frame' # <<>>
             /\ r.step # "idle" => r.old = frame'
             /\ r.step \in Before => run' = frame'
             /\ place' # Unread =>
                   place'.current <= place'.high /\ place'.high < Len(frame')
             /\ r.step = "placing" =>
                   /\ place' # Unread
                   /\ [current |-> r.current, high |-> r.high]
                        = Reanchored(frame', run', place')
             /\ place' = Unread => marks' = {}
             /\ place' # Unread => \A p \in marks' : p <= place'.high
             /\ r.step \in After \cup {"parsing"} => marks' = {}
    PROVE  RechunkInv'
  <1>1. /\ request \in [Requests -> RequestStates] /\ request'[k] = r
        /\ \A j \in Requests \ {k} : request'[j] = request[j]
        /\ request' \in [Requests -> RequestStates]
    BY DEF RechunkInv, TypeOK, RequestStates
  <1>2. TypeOK'
    BY <1>1 DEF RechunkInv, TypeOK, RequestStates
  <1>3. Never({"overlap"})' => \A j \in Requests \ {k} : request'[j].step = "idle"
    BY <1>1 DEF At
  <1>4. Single'
    BY <1>3 DEF Single, At
  <1>5. /\ Never(Mishaps)' => Never({"crash", "overlap"})'
        /\ Never({"crash", "overlap"})' => Never({"overlap"})'
    BY DEF Never, Mishaps
  <1>6. Held'
    BY <1>1, <1>3, <1>5 DEF Held, At, Calm, Before, After
  <1>7. Framed'
    <2> SUFFICES ASSUME Never(Mishaps)' PROVE Framed'
      BY DEF Framed
    <2>1. \A j \in Requests \ {k} : request'[j].step = "idle"
      BY <1>3, <1>5
    <2>2. \A j \in Requests : ~ At(j, "idle")' => request'[j].old = frame'
      BY <1>1, <2>1 DEF At
    <2>3. \A j \in Requests : At(j, "placing")' => j = k
      BY <2>1 DEF At
    <2>4. Calm' => run' = frame'
      BY <1>1 DEF Calm
    <2>5. \A j \in Requests : At(j, "placing")' =>
              /\ place' # Unread
              /\ [current |-> request'[j].current, high |-> request'[j].high]
                   = Reanchored(frame', run', place')
      BY <1>1, <2>3 DEF At
    <2>6. Reanchored(frame, run, place)' = Reanchored(frame', run', place')
      BY DEF Reanchored, Anchored, BestChunk
    <2> QED
      BY <2>2, <2>4, <2>5, <2>6 DEF Framed
  <1>8. Marked'
    BY <1>1, <1>3, <1>5 DEF Marked, After
  <1>9. Seated'
    BY DEF RechunkInv, Seated
  <1> QED
    BY <1>2, <1>4, <1>6, <1>7, <1>8, <1>9 DEF RechunkInv

-----------------------------------------------------------------------------
(* The reader's steps *)

\* Places are pairs of numbers, and the row is never one that is not there.
LEMMA PlaceProperties ==
    /\ Places \subseteq [current : Nat, high : Nat]
    /\ Unread \notin Places
  BY PositionsAreNaturals, RechunkAssumption DEF Places

\* What went wrong with a step of the reader: nothing, if nothing has after it.
LEMMA NothingStale ==
    ASSUME RechunkInv, Happened(Misplaced), Never(Mishaps)'
    PROVE  /\ session.chunks = frame /\ session.high = place.high
           /\ \A k \in Requests : ~ At(k, "placing")
           /\ Never(Mishaps)
  <1>1. mishaps' = mishaps \cup Misplaced /\ mishaps \subseteq Mishaps
    BY DEF Happened, RechunkInv, TypeOK
  <1>2. "stale" \in Mishaps
    BY DEF Mishaps
  <1>3. "stale" \notin Misplaced /\ Never(Mishaps)
    BY <1>1, <1>2 DEF Never
  <1>4. Misplaced = {"stale"} \/ ~ (\/ session.chunks # frame
                                    \/ session.high # place.high
                                    \/ \E k \in Requests : At(k, "placing"))
    BY DEF Misplaced
  <1> QED
    BY <1>3, <1>4

LEMMA HappenedTyped ==
    ASSUME TypeOK, NEW what \in SUBSET Mishaps, Happened(what)
    PROVE  mishaps \subseteq mishaps' /\ mishaps' \subseteq Mishaps
  BY DEF Happened, TypeOK

LEMMA MisplacedTyped == Misplaced \in SUBSET Mishaps /\ Replaced \in SUBSET Mishaps
  BY DEF Misplaced, Replaced, Mishaps

LEMMA OpenKeeps == RechunkInv /\ Open => RechunkInv'
  <1> SUFFICES ASSUME RechunkInv, Open PROVE RechunkInv'
    OBVIOUS
  <1> DEFINE at == IF place = Unread THEN [current |-> 0, high |-> 0] ELSE place
             c == IF at.high > WarmChunks THEN at.high - WarmChunks ELSE 0
  <1>1. /\ session' = [open |-> TRUE, chunks |-> run, high |-> at.high, current |-> c]
        /\ place' = at
        /\ UNCHANGED <<run, status, marks, request, frame, mishaps>>
    BY DEF Open
  <1>2. at \in Places
    BY PositionsAreNaturals DEF RechunkInv, TypeOK, Places
  <1>3. at.high \in Positions /\ at.high \in Nat /\ at # Unread
    BY <1>2, PositionsAreNaturals, PlaceProperties DEF Places
  <1>4. c \in Positions /\ c <= at.high
    <2> DEFINE h == at.high
               w == WarmChunks
    <2>1. h \in Positions /\ h \in Nat /\ w \in Nat
      BY <1>3, RechunkAssumption
    <2> HIDE DEF h, w
    <2>2. h - w >= 0 => h - w \in Positions
      BY <2>1, PositionsAreNaturals
    <2>3. IF h > w THEN h - w \in Positions /\ h - w <= h
          ELSE 0 \in Positions /\ 0 <= h
      BY <2>1, <2>2, PositionsAreNaturals
    <2> QED
      BY <2>3 DEF h, w
  <1>5. place # Unread => place' = place
    BY <1>1
  <1>6. place = Unread => place'.current = 0 /\ place'.high = 0
    BY <1>1
  <1> HIDE DEF at, c
  <1>7. session' \in SessionStates /\ Seated'
    BY <1>1, <1>3, <1>4 DEF SessionStates, RechunkInv, TypeOK, Seated
  <1>8. Never(Mishaps) => Len(frame) \in Nat /\ Len(frame) > 0
    BY PlanChunks DEF RechunkInv, TypeOK, Framed
  <1>9. Never(Mishaps) =>
          /\ place'.current <= place'.high /\ place'.high < Len(frame)
          /\ (\E k \in Requests : At(k, "placing")) => place' = place
          /\ \A p \in marks : p <= place'.high
          /\ (\E k \in Requests : request[k].step \in After \cup {"parsing"}) => marks = {}
    BY <1>5, <1>6, <1>8 DEF RechunkInv, Framed, Marked
  <1> QED
    BY <1>1, <1>2, <1>3, <1>7, <1>9, ReaderStep DEF RechunkInv, TypeOK, Never

LEMMA LeaveKeeps == RechunkInv /\ Leave => RechunkInv'
  <1> SUFFICES ASSUME RechunkInv, Leave PROVE RechunkInv'
    OBVIOUS
  <1>1. session' = Closed /\ UNCHANGED <<run, status, place, marks, request, frame, mishaps>>
    BY DEF Leave
  <1>2. session' \in SessionStates /\ Seated'
    BY <1>1, PositionsAreNaturals DEF SessionStates, Closed, Seated
  <1> QED
    BY <1>1, <1>2, ReaderStep DEF RechunkInv, TypeOK, Never, Framed, Marked

LEMMA RevealKeeps == RechunkInv /\ Reveal => RechunkInv'
  <1> SUFFICES ASSUME RechunkInv, Reveal PROVE RechunkInv'
    OBVIOUS
  <1> DEFINE n == session.current + 1
             h == IF n > place.high THEN n ELSE place.high
             hs == IF n > session.high THEN n ELSE session.high
  <1>1. session \in SessionStates /\ place \in Places /\ session.current <= session.high
        /\ session.open
    BY DEF RechunkInv, TypeOK, SessionStates, Reveal, Seated
  <1>2. /\ session' = [session EXCEPT !.current = n, !.high = hs]
        /\ place' = [current |-> n, high |-> h]
        /\ Happened(Misplaced)
        /\ UNCHANGED <<run, status, marks, request, frame>>
    BY <1>1 DEF Reveal, Settle, SessionStates
  <1>3. /\ session.current \in Nat /\ session.high \in Positions /\ session.high \in Nat
        /\ place.high \in Positions /\ place.high \in Nat
        /\ session.chunks \in Plans \cup {<<>>}
    BY <1>1, PositionsAreNaturals DEF SessionStates, Places
  <1>4. n \in Nat /\ n < Len(session.chunks)
    BY <1>3 DEF Reveal
  <1>5. n \in Positions
    BY <1>3, <1>4, PositionsAreNaturals
  <1> HIDE DEF n
  <1>6. /\ h \in Positions /\ n <= h /\ place.high <= h /\ (h = n \/ h = place.high)
        /\ hs \in Positions /\ n <= hs
    BY <1>3, <1>4, <1>5
  <1> HIDE DEF h, hs
  <1>7. place' \in Places /\ place'.current = n /\ place'.high = h /\ place' # Unread
    BY <1>2, <1>5, <1>6, PlaceProperties DEF Places
  <1>8. session' \in SessionStates /\ Seated'
    BY <1>1, <1>2, <1>5, <1>6, <1>7 DEF SessionStates, Seated
  <1>9. mishaps \subseteq mishaps' /\ mishaps' \subseteq Mishaps
    BY <1>2, HappenedTyped, MisplacedTyped DEF RechunkInv
  <1>10. Never(Mishaps)' =>
          /\ place'.current <= place'.high /\ place'.high < Len(frame)
          /\ ~ \E k \in Requests : At(k, "placing")
          /\ \A p \in marks : p <= place'.high
          /\ (\E k \in Requests : request[k].step \in After \cup {"parsing"}) => marks = {}
    <2> SUFFICES ASSUME Never(Mishaps)'
                 PROVE  /\ place'.current <= place'.high /\ place'.high < Len(frame)
                        /\ ~ \E k \in Requests : At(k, "placing")
                        /\ \A p \in marks : p <= place'.high
                        /\ (\E k \in Requests : request[k].step \in After \cup {"parsing"})
                              => marks = {}
      OBVIOUS
    <2>1. /\ session.chunks = frame /\ Never(Mishaps)
          /\ \A k \in Requests : ~ At(k, "placing")
      BY <1>2, NothingStale
    <2>2. /\ place.high < Len(frame) /\ \A p \in marks : p <= place.high
          /\ (\E k \in Requests : request[k].step \in After \cup {"parsing"}) => marks = {}
      BY <1>1, <2>1, PlaceProperties DEF RechunkInv, Framed, Marked
    <2>3. \A p \in marks : p \in Nat
      BY PositionsAreNaturals DEF RechunkInv, TypeOK
    <2>4. \A p \in marks : p <= h
      BY <1>3, <1>6, <2>2, <2>3, PositionsAreNaturals
    <2> QED
      BY <1>4, <1>6, <1>7, <2>1, <2>2, <2>4
  <1> QED
    BY <1>2, <1>7, <1>8, <1>9, <1>10, ReaderStep DEF RechunkInv, TypeOK

LEMMA ConcealKeeps == RechunkInv /\ Conceal => RechunkInv'
  <1> SUFFICES ASSUME RechunkInv, Conceal PROVE RechunkInv'
    OBVIOUS
  <1> DEFINE n == session.current - 1
  <1>1. /\ session \in SessionStates /\ place \in Places /\ session.open
        /\ session.current <= session.high /\ session.current > 0
    BY DEF RechunkInv, TypeOK, SessionStates, Conceal, Seated
  <1>2. /\ session' = [session EXCEPT !.current = n]
        /\ place' = [place EXCEPT !.current = n]
        /\ Happened(Misplaced)
        /\ UNCHANGED <<run, status, marks, request, frame>>
    BY <1>1 DEF Conceal, SessionStates
  <1>3. /\ session.current \in Nat /\ session.current \in Positions
        /\ session.high \in Positions /\ session.high \in Nat
    BY <1>1, PositionsAreNaturals DEF SessionStates
  <1>4. n \in Nat /\ n \in Positions /\ n <= session.high
    <2>1. n >= 0 /\ n \in Nat /\ n <= session.high
      BY <1>1, <1>3
    <2>2. session.current - 1 >= 0 => session.current - 1 \in Positions
      BY <1>3, PositionsAreNaturals
    <2> QED
      BY <2>1, <2>2
  <1> HIDE DEF n
  <1>5. /\ place' \in Places /\ place'.current = n /\ place'.high = place.high
        /\ place' # Unread
    BY <1>1, <1>2, <1>4, PlaceProperties DEF Places
  <1>6. session' \in SessionStates /\ Seated'
    BY <1>1, <1>2, <1>4, <1>5 DEF SessionStates, Seated
  <1>7. mishaps \subseteq mishaps' /\ mishaps' \subseteq Mishaps
    BY <1>2, HappenedTyped, MisplacedTyped DEF RechunkInv
  <1>8. Never(Mishaps)' =>
          /\ place'.current <= place'.high /\ place'.high < Len(frame)
          /\ ~ \E k \in Requests : At(k, "placing")
          /\ \A p \in marks : p <= place'.high
          /\ (\E k \in Requests : request[k].step \in After \cup {"parsing"}) => marks = {}
    BY <1>1, <1>2, <1>4, <1>5, NothingStale, PlaceProperties
       DEF RechunkInv, Framed, Marked
  <1> QED
    BY <1>2, <1>5, <1>6, <1>7, <1>8, ReaderStep DEF RechunkInv, TypeOK

LEMMA MarkKeeps == RechunkInv /\ Mark => RechunkInv'
  <1> SUFFICES ASSUME RechunkInv, Mark PROVE RechunkInv'
    OBVIOUS
  <1>1. /\ session \in SessionStates /\ place \in Places /\ place # Unread
        /\ session.current <= session.high /\ session.current < Len(run)
    BY DEF RechunkInv, TypeOK, SessionStates, Mark, Seated
  <1>2. /\ marks' = marks \cup {session.current} \/ marks' = marks \ {session.current}
        /\ Happened(Misplaced \cup Replaced)
        /\ UNCHANGED <<run, status, place, session, request, frame>>
    BY DEF Mark
  <1>3. marks' \subseteq Positions
    BY <1>1, <1>2 DEF RechunkInv, TypeOK, SessionStates
  <1>4. mishaps \subseteq mishaps' /\ mishaps' \subseteq Mishaps
    BY <1>2, HappenedTyped, MisplacedTyped DEF RechunkInv
  <1>5. ASSUME Never(Mishaps)'
        PROVE  /\ place.current <= place.high /\ place.high < Len(frame)
               /\ \A p \in marks' : p <= place.high
               /\ \A k \in Requests : request[k].step \notin After \cup {"parsing"}
    <2>1. "stale" \notin Misplaced \cup Replaced /\ Never(Mishaps)
      <3>1. "stale" \in Mishaps /\ mishaps' = mishaps \cup Misplaced \cup Replaced
        BY <1>2 DEF Mishaps, Happened
      <3> QED
        BY <1>5, <3>1 DEF Never
    <2>2. /\ session.high = place.high
          /\ \A k \in Requests : ~ At(k, "placing")
          /\ \A k \in Requests : ~ At(k, "finishing") /\ ~ At(k, "reanchoring")
      BY <2>1 DEF Misplaced, Replaced
    <2>3. \A k \in Requests : ~ At(k, "parsing")
      <3>1. ASSUME NEW k \in Requests, At(k, "parsing") PROVE run = <<>>
        BY <2>1, <3>1, MishapsStay DEF RechunkInv, Held, Never, Mishaps
      <3>2. session.current \in Nat /\ Len(<<>>) = 0
        BY <1>1, PositionsAreNaturals DEF SessionStates
      <3> QED
        BY <1>1, <3>1, <3>2
    <2>4. /\ place.current <= place.high /\ place.high < Len(frame)
          /\ \A p \in marks : p <= place.high
      BY <1>1, <2>1 DEF RechunkInv, Framed, Marked
    <2> QED
      BY <1>1, <1>2, <2>2, <2>3, <2>4 DEF After, At
  <1> QED
    BY <1>1, <1>2, <1>3, <1>4, <1>5, ReaderStep
       DEF RechunkInv, TypeOK, SessionStates, Seated, Places

-----------------------------------------------------------------------------
(* The steps of a re-chunk *)

\* A request that is under way is the only one, unless some overlapped.
LEMMA BusyAlone ==
    ASSUME RechunkInv, NEW k \in Requests, ~ At(k, "idle")
    PROVE  /\ request[k] \in RequestStates
           /\ Never({"overlap"}) => \A j \in Requests \ {k} : At(j, "idle")
  BY DEF RechunkInv, Single, TypeOK, RequestStates

\* Nothing else is noted of such a step.
LEMMA NothingNew ==
    ASSUME RechunkInv, UNCHANGED mishaps
    PROVE  /\ mishaps \subseteq mishaps' /\ mishaps' \subseteq Mishaps
           /\ Never({"overlap"})' => Never({"overlap"})
           /\ Never({"crash", "overlap"})' => Never({"crash", "overlap"})
           /\ Never(Mishaps)' => Never(Mishaps) /\ Never({"crash", "overlap"})
  BY DEF RechunkInv, TypeOK, Never, Mishaps

LEMMA IdleTyped == Idle \in RequestStates /\ Idle.step = "idle"
  BY PositionsAreNaturals DEF Idle, RequestStates

LEMMA MarkdownMissingKeeps ==
    ASSUME RechunkInv, NEW k \in Requests, MarkdownMissing(k)
    PROVE  RechunkInv'
  <1>1. /\ status' = "failed" /\ mishaps \subseteq mishaps' /\ mishaps' \subseteq Mishaps
        /\ UNCHANGED <<run, place, marks, session, request, frame>>
    BY DEF MarkdownMissing, Happened, RechunkInv, TypeOK, Mishaps
  <1>2. TypeOK' /\ Seated'
    BY <1>1 DEF RechunkInv, TypeOK, Seated
  <1>3. Single' /\ Held' /\ Framed' /\ Marked'
    BY <1>1, MishapsStay DEF RechunkInv, Single, Held, Framed, Marked, At, Calm
  <1> QED
    BY <1>2, <1>3 DEF RechunkInv

LEMMA StartKeeps ==
    ASSUME RechunkInv, NEW k \in Requests, Start(k)
    PROVE  RechunkInv'
  <1> DEFINE r == [request[k] EXCEPT !.step = "wiping", !.old = run]
  <1>1. request \in [Requests -> RequestStates] /\ request[k].step = "idle"
        /\ run \in Plans \cup {<<>>}
    BY DEF RechunkInv, TypeOK, RequestStates, Start, At
  <1>2. r \in RequestStates /\ r.step = "wiping" /\ r.old = run
    BY <1>1 DEF RequestStates
  <1>3. request' = [request EXCEPT ![k] = r]
    BY <1>1 DEF Start
  <1> HIDE DEF r
  <1>4. UNCHANGED <<run, status, place, marks, session, frame>>
    BY DEF Start
  <1>5. mishaps \subseteq mishaps' /\ mishaps' \subseteq Mishaps
    BY DEF Start, Happened, RechunkInv, TypeOK, Mishaps
  <1>6. Never({"overlap"})' => \A j \in Requests \ {k} : At(j, "idle")
    BY DEF Start, Happened, Never
  <1>7. Never({"overlap"})' => Calm
    BY <1>1, <1>6 DEF Calm, Before, At
  <1>8. /\ Never(Mishaps)' => Never(Mishaps) /\ Never({"overlap"})'
        /\ Never({"crash", "overlap"})' => Never({"crash", "overlap"}) /\ Never({"overlap"})'
    BY <1>5 DEF Never, Mishaps, RechunkInv, TypeOK
  <1>9. Never({"crash", "overlap"})' => (status' = "ready" => run' # <<>>)
    BY <1>4, <1>7, <1>8 DEF RechunkInv, Held
  <1>10. Never(Mishaps)' =>
           /\ frame' # <<>> /\ r.old = frame' /\ run' = frame'
           /\ place' # Unread =>
                 place'.current <= place'.high /\ place'.high < Len(frame')
           /\ place' = Unread => marks' = {}
           /\ place' # Unread => \A p \in marks' : p <= place'.high
    BY <1>2, <1>4, <1>7, <1>8 DEF RechunkInv, Framed, Marked
  <1> QED
    BY <1>2, <1>3, <1>4, <1>5, <1>6, <1>9, <1>10, RequestStep
       DEF RechunkInv, TypeOK, After

LEMMA WipeKeeps ==
    ASSUME RechunkInv, NEW k \in Requests, Wipe(k)
    PROVE  RechunkInv'
  <1> DEFINE r == [request[k] EXCEPT !.step = "parsing"]
  <1>1. request[k] \in RequestStates /\ ~ At(k, "idle") /\ request[k].step = "wiping"
        /\ (Never({"overlap"}) => \A j \in Requests \ {k} : At(j, "idle"))
    BY BusyAlone DEF Wipe, At
  <1>2. r \in RequestStates /\ r.step = "parsing" /\ r.old = request[k].old
    BY <1>1 DEF RequestStates
  <1>3. request' = [request EXCEPT ![k] = r]
    BY DEF Wipe, GoOn, RechunkInv, TypeOK
  <1> HIDE DEF r
  <1>4. run' = <<>> /\ marks' = {} /\ UNCHANGED <<status, place, session, frame, mishaps>>
    BY DEF Wipe
  <1>5. Never(Mishaps)' =>
          /\ frame' # <<>> /\ r.old = frame'
          /\ place' # Unread =>
                place'.current <= place'.high /\ place'.high < Len(frame')
    BY <1>1, <1>2, <1>4, NothingNew DEF RechunkInv, Framed
  <1> QED
    BY <1>1, <1>2, <1>3, <1>4, <1>5, NothingNew, RequestStep
       DEF RechunkInv, TypeOK, Before, After

LEMMA ParseFailsKeeps ==
    ASSUME RechunkInv, NEW k \in Requests, ParseFails(k)
    PROVE  RechunkInv'
  <1>1. /\ status' = "failed" /\ request' = [request EXCEPT ![k] = Idle]
        /\ mishaps' = mishaps \cup {"failure"}
        /\ UNCHANGED <<run, place, marks, session, frame>> /\ ~ At(k, "idle")
    BY DEF ParseFails, Answer, Happened, At
  <1>2. /\ mishaps \subseteq mishaps' /\ mishaps' \subseteq Mishaps /\ ~ Never(Mishaps)'
        /\ (Never({"overlap"})' => Never({"overlap"}))
    BY <1>1 DEF Never, Mishaps, RechunkInv, TypeOK
  <1>3. Never({"overlap"}) => \A j \in Requests \ {k} : At(j, "idle")
    BY <1>1, BusyAlone
  <1> QED
    BY <1>1, <1>2, <1>3, IdleTyped, RequestStep DEF RechunkInv, TypeOK, Before, After

LEMMA PersistKeeps ==
    ASSUME RechunkInv, NEW k \in Requests, NEW plan \in Plans, Persist(k, plan)
    PROVE  RechunkInv'
  <1> DEFINE r == [request[k] EXCEPT !.step = "finishing"]
  <1>1. request[k] \in RequestStates /\ ~ At(k, "idle") /\ request[k].step = "parsing"
        /\ (Never({"overlap"}) => \A j \in Requests \ {k} : At(j, "idle"))
    BY BusyAlone DEF Persist, At
  <1>2. r \in RequestStates /\ r.step = "finishing" /\ r.old = request[k].old
    BY <1>1 DEF RequestStates
  <1>3. request' = [request EXCEPT ![k] = r]
    BY DEF Persist, GoOn, RechunkInv, TypeOK
  <1> HIDE DEF r
  <1>4. run' = plan /\ UNCHANGED <<status, place, marks, session, frame, mishaps>>
    BY DEF Persist
  <1>5. run' # <<>> /\ run' \in Plans \cup {<<>>}
    BY <1>4, PlanChunks
  <1>6. Never(Mishaps)' =>
          /\ frame' # <<>> /\ r.old = frame' /\ marks' = {}
          /\ place' # Unread =>
                place'.current <= place'.high /\ place'.high < Len(frame')
    BY <1>1, <1>2, <1>4, NothingNew DEF RechunkInv, Framed, Marked, At
  <1> QED
    BY <1>1, <1>2, <1>3, <1>4, <1>5, <1>6, NothingNew, RequestStep
       DEF RechunkInv, TypeOK, Before

LEMMA PersistConflictsKeeps ==
    ASSUME RechunkInv, NEW k \in Requests, PersistConflicts(k)
    PROVE  RechunkInv'
  <1>1. /\ request' = [request EXCEPT ![k] = Idle] /\ run # <<>> /\ ~ At(k, "idle")
        /\ UNCHANGED <<run, status, place, marks, session, frame, mishaps>>
    BY DEF PersistConflicts, Answer, At
  <1>2. ~ Never({"crash", "overlap"})
    BY <1>1 DEF RechunkInv, Held, PersistConflicts
  <1>3. Never({"overlap"}) => \A j \in Requests \ {k} : At(j, "idle")
    BY <1>1, BusyAlone
  <1> QED
    BY <1>1, <1>2, <1>3, NothingNew, IdleTyped, RequestStep DEF RechunkInv, TypeOK

LEMMA MarkReadyKeeps ==
    ASSUME RechunkInv, NEW k \in Requests, MarkReady(k)
    PROVE  RechunkInv'
  <1>1. request[k] \in RequestStates /\ ~ At(k, "idle") /\ request[k].step = "finishing"
        /\ (Never({"overlap"}) => \A j \in Requests \ {k} : At(j, "idle"))
    BY BusyAlone DEF MarkReady, At
  <1> DEFINE r == IF request[k].old = <<>> THEN Idle
                  ELSE [request[k] EXCEPT !.step = "reanchoring"]
  <1>2. /\ r \in RequestStates /\ r.step \in {"idle", "reanchoring"}
        /\ request[k].old # <<>> => r.step = "reanchoring" /\ r.old = request[k].old
    BY <1>1, IdleTyped DEF RequestStates
  <1>3. request' = [request EXCEPT ![k] = r]
    BY DEF MarkReady, Answer, GoOn, RechunkInv, TypeOK
  <1> HIDE DEF r
  <1>4. status' = "ready" /\ UNCHANGED <<run, place, marks, session, frame, mishaps>>
    BY DEF MarkReady
  <1>5. Never({"crash", "overlap"})' => run' # <<>>
    BY <1>1, <1>4, NothingNew DEF RechunkInv, Held, After
  <1>6. Never(Mishaps)' =>
          /\ frame' # <<>> /\ r.old = frame' /\ r.step = "reanchoring" /\ marks' = {}
          /\ place' # Unread =>
                place'.current <= place'.high /\ place'.high < Len(frame')
    BY <1>1, <1>2, <1>4, NothingNew DEF RechunkInv, Framed, Marked, After
  <1> QED
    BY <1>1, <1>2, <1>3, <1>4, <1>5, <1>6, NothingNew, RequestStep
       DEF RechunkInv, TypeOK, Before

LEMMA ReadPlaceKeeps ==
    ASSUME RechunkInv, NEW k \in Requests, ReadPlace(k)
    PROVE  RechunkInv'
  <1>1. request[k] \in RequestStates /\ ~ At(k, "idle") /\ request[k].step = "reanchoring"
        /\ (Never({"overlap"}) => \A j \in Requests \ {k} : At(j, "idle"))
    BY BusyAlone DEF ReadPlace, At
  <1>2. UNCHANGED <<run, status, place, marks, session, mishaps>>
    BY DEF ReadPlace
  <1>3. Never({"crash", "overlap"}) => run # <<>>
    BY <1>1 DEF RechunkInv, Held, After
  <1>4. Never(Mishaps) => /\ request[k].old = frame /\ frame # <<>> /\ marks = {}
    BY <1>1 DEF RechunkInv, Framed, Marked, After
  <1>5. CASE place = Unread \/ run = <<>>
    <2>1. /\ request' = [request EXCEPT ![k] = Idle]
          /\ frame' = IF place = Unread THEN run ELSE frame
      BY <1>5 DEF ReadPlace, Answer
    <2>2. Never(Mishaps)' => place' = Unread /\ frame' = run' /\ run' # <<>> /\ marks' = {}
      BY <1>2, <1>3, <1>4, <1>5, <2>1, NothingNew
    <2>3. frame' \in Plans \cup {<<>>}
      BY <2>1 DEF RechunkInv, TypeOK
    <2> QED
      BY <1>1, <1>2, <1>3, <2>1, <2>2, <2>3, NothingNew, IdleTyped, RequestStep
         DEF RechunkInv, TypeOK, Before, After
  <1>6. CASE place # Unread /\ run # <<>>
    <2> DEFINE to == Reanchored(request[k].old, run, place)
               r == [request[k] EXCEPT !.step = "placing", !.current = to.current,
                                       !.high = to.high]
    <2>1. request' = [request EXCEPT ![k] = r] /\ frame' = frame
      BY <1>6 DEF ReadPlace, RechunkInv, TypeOK
    <2>2. run \in Plans /\ place \in [current : Nat, high : Nat]
      BY <1>6, PlaceProperties DEF RechunkInv, TypeOK
    <2>3. to \in [current : 0 .. (Len(run) - 1), high : 0 .. (Len(run) - 1)]
      BY <2>2, ReanchoredProperties
    <2>4. /\ to.current \in Positions /\ to.high \in Positions
          /\ to = [current |-> to.current, high |-> to.high]
      BY <2>2, <2>3, PositionsAreNaturals
    <2> HIDE DEF to
    <2>5. /\ r \in RequestStates /\ r.step = "placing" /\ r.old = request[k].old
          /\ [current |-> r.current, high |-> r.high] = to
      BY <1>1, <2>4 DEF RequestStates
    <2> HIDE DEF r
    <2>6. Reanchored(frame', run', place') = Reanchored(frame, run, place)
      BY <1>2, <2>1
    <2>7. Never(Mishaps)' =>
            /\ frame' # <<>> /\ r.old = frame' /\ marks' = {}
            /\ place' # Unread
            /\ place'.current <= place'.high /\ place'.high < Len(frame')
            /\ [current |-> r.current, high |-> r.high]
                 = Reanchored(frame', run', place')
      <3> SUFFICES ASSUME Never(Mishaps)'
                   PROVE  /\ frame' # <<>> /\ r.old = frame' /\ marks' = {}
                          /\ place' # Unread
                          /\ place'.current <= place'.high /\ place'.high < Len(frame')
                          /\ [current |-> r.current, high |-> r.high]
                               = Reanchored(frame', run', place')
        OBVIOUS
      <3>1. Never(Mishaps) /\ request[k].old = frame /\ frame # <<>> /\ marks = {}
        BY <1>2, <1>4, NothingNew
      <3>2. place.current <= place.high /\ place.high < Len(frame)
        BY <1>6, <3>1 DEF RechunkInv, Framed
      <3>3. to = Reanchored(frame, run, place)
        BY <3>1 DEF to
      <3> QED
        BY <1>2, <1>6, <2>1, <2>5, <2>6, <3>1, <3>2, <3>3
    <2> QED
      BY <1>1, <1>2, <1>6, <2>1, <2>5, <2>7, NothingNew, RequestStep
         DEF RechunkInv, TypeOK, Before
  <1> QED
    BY <1>5, <1>6

LEMMA WritePlaceKeeps ==
    ASSUME RechunkInv, NEW k \in Requests, WritePlace(k)
    PROVE  RechunkInv'
  <1> DEFINE to == [current |-> request[k].current, high |-> request[k].high]
  <1>1. request[k] \in RequestStates /\ ~ At(k, "idle") /\ request[k].step = "placing"
        /\ (Never({"overlap"}) => \A j \in Requests \ {k} : At(j, "idle"))
    BY BusyAlone DEF WritePlace, At
  <1>2. /\ place' = to /\ frame' = run /\ request' = [request EXCEPT ![k] = Idle]
        /\ UNCHANGED <<run, status, marks, session, mishaps>>
    BY DEF WritePlace, Answer
  <1>3. to \in Places
    BY <1>1 DEF RequestStates, Places
  <1>4. place' \in Places /\ place' # Unread
    BY <1>2, <1>3, PlaceProperties
  <1>5. Never({"crash", "overlap"}) => run # <<>>
    BY <1>1 DEF RechunkInv, Held, After
  <1>6. Never(Mishaps) =>
          /\ run # <<>> /\ marks = {} /\ to.current <= to.high /\ to.high < Len(run)
    <2> SUFFICES ASSUME Never(Mishaps)
                 PROVE  /\ run # <<>> /\ marks = {}
                        /\ to.current <= to.high /\ to.high < Len(run)
      OBVIOUS
    <2>1. place # Unread /\ to = Reanchored(frame, run, place) /\ marks = {}
      BY <1>1 DEF RechunkInv, Framed, Marked, At, After
    <2>2. run # <<>>
      BY <1>5 DEF Never, Mishaps
    <2>3. run \in Plans /\ place \in [current : Nat, high : Nat] /\ Len(run) \in Nat
      BY <2>1, <2>2, PlaceProperties, PlanChunks DEF RechunkInv, TypeOK
    <2>4. /\ to \in [current : 0 .. (Len(run) - 1), high : 0 .. (Len(run) - 1)]
          /\ to.current <= to.high
      BY <2>1, <2>3, ReanchoredProperties
    <2>5. to.high \in 0 .. (Len(run) - 1)
      BY <2>4
    <2> HIDE DEF to
    <2> QED
      BY <2>1, <2>2, <2>3, <2>4, <2>5
  <1> HIDE DEF to
  <1>7. Never(Mishaps)' =>
          /\ frame' # <<>> /\ run' = frame' /\ marks' = {}
          /\ place'.current <= place'.high /\ place'.high < Len(frame')
    BY <1>2, <1>6, NothingNew
  <1> QED
    BY <1>1, <1>2, <1>4, <1>5, <1>7, NothingNew, IdleTyped, RequestStep
       DEF RechunkInv, TypeOK, Before, After

LEMMA CrashKeeps == RechunkInv /\ Crash => RechunkInv'
  <1> SUFFICES ASSUME RechunkInv, Crash PROVE RechunkInv'
    OBVIOUS
  <1>1. /\ session' = Closed /\ request' = [k \in Requests |-> Idle]
        /\ UNCHANGED <<run, status, place, marks, frame>>
    BY DEF Crash
  <1>2. /\ mishaps \subseteq mishaps' /\ mishaps' \subseteq Mishaps
        /\ "crash" \notin mishaps' => Calm
    BY DEF Crash, Happened, RechunkInv, TypeOK, Mishaps, Calm, Before, At
  <1>3. request' \in [Requests -> RequestStates]
        /\ \A k \in Requests : request'[k].step = "idle"
    BY <1>1, IdleTyped
  <1>4. Closed \in SessionStates /\ ~ Closed.open
    BY PositionsAreNaturals DEF Closed, SessionStates
  <1>5. TypeOK'
    BY <1>1, <1>2, <1>3, <1>4 DEF RechunkInv, TypeOK, RequestStates, SessionStates
  <1>6. Single' /\ Seated'
    BY <1>1, <1>3, <1>4 DEF Single, Seated, At
  <1>7. /\ Never({"crash", "overlap"})' => Never({"crash", "overlap"}) /\ Calm
        /\ Never(Mishaps)' => Never(Mishaps) /\ Calm
    BY <1>2 DEF Never, Mishaps, RechunkInv, TypeOK
  <1>8. Held'
    BY <1>1, <1>3, <1>7 DEF Held, RechunkInv, At, After
  <1>9. Framed'
    BY <1>1, <1>3, <1>7 DEF Framed, RechunkInv, At
  <1>10. Marked'
    BY <1>1, <1>3, <1>7 DEF Marked, RechunkInv, After
  <1> QED
    BY <1>5, <1>6, <1>8, <1>9, <1>10 DEF RechunkInv

LEMMA InitKeeps == Init => RechunkInv
  <1> SUFFICES ASSUME Init PROVE RechunkInv
    OBVIOUS
  <1>1. /\ run \in Plans /\ status = "ready" /\ place = Unread /\ marks = {}
        /\ session = Closed /\ request = [k \in Requests |-> Idle]
        /\ frame = run /\ mishaps = {}
    BY DEF Init
  <1>2. request \in [Requests -> RequestStates]
        /\ \A k \in Requests : request[k] = Idle /\ request[k].step = "idle"
    BY <1>1, IdleTyped
  <1>3. Closed \in SessionStates /\ ~ Closed.open
    BY PositionsAreNaturals DEF Closed, SessionStates
  <1>4. run # <<>>
    BY <1>1, PlanChunks
  <1>5. TypeOK
    BY <1>1, <1>2, <1>3 DEF TypeOK, RequestStates, SessionStates
  <1>6. Single /\ Seated /\ Held
    BY <1>1, <1>2, <1>3, <1>4 DEF Single, Seated, Held, At, After
  <1>7. Framed /\ Marked
    BY <1>1, <1>2, <1>4 DEF Framed, Marked, At, After
  <1> QED
    BY <1>5, <1>6, <1>7 DEF RechunkInv

LEMMA NextKeeps == RechunkInv /\ [Next]_vars => RechunkInv'
  <1> SUFFICES ASSUME RechunkInv, [Next]_vars PROVE RechunkInv'
    OBVIOUS
  <1>1. CASE Reading
    BY <1>1, OpenKeeps, LeaveKeeps, RevealKeeps, ConcealKeeps, MarkKeeps DEF Reading
  <1>2. CASE Crash
    BY <1>2, CrashKeeps
  <1>3. ASSUME NEW k \in Requests, Rechunking(k) PROVE RechunkInv'
    BY <1>3, MarkdownMissingKeeps, StartKeeps, WipeKeeps, ParseFailsKeeps, PersistKeeps,
       PersistConflictsKeeps, MarkReadyKeeps, ReadPlaceKeeps, WritePlaceKeeps
       DEF Rechunking
  <1>4. CASE UNCHANGED vars
    <2>1. UNCHANGED <<run, status, request, frame, place, marks, session, mishaps>>
      BY <1>4 DEF vars
    <2>2. Seated'
      BY <2>1 DEF RechunkInv, Seated
    <2> QED
      BY <2>1, <2>2, NothingNew, ReaderStep
         DEF RechunkInv, TypeOK, SessionStates, Framed, Marked
  <1> QED
    BY <1>1, <1>2, <1>3, <1>4 DEF Next

LEMMA Keeps == Spec => []RechunkInv
  BY InitKeeps, NextKeeps, PTL DEF Spec

-----------------------------------------------------------------------------
(* What re-chunking guarantees *)

\* Type correctness: stored positions are positions of some chunking of the
\* text, whatever requests, failures and restarts there are.
THEOREM PositionsStayPositions == Spec => []TypeOK
  <1>1. RechunkInv => TypeOK
    BY DEF RechunkInv
  <1> QED
    BY <1>1, Keeps, PTL

\* A ready document has chunks, unless a re-chunk was killed half way or two
\* overlapped (reparse_document and mark_document_failed).
THEOREM ReadyDocumentsHaveChunks == Spec => []ReadyHasChunks
  <1>1. RechunkInv => ReadyHasChunks
    BY DEF RechunkInv, Held, ReadyHasChunks, Quiet, At, Calm, Before
  <1> QED
    BY <1>1, Keeps, PTL

\* Without a mishap the stored place is one in the chunks there are
\* (reanchor_reading_state).
THEOREM PlacesAreInTheChunks == Spec => []PlaceIsInTheChunks
  <1>1. RechunkInv => PlaceIsInTheChunks
    BY DEF RechunkInv, Framed, PlaceIsInTheChunks, Quiet, At, Calm, Before
  <1> QED
    BY <1>1, Keeps, PTL

\* Without a mishap no mark is beyond the stored frontier
\* (delete_document_chunks_and_sections and the routes that mark).
THEOREM MarksAreOnReadText == Spec => []MarksStayOnReadText
  <1>1. RechunkInv => MarksStayOnReadText
    BY DEF RechunkInv, Marked, MarksStayOnReadText
  <1> QED
    BY <1>1, Keeps, PTL

\* The new frontier chunk shares text with the old one, for every text and
\* every two ways to chunk it, and a re-chunk that changes nothing moves
\* neither position unless the text repeats itself (best_chunk_by_jaccard).
THEOREM FrontiersKeepTheirText == Spec => TheFrontierKeepsItsText
  <1> DEFINE Kept(k) ==
               LET old == request[k].old
               IN /\ Hashes(old[place.high + 1]) \cap Hashes(run[place'.high + 1]) # {}
                  /\ \/ place'.current = place'.high
                     \/ Hashes(old[place.current + 1])
                          \cap Hashes(run[place'.current + 1]) # {}
                  /\ old = run =>
                        /\ Hashes(old[place.high + 1]) = Hashes(run[place'.high + 1])
                        /\ ~ Repetitive(run) => place' = place
  <1>1. ASSUME RechunkInv, NEW k \in Requests, WritePlace(k), Never(Mishaps)
        PROVE  Kept(k)
    <2> DEFINE old == request[k].old
               c == Anchored(old, run, place.current)
               h == Anchored(old, run, place.high)
    <2>1. /\ At(k, "placing") /\ ~ At(k, "idle") /\ request[k].step \in After
          /\ place' = [current |-> request[k].current, high |-> request[k].high]
      BY <1>1 DEF WritePlace, At, After
    <2>2. old = frame /\ frame # <<>> /\ place # Unread
          /\ place.current <= place.high /\ place.high < Len(frame)
          /\ place' = Reanchored(frame, run, place)
      BY <1>1, <2>1 DEF RechunkInv, Framed
    <2>3. run # <<>>
      BY <1>1, <2>1 DEF RechunkInv, Held, Never, Mishaps
    <2>4. old \in Plans /\ run \in Plans /\ place \in [current : Nat, high : Nat]
      BY <1>1, <2>2, <2>3, PlaceProperties DEF RechunkInv, TypeOK
    <2>5. /\ place.current \in Nat /\ place.high \in Nat
          /\ place.current < Len(old) /\ place.high < Len(old)
      <3>1. Len(old) \in Nat /\ place.current \in Nat /\ place.high \in Nat
        BY <2>4, PlanChunks
      <3> QED
        BY <2>2, <3>1
    <2>6. /\ place'.high = h
          /\ place'.current = place'.high \/ place'.current = c
          /\ c = place.current /\ h = place.high => place' = place
      BY <2>2, <2>4, ReanchoredProperties
    <2>7. /\ Hashes(old[place.high + 1]) \cap Hashes(run[h + 1]) # {}
          /\ old = run => /\ Hashes(old[place.high + 1]) = Hashes(run[h + 1])
                          /\ ~ Repetitive(run) => h = place.high
      BY <2>4, <2>5, AnchoredProperties
    <2>8. /\ Hashes(old[place.current + 1]) \cap Hashes(run[c + 1]) # {}
          /\ old = run => (~ Repetitive(run) => c = place.current)
      BY <2>4, <2>5, AnchoredProperties
    <2> HIDE DEF c, h
    <2> QED
      BY <2>6, <2>7, <2>8
  <1>2. RechunkInv => [\A k \in Requests : (WritePlace(k) /\ Never(Mishaps)) => Kept(k)]_vars
    BY <1>1
  <1> QED
    BY <1>2, Keeps, PTL DEF TheFrontierKeepsItsText

=============================================================================
