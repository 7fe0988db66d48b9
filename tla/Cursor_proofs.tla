----------------------------- MODULE Cursor_proofs -----------------------------
(***************************************************************************)
(* Theorems about the chunk planner, for texts of any length, pieces of    *)
(* any cost and any budget.                                                *)
(***************************************************************************)
EXTENDS Cursor, FiniteSetTheorems, SequenceTheorems, TLAPS

-----------------------------------------------------------------------------
(* Induction over the members of a set *)

\* A set of numbers has a least one: the initial segments that end in it are
\* well founded under inclusion.
LEMMA LeastNatural ==
    ASSUME NEW T \in SUBSET Nat, T # {}
    PROVE  \E x \in T : \A y \in T : x <= y
  <1> DEFINE Below == {1 .. x : x \in T}
  <1>1. Below \subseteq FiniteSubsetsOf(Nat) /\ Below # {}
    <2>1. \A x \in T : 1 .. x \subseteq Nat /\ IsFiniteSet(1 .. x)
      BY FS_Interval
    <2> QED
      BY <2>1 DEF FiniteSubsetsOf
  <1>2. PICK b \in Below : \A c \in Below : ~ (<<c, b>> \in StrictSubsetOrdering(Nat))
    BY <1>1, FS_StrictSubsetOrderingWellFounded, WFMin
  <1>3. PICK x \in T : b = 1 .. x
    BY <1>2
  <1>4. ASSUME NEW y \in T, y < x PROVE FALSE
    <2>1. 1 .. y \in Below /\ 1 .. y \subseteq Nat /\ 1 .. x \subseteq Nat
      OBVIOUS
    <2>2. 1 .. y \subseteq 1 .. x /\ 1 .. y # 1 .. x
      <3>1. x \in 1 .. x /\ x \notin 1 .. y
        BY <1>4
      <3> QED
        BY <1>4, <3>1
    <2>3. <<1 .. y, 1 .. x>> \in StrictSubsetOrdering(Nat)
      BY <2>1, <2>2 DEF StrictSubsetOrdering
    <2> QED
      BY <1>2, <1>3, <2>1, <2>3
  <1> QED
    BY <1>4

LEMMA SetInduction ==
  ASSUME NEW S, 0 \in S, \A n \in Nat : n \in S => n + 1 \in S
  PROVE  Nat \subseteq S
<1> SUFFICES ASSUME Nat \ S # {} PROVE FALSE
  OBVIOUS
<1>1. PICK x \in Nat \ S : \A y \in Nat \ S : x <= y
  BY LeastNatural
<1>2. x # 0 /\ x - 1 \in Nat
  BY <1>1
<1>3. x - 1 \in S
  BY <1>1, <1>2
<1>4. (x - 1) + 1 \in S
  BY <1>2, <1>3
<1> QED
  BY <1>1, <1>4

\* A set of numbers up to n has a greatest one.
LEMMA GreatestOf ==
    ASSUME NEW n \in Nat, NEW s \in SUBSET (1 .. n), s # {}
    PROVE  /\ Max(s) \in s
           /\ \A y \in s : Max(s) >= y
  <1> DEFINE T == {n - x : x \in s}
  <1>1. PICK y \in T : \A z \in T : y <= z
    <2>1. \A x \in s : x \in 1 .. n /\ n - x \in Nat
      OBVIOUS
    <2>2. T \in SUBSET Nat /\ T # {}
      BY <2>1
    <2> HIDE DEF T
    <2> QED
      BY <2>2, LeastNatural
  <1>2. PICK x \in s : y = n - x
    BY <1>1
  <1>3. ASSUME NEW z \in s PROVE x >= z
    <2>1. n - x <= n - z
      BY <1>1, <1>2
    <2>2. x \in 1 .. n /\ z \in 1 .. n
      BY <1>2
    <2> QED
      BY <2>1, <2>2
  <1> QED
    BY <1>3 DEF Max

LEMMA GreatestOfAll ==
    ASSUME NEW n \in Nat, NEW k \in 1 .. n
    PROVE  /\ 1 .. k \in SUBSET (1 .. n) /\ 1 .. k # {}
           /\ Max(1 .. k) = k
           /\ (1 .. k) \ {k} = 1 .. k - 1
  <1>1. 1 .. k \in SUBSET (1 .. n) /\ k \in 1 .. k
    OBVIOUS
  <1>2. Max(1 .. k) \in 1 .. k /\ Max(1 .. k) >= k
    BY <1>1, GreatestOf
  <1> QED
    BY <1>1, <1>2

-----------------------------------------------------------------------------
(* Recursion over an interval, and over its subsets by their greatest member *)

\* h starts with base and goes on with F.
IsRun(h, F, ST, base, n) ==
    /\ h \in [0 .. n -> ST]
    /\ h[0] = base
    /\ \A i \in 1 .. n : h[i] = F[i][h[i - 1]]

LEMMA RunExists ==
    ASSUME NEW ST, NEW base \in ST, NEW n \in Nat, NEW F \in [1 .. n -> [ST -> ST]]
    PROVE  \E h : IsRun(h, F, ST, base, n)
  <1> DEFINE S == {m \in Nat : m <= n => \E h : IsRun(h, F, ST, base, m)}
  <1>1. 0 \in S
    <2>1. IsRun([i \in 0 .. 0 |-> base], F, ST, base, 0)
      BY DEF IsRun
    <2> QED
      BY <2>1
  <1>2. ASSUME NEW m \in Nat, m \in S PROVE m + 1 \in S
    <2> SUFFICES ASSUME m + 1 <= n PROVE \E h : IsRun(h, F, ST, base, m + 1)
      OBVIOUS
    <2>1. PICK g : IsRun(g, F, ST, base, m)
      BY <1>2
    <2> DEFINE new == F[m + 1][g[m]]
               h == [i \in 0 .. m + 1 |-> IF i = m + 1 THEN new ELSE g[i]]
    <2>2. new \in ST
      BY <2>1 DEF IsRun
    <2>3. h[m + 1] = new /\ \A i \in 0 .. m : h[i] = g[i]
      OBVIOUS
    <2>4. h \in [0 .. m + 1 -> ST]
      BY <2>1, <2>2 DEF IsRun
    <2> HIDE DEF h
    <2>5. \A i \in 1 .. m + 1 : h[i] = F[i][h[i - 1]]
      BY <2>1, <2>3 DEF IsRun
    <2>6. h[0] = base
      BY <2>1, <2>3 DEF IsRun
    <2>7. IsRun(h, F, ST, base, m + 1)
      BY <2>4, <2>5, <2>6 DEF IsRun
    <2> QED
      BY <2>7
  <1> HIDE DEF S
  <1>3. n \in S
    BY <1>1, <1>2, SetInduction
  <1> QED
    BY <1>3 DEF S

\* f does so for every set of positions, the greatest one last.
IsFold(f, F, ST, base, n) ==
    /\ f \in [SUBSET (1 .. n) -> ST]
    /\ f[{}] = base
    /\ \A s \in SUBSET (1 .. n) : s # {} => f[s] = F[Max(s)][f[s \ {Max(s)}]]

LEMMA FoldExists ==
    ASSUME NEW ST, NEW base \in ST, NEW n \in Nat, NEW F \in [1 .. n -> [ST -> ST]]
    PROVE  \E f : IsFold(f, F, ST, base, n)
  <1> DEFINE S == {m \in Nat : m <= n => \E f : IsFold(f, F, ST, base, m)}
  <1>1. 0 \in S
    <2> DEFINE f == [s \in SUBSET {} |-> base]
    <2>1. f \in [SUBSET {} -> ST] /\ f[{}] = base
      OBVIOUS
    <2>2. 1 .. 0 = {}
      OBVIOUS
    <2> HIDE DEF f
    <2>3. IsFold(f, F, ST, base, 0)
      BY <2>1, <2>2 DEF IsFold
    <2> QED
      BY <2>3
  <1>2. ASSUME NEW m \in Nat, m \in S PROVE m + 1 \in S
    <2> SUFFICES ASSUME m + 1 <= n PROVE \E f : IsFold(f, F, ST, base, m + 1)
      OBVIOUS
    <2>1. PICK g : IsFold(g, F, ST, base, m)
      BY <1>2
    <2> DEFINE x == m + 1
               D == 1 .. x
    <2>2. D = 1 .. m \cup {x} /\ x \notin 1 .. m /\ 1 .. m \subseteq D
      OBVIOUS
    <2>3. \A s \in SUBSET D : /\ s \ {x} \in SUBSET (1 .. m)
                              /\ x \notin s => s \in SUBSET (1 .. m)
      BY <2>2
    <2>4. \A s \in SUBSET D : x \in s => Max(s) = x
      <3> SUFFICES ASSUME NEW s \in SUBSET D, x \in s PROVE Max(s) = x
        OBVIOUS
      <3>1. m + 1 \in Nat /\ s \in SUBSET (1 .. m + 1) /\ s # {}
        BY DEF D, x
      <3>2. Max(s) \in s /\ Max(s) >= x
        BY <3>1, GreatestOf
      <3>3. Max(s) \in 1 .. m + 1
        BY <3>1, <3>2
      <3> QED
        BY <3>2, <3>3
    <2>5. \A s \in SUBSET (1 .. m) : s # {} => Max(s) \in s
      BY GreatestOf
    <2> DEFINE f == [s \in SUBSET D |-> IF x \in s THEN F[x][g[s \ {x}]] ELSE g[s]]
    <2>6. F[x] \in [ST -> ST] /\ \A s \in SUBSET (1 .. m) : g[s] \in ST
      BY <2>1 DEF IsFold
    <2> HIDE DEF D, x
    <2>7. f \in [SUBSET D -> ST]
      BY <2>3, <2>6
    <2>8. \A s \in SUBSET (1 .. m) : f[s] = g[s] /\ s \in SUBSET D /\ x \notin s
      BY <2>2
    <2>9. \A s \in SUBSET D : x \in s => f[s] = F[x][g[s \ {x}]]
      BY <2>2
    <2> HIDE DEF f
    <2>10. ASSUME NEW s \in SUBSET D, s # {}
           PROVE  f[s] = F[Max(s)][f[s \ {Max(s)}]]
      <3>1. CASE x \in s
        BY <2>3, <2>4, <2>8, <2>9, <3>1
      <3>2. CASE x \notin s
        <4>1. s \in SUBSET (1 .. m) /\ s \ {Max(s)} \in SUBSET (1 .. m)
          BY <2>3, <3>2
        <4>2. f[s] = g[s] /\ f[s \ {Max(s)}] = g[s \ {Max(s)}]
          BY <2>8, <4>1
        <4> QED
          BY <2>1, <2>10, <4>1, <4>2 DEF IsFold
      <3> QED
        BY <3>1, <3>2
    <2>11. f[{}] = base
      BY <2>1, <2>8 DEF IsFold
    <2> QED
      BY <2>7, <2>10, <2>11 DEF IsFold, D, x
  <1> HIDE DEF S
  <1>3. n \in S
    BY <1>1, <1>2, SetInduction
  <1> QED
    BY <1>3 DEF S

Folds(g, F, ST, base, n) ==
    /\ g[{}] = base
    /\ \A s \in SUBSET (1 .. n) :
          s # {} /\ g[s \ {Max(s)}] \in ST => g[s] = F[Max(s)][g[s \ {Max(s)}]]

RunsTo(F, ST, base, n, end) == \E h : IsRun(h, F, ST, base, n) /\ h[n] = end

\* A fold over all positions is the run that ends at the last one.
LEMMA FoldRuns ==
    ASSUME NEW ST, NEW base \in ST, NEW n \in Nat, NEW F \in [1 .. n -> [ST -> ST]],
           NEW g, Folds(g, F, ST, base, n)
    PROVE  RunsTo(F, ST, base, n, g[1 .. n])
  <1> DEFINE S == {m \in Nat : m <= n => g[1 .. m] \in ST}
             h == [k \in 0 .. n |-> g[1 .. k]]
  <1>1. ASSUME NEW k \in 1 .. n, g[1 .. k - 1] \in ST
        PROVE  g[1 .. k] = F[k][g[1 .. k - 1]] /\ g[1 .. k] \in ST
    <2>1. g[1 .. k] = F[k][g[1 .. k - 1]]
      BY <1>1, GreatestOfAll DEF Folds
    <2> QED
      BY <1>1, <2>1
  <1>2. 1 .. 0 = {}
    OBVIOUS
  <1>3. 0 \in S
    BY <1>2 DEF Folds
  <1>4. ASSUME NEW m \in Nat, m \in S PROVE m + 1 \in S
    <2> SUFFICES ASSUME m + 1 <= n PROVE g[1 .. m + 1] \in ST
      OBVIOUS
    <2>1. m + 1 \in 1 .. n /\ (m + 1) - 1 = m /\ g[1 .. m] \in ST
      BY <1>4
    <2> QED
      BY <1>1, <2>1
  <1> HIDE DEF S
  <1>5. \A k \in 0 .. n : g[1 .. k] \in ST
    <2>1. Nat \subseteq S
      BY <1>3, <1>4, SetInduction
    <2> QED
      BY <2>1 DEF S
  <1>6. h \in [0 .. n -> ST] /\ h[0] = base /\ h[n] = g[1 .. n]
    BY <1>2, <1>5 DEF Folds
  <1>7. ASSUME NEW i \in 1 .. n PROVE h[i] = F[i][h[i - 1]]
    <2>1. i \in 0 .. n /\ i - 1 \in 0 .. n
      OBVIOUS
    <2> QED
      BY <1>1, <1>5, <2>1
  <1> QED
    BY <1>6, <1>7 DEF IsRun, RunsTo

-----------------------------------------------------------------------------
(* What pieces weigh *)

Adding(w, pieces) ==
    [i \in 1 .. Len(pieces) |-> [sum \in Nat |-> sum + w[pieces[i]]]]

LEMMA TotalRuns ==
    ASSUME NEW X, NEW w \in [X -> Nat], NEW pieces \in Seq(X)
    PROVE  RunsTo(Adding(w, pieces), Nat, 0, Len(pieces), Total(w, pieces))
  <1> DEFINE n == Len(pieces)
             F == Adding(w, pieces)
             Body(f) == [s \in SUBSET (1 .. n) |->
                IF s = {} THEN 0 ELSE f[s \ {Max(s)}] + w[pieces[Max(s)]]]
             g == CHOOSE f : f = Body(f)
  <1>1. n \in Nat /\ DOMAIN pieces = 1 .. n /\ \A i \in 1 .. n : w[pieces[i]] \in Nat
    OBVIOUS
  <1>2. Total(w, pieces) = g[1 .. n]
    BY <1>1 DEF Total, FoldLeft, MapThenFoldSet
  <1> HIDE DEF n
  <1>3. F \in [1 .. n -> [Nat -> Nat]]
    BY <1>1 DEF Adding, n
  <1>4. PICK f : IsFold(f, F, Nat, 0, n)
    BY <1>1, <1>3, FoldExists
  <1>5. \A s \in SUBSET (1 .. n) : s # {} => Max(s) \in 1 .. n
    BY <1>1, GreatestOf
  <1>6. \A i \in 1 .. n, v \in Nat : F[i][v] = v + w[pieces[i]]
    BY DEF Adding, n
  <1> HIDE DEF F
  <1>7. f = Body(f)
    <2>1. \A s \in SUBSET (1 .. n) : s # {} =>
             f[s] = f[s \ {Max(s)}] + w[pieces[Max(s)]]
      <3> SUFFICES ASSUME NEW s \in SUBSET (1 .. n), s # {}
                   PROVE  f[s] = f[s \ {Max(s)}] + w[pieces[Max(s)]]
        OBVIOUS
      <3>1. f[s] = F[Max(s)][f[s \ {Max(s)}]] /\ f[s \ {Max(s)}] \in Nat
        BY <1>4 DEF IsFold
      <3> QED
        BY <1>5, <1>6, <3>1
    <2>2. f \in [SUBSET (1 .. n) -> Nat] /\ f[{}] = 0
      BY <1>4 DEF IsFold
    <2> QED
      BY <2>1, <2>2
  <1>8. g = Body(g)
    BY <1>7
  <1> HIDE DEF g
  <1>9. g[{}] = 0
    BY <1>8
  <1>10. ASSUME NEW s \in SUBSET (1 .. n), s # {}, g[s \ {Max(s)}] \in Nat
         PROVE  g[s] = F[Max(s)][g[s \ {Max(s)}]]
    <2>1. g[s] = g[s \ {Max(s)}] + w[pieces[Max(s)]]
      BY <1>8, <1>10
    <2> QED
      BY <1>5, <1>6, <1>10, <2>1
  <1>11. Folds(g, F, Nat, 0, n)
    BY <1>9, <1>10 DEF Folds
  <1>12. RunsTo(F, Nat, 0, n, g[1 .. n])
    <2>1. 0 \in Nat /\ n \in Nat
      BY <1>1
    <2> QED
      BY ONLY <1>3, <1>11, <2>1, FoldRuns
  <1> QED
    BY <1>2, <1>12 DEF F, n

-----------------------------------------------------------------------------
(* The pieces of a text *)

Types == {"heading", "paragraph", "list_item", "code", "blockquote", "table",
          "horizontal_rule", "image"}

Blocks ==
    {block \in [type: Types, text: Seq(Prose) \cup {<<"image">>}, start: Nat, end: Nat] :
        block.type = "paragraph" => block.text \in Seq(Prose)}

ParseStates ==
    {s \in [blocks: Seq(Blocks), depth: Int, at: Nat] : s.depth > 0 => s.blocks # <<>>}

LEMMA TypeOfBlock ==
    ASSUME NEW type \in DOMAIN BlockType
    PROVE  /\ BlockType[type] \in Types \ {"image"}
           /\ BlockType[type] = "paragraph" <=> type = "paragraph_open"
  BY DEF BlockType, Types

LEMMA TextOfToken ==
    ASSUME NEW token \in Tokens
    PROVE  /\ token.text \in Seq(Prose) \cup {<<"image">>}
           /\ token.text # <<"image">> => token.text \in Seq(Prose)
           /\ Width(token) \in Nat
  <1>1. token.text \in Seq(Prose) \cup {<<"image">>}
    BY DEF Tokens
  <1>2. Len(token.text) \in Nat
    BY <1>1
  <1> QED
    BY <1>1, <1>2 DEF Width

\* What replaces the last of some items.
LEMMA LastReplaced ==
    ASSUME NEW X, NEW items \in Seq(X), items # <<>>, NEW x \in X
    PROVE  /\ Last(items) \in X
           /\ Append(Front(items), x) \in Seq(X)
           /\ Len(Append(Front(items), x)) = Len(items)
           /\ Append(Front(items), x)[Len(items)] = x
           /\ \A i \in 1 .. Len(items) - 1 : Append(Front(items), x)[i] = items[i]
  <1>1. Len(items) \in Nat /\ Len(items) > 0
    BY EmptySeq
  <1>2. /\ Front(items) \in Seq(X)
        /\ Len(Front(items)) = Len(items) - 1
        /\ \A i \in 1 .. Len(items) - 1 : Front(items)[i] = items[i]
    <2>1. \A i \in 1 .. Len(items) - 1 : items[i] \in X
      BY <1>1
    <2> DEFINE m == Len(items) - 1
    <2>2. m \in Int /\ \A i \in 1 .. m : items[i] \in X
      BY <1>1, <2>1
    <2> HIDE DEF m
    <2>3. /\ SubSeq(items, 1, m) \in Seq(X)
          /\ Len(SubSeq(items, 1, m)) = IF 1 <= m THEN m - 1 + 1 ELSE 0
          /\ \A i \in 1 .. m - 1 + 1 : SubSeq(items, 1, m)[i] = items[1 + i - 1]
      BY <2>2, SubSeqProperties
    <2>4. m >= 0
      BY <1>1 DEF m
    <2>5. /\ Len(SubSeq(items, 1, m)) = m
          /\ \A i \in 1 .. m : SubSeq(items, 1, m)[i] = items[i]
      BY <2>2, <2>3, <2>4
    <2> QED
      BY <2>3, <2>5 DEF Front, m
  <1>3. Last(items) \in X
    BY <1>1 DEF Last
  <1> DEFINE front == Front(items)
  <1> HIDE DEF front
  <1>4. front \in Seq(X) /\ Len(front) = Len(items) - 1
    BY <1>2 DEF front
  <1>5. /\ Append(front, x) \in Seq(X)
        /\ Len(Append(front, x)) = Len(items)
        /\ Append(front, x)[Len(items)] = x
        /\ \A i \in 1 .. Len(items) - 1 : Append(front, x)[i] = front[i]
    BY <1>1, <1>4
  <1> QED
    BY <1>2, <1>3, <1>5 DEF front

LEMMA ParseTokenTyped ==
    ASSUME NEW s \in ParseStates, NEW token \in Tokens
    PROVE  ParseToken(s, token) \in ParseStates
  <1> DEFINE end == s.at + Width(token)
             opens == token.type \in DOMAIN BlockType
             type == IF token.text = <<"image">> THEN "image" ELSE BlockType[token.type]
             block == [type |-> type, text |-> token.text, start |-> s.at, end |-> end]
             longer == [Last(s.blocks) EXCEPT !.end = end]
             blocks == IF s.depth > 0 THEN Append(Front(s.blocks), longer)
                       ELSE IF opens THEN Append(s.blocks, block) ELSE s.blocks
             depth == s.depth + IF token.type \in CloseTypes THEN -1
                                ELSE IF opens /\ type \in Absorbing THEN 1 ELSE 0
  <1>1. ParseToken(s, token) = [blocks |-> blocks, depth |-> depth, at |-> end]
    BY DEF ParseToken
  <1>2. s.blocks \in Seq(Blocks) /\ s.depth \in Int /\ s.at \in Nat
        /\ (s.depth > 0 => s.blocks # <<>>)
    BY DEF ParseStates
  <1>3. end \in Nat
    BY <1>2, TextOfToken
  <1>4. depth \in Int /\ (depth > 0 => s.depth > 0 \/ opens)
    BY <1>2
  <1>5. opens => block \in Blocks
    BY <1>2, <1>3, TextOfToken, TypeOfBlock DEF Blocks, Types
  <1> HIDE DEF end, depth, block
  <1>6. CASE s.depth > 0
    <2>1. Last(s.blocks) \in Blocks /\ longer \in Blocks
      <3>1. Last(s.blocks) \in Blocks
        BY <1>2, <1>6 DEF Last
      <3> QED
        BY <1>3, <3>1 DEF Blocks
    <2> HIDE DEF longer
    <2>2. /\ Append(Front(s.blocks), longer) \in Seq(Blocks)
          /\ Len(Append(Front(s.blocks), longer)) = Len(s.blocks)
      BY <1>2, <1>6, <2>1, LastReplaced
    <2>3. Append(Front(s.blocks), longer) # <<>>
      BY <1>2, <1>6, <2>2, EmptySeq
    <2>4. blocks \in Seq(Blocks) /\ blocks # <<>>
      BY <1>6, <2>2, <2>3
    <2> HIDE DEF blocks
    <2> QED
      BY <1>1, <1>3, <1>4, <2>4 DEF ParseStates
  <1>7. CASE ~ (s.depth > 0)
    <2>1. blocks \in Seq(Blocks) /\ (opens => blocks # <<>>)
      BY <1>2, <1>5, <1>7
    <2> HIDE DEF blocks
    <2> QED
      BY <1>1, <1>3, <1>4, <1>7, <2>1 DEF ParseStates
  <1> QED
    BY <1>6, <1>7

Parsing(tokens) ==
    [i \in 1 .. Len(tokens) |-> [s \in ParseStates |-> ParseToken(s, tokens[i])]]

NothingParsed == [blocks |-> <<>>, depth |-> 0, at |-> 0]

LEMMA ParsedRuns ==
    ASSUME NEW tokens \in Seq(Tokens)
    PROVE  /\ NothingParsed \in ParseStates
           /\ RunsTo(Parsing(tokens), ParseStates, NothingParsed, Len(tokens), Parsed(tokens))
  <1> DEFINE n == Len(tokens)
             F == Parsing(tokens)
             Body(f) == [s \in SUBSET (1 .. n) |->
                IF s = {} THEN NothingParsed ELSE ParseToken(f[s \ {Max(s)}], tokens[Max(s)])]
             g == CHOOSE f : f = Body(f)
  <1>1. n \in Nat /\ DOMAIN tokens = 1 .. n /\ \A i \in 1 .. n : tokens[i] \in Tokens
    OBVIOUS
  <1>2. Parsed(tokens) = g[1 .. n]
    BY <1>1 DEF Parsed, FoldLeft, MapThenFoldSet, NothingParsed
  <1> HIDE DEF n
  <1>3. NothingParsed \in ParseStates
    BY DEF NothingParsed, ParseStates
  <1>4. F \in [1 .. n -> [ParseStates -> ParseStates]]
    BY <1>1, ParseTokenTyped DEF Parsing, n
  <1>5. PICK f : IsFold(f, F, ParseStates, NothingParsed, n)
    BY <1>1, <1>3, <1>4, FoldExists
  <1>6. \A s \in SUBSET (1 .. n) : s # {} => Max(s) \in 1 .. n
    BY <1>1, GreatestOf
  <1>7. \A i \in 1 .. n, v \in ParseStates : F[i][v] = ParseToken(v, tokens[i])
    BY DEF Parsing, n
  <1> HIDE DEF F
  <1>8. f = Body(f)
    <2>1. \A s \in SUBSET (1 .. n) : s # {} =>
             f[s] = ParseToken(f[s \ {Max(s)}], tokens[Max(s)])
      <3> SUFFICES ASSUME NEW s \in SUBSET (1 .. n), s # {}
                   PROVE  f[s] = ParseToken(f[s \ {Max(s)}], tokens[Max(s)])
        OBVIOUS
      <3>1. f[s] = F[Max(s)][f[s \ {Max(s)}]] /\ f[s \ {Max(s)}] \in ParseStates
        BY <1>5 DEF IsFold
      <3> QED
        BY <1>6, <1>7, <3>1
    <2>2. f \in [SUBSET (1 .. n) -> ParseStates] /\ f[{}] = NothingParsed
      BY <1>5 DEF IsFold
    <2> QED
      BY <2>1, <2>2
  <1>9. g = Body(g)
    BY <1>8
  <1> HIDE DEF g
  <1>10. g[{}] = NothingParsed
    BY <1>9
  <1>11. ASSUME NEW s \in SUBSET (1 .. n), s # {}, g[s \ {Max(s)}] \in ParseStates
         PROVE  g[s] = F[Max(s)][g[s \ {Max(s)}]]
    <2>1. g[s] = ParseToken(g[s \ {Max(s)}], tokens[Max(s)])
      BY <1>9, <1>11
    <2> QED
      BY <1>6, <1>7, <1>11, <2>1
  <1>12. Folds(g, F, ParseStates, NothingParsed, n)
    BY <1>10, <1>11 DEF Folds
  <1>13. RunsTo(F, ParseStates, NothingParsed, n, g[1 .. n])
    BY ONLY <1>1, <1>3, <1>4, <1>12, FoldRuns
  <1> QED
    BY <1>2, <1>3, <1>13 DEF F, n

-----------------------------------------------------------------------------
(* Sequences of sequences *)

Joining(X, seqs) == [i \in 1 .. Len(seqs) |-> [p \in Seq(X) |-> p \o seqs[i]]]

LEMMA JoinedRuns ==
    ASSUME NEW X, NEW seqs \in Seq(Seq(X))
    PROVE  /\ FlattenSeq(seqs) \in Seq(X)
           /\ RunsTo(Joining(X, seqs), Seq(X), <<>>, Len(seqs), FlattenSeq(seqs))
  <1> DEFINE n == Len(seqs)
             F == Joining(X, seqs)
             Body(f) == [i \in 1 .. n |-> IF i = 1 THEN seqs[i] ELSE f[i - 1] \o seqs[i]]
             g == CHOOSE f : f = Body(f)
  <1>1. n \in Nat /\ (n = 0 => seqs = <<>>) /\ <<>> \in Seq(X)
        /\ \A i \in 1 .. n : seqs[i] \in Seq(X)
    BY EmptySeq
  <1>2. FlattenSeq(seqs) = IF n = 0 THEN seqs ELSE g[n]
    BY DEF FlattenSeq
  <1> HIDE DEF n
  <1>3. \A p, q \in Seq(X) : p \o q \in Seq(X) /\ <<>> \o q = q
    BY ConcatProperties, ConcatEmptySeq
  <1>4. F \in [1 .. n -> [Seq(X) -> Seq(X)]]
    BY <1>1, <1>3 DEF Joining, n
  <1>5. PICK h : IsRun(h, F, Seq(X), <<>>, n)
    BY <1>1, <1>4, RunExists
  <1>6. \A i \in 1 .. n : h[i] = h[i - 1] \o seqs[i]
    <2> SUFFICES ASSUME NEW i \in 1 .. n PROVE h[i] = h[i - 1] \o seqs[i]
      OBVIOUS
    <2>1. h[i] = F[i][h[i - 1]] /\ h[i - 1] \in Seq(X)
      BY <1>1, <1>5 DEF IsRun
    <2>2. F[i] = [p \in Seq(X) |-> p \o seqs[i]]
      BY DEF Joining, n
    <2> QED
      BY <2>1, <2>2
  <1> DEFINE f == [i \in 1 .. n |-> h[i]]
  <1>7. \A i \in 1 .. n : f[i] = IF i = 1 THEN seqs[i] ELSE f[i - 1] \o seqs[i]
    <2> SUFFICES ASSUME NEW i \in 1 .. n
                 PROVE  f[i] = IF i = 1 THEN seqs[i] ELSE f[i - 1] \o seqs[i]
      OBVIOUS
    <2>1. CASE i = 1
      <3>1. i - 1 = 0 /\ h[0] = <<>>
        BY <1>5, <2>1 DEF IsRun
      <3>2. h[i] = <<>> \o seqs[i]
        BY <1>6, <3>1
      <3> QED
        BY <1>1, <1>3, <2>1, <3>2
    <2>2. CASE i # 1
      <3>1. i - 1 \in 1 .. n
        BY <1>1, <2>2
      <3> QED
        BY <1>6, <2>2, <3>1
    <2> QED
      BY <2>1, <2>2
  <1>8. f = Body(f)
    BY <1>7
  <1>9. g = Body(g)
    BY <1>8
  <1> HIDE DEF f, g
  <1>10. \A i \in 1 .. n : g[i] = IF i = 1 THEN seqs[i] ELSE g[i - 1] \o seqs[i]
    BY <1>9
  <1> DEFINE S == {i \in Nat : i \in 1 .. n => g[i] = f[i]}
  <1>11. 0 \in S
    OBVIOUS
  <1>12. ASSUME NEW i \in Nat, i \in S PROVE i + 1 \in S
    <2> SUFFICES ASSUME i + 1 \in 1 .. n PROVE g[i + 1] = f[i + 1]
      OBVIOUS
    <2>1. (i + 1) - 1 = i /\ (i + 1 # 1 => i \in 1 .. n)
      BY <1>1
    <2>2. CASE i + 1 = 1
      BY <1>7, <1>10, <2>2
    <2>3. CASE i + 1 # 1
      <3>1. g[i] = f[i]
        BY <1>12, <2>1, <2>3
      <3> QED
        BY <1>7, <1>10, <2>1, <2>3, <3>1
    <2> QED
      BY <2>2, <2>3
  <1> HIDE DEF S
  <1>13. Nat \subseteq S
    BY <1>11, <1>12, SetInduction
  <1>14. FlattenSeq(seqs) = h[n] /\ h[n] \in Seq(X)
    <2>1. h[n] \in Seq(X) /\ h[0] = <<>>
      BY <1>1, <1>5 DEF IsRun
    <2>2. ASSUME n # 0 PROVE g[n] = h[n]
      <3>1. n \in Nat /\ n \in 1 .. n
        BY <1>1, <2>2
      <3>2. g[n] = f[n]
        BY <1>13, <3>1 DEF S
      <3> QED
        BY <3>1, <3>2 DEF f
    <2> QED
      BY <1>1, <1>2, <2>1, <2>2
  <1> QED
    BY <1>5, <1>14 DEF RunsTo, F, n

-----------------------------------------------------------------------------
(* The atomic pieces of a list of blocks *)

Pieces == [kind: PieceKinds, start: Nat, end: Nat]

\* A run of list items has a last one.
LEMMA RunEnds ==
    ASSUME NEW blocks \in Seq(Blocks), NEW b \in 1 .. Len(blocks),
           blocks[b].type = "list_item"
    PROVE  /\ RunEnd(blocks, b) \in b .. Len(blocks)
           /\ \A i \in b .. RunEnd(blocks, b) : blocks[i].type = "list_item"
           /\ RunEnd(blocks, b) < Len(blocks)
                => blocks[RunEnd(blocks, b) + 1].type # "list_item"
  <1> DEFINE n == Len(blocks)
             E == {e \in b .. n : \A i \in b .. e : blocks[i].type = "list_item"}
  <1>1. n \in Nat
    OBVIOUS
  <1> HIDE DEF n
  <1>2. E \in SUBSET (1 .. n) /\ b \in E
    BY <1>1 DEF n
  <1>3. Max(E) \in E /\ \A y \in E : Max(E) >= y
    <2> HIDE DEF E
    <2> QED
      BY <1>1, <1>2, GreatestOf
  <1>4. ASSUME Max(E) < n, blocks[Max(E) + 1].type = "list_item" PROVE FALSE
    <2>1. Max(E) \in b .. n /\ \A i \in b .. Max(E) : blocks[i].type = "list_item"
      BY <1>3
    <2>2. Max(E) + 1 \in b .. n
      BY <1>1, <1>4, <2>1 DEF n
    <2>3. \A i \in b .. Max(E) + 1 : i \in b .. Max(E) \/ i = Max(E) + 1
      BY <2>1, <2>2
    <2>4. Max(E) + 1 \in E
      BY <1>4, <2>1, <2>2, <2>3
    <2> HIDE DEF E
    <2> QED
      BY <1>3, <2>1, <2>4
  <1>5. \E e \in b .. Len(blocks) :
           /\ \A i \in b .. e : blocks[i].type = "list_item"
           /\ e < Len(blocks) => blocks[e + 1].type # "list_item"
    BY <1>3, <1>4 DEF n
  <1> QED
    BY <1>5 DEF RunEnd

LEMMA PiecesFromTyped ==
    ASSUME NEW blocks \in Seq(Blocks), NEW b \in 1 .. Len(blocks)
    PROVE  PiecesFrom(blocks, b) \in Seq(Pieces)
  <1>1. /\ blocks[b].type \in Types /\ blocks[b].start \in Nat /\ blocks[b].end \in Nat
        /\ blocks[b].type = "paragraph" => blocks[b].text \in Seq(Prose)
    BY DEF Blocks
  <1>2. CASE blocks[b].type = "paragraph"
    <2> DEFINE text == blocks[b].text
               pieces == SentencePieces(blocks[b])
    <2>1. text \in Seq(Prose) /\ Len(text) \in Nat /\ DOMAIN text = 1 .. Len(text)
      BY <1>1, <1>2
    <2>2. pieces = [i \in 1 .. Len(text) |->
             [kind |-> text[i], start |-> blocks[b].start + i - 1, end |-> blocks[b].start + i]]
      BY <2>1 DEF SentencePieces, Piece
    <2>3. \A i \in 1 .. Len(text) :
             [kind |-> text[i], start |-> blocks[b].start + i - 1, end |-> blocks[b].start + i]
                \in Pieces
      <3> SUFFICES ASSUME NEW i \in 1 .. Len(text)
                   PROVE  [kind |-> text[i], start |-> blocks[b].start + i - 1,
                           end |-> blocks[b].start + i] \in Pieces
        OBVIOUS
      <3>1. text[i] \in PieceKinds
        BY <2>1 DEF Prose, PieceKinds
      <3>2. blocks[b].start + i - 1 \in Nat /\ blocks[b].start + i \in Nat
        BY <1>1, <2>1
      <3> HIDE DEF text
      <3> QED
        BY <3>1, <3>2 DEF Pieces
    <2> HIDE DEF text, pieces
    <2>4. pieces \in [1 .. Len(text) -> Pieces]
      BY <2>2, <2>3
    <2>5. pieces \in Seq(Pieces)
      BY <2>1, <2>4, SeqDef
    <2> QED
      BY <1>2, <2>5 DEF PiecesFrom, pieces
  <1>3. CASE blocks[b].type = "list_item"
    <2>1. blocks[RunEnd(blocks, b)].end \in Nat
      BY <1>3, RunEnds DEF Blocks
    <2>2. Piece("block", blocks[b].start, blocks[RunEnd(blocks, b)].end) \in Pieces
      BY <1>1, <2>1 DEF Piece, Pieces, PieceKinds
    <2> HIDE DEF Pieces
    <2> QED
      BY <1>3, <2>2 DEF PiecesFrom
  <1>4. CASE blocks[b].type \notin {"paragraph", "list_item"}
    <2>1. BlockPiece(blocks[b]) \in Pieces
      BY <1>1 DEF BlockPiece, Piece, Pieces, PieceKinds
    <2> HIDE DEF Pieces
    <2> QED
      BY <1>4, <2>1 DEF PiecesFrom
  <1> QED
    BY <1>2, <1>3, <1>4

LEMMA PiecesOfTyped ==
    ASSUME NEW tokens \in Seq(Tokens)
    PROVE  PiecesOf(tokens) \in Seq(Pieces)
  <1> DEFINE blocks == Parsed(tokens).blocks
             parts == [b \in DOMAIN blocks |-> PiecesFrom(blocks, b)]
  <1>1. Parsed(tokens) \in ParseStates
    <2>1. Len(tokens) \in Nat
      OBVIOUS
    <2> QED
      BY <2>1, ParsedRuns DEF RunsTo, IsRun
  <1>2. blocks \in Seq(Blocks)
    BY <1>1 DEF ParseStates
  <1> HIDE DEF blocks
  <1>3. Len(blocks) \in Nat /\ DOMAIN blocks = 1 .. Len(blocks)
    BY <1>2
  <1>4. parts \in [1 .. Len(blocks) -> Seq(Pieces)]
    BY <1>2, <1>3, PiecesFromTyped
  <1>5. parts \in Seq(Seq(Pieces))
    BY <1>3, <1>4, SeqDef
  <1> HIDE DEF parts
  <1>6. FlattenSeq(parts) \in Seq(Pieces)
    BY <1>5, JoinedRuns
  <1> QED
    BY <1>6 DEF PiecesOf, AtomicPieces, blocks, parts

LEMMA SourcesAreTokens == Sources \subseteq Seq(Tokens)
  <1> SUFFICES ASSUME NEW n \in 0 .. MaxBlocks, NEW blocks \in [1 .. n -> Constructs]
               PROVE  FlattenSeq(blocks) \in Seq(Tokens)
    BY DEF Sources
  <1>1. n \in Nat /\ Constructs \subseteq Seq(Tokens)
    BY CursorAssumption
  <1>2. blocks \in [1 .. n -> Seq(Tokens)]
    BY <1>1
  <1>3. blocks \in Seq(Seq(Tokens))
    BY <1>1, <1>2, SeqDef
  <1> QED
    BY <1>3, JoinedRuns

-----------------------------------------------------------------------------
(* What each operation of the planner does *)

\* What waits for company, in document order.
Queue(s) == s.pending \o s.bucket

Headings(pieces) == \A i \in DOMAIN pieces : Kind(pieces[i]) = "heading"

Typed(s) ==
    /\ s \in States
    /\ s.bucket = <<>> => s.bucketSeconds = 0

\* The bucket waits with the headings, or all that waits becomes a chunk.
Defers(s, t) ==
    /\ t.chunks = s.chunks
    /\ Headings(s.bucket)
    /\ t.pending = Queue(s)
    /\ t.pendingSeconds = s.pendingSeconds + s.bucketSeconds

Releases(s, t) ==
    /\ t.chunks = Append(s.chunks, Chunk(Queue(s), s.pendingSeconds + s.bucketSeconds))
    /\ s.bucket # <<>> /\ ~ Headings(s.bucket)
    /\ t.pending = <<>>
    /\ t.pendingSeconds = 0

Flushes(s, t) ==
    /\ Typed(t)
    /\ t.bucket = <<>> /\ t.bucketSeconds = 0
    /\ Defers(s, t) \/ Releases(s, t)

Keeps(s, t, x) ==
    /\ Typed(t)
    /\ t.chunks = s.chunks
    /\ t.pending = s.pending /\ t.pendingSeconds = s.pendingSeconds
    /\ t.bucket = Append(s.bucket, x)
    /\ t.bucketSeconds = s.bucketSeconds + PieceCost(x)

\* The block x becomes a chunk of its own, behind the headings that wait.
Isolates(s, t, x) ==
    /\ Typed(t)
    /\ t.chunks = Append(s.chunks, Chunk(Append(s.pending, x), s.pendingSeconds + PieceCost(x)))
    /\ t.pending = <<>> /\ t.pendingSeconds = 0
    /\ t.bucket = <<>> /\ t.bucketSeconds = 0

\* The block x is put at the end of the last chunk.
Extended(chunk, x) == Chunk(Append(chunk.pieces, x), chunk.seconds + PieceCost(x))

Absorbs(s, t, x) ==
    /\ Typed(t)
    /\ s.chunks # <<>>
    /\ Len(t.chunks) = Len(s.chunks)
    /\ t.chunks[Len(s.chunks)] = Extended(s.chunks[Len(s.chunks)], x)
    /\ \A c \in 1 .. Len(s.chunks) - 1 : t.chunks[c] = s.chunks[c]
    /\ t.pending = s.pending /\ t.pendingSeconds = s.pendingSeconds
    /\ t.bucket = <<>> /\ t.bucketSeconds = 0

LEMMA FieldsOfState ==
    ASSUME NEW s, Typed(s)
    PROVE  /\ s.chunks \in Seq(Chunks)
           /\ s.bucket \in Seq(Ordinals) /\ s.bucketSeconds \in Nat
           /\ s.pending \in Seq(Ordinals) /\ s.pendingSeconds \in Nat
           /\ Queue(s) \in Seq(Ordinals)
           /\ s.bucket = <<>> => s.bucketSeconds = 0
  <1>1. /\ s.chunks \in Seq(Chunks)
        /\ s.bucket \in Seq(Ordinals) /\ s.bucketSeconds \in Nat
        /\ s.pending \in Seq(Ordinals) /\ s.pendingSeconds \in Nat
        /\ s.bucket = <<>> => s.bucketSeconds = 0
    BY DEF Typed, States
  <1> QED
    BY <1>1, ConcatProperties DEF Queue

LEMMA AppendIsLonger ==
    ASSUME NEW X, NEW items \in Seq(X), NEW x \in X
    PROVE  /\ Append(items, x) \in Seq(X)
           /\ Append(items, x) # <<>>
           /\ Len(Append(items, x)) = Len(items) + 1
           /\ Append(items, x)[Len(items) + 1] = x
           /\ \A i \in 1 .. Len(items) : Append(items, x)[i] = items[i]
           /\ items \o <<x>> = Append(items, x)
  <1>1. /\ Append(items, x) \in Seq(X)
        /\ Len(Append(items, x)) = Len(items) + 1
        /\ Append(items, x)[Len(items) + 1] = x
        /\ \A i \in 1 .. Len(items) : Append(items, x)[i] = items[i]
        /\ Len(items) \in Nat
    OBVIOUS
  <1>2. Append(items, x) # <<>>
    BY <1>1, EmptySeq
  <1>3. <<x>> \in Seq(X) /\ Len(<<x>>) = 1 /\ <<x>>[1] = x
    OBVIOUS
  <1> DEFINE one == <<x>>
             longer == Append(items, x)
  <1> HIDE DEF one, longer
  <1>4. /\ items \o one \in Seq(X)
        /\ Len(items \o one) = Len(items) + 1
        /\ \A i \in 1 .. Len(items) + 1 :
              (items \o one)[i] = IF i <= Len(items) THEN items[i] ELSE one[i - Len(items)]
    BY <1>3, ConcatProperties DEF one
  <1>5. \A i \in 1 .. Len(items) + 1 : (items \o one)[i] = longer[i]
    BY <1>1, <1>3, <1>4 DEF one, longer
  <1>6. items \o one = longer
    BY <1>1, <1>4, <1>5, SeqEqual DEF longer
  <1> QED
    BY <1>1, <1>2, <1>6 DEF one, longer

LEMMA ChunkTyped ==
    ASSUME NEW pieces \in Seq(Ordinals), NEW seconds \in Nat
    PROVE  Chunk(pieces, seconds) \in Chunks
  BY DEF Chunk, Chunks

LEMMA FlushEffect ==
    ASSUME NEW s, Typed(s)
    PROVE  Flushes(s, Flush(s))
  <1>1. /\ s.chunks \in Seq(Chunks)
        /\ s.bucket \in Seq(Ordinals) /\ s.bucketSeconds \in Nat
        /\ s.pending \in Seq(Ordinals) /\ s.pendingSeconds \in Nat
        /\ Queue(s) \in Seq(Ordinals)
        /\ s.bucket = <<>> => s.bucketSeconds = 0
        /\ s \in States
    BY FieldsOfState DEF Typed
  <1>2. <<>> \in Seq(Ordinals)
    BY EmptySeq
  <1>3. CASE s.bucket = <<>>
    <2>1. Flush(s) = s /\ Queue(s) = s.pending /\ Headings(s.bucket)
      BY <1>1, <1>3, ConcatEmptySeq DEF Flush, Queue, Headings
    <2> QED
      BY <1>1, <1>3, <2>1 DEF Flushes, Defers, Typed
  <1>4. CASE s.bucket # <<>> /\ Headings(s.bucket)
    <2> DEFINE t == [chunks |-> s.chunks, bucket |-> <<>>, bucketSeconds |-> 0,
                     pending |-> Queue(s),
                     pendingSeconds |-> s.pendingSeconds + s.bucketSeconds]
    <2>1. Flush(s) = t
      BY <1>1, <1>4 DEF Flush, Headings, EmptyBucket, Queue, States
    <2>2. t \in States
      BY <1>1, <1>2 DEF States
    <2> QED
      BY <1>4, <2>1, <2>2 DEF Flushes, Defers, Typed
  <1>5. CASE s.bucket # <<>> /\ ~ Headings(s.bucket)
    <2> DEFINE chunk == Chunk(Queue(s), s.pendingSeconds + s.bucketSeconds)
               t == [chunks |-> Append(s.chunks, chunk), bucket |-> <<>>,
                     bucketSeconds |-> 0, pending |-> <<>>, pendingSeconds |-> 0]
    <2>1. Flush(s) = t
      BY <1>1, <1>5 DEF Flush, Headings, EmptyBucket, Emit, Queue, States
    <2>2. chunk \in Chunks
      BY <1>1, ChunkTyped
    <2> HIDE DEF chunk
    <2>3. t \in States
      BY <1>1, <1>2, <2>2 DEF States
    <2> QED
      BY <1>5, <2>1, <2>3 DEF Flushes, Releases, Typed, chunk
  <1> QED
    BY <1>3, <1>4, <1>5

\* A state is its fields, and so is a state with some of them replaced.
LEMMA StateOfFields ==
    ASSUME NEW s \in States
    PROVE  s = [chunks |-> s.chunks, bucket |-> s.bucket, bucketSeconds |-> s.bucketSeconds,
                pending |-> s.pending, pendingSeconds |-> s.pendingSeconds]
  BY Zenon DEF States

LEMMA FieldsReplaced ==
    ASSUME NEW s \in States, NEW chunks, NEW bucket, NEW seconds
    PROVE  /\ [s EXCEPT !.chunks = chunks]
                = [chunks |-> chunks, bucket |-> s.bucket, bucketSeconds |-> s.bucketSeconds,
                   pending |-> s.pending, pendingSeconds |-> s.pendingSeconds]
           /\ [s EXCEPT !.bucket = bucket, !.bucketSeconds = seconds]
                = [chunks |-> s.chunks, bucket |-> bucket, bucketSeconds |-> seconds,
                   pending |-> s.pending, pendingSeconds |-> s.pendingSeconds]
           /\ [s EXCEPT !.chunks = chunks, !.pending = bucket, !.pendingSeconds = seconds]
                = [chunks |-> chunks, bucket |-> s.bucket, bucketSeconds |-> s.bucketSeconds,
                   pending |-> bucket, pendingSeconds |-> seconds]
  <1> DEFINE a == s.chunks
             b == s.bucket
             c == s.bucketSeconds
             d == s.pending
             e == s.pendingSeconds
  <1>1. s = [chunks |-> a, bucket |-> b, bucketSeconds |-> c, pending |-> d, pendingSeconds |-> e]
    BY StateOfFields
  <1> HIDE DEF a, b, c, d, e
  <1> DEFINE t == [s EXCEPT !.bucket = bucket]
             u == [s EXCEPT !.chunks = chunks]
             v == [u EXCEPT !.pending = bucket]
  <1>2. t = [chunks |-> a, bucket |-> bucket, bucketSeconds |-> c, pending |-> d,
             pendingSeconds |-> e]
    BY ONLY <1>1
  <1>3. u = [chunks |-> chunks, bucket |-> b, bucketSeconds |-> c, pending |-> d,
             pendingSeconds |-> e]
    BY ONLY <1>1
  <1>4. [s EXCEPT !.bucket = bucket, !.bucketSeconds = seconds] = [t EXCEPT !.bucketSeconds = seconds]
    BY ONLY TRUE
  <1>5. [s EXCEPT !.chunks = chunks, !.pending = bucket, !.pendingSeconds = seconds]
          = [v EXCEPT !.pendingSeconds = seconds]
    BY ONLY TRUE
  <1> HIDE DEF t
  <1>6. [t EXCEPT !.bucketSeconds = seconds]
          = [chunks |-> a, bucket |-> bucket, bucketSeconds |-> seconds, pending |-> d,
             pendingSeconds |-> e]
    BY ONLY <1>2
  <1>7. [s EXCEPT !.chunks = chunks]
          = [chunks |-> chunks, bucket |-> b, bucketSeconds |-> c, pending |-> d,
             pendingSeconds |-> e]
    BY ONLY <1>1
  <1> HIDE DEF u
  <1>8. v = [chunks |-> chunks, bucket |-> b, bucketSeconds |-> c, pending |-> bucket,
             pendingSeconds |-> e]
    BY ONLY <1>3
  <1> HIDE DEF v
  <1>9. [v EXCEPT !.pendingSeconds = seconds]
          = [chunks |-> chunks, bucket |-> b, bucketSeconds |-> c, pending |-> bucket,
             pendingSeconds |-> seconds]
    BY ONLY <1>8
  <1> QED
    BY <1>4, <1>5, <1>6, <1>7, <1>9 DEF a, b, c, d, e

LEMMA KeepEffect ==
    ASSUME NEW s, Typed(s), NEW x \in Ordinals, PieceCost(x) \in Nat
    PROVE  Keeps(s, Keep(s, x), x)
  <1>1. /\ s.chunks \in Seq(Chunks)
        /\ s.bucket \in Seq(Ordinals) /\ s.bucketSeconds \in Nat
        /\ s.pending \in Seq(Ordinals) /\ s.pendingSeconds \in Nat
        /\ s \in States
    BY FieldsOfState DEF Typed
  <1> DEFINE t == [chunks |-> s.chunks, bucket |-> Append(s.bucket, x),
                   bucketSeconds |-> s.bucketSeconds + PieceCost(x),
                   pending |-> s.pending, pendingSeconds |-> s.pendingSeconds]
  <1>2. Keep(s, x) = t
    <2> DEFINE bucket == Append(s.bucket, x)
               seconds == s.bucketSeconds + PieceCost(x)
    <2>1. Keep(s, x) = [s EXCEPT !.bucket = bucket, !.bucketSeconds = seconds]
      BY DEF Keep
    <2> HIDE DEF bucket, seconds
    <2>2. Keep(s, x) = [chunks |-> s.chunks, bucket |-> bucket, bucketSeconds |-> seconds,
                        pending |-> s.pending, pendingSeconds |-> s.pendingSeconds]
      BY <1>1, <2>1, FieldsReplaced
    <2> QED
      BY <2>2 DEF bucket, seconds
  <1>3. Append(s.bucket, x) \in Seq(Ordinals) /\ Append(s.bucket, x) # <<>>
    BY <1>1, AppendIsLonger
  <1>4. t \in States
    BY <1>1, <1>3 DEF States
  <1> QED
    BY <1>2, <1>3, <1>4 DEF Keeps, Typed

LEMMA EmitEffect ==
    ASSUME NEW s \in States, NEW pieces, NEW seconds
    PROVE  Emit(s, pieces, seconds)
             = [chunks |-> Append(s.chunks, Chunk(s.pending \o pieces, s.pendingSeconds + seconds)),
                bucket |-> s.bucket, bucketSeconds |-> s.bucketSeconds,
                pending |-> <<>>, pendingSeconds |-> 0]
  <1> DEFINE chunks == Append(s.chunks, Chunk(s.pending \o pieces, s.pendingSeconds + seconds))
             none == <<>>
             zero == 0
  <1>1. Emit(s, pieces, seconds) = [s EXCEPT !.chunks = chunks, !.pending = none, !.pendingSeconds = zero]
    BY DEF Emit
  <1> HIDE DEF chunks, none, zero
  <1>2. Emit(s, pieces, seconds) = [chunks |-> chunks, bucket |-> s.bucket, bucketSeconds |-> s.bucketSeconds,
             pending |-> none, pendingSeconds |-> zero]
    BY <1>1, FieldsReplaced
  <1> QED
    BY <1>2 DEF chunks, none, zero

LEMMA IsolateEffect ==
    ASSUME NEW s, Typed(s), s.bucket = <<>>, NEW x \in Ordinals, PieceCost(x) \in Nat
    PROVE  Isolates(s, Emit(s, <<x>>, PieceCost(x)), x)
  <1>1. /\ s.chunks \in Seq(Chunks)
        /\ s.bucket \in Seq(Ordinals) /\ s.bucketSeconds = 0
        /\ s.pending \in Seq(Ordinals) /\ s.pendingSeconds \in Nat
        /\ s \in States
    BY FieldsOfState DEF Typed
  <1> DEFINE chunk == Chunk(Append(s.pending, x), s.pendingSeconds + PieceCost(x))
             t == [chunks |-> Append(s.chunks, chunk), bucket |-> <<>>,
                   bucketSeconds |-> 0, pending |-> <<>>, pendingSeconds |-> 0]
  <1>2. s.pending \o <<x>> = Append(s.pending, x)
    BY <1>1, AppendIsLonger
  <1>3. Emit(s, <<x>>, PieceCost(x)) = t
    BY <1>1, <1>2, EmitEffect
  <1>4. chunk \in Chunks
    <2>1. Append(s.pending, x) \in Seq(Ordinals)
      BY <1>1, AppendIsLonger
    <2>2. s.pendingSeconds + PieceCost(x) \in Nat
      BY <1>1
    <2> QED
      BY <2>1, <2>2, ChunkTyped
  <1> HIDE DEF chunk
  <1>5. t \in States
    BY <1>1, <1>4, EmptySeq DEF States
  <1> QED
    BY <1>3, <1>5 DEF Isolates, Typed, chunk

LEMMA AbsorbEffect ==
    ASSUME NEW s, Typed(s), s.bucket = <<>>, s.chunks # <<>>,
           NEW x \in Ordinals, PieceCost(x) \in Nat
    PROVE  Absorbs(s, Absorb(s, x), x)
  <1>1. /\ s.chunks \in Seq(Chunks)
        /\ s.bucket \in Seq(Ordinals) /\ s.bucketSeconds = 0
        /\ s.pending \in Seq(Ordinals) /\ s.pendingSeconds \in Nat
        /\ s \in States
    BY FieldsOfState DEF Typed
  <1> DEFINE last == s.chunks[Len(s.chunks)]
             longer == Extended(last, x)
             chunks == Append(Front(s.chunks), longer)
             t == [chunks |-> chunks, bucket |-> s.bucket,
                   bucketSeconds |-> s.bucketSeconds,
                   pending |-> s.pending, pendingSeconds |-> s.pendingSeconds]
  <1>2. Absorb(s, x) = t
    <2>1. Absorb(s, x) = [s EXCEPT !.chunks = chunks]
      BY DEF Absorb, Last, Extended
    <2> HIDE DEF chunks
    <2> QED
      BY <1>1, <2>1, FieldsReplaced
  <1>3. last \in Chunks
    BY <1>1, EmptySeq
  <1> HIDE DEF last
  <1>4. last.pieces \in Seq(Ordinals) /\ last.seconds \in Nat
    BY <1>3 DEF Chunks
  <1>5. longer \in Chunks
    <2>1. Append(last.pieces, x) \in Seq(Ordinals)
      BY <1>4, AppendIsLonger
    <2>2. last.seconds + PieceCost(x) \in Nat
      BY <1>4
    <2> QED
      BY <2>1, <2>2, ChunkTyped DEF Extended
  <1> HIDE DEF longer
  <1>6. /\ chunks \in Seq(Chunks)
        /\ Len(chunks) = Len(s.chunks)
        /\ chunks[Len(s.chunks)] = longer
        /\ \A c \in 1 .. Len(s.chunks) - 1 : chunks[c] = s.chunks[c]
    <2> DEFINE before == s.chunks
    <2>1. before \in Seq(Chunks) /\ before # <<>>
      BY <1>1
    <2> HIDE DEF before
    <2>2. /\ Append(Front(before), longer) \in Seq(Chunks)
          /\ Len(Append(Front(before), longer)) = Len(before)
          /\ Append(Front(before), longer)[Len(before)] = longer
          /\ \A c \in 1 .. Len(before) - 1 : Append(Front(before), longer)[c] = before[c]
      BY <1>5, <2>1, LastReplaced
    <2> QED
      BY <2>2 DEF before
  <1> HIDE DEF chunks
  <1>7. t \in States
    BY <1>1, <1>6 DEF States
  <1> QED
    BY <1>1, <1>2, <1>6, <1>7 DEF Absorbs, Typed, longer, last

-----------------------------------------------------------------------------
(* One piece *)

\* The five things that can happen to the piece x.
Joins(s, t, x) ==
    /\ Kind(x) \in Prose
    /\ s.bucket # <<>> => s.bucketSeconds + PieceCost(x) <= Budget
    /\ Keeps(s, t, x)

Reopens(s, t, x) ==
    /\ Kind(x) = "heading" \/ (Kind(x) \in Prose /\ s.bucket # <<>>)
    /\ Flushes(s, Flush(s))
    /\ Keeps(Flush(s), t, x)

Stands(s, t, x) ==
    /\ Kind(x) = "block"
    /\ \A lead \in LeadInCandidate(s) : Kind(lead) # "colon"
    /\ Flushes(s, Flush(s))
    /\ Isolates(Flush(s), t, x)

Follows(s, t, x) ==
    /\ Kind(x) = "block"
    /\ \E lead \in LeadInCandidate(s) : Kind(lead) = "colon"
    /\ Flushes(s, Flush(s))
    /\ Absorbs(Flush(s), t, x)

Breaks(s, t, x) ==
    /\ Kind(x) = "break"
    /\ Flushes(s, t)

Takes(s, t, x) ==
    \/ Joins(s, t, x)
    \/ Reopens(s, t, x)
    \/ Stands(s, t, x)
    \/ Follows(s, t, x)
    \/ Breaks(s, t, x)

LEMMA TakeCases ==
    ASSUME NEW s, Typed(s), NEW x \in Ordinals, Kind(x) \in PieceKinds
    PROVE  Takes(s, Apply(s, x, Consult(s, x)), x)
  <1> DEFINE f == Flush(s)
             t == Apply(s, x, Consult(s, x))
  <1>1. PieceCost(x) \in Nat
    BY CursorAssumption DEF PieceCost
  <1>2. Flushes(s, f)
    BY FlushEffect
  <1>3. Typed(f) /\ f.bucket = <<>>
    BY <1>2 DEF Flushes
  <1> HIDE DEF f
  <1>4. CASE Kind(x) = "break"
    <2>1. t = f
      BY <1>4 DEF Apply, Consult, f
    <2> QED
      BY <1>2, <1>4, <2>1 DEF Takes, Breaks
  <1>5. CASE Kind(x) = "block" /\ \E lead \in LeadInCandidate(s) : Kind(lead) = "colon"
    <2>1. t = Absorb(f, x)
      BY <1>5 DEF Apply, Consult, f
    <2>2. f.chunks # <<>>
      <3>1. CASE s.bucket = <<>>
        <4>1. s.chunks # <<>>
          BY <1>5, <3>1 DEF LeadInCandidate
        <4>2. f = s
          BY <3>1 DEF f, Flush
        <4> QED
          BY <4>1, <4>2
      <3>2. CASE s.bucket # <<>>
        <4>1. s.bucket \in Seq(Ordinals) /\ s.chunks \in Seq(Chunks)
          BY FieldsOfState
        <4>2. Kind(s.bucket[Len(s.bucket)]) = "colon"
          BY <1>5, <3>2 DEF LeadInCandidate, Last
        <4>3. Len(s.bucket) \in DOMAIN s.bucket
          BY <3>2, <4>1, EmptySeq
        <4>4. ~ Headings(s.bucket)
          BY <4>2, <4>3 DEF Headings
        <4>5. f.chunks = Append(s.chunks, Chunk(Queue(s), s.pendingSeconds + s.bucketSeconds))
          BY <1>2, <4>4 DEF Flushes, Defers, Releases
        <4>6. f.chunks \in Seq(Chunks)
          BY <1>3, FieldsOfState
        <4> DEFINE chunk == Chunk(Queue(s), s.pendingSeconds + s.bucketSeconds)
        <4>7. chunk \in Chunks
          BY FieldsOfState, ChunkTyped
        <4> HIDE DEF chunk
        <4>8. Append(s.chunks, chunk) # <<>>
          BY <4>1, <4>7, AppendIsLonger
        <4> QED
          BY <4>5, <4>8 DEF chunk
      <3> QED
        BY <3>1, <3>2
    <2>3. Absorbs(f, t, x)
      BY <1>1, <1>3, <2>1, <2>2, AbsorbEffect
    <2> QED
      BY <1>2, <1>5, <2>3 DEF Takes, Follows, f
  <1>6. CASE Kind(x) = "block" /\ ~ \E lead \in LeadInCandidate(s) : Kind(lead) = "colon"
    <2>1. t = Emit(f, <<x>>, PieceCost(x))
      BY <1>6 DEF Apply, Consult, f
    <2>2. Isolates(f, t, x)
      BY <1>1, <1>3, <2>1, IsolateEffect
    <2> QED
      BY <1>2, <1>6, <2>2 DEF Takes, Stands, f
  <1>7. CASE Kind(x) = "heading"
    <2>1. t = Keep(f, x)
      BY <1>7 DEF Apply, Consult, f
    <2>2. Keeps(f, t, x)
      BY <1>1, <1>3, <2>1, KeepEffect
    <2> QED
      BY <1>2, <1>7, <2>2 DEF Takes, Reopens, f
  <1>8. CASE Kind(x) \in Prose
    <2>1. CASE s.bucket # <<>> /\ s.bucketSeconds + PieceCost(x) > Budget
      <3>1. t = Keep(f, x)
        BY <1>8, <2>1 DEF Apply, Consult, f, Prose
      <3>2. Keeps(f, t, x)
        BY <1>1, <1>3, <3>1, KeepEffect
      <3> QED
        BY <1>2, <1>8, <2>1, <3>2 DEF Takes, Reopens, f
    <2>2. CASE ~ (s.bucket # <<>> /\ s.bucketSeconds + PieceCost(x) > Budget)
      <3>1. t = Keep(s, x)
        BY <1>8, <2>2 DEF Apply, Consult, Prose
      <3>2. Keeps(s, t, x)
        BY <1>1, <3>1, KeepEffect
      <3>3. s.bucket # <<>> => s.bucketSeconds + PieceCost(x) <= Budget
        BY <1>1, <2>2, FieldsOfState, CursorAssumption
      <3> QED
        BY <1>8, <3>2, <3>3 DEF Takes, Joins
    <2> QED
      BY <2>1, <2>2
  <1> QED
    BY <1>4, <1>5, <1>6, <1>7, <1>8 DEF PieceKinds, Prose

\* What happens when the document ends.
LEMMA FinishEffect ==
    ASSUME NEW s, Typed(s)
    PROVE  LET f == Flush(s)
               t == Finished(s)
           IN  /\ Flushes(s, f)
               /\ Typed(t)
               /\ t.bucket = <<>> /\ t.pending = <<>>
               /\ t.bucketSeconds = 0
               /\ \/ t = f
                  \/ /\ f.pending # <<>>
                     /\ t.chunks = Append(f.chunks, Chunk(f.pending, f.pendingSeconds))
                     /\ t.pendingSeconds = 0
  <1> DEFINE f == Flush(s)
             t == Finished(s)
  <1>1. Flushes(s, f)
    BY FlushEffect
  <1>2. Typed(f) /\ f.bucket = <<>> /\ f.bucketSeconds = 0
    BY <1>1 DEF Flushes
  <1>3. CASE f.pending = <<>>
    <2>1. t = f
      BY <1>3 DEF Finished
    <2> QED
      BY <1>1, <1>2, <1>3, <2>1
  <1>4. CASE f.pending # <<>>
    <2>1. t = Emit(f, <<>>, 0)
      BY <1>4 DEF Finished
    <2> HIDE DEF f
    <2>2. /\ f.chunks \in Seq(Chunks) /\ f.pending \in Seq(Ordinals) /\ f.pendingSeconds \in Nat
          /\ f \in States
      BY <1>2, FieldsOfState DEF Typed
    <2> DEFINE chunk == Chunk(f.pending, f.pendingSeconds)
               chunks == Append(f.chunks, chunk)
               none == <<>>
               zero == 0
    <2>3. f.pending \o <<>> = f.pending /\ f.pendingSeconds + 0 = f.pendingSeconds
      BY <2>2, ConcatEmptySeq
    <2>5. t = [chunks |-> chunks, bucket |-> f.bucket, bucketSeconds |-> f.bucketSeconds,
               pending |-> none, pendingSeconds |-> zero]
      BY <2>1, <2>2, <2>3, EmitEffect
    <2> HIDE DEF chunks, none, zero, t
    <2>6. chunk \in Chunks
      BY <2>2, ChunkTyped
    <2>7. chunks \in Seq(Chunks)
      BY <2>2, <2>6 DEF chunks
    <2>8. t \in States
      BY <1>2, <2>5, <2>7, EmptySeq DEF States, none, zero
    <2>9. Typed(t)
      BY <1>2, <2>5, <2>8 DEF Typed
    <2> QED
      BY <1>1, <1>2, <1>4, <2>5, <2>9 DEF chunks, none, zero, f, t
  <1> QED
    BY <1>3, <1>4

-----------------------------------------------------------------------------
(* Where the pieces are, and what they weigh together *)

LEMMA TotalOfNone ==
    ASSUME NEW X, NEW w \in [X -> Nat]
    PROVE  Total(w, <<>>) = 0
  <1> DEFINE none == <<>>
  <1>1. none \in Seq(X) /\ Len(none) = 0
    OBVIOUS
  <1> HIDE DEF none
  <1>2. RunsTo(Adding(w, none), Nat, 0, Len(none), Total(w, none))
    BY <1>1, TotalRuns
  <1>3. Total(w, none) = 0
    BY <1>1, <1>2 DEF RunsTo, IsRun
  <1> QED
    BY <1>3 DEF none

LEMMA TotalOfLonger ==
    ASSUME NEW X, NEW w \in [X -> Nat], NEW pieces \in Seq(X), NEW x \in X
    PROVE  /\ Total(w, pieces) \in Nat
           /\ Total(w, Append(pieces, x)) = Total(w, pieces) + w[x]
  <1> DEFINE n == Len(pieces)
             longer == Append(pieces, x)
             F == Adding(w, pieces)
             G == Adding(w, longer)
  <1>1. /\ n \in Nat /\ longer \in Seq(X) /\ Len(longer) = n + 1 /\ longer[n + 1] = x
        /\ \A i \in 1 .. n : longer[i] = pieces[i]
        /\ \A i \in 1 .. n : pieces[i] \in X
        /\ \A i \in 1 .. n + 1 : longer[i] \in X
        /\ \A y \in X : w[y] \in Nat
    BY AppendIsLonger
  <1> HIDE DEF longer
  <1>2. RunsTo(F, Nat, 0, n, Total(w, pieces))
    BY TotalRuns
  <1>3. RunsTo(G, Nat, 0, n + 1, Total(w, longer))
    <2>1. RunsTo(G, Nat, 0, Len(longer), Total(w, longer))
      BY <1>1, TotalRuns
    <2> QED
      BY <1>1, <2>1
  <1>4. PICK g : IsRun(g, F, Nat, 0, n) /\ g[n] = Total(w, pieces)
    BY <1>2 DEF RunsTo
  <1>5. PICK h : IsRun(h, G, Nat, 0, n + 1) /\ h[n + 1] = Total(w, longer)
    BY <1>3 DEF RunsTo
  <1>6. /\ \A i \in 1 .. n, v \in Nat : F[i][v] = v + w[pieces[i]]
        /\ \A i \in 1 .. n + 1, v \in Nat : G[i][v] = v + w[longer[i]]
    BY <1>1 DEF Adding
  <1> HIDE DEF F, G, n
  <1>7. /\ \A i \in 0 .. n : g[i] \in Nat
        /\ g[0] = 0
        /\ \A i \in 1 .. n : g[i] = F[i][g[i - 1]]
    BY <1>4 DEF IsRun
  <1>8. /\ \A i \in 0 .. n + 1 : h[i] \in Nat
        /\ h[0] = 0
        /\ \A i \in 1 .. n + 1 : h[i] = G[i][h[i - 1]]
    BY <1>5 DEF IsRun
  <1> DEFINE S == {m \in Nat : m <= n => g[m] = h[m]}
  <1>9. 0 \in S
    BY <1>7, <1>8
  <1>10. ASSUME NEW m \in Nat, m \in S PROVE m + 1 \in S
    <2> SUFFICES ASSUME m + 1 <= n PROVE g[m + 1] = h[m + 1]
      OBVIOUS
    <2>1. /\ m + 1 \in 1 .. n /\ m + 1 \in 1 .. n + 1 /\ (m + 1) - 1 = m
          /\ m \in 0 .. n /\ m \in 0 .. n + 1
      BY <1>1
    <2>2. g[m] = h[m] /\ g[m] \in Nat
      BY <1>7, <1>10, <2>1
    <2>3. g[m + 1] = g[m] + w[pieces[m + 1]]
      <3>1. g[m + 1] = F[m + 1][g[m]]
        BY <1>7, <2>1
      <3>2. F[m + 1][g[m]] = g[m] + w[pieces[m + 1]]
        BY <1>6, <2>1, <2>2
      <3> QED
        BY <3>1, <3>2
    <2>4. h[m + 1] = h[m] + w[longer[m + 1]]
      <3>1. h[m + 1] = G[m + 1][h[m]]
        BY <1>8, <2>1
      <3>2. G[m + 1][h[m]] = h[m] + w[longer[m + 1]]
        BY <1>6, <2>1, <2>2
      <3> QED
        BY <3>1, <3>2
    <2> QED
      BY <1>1, <2>1, <2>2, <2>3, <2>4
  <1> HIDE DEF S
  <1>11. n \in S
    BY <1>1, <1>9, <1>10, SetInduction
  <1>12. g[n] = h[n] /\ g[n] \in Nat
    BY <1>1, <1>7, <1>11 DEF S
  <1>13. h[n + 1] = h[n] + w[x]
    <2>1. n + 1 \in 1 .. n + 1 /\ (n + 1) - 1 = n
      BY <1>1
    <2>2. h[n + 1] = G[n + 1][h[n]]
      BY <1>8, <2>1
    <2> QED
      BY <1>1, <1>6, <1>12, <2>1, <2>2
  <1> QED
    BY <1>4, <1>5, <1>12, <1>13 DEF longer

LEMMA JoinedIsNotEmpty ==
    ASSUME NEW X, NEW a \in Seq(X), NEW b \in Seq(X), b # <<>>
    PROVE  a \o b # <<>>
  <1> DEFINE la == Len(a)
             lb == Len(b)
  <1>1. la \in Nat /\ lb \in Nat /\ lb # 0 /\ Len(a \o b) = la + lb
    BY EmptySeq, ConcatProperties
  <1> HIDE DEF la, lb
  <1>2. Len(a \o b) # 0
    BY <1>1
  <1> QED
    BY <1>2, EmptySeq

LEMMA QueueGrows ==
    ASSUME NEW X, NEW a \in Seq(X), NEW b \in Seq(X), NEW x \in X
    PROVE  a \o Append(b, x) = Append(a \o b, x)
  <1> DEFINE one == <<x>>
  <1>1. one \in Seq(X) /\ a \o b \in Seq(X)
    BY ConcatProperties
  <1>2. (a \o b) \o one = a \o (b \o one)
    BY <1>1, ConcatAssociative
  <1>3. b \o one = Append(b, x) /\ (a \o b) \o one = Append(a \o b, x)
    BY <1>1, AppendIsLonger
  <1> QED
    BY <1>2, <1>3

Costs == [i \in Ordinals |-> PieceCost(i)]

Holds(pieces, x) == \E i \in DOMAIN pieces : pieces[i] = x

Increasing(pieces) == \A i, j \in DOMAIN pieces : i < j => pieces[i] < pieces[j]

Sound(chunk) ==
    /\ chunk.pieces # <<>>
    /\ Increasing(chunk.pieces)
    /\ chunk.seconds = Total(Costs, chunk.pieces)

\* The first n pieces but the breaks, each in one place.
PlacedOnce(chunks, queue, n) ==
    /\ \A x \in Ordinals :
          (Holds(queue, x) \/ \E c \in DOMAIN chunks : Holds(chunks[c].pieces, x))
            <=> (x <= n /\ Kind(x) # "break")
    /\ \A x \in Ordinals, c \in DOMAIN chunks :
          ~ (Holds(queue, x) /\ Holds(chunks[c].pieces, x))
    /\ \A x \in Ordinals, c, d \in DOMAIN chunks :
          Holds(chunks[c].pieces, x) /\ Holds(chunks[d].pieces, x) => c = d

Accounted(chunks, queue, seconds, n) ==
    /\ chunks \in Seq(Chunks) /\ queue \in Seq(Ordinals)
    /\ Increasing(queue)
    /\ seconds = Total(Costs, queue)
    /\ \A c \in DOMAIN chunks : Sound(chunks[c])
    /\ PlacedOnce(chunks, queue, n)

DocumentTyped == document \in Seq(PieceKinds)

LEMMA CostsTyped ==
    ASSUME DocumentTyped
    PROVE  /\ Costs \in [Ordinals -> Nat]
           /\ Ordinals = 1 .. Len(document) /\ Ordinals \subseteq Nat
           /\ \A x \in Ordinals : Costs[x] = PieceCost(x) /\ Kind(x) \in PieceKinds
  <1>1. Ordinals = 1 .. Len(document) /\ \A x \in Ordinals : Kind(x) \in PieceKinds
    BY DEF DocumentTyped, Ordinals, Kind
  <1>2. \A x \in Ordinals : PieceCost(x) \in Nat
    BY <1>1, CursorAssumption DEF PieceCost
  <1> QED
    BY <1>1, <1>2 DEF Costs

LEMMA HoldsLonger ==
    ASSUME NEW X, NEW pieces \in Seq(X), NEW x \in X
    PROVE  \A y : Holds(Append(pieces, x), y) <=> Holds(pieces, y) \/ y = x
  <1> DEFINE longer == Append(pieces, x)
             n == Len(pieces)
  <1>1. /\ n \in Nat /\ DOMAIN pieces = 1 .. n /\ DOMAIN longer = 1 .. n + 1
        /\ longer[n + 1] = x /\ \A i \in 1 .. n : longer[i] = pieces[i]
    BY AppendIsLonger
  <1> HIDE DEF longer, n
  <1>2. n + 1 \in 1 .. n + 1 /\ \A i \in 1 .. n + 1 : i \in 1 .. n \/ i = n + 1
    BY <1>1
  <1>3. 1 .. n \subseteq 1 .. n + 1
    BY <1>1
  <1> QED
    BY <1>1, <1>2, <1>3 DEF Holds, longer

LEMMA IncreasingLonger ==
    ASSUME NEW X \in SUBSET Nat, NEW pieces \in Seq(X), NEW x \in X, Increasing(pieces),
           \A y : Holds(pieces, y) => y < x
    PROVE  Increasing(Append(pieces, x))
  <1> DEFINE longer == Append(pieces, x)
             n == Len(pieces)
  <1>1. /\ n \in Nat /\ DOMAIN pieces = 1 .. n /\ DOMAIN longer = 1 .. n + 1
        /\ longer[n + 1] = x /\ \A i \in 1 .. n : longer[i] = pieces[i]
    BY AppendIsLonger
  <1> HIDE DEF longer, n
  <1> SUFFICES ASSUME NEW i \in 1 .. n + 1, NEW j \in 1 .. n + 1, i < j
               PROVE  longer[i] < longer[j]
    BY <1>1 DEF Increasing, longer
  <1>2. i \in 1 .. n
    BY <1>1
  <1>3. CASE j \in 1 .. n
    BY <1>1, <1>2, <1>3 DEF Increasing
  <1>4. CASE j = n + 1
    <2>1. Holds(pieces, pieces[i])
      BY <1>1, <1>2 DEF Holds
    <2> QED
      BY <1>1, <1>2, <1>4, <2>1
  <1> QED
    BY <1>1, <1>3, <1>4

LEMMA HoldsNone == \A y : ~ Holds(<<>>, y)
  BY DEF Holds

LEMMA HoldsTyped ==
    ASSUME NEW pieces \in Seq(Ordinals), NEW x, Holds(pieces, x)
    PROVE  x \in Ordinals
  BY DEF Holds

\* A piece that waits.
LEMMA AccountedGrows ==
    ASSUME DocumentTyped, NEW chunks, NEW queue, NEW seconds \in Nat, NEW n \in Nat,
           n + 1 \in Ordinals, Kind(n + 1) # "break",
           Accounted(chunks, queue, seconds, n)
    PROVE  Accounted(chunks, Append(queue, n + 1), seconds + PieceCost(n + 1), n + 1)
  <1> DEFINE x == n + 1
             longer == Append(queue, x)
  <1>1. x \in Ordinals /\ Ordinals \subseteq Nat /\ queue \in Seq(Ordinals)
    BY CostsTyped DEF Accounted
  <1>2. longer \in Seq(Ordinals)
    BY <1>1, AppendIsLonger
  <1>3. \A y : Holds(longer, y) <=> Holds(queue, y) \/ y = x
    BY <1>1, HoldsLonger
  <1>4. \A y : Holds(queue, y) => y \in Ordinals /\ y <= n
    <2> SUFFICES ASSUME NEW y, Holds(queue, y) PROVE y \in Ordinals /\ y <= n
      OBVIOUS
    <2>1. y \in Ordinals
      BY <1>1, HoldsTyped
    <2> QED
      BY <2>1 DEF Accounted, PlacedOnce
  <1>5. Increasing(longer)
    <2>1. Increasing(queue)
      BY DEF Accounted
    <2>2. \A y : Holds(queue, y) => y < x
      <3> SUFFICES ASSUME NEW y, Holds(queue, y) PROVE y < n + 1
        OBVIOUS
      <3>1. y \in Nat /\ y <= n
        BY <1>1, <1>4
      <3> QED
        BY <3>1
    <2> HIDE DEF x
    <2> QED
      BY <1>1, <2>1, <2>2, IncreasingLonger
  <1>6. seconds + PieceCost(x) = Total(Costs, longer)
    <2>1. seconds = Total(Costs, queue)
      BY DEF Accounted
    <2>2. Costs \in [Ordinals -> Nat] /\ Costs[x] = PieceCost(x)
      BY <1>1, CostsTyped
    <2>3. Total(Costs, longer) = Total(Costs, queue) + Costs[x]
      BY <1>1, <2>2, TotalOfLonger
    <2> QED
      BY <2>1, <2>2, <2>3
  <1>7. PlacedOnce(chunks, longer, x)
    <2>1. PlacedOnce(chunks, queue, n)
      BY DEF Accounted
    <2>2. \A y \in Ordinals : y <= x <=> y <= n \/ y = x
      BY <1>1
    <2>3. ~ (x <= n) /\ Kind(x) # "break"
      BY <1>1
    <2> HIDE DEF x, longer
    <2>4. \A c \in DOMAIN chunks : ~ Holds(chunks[c].pieces, x)
      BY <1>1, <2>1, <2>3 DEF PlacedOnce
    <2> QED
      BY <1>3, <2>1, <2>2, <2>3, <2>4 DEF PlacedOnce
  <1> QED
    BY <1>2, <1>5, <1>6, <1>7 DEF Accounted

\* A break.
LEMMA AccountedSkips ==
    ASSUME DocumentTyped, NEW chunks, NEW queue, NEW seconds \in Nat, NEW n \in Nat,
           n + 1 \in Ordinals, Kind(n + 1) = "break",
           Accounted(chunks, queue, seconds, n)
    PROVE  Accounted(chunks, queue, seconds, n + 1)
  <1>1. \A y \in Ordinals : y \in Nat
    BY CostsTyped
  <1>2. \A y \in Ordinals : y <= n + 1 <=> y <= n \/ y = n + 1
    BY <1>1
  <1>3. PlacedOnce(chunks, queue, n + 1)
    BY <1>2 DEF Accounted, PlacedOnce
  <1> QED
    BY <1>3 DEF Accounted

\* What waits becomes the last chunk.
LEMMA AccountedCloses ==
    ASSUME DocumentTyped, NEW chunks, NEW queue, NEW seconds \in Nat, NEW n \in Nat,
           queue # <<>>, Accounted(chunks, queue, seconds, n)
    PROVE  Accounted(Append(chunks, Chunk(queue, seconds)), <<>>, 0, n)
  <1> DEFINE chunk == Chunk(queue, seconds)
             more == Append(chunks, chunk)
             m == Len(chunks)
  <1>1. chunks \in Seq(Chunks) /\ queue \in Seq(Ordinals) /\ PlacedOnce(chunks, queue, n)
    BY DEF Accounted
  <1>2. chunk \in Chunks
    BY <1>1, ChunkTyped
  <1>3. chunk.pieces = queue /\ chunk.seconds = seconds
    BY DEF Chunk
  <1>4. Sound(chunk)
    BY <1>3 DEF Sound, Accounted
  <1> HIDE DEF chunk
  <1>5. /\ more \in Seq(Chunks) /\ more[m + 1] = chunk
        /\ \A c \in 1 .. m : more[c] = chunks[c]
        /\ DOMAIN chunks = 1 .. m /\ DOMAIN more = 1 .. m + 1 /\ m \in Nat
    BY <1>1, <1>2, AppendIsLonger
  <1> HIDE DEF more, m
  <1>6. /\ \A c \in 1 .. m + 1 : c \in 1 .. m \/ c = m + 1
        /\ 1 .. m \subseteq 1 .. m + 1 /\ m + 1 \in 1 .. m + 1 /\ m + 1 \notin 1 .. m
    BY <1>5
  <1>7. \A c \in DOMAIN more : Sound(more[c])
    BY <1>4, <1>5, <1>6 DEF Accounted
  <1>8. \A y \in Ordinals, c \in 1 .. m + 1 :
           Holds(more[c].pieces, y)
             <=> (c = m + 1 /\ Holds(queue, y)) \/ (c \in 1 .. m /\ Holds(chunks[c].pieces, y))
    BY <1>3, <1>5, <1>6
  <1>9. PlacedOnce(more, <<>>, n)
    <2> DEFINE none == <<>>
    <2>1. \A y : ~ Holds(none, y)
      BY HoldsNone
    <2> HIDE DEF none
    <2>2. \A y \in Ordinals :
             (\E c \in DOMAIN more : Holds(more[c].pieces, y))
               <=> Holds(queue, y) \/ \E c \in DOMAIN chunks : Holds(chunks[c].pieces, y)
      BY <1>5, <1>6, <1>8
    <2>3. \A y \in Ordinals :
             (Holds(none, y) \/ \E c \in DOMAIN more : Holds(more[c].pieces, y))
               <=> (y <= n /\ Kind(y) # "break")
      BY <1>1, <2>1, <2>2 DEF PlacedOnce
    <2>4. ASSUME NEW y \in Ordinals, NEW c \in DOMAIN more, NEW d \in DOMAIN more,
                 Holds(more[c].pieces, y), Holds(more[d].pieces, y)
          PROVE  c = d
      BY <1>1, <1>5, <1>8, <2>4 DEF PlacedOnce
    <2>5. PlacedOnce(more, none, n)
      BY <2>1, <2>3, <2>4 DEF PlacedOnce
    <2> QED
      BY <2>5 DEF none
  <1>10. /\ <<>> \in Seq(Ordinals) /\ Increasing(<<>>)
         /\ 0 = Total(Costs, <<>>)
    BY CostsTyped, TotalOfNone, EmptySeq DEF Increasing
  <1> QED
    BY <1>5, <1>7, <1>9, <1>10 DEF Accounted, more, chunk

\* A block is put at the end of the last chunk.
LEMMA AccountedExtends ==
    ASSUME DocumentTyped, NEW chunks, NEW more \in Seq(Chunks), NEW queue,
           NEW seconds \in Nat, NEW n \in Nat,
           n + 1 \in Ordinals, Kind(n + 1) # "break",
           Accounted(chunks, queue, seconds, n),
           chunks # <<>>, Len(more) = Len(chunks),
           more[Len(chunks)] = Extended(chunks[Len(chunks)], n + 1),
           \A c \in 1 .. Len(chunks) - 1 : more[c] = chunks[c]
    PROVE  Accounted(more, queue, seconds, n + 1)
  <1> DEFINE x == n + 1
             m == Len(chunks)
             last == chunks[m].pieces
             longer == Append(last, x)
  <1>1. chunks \in Seq(Chunks) /\ queue \in Seq(Ordinals) /\ PlacedOnce(chunks, queue, n)
    BY DEF Accounted
  <1>2. /\ m \in Nat /\ m \in 1 .. m /\ DOMAIN chunks = 1 .. m /\ DOMAIN more = 1 .. m
        /\ \A c \in 1 .. m : c = m \/ c \in 1 .. m - 1
    BY <1>1, EmptySeq
  <1>3. /\ \A c \in 1 .. m - 1 : more[c] = chunks[c]
        /\ more[m] = Extended(chunks[m], x)
    OBVIOUS
  <1>4. Sound(chunks[m]) /\ chunks[m] \in Chunks
    <2> HIDE DEF m
    <2>1. chunks[m] \in Chunks
      BY <1>1, <1>2
    <2> QED
      BY <1>2, <2>1 DEF Accounted
  <1>5. /\ x \in Ordinals /\ Ordinals \subseteq Nat
        /\ Costs \in [Ordinals -> Nat] /\ Costs[x] = PieceCost(x)
    BY CostsTyped
  <1>6. last \in Seq(Ordinals) /\ last # <<>> /\ Increasing(last)
    BY <1>4 DEF Sound, Chunks
  <1> HIDE DEF m
  <1>7. more[m].pieces = longer /\ more[m].seconds = chunks[m].seconds + PieceCost(x)
    BY <1>3 DEF Extended, Chunk
  <1> HIDE DEF last
  <1>8. \A y : Holds(longer, y) <=> Holds(last, y) \/ y = x
    BY <1>5, <1>6, HoldsLonger
  <1>9. \A y : Holds(last, y) => y \in Ordinals /\ y <= n
    <2> SUFFICES ASSUME NEW y, Holds(last, y) PROVE y \in Ordinals /\ y <= n
      OBVIOUS
    <2>1. y \in Ordinals
      BY <1>6, HoldsTyped
    <2> QED
      BY <1>1, <1>2, <2>1 DEF PlacedOnce, last
  <1>10. Sound(more[m])
    <2>1. \A y : Holds(last, y) => y < x
      <3> SUFFICES ASSUME NEW y, Holds(last, y) PROVE y < n + 1
        OBVIOUS
      <3>1. y \in Nat /\ y <= n
        BY <1>5, <1>9
      <3> QED
        BY <3>1
    <2> HIDE DEF x
    <2>2. Increasing(longer)
      BY <1>5, <1>6, <2>1, IncreasingLonger
    <2>3. Total(Costs, longer) = Total(Costs, last) + Costs[x]
      BY <1>5, <1>6, TotalOfLonger
    <2>4. longer # <<>>
      BY <1>5, <1>6, AppendIsLonger
    <2>5. chunks[m].seconds = Total(Costs, last)
      BY <1>4 DEF Sound, last
    <2> QED
      BY <1>5, <1>7, <2>2, <2>3, <2>4, <2>5 DEF Sound
  <1>11. \A c \in DOMAIN more : Sound(more[c])
    <2>1. \A c \in DOMAIN chunks : Sound(chunks[c])
      BY DEF Accounted
    <2>2. \A c \in 1 .. m - 1 : c \in 1 .. m
      BY <1>2
    <2> QED
      BY <1>2, <1>3, <1>10, <2>1, <2>2
  <1>12. PlacedOnce(more, queue, x)
    <2>1. \A y \in Ordinals : y <= x <=> y <= n \/ y = x
      BY <1>5
    <2>2. ~ (x <= n) /\ Kind(x) # "break"
      BY <1>5
    <2> HIDE DEF x
    <2>3. \A y \in Ordinals, c \in 1 .. m :
             Holds(more[c].pieces, y) <=> Holds(chunks[c].pieces, y) \/ (c = m /\ y = x)
      <3>1. \A y : Holds(more[m].pieces, y) <=> Holds(chunks[m].pieces, y) \/ y = x
        BY <1>7, <1>8 DEF last
      <3>2. m \notin 1 .. m - 1
        BY <1>2
      <3> QED
        BY <1>2, <1>3, <3>1, <3>2
    <2>4. ~ Holds(queue, x) /\ \A c \in 1 .. m : ~ Holds(chunks[c].pieces, x)
      BY <1>1, <1>2, <1>5, <2>2 DEF PlacedOnce
    <2>5. \A y \in Ordinals :
             (Holds(queue, y) \/ \E c \in DOMAIN more : Holds(more[c].pieces, y))
               <=> (y <= x /\ Kind(y) # "break")
      BY <1>1, <1>2, <2>1, <2>2, <2>3 DEF PlacedOnce
    <2>6. \A y \in Ordinals, c \in DOMAIN more :
             ~ (Holds(queue, y) /\ Holds(more[c].pieces, y))
      BY <1>1, <1>2, <2>3, <2>4 DEF PlacedOnce
    <2>7. \A y \in Ordinals, c, d \in DOMAIN more :
             Holds(more[c].pieces, y) /\ Holds(more[d].pieces, y) => c = d
      BY <1>1, <1>2, <2>3, <2>4 DEF PlacedOnce
    <2> QED
      BY <2>5, <2>6, <2>7 DEF PlacedOnce
  <1> QED
    BY <1>11, <1>12 DEF Accounted

Weight(s) == s.pendingSeconds + s.bucketSeconds

AccountedState(s, n) == Typed(s) /\ Accounted(s.chunks, Queue(s), Weight(s), n)

LEMMA WeightTyped ==
    ASSUME NEW s, Typed(s)
    PROVE  Weight(s) \in Nat
  BY FieldsOfState DEF Weight

LEMMA QueueOfPending ==
    ASSUME NEW s, Typed(s), s.bucket = <<>>
    PROVE  Queue(s) = s.pending /\ Weight(s) = s.pendingSeconds
  <1>1. s.pending \in Seq(Ordinals) /\ s.pendingSeconds \in Nat /\ s.bucketSeconds = 0
    BY FieldsOfState
  <1>2. s.pending \o <<>> = s.pending
    BY <1>1, ConcatEmptySeq
  <1> QED
    BY <1>1, <1>2 DEF Queue, Weight

LEMMA FlushAccounted ==
    ASSUME DocumentTyped, NEW s, NEW t, NEW n \in Nat, AccountedState(s, n), Flushes(s, t)
    PROVE  AccountedState(t, n)
  <1>1. Typed(s) /\ Accounted(s.chunks, Queue(s), Weight(s), n) /\ Weight(s) \in Nat
    BY WeightTyped DEF AccountedState
  <1>2. Typed(t) /\ t.bucket = <<>>
    BY DEF Flushes
  <1>3. Queue(t) = t.pending /\ Weight(t) = t.pendingSeconds
    BY <1>2, QueueOfPending
  <1>4. CASE Defers(s, t)
    <2>1. t.chunks = s.chunks /\ Queue(t) = Queue(s) /\ Weight(t) = Weight(s)
      BY <1>3, <1>4 DEF Defers, Weight
    <2> QED
      BY <1>1, <1>2, <2>1 DEF AccountedState
  <1>5. CASE Releases(s, t)
    <2>1. /\ t.chunks = Append(s.chunks, Chunk(Queue(s), Weight(s)))
          /\ s.bucket # <<>> /\ Queue(t) = <<>> /\ Weight(t) = 0
      BY <1>3, <1>5 DEF Releases, Weight
    <2>2. Queue(s) # <<>>
      <3>1. s.bucket \in Seq(Ordinals) /\ s.pending \in Seq(Ordinals)
        BY <1>1, FieldsOfState
      <3> QED
        BY <2>1, <3>1, JoinedIsNotEmpty DEF Queue
    <2>3. Accounted(Append(s.chunks, Chunk(Queue(s), Weight(s))), <<>>, 0, n)
      BY <1>1, <2>2, AccountedCloses
    <2> QED
      BY <1>2, <2>1, <2>3 DEF AccountedState
  <1> QED
    BY <1>4, <1>5 DEF Flushes

LEMMA KeepAccounted ==
    ASSUME DocumentTyped, NEW s, NEW t, NEW n \in Nat, AccountedState(s, n),
           n + 1 \in Ordinals, Kind(n + 1) # "break", Keeps(s, t, n + 1)
    PROVE  AccountedState(t, n + 1)
  <1>1. Typed(s) /\ Accounted(s.chunks, Queue(s), Weight(s), n) /\ Weight(s) \in Nat
    BY WeightTyped DEF AccountedState
  <1>2. s.bucket \in Seq(Ordinals) /\ s.pending \in Seq(Ordinals)
        /\ s.bucketSeconds \in Nat /\ s.pendingSeconds \in Nat
    BY <1>1, FieldsOfState
  <1>3. Queue(t) = Append(Queue(s), n + 1)
    <2>1. n + 1 \in Ordinals /\ t.pending = s.pending /\ t.bucket = Append(s.bucket, n + 1)
      BY DEF Keeps
    <2>2. s.pending \o Append(s.bucket, n + 1) = Append(s.pending \o s.bucket, n + 1)
      <3> DEFINE a == s.pending
                 b == s.bucket
                 x == n + 1
      <3>1. a \in Seq(Ordinals) /\ b \in Seq(Ordinals) /\ x \in Ordinals
        BY <1>2, <2>1
      <3> HIDE DEF a, b, x
      <3>2. a \o Append(b, x) = Append(a \o b, x)
        BY <3>1, QueueGrows
      <3> QED
        BY <3>2 DEF a, b, x
    <2> QED
      BY <2>1, <2>2 DEF Queue
  <1>4. Costs[n + 1] = PieceCost(n + 1) /\ PieceCost(n + 1) \in Nat
    BY CostsTyped
  <1>5. Weight(t) = Weight(s) + PieceCost(n + 1)
    BY <1>2, <1>4 DEF Keeps, Weight
  <1>6. Accounted(s.chunks, Append(Queue(s), n + 1), Weight(s) + PieceCost(n + 1), n + 1)
    BY <1>1, AccountedGrows
  <1> QED
    BY <1>3, <1>5, <1>6 DEF AccountedState, Keeps

LEMMA TakeAccounted ==
    ASSUME DocumentTyped, NEW s, NEW t, NEW n \in Nat, AccountedState(s, n),
           n + 1 \in Ordinals, Takes(s, t, n + 1)
    PROVE  AccountedState(t, n + 1)
  <1> DEFINE x == n + 1
             f == Flush(s)
  <1>1. CASE Joins(s, t, x)
    BY <1>1, KeepAccounted DEF Joins, Prose
  <1>2. ASSUME Flushes(s, f)
        PROVE  AccountedState(f, n) /\ f.bucket = <<>> /\ Typed(f)
               /\ Accounted(f.chunks, f.pending, f.pendingSeconds, n) /\ f.pendingSeconds \in Nat
    <2>1. AccountedState(f, n) /\ f.bucket = <<>> /\ Typed(f)
      BY <1>2, FlushAccounted DEF Flushes
    <2>2. Queue(f) = f.pending /\ Weight(f) = f.pendingSeconds
      BY <2>1, QueueOfPending
    <2> QED
      BY <2>1, <2>2, FieldsOfState DEF AccountedState
  <1>3. CASE Reopens(s, t, x)
    BY <1>2, <1>3, KeepAccounted DEF Reopens, Prose
  <1>4. CASE Stands(s, t, x)
    <2>1. Kind(x) # "break" /\ Isolates(f, t, x) /\ Flushes(s, f)
      BY <1>4 DEF Stands
    <2>2. Accounted(f.chunks, f.pending, f.pendingSeconds, n) /\ f.pendingSeconds \in Nat
          /\ Typed(f)
      BY <1>2, <2>1
    <2>3. PieceCost(x) \in Nat
      BY CostsTyped
    <2> HIDE DEF f
    <2>4. Accounted(f.chunks, Append(f.pending, x), f.pendingSeconds + PieceCost(x), x)
      BY <2>1, <2>2, AccountedGrows
    <2>5. f.pendingSeconds + PieceCost(x) \in Nat /\ x \in Nat
      BY <2>2, <2>3
    <2>6. Append(f.pending, x) # <<>>
      <3>1. f.pending \in Seq(Ordinals) /\ x \in Ordinals
        BY <2>2, FieldsOfState
      <3> QED
        BY <3>1, AppendIsLonger
    <2> HIDE DEF x
    <2>7. Accounted(Append(f.chunks, Chunk(Append(f.pending, x), f.pendingSeconds + PieceCost(x))),
                    <<>>, 0, x)
      BY <2>4, <2>5, <2>6, AccountedCloses
    <2>8. /\ Typed(t) /\ t.bucket = <<>> /\ t.pending = <<>> /\ t.pendingSeconds = 0
          /\ t.chunks = Append(f.chunks, Chunk(Append(f.pending, x), f.pendingSeconds + PieceCost(x)))
      BY <2>1 DEF Isolates
    <2>9. Queue(t) = <<>> /\ Weight(t) = 0
      BY <2>8, QueueOfPending
    <2>10. AccountedState(t, x)
      BY <2>7, <2>8, <2>9 DEF AccountedState
    <2> QED
      BY <2>10 DEF x
  <1>5. CASE Follows(s, t, x)
    <2>1. Kind(x) # "break" /\ Absorbs(f, t, x) /\ Flushes(s, f)
      BY <1>5 DEF Follows
    <2>2. Accounted(f.chunks, f.pending, f.pendingSeconds, n) /\ f.pendingSeconds \in Nat
      BY <1>2, <2>1
    <2> HIDE DEF f
    <2>3. /\ Typed(t) /\ t.bucket = <<>>
          /\ t.pending = f.pending /\ t.pendingSeconds = f.pendingSeconds
          /\ f.chunks # <<>> /\ Len(t.chunks) = Len(f.chunks)
          /\ t.chunks[Len(f.chunks)] = Extended(f.chunks[Len(f.chunks)], n + 1)
          /\ \A c \in 1 .. Len(f.chunks) - 1 : t.chunks[c] = f.chunks[c]
      BY <2>1 DEF Absorbs
    <2>4. t.chunks \in Seq(Chunks)
      BY <2>3, FieldsOfState
    <2>5. Queue(t) = t.pending /\ Weight(t) = t.pendingSeconds
      BY <2>3, QueueOfPending
    <2>6. Accounted(t.chunks, f.pending, f.pendingSeconds, n + 1)
      BY <2>1, <2>2, <2>3, <2>4, AccountedExtends
    <2> QED
      BY <2>3, <2>5, <2>6 DEF AccountedState
  <1>6. CASE Breaks(s, t, x)
    <2>1. AccountedState(t, n) /\ Kind(x) = "break"
      BY <1>6, FlushAccounted DEF Breaks
    <2>2. Accounted(t.chunks, Queue(t), Weight(t), n) /\ Weight(t) \in Nat /\ Typed(t)
      BY <2>1, WeightTyped DEF AccountedState
    <2> QED
      BY <2>1, <2>2, AccountedSkips DEF AccountedState
  <1> QED
    BY <1>1, <1>3, <1>4, <1>5, <1>6 DEF Takes

LEMMA FinishAccounted ==
    ASSUME DocumentTyped, NEW s, NEW n \in Nat, AccountedState(s, n)
    PROVE  AccountedState(Finished(s), n) /\ Queue(Finished(s)) = <<>>
  <1> DEFINE f == Flush(s)
             t == Finished(s)
  <1>1. /\ Flushes(s, f)
        /\ Typed(t)
        /\ t.bucket = <<>> /\ t.pending = <<>>
        /\ t.bucketSeconds = 0
        /\ \/ t = f
           \/ /\ f.pending # <<>>
              /\ t.chunks = Append(f.chunks, Chunk(f.pending, f.pendingSeconds))
              /\ t.pendingSeconds = 0
    BY FinishEffect DEF AccountedState
  <1>2. AccountedState(f, n) /\ Typed(f) /\ f.bucket = <<>>
    BY <1>1, FlushAccounted DEF Flushes
  <1>3. Queue(f) = f.pending /\ Weight(f) = f.pendingSeconds /\ Weight(f) \in Nat
    BY <1>2, QueueOfPending, WeightTyped
  <1>4. Queue(t) = <<>> /\ Weight(t) = t.pendingSeconds
    BY <1>1, QueueOfPending
  <1> HIDE DEF f, t
  <1>5. CASE t = f
    BY <1>2, <1>4, <1>5 DEF t
  <1>6. CASE /\ f.pending # <<>>
             /\ t.chunks = Append(f.chunks, Chunk(f.pending, f.pendingSeconds))
             /\ t.pendingSeconds = 0
    <2>1. Accounted(Append(f.chunks, Chunk(f.pending, f.pendingSeconds)), <<>>, 0, n)
      BY <1>2, <1>3, <1>6, AccountedCloses DEF AccountedState
    <2> QED
      BY <1>1, <1>4, <1>6, <2>1 DEF AccountedState, t
  <1> QED
    BY <1>1, <1>5, <1>6

-----------------------------------------------------------------------------
(* The sections of the drawer *)

SectionSet == [start: Nat, end: Nat]

Within(c, section) == c \in section.start .. section.end

\* The sections hold the chunks before start, each in one of them.
Tiled(chunks, sections, start) ==
    /\ sections \in Seq(SectionSet)
    /\ \A k \in DOMAIN sections : sections[k].end < start
    /\ \A c \in 1 .. start - 1 :
          \E k \in DOMAIN sections :
             /\ Within(c, sections[k])
             /\ \A l \in DOMAIN sections \ {k} : ~ Within(c, sections[l])
             /\ LeadsWithHeading(chunks[c]) => c = sections[k].start

LEMMA TiledLonger ==
    ASSUME NEW chunks, NEW sections, NEW start \in Nat, NEW last \in Nat,
           1 <= start, start <= last,
           Tiled(chunks, sections, start),
           \A c \in start + 1 .. last : ~ LeadsWithHeading(chunks[c])
    PROVE  Tiled(chunks, Append(sections, Section(start, last)), last + 1)
  <1> DEFINE section == Section(start, last)
             more == Append(sections, section)
             m == Len(sections)
  <1>1. sections \in Seq(SectionSet) /\ section \in SectionSet
        /\ section.start = start /\ section.end = last
    BY DEF Tiled, Section, SectionSet
  <1> HIDE DEF section
  <1>2. /\ more \in Seq(SectionSet) /\ more[m + 1] = section
        /\ \A k \in 1 .. m : more[k] = sections[k]
        /\ DOMAIN sections = 1 .. m /\ DOMAIN more = 1 .. m + 1 /\ m \in Nat
    BY <1>1, AppendIsLonger
  <1> HIDE DEF more, m
  <1>3. /\ \A k \in 1 .. m + 1 : k \in 1 .. m \/ k = m + 1
        /\ 1 .. m \subseteq 1 .. m + 1 /\ m + 1 \in 1 .. m + 1 /\ m + 1 \notin 1 .. m
    BY <1>2
  <1>4. \A k \in 1 .. m : sections[k].end < start /\ sections[k].end \in Nat /\ sections[k].start \in Nat
    <2>1. \A k \in 1 .. m : sections[k] \in SectionSet /\ sections[k].end < start
      BY <1>1, <1>2 DEF Tiled
    <2> QED
      BY <2>1 DEF SectionSet
  <1>5. \A k \in DOMAIN more : more[k].end < last + 1
    BY <1>1, <1>2, <1>3, <1>4
  <1>6. ASSUME NEW c \in 1 .. last
        PROVE  \E k \in DOMAIN more :
                  /\ Within(c, more[k])
                  /\ \A l \in DOMAIN more \ {k} : ~ Within(c, more[l])
                  /\ LeadsWithHeading(chunks[c]) => c = more[k].start
    <2>1. CASE c \in 1 .. start - 1
      <3>1. PICK k \in 1 .. m :
               /\ Within(c, sections[k])
               /\ \A l \in 1 .. m \ {k} : ~ Within(c, sections[l])
               /\ LeadsWithHeading(chunks[c]) => c = sections[k].start
        BY <1>2, <2>1 DEF Tiled
      <3>2. ~ Within(c, section)
        BY <1>1, <2>1 DEF Within
      <3>3. \A l \in DOMAIN more \ {k} : ~ Within(c, more[l])
        BY <1>2, <1>3, <3>1, <3>2
      <3>4. k \in DOMAIN more /\ more[k] = sections[k]
        BY <1>2, <1>3
      <3> QED
        BY <3>1, <3>3, <3>4
    <2>2. CASE c \in start .. last
      <3>1. Within(c, section)
        BY <1>1, <2>2 DEF Within
      <3>2. \A l \in 1 .. m : ~ Within(c, sections[l])
        BY <1>4, <2>2 DEF Within
      <3>3. \A l \in DOMAIN more \ {m + 1} : ~ Within(c, more[l])
        BY <1>2, <1>3, <3>2
      <3>4. LeadsWithHeading(chunks[c]) => c = start
        <4>1. c = start \/ c \in start + 1 .. last
          BY <2>2
        <4> QED
          BY <4>1
      <3>5. m + 1 \in DOMAIN more /\ more[m + 1] = section
        BY <1>2, <1>3
      <3> QED
        BY <1>1, <3>1, <3>3, <3>4, <3>5
    <2> QED
      BY <2>1, <2>2
  <1>7. (last + 1) - 1 = last
    OBVIOUS
  <1> QED
    BY <1>2, <1>5, <1>6, <1>7 DEF Tiled, more, section

Turning == [sections: Seq(SectionSet), start: Nat, headed: BOOLEAN]

\* What the loop of derive_sections knows after i chunks.
Turned(chunks, s, i) ==
    /\ s \in Turning
    /\ 1 <= s.start
    /\ i = 0 => s.start = 1 /\ ~ s.headed
    /\ i > 0 => s.start <= i
    /\ Tiled(chunks, s.sections, s.start)
    /\ \A c \in s.start + 1 .. i : ~ LeadsWithHeading(chunks[c])

LEMMA TurnTyped ==
    ASSUME NEW chunks, NEW s \in Turning, NEW i \in Nat, i > 0
    PROVE  SectionTurn(s, chunks, i) \in Turning
  <1> DEFINE section == Section(s.start, i - 1)
  <1>1. /\ s.sections \in Seq(SectionSet) /\ s.start \in Nat /\ s.headed \in BOOLEAN
        /\ section \in SectionSet
    BY DEF Turning, SectionSet, Section
  <1> HIDE DEF section
  <1>2. Append(s.sections, section) \in Seq(SectionSet)
    BY <1>1
  <1>3. [sections |-> Append(s.sections, section), start |-> i, headed |-> TRUE] \in Turning
    BY <1>2 DEF Turning
  <1>4. [s EXCEPT !.headed = TRUE] \in Turning
    BY DEF Turning
  <1> QED
    BY <1>3, <1>4 DEF SectionTurn, section

LEMMA TurnHolds ==
    ASSUME NEW chunks, NEW s, NEW i \in Nat, i > 0, Turned(chunks, s, i - 1)
    PROVE  Turned(chunks, SectionTurn(s, chunks, i), i)
  <1> DEFINE t == SectionTurn(s, chunks, i)
             headed == s.headed
             start == s.start
             leads == LeadsWithHeading(chunks[i])
             sections == Append(s.sections, Section(start, i - 1))
  <1>1. /\ s \in Turning /\ 1 <= start /\ start \in Nat
        /\ s.sections \in Seq(SectionSet)
        /\ i - 1 > 0 => start <= i - 1
        /\ i - 1 = 0 => start = 1 /\ ~ headed
        /\ Tiled(chunks, s.sections, start)
        /\ \A c \in start + 1 .. i - 1 : ~ LeadsWithHeading(chunks[c])
    BY DEF Turned, Turning
  <1>2. t \in Turning
    BY <1>1, TurnTyped
  <1>3. /\ ~ leads => t = s
        /\ leads /\ (i > start \/ headed)
             => t = [sections |-> sections, start |-> i, headed |-> TRUE]
        /\ leads /\ ~ (i > start \/ headed) => t = [s EXCEPT !.headed = TRUE]
    BY DEF SectionTurn
  <1> HIDE DEF t, headed, sections
  <1>4. i - 1 \in Nat /\ start <= i /\ (i = 1 => start = 1 /\ ~ headed) /\ (i # 1 => start < i)
    BY <1>1
  <1>5. CASE ~ leads
    <2>1. t = s
      BY <1>3, <1>5
    <2>2. \A c \in start + 1 .. i : c \in start + 1 .. i - 1 \/ c = i
      BY <1>1
    <2>3. \A c \in start + 1 .. i : ~ LeadsWithHeading(chunks[c])
      BY <1>1, <1>5, <2>2
    <2> QED
      BY <1>1, <1>4, <2>1, <2>3 DEF Turned, t
  <1>6. CASE leads /\ (i > start \/ headed)
    <2>1. i > start
      BY <1>4, <1>6
    <2>2. t = [sections |-> sections, start |-> i, headed |-> TRUE]
      BY <1>3, <1>6
    <2>3. Tiled(chunks, sections, (i - 1) + 1)
      <3> DEFINE last == i - 1
      <3>1. last \in Nat /\ start <= last
        BY <1>1, <2>1
      <3>2. Tiled(chunks, s.sections, start)
            /\ \A c \in start + 1 .. last : ~ LeadsWithHeading(chunks[c])
        BY <1>1
      <3> HIDE DEF last, start
      <3>3. Tiled(chunks, Append(s.sections, Section(start, last)), last + 1)
        BY <1>1, <3>1, <3>2, TiledLonger
      <3> QED
        BY <3>3 DEF last, sections
    <2>4. t.sections = sections /\ t.start = i /\ (i - 1) + 1 = i
      BY <2>2
    <2>5. i + 1 .. i = {}
      OBVIOUS
    <2> QED
      BY <1>2, <2>3, <2>4, <2>5 DEF Turned, t
  <1>7. CASE leads /\ ~ (i > start \/ headed)
    <2>1. i = start
      BY <1>1, <1>4, <1>7
    <2>2. t = [s EXCEPT !.headed = TRUE]
      BY <1>3, <1>7
    <2>3. t.sections = s.sections /\ t.start = start
      BY <1>1, <2>2 DEF Turning
    <2>4. \A c \in t.start + 1 .. i : FALSE
      BY <1>1, <2>1, <2>3
    <2> QED
      BY <1>1, <1>2, <2>1, <2>3, <2>4 DEF Turned, t
  <1> QED
    BY <1>5, <1>6, <1>7

LEMMA TurnsHold ==
    ASSUME NEW chunks, Len(chunks) \in Nat
    PROVE  Turned(chunks, SectionTurns(chunks)[Len(chunks)], Len(chunks))
  <1> DEFINE n == Len(chunks)
             base == [sections |-> <<>>, start |-> 1, headed |-> FALSE]
             F == [i \in 1 .. n |-> [s \in Turning |-> SectionTurn(s, chunks, i)]]
             Body(f) == [i \in 0 .. n |->
                IF i = 0 THEN [sections |-> <<>>, start |-> 1, headed |-> FALSE]
                ELSE SectionTurn(f[i - 1], chunks, i)]
             g == CHOOSE f : f = Body(f)
  <1>1. n \in Nat /\ 0 \in 0 .. n
    OBVIOUS
  <1>2. SectionTurns(chunks) = g
    BY DEF SectionTurns
  <1> HIDE DEF n
  <1>3. base \in Turning
    BY EmptySeq DEF Turning
  <1>4. F \in [1 .. n -> [Turning -> Turning]]
    <2>1. \A i \in 1 .. n : i \in Nat /\ i > 0
      BY <1>1
    <2>2. \A i \in 1 .. n : [s \in Turning |-> SectionTurn(s, chunks, i)] \in [Turning -> Turning]
      BY <2>1, TurnTyped
    <2> QED
      BY <2>2
  <1>5. \A i \in 1 .. n, s \in Turning : F[i][s] = SectionTurn(s, chunks, i)
    OBVIOUS
  <1> HIDE DEF F
  <1>6. PICK h : IsRun(h, F, Turning, base, n)
    BY <1>1, <1>3, <1>4, RunExists
  <1>7. /\ h \in [0 .. n -> Turning] /\ h[0] = base
        /\ \A i \in 1 .. n : h[i] = SectionTurn(h[i - 1], chunks, i)
    <2>1. /\ h \in [0 .. n -> Turning] /\ h[0] = base
          /\ \A i \in 1 .. n : h[i] = F[i][h[i - 1]]
      BY <1>6 DEF IsRun
    <2>2. \A i \in 1 .. n : i - 1 \in 0 .. n
      BY <1>1
    <2> QED
      BY <1>5, <2>1, <2>2
  <1>8. h = Body(h)
    <2>1. \A i \in 0 .. n : i # 0 => i \in 1 .. n
      BY <1>1
    <2> QED
      BY <1>7, <2>1
  <1>9. g = Body(g)
    BY <1>8
  <1> HIDE DEF g
  <1>10. g[0] = base /\ \A i \in 1 .. n : g[i] = SectionTurn(g[i - 1], chunks, i)
    <2>1. \A i \in 1 .. n : i \in 0 .. n /\ i # 0
      BY <1>1
    <2> QED
      BY <1>1, <1>9, <2>1
  <1>11. Turned(chunks, base, 0)
    <2>1. base.sections = <<>> /\ base.start = 1 /\ base.headed = FALSE
      OBVIOUS
    <2>2. Tiled(chunks, <<>>, 1)
      <3>1. 1 .. 1 - 1 = {} /\ DOMAIN <<>> = {}
        OBVIOUS
      <3> QED
        BY <3>1, EmptySeq DEF Tiled
    <2>3. \A c \in 1 + 1 .. 0 : FALSE
      OBVIOUS
    <2> HIDE DEF base
    <2> QED
      BY <1>3, <2>1, <2>2, <2>3 DEF Turned
  <1> HIDE DEF base
  <1> DEFINE S == {i \in Nat : i <= n => Turned(chunks, g[i], i)}
  <1>12. 0 \in S
    BY <1>10, <1>11
  <1>13. ASSUME NEW m \in Nat, m \in S PROVE m + 1 \in S
    <2> SUFFICES ASSUME m + 1 <= n PROVE Turned(chunks, g[m + 1], m + 1)
      OBVIOUS
    <2>1. m + 1 \in 1 .. n /\ (m + 1) - 1 = m /\ m + 1 \in Nat /\ m + 1 > 0 /\ m <= n
      BY <1>1
    <2>2. Turned(chunks, g[m], m)
      BY <1>13, <2>1
    <2>3. g[m + 1] = SectionTurn(g[m], chunks, m + 1)
      BY <1>10, <2>1
    <2> DEFINE i == m + 1
    <2>4. i \in Nat /\ i > 0 /\ Turned(chunks, g[m], i - 1)
      BY <2>1, <2>2
    <2> HIDE DEF i
    <2>5. Turned(chunks, SectionTurn(g[m], chunks, i), i)
      BY <2>4, TurnHolds
    <2> QED
      BY <2>3, <2>5 DEF i
  <1> HIDE DEF S
  <1>14. n \in S
    BY <1>1, <1>12, <1>13, SetInduction
  <1>15. Turned(chunks, g[n], n)
    BY <1>1, <1>14 DEF S
  <1> QED
    BY <1>2, <1>15 DEF n

\* Whatever the chunks are.
LEMMA SectionsTile ==
    ASSUME NEW chunks \in Seq(Chunks), chunks # <<>>
    PROVE  Tiled(chunks, Sections(chunks), Len(chunks) + 1)
  <1> DEFINE n == Len(chunks)
             end == SectionTurns(chunks)[n]
  <1>1. n \in Nat /\ n > 0
    BY EmptySeq
  <1>2. Turned(chunks, end, n)
    BY <1>1, TurnsHold
  <1>3. Sections(chunks) = Append(end.sections, Section(end.start, n))
    BY DEF Sections
  <1> HIDE DEF end, n
  <1>4. /\ end.start \in Nat /\ 1 <= end.start /\ end.start <= n
        /\ Tiled(chunks, end.sections, end.start)
        /\ \A c \in end.start + 1 .. n : ~ LeadsWithHeading(chunks[c])
    BY <1>1, <1>2 DEF Turned, Turning
  <1>5. Tiled(chunks, Append(end.sections, Section(end.start, n)), n + 1)
    BY <1>1, <1>4, TiledLonger
  <1> QED
    BY <1>3, <1>5 DEF n

-----------------------------------------------------------------------------
(* The planner as a whole *)

LEMMA StartTyped ==
    ASSUME Init
    PROVE  DocumentTyped
  <1> DEFINE pieces == PiecesOf(source)
             n == Len(pieces)
  <1>1. source \in Seq(Tokens)
    BY SourcesAreTokens DEF Init
  <1>2. pieces \in Seq(Pieces)
    BY <1>1, PiecesOfTyped
  <1>3. document = [i \in DOMAIN pieces |-> pieces[i].kind]
    BY DEF Init
  <1> HIDE DEF pieces
  <1>4. n \in Nat /\ DOMAIN pieces = 1 .. n /\ \A i \in 1 .. n : pieces[i] \in Pieces
    BY <1>2
  <1> HIDE DEF n
  <1>5. \A i \in 1 .. n : pieces[i].kind \in PieceKinds
    BY <1>4 DEF Pieces
  <1>6. document \in [1 .. n -> PieceKinds]
    BY <1>3, <1>4, <1>5
  <1> QED
    BY <1>4, <1>6, SeqDef DEF DocumentTyped

Place == read \in 0 .. Len(document) /\ done \in BOOLEAN /\ (done => read = Len(document))

IInv ==
    /\ DocumentTyped
    /\ Place
    /\ AccountedState(state, read)
    /\ done => Queue(state) = <<>>

LEMMA EmptyAccounted ==
    ASSUME DocumentTyped
    PROVE  AccountedState(EmptyState, 0) /\ EmptyState.bucket = <<>> /\ EmptyState.pending = <<>>
  <1> DEFINE none == <<>>
  <1>1. none \in Seq(Ordinals) /\ none \in Seq(Chunks)
    BY EmptySeq
  <1>2. /\ EmptyState.chunks = none /\ EmptyState.bucket = none /\ EmptyState.pending = none
        /\ EmptyState.bucketSeconds = 0 /\ EmptyState.pendingSeconds = 0
    BY DEF EmptyState
  <1>3. EmptyState \in States
    BY <1>1 DEF EmptyState, States
  <1>4. Typed(EmptyState)
    BY <1>2, <1>3 DEF Typed
  <1>5. Queue(EmptyState) = none /\ Weight(EmptyState) = 0
    BY <1>2, <1>4, QueueOfPending
  <1>6. Total(Costs, none) = 0 /\ \A x \in Ordinals : ~ (x <= 0)
    BY CostsTyped, TotalOfNone
  <1>7. DOMAIN none = {}
    OBVIOUS
  <1> HIDE DEF none
  <1>8. Increasing(none) /\ \A y : ~ Holds(none, y)
    BY <1>7 DEF Increasing, Holds
  <1>9. PlacedOnce(none, none, 0)
    BY <1>6, <1>7, <1>8 DEF PlacedOnce
  <1>10. Accounted(none, none, 0, 0)
    BY <1>1, <1>6, <1>7, <1>8, <1>9 DEF Accounted
  <1> QED
    BY <1>2, <1>4, <1>5, <1>10 DEF AccountedState, none

\* A step leaves the document alone, so what is said of its pieces stays.
LEMMA AccountedNext ==
    ASSUME document' = document, AccountedState(state', read')
    PROVE  AccountedState(state, read)'
  <1>1. Costs' = Costs /\ Ordinals' = Ordinals
    BY DEF Costs, Ordinals, PieceCost, Kind
  <1>2. Chunks' = Chunks
    BY <1>1 DEF Chunks
  <1>3. States' = States
    BY <1>1, <1>2 DEF States
  <1> HIDE DEF Costs, Ordinals, Chunks, States
  <1>4. Typed(state)'
    BY <1>3 DEF AccountedState, Typed
  <1>5. PlacedOnce(state.chunks, Queue(state), read)'
    BY <1>1 DEF AccountedState, Accounted, PlacedOnce, Queue, Holds, Kind
  <1>6. (\A c \in DOMAIN state.chunks : Sound(state.chunks[c]))'
    BY <1>1 DEF AccountedState, Accounted, Sound, Increasing
  <1>7. Queue(state)' = Queue(state') /\ Weight(state)' = Weight(state')
    BY DEF Queue, Weight
  <1>8. Increasing(Queue(state))' /\ Weight(state)' = Total(Costs, Queue(state))'
    BY <1>1, <1>7 DEF AccountedState, Accounted, Increasing
  <1>9. (state.chunks \in Seq(Chunks))' /\ (Queue(state) \in Seq(Ordinals))'
    BY <1>1, <1>2, <1>7 DEF AccountedState, Accounted
  <1> QED
    BY <1>4, <1>5, <1>6, <1>8, <1>9 DEF AccountedState, Accounted

LEMMA InvariantStarts == Init => IInv
  <1> SUFFICES ASSUME Init PROVE IInv
    OBVIOUS
  <1>1. DocumentTyped
    BY StartTyped
  <1>2. state = EmptyState /\ read = 0 /\ done = FALSE
    BY DEF Init
  <1>3. 0 \in 0 .. Len(document)
    BY <1>1 DEF DocumentTyped
  <1> QED
    BY <1>1, <1>2, <1>3, EmptyAccounted DEF IInv, Place

LEMMA InvariantHolds == IInv /\ [Next]_vars => IInv'
  <1> SUFFICES ASSUME IInv, [Next]_vars PROVE IInv'
    OBVIOUS
  <1>1. DocumentTyped /\ Place /\ AccountedState(state, read) /\ (done => Queue(state) = <<>>)
    BY DEF IInv
  <1>2. document' = document
    BY DEF Next, Consume, Finish, vars
  <1>3. DocumentTyped'
    BY <1>1, <1>2 DEF DocumentTyped
  <1>4. CASE Consume
    <2>1. /\ read' = read + 1 /\ read < Len(document) /\ done' = done
          /\ state' = Apply(state, read + 1, Consult(state, read + 1))
      BY <1>4 DEF Consume
    <2>2. /\ read \in Nat /\ Len(document) \in Nat /\ ~ done
          /\ read + 1 \in 0 .. Len(document) /\ read + 1 \in 1 .. Len(document)
      BY <1>1, <2>1 DEF Place, DocumentTyped
    <2>3. read + 1 \in Ordinals /\ Kind(read + 1) \in PieceKinds
      BY <1>1, <2>2, CostsTyped
    <2>4. Typed(state)
      BY <1>1 DEF AccountedState
    <2>5. Takes(state, state', read + 1)
      BY <2>1, <2>3, <2>4, TakeCases
    <2>6. AccountedState(state', read + 1)
      BY <1>1, <2>2, <2>3, <2>5, TakeAccounted
    <2>7. AccountedState(state, read)'
      BY <1>2, <2>1, <2>6, AccountedNext
    <2>8. Place' /\ ~ done'
      BY <1>1, <1>2, <2>1, <2>2 DEF Place
    <2> QED
      BY <1>3, <2>7, <2>8 DEF IInv
  <1>5. CASE Finish
    <2>1. read' = read /\ done' = TRUE /\ read = Len(document) /\ state' = Finished(state)
      BY <1>5 DEF Finish
    <2>2. read \in Nat
      BY <1>1 DEF Place, DocumentTyped
    <2>3. AccountedState(state', read) /\ Queue(state') = <<>>
      BY <1>1, <2>1, <2>2, FinishAccounted
    <2>4. AccountedState(state, read)'
      BY <1>2, <2>1, <2>3, AccountedNext
    <2>5. Queue(state)' = <<>>
      BY <2>3 DEF Queue
    <2>6. Place'
      BY <1>1, <1>2, <2>1 DEF Place
    <2> QED
      BY <1>3, <2>4, <2>5, <2>6 DEF IInv
  <1>6. CASE UNCHANGED vars
    <2>1. state' = state /\ read' = read /\ done' = done
      BY <1>6 DEF vars
    <2>2. AccountedState(state, read)'
      BY <1>1, <1>2, <2>1, AccountedNext
    <2> QED
      BY <1>1, <1>2, <1>3, <2>1, <2>2 DEF IInv, Place, Queue
  <1> QED
    BY <1>4, <1>5, <1>6 DEF Next

\* The pieces of every text have the kinds the rules know, and the cursor's
\* state keeps its shape whatever the rules decide.
THEOREM PlannerTyped == Spec => []TypeOK
  <1>1. IInv => TypeOK
    BY DEF IInv, TypeOK, Place, AccountedState, Typed, DocumentTyped
  <1> QED
    BY <1>1, InvariantStarts, InvariantHolds, PTL DEF Spec

LEMMA HoldsJoined ==
    ASSUME NEW X, NEW a \in Seq(X), NEW b \in Seq(X)
    PROVE  \A y : Holds(a \o b, y) <=> Holds(a, y) \/ Holds(b, y)
  <1> DEFINE joined == a \o b
             la == Len(a)
             lb == Len(b)
  <1>1. la \in Nat /\ lb \in Nat /\ DOMAIN a = 1 .. la /\ DOMAIN b = 1 .. lb
    OBVIOUS
  <1>2. /\ joined \in Seq(X)
        /\ Len(joined) = la + lb
        /\ \A i \in 1 .. la + lb : joined[i] = IF i <= la THEN a[i] ELSE b[i - la]
    BY ConcatProperties
  <1>3. DOMAIN joined = 1 .. la + lb
    BY <1>2
  <1> HIDE DEF joined, la, lb
  <1>4. \A i \in 1 .. la : i \in 1 .. la + lb /\ joined[i] = a[i]
    BY <1>1, <1>2
  <1>5. \A i \in 1 .. lb : la + i \in 1 .. la + lb /\ joined[la + i] = b[i]
    <2> SUFFICES ASSUME NEW i \in 1 .. lb
                 PROVE  la + i \in 1 .. la + lb /\ joined[la + i] = b[i]
      OBVIOUS
    <2>1. la + i \in 1 .. la + lb /\ ~ (la + i <= la) /\ (la + i) - la = i
      BY <1>1
    <2> QED
      BY <1>2, <2>1
  <1>6. \A i \in 1 .. la + lb : i \in 1 .. la \/ (i - la \in 1 .. lb /\ joined[i] = b[i - la])
    BY <1>1, <1>2
  <1>7. ASSUME NEW y, Holds(joined, y) PROVE Holds(a, y) \/ Holds(b, y)
    <2>1. PICK i \in 1 .. la + lb : joined[i] = y
      BY <1>3, <1>7 DEF Holds
    <2> QED
      BY <1>1, <1>4, <1>6, <2>1 DEF Holds
  <1>8. ASSUME NEW y, Holds(a, y) \/ Holds(b, y) PROVE Holds(joined, y)
    BY <1>1, <1>3, <1>4, <1>5, <1>8 DEF Holds
  <1> QED
    BY <1>7, <1>8 DEF joined

LEMMA PiecesArePlannedOnce == IInv => EveryPieceIsPlannedOnce
  <1> SUFFICES ASSUME IInv PROVE EveryPieceIsPlannedOnce
    OBVIOUS
  <1> DEFINE chunks == state.chunks
             queue == Queue(state)
  <1>1. /\ Typed(state) /\ DocumentTyped /\ PlacedOnce(chunks, queue, read)
        /\ chunks \in Seq(Chunks) /\ queue \in Seq(Ordinals)
        /\ \A c \in DOMAIN chunks : Sound(chunks[c])
        /\ done => queue = <<>>
    BY DEF IInv, AccountedState, Accounted
  <1>2. \A y : Holds(queue, y) <=> Holds(state.pending, y) \/ Holds(state.bucket, y)
    BY <1>1, FieldsOfState, HoldsJoined DEF Queue
  <1>3. \A y : y \in Waiting <=> Holds(queue, y)
    BY <1>2 DEF Waiting, ToSet, Holds
  <1>4. \A y : y \in Planned <=> \E c \in DOMAIN chunks : Holds(chunks[c].pieces, y)
    BY DEF Planned, ToSet, Holds
  <1>5. \A y : \A c \in DOMAIN chunks : y \in ToSet(chunks[c].pieces) <=> Holds(chunks[c].pieces, y)
    BY DEF ToSet, Holds
  <1>6. \A y : \A c \in DOMAIN chunks : Holds(chunks[c].pieces, y) => y \in Ordinals
    <2> SUFFICES ASSUME NEW c \in DOMAIN chunks, NEW y, Holds(chunks[c].pieces, y)
                 PROVE  y \in Ordinals
      OBVIOUS
    <2>1. chunks[c] \in Chunks
      BY <1>1
    <2>2. chunks[c].pieces \in Seq(Ordinals)
      BY <2>1 DEF Chunks
    <2> QED
      BY <2>2, HoldsTyped
  <1>7. \A y : Holds(queue, y) => y \in Ordinals
    BY <1>1, HoldsTyped
  <1> HIDE DEF chunks, queue
  <1>8. Planned \cup Waiting = {i \in Revealable : i <= read}
    <2>1. \A y : y \in Planned \cup Waiting
                   <=> y \in Ordinals /\ y <= read /\ Kind(y) # "break"
      BY <1>1, <1>3, <1>4, <1>6, <1>7 DEF PlacedOnce
    <2>2. \A y : y \in {i \in Revealable : i <= read}
                   <=> y \in Ordinals /\ y <= read /\ Kind(y) # "break"
      BY DEF Revealable, Ordinals
    <2> QED
      BY <2>1, <2>2
  <1>9. Planned \cap Waiting = {}
    BY <1>1, <1>3, <1>4, <1>7 DEF PlacedOnce
  <1>10. \A c, d \in DOMAIN chunks :
            c # d => ToSet(chunks[c].pieces) \cap ToSet(chunks[d].pieces) = {}
    <2> SUFFICES ASSUME NEW c \in DOMAIN chunks, NEW d \in DOMAIN chunks, c # d,
                        NEW y, y \in ToSet(chunks[c].pieces), y \in ToSet(chunks[d].pieces)
                 PROVE  FALSE
      OBVIOUS
    <2>1. Holds(chunks[c].pieces, y) /\ Holds(chunks[d].pieces, y)
      BY <1>5
    <2>2. y \in Ordinals
      BY <1>6, <2>1
    <2>3. c = d
      BY <1>1, <2>1, <2>2 DEF PlacedOnce
    <2> QED
      BY <2>3
  <1>11. \A c \in DOMAIN chunks :
            /\ chunks[c].pieces # <<>>
            /\ \A i, j \in DOMAIN chunks[c].pieces :
                  i < j => chunks[c].pieces[i] < chunks[c].pieces[j]
    BY <1>1 DEF Sound, Increasing
  <1>12. done => Waiting = {}
    <2>1. \A y : ~ Holds(<<>>, y)
      BY HoldsNone
    <2> QED
      BY <1>1, <1>3, <2>1
  <1> QED
    BY <1>8, <1>9, <1>10, <1>11, <1>12 DEF EveryPieceIsPlannedOnce, chunks

LEMMA SectionsTileTheChunksOfAPlan == IInv => SectionsTileTheChunks
  <1> SUFFICES ASSUME IInv, NEW c \in DOMAIN state.chunks
               PROVE  LET sections == Sections(state.chunks)
                      IN  \E s \in DOMAIN sections :
                             /\ c \in sections[s].start .. sections[s].end
                             /\ \A t \in DOMAIN sections \ {s} :
                                   c \notin sections[t].start .. sections[t].end
                             /\ LeadsWithHeading(state.chunks[c]) => c = sections[s].start
    BY DEF SectionsTileTheChunks
  <1> DEFINE chunks == state.chunks
             n == Len(chunks)
  <1>1. chunks \in Seq(Chunks)
    BY DEF IInv, AccountedState, Accounted
  <1>2. n \in Nat /\ c \in 1 .. n /\ chunks # <<>>
    BY <1>1
  <1>3. Tiled(chunks, Sections(chunks), n + 1)
    BY <1>1, <1>2, SectionsTile
  <1> HIDE DEF n
  <1>4. c \in 1 .. (n + 1) - 1
    BY <1>2
  <1> QED
    BY <1>3, <1>4 DEF Tiled, Within

\* However pieces travel between the bucket, the pending headings and the
\* chunks, for every text, every cost and every budget: no piece is lost or
\* planned twice, the reading times add up, and the sections that
\* derive_sections makes of the chunks tile them.
THEOREM NothingLostOrDoubled == Spec => []NothingIsLostOrDoubled
  <1>1. IInv => EstimatesAddUp
    BY DEF IInv, AccountedState, Accounted, Sound, EstimatesAddUp, Costs
  <1>2. IInv => NothingIsLostOrDoubled
    BY <1>1, PiecesArePlannedOnce, SectionsTileTheChunksOfAPlan DEF NothingIsLostOrDoubled
  <1> QED
    BY <1>2, InvariantStarts, InvariantHolds, PTL DEF Spec

-----------------------------------------------------------------------------
(* Blocks and what introduces them *)

\* A chunk never loses a piece.
Retains(chunks, more) ==
    \A c \in DOMAIN chunks :
        c \in DOMAIN more /\ \A y : Holds(chunks[c].pieces, y) => Holds(more[c].pieces, y)

LEMMA AppendRetains ==
    ASSUME NEW chunks \in Seq(Chunks), NEW chunk \in Chunks
    PROVE  Retains(chunks, Append(chunks, chunk))
  <1> DEFINE more == Append(chunks, chunk)
             m == Len(chunks)
  <1>1. /\ m \in Nat /\ DOMAIN chunks = 1 .. m /\ DOMAIN more = 1 .. m + 1
        /\ \A c \in 1 .. m : more[c] = chunks[c]
    BY AppendIsLonger
  <1> HIDE DEF more, m
  <1>2. 1 .. m \subseteq 1 .. m + 1
    BY <1>1
  <1> QED
    BY <1>1, <1>2 DEF Retains, more

LEMMA FlushRetains ==
    ASSUME NEW s, NEW t, Typed(s), Flushes(s, t)
    PROVE  Retains(s.chunks, t.chunks)
  <1> DEFINE chunk == Chunk(Queue(s), s.pendingSeconds + s.bucketSeconds)
  <1>1. t.chunks = s.chunks \/ t.chunks = Append(s.chunks, chunk)
    BY DEF Flushes, Defers, Releases
  <1>2. s.chunks \in Seq(Chunks) /\ chunk \in Chunks
    BY FieldsOfState, ChunkTyped
  <1>3. CASE t.chunks = s.chunks
    BY <1>3 DEF Retains
  <1>4. CASE t.chunks = Append(s.chunks, chunk)
    BY <1>2, <1>4, AppendRetains
  <1> QED
    BY <1>1, <1>3, <1>4

LEMMA RetainsOn ==
    ASSUME NEW a, NEW b, NEW c, Retains(a, b), Retains(b, c)
    PROVE  Retains(a, c)
  BY DEF Retains

LEMMA AbsorbRetains ==
    ASSUME NEW s, NEW t, NEW x \in Ordinals, Typed(s), Absorbs(s, t, x)
    PROVE  /\ Retains(s.chunks, t.chunks)
           /\ Len(s.chunks) \in DOMAIN s.chunks /\ Len(s.chunks) \in DOMAIN t.chunks
           /\ \A y : Holds(t.chunks[Len(s.chunks)].pieces, y)
                       <=> Holds(s.chunks[Len(s.chunks)].pieces, y) \/ y = x
  <1> DEFINE m == Len(s.chunks)
             last == s.chunks[m].pieces
  <1>1. /\ s.chunks \in Seq(Chunks) /\ t.chunks \in Seq(Chunks) /\ s.chunks # <<>>
        /\ Len(t.chunks) = m
        /\ t.chunks[m] = Extended(s.chunks[m], x)
        /\ \A c \in 1 .. m - 1 : t.chunks[c] = s.chunks[c]
    BY FieldsOfState DEF Absorbs
  <1>2. /\ m \in Nat /\ m \in 1 .. m /\ DOMAIN s.chunks = 1 .. m /\ DOMAIN t.chunks = 1 .. m
        /\ \A c \in 1 .. m : c = m \/ c \in 1 .. m - 1
    BY <1>1, EmptySeq
  <1> HIDE DEF m
  <1>3. s.chunks[m] \in Chunks
    BY <1>1, <1>2
  <1>4. last \in Seq(Ordinals) /\ t.chunks[m].pieces = Append(last, x)
    <2>1. t.chunks[m].pieces = Append(last, x)
      BY <1>1 DEF Extended, Chunk
    <2> QED
      BY <1>3, <2>1 DEF Chunks
  <1> HIDE DEF last
  <1>5. \A y : Holds(t.chunks[m].pieces, y) <=> Holds(last, y) \/ y = x
    BY <1>4, HoldsLonger
  <1>6. \A y : Holds(t.chunks[m].pieces, y) <=> Holds(s.chunks[m].pieces, y) \/ y = x
    BY <1>5 DEF last
  <1>7. Retains(s.chunks, t.chunks)
    BY <1>1, <1>2, <1>6 DEF Retains
  <1> QED
    BY <1>2, <1>6, <1>7 DEF m

LEMMA TakeRetains ==
    ASSUME NEW s, NEW t, NEW x \in Ordinals, Typed(s), PieceCost(x) \in Nat, Takes(s, t, x)
    PROVE  Retains(s.chunks, t.chunks)
  <1> DEFINE f == Flush(s)
  <1>1. ASSUME Flushes(s, f)
        PROVE  Typed(f) /\ Retains(s.chunks, f.chunks)
    BY <1>1, FlushRetains DEF Flushes
  <1>2. CASE Joins(s, t, x)
    BY <1>2 DEF Joins, Keeps, Retains
  <1>3. CASE Reopens(s, t, x)
    BY <1>1, <1>3 DEF Reopens, Keeps
  <1>4. CASE Stands(s, t, x)
    <2>1. Flushes(s, f) /\ Isolates(f, t, x)
      BY <1>4 DEF Stands
    <2> HIDE DEF f
    <2>2. f.chunks \in Seq(Chunks) /\ f.pending \in Seq(Ordinals) /\ f.pendingSeconds \in Nat
      BY <1>1, <2>1, FieldsOfState
    <2> DEFINE chunk == Chunk(Append(f.pending, x), f.pendingSeconds + PieceCost(x))
    <2>3. chunk \in Chunks
      <3>1. Append(f.pending, x) \in Seq(Ordinals)
        BY <2>2, AppendIsLonger
      <3>2. f.pendingSeconds + PieceCost(x) \in Nat
        BY <2>2
      <3> QED
        BY <3>1, <3>2, ChunkTyped
    <2>4. t.chunks = Append(f.chunks, chunk)
      BY <2>1 DEF Isolates
    <2> HIDE DEF chunk
    <2>5. Retains(f.chunks, t.chunks)
      BY <2>2, <2>3, <2>4, AppendRetains
    <2> QED
      BY <1>1, <2>1, <2>5, RetainsOn
  <1>5. CASE Follows(s, t, x)
    <2>1. Flushes(s, f) /\ Absorbs(f, t, x)
      BY <1>5 DEF Follows
    <2>2. Retains(f.chunks, t.chunks)
      BY <1>1, <2>1, AbsorbRetains
    <2> QED
      BY <1>1, <2>1, <2>2, RetainsOn
  <1>6. CASE Breaks(s, t, x)
    BY <1>6, FlushRetains DEF Breaks
  <1> QED
    BY <1>2, <1>3, <1>4, <1>5, <1>6 DEF Takes

LEMMA FinishRetains ==
    ASSUME NEW s, Typed(s)
    PROVE  Retains(s.chunks, Finished(s).chunks)
  <1> DEFINE f == Flush(s)
             t == Finished(s)
             chunk == Chunk(f.pending, f.pendingSeconds)
  <1>1. Flushes(s, f) /\ (t = f \/ t.chunks = Append(f.chunks, chunk))
    BY FinishEffect
  <1>2. Typed(f) /\ Retains(s.chunks, f.chunks)
    BY <1>1, FlushRetains DEF Flushes
  <1> HIDE DEF f, t
  <1>3. f.chunks \in Seq(Chunks) /\ chunk \in Chunks
    BY <1>2, FieldsOfState, ChunkTyped
  <1> HIDE DEF chunk
  <1>4. CASE t = f
    BY <1>2, <1>4 DEF t
  <1>5. CASE t.chunks = Append(f.chunks, chunk)
    <2>1. Retains(f.chunks, t.chunks)
      BY <1>3, <1>5, AppendRetains
    <2> QED
      BY <1>2, <2>1, RetainsOn DEF t
  <1> QED
    BY <1>1, <1>4, <1>5

\* Of the first n pieces, every block that a lead-in precedes is with it.
Together(chunks, n) ==
    \A i \in Ordinals :
        (i + 1 \in Ordinals /\ i + 1 <= n /\ Kind(i) = "colon" /\ Kind(i + 1) = "block")
          => \E c \in DOMAIN chunks :
                Holds(chunks[c].pieces, i) /\ Holds(chunks[c].pieces, i + 1)

\* A sentence just read is at the end of the bucket.
EndsWith(s, n) ==
    n \in Ordinals /\ Kind(n) \in Prose => s.bucket # <<>> /\ Last(s.bucket) = n

LEMMA TogetherRetained ==
    ASSUME NEW chunks, NEW more, NEW n, Together(chunks, n), Retains(chunks, more)
    PROVE  Together(more, n)
  BY DEF Together, Retains

LEMMA TakeTogether ==
    ASSUME DocumentTyped, NEW s, NEW t, NEW n \in Nat, Typed(s),
           n + 1 \in Ordinals, Takes(s, t, n + 1),
           Together(s.chunks, n), EndsWith(s, n)
    PROVE  Together(t.chunks, n + 1) /\ EndsWith(t, n + 1)
  <1> DEFINE x == n + 1
             f == Flush(s)
  <1>1. /\ Ordinals \subseteq Nat /\ PieceCost(x) \in Nat
    BY CostsTyped
  <1>2. Together(t.chunks, n)
    <2>1. Retains(s.chunks, t.chunks)
      BY <1>1, TakeRetains
    <2> QED
      BY <2>1, TogetherRetained
  <1>3. ASSUME Kind(x) = "block" /\ n \in Ordinals /\ Kind(n) = "colon" =>
                 \E c \in DOMAIN t.chunks :
                    Holds(t.chunks[c].pieces, n) /\ Holds(t.chunks[c].pieces, x)
        PROVE  Together(t.chunks, x)
    <2> SUFFICES ASSUME NEW i \in Ordinals, i + 1 \in Ordinals, i + 1 <= x,
                        Kind(i) = "colon", Kind(i + 1) = "block"
                 PROVE  \E c \in DOMAIN t.chunks :
                           Holds(t.chunks[c].pieces, i) /\ Holds(t.chunks[c].pieces, i + 1)
      BY DEF Together
    <2>1. i = n \/ i + 1 <= n
      BY <1>1
    <2>2. CASE i = n
      BY <1>3, <2>2
    <2>3. CASE i + 1 <= n
      BY <1>2, <2>3 DEF Together
    <2> QED
      BY <2>1, <2>2, <2>3
  <1>4. ASSUME NEW u, Typed(u), Keeps(u, t, x)
        PROVE  EndsWith(t, x)
    <2>1. u.bucket \in Seq(Ordinals) /\ t.bucket = Append(u.bucket, x)
      BY <1>4, FieldsOfState DEF Keeps
    <2> DEFINE b == u.bucket
    <2> HIDE DEF b, x
    <2>2. b \in Seq(Ordinals) /\ x \in Ordinals /\ t.bucket = Append(b, x)
      BY <2>1 DEF b, x
    <2>3. /\ Append(b, x) # <<>>
          /\ Len(Append(b, x)) = Len(b) + 1
          /\ Append(b, x)[Len(b) + 1] = x
      BY <2>2, AppendIsLonger
    <2> QED
      BY <2>2, <2>3 DEF EndsWith, Last
  <1>5. CASE Joins(s, t, x)
    <2>1. Kind(x) # "block" /\ Keeps(s, t, x)
      BY <1>5 DEF Joins, Prose
    <2> QED
      BY <1>3, <1>4, <2>1
  <1>6. CASE Reopens(s, t, x)
    <2>1. Kind(x) # "block" /\ Keeps(f, t, x) /\ Typed(f)
      BY <1>6 DEF Reopens, Prose, Flushes
    <2> QED
      BY <1>3, <1>4, <2>1
  <1>7. ASSUME Kind(x) = "block" \/ Kind(x) = "break"
        PROVE  EndsWith(t, x)
    BY <1>7 DEF EndsWith, Prose
  <1>8. ASSUME n \in Ordinals, Kind(n) = "colon"
        PROVE  s.bucket # <<>> /\ s.bucket[Len(s.bucket)] = n /\ LeadInCandidate(s) = {n}
    BY <1>8 DEF EndsWith, LeadInCandidate, Prose, Last
  <1>9. CASE Stands(s, t, x)
    <2>1. Kind(x) = "block" /\ ~ (n \in Ordinals /\ Kind(n) = "colon")
      BY <1>8, <1>9 DEF Stands
    <2> QED
      BY <1>3, <1>7, <2>1
  <1>10. CASE Follows(s, t, x)
    <2>1. Kind(x) = "block" /\ Flushes(s, f) /\ Absorbs(f, t, x)
      BY <1>10 DEF Follows
    <2>2. SUFFICES ASSUME n \in Ordinals, Kind(n) = "colon"
                   PROVE  \E c \in DOMAIN t.chunks :
                             Holds(t.chunks[c].pieces, n) /\ Holds(t.chunks[c].pieces, x)
      BY <1>3, <1>7, <2>1
    <2>3. s.bucket # <<>> /\ s.bucket[Len(s.bucket)] = n /\ s.bucket \in Seq(Ordinals)
          /\ s.pending \in Seq(Ordinals)
      BY <1>8, <2>2, FieldsOfState
    <2>4. Holds(s.bucket, n) /\ ~ Headings(s.bucket)
      <3>1. Len(s.bucket) \in DOMAIN s.bucket
        BY <2>3, EmptySeq
      <3> QED
        BY <2>2, <2>3, <3>1 DEF Holds, Headings
    <2>5. Holds(Queue(s), n)
      BY <2>3, <2>4, HoldsJoined DEF Queue
    <2> DEFINE chunk == Chunk(Queue(s), s.pendingSeconds + s.bucketSeconds)
               m == Len(f.chunks)
    <2>6. f.chunks = Append(s.chunks, chunk)
      BY <2>1, <2>4 DEF Flushes, Defers, Releases
    <2>7. s.chunks \in Seq(Chunks) /\ chunk \in Chunks /\ Typed(f)
      BY <2>1, FieldsOfState, ChunkTyped DEF Flushes
    <2>8. chunk.pieces = Queue(s)
      BY DEF Chunk
    <2> HIDE DEF chunk, f
    <2>9. f.chunks[m] = chunk
      BY <2>6, <2>7, AppendIsLonger
    <2>10. Holds(f.chunks[m].pieces, n)
      BY <2>5, <2>8, <2>9
    <2> HIDE DEF x
    <2>11. x \in Ordinals
      BY DEF x
    <2>12. /\ m \in DOMAIN t.chunks
           /\ \A y : Holds(t.chunks[m].pieces, y) <=> Holds(f.chunks[m].pieces, y) \/ y = x
      BY <2>1, <2>7, <2>11, AbsorbRetains
    <2> QED
      BY <2>10, <2>12
  <1>11. CASE Breaks(s, t, x)
    <2>1. Kind(x) = "break"
      BY <1>11 DEF Breaks
    <2> QED
      BY <1>3, <1>7, <2>1
  <1> QED
    BY <1>5, <1>6, <1>9, <1>10, <1>11 DEF Takes

LeadInv ==
    /\ Together(state.chunks, read)
    /\ ~ done => EndsWith(state, read)

LEMMA LeadInStarts == Init => LeadInv
  <1> SUFFICES ASSUME Init PROVE LeadInv
    OBVIOUS
  <1>1. DocumentTyped
    BY StartTyped
  <1>2. read = 0 /\ Ordinals = 1 .. Len(document) /\ Ordinals \subseteq Nat
    BY <1>1, CostsTyped DEF Init
  <1>3. \A i \in Ordinals : ~ (i + 1 <= 0) /\ i # 0
    BY <1>2
  <1> QED
    BY <1>2, <1>3 DEF LeadInv, Together, EndsWith

LEMMA LeadInHolds == IInv /\ LeadInv /\ [Next]_vars => LeadInv'
  <1> SUFFICES ASSUME IInv, LeadInv, [Next]_vars PROVE LeadInv'
    OBVIOUS
  <1>1. /\ DocumentTyped /\ Place /\ Typed(state)
        /\ Together(state.chunks, read) /\ (~ done => EndsWith(state, read))
    BY DEF IInv, LeadInv, AccountedState
  <1>2. document' = document
    BY DEF Next, Consume, Finish, vars
  <1>3. ASSUME Together(state'.chunks, read'), ~ done' => EndsWith(state', read')
        PROVE  LeadInv'
    <2>1. Ordinals' = Ordinals /\ Prose' = Prose
      BY <1>2 DEF Ordinals, Prose
    <2>2. Together(state.chunks, read)'
      BY <1>2, <1>3, <2>1 DEF Together, Kind, Holds
    <2>3. (~ done => EndsWith(state, read))'
      BY <1>2, <1>3, <2>1 DEF EndsWith, Kind, Last
    <2> QED
      BY <2>2, <2>3 DEF LeadInv
  <1>4. CASE Consume
    <2>1. /\ read' = read + 1 /\ read < Len(document) /\ done' = done
          /\ state' = Apply(state, read + 1, Consult(state, read + 1))
      BY <1>4 DEF Consume
    <2>2. read \in Nat /\ read + 1 \in 1 .. Len(document) /\ ~ done
      BY <1>1, <2>1 DEF Place, DocumentTyped
    <2>3. read + 1 \in Ordinals /\ Kind(read + 1) \in PieceKinds
      BY <1>1, <2>2, CostsTyped
    <2>4. Takes(state, state', read + 1)
      BY <1>1, <2>1, <2>3, TakeCases
    <2>5. Together(state'.chunks, read + 1) /\ EndsWith(state', read + 1)
      BY <1>1, <2>2, <2>3, <2>4, TakeTogether
    <2> QED
      BY <1>3, <2>1, <2>5
  <1>5. CASE Finish
    <2>1. read' = read /\ done' = TRUE /\ state' = Finished(state)
      BY <1>5 DEF Finish
    <2>2. Together(state'.chunks, read)
      BY <1>1, <2>1, FinishRetains, TogetherRetained
    <2> QED
      BY <1>3, <2>1, <2>2
  <1>6. CASE UNCHANGED vars
    <2>1. state' = state /\ read' = read /\ done' = done
      BY <1>6 DEF vars
    <2> QED
      BY <1>1, <1>3, <2>1
  <1> QED
    BY <1>4, <1>5, <1>6 DEF Next

\* "Here are three items:" is never separated from the list it introduces,
\* whatever headings, breaks and budgets come before: ColonLeadInAbsorb looks
\* for the lead-in where the flush will have put it.
THEOREM LeadInsStay == Spec => []LeadInsStayWithTheirBlock
  <1>1. IInv /\ LeadInv => LeadInsStayWithTheirBlock
    <2> SUFFICES ASSUME IInv, LeadInv, done, NEW i \in Ordinals, i + 1 \in Ordinals,
                        Kind(i) = "colon", Kind(i + 1) = "block"
                 PROVE  \E c \in DOMAIN state.chunks :
                           {i, i + 1} \subseteq ToSet(state.chunks[c].pieces)
      BY DEF LeadInsStayWithTheirBlock, Ordinals
    <2>1. read = Len(document) /\ Together(state.chunks, read) /\ DocumentTyped
      BY DEF IInv, Place, LeadInv
    <2>2. i + 1 <= read
      BY <2>1, CostsTyped
    <2>3. PICK c \in DOMAIN state.chunks :
             Holds(state.chunks[c].pieces, i) /\ Holds(state.chunks[c].pieces, i + 1)
      BY <2>1, <2>2 DEF Together
    <2>4. i \in ToSet(state.chunks[c].pieces) /\ i + 1 \in ToSet(state.chunks[c].pieces)
      BY <2>3 DEF Holds, ToSet
    <2> QED
      BY <2>4
  <1> QED
    BY <1>1, InvariantStarts, InvariantHolds, LeadInStarts, LeadInHolds, PTL DEF Spec

-----------------------------------------------------------------------------
(* The budget *)

ProseCosts == [i \in Ordinals |-> IF Kind(i) \in Prose THEN PieceCost(i) ELSE 0]

\* There are two sentences among the pieces.
Two(pieces) ==
    \E i, j \in DOMAIN pieces :
        i # j /\ {Kind(pieces[i]), Kind(pieces[j])} \subseteq Prose

Fits(pieces) == Two(pieces) => Total(ProseCosts, pieces) <= Budget

\* All headings that wait are alone, and the bucket is full of what it costs.
FittingQueue(s) ==
    /\ Headings(s.pending)
    /\ Headings(Queue(s)) => Total(ProseCosts, Queue(s)) = 0
    /\ Total(ProseCosts, Queue(s)) <= s.bucketSeconds
    /\ Two(Queue(s)) => s.bucketSeconds <= Budget

Fitting(s) ==
    /\ FittingQueue(s)
    /\ \A c \in DOMAIN s.chunks : Fits(s.chunks[c].pieces)

LEMMA ProseCostsTyped ==
    ASSUME DocumentTyped
    PROVE  /\ ProseCosts \in [Ordinals -> Nat]
           /\ \A x \in Ordinals :
                 /\ PieceCost(x) \in Nat
                 /\ ProseCosts[x] <= PieceCost(x)
                 /\ Kind(x) \notin Prose => ProseCosts[x] = 0
  <1>1. \A x \in Ordinals : PieceCost(x) \in Nat
    BY CostsTyped
  <1> QED
    BY <1>1 DEF ProseCosts

LEMMA HeadingsLonger ==
    ASSUME NEW pieces \in Seq(Ordinals), NEW x \in Ordinals
    PROVE  /\ Headings(Append(pieces, x)) <=> Headings(pieces) /\ Kind(x) = "heading"
           /\ Headings(pieces) => ~ Two(Append(pieces, x))
           /\ Kind(x) \notin Prose /\ Two(Append(pieces, x)) => Two(pieces)
  <1> DEFINE longer == Append(pieces, x)
             n == Len(pieces)
  <1>1. /\ n \in Nat /\ DOMAIN pieces = 1 .. n /\ DOMAIN longer = 1 .. n + 1
        /\ longer[n + 1] = x /\ \A i \in 1 .. n : longer[i] = pieces[i]
    BY AppendIsLonger
  <1> HIDE DEF longer, n
  <1>2. /\ \A i \in 1 .. n + 1 : i \in 1 .. n \/ i = n + 1
        /\ 1 .. n \subseteq 1 .. n + 1 /\ n + 1 \in 1 .. n + 1
    BY <1>1
  <1>3. Headings(longer) <=> Headings(pieces) /\ Kind(x) = "heading"
    BY <1>1, <1>2 DEF Headings
  <1>4. ASSUME Headings(pieces), Two(longer) PROVE FALSE
    <2>1. PICK i \in 1 .. n + 1, j \in 1 .. n + 1 :
             i # j /\ Kind(longer[i]) \in Prose /\ Kind(longer[j]) \in Prose
      BY <1>1, <1>4 DEF Two
    <2>2. \A k \in 1 .. n : Kind(longer[k]) \notin Prose
      BY <1>1, <1>4 DEF Headings, Prose
    <2> QED
      BY <1>2, <2>1, <2>2
  <1>5. ASSUME Kind(x) \notin Prose, Two(longer) PROVE Two(pieces)
    <2>1. PICK i \in 1 .. n + 1, j \in 1 .. n + 1 :
             i # j /\ Kind(longer[i]) \in Prose /\ Kind(longer[j]) \in Prose
      BY <1>1, <1>5 DEF Two
    <2>2. i \in 1 .. n /\ j \in 1 .. n
      BY <1>1, <1>2, <1>5, <2>1
    <2> QED
      BY <1>1, <2>1, <2>2 DEF Two
  <1> QED
    BY <1>3, <1>4, <1>5 DEF longer

LEMMA HeadingsAreNotTwo ==
    ASSUME NEW pieces, Headings(pieces)
    PROVE  ~ Two(pieces)
  BY DEF Headings, Two, Prose

\* A chunk more, or a longer last one.
LEMMA FitsMore ==
    ASSUME NEW chunks \in Seq(Chunks), NEW chunk \in Chunks, Fits(chunk.pieces),
           \A c \in DOMAIN chunks : Fits(chunks[c].pieces)
    PROVE  \A c \in DOMAIN Append(chunks, chunk) : Fits(Append(chunks, chunk)[c].pieces)
  <1> DEFINE more == Append(chunks, chunk)
             m == Len(chunks)
  <1>1. /\ m \in Nat /\ DOMAIN chunks = 1 .. m /\ DOMAIN more = 1 .. m + 1
        /\ more[m + 1] = chunk /\ \A c \in 1 .. m : more[c] = chunks[c]
    BY AppendIsLonger
  <1> HIDE DEF more, m
  <1>2. \A c \in 1 .. m + 1 : c \in 1 .. m \/ c = m + 1
    BY <1>1
  <1>3. \A c \in DOMAIN more : Fits(more[c].pieces)
    BY <1>1, <1>2
  <1> QED
    BY <1>3 DEF more

LEMMA FitsLonger ==
    ASSUME DocumentTyped, NEW s, NEW t, NEW x \in Ordinals, Typed(s), Absorbs(s, t, x),
           Kind(x) = "block", \A c \in DOMAIN s.chunks : Fits(s.chunks[c].pieces)
    PROVE  \A c \in DOMAIN t.chunks : Fits(t.chunks[c].pieces)
  <1> DEFINE m == Len(s.chunks)
             last == s.chunks[m].pieces
  <1>1. /\ s.chunks \in Seq(Chunks) /\ t.chunks \in Seq(Chunks) /\ s.chunks # <<>>
        /\ Len(t.chunks) = m
        /\ t.chunks[m] = Extended(s.chunks[m], x)
        /\ \A c \in 1 .. m - 1 : t.chunks[c] = s.chunks[c]
    BY FieldsOfState DEF Absorbs
  <1>2. /\ m \in Nat /\ m \in 1 .. m /\ DOMAIN s.chunks = 1 .. m /\ DOMAIN t.chunks = 1 .. m
        /\ \A c \in 1 .. m : c = m \/ c \in 1 .. m - 1
    BY <1>1, EmptySeq
  <1> HIDE DEF m
  <1>3. s.chunks[m] \in Chunks
    BY <1>1, <1>2
  <1>4. last \in Seq(Ordinals) /\ t.chunks[m].pieces = Append(last, x) /\ Fits(last)
    <2>1. t.chunks[m].pieces = Append(last, x)
      BY <1>1 DEF Extended, Chunk
    <2>2. Fits(last)
      BY <1>2
    <2> QED
      BY <1>3, <2>1, <2>2 DEF Chunks
  <1> HIDE DEF last
  <1>5. Fits(Append(last, x))
    <2>1. Kind(x) \notin Prose
      BY DEF Prose
    <2>2. Two(Append(last, x)) => Two(last)
      BY <1>4, <2>1, HeadingsLonger
    <2>3. /\ Total(ProseCosts, last) \in Nat
          /\ Total(ProseCosts, Append(last, x)) = Total(ProseCosts, last) + ProseCosts[x]
      BY <1>4, ProseCostsTyped, TotalOfLonger
    <2>4. ProseCosts[x] = 0
      BY <2>1, ProseCostsTyped
    <2> QED
      BY <1>4, <2>2, <2>3, <2>4 DEF Fits
  <1> QED
    BY <1>1, <1>2, <1>4, <1>5

LEMMA QueueTotals ==
    ASSUME DocumentTyped, NEW s, Typed(s)
    PROVE  Total(ProseCosts, Queue(s)) \in Nat
  <1>1. Queue(s) \in Seq(Ordinals)
    BY FieldsOfState
  <1>2. CASE Ordinals = {}
    <2>1. Queue(s) = <<>>
      BY <1>1, <1>2, EmptySeq
    <2> QED
      BY <2>1, ProseCostsTyped, TotalOfNone
  <1>3. CASE Ordinals # {}
    <2>1. PICK x \in Ordinals : TRUE
      BY <1>3
    <2> QED
      BY <1>1, <2>1, ProseCostsTyped, TotalOfLonger
  <1> QED
    BY <1>2, <1>3

LEMMA FlushFitting ==
    ASSUME DocumentTyped, NEW s, NEW t, Typed(s), Flushes(s, t), Fitting(s)
    PROVE  Fitting(t) /\ Headings(t.pending)
  <1>1. Typed(t) /\ t.bucket = <<>> /\ t.bucketSeconds = 0 /\ Queue(t) = t.pending
    BY QueueOfPending DEF Flushes
  <1>2. /\ s.pending \in Seq(Ordinals) /\ s.bucket \in Seq(Ordinals)
        /\ s.chunks \in Seq(Chunks) /\ Queue(s) \in Seq(Ordinals)
        /\ s.bucketSeconds \in Nat
    BY FieldsOfState
  <1>3. CASE Defers(s, t)
    <2>1. t.pending = Queue(s) /\ t.chunks = s.chunks /\ Headings(s.bucket) /\ Headings(s.pending)
      BY <1>3 DEF Defers, Fitting, FittingQueue
    <2>2. Headings(Queue(s))
      <3>1. \A y : Holds(Queue(s), y) => Kind(y) = "heading"
        <4>1. \A y : Holds(Queue(s), y) <=> Holds(s.pending, y) \/ Holds(s.bucket, y)
          BY <1>2, HoldsJoined DEF Queue
        <4> QED
          BY <2>1, <4>1 DEF Headings, Holds
      <3> QED
        BY <3>1 DEF Headings, Holds
    <2>3. Total(ProseCosts, Queue(s)) = 0
      BY <2>2 DEF Fitting, FittingQueue
    <2>4. ~ Two(Queue(s))
      BY <2>2, HeadingsAreNotTwo
    <2> QED
      BY <1>1, <2>1, <2>2, <2>3, <2>4 DEF Fitting, FittingQueue
  <1>4. CASE Releases(s, t)
    <2> DEFINE chunk == Chunk(Queue(s), s.pendingSeconds + s.bucketSeconds)
    <2>1. t.chunks = Append(s.chunks, chunk) /\ t.pending = <<>>
      BY <1>4 DEF Releases
    <2>2. chunk \in Chunks /\ chunk.pieces = Queue(s)
      BY FieldsOfState, ChunkTyped DEF Chunk
    <2> HIDE DEF chunk
    <2>3. Total(ProseCosts, Queue(s)) \in Nat /\ Budget \in Nat
      BY QueueTotals, CursorAssumption
    <2>4. Fits(chunk.pieces)
      BY <1>2, <2>2, <2>3 DEF Fits, Fitting, FittingQueue
    <2>5. \A c \in DOMAIN t.chunks : Fits(t.chunks[c].pieces)
      BY <1>2, <2>1, <2>2, <2>4, FitsMore DEF Fitting
    <2>6. Headings(<<>>) /\ ~ Two(<<>>)
      BY DEF Headings, Two
    <2>7. Total(ProseCosts, <<>>) = 0
      BY ProseCostsTyped, TotalOfNone
    <2> QED
      BY <1>1, <2>1, <2>5, <2>6, <2>7 DEF Fitting, FittingQueue
  <1> QED
    BY <1>3, <1>4 DEF Flushes, Fitting, FittingQueue

LEMMA KeepFitting ==
    ASSUME DocumentTyped, NEW s, NEW t, NEW x \in Ordinals, Typed(s), Fitting(s),
           Keeps(s, t, x), s.bucket # <<>> => s.bucketSeconds + PieceCost(x) <= Budget
    PROVE  Fitting(t)
  <1>1. /\ s.pending \in Seq(Ordinals) /\ s.bucket \in Seq(Ordinals)
        /\ Queue(s) \in Seq(Ordinals) /\ s.bucketSeconds \in Nat
    BY FieldsOfState
  <1>2. Queue(t) = Append(Queue(s), x)
    <2> DEFINE a == s.pending
               b == s.bucket
    <2> HIDE DEF a, b
    <2>1. a \in Seq(Ordinals) /\ b \in Seq(Ordinals) /\ t.pending = a /\ t.bucket = Append(b, x)
      BY <1>1 DEF a, b, Keeps
    <2>2. a \o Append(b, x) = Append(a \o b, x)
      BY <2>1, QueueGrows
    <2> QED
      BY <2>1, <2>2 DEF Queue, a, b
  <1> DEFINE queue == Queue(s)
             total == Total(ProseCosts, queue)
  <1>3. total \in Nat /\ Total(ProseCosts, Append(queue, x)) = total + ProseCosts[x]
    BY <1>1, ProseCostsTyped, TotalOfLonger
  <1>4. /\ ProseCosts[x] \in Nat /\ PieceCost(x) \in Nat /\ ProseCosts[x] <= PieceCost(x)
        /\ Kind(x) = "heading" => ProseCosts[x] = 0
    BY ProseCostsTyped DEF Prose
  <1>5. /\ Headings(s.pending) /\ (Headings(queue) => total = 0) /\ total <= s.bucketSeconds
        /\ \A c \in DOMAIN s.chunks : Fits(s.chunks[c].pieces)
    BY DEF Fitting, FittingQueue
  <1>6. s.bucket = <<>> => Headings(queue)
    BY <1>5, QueueOfPending
  <1> HIDE DEF queue, total
  <1>7. queue \in Seq(Ordinals)
    BY <1>1 DEF queue
  <1>8. /\ t.pending = s.pending /\ t.chunks = s.chunks
        /\ t.bucketSeconds = s.bucketSeconds + PieceCost(x)
        /\ Queue(t) = Append(queue, x)
    BY <1>2 DEF Keeps, queue
  <1>9. Headings(Append(queue, x)) => Total(ProseCosts, Append(queue, x)) = 0
    BY <1>3, <1>4, <1>5, <1>7, HeadingsLonger
  <1>10. Total(ProseCosts, Append(queue, x)) <= s.bucketSeconds + PieceCost(x)
    BY <1>1, <1>3, <1>4, <1>5
  <1>11. Two(Append(queue, x)) => s.bucketSeconds + PieceCost(x) <= Budget
    BY <1>6, <1>7, HeadingsLonger
  <1> QED
    BY <1>5, <1>8, <1>9, <1>10, <1>11 DEF Fitting, FittingQueue

LEMMA TakeFitting ==
    ASSUME DocumentTyped, NEW s, NEW t, NEW x \in Ordinals, Typed(s), Fitting(s), Takes(s, t, x)
    PROVE  Fitting(t)
  <1> DEFINE f == Flush(s)
  <1>1. ASSUME Flushes(s, f)
        PROVE  /\ Typed(f) /\ f.bucket = <<>> /\ Fitting(f) /\ Headings(f.pending)
               /\ Queue(f) = f.pending
               /\ f.chunks \in Seq(Chunks) /\ f.pending \in Seq(Ordinals) /\ f.pendingSeconds \in Nat
    <2>1. Typed(f) /\ f.bucket = <<>>
      BY <1>1 DEF Flushes
    <2> QED
      BY <1>1, <2>1, FlushFitting, QueueOfPending, FieldsOfState
  <1>2. CASE Joins(s, t, x)
    BY <1>2, KeepFitting DEF Joins
  <1>3. CASE Reopens(s, t, x)
    <2>1. Flushes(s, f) /\ Keeps(f, t, x)
      BY <1>3 DEF Reopens
    <2> HIDE DEF f
    <2> QED
      BY <1>1, <2>1, KeepFitting
  <1>4. CASE Stands(s, t, x)
    <2>1. Flushes(s, f) /\ Isolates(f, t, x) /\ Kind(x) = "block"
      BY <1>4 DEF Stands
    <2> HIDE DEF f
    <2> DEFINE chunk == Chunk(Append(f.pending, x), f.pendingSeconds + PieceCost(x))
    <2>2. /\ t.chunks = Append(f.chunks, chunk) /\ Typed(t) /\ t.bucket = <<>>
          /\ t.pending = <<>> /\ t.bucketSeconds = 0
      BY <2>1 DEF Isolates
    <2>3. chunk \in Chunks
      <3>1. Append(f.pending, x) \in Seq(Ordinals)
        BY <1>1, <2>1, AppendIsLonger
      <3>2. f.pendingSeconds + PieceCost(x) \in Nat
        BY <1>1, <2>1, ProseCostsTyped
      <3> QED
        BY <3>1, <3>2, ChunkTyped
    <2>4. Fits(chunk.pieces)
      <3>1. chunk.pieces = Append(f.pending, x)
        BY DEF Chunk
      <3>2. ~ Two(Append(f.pending, x))
        BY <1>1, <2>1, HeadingsLonger
      <3> QED
        BY <3>1, <3>2 DEF Fits
    <2> HIDE DEF chunk
    <2>5. \A c \in DOMAIN t.chunks : Fits(t.chunks[c].pieces)
      BY <1>1, <2>1, <2>2, <2>3, <2>4, FitsMore DEF Fitting
    <2>6. Headings(<<>>) /\ ~ Two(<<>>)
      BY DEF Headings, Two
    <2>7. Total(ProseCosts, <<>>) = 0
      BY ProseCostsTyped, TotalOfNone
    <2>8. Queue(t) = <<>>
      BY <2>2, QueueOfPending
    <2> QED
      BY <2>2, <2>5, <2>6, <2>7, <2>8 DEF Fitting, FittingQueue
  <1>5. CASE Follows(s, t, x)
    <2>1. Flushes(s, f) /\ Absorbs(f, t, x) /\ Kind(x) = "block"
      BY <1>5 DEF Follows
    <2> HIDE DEF f
    <2>2. \A c \in DOMAIN t.chunks : Fits(t.chunks[c].pieces)
      BY <1>1, <2>1, FitsLonger DEF Fitting
    <2>3. /\ Typed(t) /\ t.bucket = <<>> /\ t.bucketSeconds = 0 /\ t.pending = f.pending
      BY <2>1 DEF Absorbs
    <2>4. Queue(t) = Queue(f)
      BY <1>1, <2>1, <2>3, QueueOfPending
    <2>5. f.bucketSeconds = 0
      BY <2>1 DEF Flushes
    <2> QED
      BY <1>1, <2>1, <2>2, <2>3, <2>4, <2>5 DEF Fitting, FittingQueue
  <1>6. CASE Breaks(s, t, x)
    BY <1>6, FlushFitting DEF Breaks
  <1> QED
    BY <1>2, <1>3, <1>4, <1>5, <1>6 DEF Takes

\* The chunks of a finished plan.
LEMMA FinishFitting ==
    ASSUME DocumentTyped, NEW s, Typed(s), Fitting(s)
    PROVE  \A c \in DOMAIN Finished(s).chunks : Fits(Finished(s).chunks[c].pieces)
  <1> DEFINE f == Flush(s)
             t == Finished(s)
             chunk == Chunk(f.pending, f.pendingSeconds)
  <1>1. Flushes(s, f) /\ (t = f \/ t.chunks = Append(f.chunks, chunk))
    BY FinishEffect
  <1>2. Typed(f) /\ Fitting(f) /\ Headings(f.pending)
    BY <1>1, FlushFitting DEF Flushes
  <1> HIDE DEF f, t
  <1>3. f.chunks \in Seq(Chunks) /\ chunk \in Chunks
    BY <1>2, FieldsOfState, ChunkTyped
  <1>4. Fits(chunk.pieces)
    <2>1. chunk.pieces = f.pending
      BY DEF Chunk
    <2> QED
      BY <1>2, <2>1, HeadingsAreNotTwo DEF Fits
  <1> HIDE DEF chunk
  <1>5. \A c \in DOMAIN f.chunks : Fits(f.chunks[c].pieces)
    BY <1>2 DEF Fitting
  <1>6. \A c \in DOMAIN t.chunks : Fits(t.chunks[c].pieces)
    <2>1. CASE t = f
      BY <1>5, <2>1
    <2>2. CASE t.chunks = Append(f.chunks, chunk)
      BY <1>3, <1>4, <1>5, <2>2, FitsMore
    <2> QED
      BY <1>1, <2>1, <2>2
  <1> QED
    BY <1>6 DEF t

FitInv ==
    /\ \A c \in DOMAIN state.chunks : Fits(state.chunks[c].pieces)
    /\ ~ done => FittingQueue(state)

LEMMA FitStarts == Init => FitInv
  <1> SUFFICES ASSUME Init PROVE FitInv
    OBVIOUS
  <1>1. DocumentTyped /\ state = EmptyState
    BY StartTyped DEF Init
  <1>2. Typed(EmptyState) /\ EmptyState.bucket = <<>> /\ EmptyState.pending = <<>>
    BY <1>1, EmptyAccounted DEF AccountedState
  <1>3. Queue(EmptyState) = <<>> /\ EmptyState.bucketSeconds = 0 /\ DOMAIN EmptyState.chunks = {}
    BY <1>2, QueueOfPending DEF EmptyState
  <1>4. Headings(<<>>) /\ ~ Two(<<>>)
    BY DEF Headings, Two
  <1>5. Total(ProseCosts, <<>>) = 0
    BY <1>1, ProseCostsTyped, TotalOfNone
  <1> QED
    BY <1>1, <1>2, <1>3, <1>4, <1>5 DEF FitInv, FittingQueue

LEMMA FitHolds == IInv /\ FitInv /\ [Next]_vars => FitInv'
  <1> SUFFICES ASSUME IInv, FitInv, [Next]_vars PROVE FitInv'
    OBVIOUS
  <1>1. /\ DocumentTyped /\ Place /\ Typed(state)
        /\ \A c \in DOMAIN state.chunks : Fits(state.chunks[c].pieces)
        /\ ~ done => FittingQueue(state)
    BY DEF IInv, FitInv, AccountedState
  <1>2. document' = document
    BY DEF Next, Consume, Finish, vars
  <1>3. ASSUME \A c \in DOMAIN state'.chunks : Fits(state'.chunks[c].pieces),
               ~ done' => FittingQueue(state')
        PROVE  FitInv'
    <2>1. Ordinals' = Ordinals /\ ProseCosts' = ProseCosts
      BY <1>2 DEF Ordinals, ProseCosts, PieceCost, Kind, Prose
    <2>2. (\A c \in DOMAIN state.chunks : Fits(state.chunks[c].pieces))'
      BY <1>2, <1>3, <2>1 DEF Fits, Two, Kind, Prose
    <2>3. (~ done => FittingQueue(state))'
      BY <1>2, <1>3, <2>1 DEF FittingQueue, Headings, Two, Kind, Prose, Queue
    <2> QED
      BY <2>2, <2>3 DEF FitInv
  <1>4. CASE Consume
    <2>1. /\ read' = read + 1 /\ read < Len(document) /\ done' = done
          /\ state' = Apply(state, read + 1, Consult(state, read + 1))
      BY <1>4 DEF Consume
    <2>2. read \in Nat /\ read + 1 \in 1 .. Len(document) /\ ~ done
      BY <1>1, <2>1 DEF Place, DocumentTyped
    <2>3. read + 1 \in Ordinals /\ Kind(read + 1) \in PieceKinds
      BY <1>1, <2>2, CostsTyped
    <2>4. Takes(state, state', read + 1)
      BY <1>1, <2>1, <2>3, TakeCases
    <2>5. Fitting(state)
      BY <1>1, <2>2 DEF Fitting
    <2>6. Fitting(state')
      <3> DEFINE x == read + 1
      <3>1. x \in Ordinals /\ Takes(state, state', x)
        BY <2>3, <2>4
      <3> HIDE DEF x
      <3> QED
        BY <1>1, <2>5, <3>1, TakeFitting
    <2> QED
      BY <1>3, <2>6 DEF Fitting
  <1>5. CASE Finish
    <2>1. read' = read /\ done' = TRUE /\ ~ done /\ state' = Finished(state)
      BY <1>5 DEF Finish
    <2>2. Fitting(state)
      BY <1>1, <2>1 DEF Fitting
    <2>3. \A c \in DOMAIN state'.chunks : Fits(state'.chunks[c].pieces)
      BY <1>1, <2>1, <2>2, FinishFitting
    <2> QED
      BY <1>3, <2>1, <2>3
  <1>6. CASE UNCHANGED vars
    <2>1. state' = state /\ read' = read /\ done' = done
      BY <1>6 DEF vars
    <2> QED
      BY <1>1, <1>3, <2>1
  <1> QED
    BY <1>4, <1>5, <1>6 DEF Next

\* A chunk of several sentences fits the budget, for every budget and all
\* costs: BudgetSplit looks at what the bucket holds before it lets a sentence
\* in, and headings and blocks join a chunk without its prose growing.
THEOREM ProseFits == Spec => []ProseFitsTheBudget
  <1>1. FitInv => ProseFitsTheBudget
    BY DEF FitInv, Fits, Two, ProseCosts, ProseFitsTheBudget
  <1> QED
    BY <1>1, InvariantStarts, InvariantHolds, FitStarts, FitHolds, PTL DEF Spec

-----------------------------------------------------------------------------
(* The imperative planner *)

NoHeadings == \A x \in Ordinals : Kind(x) # "heading"

\* Without headings nothing waits but the bucket.
Plain(s) ==
    /\ Typed(s)
    /\ s.pending = <<>> /\ s.pendingSeconds = 0
    /\ \A c \in DOMAIN s.chunks : s.chunks[c].pieces # <<>>

LEMMA TurnNext ==
    ASSUME document' = document, NEW CONSTANT s, NEW CONSTANT x
    PROVE  LegacyTurn(s, x)' = LegacyTurn(s, x)
  BY Zenon DEF LegacyTurn, Kind, Keep, PieceCost, Absorb, Chunk, EmptyBucket

LEMMA PlainFields ==
    ASSUME NEW s, Plain(s)
    PROVE  /\ s \in States /\ s.chunks \in Seq(Chunks) /\ s.bucket \in Seq(Ordinals)
           /\ s.bucketSeconds \in Nat /\ s.pending = <<>> /\ s.pendingSeconds = 0
           /\ s.bucket = <<>> => s.bucketSeconds = 0
           /\ Queue(s) = s.bucket
  <1>1. /\ s \in States /\ s.chunks \in Seq(Chunks) /\ s.bucket \in Seq(Ordinals)
        /\ s.bucketSeconds \in Nat /\ s.pending = <<>> /\ s.pendingSeconds = 0
        /\ s.bucket = <<>> => s.bucketSeconds = 0
    BY FieldsOfState DEF Plain, Typed
  <1>2. <<>> \o s.bucket = s.bucket
    BY <1>1, ConcatEmptySeq
  <1> QED
    BY <1>1, <1>2 DEF Queue

LEMMA BucketHasNoHeadings ==
    ASSUME NoHeadings, NEW s, Plain(s), Headings(s.bucket)
    PROVE  s.bucket = <<>>
  <1> DEFINE b == s.bucket
             m == Len(b)
  <1>1. b \in Seq(Ordinals) /\ m \in Nat
    BY PlainFields
  <1>2. m = 0
    <2> SUFFICES ASSUME m # 0 PROVE FALSE
      OBVIOUS
    <2>1. 1 \in DOMAIN b /\ b[1] \in Ordinals
      BY <1>1
    <2> QED
      BY <2>1 DEF Headings, NoHeadings
  <1> QED
    BY <1>1, <1>2, EmptySeq

LegacyFlush(s) ==
    IF s.bucket = <<>> THEN s
    ELSE EmptyBucket([s EXCEPT !.chunks = Append(@, Chunk(s.bucket, s.bucketSeconds))])

LEMMA FlushesAlike ==
    ASSUME NoHeadings, NEW s, Plain(s)
    PROVE  /\ LegacyFlush(s) = Flush(s)
           /\ s.bucket # <<>> => Flush(s).chunks = Append(s.chunks, Chunk(s.bucket, s.bucketSeconds))
           /\ s.bucket = <<>> => Flush(s) = s
  <1>1. /\ s \in States /\ s.chunks \in Seq(Chunks) /\ s.bucket \in Seq(Ordinals)
        /\ s.bucketSeconds \in Nat /\ s.pending = <<>> /\ s.pendingSeconds = 0
    BY PlainFields
  <1>2. CASE s.bucket = <<>>
    BY <1>2 DEF LegacyFlush, Flush
  <1>3. CASE s.bucket # <<>>
    <2>1. Flush(s) = EmptyBucket(Emit(s, s.bucket, s.bucketSeconds))
      BY <1>3, BucketHasNoHeadings DEF Flush, Headings
    <2> DEFINE chunks == Append(s.chunks, Chunk(s.bucket, s.bucketSeconds))
    <2>2. s.pending \o s.bucket = s.bucket /\ s.pendingSeconds + s.bucketSeconds = s.bucketSeconds
      BY <1>1, ConcatEmptySeq
    <2>3. Emit(s, s.bucket, s.bucketSeconds)
            = [chunks |-> chunks, bucket |-> s.bucket, bucketSeconds |-> s.bucketSeconds,
               pending |-> <<>>, pendingSeconds |-> 0]
      BY <1>1, <2>2, EmitEffect
    <2> HIDE DEF chunks
    <2>4. [s EXCEPT !.chunks = chunks]
            = [chunks |-> chunks, bucket |-> s.bucket, bucketSeconds |-> s.bucketSeconds,
               pending |-> s.pending, pendingSeconds |-> s.pendingSeconds]
      BY <1>1, FieldsReplaced
    <2>5. Emit(s, s.bucket, s.bucketSeconds) = [s EXCEPT !.chunks = chunks]
      BY <1>1, <2>3, <2>4
    <2>6. LegacyFlush(s) = EmptyBucket([s EXCEPT !.chunks = chunks])
      BY <1>3 DEF LegacyFlush, chunks
    <2>7. LegacyFlush(s) = Flush(s)
      BY <2>1, <2>5, <2>6
    <2>8. Flush(s).chunks = chunks
      BY <2>1, <2>3 DEF EmptyBucket
    <2> QED
      BY <1>3, <2>7, <2>8 DEF chunks
  <1> QED
    BY <1>2, <1>3

LEMMA FlushPlain ==
    ASSUME NoHeadings, NEW s, Plain(s), NEW t, Flushes(s, t)
    PROVE  Plain(t)
  <1>1. /\ s \in States /\ s.chunks \in Seq(Chunks) /\ s.bucket \in Seq(Ordinals)
        /\ s.bucketSeconds \in Nat /\ s.pending = <<>> /\ s.pendingSeconds = 0
        /\ s.bucket = <<>> => s.bucketSeconds = 0
        /\ Queue(s) = s.bucket
    BY PlainFields
  <1>2. Typed(t)
    BY DEF Flushes
  <1>3. CASE Defers(s, t)
    <2>1. s.bucket = <<>>
      BY <1>3, BucketHasNoHeadings DEF Defers
    <2> QED
      BY <1>1, <1>2, <1>3, <2>1 DEF Defers, Plain
  <1>4. CASE Releases(s, t)
    <2> DEFINE chunk == Chunk(Queue(s), s.pendingSeconds + s.bucketSeconds)
               more == Append(s.chunks, chunk)
               m == Len(s.chunks)
    <2>1. chunk \in Chunks
      BY FieldsOfState, ChunkTyped DEF Plain
    <2>2. chunk.pieces # <<>> /\ t.chunks = more /\ t.pending = <<>> /\ t.pendingSeconds = 0
      BY <1>1, <1>4 DEF Releases, Chunk
    <2> HIDE DEF chunk
    <2>3. /\ m \in Nat /\ DOMAIN s.chunks = 1 .. m /\ DOMAIN more = 1 .. m + 1
          /\ more[m + 1] = chunk /\ \A c \in 1 .. m : more[c] = s.chunks[c]
      BY <1>1, <2>1, AppendIsLonger
    <2> HIDE DEF more, m
    <2>4. \A c \in 1 .. m + 1 : c \in 1 .. m \/ c = m + 1
      BY <2>3
    <2>5. \A c \in DOMAIN more : more[c].pieces # <<>>
      BY <2>2, <2>3, <2>4 DEF Plain
    <2> QED
      BY <1>2, <2>2, <2>5 DEF Plain
  <1> QED
    BY <1>3, <1>4 DEF Flushes

LEMMA TakePlain ==
    ASSUME DocumentTyped, NoHeadings, NEW s, NEW t, NEW x \in Ordinals, Plain(s), Takes(s, t, x)
    PROVE  Plain(t)
  <1> DEFINE f == Flush(s)
  <1>1. ASSUME Flushes(s, f)
        PROVE  Plain(f) /\ Typed(f)
    BY <1>1, FlushPlain DEF Flushes
  <1>2. CASE Joins(s, t, x)
    BY <1>2 DEF Joins, Keeps, Plain
  <1>3. CASE Reopens(s, t, x)
    BY <1>1, <1>3 DEF Reopens, Keeps, Plain
  <1>4. CASE Stands(s, t, x)
    <2>1. Flushes(s, f) /\ Isolates(f, t, x)
      BY <1>4 DEF Stands
    <2>2. Plain(f) /\ Typed(f)
      BY <1>1, <2>1
    <2> HIDE DEF f
    <2> DEFINE chunk == Chunk(Append(f.pending, x), f.pendingSeconds + PieceCost(x))
               more == Append(f.chunks, chunk)
               m == Len(f.chunks)
    <2>3. f.chunks \in Seq(Chunks) /\ f.pending \in Seq(Ordinals) /\ f.pendingSeconds \in Nat
      BY <2>2, FieldsOfState
    <2>4. Append(f.pending, x) \in Seq(Ordinals) /\ Append(f.pending, x) # <<>>
      BY <2>3, AppendIsLonger
    <2>5. f.pendingSeconds + PieceCost(x) \in Nat
      BY <2>3, CostsTyped
    <2>6. chunk \in Chunks
      BY <2>4, <2>5, ChunkTyped
    <2>7. chunk.pieces # <<>>
      BY <2>4 DEF Chunk
    <2>8. t.chunks = more /\ t.pending = <<>> /\ t.pendingSeconds = 0 /\ Typed(t)
      BY <2>1 DEF Isolates
    <2> HIDE DEF chunk
    <2>9. /\ m \in Nat /\ DOMAIN f.chunks = 1 .. m /\ DOMAIN more = 1 .. m + 1
          /\ more[m + 1] = chunk /\ \A c \in 1 .. m : more[c] = f.chunks[c]
      BY <2>3, <2>6, AppendIsLonger
    <2> HIDE DEF more, m
    <2>10. \A c \in 1 .. m + 1 : c \in 1 .. m \/ c = m + 1
      BY <2>9
    <2>11. \A c \in DOMAIN more : more[c].pieces # <<>>
      BY <2>2, <2>7, <2>9, <2>10 DEF Plain
    <2> QED
      BY <2>8, <2>11 DEF Plain
  <1>5. CASE Follows(s, t, x)
    <2>1. Flushes(s, f) /\ Absorbs(f, t, x)
      BY <1>5 DEF Follows
    <2>2. Plain(f) /\ Typed(f)
      BY <1>1, <2>1
    <2> HIDE DEF f
    <2> DEFINE m == Len(f.chunks)
    <2>3. /\ f.chunks \in Seq(Chunks) /\ f.chunks # <<>> /\ t.chunks \in Seq(Chunks)
          /\ Len(t.chunks) = m
          /\ t.chunks[m] = Extended(f.chunks[m], x)
          /\ \A c \in 1 .. m - 1 : t.chunks[c] = f.chunks[c]
          /\ Typed(t) /\ t.pending = f.pending /\ t.pendingSeconds = f.pendingSeconds
      BY <2>1, <2>2, FieldsOfState DEF Absorbs
    <2>4. /\ m \in Nat /\ m \in 1 .. m /\ DOMAIN f.chunks = 1 .. m /\ DOMAIN t.chunks = 1 .. m
          /\ \A c \in 1 .. m : c = m \/ c \in 1 .. m - 1
      BY <2>3, EmptySeq
    <2> HIDE DEF m
    <2>5. f.chunks[m] \in Chunks
      BY <2>3, <2>4
    <2>6. f.chunks[m].pieces \in Seq(Ordinals)
      BY <2>5 DEF Chunks
    <2>7. Append(f.chunks[m].pieces, x) # <<>>
      BY <2>6, AppendIsLonger
    <2>8. t.chunks[m].pieces # <<>>
      BY <2>3, <2>7 DEF Extended, Chunk
    <2>9. \A c \in DOMAIN t.chunks : t.chunks[c].pieces # <<>>
      BY <2>2, <2>3, <2>4, <2>8 DEF Plain
    <2> QED
      BY <2>2, <2>3, <2>9 DEF Plain
  <1>6. CASE Breaks(s, t, x)
    BY <1>6, FlushPlain DEF Breaks
  <1> QED
    BY <1>2, <1>3, <1>4, <1>5, <1>6 DEF Takes

\* Both planners make the same of a piece.
LEMMA TurnsAlike ==
    ASSUME DocumentTyped, NoHeadings, NEW s, Plain(s), NEW x \in Ordinals
    PROVE  /\ LegacyTurn(s, x) = Apply(s, x, Consult(s, x))
           /\ Plain(LegacyTurn(s, x))
  <1> DEFINE f == Flush(s)
             t == Apply(s, x, Consult(s, x))
             lead == \E y \in LeadInCandidate(s) : Kind(y) = "colon"
             led == f.chunks # <<>> /\ Kind(Last(Last(f.chunks).pieces)) = "colon"
  <1>1. Typed(s) /\ Kind(x) \in PieceKinds /\ Kind(x) # "heading" /\ PieceCost(x) \in Nat
    BY CostsTyped DEF Plain, NoHeadings
  <1>2. Takes(s, t, x)
    BY <1>1, TakeCases
  <1>3. Plain(t)
    BY <1>2, TakePlain
  <1>4. /\ s.chunks \in Seq(Chunks) /\ s.bucket \in Seq(Ordinals) /\ s.bucketSeconds \in Nat
        /\ Flushes(s, f) /\ Plain(f) /\ f = LegacyFlush(s)
    BY <1>1, PlainFields, FlushEffect, FlushPlain, FlushesAlike
  <1>5. lead <=> led
    <2>1. CASE s.bucket = <<>>
      <3>1. f = s
        BY <2>1 DEF Flush
      <3> HIDE DEF f
      <3> QED
        BY <2>1, <3>1 DEF LeadInCandidate
    <2>2. CASE s.bucket # <<>>
      <3> DEFINE chunk == Chunk(s.bucket, s.bucketSeconds)
      <3>1. f.chunks = Append(s.chunks, chunk)
        BY <2>2, FlushesAlike
      <3>2. chunk \in Chunks /\ chunk.pieces = s.bucket
        BY <1>4, ChunkTyped DEF Chunk
      <3> HIDE DEF f, chunk
      <3>3. f.chunks # <<>> /\ f.chunks[Len(f.chunks)] = chunk
        BY <1>4, <3>1, <3>2, AppendIsLonger
      <3>4. Last(f.chunks).pieces = s.bucket
        BY <3>2, <3>3 DEF Last
      <3> QED
        BY <2>2, <3>3, <3>4 DEF LeadInCandidate
    <2> QED
      BY <2>1, <2>2
  <1>6. Emit(f, <<x>>, PieceCost(x))
          = [f EXCEPT !.chunks = Append(@, Chunk(<<x>>, PieceCost(x)))]
    <2> HIDE DEF f
    <2> DEFINE one == <<x>>
               k == PieceCost(x)
               chunks == Append(f.chunks, Chunk(one, k))
    <2>1. /\ f \in States /\ f.pending = <<>> /\ f.pendingSeconds = 0 /\ one \in Seq(Ordinals)
      BY <1>4, PlainFields
    <2> HIDE DEF one, k
    <2>2. f.pending \o one = one /\ f.pendingSeconds + k = k
      BY <1>1, <2>1, ConcatEmptySeq DEF k
    <2>3. Emit(f, one, k)
            = [chunks |-> chunks, bucket |-> f.bucket, bucketSeconds |-> f.bucketSeconds,
               pending |-> <<>>, pendingSeconds |-> 0]
      BY <2>1, <2>2, EmitEffect
    <2> HIDE DEF chunks
    <2>4. [f EXCEPT !.chunks = chunks]
            = [chunks |-> chunks, bucket |-> f.bucket, bucketSeconds |-> f.bucketSeconds,
               pending |-> f.pending, pendingSeconds |-> f.pendingSeconds]
      BY <2>1, FieldsReplaced
    <2>5. Emit(f, one, k) = [f EXCEPT !.chunks = chunks]
      BY <2>1, <2>3, <2>4
    <2> QED
      BY <2>5 DEF one, k, chunks
  <1>7. /\ Kind(x) = "break" => LegacyTurn(s, x) = f
        /\ Kind(x) = "block" /\ led => LegacyTurn(s, x) = Absorb(f, x)
        /\ Kind(x) = "block" /\ ~ led =>
              LegacyTurn(s, x) = [f EXCEPT !.chunks = Append(@, Chunk(<<x>>, PieceCost(x)))]
        /\ Kind(x) \in Prose /\ s.bucket # <<>> /\ s.bucketSeconds + PieceCost(x) > Budget
             => LegacyTurn(s, x) = Keep(f, x)
        /\ Kind(x) \in Prose /\ ~ (s.bucket # <<>> /\ s.bucketSeconds + PieceCost(x) > Budget)
             => LegacyTurn(s, x) = Keep(s, x)
    <2>1. f = LegacyFlush(s)
      BY <1>4
    <2> HIDE DEF f
    <2> QED
      BY <2>1 DEF LegacyTurn, LegacyFlush, Prose
  <1>8. /\ Kind(x) = "break" => t = f
        /\ Kind(x) = "block" /\ lead => t = Absorb(f, x)
        /\ Kind(x) = "block" /\ ~ lead => t = Emit(f, <<x>>, PieceCost(x))
        /\ Kind(x) \in Prose /\ s.bucket # <<>> /\ s.bucketSeconds + PieceCost(x) > Budget
             => t = Keep(f, x)
        /\ Kind(x) \in Prose /\ ~ (s.bucket # <<>> /\ s.bucketSeconds + PieceCost(x) > Budget)
             => t = Keep(s, x)
    BY DEF Apply, Consult, Prose
  <1>9. Kind(x) = "break" \/ Kind(x) = "block" \/ Kind(x) \in Prose
    BY <1>1 DEF PieceKinds, Prose
  <1> HIDE DEF f, t, lead, led
  <1>10. LegacyTurn(s, x) = t
    BY <1>5, <1>6, <1>7, <1>8, <1>9
  <1> QED
    BY <1>3, <1>10 DEF t

LEMMA EmptyPlain ==
    ASSUME DocumentTyped
    PROVE  Plain(EmptyState)
  <1>1. Typed(EmptyState)
    BY EmptyAccounted DEF AccountedState
  <1>2. /\ EmptyState.pending = <<>> /\ EmptyState.pendingSeconds = 0
        /\ DOMAIN EmptyState.chunks = {}
    BY DEF EmptyState
  <1> QED
    BY <1>1, <1>2 DEF Plain

LEMMA LegacyUnrolled ==
    ASSUME DocumentTyped, NoHeadings
    PROVE  /\ LegacyTurns[0] = EmptyState
           /\ \A i \in Ordinals : LegacyTurns[i] = LegacyTurn(LegacyTurns[i - 1], i)
  <1> DEFINE n == Len(document)
             ST == {s \in States : Plain(s)}
             F == [i \in 1 .. n |-> [s \in ST |-> LegacyTurn(s, i)]]
             Body(f) == [i \in 0 .. n |-> IF i = 0 THEN EmptyState ELSE LegacyTurn(f[i - 1], i)]
             g == CHOOSE f : f = Body(f)
  <1>1. n \in Nat /\ Ordinals = 1 .. n
    BY CostsTyped DEF DocumentTyped
  <1>2. LegacyTurns = g
    BY DEF LegacyTurns
  <1> HIDE DEF n
  <1>3. EmptyState \in ST
    BY EmptyPlain, PlainFields
  <1>4. \A i \in 1 .. n, s \in ST : LegacyTurn(s, i) \in ST
    BY <1>1, TurnsAlike, PlainFields
  <1> HIDE DEF ST
  <1>5. F \in [1 .. n -> [ST -> ST]]
    BY <1>4
  <1>6. \A i \in 1 .. n, s \in ST : F[i][s] = LegacyTurn(s, i)
    OBVIOUS
  <1> HIDE DEF F
  <1>7. PICK h : IsRun(h, F, ST, EmptyState, n)
    BY <1>1, <1>3, <1>5, RunExists
  <1>8. /\ h \in [0 .. n -> ST] /\ h[0] = EmptyState
        /\ \A i \in 1 .. n : h[i] = LegacyTurn(h[i - 1], i)
    <2>1. /\ h \in [0 .. n -> ST] /\ h[0] = EmptyState
          /\ \A i \in 1 .. n : h[i] = F[i][h[i - 1]]
      BY <1>7 DEF IsRun
    <2>2. \A i \in 1 .. n : i - 1 \in 0 .. n
      BY <1>1
    <2> QED
      BY <1>6, <2>1, <2>2
  <1>9. h = Body(h)
    <2>1. \A i \in 0 .. n : i # 0 => i \in 1 .. n
      BY <1>1
    <2> QED
      BY <1>8, <2>1
  <1>10. g = Body(g)
    BY <1>9
  <1> HIDE DEF g
  <1>11. 0 \in 0 .. n /\ \A i \in 1 .. n : i \in 0 .. n /\ i # 0
    BY <1>1
  <1> QED
    BY <1>1, <1>2, <1>10, <1>11

AgreeInv ==
    NoHeadings =>
        /\ ~ done => Plain(state) /\ state = LegacyTurns[read]
        /\ done => state.chunks = LegacyPlan

LEMMA AgreeStarts == Init => AgreeInv
  <1> SUFFICES ASSUME Init, NoHeadings PROVE Plain(state) /\ state = LegacyTurns[read] /\ ~ done
    BY DEF AgreeInv
  <1>1. DocumentTyped /\ state = EmptyState /\ read = 0 /\ done = FALSE
    BY StartTyped DEF Init
  <1> QED
    BY <1>1, EmptyPlain, LegacyUnrolled

\* What the predecessor makes of a text depends on the text only.
LEMMA LegacyNext ==
    ASSUME document' = document
    PROVE  LegacyTurns' = LegacyTurns /\ LegacyPlan' = LegacyPlan /\ NoHeadings' = NoHeadings
  <1>1. LegacyTurns' = LegacyTurns
    BY SMT DEF LegacyTurns, LegacyTurn, Kind, Keep, PieceCost, Absorb, Chunk, EmptyBucket
  <1>2. LegacyPlan' = LegacyPlan
    BY <1>1 DEF LegacyPlan, Chunk
  <1>3. NoHeadings' = NoHeadings
    BY DEF NoHeadings, Ordinals, Kind
  <1> QED
    BY <1>1, <1>2, <1>3

LEMMA AgreeHolds == IInv /\ AgreeInv /\ [Next]_vars => AgreeInv'
  <1> SUFFICES ASSUME IInv, AgreeInv, [Next]_vars, NoHeadings' PROVE AgreeInv'
    BY DEF AgreeInv
  <1>1. document' = document
    BY DEF Next, Consume, Finish, vars
  <1>2. NoHeadings /\ LegacyTurns' = LegacyTurns /\ LegacyPlan' = LegacyPlan
    BY <1>1, LegacyNext
  <1>3. /\ DocumentTyped /\ Place /\ Typed(state)
        /\ ~ done => Plain(state) /\ state = LegacyTurns[read]
        /\ done => state.chunks = LegacyPlan
    BY <1>2 DEF IInv, AgreeInv, AccountedState
  <1>4. ASSUME ~ done' => Plain(state') /\ state' = LegacyTurns[read'],
               done' => state'.chunks = LegacyPlan
        PROVE  AgreeInv'
    <2>1. Ordinals' = Ordinals
      BY <1>1 DEF Ordinals
    <2>2. Chunks' = Chunks
      BY <2>1 DEF Chunks
    <2>3. States' = States
      BY <2>1, <2>2 DEF States
    <2>4. Plain(state') => Plain(state)'
      BY <2>3 DEF Plain, Typed
    <2> QED
      BY <1>2, <1>4, <2>4 DEF AgreeInv
  <1>5. CASE Consume
    <2>1. /\ read' = read + 1 /\ read < Len(document) /\ done' = done
          /\ state' = Apply(state, read + 1, Consult(state, read + 1))
      BY <1>5 DEF Consume
    <2>2. read \in Nat /\ read + 1 \in 1 .. Len(document) /\ ~ done /\ (read + 1) - 1 = read
      BY <1>3, <2>1 DEF Place, DocumentTyped
    <2>3. read + 1 \in Ordinals
      BY <1>3, <2>2, CostsTyped
    <2>4. /\ Plain(state) /\ state = LegacyTurns[read]
          /\ LegacyTurns[read + 1] = LegacyTurn(LegacyTurns[(read + 1) - 1], read + 1)
      BY <1>2, <1>3, <2>2, <2>3, LegacyUnrolled
    <2>5. LegacyTurns[read + 1] = LegacyTurn(state, read + 1)
      BY <2>2, <2>4
    <2> DEFINE x == read + 1
    <2>6. x \in Ordinals
      BY <2>3
    <2> HIDE DEF x
    <2>7. LegacyTurn(state, x) = Apply(state, x, Consult(state, x)) /\ Plain(LegacyTurn(state, x))
      BY <1>2, <1>3, <2>4, <2>6, TurnsAlike
    <2>8. state' = LegacyTurns[read'] /\ Plain(state')
      BY <2>1, <2>5, <2>7 DEF x
    <2> QED
      BY <1>4, <2>1, <2>2, <2>8
  <1>6. CASE Finish
    <2>1. done' = TRUE /\ ~ done /\ state' = Finished(state) /\ read = Len(document)
      BY <1>6 DEF Finish
    <2>2. Plain(state) /\ state = LegacyTurns[read]
      BY <1>3, <2>1
    <2> DEFINE f == Flush(state)
    <2>3. Plain(f)
      BY <1>2, <1>3, <2>2, FlushEffect, FlushPlain
    <2>4. state' = f
      BY <2>1, <2>3 DEF Finished, Plain
    <2>5. f.chunks = IF state.bucket = <<>> THEN state.chunks
                     ELSE Append(state.chunks, Chunk(state.bucket, state.bucketSeconds))
      BY <1>2, <2>2, FlushesAlike
    <2> HIDE DEF f
    <2>6. state'.chunks = LegacyPlan
      BY <2>1, <2>2, <2>4, <2>5 DEF LegacyPlan
    <2> QED
      BY <1>4, <2>1, <2>6
  <1>7. CASE UNCHANGED vars
    <2>1. state' = state /\ read' = read /\ done' = done
      BY <1>7 DEF vars
    <2> QED
      BY <1>3, <1>4, <2>1
  <1> QED
    BY <1>5, <1>6, <1>7 DEF Next

\* The rules make of a document without headings what the imperative planner
\* they replaced made of it: the same chunks with the same reading times, for
\* every text without headings, every cost and every budget.
THEOREM AgreesWithPredecessor == Spec => []AgreesWithItsPredecessor
  <1>1. AgreeInv => AgreesWithItsPredecessor
    BY DEF AgreeInv, AgreesWithItsPredecessor, NoHeadings, Has, Ordinals
  <1> QED
    BY <1>1, InvariantStarts, InvariantHolds, AgreeStarts, AgreeHolds, PTL DEF Spec

-----------------------------------------------------------------------------
(* Documents without breaks *)

Unbroken == \A x \in Ordinals : Kind(x) # "break"

Before(pieces, others) == \A x, y : Holds(pieces, x) /\ Holds(others, y) => x < y

\* Chunks follow each other, and what waits follows them.
Ascending(chunks, queue) ==
    /\ \A c, d \in DOMAIN chunks : c < d => Before(chunks[c].pieces, chunks[d].pieces)
    /\ \A c \in DOMAIN chunks : Before(chunks[c].pieces, queue)

NoneOfHeadings(chunks) == \A c \in DOMAIN chunks : ~ Headings(chunks[c].pieces)

\* Headings are never pending between two pieces: their own bucket still holds
\* the last of them.
Arranged(s, n) ==
    /\ Ascending(s.chunks, Queue(s))
    /\ NoneOfHeadings(s.chunks)
    /\ s.bucket = <<>> => s.pending = <<>>
    /\ s.bucket # <<>> => Last(s.bucket) = n

LEMMA HeadingsHold ==
    ASSUME NEW pieces
    PROVE  Headings(pieces) <=> \A y : Holds(pieces, y) => Kind(y) = "heading"
  BY DEF Headings, Holds

LEMMA AscendingGrows ==
    ASSUME NEW chunks, NEW queue \in Seq(Ordinals), NEW x \in Ordinals,
           Ascending(chunks, queue),
           \A c \in DOMAIN chunks : \A y : Holds(chunks[c].pieces, y) => y < x
    PROVE  Ascending(chunks, Append(queue, x))
  <1>1. \A y : Holds(Append(queue, x), y) <=> Holds(queue, y) \/ y = x
    BY HoldsLonger
  <1> QED
    BY <1>1 DEF Ascending, Before

LEMMA AscendingCloses ==
    ASSUME NEW chunks \in Seq(Chunks), NEW queue \in Seq(Ordinals), NEW seconds \in Nat,
           Ascending(chunks, queue)
    PROVE  Ascending(Append(chunks, Chunk(queue, seconds)), <<>>)
  <1> DEFINE chunk == Chunk(queue, seconds)
             more == Append(chunks, chunk)
             m == Len(chunks)
             none == <<>>
  <1>1. chunk \in Chunks /\ chunk.pieces = queue
    BY ChunkTyped DEF Chunk
  <1> HIDE DEF chunk
  <1>2. /\ m \in Nat /\ DOMAIN chunks = 1 .. m /\ DOMAIN more = 1 .. m + 1
        /\ more[m + 1] = chunk /\ \A c \in 1 .. m : more[c] = chunks[c]
    BY <1>1, AppendIsLonger
  <1>3. \A y : ~ Holds(none, y)
    BY HoldsNone
  <1> HIDE DEF more, m, none
  <1>4. \A c \in 1 .. m + 1 : c \in 1 .. m \/ c = m + 1
    BY <1>2
  <1>5. ASSUME NEW c \in 1 .. m + 1, NEW d \in 1 .. m + 1, c < d
        PROVE  Before(more[c].pieces, more[d].pieces)
    <2>1. c \in 1 .. m
      BY <1>2, <1>5
    <2>2. CASE d \in 1 .. m
      BY <1>2, <1>5, <2>1, <2>2 DEF Ascending
    <2>3. CASE d = m + 1
      BY <1>1, <1>2, <2>1, <2>3 DEF Ascending
    <2> QED
      BY <1>4, <2>2, <2>3
  <1>6. Ascending(more, none)
    BY <1>2, <1>3, <1>5 DEF Ascending, Before
  <1> QED
    BY <1>6 DEF more, none, chunk

LEMMA NoneOfHeadingsGrows ==
    ASSUME NEW chunks \in Seq(Chunks), NEW queue \in Seq(Ordinals), NEW seconds \in Nat,
           NoneOfHeadings(chunks), ~ Headings(queue)
    PROVE  NoneOfHeadings(Append(chunks, Chunk(queue, seconds)))
  <1> DEFINE chunk == Chunk(queue, seconds)
             more == Append(chunks, chunk)
             m == Len(chunks)
  <1>1. chunk \in Chunks /\ chunk.pieces = queue
    BY ChunkTyped DEF Chunk
  <1> HIDE DEF chunk
  <1>2. /\ m \in Nat /\ DOMAIN chunks = 1 .. m /\ DOMAIN more = 1 .. m + 1
        /\ more[m + 1] = chunk /\ \A c \in 1 .. m : more[c] = chunks[c]
    BY <1>1, AppendIsLonger
  <1> HIDE DEF more, m
  <1>3. \A c \in 1 .. m + 1 : c \in 1 .. m \/ c = m + 1
    BY <1>2
  <1> QED
    BY <1>1, <1>2, <1>3 DEF NoneOfHeadings, more, chunk

\* A flush changes no order.
LEMMA FlushArranges ==
    ASSUME NEW s, NEW t, Typed(s), Flushes(s, t),
           Ascending(s.chunks, Queue(s)), NoneOfHeadings(s.chunks)
    PROVE  Ascending(t.chunks, Queue(t)) /\ NoneOfHeadings(t.chunks) /\ Queue(t) = t.pending
  <1>1. Typed(t) /\ t.bucket = <<>>
    BY DEF Flushes
  <1>2. Queue(t) = t.pending
    BY <1>1, QueueOfPending
  <1>3. CASE Defers(s, t)
    BY <1>2, <1>3 DEF Defers
  <1>4. CASE Releases(s, t)
    <2> DEFINE queue == Queue(s)
               seconds == s.pendingSeconds + s.bucketSeconds
    <2>1. s.chunks \in Seq(Chunks) /\ queue \in Seq(Ordinals) /\ seconds \in Nat
          /\ s.bucket \in Seq(Ordinals) /\ s.pending \in Seq(Ordinals)
      BY FieldsOfState
    <2>2. ~ Headings(queue)
      <3>1. \A y : Holds(queue, y) <=> Holds(s.pending, y) \/ Holds(s.bucket, y)
        BY <2>1, HoldsJoined DEF Queue
      <3>2. ~ Headings(s.bucket)
        BY <1>4 DEF Releases
      <3> HIDE DEF queue
      <3> QED
        BY <3>1, <3>2, HeadingsHold
    <2>3. t.chunks = Append(s.chunks, Chunk(queue, seconds)) /\ t.pending = <<>>
      BY <1>4 DEF Releases
    <2> HIDE DEF queue, seconds
    <2>4. Ascending(s.chunks, queue)
      BY DEF queue
    <2>5. Ascending(t.chunks, <<>>)
      BY <2>1, <2>3, <2>4, AscendingCloses
    <2>6. NoneOfHeadings(t.chunks)
      BY <2>1, <2>2, <2>3, NoneOfHeadingsGrows
    <2> QED
      BY <1>2, <2>3, <2>5, <2>6
  <1> QED
    BY <1>3, <1>4 DEF Flushes

\* What is planned or waits has been read.
LEMMA PlacedBefore ==
    ASSUME DocumentTyped, NEW s, NEW n \in Nat, AccountedState(s, n)
    PROVE  /\ \A y : Holds(Queue(s), y) => y \in Ordinals /\ y < n + 1
           /\ \A c \in DOMAIN s.chunks : \A y :
                 Holds(s.chunks[c].pieces, y) => y \in Ordinals /\ y < n + 1
  <1>1. /\ s.chunks \in Seq(Chunks) /\ Queue(s) \in Seq(Ordinals)
        /\ PlacedOnce(s.chunks, Queue(s), n)
    BY DEF AccountedState, Accounted
  <1>2. \A y \in Ordinals : y <= n => y < n + 1
    BY CostsTyped
  <1>3. ASSUME NEW y, Holds(Queue(s), y) PROVE y \in Ordinals /\ y < n + 1
    <2>1. y \in Ordinals
      BY <1>1, <1>3, HoldsTyped
    <2> QED
      BY <1>1, <1>2, <1>3, <2>1 DEF PlacedOnce
  <1>4. ASSUME NEW c \in DOMAIN s.chunks, NEW y, Holds(s.chunks[c].pieces, y)
        PROVE  y \in Ordinals /\ y < n + 1
    <2>1. s.chunks[c] \in Chunks
      BY <1>1
    <2>2. s.chunks[c].pieces \in Seq(Ordinals)
      BY <2>1 DEF Chunks
    <2>3. y \in Ordinals
      BY <1>4, <2>2, HoldsTyped
    <2> QED
      BY <1>1, <1>2, <1>4, <2>3 DEF PlacedOnce
  <1> QED
    BY <1>3, <1>4

LEMMA KeepArranges ==
    ASSUME DocumentTyped, NEW s, NEW t, NEW n \in Nat, AccountedState(s, n),
           n + 1 \in Ordinals, Keeps(s, t, n + 1),
           Ascending(s.chunks, Queue(s)), NoneOfHeadings(s.chunks)
    PROVE  Arranged(t, n + 1)
  <1> DEFINE x == n + 1
             a == s.pending
             b == s.bucket
  <1>1. Typed(s) /\ x \in Ordinals /\ t.chunks = s.chunks
        /\ t.pending = a /\ t.bucket = Append(b, x)
    BY DEF AccountedState, Keeps
  <1>2. a \in Seq(Ordinals) /\ b \in Seq(Ordinals) /\ Queue(s) \in Seq(Ordinals)
        /\ Queue(s) = a \o b
    BY <1>1, FieldsOfState DEF Queue
  <1>3. \A c \in DOMAIN s.chunks : \A y : Holds(s.chunks[c].pieces, y) => y < x
    BY PlacedBefore
  <1> HIDE DEF x, a, b
  <1>4. Queue(t) = Append(Queue(s), x)
    <2>1. a \o Append(b, x) = Append(a \o b, x)
      BY <1>1, <1>2, QueueGrows
    <2> QED
      BY <1>1, <1>2, <2>1 DEF Queue
  <1>5. Ascending(t.chunks, Queue(t))
    BY <1>1, <1>2, <1>3, <1>4, AscendingGrows
  <1>6. Append(b, x) # <<>> /\ Last(Append(b, x)) = x
    <2>1. /\ Append(b, x) # <<>>
          /\ Len(Append(b, x)) = Len(b) + 1
          /\ Append(b, x)[Len(b) + 1] = x
      BY <1>1, <1>2, AppendIsLonger
    <2> QED
      BY <2>1 DEF Last
  <1>7. Arranged(t, x)
    BY <1>1, <1>5, <1>6 DEF Arranged
  <1> QED
    BY <1>7 DEF x

LEMMA TakeArranges ==
    ASSUME DocumentTyped, Unbroken, NEW s, NEW t, NEW n \in Nat, AccountedState(s, n),
           n + 1 \in Ordinals, Takes(s, t, n + 1), Arranged(s, n)
    PROVE  Arranged(t, n + 1)
  <1> DEFINE x == n + 1
             f == Flush(s)
  <1>1. /\ Typed(s) /\ Ascending(s.chunks, Queue(s)) /\ NoneOfHeadings(s.chunks)
        /\ s.bucket = <<>> => s.pending = <<>>
        /\ s.bucket # <<>> => Last(s.bucket) = n
    BY DEF AccountedState, Arranged
  <1>2. ASSUME Flushes(s, f)
        PROVE  /\ AccountedState(f, n) /\ Typed(f) /\ f.bucket = <<>>
               /\ Ascending(f.chunks, Queue(f)) /\ NoneOfHeadings(f.chunks)
               /\ Queue(f) = f.pending
    BY <1>1, <1>2, FlushArranges, FlushAccounted DEF Flushes
  <1>3. x \in Ordinals /\ PieceCost(x) \in Nat /\ Ordinals \subseteq Nat
    BY CostsTyped
  <1>4. CASE Joins(s, t, x)
    BY <1>1, <1>4, KeepArranges DEF Joins
  <1>5. CASE Reopens(s, t, x)
    BY <1>2, <1>5, KeepArranges DEF Reopens
  <1>6. CASE Stands(s, t, x)
    <2>1. Kind(x) = "block" /\ Flushes(s, f) /\ Isolates(f, t, x)
      BY <1>6 DEF Stands
    <2>2. /\ \A c \in DOMAIN f.chunks : \A y : Holds(f.chunks[c].pieces, y) => y < x
          /\ f.chunks \in Seq(Chunks) /\ f.pending \in Seq(Ordinals) /\ f.pendingSeconds \in Nat
          /\ Ascending(f.chunks, f.pending) /\ NoneOfHeadings(f.chunks)
      BY <1>2, <2>1, PlacedBefore, FieldsOfState
    <2> HIDE DEF f, x
    <2> DEFINE queue == Append(f.pending, x)
               seconds == f.pendingSeconds + PieceCost(x)
    <2>3. queue \in Seq(Ordinals) /\ seconds \in Nat
      BY <1>3, <2>2, AppendIsLonger
    <2>4. Ascending(f.chunks, queue)
      BY <1>3, <2>2, AscendingGrows
    <2>5. ~ Headings(queue)
      <3>1. Holds(queue, x)
        BY <1>3, <2>2, HoldsLonger
      <3> QED
        BY <2>1, <3>1, HeadingsHold
    <2>6. t.chunks = Append(f.chunks, Chunk(queue, seconds)) /\ t.pending = <<>> /\ t.bucket = <<>>
          /\ Typed(t)
      BY <2>1 DEF Isolates
    <2> HIDE DEF queue, seconds
    <2>7. Ascending(t.chunks, <<>>)
      BY <2>2, <2>3, <2>4, <2>6, AscendingCloses
    <2>8. NoneOfHeadings(t.chunks)
      BY <2>2, <2>3, <2>5, <2>6, NoneOfHeadingsGrows
    <2>9. Queue(t) = <<>>
      BY <2>6, QueueOfPending
    <2> QED
      BY <2>6, <2>7, <2>8, <2>9 DEF Arranged, x
  <1>7. CASE Follows(s, t, x)
    <2>1. Kind(x) = "block" /\ Flushes(s, f) /\ Absorbs(f, t, x)
          /\ \E lead \in LeadInCandidate(s) : Kind(lead) = "colon"
      BY <1>7 DEF Follows
    <2>2. f.pending = <<>>
      <3>1. CASE s.bucket = <<>>
        <4>1. Queue(s) = <<>>
          BY <1>1, <3>1, QueueOfPending
        <4> QED
          BY <2>1, <4>1 DEF Flushes, Defers, Releases
      <3>2. CASE s.bucket # <<>>
        <4>1. s.bucket \in Seq(Ordinals)
          BY <1>1, FieldsOfState
        <4>2. Kind(s.bucket[Len(s.bucket)]) = "colon"
          BY <2>1, <3>2 DEF LeadInCandidate, Last
        <4>3. Len(s.bucket) \in DOMAIN s.bucket
          BY <3>2, <4>1, EmptySeq
        <4>4. ~ Headings(s.bucket)
          BY <4>2, <4>3 DEF Headings
        <4> QED
          BY <2>1, <4>4 DEF Flushes, Defers, Releases
      <3> QED
        BY <3>1, <3>2
    <2>3. /\ \A c \in DOMAIN f.chunks : \A y :
                Holds(f.chunks[c].pieces, y) => y \in Ordinals /\ y < x
          /\ f.chunks \in Seq(Chunks) /\ Typed(f)
          /\ Ascending(f.chunks, f.pending) /\ NoneOfHeadings(f.chunks)
      BY <1>2, <2>1, PlacedBefore, FieldsOfState
    <2> HIDE DEF f, x
    <2> DEFINE m == Len(f.chunks)
    <2>4. /\ m \in DOMAIN f.chunks
          /\ \A y : Holds(t.chunks[m].pieces, y) <=> Holds(f.chunks[m].pieces, y) \/ y = x
      BY <1>3, <2>1, <2>3, AbsorbRetains
    <2>5. /\ Typed(t) /\ t.pending = <<>> /\ t.bucket = <<>> /\ Len(t.chunks) = m
          /\ \A c \in 1 .. m - 1 : t.chunks[c] = f.chunks[c]
      BY <2>1, <2>2 DEF Absorbs
    <2>6. DOMAIN f.chunks = 1 .. m /\ DOMAIN t.chunks = 1 .. m /\ m \in Nat
      BY <2>3, <2>5, FieldsOfState
    <2> HIDE DEF m
    <2>7. \A c \in 1 .. m : c \in 1 .. m - 1 \/ c = m
      BY <2>6
    <2>8. ASSUME NEW c \in 1 .. m, NEW d \in 1 .. m, c < d
          PROVE  Before(t.chunks[c].pieces, t.chunks[d].pieces)
      <3>1. c \in 1 .. m - 1 /\ t.chunks[c] = f.chunks[c]
        BY <2>5, <2>6, <2>8
      <3>2. CASE d \in 1 .. m - 1
        BY <2>3, <2>5, <2>6, <2>8, <3>1, <3>2 DEF Ascending
      <3>3. CASE d = m
        <4> SUFFICES ASSUME NEW y, NEW z, Holds(f.chunks[c].pieces, y), Holds(t.chunks[m].pieces, z)
                     PROVE  y < z
          BY <3>1, <3>3 DEF Before
        <4>1. Holds(f.chunks[m].pieces, z) \/ z = x
          BY <2>4
        <4> QED
          BY <2>3, <2>6, <2>8, <3>3, <4>1 DEF Ascending, Before
      <3> QED
        BY <2>7, <3>2, <3>3
    <2>9. \A y : ~ Holds(<<>>, y)
      BY HoldsNone
    <2>10. Ascending(t.chunks, <<>>)
      BY <2>6, <2>8, <2>9 DEF Ascending, Before
    <2>11. NoneOfHeadings(t.chunks)
      <3> SUFFICES ASSUME NEW c \in 1 .. m PROVE ~ Headings(t.chunks[c].pieces)
        BY <2>6 DEF NoneOfHeadings
      <3>1. CASE c = m
        <4>1. Holds(t.chunks[m].pieces, x) /\ Kind(x) # "heading"
          BY <2>1, <2>4
        <4> QED
          BY <3>1, <4>1, HeadingsHold
      <3>2. CASE c \in 1 .. m - 1
        BY <2>3, <2>5, <2>6, <3>2 DEF NoneOfHeadings
      <3> QED
        BY <2>7, <3>1, <3>2
    <2>12. Queue(t) = <<>>
      BY <2>5, QueueOfPending
    <2> QED
      BY <2>5, <2>10, <2>11, <2>12 DEF Arranged, x
  <1>8. CASE Breaks(s, t, x)
    BY <1>3, <1>8 DEF Breaks, Unbroken
  <1> QED
    BY <1>4, <1>5, <1>6, <1>7, <1>8 DEF Takes

\* A chunk of headings only comes last, and the document ends with them.
EndingHeadings(chunks, n) ==
    \A c \in DOMAIN chunks :
        Headings(chunks[c].pieces) => c = Len(chunks) /\ Kind(n) = "heading"

LEMMA FinishArranges ==
    ASSUME NEW s, Typed(s), NEW n \in Nat, Arranged(s, n)
    PROVE  LET t == Finished(s)
           IN  Ascending(t.chunks, Queue(t)) /\ EndingHeadings(t.chunks, n)
  <1> DEFINE f == Flush(s)
             t == Finished(s)
  <1>1. /\ Flushes(s, f) /\ Typed(t) /\ t.bucket = <<>> /\ t.pending = <<>>
        /\ \/ t = f
           \/ /\ f.pending # <<>>
              /\ t.chunks = Append(f.chunks, Chunk(f.pending, f.pendingSeconds))
    BY FinishEffect
  <1>2. Queue(t) = <<>>
    BY <1>1, QueueOfPending
  <1>3. /\ Typed(f) /\ Ascending(f.chunks, f.pending) /\ NoneOfHeadings(f.chunks)
    BY <1>1, FlushArranges DEF Arranged, Flushes
  <1> HIDE DEF f, t
  <1>4. CASE t = f
    <2>1. Ascending(t.chunks, Queue(t))
      BY <1>1, <1>2, <1>3, <1>4
    <2>2. EndingHeadings(t.chunks, n)
      BY <1>3, <1>4 DEF NoneOfHeadings, EndingHeadings
    <2> QED
      BY <2>1, <2>2 DEF t
  <1>5. CASE f.pending # <<>> /\ t.chunks = Append(f.chunks, Chunk(f.pending, f.pendingSeconds))
    <2>1. Kind(n) = "heading"
      <3>1. Defers(s, f) /\ f.pending = Queue(s)
        BY <1>1, <1>5 DEF Flushes, Defers, Releases
      <3>2. s.bucket # <<>>
        <4> SUFFICES ASSUME s.bucket = <<>> PROVE FALSE
          OBVIOUS
        <4>1. Queue(s) = <<>>
          BY QueueOfPending DEF Arranged
        <4> QED
          BY <1>5, <3>1, <4>1
      <3>3. s.bucket \in Seq(Ordinals)
        BY FieldsOfState
      <3>4. Len(s.bucket) \in DOMAIN s.bucket
        BY <3>2, <3>3, EmptySeq
      <3>5. s.bucket[Len(s.bucket)] = n
        BY <3>2 DEF Arranged, Last
      <3> QED
        BY <3>1, <3>4, <3>5 DEF Defers, Headings
    <2> DEFINE queue == f.pending
               seconds == f.pendingSeconds
               chunk == Chunk(queue, seconds)
               m == Len(f.chunks)
    <2>2. f.chunks \in Seq(Chunks) /\ queue \in Seq(Ordinals) /\ seconds \in Nat
          /\ Ascending(f.chunks, queue)
      BY <1>3, FieldsOfState
    <2>3. t.chunks = Append(f.chunks, chunk)
      BY <1>5
    <2> HIDE DEF queue, seconds
    <2>4. Ascending(t.chunks, <<>>)
      BY <2>2, <2>3, AscendingCloses
    <2>5. chunk \in Chunks
      BY <2>2, ChunkTyped
    <2> HIDE DEF chunk
    <2>6. /\ m \in Nat /\ DOMAIN f.chunks = 1 .. m /\ DOMAIN t.chunks = 1 .. m + 1
          /\ Len(t.chunks) = m + 1 /\ \A c \in 1 .. m : t.chunks[c] = f.chunks[c]
      BY <2>2, <2>3, <2>5, AppendIsLonger
    <2> HIDE DEF m
    <2>7. \A c \in 1 .. m + 1 : c \in 1 .. m \/ c = m + 1
      BY <2>6
    <2>8. EndingHeadings(t.chunks, n)
      BY <1>3, <2>1, <2>6, <2>7 DEF NoneOfHeadings, EndingHeadings
    <2> QED
      BY <1>2, <2>4, <2>8 DEF t
  <1> QED
    BY <1>1, <1>4, <1>5

OrderInv ==
    Unbroken =>
        /\ Ascending(state.chunks, Queue(state))
        /\ ~ done => Arranged(state, read)
        /\ done => EndingHeadings(state.chunks, Len(document))

LEMMA OrderStarts == Init => OrderInv
  <1> SUFFICES ASSUME Init PROVE OrderInv
    OBVIOUS
  <1>1. DocumentTyped /\ state = EmptyState /\ done = FALSE
    BY StartTyped DEF Init
  <1>2. Typed(EmptyState) /\ EmptyState.bucket = <<>> /\ EmptyState.pending = <<>>
    BY <1>1, EmptyAccounted DEF AccountedState
  <1>3. Queue(EmptyState) = <<>>
    BY <1>2, QueueOfPending
  <1>4. EmptyState.chunks = <<>>
    BY DEF EmptyState
  <1>5. DOMAIN EmptyState.chunks = {}
    BY <1>4
  <1>6. Ascending(EmptyState.chunks, Queue(EmptyState)) /\ NoneOfHeadings(EmptyState.chunks)
    BY <1>5 DEF Ascending, NoneOfHeadings
  <1> QED
    BY <1>1, <1>2, <1>6 DEF OrderInv, Arranged

LEMMA OrderHolds == IInv /\ OrderInv /\ [Next]_vars => OrderInv'
  <1> SUFFICES ASSUME IInv, OrderInv, [Next]_vars PROVE OrderInv'
    OBVIOUS
  <1>1. /\ DocumentTyped /\ Place /\ AccountedState(state, read) /\ Typed(state)
    BY DEF IInv, AccountedState
  <1>2. document' = document
    BY DEF Next, Consume, Finish, vars
  <1>3. ASSUME Unbroken => /\ Ascending(state'.chunks, Queue(state'))
                           /\ ~ done' => Arranged(state', read')
                           /\ done' => EndingHeadings(state'.chunks, Len(document))
        PROVE  OrderInv'
    <2>1. Ordinals' = Ordinals
      BY <1>2 DEF Ordinals
    <2>2. Unbroken' = Unbroken
      BY <1>2, <2>1 DEF Unbroken, Kind
    <2>3. Ascending(state.chunks, Queue(state))' = Ascending(state'.chunks, Queue(state'))
      BY DEF Ascending, Before, Holds, Queue
    <2>4. Arranged(state, read)' = Arranged(state', read')
      BY <1>2, <2>3 DEF Arranged, NoneOfHeadings, Headings, Kind, Last
    <2>5. EndingHeadings(state.chunks, Len(document))'
            = EndingHeadings(state'.chunks, Len(document))
      BY <1>2 DEF EndingHeadings, Headings, Kind
    <2> QED
      BY <1>3, <2>2, <2>3, <2>4, <2>5 DEF OrderInv
  <1>4. CASE Consume
    <2>1. /\ read' = read + 1 /\ read < Len(document) /\ done' = done
          /\ state' = Apply(state, read + 1, Consult(state, read + 1))
      BY <1>4 DEF Consume
    <2>2. read \in Nat /\ read + 1 \in 1 .. Len(document) /\ ~ done
      BY <1>1, <2>1 DEF Place, DocumentTyped
    <2>3. read + 1 \in Ordinals /\ Kind(read + 1) \in PieceKinds
      BY <1>1, <2>2, CostsTyped
    <2>4. Takes(state, state', read + 1)
      BY <1>1, <2>1, <2>3, TakeCases
    <2>5. Unbroken => Arranged(state', read + 1)
      BY <1>1, <2>2, <2>3, <2>4, TakeArranges DEF OrderInv
    <2> QED
      BY <1>3, <2>1, <2>2, <2>5 DEF Arranged
  <1>5. CASE Finish
    <2>1. read = Len(document) /\ ~ done /\ done' = TRUE /\ state' = Finished(state)
      BY <1>5 DEF Finish
    <2>2. read \in Nat
      BY <1>1 DEF Place, DocumentTyped
    <2>3. Unbroken => /\ Ascending(state'.chunks, Queue(state'))
                      /\ EndingHeadings(state'.chunks, read)
      BY <1>1, <2>1, <2>2, FinishArranges DEF OrderInv
    <2> QED
      BY <1>3, <2>1, <2>3
  <1>6. CASE UNCHANGED vars
    <2>1. state' = state /\ read' = read /\ done' = done
      BY <1>6 DEF vars
    <2> QED
      BY <1>3, <2>1 DEF OrderInv
  <1> QED
    BY <1>4, <1>5, <1>6 DEF Next
-----------------------------------------------------------------------------
(* The blocks of a text tile it, but for raw HTML *)

Covers(slice, x) == slice.start <= x /\ x < slice.end

Apart(slices) ==
    /\ \A a \in DOMAIN slices : slices[a].start < slices[a].end
    /\ \A a, b \in DOMAIN slices : a < b => slices[a].end <= slices[b].start

Covered(slices, x) == \E a \in DOMAIN slices : Covers(slices[a], x)

\* Blocks read so far: apart from each other, behind the reader of the tokens,
\* and open at its end while it is inside one.
Traced(s) ==
    /\ Apart(s.blocks)
    /\ \A b \in DOMAIN s.blocks : s.blocks[b].end <= s.at
    /\ \A b \in DOMAIN s.blocks : s.blocks[b].type = "paragraph" =>
          s.blocks[b].end = s.blocks[b].start + Len(s.blocks[b].text)
    /\ s.depth > 0 => /\ s.blocks # <<>>
                      /\ s.blocks[Len(s.blocks)].end = s.at
                      /\ s.blocks[Len(s.blocks)].type \in Absorbing

Skipped(s, token, x) == s.depth <= 0 /\ token.type = "html_block" /\ x = s.at

LEMMA WidthOfToken ==
    ASSUME NEW token \in Tokens
    PROVE  /\ token.type \in DOMAIN BlockType => Width(token) > 0
           /\ token.type = "html_block" => Width(token) = 1
           /\ token.type \in CloseTypes => Width(token) = 0
           /\ token.type \in DOMAIN BlockType \cup CloseTypes \cup {"html_block"}
           /\ token.type = "paragraph_open" => token.text # <<>>
           /\ token.text # <<>> => token.type = "paragraph_open" /\ Width(token) = Len(token.text)
           /\ "html_block" \notin DOMAIN BlockType /\ "html_block" \notin CloseTypes
           /\ DOMAIN BlockType \cap CloseTypes = {}
  <1>1. /\ token.type \in DOMAIN BlockType \cup CloseTypes \cup {"html_block"}
        /\ token.type = "paragraph_open" <=> token.text # <<>>
        /\ token.text \in Seq(Prose) \cup {<<"image">>}
    BY DEF Tokens
  <1>2. /\ "html_block" \notin DOMAIN BlockType /\ "html_block" \notin CloseTypes
        /\ DOMAIN BlockType \cap CloseTypes = {}
        /\ "paragraph_open" \notin CloseTypes
        /\ "html_block" # "paragraph_open"
    BY DEF BlockType, CloseTypes
  <1>3. token.text # <<>> => Len(token.text) \in Nat /\ Len(token.text) > 0
    BY <1>1, EmptySeq
  <1> QED
    BY <1>1, <1>2, <1>3 DEF Width

LEMMA TraceGrows ==
    ASSUME NEW s \in ParseStates, NEW token \in Tokens, Traced(s), ~ (s.depth > 0)
    PROVE  LET t == ParseToken(s, token)
           IN  /\ Traced(t)
               /\ \A x \in Nat : Covered(s.blocks, x) => Covered(t.blocks, x)
               /\ \A x \in Nat : s.at <= x /\ x < t.at =>
                     Covered(t.blocks, x) \/ Skipped(s, token, x)
  <1> DEFINE t == ParseToken(s, token)
             end == s.at + Width(token)
             opens == token.type \in DOMAIN BlockType
             type == IF token.text = <<"image">> THEN "image" ELSE BlockType[token.type]
             block == [type |-> type, text |-> token.text, start |-> s.at, end |-> end]
             blocks == IF opens THEN Append(s.blocks, block) ELSE s.blocks
             depth == s.depth + IF token.type \in CloseTypes THEN -1
                                ELSE IF opens /\ type \in Absorbing THEN 1 ELSE 0
             m == Len(s.blocks)
  <1>1. t.blocks = blocks /\ t.depth = depth /\ t.at = end
    BY DEF ParseToken
  <1>2. /\ s.blocks \in Seq(Blocks) /\ s.depth \in Int /\ s.at \in Nat
        /\ m \in Nat /\ DOMAIN s.blocks = 1 .. m
    BY DEF ParseStates
  <1>3. Width(token) \in Nat /\ end \in Nat /\ s.at <= end
    BY <1>2, TextOfToken
  <1>4. depth > 0 => opens /\ type \in Absorbing
    BY <1>2
  <1>5. opens => block \in Blocks
    BY <1>2, <1>3, TextOfToken, TypeOfBlock DEF Blocks, Types
  <1>6. CASE opens
    <2>1. /\ block.start = s.at /\ block.end = end /\ block.type = type /\ block.text = token.text
          /\ s.at < end
      BY <1>2, <1>3, <1>6, WidthOfToken
    <2>2. type = "paragraph" => end = s.at + Len(token.text)
      <3> SUFFICES ASSUME type = "paragraph" PROVE Width(token) = Len(token.text)
        OBVIOUS
      <3>1. token.type = "paragraph_open"
        BY <1>6, TypeOfBlock DEF Types
      <3> QED
        BY <3>1, WidthOfToken
    <2>3. t.blocks = Append(s.blocks, block)
      BY <1>1, <1>6
    <2>4. depth > 0 => block.type \in Absorbing
      BY <1>4, <2>1
    <2> HIDE DEF t, block, end, depth, opens, type
    <2>5. /\ DOMAIN t.blocks = 1 .. m + 1 /\ Len(t.blocks) = m + 1 /\ t.blocks # <<>>
          /\ t.blocks[m + 1] = block /\ \A b \in 1 .. m : t.blocks[b] = s.blocks[b]
      BY <1>2, <1>5, <1>6, <2>3, AppendIsLonger
    <2> HIDE DEF m
    <2>6. /\ \A b \in 1 .. m + 1 : b \in 1 .. m \/ b = m + 1
          /\ 1 .. m \subseteq 1 .. m + 1 /\ m + 1 \in 1 .. m + 1
      BY <1>2
    <2>7. \A b \in 1 .. m : /\ s.blocks[b].start \in Nat /\ s.blocks[b].end \in Nat
                            /\ s.blocks[b].start < s.blocks[b].end /\ s.blocks[b].end <= s.at
      <3> SUFFICES ASSUME NEW b \in 1 .. m
                   PROVE  /\ s.blocks[b].start \in Nat /\ s.blocks[b].end \in Nat
                          /\ s.blocks[b].start < s.blocks[b].end /\ s.blocks[b].end <= s.at
        OBVIOUS
      <3>1. s.blocks[b] \in Blocks
        BY <1>2
      <3>2. s.blocks[b].start \in Nat /\ s.blocks[b].end \in Nat
        BY <3>1 DEF Blocks
      <3> QED
        BY <1>2, <3>2 DEF Traced, Apart
    <2>8. ASSUME NEW a \in 1 .. m + 1
          PROVE  t.blocks[a].start < t.blocks[a].end /\ t.blocks[a].end <= end
      <3>1. CASE a \in 1 .. m
        <4>1. t.blocks[a] = s.blocks[a]
          BY <2>5, <3>1
        <4> QED
          BY <1>2, <1>3, <2>7, <3>1, <4>1
      <3>2. CASE a = m + 1
        BY <1>3, <2>1, <2>5, <3>2
      <3> QED
        BY <2>6, <3>1, <3>2
    <2>9. ASSUME NEW a \in 1 .. m + 1, NEW b \in 1 .. m + 1, a < b
          PROVE  t.blocks[a].end <= t.blocks[b].start
      <3>1. a \in 1 .. m
        BY <1>2, <2>9
      <3>2. CASE b \in 1 .. m
        BY <1>2, <2>5, <2>9, <3>1, <3>2 DEF Traced, Apart
      <3>3. CASE b = m + 1
        BY <2>1, <2>5, <2>7, <3>1, <3>3
      <3> QED
        BY <2>6, <3>2, <3>3
    <2>10. ASSUME NEW b \in 1 .. m + 1, t.blocks[b].type = "paragraph"
           PROVE  t.blocks[b].end = t.blocks[b].start + Len(t.blocks[b].text)
      <3>1. CASE b \in 1 .. m
        BY <1>2, <2>5, <2>10, <3>1 DEF Traced
      <3>2. CASE b = m + 1
        BY <2>1, <2>2, <2>5, <2>10, <3>2
      <3> QED
        BY <2>6, <3>1, <3>2
    <2>11. Apart(t.blocks)
      BY <2>5, <2>8, <2>9 DEF Apart
    <2>12. Traced(t)
      BY <1>1, <2>1, <2>4, <2>5, <2>8, <2>10, <2>11 DEF Traced
    <2>13. \A x \in Nat : Covered(s.blocks, x) => Covered(t.blocks, x)
      BY <1>2, <2>5, <2>6 DEF Covered
    <2>14. \A x \in Nat : s.at <= x /\ x < end => Covered(t.blocks, x)
      BY <2>1, <2>5, <2>6 DEF Covered, Covers
    <2> QED
      BY <1>1, <2>12, <2>13, <2>14 DEF t
  <1>7. CASE ~ opens
    <2>1. t.blocks = s.blocks
      BY <1>1, <1>7
    <2>2. ~ (t.depth > 0)
      BY <1>1, <1>4, <1>7
    <2> HIDE DEF t, depth
    <2>3. \A b \in 1 .. m : s.blocks[b].end \in Nat /\ s.blocks[b].end <= s.at
      BY <1>2 DEF Traced, Blocks
    <2>4. \A b \in 1 .. m : t.blocks[b].end <= t.at
      BY <1>1, <1>2, <1>3, <2>1, <2>3
    <2>5. Traced(t)
      BY <1>2, <2>1, <2>2, <2>4 DEF Traced
    <2>6. ASSUME NEW x \in Nat, s.at <= x, x < t.at
          PROVE  Skipped(s, token, x)
      <3>1. token.type \in CloseTypes \/ token.type = "html_block"
        BY <1>7, WidthOfToken
      <3>2. Width(token) # 0
        BY <1>1, <1>2, <1>3, <2>6
      <3>3. token.type = "html_block" /\ Width(token) = 1
        BY <3>1, <3>2, WidthOfToken
      <3>4. x = s.at
        BY <1>1, <1>2, <2>6, <3>3
      <3> QED
        BY <1>2, <3>3, <3>4 DEF Skipped
    <2> QED
      BY <2>1, <2>5, <2>6 DEF t
  <1> QED
    BY <1>6, <1>7

LEMMA TraceExtends ==
    ASSUME NEW s \in ParseStates, NEW token \in Tokens, Traced(s), s.depth > 0
    PROVE  LET t == ParseToken(s, token)
           IN  /\ Traced(t)
               /\ \A x \in Nat : Covered(s.blocks, x) => Covered(t.blocks, x)
               /\ \A x \in Nat : s.at <= x /\ x < t.at => Covered(t.blocks, x)
  <1> DEFINE t == ParseToken(s, token)
             end == s.at + Width(token)
             m == Len(s.blocks)
             last == Last(s.blocks)
             longer == [last EXCEPT !.end = end]
  <1>1. t.blocks = Append(Front(s.blocks), longer) /\ t.at = end
    BY DEF ParseToken
  <1>2. /\ s.blocks \in Seq(Blocks) /\ s.depth \in Int /\ s.at \in Nat
        /\ m \in Nat /\ DOMAIN s.blocks = 1 .. m /\ s.blocks # <<>> /\ m \in 1 .. m
    <2>1. s.blocks \in Seq(Blocks) /\ s.depth \in Int /\ s.at \in Nat
          /\ s.blocks # <<>>
      BY DEF ParseStates
    <2> QED
      BY <2>1, EmptySeq
  <1>3. end \in Nat /\ s.at <= end
    BY <1>2, TextOfToken
  <1>4. last = s.blocks[m] /\ last \in Blocks
    BY <1>2 DEF Last
  <1> HIDE DEF t, end, last
  <1>5. longer \in Blocks /\ longer.start = last.start /\ longer.end = end
        /\ longer.type = last.type
    BY <1>3, <1>4 DEF Blocks
  <1>6. last.end = s.at /\ last.type \in Absorbing /\ last.type # "paragraph"
        /\ last.start < last.end /\ last.start \in Nat
    BY <1>2, <1>4 DEF Traced, Apart, Absorbing, Blocks
  <1> HIDE DEF longer
  <1>7. /\ Len(t.blocks) = m /\ t.blocks[m] = longer /\ t.blocks \in Seq(Blocks)
        /\ \A b \in 1 .. m - 1 : t.blocks[b] = s.blocks[b]
    <2> DEFINE items == s.blocks
    <2>1. items \in Seq(Blocks) /\ items # <<>> /\ t.blocks = Append(Front(items), longer)
          /\ m = Len(items)
      BY <1>1, <1>2
    <2> HIDE DEF items, m
    <2>2. /\ Append(Front(items), longer) \in Seq(Blocks)
          /\ Len(Append(Front(items), longer)) = Len(items)
          /\ Append(Front(items), longer)[Len(items)] = longer
          /\ \A b \in 1 .. Len(items) - 1 : Append(Front(items), longer)[b] = items[b]
      <3>1. longer \in Blocks
        BY <1>5
      <3> HIDE DEF last
      <3> QED
        BY ONLY <2>1, <3>1, LastReplaced
    <2> QED
      BY <2>1, <2>2 DEF items
  <1>8. DOMAIN t.blocks = 1 .. m /\ t.blocks # <<>>
    BY <1>2, <1>7, EmptySeq
  <1> HIDE DEF m
  <1>9. \A b \in 1 .. m : b \in 1 .. m - 1 \/ b = m
    BY <1>2
  <1>10. 1 .. m - 1 \subseteq 1 .. m
    BY <1>2
  <1>11. \A b \in 1 .. m - 1 : /\ s.blocks[b].start \in Nat /\ s.blocks[b].end \in Nat
                               /\ s.blocks[b].start < s.blocks[b].end /\ s.blocks[b].end <= s.at
                               /\ s.blocks[b].end <= last.start
    <2> SUFFICES ASSUME NEW b \in 1 .. m - 1
                 PROVE  /\ s.blocks[b].start \in Nat /\ s.blocks[b].end \in Nat
                        /\ s.blocks[b].start < s.blocks[b].end /\ s.blocks[b].end <= s.at
                        /\ s.blocks[b].end <= last.start
      OBVIOUS
    <2>1. b \in 1 .. m /\ b < m /\ s.blocks[b] \in Blocks
      BY <1>2
    <2> QED
      BY <1>2, <1>4, <2>1 DEF Traced, Apart, Blocks
  <1>12. \A b \in 1 .. m : t.blocks[b].start < t.blocks[b].end /\ t.blocks[b].end <= end
    BY <1>2, <1>3, <1>5, <1>6, <1>7, <1>9, <1>11
  <1>13. ASSUME NEW a \in 1 .. m, NEW b \in 1 .. m, a < b
         PROVE  t.blocks[a].end <= t.blocks[b].start
    <2>1. a \in 1 .. m - 1
      BY <1>2, <1>13
    <2>2. CASE b \in 1 .. m - 1
      BY <1>2, <1>7, <1>10, <1>13, <2>1, <2>2 DEF Traced, Apart
    <2>3. CASE b = m
      BY <1>5, <1>7, <1>11, <2>1, <2>3
    <2> QED
      BY <1>9, <2>2, <2>3
  <1>14. ASSUME NEW b \in 1 .. m, t.blocks[b].type = "paragraph"
         PROVE  t.blocks[b].end = t.blocks[b].start + Len(t.blocks[b].text)
    <2>1. b # m
      BY <1>5, <1>6, <1>7, <1>14
    <2>2. b \in 1 .. m - 1
      BY <1>9, <2>1
    <2> QED
      BY <1>2, <1>7, <1>10, <1>14, <2>2 DEF Traced
  <1>15. Apart(t.blocks)
    BY <1>8, <1>12, <1>13 DEF Apart
  <1>16. Traced(t)
    BY <1>1, <1>5, <1>6, <1>7, <1>8, <1>12, <1>14, <1>15 DEF Traced
  <1>17. ASSUME NEW x \in Nat, Covered(s.blocks, x) PROVE Covered(t.blocks, x)
    <2>1. PICK b \in 1 .. m : Covers(s.blocks[b], x)
      BY <1>2, <1>17 DEF Covered
    <2>2. CASE b = m
      <3>1. Covers(t.blocks[m], x)
        BY <1>2, <1>3, <1>4, <1>5, <1>6, <1>7, <2>1, <2>2 DEF Covers
      <3> QED
        BY <1>2, <1>8, <3>1 DEF Covered
    <2>3. CASE b \in 1 .. m - 1
      BY <1>7, <1>8, <2>1, <2>3 DEF Covered
    <2> QED
      BY <1>9, <2>2, <2>3
  <1>18. ASSUME NEW x \in Nat, s.at <= x, x < t.at PROVE Covered(t.blocks, x)
    <2>1. Covers(t.blocks[m], x)
      BY <1>1, <1>2, <1>3, <1>5, <1>6, <1>7, <1>18 DEF Covers
    <2> QED
      BY <1>2, <1>8, <2>1 DEF Covered
  <1> QED
    BY <1>16, <1>17, <1>18 DEF t

LEMMA TraceStarts == Traced(NothingParsed)
  <1>1. NothingParsed.blocks = <<>> /\ NothingParsed.depth = 0
    BY DEF NothingParsed
  <1>2. DOMAIN NothingParsed.blocks = {}
    BY <1>1
  <1> QED
    BY <1>1, <1>2 DEF Traced, Apart

\* Runs that do the same go the same way.
LEMMA RunsAgree ==
    ASSUME NEW ST, NEW base, NEW n \in Nat, NEW m \in 0 .. n, NEW F, NEW G, NEW g, NEW h,
           IsRun(g, F, ST, base, n), IsRun(h, G, ST, base, m),
           \A i \in 1 .. m : G[i] = F[i]
    PROVE  h[m] = g[m]
  <1> DEFINE S == {i \in Nat : i <= m => h[i] = g[i]}
  <1>1. 0 \in S
    BY DEF IsRun
  <1>2. ASSUME NEW i \in Nat, i \in S PROVE i + 1 \in S
    <2> SUFFICES ASSUME i + 1 <= m PROVE h[i + 1] = g[i + 1]
      OBVIOUS
    <2>1. /\ h[i] = g[i] /\ i + 1 \in 1 .. m /\ i + 1 \in 1 .. n /\ (i + 1) - 1 = i
      BY <1>2
    <2> QED
      BY <2>1 DEF IsRun
  <1> HIDE DEF S
  <1>3. m \in S
    BY <1>1, <1>2, SetInduction
  <1> QED
    BY <1>3 DEF S

\* Where a token stands is where the parse of what precedes it ends.
LEMMA PrefixParsed ==
    ASSUME NEW tokens \in Seq(Tokens), NEW h, NEW k \in 0 .. Len(tokens),
           IsRun(h, Parsing(tokens), ParseStates, NothingParsed, Len(tokens))
    PROVE  h[k] = Parsed(SubSeq(tokens, 1, k))
  <1> DEFINE prefix == SubSeq(tokens, 1, k)
             n == Len(tokens)
  <1>1. n \in Nat /\ k \in Nat /\ k <= n /\ \A i \in 1 .. k : tokens[i] \in Tokens
    OBVIOUS
  <1>2. /\ prefix \in Seq(Tokens)
        /\ Len(prefix) = k
        /\ \A i \in 1 .. k : prefix[i] = tokens[i]
    <2>1. /\ SubSeq(tokens, 1, k) \in Seq(Tokens)
          /\ Len(SubSeq(tokens, 1, k)) = IF 1 <= k THEN k - 1 + 1 ELSE 0
          /\ \A i \in 1 .. k - 1 + 1 : SubSeq(tokens, 1, k)[i] = tokens[1 + i - 1]
      BY <1>1, SubSeqProperties
    <2> QED
      BY <1>1, <2>1
  <1> HIDE DEF prefix
  <1>3. RunsTo(Parsing(prefix), ParseStates, NothingParsed, k, Parsed(prefix))
    BY <1>2, ParsedRuns
  <1>4. PICK g : IsRun(g, Parsing(prefix), ParseStates, NothingParsed, k) /\ g[k] = Parsed(prefix)
    BY <1>3 DEF RunsTo
  <1>5. \A i \in 1 .. k : Parsing(prefix)[i] = Parsing(tokens)[i]
    BY <1>1, <1>2 DEF Parsing
  <1> DEFINE F == Parsing(tokens)
             G == Parsing(prefix)
  <1> HIDE DEF F, G, n
  <1>6. /\ n \in Nat /\ k \in 0 .. n /\ IsRun(h, F, ParseStates, NothingParsed, n)
        /\ IsRun(g, G, ParseStates, NothingParsed, k) /\ \A i \in 1 .. k : G[i] = F[i]
    BY <1>1, <1>4, <1>5 DEF F, G, n
  <1>7. g[k] = h[k]
    BY ONLY <1>6, RunsAgree
  <1> QED
    BY <1>4, <1>7 DEF prefix

\* Raw HTML outside of every block.
RawOf(tokens) ==
    {Parsed(SubSeq(tokens, 1, i - 1)).at :
        i \in {i \in DOMAIN tokens : tokens[i].type = "html_block"}}

LEMMA TextIsTiled ==
    ASSUME NEW tokens \in Seq(Tokens)
    PROVE  LET parsed == Parsed(tokens)
           IN  /\ parsed.blocks \in Seq(Blocks) /\ parsed.at \in Nat /\ Traced(parsed)
               /\ \A x \in Nat : x < parsed.at => Covered(parsed.blocks, x) \/ x \in RawOf(tokens)
  <1> DEFINE n == Len(tokens)
             F == Parsing(tokens)
  <1>1. n \in Nat /\ DOMAIN tokens = 1 .. n /\ \A i \in 1 .. n : tokens[i] \in Tokens
    OBVIOUS
  <1>2. RunsTo(F, ParseStates, NothingParsed, n, Parsed(tokens))
    BY ParsedRuns
  <1>3. PICK h : IsRun(h, F, ParseStates, NothingParsed, n) /\ h[n] = Parsed(tokens)
    BY <1>2 DEF RunsTo
  <1>4. /\ h[0] = NothingParsed
        /\ \A k \in 0 .. n : h[k] \in ParseStates
        /\ \A i \in 1 .. n : h[i] = ParseToken(h[i - 1], tokens[i])
    <2>1. /\ h[0] = NothingParsed
          /\ \A k \in 0 .. n : h[k] \in ParseStates
          /\ \A i \in 1 .. n : h[i] = F[i][h[i - 1]]
      BY <1>3 DEF IsRun
    <2>2. \A i \in 1 .. n : i - 1 \in 0 .. n
      BY <1>1
    <2>3. \A i \in 1 .. n : \A v \in ParseStates : F[i][v] = ParseToken(v, tokens[i])
      BY DEF Parsing
    <2> QED
      BY <2>1, <2>2, <2>3
  <1>5. \A k \in 0 .. n : h[k] = Parsed(SubSeq(tokens, 1, k))
    BY <1>3, PrefixParsed
  <1> HIDE DEF n, F
  <1> DEFINE Good(s) == /\ Traced(s)
                        /\ \A x \in Nat : x < s.at => Covered(s.blocks, x) \/ x \in RawOf(tokens)
             S == {k \in Nat : k <= n => Good(h[k])}
  <1>6. 0 \in S
    <2>1. h[0].at = 0
      BY <1>4 DEF NothingParsed
    <2> QED
      BY <1>4, <2>1, TraceStarts
  <1>7. ASSUME NEW k \in Nat, k \in S PROVE k + 1 \in S
    <2> SUFFICES ASSUME k + 1 <= n PROVE Good(h[k + 1])
      OBVIOUS
    <2> DEFINE i == k + 1
               s == h[k]
               t == h[i]
    <2>1. /\ Good(s) /\ i \in 1 .. n /\ i - 1 = k /\ k \in 0 .. n /\ i \in 0 .. n
      BY <1>1, <1>7
    <2>2. s \in ParseStates /\ tokens[i] \in Tokens /\ t = ParseToken(s, tokens[i])
      BY <1>1, <1>4, <2>1
    <2>3. s.at = Parsed(SubSeq(tokens, 1, i - 1)).at
      BY <1>5, <2>1
    <2>4. tokens[i].type = "html_block" => s.at \in RawOf(tokens)
      BY <1>1, <2>1, <2>3 DEF RawOf
    <2> HIDE DEF i, s, t
    <2>5. /\ Traced(t)
          /\ \A x \in Nat : Covered(s.blocks, x) => Covered(t.blocks, x)
          /\ \A x \in Nat : s.at <= x /\ x < t.at =>
                Covered(t.blocks, x) \/ Skipped(s, tokens[i], x)
      <3>1. CASE s.depth > 0
        BY <2>1, <2>2, <3>1, TraceExtends
      <3>2. CASE ~ (s.depth > 0)
        BY <2>1, <2>2, <3>2, TraceGrows
      <3> QED
        BY <3>1, <3>2
    <2>6. ASSUME NEW x \in Nat, x < t.at PROVE Covered(t.blocks, x) \/ x \in RawOf(tokens)
      <3>1. s.at \in Nat
        BY <2>2 DEF ParseStates
      <3>2. CASE x < s.at
        BY <2>1, <2>5, <3>2
      <3>3. CASE s.at <= x
        BY <2>4, <2>5, <2>6, <3>3 DEF Skipped
      <3> QED
        BY <3>1, <3>2, <3>3
    <2>7. Good(t)
      BY <2>5, <2>6
    <2> QED
      BY <2>7 DEF t, i
  <1> HIDE DEF S, Good
  <1>8. Good(h[n]) /\ h[n] \in ParseStates
    <2>1. n \in S
      BY <1>1, <1>6, <1>7, SetInduction
    <2> QED
      BY <1>1, <1>4, <2>1 DEF S
  <1>9. h[n].blocks \in Seq(Blocks) /\ h[n].at \in Nat
    BY <1>8 DEF ParseStates
  <1> QED
    BY <1>3, <1>8, <1>9 DEF Good

-----------------------------------------------------------------------------
(* The pieces of a text tile what its blocks cover *)

\* Where what block b became ends.
Reach(blocks, b) == IF blocks[b].type = "list_item" THEN blocks[RunEnd(blocks, b)].end
                    ELSE blocks[b].end

LEMMA OnePieceApart ==
    ASSUME NEW p \in Pieces, p.start < p.end
    PROVE  /\ Apart(<<p>>)
           /\ \A y : Holds(<<p>>, y) <=> y = p
           /\ \A x : Covered(<<p>>, x) <=> Covers(p, x)
  <1> DEFINE one == <<p>>
  <1>1. DOMAIN one = {1} /\ one[1] = p
    OBVIOUS
  <1> HIDE DEF one
  <1>2. Apart(one) /\ (\A y : Holds(one, y) <=> y = p) /\ (\A x : Covered(one, x) <=> Covers(p, x))
    BY <1>1 DEF Apart, Holds, Covered
  <1> QED
    BY <1>2 DEF one

LEMMA BlockTyped ==
    ASSUME NEW blocks \in Seq(Blocks), NEW b \in 1 .. Len(blocks)
    PROVE  /\ blocks[b].type \in Types /\ blocks[b].start \in Nat /\ blocks[b].end \in Nat
           /\ blocks[b].type = "paragraph" => blocks[b].text \in Seq(Prose)
  BY DEF Blocks

\* A block becomes pieces that tile it, one piece with the items that follow it,
\* or no piece at all.
LEMMA PartTiles ==
    ASSUME NEW s, Traced(s), NEW blocks \in Seq(Blocks), blocks = s.blocks,
           NEW b \in 1 .. Len(blocks),
           ~ (blocks[b].type = "list_item" /\ InsideRun(blocks, b))
    PROVE  LET part == PiecesFrom(blocks, b)
           IN  /\ Apart(part)
               /\ \A p : Holds(part, p) =>
                     blocks[b].start <= p.start /\ p.end <= Reach(blocks, b)
               /\ \A x \in Nat : blocks[b].start <= x /\ x < Reach(blocks, b) => Covered(part, x)
  <1> DEFINE part == PiecesFrom(blocks, b)
             lo == blocks[b].start
             hi == Reach(blocks, b)
             n == Len(blocks)
  <1>1. /\ blocks[b].type \in Types /\ lo \in Nat /\ blocks[b].end \in Nat /\ lo < blocks[b].end
        /\ blocks[b].type = "paragraph" => blocks[b].text \in Seq(Prose)
    <2>1. b \in DOMAIN blocks
      OBVIOUS
    <2>2. lo < blocks[b].end
      BY <2>1 DEF Traced, Apart
    <2> QED
      BY <2>2, BlockTyped
  <1>2. CASE blocks[b].type = "paragraph"
    <2> DEFINE text == blocks[b].text
               m == Len(text)
    <2>1. text \in Seq(Prose) /\ m \in Nat /\ DOMAIN text = 1 .. m
      BY <1>1, <1>2
    <2>2. hi = lo + m
      BY <1>2 DEF Reach, Traced
    <2>3. part = [i \in 1 .. m |-> [kind |-> text[i], start |-> lo + i - 1, end |-> lo + i]]
      BY <1>2, <2>1 DEF PiecesFrom, SentencePieces, Piece
    <2>4. DOMAIN part = 1 .. m /\ \A i \in 1 .. m : part[i].start = lo + i - 1 /\ part[i].end = lo + i
      BY <2>3
    <2> HIDE DEF part, lo, hi, m, text
    <2>5. Apart(part)
      BY <1>1, <2>1, <2>4 DEF Apart
    <2>6. ASSUME NEW p, Holds(part, p) PROVE lo <= p.start /\ p.end <= hi
      <3>1. PICK i \in 1 .. m : p = part[i]
        BY <2>4, <2>6 DEF Holds
      <3> QED
        BY <1>1, <2>1, <2>2, <2>4, <3>1
    <2>7. ASSUME NEW x \in Nat, lo <= x, x < hi PROVE Covered(part, x)
      <3> DEFINE k == x - lo + 1
      <3>1. k \in 1 .. m /\ lo + k - 1 = x /\ lo + k = x + 1
        BY <1>1, <2>1, <2>2, <2>7
      <3> HIDE DEF k
      <3>2. part[k].start = x /\ part[k].end = x + 1
        BY <2>4, <3>1
      <3>3. Covers(part[k], x)
        BY <3>2 DEF Covers
      <3> QED
        BY <2>4, <3>1, <3>3 DEF Covered
    <2> QED
      BY <2>5, <2>6, <2>7 DEF part, lo, hi
  <1>3. ASSUME NEW p \in Pieces, part = <<p>>, p.start = lo, p.end = hi, lo < hi, hi \in Nat
        PROVE  /\ Apart(part)
               /\ \A q : Holds(part, q) => lo <= q.start /\ q.end <= hi
               /\ \A x \in Nat : lo <= x /\ x < hi => Covered(part, x)
    <2> HIDE DEF part, lo, hi
    <2>1. /\ Apart(part)
          /\ \A y : Holds(part, y) <=> y = p
          /\ \A x : Covered(part, x) <=> Covers(p, x)
      BY <1>3, OnePieceApart
    <2> QED
      BY <1>1, <1>3, <2>1 DEF Covers
  <1>4. CASE blocks[b].type = "list_item"
    <2> DEFINE e == RunEnd(blocks, b)
    <2>1. e \in b .. n /\ hi = blocks[e].end
      BY <1>4, RunEnds DEF Reach
    <2>2. e \in 1 .. n /\ n \in Nat /\ (b < e \/ b = e)
      BY <2>1
    <2>3. hi \in Nat /\ lo < hi
      <3>1. blocks[e].end \in Nat /\ blocks[e].start \in Nat /\ blocks[e].start < blocks[e].end
        <4>1. blocks[e].start < blocks[e].end
          BY <2>2 DEF Traced, Apart
        <4> HIDE DEF e
        <4> QED
          BY <2>2, <4>1, BlockTyped
      <3>2. CASE b = e
        BY <1>1, <2>1, <3>2
      <3>3. CASE b < e
        <4>1. blocks[b].end <= blocks[e].start
          BY <2>2, <3>3 DEF Traced, Apart
        <4> HIDE DEF e
        <4> QED
          BY <1>1, <2>1, <3>1, <4>1
      <3> QED
        BY <2>2, <3>2, <3>3
    <2> DEFINE p == Piece("block", lo, hi)
    <2>4. part = <<p>>
      BY <1>4, <2>1 DEF PiecesFrom
    <2>5. p \in Pieces /\ p.start = lo /\ p.end = hi
      BY <1>1, <2>3 DEF Piece, Pieces, PieceKinds
    <2> HIDE DEF p, part, lo, hi, e
    <2>6. /\ Apart(part)
          /\ \A q : Holds(part, q) => lo <= q.start /\ q.end <= hi
          /\ \A x \in Nat : lo <= x /\ x < hi => Covered(part, x)
      BY <1>3, <2>3, <2>4, <2>5
    <2> QED
      BY <2>6 DEF part, lo, hi
  <1>5. CASE blocks[b].type \notin {"paragraph", "list_item"}
    <2> DEFINE p == BlockPiece(blocks[b])
    <2>1. part = <<p>> /\ hi = blocks[b].end
      BY <1>5 DEF PiecesFrom, Reach
    <2>2. p \in Pieces /\ p.start = lo /\ p.end = hi
      BY <1>1, <2>1 DEF BlockPiece, Piece, Pieces, PieceKinds
    <2>3. hi \in Nat /\ lo < hi
      BY <1>1, <2>1
    <2> HIDE DEF p, part, lo, hi
    <2>4. /\ Apart(part)
          /\ \A q : Holds(part, q) => lo <= q.start /\ q.end <= hi
          /\ \A x \in Nat : lo <= x /\ x < hi => Covered(part, x)
      BY <1>3, <2>1, <2>2, <2>3
    <2> QED
      BY <2>4 DEF part, lo, hi
  <1> QED
    BY <1>2, <1>4, <1>5

LEMMA PartOfRun ==
    ASSUME NEW blocks, NEW b, blocks[b].type = "list_item", InsideRun(blocks, b)
    PROVE  PiecesFrom(blocks, b) = <<>>
  BY DEF PiecesFrom

\* What one block became ends before the next block that became something.
LEMMA PartsFollow ==
    ASSUME NEW s, Traced(s), NEW blocks \in Seq(Blocks), blocks = s.blocks,
           NEW b \in 1 .. Len(blocks), NEW c \in 1 .. Len(blocks), b < c,
           ~ (blocks[c].type = "list_item" /\ InsideRun(blocks, c))
    PROVE  Reach(blocks, b) <= blocks[c].start
  <1>1. CASE blocks[b].type = "list_item"
    <2> DEFINE e == RunEnd(blocks, b)
    <2>1. e \in b .. Len(blocks) /\ \A i \in b .. e : blocks[i].type = "list_item"
      BY <1>1, RunEnds
    <2>2. Len(blocks) \in Nat
      OBVIOUS
    <2> HIDE DEF e
    <2>3. e < c
      <3> SUFFICES ASSUME c <= e PROVE FALSE
        BY <2>1, <2>2
      <3>1. c \in b .. e /\ c - 1 \in b .. e /\ c > 1
        BY <2>1, <2>2
      <3> QED
        BY <2>1, <3>1 DEF InsideRun
    <2>4. e \in DOMAIN blocks /\ c \in DOMAIN blocks
      BY <2>1, <2>2
    <2>5. blocks[e].end <= blocks[c].start
      BY <2>3, <2>4 DEF Traced, Apart
    <2> QED
      BY <1>1, <2>5 DEF Reach, e
  <1>2. CASE blocks[b].type # "list_item"
    BY <1>2 DEF Reach, Traced, Apart
  <1> QED
    BY <1>1, <1>2

\* A block that became nothing is inside the piece of the first of its run.
LEMMA RunStarts ==
    ASSUME NEW blocks \in Seq(Blocks), NEW b \in 1 .. Len(blocks), blocks[b].type = "list_item"
    PROVE  \E a \in 1 .. b : /\ blocks[a].type = "list_item" /\ ~ InsideRun(blocks, a)
                             /\ b <= RunEnd(blocks, a)
  <1> DEFINE T == {a \in 1 .. b : \A i \in a .. b : blocks[i].type = "list_item"}
             n == Len(blocks)
  <1>1. b \in Nat /\ n \in Nat /\ b <= n
    OBVIOUS
  <1>2. T \in SUBSET Nat /\ T # {}
    <2>1. \A i \in b .. b : i = b
      OBVIOUS
    <2>2. b \in T
      BY <2>1
    <2> QED
      BY <2>2
  <1> HIDE DEF T
  <1>3. PICK a \in T : \A y \in T : a <= y
    BY <1>2, LeastNatural
  <1>4. a \in 1 .. b /\ \A i \in a .. b : blocks[i].type = "list_item"
    BY <1>3 DEF T
  <1>5. blocks[a].type = "list_item"
    BY <1>1, <1>4
  <1>6. ~ InsideRun(blocks, a)
    <2> SUFFICES ASSUME a > 1, blocks[a - 1].type = "list_item" PROVE FALSE
      BY DEF InsideRun
    <2>1. a - 1 \in 1 .. b /\ \A i \in a - 1 .. b : i = a - 1 \/ i \in a .. b
      BY <1>1, <1>4
    <2>2. a - 1 \in T
      BY <1>4, <2>1 DEF T
    <2>3. a <= a - 1
      BY <1>3, <2>2
    <2> QED
      BY <1>4, <2>3
  <1> DEFINE e == RunEnd(blocks, a)
  <1>7. e \in a .. n /\ (e < n => blocks[e + 1].type # "list_item")
    <2>1. a \in 1 .. Len(blocks)
      BY <1>1, <1>4
    <2> QED
      BY <1>5, <2>1, RunEnds
  <1> HIDE DEF e, n
  <1>8. b <= e
    <2> SUFFICES ASSUME e < b PROVE FALSE
      BY <1>1, <1>4, <1>7
    <2>1. e < n /\ e + 1 \in a .. b
      BY <1>1, <1>4, <1>7
    <2> QED
      BY <1>4, <1>7, <2>1
  <1> QED
    BY <1>4, <1>5, <1>6, <1>8 DEF e

Precede(slices, others) ==
    \A u, v : Holds(slices, u) /\ Holds(others, v) => u.end <= v.start

LEMMA CoveredHolds ==
    ASSUME NEW slices, NEW x
    PROVE  Covered(slices, x) <=> \E u : Holds(slices, u) /\ Covers(u, x)
  BY DEF Covered, Holds

LEMMA ApartJoined ==
    ASSUME NEW a \in Seq(Pieces), NEW b \in Seq(Pieces), Apart(a), Apart(b), Precede(a, b)
    PROVE  Apart(a \o b)
  <1> DEFINE joined == a \o b
             la == Len(a)
             lb == Len(b)
  <1>1. la \in Nat /\ lb \in Nat /\ DOMAIN a = 1 .. la /\ DOMAIN b = 1 .. lb
    OBVIOUS
  <1>2. /\ joined \in Seq(Pieces)
        /\ Len(joined) = la + lb
        /\ \A i \in 1 .. la + lb : joined[i] = IF i <= la THEN a[i] ELSE b[i - la]
    BY ConcatProperties
  <1>3. DOMAIN joined = 1 .. la + lb
    BY <1>2
  <1> HIDE DEF joined, la, lb
  <1>4. \A i \in 1 .. la + lb :
           \/ i \in 1 .. la /\ joined[i] = a[i]
           \/ i > la /\ i - la \in 1 .. lb /\ joined[i] = b[i - la]
    BY <1>1, <1>2
  <1>5. \A i \in 1 .. la + lb : joined[i].start < joined[i].end
    BY <1>1, <1>4 DEF Apart
  <1>6. ASSUME NEW i \in 1 .. la + lb, NEW j \in 1 .. la + lb, i < j
        PROVE  joined[i].end <= joined[j].start
    <2>1. CASE i \in 1 .. la /\ j \in 1 .. la
      <3>1. joined[i] = a[i] /\ joined[j] = a[j]
        BY <1>1, <1>4, <2>1
      <3> QED
        BY <1>1, <1>6, <2>1, <3>1 DEF Apart
    <2>2. CASE i \in 1 .. la /\ j > la
      <3>1. joined[i] = a[i] /\ joined[j] = b[j - la] /\ j - la \in 1 .. lb
        BY <1>1, <1>4, <2>2
      <3>2. Holds(a, a[i]) /\ Holds(b, b[j - la])
        BY <1>1, <2>2, <3>1 DEF Holds
      <3> QED
        BY <3>1, <3>2 DEF Precede
    <2>3. CASE i > la /\ j > la
      <3>1. joined[i] = b[i - la] /\ joined[j] = b[j - la]
            /\ i - la \in 1 .. lb /\ j - la \in 1 .. lb /\ i - la < j - la
        BY <1>1, <1>4, <1>6, <2>3
      <3> QED
        BY <1>1, <3>1 DEF Apart
    <2> QED
      BY <1>1, <1>6, <2>1, <2>2, <2>3
  <1>7. Apart(joined)
    BY <1>3, <1>5, <1>6 DEF Apart
  <1> QED
    BY <1>7 DEF joined

LEMMA PartsJoined ==
    ASSUME NEW parts \in Seq(Seq(Pieces)),
           \A b \in DOMAIN parts : Apart(parts[b]),
           \A b, c \in DOMAIN parts : b < c => Precede(parts[b], parts[c])
    PROVE  /\ Apart(FlattenSeq(parts))
           /\ \A b \in DOMAIN parts, x \in Nat :
                 Covered(parts[b], x) => Covered(FlattenSeq(parts), x)
  <1> DEFINE n == Len(parts)
             F == Joining(Pieces, parts)
  <1>1. /\ n \in Nat /\ DOMAIN parts = 1 .. n
        /\ \A b \in 1 .. n : parts[b] \in Seq(Pieces) /\ Apart(parts[b])
        /\ \A b, c \in 1 .. n : b < c => Precede(parts[b], parts[c])
    OBVIOUS
  <1>2. RunsTo(F, Seq(Pieces), <<>>, n, FlattenSeq(parts))
    BY JoinedRuns
  <1>3. PICK h : IsRun(h, F, Seq(Pieces), <<>>, n) /\ h[n] = FlattenSeq(parts)
    BY <1>2 DEF RunsTo
  <1>4. /\ h[0] = <<>>
        /\ \A k \in 0 .. n : h[k] \in Seq(Pieces)
        /\ \A i \in 1 .. n : h[i] = h[i - 1] \o parts[i]
    <2>1. /\ h[0] = <<>>
          /\ \A k \in 0 .. n : h[k] \in Seq(Pieces)
          /\ \A i \in 1 .. n : h[i] = F[i][h[i - 1]]
      BY <1>3 DEF IsRun
    <2>2. \A i \in 1 .. n : i - 1 \in 0 .. n
      BY <1>1
    <2>3. \A i \in 1 .. n : F[i] = [p \in Seq(Pieces) |-> p \o parts[i]]
      BY DEF Joining
    <2> HIDE DEF F, n
    <2>4. \A i \in 1 .. n : \A v \in Seq(Pieces) : F[i][v] = v \o parts[i]
      BY <2>3
    <2> QED
      BY <2>1, <2>2, <2>4
  <1> HIDE DEF n, F
  <1> DEFINE Good(k) == /\ Apart(h[k])
                        /\ \A y : Holds(h[k], y) <=> \E b \in 1 .. k : Holds(parts[b], y)
             S == {k \in Nat : k <= n => Good(k)}
  <1>5. 0 \in S
    <2>1. \A y : ~ Holds(h[0], y)
      BY <1>4, HoldsNone
    <2>2. Apart(h[0])
      <3>1. DOMAIN h[0] = {}
        BY <1>4
      <3> QED
        BY <3>1 DEF Apart
    <2> QED
      BY <2>1, <2>2
  <1>6. ASSUME NEW k \in Nat, k \in S PROVE k + 1 \in S
    <2> SUFFICES ASSUME k + 1 <= n PROVE Good(k + 1)
      OBVIOUS
    <2> DEFINE i == k + 1
               a == h[k]
               b == parts[i]
    <2>1. /\ Good(k) /\ i \in 1 .. n /\ i - 1 = k /\ k \in 0 .. n
          /\ \A c \in 1 .. i : c \in 1 .. k \/ c = i
          /\ \A c \in 1 .. k : c \in 1 .. i /\ c \in 1 .. n /\ c < i
          /\ i \in 1 .. i
      BY <1>1, <1>6
    <2>2. a \in Seq(Pieces) /\ b \in Seq(Pieces) /\ Apart(b) /\ h[i] = a \o b
      BY <1>1, <1>4, <2>1
    <2>3. /\ Apart(a)
          /\ \A y : Holds(a, y) <=> \E c \in 1 .. k : Holds(parts[c], y)
      BY <2>1
    <2> HIDE DEF Good
    <2>4. Precede(a, b)
      BY <1>1, <2>1, <2>3 DEF Precede
    <2> HIDE DEF i, a, b
    <2>5. Apart(h[i])
      BY <2>2, <2>3, <2>4, ApartJoined
    <2>6. \A y : Holds(h[i], y) <=> Holds(a, y) \/ Holds(b, y)
      BY <2>2, HoldsJoined
    <2>7. \A y : Holds(h[i], y) <=> \E c \in 1 .. i : Holds(parts[c], y)
      BY <2>1, <2>3, <2>6 DEF b
    <2>8. Good(i)
      BY <2>5, <2>7 DEF Good
    <2> QED
      BY <2>8 DEF i
  <1> HIDE DEF S
  <1>7. Good(n)
    <2>1. n \in S
      BY <1>1, <1>5, <1>6, SetInduction
    <2> HIDE DEF Good
    <2> QED
      BY <1>1, <2>1 DEF S
  <1>8. ASSUME NEW b \in 1 .. n, NEW x \in Nat, Covered(parts[b], x)
        PROVE  Covered(h[n], x)
    BY <1>7, <1>8, CoveredHolds
  <1> QED
    BY <1>1, <1>3, <1>7, <1>8

LEMMA PiecesTile ==
    ASSUME NEW tokens \in Seq(Tokens)
    PROVE  LET pieces == PiecesOf(tokens)
           IN  /\ pieces \in Seq(Pieces) /\ Apart(pieces)
               /\ \A x \in Nat : x < Parsed(tokens).at => Covered(pieces, x) \/ x \in RawOf(tokens)
  <1> DEFINE s == Parsed(tokens)
             blocks == s.blocks
             parts == [b \in DOMAIN blocks |-> PiecesFrom(blocks, b)]
             n == Len(blocks)
  <1>1. /\ blocks \in Seq(Blocks) /\ Traced(s) /\ blocks = s.blocks
        /\ \A x \in Nat : x < s.at => Covered(blocks, x) \/ x \in RawOf(tokens)
    BY TextIsTiled
  <1>2. PiecesOf(tokens) = FlattenSeq(parts)
    BY DEF PiecesOf, AtomicPieces
  <1> HIDE DEF s, blocks
  <1>3. n \in Nat /\ DOMAIN blocks = 1 .. n
    BY <1>1
  <1>4. /\ parts \in [1 .. n -> Seq(Pieces)]
        /\ DOMAIN parts = 1 .. n /\ \A b \in 1 .. n : parts[b] = PiecesFrom(blocks, b)
    BY <1>1, <1>3, PiecesFromTyped
  <1>5. parts \in Seq(Seq(Pieces))
    BY <1>3, <1>4, SeqDef
  <1> DEFINE Inner(b) == blocks[b].type = "list_item" /\ InsideRun(blocks, b)
  <1>6. \A b \in 1 .. n : Inner(b) => parts[b] = <<>>
    BY <1>4, PartOfRun
  <1> HIDE DEF parts
  <1>7. ASSUME NEW b \in 1 .. n, ~ Inner(b)
        PROVE  /\ Apart(parts[b])
               /\ \A p : Holds(parts[b], p) =>
                     blocks[b].start <= p.start /\ p.end <= Reach(blocks, b)
               /\ \A x \in Nat : blocks[b].start <= x /\ x < Reach(blocks, b)
                                    => Covered(parts[b], x)
    BY <1>1, <1>4, <1>7, PartTiles
  <1>8. \A b \in 1 .. n : Apart(parts[b])
    <2> SUFFICES ASSUME NEW b \in 1 .. n PROVE Apart(parts[b])
      OBVIOUS
    <2>1. CASE Inner(b)
      <3> DEFINE none == <<>>
      <3>1. DOMAIN none = {}
        OBVIOUS
      <3>2. parts[b] = none
        BY <1>6, <2>1
      <3> HIDE DEF none
      <3> QED
        BY <3>1, <3>2 DEF Apart
    <2> QED
      BY <1>7, <2>1
  <1>9. ASSUME NEW b \in 1 .. n, NEW c \in 1 .. n, b < c
        PROVE  Precede(parts[b], parts[c])
    <2> SUFFICES ASSUME NEW u, NEW v, Holds(parts[b], u), Holds(parts[c], v)
                 PROVE  u.end <= v.start
      BY DEF Precede
    <2>1. ~ Inner(b) /\ ~ Inner(c)
      BY <1>6, HoldsNone
    <2>2. u.end <= Reach(blocks, b) /\ blocks[c].start <= v.start
      BY <1>7, <2>1
    <2>3. Reach(blocks, b) <= blocks[c].start
      BY <1>1, <1>9, <2>1, PartsFollow
    <2>4. u \in Pieces /\ v \in Pieces
      <3>1. parts[b] \in Seq(Pieces) /\ parts[c] \in Seq(Pieces)
        BY <1>4
      <3> QED
        BY <3>1 DEF Holds
    <2>5. u.end \in Nat /\ v.start \in Nat /\ blocks[c].start \in Nat /\ Reach(blocks, b) \in Int
      <3>1. Reach(blocks, b) \in Nat
        <4>1. CASE blocks[b].type = "list_item"
          <5>1. RunEnd(blocks, b) \in 1 .. n
            BY <1>1, <1>3, <4>1, RunEnds
          <5> QED
            BY <1>1, <4>1, <5>1, BlockTyped DEF Reach
        <4>2. CASE blocks[b].type # "list_item"
          BY <1>1, <4>2, BlockTyped DEF Reach
        <4> QED
          BY <4>1, <4>2
      <3> QED
        BY <1>1, <2>4, <3>1, BlockTyped DEF Pieces
    <2> QED
      BY <2>2, <2>3, <2>5
  <1>10. ASSUME NEW x \in Nat, Covered(blocks, x)
         PROVE  \E b \in 1 .. n : Covered(parts[b], x)
    <2>1. PICK b \in 1 .. n : Covers(blocks[b], x)
      BY <1>3, <1>10 DEF Covered
    <2>2. CASE blocks[b].type = "list_item"
      <3>1. b \in 1 .. Len(blocks)
        OBVIOUS
      <3>2. PICK a \in 1 .. b : /\ blocks[a].type = "list_item" /\ ~ InsideRun(blocks, a)
                                /\ b <= RunEnd(blocks, a)
        BY <1>1, <2>2, <3>1, RunStarts
      <3> DEFINE e == RunEnd(blocks, a)
      <3>3. a \in 1 .. n /\ a <= b /\ b <= n
        BY <1>3
      <3>4. e \in 1 .. n /\ b <= e
        BY <1>1, <1>3, <3>2, <3>3, RunEnds
      <3>5. Reach(blocks, a) = blocks[e].end
        BY <3>2 DEF Reach
      <3> HIDE DEF e
      <3>6. /\ blocks[a].start \in Nat /\ blocks[b].start \in Nat
            /\ blocks[b].end \in Nat /\ blocks[e].end \in Nat
            /\ blocks[e].start \in Nat /\ blocks[a].end \in Nat
        BY <1>1, <3>3, <3>4, BlockTyped
      <3>7. /\ \A i \in 1 .. n : blocks[i].start < blocks[i].end
            /\ \A i, j \in 1 .. n : i < j => blocks[i].end <= blocks[j].start
        BY <1>1, <1>3 DEF Traced, Apart
      <3>8. blocks[a].start <= blocks[b].start
        <4>1. a = b \/ a < b
          BY <3>3
        <4> QED
          BY <3>3, <3>6, <3>7, <4>1
      <3>9. blocks[b].end <= blocks[e].end
        <4>1. b = e \/ b < e
          BY <3>4
        <4> QED
          BY <3>3, <3>4, <3>6, <3>7, <4>1
      <3>10. blocks[a].start <= x /\ x < Reach(blocks, a)
        BY <2>1, <3>5, <3>6, <3>8, <3>9 DEF Covers
      <3> QED
        BY <1>7, <3>2, <3>3, <3>10
    <2>3. CASE blocks[b].type # "list_item"
      <3>1. blocks[b].start <= x /\ x < Reach(blocks, b)
        BY <2>1, <2>3 DEF Covers, Reach
      <3> QED
        BY <1>7, <2>3, <3>1
    <2> QED
      BY <2>2, <2>3
  <1> HIDE DEF n, Inner
  <1>11. /\ Apart(FlattenSeq(parts))
         /\ \A b \in DOMAIN parts, x \in Nat :
               Covered(parts[b], x) => Covered(FlattenSeq(parts), x)
    BY <1>4, <1>5, <1>8, <1>9, PartsJoined
  <1>12. FlattenSeq(parts) \in Seq(Pieces)
    BY <1>5, JoinedRuns
  <1> QED
    BY <1>1, <1>2, <1>4, <1>10, <1>11, <1>12 DEF s

\* The slice of pieces that follow each other.
LEMMA SliceTiles ==
    ASSUME NEW q \in Seq(Pieces), q # <<>>, Apart(q)
    PROVE  Slice(q) = q[1].start .. q[Len(q)].end - 1
  <1> DEFINE n == Len(q)
             starts == {q[i].start : i \in DOMAIN q}
             first == CHOOSE x \in starts : \A t \in starts : x <= t
             final == CHOOSE x \in starts : \A t \in starts : t <= x
             last == CHOOSE i \in DOMAIN q : q[i].start = final
  <1>1. Slice(q) = first .. q[last].end - 1
    BY DEF Slice
  <1>2. n \in Nat /\ DOMAIN q = 1 .. n /\ 1 \in 1 .. n /\ n \in 1 .. n
    BY EmptySeq
  <1>3. \A i \in 1 .. n : q[i].start \in Nat /\ q[i].end \in Nat /\ q[i].start < q[i].end
    <2> SUFFICES ASSUME NEW i \in 1 .. n
                 PROVE  q[i].start \in Nat /\ q[i].end \in Nat /\ q[i].start < q[i].end
      OBVIOUS
    <2>1. q[i] \in Pieces
      BY <1>2
    <2> QED
      BY <1>2, <2>1 DEF Apart, Pieces
  <1>4. \A i, j \in 1 .. n : i < j => q[i].start < q[j].start
    <2> SUFFICES ASSUME NEW i \in 1 .. n, NEW j \in 1 .. n, i < j
                 PROVE  q[i].start < q[j].start
      OBVIOUS
    <2>1. q[i].end <= q[j].start
      BY <1>2 DEF Apart
    <2> QED
      BY <1>3, <2>1
  <1> HIDE DEF n
  <1>5. \A t \in starts : t \in Nat /\ q[1].start <= t /\ t <= q[n].start
    <2> SUFFICES ASSUME NEW i \in 1 .. n
                 PROVE  q[1].start <= q[i].start /\ q[i].start <= q[n].start
      BY <1>2, <1>3
    <2>1. i = 1 \/ 1 < i
      BY <1>2
    <2>2. i = n \/ i < n
      BY <1>2
    <2> QED
      BY <1>2, <1>3, <1>4, <2>1, <2>2
  <1>6. q[1].start \in starts /\ q[n].start \in starts
    BY <1>2
  <1> HIDE DEF starts
  <1>7. first \in starts /\ \A t \in starts : first <= t
    BY <1>5, <1>6
  <1>8. final \in starts /\ \A t \in starts : t <= final
    BY <1>5, <1>6
  <1> HIDE DEF first, final
  <1>9. first = q[1].start /\ final = q[n].start
    <2>1. first <= q[1].start /\ q[1].start <= first /\ first \in Nat
          /\ final <= q[n].start /\ q[n].start <= final /\ final \in Nat
      BY <1>5, <1>6, <1>7, <1>8
    <2> QED
      BY <1>2, <1>3, <2>1
  <1>10. last \in DOMAIN q /\ q[last].start = final
    BY <1>2, <1>9
  <1> HIDE DEF last
  <1>11. last = n
    <2>1. last \in 1 .. n /\ ~ (last < n)
      <3>1. last \in 1 .. n /\ q[last].start = q[n].start
        BY <1>2, <1>9, <1>10
      <3>2. ASSUME last < n PROVE FALSE
        <4>1. q[last].start < q[n].start
          BY <1>2, <1>4, <3>1, <3>2
        <4> QED
          BY <1>2, <1>3, <3>1, <4>1
      <3> QED
        BY <3>1, <3>2
    <2> QED
      BY <1>2, <2>1
  <1> QED
    BY <1>1, <1>9, <1>11 DEF n

\* The text stays, and the document is what became of it.
TextInv ==
    /\ source \in Seq(Tokens)
    /\ document = [i \in DOMAIN PiecesOf(source) |-> PiecesOf(source)[i].kind]

LEMMA TextStarts == Init => TextInv
  <1> SUFFICES ASSUME Init PROVE TextInv
    OBVIOUS
  <1>1. source \in Seq(Tokens)
    BY SourcesAreTokens DEF Init
  <1> QED
    BY <1>1 DEF Init, TextInv

LEMMA TextHolds == TextInv /\ [Next]_vars => TextInv'
  <1> SUFFICES ASSUME TextInv, [Next]_vars PROVE TextInv'
    OBVIOUS
  <1>1. source' = source /\ document' = document
    BY DEF Next, Consume, Finish, vars
  <1>2. PiecesOf(source)' = PiecesOf(source)
    BY <1>1
  <1>3. Tokens' = Tokens
    BY DEF Tokens
  <1> QED
    BY <1>1, <1>2, <1>3 DEF TextInv

\* What a chunk shows.
LEMMA ShownTiles ==
    ASSUME TextInv, DocumentTyped, NEW chunk \in Chunks, Sound(chunk)
    PROVE  LET pieces == PiecesOf(source)
               n == Len(chunk.pieces)
           IN  /\ n \in Nat /\ n > 0 /\ DOMAIN chunk.pieces = 1 .. n
               /\ \A i \in 1 .. n : chunk.pieces[i] \in Ordinals
               /\ Shown(chunk) = pieces[chunk.pieces[1]].start .. pieces[chunk.pieces[n]].end - 1
  <1> DEFINE pieces == PiecesOf(source)
             p == chunk.pieces
             n == Len(p)
             q == [i \in DOMAIN p |-> pieces[p[i]]]
  <1>1. pieces \in Seq(Pieces) /\ Apart(pieces)
    BY PiecesTile DEF TextInv
  <1>2. DOMAIN pieces = Ordinals
    BY DEF TextInv, Ordinals
  <1>3. p \in Seq(Ordinals) /\ p # <<>> /\ Increasing(p)
    BY DEF Chunks, Sound
  <1>4. Shown(chunk) = Slice(q)
    BY DEF Shown
  <1> HIDE DEF pieces, p
  <1>5. n \in Nat /\ n > 0 /\ DOMAIN p = 1 .. n /\ \A i \in 1 .. n : p[i] \in Ordinals
    BY <1>3, EmptySeq
  <1> HIDE DEF n
  <1>6. \A x \in Ordinals : pieces[x] \in Pieces
    BY <1>1, <1>2
  <1>7. q \in [1 .. n -> Pieces] /\ DOMAIN q = 1 .. n /\ \A i \in 1 .. n : q[i] = pieces[p[i]]
    BY <1>5, <1>6
  <1> HIDE DEF q
  <1>8. q \in Seq(Pieces) /\ Len(q) = n
    <2>1. q \in Seq(Pieces)
      BY <1>5, <1>7, SeqDef
    <2>2. Len(q) \in Nat /\ DOMAIN q = 1 .. Len(q)
      BY <2>1
    <2>3. Len(q) = n
      BY <1>5, <1>7, <2>2
    <2> QED
      BY <2>1, <2>3
  <1>9. q # <<>>
    BY <1>5, <1>8, EmptySeq
  <1>10. Apart(q)
    <2>1. \A i \in 1 .. n : q[i].start < q[i].end
      BY <1>1, <1>2, <1>5, <1>7 DEF Apart
    <2>2. ASSUME NEW i \in 1 .. n, NEW j \in 1 .. n, i < j
          PROVE  q[i].end <= q[j].start
      <3>1. p[i] < p[j] /\ p[i] \in Ordinals /\ p[j] \in Ordinals
        BY <1>3, <1>5, <2>2 DEF Increasing
      <3> QED
        BY <1>1, <1>2, <1>7, <3>1 DEF Apart
    <2> QED
      BY <1>7, <2>1, <2>2 DEF Apart
  <1>11. Slice(q) = q[1].start .. q[n].end - 1
    BY <1>8, <1>9, <1>10, SliceTiles
  <1>12. q[1] = pieces[p[1]] /\ q[n] = pieces[p[n]]
    BY <1>5, <1>7
  <1> QED
    BY <1>4, <1>5, <1>11, <1>12 DEF n, p, pieces

LEMMA ChunksTile ==
    ASSUME IInv, TextInv, OrderInv, Unbroken, done
    PROVE  ChunksTileTheText
  <1> DEFINE pieces == PiecesOf(source)
             chunks == state.chunks
  <1>1. /\ pieces \in Seq(Pieces) /\ Apart(pieces)
        /\ \A x \in Nat : x < Parsed(source).at => Covered(pieces, x) \/ x \in RawOf(source)
    BY PiecesTile DEF TextInv
  <1>2. DOMAIN pieces = Ordinals /\ Parsed(source).at \in Nat
    BY TextIsTiled DEF TextInv, Ordinals
  <1>3. /\ DocumentTyped /\ chunks \in Seq(Chunks) /\ (\A c \in DOMAIN chunks : Sound(chunks[c]))
        /\ PlacedOnce(chunks, Queue(state), read) /\ Queue(state) = <<>> /\ read = Len(document)
    BY DEF IInv, AccountedState, Accounted, Place
  <1>4. Ordinals = 1 .. Len(document) /\ Ordinals \subseteq Nat
    BY <1>3, CostsTyped
  <1>5. \A c, d \in DOMAIN chunks : c < d => Before(chunks[c].pieces, chunks[d].pieces)
    BY DEF OrderInv, Ascending
  <1> DEFINE first(c) == chunks[c].pieces[1]
             last(c) == chunks[c].pieces[Len(chunks[c].pieces)]
  <1> HIDE DEF pieces, chunks
  <1>6. ASSUME NEW c \in DOMAIN chunks
        PROVE  /\ Holds(chunks[c].pieces, first(c)) /\ Holds(chunks[c].pieces, last(c))
               /\ first(c) \in Ordinals /\ last(c) \in Ordinals
               /\ \A y : Holds(chunks[c].pieces, y) =>
                     y \in Ordinals /\ first(c) <= y /\ y <= last(c)
               /\ Shown(chunks[c]) = pieces[first(c)].start .. pieces[last(c)].end - 1
    <2> DEFINE chunk == chunks[c]
               p == chunk.pieces
               n == Len(p)
    <2>1. chunk \in Chunks /\ Sound(chunk)
      BY <1>3
    <2>2. /\ n \in Nat /\ n > 0 /\ DOMAIN p = 1 .. n
          /\ \A i \in 1 .. n : p[i] \in Ordinals
          /\ Shown(chunk) = pieces[p[1]].start .. pieces[p[n]].end - 1
      BY <1>3, <2>1, ShownTiles DEF pieces
    <2>3. Increasing(p)
      BY <2>1 DEF Sound
    <2>4. first(c) = p[1] /\ last(c) = p[n]
      OBVIOUS
    <2> HIDE DEF chunk, p, n, first, last
    <2>5. 1 \in 1 .. n /\ n \in 1 .. n
      BY <2>2
    <2>6. Holds(p, p[1]) /\ Holds(p, p[n])
      BY <2>2, <2>5 DEF Holds
    <2>7. ASSUME NEW y, Holds(p, y)
          PROVE  y \in Ordinals /\ p[1] <= y /\ y <= p[n]
      <3>1. PICK i \in 1 .. n : p[i] = y
        BY <2>2, <2>7 DEF Holds
      <3>2. (i = 1 \/ 1 < i) /\ (i = n \/ i < n)
        BY <2>2
      <3>3. (1 < i => p[1] < p[i]) /\ (i < n => p[i] < p[n])
        BY <2>2, <2>3, <2>5 DEF Increasing
      <3>4. p[1] \in Nat /\ p[n] \in Nat /\ p[i] \in Nat /\ p[i] \in Ordinals
        BY <1>4, <2>2, <2>5
      <3> QED
        BY <3>1, <3>2, <3>3, <3>4
    <2> QED
      BY <2>2, <2>4, <2>5, <2>6, <2>7 DEF chunk, p
  <1> HIDE DEF first, last
  <1>7. \A x \in Ordinals : /\ pieces[x].start \in Nat /\ pieces[x].end \in Nat
                            /\ pieces[x].start < pieces[x].end
    <2> SUFFICES ASSUME NEW x \in Ordinals
                 PROVE  /\ pieces[x].start \in Nat /\ pieces[x].end \in Nat
                        /\ pieces[x].start < pieces[x].end
      OBVIOUS
    <2>1. pieces[x] \in Pieces
      BY <1>1, <1>2
    <2> QED
      BY <1>1, <1>2, <2>1 DEF Apart, Pieces
  <1>8. \A x, y \in Ordinals : x < y => pieces[x].end <= pieces[y].start
    BY <1>1, <1>2 DEF Apart
  <1>9. ASSUME NEW c \in DOMAIN chunks, NEW d \in DOMAIN chunks, c < d,
               NEW i \in Shown(chunks[c]), NEW j \in Shown(chunks[d])
        PROVE  i < j
    <2>1. last(c) < first(d)
      BY <1>5, <1>6, <1>9 DEF Before
    <2>2. pieces[last(c)].end <= pieces[first(d)].start
      BY <1>6, <1>8, <2>1
    <2>3. i \in pieces[first(c)].start .. pieces[last(c)].end - 1
          /\ j \in pieces[first(d)].start .. pieces[last(d)].end - 1
      BY <1>6
    <2>4. /\ pieces[first(c)].start \in Nat /\ pieces[last(c)].end \in Nat
          /\ pieces[first(d)].start \in Nat /\ pieces[last(d)].end \in Nat
      BY <1>6, <1>7
    <2> QED
      BY <2>2, <2>3, <2>4
  <1>10. ASSUME NEW x \in 0 .. Parsed(source).at - 1
         PROVE  (\E c \in DOMAIN chunks : x \in Shown(chunks[c])) \/ x \in RawOf(source)
    <2>1. x \in Nat /\ x < Parsed(source).at
      BY <1>2
    <2>2. CASE Covered(pieces, x)
      <3>1. PICK y \in Ordinals : Covers(pieces[y], x)
        BY <1>2, <2>2 DEF Covered
      <3>2. y <= read /\ Kind(y) # "break"
        BY <1>3, <1>4 DEF Unbroken
      <3>3. ~ Holds(Queue(state), y)
        BY <1>3, HoldsNone
      <3>4. PICK c \in DOMAIN chunks : Holds(chunks[c].pieces, y)
        BY <1>3, <3>2, <3>3 DEF PlacedOnce
      <3> DEFINE a == first(c)
                 b == last(c)
      <3>5. /\ a \in Ordinals /\ b \in Ordinals /\ a <= y /\ y <= b
            /\ Shown(chunks[c]) = pieces[a].start .. pieces[b].end - 1
        BY <1>6, <3>4
      <3> HIDE DEF a, b
      <3>6. pieces[a].start <= pieces[y].start
        <4>1. a = y \/ a < y
          BY <1>4, <3>5
        <4> QED
          BY <1>7, <1>8, <3>5, <4>1
      <3>7. pieces[y].end <= pieces[b].end
        <4>1. y = b \/ y < b
          BY <1>4, <3>5
        <4> QED
          BY <1>7, <1>8, <3>5, <4>1
      <3>8. x \in pieces[a].start .. pieces[b].end - 1
        <4>1. pieces[y].start <= x /\ x < pieces[y].end
          BY <3>1 DEF Covers
        <4>2. /\ pieces[a].start \in Nat /\ pieces[b].end \in Nat
              /\ pieces[y].start \in Nat /\ pieces[y].end \in Nat
          BY <1>7, <3>5
        <4> QED
          BY <2>1, <3>6, <3>7, <4>1, <4>2
      <3> QED
        BY <3>5, <3>8
    <2> QED
      BY <1>1, <2>1, <2>2
  <1>11. Raw = RawOf(source)
    BY DEF Raw, RawOf
  <1>12. 0 .. Parsed(source).at - 1
            \subseteq (UNION {Shown(chunks[c]) : c \in DOMAIN chunks}) \cup Raw
    BY <1>10, <1>11
  <1> QED
    BY <1>9, <1>12 DEF ChunksTileTheText, chunks

\* Without a thematic break, for every text: chunks follow each other in
\* document order, also as the texts they are sliced from the source as, which
\* leave out nothing but raw HTML between blocks; and _flush never makes a
\* chunk of headings only, but for headings that end the document.
THEOREM UnbrokenReadInOrder == Spec => []UnbrokenDocumentsReadInOrder
  <1>1. IInv /\ TextInv /\ OrderInv => UnbrokenDocumentsReadInOrder
    <2> SUFFICES ASSUME IInv, TextInv, OrderInv, ~ Has("break")
                 PROVE  /\ InDocumentOrder
                        /\ done => ChunksTileTheText
                        /\ done => \A c \in DOMAIN state.chunks :
                              OnlyHeadings(state.chunks[c])
                                => c = Len(state.chunks) /\ Kind(Len(document)) = "heading"
      BY DEF UnbrokenDocumentsReadInOrder
    <2>1. Unbroken
      BY DEF Has, Unbroken, Ordinals
    <2>2. InDocumentOrder
      <3> SUFFICES ASSUME NEW c \in DOMAIN state.chunks, NEW d \in DOMAIN state.chunks, c < d
                   PROVE  Last(state.chunks[c].pieces) < state.chunks[d].pieces[1]
        BY DEF InDocumentOrder
      <3>1. /\ state.chunks \in Seq(Chunks)
            /\ \A e \in DOMAIN state.chunks : Sound(state.chunks[e])
        BY DEF IInv, AccountedState, Accounted
      <3> DEFINE p == state.chunks[c].pieces
                 q == state.chunks[d].pieces
      <3>2. p \in Seq(Ordinals) /\ p # <<>> /\ q \in Seq(Ordinals) /\ q # <<>>
        <4>1. /\ state.chunks[c] \in Chunks /\ state.chunks[d] \in Chunks
              /\ Sound(state.chunks[c]) /\ Sound(state.chunks[d])
          BY <3>1
        <4> QED
          BY <4>1 DEF Chunks, Sound
      <3>3. Before(p, q)
        BY <2>1 DEF OrderInv, Ascending
      <3> HIDE DEF p, q
      <3>4. Len(p) \in DOMAIN p /\ 1 \in DOMAIN q
        BY <3>2, EmptySeq
      <3>5. p[Len(p)] < q[1]
        BY <3>3, <3>4 DEF Before, Holds
      <3> QED
        BY <3>5 DEF Last, p, q
    <2>3. done => ChunksTileTheText
      BY <2>1, ChunksTile
    <2>4. done => \A c \in DOMAIN state.chunks :
             OnlyHeadings(state.chunks[c])
               => c = Len(state.chunks) /\ Kind(Len(document)) = "heading"
      BY <2>1 DEF OrderInv, EndingHeadings, OnlyHeadings, Headings
    <2> QED
      BY <2>2, <2>3, <2>4
  <1> QED
    BY <1>1, InvariantStarts, InvariantHolds, TextStarts, TextHolds, OrderStarts, OrderHolds,
       PTL DEF Spec

===============================================================================
