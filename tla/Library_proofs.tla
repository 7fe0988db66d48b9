----------------------------- MODULE Library_proofs -----------------------------
(***************************************************************************)
(* Theorems about the library page and its batches, for any number of      *)
(* documents, requests and tags, however the requests overlap.             *)
(***************************************************************************)
EXTENDS Library, FiniteSetTheorems, SequenceTheorems, WellFoundedInduction, TLAPS

-----------------------------------------------------------------------------
(* What the records are *)

Rows == Stored \cup {Gone}

Steps == {"idle", "listing", "reading", "renaming", "loading", "acting",
          "parsing", "marking", "placing", "answered", "failed"}

Queries == {"rated", "layout", "tags", "percent", "high"} \X SUBSET Docs

\* A request is at one of the steps, with what it has read so far.
Works == [step : Steps, action : {"none", "page", "rename"} \cup Actions,
          segment : Segments, asked : SUBSET DOMAIN Canonical, active : SUBSET Tags,
          ids : Seq(Docs), left : Seq(Docs), todo : Seq(Seq(Queries) \ {<<>>}),
          tiles : [Docs -> Tiles \cup {NoTile}], counted : SUBSET Docs,
          planned : Nat, anchored : BOOLEAN]

Typed ==
    /\ documents \in [Docs -> Rows]
    /\ request \in [Requests -> Works]
    /\ stale \in [Requests -> SUBSET Docs]
    /\ moves \in 0 .. MaxMoves

-----------------------------------------------------------------------------
(* How many chunks a layout has *)

\* Among some subsets of a finite set there is a smallest one.
LEMMA SmallestSubset ==
    ASSUME NEW E, IsFiniteSet(E), NEW B \in SUBSET SUBSET E, B # {}
    PROVE  \E s \in B : \A t \in B : ~ (t \subseteq s /\ t # s)
  <1>1. B \subseteq FiniteSubsetsOf(E)
    BY FS_Subset DEF FiniteSubsetsOf
  <1>2. PICK s \in B : \A t \in B : ~ (<<t, s>> \in StrictSubsetOrdering(E))
    BY <1>1, FS_StrictSubsetOrderingWellFounded, WFMin
  <1> QED
    BY <1>2 DEF StrictSubsetOrdering

\* g adds up the numbers of q over every set of positions in S, as a fold does.
OneOf(s) == CHOOSE y \in s : TRUE
Adds(g, q, S) ==
    g = [s \in SUBSET S |-> IF s = {} THEN 0 ELSE q[OneOf(s)] + g[s \ {OneOf(s)}]]
Summed(g, q, S) == Adds(g, q, S) /\ g \in [SUBSET S -> Nat]

LEMMA AddsStep ==
    ASSUME NEW g, NEW q, NEW S, Adds(g, q, S)
    PROVE  \A s \in SUBSET S : g[s] = IF s = {} THEN 0 ELSE q[OneOf(s)] + g[s \ {OneOf(s)}]
  <1>1. g = [s \in SUBSET S |-> IF s = {} THEN 0 ELSE q[OneOf(s)] + g[s \ {OneOf(s)}]]
    BY DEF Adds
  <1> SUFFICES ASSUME NEW s \in SUBSET S
               PROVE  g[s] = IF s = {} THEN 0 ELSE q[OneOf(s)] + g[s \ {OneOf(s)}]
    OBVIOUS
  <1> DEFINE h == [t \in SUBSET S |-> IF t = {} THEN 0 ELSE q[OneOf(t)] + g[t \ {OneOf(t)}]]
  <1>2. h[s] = IF s = {} THEN 0 ELSE q[OneOf(s)] + g[s \ {OneOf(s)}]
    OBVIOUS
  <1>3. g = h
    BY <1>1
  <1> HIDE DEF h
  <1> QED
    BY <1>2, <1>3

LEMMA OneOfIn == \A s : s # {} => OneOf(s) \in s
BY DEF OneOf

\* Two of them agree where both are defined.
LEMMA SummedUnique ==
    ASSUME NEW q, NEW S, NEW T, NEW f, NEW g, T \subseteq S, IsFiniteSet(T),
           Adds(f, q, T), Adds(g, q, S)
    PROVE  \A s \in SUBSET T : f[s] = g[s]
  <1> DEFINE B == {s \in SUBSET T : f[s] # g[s]}
  <1> SUFFICES ASSUME B # {} PROVE FALSE
    OBVIOUS
  <1>1. PICK s \in B : \A t \in B : ~ (t \subseteq s /\ t # s)
    <2>1. B \in SUBSET SUBSET T
      OBVIOUS
    <2> HIDE DEF B
    <2> QED
      BY <2>1, SmallestSubset
  <1> DEFINE x == OneOf(s)
             t == s \ {x}
  <1>2. /\ f[s] = IF s = {} THEN 0 ELSE q[x] + f[t]
        /\ g[s] = IF s = {} THEN 0 ELSE q[x] + g[t]
    BY <1>1, AddsStep
  <1>3. s # {}
    BY <1>1, <1>2
  <1>4. t \in SUBSET T /\ t \subseteq s /\ t # s
    BY <1>1, <1>3, OneOfIn
  <1>5. f[t] = g[t]
    BY <1>1, <1>4
  <1> QED
    BY <1>1, <1>2, <1>3, <1>5

LEMMA SummedExists ==
    ASSUME NEW S, IsFiniteSet(S), NEW q \in [S -> Nat]
    PROVE  \E g : Summed(g, q, S)
  <1> DEFINE B == {T \in SUBSET S : ~ \E g : Summed(g, q, T)}
  <1> SUFFICES ASSUME B # {} PROVE FALSE
    OBVIOUS
  <1>1. PICK T \in B : \A u \in B : ~ (u \subseteq T /\ u # T)
    <2>1. B \in SUBSET SUBSET S
      OBVIOUS
    <2> HIDE DEF B
    <2> QED
      BY <2>1, SmallestSubset
  <1> DEFINE G(u) == CHOOSE g : Summed(g, q, u)
             Of(u) == G(u)[u]
             f == [s \in SUBSET T |-> IF s = {} THEN 0
                                      ELSE q[OneOf(s)] + Of(s \ {OneOf(s)})]
  <1>2. \A u \in SUBSET T : u # T => Summed(G(u), q, u)
    <2> SUFFICES ASSUME NEW u \in SUBSET T, u # T PROVE Summed(G(u), q, u)
      OBVIOUS
    <2>1. \E g : Summed(g, q, u)
      BY <1>1
    <2> QED
      BY <2>1
  <1> HIDE DEF G
  <1>3. \A u \in SUBSET T : u # T => Of(u) \in Nat
    <2> SUFFICES ASSUME NEW u \in SUBSET T, u # T PROVE Of(u) \in Nat
      OBVIOUS
    <2> DEFINE g == G(u)
    <2>1. g \in [SUBSET u -> Nat]
      BY <1>2 DEF Summed
    <2> HIDE DEF g
    <2>2. u \in SUBSET u /\ g[u] \in Nat
      BY <2>1
    <2> QED
      BY <2>2 DEF g
  <1>4. \A u \in SUBSET T : u # T =>
          Of(u) = IF u = {} THEN 0 ELSE q[OneOf(u)] + Of(u \ {OneOf(u)})
    <2> SUFFICES ASSUME NEW u \in SUBSET T, u # T
                 PROVE  Of(u) = IF u = {} THEN 0 ELSE q[OneOf(u)] + Of(u \ {OneOf(u)})
      OBVIOUS
    <2> DEFINE v == u \ {OneOf(u)}
    <2>1. Adds(G(u), q, u)
      BY <1>2 DEF Summed
    <2>2. Of(u) = IF u = {} THEN 0 ELSE q[OneOf(u)] + G(u)[v]
      BY <2>1, AddsStep
    <2>3. CASE u = {}
      BY <2>2, <2>3
    <2>4. CASE u # {}
      <3>1. v \subseteq u /\ v \in SUBSET T /\ v # T
        BY <2>4, OneOfIn
      <3>2. Adds(G(v), q, v)
        BY <1>2, <3>1 DEF Summed
      <3>3. IsFiniteSet(v)
        BY <1>1, <3>1, FS_Subset
      <3> HIDE DEF v
      <3>4. \A s \in SUBSET v : G(v)[s] = G(u)[s]
        <4> DEFINE a == G(v)
                   b == G(u)
        <4>1. Adds(a, q, v) /\ Adds(b, q, u)
          BY <2>1, <3>2
        <4> HIDE DEF a, b
        <4>2. \A s \in SUBSET v : a[s] = b[s]
          BY ONLY <3>1, <3>3, <4>1, SummedUnique
        <4> QED
          BY <4>2 DEF a, b
      <3>5. G(v)[v] = G(u)[v]
        BY <3>4
      <3> QED
        BY <2>2, <2>4, <3>5 DEF v
    <2> QED
      BY <2>3, <2>4
  <1> HIDE DEF Of
  <1>5. \A s \in SUBSET T : s # {} => /\ OneOf(s) \in s
                                      /\ s \ {OneOf(s)} \in SUBSET T
                                      /\ s \ {OneOf(s)} # T
    BY OneOfIn
  <1>6. \A s \in SUBSET T : s # T => f[s] = Of(s)
    BY <1>4
  <1>7. f \in [SUBSET T -> Nat]
    BY <1>1, <1>3, <1>5
  <1>8. ASSUME NEW s \in SUBSET T
        PROVE  (IF s = {} THEN 0 ELSE q[OneOf(s)] + Of(s \ {OneOf(s)}))
                 = IF s = {} THEN 0 ELSE q[OneOf(s)] + f[s \ {OneOf(s)}]
    <2> HIDE DEF f
    <2> QED
      BY <1>5, <1>6
  <1>9. Adds(f, q, T)
    <2> DEFINE h == [s \in SUBSET T |-> IF s = {} THEN 0 ELSE q[OneOf(s)] + f[s \ {OneOf(s)}]]
    <2>1. h = f
      BY <1>8
    <2> QED
      BY <2>1 DEF Adds
  <1> HIDE DEF f
  <1>10. Summed(f, q, T)
    BY <1>7, <1>9 DEF Summed
  <1> QED
    BY <1>1, <1>10

\* What a fold adds up over a sequence of numbers.
LEMMA ChunksSummed ==
    ASSUME NEW q \in Seq(Nat)
    PROVE  \E g : Summed(g, q, DOMAIN q) /\ Chunks(q) = g[DOMAIN q]
  <1> DEFINE D == DOMAIN q
             c == CHOOSE g : Adds(g, q, D)
  <1>1. Chunks(q) = c[D]
    BY DEF Chunks, FoldSeq, FoldFunction, FoldFunctionOnSet, MapThenFoldSet, Adds, OneOf
  <1>2. IsFiniteSet(D) /\ q \in [D -> Nat]
    <2>1. D = 1 .. Len(q) /\ Len(q) \in Nat
      OBVIOUS
    <2>2. IsFiniteSet(1 .. Len(q))
      BY <2>1, FS_Interval
    <2>3. q \in [1 .. Len(q) -> Nat]
      OBVIOUS
    <2> QED
      BY <2>1, <2>2, <2>3
  <1>3. PICK g : Summed(g, q, D)
    <2> HIDE DEF D
    <2> QED
      BY <1>2, SummedExists
  <1>4. Adds(c, q, D)
    BY <1>3 DEF Summed
  <1> HIDE DEF c
  <1>5. c[D] = g[D]
    <2>1. \A s \in SUBSET D : c[s] = g[s]
      <3> HIDE DEF D
      <3>1. D \subseteq D /\ Adds(g, q, D)
        BY <1>3 DEF Summed
      <3> QED
        BY <1>2, <1>4, <3>1, SummedUnique
    <2> QED
      BY <2>1
  <1> QED
    BY <1>1, <1>3, <1>5

\* Sections without chunks there are none, so only no layout has no chunks.
LEMMA LayoutChunks ==
    /\ \A s \in Layouts \cup {<<>>} : Chunks(s) \in Nat
    /\ \A s \in Layouts \cup {<<>>} : Chunks(s) > 0 <=> s # <<>>
    /\ \A s \in Layouts : s # <<>>
  <1>1. ASSUME NEW s \in Seq(Nat \ {0}), s # <<>>
        PROVE  Chunks(s) \in Nat /\ Chunks(s) > 0
    <2> DEFINE D == DOMAIN s
    <2>1. s \in Seq(Nat)
      OBVIOUS
    <2>2. PICK g : Summed(g, s, D) /\ Chunks(s) = g[D]
      BY <2>1, ChunksSummed
    <2>3. D # {}
      BY <1>1
    <2> DEFINE x == OneOf(D)
    <2>4. x \in D /\ s[x] \in Nat /\ s[x] > 0
      <3>1. x \in D
        BY <2>3, OneOfIn
      <3> QED
        BY <3>1
    <2> HIDE DEF D
    <2>5. g[D] = s[x] + g[D \ {x}]
      <3>1. Adds(g, s, D) /\ D \in SUBSET D
        BY <2>2 DEF Summed
      <3> QED
        BY <2>3, <3>1, AddsStep
    <2>6. g[D \ {x}] \in Nat
      BY <2>2 DEF Summed
    <2> QED
      BY <2>2, <2>4, <2>5, <2>6
  <1>2. ASSUME NEW s, s = <<>>
        PROVE  Chunks(s) = 0
    <2>1. s \in Seq(Nat) /\ DOMAIN s = {}
      BY <1>2
    <2>2. PICK g : Summed(g, s, DOMAIN s) /\ Chunks(s) = g[DOMAIN s]
      BY <2>1, ChunksSummed
    <2>3. Adds(g, s, {}) /\ Chunks(s) = g[{}]
      BY <2>1, <2>2 DEF Summed
    <2> QED
      BY <2>3, AddsStep
  <1>3. Layouts \subseteq Seq(Nat \ {0}) \ {<<>>}
    BY LibraryAssumption
  <1> QED
    BY <1>1, <1>2, <1>3

LEMMA GoneIsNone ==
    /\ Gone \notin Stored
    /\ Gone.status = "gone" /\ Gone.title = "old" /\ Gone.total = 0 /\ Gone.sections = <<>>
    /\ Gone.rated = {} /\ Gone.place = Unread /\ Gone.tags = {}
BY DEF Gone, Stored

LEMMA StoredFields ==
    ASSUME NEW doc \in Stored
    PROVE  /\ doc.status \in {"processing", "ready", "failed"}
           /\ doc.title \in {"old", "new"}
           /\ doc.total \in Nat
           /\ doc.sections \in Layouts \cup {<<>>}
           /\ doc.rated \in SUBSET Nat
           /\ doc.place \in {Unread} \cup [current : Nat, high : Nat]
           /\ doc.tags \in SUBSET Tags
           /\ \A j \in doc.rated : j < Chunks(doc.sections)
           /\ doc.place # Unread => doc.place.current <= doc.place.high /\ doc.total > 0
           /\ doc.status = "ready" => doc.total > 0
           /\ doc # Gone
BY GoneIsNone DEF Stored

LEMMA RowFields ==
    ASSUME NEW doc \in Rows
    PROVE  /\ doc.status \in {"processing", "ready", "failed", "gone"}
           /\ doc.title \in {"old", "new"}
           /\ doc.total \in Nat
           /\ doc.sections \in Layouts \cup {<<>>}
           /\ doc.rated \in SUBSET Nat
           /\ doc.place \in {Unread} \cup [current : Nat, high : Nat]
           /\ doc.tags \in SUBSET Tags
           /\ \A j \in doc.rated : j < Chunks(doc.sections)
           /\ doc.place # Unread => doc.place.current <= doc.place.high /\ doc.total > 0
           /\ doc.status = "ready" => doc.total > 0
           /\ doc # Gone <=> doc \in Stored
BY StoredFields, GoneIsNone DEF Rows

\* What a write makes of a document: each keeps a stored document stored.
LEMMA StoredWrites ==
    ASSUME NEW doc \in Stored
    PROVE  /\ [doc EXCEPT !.title = "new"] \in Stored
           /\ \A T \in SUBSET Tags : [doc EXCEPT !.tags = T] \in Stored
           /\ [doc EXCEPT !.sections = <<>>, !.rated = {}] \in Stored
           /\ [doc EXCEPT !.status = "failed"] \in Stored
           /\ doc.sections = <<>> => \A s \in Layouts : [doc EXCEPT !.sections = s] \in Stored
           /\ \A n \in Nat \ {0} : [doc EXCEPT !.status = "ready", !.total = n] \in Stored
           /\ doc.total > 0 => \A c, h \in Nat : c <= h =>
                [doc EXCEPT !.place = [current |-> c, high |-> h]] \in Stored
           /\ \A j \in Nat : j < Chunks(doc.sections) =>
                [doc EXCEPT !.rated = doc.rated \cup {j}] \in Stored
  <1>1. /\ doc.sections = <<>> => doc.rated = {}
        /\ Chunks(<<>>) = 0
    <2>1. \A j \in doc.rated : j \in Nat /\ j < Chunks(doc.sections)
      BY StoredFields
    <2> QED
      BY <2>1, LayoutChunks
  <1>2. [doc EXCEPT !.title = "new"] \in Stored
    BY DEF Stored
  <1>3. \A T \in SUBSET Tags : [doc EXCEPT !.tags = T] \in Stored
    BY DEF Stored
  <1>4. [doc EXCEPT !.sections = <<>>, !.rated = {}] \in Stored
    <2> DEFINE a == [doc EXCEPT !.sections = <<>>]
    <2>1. a \in [status : {"processing", "ready", "failed"}, title : {"old", "new"}, total : Nat,
              sections : Layouts \cup {<<>>}, rated : SUBSET Nat,
              place : {Unread} \cup [current : Nat, high : Nat], tags : SUBSET Tags]
          /\ a.place = doc.place /\ a.total = doc.total /\ a.status = doc.status
          /\ a.sections = <<>>
      BY DEF Stored
    <2> HIDE DEF a
    <2>2. [a EXCEPT !.rated = {}] \in Stored
      BY <2>1, StoredFields DEF Stored
    <2> QED
      BY <2>2 DEF a
  <1>5. [doc EXCEPT !.status = "failed"] \in Stored
    BY DEF Stored
  <1>6. ASSUME doc.sections = <<>>, NEW s \in Layouts
        PROVE  [doc EXCEPT !.sections = s] \in Stored
    BY <1>1, <1>6 DEF Stored
  <1>7. ASSUME NEW n \in Nat \ {0}
        PROVE  [doc EXCEPT !.status = "ready", !.total = n] \in Stored
    <2> DEFINE a == [doc EXCEPT !.total = n]
    <2>1. a \in Stored /\ a.total = n
      BY DEF Stored
    <2> HIDE DEF a
    <2>2. [a EXCEPT !.status = "ready"] \in Stored
      BY <2>1 DEF Stored
    <2>3. [doc EXCEPT !.status = "ready", !.total = n] = [a EXCEPT !.status = "ready"]
      BY DEF Stored, a
    <2> QED
      BY <2>2, <2>3
  <1>8. ASSUME doc.total > 0, NEW c \in Nat, NEW h \in Nat, c <= h
        PROVE  [doc EXCEPT !.place = [current |-> c, high |-> h]] \in Stored
    <2> DEFINE p == [current |-> c, high |-> h]
    <2>1. p \in [current : Nat, high : Nat] /\ p.current <= p.high
      BY <1>8
    <2> HIDE DEF p
    <2>2. [doc EXCEPT !.place = p] \in Stored
      BY <1>8, <2>1 DEF Stored
    <2> QED
      BY <2>2 DEF p
  <1>9. ASSUME NEW j \in Nat, j < Chunks(doc.sections)
        PROVE  [doc EXCEPT !.rated = doc.rated \cup {j}] \in Stored
    BY <1>9 DEF Stored
  <1> QED
    BY <1>2, <1>3, <1>4, <1>5, <1>6, <1>7, <1>8, <1>9

-----------------------------------------------------------------------------
(* What holds of a request on its way *)

\* How many of its documents a batch is done with.
Behind(k) == Len(request[k].ids) - Len(request[k].left)

\* A batch works off its selection, and has counted nothing it has yet to do.
Shaped(k) ==
    /\ request[k].step \in {"loading", "acting", "parsing", "marking", "placing",
                            "answered", "failed"}
    /\ request[k].ids # <<>>
    /\ \A i, j \in DOMAIN request[k].ids : request[k].ids[i] = request[k].ids[j] => i = j
    /\ Len(request[k].left) <= Len(request[k].ids)
    /\ \A i \in DOMAIN request[k].left :
         /\ request[k].left[i] = request[k].ids[Behind(k) + i]
         /\ request[k].left[i] \notin request[k].counted
    /\ At(k, "answered") <=> request[k].left = <<>>
    /\ request[k].action \in {"tag", "untag"} =>
         /\ Tag(k) \in Tags
         /\ request[k].asked # {}
    /\ request[k].step \in {"parsing", "marking", "placing"} => request[k].action = "rechunk"

\* It has served what it is done with, unless others have written it since.
ServedBehind(k) ==
    \A i \in 1 .. Behind(k) :
      request[k].ids[i] \notin stale[k] => Served(k, request[k].ids[i])

\* What it has found or left of the document it is at is still so.
Midway(k) ==
    /\ Does(k, "tag") /\ This(k) \notin stale[k] => Exists(This(k))
    /\ At(k, "parsing") /\ This(k) \notin stale[k] => documents[This(k)].sections = <<>>
    /\ At(k, "marking") =>
         /\ request[k].planned > 0
         /\ This(k) \notin stale[k] =>
              /\ Exists(This(k))
              /\ documents[This(k)].sections # <<>>
              /\ Chunks(documents[This(k)].sections) = request[k].planned
    /\ At(k, "placing") /\ This(k) \notin stale[k] =>
         /\ documents[This(k)].sections # <<>>
         /\ Chunks(documents[This(k)].sections) = documents[This(k)].total

\* What ends a batch early.
Excused(k) ==
    At(k, "failed") =>
      \/ Len(request[k].ids) = 1 /\ ~Exists(request[k].ids[1])
      \/ request[k].action = "tag" /\ ~Exists(This(k)) /\ This(k) \in stale[k]
      \/ request[k].action = "rechunk" /\ This(k) \in stale[k]

Batching(k) ==
    request[k].action \in Actions => Shaped(k) /\ ServedBehind(k) /\ Midway(k) /\ Excused(k)

\* The fields of the tile of d that are still to be read.
Pending(todo, d) ==
    {f \in {"rated", "layout", "tags", "percent", "high"} :
       \E i \in DOMAIN todo : \E j \in DOMAIN todo[i] : todo[i][j][1] = f /\ d \in todo[i][j][2]}

\* A tile shows a document, but for the fields that are to be read.
Shows(tile, doc, pending) ==
    /\ tile.status = doc.status /\ tile.title = doc.title /\ tile.total = doc.total
    /\ "percent" \notin pending => tile.percent = TrueTile(doc).percent
    /\ "high" \notin pending => tile.high = TrueTile(doc).high
    /\ "rated" \notin pending => tile.rated = TrueTile(doc).rated
    /\ "layout" \notin pending => tile.layout = TrueTile(doc).layout
    /\ "tags" \notin pending => tile.tags = TrueTile(doc).tags

\* The tiles as far as they are read.
Showing(k) ==
    \A d \in Docs :
      LET tile == request[k].tiles[d]
          pending == Pending(request[k].todo, d)
      IN  /\ tile = NoTile => pending = {}
          /\ tile # NoTile /\ "layout" \in pending => tile.status = "ready" /\ tile.total > 0
          /\ tile # NoTile /\ d \notin stale[k] => Shows(tile, documents[d], pending)

\* The page a set of tags and a segment ask for: tags nobody uses do not count.
Wanted(k, d) ==
    /\ Exists(d)
    /\ InSegment(documents[d], request[k].segment)
    /\ Used(k) = {} \/ Used(k) \cap documents[d].tags # {}

\* A page nobody disturbed is of the tags and documents there are.
Listing(k) ==
    /\ request[k].step \in {"listing", "reading", "answered"}
    /\ At(k, "listing") /\ stale[k] = {} =>
         request[k].active = {Canonical[s] : s \in request[k].asked} \cap Known
    /\ request[k].step \in {"reading", "answered"} /\ stale[k] = {} =>
         \A d \in Docs : request[k].tiles[d] # NoTile <=> Wanted(k, d)

Renaming(k) ==
    /\ request[k].step \in {"renaming", "reading", "answered", "failed"}
    /\ At(k, "renaming") =>
         LET d == request[k].ids[1]
             tile == request[k].tiles[d]
         IN  /\ Len(request[k].ids) = 1
             /\ tile # NoTile
             /\ \A e \in Docs \ {d} : request[k].tiles[e] = NoTile
             /\ d \notin stale[k] => /\ Exists(d)
                                     /\ tile = [TileOf(documents[d]) EXCEPT !.title = "new"]

Paging(k) ==
    /\ request[k].action = "page" => Listing(k)
    /\ request[k].action = "rename" => Renaming(k)
    /\ At(k, "reading") => /\ request[k].todo # <<>>
                           /\ request[k].action \in {"page", "rename"}
    /\ request[k].step \in {"reading", "answered"} /\ request[k].action \in {"page", "rename"}
         => /\ Showing(k)
            /\ At(k, "answered") => request[k].todo = <<>>

Sound(k) ==
    /\ request[k].action = "none" <=> At(k, "idle")
    /\ Batching(k)
    /\ Paging(k)

-----------------------------------------------------------------------------
(* What a step does *)

\* The other requests are where they were.
Others(k) == \A j \in Requests \ {k} : request'[j] = request[j]

\* What another request has seen of a document is so, unless it is stale.
Seen(j) ==
    /\ request'[j] = request[j]
    /\ stale[j] \subseteq stale'[j]
    /\ At(j, "idle") \/ \A d \in Docs \ stale'[j] : documents'[d] = documents[d]

\* Documents that are gone stay gone.
StayGone == \A d \in Docs : ~Exists(d) => documents'[d] = Gone

\* The step of somebody else.
Apart(who) ==
    /\ documents' \in [Docs -> Rows]
    /\ stale' \in [Requests -> SUBSET Docs]
    /\ StayGone
    /\ \A j \in Requests :
         /\ stale[j] \subseteq stale'[j]
         /\ j = who => stale'[j] = stale[j]
         /\ j # who => At(j, "idle") \/ \A d \in Docs \ stale'[j] : documents'[d] = documents[d]

LEMMA ExistsStored ==
    ASSUME Typed, NEW d \in Docs
    PROVE  /\ documents[d] \in Rows
           /\ Exists(d) => documents[d] \in Stored
           /\ ~Exists(d) => documents[d] = Gone
  <1>1. documents[d] \in Rows
    BY DEF Typed
  <1> QED
    BY <1>1 DEF Exists, Rows

LEMMA WriteApart ==
    ASSUME Typed, NEW who, NEW d \in Docs, NEW new \in Rows,
           ~Exists(d) => new = Gone, Write(who, d, new)
    PROVE  /\ Apart(who)
           /\ documents' = [documents EXCEPT ![d] = new]
  <1>1. /\ documents \in [Docs -> Rows] /\ stale \in [Requests -> SUBSET Docs]
        /\ documents' = [documents EXCEPT ![d] = new]
        /\ stale' = [k \in Requests |-> IF k = who \/ At(k, "idle") \/ new = documents[d]
                                        THEN stale[k] ELSE stale[k] \cup {d}]
    BY DEF Typed, Write
  <1>2. documents' \in [Docs -> Rows] /\ stale' \in [Requests -> SUBSET Docs]
    BY <1>1
  <1>3. StayGone
    BY <1>1, ExistsStored DEF StayGone
  <1>4. ASSUME NEW j \in Requests
        PROVE  /\ stale[j] \subseteq stale'[j]
               /\ j = who => stale'[j] = stale[j]
               /\ j # who => \/ At(j, "idle")
                             \/ \A e \in Docs \ stale'[j] : documents'[e] = documents[e]
    BY <1>1
  <1> QED
    BY <1>1, <1>2, <1>3, <1>4 DEF Apart

LEMMA UnwrittenApart ==
    ASSUME Typed, NEW who, UNCHANGED <<documents, stale>>
    PROVE  Apart(who)
  <1>1. documents \in [Docs -> Rows] /\ stale \in [Requests -> SUBSET Docs]
        /\ documents' = documents /\ stale' = stale
    BY DEF Typed
  <1>2. StayGone
    BY <1>1, ExistsStored DEF StayGone
  <1> QED
    BY <1>1, <1>2 DEF Apart

-----------------------------------------------------------------------------
(* A step leaves what holds of the others *)

LEMMA WorkFields ==
    ASSUME Typed, NEW k \in Requests
    PROVE  /\ request[k] \in Works
           /\ request[k].step \in Steps
           /\ request[k].segment \in Segments
           /\ request[k].asked \in SUBSET DOMAIN Canonical
           /\ request[k].active \in SUBSET Tags
           /\ request[k].ids \in Seq(Docs) /\ request[k].left \in Seq(Docs)
           /\ request[k].todo \in Seq(Seq(Queries) \ {<<>>})
           /\ request[k].tiles \in [Docs -> Tiles \cup {NoTile}]
           /\ request[k].counted \in SUBSET Docs
           /\ request[k].planned \in Nat
           /\ stale[k] \in SUBSET Docs
  <1>1. request[k] \in Works /\ stale[k] \in SUBSET Docs
    BY DEF Typed
  <1> QED
    BY <1>1 DEF Works

\* The documents of a batch are documents, and so is the one it is at.
LEMMA ThisDocument ==
    ASSUME Typed, NEW k \in Requests
    PROVE  /\ \A i \in 1 .. Len(request[k].ids) : request[k].ids[i] \in Docs
           /\ request[k].left # <<>> => This(k) \in Docs /\ This(k) = request[k].left[1]
                                        /\ Len(request[k].left) \in Nat \ {0}
           /\ request[k].ids # <<>> => request[k].ids[1] \in Docs
  <1> DEFINE ids == request[k].ids
             left == request[k].left
  <1>1. ids \in Seq(Docs) /\ left \in Seq(Docs)
    BY WorkFields
  <1>2. This(k) = Head(left)
    BY DEF This
  <1> HIDE DEF ids, left
  <1>3. /\ \A i \in 1 .. Len(ids) : ids[i] \in Docs
        /\ left # <<>> => Head(left) \in Docs /\ Head(left) = left[1] /\ Len(left) \in Nat \ {0}
        /\ ids # <<>> => ids[1] \in Docs
    BY <1>1
  <1> QED
    BY <1>2, <1>3 DEF ids, left

LEMMA BehindTyped ==
    ASSUME Typed, NEW k \in Requests
    PROVE  /\ Behind(k) \in Int /\ Behind(k) <= Len(request[k].ids)
           /\ Len(request[k].ids) \in Nat /\ Len(request[k].left) \in Nat
           /\ \A i \in 1 .. Behind(k) : request[k].ids[i] \in Docs
  <1> DEFINE a == Len(request[k].ids)
             b == Len(request[k].left)
  <1>1. a \in Nat /\ b \in Nat
    BY WorkFields
  <1>2. Behind(k) = a - b
    BY DEF Behind
  <1>3. \A i \in 1 .. a : request[k].ids[i] \in Docs
    BY ThisDocument
  <1> HIDE DEF a, b
  <1>4. Behind(k) \in Int /\ Behind(k) <= a
    BY <1>1, <1>2
  <1> QED
    BY <1>1, <1>3, <1>4 DEF a, b

LEMMA SeenBatching ==
    ASSUME Typed, NEW j \in Requests, Seen(j), StayGone, Batching(j), ~At(j, "idle")
    PROVE  Batching(j)'
  <1> SUFFICES ASSUME request[j].action \in Actions
               PROVE  (Shaped(j) /\ ServedBehind(j) /\ Midway(j) /\ Excused(j))'
    BY DEF Batching, Seen, Actions
  <1>1. Shaped(j) /\ ServedBehind(j) /\ Midway(j) /\ Excused(j)
    BY DEF Batching
  <1>2. /\ request'[j] = request[j] /\ stale[j] \subseteq stale'[j]
        /\ \A d \in Docs : d \notin stale'[j] => documents'[d] = documents[d]
    BY DEF Seen, At
  <1>3. /\ Behind(j)' = Behind(j) /\ Tag(j)' = Tag(j) /\ This(j)' = This(j)
        /\ \A s : At(j, s)' = At(j, s)
    BY <1>2 DEF Behind, Tag, This, At
  <1>4. Shaped(j)'
    BY <1>1, <1>2, <1>3 DEF Shaped
  <1>5. ServedBehind(j)'
    <2> SUFFICES ASSUME NEW i \in 1 .. Behind(j), request[j].ids[i] \notin stale'[j]
                 PROVE  Served(j, request[j].ids[i])'
      BY <1>2, <1>3 DEF ServedBehind
    <2> DEFINE d == request[j].ids[i]
    <2>1. d \in Docs
      BY BehindTyped
    <2>2. documents'[d] = documents[d] /\ Served(j, d)
      BY <1>1, <1>2, <2>1 DEF ServedBehind
    <2>3. d' = d
      BY <1>2
    <2> HIDE DEF d
    <2>4. Served(j, d)'
      BY <1>2, <1>3, <2>2, <2>3 DEF Served, Exists
    <2> QED
      BY <2>4 DEF d
  <1>6. Midway(j)'
    <2>1. request[j].step \in {"acting", "parsing", "marking", "placing"} => This(j) \in Docs
      BY <1>1, ThisDocument DEF Shaped, At
    <2>2. This(j) \in Docs /\ This(j) \notin stale'[j] =>
             This(j) \notin stale[j] /\ documents'[This(j)] = documents[This(j)]
      BY <1>2
    <2> QED
      BY <1>1, <1>2, <1>3, <2>1, <2>2 DEF Midway, Does, At, Exists
  <1>7. Excused(j)'
    <2>1. /\ request[j].ids[1] \in Docs
          /\ At(j, "failed") => This(j) \in Docs
      BY <1>1, ThisDocument DEF Shaped, At
    <2>2. \A d \in Docs : ~Exists(d) => ~Exists(d)'
      BY DEF StayGone, Exists
    <2> QED
      BY <1>1, <1>2, <1>3, <2>1, <2>2 DEF Excused, Exists
  <1> QED
    BY <1>4, <1>5, <1>6, <1>7

LEMMA SeenPaging ==
    ASSUME Typed, NEW j \in Requests, Seen(j), documents' \in [Docs -> Rows], Paging(j),
           ~At(j, "idle")
    PROVE  Paging(j)'
  <1>1. /\ request'[j] = request[j] /\ stale[j] \subseteq stale'[j]
        /\ \A d \in Docs : d \notin stale'[j] => documents'[d] = documents[d]
    BY DEF Seen, At
  <1>2. \A s : At(j, s)' = At(j, s)
    BY <1>1 DEF At
  <1>3. stale'[j] = {} => stale[j] = {} /\ documents' = documents
    <2>1. documents \in [Docs -> Rows]
      BY DEF Typed
    <2> QED
      BY <1>1, <2>1
  <1>4. Listing(j) => Listing(j)'
    <2>1. stale'[j] = {} => Known' = Known /\ \A d : Wanted(j, d)' <=> Wanted(j, d)
      BY <1>1, <1>3 DEF Known, Wanted, Used, Exists, InSegment
    <2> QED
      BY <1>1, <1>2, <1>3, <2>1 DEF Listing
  <1>5. Renaming(j) => Renaming(j)'
    <2>1. At(j, "renaming") /\ Renaming(j) => request[j].ids[1] \in Docs
      BY ThisDocument, WorkFields DEF Renaming
    <2> QED
      BY <1>1, <1>2, <2>1 DEF Renaming, Exists, TileOf
  <1>6. Showing(j) => Showing(j)'
    <2> SUFFICES ASSUME Showing(j), NEW d \in Docs
                 PROVE  LET tile == request'[j].tiles[d]
                            pending == Pending(request'[j].todo, d)
                        IN  /\ tile = NoTile => pending = {}
                            /\ tile # NoTile /\ "layout" \in pending
                                 => tile.status = "ready" /\ tile.total > 0
                            /\ tile # NoTile /\ d \notin stale'[j]
                                 => Shows(tile, documents'[d], pending)
      BY DEF Showing
    <2> QED
      BY <1>1 DEF Showing
  <1> QED
    BY <1>1, <1>2, <1>4, <1>5, <1>6 DEF Paging

LEMMA SeenSound ==
    ASSUME Typed, NEW j \in Requests, Seen(j), StayGone, documents' \in [Docs -> Rows],
           Sound(j)
    PROVE  Sound(j)'
  <1>1. CASE At(j, "idle")
    <2>1. request'[j] = request[j] /\ request[j].step = "idle" /\ request[j].action = "none"
      BY <1>1 DEF Seen, Sound, At
    <2> QED
      BY <2>1 DEF Sound, Batching, Paging, At, Actions
  <1>2. CASE ~At(j, "idle")
    <2>1. Batching(j)' /\ Paging(j)'
      BY <1>2, SeenBatching, SeenPaging DEF Sound
    <2> QED
      BY <2>1 DEF Sound, Seen, At
  <1> QED
    BY <1>1, <1>2

\* So it is enough to look at the request that moves.
LEMMA ApartSound ==
    ASSUME Typed, NEW who, Apart(who), \A j \in Requests \ {who} : request'[j] = request[j],
           \A j \in Requests : Sound(j), who \in Requests => Sound(who)'
    PROVE  \A j \in Requests : Sound(j)'
  <1> SUFFICES ASSUME NEW j \in Requests, j # who PROVE Sound(j)'
    OBVIOUS
  <1>1. Seen(j)
    BY DEF Apart, Seen
  <1> QED
    BY <1>1, SeenSound DEF Apart

-----------------------------------------------------------------------------
(* What a step makes of its request *)

\* Request k is at this step, with what it was asked for.
Goes(k, step) ==
    /\ request' \in [Requests -> Works]
    /\ Others(k)
    /\ request'[k].step = step
    /\ request'[k].action = request[k].action
    /\ request'[k].segment = request[k].segment
    /\ request'[k].asked = request[k].asked
    /\ request'[k].active = request[k].active
    /\ request'[k].ids = request[k].ids

\* It has read no more of a page than it had.
ReadsNothing(k) ==
    /\ request'[k].todo = request[k].todo
    /\ request'[k].tiles = request[k].tiles

\* It is at the document it was at.
Stays(k) ==
    /\ request'[k].left = request[k].left
    /\ request'[k].counted = request[k].counted

\* A request that is made, from the record of one that was not.
LEMMA Begins ==
    ASSUME Typed, NEW k \in Requests, NEW r \in Works, request' = [request EXCEPT ![k] = r]
    PROVE  request' \in [Requests -> Works] /\ Others(k) /\ request'[k] = r
BY DEF Typed, Others

LEMMA GoOnGoes ==
    ASSUME Typed, NEW k \in Requests, NEW step \in Steps, GoOn(k, step)
    PROVE  /\ Goes(k, step) /\ ReadsNothing(k) /\ Stays(k)
           /\ request'[k].planned = request[k].planned
           /\ request'[k].anchored = request[k].anchored
  <1>1. request \in [Requests -> Works] /\ request' = [request EXCEPT ![k].step = step]
    BY DEF Typed, GoOn
  <1>2. request[k] \in Works
    BY <1>1
  <1> DEFINE r == [request[k] EXCEPT !.step = step]
  <1>3. /\ r \in Works /\ r.step = step
        /\ r.action = request[k].action /\ r.segment = request[k].segment
        /\ r.asked = request[k].asked /\ r.active = request[k].active
        /\ r.ids = request[k].ids /\ r.left = request[k].left
        /\ r.todo = request[k].todo /\ r.tiles = request[k].tiles
        /\ r.counted = request[k].counted /\ r.planned = request[k].planned
        /\ r.anchored = request[k].anchored
    BY <1>2 DEF Works
  <1>4. request' = [request EXCEPT ![k] = r]
    BY <1>1
  <1> HIDE DEF r
  <1>5. request' \in [Requests -> Works] /\ Others(k) /\ request'[k] = r
    BY <1>1, <1>3, <1>4 DEF Others
  <1> QED
    BY <1>3, <1>5 DEF Goes, ReadsNothing, Stays

LEMMA ProceedGoes ==
    ASSUME Typed, NEW k \in Requests, request[k].left # <<>>, NEW counts, Proceed(k, counts)
    PROVE  /\ Goes(k, IF Len(request[k].left) = 1 THEN "answered" ELSE "loading")
           /\ ReadsNothing(k)
           /\ request'[k].left = Tail(request[k].left)
           /\ request'[k].counted = IF counts THEN request[k].counted \cup {This(k)}
                                    ELSE request[k].counted
  <1> DEFINE r == request[k]
             step == IF Len(r.left) = 1 THEN "answered" ELSE "loading"
             left == Tail(r.left)
             counted == IF counts THEN r.counted \cup {This(k)} ELSE r.counted
  <1>1. /\ request \in [Requests -> Works]
        /\ request' = [request EXCEPT ![k].step = step, ![k].left = left,
                                      ![k].counted = counted]
    BY DEF Typed, Proceed
  <1>2. r \in Works
    BY <1>1
  <1>3. step \in Steps /\ left \in Seq(Docs) /\ counted \in SUBSET Docs
    <2>1. This(k) \in Docs /\ r.left \in Seq(Docs)
      BY ThisDocument, WorkFields
    <2>2. step \in Steps
      BY DEF Steps
    <2>3. left \in Seq(Docs)
      BY <2>1
    <2>4. counted \in SUBSET Docs
      BY <2>1, WorkFields
    <2> QED
      BY <2>2, <2>3, <2>4
  <1> HIDE DEF r, step, left, counted
  <1> DEFINE a == [r EXCEPT !.step = step]
  <1>4. /\ a \in Works /\ a.step = step
        /\ a.action = r.action /\ a.segment = r.segment
        /\ a.asked = r.asked /\ a.active = r.active /\ a.ids = r.ids
        /\ a.todo = r.todo /\ a.tiles = r.tiles
    BY <1>2, <1>3 DEF Works
  <1> HIDE DEF a
  <1> DEFINE b == [a EXCEPT !.left = left]
  <1>5. /\ b \in Works /\ b.step = step /\ b.left = left
        /\ b.action = r.action /\ b.segment = r.segment
        /\ b.asked = r.asked /\ b.active = r.active /\ b.ids = r.ids
        /\ b.todo = r.todo /\ b.tiles = r.tiles
    BY <1>4, <1>3 DEF Works
  <1> HIDE DEF b
  <1> DEFINE c == [b EXCEPT !.counted = counted]
  <1>6. /\ c \in Works /\ c.step = step /\ c.left = left /\ c.counted = counted
        /\ c.action = r.action /\ c.segment = r.segment
        /\ c.asked = r.asked /\ c.active = r.active /\ c.ids = r.ids
        /\ c.todo = r.todo /\ c.tiles = r.tiles
    BY <1>5, <1>3 DEF Works
  <1>7. c = [[[r EXCEPT !.step = step] EXCEPT !.left = left] EXCEPT !.counted = counted]
    BY DEF a, b
  <1> HIDE DEF c
  <1>8. request' = [request EXCEPT ![k] = c]
    BY <1>1, <1>7 DEF r
  <1>9. request' \in [Requests -> Works] /\ Others(k) /\ request'[k] = c
    <2>1. c \in Works
      BY <1>6
    <2> QED
      BY <1>8, <2>1, Begins
  <1> QED
    BY <1>6, <1>9 DEF Goes, ReadsNothing, r, step, left, counted

LEMMA ReadingGoes ==
    ASSUME Typed, NEW k \in Requests, NEW tiles \in [Docs -> Tiles \cup {NoTile}],
           NEW todo \in Seq(Seq(Queries) \ {<<>>}), Reading(k, tiles, todo)
    PROVE  /\ Goes(k, IF todo = <<>> THEN "answered" ELSE "reading")
           /\ request'[k].tiles = tiles /\ request'[k].todo = todo
  <1> DEFINE r == request[k]
             step == IF todo = <<>> THEN "answered" ELSE "reading"
  <1>1. /\ request \in [Requests -> Works] /\ step \in Steps
        /\ request' = [request EXCEPT ![k].tiles = tiles, ![k].todo = todo,
                                      ![k].step = step]
    BY DEF Typed, Reading, Steps
  <1>2. r \in Works
    BY <1>1
  <1> HIDE DEF r, step
  <1> DEFINE a == [r EXCEPT !.tiles = tiles]
  <1>4. /\ a \in Works /\ a.tiles = tiles
        /\ a.action = r.action /\ a.segment = r.segment
        /\ a.asked = r.asked /\ a.active = r.active /\ a.ids = r.ids
    BY <1>2 DEF Works
  <1> HIDE DEF a
  <1> DEFINE b == [a EXCEPT !.todo = todo]
  <1>5. /\ b \in Works /\ b.tiles = tiles /\ b.todo = todo
        /\ b.action = r.action /\ b.segment = r.segment
        /\ b.asked = r.asked /\ b.active = r.active /\ b.ids = r.ids
    BY <1>4 DEF Works
  <1> HIDE DEF b
  <1> DEFINE c == [b EXCEPT !.step = step]
  <1>6. /\ c \in Works /\ c.step = step /\ c.tiles = tiles /\ c.todo = todo
        /\ c.action = r.action /\ c.segment = r.segment
        /\ c.asked = r.asked /\ c.active = r.active /\ c.ids = r.ids
    BY <1>5, <1>1 DEF Works
  <1>7. c = [[[r EXCEPT !.tiles = tiles] EXCEPT !.todo = todo] EXCEPT !.step = step]
    BY DEF a, b
  <1> HIDE DEF c
  <1>8. request' = [request EXCEPT ![k] = c]
    BY <1>1, <1>7 DEF r
  <1>9. request' \in [Requests -> Works] /\ Others(k) /\ request'[k] = c
    <2>1. c \in Works
      BY <1>6
    <2> QED
      BY <1>8, <2>1, Begins
  <1> QED
    BY <1>6, <1>9 DEF Goes, r, step

\* A re-chunk has wiped its document, or planned the new chunks.
LEMMA ParsingGoes ==
    ASSUME Typed, NEW k \in Requests, NEW anchored \in BOOLEAN,
           request' = [request EXCEPT ![k].step = "parsing", ![k].anchored = anchored]
    PROVE  Goes(k, "parsing") /\ ReadsNothing(k) /\ Stays(k)
  <1>1. request \in [Requests -> Works] /\ request[k] \in Works
    BY DEF Typed
  <1> DEFINE a == [request[k] EXCEPT !.step = "parsing"]
  <1>2. /\ a \in Works /\ a.step = "parsing"
        /\ a.action = request[k].action /\ a.segment = request[k].segment
        /\ a.asked = request[k].asked /\ a.active = request[k].active
        /\ a.ids = request[k].ids /\ a.left = request[k].left
        /\ a.todo = request[k].todo /\ a.tiles = request[k].tiles
        /\ a.counted = request[k].counted
    BY <1>1 DEF Works, Steps
  <1> HIDE DEF a
  <1> DEFINE b == [a EXCEPT !.anchored = anchored]
  <1>3. /\ b \in Works /\ b.step = "parsing"
        /\ b.action = request[k].action /\ b.segment = request[k].segment
        /\ b.asked = request[k].asked /\ b.active = request[k].active
        /\ b.ids = request[k].ids /\ b.left = request[k].left
        /\ b.todo = request[k].todo /\ b.tiles = request[k].tiles
        /\ b.counted = request[k].counted
    BY <1>2 DEF Works
  <1>4. request' = [request EXCEPT ![k] = b]
    BY <1>1 DEF a
  <1> HIDE DEF b
  <1>5. request' \in [Requests -> Works] /\ Others(k) /\ request'[k] = b
    BY <1>1, <1>3, <1>4 DEF Others
  <1> QED
    BY <1>3, <1>5 DEF Goes, ReadsNothing, Stays

LEMMA MarkingGoes ==
    ASSUME Typed, NEW k \in Requests, NEW planned \in Nat,
           request' = [request EXCEPT ![k].step = "marking", ![k].planned = planned]
    PROVE  /\ Goes(k, "marking") /\ ReadsNothing(k) /\ Stays(k)
           /\ request'[k].planned = planned
  <1>1. request \in [Requests -> Works] /\ request[k] \in Works
    BY DEF Typed
  <1> DEFINE a == [request[k] EXCEPT !.step = "marking"]
  <1>2. /\ a \in Works /\ a.step = "marking"
        /\ a.action = request[k].action /\ a.segment = request[k].segment
        /\ a.asked = request[k].asked /\ a.active = request[k].active
        /\ a.ids = request[k].ids /\ a.left = request[k].left
        /\ a.todo = request[k].todo /\ a.tiles = request[k].tiles
        /\ a.counted = request[k].counted
    BY <1>1 DEF Works, Steps
  <1> HIDE DEF a
  <1> DEFINE b == [a EXCEPT !.planned = planned]
  <1>3. /\ b \in Works /\ b.step = "marking" /\ b.planned = planned
        /\ b.action = request[k].action /\ b.segment = request[k].segment
        /\ b.asked = request[k].asked /\ b.active = request[k].active
        /\ b.ids = request[k].ids /\ b.left = request[k].left
        /\ b.todo = request[k].todo /\ b.tiles = request[k].tiles
        /\ b.counted = request[k].counted
    BY <1>2 DEF Works
  <1>4. request' = [request EXCEPT ![k] = b]
    BY <1>1 DEF a
  <1> HIDE DEF b
  <1>5. request' \in [Requests -> Works] /\ Others(k) /\ request'[k] = b
    BY <1>1, <1>3, <1>4 DEF Others
  <1> QED
    BY <1>3, <1>5 DEF Goes, ReadsNothing, Stays

LEMMA IdleWork == Idle \in Works
  <1>1. /\ "idle" \in Steps /\ "all" \in Segments /\ 0 \in Nat /\ FALSE \in BOOLEAN
        /\ <<>> \in Seq(Docs) /\ <<>> \in Seq(Seq(Queries) \ {<<>>})
        /\ [d \in Docs |-> NoTile] \in [Docs -> Tiles \cup {NoTile}]
    BY DEF Steps, Segments
  <1> QED
    BY <1>1 DEF Idle, Works

-----------------------------------------------------------------------------
(* Requests that are made *)

\* A step of request k leaves everything as it should be.
Fine(k) ==
    /\ request' \in [Requests -> Works]
    /\ Others(k)
    /\ Apart(k)
    /\ Sound(k)'

LEMMA KnownTags == ASSUME Typed PROVE Known \subseteq Tags
  <1>1. \A d \in Docs : documents[d].tags \subseteq Tags
    BY RowFields DEF Typed
  <1> QED
    BY <1>1 DEF Known

LEMMA GetLibraryFine ==
    ASSUME Typed, NEW k \in Requests, NEW segment \in Segments, NEW asked \in Filters,
           GetLibrary(k, segment, asked)
    PROVE  Fine(k)
  <1> DEFINE active == {Canonical[s] : s \in asked} \cap Known
             r == [Idle EXCEPT !.step = "listing", !.action = "page",
                      !.segment = segment, !.asked = asked, !.active = active]
  <1>1. active \in SUBSET Tags /\ asked \in SUBSET DOMAIN Canonical
    BY KnownTags, LibraryAssumption
  <1>2. /\ request' = [request EXCEPT ![k] = r]
        /\ UNCHANGED <<documents, stale>>
    BY DEF GetLibrary
  <1>3. Known' = Known
    BY <1>2 DEF Known
  <1>8. active = {Canonical[s] : s \in asked} \cap Known
    OBVIOUS
  <1> HIDE DEF active
  <1>4. r \in Works
    BY <1>1, IdleWork DEF Works, Steps
  <1>5. /\ r.step = "listing" /\ r.action = "page" /\ r.asked = asked /\ r.active = active
        /\ r.segment = segment
    BY <1>1, IdleWork DEF Works
  <1> HIDE DEF r
  <1>6. request' \in [Requests -> Works] /\ Others(k) /\ request'[k] = r
    BY <1>2, <1>4, Begins
  <1>7. Apart(k)
    BY <1>2, UnwrittenApart
  <1>9. Sound(k)'
    <2>1. Listing(k)'
      BY <1>3, <1>5, <1>6, <1>8 DEF Listing, At
    <2> QED
      BY <1>5, <1>6, <2>1 DEF Sound, Batching, Paging, At, Actions
  <1> QED
    BY <1>6, <1>7, <1>9 DEF Fine

LEMMA PercentTyped ==
    ASSUME NEW total \in Nat, NEW place \in {Unread} \cup [current : Nat, high : Nat]
    PROVE  Percent(total, place) \in 0 .. 100
  <1>1. CASE total = 0 \/ place = Unread
    BY <1>1 DEF Percent
  <1>2. CASE total # 0 /\ place # Unread
    <2> DEFINE a == 100 * (place.current + 1)
    <2>1. place.current \in Nat
      BY <1>2
    <2>2. a \in Nat /\ total \in Nat \ {0}
      BY <1>2, <2>1
    <2>3. Percent(total, place) = IF Rounded(a, total) > 100 THEN 100 ELSE Rounded(a, total)
      BY <1>2 DEF Percent
    <2> HIDE DEF a
    <2>4. a \div total \in Nat
      BY <2>2
    <2>5. Rounded(a, total) \in Nat
      BY <2>4 DEF Rounded
    <2> HIDE DEF Rounded
    <2> QED
      BY <2>3, <2>5
  <1> QED
    BY <1>1, <1>2

LEMMA TileTyped ==
    ASSUME NEW doc \in Rows
    PROVE  /\ TileOf(doc) \in Tiles /\ TrueTile(doc) \in Tiles
           /\ TileOf(doc) # NoTile
           /\ TileOf(doc).status = doc.status /\ TileOf(doc).title = doc.title
           /\ TileOf(doc).total = doc.total
           /\ TileOf(doc).percent = Percent(doc.total, doc.place)
           /\ TileOf(doc).high = HighWater(doc.place)
           /\ TileOf(doc).rated = <<>> /\ TileOf(doc).layout = <<>> /\ TileOf(doc).tags = {}
           /\ TrueTile(doc).status = doc.status /\ TrueTile(doc).title = doc.title
           /\ TrueTile(doc).total = doc.total
           /\ TrueTile(doc).percent = Percent(doc.total, doc.place)
           /\ TrueTile(doc).high = HighWater(doc.place)
           /\ TrueTile(doc).rated = [i \in 1 .. doc.total |-> (i - 1) \in doc.rated]
           /\ TrueTile(doc).layout = IF doc.status = "ready" /\ doc.total > 0
                                     THEN doc.sections ELSE <<>>
           /\ TrueTile(doc).tags = doc.tags
  <1> DEFINE percent == Percent(doc.total, doc.place)
             high == HighWater(doc.place)
             rated == [i \in 1 .. doc.total |-> (i - 1) \in doc.rated]
             layout == IF doc.status = "ready" /\ doc.total > 0 THEN doc.sections ELSE <<>>
             t == [status |-> doc.status, title |-> doc.title, total |-> doc.total,
                   percent |-> percent, high |-> high,
                   rated |-> <<>>, layout |-> <<>>, tags |-> {}]
             u == [t EXCEPT !.rated = rated, !.layout = layout, !.tags = doc.tags]
  <1>1. percent \in 0 .. 100
    BY RowFields, PercentTyped
  <1>2. high \in Nat
    BY RowFields DEF HighWater
  <1>3. rated \in Seq(BOOLEAN) /\ <<>> \in Seq(BOOLEAN)
    <2>1. doc.total \in Nat
      BY RowFields
    <2>2. rated \in [1 .. doc.total -> BOOLEAN]
      BY SMT
    <2> HIDE DEF rated
    <2>3. rated \in Seq(BOOLEAN)
      BY <2>1, <2>2
    <2> QED
      BY <2>3
  <1>4. layout \in Layouts \cup {<<>>}
    BY RowFields
  <1>5. TileOf(doc) = t
    BY DEF TileOf
  <1> HIDE DEF percent, high, rated, layout
  <1>6. t \in Tiles
    BY <1>1, <1>2, <1>3, <1>4, RowFields DEF Tiles
  <1>7. /\ t.status = doc.status /\ t.title = doc.title /\ t.total = doc.total
        /\ t.percent = percent /\ t.high = high
        /\ t.rated = <<>> /\ t.layout = <<>> /\ t.tags = {}
    OBVIOUS
  <1> HIDE DEF t
  <1>8. /\ u \in Tiles
        /\ u.status = doc.status /\ u.title = doc.title /\ u.total = doc.total
        /\ u.percent = percent /\ u.high = high
        /\ u.rated = rated /\ u.layout = layout /\ u.tags = doc.tags
    BY <1>3, <1>4, <1>6, <1>7, RowFields DEF Tiles
  <1>9. TrueTile(doc) = u
    BY <1>5 DEF TrueTile, rated, layout
  <1> HIDE DEF u
  <1>10. t # NoTile
    BY <1>6, LibraryAssumption
  <1> QED
    BY <1>5, <1>6, <1>7, <1>8, <1>9, <1>10 DEF percent, high, rated, layout

LEMMA RenameFine ==
    ASSUME Typed, NEW k \in Requests, NEW d \in Docs, Rename(k, d)
    PROVE  Fine(k)
  <1> DEFINE doc == documents[d]
             tile == [TileOf(doc) EXCEPT !.title = "new"]
             ids == <<d>>
  <1>1. UNCHANGED <<documents, stale>>
    BY DEF Rename
  <1>2. Apart(k)
    BY <1>1, UnwrittenApart
  <1>3. ids \in Seq(Docs) /\ Len(ids) = 1 /\ ids[1] = d
    OBVIOUS
  <1>4. CASE Exists(d)
    <2> DEFINE tiles == [Idle.tiles EXCEPT ![d] = tile]
               r == [Idle EXCEPT !.step = "renaming", !.action = "rename", !.ids = ids,
                                 !.tiles[d] = tile]
    <2>1. doc \in Rows
      BY DEF Typed
    <2>2. tile \in Tiles
      <3> DEFINE t == TileOf(doc)
      <3>1. t \in Tiles /\ tile = [t EXCEPT !.title = "new"]
        BY <2>1, TileTyped
      <3> HIDE DEF t, tile
      <3> QED
        BY <3>1 DEF Tiles
    <2>3. tile # NoTile
      BY <2>2, LibraryAssumption
    <2>4. request' = [request EXCEPT ![k] = r]
      BY <1>4 DEF Rename
    <2>5. tile = [TileOf(documents[d]) EXCEPT !.title = "new"]
      OBVIOUS
    <2> HIDE DEF tile, ids
    <2>6. Idle.tiles = [e \in Docs |-> NoTile]
      BY DEF Idle
    <2>7. /\ tiles \in [Docs -> Tiles \cup {NoTile}]
          /\ tiles[d] = tile
          /\ \A e \in Docs \ {d} : tiles[e] = NoTile
      BY <2>2, <2>6
    <2>8. r = [Idle EXCEPT !.step = "renaming", !.action = "rename", !.ids = ids,
                           !.tiles = tiles]
      OBVIOUS
    <2> HIDE DEF r, tiles
    <2>9. /\ r \in Works
          /\ r.step = "renaming" /\ r.action = "rename" /\ r.ids = ids /\ r.tiles = tiles
      BY <1>3, <2>7, <2>8, IdleWork DEF Works, Steps
    <2>10. request' \in [Requests -> Works] /\ Others(k) /\ request'[k] = r
      BY <2>4, <2>9, Begins
    <2>11. Renaming(k)'
      BY <1>1, <1>3, <1>4, <2>3, <2>5, <2>7, <2>9, <2>10 DEF Renaming, Exists, TileOf
    <2>12. Sound(k)'
      BY <2>9, <2>10, <2>11 DEF Sound, Batching, Paging, At, Actions
    <2> QED
      BY <1>2, <2>10, <2>12 DEF Fine
  <1>5. CASE ~Exists(d)
    <2> DEFINE r == [Idle EXCEPT !.step = "failed", !.action = "rename", !.ids = ids]
    <2>1. request' = [request EXCEPT ![k] = r]
      BY <1>5 DEF Rename
    <2> HIDE DEF ids
    <2>2. r \in Works /\ r.step = "failed" /\ r.action = "rename"
      BY <1>3, IdleWork DEF Works, Steps
    <2> HIDE DEF r
    <2>3. request' \in [Requests -> Works] /\ Others(k) /\ request'[k] = r
      BY <2>1, <2>2, Begins
    <2>4. Sound(k)'
      BY <2>2, <2>3 DEF Sound, Batching, Paging, Renaming, At, Actions
    <2> QED
      BY <1>2, <2>3, <2>4 DEF Fine
  <1> QED
    BY <1>4, <1>5

\* A set of one spelling of a tag is not empty.
LEMMA AskedTag ==
    ASSUME NEW asked \in Filters, Cardinality(asked) = 1,
           asked \subseteq {s \in DOMAIN Canonical : Canonical[s] # Invalid}
    PROVE  asked # {} /\ Canonical[CHOOSE s \in asked : TRUE] \in Tags
  <1>1. IsFiniteSet(asked) /\ asked # {}
    BY FS_EmptySet, LibraryAssumption
  <1>2. (CHOOSE s \in asked : TRUE) \in asked
    BY <1>1
  <1> QED
    BY <1>1, <1>2, LibraryAssumption

LEMMA BatchFine ==
    ASSUME Typed, NEW k \in Requests, NEW action \in Actions, NEW ids \in Selections,
           NEW asked \in Filters, Batch(k, action, ids, asked)
    PROVE  Fine(k)
  <1> DEFINE r == [Idle EXCEPT !.step = "loading", !.action = action, !.asked = asked,
                               !.ids = ids, !.left = ids]
  <1>1. /\ request' = [request EXCEPT ![k] = r]
        /\ UNCHANGED <<documents, stale>>
        /\ asked \subseteq {s \in DOMAIN Canonical : Canonical[s] # Invalid}
        /\ action \in {"tag", "untag"} => Cardinality(asked) = 1
    BY DEF Batch
  <1>2. Apart(k)
    BY <1>1, UnwrittenApart
  <1>3. /\ ids \in Seq(Docs) /\ ids # <<>>
        /\ \A i, j \in DOMAIN ids : ids[i] = ids[j] => i = j
        /\ asked \in SUBSET DOMAIN Canonical
    BY LibraryAssumption
  <1>4. /\ r \in Works /\ r.step = "loading" /\ r.action = action /\ r.asked = asked
        /\ r.ids = ids /\ r.left = ids /\ r.counted = Idle.counted
    BY <1>3, IdleWork DEF Works, Steps
  <1>5. Idle.counted = {}
    BY DEF Idle
  <1> HIDE DEF r
  <1>6. request' \in [Requests -> Works] /\ Others(k) /\ request'[k] = r
    BY <1>1, <1>4, Begins
  <1>7. Len(ids) \in Nat \ {0}
    BY <1>3
  <1>8. Behind(k)' = 0
    BY <1>4, <1>6, <1>7 DEF Behind
  <1>9. Shaped(k)'
    <2>1. action \in {"tag", "untag"} => asked # {} /\ Tag(k)' \in Tags
      BY <1>1, <1>4, <1>6, AskedTag DEF Tag
    <2>2. \A i \in DOMAIN ids : ids[i] = ids[0 + i]
      BY <1>3
    <2> QED
      BY <1>3, <1>4, <1>5, <1>6, <1>7, <1>8, <2>1, <2>2 DEF Shaped, At
  <1>10. ServedBehind(k)' /\ Midway(k)' /\ Excused(k)'
    BY <1>4, <1>6, <1>8 DEF ServedBehind, Midway, Excused, Does, At
  <1>11. Sound(k)'
    BY <1>4, <1>6, <1>9, <1>10 DEF Sound, Batching, Paging, At, Actions
  <1> QED
    BY <1>2, <1>6, <1>11 DEF Fine

LEMMA PressButtonFine ==
    ASSUME Typed, NEW k \in Requests, NEW action \in Actions, NEW d \in Docs,
           PressButton(k, action, d)
    PROVE  Fine(k)
  <1> DEFINE ids == <<d>>
             step == IF action = "delete" \/ Exists(d) THEN "acting" ELSE "failed"
             r == [Idle EXCEPT !.step = step, !.action = action, !.ids = ids, !.left = ids]
  <1>1. /\ request' = [request EXCEPT ![k] = r]
        /\ UNCHANGED <<documents, stale>>
        /\ action \in {"delete", "rechunk"}
    BY DEF PressButton
  <1>2. Apart(k)
    BY <1>1, UnwrittenApart
  <1>3. ids \in Seq(Docs) /\ Len(ids) = 1 /\ ids[1] = d /\ ids # <<>> /\ DOMAIN ids = {1}
    OBVIOUS
  <1>4. /\ step \in Steps /\ step \in {"acting", "failed"}
        /\ step = "failed" => ~Exists(d)
    BY DEF Steps
  <1> HIDE DEF ids, step
  <1>5. /\ r \in Works /\ r.step = step /\ r.action = action
        /\ r.ids = ids /\ r.left = ids /\ r.counted = Idle.counted
    BY <1>3, <1>4, IdleWork DEF Works
  <1>6. Idle.counted = {}
    BY DEF Idle
  <1> HIDE DEF r
  <1>7. request' \in [Requests -> Works] /\ Others(k) /\ request'[k] = r
    BY <1>1, <1>5, Begins
  <1>8. Behind(k)' = 0
    BY <1>3, <1>5, <1>7 DEF Behind
  <1>9. Shaped(k)'
    BY <1>1, <1>3, <1>4, <1>5, <1>6, <1>7, <1>8 DEF Shaped, At
  <1>10. ServedBehind(k)' /\ Midway(k)'
    BY <1>1, <1>4, <1>5, <1>7, <1>8 DEF ServedBehind, Midway, Does, At
  <1>11. Excused(k)'
    BY <1>1, <1>3, <1>4, <1>5, <1>7 DEF Excused, At, Exists
  <1>12. Sound(k)'
    BY <1>4, <1>5, <1>7, <1>9, <1>10, <1>11 DEF Sound, Batching, Paging, At, Actions
  <1> QED
    BY <1>2, <1>7, <1>12 DEF Fine

-----------------------------------------------------------------------------
(* A batch at work *)

LEMMA BusyBatch ==
    ASSUME Typed, NEW k \in Requests, Sound(k),
           request[k].step \in {"loading", "acting", "parsing", "marking", "placing"}
    PROVE  /\ request[k].action \in Actions
           /\ Shaped(k) /\ ServedBehind(k) /\ Midway(k)
           /\ request[k].left # <<>>
           /\ This(k) \in Docs
           /\ request[k].step \in {"parsing", "marking", "placing"}
                => request[k].action = "rechunk"
           /\ request[k].action \in {"tag", "untag"} => Tag(k) \in Tags
  <1>1. request[k].action \in {"none", "page", "rename"} \cup Actions
    BY WorkFields DEF Works
  <1>2. request[k].action \in Actions
    BY <1>1 DEF Sound, Paging, Listing, Renaming, At
  <1>3. Shaped(k) /\ ServedBehind(k) /\ Midway(k)
    BY <1>2 DEF Sound, Batching
  <1>4. request[k].left # <<>>
    BY <1>3 DEF Shaped, At
  <1> QED
    BY <1>2, <1>3, <1>4, ThisDocument DEF Shaped

\* What a batch stands before: the next of its ids, that it has not counted.
LEMMA Before ==
    ASSUME Typed, NEW k \in Requests, Shaped(k), request[k].left # <<>>
    PROVE  /\ Behind(k) \in Nat /\ Behind(k) < Len(request[k].ids)
           /\ Len(request[k].ids) \in Nat
           /\ This(k) = request[k].ids[Behind(k) + 1]
           /\ This(k) \notin request[k].counted
           /\ \A i \in 1 .. Behind(k) : request[k].ids[i] # This(k)
           /\ \A i \in 1 .. Len(request[k].left) - 1 :
                /\ Tail(request[k].left)[i] = request[k].ids[(Behind(k) + 1) + i]
                /\ Tail(request[k].left)[i] # This(k)
                /\ Tail(request[k].left)[i] \notin request[k].counted
           /\ Len(Tail(request[k].left)) = Len(request[k].left) - 1
           /\ DOMAIN Tail(request[k].left) = 1 .. Len(request[k].left) - 1
           /\ Tail(request[k].left) = <<>> <=> Len(request[k].left) = 1
  <1> DEFINE ids == request[k].ids
             left == request[k].left
             b == Behind(k)
             n == Len(left)
  <1>1. ids \in Seq(Docs) /\ left \in Seq(Docs) /\ left # <<>>
    BY WorkFields
  <1>2. /\ \A i, j \in DOMAIN ids : ids[i] = ids[j] => i = j
        /\ n <= Len(ids)
        /\ \A i \in DOMAIN left : left[i] = ids[b + i] /\ left[i] \notin request[k].counted
        /\ b = Len(ids) - n
        /\ This(k) = left[1]
    BY ThisDocument DEF Shaped, Behind
  <1> HIDE DEF ids, left, b
  <1>3. /\ n \in Nat \ {0} /\ Len(ids) \in Nat /\ DOMAIN ids = 1 .. Len(ids)
        /\ DOMAIN left = 1 .. n
    BY <1>1
  <1>4. /\ Len(Tail(left)) = n - 1
        /\ DOMAIN Tail(left) = 1 .. n - 1
        /\ \A i \in 1 .. n - 1 : Tail(left)[i] = left[i + 1]
        /\ Tail(left) = <<>> <=> n = 1
    <2>1. /\ Tail(left) \in Seq(Docs) /\ Len(Tail(left)) = n - 1
          /\ \A i \in 1 .. n - 1 : Tail(left)[i] = left[i + 1]
      BY <1>1, HeadTailProperties
    <2> DEFINE t == Tail(left)
    <2> HIDE DEF t, n
    <2>2. t \in Seq(Docs) /\ Len(t) = n - 1
      BY <2>1 DEF t
    <2>3. DOMAIN t = 1 .. n - 1 /\ (t = <<>> <=> n = 1)
      BY <1>3, <2>2
    <2> QED
      BY <2>1, <2>3 DEF t
  <1> HIDE DEF n
  <1>5. b \in Nat /\ b < Len(ids)
    BY <1>2, <1>3
  <1>6. left[1] = ids[b + 1] /\ left[1] \notin request[k].counted
    BY <1>2, <1>3
  <1>7. \A i \in 1 .. b : ids[i] # left[1]
    BY <1>2, <1>3, <1>5, <1>6
  <1>8. \A i \in 1 .. n - 1 : /\ left[i + 1] = ids[b + 1 + i]
                              /\ left[i + 1] # left[1]
                              /\ left[i + 1] \notin request[k].counted
    <2> SUFFICES ASSUME NEW i \in 1 .. n - 1
                 PROVE  /\ left[i + 1] = ids[b + 1 + i] /\ left[i + 1] # left[1]
                        /\ left[i + 1] \notin request[k].counted
      OBVIOUS
    <2>1. i + 1 \in DOMAIN left /\ b + (i + 1) = b + 1 + i
          /\ b + 1 + i \in DOMAIN ids /\ b + 1 \in DOMAIN ids /\ b + 1 + i # b + 1
      BY <1>2, <1>3, <1>5
    <2>2. left[i + 1] = ids[b + (i + 1)] /\ left[i + 1] \notin request[k].counted
      BY <1>2, <2>1
    <2> QED
      BY <1>2, <1>6, <2>1, <2>2
  <1>9. \A i \in 1 .. n - 1 : /\ Tail(left)[i] = ids[(b + 1) + i]
                              /\ Tail(left)[i] # left[1]
                              /\ Tail(left)[i] \notin request[k].counted
    BY <1>4, <1>8
  <1> QED
    BY <1>2, <1>3, <1>4, <1>5, <1>6, <1>7, <1>9 DEF ids, left, b, n

\* A batch that has served the document it was at goes on.
LEMMA ProceedFine ==
    ASSUME Typed, NEW k \in Requests, Sound(k),
           request[k].step \in {"loading", "acting", "parsing", "marking", "placing"},
           NEW d \in Docs, d = This(k), Apart(k),
           \A e \in Docs \ {d} : documents'[e] = documents[e],
           NEW counts \in BOOLEAN, Proceed(k, counts),
           d \notin stale[k] => Served(k, d)'
    PROVE  Fine(k)
  <1>1. /\ request[k].action \in Actions /\ Shaped(k) /\ ServedBehind(k)
        /\ request[k].left # <<>>
    BY BusyBatch
  <1> DEFINE step == IF Len(request[k].left) = 1 THEN "answered" ELSE "loading"
  <1>2. /\ Goes(k, step) /\ ReadsNothing(k)
        /\ request'[k].left = Tail(request[k].left)
        /\ request'[k].counted = IF counts THEN request[k].counted \cup {d}
                                 ELSE request[k].counted
    BY <1>1, ProceedGoes
  <1>3. /\ request'[k].step = step /\ request'[k].action = request[k].action
        /\ request'[k].asked = request[k].asked /\ request'[k].ids = request[k].ids
    BY <1>2 DEF Goes
  <1>4. stale'[k] = stale[k]
    BY DEF Apart
  <1>5. Behind(k)' = Behind(k) + 1
    <2> DEFINE a == Len(request[k].ids)
               b == Len(request[k].left)
    <2>1. a \in Nat /\ b \in Nat /\ Behind(k) = a - b
      BY BehindTyped DEF Behind
    <2>2. Len(request'[k].left) = b - 1 /\ Len(request'[k].ids) = a
      BY <1>1, <1>2, <1>3, Before
    <2>3. Behind(k)' = Len(request'[k].ids) - Len(request'[k].left)
      BY DEF Behind
    <2> HIDE DEF a, b
    <2> QED
      BY <2>1, <2>2, <2>3
  <1>6. Tag(k)' = Tag(k)
    BY <1>3 DEF Tag
  <1>7. Shaped(k)'
    <2>1. \A i \in DOMAIN request'[k].left :
            /\ request'[k].left[i] = request'[k].ids[Behind(k)' + i]
            /\ request'[k].left[i] \notin request'[k].counted
      <3> DEFINE n == Len(request[k].left)
                 left == Tail(request[k].left)
      <3>1. /\ DOMAIN left = 1 .. n - 1
            /\ \A i \in 1 .. n - 1 : /\ left[i] = request[k].ids[(Behind(k) + 1) + i]
                                      /\ left[i] # d
                                      /\ left[i] \notin request[k].counted
        BY <1>1, Before
      <3>2. request'[k].left = left
        BY <1>2
      <3>3. /\ request'[k].counted \subseteq request[k].counted \cup {d}
            /\ request'[k].ids = request[k].ids
        BY <1>2, <1>3
      <3>4. \A i : request'[k].ids[Behind(k)' + i] = request[k].ids[(Behind(k) + 1) + i]
        BY <1>3, <1>5
      <3> HIDE DEF left, n
      <3> QED
        BY ONLY <3>1, <3>2, <3>3, <3>4
    <2>2. step = "answered" <=> request'[k].left = <<>>
      BY <1>1, <1>2, Before
    <2>3. Len(request'[k].left) <= Len(request'[k].ids)
      BY <1>1, <1>2, <1>3, Before, BehindTyped DEF Shaped
    <2> QED
      BY <1>1, <1>3, <1>6, <2>1, <2>2, <2>3 DEF Shaped, At
  <1>8. ServedBehind(k)'
    <2> SUFFICES ASSUME NEW i \in 1 .. Behind(k) + 1, request[k].ids[i] \notin stale[k]
                 PROVE  Served(k, request[k].ids[i])'
      BY <1>3, <1>4, <1>5 DEF ServedBehind
    <2>1. CASE i = Behind(k) + 1
      <3>1. request[k].ids[i] = d
        BY <1>1, <2>1, Before
      <3>2. request'[k].ids[i] = d
        BY <1>3, <3>1
      <3> QED
        BY <3>1, <3>2 DEF Served, Exists
    <2>2. CASE i \in 1 .. Behind(k)
      <3> DEFINE e == request[k].ids[i]
      <3>1. e \in Docs /\ e # d /\ Served(k, e)
        BY <1>1, <2>2, Before, BehindTyped DEF ServedBehind
      <3>2. documents'[e] = documents[e] /\ e' = e
            /\ (e \in request'[k].counted <=> e \in request[k].counted)
        BY <1>2, <1>3, <3>1
      <3> HIDE DEF e
      <3>3. Served(k, e)'
        BY <1>3, <1>6, <3>1, <3>2 DEF Served, Exists
      <3> QED
        BY <3>3 DEF e
    <2> QED
      BY <1>1, <2>1, <2>2, Before
  <1>9. Midway(k)' /\ Excused(k)'
    BY <1>3 DEF Midway, Excused, Does, At
  <1>10. /\ request'[k].action # "none" /\ request'[k].action \notin {"page", "rename"}
         /\ request'[k].step \notin {"idle", "reading"}
    BY <1>1, <1>3 DEF Actions
  <1>12. Sound(k)'
    BY <1>7, <1>8, <1>9, <1>10 DEF Sound, Batching, Paging, At
  <1> QED
    BY <1>2, <1>12 DEF Fine, Goes

\* A batch that takes another step with the document it is at.
LEMMA StayFine ==
    ASSUME Typed, NEW k \in Requests, Sound(k),
           request[k].step \in {"loading", "acting", "parsing", "marking", "placing"},
           NEW d \in Docs, d = This(k), Apart(k),
           \A e \in Docs \ {d} : documents'[e] = documents[e],
           NEW step \in {"acting", "parsing", "marking", "placing", "failed"},
           step \in {"parsing", "marking", "placing"} => request[k].action = "rechunk",
           Goes(k, step), ReadsNothing(k), Stays(k), Midway(k)', Excused(k)'
    PROVE  Fine(k)
  <1>1. /\ request[k].action \in Actions /\ Shaped(k) /\ ServedBehind(k)
        /\ request[k].left # <<>>
    BY BusyBatch
  <1>2. /\ request'[k].left = request[k].left
        /\ request'[k].counted = request[k].counted
        /\ request'[k].step = step /\ request'[k].action = request[k].action
        /\ request'[k].asked = request[k].asked /\ request'[k].ids = request[k].ids
    BY DEF Goes, Stays
  <1>3. stale'[k] = stale[k]
    BY DEF Apart
  <1>4. Behind(k)' = Behind(k) /\ Tag(k)' = Tag(k)
    BY <1>2 DEF Behind, Tag
  <1>5. Shaped(k)'
    BY <1>1, <1>2, <1>4 DEF Shaped, At
  <1>6. ServedBehind(k)'
    <2> SUFFICES ASSUME NEW i \in 1 .. Behind(k), request[k].ids[i] \notin stale[k]
                 PROVE  Served(k, request[k].ids[i])'
      BY <1>2, <1>3, <1>4 DEF ServedBehind
    <2> DEFINE e == request[k].ids[i]
    <2>1. e \in Docs /\ e # d /\ Served(k, e)
      BY <1>1, Before, BehindTyped DEF ServedBehind
    <2>2. documents'[e] = documents[e] /\ e' = e
      BY <1>2, <2>1
    <2> HIDE DEF e
    <2>3. Served(k, e)'
      BY <1>2, <1>4, <2>1, <2>2 DEF Served, Exists
    <2> QED
      BY <2>3 DEF e
  <1>7. /\ request'[k].action # "none" /\ request'[k].action \notin {"page", "rename"}
        /\ request'[k].step \notin {"idle", "reading"}
    BY <1>1, <1>2 DEF Actions
  <1>8. Sound(k)'
    BY <1>5, <1>6, <1>7 DEF Sound, Batching, Paging, At
  <1> QED
    BY <1>8 DEF Fine, Goes

LEMMA LoadFine ==
    ASSUME Typed, NEW k \in Requests, Sound(k), Load(k)
    PROVE  Fine(k)
  <1>1. /\ request[k].step = "loading"
        /\ UNCHANGED <<documents, stale>>
        /\ Apart(k)
    BY UnwrittenApart DEF Load, At
  <1> DEFINE d == This(k)
  <1>2. /\ request[k].action \in Actions /\ Shaped(k) /\ d \in Docs
        /\ request[k].left # <<>>
    BY <1>1, BusyBatch
  <1>3. CASE ~Exists(d) \/ (request[k].action = "rechunk" /\ documents[d].status # "ready")
    <2>1. Proceed(k, FALSE)
      BY <1>3 DEF Load
    <2>2. Goes(k, IF Len(request[k].left) = 1 THEN "answered" ELSE "loading")
      BY <1>2, <2>1, ProceedGoes
    <2>3. request'[k].action = request[k].action /\ request'[k].counted = request[k].counted
      BY <1>2, <2>1, <2>2, ProceedGoes DEF Goes
    <2>4. d \notin request[k].counted
      BY <1>2, Before
    <2>5. PICK f \in Docs : f = This(k)
      BY <1>2
    <2> HIDE DEF d
    <2>6. ~Exists(f) => documents[f] = Gone
      BY ExistsStored
    <2>7. Served(k, f)'
      <3>1. documents'[f] = documents[f] /\ Exists(f)' = Exists(f)
        BY <1>1 DEF Exists
      <3>2. f \notin request'[k].counted
        BY <2>3, <2>4, <2>5 DEF d
      <3>3. request[k].action # "rechunk" => documents[f].tags = {} /\ ~Exists(f)
        BY <1>3, <2>5, <2>6, GoneIsNone DEF d
      <3> QED
        BY <1>2, <2>3, <3>1, <3>2, <3>3 DEF Served, Actions
    <2>8. \A e \in Docs \ {f} : documents'[e] = documents[e]
      BY <1>1
    <2> QED
      BY <1>1, <2>1, <2>5, <2>7, <2>8, ProceedFine
  <1>4. CASE ~(~Exists(d) \/ (request[k].action = "rechunk" /\ documents[d].status # "ready"))
    <2>1. GoOn(k, "acting")
      BY <1>4 DEF Load
    <2>2. Goes(k, "acting") /\ ReadsNothing(k) /\ Stays(k)
      BY <2>1, GoOnGoes DEF Steps
    <2>3. request'[k].step = "acting" /\ This(k)' = This(k)
      BY <2>2 DEF Goes, Stays, This
    <2>4. Midway(k)'
      BY <1>1, <1>4, <2>3 DEF Midway, At, Does, Exists
    <2>5. Excused(k)'
      BY <2>3 DEF Excused, At
    <2> QED
      BY <1>1, <1>2, <2>2, <2>4, <2>5, StayFine
  <1> QED
    BY <1>3, <1>4

LEMMA DeleteFine ==
    ASSUME Typed, NEW k \in Requests, Sound(k), Delete(k)
    PROVE  Fine(k)
  <1>1. /\ request[k].step = "acting" /\ request[k].action = "delete"
        /\ Write(k, This(k), Gone)
        /\ Proceed(k, Exists(This(k)))
    BY DEF Delete, Does, At
  <1>2. PICK d \in Docs : d = This(k)
    BY <1>1, BusyBatch
  <1>3. Gone \in Rows
    BY DEF Rows
  <1>4. Apart(k) /\ documents' = [documents EXCEPT ![d] = Gone]
    BY <1>1, <1>2, <1>3, WriteApart
  <1>5. /\ documents'[d] = Gone
        /\ \A e \in Docs \ {d} : documents'[e] = documents[e]
    BY <1>4 DEF Typed
  <1>6. request'[k].action = "delete"
    BY <1>1, BusyBatch, ProceedGoes DEF Goes
  <1>7. Served(k, d)'
    BY <1>5, <1>6 DEF Served, Exists
  <1>8. Exists(This(k)) \in BOOLEAN
    BY DEF Exists
  <1> QED
    BY <1>1, <1>2, <1>4, <1>5, <1>7, <1>8, ProceedFine

LEMMA AddTagFine ==
    ASSUME Typed, NEW k \in Requests, Sound(k), AddTag(k)
    PROVE  Fine(k)
  <1>1. request[k].step = "acting" /\ request[k].action = "tag"
    BY DEF AddTag, Does, At
  <1>2. PICK d \in Docs : d = This(k)
    BY <1>1, BusyBatch
  <1>3. Tag(k) \in Tags /\ Midway(k) /\ request[k].left # <<>>
    BY <1>1, BusyBatch
  <1>4. CASE Exists(d)
    <2> DEFINE new == [documents[d] EXCEPT !.tags = @ \cup {Tag(k)}]
    <2>1. Write(k, d, new) /\ Proceed(k, Tag(k) \notin documents[d].tags)
      BY <1>2, <1>4 DEF AddTag
    <2>2. documents[d] \in Stored
      BY <1>4, ExistsStored
    <2>3. new \in Rows /\ new.tags = documents[d].tags \cup {Tag(k)}
      <3> DEFINE T == documents[d].tags \cup {Tag(k)}
      <3>1. T \in SUBSET Tags
        BY <1>3, <2>2, StoredFields
      <3>2. new = [documents[d] EXCEPT !.tags = T]
        OBVIOUS
      <3> HIDE DEF T, new
      <3>3. new \in Stored
        BY <2>2, <3>1, <3>2, StoredWrites
      <3>4. new.tags = T
        BY <2>2, <3>2 DEF Stored
      <3> QED
        BY <3>3, <3>4 DEF Rows, T
    <2> HIDE DEF new
    <2>4. Apart(k) /\ documents' = [documents EXCEPT ![d] = new]
      BY <1>4, <2>1, <2>3, WriteApart
    <2>5. /\ documents'[d] = new
          /\ \A e \in Docs \ {d} : documents'[e] = documents[e]
      BY <2>4 DEF Typed
    <2>6. request'[k].action = "tag" /\ request'[k].asked = request[k].asked
      BY <1>1, <1>3, <2>1, ProceedGoes DEF Goes
    <2>7. Tag(k)' = Tag(k)
      BY <2>6 DEF Tag
    <2>8. Served(k, d)'
      BY <2>3, <2>5, <2>6, <2>7 DEF Served, Exists
    <2> DEFINE counts == Tag(k) \notin documents[d].tags
    <2>9. counts \in BOOLEAN
      OBVIOUS
    <2> HIDE DEF counts
    <2>10. Proceed(k, counts)
      BY <2>1 DEF counts
    <2> QED
      BY <1>1, <1>2, <2>4, <2>5, <2>8, <2>9, <2>10, ProceedFine
  <1>5. CASE ~Exists(d)
    <2>1. GoOn(k, "failed") /\ UNCHANGED <<documents, stale>>
      BY <1>2, <1>5 DEF AddTag
    <2>2. Goes(k, "failed") /\ ReadsNothing(k) /\ Stays(k) /\ Apart(k)
      BY <2>1, GoOnGoes, UnwrittenApart DEF Steps
    <2>3. request'[k].step = "failed" /\ This(k)' = d /\ request'[k].action = "tag"
      BY <1>1, <1>2, <2>2 DEF Goes, Stays, This
    <2>4. d \in stale[k]
      BY <1>1, <1>2, <1>3, <1>5 DEF Midway, Does, At
    <2>5. Midway(k)' /\ Excused(k)'
      BY <1>5, <2>1, <2>3, <2>4 DEF Midway, Excused, At, Does, Exists
    <2>6. \A e \in Docs \ {d} : documents'[e] = documents[e]
      BY <2>1
    <2> QED
      BY <1>1, <1>2, <2>2, <2>5, <2>6, StayFine
  <1> QED
    BY <1>4, <1>5

LEMMA RemoveTagFine ==
    ASSUME Typed, NEW k \in Requests, Sound(k), RemoveTag(k)
    PROVE  Fine(k)
  <1>1. request[k].step = "acting" /\ request[k].action = "untag"
    BY DEF RemoveTag, Does, At
  <1>2. PICK d \in Docs : d = This(k)
    BY <1>1, BusyBatch
  <1>3. Tag(k) \in Tags /\ request[k].left # <<>>
    BY <1>1, BusyBatch
  <1> DEFINE new == [documents[d] EXCEPT !.tags = @ \ {Tag(k)}]
             counts == Tag(k) \in documents[d].tags
  <1>4. Write(k, d, new) /\ Proceed(k, counts)
    BY <1>2 DEF RemoveTag
  <1>5. new \in Rows /\ new.tags = documents[d].tags \ {Tag(k)} /\ (~Exists(d) => new = Gone)
    <2> DEFINE T == documents[d].tags \ {Tag(k)}
    <2>1. new = [documents[d] EXCEPT !.tags = T]
      OBVIOUS
    <2>2. documents[d] \in Rows /\ T \in SUBSET Tags
      BY RowFields DEF Typed
    <2> HIDE DEF new
    <2>3. CASE Exists(d)
      <3>1. documents[d] \in Stored
        BY <2>3, ExistsStored
      <3> HIDE DEF T
      <3>2. new \in Stored
        BY <2>1, <2>2, <3>1, StoredWrites
      <3>3. new.tags = T
        BY <2>1, <3>1 DEF Stored
      <3> QED
        BY <2>3, <3>2, <3>3 DEF Rows, T
    <2>4. CASE ~Exists(d)
      <3>1. documents[d] = Gone /\ T = {}
        BY <2>4, ExistsStored, GoneIsNone
      <3> HIDE DEF T
      <3>2. new = [Gone EXCEPT !.tags = {}]
        BY <2>1, <3>1
      <3>3. new = Gone
        BY <3>2 DEF Gone
      <3> QED
        BY <3>1, <3>3, GoneIsNone DEF Rows, T
    <2> QED
      BY <2>3, <2>4
  <1>6. counts \in BOOLEAN
    OBVIOUS
  <1> HIDE DEF new, counts
  <1>7. Apart(k) /\ documents' = [documents EXCEPT ![d] = new]
    BY <1>4, <1>5, WriteApart
  <1>8. /\ documents'[d] = new
        /\ \A e \in Docs \ {d} : documents'[e] = documents[e]
    BY <1>7 DEF Typed
  <1>9. request'[k].action = "untag" /\ request'[k].asked = request[k].asked
    BY <1>1, <1>3, <1>4, ProceedGoes DEF Goes
  <1>10. Tag(k)' = Tag(k)
    BY <1>9 DEF Tag
  <1>11. Served(k, d)'
    BY <1>5, <1>8, <1>9, <1>10 DEF Served
  <1> QED
    BY <1>1, <1>2, <1>4, <1>6, <1>7, <1>8, <1>11, ProceedFine

LEMMA WipeFine ==
    ASSUME Typed, NEW k \in Requests, Sound(k), Wipe(k)
    PROVE  Fine(k)
  <1>1. request[k].step = "acting" /\ request[k].action = "rechunk"
    BY DEF Wipe, Does, At
  <1>2. PICK d \in Docs : d = This(k)
    BY <1>1, BusyBatch
  <1>3. request[k].left # <<>>
    BY <1>1, BusyBatch
  <1>4. CASE Exists(d)
    <2> DEFINE new == [documents[d] EXCEPT !.sections = <<>>, !.rated = {}]
               anchored == documents[d].sections # <<>>
    <2>1. /\ Write(k, d, new)
          /\ request' = [request EXCEPT ![k].step = "parsing", ![k].anchored = anchored]
      BY <1>2, <1>4 DEF Wipe
    <2>2. new \in Rows /\ new.sections = <<>>
      <3>1. documents[d] \in Stored
        BY <1>4, ExistsStored
      <3>2. new \in Stored
        BY <3>1, StoredWrites
      <3>3. new.sections = <<>>
        <4> DEFINE a == [documents[d] EXCEPT !.sections = <<>>]
        <4>1. a.sections = <<>> /\ new = [a EXCEPT !.rated = {}]
          BY <3>1 DEF Stored
        <4> HIDE DEF a, new
        <4> QED
          BY <4>1
      <3> HIDE DEF new
      <3> QED
        BY <3>2, <3>3 DEF Rows
    <2>3. anchored \in BOOLEAN
      OBVIOUS
    <2> HIDE DEF new, anchored
    <2>4. Apart(k) /\ documents' = [documents EXCEPT ![d] = new]
      BY <1>4, <2>1, <2>2, WriteApart
    <2>5. /\ documents'[d] = new
          /\ \A e \in Docs \ {d} : documents'[e] = documents[e]
      BY <2>4 DEF Typed
    <2>6. Goes(k, "parsing") /\ ReadsNothing(k) /\ Stays(k)
      BY <2>1, <2>3, ParsingGoes
    <2>7. request'[k].step = "parsing" /\ This(k)' = d
      BY <1>2, <2>6 DEF Goes, Stays, This
    <2>8. Midway(k)' /\ Excused(k)'
      BY <2>2, <2>5, <2>7 DEF Midway, Excused, At, Does
    <2> QED
      BY <1>1, <1>2, <2>4, <2>5, <2>6, <2>8, StayFine
  <1>5. CASE ~Exists(d)
    <2>1. Proceed(k, TRUE) /\ UNCHANGED <<documents, stale>>
      BY <1>2, <1>5 DEF Wipe
    <2>2. Apart(k) /\ \A e \in Docs \ {d} : documents'[e] = documents[e]
      BY <2>1, UnwrittenApart
    <2>3. request'[k].action = "rechunk"
      BY <1>1, <1>3, <2>1, ProceedGoes DEF Goes
    <2>4. documents'[d].status = "gone"
      BY <1>5, <2>1, ExistsStored, GoneIsNone
    <2>5. Served(k, d)'
      BY <2>3, <2>4 DEF Served
    <2> QED
      BY <1>1, <1>2, <2>1, <2>2, <2>5, ProceedFine
  <1> QED
    BY <1>4, <1>5

LEMMA ParseFailsFine ==
    ASSUME Typed, NEW k \in Requests, Sound(k), ParseFails(k)
    PROVE  Fine(k)
  <1>1. request[k].step = "parsing" /\ request[k].action = "rechunk"
        /\ request[k].left # <<>>
    BY BusyBatch DEF ParseFails, At
  <1>2. PICK d \in Docs : d = This(k)
    BY <1>1, BusyBatch
  <1> DEFINE new == IF Exists(d) THEN [documents[d] EXCEPT !.status = "failed"] ELSE Gone
  <1>3. Write(k, d, new) /\ Proceed(k, TRUE)
    BY <1>2 DEF ParseFails
  <1>4. new \in Rows /\ new.status \in {"failed", "gone"} /\ (~Exists(d) => new = Gone)
    <2>1. CASE Exists(d)
      <3>1. documents[d] \in Stored
        BY <2>1, ExistsStored
      <3>2. new \in Stored
        BY <2>1, <3>1, StoredWrites
      <3>3. new.status = "failed"
        BY <2>1, <3>1 DEF Stored
      <3> HIDE DEF new
      <3> QED
        BY <2>1, <3>2, <3>3 DEF Rows
    <2>2. CASE ~Exists(d)
      BY <2>2, GoneIsNone DEF Rows
    <2> QED
      BY <2>1, <2>2
  <1> HIDE DEF new
  <1>5. Apart(k) /\ documents' = [documents EXCEPT ![d] = new]
    BY <1>3, <1>4, WriteApart
  <1>6. /\ documents'[d] = new
        /\ \A e \in Docs \ {d} : documents'[e] = documents[e]
    BY <1>5 DEF Typed
  <1>7. request'[k].action = "rechunk"
    BY <1>1, <1>3, ProceedGoes DEF Goes
  <1>8. Served(k, d)'
    BY <1>4, <1>6, <1>7 DEF Served
  <1> QED
    BY <1>1, <1>2, <1>3, <1>5, <1>6, <1>8, ProceedFine

LEMMA PersistFine ==
    ASSUME Typed, NEW k \in Requests, Sound(k), NEW sections \in Layouts, Persist(k, sections)
    PROVE  Fine(k)
  <1>1. request[k].step = "parsing" /\ request[k].action = "rechunk"
    BY BusyBatch DEF Persist, At
  <1>2. PICK d \in Docs : d = This(k)
    BY <1>1, BusyBatch
  <1> DEFINE new == [documents[d] EXCEPT !.sections = sections]
             planned == Chunks(sections)
  <1>3. /\ Exists(d) /\ documents[d].sections = <<>>
        /\ Write(k, d, new)
        /\ request' = [request EXCEPT ![k].step = "marking", ![k].planned = planned]
    BY <1>2 DEF Persist
  <1>4. new \in Rows /\ new # Gone /\ new.sections = sections
    <2>1. documents[d] \in Stored
      BY <1>3, ExistsStored
    <2>2. new \in Stored
      BY <1>3, <2>1, StoredWrites
    <2>3. new.sections = sections
      BY <2>1 DEF Stored
    <2> HIDE DEF new
    <2> QED
      BY <2>2, <2>3, StoredFields DEF Rows
  <1>5. planned \in Nat /\ planned > 0 /\ sections # <<>>
    BY LayoutChunks
  <1>6. planned = Chunks(sections)
    OBVIOUS
  <1> HIDE DEF new, planned
  <1>7. Apart(k) /\ documents' = [documents EXCEPT ![d] = new]
    BY <1>3, <1>4, WriteApart
  <1>8. /\ documents'[d] = new
        /\ \A e \in Docs \ {d} : documents'[e] = documents[e]
    BY <1>7 DEF Typed
  <1>9. /\ Goes(k, "marking") /\ ReadsNothing(k) /\ Stays(k)
        /\ request'[k].planned = planned
    BY <1>3, <1>5, MarkingGoes
  <1>10. request'[k].step = "marking" /\ This(k)' = d
    BY <1>2, <1>9 DEF Goes, Stays, This
  <1>11. Midway(k)' /\ Excused(k)'
    BY <1>4, <1>5, <1>6, <1>8, <1>9, <1>10 DEF Midway, Excused, At, Does, Exists
  <1> QED
    BY <1>1, <1>2, <1>7, <1>8, <1>9, <1>11, StayFine

LEMMA CollideFine ==
    ASSUME Typed, NEW k \in Requests, Sound(k), Collide(k)
    PROVE  Fine(k)
  <1>1. /\ request[k].step = "parsing" /\ request[k].action = "rechunk" /\ Midway(k)
        /\ UNCHANGED <<documents, stale>> /\ GoOn(k, "failed")
    BY BusyBatch DEF Collide, At
  <1>2. PICK d \in Docs : d = This(k)
    BY <1>1, BusyBatch
  <1>3. d \in stale[k]
    BY <1>1, <1>2 DEF Collide, Midway, At
  <1>4. Goes(k, "failed") /\ ReadsNothing(k) /\ Stays(k) /\ Apart(k)
    BY <1>1, GoOnGoes, UnwrittenApart DEF Steps
  <1>5. request'[k].step = "failed" /\ This(k)' = d /\ request'[k].action = "rechunk"
    BY <1>1, <1>2, <1>4 DEF Goes, Stays, This
  <1>6. Midway(k)' /\ Excused(k)'
    BY <1>1, <1>3, <1>5 DEF Midway, Excused, At, Does
  <1>7. \A e \in Docs \ {d} : documents'[e] = documents[e]
    BY <1>1
  <1> QED
    BY <1>1, <1>2, <1>4, <1>6, <1>7, StayFine

LEMMA MarkReadyFine ==
    ASSUME Typed, NEW k \in Requests, Sound(k), MarkReady(k)
    PROVE  Fine(k)
  <1>1. /\ request[k].step = "marking" /\ request[k].action = "rechunk" /\ Midway(k)
        /\ request[k].left # <<>>
    BY BusyBatch DEF MarkReady, At
  <1>2. PICK d \in Docs : d = This(k)
    BY <1>1, BusyBatch
  <1> DEFINE n == request[k].planned
             new == IF Exists(d) THEN [documents[d] EXCEPT !.status = "ready", !.total = n]
                    ELSE Gone
  <1>3. /\ Write(k, d, new)
        /\ IF request[k].anchored THEN GoOn(k, "placing") ELSE Proceed(k, TRUE)
    BY <1>2 DEF MarkReady
  <1>4. n \in Nat \ {0}
    BY <1>1, WorkFields DEF Midway, At
  <1>5. /\ new \in Rows /\ (~Exists(d) => new = Gone)
        /\ Exists(d) => new.total = n /\ new.sections = documents[d].sections
    <2>1. CASE Exists(d)
      <3>1. documents[d] \in Stored
        BY <2>1, ExistsStored
      <3> HIDE DEF n
      <3>2. new \in Stored
        BY <1>4, <2>1, <3>1, StoredWrites
      <3>3. new.total = n /\ new.sections = documents[d].sections
        BY <2>1, <3>1 DEF Stored
      <3> HIDE DEF new
      <3> QED
        BY <2>1, <3>2, <3>3 DEF Rows
    <2>2. CASE ~Exists(d)
      BY <2>2, GoneIsNone DEF Rows
    <2> QED
      BY <2>1, <2>2
  <1>6. d \notin stale[k] => /\ new.sections # <<>>
                             /\ Chunks(new.sections) = new.total
    BY <1>1, <1>2, <1>5 DEF Midway, At
  <1> HIDE DEF new
  <1>7. Apart(k) /\ documents' = [documents EXCEPT ![d] = new]
    BY <1>3, <1>5, WriteApart
  <1>8. /\ documents'[d] = new
        /\ \A e \in Docs \ {d} : documents'[e] = documents[e]
    BY <1>7 DEF Typed
  <1>9. CASE request[k].anchored
    <2>1. Goes(k, "placing") /\ ReadsNothing(k) /\ Stays(k)
      BY <1>3, <1>9, GoOnGoes DEF Steps
    <2>2. request'[k].step = "placing" /\ This(k)' = d
      BY <1>2, <2>1 DEF Goes, Stays, This
    <2>3. stale'[k] = stale[k]
      BY <1>7 DEF Apart
    <2>4. Midway(k)' /\ Excused(k)'
      BY <1>6, <1>8, <2>2, <2>3 DEF Midway, Excused, At, Does
    <2> QED
      BY <1>1, <1>2, <1>7, <1>8, <2>1, <2>4, StayFine
  <1>10. CASE ~request[k].anchored
    <2>1. Proceed(k, TRUE)
      BY <1>3, <1>10
    <2>2. request'[k].action = "rechunk"
      BY <1>1, <2>1, ProceedGoes DEF Goes
    <2>3. d \notin stale[k] => Served(k, d)'
      BY <1>6, <1>8, <2>2 DEF Served
    <2> QED
      BY <1>1, <1>2, <1>7, <1>8, <2>1, <2>3, ProceedFine
  <1> QED
    BY <1>9, <1>10

LEMMA ReanchorFine ==
    ASSUME Typed, NEW k \in Requests, Sound(k), Reanchor(k)
    PROVE  Fine(k)
  <1>1. /\ request[k].step = "placing" /\ request[k].action = "rechunk" /\ Midway(k)
        /\ request[k].left # <<>> /\ Proceed(k, TRUE)
    BY BusyBatch DEF Reanchor, At
  <1>2. PICK d \in Docs : d = This(k)
    BY <1>1, BusyBatch
  <1>3. /\ Apart(k)
        /\ \A e \in Docs \ {d} : documents'[e] = documents[e]
        /\ documents'[d].sections = documents[d].sections
        /\ documents'[d].total = documents[d].total
    <2>1. CASE documents[d].place = Unread \/ Chunks(documents[d].sections) = 0
      <3>1. UNCHANGED <<documents, stale>>
        BY <1>2, <2>1 DEF Reanchor
      <3> QED
        BY <3>1, UnwrittenApart
    <2>2. CASE documents[d].place # Unread /\ Chunks(documents[d].sections) # 0
      <3>1. documents[d] \in Rows
        BY DEF Typed
      <3>2. documents[d] \in Stored /\ documents[d].total > 0 /\ Exists(d)
        BY <2>2, <3>1, GoneIsNone, RowFields DEF Exists
      <3> DEFINE n == Chunks(documents[d].sections)
      <3>3. n \in Nat
        BY <3>1, RowFields, LayoutChunks
      <3>4. PICK high \in 0 .. n - 1 : \E current \in 0 .. high :
              Write(k, d, [documents[d] EXCEPT !.place = [current |-> current, high |-> high]])
        BY <1>2, <2>2 DEF Reanchor
      <3>5. PICK current \in 0 .. high :
              Write(k, d, [documents[d] EXCEPT !.place = [current |-> current, high |-> high]])
        BY <3>4
      <3> DEFINE new == [documents[d] EXCEPT !.place = [current |-> current, high |-> high]]
      <3>6. high \in Nat /\ current \in Nat /\ current <= high
        BY <3>3
      <3>7. new \in Stored
        BY <3>2, <3>6, StoredWrites
      <3>8. new.sections = documents[d].sections /\ new.total = documents[d].total
        BY <3>2 DEF Stored
      <3>9. Write(k, d, new)
        BY <3>5
      <3> HIDE DEF new
      <3>10. new \in Rows
        BY <3>7 DEF Rows
      <3>11. Apart(k) /\ documents' = [documents EXCEPT ![d] = new]
        BY <3>2, <3>9, <3>10, WriteApart
      <3>12. documents'[d] = new /\ \A e \in Docs \ {d} : documents'[e] = documents[e]
        BY <3>11 DEF Typed
      <3> QED
        BY <3>8, <3>11, <3>12
    <2> QED
      BY <2>1, <2>2
  <1>4. request'[k].action = "rechunk"
    BY <1>1, ProceedGoes DEF Goes
  <1>5. d \notin stale[k] => Served(k, d)'
    BY <1>1, <1>2, <1>3, <1>4 DEF Served, Midway, At
  <1> QED
    BY <1>1, <1>2, <1>3, <1>5, ProceedFine

-----------------------------------------------------------------------------
(* What is read into a page *)

Fields == {"rated", "layout", "tags", "percent", "high"}

LEMMA FetchedTyped ==
    ASSUME NEW doc \in Rows, NEW tile \in Tiles, NEW field \in Fields
    PROVE  /\ field = "rated" => Fetched(field, doc, tile) \in Seq(BOOLEAN)
           /\ field = "layout" => Fetched(field, doc, tile) \in Layouts \cup {<<>>}
           /\ field = "tags" => Fetched(field, doc, tile) \in SUBSET Tags
           /\ field = "percent" => Fetched(field, doc, tile) \in 0 .. 100
           /\ field = "high" => Fetched(field, doc, tile) \in Nat
  <1>1. ASSUME field = "rated" PROVE Fetched(field, doc, tile) \in Seq(BOOLEAN)
    <2> DEFINE n == tile.total
               rated == [i \in 1 .. n |-> (i - 1) \in doc.rated]
    <2>1. n \in Nat
      BY DEF Tiles
    <2>2. rated \in [1 .. n -> BOOLEAN]
      BY SMT
    <2>3. Fetched(field, doc, tile) = rated
      BY <1>1 DEF Fetched
    <2> HIDE DEF rated, n
    <2>4. rated \in Seq(BOOLEAN)
      BY <2>1, <2>2
    <2> QED
      BY <2>3, <2>4
  <1>2. ASSUME field = "layout" PROVE Fetched(field, doc, tile) \in Layouts \cup {<<>>}
    BY <1>2, RowFields DEF Fetched
  <1>3. ASSUME field = "tags" PROVE Fetched(field, doc, tile) \in SUBSET Tags
    BY <1>3, RowFields DEF Fetched
  <1>4. ASSUME field = "percent" PROVE Fetched(field, doc, tile) \in 0 .. 100
    <2>1. Fetched(field, doc, tile) = Percent(doc.total, doc.place)
      BY <1>4 DEF Fetched
    <2>2. Percent(doc.total, doc.place) \in 0 .. 100
      <3>1. /\ doc.total \in Nat
            /\ doc.place \in {Unread} \cup [current : Nat, high : Nat]
        BY RowFields
      <3> QED
        BY <3>1, PercentTyped
    <2> QED
      BY ONLY <2>1, <2>2
  <1>5. ASSUME field = "high" PROVE Fetched(field, doc, tile) \in Nat
    <2>1. Fetched(field, doc, tile) = HighWater(doc.place)
      BY <1>5 DEF Fetched
    <2> QED
      BY <2>1, RowFields DEF HighWater
  <1> QED
    BY <1>1, <1>2, <1>3, <1>4, <1>5

\* One field is filled, and the others stay.
LEMMA TileFilled ==
    ASSUME NEW doc \in Rows, NEW tile \in Tiles, NEW field \in Fields
    PROVE  LET v == Fetched(field, doc, tile)
               new == [tile EXCEPT ![field] = v]
           IN  /\ new \in Tiles
               /\ new.status = tile.status /\ new.title = tile.title /\ new.total = tile.total
               /\ new.rated = IF field = "rated" THEN v ELSE tile.rated
               /\ new.layout = IF field = "layout" THEN v ELSE tile.layout
               /\ new.tags = IF field = "tags" THEN v ELSE tile.tags
               /\ new.percent = IF field = "percent" THEN v ELSE tile.percent
               /\ new.high = IF field = "high" THEN v ELSE tile.high
  <1> DEFINE v == Fetched(field, doc, tile)
  <1>1. /\ field = "rated" => v \in Seq(BOOLEAN)
        /\ field = "layout" => v \in Layouts \cup {<<>>}
        /\ field = "tags" => v \in SUBSET Tags
        /\ field = "percent" => v \in 0 .. 100
        /\ field = "high" => v \in Nat
    BY FetchedTyped
  <1> HIDE DEF v
  <1>2. CASE field = "rated"
    BY <1>1, <1>2 DEF Tiles, v
  <1>3. CASE field = "layout"
    BY <1>1, <1>3 DEF Tiles, v
  <1>4. CASE field = "tags"
    BY <1>1, <1>4 DEF Tiles, v
  <1>5. CASE field = "percent"
    BY <1>1, <1>5 DEF Tiles, v
  <1>6. CASE field = "high"
    BY <1>1, <1>6 DEF Tiles, v
  <1> QED
    BY <1>2, <1>3, <1>4, <1>5, <1>6 DEF Fields

\* A sequence of one or two queries about document d.
LEMMA RowQueries ==
    ASSUME NEW d \in Docs, NEW tile \in Tiles, tile.total > 0
    PROVE  LET q == Ratings(d, tile) \o Layout(d, tile)
           IN  /\ q \in Seq(Queries) \ {<<>>}
               /\ \A j \in DOMAIN q : /\ q[j] = <<"rated", {d}>> \/ q[j] = <<"layout", {d}>>
                                      /\ q[j] = <<"layout", {d}>> => tile.status = "ready"
               /\ \E j \in DOMAIN q : q[j] = <<"rated", {d}>>
               /\ tile.status = "ready" => \E j \in DOMAIN q : q[j] = <<"layout", {d}>>
  <1> DEFINE a == <<"rated", {d}>>
             b == <<"layout", {d}>>
             q == Ratings(d, tile) \o Layout(d, tile)
  <1>1. a \in Queries /\ b \in Queries /\ a # b
    BY DEF Queries
  <1>2. q = IF tile.status = "ready" THEN <<a>> \o <<b>> ELSE <<a>> \o <<>>
    BY DEF Ratings, Layout
  <1> HIDE DEF a, b, q
  <1>3. CASE tile.status = "ready"
    <2> DEFINE s == <<a>>
               t == <<b>>
    <2>1. /\ s \in Seq(Queries) /\ Len(s) = 1 /\ s[1] = a
          /\ t \in Seq(Queries) /\ Len(t) = 1 /\ t[1] = b
      BY <1>1
    <2>2. q = s \o t
      BY <1>2, <1>3
    <2> HIDE DEF s, t
    <2>3. /\ q \in Seq(Queries) /\ Len(q) = 2 /\ q[1] = a /\ q[2] = b
      <3>1. /\ s \o t \in Seq(Queries) /\ Len(s \o t) = Len(s) + Len(t)
            /\ \A i \in 1 .. Len(s) + Len(t) :
                 (s \o t)[i] = IF i <= Len(s) THEN s[i] ELSE t[i - Len(s)]
        BY <2>1, ConcatProperties
      <3> QED
        BY ONLY <2>1, <2>2, <3>1
    <2>4. DOMAIN q = {1, 2} /\ q[1] = a /\ q[2] = b /\ q \in Seq(Queries) /\ q # <<>>
      BY <2>3
    <2> QED
      BY <1>1, <1>3, <2>4 DEF a, b, q
  <1>4. CASE tile.status # "ready"
    <2>1. q = <<a>>
      BY <1>1, <1>2, <1>4
    <2>2. DOMAIN q = {1} /\ q[1] = a /\ q \in Seq(Queries) /\ q # <<>>
      BY <1>1, <2>1
    <2> QED
      BY <1>1, <1>4, <2>2 DEF a, b, q
  <1> QED
    BY <1>3, <1>4

\* A request that shows what it has read goes on to what is left.
LEMMA ReadingFine ==
    ASSUME Typed, NEW k \in Requests, request[k].action \in {"page", "rename"},
           NEW tiles \in [Docs -> Tiles \cup {NoTile}],
           NEW todo \in Seq(Seq(Queries) \ {<<>>}),
           Reading(k, tiles, todo), Apart(k),
           \A d \in Docs :
             /\ tiles[d] = NoTile => Pending(todo, d) = {}
             /\ tiles[d] # NoTile /\ "layout" \in Pending(todo, d)
                  => tiles[d].status = "ready" /\ tiles[d].total > 0
             /\ tiles[d] # NoTile /\ d \notin stale[k]
                  => Shows(tiles[d], documents'[d], Pending(todo, d)),
           request[k].action = "page" /\ stale[k] = {} =>
             \A d \in Docs : tiles[d] # NoTile <=> Wanted(k, d)'
    PROVE  Fine(k)
  <1> DEFINE step == IF todo = <<>> THEN "answered" ELSE "reading"
  <1>1. /\ Goes(k, step) /\ request'[k].tiles = tiles /\ request'[k].todo = todo
    BY ReadingGoes
  <1>2. request'[k].step = step /\ request'[k].action = request[k].action
    BY <1>1 DEF Goes
  <1>3. stale'[k] = stale[k]
    BY DEF Apart
  <1>4. step \in {"answered", "reading"} /\ (step = "answered" <=> todo = <<>>)
    OBVIOUS
  <1> HIDE DEF step
  <1>5. Showing(k)'
    BY <1>1, <1>3 DEF Showing
  <1>6. request[k].action = "page" => Listing(k)'
    BY <1>1, <1>2, <1>3, <1>4 DEF Listing, At
  <1>7. Renaming(k)'
    BY <1>2, <1>4 DEF Renaming, At
  <1>8. Paging(k)'
    BY <1>1, <1>2, <1>4, <1>5, <1>6, <1>7 DEF Paging, At
  <1>9. Sound(k)'
    BY <1>2, <1>4, <1>8 DEF Sound, Batching, Actions, At
  <1> QED
    BY <1>1, <1>9 DEF Fine, Goes

\* Every row with chunks has its turn.
LEMMA OrderCovers ==
    ASSUME NEW rows \in SUBSET Docs, NEW order \in SetToSeqs(rows)
    PROVE  /\ \E m \in Nat : DOMAIN order = 1 .. m /\ order \in [1 .. m -> rows]
           /\ \A d \in rows : \E i \in DOMAIN order : order[i] = d
  <1> DEFINE m == Cardinality(rows)
             D == 1 .. m
  <1>1. IsFiniteSet(rows) /\ m \in Nat
    BY FS_Subset, FS_CardinalityType, LibraryAssumption
  <1>2. /\ order \in [D -> rows]
        /\ \A i, j \in D : i # j => order[i] # order[j]
    BY DEF SetToSeqs
  <1>3. order \in Injection(D, rows)
    BY <1>2 DEF Injection, IsInjective
  <1>4. Cardinality(D) = m
    BY <1>1, FS_Interval
  <1>5. order \in Surjection(D, rows)
    BY <1>1, <1>3, <1>4, FS_Injection
  <1>6. \A d \in rows : \E i \in D : order[i] = d
    BY <1>5 DEF Surjection
  <1> QED
    BY <1>1, <1>2, <1>6

\* What ListRows puts into a request for these rows, in this order.
PagePlan(rows, tiles, long, order, reads, todo) ==
    /\ rows \in SUBSET Docs /\ tiles \in [Docs -> Tiles \cup {NoTile}]
    /\ \A d \in rows : tiles[d] \in Tiles
    /\ long = {d \in rows : tiles[d].total > 0}
    /\ order \in SetToSeqs(long)
    /\ reads = [i \in DOMAIN order |-> Ratings(order[i], tiles[order[i]])
                                         \o Layout(order[i], tiles[order[i]])]
    /\ todo = << << <<"tags", rows>> >> >> \o reads

\* What is left to read of a page is about its rows, and is all of it.
LEMMA PageTodo ==
    ASSUME NEW rows, NEW tiles, NEW long, NEW order, NEW reads, NEW todo,
           PagePlan(rows, tiles, long, order, reads, todo)
    PROVE  /\ todo \in Seq(Seq(Queries) \ {<<>>}) /\ todo # <<>>
           /\ \A d \in Docs \ rows : Pending(todo, d) = {}
           /\ \A d \in rows :
                Pending(todo, d) = {"tags"} \cup (IF tiles[d].total > 0 THEN {"rated"} ELSE {})
                   \cup (IF tiles[d].total > 0 /\ tiles[d].status = "ready"
                         THEN {"layout"} ELSE {})
  <1> DEFINE row == << <<"tags", rows>> >>
             first == <<row>>
             a(d) == <<"rated", {d}>>
             b(d) == <<"layout", {d}>>
  <1>0. /\ rows \in SUBSET Docs /\ tiles \in [Docs -> Tiles \cup {NoTile}]
        /\ \A d \in rows : tiles[d] \in Tiles
        /\ order \in SetToSeqs(long)
    BY DEF PagePlan
  <1>a. long = {d \in rows : tiles[d].total > 0}
    BY DEF PagePlan
  <1>b. reads = [i \in DOMAIN order |-> Ratings(order[i], tiles[order[i]])
                                          \o Layout(order[i], tiles[order[i]])]
    BY DEF PagePlan
  <1>1. long \in SUBSET Docs /\ \A d \in long : d \in rows /\ tiles[d].total > 0
    BY <1>0, <1>a
  <1>2. PICK m \in Nat : DOMAIN order = 1 .. m /\ order \in [1 .. m -> long]
    BY <1>0, <1>1, OrderCovers
  <1>3. \A d \in long : \E i \in 1 .. m : order[i] = d
    <2>1. \A d \in long : \E i \in DOMAIN order : order[i] = d
      BY <1>0, <1>1, OrderCovers
    <2> QED
      BY ONLY <1>2, <2>1
  <1>4. \A i \in 1 .. m :
           /\ reads[i] \in Seq(Queries) \ {<<>>}
           /\ \A j \in DOMAIN reads[i] :
                /\ reads[i][j] = a(order[i]) \/ reads[i][j] = b(order[i])
                /\ reads[i][j] = b(order[i]) => tiles[order[i]].status = "ready"
           /\ \E j \in DOMAIN reads[i] : reads[i][j] = a(order[i])
           /\ tiles[order[i]].status = "ready" =>
                \E j \in DOMAIN reads[i] : reads[i][j] = b(order[i])
    <2> SUFFICES ASSUME NEW i \in 1 .. m
                 PROVE  /\ reads[i] \in Seq(Queries) \ {<<>>}
                        /\ \A j \in DOMAIN reads[i] :
                             /\ reads[i][j] = a(order[i]) \/ reads[i][j] = b(order[i])
                             /\ reads[i][j] = b(order[i]) => tiles[order[i]].status = "ready"
                        /\ \E j \in DOMAIN reads[i] : reads[i][j] = a(order[i])
                        /\ tiles[order[i]].status = "ready" =>
                             \E j \in DOMAIN reads[i] : reads[i][j] = b(order[i])
      OBVIOUS
    <2>1. PICK d \in long : d = order[i]
      BY <1>2
    <2>2. d \in Docs /\ tiles[d] \in Tiles /\ tiles[d].total > 0
      BY <1>0, <1>1, <2>1
    <2> DEFINE q == Ratings(d, tiles[d]) \o Layout(d, tiles[d])
    <2>3. reads[i] = q
      BY ONLY <1>2, <1>b, <2>1
    <2>4. /\ q \in Seq(Queries) \ {<<>>}
          /\ \A j \in DOMAIN q : /\ q[j] = a(d) \/ q[j] = b(d)
                                 /\ q[j] = b(d) => tiles[d].status = "ready"
          /\ \E j \in DOMAIN q : q[j] = a(d)
          /\ tiles[d].status = "ready" => \E j \in DOMAIN q : q[j] = b(d)
      BY <2>2, RowQueries
    <2> HIDE DEF q, a, b
    <2> QED
      BY ONLY <2>1, <2>3, <2>4
  <1>5. reads \in Seq(Seq(Queries) \ {<<>>}) /\ Len(reads) = m
    <2>1. DOMAIN reads = 1 .. m
      BY ONLY <1>2, <1>b
    <2>2. reads = [i \in 1 .. m |-> reads[i]]
      BY ONLY <1>b, <2>1
    <2>3. \A i \in 1 .. m : reads[i] \in Seq(Queries) \ {<<>>}
      BY <1>4
    <2> DEFINE R == Seq(Queries) \ {<<>>}
    <2>4. reads \in [1 .. m -> R]
      BY ONLY <2>2, <2>3
    <2> HIDE DEF R
    <2>5. reads \in Seq(R) /\ Len(reads) = m
      BY ONLY <1>2, <2>4
    <2> QED
      BY <2>5 DEF R
  <1>6. row \in Seq(Queries) \ {<<>>} /\ DOMAIN row = {1} /\ row[1] = <<"tags", rows>>
    <2>1. <<"tags", rows>> \in Queries
      BY <1>0 DEF Queries
    <2> QED
      BY <2>1
  <1> HIDE DEF row
  <1>7. first \in Seq(Seq(Queries) \ {<<>>}) /\ Len(first) = 1 /\ first[1] = row
    BY <1>6
  <1>8. todo = first \o reads
    BY DEF row, PagePlan
  <1> HIDE DEF first
  <1>9. /\ todo \in Seq(Seq(Queries) \ {<<>>}) /\ todo # <<>>
        /\ DOMAIN todo = 1 .. m + 1 /\ todo[1] = row
        /\ \A i \in 1 .. m : todo[i + 1] = reads[i]
    <2> DEFINE R == Seq(Queries) \ {<<>>}
    <2>1. /\ first \o reads \in Seq(R)
          /\ Len(first \o reads) = Len(first) + Len(reads)
          /\ \A i \in 1 .. Len(first) + Len(reads) : (first \o reads)[i] =
                 IF i <= Len(first) THEN first[i] ELSE reads[i - Len(first)]
      BY <1>5, <1>7, ConcatProperties
    <2> HIDE DEF R
    <2>2. todo \in Seq(R) /\ Len(todo) = m + 1
          /\ \A i \in 1 .. m + 1 : todo[i] = IF i <= 1 THEN first[i] ELSE reads[i - 1]
      BY ONLY <1>2, <1>5, <1>7, <1>8, <2>1
    <2>3. \A i \in 1 .. m : todo[i + 1] = reads[i]
      <3> SUFFICES ASSUME NEW i \in 1 .. m PROVE todo[i + 1] = reads[i]
        OBVIOUS
      <3>1. i + 1 \in 1 .. m + 1 /\ ~(i + 1 <= 1) /\ (i + 1) - 1 = i
        BY ONLY <1>2
      <3> QED
        BY ONLY <2>2, <3>1
    <2>4. DOMAIN todo = 1 .. m + 1 /\ todo # <<>> /\ todo[1] = row
      BY ONLY <1>2, <1>7, <2>2
    <2> QED
      BY <2>2, <2>3, <2>4 DEF R
  <1> DEFINE Five == {"rated", "layout", "tags", "percent", "high"}
             Due(f, d) == \/ f = "tags" /\ d \in rows
                          \/ f = "rated" /\ d \in long
                          \/ f = "layout" /\ d \in long /\ tiles[d].status = "ready"
  <1>10. \A d \in Docs : \A f \in Five : f \in Pending(todo, d) <=> Due(f, d)
    <2> SUFFICES ASSUME NEW d \in Docs, NEW f \in Five
                 PROVE  f \in Pending(todo, d) <=> Due(f, d)
      OBVIOUS
    <2> DEFINE Found == \E i \in DOMAIN todo : \E j \in DOMAIN todo[i] :
                          todo[i][j][1] = f /\ d \in todo[i][j][2]
    <2>0. f \in Pending(todo, d) <=> Found
      BY DEF Pending
    <2>1. ASSUME NEW i \in DOMAIN todo, NEW j \in DOMAIN todo[i],
                 todo[i][j][1] = f, d \in todo[i][j][2]
          PROVE  \/ f = "tags" /\ d \in rows
                 \/ f = "rated" /\ d \in long
                 \/ f = "layout" /\ d \in long /\ tiles[d].status = "ready"
      <3>1. CASE i = 1
        BY <1>6, <1>9, <2>1, <3>1
      <3>2. CASE i # 1
        <4>1. i - 1 \in 1 .. m /\ (i - 1) + 1 = i
          BY <1>9, <3>2
        <4>2. PICK p \in 1 .. m : p = i - 1
          BY <4>1
        <4>3. todo[i] = reads[p] /\ j \in DOMAIN reads[p] /\ order[p] \in long
          BY <1>2, <1>9, <4>1, <4>2
        <4>4. /\ reads[p][j] = a(order[p]) \/ reads[p][j] = b(order[p])
              /\ reads[p][j] = b(order[p]) => tiles[order[p]].status = "ready"
          BY <1>4, <4>3
        <4>5. \/ f = "rated" /\ d = order[p]
              \/ f = "layout" /\ d = order[p] /\ tiles[order[p]].status = "ready"
          BY ONLY <2>1, <4>3, <4>4
        <4> QED
          BY ONLY <4>3, <4>5
      <3> QED
        BY <3>1, <3>2
    <2>2. ASSUME f = "tags", d \in rows
          PROVE  \E i \in DOMAIN todo : \E j \in DOMAIN todo[i] :
                   todo[i][j][1] = f /\ d \in todo[i][j][2]
      <3>1. 1 \in DOMAIN todo /\ 1 \in DOMAIN todo[1] /\ todo[1][1] = <<"tags", rows>>
        BY <1>2, <1>6, <1>9
      <3>2. todo[1][1][1] = f /\ d \in todo[1][1][2]
        BY ONLY <2>2, <3>1
      <3> QED
        BY ONLY <3>1, <3>2
    <2>3. ASSUME d \in long, f = "rated" \/ (f = "layout" /\ tiles[d].status = "ready")
          PROVE  \E i \in DOMAIN todo : \E j \in DOMAIN todo[i] :
                   todo[i][j][1] = f /\ d \in todo[i][j][2]
      <3>1. PICK p \in 1 .. m : order[p] = d
        BY <1>3, <2>3
      <3>2. PICK j \in DOMAIN reads[p] :
              (f = "rated" /\ reads[p][j] = a(d)) \/ (f = "layout" /\ reads[p][j] = b(d))
        <4>1. /\ \E j \in DOMAIN reads[p] : reads[p][j] = a(d)
              /\ tiles[d].status = "ready" => \E j \in DOMAIN reads[p] : reads[p][j] = b(d)
          BY <1>4, <3>1
        <4> HIDE DEF a, b
        <4> QED
          BY ONLY <2>3, <4>1
      <3>3. p + 1 \in DOMAIN todo /\ todo[p + 1] = reads[p]
        BY ONLY <1>2, <1>9, p \in 1 .. m
      <3>4. reads[p][j][1] = f /\ d \in reads[p][j][2]
        BY ONLY <2>3, <3>2
      <3>5. j \in DOMAIN todo[p + 1] /\ todo[p + 1][j][1] = f /\ d \in todo[p + 1][j][2]
        BY ONLY <3>2, <3>3, <3>4
      <3> QED
        BY ONLY <3>3, <3>5
    <2> QED
      BY <2>0, <2>1, <2>2, <2>3
  <1>11. \A d \in Docs : Pending(todo, d) \subseteq Five
    BY DEF Pending
  <1>12. ASSUME NEW d \in Docs \ rows PROVE Pending(todo, d) = {}
    <2>1. d \in Docs /\ d \notin long
      BY <1>1
    <2>2. \A f \in Five : ~Due(f, d)
      BY ONLY <2>1, d \in Docs \ rows
    <2> HIDE DEF Due, Five
    <2> QED
      BY ONLY <1>10, <1>11, <2>1, <2>2
  <1>13. ASSUME NEW d \in rows
         PROVE  Pending(todo, d) = {"tags"} \cup (IF tiles[d].total > 0 THEN {"rated"} ELSE {})
                   \cup (IF tiles[d].total > 0 /\ tiles[d].status = "ready"
                         THEN {"layout"} ELSE {})
    <2>1. d \in Docs /\ (d \in long <=> tiles[d].total > 0)
      BY <1>0, <1>a
    <2> DEFINE P == Pending(todo, d)
               more == tiles[d].total > 0
               ready == tiles[d].status = "ready"
    <2>2. /\ P \subseteq Five
          /\ \A f \in Five : f \in P <=> Due(f, d)
      BY <1>10, <1>11, <2>1
    <2>3. \A f \in Five :
            f \in P <=> (f = "tags" \/ (f = "rated" /\ more) \/ (f = "layout" /\ more /\ ready))
      BY ONLY <2>1, <2>2, d \in rows
    <2> HIDE DEF P, more, ready
    <2>4. P = {"tags"} \cup (IF more THEN {"rated"} ELSE {})
                \cup (IF more /\ ready THEN {"layout"} ELSE {})
      BY ONLY <2>2, <2>3
    <2> QED
      BY <2>4 DEF P, more, ready
  <1> QED
    BY <1>9, <1>12, <1>13

LEMMA NothingPending ==
    /\ \A d : Pending(<<>>, d) = {}
    /\ <<>> \in Seq(Seq(Queries) \ {<<>>})
BY DEF Pending

\* A tile of the row, when what is asked for next is all of what it lacks.
LEMMA NewTileShows ==
    ASSUME NEW doc \in Rows, NEW pending,
           pending = {"tags"} \cup (IF doc.total > 0 THEN {"rated"} ELSE {})
                        \cup (IF doc.total > 0 /\ doc.status = "ready" THEN {"layout"} ELSE {})
    PROVE  Shows(TileOf(doc), doc, pending)
  <1>1. "rated" \notin pending => TrueTile(doc).rated = <<>>
    <2> SUFFICES ASSUME doc.total = 0 PROVE TrueTile(doc).rated = <<>>
      BY RowFields
    <2>1. TrueTile(doc).rated = [i \in 1 .. 0 |-> (i - 1) \in doc.rated]
      BY TileTyped
    <2>2. 1 .. 0 = {}
      OBVIOUS
    <2> QED
      BY <2>1, <2>2
  <1>2. "layout" \notin pending => TrueTile(doc).layout = <<>>
    BY TileTyped
  <1>3. "tags" \in pending
    OBVIOUS
  <1> QED
    BY <1>1, <1>2, <1>3, TileTyped DEF Shows

LEMMA ListRowsFine ==
    ASSUME Typed, NEW k \in Requests, Sound(k), ListRows(k)
    PROVE  Fine(k)
  <1>1. /\ request[k].step = "listing" /\ UNCHANGED <<documents, stale>>
        /\ Apart(k)
    BY UnwrittenApart DEF ListRows, At
  <1>2. request[k].action = "page" /\ Listing(k)
    <2>1. request[k].action \in {"none", "page", "rename"} \cup Actions
      BY WorkFields DEF Works
    <2> QED
      BY <1>1, <2>1 DEF Sound, Batching, Shaped, Paging, Renaming, At
  <1> DEFINE active == request[k].active
             rows == {d \in Docs : /\ Exists(d)
                                   /\ InSegment(documents[d], request[k].segment)
                                   /\ active = {} \/ documents[d].tags \cap active # {}}
             tile(d) == TileOf(documents[d])
             tiles == [d \in Docs |-> IF d \in rows THEN tile(d) ELSE NoTile]
             long == {d \in rows : tile(d).total > 0}
  <1>3. \A d \in Docs : documents[d] \in Rows
    BY DEF Typed
  <1>4. \A d \in Docs : /\ tile(d) \in Tiles /\ tile(d) # NoTile
                        /\ tile(d).status = documents[d].status
                        /\ tile(d).total = documents[d].total
    BY <1>3, TileTyped
  <1>5. PICK order \in SetToSeqs(long) :
          Reading(k, tiles,
                  IF rows = {} THEN <<>>
                  ELSE << << <<"tags", rows>> >> >>
                    \o [i \in DOMAIN order |->
                         Ratings(order[i], tile(order[i])) \o Layout(order[i], tile(order[i]))])
    BY DEF ListRows
  <1> DEFINE reads == [i \in DOMAIN order |-> Ratings(order[i], tiles[order[i]])
                                                \o Layout(order[i], tiles[order[i]])]
             todo == IF rows = {} THEN <<>> ELSE << << <<"tags", rows>> >> >> \o reads
  <1>6. rows \in SUBSET Docs /\ long \in SUBSET rows
    OBVIOUS
  <1>7. /\ tiles \in [Docs -> Tiles \cup {NoTile}]
        /\ \A d \in rows : tiles[d] = tile(d) /\ tiles[d] \in Tiles /\ tiles[d] # NoTile
        /\ \A d \in Docs \ rows : tiles[d] = NoTile
    BY <1>4
  <1>8. long = {d \in rows : tiles[d].total > 0}
    BY <1>7
  <1>9. Reading(k, tiles, todo)
    <2>1. \A i \in DOMAIN order : tiles[order[i]] = tile(order[i])
      <3>1. \A i \in DOMAIN order : order[i] \in long
        BY <1>6, OrderCovers
      <3> QED
        BY <1>6, <1>7, <3>1
    <2>2. reads = [i \in DOMAIN order |-> Ratings(order[i], tile(order[i]))
                                            \o Layout(order[i], tile(order[i]))]
      <3> HIDE DEF tiles, tile
      <3> QED
        BY <2>1
    <2> HIDE DEF rows, tiles, tile, long, reads
    <2> QED
      BY <1>5, <2>2
  <1>10. \A d \in Docs : d \in rows <=> /\ Exists(d)
                                        /\ InSegment(documents[d], request[k].segment)
                                        /\ active = {} \/ documents[d].tags \cap active # {}
    OBVIOUS
  <1>11. \A d \in rows : tiles[d] = TileOf(documents[d])
    BY <1>7
  <1> HIDE DEF rows, tile, tiles, long, reads
  <1>12. /\ todo \in Seq(Seq(Queries) \ {<<>>})
         /\ \A d \in Docs \ rows : Pending(todo, d) = {}
         /\ \A d \in rows :
              Pending(todo, d) = {"tags"} \cup (IF tiles[d].total > 0 THEN {"rated"} ELSE {})
                 \cup (IF tiles[d].total > 0 /\ tiles[d].status = "ready"
                       THEN {"layout"} ELSE {})
    <2>1. CASE rows = {}
      BY <2>1, NothingPending
    <2>2. CASE rows # {}
      <3> DEFINE more == << << <<"tags", rows>> >> >> \o reads
      <3>1. reads = [i \in DOMAIN order |-> Ratings(order[i], tiles[order[i]])
                                              \o Layout(order[i], tiles[order[i]])]
        BY DEF reads
      <3>2. todo = more
        BY <2>2
      <3>0. more = << << <<"tags", rows>> >> >> \o reads
        OBVIOUS
      <3> HIDE DEF more, todo
      <3>3. /\ more \in Seq(Seq(Queries) \ {<<>>})
            /\ \A d \in Docs \ rows : Pending(more, d) = {}
            /\ \A d \in rows :
                 Pending(more, d) = {"tags"} \cup (IF tiles[d].total > 0 THEN {"rated"} ELSE {})
                    \cup (IF tiles[d].total > 0 /\ tiles[d].status = "ready"
                          THEN {"layout"} ELSE {})
        <4>1. order \in SetToSeqs(long)
          OBVIOUS
        <4>2. PagePlan(rows, tiles, long, order, reads, more)
          BY <1>6, <1>7, <1>8, <3>0, <3>1, <4>1 DEF PagePlan
        <4> QED
          BY <4>2, PageTodo
      <3> QED
        BY <3>2, <3>3
    <2> QED
      BY <2>1, <2>2
  <1> HIDE DEF todo
  <1>13. Goes(k, IF todo = <<>> THEN "answered" ELSE "reading")
    BY <1>7, <1>9, <1>12, ReadingGoes
  <1>14. stale[k] = {} => \A d \in Docs : tiles[d] # NoTile <=> Wanted(k, d)'
    <2> SUFFICES ASSUME stale[k] = {}, NEW d \in Docs PROVE d \in rows <=> Wanted(k, d)'
      BY <1>7
    <2> DEFINE used == {t \in Tags : \E s \in request[k].asked, e \in Docs :
                                       Canonical[s] = t /\ t \in documents[e].tags}
    <2>1. active = {Canonical[s] : s \in request[k].asked} \cap Known
      BY <1>1, <1>2 DEF Listing, At
    <2>2. used = active
      BY <2>1, KnownTags DEF Known
    <2>3. documents' = documents
      BY <1>1
    <2>4. request'[k].asked = request[k].asked /\ request'[k].segment = request[k].segment
      BY <1>13 DEF Goes
    <2>5. Wanted(k, d)' <=> /\ Exists(d)
                            /\ InSegment(documents[d], request[k].segment)
                            /\ used = {} \/ used \cap documents[d].tags # {}
      BY <2>3, <2>4 DEF Wanted, Used, Exists, InSegment
    <2> HIDE DEF used, active
    <2> QED
      BY <1>10, <2>2, <2>5
  <1>15. ASSUME NEW d \in Docs
         PROVE  /\ tiles[d] = NoTile => Pending(todo, d) = {}
                /\ tiles[d] # NoTile /\ "layout" \in Pending(todo, d)
                     => tiles[d].status = "ready" /\ tiles[d].total > 0
                /\ tiles[d] # NoTile /\ d \notin stale[k]
                     => Shows(tiles[d], documents'[d], Pending(todo, d))
    <2>1. CASE d \in rows
      <3>1. tiles[d] # NoTile /\ tiles[d].total = documents[d].total
            /\ tiles[d].status = documents[d].status
        BY <1>3, <1>7, <1>11, <2>1, TileTyped
      <3> DEFINE P == Pending(todo, d)
                 doc == documents[d]
      <3>2. P = {"tags"} \cup (IF doc.total > 0 THEN {"rated"} ELSE {})
                 \cup (IF doc.total > 0 /\ doc.status = "ready" THEN {"layout"} ELSE {})
        BY <1>12, <2>1, <3>1
      <3>3. doc \in Rows /\ tiles[d] = TileOf(doc) /\ documents'[d] = doc
        BY <1>1, <1>3, <1>11, <2>1
      <3> HIDE DEF P, doc
      <3>4. Shows(TileOf(doc), doc, P)
        BY <3>2, <3>3, NewTileShows
      <3>5. "layout" \in P => doc.status = "ready" /\ doc.total > 0
        BY ONLY <3>2
      <3>6. tiles[d].total = doc.total /\ tiles[d].status = doc.status
        BY <3>1 DEF doc
      <3> QED
        BY ONLY <3>1, <3>3, <3>4, <3>5, <3>6 DEF P
    <2>2. CASE d \notin rows
      BY <1>7, <1>12, <2>2
    <2> QED
      BY <2>1, <2>2
  <1> QED
    BY <1>1, <1>2, <1>7, <1>9, <1>12, <1>14, <1>15, ReadingFine

\* What is left when the next query is answered, and what that was about.
LEMMA RestPending ==
    ASSUME NEW todo \in Seq(Seq(Queries) \ {<<>>}), todo # <<>>,
           NEW q, q = Head(Head(todo))
    PROVE  /\ Rest(todo) \in Seq(Seq(Queries) \ {<<>>})
           /\ q[1] \in Fields /\ q[2] \in SUBSET Docs
           /\ \A d \in Docs : Pending(Rest(todo), d) \subseteq Pending(todo, d)
           /\ \A d \in Docs : \A f \in Pending(todo, d) :
                f \in Pending(Rest(todo), d) \/ (f = q[1] /\ d \in q[2])
           /\ \A d \in q[2] : q[1] \in Pending(todo, d)
  <1> DEFINE R == Seq(Queries) \ {<<>>}
             row == Head(todo)
             rows == Tail(todo)
             n == Len(todo)
             m == Len(row)
             rest == Rest(todo)
  <1>1. /\ row \in R /\ row = todo[1] /\ rows \in Seq(R) /\ n \in Nat \ {0}
        /\ DOMAIN todo = 1 .. n /\ Len(rows) = n - 1
        /\ \A i \in 1 .. n - 1 : rows[i] = todo[i + 1]
    <2>1. todo \in Seq(R) /\ todo # <<>>
      OBVIOUS
    <2> HIDE DEF R
    <2>2. /\ row \in R /\ rows \in Seq(R) /\ Len(rows) = n - 1
          /\ \A i \in 1 .. n - 1 : rows[i] = todo[i + 1]
      BY <2>1, HeadTailProperties
    <2>3. n \in Nat \ {0} /\ DOMAIN todo = 1 .. n /\ row = todo[1]
      BY <2>1
    <2> QED
      BY <2>2, <2>3
  <1>2. /\ m \in Nat \ {0} /\ DOMAIN row = 1 .. m /\ q = row[1] /\ q \in Queries
    BY <1>1
  <1>3. q[1] \in Fields /\ q[2] \in SUBSET Docs
    BY <1>2 DEF Queries, Fields
  <1> DEFINE Has(t, i, j, f, d) == t[i][j][1] = f /\ d \in t[i][j][2]
             Five == {"rated", "layout", "tags", "percent", "high"}
  <1>4. \A t, d : \A f : f \in Pending(t, d) <=>
          (f \in Five /\ \E i \in DOMAIN t : \E j \in DOMAIN t[i] : Has(t, i, j, f, d))
    BY DEF Pending
  <1>5. \A d \in q[2] : q[1] \in Pending(todo, d)
    <2>1. 1 \in DOMAIN todo /\ 1 \in DOMAIN todo[1] /\ todo[1][1] = q
      BY <1>1, <1>2
    <2> QED
      BY <1>3, <1>4, <2>1 DEF Fields
  <1>6. CASE m = 1
    <2>1. rest = rows
      BY <1>6 DEF Rest
    <2>2. DOMAIN rest = 1 .. n - 1 /\ \A i \in 1 .. n - 1 : rest[i] = todo[i + 1]
      BY <1>1, <2>1
    <2>3. rest \in Seq(R)
      BY <1>1, <2>1
    <2>10. n \in Nat \ {0} /\ DOMAIN todo = 1 .. n
      BY <1>1
    <2> HIDE DEF rest, row, rows, n, m, R
    <2>4. ASSUME NEW d \in Docs, NEW f \in Pending(rest, d) PROVE f \in Pending(todo, d)
      <3>1. PICK i \in DOMAIN rest : \E j \in DOMAIN rest[i] : Has(rest, i, j, f, d)
        BY <1>4, <2>4
      <3>2. i + 1 \in DOMAIN todo /\ rest[i] = todo[i + 1]
        BY ONLY <2>10, <2>2, <3>1
      <3> QED
        BY <1>4, <2>4, <3>1, <3>2
    <2>5. ASSUME NEW d \in Docs, NEW f \in Pending(todo, d)
          PROVE  f \in Pending(rest, d) \/ (f = q[1] /\ d \in q[2])
      <3>1. PICK i \in DOMAIN todo : \E j \in DOMAIN todo[i] : Has(todo, i, j, f, d)
        BY <1>4, <2>5
      <3>2. CASE i = 1
        <4>1. todo[1] = row /\ DOMAIN row = {1} /\ row[1] = q
          BY <1>1, <1>2, <1>6
        <4> QED
          BY <3>1, <3>2, <4>1
      <3>3. CASE i # 1
        <4>1. i - 1 \in 1 .. n - 1 /\ (i - 1) + 1 = i
          BY ONLY <2>10, <3>1, <3>3
        <4>2. PICK p \in 1 .. n - 1 : p = i - 1
          BY <4>1
        <4>3. p \in DOMAIN rest /\ rest[p] = todo[i]
          BY <2>2, <4>1, <4>2
        <4>4. f \in Five
          BY <1>4, <2>5
        <4> QED
          BY <1>4, <3>1, <4>3, <4>4
      <3> QED
        BY <3>2, <3>3
    <2>6. rest \in Seq(Seq(Queries) \ {<<>>})
      BY <2>3 DEF R
    <2> HIDE DEF Has
    <2>7. rest = Rest(todo)
      BY DEF rest
    <2> QED
      BY ONLY <1>3, <1>5, <2>4, <2>5, <2>6, <2>7
  <1>7. CASE m # 1
    <2> DEFINE left == Tail(row)
               head == <<left>>
    <2>1. rest = head \o rows
      BY <1>7 DEF Rest
    <2>2. /\ left \in R /\ DOMAIN left = 1 .. m - 1
          /\ \A j \in 1 .. m - 1 : left[j] = row[j + 1]
      <3>1. row \in Seq(Queries) /\ row # <<>>
        BY <1>1
      <3> HIDE DEF row
      <3>2. /\ left \in Seq(Queries) /\ Len(left) = m - 1
            /\ \A j \in 1 .. m - 1 : left[j] = row[j + 1]
        BY <3>1, HeadTailProperties
      <3> HIDE DEF left, m
      <3>3. left # <<>> /\ DOMAIN left = 1 .. m - 1
        BY <1>2, <1>7, <3>2
      <3> QED
        BY <3>2, <3>3
    <2> HIDE DEF left, rest, row, rows, R, m, n
    <2>3. head \in Seq(R) /\ Len(head) = 1 /\ head[1] = left
      BY <2>2
    <2> HIDE DEF head
    <2>4. /\ head \o rows \in Seq(R)
          /\ Len(head \o rows) = Len(head) + Len(rows)
          /\ \A i \in 1 .. Len(head) + Len(rows) : (head \o rows)[i] =
               IF i <= Len(head) THEN head[i] ELSE rows[i - Len(head)]
      BY <1>1, <2>3, ConcatProperties
    <2>5. /\ rest \in Seq(R) /\ DOMAIN rest = 1 .. n
          /\ rest[1] = left
          /\ \A i \in 2 .. n : rest[i] = todo[i]
      <3>1. rest \in Seq(R) /\ Len(rest) = n
        BY <1>1, <2>1, <2>3, <2>4
      <3>2. DOMAIN rest = 1 .. n
        BY <3>1
      <3>3. \A i \in 1 .. n : rest[i] = IF i <= 1 THEN left ELSE rows[i - 1]
        BY <1>1, <2>1, <2>3, <2>4
      <3>4. ASSUME NEW i \in 2 .. n PROVE rest[i] = todo[i]
        <4>1. i - 1 \in 1 .. n - 1 /\ (i - 1) + 1 = i /\ i \in 1 .. n /\ ~(i <= 1)
          BY <1>1
        <4>2. rows[i - 1] = todo[(i - 1) + 1]
          BY <1>1, <4>1
        <4> QED
          BY <3>3, <4>1, <4>2
      <3> QED
        BY <1>1, <3>1, <3>2, <3>3, <3>4
    <2>6. ASSUME NEW d \in Docs, NEW f \in Pending(rest, d) PROVE f \in Pending(todo, d)
      <3>1. PICK i \in DOMAIN rest : \E j \in DOMAIN rest[i] : Has(rest, i, j, f, d)
        BY <1>4, <2>6
      <3>2. PICK j \in DOMAIN rest[i] : Has(rest, i, j, f, d)
        BY <3>1
      <3>3. f \in Five
        BY <1>4, <2>6
      <3>4. CASE i = 1
        <4>1. j \in 1 .. m - 1 /\ left[j] = row[j + 1]
          BY <2>2, <2>5, <3>2, <3>4
        <4>2. j + 1 \in DOMAIN row /\ row = todo[1] /\ 1 \in DOMAIN todo
          BY <1>1, <1>2, <4>1
        <4>3. Has(todo, 1, j + 1, f, d)
          BY <2>5, <3>2, <3>4, <4>1, <4>2
        <4> HIDE DEF Has
        <4> QED
          BY <1>4, <3>3, <4>2, <4>3
      <3>5. CASE i # 1
        <4>1. i \in 2 .. n /\ i \in DOMAIN todo
          BY <1>1, <2>5, <3>1, <3>5
        <4>2. rest[i] = todo[i]
          BY <2>5, <4>1
        <4> QED
          BY <1>4, <3>2, <3>3, <4>1, <4>2
      <3> QED
        BY <3>4, <3>5
    <2>7. ASSUME NEW d \in Docs, NEW f \in Pending(todo, d)
          PROVE  f \in Pending(rest, d) \/ (f = q[1] /\ d \in q[2])
      <3>1. PICK i \in DOMAIN todo : \E j \in DOMAIN todo[i] : Has(todo, i, j, f, d)
        BY <1>4, <2>7
      <3>2. PICK j \in DOMAIN todo[i] : Has(todo, i, j, f, d)
        BY <3>1
      <3>3. f \in Five
        BY <1>4, <2>7
      <3>4. CASE i = 1 /\ j = 1
        BY <1>1, <1>2, <3>2, <3>4
      <3>5. CASE i = 1 /\ j # 1
        <4>1. j \in 1 .. m
          BY <1>1, <1>2, <3>2, <3>5
        <4>2. j - 1 \in 1 .. m - 1 /\ (j - 1) + 1 = j
          BY <1>2, <3>5, <4>1
        <4>3. PICK p \in 1 .. m - 1 : p = j - 1
          BY <4>2
        <4>4. p \in DOMAIN left /\ left[p] = row[j]
          BY <2>2, <4>2, <4>3
        <4>5. 1 \in DOMAIN rest /\ rest[1] = left /\ todo[1] = row
          BY <1>1, <2>5
        <4>6. Has(rest, 1, p, f, d)
          BY <3>2, <3>5, <4>4, <4>5
        <4> HIDE DEF Has
        <4> QED
          BY <1>4, <3>3, <4>4, <4>5, <4>6
      <3>6. CASE i # 1
        <4>1. i \in 2 .. n /\ i \in DOMAIN rest
          BY <1>1, <2>5, <3>1, <3>6
        <4>2. rest[i] = todo[i]
          BY <2>5, <4>1
        <4> QED
          BY <1>4, <3>2, <3>3, <4>1, <4>2
      <3> QED
        BY <3>4, <3>5, <3>6
    <2> QED
      BY <1>3, <1>5, <2>5, <2>6, <2>7 DEF rest, R
  <1> QED
    BY <1>6, <1>7

\* A field that is read, is as it is stored.
LEMMA FieldRead ==
    ASSUME NEW doc \in Rows, NEW tile \in Tiles, NEW field \in Fields, NEW P, NEW R,
           Shows(tile, doc, P), \A f \in P : f \in R \/ f = field,
           field = "layout" => tile.status = "ready" /\ tile.total > 0
    PROVE  Shows([tile EXCEPT ![field] = Fetched(field, doc, tile)], doc, R)
  <1> DEFINE v == Fetched(field, doc, tile)
             new == [tile EXCEPT ![field] = v]
             true == TrueTile(doc)
  <1>1. /\ new.status = tile.status /\ new.title = tile.title /\ new.total = tile.total
        /\ new.rated = IF field = "rated" THEN v ELSE tile.rated
        /\ new.layout = IF field = "layout" THEN v ELSE tile.layout
        /\ new.tags = IF field = "tags" THEN v ELSE tile.tags
        /\ new.percent = IF field = "percent" THEN v ELSE tile.percent
        /\ new.high = IF field = "high" THEN v ELSE tile.high
    BY TileFilled
  <1>2. /\ tile.status = doc.status /\ tile.title = doc.title /\ tile.total = doc.total
        /\ "percent" \notin P => tile.percent = true.percent
        /\ "high" \notin P => tile.high = true.high
        /\ "rated" \notin P => tile.rated = true.rated
        /\ "layout" \notin P => tile.layout = true.layout
        /\ "tags" \notin P => tile.tags = true.tags
    BY DEF Shows
  <1>3. /\ field = "rated" => v = true.rated
        /\ field = "layout" => v = true.layout
        /\ field = "tags" => v = true.tags
        /\ field = "percent" => v = true.percent
        /\ field = "high" => v = true.high
    <2>1. ASSUME field = "rated" PROVE v = true.rated
      <3>1. v = [i \in 1 .. tile.total |-> (i - 1) \in doc.rated]
        BY <2>1 DEF Fetched
      <3>2. true.rated = [i \in 1 .. doc.total |-> (i - 1) \in doc.rated]
        BY TileTyped
      <3> HIDE DEF v, true
      <3> QED
        BY <1>2, <3>1, <3>2
    <2>2. ASSUME field = "layout" PROVE v = true.layout
      BY <1>2, <2>2, TileTyped DEF Fetched
    <2>3. ASSUME field = "tags" PROVE v = true.tags
      BY <2>3, TileTyped DEF Fetched
    <2>4. ASSUME field = "percent" PROVE v = true.percent
      <3>1. v = Percent(doc.total, doc.place)
        BY <2>4 DEF Fetched
      <3> QED
        BY <3>1, TileTyped
    <2>5. ASSUME field = "high" PROVE v = true.high
      <3>1. v = HighWater(doc.place)
        BY <2>5 DEF Fetched
      <3> QED
        BY <3>1, TileTyped
    <2> QED
      BY <2>1, <2>2, <2>3, <2>4, <2>5
  <1>4. Shows(new, doc, R)
    <2> HIDE DEF v, new, true
    <2>1. /\ "percent" \notin R => new.percent = true.percent
          /\ "high" \notin R => new.high = true.high
          /\ "rated" \notin R => new.rated = true.rated
          /\ "layout" \notin R => new.layout = true.layout
          /\ "tags" \notin R => new.tags = true.tags
      BY <1>1, <1>2, <1>3
    <2> QED
      BY <1>1, <1>2, <2>1 DEF Shows, true
  <1> QED
    BY <1>4

LEMMA ReadFine ==
    ASSUME Typed, NEW k \in Requests, Sound(k), Read(k)
    PROVE  Fine(k)
  <1> DEFINE todo == request[k].todo
             q == Head(Head(todo))
             field == q[1]
             of == q[2]
             old == request[k].tiles
             tiles == [d \in Docs |-> IF d \notin of THEN old[d]
                          ELSE [old[d] EXCEPT ![field] = Fetched(field, documents[d], old[d])]]
             rest == Rest(todo)
  <1>1. /\ request[k].step = "reading" /\ UNCHANGED <<documents, stale>>
        /\ Reading(k, tiles, rest)
        /\ Apart(k)
    BY UnwrittenApart DEF Read, At
  <1>2. /\ request[k].action \in {"page", "rename"} /\ todo # <<>> /\ Showing(k)
        /\ request[k].action = "page" => Listing(k)
    BY <1>1 DEF Sound, Paging, At
  <1>3. todo \in Seq(Seq(Queries) \ {<<>>}) /\ old \in [Docs -> Tiles \cup {NoTile}]
    BY WorkFields
  <1>4. /\ rest \in Seq(Seq(Queries) \ {<<>>})
        /\ field \in Fields /\ of \in SUBSET Docs
        /\ \A d \in Docs : Pending(rest, d) \subseteq Pending(todo, d)
        /\ \A d \in Docs : \A f \in Pending(todo, d) :
             f \in Pending(rest, d) \/ (f = field /\ d \in of)
        /\ \A d \in of : field \in Pending(todo, d)
    <2> HIDE DEF todo
    <2>1. q = Head(Head(todo))
      OBVIOUS
    <2> QED
      BY <1>2, <1>3, <2>1, RestPending
  <1>5. \A d \in Docs :
          /\ documents[d] \in Rows /\ documents'[d] = documents[d]
          /\ old[d] = NoTile => Pending(todo, d) = {}
          /\ old[d] # NoTile => old[d] \in Tiles
          /\ old[d] # NoTile /\ "layout" \in Pending(todo, d)
               => old[d].status = "ready" /\ old[d].total > 0
          /\ old[d] # NoTile /\ d \notin stale[k]
               => Shows(old[d], documents[d], Pending(todo, d))
    BY <1>1, <1>2, <1>3 DEF Typed, Showing
  <1>6. \A d \in Docs : tiles[d] = IF d \notin of THEN old[d]
                          ELSE [old[d] EXCEPT ![field] = Fetched(field, documents[d], old[d])]
    OBVIOUS
  <1>7. tiles = [d \in Docs |-> tiles[d]]
    OBVIOUS
  <1> HIDE DEF todo, q, field, of, old, tiles, rest
  <1>8. ASSUME NEW d \in Docs
        PROVE  /\ tiles[d] \in Tiles \cup {NoTile}
               /\ tiles[d] = NoTile <=> old[d] = NoTile
               /\ tiles[d] = NoTile => Pending(rest, d) = {}
               /\ tiles[d] # NoTile /\ "layout" \in Pending(rest, d)
                    => tiles[d].status = "ready" /\ tiles[d].total > 0
               /\ tiles[d] # NoTile /\ d \notin stale[k]
                    => Shows(tiles[d], documents'[d], Pending(rest, d))
    <2>0. /\ Pending(rest, d) \subseteq Pending(todo, d)
          /\ \A f \in Pending(todo, d) : f \in Pending(rest, d) \/ (f = field /\ d \in of)
          /\ d \in of => field \in Pending(todo, d)
      BY <1>4
    <2>1. CASE d \notin of
      <3>1. tiles[d] = old[d] /\ Pending(rest, d) = Pending(todo, d)
        BY <1>6, <2>0, <2>1
      <3> QED
        BY <1>5, <3>1
    <2>2. CASE d \in of
      <3> DEFINE v == Fetched(field, documents[d], old[d])
                 tile == [old[d] EXCEPT ![field] = v]
      <3>1. old[d] # NoTile /\ old[d] \in Tiles
        BY <1>5, <2>0, <2>2
      <3>2. tiles[d] = tile
        BY <1>6, <2>2
      <3>6. documents[d] \in Rows /\ field \in Fields
        BY <1>4, <1>5
      <3>3. tile \in Tiles /\ tile.status = old[d].status /\ tile.total = old[d].total
        BY ONLY <3>1, <3>6, TileFilled
      <3>4. d \notin stale[k] => Shows(tile, documents[d], Pending(rest, d))
        BY <1>4, <1>5, <2>0, <2>2, <3>1, FieldRead
      <3>5. tile # NoTile
        BY <3>3, LibraryAssumption
      <3> HIDE DEF tile, v
      <3> QED
        BY <1>5, <2>0, <3>1, <3>2, <3>3, <3>4, <3>5
    <2> QED
      BY <2>1, <2>2
  <1>9. tiles \in [Docs -> Tiles \cup {NoTile}]
    BY <1>7, <1>8
  <1>10. request[k].action = "page" /\ stale[k] = {} =>
           \A d \in Docs : tiles[d] # NoTile <=> Wanted(k, d)'
    <2> SUFFICES ASSUME request[k].action = "page", stale[k] = {}, NEW d \in Docs
                 PROVE  tiles[d] # NoTile <=> Wanted(k, d)'
      OBVIOUS
    <2>1. old[d] # NoTile <=> Wanted(k, d)
      BY <1>1, <1>2 DEF Listing, old
    <2>2. Goes(k, IF rest = <<>> THEN "answered" ELSE "reading")
      BY <1>1, <1>4, <1>9, ReadingGoes
    <2>3. /\ documents' = documents /\ request'[k].asked = request[k].asked
          /\ request'[k].segment = request[k].segment
      BY <1>1, <2>2 DEF Goes
    <2>4. Wanted(k, d)' <=> Wanted(k, d)
      BY <2>3 DEF Wanted, Used, Exists, InSegment
    <2> QED
      BY <1>8, <2>1, <2>4
  <1> QED
    BY <1>1, <1>2, <1>4, <1>8, <1>9, <1>10, ReadingFine

-----------------------------------------------------------------------------
(* A rename *)

Among(x, s) == \E j \in DOMAIN s : s[j] = x

LEMMA AmongConcat ==
    ASSUME NEW S, NEW s \in Seq(S), NEW t \in Seq(S)
    PROVE  /\ s \o t \in Seq(S)
           /\ s # <<>> => s \o t # <<>>
           /\ \A x : Among(x, s \o t) <=> Among(x, s) \/ Among(x, t)
  <1> DEFINE u == s \o t
             m == Len(s)
             n == Len(t)
  <1>1. /\ m \in Nat /\ n \in Nat
        /\ DOMAIN s = 1 .. m /\ DOMAIN t = 1 .. n
        /\ s # <<>> => m # 0
    OBVIOUS
  <1>2. /\ u \in Seq(S) /\ Len(u) = m + n
        /\ \A i \in 1 .. m + n : u[i] = IF i <= m THEN s[i] ELSE t[i - m]
    BY ConcatProperties
  <1>3. DOMAIN u = 1 .. m + n /\ (m # 0 => u # <<>>)
    <2> HIDE DEF u, n
    <2>1. Len(u) = m + n /\ u \in Seq(S) /\ m + n \in Nat
      BY <1>1, <1>2
    <2> HIDE DEF m
    <2> QED
      BY <1>1, <2>1
  <1> HIDE DEF u, m, n
  <1>4. ASSUME NEW x PROVE Among(x, u) <=> Among(x, s) \/ Among(x, t)
    <2>1. ASSUME NEW j \in 1 .. m, s[j] = x PROVE Among(x, u)
      BY <1>1, <1>2, <1>3, <2>1 DEF Among
    <2>2. ASSUME NEW j \in 1 .. n, t[j] = x PROVE Among(x, u)
      <3>1. m + j \in 1 .. m + n /\ ~(m + j <= m) /\ (m + j) - m = j
        BY <1>1
      <3>2. u[m + j] = t[j]
        BY <1>2, <3>1
      <3> QED
        BY <1>3, <2>2, <3>1, <3>2 DEF Among
    <2>3. ASSUME NEW j \in 1 .. m + n, u[j] = x PROVE Among(x, s) \/ Among(x, t)
      <3>1. CASE j <= m
        BY <1>1, <1>2, <2>3, <3>1 DEF Among
      <3>2. CASE ~(j <= m)
        <4>1. j - m \in 1 .. n
          BY <1>1, <3>2
        <4> QED
          BY <1>1, <1>2, <2>3, <3>2, <4>1 DEF Among
      <3> QED
        BY <3>1, <3>2
    <2> QED
      BY <1>1, <1>3, <2>1, <2>2, <2>3 DEF Among
  <1> QED
    BY <1>1, <1>2, <1>3, <1>4 DEF u

\* What SetTitle puts into a request for this document and its tile.
RenamePlan(d, tile, row) ==
    /\ d \in Docs /\ tile \in Tiles
    /\ row = << <<"percent", {d}>> >> \o Ratings(d, tile) \o << <<"high", {d}>> >>
                      \o Layout(d, tile) \o << <<"tags", {d}>> >>

\* The one row that a rename reads: all the fields that a row of a page has.
LEMMA RenameTodo ==
    ASSUME NEW d, NEW tile, NEW row, RenamePlan(d, tile, row)
    PROVE  /\ << row >> \in Seq(Seq(Queries) \ {<<>>})
           /\ << row >> # <<>>
           /\ \A e \in Docs \ {d} : Pending(<< row >>, e) = {}
           /\ {"percent", "high", "tags"} \subseteq Pending(<< row >>, d)
           /\ tile.total > 0 => "rated" \in Pending(<< row >>, d)
           /\ "layout" \in Pending(<< row >>, d) <=> tile.total > 0 /\ tile.status = "ready"
  <1> DEFINE q(f) == << f, {d} >>
             a == << q("percent") >>
             b == Ratings(d, tile)
             c == << q("high") >>
             e == Layout(d, tile)
             g == << q("tags") >>
  <1>0. d \in Docs /\ tile \in Tiles
    BY DEF RenamePlan
  <1>1. \A f \in Fields : /\ q(f) \in Queries /\ << q(f) >> \in Seq(Queries)
                          /\ q(f)[1] = f /\ q(f)[2] = {d}
                          /\ \A x : Among(x, << q(f) >>) <=> x = q(f)
    <2> SUFFICES ASSUME NEW f \in Fields
                 PROVE  /\ q(f) \in Queries /\ << q(f) >> \in Seq(Queries)
                        /\ q(f)[1] = f /\ q(f)[2] = {d}
                        /\ \A x : Among(x, << q(f) >>) <=> x = q(f)
      OBVIOUS
    <2> DEFINE p == q(f)
               one == << p >>
    <2>1. p \in Queries /\ p[1] = f /\ p[2] = {d}
      BY <1>0 DEF Queries, Fields
    <2> HIDE DEF p
    <2>2. one \in Seq(Queries) /\ DOMAIN one = {1} /\ one[1] = p
      BY <2>1
    <2> HIDE DEF one
    <2>3. \A x : Among(x, one) <=> x = p
      BY <2>2 DEF Among
    <2> QED
      BY <2>1, <2>2, <2>3 DEF one, p
  <1>2. \A x : ~Among(x, <<>>)
    BY DEF Among
  <1>3. /\ b = IF tile.total > 0 THEN << q("rated") >> ELSE <<>>
        /\ e = IF tile.total > 0 /\ tile.status = "ready" THEN << q("layout") >> ELSE <<>>
    BY DEF Ratings, Layout
  <1>10. a # <<>>
    OBVIOUS
  <1>4. row = (((a \o b) \o c) \o e) \o g
    BY DEF RenamePlan
  <1>5. /\ a \in Seq(Queries) /\ b \in Seq(Queries) /\ c \in Seq(Queries)
        /\ e \in Seq(Queries) /\ g \in Seq(Queries)
        /\ \A x : Among(x, a) <=> x = q("percent")
        /\ \A x : Among(x, b) <=> x = q("rated") /\ tile.total > 0
        /\ \A x : Among(x, c) <=> x = q("high")
        /\ \A x : Among(x, e) <=> x = q("layout") /\ tile.total > 0 /\ tile.status = "ready"
        /\ \A x : Among(x, g) <=> x = q("tags")
    <2>1. <<>> \in Seq(Queries)
      OBVIOUS
    <2>2. {"percent", "rated", "high", "layout", "tags"} \subseteq Fields
      BY DEF Fields
    <2> DEFINE one(f) == << q(f) >>
    <2>3. a = one("percent") /\ c = one("high") /\ g = one("tags")
          /\ b = (IF tile.total > 0 THEN one("rated") ELSE <<>>)
          /\ e = IF tile.total > 0 /\ tile.status = "ready" THEN one("layout") ELSE <<>>
      BY <1>3
    <2>4. \A f \in Fields : one(f) \in Seq(Queries) /\ \A x : Among(x, one(f)) <=> x = q(f)
      BY <1>1
    <2> HIDE DEF a, b, c, e, g, one, q
    <2> QED
      BY ONLY <1>2, <2>1, <2>2, <2>3, <2>4
  <1> HIDE DEF a, b, c, e, g
  <1>6. /\ row \in Seq(Queries) \ {<<>>}
        /\ \A x : Among(x, row) <=> \/ x = q("percent") \/ x = q("high") \/ x = q("tags")
                                    \/ x = q("rated") /\ tile.total > 0
                                    \/ x = q("layout") /\ tile.total > 0 /\ tile.status = "ready"
    <2> DEFINE ab == a \o b
               abc == ab \o c
               abce == abc \o e
    <2>1. /\ ab \in Seq(Queries) /\ ab # <<>>
          /\ \A x : Among(x, ab) <=> Among(x, a) \/ Among(x, b)
      <3>1. a \in Seq(Queries) /\ b \in Seq(Queries)
        BY <1>5
      <3> QED
        BY ONLY <1>10, <3>1, AmongConcat
    <2> HIDE DEF ab
    <2>2. /\ abc \in Seq(Queries) /\ abc # <<>>
          /\ \A x : Among(x, abc) <=> Among(x, ab) \/ Among(x, c)
      BY <1>5, <2>1, AmongConcat
    <2> HIDE DEF abc
    <2>3. /\ abce \in Seq(Queries) /\ abce # <<>>
          /\ \A x : Among(x, abce) <=> Among(x, abc) \/ Among(x, e)
      BY <1>5, <2>2, AmongConcat
    <2> HIDE DEF abce
    <2>4. /\ abce \o g \in Seq(Queries) /\ abce \o g # <<>>
          /\ \A x : Among(x, abce \o g) <=> Among(x, abce) \/ Among(x, g)
      BY <1>5, <2>3, AmongConcat
    <2>5. row = abce \o g
      BY <1>4 DEF ab, abc, abce
    <2> HIDE DEF q
    <2> QED
      BY <1>5, <2>1, <2>2, <2>3, <2>4, <2>5
  <1> DEFINE todo == << row >>
  <1>7. /\ todo \in Seq(Seq(Queries) \ {<<>>}) /\ todo # <<>>
        /\ DOMAIN todo = {1} /\ todo[1] = row
    BY <1>6
  <1> HIDE DEF todo
  <1>8. \A h \in Docs : \A f : f \in Pending(todo, h) <=>
          f \in Fields /\ \E x : Among(x, row) /\ x[1] = f /\ h \in x[2]
    BY <1>7 DEF Pending, Among, Fields
  <1>9. /\ \A h \in Docs \ {d} : Pending(todo, h) = {}
        /\ {"percent", "high", "tags"} \subseteq Pending(todo, d)
        /\ tile.total > 0 => "rated" \in Pending(todo, d)
        /\ "layout" \in Pending(todo, d) <=> tile.total > 0 /\ tile.status = "ready"
    <2>0. {"percent", "rated", "high", "layout", "tags"} \subseteq Fields
      BY DEF Fields
    <2>1. \A x : Among(x, row) => \E f \in Fields : x = q(f)
      BY <1>6, <2>0
    <2>2. \A f \in Fields : q(f)[1] = f /\ q(f)[2] = {d}
      BY <1>1
    <2> HIDE DEF q
    <2>3. \A h \in Docs \ {d} : Pending(todo, h) = {}
      <3> SUFFICES ASSUME NEW h \in Docs, h # d, NEW f \in Pending(todo, h) PROVE FALSE
        OBVIOUS
      <3>1. PICK x : Among(x, row) /\ h \in x[2]
        BY <1>8
      <3>2. x[2] = {d}
        BY ONLY <2>1, <2>2, <3>1
      <3> QED
        BY <3>1, <3>2
    <2>8. ASSUME NEW f \in Fields, Among(q(f), row) PROVE f \in Pending(todo, d)
      <3>1. q(f)[1] = f /\ d \in q(f)[2]
        BY <2>2
      <3> QED
        BY <1>0, <1>8, <2>8, <3>1
    <2>4. {"percent", "high", "tags"} \subseteq Pending(todo, d)
      BY <1>6, <2>0, <2>8
    <2>5. tile.total > 0 => "rated" \in Pending(todo, d)
      BY <1>6, <2>0, <2>8
    <2>6. tile.total > 0 /\ tile.status = "ready" => "layout" \in Pending(todo, d)
      BY <1>6, <2>0, <2>8
    <2>7. ASSUME "layout" \in Pending(todo, d) PROVE tile.total > 0 /\ tile.status = "ready"
      <3>1. PICK x : Among(x, row) /\ x[1] = "layout"
        BY <1>0, <1>8, <2>7
      <3>2. PICK f \in Fields : x = q(f)
        BY <2>1, <3>1
      <3>3. f = "layout"
        BY <2>2, <3>1, <3>2
      <3>4. q("layout") \notin {q("percent"), q("high"), q("tags"), q("rated")}
        BY <2>0, <2>2
      <3> QED
        BY <1>6, <3>1, <3>2, <3>3, <3>4
    <2> QED
      BY <2>3, <2>4, <2>5, <2>6, <2>7
  <1> QED
    BY <1>7, <1>9 DEF todo

LEMMA SetTitleFine ==
    ASSUME Typed, NEW k \in Requests, Sound(k), SetTitle(k)
    PROVE  Fine(k)
  <1> DEFINE d == request[k].ids[1]
             tiles == request[k].tiles
             tile == tiles[d]
             doc == documents[d]
             new == IF Exists(d) THEN [doc EXCEPT !.title = "new"] ELSE Gone
             row == << <<"percent", {d}>> >> \o Ratings(d, tile) \o << <<"high", {d}>> >>
                      \o Layout(d, tile) \o << <<"tags", {d}>> >>
             todo == << row >>
  <1>1. /\ request[k].step = "renaming"
        /\ Write(k, d, new)
        /\ Reading(k, tiles, todo)
    BY DEF SetTitle, At
  <1>2. request[k].action = "rename" /\ Renaming(k)
    <2>1. request[k].action \in {"none", "page", "rename"} \cup Actions
      BY WorkFields DEF Works
    <2> QED
      BY <1>1, <2>1 DEF Sound, Batching, Shaped, Paging, Listing, At
  <1>3. /\ tile # NoTile
        /\ \A e \in Docs \ {d} : tiles[e] = NoTile
        /\ d \notin stale[k] => Exists(d) /\ tile = [TileOf(doc) EXCEPT !.title = "new"]
        /\ Len(request[k].ids) = 1
    BY <1>1, <1>2 DEF Renaming, At
  <1>4. d \in Docs /\ tiles \in [Docs -> Tiles \cup {NoTile}]
    <2>1. request[k].ids # <<>>
      BY <1>3
    <2> QED
      BY <2>1, ThisDocument, WorkFields
  <1>5. /\ doc \in Rows
        /\ Exists(d) => doc \in Stored
        /\ ~Exists(d) => doc = Gone
    BY <1>4, ExistsStored
  <1>6. new \in Rows /\ (~Exists(d) => new = Gone)
    BY <1>5, StoredWrites DEF Rows
  <1> HIDE DEF d, tiles, doc, new
  <1>7. Apart(k) /\ documents' = [documents EXCEPT ![d] = new]
    BY <1>1, <1>4, <1>6, WriteApart DEF doc
  <1>8. documents'[d] = new
    BY <1>4, <1>7 DEF Typed
  <1>9. tile \in Tiles
    BY <1>3, <1>4
  <1>10. /\ todo \in Seq(Seq(Queries) \ {<<>>})
         /\ todo # <<>>
         /\ \A e \in Docs \ {d} : Pending(todo, e) = {}
         /\ {"percent", "high", "tags"} \subseteq Pending(todo, d)
         /\ tile.total > 0 => "rated" \in Pending(todo, d)
         /\ "layout" \in Pending(todo, d) <=> tile.total > 0 /\ tile.status = "ready"
    <2>1. row = << <<"percent", {d}>> >> \o Ratings(d, tile) \o << <<"high", {d}>> >>
                      \o Layout(d, tile) \o << <<"tags", {d}>> >>
      OBVIOUS
    <2>2. RenamePlan(d, tile, row)
      BY <1>4, <1>9, <2>1 DEF RenamePlan
    <2> HIDE DEF row, tile
    <2> QED
      BY ONLY <2>2, RenameTodo
  <1>11. ASSUME d \notin stale[k]
         PROVE  Shows(tile, new, Pending(todo, d))
    <2> DEFINE t == TileOf(doc)
               true == TrueTile(new)
    <2>1. Exists(d) /\ tile = [t EXCEPT !.title = "new"] /\ new = [doc EXCEPT !.title = "new"]
      BY <1>3, <1>11 DEF new
    <2>2. /\ t \in Tiles /\ t.status = doc.status /\ t.total = doc.total
          /\ t.rated = <<>> /\ t.layout = <<>>
      BY <1>5, TileTyped
    <2> HIDE DEF t
    <2>3. /\ tile.status = doc.status /\ tile.total = doc.total /\ tile.title = "new"
          /\ tile.rated = <<>> /\ tile.layout = <<>>
      BY <2>1, <2>2 DEF Tiles
    <2>4. new.status = doc.status /\ new.total = doc.total /\ new.title = "new"
          /\ new.total \in Nat
      BY <1>5, <2>1 DEF Stored
    <2>5. ASSUME "rated" \notin Pending(todo, d) PROVE true.rated = <<>>
      <3>1. new.total = 0
        BY <1>10, <2>3, <2>4, <2>5
      <3>2. true.rated = [i \in 1 .. new.total |-> (i - 1) \in new.rated]
        BY <1>6, TileTyped
      <3>3. 1 .. 0 = {}
        OBVIOUS
      <3> QED
        BY <3>1, <3>2, <3>3
    <2>6. ASSUME "layout" \notin Pending(todo, d) PROVE true.layout = <<>>
      <3>1. ~(new.total > 0 /\ new.status = "ready")
        BY <1>10, <2>3, <2>4, <2>6
      <3>2. true.layout = IF new.status = "ready" /\ new.total > 0 THEN new.sections ELSE <<>>
        BY <1>6, TileTyped
      <3> QED
        BY <3>1, <3>2
    <2> HIDE DEF tile, todo
    <2> QED
      BY <1>10, <2>3, <2>4, <2>5, <2>6 DEF Shows
  <1> HIDE DEF tile, todo
  <1>12. ASSUME NEW e \in Docs
         PROVE  /\ tiles[e] = NoTile => Pending(todo, e) = {}
                /\ tiles[e] # NoTile /\ "layout" \in Pending(todo, e)
                     => tiles[e].status = "ready" /\ tiles[e].total > 0
                /\ tiles[e] # NoTile /\ e \notin stale[k]
                     => Shows(tiles[e], documents'[e], Pending(todo, e))
    <2>1. CASE e = d
      BY <1>3, <1>8, <1>10, <1>11, <2>1 DEF tile
    <2>2. CASE e # d
      BY <1>3, <1>10, <2>2
    <2> QED
      BY <2>1, <2>2
  <1> QED
    BY <1>1, <1>2, <1>4, <1>7, <1>10, <1>12, ReadingFine

-----------------------------------------------------------------------------
(* The reader's steps, and every step *)

\* A reader writes a place or a rating of a document that is there.
LEMMA RevealApart ==
    ASSUME Typed, NEW d \in Docs, Reveal(d)
    PROVE  /\ Apart(Nobody)
           /\ documents' = [documents EXCEPT ![d] = documents'[d]]
           /\ documents[d] \in Stored /\ documents'[d] \in Stored
           /\ documents'[d].tags = documents[d].tags
           /\ request' = request /\ moves' \in 0 .. MaxMoves
  <1> DEFINE doc == documents[d]
             at == IF doc.place = Unread THEN 0 ELSE doc.place.high + 1
             place == [current |-> at, high |-> at]
             new == [doc EXCEPT !.place = place]
  <1>1. /\ moves < MaxMoves /\ doc.status = "ready"
        /\ Write(Nobody, d, new)
        /\ moves' = moves + 1 /\ request' = request
    BY DEF Reveal
  <1>2. doc \in Stored /\ doc.total > 0
    <2>1. doc \in Rows /\ (doc # Gone => doc \in Stored) /\ doc # Gone
      BY <1>1, ExistsStored, GoneIsNone DEF Exists
    <2> QED
      BY <1>1, <2>1, StoredFields
  <1>3. at \in Nat
    BY <1>2, StoredFields
  <1> HIDE DEF at, doc
  <1>4. new \in Stored
    <2>1. \A c, h \in Nat : c <= h =>
            [doc EXCEPT !.place = [current |-> c, high |-> h]] \in Stored
      BY <1>2, StoredWrites
    <2>2. at <= at
      BY <1>3
    <2> QED
      BY ONLY <1>3, <2>1, <2>2
  <1> HIDE DEF place
  <1>5. new.tags = doc.tags
    BY <1>2 DEF Stored
  <1> HIDE DEF new
  <1>6. Apart(Nobody) /\ documents' = [documents EXCEPT ![d] = new]
    <2>1. new \in Rows /\ Exists(d)
      BY <1>2, <1>4, GoneIsNone DEF Rows, Exists, doc
    <2> QED
      BY <1>1, <2>1, WriteApart
  <1>7. documents'[d] = new
    BY <1>6 DEF Typed
  <1>8. moves' \in 0 .. MaxMoves
    BY <1>1, LibraryAssumption DEF Typed
  <1> QED
    BY <1>1, <1>2, <1>4, <1>5, <1>6, <1>7, <1>8 DEF doc

LEMMA RateApart ==
    ASSUME Typed, NEW d \in Docs, Rate(d)
    PROVE  /\ Apart(Nobody)
           /\ documents' = [documents EXCEPT ![d] = documents'[d]]
           /\ documents[d] \in Stored /\ documents'[d] \in Stored
           /\ documents'[d].tags = documents[d].tags
           /\ request' = request /\ moves' \in 0 .. MaxMoves
  <1> DEFINE doc == documents[d]
             j == doc.place.current
             new == [doc EXCEPT !.rated = doc.rated \cup {j}]
  <1>1. /\ moves < MaxMoves /\ doc.place # Unread /\ j < Chunks(doc.sections)
        /\ Write(Nobody, d, new)
        /\ moves' = moves + 1 /\ request' = request
    BY DEF Rate
  <1>2. doc \in Stored
    <2>1. doc \in Rows /\ (doc # Gone => doc \in Stored) /\ doc # Gone
      BY <1>1, ExistsStored, GoneIsNone DEF Exists
    <2> QED
      BY <2>1
  <1>3. j \in Nat
    BY <1>1, <1>2, StoredFields
  <1> HIDE DEF j, doc
  <1>4. new \in Stored
    BY <1>1, <1>2, <1>3, StoredWrites
  <1>5. new.tags = doc.tags
    BY <1>2 DEF Stored
  <1> HIDE DEF new
  <1>6. Apart(Nobody) /\ documents' = [documents EXCEPT ![d] = new]
    <2>1. new \in Rows /\ Exists(d)
      BY <1>2, <1>4, GoneIsNone DEF Rows, Exists, doc
    <2> QED
      BY <1>1, <2>1, WriteApart
  <1>7. documents'[d] = new
    BY <1>6 DEF Typed
  <1>8. moves' \in 0 .. MaxMoves
    BY <1>1, LibraryAssumption DEF Typed
  <1> QED
    BY <1>1, <1>2, <1>4, <1>5, <1>6, <1>7, <1>8 DEF doc

AllSound == \A k \in Requests : Sound(k)

LEMMA AskFine ==
    ASSUME Typed, AllSound, NEW k \in Requests, Ask(k)
    PROVE  Fine(k) /\ moves' = moves
  <1>1. CASE \E segment \in Segments, asked \in Filters : GetLibrary(k, segment, asked)
    BY <1>1, GetLibraryFine DEF GetLibrary
  <1>2. CASE \E d \in Docs : Rename(k, d)
    BY <1>2, RenameFine DEF Rename
  <1>3. CASE \E action \in Actions, ids \in Selections, asked \in Filters :
               Batch(k, action, ids, asked)
    BY <1>3, BatchFine DEF Batch
  <1>4. CASE \E action \in Actions, d \in Docs : PressButton(k, action, d)
    BY <1>4, PressButtonFine DEF PressButton
  <1> QED
    BY <1>1, <1>2, <1>3, <1>4 DEF Ask

LEMMA ServeFine ==
    ASSUME Typed, AllSound, NEW k \in Requests, Serve(k)
    PROVE  Fine(k) /\ moves' = moves
  <1>0. Sound(k)
    BY DEF AllSound
  <1>1. CASE ListRows(k)
    BY <1>0, <1>1, ListRowsFine DEF ListRows
  <1>2. CASE Read(k)
    BY <1>0, <1>2, ReadFine DEF Read
  <1>3. CASE SetTitle(k)
    BY <1>0, <1>3, SetTitleFine DEF SetTitle
  <1>4. CASE Load(k)
    BY <1>0, <1>4, LoadFine DEF Load
  <1>5. CASE Delete(k)
    BY <1>0, <1>5, DeleteFine DEF Delete
  <1>6. CASE AddTag(k)
    BY <1>0, <1>6, AddTagFine DEF AddTag
  <1>7. CASE RemoveTag(k)
    BY <1>0, <1>7, RemoveTagFine DEF RemoveTag
  <1>8. CASE Wipe(k)
    BY <1>0, <1>8, WipeFine DEF Wipe
  <1>9. CASE ParseFails(k)
    BY <1>0, <1>9, ParseFailsFine DEF ParseFails
  <1>10. CASE \E s \in Layouts : Persist(k, s)
    BY <1>0, <1>10, PersistFine DEF Persist
  <1>11. CASE Collide(k)
    BY <1>0, <1>11, CollideFine DEF Collide
  <1>12. CASE MarkReady(k)
    BY <1>0, <1>12, MarkReadyFine DEF MarkReady
  <1>13. CASE Reanchor(k)
    BY <1>0, <1>13, ReanchorFine DEF Reanchor
  <1> QED
    BY <1>1, <1>2, <1>3, <1>4, <1>5, <1>6, <1>7, <1>8, <1>9, <1>10, <1>11, <1>12, <1>13
    DEF Serve

LEMMA TypedStart == Init => Typed /\ AllSound
  <1> SUFFICES ASSUME Init PROVE Typed /\ AllSound
    OBVIOUS
  <1>1. /\ documents \in [Docs -> Stored]
        /\ request = [k \in Requests |-> Idle]
        /\ stale = [k \in Requests |-> {}]
        /\ moves = 0
    BY LibraryAssumption DEF Init
  <1>2. Typed
    <2>1. documents \in [Docs -> Rows] /\ request \in [Requests -> Works]
      BY <1>1, IdleWork DEF Rows
    <2>2. stale \in [Requests -> SUBSET Docs] /\ moves \in 0 .. MaxMoves
      BY <1>1, LibraryAssumption
    <2> QED
      BY <2>1, <2>2 DEF Typed
  <1>3. ASSUME NEW k \in Requests PROVE Sound(k)
    <2>1. request[k].step = "idle" /\ request[k].action = "none"
      BY <1>1 DEF Idle
    <2> QED
      BY <2>1 DEF Sound, Batching, Paging, At, Actions
  <1> QED
    BY <1>2, <1>3 DEF AllSound

LEMMA TypedStep == Typed /\ AllSound /\ [Next]_vars => Typed' /\ AllSound'
  <1> SUFFICES ASSUME Typed, AllSound, [Next]_vars PROVE Typed' /\ AllSound'
    OBVIOUS
  <1>1. ASSUME NEW k \in Requests, Ask(k) \/ Serve(k) PROVE Typed' /\ AllSound'
    <2>1. Fine(k) /\ moves' = moves
      BY <1>1, AskFine, ServeFine
    <2>2. Apart(k) /\ request' \in [Requests -> Works] /\ Sound(k)'
          /\ \A j \in Requests \ {k} : request'[j] = request[j]
      BY <2>1 DEF Fine, Others
    <2>3. \A j \in Requests : Sound(j)'
      BY <2>2, ApartSound DEF AllSound
    <2> QED
      BY <2>1, <2>2, <2>3 DEF Typed, Apart, AllSound
  <1>2. ASSUME NEW d \in Docs, Reveal(d) \/ Rate(d) PROVE Typed' /\ AllSound'
    <2>1. Apart(Nobody) /\ request' = request /\ moves' \in 0 .. MaxMoves
      BY <1>2, RevealApart, RateApart
    <2>2. Nobody \notin Requests
      BY LibraryAssumption
    <2>3. \A j \in Requests : Sound(j)'
      <3>1. \A j \in Requests \ {Nobody} : request'[j] = request[j]
        BY <2>1
      <3> QED
        BY <2>1, <2>2, <3>1, ApartSound DEF AllSound
    <2> QED
      BY <2>1, <2>3 DEF Typed, Apart, AllSound
  <1>3. CASE UNCHANGED vars
    <2>1. documents' = documents /\ request' = request /\ stale' = stale /\ moves' = moves
      BY <1>3 DEF vars
    <2>2. Typed'
      BY <2>1 DEF Typed
    <2>3. Apart(Nobody)
      BY <2>1, UnwrittenApart
    <2>4. Nobody \notin Requests
      BY LibraryAssumption
    <2>5. \A j \in Requests \ {Nobody} : request'[j] = request[j]
      BY <2>1
    <2>6. \A j \in Requests : Sound(j)'
      BY <2>3, <2>4, <2>5, ApartSound DEF AllSound
    <2> QED
      BY <2>2, <2>6 DEF AllSound
  <1> QED
    BY <1>1, <1>2, <1>3 DEF Next

-----------------------------------------------------------------------------
(* What follows from it *)

LEMMA Products ==
    /\ \A a, b \in Nat \ {0} : a * b \in Nat \ {0}
    /\ \A a, b, c \in Nat : a < b => a * c <= b * c
    /\ \A a, b \in Nat : \A c \in Nat \ {0} : a < b => a * c < b * c
BY SMT

\* A document is in one segment besides that of all.
LEMMA OneSegment ==
    ASSUME NEW doc \in Rows
    PROVE  Cardinality({s \in Segments : InSegment(doc, s)}) = 2
  <1> DEFINE high == HighWater(doc.place)
             cut == FinishedPercent * doc.total
             S == {s \in Segments : InSegment(doc, s)}
             other == IF high = 0 THEN "unread"
                      ELSE IF 100 * high < cut THEN "in_progress" ELSE "finished"
  <1>1. /\ high \in Nat /\ doc.total \in Nat
        /\ high > 0 => doc.total > 0
    BY RowFields DEF HighWater
  <1>2. cut \in Nat /\ (doc.total > 0 => cut > 0)
    <2>1. FinishedPercent \in Nat \ {0}
      <3>1. FinishedPercent \in 1 .. 100
        BY LibraryAssumption
      <3> QED
        BY ONLY <3>1
    <2>2. doc.total = 0 => cut = 0
      BY <2>1
    <2>3. doc.total > 0 => cut \in Nat \ {0}
      BY <1>1, <2>1, Products
    <2> QED
      BY <1>1, <2>2, <2>3
  <1>3. /\ InSegment(doc, "all")
        /\ InSegment(doc, "unread") <=> high = 0
        /\ InSegment(doc, "in_progress") <=> high > 0 /\ doc.total > 0 /\ 100 * high < cut
        /\ InSegment(doc, "finished") <=> doc.total > 0 /\ 100 * high >= cut
    BY DEF InSegment
  <1> HIDE DEF high, cut
  <1>4. \A s \in Segments : InSegment(doc, s) <=> s = "all" \/ s = other
    BY <1>1, <1>2, <1>3 DEF Segments
  <1>5. S = {"all"} \cup {other} /\ other \notin {"all"}
    BY <1>4 DEF Segments
  <1>6. IsFiniteSet({"all"}) /\ Cardinality({"all"}) = 1
    BY FS_Singleton
  <1> HIDE DEF S, other
  <1>7. Cardinality(S) = 2
    BY <1>5, <1>6, FS_AddElement
  <1> QED
    BY <1>7 DEF S

LEMMA TypedTypeOK == Typed => TypeOK
  <1> SUFFICES ASSUME Typed PROVE TypeOK
    OBVIOUS
  <1>1. ASSUME NEW d \in Docs
        PROVE  LET doc == documents[d] IN
               /\ doc.status \in {"processing", "ready", "failed", "gone"}
               /\ doc.title \in {"old", "new"}
               /\ doc.sections \in Layouts \cup {<<>>}
               /\ doc.rated \subseteq 0 .. Chunks(doc.sections) - 1
               /\ doc.tags \subseteq Tags
               /\ doc.place # Unread => /\ doc.place.current \in 0 .. doc.place.high
                                        /\ doc.total > 0
               /\ doc.status = "ready" => doc.total > 0
               /\ Cardinality({s \in Segments : InSegment(doc, s)}) = 2
    <2> DEFINE doc == documents[d]
    <2>1. doc \in Rows
      BY DEF Typed
    <2> HIDE DEF doc
    <2>2. Cardinality({s \in Segments : InSegment(doc, s)}) = 2
      BY <2>1, OneSegment
    <2>3. doc.rated \subseteq 0 .. Chunks(doc.sections) - 1
      <3>1. Chunks(doc.sections) \in Nat
        BY <2>1, RowFields, LayoutChunks
      <3> QED
        BY <2>1, <3>1, RowFields
    <2>4. doc.place # Unread => doc.place.current \in 0 .. doc.place.high /\ doc.total > 0
      BY <2>1, RowFields
    <2> QED
      BY <2>1, <2>2, <2>3, <2>4, RowFields DEF doc
  <1>2. ASSUME NEW k \in Requests
        PROVE  /\ request[k].step \in
                    {"idle", "listing", "reading", "renaming", "loading", "acting",
                     "parsing", "marking", "placing", "answered", "failed"}
               /\ request[k].active \subseteq Tags
               /\ request[k].counted \subseteq Docs
               /\ stale[k] \subseteq Docs
    BY WorkFields DEF Steps
  <1> QED
    BY <1>1, <1>2 DEF TypeOK, Typed

\* A chunk is in a bucket there is.
LEMMA BucketThere ==
    ASSUME NEW n \in Nat, NEW j \in Nat, j < n
    PROVE  BucketOf(j, n) \in 0 .. Buckets - 1
  <1> DEFINE a == j * Buckets
             q == a \div n
             B == Buckets
  <1>1. B \in Nat \ {0}
    BY LibraryAssumption
  <1>2. a \in Nat /\ a < n * B
    <2>1. j * B < n * B
      BY <1>1, Products
    <2> QED
      BY <1>1, <2>1
  <1> HIDE DEF a
  <1>3. q \in Nat /\ q * n <= a
    BY <1>2
  <1> HIDE DEF q, B
  <1>4. q < B
    <2> SUFFICES ASSUME B <= q PROVE FALSE
      BY <1>1, <1>3
    <2>1. B * n <= q * n
      BY <1>1, <1>3, Products
    <2>2. n * B = B * n /\ B * n \in Nat /\ q * n \in Nat
      BY <1>1, <1>3
    <2> QED
      BY <1>2, <1>3, <2>1, <2>2
  <1> QED
    BY <1>1, <1>3, <1>4 DEF BucketOf, q, a, B

\* A later chunk is in no earlier bucket.
LEMMA BucketsInOrder ==
    ASSUME NEW n \in Nat \ {0}, NEW i \in Nat, NEW j \in Nat, i <= j
    PROVE  /\ BucketOf(i, n) \in Nat /\ BucketOf(j, n) \in Nat
           /\ BucketOf(i, n) <= BucketOf(j, n)
  <1> DEFINE a == i * Buckets
             c == j * Buckets
             p == a \div n
             q == c \div n
  <1>1. Buckets \in Nat \ {0}
    BY LibraryAssumption
  <1>2. a \in Nat /\ c \in Nat /\ a <= c
    BY <1>1, Products
  <1> HIDE DEF a, c
  <1>3. p \in Nat /\ q \in Nat /\ p * n <= a /\ c < (q + 1) * n
    BY <1>2
  <1> HIDE DEF p, q
  <1>4. p <= q
    <2> SUFFICES ASSUME q + 1 <= p PROVE FALSE
      BY <1>3
    <2>1. (q + 1) * n <= p * n
      BY <1>3, Products
    <2>2. (q + 1) * n \in Nat /\ p * n \in Nat
      BY <1>3
    <2> QED
      BY <1>2, <1>3, <2>1, <2>2
  <1> QED
    BY <1>3, <1>4 DEF BucketOf, p, q, a, c

LEMMA MarksOfTiles ==
    ASSUME NEW tile \in Tiles
    PROVE  MarksAgree(tile)
  <1> DEFINE rated == tile.rated
             high == tile.high
             n == Len(rated)
             cells == Chunks(tile.layout)
             bucket == Silhouette(rated, high)
             cell == Drawer(tile.layout, rated, high)
             chunksOf(b) == {j \in 0 .. n - 1 : BucketOf(j, n) = b}
  <1>1. rated \in Seq(BOOLEAN) /\ high \in Nat /\ tile.layout \in Layouts \cup {<<>>}
    BY DEF Tiles
  <1>2. n \in Nat /\ cells \in Nat
    BY <1>1, LayoutChunks
  <1>3. /\ DOMAIN cell = 0 .. cells - 1
        /\ \A j \in 0 .. cells - 1 : cell[j] =
             IF j >= high \/ j >= n THEN "unread" ELSE IF rated[j + 1] THEN "rated" ELSE "read"
    BY DEF Drawer
  <1>4. /\ DOMAIN bucket = 0 .. Buckets - 1
        /\ \A b \in 0 .. Buckets - 1 : bucket[b] =
             IF n = 0 THEN "unread"
             ELSE IF chunksOf(b) = {} THEN "absent"
             ELSE IF \A j \in chunksOf(b) : j >= high THEN "unread"
             ELSE IF \E j \in chunksOf(b) : rated[j + 1] THEN "rated" ELSE "read"
    BY DEF Silhouette
  <1> HIDE DEF bucket, cell, rated, high, n, cells
  <1>5. ASSUME NEW j \in 0 .. cells - 1, j < n
        PROVE  LET b == BucketOf(j, n) IN
               /\ b \in DOMAIN bucket /\ bucket[b] # "absent"
               /\ cell[j] = "rated" => bucket[b] = "rated"
               /\ cell[j] = "read" => bucket[b] # "unread"
    <2> DEFINE b == BucketOf(j, n)
               here == chunksOf(b)
    <2>1. b \in 0 .. Buckets - 1
      BY <1>2, <1>5, BucketThere
    <2>2. j \in here
      BY <1>2, <1>5
    <2>3. bucket[b] =
             IF n = 0 THEN "unread"
             ELSE IF here = {} THEN "absent"
             ELSE IF \A i \in here : i >= high THEN "unread"
             ELSE IF \E i \in here : rated[i + 1] THEN "rated" ELSE "read"
      BY <1>4, <2>1
    <2>4. cell[j] = IF j >= high THEN "unread" ELSE IF rated[j + 1] THEN "rated" ELSE "read"
      BY <1>2, <1>3, <1>5
    <2>5. n # 0
      BY <1>2, <1>5
    <2> HIDE DEF b, here
    <2>6. b \in DOMAIN bucket /\ bucket[b] # "absent"
      BY <1>4, <2>1, <2>2, <2>3, <2>5
    <2>7. cell[j] = "rated" => bucket[b] = "rated"
      BY <2>2, <2>3, <2>4, <2>5
    <2>8. cell[j] = "read" => bucket[b] # "unread"
      BY <2>2, <2>3, <2>4, <2>5
    <2> QED
      BY <2>6, <2>7, <2>8 DEF b
  <1>6. ASSUME NEW j \in DOMAIN cell, cell[j] \in {"read", "rated"}
        PROVE  /\ \E b \in DOMAIN bucket : bucket[b] \in {"read", "rated"}
               /\ cell[j] = "rated" => \E b \in DOMAIN bucket : bucket[b] \in {"rated"}
    <2>1. j \in 0 .. cells - 1 /\ j < n
      BY <1>2, <1>3, <1>6
    <2> DEFINE b == BucketOf(j, n)
    <2>2. /\ b \in DOMAIN bucket /\ bucket[b] # "absent"
          /\ cell[j] = "rated" => bucket[b] = "rated"
          /\ cell[j] = "read" => bucket[b] # "unread"
      BY <1>5, <2>1
    <2>3. bucket[b] \in {"unread", "absent", "read", "rated"}
      BY <1>4, <2>2
    <2> HIDE DEF b
    <2> QED
      BY <1>6, <2>2, <2>3
  <1>7. ASSUME NEW a \in DOMAIN bucket, NEW b \in DOMAIN bucket, a < b,
               bucket[a] = "unread", bucket[b] \in {"read", "rated"}
        PROVE  FALSE
    <2> DEFINE early == chunksOf(a)
               late == chunksOf(b)
    <2>1. a \in Int /\ b \in Int
      BY <1>4, LibraryAssumption
    <2>2. /\ bucket[a] = IF n = 0 THEN "unread"
                         ELSE IF early = {} THEN "absent"
                         ELSE IF \A j \in early : j >= high THEN "unread"
                         ELSE IF \E j \in early : rated[j + 1] THEN "rated" ELSE "read"
          /\ bucket[b] = IF n = 0 THEN "unread"
                         ELSE IF late = {} THEN "absent"
                         ELSE IF \A j \in late : j >= high THEN "unread"
                         ELSE IF \E j \in late : rated[j + 1] THEN "rated" ELSE "read"
      BY <1>4
    <2> HIDE DEF early, late
    <2>3. n # 0 /\ early # {} /\ \A j \in early : j >= high
      BY <1>7, <2>2
    <2>4. PICK j \in late : ~(j >= high)
      BY <1>7, <2>2
    <2>5. PICK i \in early : i >= high
      BY <2>3
    <2>6. /\ i \in 0 .. n - 1 /\ BucketOf(i, n) = a
          /\ j \in 0 .. n - 1 /\ BucketOf(j, n) = b
      BY DEF early, late
    <2>7. n \in Nat \ {0} /\ i \in Nat /\ j \in Nat /\ j <= i
      BY <1>1, <1>2, <2>3, <2>4, <2>5, <2>6 DEF high
    <2>8. BucketOf(j, n) <= BucketOf(i, n)
      BY <2>7, BucketsInOrder
    <2> QED
      BY <1>7, <2>1, <2>6, <2>8
  <1> QED
    BY <1>6, <1>7 DEF MarksAgree, bucket, cell, rated, high, n

\* Tiles with the same fields are the same.
LEMMA SameTile ==
    ASSUME NEW s \in Tiles, NEW t \in Tiles,
           s.status = t.status, s.title = t.title, s.total = t.total, s.percent = t.percent,
           s.high = t.high, s.rated = t.rated, s.layout = t.layout, s.tags = t.tags
    PROVE  s = t
BY DEF Tiles

LEMMA SoundTiles == Typed /\ AllSound => TilesAreTrue
  <1> SUFFICES ASSUME Typed, AllSound, NEW k \in Requests, request[k].step = "answered",
                      request[k].action \in {"page", "rename"}
               PROVE  /\ \A d \in Docs : request[k].tiles[d] # NoTile =>
                           /\ MarksAgree(request[k].tiles[d])
                           /\ d \notin stale[k] => request[k].tiles[d] = TrueTile(documents[d])
                      /\ request[k].action = "page" /\ stale[k] = {} =>
                           \A d \in Docs :
                             LET listed  == request[k].tiles[d] # NoTile
                                 belongs == /\ Exists(d)
                                            /\ InSegment(documents[d], request[k].segment)
                             IN  /\ belongs /\ Used(k) \subseteq documents[d].tags => listed
                                 /\ listed =>
                                      /\ belongs
                                      /\ \/ Used(k) = {}
                                         \/ Used(k) \cap documents[d].tags # {}
    BY DEF TilesAreTrue, At
  <1>1. /\ Showing(k) /\ request[k].todo = <<>>
        /\ request[k].action = "page" => Listing(k)
    BY DEF AllSound, Sound, Paging, At
  <1>2. ASSUME NEW d \in Docs, request[k].tiles[d] # NoTile
        PROVE  /\ MarksAgree(request[k].tiles[d])
               /\ d \notin stale[k] => request[k].tiles[d] = TrueTile(documents[d])
    <2> DEFINE tile == request[k].tiles[d]
               doc == documents[d]
    <2>1. tile \in Tiles /\ doc \in Rows
      BY <1>2, WorkFields DEF Typed
    <2>2. Pending(request[k].todo, d) = {}
      BY <1>1, NothingPending
    <2>3. d \notin stale[k] => Shows(tile, doc, {})
      BY <1>1, <1>2, <2>2 DEF Showing
    <2> HIDE DEF tile, doc
    <2>4. ASSUME d \notin stale[k] PROVE tile = TrueTile(doc)
      <3> DEFINE true == TrueTile(doc)
      <3>1. true \in Tiles
        BY <2>1, TileTyped
      <3>2. /\ tile.percent = true.percent /\ tile.high = true.high /\ tile.rated = true.rated
            /\ tile.layout = true.layout /\ tile.tags = true.tags
            /\ tile.status = doc.status /\ tile.title = doc.title /\ tile.total = doc.total
        BY <2>3, <2>4 DEF Shows
      <3>3. /\ true.status = doc.status /\ true.title = doc.title /\ true.total = doc.total
        BY <2>1, TileTyped
      <3> HIDE DEF true
      <3>4. tile = true
        BY <2>1, <3>1, <3>2, <3>3, SameTile
      <3> QED
        BY <3>4 DEF true
    <2> QED
      BY <2>1, <2>4, MarksOfTiles DEF tile, doc
  <1>3. request[k].action = "page" /\ stale[k] = {} =>
          \A d \in Docs : request[k].tiles[d] # NoTile <=> Wanted(k, d)
    BY <1>1 DEF Listing
  <1>4. ASSUME NEW d \in Docs
        PROVE  /\ /\ Exists(d) /\ InSegment(documents[d], request[k].segment)
                  /\ Used(k) \subseteq documents[d].tags
                  => Wanted(k, d)
               /\ Wanted(k, d) =>
                    /\ Exists(d) /\ InSegment(documents[d], request[k].segment)
                    /\ Used(k) = {} \/ Used(k) \cap documents[d].tags # {}
    BY DEF Wanted
  <1> QED
    BY <1>2, <1>3, <1>4

-----------------------------------------------------------------------------
(* What the batches have counted *)

Deletions(d) == {k \in Requests : request[k].action = "delete" /\ d \in request[k].counted}
Taggings(action, d, t) ==
    {k \in Requests : /\ request[k].action = action
                      /\ d \in request[k].counted
                      /\ Tag(k) = t}

\* One document is deleted once, and its tags are what was added and removed.
Counted(d) ==
    /\ Cardinality(Deletions(d)) = IF Exists(d) THEN 0 ELSE 1
    /\ Exists(d) => \A t \in Tags :
         LET net == Cardinality(Taggings("tag", d, t)) - Cardinality(Taggings("untag", d, t))
         IN  /\ net \in -1 .. 1
             /\ net = 1 => t \in documents[d].tags
             /\ net = -1 => t \notin documents[d].tags

AllCounted == \A d \in Docs : Counted(d)

\* The store has the documents and the tags that it had.
StoreKept == \A d \in Docs : /\ Exists(d)' <=> Exists(d)
                             /\ documents'[d].tags = documents[d].tags

\* A request has counted what it had, of deletions and tags.
Keeps(k) ==
    \/ request'[k] = request[k]
    \/ request[k].action \notin Actions /\ request'[k].counted = {}
    \/ /\ request'[k].action = request[k].action
       /\ \/ request[k].action \notin {"delete", "tag", "untag"}
          \/ /\ request'[k].asked = request[k].asked
             /\ request'[k].counted = request[k].counted

LEMMA CountedSets ==
    ASSUME NEW d, NEW t, NEW action
    PROVE  /\ IsFiniteSet(Deletions(d)) /\ IsFiniteSet(Taggings(action, d, t))
           /\ Cardinality(Deletions(d)) \in Nat /\ Cardinality(Taggings(action, d, t)) \in Nat
  <1>1. Deletions(d) \subseteq Requests /\ Taggings(action, d, t) \subseteq Requests
    BY DEF Deletions, Taggings
  <1>2. IsFiniteSet(Requests)
    BY LibraryAssumption
  <1> QED
    BY <1>1, <1>2, FS_Subset, FS_CardinalityType

LEMMA KeepsSets ==
    ASSUME NEW k \in Requests, Keeps(k), NEW d, NEW t
    PROVE  /\ k \in Deletions(d)' <=> k \in Deletions(d)
           /\ \A action \in {"tag", "untag"} :
                k \in Taggings(action, d, t)' <=> k \in Taggings(action, d, t)
  <1>1. CASE request'[k] = request[k]
    <2>1. Tag(k)' = Tag(k)
      BY <1>1 DEF Tag
    <2> QED
      BY <1>1, <2>1 DEF Deletions, Taggings
  <1>2. CASE request[k].action \notin Actions /\ request'[k].counted = {}
    BY <1>2 DEF Deletions, Taggings, Actions
  <1>3. CASE /\ request'[k].action = request[k].action
             /\ request[k].action \notin {"delete", "tag", "untag"}
    BY <1>3 DEF Deletions, Taggings
  <1>4. CASE /\ request'[k].action = request[k].action
             /\ request'[k].asked = request[k].asked
             /\ request'[k].counted = request[k].counted
    <2>1. Tag(k)' = Tag(k)
      BY <1>4 DEF Tag
    <2> QED
      BY <1>4, <2>1 DEF Deletions, Taggings
  <1> QED
    BY <1>1, <1>2, <1>3, <1>4 DEF Keeps

LEMMA KeptCounted ==
    ASSUME AllCounted, StoreKept, \A k \in Requests : Keeps(k)
    PROVE  AllCounted'
  <1> SUFFICES ASSUME NEW d \in Docs PROVE Counted(d)'
    BY DEF AllCounted
  <1>1. Counted(d) /\ (Exists(d)' <=> Exists(d)) /\ documents'[d].tags = documents[d].tags
    BY DEF AllCounted, StoreKept
  <1>2. Deletions(d)' = Deletions(d)
    <2>1. Deletions(d)' \subseteq Requests /\ Deletions(d) \subseteq Requests
      BY DEF Deletions
    <2>2. \A k \in Requests : k \in Deletions(d)' <=> k \in Deletions(d)
      BY KeepsSets
    <2> QED
      BY <2>1, <2>2
  <1>3. \A t : \A action \in {"tag", "untag"} : Taggings(action, d, t)' = Taggings(action, d, t)
    <2> SUFFICES ASSUME NEW t, NEW action \in {"tag", "untag"}
                 PROVE  Taggings(action, d, t)' = Taggings(action, d, t)
      OBVIOUS
    <2>1. Taggings(action, d, t)' \subseteq Requests /\ Taggings(action, d, t) \subseteq Requests
      BY DEF Taggings
    <2>2. \A k \in Requests : k \in Taggings(action, d, t)' <=> k \in Taggings(action, d, t)
      BY KeepsSets
    <2> QED
      BY <2>1, <2>2
  <1>4. ASSUME NEW t \in Tags
        PROVE  /\ Taggings("tag", d, t)' = Taggings("tag", d, t)
               /\ Taggings("untag", d, t)' = Taggings("untag", d, t)
    BY <1>3
  <1> QED
    BY <1>1, <1>2, <1>4 DEF Counted

\* A request that counts document d, which it had not.
LEMMA CountsOne ==
    ASSUME NEW k \in Requests, Others(k), NEW d \in Docs, d \notin request[k].counted,
           request'[k].action = request[k].action, request'[k].asked = request[k].asked,
           request'[k].counted = request[k].counted \cup {d}
    PROVE  /\ \A e \in Docs \ {d} : Deletions(e)' = Deletions(e)
           /\ \A e \in Docs \ {d} : \A a, t : Taggings(a, e, t)' = Taggings(a, e, t)
           /\ request[k].action # "delete" => Deletions(d)' = Deletions(d)
           /\ request[k].action = "delete" => /\ Deletions(d)' = Deletions(d) \cup {k}
                                              /\ k \notin Deletions(d)
           /\ \A a, t : request[k].action # a \/ Tag(k) # t
                          => Taggings(a, d, t)' = Taggings(a, d, t)
           /\ \A a, t : request[k].action = a /\ Tag(k) = t
                          => /\ Taggings(a, d, t)' = Taggings(a, d, t) \cup {k}
                             /\ k \notin Taggings(a, d, t)
  <1>1. \A j \in Requests \ {k} : request'[j] = request[j] /\ Tag(j)' = Tag(j)
    BY DEF Others, Tag
  <1>2. Tag(k)' = Tag(k)
    BY DEF Tag
  <1>3. ASSUME NEW e
        PROVE  Deletions(e)' = {j \in Requests : request'[j].action = "delete"
                                                 /\ e \in request'[j].counted}
    BY DEF Deletions
  <1>4. ASSUME NEW e, NEW a, NEW t
        PROVE  Taggings(a, e, t)' = {j \in Requests : /\ request'[j].action = a
                                                      /\ e \in request'[j].counted
                                                      /\ Tag(j)' = t}
    BY DEF Taggings
  <1> HIDE DEF Tag
  <1>5. \A e \in Docs \ {d} : Deletions(e)' = Deletions(e)
    BY <1>1, <1>3 DEF Deletions
  <1>6. \A e \in Docs \ {d} : \A a, t : Taggings(a, e, t)' = Taggings(a, e, t)
    BY <1>1, <1>2, <1>4 DEF Taggings
  <1>7. request[k].action # "delete" => Deletions(d)' = Deletions(d)
    BY <1>1, <1>3 DEF Deletions
  <1>8. request[k].action = "delete" => /\ Deletions(d)' = Deletions(d) \cup {k}
                                        /\ k \notin Deletions(d)
    BY <1>1, <1>3 DEF Deletions
  <1>9. \A a, t : request[k].action # a \/ Tag(k) # t
                    => Taggings(a, d, t)' = Taggings(a, d, t)
    BY <1>1, <1>2, <1>4 DEF Taggings
  <1>10. \A a, t : request[k].action = a /\ Tag(k) = t
                    => /\ Taggings(a, d, t)' = Taggings(a, d, t) \cup {k}
                       /\ k \notin Taggings(a, d, t)
    BY <1>1, <1>2, <1>4 DEF Taggings
  <1> QED
    BY <1>5, <1>6, <1>7, <1>8, <1>9, <1>10

LEMMA WriteKept ==
    ASSUME Typed, NEW who, NEW d \in Docs, NEW new, Write(who, d, new),
           new.tags = documents[d].tags, new = Gone <=> ~Exists(d)
    PROVE  StoreKept
  <1>1. documents \in [Docs -> Rows] /\ documents' = [documents EXCEPT ![d] = new]
    BY DEF Typed, Write
  <1>2. documents'[d] = new /\ \A e \in Docs \ {d} : documents'[e] = documents[e]
    BY <1>1
  <1> QED
    BY <1>2 DEF StoreKept, Exists

LEMMA UnwrittenKept == UNCHANGED documents => StoreKept
BY DEF StoreKept, Exists

\* All writes but those of tags keep them.
LEMMA TagsKept ==
    ASSUME NEW doc \in Stored
    PROVE  /\ [doc EXCEPT !.title = "new"].tags = doc.tags
           /\ [doc EXCEPT !.sections = <<>>, !.rated = {}].tags = doc.tags
           /\ [doc EXCEPT !.status = "failed"].tags = doc.tags
           /\ \A s : [doc EXCEPT !.sections = s].tags = doc.tags
           /\ \A n : [doc EXCEPT !.status = "ready", !.total = n].tags = doc.tags
           /\ \A p : [doc EXCEPT !.place = p].tags = doc.tags
BY DEF Stored

\* A request that is made has counted nothing.
LEMMA AskKept ==
    ASSUME Typed, NEW k \in Requests, Sound(k), Ask(k)
    PROVE  StoreKept /\ \A j \in Requests : Keeps(j)
  <1>1. request[k].step = "idle" /\ UNCHANGED documents
    BY DEF Ask, GetLibrary, Rename, Batch, PressButton, At
  <1>2. request[k].action \notin Actions
    BY <1>1 DEF Sound, At, Actions
  <1>3. request \in [Requests -> Works] /\ Idle \in Works /\ Idle.counted = {}
    BY IdleWork DEF Typed, Idle
  <1>4. \E r : request' = [request EXCEPT ![k] = r] /\ r.counted = Idle.counted
    <2> HIDE DEF Idle
    <2>1. ASSUME NEW segment, NEW asked, GetLibrary(k, segment, asked)
          PROVE  \E r : request' = [request EXCEPT ![k] = r] /\ r.counted = Idle.counted
      <3> DEFINE active == {Canonical[s] : s \in asked} \cap Known
                 r == [Idle EXCEPT !.step = "listing", !.action = "page",
                                   !.segment = segment, !.asked = asked, !.active = active]
      <3>1. request' = [request EXCEPT ![k] = r]
        BY <2>1 DEF GetLibrary
      <3> HIDE DEF active
      <3>2. r.counted = Idle.counted
        BY <1>3 DEF Works
      <3> HIDE DEF r
      <3> QED
        BY <3>1, <3>2
    <2>2. ASSUME NEW d \in Docs, Rename(k, d)
          PROVE  \E r : request' = [request EXCEPT ![k] = r] /\ r.counted = Idle.counted
      <3> DEFINE tiles == [Idle.tiles EXCEPT ![d] = [TileOf(documents[d]) EXCEPT !.title = "new"]]
                 a == [Idle EXCEPT !.step = "renaming", !.action = "rename", !.ids = <<d>>,
                                   !.tiles = tiles]
                 b == [Idle EXCEPT !.step = "failed", !.action = "rename", !.ids = <<d>>]
      <3>1. request' = [request EXCEPT ![k] = IF Exists(d) THEN a ELSE b]
        BY <2>2 DEF Rename
      <3> HIDE DEF tiles
      <3>2. a.counted = Idle.counted /\ b.counted = Idle.counted
        BY <1>3 DEF Works
      <3> HIDE DEF a, b
      <3> QED
        BY <3>1, <3>2
    <2>3. ASSUME NEW action, NEW ids, NEW asked, Batch(k, action, ids, asked)
          PROVE  \E r : request' = [request EXCEPT ![k] = r] /\ r.counted = Idle.counted
      <3> DEFINE r == [Idle EXCEPT !.step = "loading", !.action = action, !.asked = asked,
                                   !.ids = ids, !.left = ids]
      <3>1. request' = [request EXCEPT ![k] = r]
        BY <2>3 DEF Batch
      <3>2. r.counted = Idle.counted
        BY <1>3 DEF Works
      <3> HIDE DEF r
      <3> QED
        BY <3>1, <3>2
    <2>4. ASSUME NEW action, NEW d, PressButton(k, action, d)
          PROVE  \E r : request' = [request EXCEPT ![k] = r] /\ r.counted = Idle.counted
      <3> DEFINE step == IF action = "delete" \/ Exists(d) THEN "acting" ELSE "failed"
                 r == [Idle EXCEPT !.step = step, !.action = action, !.ids = <<d>>,
                                   !.left = <<d>>]
      <3>1. request' = [request EXCEPT ![k] = r]
        BY <2>4 DEF PressButton
      <3> HIDE DEF step
      <3>2. r.counted = Idle.counted
        BY <1>3 DEF Works
      <3> HIDE DEF r
      <3> QED
        BY <3>1, <3>2
    <2> QED
      BY <2>1, <2>2, <2>3, <2>4 DEF Ask
  <1>5. request'[k].counted = {} /\ \A j \in Requests \ {k} : request'[j] = request[j]
    BY <1>3, <1>4
  <1> QED
    BY <1>1, <1>2, <1>5, UnwrittenKept DEF Keeps

\* What a page or a rename reads is nothing that is counted.
LEMMA ReadingKeeps ==
    ASSUME Typed, NEW k \in Requests, NEW tiles, NEW todo, Reading(k, tiles, todo)
    PROVE  Others(k) /\ request'[k].action = request[k].action
  <1> DEFINE step == IF todo = <<>> THEN "answered" ELSE "reading"
             a == [request[k] EXCEPT !.tiles = tiles]
             b == [a EXCEPT !.todo = todo]
             r == [b EXCEPT !.step = step]
  <1>1. request \in [Requests -> Works] /\ request[k] \in Works
    BY DEF Typed
  <1>2. request' = [request EXCEPT ![k].tiles = tiles, ![k].todo = todo, ![k].step = step]
    BY DEF Reading
  <1> HIDE DEF step
  <1>3. request' = [request EXCEPT ![k] = r]
    BY <1>2
  <1>4. r.action = request[k].action
    BY <1>1 DEF Works
  <1> HIDE DEF r
  <1> QED
    BY <1>1, <1>3, <1>4 DEF Others

\* A step of a batch that goes on with its document, or with no more counted.
LEMMA OthersKeep ==
    ASSUME NEW k \in Requests, Others(k), Keeps(k)
    PROVE  \A j \in Requests : Keeps(j)
BY DEF Others, Keeps

\* No other step counts or changes a tag: it keeps both.
LEMMA ListRowsKept ==
    ASSUME Typed, NEW k \in Requests, Sound(k), ListRows(k)
    PROVE  StoreKept /\ \A j \in Requests : Keeps(j)
  <1> DEFINE active == request[k].active
             rows == {d \in Docs : /\ Exists(d)
                                   /\ InSegment(documents[d], request[k].segment)
                                   /\ active = {} \/ documents[d].tags \cap active # {}}
             tile(d) == TileOf(documents[d])
             tiles == [d \in Docs |-> IF d \in rows THEN tile(d) ELSE NoTile]
  <1>1. PICK order \in SetToSeqs({d \in rows : tile(d).total > 0}) :
          Reading(k, tiles,
                  IF rows = {} THEN <<>>
                  ELSE << << <<"tags", rows>> >> >>
                    \o [i \in DOMAIN order |->
                         Ratings(order[i], tile(order[i])) \o Layout(order[i], tile(order[i]))])
    BY DEF ListRows
  <1> DEFINE todo == IF rows = {} THEN <<>>
                     ELSE << << <<"tags", rows>> >> >>
                       \o [i \in DOMAIN order |->
                            Ratings(order[i], tile(order[i])) \o Layout(order[i], tile(order[i]))]
  <1>2. Reading(k, tiles, todo)
    BY <1>1
  <1> HIDE DEF tiles, todo
  <1>3. request[k].step = "listing" /\ UNCHANGED documents
    BY DEF ListRows, At
  <1>4. request[k].action \notin Actions
    BY <1>3 DEF Sound, Batching, Shaped
  <1>5. Others(k) /\ Keeps(k)
    BY <1>2, <1>4, ReadingKeeps DEF Keeps, Actions
  <1> QED
    BY <1>3, <1>5, OthersKeep, UnwrittenKept

LEMMA ReadKept ==
    ASSUME Typed, NEW k \in Requests, Sound(k), Read(k)
    PROVE  StoreKept /\ \A j \in Requests : Keeps(j)
  <1> DEFINE field == Head(Head(request[k].todo))[1]
             of    == Head(Head(request[k].todo))[2]
             old   == request[k].tiles
             tiles == [d \in Docs |-> IF d \notin of THEN old[d]
                          ELSE [old[d] EXCEPT ![field] = Fetched(field, documents[d], old[d])]]
             todo == Rest(request[k].todo)
  <1>1. /\ Reading(k, tiles, todo) /\ UNCHANGED documents
        /\ request[k].step = "reading"
    BY DEF Read, At
  <1> HIDE DEF tiles, todo
  <1>2. request[k].action \notin Actions
    BY <1>1 DEF Sound, Batching, Shaped
  <1>3. Others(k) /\ Keeps(k)
    BY <1>1, <1>2, ReadingKeeps DEF Keeps, Actions
  <1> QED
    BY <1>1, <1>3, OthersKeep, UnwrittenKept

LEMMA SetTitleKept ==
    ASSUME Typed, NEW k \in Requests, Sound(k), SetTitle(k)
    PROVE  StoreKept /\ \A j \in Requests : Keeps(j)
  <1> DEFINE d == request[k].ids[1]
             tiles == request[k].tiles
             tile == tiles[d]
             doc == documents[d]
             new == IF Exists(d) THEN [doc EXCEPT !.title = "new"] ELSE Gone
             todo == << << <<"percent", {d}>> >> \o Ratings(d, tile) \o << <<"high", {d}>> >>
                           \o Layout(d, tile) \o << <<"tags", {d}>> >> >>
  <1>1. /\ request[k].step = "renaming"
        /\ Write(k, d, new)
        /\ Reading(k, tiles, todo)
    BY DEF SetTitle, At
  <1>2. request[k].action \notin Actions
    BY <1>1 DEF Sound, Batching, Shaped
  <1>3. d \in Docs
    <2>1. request[k].action = "rename"
      <3>1. request[k].action \in {"none", "page", "rename"} \cup Actions
        BY WorkFields DEF Works
      <3> QED
        BY <1>1, <1>2, <3>1 DEF Sound, Paging, Listing, At
    <2>3. Len(request[k].ids) = 1
      BY <1>1, <2>1 DEF Sound, Paging, Renaming, At
    <2>2. request[k].ids # <<>>
      BY ONLY <2>3
    <2> QED
      BY <2>2, ThisDocument
  <1> HIDE DEF d, tiles, todo
  <1>4. new.tags = doc.tags /\ (new = Gone <=> ~Exists(d))
    BY <1>3, ExistsStored, StoredWrites, TagsKept, GoneIsNone
  <1> HIDE DEF new
  <1>5. StoreKept
    BY <1>1, <1>3, <1>4, WriteKept
  <1>6. Others(k) /\ Keeps(k)
    BY <1>1, <1>2, ReadingKeeps DEF Keeps, Actions
  <1> QED
    BY <1>5, <1>6, OthersKeep

\* A batch counts nothing but what it deletes or tags.
LEMMA BatchKeeps ==
    ASSUME Typed, NEW k \in Requests, request[k].left # <<>>
    PROVE  /\ \A step \in Steps : GoOn(k, step) => \A j \in Requests : Keeps(j)
           /\ Proceed(k, FALSE) => \A j \in Requests : Keeps(j)
           /\ Proceed(k, TRUE) /\ request[k].action = "rechunk" => \A j \in Requests : Keeps(j)
           /\ \A anchored \in BOOLEAN :
                request' = [request EXCEPT ![k].step = "parsing", ![k].anchored = anchored]
                  => \A j \in Requests : Keeps(j)
           /\ \A planned \in Nat :
                request' = [request EXCEPT ![k].step = "marking", ![k].planned = planned]
                  => \A j \in Requests : Keeps(j)
  <1>1. ASSUME NEW step \in Steps, GoOn(k, step) PROVE \A j \in Requests : Keeps(j)
    BY <1>1, GoOnGoes, OthersKeep DEF Goes, Stays, Keeps
  <1>2. ASSUME Proceed(k, FALSE) PROVE \A j \in Requests : Keeps(j)
    BY <1>2, ProceedGoes, OthersKeep DEF Goes, Keeps
  <1>3. ASSUME Proceed(k, TRUE), request[k].action = "rechunk"
        PROVE  \A j \in Requests : Keeps(j)
    BY <1>3, ProceedGoes, OthersKeep DEF Goes, Keeps
  <1>4. ASSUME NEW anchored \in BOOLEAN,
               request' = [request EXCEPT ![k].step = "parsing", ![k].anchored = anchored]
        PROVE  \A j \in Requests : Keeps(j)
    BY <1>4, ParsingGoes, OthersKeep DEF Goes, Stays, Keeps
  <1>5. ASSUME NEW planned \in Nat,
               request' = [request EXCEPT ![k].step = "marking", ![k].planned = planned]
        PROVE  \A j \in Requests : Keeps(j)
    BY <1>5, MarkingGoes, OthersKeep DEF Goes, Stays, Keeps
  <1> QED
    BY <1>1, <1>2, <1>3, <1>4, <1>5

LEMMA LoadKept ==
    ASSUME Typed, NEW k \in Requests, Sound(k), Load(k)
    PROVE  StoreKept /\ \A j \in Requests : Keeps(j)
  <1>1. request[k].left # <<>> /\ UNCHANGED documents
        /\ (Proceed(k, FALSE) \/ GoOn(k, "acting"))
    BY BusyBatch DEF Load, At
  <1>2. \A j \in Requests : Keeps(j)
    BY <1>1, BatchKeeps DEF Steps
  <1> QED
    BY <1>1, <1>2, UnwrittenKept

LEMMA CollideKept ==
    ASSUME Typed, NEW k \in Requests, Sound(k), Collide(k)
    PROVE  StoreKept /\ \A j \in Requests : Keeps(j)
  <1>1. request[k].left # <<>> /\ UNCHANGED documents /\ GoOn(k, "failed")
    BY BusyBatch DEF Collide, At
  <1>2. \A j \in Requests : Keeps(j)
    BY <1>1, BatchKeeps DEF Steps
  <1> QED
    BY <1>1, <1>2, UnwrittenKept

LEMMA WipeKept ==
    ASSUME Typed, NEW k \in Requests, Sound(k), Wipe(k)
    PROVE  StoreKept /\ \A j \in Requests : Keeps(j)
  <1>1. request[k].left # <<>> /\ request[k].action = "rechunk"
    BY BusyBatch DEF Wipe, Does, At
  <1>2. PICK d \in Docs : d = This(k)
    BY BusyBatch DEF Wipe, Does, At
  <1>3. CASE Exists(d)
    <2> DEFINE new == [documents[d] EXCEPT !.sections = <<>>, !.rated = {}]
               anchored == documents[d].sections # <<>>
    <2>1. /\ Write(k, d, new)
          /\ request' = [request EXCEPT ![k].step = "parsing", ![k].anchored = anchored]
      BY <1>2, <1>3 DEF Wipe
    <2>2. new.tags = documents[d].tags /\ (new = Gone <=> ~Exists(d))
      BY <1>3, ExistsStored, StoredWrites, TagsKept, GoneIsNone
    <2>3. anchored \in BOOLEAN
      OBVIOUS
    <2> HIDE DEF new, anchored
    <2>4. \A j \in Requests : Keeps(j)
      BY <1>1, <2>1, <2>3, BatchKeeps
    <2> QED
      BY <2>1, <2>2, <2>4, WriteKept
  <1>4. CASE ~Exists(d)
    <2>1. Proceed(k, TRUE) /\ UNCHANGED documents
      BY <1>2, <1>4 DEF Wipe
    <2> QED
      BY <1>1, <2>1, BatchKeeps, UnwrittenKept
  <1> QED
    BY <1>3, <1>4

LEMMA ParseFailsKept ==
    ASSUME Typed, NEW k \in Requests, Sound(k), ParseFails(k)
    PROVE  StoreKept /\ \A j \in Requests : Keeps(j)
  <1>1. /\ request[k].left # <<>> /\ request[k].action = "rechunk"
        /\ Proceed(k, TRUE)
    BY BusyBatch DEF ParseFails, At
  <1>2. PICK d \in Docs : d = This(k)
    BY BusyBatch DEF ParseFails, At
  <1> DEFINE new == IF Exists(d) THEN [documents[d] EXCEPT !.status = "failed"] ELSE Gone
  <1>3. Write(k, d, new)
    BY <1>2 DEF ParseFails
  <1>4. new.tags = documents[d].tags /\ (new = Gone <=> ~Exists(d))
    <2>1. CASE Exists(d)
      <3>1. documents[d] \in Stored
        BY <2>1, ExistsStored
      <3>2. new = [documents[d] EXCEPT !.status = "failed"]
        BY <2>1
      <3> QED
        BY <2>1, <3>1, <3>2, StoredWrites, TagsKept, GoneIsNone
    <2>2. CASE ~Exists(d)
      BY <2>2, ExistsStored
    <2> QED
      BY <2>1, <2>2
  <1> HIDE DEF new
  <1> QED
    BY <1>1, <1>3, <1>4, BatchKeeps, WriteKept

LEMMA PersistKept ==
    ASSUME Typed, NEW k \in Requests, Sound(k), NEW sections \in Layouts, Persist(k, sections)
    PROVE  StoreKept /\ \A j \in Requests : Keeps(j)
  <1>1. PICK d \in Docs : d = This(k)
    BY BusyBatch DEF Persist, At
  <1> DEFINE new == [documents[d] EXCEPT !.sections = sections]
             planned == Chunks(sections)
  <1>2. /\ Exists(d) /\ documents[d].sections = <<>> /\ request[k].left # <<>>
        /\ Write(k, d, new)
        /\ request' = [request EXCEPT ![k].step = "marking", ![k].planned = planned]
    BY <1>1, BusyBatch DEF Persist, At
  <1>3. new.tags = documents[d].tags /\ (new = Gone <=> ~Exists(d))
    <2>1. documents[d] \in Stored /\ documents[d].sections = <<>> /\ Exists(d)
      BY <1>2, ExistsStored
    <2>2. new \in Stored
      BY <2>1, StoredWrites
    <2>3. new.tags = documents[d].tags
      BY <2>1, TagsKept
    <2> HIDE DEF new
    <2> QED
      BY <2>1, <2>2, <2>3, GoneIsNone
  <1>4. planned \in Nat
    BY LayoutChunks
  <1> HIDE DEF new, planned
  <1>5. \A j \in Requests : Keeps(j)
    BY <1>2, <1>4, BatchKeeps
  <1> QED
    BY <1>2, <1>3, <1>5, WriteKept

LEMMA MarkReadyKept ==
    ASSUME Typed, NEW k \in Requests, Sound(k), MarkReady(k)
    PROVE  StoreKept /\ \A j \in Requests : Keeps(j)
  <1>1. /\ request[k].left # <<>> /\ request[k].action = "rechunk"
        /\ Proceed(k, TRUE) \/ GoOn(k, "placing")
    BY BusyBatch DEF MarkReady, At
  <1>2. PICK d \in Docs : d = This(k)
    BY BusyBatch DEF MarkReady, At
  <1> DEFINE n == request[k].planned
             new == IF Exists(d) THEN [documents[d] EXCEPT !.status = "ready", !.total = n]
                    ELSE Gone
  <1>3. Write(k, d, new)
    BY <1>2 DEF MarkReady
  <1>4. n \in Nat \ {0}
    BY BusyBatch, WorkFields DEF MarkReady, Midway, At
  <1> HIDE DEF n
  <1>5. new.tags = documents[d].tags /\ (new = Gone <=> ~Exists(d))
    <2>1. CASE Exists(d)
      <3>1. documents[d] \in Stored
        BY <2>1, ExistsStored
      <3>2. new = [documents[d] EXCEPT !.status = "ready", !.total = n]
        BY <2>1
      <3> QED
        BY <1>4, <2>1, <3>1, <3>2, StoredWrites, TagsKept, GoneIsNone
    <2>2. CASE ~Exists(d)
      BY <2>2, ExistsStored
    <2> QED
      BY <2>1, <2>2
  <1> HIDE DEF new
  <1>6. \A j \in Requests : Keeps(j)
    BY <1>1, BatchKeeps DEF Steps
  <1> QED
    BY <1>3, <1>5, <1>6, WriteKept

LEMMA ReanchorKept ==
    ASSUME Typed, NEW k \in Requests, Sound(k), Reanchor(k)
    PROVE  StoreKept /\ \A j \in Requests : Keeps(j)
  <1>1. /\ request[k].left # <<>> /\ request[k].action = "rechunk" /\ Proceed(k, TRUE)
    BY BusyBatch DEF Reanchor, At
  <1>2. PICK d \in Docs : d = This(k)
    BY BusyBatch DEF Reanchor, At
  <1> DEFINE doc == documents[d]
             n == Chunks(doc.sections)
  <1>3. StoreKept
    <2>1. CASE doc.place = Unread \/ n = 0
      BY <1>2, <2>1, UnwrittenKept DEF Reanchor
    <2>2. CASE ~(doc.place = Unread \/ n = 0)
      <3>1. PICK high \in 0 .. n - 1 : \E current \in 0 .. high :
              Write(k, d, [doc EXCEPT !.place = [current |-> current, high |-> high]])
        BY <1>2, <2>2 DEF Reanchor
      <3>2. PICK current \in 0 .. high :
              Write(k, d, [doc EXCEPT !.place = [current |-> current, high |-> high]])
        BY <3>1
      <3> DEFINE place == [current |-> current, high |-> high]
                 new == [doc EXCEPT !.place = place]
      <3>3. doc \in Stored /\ doc.total > 0 /\ n \in Nat
        BY <2>2, ExistsStored, GoneIsNone, StoredFields, LayoutChunks
      <3>4. new \in Stored
        <4>1. \A c, h \in Nat : c <= h =>
                [doc EXCEPT !.place = [current |-> c, high |-> h]] \in Stored
          BY <3>3, StoredWrites
        <4>2. current \in Nat /\ high \in Nat /\ current <= high
          BY <3>3
        <4> QED
          BY ONLY <4>1, <4>2
      <3> HIDE DEF place
      <3>5. new.tags = doc.tags
        BY <3>3, TagsKept
      <3>6. Write(k, d, new)
        BY <3>2 DEF place
      <3>7. new # Gone /\ Exists(d)
        BY <3>3, <3>4, GoneIsNone DEF Exists
      <3> HIDE DEF new
      <3> QED
        BY <3>5, <3>6, <3>7, WriteKept
    <2> QED
      BY <2>1, <2>2
  <1> QED
    BY <1>1, <1>3, BatchKeeps

\* A deletion counts the document that it found.
LEMMA DeleteCounted ==
    ASSUME Typed, NEW k \in Requests, Sound(k), AllCounted, Delete(k)
    PROVE  AllCounted'
  <1>1. /\ request[k].step = "acting" /\ request[k].action = "delete"
        /\ Write(k, This(k), Gone)
        /\ Proceed(k, Exists(This(k)))
    BY DEF Delete, Does, At
  <1>2. PICK d \in Docs : d = This(k)
    BY <1>1, BusyBatch
  <1>3. request[k].left # <<>> /\ d \notin request[k].counted
    BY <1>1, <1>2, BusyBatch, Before
  <1>4. CASE Exists(d)
    <2>1. /\ Goes(k, IF Len(request[k].left) = 1 THEN "answered" ELSE "loading")
          /\ request'[k].counted = request[k].counted \cup {d}
      BY <1>1, <1>2, <1>3, <1>4, ProceedGoes
    <2>2. /\ Others(k) /\ request'[k].action = request[k].action
          /\ request'[k].asked = request[k].asked
      BY <2>1 DEF Goes
    <2>3. documents' = [documents EXCEPT ![d] = Gone] /\ documents \in [Docs -> Rows]
      BY <1>1, <1>2 DEF Write, Typed
    <2>4. documents'[d] = Gone /\ \A e \in Docs \ {d} : documents'[e] = documents[e]
      BY <2>3
    <2>5. /\ \A e \in Docs \ {d} : Deletions(e)' = Deletions(e)
          /\ \A e \in Docs \ {d} : \A a, t : Taggings(a, e, t)' = Taggings(a, e, t)
          /\ Deletions(d)' = Deletions(d) \cup {k} /\ k \notin Deletions(d)
      BY <1>1, <1>3, <2>1, <2>2, CountsOne
    <2>6. Counted(d)'
      <3>1. Cardinality(Deletions(d)) = 0 /\ IsFiniteSet(Deletions(d))
        BY <1>4, CountedSets DEF AllCounted, Counted
      <3>2. Cardinality(Deletions(d)') = 1
        <4> DEFINE S == Deletions(d)
        <4>1. IsFiniteSet(S) /\ k \notin S /\ Cardinality(S) = 0
          BY <2>5, <3>1
        <4>2. Deletions(d)' = S \cup {k}
          BY <2>5
        <4> HIDE DEF S
        <4>3. Cardinality(S \cup {k}) = Cardinality(S) + 1
          BY ONLY <4>1, FS_AddElement
        <4> QED
          BY <4>1, <4>2, <4>3
      <3>3. ~Exists(d)'
        BY <2>4 DEF Exists
      <3> QED
        BY <3>2, <3>3 DEF Counted
    <2>7. ASSUME NEW e \in Docs \ {d} PROVE Counted(e)'
      <3>1. Counted(e) /\ documents'[e] = documents[e] /\ Deletions(e)' = Deletions(e)
        BY <2>4, <2>5 DEF AllCounted
      <3>2. \A t : /\ Taggings("tag", e, t)' = Taggings("tag", e, t)
                   /\ Taggings("untag", e, t)' = Taggings("untag", e, t)
        BY <2>5
      <3> QED
        BY <3>1, <3>2 DEF Counted, Exists
    <2> QED
      BY <2>6, <2>7 DEF AllCounted
  <1>5. CASE ~Exists(d)
    <2>1. Proceed(k, FALSE)
      BY <1>1, <1>2, <1>5 DEF Proceed
    <2>2. \A j \in Requests : Keeps(j)
      BY <1>3, <2>1, BatchKeeps
    <2>3. documents[d] = Gone
      BY <1>5 DEF Exists
    <2>4. StoreKept
      BY <1>1, <1>2, <1>5, <2>3, WriteKept
    <2> QED
      BY <2>2, <2>4, KeptCounted
  <1> QED
    BY <1>4, <1>5

\* A tag that is added counts if the document had not got it.
LEMMA AddTagCounted ==
    ASSUME Typed, NEW k \in Requests, Sound(k), AllCounted, AddTag(k)
    PROVE  AllCounted'
  <1>1. request[k].step = "acting" /\ request[k].action = "tag"
    BY DEF AddTag, Does, At
  <1>2. PICK d \in Docs : d = This(k)
    BY <1>1, BusyBatch
  <1>3. request[k].left # <<>> /\ d \notin request[k].counted
    BY <1>1, <1>2, BusyBatch, Before
  <1>4. PICK T : T = Tag(k)
    OBVIOUS
  <1>5. CASE ~Exists(d)
    <2>1. GoOn(k, "failed") /\ UNCHANGED documents
      BY <1>2, <1>5 DEF AddTag
    <2> QED
      BY <1>3, <2>1, BatchKeeps, UnwrittenKept, KeptCounted DEF Steps
  <1> DEFINE new == [documents[d] EXCEPT !.tags = @ \cup {T}]
  <1>6. ASSUME Exists(d)
        PROVE  /\ Write(k, d, new) /\ Proceed(k, T \notin documents[d].tags)
               /\ documents[d] \in Stored
               /\ new.tags = documents[d].tags \cup {T} /\ new # Gone
    <2>1. Write(k, d, new) /\ Proceed(k, T \notin documents[d].tags)
      BY <1>2, <1>4, <1>6 DEF AddTag
    <2>2. documents[d] \in Stored
      BY <1>6, ExistsStored
    <2>3. new.tags = documents[d].tags \cup {T}
      BY <2>2 DEF Stored
    <2>4. new.status = documents[d].status
      BY <2>2 DEF Stored
    <2>5. new # Gone
      <3>1. documents[d].status # "gone"
        BY <2>2, StoredFields
      <3> HIDE DEF new
      <3> QED
        BY <2>4, <3>1, GoneIsNone
    <2> QED
      BY <2>1, <2>2, <2>3, <2>5
  <1> HIDE DEF new
  <1>7. CASE Exists(d) /\ T \in documents[d].tags
    <2>1. Proceed(k, FALSE) /\ Write(k, d, new)
      BY <1>6, <1>7
    <2>2. new.tags = documents[d].tags /\ (new = Gone <=> ~Exists(d))
      BY <1>6, <1>7
    <2> QED
      BY <1>3, <2>1, <2>2, BatchKeeps, WriteKept, KeptCounted
  <1>8. CASE Exists(d) /\ T \notin documents[d].tags
    <2>1. /\ Goes(k, IF Len(request[k].left) = 1 THEN "answered" ELSE "loading")
          /\ request'[k].counted = request[k].counted \cup {d}
      BY <1>2, <1>3, <1>6, <1>8, ProceedGoes
    <2>2. /\ Others(k) /\ request'[k].action = request[k].action
          /\ request'[k].asked = request[k].asked
      BY <2>1 DEF Goes
    <2>3. documents' = [documents EXCEPT ![d] = new] /\ documents \in [Docs -> Rows]
      BY <1>6, <1>8 DEF Write, Typed
    <2>4. documents'[d] = new /\ \A e \in Docs \ {d} : documents'[e] = documents[e]
      BY <2>3
    <2>5. /\ \A e \in Docs \ {d} : Deletions(e)' = Deletions(e)
          /\ \A e \in Docs \ {d} : \A a, t : Taggings(a, e, t)' = Taggings(a, e, t)
          /\ Deletions(d)' = Deletions(d)
          /\ \A t : Taggings("untag", d, t)' = Taggings("untag", d, t)
          /\ \A t : t # T => Taggings("tag", d, t)' = Taggings("tag", d, t)
          /\ Taggings("tag", d, T)' = Taggings("tag", d, T) \cup {k}
          /\ k \notin Taggings("tag", d, T)
      BY <1>1, <1>3, <1>4, <2>1, <2>2, CountsOne
    <2>6. Counted(d)'
      <3>1. Counted(d) /\ Exists(d)' /\ new.tags = documents[d].tags \cup {T}
        BY <1>6, <1>8, <2>4 DEF AllCounted, Exists
      <3>2. ASSUME NEW t \in Tags
            PROVE  LET net == Cardinality(Taggings("tag", d, t)')
                                - Cardinality(Taggings("untag", d, t)')
                   IN  /\ net \in -1 .. 1
                       /\ net = 1 => t \in new.tags
                       /\ net = -1 => t \notin new.tags
        <4> DEFINE a == Cardinality(Taggings("tag", d, t))
                   b == Cardinality(Taggings("untag", d, t))
        <4>1. a \in Nat /\ b \in Nat
          BY CountedSets
        <4>2. /\ a - b \in -1 .. 1
              /\ a - b = 1 => t \in documents[d].tags
              /\ a - b = -1 => t \notin documents[d].tags
          BY <1>8, <3>1 DEF Counted
        <4>3. Cardinality(Taggings("untag", d, t)') = b
          BY <2>5
        <4>4. CASE t # T
          <5>1. Cardinality(Taggings("tag", d, t)') = a
            BY <2>5, <4>4
          <5> HIDE DEF a, b
          <5> QED
            BY <3>1, <4>2, <4>3, <4>4, <5>1
        <4>5. CASE t = T
          <5>1. Cardinality(Taggings("tag", d, t)') = a + 1
            BY <2>5, <4>5, CountedSets, FS_AddElement
          <5> HIDE DEF a, b
          <5> QED
            BY <1>8, <3>1, <4>1, <4>2, <4>3, <4>5, <5>1
        <4> QED
          BY <4>4, <4>5
      <3>3. Cardinality(Deletions(d)') = 0
        BY <1>8, <2>5, <3>1 DEF Counted
      <3> QED
        BY <2>4, <3>1, <3>2, <3>3 DEF Counted
    <2>7. ASSUME NEW e \in Docs \ {d} PROVE Counted(e)'
      <3>1. Counted(e) /\ documents'[e] = documents[e] /\ Deletions(e)' = Deletions(e)
        BY <2>4, <2>5 DEF AllCounted
      <3>2. \A t : /\ Taggings("tag", e, t)' = Taggings("tag", e, t)
                   /\ Taggings("untag", e, t)' = Taggings("untag", e, t)
        BY <2>5
      <3> QED
        BY <3>1, <3>2 DEF Counted, Exists
    <2> QED
      BY <2>6, <2>7 DEF AllCounted
  <1> QED
    BY <1>5, <1>7, <1>8

\* A tag that is removed counts if the document had it.
LEMMA RemoveTagCounted ==
    ASSUME Typed, NEW k \in Requests, Sound(k), AllCounted, RemoveTag(k)
    PROVE  AllCounted'
  <1>1. request[k].step = "acting" /\ request[k].action = "untag"
    BY DEF RemoveTag, Does, At
  <1>2. PICK d \in Docs : d = This(k)
    BY <1>1, BusyBatch
  <1>3. request[k].left # <<>> /\ d \notin request[k].counted
    BY <1>1, <1>2, BusyBatch, Before
  <1>4. PICK T : T = Tag(k)
    OBVIOUS
  <1> DEFINE less == documents[d].tags \ {T}
             new == [documents[d] EXCEPT !.tags = less]
  <1>5. Write(k, d, new) /\ Proceed(k, T \in documents[d].tags)
    BY <1>2, <1>4 DEF RemoveTag
  <1>6. new.tags = less /\ (new = Gone <=> ~Exists(d))
    <2> HIDE DEF less
    <2>1. CASE Exists(d)
      <3>1. documents[d] \in Stored
        BY <2>1, ExistsStored
      <3>2. new.tags = less /\ new.status = documents[d].status
        BY <3>1 DEF Stored
      <3>3. documents[d].status # "gone"
        BY <3>1, StoredFields
      <3> HIDE DEF new
      <3> QED
        BY <2>1, <3>2, <3>3, GoneIsNone
    <2>2. CASE ~Exists(d)
      <3>1. documents[d] = Gone /\ less = {}
        BY <2>2, ExistsStored, GoneIsNone DEF less
      <3>2. new = [Gone EXCEPT !.tags = {}]
        BY <3>1
      <3> HIDE DEF new
      <3>3. new = Gone
        BY <3>2 DEF Gone
      <3> QED
        BY <2>2, <3>1, <3>3, GoneIsNone
    <2> QED
      BY <2>1, <2>2
  <1> HIDE DEF new
  <1>7. CASE T \notin documents[d].tags
    <2>1. Proceed(k, FALSE)
      BY <1>5, <1>7 DEF Proceed
    <2>2. new.tags = documents[d].tags
      BY <1>6, <1>7
    <2>3. StoreKept
      BY <1>5, <1>6, <2>2, WriteKept
    <2> QED
      BY <1>3, <2>1, <2>3, BatchKeeps, KeptCounted
  <1>8. CASE T \in documents[d].tags
    <2>0. Exists(d)
      BY <1>8, ExistsStored, GoneIsNone
    <2>1. /\ Goes(k, IF Len(request[k].left) = 1 THEN "answered" ELSE "loading")
          /\ request'[k].counted = request[k].counted \cup {d}
      BY <1>2, <1>3, <1>5, <1>8, ProceedGoes
    <2>2. /\ Others(k) /\ request'[k].action = request[k].action
          /\ request'[k].asked = request[k].asked
      BY <2>1 DEF Goes
    <2>3. documents' = [documents EXCEPT ![d] = new] /\ documents \in [Docs -> Rows]
      BY <1>5 DEF Write, Typed
    <2>4. documents'[d] = new /\ \A e \in Docs \ {d} : documents'[e] = documents[e]
      BY <2>3
    <2>5. /\ \A e \in Docs \ {d} : Deletions(e)' = Deletions(e)
          /\ \A e \in Docs \ {d} : \A a, t : Taggings(a, e, t)' = Taggings(a, e, t)
          /\ Deletions(d)' = Deletions(d)
          /\ \A t : Taggings("tag", d, t)' = Taggings("tag", d, t)
          /\ \A t : t # T => Taggings("untag", d, t)' = Taggings("untag", d, t)
          /\ Taggings("untag", d, T)' = Taggings("untag", d, T) \cup {k}
          /\ k \notin Taggings("untag", d, T)
      BY <1>1, <1>3, <1>4, <2>1, <2>2, CountsOne
    <2>6. Counted(d)'
      <3>1. Counted(d) /\ Exists(d)' /\ new.tags = documents[d].tags \ {T}
        BY <1>6, <2>0, <2>4 DEF AllCounted, Exists
      <3>2. ASSUME NEW t \in Tags
            PROVE  LET net == Cardinality(Taggings("tag", d, t)')
                                - Cardinality(Taggings("untag", d, t)')
                   IN  /\ net \in -1 .. 1
                       /\ net = 1 => t \in new.tags
                       /\ net = -1 => t \notin new.tags
        <4> DEFINE a == Cardinality(Taggings("tag", d, t))
                   b == Cardinality(Taggings("untag", d, t))
        <4>1. a \in Nat /\ b \in Nat
          BY CountedSets
        <4>2. /\ a - b \in -1 .. 1
              /\ a - b = 1 => t \in documents[d].tags
              /\ a - b = -1 => t \notin documents[d].tags
          BY <2>0, <3>1 DEF Counted
        <4>3. Cardinality(Taggings("tag", d, t)') = a
          BY <2>5
        <4>4. CASE t # T
          <5>1. Cardinality(Taggings("untag", d, t)') = b
            BY <2>5, <4>4
          <5> HIDE DEF a, b
          <5> QED
            BY <3>1, <4>2, <4>3, <4>4, <5>1
        <4>5. CASE t = T
          <5>1. Cardinality(Taggings("untag", d, t)') = b + 1
            BY <2>5, <4>5, CountedSets, FS_AddElement
          <5> HIDE DEF a, b
          <5> QED
            BY <1>8, <3>1, <4>1, <4>2, <4>3, <4>5, <5>1
        <4> QED
          BY <4>4, <4>5
      <3>3. Cardinality(Deletions(d)') = 0
        BY <2>0, <2>5, <3>1 DEF Counted
      <3> QED
        BY <2>4, <3>1, <3>2, <3>3 DEF Counted
    <2>7. ASSUME NEW e \in Docs \ {d} PROVE Counted(e)'
      <3>1. Counted(e) /\ documents'[e] = documents[e] /\ Deletions(e)' = Deletions(e)
        BY <2>4, <2>5 DEF AllCounted
      <3>2. \A t : /\ Taggings("tag", e, t)' = Taggings("tag", e, t)
                   /\ Taggings("untag", e, t)' = Taggings("untag", e, t)
        BY <2>5
      <3> QED
        BY <3>1, <3>2 DEF Counted, Exists
    <2> QED
      BY <2>6, <2>7 DEF AllCounted
  <1> QED
    BY <1>7, <1>8

LEMMA ReaderKept ==
    ASSUME Typed, NEW d \in Docs, Reveal(d) \/ Rate(d)
    PROVE  StoreKept /\ \A j \in Requests : Keeps(j)
  <1>1. /\ documents' = [documents EXCEPT ![d] = documents'[d]]
        /\ documents[d] \in Stored /\ documents'[d] \in Stored
        /\ documents'[d].tags = documents[d].tags
        /\ request' = request
    BY RevealApart, RateApart
  <1>2. \A e \in Docs \ {d} : documents'[e] = documents[e]
    <2>1. documents \in [Docs -> Rows]
      BY DEF Typed
    <2> DEFINE new == documents'[d]
    <2>2. documents' = [documents EXCEPT ![d] = new]
      BY <1>1
    <2> HIDE DEF new
    <2> QED
      BY <2>1, <2>2
  <1>3. documents[d] # Gone /\ documents'[d] # Gone
    BY <1>1, GoneIsNone
  <1> QED
    BY <1>1, <1>2, <1>3 DEF StoreKept, Exists, Keeps

LEMMA CountedStart == Init => AllCounted
  <1> SUFFICES ASSUME Init, NEW d \in Docs PROVE Counted(d)
    BY DEF AllCounted
  <1>1. documents \in [Docs -> Stored] /\ request = [k \in Requests |-> Idle]
    BY LibraryAssumption DEF Init
  <1>2. Exists(d)
    BY <1>1, GoneIsNone DEF Exists
  <1>3. \A k \in Requests : request[k].counted = {}
    BY <1>1 DEF Idle
  <1>4. Deletions(d) = {} /\ \A a, t : Taggings(a, d, t) = {}
    BY <1>3 DEF Deletions, Taggings
  <1>5. Cardinality({}) = 0
    BY FS_EmptySet
  <1>6. \A t : Taggings("tag", d, t) = {} /\ Taggings("untag", d, t) = {}
    BY <1>4
  <1> QED
    BY <1>2, <1>4, <1>5, <1>6 DEF Counted

LEMMA CountedStep == Typed /\ AllSound /\ AllCounted /\ [Next]_vars => AllCounted'
  <1> SUFFICES ASSUME Typed, AllSound, AllCounted, [Next]_vars PROVE AllCounted'
    OBVIOUS
  <1>1. ASSUME NEW k \in Requests, Ask(k) PROVE AllCounted'
    BY <1>1, AskKept, KeptCounted DEF AllSound
  <1>2. ASSUME NEW k \in Requests, Serve(k) PROVE AllCounted'
    <2>0. Sound(k)
      BY DEF AllSound
    <2>1. CASE ListRows(k)
      BY <2>0, <2>1, ListRowsKept, KeptCounted
    <2>2. CASE Read(k)
      BY <2>0, <2>2, ReadKept, KeptCounted
    <2>3. CASE SetTitle(k)
      BY <2>0, <2>3, SetTitleKept, KeptCounted
    <2>4. CASE Load(k)
      BY <2>0, <2>4, LoadKept, KeptCounted
    <2>5. CASE Delete(k)
      BY <2>0, <2>5, DeleteCounted
    <2>6. CASE AddTag(k)
      BY <2>0, <2>6, AddTagCounted
    <2>7. CASE RemoveTag(k)
      BY <2>0, <2>7, RemoveTagCounted
    <2>8. CASE Wipe(k)
      BY <2>0, <2>8, WipeKept, KeptCounted
    <2>9. CASE ParseFails(k)
      BY <2>0, <2>9, ParseFailsKept, KeptCounted
    <2>10. CASE \E s \in Layouts : Persist(k, s)
      BY <2>0, <2>10, PersistKept, KeptCounted
    <2>11. CASE Collide(k)
      BY <2>0, <2>11, CollideKept, KeptCounted
    <2>12. CASE MarkReady(k)
      BY <2>0, <2>12, MarkReadyKept, KeptCounted
    <2>13. CASE Reanchor(k)
      BY <2>0, <2>13, ReanchorKept, KeptCounted
    <2> QED
      BY <1>2, <2>1, <2>2, <2>3, <2>4, <2>5, <2>6, <2>7, <2>8, <2>9, <2>10, <2>11, <2>12,
         <2>13
      DEF Serve
  <1>3. ASSUME NEW d \in Docs, Reveal(d) \/ Rate(d) PROVE AllCounted'
    BY <1>3, ReaderKept, KeptCounted
  <1>4. CASE UNCHANGED vars
    BY <1>4, UnwrittenKept, KeptCounted DEF vars, Keeps
  <1> QED
    BY <1>1, <1>2, <1>3, <1>4 DEF Next

LEMMA SoundBatches == Typed /\ AllSound /\ AllCounted => BatchesServeWhatRemains
  <1> SUFFICES ASSUME Typed, AllSound, AllCounted PROVE BatchesServeWhatRemains
    OBVIOUS
  <1>1. ASSUME NEW k \in Requests, request[k].action \in Actions
        PROVE  /\ At(k, "answered") =>
                    \A i \in DOMAIN request[k].ids :
                      request[k].ids[i] \notin stale[k] => Served(k, request[k].ids[i])
               /\ At(k, "failed") =>
                    \/ Len(request[k].ids) = 1 /\ ~Exists(request[k].ids[1])
                    \/ request[k].action = "tag" /\ ~Exists(This(k)) /\ This(k) \in stale[k]
                    \/ request[k].action = "rechunk" /\ This(k) \in stale[k]
    <2>1. Shaped(k) /\ ServedBehind(k) /\ Excused(k)
      BY <1>1 DEF AllSound, Sound, Batching
    <2>2. ASSUME At(k, "answered") PROVE DOMAIN request[k].ids = 1 .. Behind(k)
      <3> DEFINE ids == request[k].ids
      <3>1. request[k].left = <<>>
        BY <2>1, <2>2 DEF Shaped
      <3>2. ids \in Seq(Docs) /\ Len(request[k].left) = 0
        BY <3>1, WorkFields
      <3>3. Behind(k) = Len(ids) - Len(request[k].left)
        BY DEF Behind
      <3> HIDE DEF ids
      <3>4. DOMAIN ids = 1 .. Behind(k)
        BY <3>2, <3>3
      <3> QED
        BY <3>4 DEF ids
    <2> QED
      BY <2>1, <2>2 DEF ServedBehind, Excused
  <1>2. ASSUME NEW d \in Docs
        PROVE  /\ Cardinality({k \in Requests : request[k].action = "delete"
                                                /\ d \in request[k].counted})
                    = IF Exists(d) THEN 0 ELSE 1
               /\ Exists(d) => \A t \in Tags :
                    LET net == Affected("tag", d, t) - Affected("untag", d, t) IN
                    /\ net \in -1 .. 1
                    /\ net = 1 => t \in documents[d].tags
                    /\ net = -1 => t \notin documents[d].tags
    <2>1. Counted(d)
      BY DEF AllCounted
    <2>2. \A a, t : Affected(a, d, t) = Cardinality(Taggings(a, d, t))
      BY DEF Affected, Taggings
    <2>3. Cardinality({k \in Requests : request[k].action = "delete"
                                        /\ d \in request[k].counted})
            = IF Exists(d) THEN 0 ELSE 1
      BY <2>1 DEF Counted, Deletions
    <2>4. ASSUME Exists(d), NEW t \in Tags
          PROVE  LET net == Affected("tag", d, t) - Affected("untag", d, t) IN
                 /\ net \in -1 .. 1
                 /\ net = 1 => t \in documents[d].tags
                 /\ net = -1 => t \notin documents[d].tags
      <3>1. /\ Affected("tag", d, t) = Cardinality(Taggings("tag", d, t))
            /\ Affected("untag", d, t) = Cardinality(Taggings("untag", d, t))
        BY <2>2
      <3> QED
        BY <2>1, <2>4, <3>1 DEF Counted
    <2> QED
      BY <2>3, <2>4
  <1> QED
    BY <1>1, <1>2 DEF BatchesServeWhatRemains

-----------------------------------------------------------------------------
(* The theorems *)

LEMMA LibraryInvariant == Spec => [](Typed /\ AllSound /\ AllCounted)
  <1>1. Init => Typed /\ AllSound /\ AllCounted
    BY TypedStart, CountedStart
  <1>2. Typed /\ AllSound /\ AllCounted /\ [Next]_vars => (Typed /\ AllSound /\ AllCounted)'
    BY TypedStep, CountedStep
  <1> QED
    BY <1>1, <1>2, PTL DEF Spec

\* Every variable keeps its type, ratings are of chunks there are, what is read
\* in has a total, and each document is in one of the three segments.
THEOREM LibraryIsTyped == Spec => []TypeOK
BY LibraryInvariant, TypedTypeOK, PTL

\* However many requests overlap, on however many documents, and whatever the
\* reader does meanwhile: a tile that is sent shows what is stored unless
\* others have written the document since the request began, a page nobody
\* disturbed misses nothing that has all the tags and has nothing that has none
\* (ListRows, Read, SetTitle), and a torn tile's silhouette and drawer agree.
THEOREM TilesShowTheStore == Spec => []TilesAreTrue
BY LibraryInvariant, SoundTiles, PTL

\* A batch over any selection serves every document that others leave alone and
\* stops only for a document deleted under it or for a collision of re-chunks;
\* each deletion, and each change of a tag, is counted by one request.
THEOREM BatchesServeTheirSelection == Spec => []BatchesServeWhatRemains
BY LibraryInvariant, SoundBatches, PTL

===============================================================================
