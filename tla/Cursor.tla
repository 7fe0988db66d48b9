-------------------------------- MODULE Cursor --------------------------------
(***************************************************************************)
(* The planner that groups the pieces of a document (sentences, headings,  *)
(* blocks, thematic breaks) into chunks (domain/chunking/cursor.py), with  *)
(* the five rules it is composed of in production (rules.py,               *)
(* cursor_current_reading_time.py), what the materialiser makes of the     *)
(* plan (materialize.py), and the imperative planner it replaces           *)
(* (current_reading_time.py).                                              *)
(*                                                                         *)
(* The pieces are those of a text (Pieces.tla), so that the plan can be    *)
(* held against the text as well.                                          *)
(*                                                                         *)
(* A piece is its ordinal, from 1 up, and a kind.  "colon" is a sentence   *)
(* that ends with a colon, "long" one that exceeds the budget on its own,  *)
(* "block" any structural atomic piece but the break: code, list,          *)
(* blockquote, table, image.  The label a chunk carries (its reason) is    *)
(* left out.                                                               *)
(***************************************************************************)
EXTENDS Pieces

CONSTANTS
    Cost,       \* [Kinds -> Nat], reading time of a piece, in some unit
    Budget,     \* ReadingRules.budget_seconds, in the same unit
    Constructs, \* what a text is made of: the tokens of a block, of any depth
    MaxBlocks   \* bound: how many of them make a text

PieceKinds == {"sentence", "long", "colon", "heading", "block", "break"}

ASSUME CursorAssumption ==
    /\ \A construct \in Constructs : construct \in Seq(Tokens)
    /\ Cost \in [PieceKinds -> Nat]
    /\ Budget \in Nat
    /\ MaxBlocks \in Nat

VARIABLES
    source,     \* the tokens of the text
    document,   \* the kinds of its pieces, in document order
    read,       \* pieces the cursor has consumed
    state,      \* _CursorState
    done        \* final_flush has run

vars == <<source, document, read, state, done>>

Sources == {FlattenSeq(blocks) :
               blocks \in UNION {[1 .. n -> Constructs] : n \in 0 .. MaxBlocks}}

Kind(piece) == document[piece]
PieceCost(piece) == Cost[Kind(piece)]

Chunk(pieces, seconds) == [pieces |-> pieces, seconds |-> seconds]

Ordinals == DOMAIN document

Chunks == [pieces: Seq(Ordinals), seconds: Nat]

States == [chunks: Seq(Chunks), bucket: Seq(Ordinals), bucketSeconds: Nat,
           pending: Seq(Ordinals), pendingSeconds: Nat]

TypeOK ==
    /\ document \in Seq(PieceKinds)
    /\ read \in 0 .. Len(document)
    /\ state \in States
    /\ done \in BOOLEAN

-----------------------------------------------------------------------------
(* _CursorState *)

EmptyState == [chunks |-> << >>, bucket |-> << >>, bucketSeconds |-> 0,
               pending |-> << >>, pendingSeconds |-> 0]

\* _emit_chunk: pending headings lead the chunk.
Emit(s, pieces, seconds) ==
    [s EXCEPT !.chunks =
                 Append(@, Chunk(s.pending \o pieces, s.pendingSeconds + seconds)),
              !.pending = << >>,
              !.pendingSeconds = 0]

\* Mutant: what a bucket holds beyond the budget counts for the next one.
EmptyBucketCarryingOver(s) ==
    [s EXCEPT !.bucket = << >>, !.bucketSeconds = @ - Budget]

EmptyBucket(s) == [s EXCEPT !.bucket = << >>, !.bucketSeconds = 0]

\* Mutant: a bucket of headings is emitted like any other.
FlushEmittingHeadings(s) ==
    IF s.bucket = << >> THEN s
    ELSE EmptyBucket(Emit(s, s.bucket, s.bucketSeconds))

\* _flush: a bucket of headings only is not emitted, it waits for company.
Flush(s) ==
    IF s.bucket = << >> THEN s
    ELSE IF \A i \in DOMAIN s.bucket : Kind(s.bucket[i]) = "heading"
      THEN EmptyBucket([s EXCEPT !.pending = @ \o s.bucket,
                                 !.pendingSeconds = @ + s.bucketSeconds])
      ELSE EmptyBucket(Emit(s, s.bucket, s.bucketSeconds))

\* _append.
Keep(s, piece) == [s EXCEPT !.bucket = Append(@, piece),
                            !.bucketSeconds = @ + PieceCost(piece)]

\* FLUSH_THEN_ABSORB_PREVIOUS after its flush: the last chunk is popped and
\* rebuilt with the piece.  Pending headings keep waiting.
Absorb(s, piece) ==
    LET last == Last(s.chunks)
    IN  [s EXCEPT !.chunks = Append(Front(@),
            Chunk(Append(last.pieces, piece), last.seconds + PieceCost(piece)))]

-----------------------------------------------------------------------------
(* The rules, highest priority first *)

\* The piece that ends the chunk a block would be folded into.
LeadInCandidate(s) ==
    IF s.bucket # << >> THEN {Last(s.bucket)}
    ELSE IF s.chunks # << >> THEN {Last(Last(s.chunks).pieces)}
    ELSE {}

\* Mutant: the lead-in is looked for in the emitted chunks only.
ConsultBlind(s, piece) ==
    CASE Kind(piece) = "break" -> "skip_flush"
      [] Kind(piece) = "block" /\ s.bucket = << >>
         /\ \E lead \in LeadInCandidate(s) : Kind(lead) = "colon" ->
            "flush_then_absorb_previous"
      [] Kind(piece) = "block" -> "emit_alone"
      [] Kind(piece) = "heading" -> "flush_then_keep"
      [] s.bucket # << >> /\ s.bucketSeconds + PieceCost(piece) > Budget ->
            "flush_then_keep"
      [] OTHER -> "keep"

\* Mutant: the budget is tested without the piece that arrives.
ConsultLate(s, piece) ==
    CASE Kind(piece) = "break" -> "skip_flush"
      [] Kind(piece) = "block"
         /\ \E lead \in LeadInCandidate(s) : Kind(lead) = "colon" ->
            "flush_then_absorb_previous"
      [] Kind(piece) = "block" -> "emit_alone"
      [] Kind(piece) = "heading" -> "flush_then_keep"
      [] s.bucket # << >> /\ s.bucketSeconds > Budget -> "flush_then_keep"
      [] OTHER -> "keep"

\* _consult over HorizontalRuleSkip, ColonLeadInAbsorb,
\* StructuralAtomicEmitAlone, HeadingAttachForward and BudgetSplit.
Consult(s, piece) ==
    IF Kind(piece) = "break" THEN "skip_flush"
    ELSE IF /\ Kind(piece) = "block"
            /\ \E lead \in LeadInCandidate(s) : Kind(lead) = "colon"
      THEN "flush_then_absorb_previous"
    ELSE IF Kind(piece) = "block" THEN "emit_alone"
    ELSE IF Kind(piece) = "heading" THEN "flush_then_keep"
    ELSE IF s.bucket # << >> /\ s.bucketSeconds + PieceCost(piece) > Budget
      THEN "flush_then_keep"
    ELSE "keep"

\* Mutant: a thematic break does not flush.
ApplyAcrossBreaks(s, piece, decision) ==
    CASE decision = "keep"            -> Keep(s, piece)
      [] decision = "flush_then_keep" -> Keep(Flush(s), piece)
      [] decision = "emit_alone"      -> Emit(Flush(s), <<piece>>, PieceCost(piece))
      [] decision = "flush_then_absorb_previous" -> Absorb(Flush(s), piece)
      [] decision = "skip_flush"      -> s

\* _apply.
Apply(s, piece, decision) ==
    CASE decision = "keep"            -> Keep(s, piece)
      [] decision = "flush_then_keep" -> Keep(Flush(s), piece)
      [] decision = "emit_alone"      -> Emit(Flush(s), <<piece>>, PieceCost(piece))
      [] decision = "flush_then_absorb_previous" -> Absorb(Flush(s), piece)
      [] decision = "skip_flush"      -> Flush(s)

\* Mutant: headings that wait when the document ends are lost.
FinishedLosingHeadings(s) == Flush(s)

\* final_flush: what waits when the document ends is emitted.
Finished(s) ==
    LET flushed == Flush(s)
    IN  IF flushed.pending = << >> THEN flushed ELSE Emit(flushed, << >>, 0)

-----------------------------------------------------------------------------
(* run_cursor, one step for each piece *)

Init ==
    /\ source \in Sources
    /\ LET pieces == PiecesOf(source)
       IN  document = [i \in DOMAIN pieces |-> pieces[i].kind]
    /\ read = 0
    /\ state = EmptyState
    /\ done = FALSE

Consume ==
    /\ read < Len(document)
    /\ read' = read + 1
    /\ state' = Apply(state, read + 1, Consult(state, read + 1))
    /\ UNCHANGED <<source, document, done>>

Finish ==
    /\ read = Len(document)
    /\ ~done
    /\ state' = Finished(state)
    /\ done' = TRUE
    /\ UNCHANGED <<source, document, read>>

Next == Consume \/ Finish

Spec == Init /\ [][Next]_vars

-----------------------------------------------------------------------------
(* derive_sections *)

LeadsWithHeading(chunk) == Kind(chunk.pieces[1]) = "heading"

Section(first, last) == [start |-> first, end |-> last]

\* One turn of the loop of derive_sections: a chunk led by a heading closes the
\* section before it, if there is one.
SectionTurn(s, chunks, i) ==
    IF ~LeadsWithHeading(chunks[i]) THEN s
    ELSE IF i > s.start \/ s.headed
      THEN [sections |-> Append(s.sections, Section(s.start, i - 1)),
            start |-> i, headed |-> TRUE]
      ELSE [s EXCEPT !.headed = TRUE]

SectionTurns(chunks) ==
    LET turn[i \in 0 .. Len(chunks)] ==
          IF i = 0 THEN [sections |-> << >>, start |-> 1, headed |-> FALSE]
          ELSE SectionTurn(turn[i - 1], chunks, i)
    IN  turn

Sections(chunks) ==
    LET end == SectionTurns(chunks)[Len(chunks)]
    IN  IF chunks = << >> THEN << >>
        ELSE Append(end.sections, Section(end.start, Len(chunks)))

-----------------------------------------------------------------------------
(* The imperative planner, for documents without headings *)

\* One turn of its loop, on the chunks and the bucket so far.
LegacyTurn(s, piece) ==
    LET flushed == IF s.bucket = << >> THEN s
                   ELSE EmptyBucket([s EXCEPT !.chunks =
                            Append(@, Chunk(s.bucket, s.bucketSeconds))])
    IN  CASE Kind(piece) = "break" -> flushed
          [] Kind(piece) = "block" ->
               IF /\ flushed.chunks # << >>
                  /\ Kind(Last(Last(flushed.chunks).pieces)) = "colon"
                 THEN Absorb(flushed, piece)
                 ELSE [flushed EXCEPT !.chunks =
                          Append(@, Chunk(<<piece>>, PieceCost(piece)))]
          [] Kind(piece) = "heading" -> Keep(flushed, piece)
          [] Kind(piece) \in Prose ->
               Keep(IF /\ s.bucket # << >>
                       /\ s.bucketSeconds + PieceCost(piece) > Budget
                      THEN flushed ELSE s,
                    piece)

LegacyTurns[i \in 0 .. Len(document)] ==
    IF i = 0 THEN EmptyState ELSE LegacyTurn(LegacyTurns[i - 1], i)

LegacyPlan ==
    LET end == LegacyTurns[Len(document)]
    IN  IF end.bucket = << >> THEN end.chunks
        ELSE Append(end.chunks, Chunk(end.bucket, end.bucketSeconds))

-----------------------------------------------------------------------------
(* Properties *)

Revealable == {i \in DOMAIN document : Kind(i) # "break"}
Has(kind) == \E i \in DOMAIN document : Kind(i) = kind

Planned == UNION {ToSet(state.chunks[c].pieces) : c \in DOMAIN state.chunks}
Waiting == ToSet(state.bucket) \cup ToSet(state.pending)

\* Nothing of the document is lost, shown twice or shown in the wrong order
\* within a chunk, and no thematic break is shown: what validate_chunk_plan
\* asserts of a finished plan, kept at every step by the pieces that wait.
EveryPieceIsPlannedOnce ==
    /\ Planned \cup Waiting = {i \in Revealable : i <= read}
    /\ Planned \cap Waiting = {}
    /\ \A c, d \in DOMAIN state.chunks :
          c # d => ToSet(state.chunks[c].pieces) \cap ToSet(state.chunks[d].pieces) = {}
    /\ \A c \in DOMAIN state.chunks :
          LET pieces == state.chunks[c].pieces
          IN  /\ pieces # << >>
              /\ \A i, j \in DOMAIN pieces : i < j => pieces[i] < pieces[j]
    /\ done => Waiting = {}

\* What the pieces weigh together.
Total(weight, pieces) == FoldLeft(LAMBDA sum, i : sum + weight[i], 0, pieces)

\* The reading time of a chunk, accounted for piece by piece as pieces move
\* between the bucket, the pending headings and the chunks, is the sum of the
\* times of its pieces.
EstimatesAddUp ==
    \A c \in DOMAIN state.chunks :
        state.chunks[c].seconds
          = Total([i \in Ordinals |-> PieceCost(i)], state.chunks[c].pieces)

\* A chunk of several sentences fits the budget, whatever headings were put in
\* front of it and whatever block it introduces.
ProseFitsTheBudget ==
    \A c \in DOMAIN state.chunks :
        LET pieces == state.chunks[c].pieces
        IN  (\E i, j \in DOMAIN pieces :
                i # j /\ {Kind(pieces[i]), Kind(pieces[j])} \subseteq Prose)
              => Total([i \in Ordinals |-> IF Kind(i) \in Prose THEN PieceCost(i) ELSE 0],
                       pieces) <= Budget

\* "Here are three items:" is never separated from the list it introduces.
LeadInsStayWithTheirBlock ==
    done => \A i \in DOMAIN document :
                /\ i + 1 \in DOMAIN document
                /\ Kind(i) = "colon"
                /\ Kind(i + 1) = "block"
                => \E c \in DOMAIN state.chunks :
                      {i, i + 1} \subseteq ToSet(state.chunks[c].pieces)

InDocumentOrder ==
    \A c, d \in DOMAIN state.chunks :
        c < d => Last(state.chunks[c].pieces) < state.chunks[d].pieces[1]

OnlyHeadings(chunk) == \A i \in DOMAIN chunk.pieces : Kind(chunk.pieces[i]) = "heading"

Shown(chunk) ==
    LET pieces == PiecesOf(source)
    IN  Slice([i \in DOMAIN chunk.pieces |-> pieces[chunk.pieces[i]]])

\* What of the text is no block: raw HTML between blocks.
Raw == LET at(i) == Parsed(SubSeq(source, 1, i - 1)).at
       IN  {at(i) : i \in {i \in DOMAIN source : source[i].type = "html_block"}}

\* The texts of the chunks, each sliced from its first piece to its last: no
\* part of the source is in two of them, they follow each other, and they leave
\* out nothing but raw HTML.
ChunksTileTheText ==
    /\ \A c, d \in DOMAIN state.chunks : c < d =>
          \A i \in Shown(state.chunks[c]), j \in Shown(state.chunks[d]) : i < j
    /\ 0 .. Parsed(source).at - 1
          \subseteq (UNION {Shown(state.chunks[c]) : c \in DOMAIN state.chunks}) \cup Raw

\* In a document without thematic breaks, chunks follow each other in document
\* order, also as the texts they are cut from the source as, and only headings
\* that end the document stand alone.
UnbrokenDocumentsReadInOrder ==
    ~Has("break") =>
        /\ InDocumentOrder
        /\ done => ChunksTileTheText
        /\ done => \A c \in DOMAIN state.chunks :
              OnlyHeadings(state.chunks[c]) => c = Len(state.chunks)
                                               /\ Kind(Len(document)) = "heading"

\* The sections of the drawer tile the chunks, and break exactly where a chunk
\* is led by a heading.
SectionsTileTheChunks ==
    done => LET sections == Sections(state.chunks)
            IN  \A c \in DOMAIN state.chunks :
                   \E s \in DOMAIN sections :
                      /\ c \in sections[s].start .. sections[s].end
                      /\ \A t \in DOMAIN sections \ {s} :
                            c \notin sections[t].start .. sections[t].end
                      /\ LeadsWithHeading(state.chunks[c]) => c = sections[s].start

\* However pieces travel between the bucket, the pending headings and the
\* chunks (the five rules of cursor.py): no piece is lost or planned twice, the
\* reading times add up, and the sections tile the chunks.
NothingIsLostOrDoubled ==
    EveryPieceIsPlannedOnce /\ EstimatesAddUp /\ SectionsTileTheChunks

\* The cursor planner makes of a document without headings the plan its
\* predecessor made.
AgreesWithItsPredecessor ==
    done /\ ~Has("heading") => state.chunks = LegacyPlan

-----------------------------------------------------------------------------
(* What the repository says and the code does not do.  No run has these:  *)
(* README.md tells what each needs, and what TLC finds, with cursor.cfg.  *)

\* "Phase 1 chunks are contiguous in source order" (AtomicChunkingPhase1.md),
\* documents with thematic breaks included: no piece of another chunk lies
\* between the first and the last piece of a chunk (_apply, run_cursor).
ChunksAreContiguous ==
    \A c, d \in DOMAIN state.chunks : c # d =>
        \A i \in ToSet(state.chunks[d].pieces) :
            i < state.chunks[c].pieces[1] \/ i > Last(state.chunks[c].pieces)

===============================================================================
