------------------------------ MODULE Rechunk -------------------------------
(***************************************************************************)
(* Re-chunking a stored document (reparse_document in web/ingest.py, behind *)
(* the Retry and Re-chunk buttons, the batch action and the rechunk command *)
(* of cli.py) under a reader who may have it open.  Positions are numbers   *)
(* of chunks, so a new chunking changes what every stored position means;   *)
(* reanchor_reading_state (store/projections_cache.py) carries the two      *)
(* positions of reading_state over by comparing sets of piece hashes.       *)
(*                                                                         *)
(* One document, one text.  The text is parsed by whatever code and         *)
(* settings the re-chunking process runs, so every request may arrive at    *)
(* another plan, or fail.  Each helper of the store commits, and a step     *)
(* below is what lies between two commits.                                  *)
(*                                                                         *)
(* The bucket, Free Mode and jumps are in Reader.tla.                       *)
(***************************************************************************)
EXTENDS Integers, Sequences, FiniteSets

CONSTANTS
  Text,       \* the text_hash of each atomic piece of the document, in order
  Plans,      \* the chunkings some version makes: sequences of sets of ordinals
  Requests,   \* worker threads and rechunk commands that may run at once
  WarmChunks, \* _RESUME_WARM_CHUNKS_DEFAULT
  Unread      \* there is no reading_state row

Ordinals == 1..Len(Text)

ASSUME RechunkAssumption ==
  /\ Len(Text) \in Nat \ {0}
  /\ \A p \in Plans :
       /\ p \in Seq((SUBSET Ordinals) \ {{}})
       /\ Len(p) > 0
       /\ UNION {p[i] : i \in 1..Len(p)} = Ordinals
       /\ \A i, j \in 1..Len(p) : i # j => p[i] \cap p[j] = {}
  /\ WarmChunks \in Nat
  /\ Unread \notin [current : Nat, high : Nat]

VARIABLES
  run,       \* the chunks of the document, <<>> when it has none
  status,    \* documents.status
  place,     \* the reading_state row, or Unread
  marks,     \* positions of the chunks with a pin, a rating or a note
  session,   \* the ReaderState in memory, if it is on this document
  request,   \* what each re-chunk is in the middle of
  frame,     \* history: the chunking the stored positions are numbers of
  mishaps    \* history: what went wrong so far

vars == <<run, status, place, marks, session, request, frame, mishaps>>

\* What cannot be undone later: a restart in the middle of a re-chunk, two
\* re-chunks at once, a text that no longer parses, and a reader who goes on
\* in chunks that have been replaced.
Mishaps == {"crash", "overlap", "failure", "stale"}
Happened(what) == mishaps' = mishaps \cup what

Closed == [open |-> FALSE, chunks |-> <<>>, current |-> 0, high |-> 0]
Idle   == [step |-> "idle", old |-> <<>>, current |-> 0, high |-> 0]

At(k, step)   == request[k].step = step
GoOn(k, step) == request' = [request EXCEPT ![k].step = step]
Answer(k)     == request' = [request EXCEPT ![k] = Idle]

Init ==
  /\ run \in Plans
  /\ status = "ready"
  /\ place = Unread
  /\ marks = {}
  /\ session = Closed
  /\ request = [k \in Requests |-> Idle]
  /\ frame = run
  /\ mishaps = {}

-----------------------------------------------------------------------------
(* The reader's side (web/routes/reader.py), as far as it writes positions. *)

\* The session's chunks or its frontier are not those of the stored row any
\* more, or the row is being moved right now.
Misplaced ==
  IF \/ session.chunks # frame
     \/ session.high # place.high
     \/ \E k \in Requests : At(k, "placing")
  THEN {"stale"} ELSE {}

\* get_document_reader on a document that is not in memory; the
\* open_document event creates the reading_state row.
Open ==
  /\ ~ session.open
  /\ LET at == IF place = Unread THEN [current |-> 0, high |-> 0] ELSE place
     IN /\ session' = [open |-> TRUE, chunks |-> run, high |-> at.high,
                       current |-> IF at.high > WarmChunks
                                   THEN at.high - WarmChunks ELSE 0]
        /\ place' = at
  /\ UNCHANGED <<run, status, marks, request, frame, mishaps>>

\* Another document is opened in its place.
Leave ==
  /\ session.open
  /\ session' = Closed
  /\ UNCHANGED <<run, status, place, marks, request, frame, mishaps>>

\* post_reveal and post_conceal: memory, and the row through the event.
Settle(position) ==
  /\ session' = [session EXCEPT !.current = position,
                                !.high = IF position > @ THEN position ELSE @]
  /\ place' = [current |-> position,
               high |-> IF position > place.high THEN position ELSE place.high]
  /\ Happened(Misplaced)
  /\ UNCHANGED <<run, status, marks, request, frame>>

Reveal ==
  /\ session.open
  /\ session.current + 1 < Len(session.chunks)
  /\ Settle(session.current + 1)

Conceal ==
  /\ session.open
  /\ session.current > 0
  /\ session' = [session EXCEPT !.current = @ - 1]
  /\ place' = [place EXCEPT !.current = session.current - 1]
  /\ Happened(Misplaced)
  /\ UNCHANGED <<run, status, marks, request, frame>>

\* The session's chunks are not those that are stored, though they may be cut
\* in the same places.
Replaced ==
  IF \/ session.chunks # run
     \/ \E k \in Requests : At(k, "finishing") \/ At(k, "reanchoring")
  THEN {"stale"} ELSE {}

\* post_pin, post_rate, post_note and their opposites: the position is looked
\* up among the chunks there are now, and ignored when there is none.
Mark ==
  /\ session.open
  /\ session.current <= session.high
  /\ session.current < Len(run)
  /\ \/ marks' = marks \cup {session.current}
     \/ marks' = marks \ {session.current}
  /\ Happened(Misplaced \cup Replaced)
  /\ UNCHANGED <<run, status, place, session, request, frame>>

-----------------------------------------------------------------------------
(* Carrying a position over (domain/reanchor.py).                          *)

Hashes(chunk) == {Text[o] : o \in chunk}

\* jaccard, as a fraction.
Jaccard(a, b) == [num |-> Cardinality(a \cap b), den |-> Cardinality(a \cup b)]
AtLeast(s, t) == s.num * t.den >= t.num * s.den

\* best_chunk_by_jaccard: the first of the new chunks with the highest score;
\* 0 (no chunk, the indices start at 1) when nothing overlaps.
BestChunk(old, new) ==
  LET score(i) == Jaccard(Hashes(old), Hashes(new[i]))
      best == {i \in 1..Len(new) :
                 /\ score(i).num > 0
                 /\ \A j \in 1..Len(new) : AtLeast(score(i), score(j))}
  IN IF best = {} THEN 0 ELSE CHOOSE i \in best : \A j \in best : i <= j

\* Mutant: positions are kept as they are, cut off at the end.
AnchoredByNumber(old, new, position) ==
  IF position < Len(new) THEN position ELSE Len(new) - 1

\* Mutant: the index of the best chunk is counted from 1.
AnchoredFromOne(old, new, position) ==
  IF position >= Len(old) THEN 0 ELSE BestChunk(old[position + 1], new)

\* reanchor_position: beyond the old chunks, or without an anchor, back to 0.
Anchored(old, new, position) ==
  IF position >= Len(old) THEN 0
  ELSE LET i == BestChunk(old[position + 1], new)
       IN IF i = 0 THEN 0 ELSE i - 1

\* The two positions, current never beyond high.
Reanchored(old, new, at) ==
  LET current == Anchored(old, new, at.current)
      high    == Anchored(old, new, at.high)
  IN [current |-> IF current > high THEN high ELSE current, high |-> high]

-----------------------------------------------------------------------------
(* reparse_document                                                        *)

\* Mutant: the old chunks are asked for after the wipe.
StartWithoutSnapshot(k) ==
  /\ At(k, "idle")
  /\ request' = [request EXCEPT ![k].step = "wiping", ![k].old = <<>>]
  /\ Happened(IF \E j \in Requests \ {k} : ~ At(j, "idle") THEN {"overlap"} ELSE {})
  /\ UNCHANGED <<run, status, place, marks, session, frame>>

\* _stored_markdown_path finds none: the document is failed before anything is
\* wiped.  (What it finds may be a PDF, and no UTF-8: that answers 500 here,
\* with nothing changed.)
MarkdownMissing(k) ==
  /\ At(k, "idle")
  /\ status' = "failed"
  /\ Happened(IF \E j \in Requests \ {k} : ~ At(j, "idle") THEN {"overlap"} ELSE {})
  /\ UNCHANGED <<run, place, marks, session, request, frame>>

\* The old chunks' pieces are noted.
Start(k) ==
  /\ At(k, "idle")
  /\ request' = [request EXCEPT ![k].step = "wiping", ![k].old = run]
  /\ Happened(IF \E j \in Requests \ {k} : ~ At(j, "idle") THEN {"overlap"} ELSE {})
  /\ UNCHANGED <<run, status, place, marks, session, frame>>

\* Mutant: the marks table is not touched.
WipeKeepingMarks(k) ==
  /\ At(k, "wiping")
  /\ run' = <<>>
  /\ GoOn(k, "parsing")
  /\ UNCHANGED <<status, place, marks, session, frame, mishaps>>

\* delete_document_chunks_and_sections: chunks, and with them by cascade the
\* pins, ratings and notes.  Committed: the status still says what it said.
Wipe(k) ==
  /\ At(k, "wiping")
  /\ run' = <<>>
  /\ marks' = {}
  /\ GoOn(k, "parsing")
  /\ UNCHANGED <<status, place, session, frame, mishaps>>

\* Mutant: the failure is not recorded.
ParseFailsSilently(k) ==
  /\ At(k, "parsing")
  /\ Answer(k)
  /\ Happened({"failure"})
  /\ UNCHANGED <<run, status, place, marks, session, frame>>

\* The text does not parse or has no chunks under this process's code.
ParseFails(k) ==
  /\ At(k, "parsing")
  /\ status' = "failed"
  /\ Answer(k)
  /\ Happened({"failure"})
  /\ UNCHANGED <<run, place, marks, session, frame>>

\* insert_chunking_artifacts, one transaction.
Persist(k, plan) ==
  /\ At(k, "parsing")
  /\ run = <<>>
  /\ run' = plan
  /\ GoOn(k, "finishing")
  /\ UNCHANGED <<status, place, marks, session, frame, mishaps>>

\* The chunks another request has put there meanwhile break
\* UNIQUE(document_id, position); the request answers 500.
PersistConflicts(k) ==
  /\ At(k, "parsing")
  /\ run # <<>>
  /\ Answer(k)
  /\ UNCHANGED <<run, status, place, marks, session, frame, mishaps>>

\* mark_document_ready; there is a position to carry over if there were old
\* chunks to carry it from.
MarkReady(k) ==
  /\ At(k, "finishing")
  /\ status' = "ready"
  /\ IF request[k].old = <<>> THEN Answer(k) ELSE GoOn(k, "reanchoring")
  /\ UNCHANGED <<run, place, marks, session, frame, mishaps>>

\* reanchor_reading_state reads the row and the new chunks: nothing to do
\* without a row, or when another request has wiped the chunks again.
ReadPlace(k) ==
  /\ At(k, "reanchoring")
  /\ IF place = Unread \/ run = <<>>
     THEN /\ Answer(k)
          /\ frame' = IF place = Unread THEN run ELSE frame
     ELSE /\ LET to == Reanchored(request[k].old, run, place)
             IN request' = [request EXCEPT ![k].step = "placing",
                                           ![k].current = to.current,
                                           ![k].high = to.high]
          /\ UNCHANGED frame
  /\ UNCHANGED <<run, status, place, marks, session, mishaps>>

\* ... and writes it.
WritePlace(k) ==
  /\ At(k, "placing")
  /\ place' = [current |-> request[k].current, high |-> request[k].high]
  /\ frame' = run
  /\ Answer(k)
  /\ UNCHANGED <<run, status, marks, session, mishaps>>

\* The server stops: sessions and requests are gone, the database stays.
Crash ==
  /\ session' = Closed
  /\ request' = [k \in Requests |-> Idle]
  /\ Happened(IF \E k \in Requests : ~ At(k, "idle") /\ ~ At(k, "wiping")
              THEN {"crash"} ELSE {})
  /\ UNCHANGED <<run, status, place, marks, frame>>

-----------------------------------------------------------------------------
Reading == Open \/ Leave \/ Reveal \/ Conceal \/ Mark

Rechunking(k) ==
  \/ MarkdownMissing(k) \/ Start(k) \/ Wipe(k) \/ ParseFails(k)
  \/ \E plan \in Plans : Persist(k, plan)
  \/ PersistConflicts(k) \/ MarkReady(k) \/ ReadPlace(k) \/ WritePlace(k)

Next == Reading \/ Crash \/ \E k \in Requests : Rechunking(k)

Spec == Init /\ [][Next]_vars

-----------------------------------------------------------------------------
Positions == 0..(Len(Text) - 1)
Places    == [current : Positions, high : Positions]

\* Every variable keeps its type: stored positions are positions of some
\* chunking of the text, if not always of the one in force.
TypeOK ==
  /\ run \in Plans \cup {<<>>}
  /\ status \in {"ready", "failed"}
  /\ place \in Places \cup {Unread}
  /\ marks \subseteq Positions
  /\ session \in [open : BOOLEAN, chunks : Plans \cup {<<>>},
                  current : Positions, high : Positions]
  /\ request \in [Requests -> [step : {"idle", "wiping", "parsing", "finishing",
                                       "reanchoring", "placing"},
                               old : Plans \cup {<<>>},
                               current : Positions, high : Positions]]
  /\ frame \in Plans \cup {<<>>}
  /\ mishaps \subseteq Mishaps

Quiet == \A k \in Requests : At(k, "idle")
Never(what) == mishaps \cap what = {}

\* A document shown as ready has chunks, also after a re-chunk that failed:
\* only a restart half way or two re-chunks at once leave it ready and empty.
ReadyHasChunks ==
  (Quiet /\ status = "ready" /\ Never({"crash", "overlap"})) => run # <<>>

\* Between re-chunks the stored place is a place in the chunks there are, with
\* the current position not beyond the frontier.  It takes a failed parse, a
\* restart half way, two re-chunks at once or a reader who goes on in an old
\* session to part the two.
PlaceIsInTheChunks ==
  (Quiet /\ status = "ready" /\ Never(Mishaps))
    => /\ frame = run
       /\ place # Unread => place.current <= place.high /\ place.high < Len(run)

\* A mark in the store is on text behind the stored frontier, whatever
\* happened to the chunks since it was made.
MarksStayOnReadText ==
  (Quiet /\ place # Unread /\ Never(Mishaps))
    => \A p \in marks : p <= place.high

\* Two chunks hold the same text.
Repetitive(plan) ==
  \E i, j \in 1..Len(plan) : i # j /\ Hashes(plan[i]) = Hashes(plan[j])

\* The reader is put back into text they had open: the new frontier chunk
\* holds a piece of the old one, and the new current chunk a piece of the old
\* current one unless it was clamped to the frontier.  A re-chunk that arrives
\* at the chunks there were before lands the frontier on a chunk of the same
\* text, and unless the text repeats itself both positions on their namesakes
\* (tests/web/test_retry_parse.py).
TheFrontierKeepsItsText ==
  [][ \A k \in Requests :
        (WritePlace(k) /\ Never(Mishaps))
          => LET old == request[k].old
             IN /\ Hashes(old[place.high + 1]) \cap Hashes(run[place'.high + 1]) # {}
                /\ \/ place'.current = place'.high
                   \/ Hashes(old[place.current + 1])
                        \cap Hashes(run[place'.current + 1]) # {}
                /\ old = run =>
                      /\ Hashes(old[place.high + 1]) = Hashes(run[place'.high + 1])
                      /\ ~ Repetitive(run) => place' = place ]_vars
=============================================================================
