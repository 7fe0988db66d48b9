------------------------------ MODULE Projections -----------------------------
(***************************************************************************)
(* The event log and what is derived from it (store/events.py,             *)
(* domain/projections.py): the reading_state row, the ratings, the pins    *)
(* and the notes of a document are left folds over the document's events.  *)
(*                                                                         *)
(* An event's chunk_id is the POSITION of a chunk in its document.  A      *)
(* colour, a rating and a note are a number from 1 up; Unmarked stands for *)
(* a position that is missing from the code's dict.                        *)
(***************************************************************************)
EXTENDS Integers, Folds

CONSTANTS
    Docs,       \* document ids
    MaxChunks,  \* bound: chunks in the longest document
    MaxMark     \* bound: highest colour, rating or note (5 colours and ratings)

Positions == 0 .. MaxChunks - 1
NoChunk == -1            \* chunk_id of the lifecycle events
Unmarked == 0

MarkValues == 0 .. MaxMark
Kinds == {"pin", "rating", "note"}
Marks == [Kinds -> [Positions -> MarkValues]]
NoMarks == [k \in Kinds |-> [p \in Positions |-> Unmarked]]

EventTypes == {"reveal", "conceal", "rate_effort", "rate_clear", "pin_set",
               "pin_clear", "note_set", "note_clear", "open_document",
               "close_document"}

Events == [id: Nat, doc: Docs, type: EventTypes,
           chunk: Positions \cup {NoChunk}, value: MarkValues]

ReadingState == [high: Positions, current: Positions, last: Nat]

-----------------------------------------------------------------------------
(* reading_state *)

EmptyReadingState == [high |-> 0, current |-> 0, last |-> 0]

\* Mutant: a reveal below the frontier pulls the frontier back with it.
ApplyEventForgettingTheFrontier(state, e) ==
    [high    |-> IF e.type = "reveal" THEN e.chunk ELSE state.high,
     current |-> IF e.type \in {"reveal", "conceal"} THEN e.chunk
                 ELSE state.current,
     last    |-> e.id]

ApplyEvent(state, e) ==
    [high    |-> IF e.type = "reveal" /\ e.chunk > state.high THEN e.chunk
                 ELSE state.high,
     current |-> IF e.type \in {"reveal", "conceal"} THEN e.chunk
                 ELSE state.current,
     last    |-> e.id]

ResumePosition(state, warm) ==
    IF state.high > warm THEN state.high - warm ELSE 0

-----------------------------------------------------------------------------
(* pins, ratings and notes *)

SetType == [pin |-> "pin_set", rating |-> "rate_effort", note |-> "note_set"]
ClearType == [pin |-> "pin_clear", rating |-> "rate_clear", note |-> "note_clear"]

\* apply_pin_event, apply_rating_event and apply_note_event: the latest event
\* about a position decides it.
Latest(marks, e, kind) ==
    CASE e.type = SetType[kind]   -> [marks EXCEPT ![e.chunk] = e.value]
      [] e.type = ClearType[kind] -> [marks EXCEPT ![e.chunk] = Unmarked]
      [] OTHER                    -> marks

ApplyMarks(marks, e) == [kind \in Kinds |-> Latest(marks[kind], e, kind)]

-----------------------------------------------------------------------------
(* rebuilding from the log *)

EventsFor(log, d) == {e \in log : e.doc = d}

\* ORDER BY id.
Newest(events) == CHOOSE e \in events : \A other \in events : other.id <= e.id

\* functools.reduce over events_for_document.
Replay(Apply(_, _), empty, events) ==
    MapThenFoldSet(LAMBDA e, state : Apply(state, e), empty, LAMBDA e : e,
                   Newest, events)

BuildReadingState(log, d) ==
    Replay(ApplyEvent, EmptyReadingState, EventsFor(log, d))

BuildMarks(log, d) == Replay(ApplyMarks, NoMarks, EventsFor(log, d))

===============================================================================
