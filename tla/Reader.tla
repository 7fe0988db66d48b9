-------------------------------- MODULE Reader --------------------------------
(***************************************************************************)
(* The reader: one ReaderState in the memory of the server                 *)
(* (web/state.py), the routes that read and change it                      *)
(* (web/routes/reader.py), and the database they write through the event   *)
(* log and its projections (store/events.py, store/projections_cache.py).  *)
(* The library's delete route is here too, since it takes the document     *)
(* away under an open session.                                             *)
(*                                                                         *)
(* An action is one request, except a delete, which answers two steps      *)
(* apart: the row is gone before the session is swapped.  A request that   *)
(* fails half way is an action too: what it had already assigned stays     *)
(* assigned.                                                               *)
(***************************************************************************)
EXTENDS Bucket, Projections, FiniteSets

CONSTANTS
    Chunks,       \* [Docs -> Nat], total chunks of each document
    Welcome,      \* the document every server start seeds and opens
    Ratings,      \* ratings this reader gives (1..5 in the code)
    Notes,        \* texts this reader writes, as numbers
    WarmChunks,   \* _RESUME_WARM_CHUNKS_DEFAULT (2)
    UseFreeMode,  \* whether this reader ever presses F
    NoDoc,        \* the sentinel document_id -1 of a session without a document
    MaxEvents,    \* bound: events ever logged
    MaxFaults     \* bound: log writes refused because the database is locked

ASSUME ReaderAssumption ==
    /\ MaxChunks \in Nat \ {0}
    /\ MaxMark \in Nat \ {0}
    /\ Chunks \in [Docs -> 1 .. MaxChunks]
    /\ Welcome \in Docs
    /\ Ratings \subseteq 1 .. MaxMark
    /\ Notes \subseteq 1 .. MaxMark
    /\ WarmChunks \in Nat
    /\ UseFreeMode \in BOOLEAN
    /\ NoDoc \notin Docs
    /\ MaxEvents \in Nat
    /\ MaxFaults \in Nat

NoJump == -1    \* pre_jump_position is None

VARIABLES
    \* ReaderState
    reader,     \* its document and the positions in it
    marks,      \* its pin_colors, chunk_ratings and chunk_notes
    paid,       \* its paid_reveal_times, as differences (Bucket.tla)
    since,      \* time since the last of them
    \* the database
    docs,       \* rows of documents
    log,        \* rows of reading_events, a set since they carry their ids
    lastId,     \* the AUTOINCREMENT counter of reading_events
    states,     \* rows of reading_state; no row is the empty state
    saved,      \* rows of pins, chunk_ratings and chunk_notes
    leaked,     \* the durable connection was left inside a transaction
    \* the environment
    deleting,   \* document a delete request has removed, not yet swapped out
    faults      \* log writes refused so far

memory == <<reader, marks, paid, since>>
database == <<docs, log, lastId, states, saved, leaked>>
vars == <<memory, database, deleting, faults>>

Sessions == [doc: Docs \cup {NoDoc}, current: Positions, high: Positions,
             preJump: Positions \cup {NoJump}, free: BOOLEAN]

MemoryTyped ==
    /\ reader \in Sessions
    /\ marks \in Marks
    /\ paid \in Seq(0 .. LongAbsence)
    /\ since \in 0 .. LongAbsence

DatabaseTyped ==
    /\ docs \in SUBSET Docs
    /\ log \in SUBSET Events
    /\ lastId \in Nat
    /\ states \in [Docs -> ReadingState]
    /\ saved \in [Docs -> Marks]
    /\ leaked \in BOOLEAN

\* Every variable keeps its type: no position leaves its document's bounds.
TypeOK ==
    /\ MemoryTyped
    /\ DatabaseTyped
    /\ deleting \in Docs \cup {NoDoc}
    /\ faults \in 0 .. MaxFaults

-----------------------------------------------------------------------------
(* Building a session *)

\* len(state.chunks)
Total(d) == IF d = NoDoc THEN 0 ELSE Chunks[d]

\* empty_reader_state, once the document of the session was deleted
EmptySession ==
    [doc |-> NoDoc, current |-> 0, high |-> 0, preJump |-> NoJump, free |-> FALSE]

\* build_reader_state_for_document; the list of paid reveals starts empty.
Rebuilt(d) ==
    [doc |-> d, current |-> ResumePosition(states[d], WarmChunks),
     high |-> states[d].high, preJump |-> NoJump, free |-> FALSE]

DropSession ==
    /\ reader' = EmptySession
    /\ marks' = NoMarks
    /\ paid' = << >>
    /\ since' = 0

\* build_app: the session is on the welcome document.
Init ==
    /\ reader = [doc |-> Welcome, current |-> 0, high |-> 0, preJump |-> NoJump,
                 free |-> FALSE]
    /\ marks = NoMarks
    /\ paid = << >>
    /\ since = 0
    /\ docs = Docs
    /\ log = {}
    /\ lastId = 0
    /\ states = [d \in Docs |-> EmptyReadingState]
    /\ saved = [d \in Docs |-> NoMarks]
    /\ leaked = FALSE
    /\ deleting = NoDoc
    /\ faults = 0

-----------------------------------------------------------------------------
(* Writing to the event log *)

\* The placeholder session of empty_reader_state has an EventLog without the
\* projection hook.
Hooked == reader.doc # NoDoc

\* _append succeeds: the event, and through the hook every projection, in one
\* transaction, which also ends a transaction left open earlier.
Record(d, type, chunk, value, hooked) ==
    LET e == [id |-> lastId + 1, doc |-> d, type |-> type, chunk |-> chunk,
              value |-> value]
    IN  /\ d \in docs
        /\ lastId < MaxEvents
        /\ log' = log \cup {e}
        /\ lastId' = lastId + 1
        /\ states' = IF hooked THEN [states EXCEPT ![d] = ApplyEvent(@, e)]
                     ELSE states
        /\ saved' = IF hooked THEN [saved EXCEPT ![d] = ApplyMarks(@, e)]
                    ELSE saved
        /\ leaked' = FALSE
        /\ UNCHANGED <<docs, faults>>

\* The document is gone: its foreign key fails the INSERT, which _append makes
\* before its try block, so the transaction it opened is not rolled back.
RejectedByForeignKey(d) ==
    /\ d \notin docs
    /\ leaked' = TRUE
    /\ UNCHANGED <<docs, log, lastId, states, saved, faults>>

\* Another connection held the write lock for longer than busy_timeout.  It
\* cannot while this one is inside a transaction.
RejectedAsBusy ==
    /\ ~leaked
    /\ faults < MaxFaults
    /\ faults' = faults + 1
    /\ UNCHANGED database

\* Mutant: an event whose projections fail is left in the log.
RefusedWithoutRollback(d, type, chunk, value) ==
    \/ RejectedByForeignKey(d)
    \/ /\ d \in docs /\ ~leaked
       /\ faults < MaxFaults /\ faults' = faults + 1
       /\ lastId < MaxEvents
       /\ log' = log \cup {[id |-> lastId + 1, doc |-> d, type |-> type,
                                chunk |-> chunk, value |-> value]}
       /\ lastId' = lastId + 1
       /\ UNCHANGED <<docs, states, saved, leaked>>

\* _append raises: nothing is recorded and the request answers 500.
Refused(d, type, chunk, value) ==
    \/ RejectedByForeignKey(d)
    \/ RejectedAsBusy

Logs(type, chunk, value) == Record(reader.doc, type, chunk, value, Hooked)
FailsToLog(type, chunk, value) == Refused(reader.doc, type, chunk, value)

-----------------------------------------------------------------------------
(* Opening and closing *)

\* ?chunk=N, clamped to the frontier.
DeepLinked(session, chunk) ==
    [session EXCEPT
       !.current = IF chunk < session.high THEN chunk ELSE session.high]

\* get_document_reader up to the event: the session it leaves in memory.
Opens(d) ==
    /\ IF reader.doc = d
         THEN /\ \E session \in {reader}
                     \cup {DeepLinked(reader, c) : c \in Positions} :
                   reader' = [session EXCEPT !.free = FALSE]
              /\ UNCHANGED <<marks, paid, since>>
         ELSE /\ d \in docs
              /\ \E session \in {Rebuilt(d)}
                     \cup {DeepLinked(Rebuilt(d), c) : c \in Positions} :
                   reader' = session
              /\ marks' = saved[d]
              /\ paid' = << >>
              /\ since' = 0

\* Mutant: only a change of document is logged as an opening.
GetReaderLoggingReloads(d) ==
    /\ Opens(d)
    /\ IF reader.doc = d
         THEN \/ Record(d, "open_document", NoChunk, Unmarked, TRUE)
              \/ Refused(d, "open_document", NoChunk, Unmarked)
         ELSE UNCHANGED <<database, faults>>
    /\ UNCHANGED deleting

\* GET /documents/{id}/reader.  The 404 of an unknown id changes nothing.
GetReader(d) ==
    /\ Opens(d)
    /\ \/ Record(d, "open_document", NoChunk, Unmarked, TRUE)
       \/ Refused(d, "open_document", NoChunk, Unmarked)
    /\ UNCHANGED deleting

\* POST /documents/{id}/close: the beacon of a page that may have been closed
\* long ago, logged through whatever session is in memory.
Close(d) ==
    /\ d \in docs
    /\ \/ Record(d, "close_document", NoChunk, Unmarked, Hooked)
       \/ Refused(d, "close_document", NoChunk, Unmarked)
    /\ UNCHANGED <<memory, deleting>>

-----------------------------------------------------------------------------
(* Moving *)

\* Mutant: Free Mode runs one chunk past the end.
RevealFreelyPastTheEnd ==
    /\ reader.free
    /\ reader.current < Total(reader.doc)
    /\ reader' = [reader EXCEPT !.current = @ + 1]
    /\ UNCHANGED <<marks, paid, since, database, deleting, faults>>

\* post_reveal in Free Mode.
RevealFreely ==
    /\ reader.free
    /\ reader.current + 1 < Total(reader.doc)
    /\ reader' = [reader EXCEPT !.current = @ + 1]
    /\ UNCHANGED <<marks, paid, since, database, deleting, faults>>

\* post_reveal in paced mode.  Memory moves before the event is logged.
RevealPaced ==
    LET reason == TryReveal(reader.current, reader.high, Total(reader.doc),
                            TokensNow(paid, since))
        next == reader.current + 1
    IN  /\ ~reader.free
        /\ reason \in {"advanced_free", "advanced_paid"}
        /\ IF reason = "advanced_paid"
             THEN /\ reader' = [reader EXCEPT !.current = next, !.high = next]
                  /\ paid' = Append(paid, since)
                  /\ since' = 0
             ELSE /\ reader' = [reader EXCEPT !.current = next]
                  /\ UNCHANGED <<paid, since>>
        /\ \/ Logs("reveal", next, Unmarked)
           \/ FailsToLog("reveal", next, Unmarked)
        /\ UNCHANGED <<marks, deleting>>

\* post_conceal.  The event is logged before memory moves.
Conceal ==
    /\ reader.current > 0
    /\ \/ /\ Logs("conceal", reader.current - 1, Unmarked)
          /\ reader' = [reader EXCEPT !.current = @ - 1]
       \/ /\ FailsToLog("conceal", reader.current - 1, Unmarked)
          /\ UNCHANGED reader
    /\ UNCHANGED <<marks, paid, since, deleting>>

\* Mutant: only the end of the document bounds a pointer move.
SetCurrentPositionAnywhere(p) ==
    /\ p < Total(reader.doc)
    /\ p # reader.current
    /\ reader' = [reader EXCEPT !.current = p]
    /\ UNCHANGED <<marks, paid, since, database, deleting, faults>>

\* post_set_current_position: the frontier ends a jump, any other position
\* remembers where the first of several jumps started.
SetCurrentPosition(p) ==
    /\ p < Total(reader.doc)
    /\ p <= reader.high
    /\ p # reader.current
    /\ reader' = [reader EXCEPT
                    !.current = p,
                    !.preJump = IF p = reader.high THEN NoJump
                                ELSE IF @ = NoJump THEN reader.current ELSE @]
    /\ UNCHANGED <<marks, paid, since, database, deleting, faults>>

\* The pins post_jump_to_pin may land on: all of them, or those of the colour
\* of the current chunk's pin.
Candidates(mode) ==
    LET pins == marks["pin"]
    IN  {p \in Positions :
            /\ pins[p] # Unmarked
            /\ mode = "same_as_current" => pins[p] = pins[reader.current]}

\* _find_jump_target: the nearest pin ahead or behind.
IsJumpTarget(p, direction, mode) ==
    /\ p \in Candidates(mode)
    /\ IF direction = "next"
         THEN /\ p > reader.current
              /\ \A q \in Candidates(mode) : q > reader.current => p <= q
         ELSE /\ p < reader.current
              /\ \A q \in Candidates(mode) : q < reader.current => q <= p

\* post_jump_to_pin.
JumpToPin(direction, mode) ==
    /\ \E p \in Positions :
          /\ IsJumpTarget(p, direction, mode)
          /\ reader' = [reader EXCEPT !.preJump = reader.current, !.current = p]
    /\ UNCHANGED <<marks, paid, since, database, deleting, faults>>

\* post_return.
Return ==
    /\ reader.preJump # NoJump
    /\ reader' = [reader EXCEPT !.current = reader.preJump, !.preJump = NoJump]
    /\ UNCHANGED <<marks, paid, since, database, deleting, faults>>

\* post_free.
ToggleFreeMode ==
    /\ UseFreeMode
    /\ reader' = [reader EXCEPT
                    !.free = ~@,
                    !.current = IF reader.free /\ @ > reader.high
                                THEN reader.high ELSE @]
    /\ UNCHANGED <<marks, paid, since, database, deleting, faults>>

-----------------------------------------------------------------------------
(* Marking the current chunk *)

\* _reject_past_frontier lets the request through.
BehindFrontier == reader.current <= reader.high

Here(kind) == marks[kind][reader.current]

Assigned(m, kind, chunk, value) ==
    [m EXCEPT ![kind] = [@ EXCEPT ![chunk] = value]]

Assign(kind, value) == marks' = Assigned(marks, kind, reader.current, value)

\* cycle_pin, with MaxMark colours.
CyclePin(color) == IF color = MaxMark THEN Unmarked ELSE color + 1

PinEvent == IF Here("pin") = MaxMark THEN "pin_clear" ELSE "pin_set"

\* Mutant: no frontier check.
PinAnywhere ==
    /\ Assign("pin", CyclePin(Here("pin")))
    /\ \/ Logs(PinEvent, reader.current, CyclePin(Here("pin")))
       \/ FailsToLog(PinEvent, reader.current, CyclePin(Here("pin")))
    /\ UNCHANGED <<reader, paid, since, deleting>>

\* post_pin.  Memory changes before the event is logged.
Pin ==
    /\ BehindFrontier
    /\ Assign("pin", CyclePin(Here("pin")))
    /\ \/ Logs(PinEvent, reader.current, CyclePin(Here("pin")))
       \/ FailsToLog(PinEvent, reader.current, CyclePin(Here("pin")))
    /\ UNCHANGED <<reader, paid, since, deleting>>

\* Mutant: memory changes before the event is logged.
MarkFirst(kind, type, value) ==
    /\ BehindFrontier
    /\ Assign(kind, value)
    /\ \/ Logs(type, reader.current, value)
       \/ FailsToLog(type, reader.current, value)
    /\ UNCHANGED <<reader, paid, since, deleting>>

\* The common shape of post_rate, post_unrate and post_note: the event is
\* logged, then memory changes.
Mark(kind, type, value) ==
    /\ BehindFrontier
    /\ \/ Logs(type, reader.current, value) /\ Assign(kind, value)
       \/ FailsToLog(type, reader.current, value) /\ UNCHANGED marks
    /\ UNCHANGED <<reader, paid, since, deleting>>

Rate(rating) == Mark("rating", "rate_effort", rating)

Unrate == Here("rating") # Unmarked /\ Mark("rating", "rate_clear", Unmarked)

\* post_note with a text, and with an emptied editor.
SetNote(note) == Mark("note", "note_set", note)

ClearNote == Here("note") # Unmarked /\ Mark("note", "note_clear", Unmarked)

-----------------------------------------------------------------------------
(* Deleting a document, restarting, time *)

\* Mutant: the marks of a deleted document do not cascade.
DeleteRowKeepingMarks(d) ==
    /\ deleting = NoDoc
    /\ d \in docs
    /\ ~leaked
    /\ docs' = docs \ {d}
    /\ log' = {e \in log : e.doc # d}
    /\ states' = [states EXCEPT ![d] = EmptyReadingState]
    /\ deleting' = d
    /\ UNCHANGED <<memory, lastId, saved, leaked, faults>>

\* post_delete commits the row's removal and its cascades.  It cannot while
\* the durable connection sits in a transaction.  Bound: one delete at a time.
DeleteRow(d) ==
    /\ deleting = NoDoc
    /\ d \in docs
    /\ ~leaked
    /\ docs' = docs \ {d}
    /\ log' = {e \in log : e.doc # d}
    /\ states' = [states EXCEPT ![d] = EmptyReadingState]
    /\ saved' = [saved EXCEPT ![d] = NoMarks]
    /\ deleting' = d
    /\ UNCHANGED <<memory, lastId, leaked, faults>>

\* The files are gone too; the session on the document, if any, is dropped.
DeleteSwap ==
    /\ deleting # NoDoc
    /\ IF reader.doc = deleting THEN DropSession ELSE UNCHANGED memory
    /\ deleting' = NoDoc
    /\ UNCHANGED <<database, faults>>

\* The server process dies and starts again (build_app): memory is lost, an
\* open transaction is rolled back, no projection is rebuilt.  A deleted
\* welcome document is seeded again; its new id may go by the old one's name,
\* since no row refers to the old one any more.
Restart ==
    /\ docs' = docs \cup {Welcome}
    /\ reader' = Rebuilt(Welcome)
    /\ marks' = saved[Welcome]
    /\ paid' = << >>
    /\ since' = 0
    /\ leaked' = FALSE
    /\ deleting' = NoDoc
    /\ UNCHANGED <<log, lastId, states, saved, faults>>

\* A second passes.
Tick ==
    /\ paid # << >>
    /\ since' = IF since < LongAbsence THEN since + 1 ELSE LongAbsence
    /\ UNCHANGED <<reader, marks, paid, database, deleting, faults>>

-----------------------------------------------------------------------------

Navigate ==
    \/ RevealFreely \/ RevealPaced \/ Conceal \/ Return \/ ToggleFreeMode
    \/ \E p \in Positions : SetCurrentPosition(p)
    \/ \E direction \in {"next", "previous"}, mode \in {"any", "same_as_current"} :
          JumpToPin(direction, mode)

Annotate ==
    \/ Pin \/ Unrate \/ ClearNote
    \/ \E rating \in Ratings : Rate(rating)
    \/ \E note \in Notes : SetNote(note)

Next ==
    \/ Navigate
    \/ Annotate
    \/ \E d \in Docs : GetReader(d) \/ Close(d) \/ DeleteRow(d)
    \/ DeleteSwap \/ Restart \/ Tick

Spec == Init /\ [][Next]_vars

-----------------------------------------------------------------------------
(* Properties *)

\* The rows the reader, the library and the next session are built from say
\* what replaying the document's events says, whichever session wrote them
\* and whatever failed in between.
ProjectionsFollowTheLog ==
    \A d \in docs :
        LET rebuilt == BuildReadingState(log, d)
        IN  /\ states[d].high = rebuilt.high
            /\ states[d].current = rebuilt.current
            /\ saved[d] = BuildMarks(log, d)

\* A session on a document that exists shows what the database holds: ratings
\* and notes always, the frontier and the pins until a log write is refused,
\* after which they may be ahead of the database but never behind.
MemoryFollowsTheStore ==
    reader.doc \in docs =>
        /\ marks["rating"] = saved[reader.doc]["rating"]
        /\ marks["note"] = saved[reader.doc]["note"]
        /\ reader.high >= states[reader.doc].high
        /\ faults = 0 => /\ marks = saved[reader.doc]
                         /\ reader.high = states[reader.doc].high

\* No pin, rating or note is ever stored on text the reader has not settled,
\* even by a reader who browses ahead in Free Mode, switches documents or
\* comes back after a restart.
MarksStayBehindTheFrontier ==
    faults = 0 =>
        \A d \in Docs, kind \in Kinds, p \in Positions :
            saved[d][kind][p] # Unmarked => p <= states[d].high

\* The durable connection keeps the database's write lock between two
\* requests only while the session in memory is on a document that does not
\* exist: a reader with an open document never blocks an ingest.
NoLockKeptOverALiveDocument == leaked => reader.doc \notin docs

\* Settled text stays settled: no request, failed write, document switch or
\* restart takes the stored frontier of a document back, and no request takes
\* the session's back (a restart forgets what a refused write left in memory).
FrontierNeverRetreats ==
    [][/\ \A d \in docs \cap docs' : states'[d].high >= states[d].high
       /\ reader'.doc = reader.doc /\ ~Restart => reader'.high >= reader.high]_vars

\* Outside Free Mode the current chunk is settled text: everything the page
\* shows as read has been paid for.
PacedReadingIsSettled == ~reader.free => reader.current <= reader.high

\* Every chunk up to the frontier was revealed: reading never skips ahead.
NoChunkIsSkipped ==
    \A d \in docs : \A p \in 1 .. states[d].high :
        \E e \in EventsFor(log, d) : e.type = "reveal" /\ e.chunk = p

\* In a session that never presses F and whose writes are not refused, the
\* database implements ReadingSpine.
Spine ==
    INSTANCE ReadingSpine WITH
        live <- docs,
        settled <- [d \in Docs |-> states[d].high],
        marked <- [d \in Docs |->
                     {m \in Kinds \X Positions : saved[d][m[1]][m[2]] # Unmarked}]

ImplementsSpine == Spine!Spec

===============================================================================
