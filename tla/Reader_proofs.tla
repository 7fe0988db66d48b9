---------------------------- MODULE Reader_proofs ----------------------------
(***************************************************************************)
(* Theorems about the reader, for any documents, any bucket and any        *)
(* bounds.                                                                 *)
(***************************************************************************)
EXTENDS Reader, FiniteSetTheorems, TLAPS

USE DEF NoChunk, Unmarked, NoJump

-----------------------------------------------------------------------------
(* The operators the reader is built from *)

\* IdleSeconds is positive, so LongAbsence is a natural number above 1.
LEMMA LongAbsenceNat == LongAbsence \in Nat /\ LongAbsence > 0
  <1>1. \A a, b \in Nat : a * b \in Nat
    BY SMT
  <1> QED
    BY <1>1, BucketAssumption DEF LongAbsence, IdleSeconds

\* Folding one event into reading_state keeps it well formed.
LEMMA ApplyEventTyped ==
    ASSUME NEW state \in ReadingState, NEW e \in Events,
           e.type \in {"reveal", "conceal"} => e.chunk \in Positions
    PROVE  ApplyEvent(state, e) \in ReadingState
  BY DEF ApplyEvent, ReadingState, Events

\* Folding one event never takes the frontier back.
LEMMA ApplyEventMonotone ==
    ASSUME NEW state \in ReadingState, NEW e \in Events
    PROVE  ApplyEvent(state, e).high >= state.high
  BY DEF ApplyEvent, ReadingState, Events, Positions

\* Folding one event into the marks of one kind keeps them well formed.
LEMMA LatestTyped ==
    ASSUME NEW m \in [Positions -> MarkValues], NEW e \in Events,
           NEW kind
    PROVE  Latest(m, e, kind) \in [Positions -> MarkValues]
  <1>1. e.value \in MarkValues /\ Unmarked \in MarkValues
    BY ReaderAssumption DEF Events, MarkValues
  <1>2. \A v \in MarkValues : [m EXCEPT ![e.chunk] = v]
                                \in [Positions -> MarkValues]
    OBVIOUS
  <1> QED
    BY <1>1, <1>2 DEF Latest

\* Folding one event into the marks of a document keeps them well formed.
LEMMA ApplyMarksTyped ==
    ASSUME NEW m \in Marks, NEW e \in Events
    PROVE  ApplyMarks(m, e) \in Marks
  BY LatestTyped DEF ApplyMarks, Marks, Kinds

\* A document's length is a natural number and bounds its positions.
LEMMA TotalBound ==
    ASSUME NEW d \in Docs \cup {NoDoc}
    PROVE  Total(d) \in 0 .. MaxChunks
  BY ReaderAssumption DEF Total

\* A press that advances stays inside the document.
LEMMA RevealStaysInside ==
    ASSUME NEW current \in Int, NEW high \in Int, NEW total \in Int,
           NEW tokens,
           TryReveal(current, high, total, tokens)
             \in {"advanced_free", "advanced_paid"}
    PROVE  current + 1 < total
  BY DEF TryReveal

LEMMA ResumePositionTyped ==
    ASSUME NEW state \in ReadingState, WarmChunks \in Nat
    PROVE  ResumePosition(state, WarmChunks) \in 0 .. state.high
  BY DEF ResumePosition, ReadingState, Positions

-----------------------------------------------------------------------------
(* Type correctness *)

\* An append to the log, granted or refused, keeps the database well formed.
LEMMA WriteTyped ==
    ASSUME DatabaseTyped, faults \in 0 .. MaxFaults,
           NEW d, NEW type \in EventTypes,
           NEW chunk \in Positions \cup {NoChunk}, NEW value \in MarkValues,
           NEW hooked \in BOOLEAN,
           type \in {"reveal", "conceal"} => chunk \in Positions,
           Record(d, type, chunk, value, hooked) \/ Refused(d, type, chunk, value)
    PROVE  DatabaseTyped' /\ faults' \in 0 .. MaxFaults
  <1>1. CASE Record(d, type, chunk, value, hooked)
    <2> DEFINE e == [id |-> lastId + 1, doc |-> d, type |-> type,
                     chunk |-> chunk, value |-> value]
    <2>1. d \in docs /\ d \in Docs
      BY <1>1 DEF Record, DatabaseTyped
    <2>2. e \in Events
      BY <2>1 DEF Events, DatabaseTyped
    <2>3. lastId' \in Nat /\ log' \in SUBSET Events
      BY <1>1, <2>2 DEF Record, DatabaseTyped
    <2>4. ApplyEvent(states[d], e) \in ReadingState
      <3>1. states[d] \in ReadingState
        BY <2>1 DEF DatabaseTyped
      <3>2. e.type \in {"reveal", "conceal"} => e.chunk \in Positions
        OBVIOUS
      <3> HIDE DEF e
      <3> QED
        BY <2>2, <3>1, <3>2, ApplyEventTyped
    <2>5. ApplyMarks(saved[d], e) \in Marks
      <3>1. saved[d] \in Marks
        BY <2>1 DEF DatabaseTyped
      <3> HIDE DEF e
      <3> QED
        BY <2>2, <3>1, ApplyMarksTyped
    <2>6. states' \in [Docs -> ReadingState]
      <3>1. \/ states' = states
            \/ states' = [states EXCEPT ![d] = ApplyEvent(states[d], e)]
        BY <1>1 DEF Record
      <3> HIDE DEF e
      <3> QED
        BY <3>1, <2>4 DEF DatabaseTyped
    <2>7. saved' \in [Docs -> Marks]
      <3>1. \/ saved' = saved
            \/ saved' = [saved EXCEPT ![d] = ApplyMarks(saved[d], e)]
        BY <1>1 DEF Record
      <3> HIDE DEF e
      <3> QED
        BY <3>1, <2>5 DEF DatabaseTyped
    <2> QED
      BY <1>1, <2>3, <2>6, <2>7 DEF Record, DatabaseTyped
  <1>2. CASE Refused(d, type, chunk, value)
    <2>1. CASE RejectedByForeignKey(d)
      BY <2>1 DEF RejectedByForeignKey, DatabaseTyped
    <2>2. CASE RejectedAsBusy
      <3>1. faults' \in 0 .. MaxFaults
        BY <2>2, ReaderAssumption DEF RejectedAsBusy
      <3>2. UNCHANGED <<docs, log, lastId, states, saved, leaked>>
        BY <2>2 DEF RejectedAsBusy, database
      <3> QED
        BY <3>1, <3>2 DEF DatabaseTyped
    <2> QED
      BY <1>2, <2>1, <2>2 DEF Refused
  <1> QED
    BY <1>1, <1>2

\* The session of a document is built within that document's bounds.
LEMMA RebuiltTyped ==
    ASSUME DatabaseTyped, NEW d \in Docs
    PROVE  Rebuilt(d) \in Sessions
  <1>1. states[d] \in ReadingState
    BY DEF DatabaseTyped
  <1>2. ResumePosition(states[d], WarmChunks) \in Positions
    BY <1>1, ResumePositionTyped, ReaderAssumption
       DEF ReadingState, Positions
  <1> QED
    BY <1>1, <1>2 DEF Rebuilt, Sessions, ReadingState

LEMMA DeepLinkedTyped ==
    ASSUME NEW session \in Sessions, NEW c \in Positions
    PROVE  DeepLinked(session, c) \in Sessions
  BY DEF DeepLinked, Sessions

\* A dropped session is well formed.
LEMMA DropSessionTyped ==
    ASSUME DropSession
    PROVE  MemoryTyped'
  <1>1. 0 \in Positions
    BY ReaderAssumption DEF Positions
  <1>2. EmptySession \in Sessions
    BY <1>1 DEF EmptySession, Sessions
  <1>3. NoMarks \in Marks
    BY ReaderAssumption DEF NoMarks, Marks, MarkValues
  <1>4. << >> \in Seq(0 .. LongAbsence) /\ 0 \in 0 .. LongAbsence
    BY LongAbsenceNat
  <1> QED
    BY <1>2, <1>3, <1>4 DEF DropSession, MemoryTyped

\* A mark assigned in memory keeps the marks well formed.
LEMMA AssignTyped ==
    ASSUME MemoryTyped, NEW kind \in Kinds, NEW value \in MarkValues,
           Assign(kind, value)
    PROVE  marks' \in Marks
  BY DEF MemoryTyped, Assign, Assigned, Marks


\* Opening a document leaves a well formed session.
LEMMA OpensTyped ==
    ASSUME MemoryTyped, DatabaseTyped, NEW d \in Docs, Opens(d)
    PROVE  MemoryTyped'
  <1>1. CASE reader.doc = d
    <2>1. PICK session \in {reader} \cup {DeepLinked(reader, c) : c \in Positions} :
             reader' = [session EXCEPT !.free = FALSE]
      BY <1>1 DEF Opens
    <2>2. session \in Sessions
      BY <2>1, DeepLinkedTyped DEF MemoryTyped
    <2>3. reader' \in Sessions
      BY <2>1, <2>2 DEF Sessions
    <2> QED
      BY <1>1, <2>3 DEF Opens, MemoryTyped
  <1>2. CASE reader.doc # d
    <2>1. PICK session \in {Rebuilt(d)}
                             \cup {DeepLinked(Rebuilt(d), c) : c \in Positions} :
             reader' = session
      BY <1>2 DEF Opens
    <2>2. reader' \in Sessions
      BY <2>1, RebuiltTyped, DeepLinkedTyped
    <2>3. marks' = saved[d] /\ paid' = << >> /\ since' = 0
      BY <1>2 DEF Opens
    <2> QED
      BY <2>2, <2>3, LongAbsenceNat DEF MemoryTyped, DatabaseTyped
  <1> QED
    BY <1>1, <1>2

\* Every step of the reader keeps the types.
LEMMA TypeStep ==
    ASSUME TypeOK, [Next]_vars
    PROVE  TypeOK'
  <1> USE DEF TypeOK
  <1>a. /\ 0 \in Positions /\ Unmarked \in MarkValues
        /\ Positions \subseteq Int /\ MaxChunks \in Nat /\ MaxMark \in Nat
    BY ReaderAssumption DEF Positions, MarkValues
  <1>b. /\ reader.doc \in Docs \cup {NoDoc}
        /\ reader.current \in Positions /\ reader.high \in Positions
        /\ reader.preJump \in Positions \cup {NoJump}
        /\ Total(reader.doc) \in 0 .. MaxChunks
    BY TotalBound DEF MemoryTyped, Sessions
  <1>c. /\ Hooked \in BOOLEAN
        /\ \A kind \in Kinds : Here(kind) \in MarkValues
    BY <1>b DEF Hooked, MemoryTyped, Marks, Here
  <1>d. EventTypes = {"reveal", "conceal", "rate_effort", "rate_clear",
                      "pin_set", "pin_clear", "note_set", "note_clear",
                      "open_document", "close_document"}
    BY DEF EventTypes
  <1>1. CASE RevealFreely
    <2>1. reader.current + 1 \in Positions
      BY <1>1, <1>a, <1>b DEF RevealFreely, Positions
    <2>2. reader' \in Sessions
      BY <1>1, <2>1 DEF RevealFreely, MemoryTyped, Sessions
    <2> QED
      BY <1>1, <2>2 DEF RevealFreely, MemoryTyped, DatabaseTyped, database
  <1>2. CASE RevealPaced
    <2> DEFINE next == reader.current + 1
               reason == TryReveal(reader.current, reader.high,
                                   Total(reader.doc), TokensNow(paid, since))
    <2>1. next \in Positions
      <3>1. reason \in {"advanced_free", "advanced_paid"}
        BY <1>2 DEF RevealPaced
      <3>2. next < Total(reader.doc)
        BY <3>1, <1>a, <1>b, RevealStaysInside,
           reader.current \in Int, reader.high \in Int, Total(reader.doc) \in Int
      <3> QED
        BY <3>2, <1>a, <1>b DEF Positions
    <2>2. \/ /\ reader' = [reader EXCEPT !.current = next, !.high = next]
             /\ paid' = Append(paid, since)
             /\ since' = 0
          \/ /\ reader' = [reader EXCEPT !.current = next]
             /\ UNCHANGED <<paid, since>>
      BY <1>2 DEF RevealPaced
    <2>3. MemoryTyped'
      <3>1. marks' = marks
        BY <1>2 DEF RevealPaced
      <3> HIDE DEF next
      <3>2. reader' \in Sessions
        BY <2>1, <2>2 DEF MemoryTyped, Sessions
      <3>3. paid' \in Seq(0 .. LongAbsence) /\ since' \in 0 .. LongAbsence
        <4>1. paid \in Seq(0 .. LongAbsence) /\ since \in 0 .. LongAbsence
          BY DEF MemoryTyped
        <4>2. Append(paid, since) \in Seq(0 .. LongAbsence)
          BY <4>1
        <4>3. CASE paid' = Append(paid, since) /\ since' = 0
          BY <4>2, <4>3, LongAbsenceNat
        <4>4. CASE UNCHANGED <<paid, since>>
          BY <4>1, <4>4
        <4> QED
          BY <2>2, <4>3, <4>4
      <3> QED
        BY <3>1, <3>2, <3>3 DEF MemoryTyped
    <2>4. DatabaseTyped' /\ faults' \in 0 .. MaxFaults
      <3>1. \/ Record(reader.doc, "reveal", next, Unmarked, Hooked)
            \/ Refused(reader.doc, "reveal", next, Unmarked)
        BY <1>2 DEF RevealPaced, Logs, FailsToLog
      <3> HIDE DEF next
      <3> QED
        BY <2>1, <3>1, <1>a, <1>c, <1>d, WriteTyped
    <2> QED
      BY <1>2, <2>3, <2>4 DEF RevealPaced
  <1>3. CASE Conceal
    <2> DEFINE previous == reader.current - 1
    <2>1. previous \in Positions
      BY <1>3, <1>a, <1>b DEF Conceal, Positions
    <2>2. reader' \in {reader, [reader EXCEPT !.current = previous]}
      BY <1>3 DEF Conceal
    <2>3. MemoryTyped'
      <3> HIDE DEF previous
      <3>1. reader' \in Sessions
        BY <2>1, <2>2 DEF MemoryTyped, Sessions
      <3> QED
        BY <1>3, <3>1 DEF Conceal, MemoryTyped
    <2>4. DatabaseTyped' /\ faults' \in 0 .. MaxFaults
      <3>1. \/ Record(reader.doc, "conceal", previous, Unmarked, Hooked)
            \/ Refused(reader.doc, "conceal", previous, Unmarked)
        BY <1>3 DEF Conceal, Logs, FailsToLog
      <3> HIDE DEF previous
      <3> QED
        BY <2>1, <3>1, <1>a, <1>c, <1>d, WriteTyped
    <2> QED
      BY <1>3, <2>3, <2>4 DEF Conceal
  <1>4. CASE Return
    <2>1. reader' \in Sessions
      BY <1>4, <1>b DEF Return, MemoryTyped, Sessions
    <2> QED
      BY <1>4, <2>1 DEF Return, MemoryTyped, DatabaseTyped, database
  <1>5. CASE ToggleFreeMode
    <2>1. reader' \in Sessions
      BY <1>5, <1>b DEF ToggleFreeMode, MemoryTyped, Sessions
    <2> QED
      BY <1>5, <2>1 DEF ToggleFreeMode, MemoryTyped, DatabaseTyped, database
  <1>6. ASSUME NEW p \in Positions, SetCurrentPosition(p)
        PROVE  TypeOK'
    <2>1. reader' \in Sessions
      BY <1>6, <1>b DEF SetCurrentPosition, MemoryTyped, Sessions
    <2> QED
      BY <1>6, <2>1 DEF SetCurrentPosition, MemoryTyped, DatabaseTyped, database
  <1>7. ASSUME NEW direction, NEW mode, JumpToPin(direction, mode)
        PROVE  TypeOK'
    <2>1. reader' \in Sessions
      BY <1>7, <1>b DEF JumpToPin, MemoryTyped, Sessions
    <2> QED
      BY <1>7, <2>1 DEF JumpToPin, MemoryTyped, DatabaseTyped, database
  <1>8. CASE Pin
    <2> DEFINE color == CyclePin(Here("pin"))
    <2>1. color \in MarkValues
      <3>1. Here("pin") \in MarkValues
        BY <1>c DEF Kinds
      <3> QED
        BY <3>1, <1>a DEF CyclePin, MarkValues
    <2>2. MemoryTyped'
      <3>1. Assign("pin", color)
        BY <1>8 DEF Pin
      <3>2. marks' \in Marks
        BY <2>1, <3>1, AssignTyped DEF Kinds
      <3> QED
        BY <1>8, <3>2 DEF Pin, MemoryTyped
    <2>3. DatabaseTyped' /\ faults' \in 0 .. MaxFaults
      <3>1. \/ Record(reader.doc, PinEvent, reader.current, color, Hooked)
            \/ Refused(reader.doc, PinEvent, reader.current, color)
        BY <1>8 DEF Pin, Logs, FailsToLog
      <3>2. PinEvent \in {"pin_set", "pin_clear"}
        BY DEF PinEvent
      <3> HIDE DEF color
      <3> QED
        BY <2>1, <3>1, <3>2, <1>b, <1>c, <1>d, WriteTyped
    <2> QED
      BY <1>8, <2>2, <2>3 DEF Pin
  <1>9. ASSUME NEW kind \in Kinds, NEW value \in MarkValues,
               NEW type \in EventTypes \ {"reveal", "conceal"},
               Mark(kind, type, value)
        PROVE  TypeOK'
    <2>1. MemoryTyped'
      <3>1. marks' \in Marks
        BY <1>9, AssignTyped DEF Mark, MemoryTyped
      <3> QED
        BY <1>9, <3>1 DEF Mark, MemoryTyped
    <2>2. DatabaseTyped' /\ faults' \in 0 .. MaxFaults
      <3>1. \/ Record(reader.doc, type, reader.current, value, Hooked)
            \/ Refused(reader.doc, type, reader.current, value)
        BY <1>9 DEF Mark, Logs, FailsToLog
      <3> QED
        BY <1>9, <3>1, <1>b, <1>c, WriteTyped
    <2> QED
      BY <1>9, <2>1, <2>2 DEF Mark
  <1>10. ASSUME NEW d \in Docs, GetReader(d)
         PROVE  TypeOK'
    <2>1. MemoryTyped'
      BY <1>10, OpensTyped DEF GetReader
    <2>2. DatabaseTyped' /\ faults' \in 0 .. MaxFaults
      <3>1. \/ Record(d, "open_document", NoChunk, Unmarked, TRUE)
            \/ Refused(d, "open_document", NoChunk, Unmarked)
        BY <1>10 DEF GetReader
      <3> QED
        BY <3>1, <1>a, <1>d, WriteTyped
    <2> QED
      BY <1>10, <2>1, <2>2 DEF GetReader
  <1>11. ASSUME NEW d \in Docs, Close(d)
         PROVE  TypeOK'
    <2>1. DatabaseTyped' /\ faults' \in 0 .. MaxFaults
      <3>1. \/ Record(d, "close_document", NoChunk, Unmarked, Hooked)
            \/ Refused(d, "close_document", NoChunk, Unmarked)
        BY <1>11 DEF Close
      <3> QED
        BY <3>1, <1>a, <1>c, <1>d, WriteTyped
    <2> QED
      BY <1>11, <2>1 DEF Close, memory, MemoryTyped
  <1>12. ASSUME NEW d \in Docs, DeleteRow(d)
         PROVE  TypeOK'
    <2>1. EmptyReadingState \in ReadingState /\ NoMarks \in Marks
      BY <1>a DEF EmptyReadingState, ReadingState, NoMarks, Marks
    <2>2. DatabaseTyped'
      BY <1>12, <2>1 DEF DeleteRow, DatabaseTyped
    <2> QED
      BY <1>12, <2>2 DEF DeleteRow, memory, MemoryTyped
  <1>13. CASE DeleteSwap
    <2>1. MemoryTyped'
      BY <1>13, DropSessionTyped DEF DeleteSwap, memory, MemoryTyped
    <2> QED
      BY <1>13, <2>1 DEF DeleteSwap, database, DatabaseTyped
  <1>14. CASE Restart
    <2>1. Rebuilt(Welcome) \in Sessions /\ saved[Welcome] \in Marks
      BY RebuiltTyped, ReaderAssumption DEF DatabaseTyped
    <2>2. MemoryTyped'
      BY <1>14, <2>1, LongAbsenceNat DEF Restart, MemoryTyped
    <2> QED
      BY <1>14, <2>2, ReaderAssumption DEF Restart, DatabaseTyped
  <1>15. CASE Tick
    <2>1. since' \in 0 .. LongAbsence
      BY <1>15, LongAbsenceNat DEF Tick, MemoryTyped
    <2> QED
      BY <1>15, <2>1 DEF Tick, MemoryTyped, DatabaseTyped, database
  <1>16. CASE UNCHANGED vars
    BY <1>16 DEF vars, memory, database, MemoryTyped, DatabaseTyped
  <1>17. CASE Annotate
    <2>1. \A rating \in Ratings : Rate(rating) => TypeOK'
      BY <1>9, <1>d, ReaderAssumption DEF Rate, Kinds, MarkValues
    <2>2. \A note \in Notes : SetNote(note) => TypeOK'
      BY <1>9, <1>d, ReaderAssumption DEF SetNote, Kinds, MarkValues
    <2>3. Unrate \/ ClearNote => TypeOK'
      BY <1>9, <1>a, <1>d DEF Unrate, ClearNote, Kinds
    <2> QED
      BY <1>8, <1>17, <2>1, <2>2, <2>3 DEF Annotate
  <1>18. CASE Navigate
    BY <1>1, <1>2, <1>3, <1>4, <1>5, <1>6, <1>7, <1>18 DEF Navigate
  <1> QED
    BY <1>10, <1>11, <1>12, <1>13, <1>14, <1>15, <1>16, <1>17, <1>18 DEF Next


\* The initial state is well formed.
LEMMA TypeInit ==
    ASSUME Init
    PROVE  TypeOK
  <1>1. 0 \in Positions /\ Unmarked \in MarkValues
    BY ReaderAssumption DEF Positions, MarkValues
  <1>2. MemoryTyped
    <2>1. reader \in Sessions /\ NoMarks \in Marks
      BY <1>1, ReaderAssumption DEF Init, Sessions, NoMarks, Marks
    <2>2. << >> \in Seq(0 .. LongAbsence) /\ 0 \in 0 .. LongAbsence
      BY LongAbsenceNat
    <2> QED
      BY <2>1, <2>2 DEF Init, MemoryTyped
  <1>3. DatabaseTyped
    <2>1. EmptyReadingState \in ReadingState /\ NoMarks \in Marks
      BY <1>1 DEF EmptyReadingState, ReadingState, NoMarks, Marks
    <2> QED
      BY <2>1 DEF Init, DatabaseTyped
  <1> QED
    BY <1>2, <1>3, ReaderAssumption DEF Init, TypeOK

\* Every variable keeps its type: no request takes a position of the session
\* or of a projection outside the documents' bounds.
THEOREM TypeCorrect == Spec => []TypeOK
  <1>1. Init => TypeOK
    BY TypeInit
  <1>2. TypeOK /\ [Next]_vars => TypeOK'
    BY TypeStep
  <1> QED
    BY <1>1, <1>2, PTL DEF Spec

-----------------------------------------------------------------------------
(* What an append to the log does to the projections *)

MarkTypes == {"rate_effort", "rate_clear", "pin_set", "pin_clear", "note_set",
              "note_clear"}

\* Events of this type with this value are about marks of this kind.
IsMark(type, kind, value) ==
    \/ type = SetType[kind]
    \/ type = ClearType[kind] /\ value = Unmarked

\* An event that is not about a mark leaves the marks of its document alone.
LEMMA OtherEventsKeepMarks ==
    ASSUME NEW m \in Marks, NEW e, e.type \notin MarkTypes
    PROVE  ApplyMarks(m, e) = m
  <1>1. \A k \in Kinds : ApplyMarks(m, e)[k] = m[k]
    BY DEF ApplyMarks, Latest, Kinds, MarkTypes, SetType, ClearType
  <1>2. ApplyMarks(m, e) = [k \in Kinds |-> ApplyMarks(m, e)[k]]
    BY DEF ApplyMarks
  <1>3. m = [k \in Kinds |-> m[k]]
    BY DEF Marks
  <1> QED
    BY <1>1, <1>2, <1>3

\* An event about a mark assigns its value at its chunk, and nothing else.
LEMMA MarkEventsAssign ==
    ASSUME NEW m \in Marks, NEW e, NEW kind \in Kinds,
           IsMark(e.type, kind, e.value)
    PROVE  ApplyMarks(m, e) = Assigned(m, kind, e.chunk, e.value)
  <1> DEFINE assigned == Assigned(m, kind, e.chunk, e.value)
  <1>1. \A k \in Kinds : ApplyMarks(m, e)[k] = assigned[k]
    BY DEF ApplyMarks, Latest, Kinds, SetType, ClearType, Marks, Assigned, IsMark
  <1>2. ApplyMarks(m, e) = [k \in Kinds |-> ApplyMarks(m, e)[k]]
    BY DEF ApplyMarks
  <1>3. assigned = [k \in Kinds |-> assigned[k]]
    BY DEF Marks, Assigned
  <1> QED
    BY <1>1, <1>2, <1>3

\* What a recorded event changes: the frontier of its document if it is a
\* reveal, the marks of its document if it is about a mark.
LEMMA RecordEffect ==
    ASSUME DatabaseTyped, NEW d, NEW type, NEW chunk, NEW value,
           Record(d, type, chunk, value, TRUE)
    PROVE  /\ d \in docs /\ d \in Docs
           /\ docs' = docs /\ faults' = faults /\ leaked' = FALSE
           /\ \A x \in Docs \ {d} : states'[x] = states[x] /\ saved'[x] = saved[x]
           /\ states'[d].high = IF type = "reveal" /\ chunk > states[d].high
                                THEN chunk ELSE states[d].high
           /\ type \notin MarkTypes => saved' = saved
  <1> DEFINE e == [id |-> lastId + 1, doc |-> d, type |-> type,
                   chunk |-> chunk, value |-> value]
  <1>1. /\ d \in docs /\ d \in Docs
        /\ docs' = docs /\ faults' = faults /\ leaked' = FALSE
        /\ states' = [states EXCEPT ![d] = ApplyEvent(states[d], e)]
        /\ saved' = [saved EXCEPT ![d] = ApplyMarks(saved[d], e)]
    BY DEF Record, DatabaseTyped
  <1>2. /\ states \in [Docs -> ReadingState] /\ saved \in [Docs -> Marks]
        /\ saved[d] \in Marks
    BY <1>1 DEF DatabaseTyped
  <1>3. e.type = type /\ e.chunk = chunk /\ e.value = value
    OBVIOUS
  <1> HIDE DEF e
  <1>4. \A x \in Docs \ {d} : states'[x] = states[x] /\ saved'[x] = saved[x]
    BY <1>1, <1>2
  <1>5. states'[d].high = IF type = "reveal" /\ chunk > states[d].high
                          THEN chunk ELSE states[d].high
    <2>1. states'[d] = ApplyEvent(states[d], e)
      BY <1>1, <1>2
    <2> QED
      BY <2>1, <1>3 DEF ApplyEvent
  <1>6. saved'[d] = ApplyMarks(saved[d], e)
    BY <1>1, <1>2
  <1>7. type \notin MarkTypes => saved' = saved
    <2>1. ASSUME type \notin MarkTypes
          PROVE  saved' = [saved EXCEPT ![d] = saved[d]]
      BY <2>1, <1>1, <1>2, <1>3, OtherEventsKeepMarks
    <2> QED
      BY <2>1, <1>2
  <1> QED
    BY <1>1, <1>4, <1>5, <1>7

\* What a refused append changes: it leaves the lock on a deleted document, or
\* it counts as a fault.
LEMMA RefusedEffect ==
    ASSUME NEW d, NEW type, NEW chunk, NEW value, faults \in 0 .. MaxFaults,
           Refused(d, type, chunk, value)
    PROVE  /\ UNCHANGED <<docs, states, saved>>
           /\ \/ d \notin docs /\ faults' = faults
              \/ leaked' = FALSE /\ faults' # 0
           /\ faults' = 0 => faults = 0
  BY ReaderAssumption
     DEF Refused, RejectedByForeignKey, RejectedAsBusy, database


-----------------------------------------------------------------------------
(* The session, the store and the marks *)

\* The placeholder session has settled nothing.
NothingSettledWithoutADocument == reader.doc = NoDoc => reader.high = 0

\* The inductive invariant: what the session holds is tied to what the store
\* holds, since a mark is checked against the frontier in memory and stored
\* beside the frontier of the row.
Coherent ==
    /\ TypeOK
    /\ NoLockKeptOverALiveDocument
    /\ MemoryFollowsTheStore
    /\ MarksStayBehindTheFrontier
    /\ NothingSettledWithoutADocument

\* A request that moves only the position of the session keeps Coherent.
LEMMA MoveStep ==
    ASSUME Coherent, [Next]_vars,
           reader'.doc = reader.doc, reader'.high = reader.high,
           UNCHANGED <<marks, docs, states, saved, leaked, faults>>
    PROVE  Coherent'
  <1>1. TypeOK'
    BY TypeStep DEF Coherent
  <1> QED
    BY <1>1
       DEF Coherent, NoLockKeptOverALiveDocument, MemoryFollowsTheStore,
           MarksStayBehindTheFrontier, NothingSettledWithoutADocument

\* A log write that is refused keeps Coherent, if memory has changed at most
\* its pins, and its frontier forwards.
LEMMA RefusedStep ==
    ASSUME Coherent, [Next]_vars,
           reader'.doc = reader.doc, reader'.high >= reader.high,
           reader.doc = NoDoc => reader'.high = reader.high,
           marks'["rating"] = marks["rating"], marks'["note"] = marks["note"],
           NEW type, NEW chunk, NEW value,
           Refused(reader.doc, type, chunk, value)
    PROVE  Coherent'
  <1>1. TypeOK'
    BY TypeStep DEF Coherent
  <1>2. /\ UNCHANGED <<docs, states, saved>>
        /\ \/ reader.doc \notin docs
           \/ leaked' = FALSE /\ faults' # 0
        /\ faults' = 0 => faults = 0
    BY RefusedEffect DEF Coherent, TypeOK
  <1>3. NoLockKeptOverALiveDocument'
    BY <1>2 DEF NoLockKeptOverALiveDocument
  <1>4. MemoryFollowsTheStore'
    <2>1. /\ reader.high \in Int /\ reader'.high \in Int
          /\ \A d \in Docs : states[d].high \in Int
      BY <1>1 DEF Coherent, TypeOK, MemoryTyped, DatabaseTyped, Sessions,
                  ReadingState, Positions
    <2>2. docs \subseteq Docs
      BY DEF Coherent, TypeOK, DatabaseTyped
    <2> QED
      BY <1>2, <2>1, <2>2 DEF Coherent, MemoryFollowsTheStore
  <1>5. MarksStayBehindTheFrontier'
    BY <1>2 DEF Coherent, MarksStayBehindTheFrontier
  <1>6. NothingSettledWithoutADocument'
    BY DEF Coherent, NothingSettledWithoutADocument
  <1> QED
    BY <1>1, <1>3, <1>4, <1>5, <1>6 DEF Coherent

\* What a recorded mark changes: that mark of its document.
LEMMA MarkEffect ==
    ASSUME DatabaseTyped, NEW d, NEW chunk, NEW kind \in Kinds, NEW type, NEW value,
           IsMark(type, kind, value),
           Record(d, type, chunk, value, TRUE)
    PROVE  saved'[d] = Assigned(saved[d], kind, chunk, value)
  <1> DEFINE e == [id |-> lastId + 1, doc |-> d, type |-> type,
                   chunk |-> chunk, value |-> value]
  <1>1. d \in Docs /\ saved' = [saved EXCEPT ![d] = ApplyMarks(saved[d], e)]
    BY DEF Record, DatabaseTyped
  <1>2. saved \in [Docs -> Marks] /\ saved[d] \in Marks
    BY <1>1 DEF DatabaseTyped
  <1>3. e.type = type /\ e.chunk = chunk /\ e.value = value
    OBVIOUS
  <1> HIDE DEF e
  <1>4. saved'[d] = ApplyMarks(saved[d], e)
    BY <1>1, <1>2
  <1>5. ApplyMarks(saved[d], e) = Assigned(saved[d], kind, e.chunk, e.value)
    BY <1>2, <1>3, MarkEventsAssign
  <1> QED
    BY <1>3, <1>4, <1>5

\* A mark logged on settled text, then (or already) assigned in memory.
LEMMA MarkedStep ==
    ASSUME Coherent, [Next]_vars, UNCHANGED reader,
           NEW d, d = reader.doc, NEW chunk, chunk = reader.current,
           chunk <= reader.high,
           NEW kind \in Kinds, NEW type, NEW value,
           IsMark(type, kind, value),
           marks' = Assigned(marks, kind, chunk, value),
           Record(d, type, chunk, value, TRUE)
    PROVE  Coherent'
  <1> DEFINE Marked(m) == Assigned(m, kind, chunk, value)
  <1>1. TypeOK' /\ DatabaseTyped
    BY TypeStep DEF Coherent, TypeOK
  <1>2. /\ d \in docs /\ d \in Docs
        /\ docs' = docs /\ faults' = faults /\ leaked' = FALSE
        /\ \A x \in Docs \ {d} : states'[x] = states[x] /\ saved'[x] = saved[x]
        /\ states'[d].high = states[d].high
        /\ saved'[d] = Marked(saved[d])
    <2>1. type # "reveal"
      BY DEF IsMark, SetType, ClearType, Kinds
    <2>2. /\ d \in docs /\ d \in Docs
          /\ docs' = docs /\ faults' = faults /\ leaked' = FALSE
          /\ \A x \in Docs \ {d} : states'[x] = states[x] /\ saved'[x] = saved[x]
          /\ states'[d].high = IF type = "reveal" /\ chunk > states[d].high
                                THEN chunk ELSE states[d].high
      BY <1>1, RecordEffect
    <2>3. saved'[d] = Marked(saved[d])
      <3>1. \A x : Record(x, type, chunk, value, TRUE)
                   => saved'[x] = Assigned(saved[x], kind, chunk, value)
        BY <1>1, MarkEffect
      <3> QED
        BY <3>1
    <2> QED
      BY <2>1, <2>2, <2>3
  <1>3. marks' = Marked(marks)
    OBVIOUS
  <1>4. NoLockKeptOverALiveDocument'
    BY <1>2 DEF NoLockKeptOverALiveDocument
  <1>5. /\ marks \in [Kinds -> [Positions -> MarkValues]]
        /\ saved[d] \in [Kinds -> [Positions -> MarkValues]]
    BY <1>2 DEF Coherent, TypeOK, MemoryTyped, DatabaseTyped, Marks
  <1>6. MemoryFollowsTheStore'
    <2>1. /\ marks["rating"] = saved[d]["rating"]
          /\ marks["note"] = saved[d]["note"]
          /\ reader.high >= states[d].high
          /\ faults = 0 => marks = saved[d] /\ reader.high = states[d].high
      BY <1>2 DEF Coherent, MemoryFollowsTheStore
    <2>2. Marked(marks)["rating"] = Marked(saved[d])["rating"]
      BY <1>5, <2>1 DEF Kinds, Assigned
    <2>3. Marked(marks)["note"] = Marked(saved[d])["note"]
      BY <1>5, <2>1 DEF Kinds, Assigned
    <2> HIDE DEF Marked
    <2> QED
      BY <1>2, <1>3, <2>1, <2>2, <2>3 DEF MemoryFollowsTheStore
  <1>7. MarksStayBehindTheFrontier'
    <2> SUFFICES ASSUME faults = 0, NEW x \in Docs, NEW k \in Kinds,
                        NEW p \in Positions, saved'[x][k][p] # Unmarked
                 PROVE  p <= states'[x].high
      BY <1>2 DEF MarksStayBehindTheFrontier
    <2>1. CASE x # d \/ k # kind \/ p # chunk
      <3>1. saved'[x][k][p] = saved[x][k][p]
        BY <1>2, <1>5, <2>1 DEF Assigned
      <3>2. p <= states[x].high
        BY <3>1 DEF Coherent, MarksStayBehindTheFrontier
      <3> QED
        BY <1>2, <3>2
    <2>2. CASE x = d /\ k = kind /\ p = chunk
      BY <1>2, <2>2 DEF Coherent, MemoryFollowsTheStore
    <2> QED
      BY <2>1, <2>2
  <1>8. NothingSettledWithoutADocument'
    BY DEF Coherent, NothingSettledWithoutADocument
  <1> QED
    BY <1>1, <1>4, <1>6, <1>7, <1>8 DEF Coherent


\* An event that is about no mark and does not move the frontier of its row,
\* logged by a session that stays as it is.
LEMMA UnmarkedStep ==
    ASSUME Coherent, [Next]_vars, reader.doc # NoDoc,
           reader'.doc = reader.doc, reader'.high = reader.high,
           UNCHANGED marks,
           NEW type, type \notin MarkTypes \cup {"reveal"}, NEW chunk, NEW value,
           Record(reader.doc, type, chunk, value, TRUE)
    PROVE  Coherent'
  <1>1. TypeOK'
    BY TypeStep DEF Coherent
  <1>2. DatabaseTyped
    BY DEF Coherent, TypeOK
  <1>3. /\ reader.doc \in docs /\ reader.doc \in Docs
        /\ docs' = docs /\ faults' = faults /\ leaked' = FALSE
        /\ \A x \in Docs \ {reader.doc} : states'[x] = states[x]
        /\ states'[reader.doc].high
             = IF type = "reveal" /\ chunk > states[reader.doc].high
               THEN chunk ELSE states[reader.doc].high
        /\ saved' = saved
    BY <1>2, RecordEffect
  <1>4. \A x \in Docs : states'[x].high = states[x].high
    BY <1>3
  <1> QED
    BY <1>1, <1>3, <1>4
       DEF Coherent, NoLockKeptOverALiveDocument, MemoryFollowsTheStore,
           MarksStayBehindTheFrontier, NothingSettledWithoutADocument

\* A reveal moves the frontier of the session and of the row together.
LEMMA RevealStep ==
    ASSUME Coherent, [Next]_vars, RevealPaced
    PROVE  Coherent'
  <1> DEFINE next == reader.current + 1
             reason == TryReveal(reader.current, reader.high,
                                 Total(reader.doc), TokensNow(paid, since))
  <1>1. TypeOK /\ TypeOK' /\ DatabaseTyped
    BY TypeStep DEF Coherent, TypeOK
  <1>2. /\ reader.current \in Int /\ reader.high \in Int /\ reader.current >= 0
        /\ Total(reader.doc) \in Int
        /\ \A d \in Docs : states[d].high \in Int
    <2>1. reader \in Sessions /\ states \in [Docs -> ReadingState]
      BY <1>1 DEF TypeOK, MemoryTyped, DatabaseTyped
    <2>2. /\ reader.current \in Positions /\ reader.high \in Positions
          /\ reader.doc \in Docs \cup {NoDoc}
      BY <2>1 DEF Sessions
    <2>3. Total(reader.doc) \in Int
      BY <2>2, TotalBound
    <2>4. ASSUME NEW d \in Docs
          PROVE  states[d].high \in Int
      <3>1. states[d] \in ReadingState
        BY <2>1
      <3> QED
        BY <3>1 DEF ReadingState, Positions
    <2>5. \A p \in Positions : p \in Int /\ p >= 0
      BY DEF Positions
    <2> QED
      BY <2>2, <2>3, <2>4, <2>5
  <1>3. reason \in {"advanced_free", "advanced_paid"}
    BY DEF RevealPaced
  <1>4. /\ reader'.doc = reader.doc
        /\ reader'.high = IF next > reader.high THEN next ELSE reader.high
        /\ marks' = marks
    <2>1. reason = "advanced_paid" <=> next > reader.high
      BY <1>2, <1>3 DEF TryReveal
    <2>2. reader \in Sessions
      BY <1>1 DEF TypeOK, MemoryTyped
    <2>3. /\ reason = "advanced_paid"
             => reader' = [reader EXCEPT !.current = next, !.high = next]
          /\ reason # "advanced_paid" => reader' = [reader EXCEPT !.current = next]
          /\ marks' = marks
      BY DEF RevealPaced
    <2> QED
      BY <2>1, <2>2, <2>3 DEF Sessions
  <1>5. reader.doc # NoDoc
    <2>1. reader.current + 1 < Total(reader.doc)
      BY <1>2, <1>3, RevealStaysInside
    <2> QED
      BY <1>2, <2>1 DEF Total
  <1>6. \/ Record(reader.doc, "reveal", next, Unmarked, TRUE)
        \/ Refused(reader.doc, "reveal", next, Unmarked)
    BY <1>5 DEF RevealPaced, Logs, FailsToLog, Hooked
  <1> HIDE DEF next, reason
  <1>7. CASE Refused(reader.doc, "reveal", next, Unmarked)
    <2>1. reader'.high >= reader.high
      BY <1>1, <1>2, <1>4 DEF TypeOK, MemoryTyped, Sessions, Positions
    <2> QED
      BY <1>4, <1>5, <1>7, <2>1, RefusedStep
  <1>8. CASE Record(reader.doc, "reveal", next, Unmarked, TRUE)
    <2>1. /\ reader.doc \in docs /\ reader.doc \in Docs
          /\ docs' = docs /\ faults' = faults /\ leaked' = FALSE
          /\ \A x \in Docs \ {reader.doc} : states'[x] = states[x]
          /\ states'[reader.doc].high
               = IF next > states[reader.doc].high
                 THEN next ELSE states[reader.doc].high
          /\ saved' = saved
      <3>1. PICK type : type = "reveal"
        OBVIOUS
      <3>2. Record(reader.doc, type, next, Unmarked, TRUE)
        BY <1>8, <3>1
      <3>3. type \notin MarkTypes
        BY <3>1 DEF MarkTypes
      <3> QED
        BY <1>1, <3>1, <3>2, <3>3, RecordEffect
    <2>2. /\ \A x \in Docs : states'[x].high \in Int
          /\ \A x \in Docs : states'[x].high >= states[x].high
      BY <1>1, <1>2, <2>1 DEF TypeOK, DatabaseTyped, ReadingState, Positions
    <2>3. next \in Int
      BY <1>2 DEF next
    <2>4. NoLockKeptOverALiveDocument'
      BY <2>1 DEF NoLockKeptOverALiveDocument
    <2>5. MemoryFollowsTheStore'
      BY <1>2, <1>4, <2>1, <2>3 DEF Coherent, MemoryFollowsTheStore
    <2>6. MarksStayBehindTheFrontier'
      <3> SUFFICES ASSUME faults = 0, NEW x \in Docs, NEW k \in Kinds,
                          NEW p \in Positions, saved[x][k][p] # Unmarked
                   PROVE  p <= states'[x].high
        BY <2>1 DEF MarksStayBehindTheFrontier
      <3>1. p <= states[x].high
        BY DEF Coherent, MarksStayBehindTheFrontier
      <3> QED
        BY <1>2, <2>2, <3>1 DEF Positions
    <2>7. NothingSettledWithoutADocument'
      BY <1>4, <1>5 DEF NothingSettledWithoutADocument
    <2> QED
      BY <1>1, <2>4, <2>5, <2>6, <2>7 DEF Coherent
  <1> QED
    BY <1>6, <1>7, <1>8


\* A dropped session has no document: nothing ties it to the store.
LEMMA DropStep ==
    ASSUME Coherent, [Next]_vars, DropSession,
           UNCHANGED <<docs, states, saved, leaked, faults>>
    PROVE  Coherent'
  <1>1. TypeOK'
    BY TypeStep DEF Coherent
  <1>2. reader'.doc = NoDoc /\ reader'.high = 0 /\ NoDoc \notin docs'
    BY ReaderAssumption
       DEF DropSession, EmptySession, Coherent, TypeOK, DatabaseTyped
  <1> QED
    BY <1>1, <1>2
       DEF Coherent, NoLockKeptOverALiveDocument, MemoryFollowsTheStore,
           MarksStayBehindTheFrontier, NothingSettledWithoutADocument

\* A restarted server opens the welcome document from its rows.
LEMMA RestartStep ==
    ASSUME Coherent, [Next]_vars, Restart
    PROVE  Coherent'
  <1>1. TypeOK' /\ states[Welcome] \in ReadingState /\ Welcome # NoDoc
    BY TypeStep, ReaderAssumption DEF Coherent, TypeOK, DatabaseTyped
  <1>2. /\ reader'.doc = Welcome /\ reader'.high = states[Welcome].high
        /\ marks' = saved[Welcome] /\ leaked' = FALSE
        /\ UNCHANGED <<states, saved, faults>>
    BY DEF Restart, Rebuilt
  <1>3. states[Welcome].high >= states[Welcome].high
    BY <1>1 DEF ReadingState, Positions
  <1>4. MemoryFollowsTheStore'
    BY <1>2, <1>3 DEF MemoryFollowsTheStore
  <1>5. MarksStayBehindTheFrontier'
    BY <1>2 DEF Coherent, MarksStayBehindTheFrontier
  <1> QED
    BY <1>1, <1>2, <1>4, <1>5
       DEF Coherent, NoLockKeptOverALiveDocument, NothingSettledWithoutADocument

\* A mark, or the refusal of its log write.
LEMMA MarkStep ==
    ASSUME Coherent, [Next]_vars, NEW kind \in Kinds, NEW type, NEW value,
           IsMark(type, kind, value),
           Mark(kind, type, value)
    PROVE  Coherent'
  <1>1. reader.current <= reader.high /\ UNCHANGED reader
    BY DEF Mark, BehindFrontier
  <1>2. CASE Logs(type, reader.current, value) /\ Assign(kind, value)
    <2>1. reader.doc # NoDoc
      BY <1>2, ReaderAssumption
         DEF Logs, Record, Coherent, TypeOK, DatabaseTyped
    <2>2. Record(reader.doc, type, reader.current, value, TRUE)
      BY <1>2, <2>1 DEF Logs, Hooked
    <2>3. marks' = Assigned(marks, kind, reader.current, value)
      BY <1>2 DEF Assign
    <2> QED
      BY <1>1, <2>2, <2>3, MarkedStep
  <1>3. CASE FailsToLog(type, reader.current, value) /\ UNCHANGED marks
    <2>1. Refused(reader.doc, type, reader.current, value)
      BY <1>3 DEF FailsToLog
    <2>2. reader'.high >= reader.high
      BY <1>1 DEF Coherent, TypeOK, MemoryTyped, Sessions, Positions
    <2> QED
      BY <1>1, <1>3, <2>1, <2>2, RefusedStep
  <1> QED
    BY <1>2, <1>3 DEF Mark

\* A pin, or the refusal of its log write after memory has changed.
LEMMA PinStep ==
    ASSUME Coherent, [Next]_vars, Pin
    PROVE  Coherent'
  <1> DEFINE color == CyclePin(Here("pin"))
  <1>1. /\ reader.current <= reader.high /\ UNCHANGED reader
        /\ marks' = Assigned(marks, "pin", reader.current, color)
    BY DEF Pin, BehindFrontier, Assign
  <1>2. IsMark(PinEvent, "pin", color)
    BY DEF PinEvent, CyclePin, SetType, ClearType, IsMark
  <1> HIDE DEF color
  <1>3. CASE Logs(PinEvent, reader.current, color)
    <2>1. reader.doc # NoDoc
      BY <1>3, ReaderAssumption
         DEF Logs, Record, Coherent, TypeOK, DatabaseTyped
    <2>2. Record(reader.doc, PinEvent, reader.current, color, TRUE)
      BY <1>3, <2>1 DEF Logs, Hooked
    <2> QED
      BY <1>1, <1>2, <2>2, MarkedStep DEF Kinds
  <1>4. CASE FailsToLog(PinEvent, reader.current, color)
    <2>1. Refused(reader.doc, PinEvent, reader.current, color)
      BY <1>4 DEF FailsToLog
    <2>2. marks'["rating"] = marks["rating"] /\ marks'["note"] = marks["note"]
      BY <1>1 DEF Assigned, Coherent, TypeOK, MemoryTyped, Marks, Kinds
    <2>3. reader'.high >= reader.high
      BY <1>1 DEF Coherent, TypeOK, MemoryTyped, Sessions, Positions
    <2> QED
      BY <1>1, <2>1, <2>2, <2>3, RefusedStep
  <1> QED
    BY <1>3, <1>4 DEF Pin, color

\* An opening: the session on the page, or one built from the rows, and the
\* event that records it.
LEMMA GetReaderStep ==
    ASSUME Coherent, [Next]_vars, NEW d \in Docs, GetReader(d)
    PROVE  Coherent'
  <1>1. TypeOK /\ TypeOK' /\ DatabaseTyped /\ reader \in Sessions /\ NoDoc \notin Docs
    BY TypeStep, ReaderAssumption DEF Coherent, TypeOK, MemoryTyped
  <1>2. reader'.doc = d
    <2>1. CASE reader.doc = d
      BY <1>1, <2>1 DEF GetReader, Opens, DeepLinked, Sessions
    <2>2. CASE reader.doc # d
      BY <1>1, <2>2 DEF GetReader, Opens, DeepLinked, Rebuilt
    <2> QED
      BY <2>1, <2>2
  <1>3. \/ reader.doc = d /\ marks' = marks /\ reader'.high = reader.high
        \/ d \in docs /\ marks' = saved[d] /\ reader'.high = states[d].high
    <2>1. CASE reader.doc = d
      BY <1>1, <2>1 DEF GetReader, Opens, DeepLinked, Sessions
    <2>2. CASE reader.doc # d
      BY <1>1, <2>2 DEF GetReader, Opens, DeepLinked, Rebuilt
    <2> QED
      BY <2>1, <2>2
  <1>4. /\ docs' = docs /\ saved' = saved
        /\ \A x \in Docs : states'[x].high = states[x].high
        /\ faults' = 0 => faults = 0
        /\ \/ leaked' = FALSE
           \/ d \notin docs
    <2>1. CASE Record(d, "open_document", NoChunk, Unmarked, TRUE)
      <3>1. PICK type, chunk : type = "open_document" /\ chunk = NoChunk
        OBVIOUS
      <3>2. Record(d, type, chunk, Unmarked, TRUE)
        BY <2>1, <3>1
      <3>3. type \notin MarkTypes /\ type # "reveal"
        BY <3>1 DEF MarkTypes
      <3>4. /\ docs' = docs /\ faults' = faults /\ leaked' = FALSE
            /\ \A x \in Docs \ {d} : states'[x] = states[x]
            /\ states'[d].high = IF type = "reveal" /\ chunk > states[d].high
                                 THEN chunk ELSE states[d].high
            /\ saved' = saved
        BY <1>1, <3>2, <3>3, RecordEffect DEF Record
      <3> QED
        BY <3>3, <3>4
    <2>2. CASE Refused(d, "open_document", NoChunk, Unmarked)
      BY <1>1, <2>2, RefusedEffect DEF TypeOK
    <2> QED
      BY <2>1, <2>2 DEF GetReader
  <1>5. NoLockKeptOverALiveDocument'
    BY <1>2, <1>4 DEF NoLockKeptOverALiveDocument
  <1>6. MemoryFollowsTheStore'
    <2>1. states[d].high >= states[d].high
      <3>1. states[d] \in ReadingState
        BY <1>1 DEF DatabaseTyped
      <3> QED
        BY <3>1 DEF ReadingState, Positions
    <2> QED
      BY <1>2, <1>3, <1>4, <2>1 DEF Coherent, MemoryFollowsTheStore
  <1>7. MarksStayBehindTheFrontier'
    BY <1>4 DEF Coherent, MarksStayBehindTheFrontier
  <1>8. NothingSettledWithoutADocument'
    BY <1>1, <1>2 DEF NothingSettledWithoutADocument
  <1> QED
    BY <1>1, <1>5, <1>6, <1>7, <1>8 DEF Coherent


\* A page that closes, whichever session is in memory by then.
LEMMA CloseStep ==
    ASSUME Coherent, [Next]_vars, NEW d \in Docs, Close(d)
    PROVE  Coherent'
  <1>1. TypeOK /\ TypeOK' /\ DatabaseTyped /\ d \in docs
    BY TypeStep DEF Coherent, TypeOK, Close
  <1>2. /\ docs' = docs /\ saved' = saved
        /\ \A x \in Docs : states'[x].high = states[x].high
        /\ faults' = 0 => faults = 0
        /\ leaked' = FALSE
    <2>1. CASE /\ Record(d, "close_document", NoChunk, Unmarked, Hooked)
               /\ Hooked
      <3>1. PICK type, chunk : type = "close_document" /\ chunk = NoChunk
        OBVIOUS
      <3>2. Record(d, type, chunk, Unmarked, TRUE)
        BY <2>1, <3>1
      <3>3. type \notin MarkTypes /\ type # "reveal"
        BY <3>1 DEF MarkTypes
      <3>4. /\ docs' = docs /\ faults' = faults /\ leaked' = FALSE
            /\ \A x \in Docs \ {d} : states'[x] = states[x]
            /\ states'[d].high = IF type = "reveal" /\ chunk > states[d].high
                                 THEN chunk ELSE states[d].high
            /\ saved' = saved
        BY <1>1, <3>2, <3>3, RecordEffect DEF Record
      <3> QED
        BY <3>3, <3>4
    <2>2. CASE /\ Record(d, "close_document", NoChunk, Unmarked, Hooked)
               /\ ~Hooked
      BY <2>2 DEF Record
    <2>3. CASE Refused(d, "close_document", NoChunk, Unmarked)
      BY <1>1, <2>3, RefusedEffect DEF TypeOK
    <2> QED
      BY <2>1, <2>2, <2>3 DEF Close
  <1>3. UNCHANGED <<reader, marks>>
    BY DEF Close, memory
  <1>4. NoLockKeptOverALiveDocument'
    BY <1>2 DEF NoLockKeptOverALiveDocument
  <1>5. MemoryFollowsTheStore'
    <2>1. docs \subseteq Docs
      BY <1>1 DEF DatabaseTyped
    <2> QED
      BY <1>2, <1>3, <2>1 DEF Coherent, MemoryFollowsTheStore
  <1>6. MarksStayBehindTheFrontier'
    BY <1>2 DEF Coherent, MarksStayBehindTheFrontier
  <1> QED
    BY <1>1, <1>3, <1>4, <1>5, <1>6
       DEF Coherent, NothingSettledWithoutADocument

\* A step back, or the refusal of its log write.
LEMMA ConcealStep ==
    ASSUME Coherent, [Next]_vars, Conceal
    PROVE  Coherent'
  <1>1. reader \in Sessions /\ NoDoc \notin docs
    BY ReaderAssumption DEF Coherent, TypeOK, MemoryTyped, DatabaseTyped
  <1>2. /\ reader'.doc = reader.doc /\ reader'.high = reader.high
        /\ marks' = marks
    BY <1>1 DEF Conceal, Sessions
  <1>3. CASE Logs("conceal", reader.current - 1, Unmarked)
    <2>1. reader.doc # NoDoc
      BY <1>1, <1>3 DEF Logs, Record
    <2>2. PICK type : type = "conceal"
      OBVIOUS
    <2>3. Record(reader.doc, type, reader.current - 1, Unmarked, TRUE)
      BY <1>3, <2>1, <2>2 DEF Logs, Hooked
    <2>4. type \notin MarkTypes \cup {"reveal"}
      BY <2>2 DEF MarkTypes
    <2> QED
      BY <1>2, <2>1, <2>3, <2>4, UnmarkedStep
  <1>4. CASE FailsToLog("conceal", reader.current - 1, Unmarked)
    <2>1. Refused(reader.doc, "conceal", reader.current - 1, Unmarked)
      BY <1>4 DEF FailsToLog
    <2>2. reader'.high >= reader.high
      BY <1>1, <1>2 DEF Sessions, Positions
    <2> QED
      BY <1>2, <2>1, <2>2, RefusedStep
  <1> QED
    BY <1>3, <1>4 DEF Conceal

\* A deleted row takes its marks with it, and cannot go while the lock is held.
LEMMA DeleteRowStep ==
    ASSUME Coherent, [Next]_vars, NEW d \in Docs, DeleteRow(d)
    PROVE  Coherent'
  <1>1. /\ TypeOK' /\ DatabaseTyped
        /\ states \in [Docs -> ReadingState] /\ saved \in [Docs -> Marks]
    BY TypeStep DEF Coherent, TypeOK, DatabaseTyped
  <1>2. /\ docs' = docs \ {d} /\ ~leaked /\ leaked' = leaked /\ faults' = faults
        /\ \A x \in Docs \ {d} : states'[x] = states[x] /\ saved'[x] = saved[x]
        /\ saved'[d] = NoMarks
        /\ reader' = reader /\ marks' = marks
    BY <1>1 DEF DeleteRow, memory
  <1>3. docs \subseteq Docs
    BY <1>1 DEF DatabaseTyped
  <1>4. MemoryFollowsTheStore'
    BY <1>2, <1>3 DEF Coherent, MemoryFollowsTheStore
  <1>5. MarksStayBehindTheFrontier'
    <2>1. \A k \in Kinds, p \in Positions : saved'[d][k][p] = Unmarked
      BY <1>2 DEF NoMarks
    <2> QED
      BY <1>2, <2>1 DEF Coherent, MarksStayBehindTheFrontier
  <1> QED
    BY <1>1, <1>2, <1>4, <1>5
       DEF Coherent, NoLockKeptOverALiveDocument, NothingSettledWithoutADocument

\* Every step of the reader keeps the session coherent with the store.
LEMMA CoherentStep ==
    ASSUME Coherent, [Next]_vars
    PROVE  Coherent'
  <1>1. reader \in Sessions
    BY DEF Coherent, TypeOK, MemoryTyped
  <1>2. CASE Navigate
    <2>1. CASE RevealPaced
      BY <2>1, RevealStep
    <2>2. CASE Conceal
      BY <2>2, ConcealStep
    <2>3. CASE RevealFreely \/ Return \/ ToggleFreeMode
      BY <1>1, <2>3, MoveStep
         DEF RevealFreely, Return, ToggleFreeMode, database, Sessions
    <2>4. CASE \E p \in Positions : SetCurrentPosition(p)
      BY <1>1, <2>4, MoveStep DEF SetCurrentPosition, database, Sessions
    <2>5. ASSUME NEW direction, NEW mode, JumpToPin(direction, mode)
          PROVE  Coherent'
      BY <1>1, <2>5, MoveStep DEF JumpToPin, database, Sessions
    <2> QED
      BY <1>2, <2>1, <2>2, <2>3, <2>4, <2>5 DEF Navigate
  <1>3. CASE Annotate
    <2>1. \A rating \in Ratings : Rate(rating) => Coherent'
      BY MarkStep DEF Rate, Kinds, SetType, IsMark
    <2>2. \A note \in Notes : SetNote(note) => Coherent'
      BY MarkStep DEF SetNote, Kinds, SetType, IsMark
    <2>3. Unrate => Coherent'
      BY MarkStep DEF Unrate, Kinds, ClearType, IsMark
    <2>4. ClearNote => Coherent'
      BY MarkStep DEF ClearNote, Kinds, ClearType, IsMark
    <2> QED
      BY <1>3, <2>1, <2>2, <2>3, <2>4, PinStep DEF Annotate
  <1>4. ASSUME NEW d \in Docs, GetReader(d) \/ Close(d) \/ DeleteRow(d)
        PROVE  Coherent'
    BY <1>4, GetReaderStep, CloseStep, DeleteRowStep
  <1>5. CASE DeleteSwap
    <2>1. CASE reader.doc = deleting
      BY <1>5, <2>1, DropStep DEF DeleteSwap, database
    <2>2. CASE reader.doc # deleting
      BY <1>5, <2>2, MoveStep DEF DeleteSwap, memory, database
    <2> QED
      BY <2>1, <2>2
  <1>6. CASE Restart
    BY <1>6, RestartStep
  <1>7. CASE Tick \/ UNCHANGED vars
    BY <1>7, MoveStep DEF Tick, vars, memory, database
  <1> QED
    BY <1>2, <1>3, <1>4, <1>5, <1>6, <1>7 DEF Next

\* The server starts coherent.
LEMMA CoherentInit ==
    ASSUME Init
    PROVE  Coherent
  <1>1. /\ saved = [d \in Docs |-> NoMarks]
        /\ states = [d \in Docs |-> EmptyReadingState]
        /\ reader.doc = Welcome /\ reader.high = 0 /\ marks = NoMarks /\ ~leaked
    BY DEF Init
  <1>2. Welcome \in Docs /\ Welcome # NoDoc
    BY ReaderAssumption
  <1>3. saved[Welcome] = NoMarks /\ states[Welcome].high = 0
    BY <1>1, <1>2 DEF EmptyReadingState
  <1>4. MarksStayBehindTheFrontier
    <2>1. \A x \in Docs, k \in Kinds, p \in Positions : saved[x][k][p] = Unmarked
      BY <1>1 DEF NoMarks
    <2> QED
      BY <2>1 DEF MarksStayBehindTheFrontier
  <1>5. MemoryFollowsTheStore
    BY <1>1, <1>3 DEF MemoryFollowsTheStore
  <1> QED
    BY <1>1, <1>2, <1>4, <1>5, TypeInit
       DEF Coherent, NoLockKeptOverALiveDocument, NothingSettledWithoutADocument

LEMMA CoherentAlways == Spec => []Coherent
  <1>1. Init => Coherent
    BY CoherentInit
  <1>2. Coherent /\ [Next]_vars => Coherent'
    BY CoherentStep
  <1> QED
    BY <1>1, <1>2, PTL DEF Spec

\* The database's write lock is held between two requests only by a session on
\* a document that no longer exists.
THEOREM LockReleased == Spec => []NoLockKeptOverALiveDocument
  <1>1. Coherent => NoLockKeptOverALiveDocument
    BY DEF Coherent
  <1> QED
    BY <1>1, CoherentAlways, PTL

\* The session shows the ratings and notes the store holds, and it is never
\* behind the stored frontier.
THEOREM MemoryAgreesWithTheStore == Spec => []MemoryFollowsTheStore
  <1>1. Coherent => MemoryFollowsTheStore
    BY DEF Coherent
  <1> QED
    BY <1>1, CoherentAlways, PTL

\* As long as no log write was refused, no mark is stored on unsettled text.
THEOREM MarksOnSettledText == Spec => []MarksStayBehindTheFrontier
  <1>1. Coherent => MarksStayBehindTheFrontier
    BY DEF Coherent
  <1> QED
    BY <1>1, CoherentAlways, PTL


-----------------------------------------------------------------------------
(* The frontier *)

\* No row of reading_state loses settled text in a step.
RowsAdvance == \A x \in Docs : states'[x].high >= states[x].high

\* Rows that a step leaves alone lose nothing.
LEMMA RowsUnchanged ==
    ASSUME DatabaseTyped, UNCHANGED states
    PROVE  RowsAdvance
  <1> SUFFICES ASSUME NEW x \in Docs
               PROVE  states[x].high >= states[x].high
    BY DEF RowsAdvance
  <1>1. states[x] \in ReadingState
    BY DEF DatabaseTyped
  <1> QED
    BY <1>1 DEF ReadingState, Positions

\* Neither a recorded event nor a refused one takes a row's frontier back.
LEMMA WriteAdvances ==
    ASSUME DatabaseTyped,
           NEW d, NEW type \in EventTypes,
           NEW chunk \in Positions \cup {NoChunk}, NEW value \in MarkValues,
           NEW hooked \in BOOLEAN,
           Record(d, type, chunk, value, hooked) \/ Refused(d, type, chunk, value)
    PROVE  RowsAdvance
  <1>1. CASE UNCHANGED states
    BY <1>1, RowsUnchanged
  <1>2. CASE Record(d, type, chunk, value, hooked) /\ states' # states
    <2> DEFINE e == [id |-> lastId + 1, doc |-> d, type |-> type,
                     chunk |-> chunk, value |-> value]
    <2>1. /\ d \in Docs /\ e \in Events
          /\ states' = [states EXCEPT ![d] = ApplyEvent(states[d], e)]
      BY <1>2 DEF Record, DatabaseTyped, Events
    <2> HIDE DEF e
    <2>2. states \in [Docs -> ReadingState]
      BY DEF DatabaseTyped
    <2> SUFFICES ASSUME NEW x \in Docs
                 PROVE  states'[x].high >= states[x].high
      BY DEF RowsAdvance
    <2>3. CASE x = d
      <3>1. states'[x] = ApplyEvent(states[x], e) /\ states[x] \in ReadingState
        BY <2>1, <2>2, <2>3
      <3> QED
        BY <2>1, <3>1, ApplyEventMonotone
    <2>4. CASE x # d
      <3>1. states'[x] = states[x] /\ states[x] \in ReadingState
        BY <2>1, <2>2, <2>4
      <3> QED
        BY <3>1 DEF ReadingState, Positions
    <2> QED
      BY <2>3, <2>4
  <1>3. CASE Refused(d, type, chunk, value)
    BY <1>1, <1>3 DEF Refused, RejectedByForeignKey, RejectedAsBusy, database
  <1> QED
    BY <1>1, <1>2, <1>3

\* What one step may not do to the frontiers.
FrontierAdvances ==
    /\ \A d \in docs \cap docs' : states'[d].high >= states[d].high
    /\ reader'.doc = reader.doc /\ ~Restart => reader'.high >= reader.high

\* A step that takes no row back and leaves the session's frontier alone, or
\* leaves its document, takes no frontier back.
LEMMA AdvancesStep ==
    ASSUME TypeOK, RowsAdvance,
           reader'.doc = reader.doc => reader'.high = reader.high
    PROVE  FrontierAdvances
  <1>1. docs \subseteq Docs
    BY DEF TypeOK, DatabaseTyped
  <1>2. reader.high >= reader.high
    BY DEF TypeOK, MemoryTyped, Sessions, Positions
  <1> QED
    BY <1>1, <1>2 DEF FrontierAdvances, RowsAdvance

LEMMA FrontierStep ==
    ASSUME Coherent, Next
    PROVE  FrontierAdvances
  <1>a. /\ TypeOK /\ DatabaseTyped /\ reader \in Sessions
        /\ 0 \in Positions /\ Unmarked \in MarkValues /\ Hooked \in BOOLEAN
        /\ reader.current \in Positions
        /\ \A kind \in Kinds : Here(kind) \in MarkValues
        /\ MaxMark \in Nat /\ Positions \subseteq Int
    BY ReaderAssumption
       DEF Coherent, TypeOK, MemoryTyped, Sessions, Positions, MarkValues,
           Hooked, Here, Marks
  <1>b. EventTypes = {"reveal", "conceal", "rate_effort", "rate_clear",
                      "pin_set", "pin_clear", "note_set", "note_clear",
                      "open_document", "close_document"}
    BY DEF EventTypes
  <1>1. CASE RevealPaced
    <2> DEFINE next == reader.current + 1
    <2>1. next \in Positions
      <3>1. /\ TypeOK' /\ reader' \in Sessions
            /\ reader'.current = next
        BY <1>1, <1>a, TypeStep DEF TypeOK, MemoryTyped, RevealPaced, Sessions
      <3> QED
        BY <3>1 DEF Sessions
    <2>2. RowsAdvance
      <3>1. \/ Record(reader.doc, "reveal", next, Unmarked, Hooked)
            \/ Refused(reader.doc, "reveal", next, Unmarked)
        BY <1>1 DEF RevealPaced, Logs, FailsToLog
      <3> HIDE DEF next
      <3> QED
        BY <2>1, <3>1, <1>a, <1>b, WriteAdvances
    <2>3. reader'.high >= reader.high
      <3>1. \/ reader'.high = reader.high
            \/ reader'.high = next /\ next > reader.high
        <4>1. TryReveal(reader.current, reader.high, Total(reader.doc),
                        TokensNow(paid, since)) = "advanced_paid"
              => next > reader.high
          <5>1. reader.current \in Int /\ reader.high \in Int
            BY <1>a DEF Sessions
          <5>2. Total(reader.doc) \in Int
            BY <1>a, TotalBound DEF Sessions
          <5> QED
            BY <5>1, <5>2 DEF TryReveal
        <4> QED
          BY <1>1, <1>a, <4>1 DEF RevealPaced, Sessions
      <3>2. reader.high \in Int /\ next \in Int
        BY <1>a, <2>1 DEF Sessions
      <3> QED
        BY <3>1, <3>2
    <2>4. docs \subseteq Docs
      BY <1>a DEF DatabaseTyped
    <2> QED
      BY <2>2, <2>3, <2>4 DEF FrontierAdvances, RowsAdvance
  <1>2. CASE Conceal
    <2> DEFINE previous == reader.current - 1
    <2>1. previous \in Positions
      BY <1>2, <1>a, ReaderAssumption DEF Conceal, Positions
    <2>2. \/ Record(reader.doc, "conceal", previous, Unmarked, Hooked)
          \/ Refused(reader.doc, "conceal", previous, Unmarked)
      BY <1>2 DEF Conceal, Logs, FailsToLog
    <2>3. reader'.high = reader.high
      BY <1>2, <1>a DEF Conceal, Sessions
    <2> HIDE DEF previous
    <2>4. RowsAdvance
      BY <2>1, <2>2, <1>a, <1>b, WriteAdvances
    <2> QED
      BY <1>a, <2>3, <2>4, AdvancesStep
  <1>3. CASE RevealFreely \/ Return \/ ToggleFreeMode
    <2>1. reader'.high = reader.high /\ UNCHANGED states
      BY <1>3, <1>a DEF RevealFreely, Return, ToggleFreeMode, database, Sessions
    <2> QED
      BY <1>a, <2>1, RowsUnchanged, AdvancesStep
  <1>4. CASE \E p \in Positions : SetCurrentPosition(p)
    <2>1. reader'.high = reader.high /\ UNCHANGED states
      BY <1>4, <1>a DEF SetCurrentPosition, database, Sessions
    <2> QED
      BY <1>a, <2>1, RowsUnchanged, AdvancesStep
  <1>5. ASSUME NEW direction, NEW mode, JumpToPin(direction, mode)
        PROVE  FrontierAdvances
    <2>1. reader'.high = reader.high /\ UNCHANGED states
      BY <1>5, <1>a DEF JumpToPin, database, Sessions
    <2> QED
      BY <1>a, <2>1, RowsUnchanged, AdvancesStep
  <1>6. CASE Pin
    <2> DEFINE color == CyclePin(Here("pin"))
    <2>1. color \in MarkValues
      <3>1. Here("pin") \in MarkValues
        BY <1>a DEF Kinds
      <3> QED
        BY <3>1, <1>a DEF CyclePin, MarkValues
    <2>2. \/ Record(reader.doc, PinEvent, reader.current, color, Hooked)
          \/ Refused(reader.doc, PinEvent, reader.current, color)
      BY <1>6 DEF Pin, Logs, FailsToLog
    <2>3. PinEvent \in EventTypes
      BY DEF PinEvent, EventTypes
    <2> HIDE DEF color
    <2>4. RowsAdvance
      BY <2>1, <2>2, <2>3, <1>a, WriteAdvances
    <2> QED
      BY <1>6, <1>a, <2>4, AdvancesStep DEF Pin
  <1>7. ASSUME NEW kind, NEW value \in MarkValues, NEW type \in EventTypes,
               Mark(kind, type, value)
        PROVE  FrontierAdvances
    <2>1. \/ Record(reader.doc, type, reader.current, value, Hooked)
          \/ Refused(reader.doc, type, reader.current, value)
      BY <1>7 DEF Mark, Logs, FailsToLog
    <2>2. RowsAdvance
      BY <2>1, <1>7, <1>a, WriteAdvances
    <2> QED
      BY <1>7, <1>a, <2>2, AdvancesStep DEF Mark
  <1>8. ASSUME NEW d \in Docs, GetReader(d)
        PROVE  FrontierAdvances
    <2>1. \/ Record(d, "open_document", NoChunk, Unmarked, TRUE)
          \/ Refused(d, "open_document", NoChunk, Unmarked)
      BY <1>8 DEF GetReader
    <2>2. RowsAdvance
      BY <2>1, <1>a, <1>b, WriteAdvances
    <2>3. reader.doc = d => reader'.high = reader.high
      BY <1>8, <1>a DEF GetReader, Opens, DeepLinked, Sessions
    <2>4. reader.doc # d => reader'.doc = d
      BY <1>8 DEF GetReader, Opens, DeepLinked, Rebuilt
    <2> QED
      BY <1>a, <2>2, <2>3, <2>4, AdvancesStep
  <1>9. ASSUME NEW d \in Docs, Close(d)
        PROVE  FrontierAdvances
    <2>1. \/ Record(d, "close_document", NoChunk, Unmarked, Hooked)
          \/ Refused(d, "close_document", NoChunk, Unmarked)
      BY <1>9 DEF Close
    <2>2. RowsAdvance
      BY <2>1, <1>a, <1>b, WriteAdvances
    <2> QED
      BY <1>9, <1>a, <2>2, AdvancesStep DEF Close, memory
  <1>10. ASSUME NEW d \in Docs, DeleteRow(d)
         PROVE  FrontierAdvances
    <2>1. /\ docs' = docs \ {d} /\ reader' = reader
          /\ \A x \in Docs \ {d} : states'[x] = states[x]
      BY <1>10, <1>a DEF DeleteRow, memory, DatabaseTyped
    <2>2. \A x \in Docs : states[x].high >= states[x].high
      <3> TAKE x \in Docs
      <3>1. states[x] \in ReadingState
        BY <1>a DEF DatabaseTyped
      <3> QED
        BY <3>1 DEF ReadingState, Positions
    <2>3. reader.high >= reader.high
      BY <1>a DEF Sessions, Positions
    <2>4. docs \subseteq Docs
      BY <1>a DEF DatabaseTyped
    <2> QED
      BY <2>1, <2>2, <2>3, <2>4 DEF FrontierAdvances
  <1>11. CASE DeleteSwap
    <2>1. UNCHANGED states
      BY <1>11 DEF DeleteSwap, database
    <2>2. reader' = reader \/ (reader'.doc = NoDoc /\ reader'.high = 0)
      BY <1>11 DEF DeleteSwap, DropSession, EmptySession, memory
    <2>3. reader'.doc = reader.doc => reader'.high = reader.high
      BY <2>2 DEF Coherent, NothingSettledWithoutADocument
    <2> QED
      BY <1>a, <2>1, <2>3, RowsUnchanged, AdvancesStep
  <1>12. CASE Tick
    <2>1. UNCHANGED states /\ UNCHANGED reader
      BY <1>12 DEF Tick, database
    <2> QED
      BY <1>a, <2>1, RowsUnchanged, AdvancesStep
  <1>15. CASE Restart
    <2>1. RowsAdvance
      BY <1>a, <1>15, RowsUnchanged DEF Restart
    <2>2. docs \subseteq Docs
      BY <1>a DEF DatabaseTyped
    <2> QED
      BY <1>15, <2>1, <2>2 DEF FrontierAdvances, RowsAdvance
  <1>13. CASE Annotate
    <2>1. \A rating \in Ratings : Rate(rating) => FrontierAdvances
      BY <1>7, <1>b, ReaderAssumption DEF Rate, MarkValues
    <2>2. \A note \in Notes : SetNote(note) => FrontierAdvances
      BY <1>7, <1>b, ReaderAssumption DEF SetNote, MarkValues
    <2>3. Unrate \/ ClearNote => FrontierAdvances
      BY <1>7, <1>a, <1>b DEF Unrate, ClearNote
    <2> QED
      BY <1>6, <1>13, <2>1, <2>2, <2>3 DEF Annotate
  <1>14. CASE Navigate
    BY <1>1, <1>2, <1>3, <1>4, <1>5, <1>14 DEF Navigate
  <1> QED
    BY <1>8, <1>9, <1>10, <1>11, <1>12, <1>13, <1>14, <1>15 DEF Next

\* Settled text stays settled, whatever the requests, failures and restarts.
THEOREM FrontierOnlyAdvances == Spec => FrontierNeverRetreats
  <1>1. Coherent /\ [Next]_vars => [FrontierAdvances]_vars
    BY FrontierStep
  <1>2. Spec => [][FrontierAdvances]_vars
    BY <1>1, CoherentAlways, PTL DEF Spec
  <1> QED
    BY <1>2 DEF FrontierNeverRetreats, FrontierAdvances

-----------------------------------------------------------------------------
(* Replaying a set of events *)

\* Among some subsets of a finite set there is a smallest one.
LEMMA SmallestSet ==
    ASSUME NEW E, IsFiniteSet(E), NEW B \in SUBSET SUBSET E, B # {}
    PROVE  \E s \in B : \A t \in B : ~ (t \subseteq s /\ t # s)
  <1>1. B \subseteq FiniteSubsetsOf(E)
    BY FS_Subset DEF FiniteSubsetsOf
  <1>2. PICK s \in B : \A t \in B : ~ (<<t, s>> \in StrictSubsetOrdering(E))
    BY <1>1, FS_StrictSubsetOrderingWellFounded, WFMin
  <1> QED
    BY <1>2 DEF StrictSubsetOrdering

\* A finite set of events with different ids.
Chronicle(E) ==
    /\ IsFiniteSet(E)
    /\ E \subseteq Events
    /\ \A a, b \in E : a.id = b.id => a = b

LEMMA NewestIsLast ==
    ASSUME NEW E, Chronicle(E), NEW s \in SUBSET E, s # {}
    PROVE  Newest(s) \in s /\ \A other \in s : other.id <= Newest(s).id
  <1> DEFINE Last(t, e) == e \in t /\ \A other \in t : other.id <= e.id
             B == {t \in SUBSET E : t # {} /\ \A e \in t : ~ Last(t, e)}
  <1>1. \A e \in E : e.id \in Nat
    BY DEF Chronicle, Events
  <1>2. B = {}
    <2> SUFFICES ASSUME B # {} PROVE FALSE
      OBVIOUS
    <2>1. PICK t \in B : \A u \in B : ~ (u \subseteq t /\ u # t)
      <3>1. B \in SUBSET SUBSET E /\ IsFiniteSet(E)
        BY DEF Chronicle
      <3> HIDE DEF B
      <3> QED
        BY <3>1, SmallestSet
    <2>2. PICK x \in t : TRUE
      OBVIOUS
    <2> DEFINE u == t \ {x}
    <2>3. u \in SUBSET E /\ u \subseteq t /\ u # t
      BY <2>2
    <2>4. u = {} => Last(t, x)
      BY <1>1, <2>2
    <2>5. u # {} => \E y \in u : Last(u, y)
      BY <2>1, <2>3
    <2>6. \A y \in u : Last(u, y) => Last(t, y) \/ Last(t, x)
      BY <1>1, <2>2
    <2> QED
      BY <2>1, <2>2, <2>4, <2>5, <2>6
  <1>3. \E e \in s : \A other \in s : other.id <= e.id
    BY <1>2
  <1> QED
    BY <1>3 DEF Newest

\* f replays every set of events of E, one event with F.
IsReplay(f, F, ST, empty, E) ==
    /\ f \in [SUBSET E -> ST]
    /\ \A s \in SUBSET E :
          f[s] = IF s = {} THEN empty ELSE F[Newest(s)][f[s \ {Newest(s)}]]

LEMMA ReplayUnique ==
    ASSUME NEW F, NEW ST, NEW empty, NEW E, NEW G, NEW f, NEW g,
           Chronicle(E), E \subseteq G,
           IsReplay(f, F, ST, empty, E), IsReplay(g, F, ST, empty, G)
    PROVE  \A s \in SUBSET E : f[s] = g[s]
  <1> DEFINE B == {s \in SUBSET E : f[s] # g[s]}
  <1> SUFFICES ASSUME B # {} PROVE FALSE
    OBVIOUS
  <1>1. PICK s \in B : \A t \in B : ~ (t \subseteq s /\ t # s)
    <2>1. B \in SUBSET SUBSET E /\ IsFiniteSet(E)
      BY DEF Chronicle
    <2> HIDE DEF B
    <2> QED
      BY <2>1, SmallestSet
  <1>2. s # {}
    BY <1>1 DEF IsReplay
  <1> DEFINE x == Newest(s)
             t == s \ {x}
  <1>3. x \in s
    BY <1>1, <1>2, NewestIsLast
  <1>4. t \in SUBSET E /\ t \subseteq s /\ t # s
    BY <1>1, <1>3
  <1>5. f[t] = g[t]
    BY <1>1, <1>4
  <1>6. f[s] = F[x][f[t]] /\ g[s] = F[x][g[t]]
    BY <1>1, <1>2 DEF IsReplay
  <1> QED
    BY <1>1, <1>5, <1>6

LEMMA ReplayExists ==
    ASSUME NEW ST, NEW empty \in ST, NEW F \in [Events -> [ST -> ST]],
           NEW E, Chronicle(E)
    PROVE  \E f : IsReplay(f, F, ST, empty, E)
  <1> DEFINE B == {T \in SUBSET E : ~ \E f : IsReplay(f, F, ST, empty, T)}
  <1> SUFFICES ASSUME B # {} PROVE FALSE
    BY DEF Chronicle
  <1>1. PICK T \in B : \A u \in B : ~ (u \subseteq T /\ u # T)
    <2>1. B \in SUBSET SUBSET E /\ IsFiniteSet(E)
      BY DEF Chronicle
    <2> HIDE DEF B
    <2> QED
      BY <2>1, SmallestSet
  <1>2. T # {}
    <2>1. IsReplay([s \in SUBSET {} |-> empty], F, ST, empty, {})
      BY DEF IsReplay
    <2> QED
      BY <1>1, <2>1
  <1> DEFINE x == Newest(T)
             U == T \ {x}
  <1>3. x \in T /\ x \in Events /\ \A other \in T : other.id <= x.id
    BY <1>1, <1>2, NewestIsLast DEF Chronicle
  <1>4. U \in SUBSET E /\ U \subseteq T /\ U # T
    BY <1>1, <1>3
  <1>5. PICK g : IsReplay(g, F, ST, empty, U)
    BY <1>1, <1>4
  <1>6. \A s \in SUBSET T : x \in s => Newest(s) = x
    <2> SUFFICES ASSUME NEW s \in SUBSET T, x \in s PROVE Newest(s) = x
      OBVIOUS
    <2>1. Newest(s) \in s /\ \A other \in s : other.id <= Newest(s).id
      BY <1>1, NewestIsLast
    <2>2. x.id <= Newest(s).id /\ Newest(s).id <= x.id
      BY <1>3, <2>1
    <2>3. x.id \in Nat /\ Newest(s).id \in Nat /\ x \in E /\ Newest(s) \in E
      BY <1>1, <1>3, <2>1 DEF Chronicle, Events
    <2>4. x.id = Newest(s).id
      BY <2>2, <2>3
    <2> QED
      BY <2>3, <2>4 DEF Chronicle
  <1> HIDE DEF x
  <1> DEFINE f == [s \in SUBSET T |-> IF x \in s THEN F[x][g[s \ {x}]] ELSE g[s]]
  <1>7. \A s \in SUBSET T : /\ x \in s => s \ {x} \in SUBSET U
                            /\ x \notin s => s \in SUBSET U
    OBVIOUS
  <1>8. \A s \in SUBSET U : g[s] \in ST
    BY <1>5 DEF IsReplay
  <1>9. \A v \in ST : F[x][v] \in ST
    BY <1>3
  <1>10. f \in [SUBSET T -> ST]
    BY <1>7, <1>8, <1>9
  <1>11. \A s \in SUBSET U : s \in SUBSET T /\ f[s] = g[s]
    OBVIOUS
  <1>12. ASSUME NEW s \in SUBSET T
         PROVE  f[s] = IF s = {} THEN empty ELSE F[Newest(s)][f[s \ {Newest(s)}]]
    <2>1. CASE x \in s
      <3>1. s # {} /\ Newest(s) = x /\ s \ {x} \in SUBSET U
        BY <1>6, <1>7, <2>1
      <3>2. f[s] = F[x][g[s \ {x}]]
        BY <2>1
      <3> HIDE DEF f
      <3> QED
        BY <1>11, <3>1, <3>2
    <2>2. CASE x \notin s
      <3>1. s \in SUBSET U /\ f[s] = g[s]
        BY <1>7, <1>11, <2>2
      <3>2. s \ {Newest(s)} \in SUBSET U
        BY <3>1
      <3> HIDE DEF f
      <3> QED
        BY <1>5, <1>11, <3>1, <3>2 DEF IsReplay
    <2> QED
      BY <2>1, <2>2
  <1> HIDE DEF f
  <1>13. IsReplay(f, F, ST, empty, T)
    BY <1>10, <1>12 DEF IsReplay
  <1> QED
    BY <1>1, <1>13


\* e comes after all of E.
Follows(e, E) == e \notin E /\ \A other \in E : other.id < e.id

LEMMA ReplayGrows ==
    ASSUME NEW ST, NEW empty \in ST, NEW F \in [Events -> [ST -> ST]],
           NEW E, NEW e, NEW f, NEW g, Chronicle(E \cup {e}), Follows(e, E),
           IsReplay(f, F, ST, empty, E), IsReplay(g, F, ST, empty, E \cup {e})
    PROVE  g[E \cup {e}] = F[e][f[E]]
  <1> DEFINE G == E \cup {e}
  <1>1. Chronicle(E) /\ E \subseteq G
    BY FS_Subset DEF Chronicle
  <1>2. f[E] = g[E]
    <2>1. IsReplay(f, F, ST, empty, E) /\ IsReplay(g, F, ST, empty, G)
      OBVIOUS
    <2> HIDE DEF G
    <2>2. \A s \in SUBSET E : f[s] = g[s]
      BY ONLY <1>1, <2>1, ReplayUnique
    <2> QED
      BY <2>2
  <1>3. Newest(G) = e
    <2>1. Newest(G) \in G /\ \A other \in G : other.id <= Newest(G).id
      <3>1. G \in SUBSET G /\ G # {} /\ Chronicle(G)
        OBVIOUS
      <3> HIDE DEF G
      <3> QED
        BY <3>1, NewestIsLast
    <2>2. \A a \in G : a.id \in Nat
      BY DEF Chronicle, Events
    <2>3. e.id <= Newest(G).id
      BY <2>1
    <2>4. ASSUME Newest(G) # e PROVE FALSE
      <3>1. Newest(G) \in E
        BY <2>1, <2>4
      <3>2. Newest(G).id < e.id
        BY <3>1 DEF Follows
      <3>3. Newest(G).id \in Nat /\ e.id \in Nat
        BY <2>1, <2>2
      <3> QED
        BY <2>3, <3>2, <3>3
    <2> QED
      BY <2>4
  <1>4. G \ {e} = E /\ G # {} /\ G \in SUBSET G
    BY DEF Follows
  <1> HIDE DEF G
  <1>5. g[G] = F[Newest(G)][g[G \ {Newest(G)}]]
    BY <1>4 DEF IsReplay, G
  <1> QED
    BY <1>2, <1>3, <1>4, <1>5 DEF G

-----------------------------------------------------------------------------
(* What a rebuild computes *)

\* The rebuilt row and the rebuilt marks of a set of events.
RowOf(E) == Replay(ApplyEvent, EmptyReadingState, E)
MarksOf(E) == Replay(ApplyMarks, NoMarks, E)

\* Lifecycle events have no chunk, so a row is looser than ReadingState.
Rows == [high : Int, current : Int, last : Nat]

RowStep == [e \in Events |-> [row \in Rows |-> ApplyEvent(row, e)]]
MarksStep == [e \in Events |-> [m \in Marks |-> ApplyMarks(m, e)]]

LEMMA RowStepTyped ==
    /\ EmptyReadingState \in Rows
    /\ RowStep \in [Events -> [Rows -> Rows]]
    /\ \A e \in Events, row \in Rows : RowStep[e][row] = ApplyEvent(row, e)
  <1>1. \A e \in Events, row \in Rows : ApplyEvent(row, e) \in Rows
    BY DEF ApplyEvent, Events, Rows, Positions, NoChunk
  <1>2. RowStep \in [Events -> [Rows -> Rows]]
    BY <1>1 DEF RowStep
  <1>3. \A e \in Events, row \in Rows : RowStep[e][row] = ApplyEvent(row, e)
    BY DEF RowStep
  <1>4. EmptyReadingState \in Rows
    BY DEF EmptyReadingState, Rows
  <1> QED
    BY <1>2, <1>3, <1>4

LEMMA MarksStepTyped ==
    /\ NoMarks \in Marks
    /\ MarksStep \in [Events -> [Marks -> Marks]]
    /\ \A e \in Events, m \in Marks : MarksStep[e][m] = ApplyMarks(m, e)
  <1>1. \A e \in Events, m \in Marks : ApplyMarks(m, e) \in Marks
    BY ApplyMarksTyped
  <1>2. MarksStep \in [Events -> [Marks -> Marks]]
    BY <1>1 DEF MarksStep
  <1>3. \A e \in Events, m \in Marks : MarksStep[e][m] = ApplyMarks(m, e)
    BY DEF MarksStep
  <1>4. NoMarks \in Marks
    <2>1. 0 \in MarkValues
      BY ReaderAssumption DEF MarkValues
    <2> QED
      BY <2>1 DEF NoMarks, Marks
  <1> QED
    BY <1>2, <1>3, <1>4

LEMMA RowOfReplays ==
    ASSUME NEW E, Chronicle(E)
    PROVE  \E f : IsReplay(f, RowStep, Rows, EmptyReadingState, E) /\ RowOf(E) = f[E]
  <1> DEFINE Body(f) == [s \in SUBSET E |->
               IF s = {} THEN EmptyReadingState
               ELSE ApplyEvent(f[s \ {Newest(s)}], Newest(s))]
             g == CHOOSE f : f = Body(f)
  <1>1. RowOf(E) = g[E]
    BY DEF RowOf, Replay, MapThenFoldSet
  <1>2. PICK f : IsReplay(f, RowStep, Rows, EmptyReadingState, E)
    BY RowStepTyped, ReplayExists
  <1>3. \A s \in SUBSET E : s # {} =>
           /\ Newest(s) \in s /\ Newest(s) \in Events
           /\ s \ {Newest(s)} \in SUBSET E /\ s \ {Newest(s)} # s
           /\ f[s \ {Newest(s)}] \in Rows
           /\ f[s] = ApplyEvent(f[s \ {Newest(s)}], Newest(s))
    <2> SUFFICES ASSUME NEW s \in SUBSET E, s # {}
                 PROVE  /\ Newest(s) \in s /\ Newest(s) \in Events
                        /\ s \ {Newest(s)} \in SUBSET E /\ s \ {Newest(s)} # s
                        /\ f[s \ {Newest(s)}] \in Rows
                        /\ f[s] = ApplyEvent(f[s \ {Newest(s)}], Newest(s))
      OBVIOUS
    <2>1. Newest(s) \in s /\ Newest(s) \in Events
      BY NewestIsLast DEF Chronicle
    <2>2. s \ {Newest(s)} \in SUBSET E /\ s \ {Newest(s)} # s
      BY <2>1
    <2>3. f[s \ {Newest(s)}] \in Rows
      BY <1>2, <2>2 DEF IsReplay
    <2>4. f[s] = RowStep[Newest(s)][f[s \ {Newest(s)}]]
      BY <1>2 DEF IsReplay
    <2> QED
      BY <2>1, <2>2, <2>3, <2>4, RowStepTyped
  <1>4. f = Body(f)
    <2>1. f \in [SUBSET E -> Rows] /\ f[{}] = EmptyReadingState
      BY <1>2 DEF IsReplay
    <2> QED
      BY <1>3, <2>1
  <1>5. g = Body(g)
    BY <1>4
  <1> HIDE DEF g
  <1>6. \A s \in SUBSET E : g[s] = IF s = {} THEN EmptyReadingState
                                    ELSE ApplyEvent(g[s \ {Newest(s)}], Newest(s))
    BY <1>5
  <1> HIDE DEF Body
  <1> DEFINE B == {s \in SUBSET E : f[s] # g[s]}
  <1>7. B = {}
    <2> SUFFICES ASSUME B # {} PROVE FALSE
      OBVIOUS
    <2>1. PICK s \in B : \A t \in B : ~ (t \subseteq s /\ t # s)
      <3>1. B \in SUBSET SUBSET E /\ IsFiniteSet(E)
        BY DEF Chronicle
      <3> HIDE DEF B
      <3> QED
        BY <3>1, SmallestSet
    <2>2. s # {}
      BY <1>2, <1>6, <2>1 DEF IsReplay
    <2> DEFINE t == s \ {Newest(s)}
    <2>3. t \in SUBSET E /\ t \subseteq s /\ t # s
      BY <1>3, <2>1, <2>2
    <2>4. f[t] = g[t]
      BY <2>1, <2>3
    <2>5. f[s] = ApplyEvent(f[t], Newest(s)) /\ g[s] = ApplyEvent(g[t], Newest(s))
      BY <1>3, <1>6, <2>1, <2>2
    <2> QED
      BY <2>1, <2>4, <2>5
  <1>8. f[E] = g[E]
    BY <1>7
  <1> QED
    BY <1>1, <1>2, <1>8

\* The rebuilt row of no events is empty; one more event is applied last.
LEMMA RowsFollow ==
    /\ RowOf({}) = EmptyReadingState
    /\ \A E : Chronicle(E) => RowOf(E) \in Rows
    /\ \A E, e : Chronicle(E \cup {e}) /\ Follows(e, E)
                   => RowOf(E \cup {e}) = ApplyEvent(RowOf(E), e)
  <1>1. RowOf({}) = EmptyReadingState
    <2>1. Chronicle({})
      BY FS_EmptySet DEF Chronicle
    <2>2. PICK f : IsReplay(f, RowStep, Rows, EmptyReadingState, {}) /\ RowOf({}) = f[{}]
      BY <2>1, RowOfReplays
    <2> QED
      BY <2>2 DEF IsReplay
  <1>2. ASSUME NEW E, Chronicle(E) PROVE RowOf(E) \in Rows
    <2>1. PICK f : IsReplay(f, RowStep, Rows, EmptyReadingState, E) /\ RowOf(E) = f[E]
      BY <1>2, RowOfReplays
    <2> QED
      BY <2>1 DEF IsReplay
  <1>3. ASSUME NEW E, NEW e, Chronicle(E \cup {e}), Follows(e, E)
        PROVE  RowOf(E \cup {e}) = ApplyEvent(RowOf(E), e)
    <2>1. Chronicle(E) /\ e \in Events
      BY <1>3, FS_Subset DEF Chronicle
    <2>2. PICK f : IsReplay(f, RowStep, Rows, EmptyReadingState, E) /\ RowOf(E) = f[E]
      BY <2>1, RowOfReplays
    <2>3. PICK g : /\ IsReplay(g, RowStep, Rows, EmptyReadingState, E \cup {e})
                   /\ RowOf(E \cup {e}) = g[E \cup {e}]
      BY <1>3, RowOfReplays
    <2>4. g[E \cup {e}] = RowStep[e][f[E]]
      <3>1. /\ EmptyReadingState \in Rows /\ RowStep \in [Events -> [Rows -> Rows]]
            /\ Chronicle(E \cup {e}) /\ Follows(e, E)
            /\ IsReplay(f, RowStep, Rows, EmptyReadingState, E)
            /\ IsReplay(g, RowStep, Rows, EmptyReadingState, E \cup {e})
        BY <1>3, <2>2, <2>3, RowStepTyped
      <3> QED
        BY ONLY <3>1, ReplayGrows
    <2>5. f[E] \in Rows
      BY <2>2 DEF IsReplay
    <2> QED
      BY <2>1, <2>2, <2>3, <2>4, <2>5, RowStepTyped
  <1> QED
    BY <1>1, <1>2, <1>3

LEMMA MarksOfReplays ==
    ASSUME NEW E, Chronicle(E)
    PROVE  \E f : IsReplay(f, MarksStep, Marks, NoMarks, E) /\ MarksOf(E) = f[E]
  <1> DEFINE Body(f) == [s \in SUBSET E |->
               IF s = {} THEN NoMarks
               ELSE ApplyMarks(f[s \ {Newest(s)}], Newest(s))]
             g == CHOOSE f : f = Body(f)
  <1>1. MarksOf(E) = g[E]
    BY DEF MarksOf, Replay, MapThenFoldSet
  <1>2. PICK f : IsReplay(f, MarksStep, Marks, NoMarks, E)
    BY MarksStepTyped, ReplayExists
  <1>3. \A s \in SUBSET E : s # {} =>
           /\ Newest(s) \in s /\ Newest(s) \in Events
           /\ s \ {Newest(s)} \in SUBSET E /\ s \ {Newest(s)} # s
           /\ f[s \ {Newest(s)}] \in Marks
           /\ f[s] = ApplyMarks(f[s \ {Newest(s)}], Newest(s))
    <2> SUFFICES ASSUME NEW s \in SUBSET E, s # {}
                 PROVE  /\ Newest(s) \in s /\ Newest(s) \in Events
                        /\ s \ {Newest(s)} \in SUBSET E /\ s \ {Newest(s)} # s
                        /\ f[s \ {Newest(s)}] \in Marks
                        /\ f[s] = ApplyMarks(f[s \ {Newest(s)}], Newest(s))
      OBVIOUS
    <2>1. Newest(s) \in s /\ Newest(s) \in Events
      BY NewestIsLast DEF Chronicle
    <2>2. s \ {Newest(s)} \in SUBSET E /\ s \ {Newest(s)} # s
      BY <2>1
    <2>3. f[s \ {Newest(s)}] \in Marks
      BY <1>2, <2>2 DEF IsReplay
    <2>4. f[s] = MarksStep[Newest(s)][f[s \ {Newest(s)}]]
      BY <1>2 DEF IsReplay
    <2> QED
      BY <2>1, <2>2, <2>3, <2>4, MarksStepTyped
  <1>4. f = Body(f)
    <2>1. f \in [SUBSET E -> Marks] /\ f[{}] = NoMarks
      BY <1>2 DEF IsReplay
    <2> QED
      BY <1>3, <2>1
  <1>5. g = Body(g)
    BY <1>4
  <1> HIDE DEF g
  <1>6. \A s \in SUBSET E : g[s] = IF s = {} THEN NoMarks
                                    ELSE ApplyMarks(g[s \ {Newest(s)}], Newest(s))
    BY <1>5
  <1> HIDE DEF Body
  <1> DEFINE B == {s \in SUBSET E : f[s] # g[s]}
  <1>7. B = {}
    <2> SUFFICES ASSUME B # {} PROVE FALSE
      OBVIOUS
    <2>1. PICK s \in B : \A t \in B : ~ (t \subseteq s /\ t # s)
      <3>1. B \in SUBSET SUBSET E /\ IsFiniteSet(E)
        BY DEF Chronicle
      <3> HIDE DEF B
      <3> QED
        BY <3>1, SmallestSet
    <2>2. s # {}
      BY <1>2, <1>6, <2>1 DEF IsReplay
    <2> DEFINE t == s \ {Newest(s)}
    <2>3. t \in SUBSET E /\ t \subseteq s /\ t # s
      BY <1>3, <2>1, <2>2
    <2>4. f[t] = g[t]
      BY <2>1, <2>3
    <2>5. f[s] = ApplyMarks(f[t], Newest(s)) /\ g[s] = ApplyMarks(g[t], Newest(s))
      BY <1>3, <1>6, <2>1, <2>2
    <2> QED
      BY <2>1, <2>4, <2>5
  <1>8. f[E] = g[E]
    BY <1>7
  <1> QED
    BY <1>1, <1>2, <1>8

\* So do the rebuilt marks.
LEMMA MarksFollow ==
    /\ MarksOf({}) = NoMarks
    /\ \A E : Chronicle(E) => MarksOf(E) \in Marks
    /\ \A E, e : Chronicle(E \cup {e}) /\ Follows(e, E)
                   => MarksOf(E \cup {e}) = ApplyMarks(MarksOf(E), e)
  <1>1. MarksOf({}) = NoMarks
    <2>1. Chronicle({})
      BY FS_EmptySet DEF Chronicle
    <2>2. PICK f : IsReplay(f, MarksStep, Marks, NoMarks, {}) /\ MarksOf({}) = f[{}]
      BY <2>1, MarksOfReplays
    <2> QED
      BY <2>2 DEF IsReplay
  <1>2. ASSUME NEW E, Chronicle(E) PROVE MarksOf(E) \in Marks
    <2>1. PICK f : IsReplay(f, MarksStep, Marks, NoMarks, E) /\ MarksOf(E) = f[E]
      BY <1>2, MarksOfReplays
    <2> QED
      BY <2>1 DEF IsReplay
  <1>3. ASSUME NEW E, NEW e, Chronicle(E \cup {e}), Follows(e, E)
        PROVE  MarksOf(E \cup {e}) = ApplyMarks(MarksOf(E), e)
    <2>1. Chronicle(E) /\ e \in Events
      BY <1>3, FS_Subset DEF Chronicle
    <2>2. PICK f : IsReplay(f, MarksStep, Marks, NoMarks, E) /\ MarksOf(E) = f[E]
      BY <2>1, MarksOfReplays
    <2>3. PICK g : /\ IsReplay(g, MarksStep, Marks, NoMarks, E \cup {e})
                   /\ MarksOf(E \cup {e}) = g[E \cup {e}]
      BY <1>3, MarksOfReplays
    <2>4. g[E \cup {e}] = MarksStep[e][f[E]]
      <3>1. /\ NoMarks \in Marks /\ MarksStep \in [Events -> [Marks -> Marks]]
            /\ Chronicle(E \cup {e}) /\ Follows(e, E)
            /\ IsReplay(f, MarksStep, Marks, NoMarks, E)
            /\ IsReplay(g, MarksStep, Marks, NoMarks, E \cup {e})
        BY <1>3, <2>2, <2>3, MarksStepTyped
      <3> QED
        BY ONLY <3>1, ReplayGrows
    <2>5. f[E] \in Marks
      BY <2>2 DEF IsReplay
    <2> QED
      BY <2>1, <2>2, <2>3, <2>4, <2>5, MarksStepTyped
  <1> QED
    BY <1>1, <1>2, <1>3

-----------------------------------------------------------------------------
(* The projections follow the log *)

\* A document's row and marks are what its events rebuild.  A document that is
\* gone has no events, and nothing of it is left.
Follow(d) ==
    /\ states[d].high = RowOf(EventsFor(log, d)).high
    /\ states[d].current = RowOf(EventsFor(log, d)).current
    /\ saved[d] = MarksOf(EventsFor(log, d))

Ledger ==
    /\ Chronicle(log)
    /\ \A e \in log : e.id <= lastId /\ e.doc \in docs
    /\ \A d \in Docs : Follow(d)

LEMMA EventsAreAChronicle ==
    ASSUME NEW E, Chronicle(E), NEW d
    PROVE  Chronicle(EventsFor(E, d))
  <1>1. EventsFor(E, d) \subseteq E
    BY DEF EventsFor
  <1> QED
    BY <1>1, FS_Subset DEF Chronicle

\* An event that is recorded is applied last by every later rebuild.
LEMMA RecordFollows ==
    ASSUME TypeOK, TypeOK', Ledger,
           NEW x, NEW type, NEW chunk, NEW value, NEW hooked \in BOOLEAN,
           hooked \/ type = "close_document",
           Record(x, type, chunk, value, hooked)
    PROVE  Ledger'
  <1> DEFINE e == [id |-> lastId + 1, doc |-> x, type |-> type, chunk |-> chunk,
                   value |-> value]
  <1>1. /\ x \in docs /\ log' = log \cup {e} /\ lastId' = lastId + 1
        /\ states' = IF hooked THEN [states EXCEPT ![x] = ApplyEvent(states[x], e)]
                     ELSE states
        /\ saved' = IF hooked THEN [saved EXCEPT ![x] = ApplyMarks(saved[x], e)]
                    ELSE saved
        /\ docs' = docs
    BY DEF Record
  <1>2. /\ lastId \in Nat /\ log \subseteq Events /\ states \in [Docs -> ReadingState]
        /\ saved \in [Docs -> Marks] /\ docs \subseteq Docs /\ e \in Events
    BY <1>1 DEF TypeOK, DatabaseTyped
  <1>3. e.id = lastId + 1 /\ e.doc = x /\ e.type = type
    OBVIOUS
  <1> HIDE DEF e
  <1>4. \A f \in log : f.id < e.id /\ f.id \in Nat /\ f.doc \in docs
    BY <1>2, <1>3 DEF Ledger, Events
  <1>5. e \notin log
    BY <1>2, <1>3, <1>4
  <1>6. Chronicle(log')
    <2>1. IsFiniteSet(log')
      BY <1>1, FS_AddElement DEF Ledger, Chronicle
    <2>2. log' \subseteq Events
      BY <1>1, <1>2
    <2>3. \A a, b \in log' : a.id = b.id => a = b
      <3>1. \A a, b \in log : a.id = b.id => a = b
        BY DEF Ledger, Chronicle
      <3>2. \A a \in log : a.id # e.id
        BY <1>2, <1>3, <1>4
      <3> QED
        BY <1>1, <3>1, <3>2
    <2> QED
      BY <2>1, <2>2, <2>3 DEF Chronicle
  <1>7. \A f \in log' : f.id <= lastId' /\ f.doc \in docs'
    BY <1>1, <1>2, <1>3, <1>4
  <1>8. ASSUME NEW d \in Docs, d # x PROVE Follow(d)'
    <2>1. EventsFor(log', d) = EventsFor(log, d)
      BY <1>1, <1>3, <1>8 DEF EventsFor
    <2>2. states'[d] = states[d] /\ saved'[d] = saved[d]
      BY <1>1, <1>2, <1>8
    <2>3. Follow(d)
      BY DEF Ledger
    <2> QED
      BY <2>1, <2>2, <2>3 DEF Follow
  <1>9. Follow(x)'
    <2> DEFINE E == EventsFor(log, x)
    <2>1. x \in Docs /\ Follow(x)
      BY <1>1, <1>2 DEF Ledger
    <2>2. EventsFor(log', x) = E \cup {e}
      BY <1>1, <1>3 DEF EventsFor
    <2>3. Chronicle(E)
      BY EventsAreAChronicle DEF Ledger
    <2>4. Chronicle(E \cup {e})
      BY <1>6, <2>2, EventsAreAChronicle
    <2>5. Follows(e, E)
      BY <1>4, <1>5 DEF Follows, EventsFor
    <2>6. states[x].high = RowOf(E).high /\ states[x].current = RowOf(E).current
          /\ saved[x] = MarksOf(E)
      BY <2>1 DEF Follow
    <2> HIDE DEF E
    <2>7. RowOf(E \cup {e}) = ApplyEvent(RowOf(E), e)
      BY ONLY <2>4, <2>5, RowsFollow
    <2>8. MarksOf(E \cup {e}) = ApplyMarks(MarksOf(E), e)
      BY ONLY <2>4, <2>5, MarksFollow
    <2>9. MarksOf(E) \in Marks
      BY ONLY <2>3, MarksFollow
    <2>10. CASE hooked
      <3>1. states'[x] = ApplyEvent(states[x], e) /\ saved'[x] = ApplyMarks(saved[x], e)
        BY <1>1, <1>2, <2>1, <2>10
      <3>2. /\ ApplyEvent(states[x], e).high = ApplyEvent(RowOf(E), e).high
            /\ ApplyEvent(states[x], e).current = ApplyEvent(RowOf(E), e).current
        BY <2>6 DEF ApplyEvent
      <3> QED
        BY <2>2, <2>6, <2>7, <2>8, <3>1, <3>2 DEF Follow
    <2>11. CASE ~ hooked
      <3>1. e.type = "close_document"
        BY <1>3, <2>11
      <3>2. /\ ApplyEvent(RowOf(E), e).high = RowOf(E).high
            /\ ApplyEvent(RowOf(E), e).current = RowOf(E).current
        BY <3>1 DEF ApplyEvent
      <3>3. ApplyMarks(MarksOf(E), e) = MarksOf(E)
        BY <2>9, <3>1 DEF ApplyMarks, Latest, SetType, ClearType, Kinds, Marks
      <3>4. states'[x] = states[x] /\ saved'[x] = saved[x]
        BY <1>1, <2>11
      <3> QED
        BY <2>2, <2>6, <2>7, <2>8, <3>2, <3>3, <3>4 DEF Follow
    <2> QED
      BY <2>10, <2>11
  <1>10. \A d \in Docs : Follow(d)'
    BY <1>8, <1>9
  <1> QED
    BY <1>6, <1>7, <1>10 DEF Ledger

LEMMA UntouchedLedger ==
    ASSUME Ledger, UNCHANGED <<docs, log, lastId, states, saved>>
    PROVE  Ledger'
  BY DEF Ledger, Follow

\* An append, granted or refused.
LEMMA WrittenLedger ==
    ASSUME TypeOK, TypeOK', Ledger,
           NEW x, NEW type, NEW chunk, NEW value, NEW hooked \in BOOLEAN,
           hooked \/ type = "close_document",
           Record(x, type, chunk, value, hooked) \/ Refused(x, type, chunk, value)
    PROVE  Ledger'
  <1>1. CASE Record(x, type, chunk, value, hooked)
    BY <1>1, RecordFollows
  <1>2. CASE Refused(x, type, chunk, value)
    <2>1. UNCHANGED <<docs, log, lastId, states, saved>>
      BY <1>2 DEF Refused, RejectedByForeignKey, RejectedAsBusy, database
    <2> QED
      BY <2>1, UntouchedLedger
  <1> QED
    BY <1>1, <1>2

\* An append for the document of the session.  A session that can append has
\* a document, so its log has the projection hook.
LEMMA LoggedLedger ==
    ASSUME TypeOK, TypeOK', Ledger, NEW type, NEW chunk, NEW value,
           Logs(type, chunk, value) \/ FailsToLog(type, chunk, value)
    PROVE  Ledger'
  <1>1. CASE Logs(type, chunk, value)
    <2>1. Record(reader.doc, type, chunk, value, Hooked)
      BY <1>1 DEF Logs
    <2>2. reader.doc \in docs /\ docs \subseteq Docs
      BY <2>1 DEF Record, TypeOK, DatabaseTyped
    <2>3. Hooked = TRUE
      BY <2>2, ReaderAssumption DEF Hooked
    <2>4. Record(reader.doc, type, chunk, value, TRUE)
      BY <2>1, <2>3
    <2> QED
      BY <2>4, RecordFollows
  <1>2. CASE FailsToLog(type, chunk, value)
    <2>1. Refused(reader.doc, type, chunk, value)
      BY <1>2 DEF FailsToLog
    <2> QED
      BY <2>1, WrittenLedger
  <1> QED
    BY <1>1, <1>2

LEMMA DeleteRowLedger ==
    ASSUME TypeOK, Ledger, NEW x \in Docs, DeleteRow(x)
    PROVE  Ledger'
  <1>1. /\ docs' = docs \ {x} /\ log' = {e \in log : e.doc # x}
        /\ states' = [states EXCEPT ![x] = EmptyReadingState]
        /\ saved' = [saved EXCEPT ![x] = NoMarks] /\ lastId' = lastId
    BY DEF DeleteRow
  <1>2. Chronicle(log')
    BY <1>1, FS_Subset DEF Ledger, Chronicle
  <1>3. \A e \in log' : e.id <= lastId' /\ e.doc \in docs'
    BY <1>1 DEF Ledger
  <1>4. states \in [Docs -> ReadingState] /\ saved \in [Docs -> Marks]
    BY DEF TypeOK, DatabaseTyped
  <1>5. ASSUME NEW d \in Docs, d # x PROVE Follow(d)'
    <2>1. EventsFor(log', d) = EventsFor(log, d)
      BY <1>1, <1>5 DEF EventsFor
    <2>2. states'[d] = states[d] /\ saved'[d] = saved[d]
      BY <1>1, <1>4, <1>5
    <2>3. Follow(d)
      BY DEF Ledger
    <2> QED
      BY <2>1, <2>2, <2>3 DEF Follow
  <1>6. Follow(x)'
    <2>1. EventsFor(log', x) = {}
      BY <1>1 DEF EventsFor
    <2>2. states'[x] = EmptyReadingState /\ saved'[x] = NoMarks
      BY <1>1, <1>4
    <2> QED
      BY <2>1, <2>2, RowsFollow, MarksFollow DEF Follow
  <1> QED
    BY <1>2, <1>3, <1>5, <1>6 DEF Ledger

LEMMA LedgerStep ==
    ASSUME TypeOK, TypeOK', Ledger, [Next]_vars
    PROVE  Ledger'
  <1> USE DEF database
  <1>1. CASE RevealPaced
    <2>1. \E chunk : Logs("reveal", chunk, 0) \/ FailsToLog("reveal", chunk, 0)
      BY <1>1 DEF RevealPaced
    <2> QED
      BY <2>1, LoggedLedger
  <1>2. CASE Conceal
    <2>1. \E chunk : Logs("conceal", chunk, 0) \/ FailsToLog("conceal", chunk, 0)
      BY <1>2 DEF Conceal
    <2> QED
      BY <2>1, LoggedLedger
  <1>3. CASE RevealFreely \/ Return \/ ToggleFreeMode
    BY <1>3, UntouchedLedger DEF RevealFreely, Return, ToggleFreeMode
  <1>4. ASSUME NEW p \in Positions, SetCurrentPosition(p) PROVE Ledger'
    BY <1>4, UntouchedLedger DEF SetCurrentPosition
  <1>5. ASSUME NEW direction, NEW mode, JumpToPin(direction, mode) PROVE Ledger'
    BY <1>5, UntouchedLedger DEF JumpToPin
  <1>6. CASE Navigate
    BY <1>1, <1>2, <1>3, <1>4, <1>5, <1>6 DEF Navigate
  <1>7. CASE Pin
    <2>1. \E value : Logs(PinEvent, reader.current, value)
                     \/ FailsToLog(PinEvent, reader.current, value)
      BY <1>7 DEF Pin
    <2> QED
      BY <2>1, LoggedLedger
  <1>8. ASSUME NEW kind, NEW type, NEW value, Mark(kind, type, value) PROVE Ledger'
    <2>1. Logs(type, reader.current, value) \/ FailsToLog(type, reader.current, value)
      BY <1>8 DEF Mark
    <2> QED
      BY <2>1, LoggedLedger
  <1>9. CASE Annotate
    BY <1>7, <1>8, <1>9 DEF Annotate, Unrate, ClearNote, Rate, SetNote
  <1>10. ASSUME NEW d \in Docs, GetReader(d) PROVE Ledger'
    <2>1. \/ Record(d, "open_document", NoChunk, Unmarked, TRUE)
          \/ Refused(d, "open_document", NoChunk, Unmarked)
      BY <1>10 DEF GetReader
    <2> QED
      BY <2>1, WrittenLedger
  <1>11. ASSUME NEW d \in Docs, Close(d) PROVE Ledger'
    <2>1. \/ Record(d, "close_document", NoChunk, Unmarked, Hooked)
          \/ Refused(d, "close_document", NoChunk, Unmarked)
      BY <1>11 DEF Close
    <2>2. Hooked \in BOOLEAN
      BY DEF Hooked
    <2> QED
      BY <2>1, <2>2, WrittenLedger
  <1>12. ASSUME NEW d \in Docs, DeleteRow(d) PROVE Ledger'
    BY <1>12, DeleteRowLedger
  <1>13. CASE DeleteSwap \/ Tick \/ UNCHANGED vars
    BY <1>13, UntouchedLedger DEF DeleteSwap, Tick, vars
  <1>14. CASE Restart
    <2>1. UNCHANGED <<log, lastId, states, saved>> /\ docs' = docs \cup {Welcome}
      BY <1>14 DEF Restart
    <2> QED
      BY <2>1 DEF Ledger, Follow
  <1> QED
    BY <1>6, <1>9, <1>10, <1>11, <1>12, <1>13, <1>14 DEF Next

LEMMA LedgerInit == Init => Ledger
  <1> SUFFICES ASSUME Init PROVE Ledger
    OBVIOUS
  <1>1. log = {} /\ states = [d \in Docs |-> EmptyReadingState]
        /\ saved = [d \in Docs |-> NoMarks]
    BY DEF Init
  <1>2. Chronicle(log)
    BY <1>1, FS_EmptySet DEF Chronicle
  <1>3. \A d \in Docs : EventsFor(log, d) = {}
    BY <1>1 DEF EventsFor
  <1>4. \A d \in Docs : Follow(d)
    BY <1>1, <1>3, RowsFollow, MarksFollow DEF Follow
  <1> QED
    BY <1>1, <1>2, <1>4 DEF Ledger

\* What is stored of a document is what replaying its events says, whichever
\* session wrote them, across refusals, restarts and deletions (store/events.py,
\* store/projections_cache.py): no table ever needs a rebuild.
THEOREM TablesFollowTheLog == Spec => []ProjectionsFollowTheLog
  <1>1. TypeOK /\ Ledger /\ [Next]_vars /\ TypeOK' => Ledger'
    BY LedgerStep
  <1>2. TypeOK /\ Ledger => ProjectionsFollowTheLog
    <2> SUFFICES ASSUME TypeOK, Ledger, NEW d \in docs
                 PROVE  LET rebuilt == BuildReadingState(log, d)
                        IN  /\ states[d].high = rebuilt.high
                            /\ states[d].current = rebuilt.current
                            /\ saved[d] = BuildMarks(log, d)
      BY DEF ProjectionsFollowTheLog
    <2>1. d \in Docs
      BY DEF TypeOK, DatabaseTyped
    <2>2. Follow(d)
      BY <2>1 DEF Ledger
    <2>3. /\ BuildReadingState(log, d) = RowOf(EventsFor(log, d))
          /\ BuildMarks(log, d) = MarksOf(EventsFor(log, d))
      BY DEF BuildReadingState, BuildMarks, RowOf, MarksOf
    <2> QED
      BY <2>2, <2>3 DEF Follow
  <1> QED
    BY <1>1, <1>2, TypeCorrect, LedgerInit, PTL DEF Spec

-----------------------------------------------------------------------------
(* A quiet reading: one that never presses F and whose log writes are never  *)
(* refused.  What it shows as read is settled text, and the database it      *)
(* writes implements ReadingSpine.                                           *)

\* Free Mode is off and no log write was refused for a lock.
Quiet == ~reader.free /\ faults = 0

-----------------------------------------------------------------------------
(* The session never leaves settled text *)

\* Where the session is, where Return would take it and where a pin could take
\* it are all behind the frontier.
Settled ==
    /\ reader.current <= reader.high
    /\ reader.preJump # NoJump => reader.preJump <= reader.high
    /\ \A p \in Positions : marks["pin"][p] # Unmarked => p <= reader.high

\* The positions of a session are integers, and so are the frontiers.
LEMMA SessionNumbers ==
    ASSUME TypeOK
    PROVE  /\ reader \in Sessions
           /\ reader.current \in Int /\ reader.high \in Int
           /\ reader.preJump \in Int
           /\ \A d \in Docs : states[d] \in ReadingState /\ states[d].high \in Int
  <1>1. reader \in Sessions /\ states \in [Docs -> ReadingState]
    BY DEF TypeOK, MemoryTyped, DatabaseTyped
  <1>2. \A p \in Positions : p \in Int
    BY DEF Positions
  <1>3. \A d \in Docs : states[d] \in ReadingState /\ states[d].high \in Int
    BY <1>1, <1>2 DEF ReadingState
  <1> QED
    BY <1>1, <1>2, <1>3 DEF Sessions

\* A step that takes the frontier nowhere back, moves to settled text or stays,
\* remembers a settled position or none, and adds no pin.
LEMMA SettledMove ==
    ASSUME TypeOK, TypeOK', Settled,
           reader'.high >= reader.high,
           reader'.current <= reader'.high,
           reader'.preJump \in {NoJump, reader.preJump, reader.current},
           UNCHANGED marks
    PROVE  Settled'
  <1>1. /\ reader.current \in Int /\ reader.high \in Int /\ reader.preJump \in Int
        /\ reader'.high \in Int
    BY SessionNumbers DEF TypeOK, MemoryTyped, Sessions, Positions
  <1>2. \A p \in Positions : p \in Int
    BY DEF Positions
  <1> QED
    BY <1>1, <1>2 DEF Settled

\* A press of Space in paced mode.
LEMMA SettledReveal ==
    ASSUME TypeOK, TypeOK', Settled, RevealPaced
    PROVE  Settled'
  <1> DEFINE next == reader.current + 1
             reason == TryReveal(reader.current, reader.high,
                                 Total(reader.doc), TokensNow(paid, since))
  <1>1. /\ reader \in Sessions /\ reader.current \in Int /\ reader.high \in Int
        /\ Total(reader.doc) \in Int
    BY SessionNumbers, TotalBound DEF Sessions
  <1>2. reason = "advanced_free" => next <= reader.high
    BY <1>1 DEF TryReveal
  <1>3. reason = "advanced_paid" => next > reader.high
    BY <1>1 DEF TryReveal
  <1>4. /\ reason \in {"advanced_free", "advanced_paid"}
        /\ reason = "advanced_paid"
             => reader' = [reader EXCEPT !.current = next, !.high = next]
        /\ reason # "advanced_paid" => reader' = [reader EXCEPT !.current = next]
        /\ marks' = marks
    BY DEF RevealPaced
  <1>5. next \in Int
    BY <1>1
  <1> HIDE DEF next, reason
  <1>6. /\ reader'.high >= reader.high /\ reader'.current <= reader'.high
        /\ reader'.preJump = reader.preJump
    <2>1. CASE reason = "advanced_free"
      <3>1. reader' = [reader EXCEPT !.current = next]
        BY <1>4, <2>1
      <3>2. next <= reader.high
        BY <1>2, <2>1
      <3> QED
        BY <1>1, <1>5, <3>1, <3>2 DEF Sessions
    <2>2. CASE reason = "advanced_paid"
      <3>1. reader' = [reader EXCEPT !.current = next, !.high = next]
        BY <1>4, <2>2
      <3>2. next > reader.high
        BY <1>3, <2>2
      <3> QED
        BY <1>1, <1>5, <3>1, <3>2 DEF Sessions
    <2> QED
      BY <1>4, <2>1, <2>2
  <1> QED
    BY <1>4, <1>6, SettledMove

\* A jump lands on a pin, and pins are on settled text.
LEMMA SettledJump ==
    ASSUME TypeOK, TypeOK', Settled, NEW direction, NEW mode,
           JumpToPin(direction, mode)
    PROVE  Settled'
  <1>1. PICK p \in Positions :
           /\ IsJumpTarget(p, direction, mode)
           /\ reader' = [reader EXCEPT !.preJump = reader.current, !.current = p]
    BY DEF JumpToPin
  <1>2. p <= reader.high
    BY <1>1 DEF IsJumpTarget, Candidates, Settled
  <1>3. reader \in Sessions /\ reader.high \in Int
    BY SessionNumbers
  <1>4. /\ reader'.high >= reader.high /\ reader'.current <= reader'.high
        /\ reader'.preJump = reader.current
    BY <1>1, <1>2, <1>3 DEF Sessions
  <1>5. UNCHANGED marks
    BY DEF JumpToPin
  <1> QED
    BY <1>4, <1>5, SettledMove

\* A pin is only set behind the frontier, and the other marks are no pins.
LEMMA SettledAssign ==
    ASSUME TypeOK, Settled, UNCHANGED reader, NEW kind \in Kinds, NEW value,
           BehindFrontier,
           marks' = Assigned(marks, kind, reader.current, value)
    PROVE  Settled'
  <1>1. marks \in [Kinds -> [Positions -> MarkValues]]
    BY DEF TypeOK, MemoryTyped, Marks
  <1>2. ASSUME NEW p \in Positions, marks'["pin"][p] # Unmarked
        PROVE  p <= reader.high
    <2>1. CASE p = reader.current
      BY <2>1 DEF BehindFrontier
    <2>2. CASE p # reader.current
      <3>1. marks'["pin"][p] = marks["pin"][p]
        BY <1>1, <2>2 DEF Assigned, Kinds
      <3> QED
        BY <1>2, <3>1 DEF Settled
    <2> QED
      BY <2>1, <2>2
  <1> QED
    BY <1>2 DEF Settled

\* A session built from the rows, deep-linked or not, shows settled text.
LEMMA RebuiltIsSettled ==
    ASSUME TypeOK, NEW d \in Docs, NEW session, NEW c \in Positions,
           session \in {Rebuilt(d), DeepLinked(Rebuilt(d), c)}
    PROVE  /\ session.high = states[d].high /\ session.current <= session.high
           /\ session.preJump = NoJump
  <1>1. states[d] \in ReadingState /\ states[d].high \in Int
    BY SessionNumbers
  <1>2. /\ ResumePosition(states[d], WarmChunks) \in Int
        /\ ResumePosition(states[d], WarmChunks) <= states[d].high
    BY <1>1, ResumePositionTyped, ReaderAssumption DEF ReadingState, Positions
  <1>3. c \in Int
    BY DEF Positions
  <1> QED
    BY <1>1, <1>2, <1>3 DEF Rebuilt, DeepLinked

\* A new session shows the pins of its document's rows.
LEMMA SettledOpening ==
    ASSUME Coherent, faults = 0, NEW d \in Docs, marks' = saved[d],
           reader'.high = states[d].high, reader'.current <= reader'.high,
           reader'.preJump = NoJump
    PROVE  Settled'
  <1>1. \A p \in Positions : saved[d]["pin"][p] # Unmarked => p <= states[d].high
    BY DEF Coherent, MarksStayBehindTheFrontier, Kinds
  <1> QED
    BY <1>1 DEF Settled

\* An opening: the session on the page, or one built from the rows.
LEMMA SettledGetReader ==
    ASSUME Coherent, TypeOK', Settled, faults = 0, NEW d \in Docs, GetReader(d)
    PROVE  Settled'
  <1>1. TypeOK /\ reader \in Sessions /\ reader.high \in Int
    BY SessionNumbers DEF Coherent
  <1>2. 0 \in Positions
    BY ReaderAssumption DEF Positions
  <1>3. CASE reader.doc = d
    <2>1. PICK session \in {reader} \cup {DeepLinked(reader, c) : c \in Positions} :
             reader' = [session EXCEPT !.free = FALSE]
      BY <1>3 DEF GetReader, Opens
    <2>2. /\ session \in Sessions /\ session.high = reader.high
          /\ session.preJump = reader.preJump
          /\ session.current <= reader.high
      <3>1. CASE session = reader
        BY <1>1, <3>1 DEF Settled
      <3>2. ASSUME NEW c \in Positions, session = DeepLinked(reader, c)
            PROVE  /\ session \in Sessions /\ session.high = reader.high
                   /\ session.preJump = reader.preJump
                   /\ session.current <= reader.high
        <4>1. c \in Int
          BY DEF Positions
        <4> QED
          BY <1>1, <3>2, <4>1 DEF DeepLinked, Sessions
      <3> QED
        BY <2>1, <3>1, <3>2
    <2>3. /\ reader'.high >= reader.high /\ reader'.current <= reader'.high
          /\ reader'.preJump = reader.preJump
      BY <1>1, <2>1, <2>2 DEF Sessions
    <2>4. UNCHANGED marks
      BY <1>3 DEF GetReader, Opens
    <2> QED
      BY <1>1, <2>3, <2>4, SettledMove
  <1>4. CASE reader.doc # d
    <2>1. PICK c \in Positions : reader' \in {Rebuilt(d), DeepLinked(Rebuilt(d), c)}
      BY <1>2, <1>4 DEF GetReader, Opens
    <2>2. /\ reader'.high = states[d].high /\ reader'.current <= reader'.high
          /\ reader'.preJump = NoJump
      BY <1>1, <2>1, RebuiltIsSettled
    <2>3. marks' = saved[d]
      BY <1>4 DEF GetReader, Opens
    <2> QED
      BY <2>2, <2>3, SettledOpening
  <1> QED
    BY <1>3, <1>4

\* Every step of a quiet reading leaves the session on settled text.
LEMMA SettledStep ==
    ASSUME Coherent, Coherent', Settled, Quiet, Quiet', [Next]_vars
    PROVE  Settled'
  <1>1. /\ TypeOK /\ TypeOK' /\ reader \in Sessions
        /\ reader.current \in Int /\ reader.high \in Int /\ reader.preJump \in Int
    BY SessionNumbers DEF Coherent
  <1>2. ASSUME UNCHANGED <<reader, marks>>
        PROVE  Settled'
    BY <1>2 DEF Settled
  <1>3. CASE RevealFreely \/ ToggleFreeMode
    BY <1>1, <1>3 DEF RevealFreely, ToggleFreeMode, Quiet, Sessions
  <1>4. CASE RevealPaced
    BY <1>1, <1>4, SettledReveal
  <1>5. CASE Conceal
    <2>1. /\ reader'.high = reader.high /\ reader'.preJump = reader.preJump
          /\ reader'.current \in {reader.current, reader.current - 1}
          /\ UNCHANGED marks
      BY <1>1, <1>5 DEF Conceal, Sessions
    <2>2. reader'.high >= reader.high /\ reader'.current <= reader'.high
      BY <1>1, <2>1 DEF Settled
    <2> QED
      BY <1>1, <2>1, <2>2, SettledMove
  <1>6. CASE Return
    <2>1. /\ reader'.high = reader.high /\ reader'.preJump = NoJump
          /\ reader'.current = reader.preJump /\ reader.preJump # NoJump
          /\ UNCHANGED marks
      BY <1>1, <1>6 DEF Return, Sessions
    <2>2. reader'.high >= reader.high /\ reader'.current <= reader'.high
      BY <1>1, <2>1 DEF Settled
    <2> QED
      BY <1>1, <2>1, <2>2, SettledMove
  <1>7. ASSUME NEW p \in Positions, SetCurrentPosition(p)
        PROVE  Settled'
    <2>1. /\ reader'.high = reader.high /\ p <= reader.high
          /\ reader'.current = p
          /\ reader'.preJump \in {NoJump, reader.preJump, reader.current}
          /\ UNCHANGED marks
      BY <1>1, <1>7 DEF SetCurrentPosition, Sessions
    <2>2. reader'.high >= reader.high /\ reader'.current <= reader'.high
      BY <1>1, <2>1
    <2> QED
      BY <1>1, <2>1, <2>2, SettledMove
  <1>8. ASSUME NEW direction, NEW mode, JumpToPin(direction, mode)
        PROVE  Settled'
    BY <1>1, <1>8, SettledJump
  <1>9. CASE Navigate
    BY <1>3, <1>4, <1>5, <1>6, <1>7, <1>8, <1>9 DEF Navigate
  <1>10. CASE Pin
    BY <1>1, <1>10, SettledAssign DEF Pin, Assign, Kinds
  <1>11. ASSUME NEW kind \in Kinds, NEW type, NEW value, Mark(kind, type, value)
         PROVE  Settled'
    <2>1. UNCHANGED reader /\ BehindFrontier
      BY <1>11 DEF Mark
    <2>2. \/ marks' = Assigned(marks, kind, reader.current, value)
          \/ UNCHANGED marks
      BY <1>11 DEF Mark, Assign
    <2> QED
      BY <1>1, <1>2, <2>1, <2>2, SettledAssign
  <1>12. CASE Annotate
    BY <1>10, <1>11, <1>12
       DEF Annotate, Rate, SetNote, Unrate, ClearNote, Kinds
  <1>13. ASSUME NEW d \in Docs, GetReader(d)
         PROVE  Settled'
    BY <1>1, <1>13, SettledGetReader DEF Quiet
  <1>14. ASSUME NEW d \in Docs, Close(d) \/ DeleteRow(d)
         PROVE  Settled'
    BY <1>2, <1>14 DEF Close, DeleteRow, memory
  <1>15. CASE DeleteSwap
    <2>1. CASE DropSession
      BY <2>1 DEF DropSession, EmptySession, NoMarks, Settled, Kinds
    <2>2. CASE UNCHANGED memory
      BY <1>2, <2>2 DEF memory
    <2> QED
      BY <1>15, <2>1, <2>2 DEF DeleteSwap
  <1>16. CASE Restart
    <2>1. /\ Welcome \in Docs /\ 0 \in Positions
          /\ reader' = Rebuilt(Welcome) /\ marks' = saved[Welcome]
      BY <1>16, ReaderAssumption DEF Restart, Positions
    <2>2. /\ reader'.high = states[Welcome].high /\ reader'.current <= reader'.high
          /\ reader'.preJump = NoJump
      BY <1>1, <2>1, RebuiltIsSettled
    <2> QED
      BY <2>1, <2>2, SettledOpening DEF Quiet
  <1>17. CASE Tick \/ UNCHANGED vars
    BY <1>2, <1>17 DEF Tick, vars, memory
  <1> QED
    BY <1>9, <1>12, <1>13, <1>14, <1>15, <1>16, <1>17 DEF Next

LEMMA SettledInit ==
    ASSUME Init
    PROVE  Settled
  BY DEF Init, Settled, NoMarks, Kinds

LEMMA SettledAlways == Spec /\ []Quiet => []Settled
  <1>1. Init => Settled
    BY SettledInit
  <1>2. Coherent /\ Coherent' /\ Settled /\ Quiet /\ Quiet' /\ [Next]_vars => Settled'
    BY SettledStep
  <1> QED
    BY <1>1, <1>2, CoherentAlways, PTL DEF Spec

\* In a reading that never presses F and whose writes are not refused, what the
\* page shows as read was paid for, whichever jumps, returns, deep links,
\* document switches and restarts led there.
THEOREM QuietReadingIsSettled == Spec /\ []Quiet => []PacedReadingIsSettled
  <1>1. Settled => PacedReadingIsSettled
    BY DEF Settled, PacedReadingIsSettled
  <1> QED
    BY <1>1, SettledAlways, PTL

-----------------------------------------------------------------------------
(* The database implements ReadingSpine *)

\* The values ReadingSpine's variables take in the database.
Frontiers == [d \in Docs |-> states[d].high]
MarkedPlaces ==
    [d \in Docs |-> {m \in Kinds \X Positions : saved[d][m[1]][m[2]] # Unmarked}]

\* No document is settled past its last chunk.
Bounded == \A d \in Docs : states[d].high < Chunks[d]

\* What a write that is not a reveal leaves alone.
FrontiersUnchanged == \A d \in Docs : states'[d].high = states[d].high

\* An event that is neither a reveal nor a mark is invisible to the spine.
LEMMA QuietRecord ==
    ASSUME DatabaseTyped, NEW d, NEW type, NEW chunk, NEW value,
           type \notin MarkTypes \cup {"reveal"},
           Record(d, type, chunk, value, TRUE)
    PROVE  docs' = docs /\ saved' = saved /\ FrontiersUnchanged
  <1>1. docs' = docs /\ saved' = saved
    BY RecordEffect
  <1>2. \A x \in Docs \ {d} : states'[x] = states[x]
    BY RecordEffect
  <1>3. states'[d].high = states[d].high
    <2>1. \A t : Record(d, t, chunk, value, TRUE)
                  => states'[d].high = IF t = "reveal" /\ chunk > states[d].high
                                       THEN chunk ELSE states[d].high
      BY RecordEffect
    <2> QED
      BY <2>1
  <1> QED
    BY <1>1, <1>2, <1>3 DEF FrontiersUnchanged

\* So is one logged past the hook, and so is a refused write.
LEMMA QuietWrite ==
    ASSUME DatabaseTyped, faults \in 0 .. MaxFaults, NEW d,
           NEW type, NEW chunk, NEW value,
           \/ Refused(d, type, chunk, value)
           \/ /\ type \notin MarkTypes \cup {"reveal"}
              /\ \E hooked \in BOOLEAN : Record(d, type, chunk, value, hooked)
    PROVE  docs' = docs /\ saved' = saved /\ FrontiersUnchanged
  <1>1. CASE Refused(d, type, chunk, value)
    BY <1>1, RefusedEffect DEF FrontiersUnchanged
  <1>2. CASE /\ type \notin MarkTypes \cup {"reveal"}
             /\ Record(d, type, chunk, value, TRUE)
    BY <1>2, QuietRecord
  <1>3. CASE Record(d, type, chunk, value, FALSE)
    BY <1>3 DEF Record, FrontiersUnchanged
  <1> QED
    BY <1>1, <1>2, <1>3

\* What a press of Space does to the frontiers: nothing, or one chunk of the
\* open document, which it has.
LEMMA RevealSettles ==
    ASSUME Coherent, RevealPaced
    PROVE  \/ docs' = docs /\ saved' = saved /\ FrontiersUnchanged
           \/ /\ reader.doc \in docs /\ reader.doc \in Docs
              /\ docs' = docs /\ saved' = saved
              /\ \A d \in Docs \ {reader.doc} : states'[d] = states[d]
              /\ states'[reader.doc].high = reader.current + 1
              /\ reader.current + 1 > states[reader.doc].high
              /\ reader.current + 1 < Chunks[reader.doc]
  <1> DEFINE next == reader.current + 1
  <1>1. /\ TypeOK /\ DatabaseTyped /\ faults \in 0 .. MaxFaults
        /\ reader \in Sessions /\ reader.current \in Int /\ reader.high \in Int
        /\ Total(reader.doc) \in Int
        /\ \A d \in Docs : states[d].high \in Int
    BY SessionNumbers, TotalBound DEF Coherent, TypeOK, Sessions
  <1>2. next < Total(reader.doc)
    BY <1>1, RevealStaysInside DEF RevealPaced
  <1>3. next \in Int /\ next > 0
    BY <1>1 DEF Sessions, Positions
  <1>4. reader.doc # NoDoc
    BY <1>1, <1>2, <1>3 DEF Total
  <1>5. next < Chunks[reader.doc]
    BY <1>2, <1>4 DEF Total
  <1>6. PICK type : type = "reveal"
    OBVIOUS
  <1>7. \/ Record(reader.doc, type, next, Unmarked, TRUE)
        \/ Refused(reader.doc, type, next, Unmarked)
    BY <1>4, <1>6 DEF RevealPaced, Logs, FailsToLog, Hooked
  <1> HIDE DEF next
  <1>8. CASE Refused(reader.doc, type, next, Unmarked)
    BY <1>1, <1>8, QuietWrite
  <1>9. CASE Record(reader.doc, type, next, Unmarked, TRUE)
    <2>1. type \notin MarkTypes
      BY <1>6 DEF MarkTypes
    <2>2. /\ reader.doc \in docs /\ reader.doc \in Docs /\ docs' = docs
          /\ \A d \in Docs \ {reader.doc} : states'[d] = states[d]
          /\ states'[reader.doc].high
               = IF type = "reveal" /\ next > states[reader.doc].high
                 THEN next ELSE states[reader.doc].high
          /\ saved' = saved
      BY <1>1, <1>9, <2>1, RecordEffect
    <2>3. CASE next > states[reader.doc].high
      BY <1>5, <1>6, <2>2, <2>3 DEF next
    <2>4. CASE ~(next > states[reader.doc].high)
      BY <2>2, <2>4 DEF FrontiersUnchanged
    <2> QED
      BY <2>3, <2>4
  <1> QED
    BY <1>7, <1>8, <1>9

\* A mark that is logged: one place of the open document, behind its frontier.
LEMMA MarkIsLogged ==
    ASSUME Coherent, NEW kind \in Kinds, NEW type, NEW value,
           IsMark(type, kind, value),
           \/ Logs(type, reader.current, value)
           \/ FailsToLog(type, reader.current, value)
    PROVE  \/ docs' = docs /\ saved' = saved /\ FrontiersUnchanged
           \/ /\ reader.doc \in docs /\ reader.doc \in Docs
              /\ docs' = docs /\ FrontiersUnchanged
              /\ \A d \in Docs \ {reader.doc} : saved'[d] = saved[d]
              /\ saved'[reader.doc]
                   = Assigned(saved[reader.doc], kind, reader.current, value)
  <1>1. DatabaseTyped /\ faults \in 0 .. MaxFaults
    BY DEF Coherent, TypeOK
  <1>2. CASE Logs(type, reader.current, value)
    <2>1. reader.doc # NoDoc
      BY <1>1, <1>2, ReaderAssumption DEF Logs, Record, DatabaseTyped
    <2>2. Record(reader.doc, type, reader.current, value, TRUE)
      BY <1>2, <2>1 DEF Logs, Hooked
    <2>3. type # "reveal"
      BY DEF IsMark, SetType, ClearType, Kinds
    <2>4. /\ reader.doc \in docs /\ reader.doc \in Docs /\ docs' = docs
          /\ \A d \in Docs \ {reader.doc} :
                states'[d] = states[d] /\ saved'[d] = saved[d]
          /\ states'[reader.doc].high
               = IF type = "reveal" /\ reader.current > states[reader.doc].high
                 THEN reader.current ELSE states[reader.doc].high
      BY <1>1, <2>2, RecordEffect
    <2>5. FrontiersUnchanged
      BY <2>3, <2>4 DEF FrontiersUnchanged
    <2>6. saved'[reader.doc]
            = Assigned(saved[reader.doc], kind, reader.current, value)
      <3>1. \A d : Record(d, type, reader.current, value, TRUE)
                   => saved'[d] = Assigned(saved[d], kind, reader.current, value)
        BY <1>1, MarkEffect
      <3> QED
        BY <2>2, <3>1
    <2> QED
      BY <2>4, <2>5, <2>6
  <1>3. CASE FailsToLog(type, reader.current, value)
    BY <1>1, <1>3, QuietWrite DEF FailsToLog
  <1> QED
    BY <1>2, <1>3

\* What a step says of the spine: it is one of the spine's, or none of them.
SpineSteps == Spine!Next \/ UNCHANGED Spine!vars

\* A step that leaves the rows, the frontiers and the marks alone is invisible.
LEMMA SpineStutters ==
    ASSUME Bounded, docs' = docs, saved' = saved, FrontiersUnchanged
    PROVE  Bounded' /\ SpineSteps
  <1>1. Frontiers' = Frontiers
    BY DEF Frontiers, FrontiersUnchanged
  <1>2. MarkedPlaces' = MarkedPlaces
    BY DEF MarkedPlaces
  <1>3. UNCHANGED Spine!vars
    BY <1>1, <1>2 DEF Spine!vars, Frontiers, MarkedPlaces
  <1> QED
    BY <1>3 DEF Bounded, FrontiersUnchanged, SpineSteps

\* A paid reveal settles the next chunk, never a later one.
LEMMA SpineSettles ==
    ASSUME Coherent, Settled, Quiet, Bounded, RevealPaced
    PROVE  Bounded' /\ SpineSteps
  <1> DEFINE doc == reader.doc
             next == reader.current + 1
  <1>1. CASE docs' = docs /\ saved' = saved /\ FrontiersUnchanged
    BY <1>1, SpineStutters
  <1>2. CASE /\ doc \in docs /\ doc \in Docs
             /\ docs' = docs /\ saved' = saved
             /\ \A d \in Docs \ {doc} : states'[d] = states[d]
             /\ states'[doc].high = next
             /\ next > states[doc].high
             /\ next < Chunks[doc]
    <2>1. /\ reader.current \in Int /\ states[doc].high \in Int
          /\ reader.current <= reader.high
      BY <1>2, SessionNumbers DEF Coherent, Settled
    <2>2. reader.high = states[doc].high
      BY <1>2 DEF Coherent, MemoryFollowsTheStore, Quiet
    <2>3. next = states[doc].high + 1
      BY <1>2, <2>1, <2>2
    <2> HIDE DEF doc, next
    <2>4. Frontiers' = [Frontiers EXCEPT ![doc] = Frontiers[doc] + 1]
      BY <1>2, <2>3 DEF Frontiers
    <2>5. Frontiers[doc] + 1 < Chunks[doc]
      BY <1>2, <2>3 DEF Frontiers
    <2>6. MarkedPlaces' = MarkedPlaces
      BY <1>2 DEF MarkedPlaces
    <2>7. Spine!Settle(doc)
      BY <1>2, <2>4, <2>5, <2>6 DEF Spine!Settle, Frontiers, MarkedPlaces
    <2>8. Bounded'
      BY <1>2 DEF Bounded
    <2>9. Spine!Next
      BY <1>2, <2>7 DEF Spine!Next, Spine!Settle
    <2> QED
      BY <2>8, <2>9 DEF SpineSteps
  <1> QED
    BY <1>1, <1>2, RevealSettles

\* A mark lands on settled text of the open document, or is taken off it.
LEMMA SpineMarks ==
    ASSUME Coherent, Quiet, Bounded, BehindFrontier,
           NEW kind \in Kinds, NEW type, NEW value, IsMark(type, kind, value),
           \/ Logs(type, reader.current, value)
           \/ FailsToLog(type, reader.current, value)
    PROVE  Bounded' /\ SpineSteps
  <1> DEFINE doc == reader.doc
             chunk == reader.current
  <1>1. CASE docs' = docs /\ saved' = saved /\ FrontiersUnchanged
    BY <1>1, SpineStutters
  <1>2. CASE /\ doc \in docs /\ doc \in Docs
             /\ docs' = docs /\ FrontiersUnchanged
             /\ \A d \in Docs \ {doc} : saved'[d] = saved[d]
             /\ saved'[doc] = Assigned(saved[doc], kind, chunk, value)
    <2>1. /\ chunk \in Positions /\ chunk \in Int /\ chunk >= 0
          /\ saved[doc] \in [Kinds -> [Positions -> MarkValues]]
          /\ states[doc].high \in Int /\ Chunks[doc] \in Int
      BY <1>2, SessionNumbers, ReaderAssumption
         DEF Coherent, TypeOK, DatabaseTyped, Marks, Sessions, Positions
    <2>2. chunk <= states[doc].high
      BY <1>2 DEF Coherent, MemoryFollowsTheStore, Quiet, BehindFrontier
    <2>3. chunk \in 0 .. Chunks[doc] - 1
      BY <1>2, <2>1, <2>2 DEF Bounded
    <2> HIDE DEF doc, chunk
    <2>4. Frontiers' = Frontiers
      BY <1>2 DEF Frontiers, FrontiersUnchanged
    <2>5. chunk <= Frontiers[doc]
      BY <1>2, <2>2 DEF Frontiers
    <2>6. \A k \in Kinds, p \in Positions :
             saved'[doc][k][p]
               = IF k = kind /\ p = chunk THEN value ELSE saved[doc][k][p]
      BY <1>2, <2>1 DEF Assigned
    <2>7. Bounded'
      BY <1>2 DEF Bounded, FrontiersUnchanged
    <2> DEFINE place == <<kind, chunk>>
               Places(marked) ==
                 {m \in Kinds \X Positions : marked[m[1]][m[2]] # Unmarked}
    <2>8. /\ MarkedPlaces = [d \in Docs |-> Places(saved[d])]
          /\ MarkedPlaces' = [d \in Docs |-> Places(saved'[d])]
      BY DEF MarkedPlaces
    <2>9. \A d \in Docs \ {doc} : Places(saved'[d]) = Places(saved[d])
      BY <1>2
    <2>10. Spine!SetMark(doc, kind, chunk) \/ Spine!ClearMark(doc, kind, chunk)
      <3>1. CASE value # Unmarked
        <4>1. Places(saved'[doc]) = Places(saved[doc]) \cup {place}
          BY <2>1, <2>6, <3>1
        <4> HIDE DEF Places, place
        <4>2. MarkedPlaces' = [MarkedPlaces EXCEPT ![doc] = MarkedPlaces[doc] \cup {place}]
          BY <1>2, <2>8, <2>9, <4>1
        <4> QED
          BY <1>2, <2>4, <2>5, <4>2
             DEF Spine!SetMark, Frontiers, MarkedPlaces, place
      <3>2. CASE value = Unmarked
        <4>1. Places(saved'[doc]) = Places(saved[doc]) \ {place}
          <5>1. \A m \in Kinds \X Positions :
                   saved'[doc][m[1]][m[2]] # Unmarked
                     <=> saved[doc][m[1]][m[2]] # Unmarked /\ m # place
            <6> TAKE m \in Kinds \X Positions
            <6>1. m[1] \in Kinds /\ m[2] \in Positions
              OBVIOUS
            <6>2. m = place <=> m[1] = kind /\ m[2] = chunk
              OBVIOUS
            <6> HIDE DEF place
            <6> QED
              BY <2>6, <3>2, <6>1, <6>2
          <5> HIDE DEF place
          <5> QED
            BY <5>1
        <4> HIDE DEF Places, place
        <4>2. MarkedPlaces' = [MarkedPlaces EXCEPT ![doc] = MarkedPlaces[doc] \ {place}]
          BY <1>2, <2>8, <2>9, <4>1
        <4> QED
          BY <1>2, <2>4, <4>2 DEF Spine!ClearMark, Frontiers, MarkedPlaces, place
      <3> QED
        BY <3>1, <3>2
    <2>11. Spine!Next
      <3>1. \E k \in Kinds, c \in 0 .. Chunks[doc] - 1 :
               Spine!SetMark(doc, k, c) \/ Spine!ClearMark(doc, k, c)
        BY <2>3, <2>10 DEF Spine!SetMark, Spine!ClearMark
      <3> QED
        BY <1>2, <3>1 DEF Spine!Next, Spine!SetMark, Spine!ClearMark
    <2> QED
      BY <2>7, <2>11 DEF SpineSteps
  <1> QED
    BY <1>1, <1>2, MarkIsLogged

\* A deleted row takes its frontier and its marks with it.
LEMMA SpineDeletes ==
    ASSUME TypeOK, Bounded, NEW d \in Docs, DeleteRow(d)
    PROVE  Bounded' /\ SpineSteps
  <1>1. /\ d \in docs /\ docs' = docs \ {d}
        /\ states \in [Docs -> ReadingState] /\ saved \in [Docs -> Marks]
        /\ states' = [states EXCEPT ![d] = EmptyReadingState]
        /\ saved' = [saved EXCEPT ![d] = NoMarks]
    BY DEF DeleteRow, TypeOK, DatabaseTyped
  <1>2. /\ \A x \in Docs \ {d} : states'[x] = states[x] /\ saved'[x] = saved[x]
        /\ states'[d].high = 0 /\ saved'[d] = NoMarks
    BY <1>1 DEF EmptyReadingState
  <1>3. Frontiers' = [Frontiers EXCEPT ![d] = 0]
    BY <1>2 DEF Frontiers
  <1>4. MarkedPlaces' = [MarkedPlaces EXCEPT ![d] = {}]
    <2>1. \A m \in Kinds \X Positions : saved'[d][m[1]][m[2]] = Unmarked
      BY <1>2 DEF NoMarks
    <2> QED
      BY <1>2, <2>1 DEF MarkedPlaces
  <1>5. Spine!Delete(d)
    BY <1>1, <1>3, <1>4 DEF Spine!Delete, Frontiers, MarkedPlaces
  <1>6. Spine!Next
    BY <1>5 DEF Spine!Next, Spine!Delete
  <1>7. Bounded'
    BY <1>2, ReaderAssumption DEF Bounded
  <1> QED
    BY <1>6, <1>7 DEF SpineSteps

\* A restart brings the welcome document back, unread.
LEMMA SpineSeeds ==
    ASSUME Bounded, Restart
    PROVE  Bounded' /\ SpineSteps
  <1>1. docs' = docs \cup {Welcome} /\ states' = states /\ saved' = saved
    BY DEF Restart
  <1>2. Frontiers' = Frontiers /\ MarkedPlaces' = MarkedPlaces
    BY <1>1 DEF Frontiers, MarkedPlaces
  <1>3. Spine!Seed
    BY <1>1, <1>2 DEF Spine!Seed, Frontiers, MarkedPlaces
  <1>4. Spine!Next
    BY <1>3 DEF Spine!Next, Spine!Seed
  <1> QED
    BY <1>1, <1>4 DEF SpineSteps, Bounded

\* Every step of a quiet reading is a step of the spine or invisible to it.
LEMMA SpineStep ==
    ASSUME Coherent, Settled, Quiet, Bounded, [Next]_vars
    PROVE  Bounded' /\ SpineSteps
  <1>1. TypeOK /\ DatabaseTyped /\ faults \in 0 .. MaxFaults
    BY DEF Coherent, TypeOK
  <1>2. ASSUME UNCHANGED <<docs, states, saved>>
        PROVE  Bounded' /\ SpineSteps
    BY <1>2, SpineStutters DEF FrontiersUnchanged
  <1>3. ASSUME NEW d, NEW type, type \notin MarkTypes \cup {"reveal"},
               NEW chunk, NEW value, NEW hooked \in BOOLEAN,
               \/ Record(d, type, chunk, value, hooked)
               \/ Refused(d, type, chunk, value)
        PROVE  Bounded' /\ SpineSteps
    <2>1. docs' = docs /\ saved' = saved /\ FrontiersUnchanged
      BY <1>1, <1>3, QuietWrite
    <2> QED
      BY <2>1, SpineStutters
  <1>4. Hooked \in BOOLEAN
    BY DEF Hooked
  <1>5. \A type \in {"conceal", "open_document", "close_document"} :
           type \notin MarkTypes \cup {"reveal"}
    BY DEF MarkTypes
  <1>6. CASE Navigate
    <2>1. CASE RevealPaced
      BY <2>1, SpineSettles
    <2>2. CASE Conceal
      <3>1. PICK type : type = "conceal"
        OBVIOUS
      <3>2. \/ Record(reader.doc, type, reader.current - 1, Unmarked, Hooked)
            \/ Refused(reader.doc, type, reader.current - 1, Unmarked)
        BY <2>2, <3>1 DEF Conceal, Logs, FailsToLog
      <3>3. type \notin MarkTypes \cup {"reveal"}
        BY <1>5, <3>1
      <3> QED
        BY <1>3, <1>4, <3>2, <3>3
    <2>3. CASE RevealFreely \/ Return \/ ToggleFreeMode
      BY <1>2, <2>3 DEF RevealFreely, Return, ToggleFreeMode, database
    <2>4. CASE \E p \in Positions : SetCurrentPosition(p)
      BY <1>2, <2>4 DEF SetCurrentPosition, database
    <2>5. ASSUME NEW direction, NEW mode, JumpToPin(direction, mode)
          PROVE  Bounded' /\ SpineSteps
      BY <1>2, <2>5 DEF JumpToPin, database
    <2> QED
      BY <1>6, <2>1, <2>2, <2>3, <2>4, <2>5 DEF Navigate
  <1>7. CASE Annotate
    <2>1. ASSUME NEW kind \in Kinds, NEW type, NEW value,
                 IsMark(type, kind, value), Mark(kind, type, value)
          PROVE  Bounded' /\ SpineSteps
      BY <2>1, SpineMarks DEF Mark
    <2>2. CASE Pin
      <3> DEFINE color == CyclePin(Here("pin"))
      <3>1. IsMark(PinEvent, "pin", color)
        BY DEF PinEvent, CyclePin, SetType, ClearType, IsMark
      <3>2. /\ BehindFrontier
            /\ \/ Logs(PinEvent, reader.current, color)
               \/ FailsToLog(PinEvent, reader.current, color)
        BY <2>2 DEF Pin
      <3> HIDE DEF color
      <3> QED
        BY <3>1, <3>2, SpineMarks DEF Kinds
    <2>3. \A rating \in Ratings : Rate(rating) => Bounded' /\ SpineSteps
      BY <2>1 DEF Rate, Kinds, SetType, IsMark
    <2>4. \A note \in Notes : SetNote(note) => Bounded' /\ SpineSteps
      BY <2>1 DEF SetNote, Kinds, SetType, IsMark
    <2>5. Unrate => Bounded' /\ SpineSteps
      BY <2>1 DEF Unrate, Kinds, ClearType, IsMark
    <2>6. ClearNote => Bounded' /\ SpineSteps
      BY <2>1 DEF ClearNote, Kinds, ClearType, IsMark
    <2> QED
      BY <1>7, <2>2, <2>3, <2>4, <2>5, <2>6 DEF Annotate
  <1>8. ASSUME NEW d \in Docs, GetReader(d)
        PROVE  Bounded' /\ SpineSteps
    <2>1. PICK type : type = "open_document"
      OBVIOUS
    <2>2. \/ Record(d, type, NoChunk, Unmarked, TRUE)
          \/ Refused(d, type, NoChunk, Unmarked)
      BY <1>8, <2>1 DEF GetReader
    <2>3. type \notin MarkTypes \cup {"reveal"}
      BY <1>5, <2>1
    <2> QED
      BY <1>3, <2>2, <2>3
  <1>9. ASSUME NEW d \in Docs, Close(d)
        PROVE  Bounded' /\ SpineSteps
    <2>1. PICK type : type = "close_document"
      OBVIOUS
    <2>2. \/ Record(d, type, NoChunk, Unmarked, Hooked)
          \/ Refused(d, type, NoChunk, Unmarked)
      BY <1>9, <2>1 DEF Close
    <2>3. type \notin MarkTypes \cup {"reveal"}
      BY <1>5, <2>1
    <2> QED
      BY <1>3, <1>4, <2>2, <2>3
  <1>10. ASSUME NEW d \in Docs, DeleteRow(d)
         PROVE  Bounded' /\ SpineSteps
    BY <1>1, <1>10, SpineDeletes
  <1>11. CASE DeleteSwap \/ Tick \/ UNCHANGED vars
    BY <1>2, <1>11 DEF DeleteSwap, Tick, vars, database
  <1>12. CASE Restart
    BY <1>12, SpineSeeds
  <1> QED
    BY <1>6, <1>7, <1>8, <1>9, <1>10, <1>11, <1>12 DEF Next

\* The server starts where the spine does.
LEMMA SpineInit ==
    ASSUME Init
    PROVE  Bounded /\ Spine!Init
  <1>1. /\ docs = Docs /\ saved = [d \in Docs |-> NoMarks]
        /\ states = [d \in Docs |-> EmptyReadingState]
    BY DEF Init
  <1>2. \A d \in Docs : states[d].high = 0
    BY <1>1 DEF EmptyReadingState
  <1>3. Frontiers = [d \in Docs |-> 0]
    BY <1>2 DEF Frontiers
  <1>4. MarkedPlaces = [d \in Docs |-> {}]
    <2>1. \A d \in Docs, m \in Kinds \X Positions : saved[d][m[1]][m[2]] = Unmarked
      BY <1>1 DEF NoMarks
    <2> QED
      BY <2>1 DEF MarkedPlaces
  <1>5. Spine!Init
    BY <1>1, <1>3, <1>4 DEF Spine!Init, Frontiers, MarkedPlaces
  <1> QED
    BY <1>2, <1>5, ReaderAssumption DEF Bounded

\* The database a quiet reading writes implements ReadingSpine: the settled part
\* of a document grows chunk by chunk, and a mark sits on settled text.
THEOREM QuietReadingImplementsSpine == Spec /\ []Quiet => ImplementsSpine
  <1>1. Init => Bounded /\ Spine!Init
    BY SpineInit
  <1>2. Coherent /\ Settled /\ Quiet /\ Bounded /\ [Next]_vars
          => Bounded' /\ [Spine!Next]_Spine!vars
    BY SpineStep DEF SpineSteps
  <1> QED
    BY <1>1, <1>2, CoherentAlways, SettledAlways, PTL
       DEF Spec, ImplementsSpine, Spine!Spec

-----------------------------------------------------------------------------
(* Readers whose every reading is quiet *)

\* Only F turns Free Mode on.
LEMMA FreeModeNeedsF ==
    ASSUME ~UseFreeMode, TypeOK, ~reader.free, [Next]_vars
    PROVE  ~reader'.free
  <1>1. reader \in Sessions
    BY SessionNumbers
  <1>2. CASE Navigate
    <2>1. CASE RevealPaced
      BY <1>1, <2>1 DEF RevealPaced, Sessions
    <2>2. CASE RevealFreely \/ Conceal \/ Return \/ ToggleFreeMode
      BY <1>1, <2>2 DEF RevealFreely, Conceal, Return, ToggleFreeMode, Sessions
    <2>3. ASSUME NEW p \in Positions, SetCurrentPosition(p)
          PROVE  ~reader'.free
      BY <1>1, <2>3 DEF SetCurrentPosition, Sessions
    <2>4. ASSUME NEW direction, NEW mode, JumpToPin(direction, mode)
          PROVE  ~reader'.free
      BY <1>1, <2>4 DEF JumpToPin, Sessions
    <2> QED
      BY <1>2, <2>1, <2>2, <2>3, <2>4 DEF Navigate
  <1>3. CASE Annotate
    BY <1>3 DEF Annotate, Pin, Rate, Unrate, SetNote, ClearNote, Mark
  <1>4. ASSUME NEW d \in Docs, GetReader(d)
        PROVE  ~reader'.free
    <2>1. CASE reader.doc = d
      <3>1. PICK session \in {reader} \cup {DeepLinked(reader, c) : c \in Positions} :
               reader' = [session EXCEPT !.free = FALSE]
        BY <1>4, <2>1 DEF GetReader, Opens
      <3>2. session \in Sessions
        BY <1>1, <3>1, DeepLinkedTyped
      <3> QED
        BY <3>1, <3>2 DEF Sessions
    <2>2. CASE reader.doc # d
      BY <1>4, <2>2 DEF GetReader, Opens, DeepLinked, Rebuilt
    <2> QED
      BY <2>1, <2>2
  <1>5. ASSUME NEW d \in Docs, Close(d) \/ DeleteRow(d)
        PROVE  ~reader'.free
    BY <1>5 DEF Close, DeleteRow, memory
  <1>6. CASE DeleteSwap \/ Restart \/ Tick \/ UNCHANGED vars
    BY <1>6
       DEF DeleteSwap, DropSession, EmptySession, Restart, Rebuilt, Tick, vars,
           memory
  <1> QED
    BY <1>2, <1>3, <1>4, <1>5, <1>6 DEF Next

\* A reader that never presses F, on a database that refuses no write, is quiet.
LEMMA PacedReadersAreQuiet ==
    ASSUME ~UseFreeMode, MaxFaults = 0
    PROVE  Spec => []Quiet
  <1> DEFINE Paced == ~reader.free
  <1>1. Init => Paced
    BY DEF Init
  <1>2. TypeOK /\ Paced /\ [Next]_vars => Paced'
    BY FreeModeNeedsF
  <1>3. TypeOK /\ Paced => Quiet
    BY DEF TypeOK, Quiet
  <1> HIDE DEF Paced
  <1> QED
    BY <1>1, <1>2, <1>3, TypeCorrect, PTL DEF Spec

\* So every reading of such a reader stays on settled text, and its database
\* implements the spine: what the run reader_paced checks on two documents.
COROLLARY PacedReadersImplementSpine ==
    ASSUME ~UseFreeMode, MaxFaults = 0
    PROVE  Spec => []PacedReadingIsSettled /\ ImplementsSpine
  BY PacedReadersAreQuiet, QuietReadingIsSettled, QuietReadingImplementsSpine, PTL

===============================================================================
