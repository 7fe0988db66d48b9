---------------------------- MODULE Arrivals_proofs ----------------------------
(***************************************************************************)
(* Theorems about documents coming in, for any number of requests, any     *)
(* names and contents, and any bounds: however knocks, uploads, deletions  *)
(* and restarts interleave, a ready document can be opened, a dropped file *)
(* is not lost, requests that do not fight over a file leave no            *)
(* duplicates, and a row is left half done by a loss of its own only.      *)
(***************************************************************************)
EXTENDS Arrivals, FiniteSetTheorems, TLAPS

-----------------------------------------------------------------------------
(* What the helpers do *)

\* The other requests are where they were.
Others(k) == \A j \in Requests \ {k} : request'[j] = request[j]

\* Request k goes on with what it has.
Moves(k, step) ==
  /\ request' \in [Requests -> Tasks]
  /\ Others(k)
  /\ request'[k].step = step
  /\ request'[k].suffix = request[k].suffix
  /\ request'[k].name = request[k].name
  /\ request'[k].text = request[k].text
  /\ request'[k].doc = request[k].doc

\* Request k has answered.
Rests(k) ==
  /\ request' \in [Requests -> Tasks]
  /\ Others(k)
  /\ request'[k].step = "idle" /\ request'[k].doc = 0
  /\ request'[k].text = None

\* Request k takes this up.
Starts(k, step, suffix, name, text, d) ==
  /\ request' \in [Requests -> Tasks]
  /\ Others(k)
  /\ request[k].step = "idle"
  /\ request'[k].step = step
  /\ request'[k].suffix = suffix
  /\ request'[k].name = name
  /\ request'[k].text = text
  /\ request'[k].doc = d

LEMMA GoOnMoves ==
  ASSUME request \in [Requests -> Tasks], NEW k \in Requests, NEW step \in Steps,
         GoOn(k, step)
  PROVE  Moves(k, step)
BY DEF GoOn, Moves, Others, Tasks

LEMMA IdleIsTask == Idle \in Tasks
BY DEF Idle, Tasks, Steps, Suffixes

LEMMA AnswerRests ==
  ASSUME request \in [Requests -> Tasks], NEW k \in Requests, Answer(k)
  PROVE  Rests(k)
<1>1. request' \in [Requests -> Tasks]
  BY IdleIsTask DEF Answer
<1>2. request'[k] = Idle /\ Others(k)
  BY DEF Answer, Others
<1> QED
  BY <1>1, <1>2 DEF Rests, Idle

LEMMA BeginStarts ==
  ASSUME request \in [Requests -> Tasks], NEW k \in Requests,
         NEW step \in Steps, NEW suffix \in Suffixes, NEW name \in Names \cup {None},
         NEW text \in Contents \cup {None}, NEW d \in DocIds \cup {0},
         NEW onLoop \in BOOLEAN,
         Begin(k, step, suffix, name, text, d, onLoop)
  PROVE  Starts(k, step, suffix, name, text, d)
<1> DEFINE r == [step |-> step, suffix |-> suffix, name |-> name, text |-> text,
                 doc |-> d, onLoop |-> onLoop]
<1>1. r \in Tasks
  BY DEF Tasks
<1>2. /\ request[k].step = "idle"
      /\ request' = [request EXCEPT ![k] = r]
  BY DEF Begin, At
<1>3. /\ r.step = step /\ r.suffix = suffix /\ r.name = name /\ r.text = text
      /\ r.doc = d
  OBVIOUS
<1> HIDE DEF r
<1> QED
  BY <1>1, <1>2, <1>3 DEF Starts, Others

\* Only the status of the row changes, if there is a row.
StatusBecomes(d, status) ==
  /\ \A e \in DocIds \ {d} : documents'[e] = documents[e]
  /\ documents[d] = None => documents'[d] = None
  /\ documents[d] # None => /\ documents'[d] # None
                            /\ documents'[d].status = status
                            /\ documents'[d].hash = documents[d].hash
                            /\ documents'[d].suffix = documents[d].suffix

LEMMA SetStatusEffect ==
  ASSUME documents \in [DocIds -> Rows \cup {None}], NEW d \in DocIds,
         NEW status \in Statuses, SetStatus(d, status)
  PROVE  StatusBecomes(d, status) /\ documents' \in [DocIds -> Rows \cup {None}]
<1>1. CASE documents[d] = None
  BY <1>1 DEF SetStatus, StatusBecomes
<1>2. CASE documents[d] # None
  <2>1. documents[d] \in Rows
    BY <1>2
  <2> DEFINE row == [documents[d] EXCEPT !.status = status]
  <2>2. /\ row \in Rows /\ row.status = status /\ row.hash = documents[d].hash
        /\ row.suffix = documents[d].suffix
    BY <2>1 DEF Rows
  <2>3. documents' = [documents EXCEPT ![d] = row]
    BY <1>2 DEF SetStatus
  <2>4. row # None
    BY <2>2, ArrivalsAssumption
  <2> HIDE DEF row
  <2> QED
    BY <1>2, <2>2, <2>3, <2>4 DEF StatusBecomes
<1> QED
  BY <1>1, <1>2

\* A row is a row, and not the absence of one.
LEMMA RowTyped ==
  ASSUME NEW status \in Statuses, NEW hash \in Contents \cup {None},
         NEW suffix \in Suffixes
  PROVE  /\ Row(status, hash, suffix) \in Rows
         /\ Row(status, hash, suffix) # None
         /\ Row(status, hash, suffix).status = status
         /\ Row(status, hash, suffix).hash = hash
         /\ Row(status, hash, suffix).suffix = suffix
<1>1. Row(status, hash, suffix) \in Rows
  BY DEF Row, Rows
<1> QED
  BY <1>1, ArrivalsAssumption DEF Row

\* Requests in the middle of an insertion are counted with a number.
LEMMA PromisedNat == Promised \in Nat
<1>1. IsFiniteSet({k \in Requests : At(k, "inserting")})
  BY ArrivalsAssumption, FS_Subset
<1> QED
  BY <1>1, FS_CardinalityType DEF Promised

LEMMA DocIdsNumbers == DocIds \subseteq Int /\ 0 \notin DocIds /\ MaxDocs \in Nat
BY ArrivalsAssumption DEF DocIds

-----------------------------------------------------------------------------
(* What each action does *)

\* A row appears under the next id.
Appears(status, hash, suffix) ==
  /\ nextId \in DocIds /\ nextId' = nextId + 1
  /\ documents' \in [DocIds -> Rows \cup {None}]
  /\ \A e \in DocIds \ {nextId} : documents'[e] = documents[e]
  /\ documents'[nextId] # None
  /\ documents'[nextId].status = status
  /\ documents'[nextId].hash = hash
  /\ documents'[nextId].suffix = suffix

LEMMA RowAppears ==
  ASSUME TypeOK, nextId <= MaxDocs, nextId' = nextId + 1,
         NEW status \in Statuses, NEW hash \in Contents \cup {None},
         NEW suffix \in Suffixes,
         documents' = [documents EXCEPT ![nextId] = Row(status, hash, suffix)]
  PROVE  Appears(status, hash, suffix)
<1>1. nextId \in DocIds
  BY ArrivalsAssumption DEF TypeOK, DocIds
<1>2. documents \in [DocIds -> Rows \cup {None}]
  BY DEF TypeOK
<1> DEFINE row == Row(status, hash, suffix)
<1>3. /\ row \in Rows /\ row # None
      /\ row.status = status /\ row.hash = hash /\ row.suffix = suffix
  BY RowTyped
<1>4. documents' = [documents EXCEPT ![nextId] = row]
  OBVIOUS
<1> HIDE DEF row
<1> QED
  BY <1>1, <1>2, <1>3, <1>4 DEF Appears

\* A row and its chunks go.
Disappears(d) ==
  /\ documents' \in [DocIds -> Rows \cup {None}]
  /\ \A e \in DocIds \ {d} : documents'[e] = documents[e]
  /\ documents'[d] = None
  /\ chunks' = chunks \ {d}

LEMMA RowDisappears ==
  ASSUME TypeOK, NEW d \in DocIds, Forget(d)
  PROVE  Disappears(d)
BY DEF TypeOK, Forget, Disappears

LEMMA LookEffect ==
  ASSUME TypeOK, NEW k \in Requests, NEW n \in Names, NEW c \in Contents,
         NEW onLoop \in BOOLEAN, Look(k, n, c, onLoop)
  PROVE  /\ Starts(k, "inserting", Suffix[n], n, c, 0)
         /\ ~ KnownHash(c)
         /\ raced' = (raced \/ Overlaps(k, c, 0))
         /\ raced' \in BOOLEAN
<1>1. Begin(k, "inserting", Suffix[n], n, c, 0, onLoop)
  BY DEF Look
<1>2. Suffix[n] \in Suffixes /\ "inserting" \in Steps
  BY ArrivalsAssumption DEF Steps
<1>3. request \in [Requests -> Tasks]
  BY DEF TypeOK
<1>4. Starts(k, "inserting", Suffix[n], n, c, 0)
  BY <1>1, <1>2, <1>3, BeginStarts
<1> QED
  BY <1>4 DEF Look, TypeOK

LEMMA InsertEffect ==
  ASSUME TypeOK, NEW k \in Requests, Insert(k)
  PROVE  /\ request[k].step = "inserting"
         /\ request' \in [Requests -> Tasks] /\ Others(k)
         /\ request'[k].step = "moving" /\ request'[k].doc = nextId
         /\ request'[k].suffix = request[k].suffix
         /\ request'[k].name = request[k].name
         /\ request'[k].text = request[k].text
         /\ Appears(IF request[k].suffix = "pdf" THEN "converting" ELSE "processing",
                    request[k].text, request[k].suffix)
         /\ UNCHANGED <<files, chunks, jobs, history, counts>>
<1> DEFINE status == IF request[k].suffix = "pdf" THEN "converting" ELSE "processing"
<1>1. /\ request[k] \in Tasks /\ request \in [Requests -> Tasks]
      /\ request[k].text \in Contents \cup {None} /\ request[k].suffix \in Suffixes
  BY DEF TypeOK, Tasks
<1>2. nextId <= MaxDocs /\ nextId \in DocIds
  BY ArrivalsAssumption DEF Insert, TypeOK, DocIds
<1>3. status \in Statuses
  BY DEF Statuses
<1>4. /\ documents' = [documents EXCEPT ![nextId] =
                         Row(status, request[k].text, request[k].suffix)]
      /\ nextId' = nextId + 1
  BY DEF Insert
<1> HIDE DEF status
<1>5. Appears(status, request[k].text, request[k].suffix)
  BY <1>1, <1>2, <1>3, <1>4, RowAppears
<1>6. /\ request[k].step = "inserting"
      /\ request' = [request EXCEPT ![k] =
                       [request[k] EXCEPT !.step = "moving", !.doc = nextId]]
  BY DEF Insert, At
<1>7. /\ request' \in [Requests -> Tasks] /\ Others(k)
      /\ request'[k].step = "moving" /\ request'[k].doc = nextId
      /\ request'[k].suffix = request[k].suffix
      /\ request'[k].name = request[k].name
      /\ request'[k].text = request[k].text
  BY <1>1, <1>2, <1>6 DEF Tasks, Steps, Others
<1> QED
  BY <1>5, <1>6, <1>7 DEF Insert, status

LEMMA MoveEffect ==
  ASSUME TypeOK, NEW k \in Requests, Move(k), Doc(k) \in DocIds,
         request[k].name \in Names
  PROVE  LET n == request[k].name
             c == raw[n]
         IN  /\ request[k].step = "moving"
             /\ request' \in [Requests -> Tasks] /\ Others(k)
             /\ request'[k].step = AfterMove(request[k].suffix)
             /\ request'[k].suffix = request[k].suffix
             /\ request'[k].doc = request[k].doc
             /\ request'[k].text = c
             /\ c \in Contents /\ c # None
             /\ raw' \in [Names -> Contents \cup {None}]
             /\ \A m \in Names \ {n} : raw'[m] = raw[m]
             /\ raw'[n] = None
             /\ originals' \in [DocIds -> Directories]
             /\ \A e \in DocIds \ {Doc(k)} : originals'[e] = originals[e]
             /\ request[k].suffix = "md" =>
                  /\ originals'[Doc(k)].document = c
                  /\ originals'[Doc(k)].source = originals[Doc(k)].source
             /\ request[k].suffix # "md" =>
                  /\ originals'[Doc(k)].source = c
                  /\ originals'[Doc(k)].document = originals[Doc(k)].document
             /\ UNCHANGED <<converted, documents, chunks, nextId, jobs, history, counts>>
<1> DEFINE n == request[k].name
           c == raw[n]
           d == Doc(k)
<1>1. /\ request \in [Requests -> Tasks] /\ request[k] \in Tasks
      /\ raw \in [Names -> Contents \cup {None}]
      /\ originals \in [DocIds -> Directories]
  BY DEF TypeOK
<1>2. request[k].step = "moving" /\ c # None /\ c \in Contents /\ n \in Names
  BY <1>1 DEF Move, At
<1>3. AfterMove(request[k].suffix) \in Steps
  BY DEF AfterMove, Steps
<1>4. request' = [request EXCEPT ![k] =
                    [request[k] EXCEPT !.step = AfterMove(request[k].suffix),
                                       !.name = None, !.text = c]]
  BY DEF Move
<1>5. raw' = [raw EXCEPT ![n] = None] /\ Stored(d, request[k].suffix, c)
  BY DEF Move, Doc
<1>6. UNCHANGED <<converted, documents, chunks, nextId, jobs, history, counts>>
  BY DEF Move
<1> HIDE DEF c
<1>7. /\ request' \in [Requests -> Tasks] /\ Others(k)
      /\ request'[k].step = AfterMove(request[k].suffix)
      /\ request'[k].suffix = request[k].suffix
      /\ request'[k].doc = request[k].doc
      /\ request'[k].text = c
  BY <1>1, <1>2, <1>3, <1>4 DEF Tasks, Others
<1> HIDE DEF n, d
<1>8. /\ raw' \in [Names -> Contents \cup {None}]
      /\ \A m \in Names \ {n} : raw'[m] = raw[m]
      /\ raw'[n] = None
  BY <1>1, <1>2, <1>5
<1>9. /\ originals' \in [DocIds -> Directories]
      /\ \A e \in DocIds \ {d} : originals'[e] = originals[e]
      /\ request[k].suffix = "md" => /\ originals'[d].document = c
                                     /\ originals'[d].source = originals[d].source
      /\ request[k].suffix # "md" => /\ originals'[d].source = c
                                     /\ originals'[d].document = originals[d].document
  <2>1. d \in DocIds /\ originals[d] \in Directories
    BY <1>1 DEF d
  <2> QED
    BY <1>1, <1>2, <1>5, <2>1 DEF Stored, Directories
<1> QED
  BY <1>2, <1>6, <1>7, <1>8, <1>9 DEF c, n, d

\* The conclusions below are about a request that goes on, answers or begins,
\* and about what its step leaves in the store.
LEMMA MoveFailsEffect ==
  ASSUME TypeOK, NEW k \in Requests, MoveFails(k)
  PROVE  /\ request[k].step = "moving"
         /\ \/ request[k].suffix = "other" /\ Rests(k)
            \/ request[k].suffix # "other" /\ Moves(k, "failing")
         /\ \/ raw[request[k].name] = None
            \/ request[k].suffix = "md" /\ raw[request[k].name] \notin Decodable
         /\ UNCHANGED <<files, documents, chunks, nextId, jobs, history, counts>>
<1>1. request \in [Requests -> Tasks] /\ "failing" \in Steps
  BY DEF TypeOK, Steps
<1>2. CASE request[k].suffix = "other"
  BY <1>1, <1>2, AnswerRests DEF MoveFails, At
<1>3. CASE request[k].suffix # "other"
  BY <1>1, <1>3, GoOnMoves DEF MoveFails, At
<1> QED
  BY <1>2, <1>3

LEMMA AnswerPdfEffect ==
  ASSUME TypeOK, NEW k \in Requests, AnswerPdf(k)
  PROVE  /\ request[k].step = "answering" /\ Rests(k)
         /\ jobs' = jobs \cup {request[k].doc}
         /\ UNCHANGED <<files, documents, chunks, nextId, history, counts>>
BY AnswerRests DEF TypeOK, AnswerPdf, At, Doc

LEMMA ParseEffect ==
  ASSUME TypeOK, NEW k \in Requests, Parse(k)
  PROVE  /\ request[k].step = "parsing"
         /\ Moves(k, "persisting") \/ Moves(k, "failing")
         /\ UNCHANGED <<files, documents, chunks, nextId, jobs, history, counts>>
<1>1. request \in [Requests -> Tasks] /\ {"persisting", "failing"} \subseteq Steps
  BY DEF TypeOK, Steps
<1>2. GoOn(k, "persisting") \/ GoOn(k, "failing")
  BY DEF Parse
<1> QED
  BY <1>1, <1>2, GoOnMoves DEF Parse, At

LEMMA PersistEffect ==
  ASSUME TypeOK, NEW k \in Requests, Persist(k)
  PROVE  /\ request[k].step = "persisting"
         /\ \/ Moves(k, "failing") /\ UNCHANGED chunks
            \/ /\ Moves(k, "finishing")
               /\ documents[request[k].doc] # None
               /\ chunks' = chunks \cup {request[k].doc}
         /\ UNCHANGED <<files, documents, nextId, jobs, history, counts>>
<1>1. request \in [Requests -> Tasks] /\ {"finishing", "failing"} \subseteq Steps
  BY DEF TypeOK, Steps
<1>2. \/ GoOn(k, "failing") /\ UNCHANGED chunks
      \/ /\ GoOn(k, "finishing") /\ documents[request[k].doc] # None
         /\ chunks' = chunks \cup {request[k].doc}
  BY DEF Persist, Doc
<1> QED
  BY <1>1, <1>2, GoOnMoves DEF Persist, At

LEMMA MarkReadyEffect ==
  ASSUME TypeOK, NEW k \in Requests, MarkReady(k), request[k].doc \in DocIds
  PROVE  /\ request[k].step = "finishing" /\ Rests(k)
         /\ StatusBecomes(request[k].doc, "ready")
         /\ documents' \in [DocIds -> Rows \cup {None}]
         /\ UNCHANGED <<files, chunks, nextId, jobs, history, counts>>
<1>1. "ready" \in Statuses /\ SetStatus(request[k].doc, "ready")
  BY DEF Statuses, MarkReady, Doc
<1> QED
  BY <1>1, SetStatusEffect, AnswerRests DEF TypeOK, MarkReady, At

LEMMA MarkFailedEffect ==
  ASSUME TypeOK, NEW k \in Requests, MarkFailed(k), request[k].doc \in DocIds
  PROVE  /\ request[k].step = "failing" /\ Rests(k)
         /\ StatusBecomes(request[k].doc, "failed")
         /\ documents' \in [DocIds -> Rows \cup {None}]
         /\ UNCHANGED <<files, chunks, nextId, jobs, history, counts>>
<1>1. "failed" \in Statuses /\ SetStatus(request[k].doc, "failed")
  BY DEF Statuses, MarkFailed, Doc
<1> QED
  BY <1>1, SetStatusEffect, AnswerRests DEF TypeOK, MarkFailed, At

LEMMA KnockConvertedEffect ==
  ASSUME TypeOK, NEW k \in Requests, NEW d \in DocIds, KnockConverted(k, d)
  PROVE  /\ Starts(k, "reading", "pdf", None, None, d)
         /\ documents[d] # None /\ documents[d].status # "ready"
         /\ converted[d] # None
         /\ raced' = (raced \/ Overlaps(k, None, d)) /\ raced' \in BOOLEAN
         /\ UNCHANGED <<files, documents, chunks, nextId, jobs, dropped, discarded,
                        lost, counts>>
<1>1. /\ request \in [Requests -> Tasks] /\ "reading" \in Steps /\ "pdf" \in Suffixes
  BY DEF TypeOK, Steps, Suffixes
<1>2. Begin(k, "reading", "pdf", None, None, d, FALSE)
  BY DEF KnockConverted
<1>3. Starts(k, "reading", "pdf", None, None, d)
  BY <1>1, <1>2, BeginStarts
<1> QED
  BY <1>3 DEF KnockConverted, TypeOK

LEMMA ReadEffect ==
  ASSUME TypeOK, NEW k \in Requests, Read(k), request[k].doc \in DocIds
  PROVE  /\ request[k].step = "reading"
         /\ request' \in [Requests -> Tasks] /\ Others(k)
         /\ request'[k].doc = request[k].doc
         /\ \/ request'[k].step = "failing"
            \/ request'[k].step = "storing" /\ request'[k].text \in Decodable
         /\ UNCHANGED <<files, documents, chunks, nextId, jobs, history, counts>>
<1> DEFINE text == converted[request[k].doc]
           step == IF text \in Decodable THEN "storing" ELSE "failing"
<1>1. /\ request \in [Requests -> Tasks] /\ request[k] \in Tasks
      /\ text \in Contents \cup {None} /\ step \in Steps
  BY DEF TypeOK, Steps
<1>2. request' = [request EXCEPT ![k] = [request[k] EXCEPT !.step = step, !.text = text]]
  BY DEF Read, Doc
<1>3. step = "failing" \/ (step = "storing" /\ text \in Decodable)
  OBVIOUS
<1> HIDE DEF text, step
<1>4. /\ request' \in [Requests -> Tasks] /\ Others(k)
      /\ request'[k].doc = request[k].doc
      /\ request'[k].step = step /\ request'[k].text = text
  BY <1>1, <1>2 DEF Tasks, Others
<1> QED
  BY <1>3, <1>4 DEF Read, At

LEMMA StoreEffect ==
  ASSUME TypeOK, NEW k \in Requests, Store(k), request[k].doc \in DocIds,
         request[k].text \in Contents
  PROVE  LET d == request[k].doc
         IN  /\ request[k].step = "storing" /\ Moves(k, "parsing")
             /\ originals' \in [DocIds -> Directories]
             /\ \A e \in DocIds \ {d} : originals'[e] = originals[e]
             /\ originals'[d].document = request[k].text
             /\ originals'[d].source = originals[d].source
             /\ converted' \in [DocIds -> Contents \cup {None}]
             /\ \A e \in DocIds \ {d} : converted'[e] = converted[e]
             /\ converted'[d] = None
             /\ UNCHANGED <<raw, documents, chunks, nextId, jobs, history, counts>>
<1> DEFINE d == request[k].doc
           c == request[k].text
<1>1. /\ request \in [Requests -> Tasks] /\ "parsing" \in Steps
      /\ originals \in [DocIds -> Directories] /\ originals[d] \in Directories
      /\ converted \in [DocIds -> Contents \cup {None}]
  BY DEF TypeOK, Steps
<1>2. /\ originals' = [originals EXCEPT ![d] = [originals[d] EXCEPT !.document = c]]
      /\ converted' = [converted EXCEPT ![d] = None]
  BY DEF Store, Stored, Doc
<1>3. Moves(k, "parsing")
  BY <1>1, GoOnMoves DEF Store
<1> HIDE DEF d, c
<1>4. d \in DocIds /\ c \in Contents
  BY DEF d, c
<1>5. /\ originals' \in [DocIds -> Directories]
      /\ \A e \in DocIds \ {d} : originals'[e] = originals[e]
      /\ originals'[d].document = c
      /\ originals'[d].source = originals[d].source
  BY <1>1, <1>2, <1>4 DEF Directories
<1>6. /\ converted' \in [DocIds -> Contents \cup {None}]
      /\ \A e \in DocIds \ {d} : converted'[e] = converted[e]
      /\ converted'[d] = None
  BY <1>1, <1>2, <1>4
<1> QED
  BY <1>3, <1>5, <1>6 DEF Store, At, d, c

LEMMA SubmitUrlEffect ==
  ASSUME TypeOK, NEW k \in Requests, SubmitUrl(k)
  PROVE  /\ Starts(k, "submitting", "pdf", None, None, nextId)
         /\ Appears("converting", None, "pdf")
         /\ arrivals' = arrivals + 1
         /\ UNCHANGED <<files, chunks, jobs, history, deletes, crashes>>
<1>1. nextId <= MaxDocs /\ nextId \in DocIds
  BY PromisedNat, ArrivalsAssumption DEF SubmitUrl, TypeOK, DocIds
<1>2. /\ request \in [Requests -> Tasks] /\ "submitting" \in Steps
      /\ "pdf" \in Suffixes /\ "converting" \in Statuses
  BY DEF TypeOK, Steps, Suffixes, Statuses
<1>3. PICK onLoop \in BOOLEAN :
        Begin(k, "submitting", "pdf", None, None, nextId, onLoop)
  BY DEF SubmitUrl
<1>4. Starts(k, "submitting", "pdf", None, None, nextId)
  BY <1>1, <1>2, <1>3, BeginStarts
<1>5. /\ nextId' = nextId + 1
      /\ documents' = [documents EXCEPT ![nextId] = Row("converting", None, "pdf")]
  BY DEF SubmitUrl
<1>6. Appears("converting", None, "pdf")
  BY <1>1, <1>2, <1>5, RowAppears
<1> QED
  BY <1>4, <1>6 DEF SubmitUrl

LEMMA SubmitAcceptedEffect ==
  ASSUME TypeOK, NEW k \in Requests, SubmitAccepted(k)
  PROVE  /\ request[k].step = "submitting" /\ Rests(k)
         /\ jobs' = jobs \cup {request[k].doc}
         /\ UNCHANGED <<files, documents, chunks, nextId, history, counts>>
BY AnswerRests DEF TypeOK, SubmitAccepted, At, Doc

LEMMA SubmitFailsEffect ==
  ASSUME TypeOK, NEW k \in Requests, SubmitFails(k)
  PROVE  /\ request[k].step = "submitting" /\ Moves(k, "withdrawing")
         /\ UNCHANGED jobs \/ jobs' = jobs \cup {request[k].doc}
         /\ UNCHANGED <<files, documents, chunks, nextId, history, counts>>
<1>1. request \in [Requests -> Tasks] /\ "withdrawing" \in Steps
  BY DEF TypeOK, Steps
<1> QED
  BY <1>1, GoOnMoves DEF SubmitFails, At, Doc

LEMMA WithdrawEffect ==
  ASSUME TypeOK, NEW k \in Requests, Withdraw(k), request[k].doc \in DocIds
  PROVE  /\ request[k].step = "withdrawing" /\ Rests(k)
         /\ Disappears(request[k].doc)
         /\ UNCHANGED <<files, nextId, jobs, history, counts>>
<1>1. Forget(request[k].doc)
  BY DEF Withdraw, Doc
<1> QED
  BY <1>1, RowDisappears, AnswerRests DEF TypeOK, Withdraw, At

\* An answer or a withdrawal that is lost changes nothing but the request.
LEMMA LossEffect ==
  ASSUME TypeOK, NEW k \in Requests, AnswerLost(k) \/ WithdrawFails(k)
  PROVE  /\ request[k].step \in {"answering", "withdrawing"} /\ Rests(k)
         /\ lost' = lost \cup {request[k].doc}
         /\ UNCHANGED <<files, documents, chunks, nextId, jobs, dropped, discarded,
                        raced, counts>>
BY AnswerRests DEF TypeOK, AnswerLost, WithdrawFails, At, Doc

LEMMA DeleteEffect ==
  ASSUME TypeOK, NEW k \in Requests, NEW d \in DocIds, Delete(k, d)
  PROVE  /\ Starts(k, "removing", "md", None, None, d)
         /\ documents[d] # None /\ Disappears(d)
         /\ discarded' = discarded \cup ({documents[d].hash} \ {None})
         /\ deletes' = deletes + 1
         /\ UNCHANGED <<files, nextId, jobs, dropped, raced, lost, arrivals, crashes>>
<1>1. /\ request \in [Requests -> Tasks] /\ "removing" \in Steps /\ "md" \in Suffixes
  BY DEF TypeOK, Steps, Suffixes
<1>2. Begin(k, "removing", "md", None, None, d, FALSE)
  BY DEF Delete
<1>3. Starts(k, "removing", "md", None, None, d)
  BY <1>1, <1>2, BeginStarts
<1> QED
  BY <1>3, RowDisappears DEF Delete

LEMMA RemoveDirectoryEffect ==
  ASSUME TypeOK, NEW k \in Requests, RemoveDirectory(k), request[k].doc \in DocIds
  PROVE  /\ request[k].step = "removing" /\ Rests(k)
         /\ originals' \in [DocIds -> Directories]
         /\ \A e \in DocIds \ {request[k].doc} : originals'[e] = originals[e]
         /\ originals'[request[k].doc] = NoDirectory
         /\ UNCHANGED <<raw, converted, documents, chunks, nextId, jobs, history, counts>>
<1>1. NoDirectory \in Directories
  BY DEF NoDirectory, Directories
<1> QED
  BY <1>1, AnswerRests DEF TypeOK, RemoveDirectory, At, Doc

LEMMA PutEffect ==
  ASSUME TypeOK, NEW n \in Names, NEW c \in Contents, Put(n, c)
  PROVE  /\ raw' \in [Names -> Contents \cup {None}]
         /\ raw[n] = None /\ raw'[n] = c
         /\ \A m \in Names \ {n} : raw'[m] = raw[m]
         /\ dropped' = dropped \cup {c}
         /\ arrivals' = arrivals + 1
BY DEF TypeOK, Put

LEMMA CrashEffect ==
  ASSUME TypeOK, Crash
  PROVE  /\ request' \in [Requests -> Tasks]
         /\ \A k \in Requests : request'[k].step = "idle" /\ request'[k].doc = 0
         /\ crashes' = crashes + 1
         /\ UNCHANGED <<files, documents, chunks, nextId, jobs, history, arrivals, deletes>>
<1>1. request' = [k \in Requests |-> Idle]
  BY DEF Crash
<1> QED
  BY <1>1, IdleIsTask DEF Crash, Idle

-----------------------------------------------------------------------------
(* Every request knows the document it works on *)

\* From the insertion on a request has a document, an id that has been given
\* out; before it, it has a name and a text.
Assigned(k) ==
  /\ request[k].step \in {"idle", "inserting"} => request[k].doc = 0
  /\ request[k].step \notin {"idle", "inserting"}
       => request[k].doc \in DocIds /\ request[k].doc < nextId
  /\ request[k].step \in {"inserting", "moving"}
       => request[k].name \in Names /\ request[k].text \in Contents
  /\ request[k].step = "storing" => request[k].text \in Decodable

\* Nothing is kept under an id that has not been given out.
Unborn(d) ==
  /\ documents[d] = None /\ originals[d] = NoDirectory
  /\ d \notin jobs /\ converted[d] = None

Formed ==
  /\ TypeOK
  /\ \A k \in Requests : Assigned(k)
  /\ \A d \in DocIds : d >= nextId => Unborn(d)

LEMMA OthersStayAssigned ==
  ASSUME Formed, NEW k \in Requests, Others(k), Assigned(k)',
         nextId' = nextId \/ nextId' = nextId + 1
  PROVE  \A j \in Requests : Assigned(j)'
<1> SUFFICES ASSUME NEW j \in Requests \ {k} PROVE Assigned(j)'
  OBVIOUS
<1>1. request'[j] = request[j] /\ Assigned(j)
  BY DEF Others, Formed
<1>2. nextId \in Int /\ DocIds \subseteq Int
  BY DocIdsNumbers, ArrivalsAssumption DEF Formed, TypeOK
<1>3. \A d \in DocIds : d < nextId => d < nextId'
  BY <1>2
<1> QED
  BY <1>1, <1>3 DEF Assigned

\* A step that leaves the store alone but for a queued conversion.
LEMMA FormedRequestStep ==
  ASSUME Formed, NEW k \in Requests, Others(k), Assigned(k)',
         request' \in [Requests -> Tasks],
         jobs' = jobs \/ (jobs' = jobs \cup {request[k].doc}
                            /\ request[k].step \notin {"idle", "inserting"}),
         raced' \in BOOLEAN, raw' = raw \/ raw' \in [Names -> Contents \cup {None}],
         dropped' \subseteq Contents, arrivals' \in Nat, lost' \subseteq DocIds,
         UNCHANGED <<converted, originals, documents, chunks, nextId, discarded,
                     deletes, crashes>>
  PROVE  Formed'
<1>1. \A j \in Requests : Assigned(j)'
  BY OthersStayAssigned
<1>2. nextId \in Int /\ DocIds \subseteq Int
  BY DocIdsNumbers, ArrivalsAssumption DEF Formed, TypeOK
<1>3. Assigned(k)
  BY DEF Formed
<1>4. TypeOK'
  <2>1. jobs' \subseteq DocIds
    BY <1>3 DEF Formed, TypeOK, Assigned
  <2>2. raw' \in [Names -> Contents \cup {None}]
    BY DEF Formed, TypeOK
  <2> QED
    BY <2>1, <2>2 DEF Formed, TypeOK
<1>5. \A d \in DocIds : d >= nextId => Unborn(d)'
  BY <1>2, <1>3 DEF Formed, Unborn, Assigned
<1> QED
  BY <1>1, <1>4, <1>5 DEF Formed

LEMMA RestsAssigned ==
  ASSUME NEW k \in Requests, Rests(k)
  PROVE  Assigned(k)' /\ Others(k) /\ request' \in [Requests -> Tasks]
BY DEF Rests, Assigned

LEMMA MovesAssigned ==
  ASSUME NEW k \in Requests, NEW step, Moves(k, step), Assigned(k),
         request[k].step \notin {"idle", "inserting"},
         step \notin {"idle", "inserting", "moving", "storing"}, nextId' = nextId
  PROVE  Assigned(k)' /\ Others(k) /\ request' \in [Requests -> Tasks]
BY DEF Moves, Assigned

\* Every step keeps requests, rows and files in form.
LEMMA FormedStep ==
  ASSUME Formed, [Next]_vars
  PROVE  Formed'
<1> USE DEF files, history, counts
<1>1. TypeOK /\ \A k \in Requests : Assigned(k)
  BY DEF Formed
<1>2. /\ nextId \in Int /\ DocIds \subseteq Int
      /\ {arrivals, deletes, crashes} \subseteq Nat
      /\ dropped \subseteq Contents /\ raced \in BOOLEAN /\ lost \subseteq DocIds
  BY DocIdsNumbers, ArrivalsAssumption DEF Formed, TypeOK
<1>3. ASSUME NEW n \in Names, NEW c \in Contents, Drop(n, c) PROVE Formed'
  <2>1. Put(n, c)
    BY <1>3 DEF Drop
  <2>2. /\ raw' \in [Names -> Contents \cup {None}] /\ dropped' = dropped \cup {c}
        /\ arrivals' = arrivals + 1
    BY <1>1, <2>1, PutEffect
  <2>3. TypeOK'
    BY <1>1, <1>2, <1>3, <2>2 DEF Drop, TypeOK
  <2> QED
    BY <1>3, <2>3 DEF Drop, Formed, Assigned, Unborn
<1>4. ASSUME NEW k \in Requests, NEW n \in Names, NEW c \in Contents, Upload(k, n, c)
      PROVE  Formed'
  <2>1. Put(n, c) /\ Look(k, n, c, TRUE)
    BY <1>4 DEF Upload
  <2>2. /\ raw' \in [Names -> Contents \cup {None}] /\ dropped' = dropped \cup {c}
        /\ arrivals' = arrivals + 1
    BY <1>1, <2>1, PutEffect
  <2>3. Starts(k, "inserting", Suffix[n], n, c, 0) /\ raced' \in BOOLEAN
    BY <1>1, <2>1, LookEffect
  <2>4. Assigned(k)' /\ Others(k) /\ request' \in [Requests -> Tasks]
    BY <2>3 DEF Starts, Assigned
  <2>5. arrivals' \in Nat /\ dropped' \subseteq Contents /\ lost' \subseteq DocIds
    BY <1>2, <1>4, <2>2 DEF Upload
  <2> QED
    BY <1>4, <2>2, <2>3, <2>4, <2>5, FormedRequestStep DEF Upload
<1>5. ASSUME NEW k \in Requests, NEW n \in Names, KnockRaw(k, n) PROVE Formed'
  <2>1. raw[n] \in Contents /\ Look(k, n, raw[n], FALSE)
    BY <1>1, <1>5 DEF KnockRaw, TypeOK
  <2>2. Starts(k, "inserting", Suffix[n], n, raw[n], 0) /\ raced' \in BOOLEAN
    BY <1>1, <2>1, LookEffect
  <2>3. Assigned(k)' /\ Others(k) /\ request' \in [Requests -> Tasks]
    BY <2>1, <2>2 DEF Starts, Assigned
  <2> QED
    BY <1>2, <1>5, <2>2, <2>3, FormedRequestStep DEF KnockRaw
<1>6. ASSUME NEW k \in Requests, Insert(k) PROVE Formed'
  <2>1. /\ request[k].step = "inserting" /\ Others(k)
        /\ request' \in [Requests -> Tasks]
        /\ request'[k].step = "moving" /\ request'[k].doc = nextId
        /\ request'[k].name = request[k].name
        /\ request'[k].text = request[k].text
        /\ nextId \in DocIds /\ nextId' = nextId + 1
        /\ documents' \in [DocIds -> Rows \cup {None}]
        /\ \A e \in DocIds \ {nextId} : documents'[e] = documents[e]
        /\ documents'[nextId] # None
        /\ UNCHANGED <<files, chunks, jobs, history, counts>>
    BY <1>1, <1>6, InsertEffect DEF Appears
  <2>2. Assigned(k)'
    BY <1>1, <1>2, <2>1 DEF Assigned
  <2>3. \A j \in Requests : Assigned(j)'
    BY <2>1, <2>2, OthersStayAssigned
  <2>4. TypeOK'
    <3>1. nextId' \in 1..(MaxDocs + 1)
      BY <1>2, <2>1, DocIdsNumbers DEF DocIds
    <3>2. chunks' \subseteq {d \in DocIds : documents'[d] # None}
      BY <1>1, <2>1 DEF TypeOK
    <3> QED
      BY <1>1, <2>1, <3>1, <3>2 DEF TypeOK
  <2>5. \A d \in DocIds : d >= nextId' => Unborn(d)'
    BY <1>2, <2>1 DEF Formed, Unborn
  <2> QED
    BY <2>3, <2>4, <2>5 DEF Formed
<1>7. ASSUME NEW k \in Requests, Move(k) PROVE Formed'
  <2>1. request[k].step = "moving"
    BY <1>7 DEF Move, At
  <2>2. Doc(k) \in DocIds /\ request[k].doc < nextId /\ request[k].name \in Names
    BY <1>1, <2>1 DEF Assigned, Doc
  <2>3. /\ request' \in [Requests -> Tasks] /\ Others(k)
        /\ request'[k].step = AfterMove(request[k].suffix)
        /\ request'[k].doc = request[k].doc
        /\ raw' \in [Names -> Contents \cup {None}]
        /\ originals' \in [DocIds -> Directories]
        /\ \A e \in DocIds \ {Doc(k)} : originals'[e] = originals[e]
        /\ UNCHANGED <<converted, documents, chunks, nextId, jobs, history, counts>>
    BY <1>1, <1>7, <2>2, MoveEffect
  <2>4. Assigned(k)'
    BY <1>1, <2>1, <2>2, <2>3 DEF Assigned, AfterMove, Doc
  <2>5. \A j \in Requests : Assigned(j)'
    BY <2>3, <2>4, OthersStayAssigned
  <2>6. TypeOK'
    <3>1. UNCHANGED <<converted, documents, chunks, nextId, jobs, dropped,
                     discarded, raced, lost, arrivals, deletes, crashes>>
      BY <2>3
    <3> QED
      BY <1>1, <2>3, <3>1 DEF TypeOK
  <2>7. \A d \in DocIds : d >= nextId' => Unborn(d)'
    <3>1. UNCHANGED <<converted, documents, nextId, jobs>>
      BY <2>3
    <3>2. SUFFICES ASSUME NEW d \in DocIds, d >= nextId PROVE Unborn(d)'
      BY <3>1
    <3>3. d # Doc(k)
      BY <1>1, <2>2, <3>2, DocIdsNumbers DEF Doc, TypeOK
    <3>4. originals'[d] = originals[d]
      BY <2>3, <3>3
    <3> QED
      BY <1>2, <3>1, <3>2, <3>4 DEF Formed, Unborn
  <2> QED
    BY <2>5, <2>6, <2>7 DEF Formed
<1>8. ASSUME NEW k \in Requests, MoveFails(k) PROVE Formed'
  <2>1. /\ request[k].step = "moving"
        /\ Rests(k) \/ Moves(k, "failing")
        /\ UNCHANGED <<files, documents, chunks, nextId, jobs, history, counts>>
    BY <1>1, <1>8, MoveFailsEffect
  <2>2. Assigned(k)' /\ Others(k) /\ request' \in [Requests -> Tasks]
    BY <1>1, <2>1, RestsAssigned, MovesAssigned
  <2> QED
    BY <1>2, <2>1, <2>2, FormedRequestStep
<1>9. ASSUME NEW k \in Requests, AnswerPdf(k) \/ SubmitAccepted(k) PROVE Formed'
  <2>1. /\ request[k].step \in {"answering", "submitting"} /\ Rests(k)
        /\ jobs' = jobs \cup {request[k].doc}
        /\ UNCHANGED <<files, documents, chunks, nextId, history, counts>>
    BY <1>1, <1>9, AnswerPdfEffect, SubmitAcceptedEffect
  <2>2. Assigned(k)' /\ Others(k) /\ request' \in [Requests -> Tasks]
    BY <2>1, RestsAssigned
  <2> QED
    BY <1>2, <2>1, <2>2, FormedRequestStep
<1>10. ASSUME NEW k \in Requests, Parse(k) PROVE Formed'
  <2>1. /\ request[k].step = "parsing"
        /\ Moves(k, "persisting") \/ Moves(k, "failing")
        /\ UNCHANGED <<files, documents, chunks, nextId, jobs, history, counts>>
    BY <1>1, <1>10, ParseEffect
  <2>2. Assigned(k)' /\ Others(k) /\ request' \in [Requests -> Tasks]
    BY <1>1, <2>1, MovesAssigned
  <2> QED
    BY <1>2, <2>1, <2>2, FormedRequestStep
<1>11. ASSUME NEW k \in Requests, Persist(k) PROVE Formed'
  <2>1. /\ request[k].step = "persisting"
        /\ \/ Moves(k, "failing") /\ UNCHANGED chunks
           \/ /\ Moves(k, "finishing")
              /\ documents[request[k].doc] # None
              /\ chunks' = chunks \cup {request[k].doc}
        /\ UNCHANGED <<files, documents, nextId, jobs, history, counts>>
    BY <1>1, <1>11, PersistEffect
  <2>2. Assigned(k)' /\ Others(k) /\ request' \in [Requests -> Tasks]
    BY <1>1, <2>1, MovesAssigned
  <2>3. request[k].doc \in DocIds
    BY <1>1, <2>1 DEF Assigned
  <2>4. \A j \in Requests : Assigned(j)'
    BY <2>1, <2>2, OthersStayAssigned
  <2>5. TypeOK'
    BY <1>1, <2>1, <2>2, <2>3 DEF TypeOK
  <2> QED
    BY <2>1, <2>4, <2>5 DEF Formed, Unborn
<1>12. ASSUME NEW k \in Requests, MarkReady(k) \/ MarkFailed(k) PROVE Formed'
  <2>1. request[k].step \in {"finishing", "failing"}
    BY <1>12 DEF MarkReady, MarkFailed, At
  <2>2. request[k].doc \in DocIds
    BY <1>1, <2>1 DEF Assigned
  <2>3. /\ Rests(k) /\ \E status : StatusBecomes(request[k].doc, status)
        /\ documents' \in [DocIds -> Rows \cup {None}]
        /\ UNCHANGED <<files, chunks, nextId, jobs, history, counts>>
    BY <1>1, <1>12, <2>2, MarkReadyEffect, MarkFailedEffect
  <2>4. Assigned(k)' /\ Others(k) /\ request' \in [Requests -> Tasks]
    BY <2>3, RestsAssigned
  <2>5. \A e \in DocIds : documents'[e] = None <=> documents[e] = None
    BY <2>3 DEF StatusBecomes
  <2>6. \A j \in Requests : Assigned(j)'
    BY <2>3, <2>4, OthersStayAssigned
  <2>7. TypeOK'
    BY <1>1, <2>3, <2>4, <2>5 DEF TypeOK
  <2> QED
    BY <2>3, <2>5, <2>6, <2>7 DEF Formed, Unborn
<1>13. ASSUME NEW d \in DocIds, NEW c \in Contents, Convert(d, c) PROVE Formed'
  <2>1. TypeOK'
    BY <1>1, <1>13 DEF Convert, TypeOK
  <2>2. converted' = [converted EXCEPT ![d] = c] /\ d \in jobs /\ jobs' = jobs \ {d}
    BY <1>13 DEF Convert
  <2>3. \A e \in DocIds \ {d} : converted'[e] = converted[e]
    BY <1>1, <2>2 DEF TypeOK
  <2>4. \A e \in DocIds : e >= nextId' => Unborn(e)'
    BY <1>13, <2>2, <2>3 DEF Convert, Formed, Unborn
  <2> QED
    BY <1>13, <2>1, <2>4 DEF Convert, Formed, Assigned
<1>24. ASSUME NEW d \in DocIds, ConversionDies(d) PROVE Formed'
  BY <1>24 DEF ConversionDies, Formed, TypeOK, Assigned, Unborn
<1>25. ASSUME NEW k \in Requests, AnswerLost(k) \/ WithdrawFails(k) PROVE Formed'
  <2>1. /\ request[k].step \in {"answering", "withdrawing"} /\ Rests(k)
        /\ lost' = lost \cup {request[k].doc}
        /\ UNCHANGED <<files, documents, chunks, nextId, jobs, dropped, discarded,
                       raced, counts>>
    BY <1>1, <1>25, LossEffect
  <2>2. Assigned(k)' /\ Others(k) /\ request' \in [Requests -> Tasks]
    BY <2>1, RestsAssigned
  <2>3. lost' \subseteq DocIds
    BY <1>1, <1>2, <2>1 DEF Assigned
  <2> QED
    BY <1>2, <2>1, <2>2, <2>3, FormedRequestStep
<1>14. ASSUME NEW k \in Requests, NEW d \in DocIds, KnockConverted(k, d) PROVE Formed'
  <2>1. /\ Starts(k, "reading", "pdf", None, None, d) /\ documents[d] # None
        /\ raced' \in BOOLEAN
        /\ UNCHANGED <<files, documents, chunks, nextId, jobs, dropped, discarded,
                       lost, counts>>
    BY <1>1, <1>14, KnockConvertedEffect
  <2>2. d < nextId
    BY <1>2, <2>1 DEF Formed, Unborn
  <2>3. Assigned(k)' /\ Others(k) /\ request' \in [Requests -> Tasks]
    BY <2>1, <2>2 DEF Starts, Assigned
  <2> QED
    BY <1>2, <2>1, <2>3, FormedRequestStep
<1>15. ASSUME NEW k \in Requests, Read(k) PROVE Formed'
  <2>1. request[k].step = "reading"
    BY <1>15 DEF Read, At
  <2>2. request[k].doc \in DocIds /\ request[k].doc < nextId
    BY <1>1, <2>1 DEF Assigned
  <2>3. /\ request' \in [Requests -> Tasks] /\ Others(k)
        /\ request'[k].doc = request[k].doc
        /\ \/ request'[k].step = "failing"
           \/ request'[k].step = "storing" /\ request'[k].text \in Decodable
        /\ UNCHANGED <<files, documents, chunks, nextId, jobs, history, counts>>
    BY <1>1, <1>15, <2>2, ReadEffect
  <2>4. Assigned(k)'
    BY <2>2, <2>3 DEF Assigned
  <2> QED
    BY <1>2, <2>3, <2>4, FormedRequestStep
<1>16. ASSUME NEW k \in Requests, Store(k) PROVE Formed'
  <2>1. request[k].step = "storing"
    BY <1>16 DEF Store, At
  <2>2. /\ request[k].doc \in DocIds /\ request[k].doc < nextId
        /\ request[k].text \in Contents
    BY <1>1, <2>1, ArrivalsAssumption DEF Assigned
  <2>3. /\ Moves(k, "parsing")
        /\ originals' \in [DocIds -> Directories]
        /\ \A e \in DocIds \ {request[k].doc} : originals'[e] = originals[e]
        /\ converted' \in [DocIds -> Contents \cup {None}]
        /\ \A e \in DocIds \ {request[k].doc} : converted'[e] = converted[e]
        /\ UNCHANGED <<raw, documents, chunks, nextId, jobs, history, counts>>
    BY <1>1, <1>16, <2>2, StoreEffect
  <2>4. Assigned(k)' /\ Others(k) /\ request' \in [Requests -> Tasks]
    BY <1>1, <2>1, <2>3, MovesAssigned
  <2>5. \A j \in Requests : Assigned(j)'
    BY <2>3, <2>4, OthersStayAssigned
  <2>6. TypeOK'
    BY <1>1, <2>3, <2>4 DEF TypeOK
  <2>7. \A d \in DocIds : d >= nextId' => Unborn(d)'
    BY <1>2, <2>2, <2>3 DEF Formed, Unborn
  <2> QED
    BY <2>5, <2>6, <2>7 DEF Formed
<1>17. ASSUME NEW k \in Requests, SubmitUrl(k) PROVE Formed'
  <2>1. /\ Starts(k, "submitting", "pdf", None, None, nextId)
        /\ Appears("converting", None, "pdf")
        /\ arrivals' = arrivals + 1
        /\ UNCHANGED <<files, chunks, jobs, history, deletes, crashes>>
    BY <1>1, <1>17, SubmitUrlEffect
  <2>2. /\ request' \in [Requests -> Tasks] /\ Others(k)
        /\ nextId \in DocIds /\ nextId' = nextId + 1
        /\ documents' \in [DocIds -> Rows \cup {None}]
        /\ \A e \in DocIds \ {nextId} : documents'[e] = documents[e]
        /\ documents'[nextId] # None
    BY <2>1 DEF Starts, Appears
  <2>3. Assigned(k)'
    BY <1>2, <2>1, <2>2 DEF Starts, Assigned
  <2>4. \A j \in Requests : Assigned(j)'
    BY <2>2, <2>3, OthersStayAssigned
  <2>5. TypeOK'
    <3>1. nextId' \in 1..(MaxDocs + 1) /\ arrivals' \in Nat
      BY <1>2, <2>1, <2>2, DocIdsNumbers DEF DocIds
    <3>2. chunks' \subseteq {d \in DocIds : documents'[d] # None}
      BY <1>1, <2>1, <2>2 DEF TypeOK
    <3> QED
      BY <1>1, <2>1, <2>2, <3>1, <3>2 DEF TypeOK
  <2>6. \A d \in DocIds : d >= nextId' => Unborn(d)'
    BY <1>2, <2>1, <2>2 DEF Formed, Unborn
  <2> QED
    BY <2>4, <2>5, <2>6 DEF Formed
<1>18. ASSUME NEW k \in Requests, SubmitFails(k) PROVE Formed'
  <2>1. /\ request[k].step = "submitting" /\ Moves(k, "withdrawing")
        /\ UNCHANGED jobs \/ jobs' = jobs \cup {request[k].doc}
        /\ UNCHANGED <<files, documents, chunks, nextId, history, counts>>
    BY <1>1, <1>18, SubmitFailsEffect
  <2>2. Assigned(k)' /\ Others(k) /\ request' \in [Requests -> Tasks]
    BY <1>1, <2>1, MovesAssigned
  <2> QED
    BY <1>2, <2>1, <2>2, FormedRequestStep
<1>19. ASSUME NEW k \in Requests, Withdraw(k) PROVE Formed'
  <2>1. request[k].step = "withdrawing"
    BY <1>19 DEF Withdraw, At
  <2>2. request[k].doc \in DocIds
    BY <1>1, <2>1 DEF Assigned
  <2>3. /\ Rests(k) /\ Disappears(request[k].doc)
        /\ UNCHANGED <<files, nextId, jobs, history, counts>>
    BY <1>1, <1>19, <2>2, WithdrawEffect
  <2>4. Assigned(k)' /\ Others(k) /\ request' \in [Requests -> Tasks]
    BY <2>3, RestsAssigned
  <2>5. \A j \in Requests : Assigned(j)'
    BY <2>3, <2>4, OthersStayAssigned
  <2>6. TypeOK'
    BY <1>1, <2>3, <2>4 DEF TypeOK, Disappears
  <2>7. \A d \in DocIds : d >= nextId' => Unborn(d)'
    BY <2>3 DEF Formed, Unborn, Disappears
  <2> QED
    BY <2>5, <2>6, <2>7 DEF Formed
<1>20. ASSUME NEW k \in Requests, NEW d \in DocIds, Delete(k, d) PROVE Formed'
  <2>1. /\ Starts(k, "removing", "md", None, None, d)
        /\ documents[d] # None /\ Disappears(d)
        /\ discarded' = discarded \cup ({documents[d].hash} \ {None})
        /\ deletes' = deletes + 1
        /\ UNCHANGED <<files, nextId, jobs, dropped, raced, lost, arrivals, crashes>>
    BY <1>1, <1>20, DeleteEffect
  <2>2. d < nextId
    BY <1>2, <2>1 DEF Formed, Unborn
  <2>3. Assigned(k)' /\ Others(k) /\ request' \in [Requests -> Tasks]
    BY <2>1, <2>2 DEF Starts, Assigned
  <2>4. \A j \in Requests : Assigned(j)'
    BY <2>1, <2>3, OthersStayAssigned
  <2>5. discarded' \subseteq Contents /\ deletes' \in Nat
    BY <1>1, <1>2, <2>1 DEF TypeOK, Rows
  <2>6. TypeOK'
    BY <1>1, <1>2, <2>1, <2>3, <2>5 DEF TypeOK, Disappears
  <2>7. \A e \in DocIds : e >= nextId' => Unborn(e)'
    BY <2>1 DEF Formed, Unborn, Disappears
  <2> QED
    BY <2>4, <2>6, <2>7 DEF Formed
<1>21. ASSUME NEW k \in Requests, RemoveDirectory(k) PROVE Formed'
  <2>1. request[k].step = "removing"
    BY <1>21 DEF RemoveDirectory, At
  <2>2. request[k].doc \in DocIds
    BY <1>1, <2>1 DEF Assigned
  <2>3. /\ Rests(k)
        /\ originals' \in [DocIds -> Directories]
        /\ \A e \in DocIds \ {request[k].doc} : originals'[e] = originals[e]
        /\ originals'[request[k].doc] = NoDirectory
        /\ UNCHANGED <<raw, converted, documents, chunks, nextId, jobs, history,
                       counts>>
    BY <1>1, <1>21, <2>2, RemoveDirectoryEffect
  <2>4. Assigned(k)' /\ Others(k) /\ request' \in [Requests -> Tasks]
    BY <2>3, RestsAssigned
  <2>5. \A j \in Requests : Assigned(j)'
    BY <2>3, <2>4, OthersStayAssigned
  <2>6. TypeOK'
    BY <1>1, <2>3, <2>4 DEF TypeOK
  <2>7. \A d \in DocIds : d >= nextId' => Unborn(d)'
    BY <2>2, <2>3 DEF Formed, Unborn
  <2> QED
    BY <2>5, <2>6, <2>7 DEF Formed
<1>22. CASE Crash
  <2>1. /\ request' \in [Requests -> Tasks]
        /\ \A k \in Requests : request'[k].step = "idle" /\ request'[k].doc = 0
        /\ crashes' = crashes + 1
        /\ UNCHANGED <<files, documents, chunks, nextId, jobs, history, arrivals,
                       deletes>>
    BY <1>1, <1>22, CrashEffect
  <2>2. \A k \in Requests : Assigned(k)'
    BY <2>1 DEF Assigned
  <2>3. TypeOK'
    BY <1>1, <1>2, <2>1 DEF TypeOK
  <2> QED
    BY <2>1, <2>2, <2>3 DEF Formed, Unborn
<1>23. CASE UNCHANGED vars
  BY <1>23 DEF vars, Formed, TypeOK, Assigned, Unborn
<1> QED
  BY <1>3, <1>4, <1>5, <1>6, <1>7, <1>8, <1>9, <1>10, <1>11, <1>12, <1>13, <1>14,
     <1>15, <1>16, <1>17, <1>18, <1>19, <1>20, <1>21, <1>22, <1>23, <1>24, <1>25
  DEF Next, Work, Gateway, Converters, People

\* Initially nothing has arrived.
LEMMA FormedInit ==
  ASSUME Init
  PROVE  Formed
<1>1. NoDirectory \in Directories
  BY DEF NoDirectory, Directories
<1>2. MaxDocs \in Nat \ {0}
  BY ArrivalsAssumption
<1>3. \A k \in Requests : request[k].step = "idle" /\ request[k].doc = 0
  BY DEF Init, Idle
<1>4. TypeOK
  <2>1. nextId \in 1..(MaxDocs + 1)
    BY <1>2 DEF Init
  <2>2. request \in [Requests -> Tasks]
    BY IdleIsTask DEF Init
  <2>3. /\ originals \in [DocIds -> Directories]
        /\ documents \in [DocIds -> Rows \cup {None}]
    BY <1>1 DEF Init
  <2>4. /\ raw \in [Names -> Contents \cup {None}]
        /\ converted \in [DocIds -> Contents \cup {None}]
    BY DEF Init
  <2>5. raced \in BOOLEAN
    BY Zenon DEF Init
  <2> QED
    BY <2>1, <2>2, <2>3, <2>4, <2>5 DEF Init, TypeOK
<1> QED
  BY <1>3, <1>4 DEF Init, Formed, Assigned, Unborn

LEMMA AlwaysFormed == Spec => []Formed
<1>1. Init => Formed
  BY FormedInit
<1>2. Formed /\ [Next]_vars => Formed'
  BY FormedStep
<1> QED
  BY <1>1, <1>2, PTL DEF Spec

\* Every file, row and request is of the form the code produces, and chunks
\* belong to rows, whatever runs.
THEOREM ArrivalsKeepTypes == Spec => []TypeOK
<1>1. Formed => TypeOK
  BY DEF Formed
<1> QED
  BY <1>1, AlwaysFormed, PTL

-----------------------------------------------------------------------------
(* A ready document can be opened *)

\* On its way to ready a document gets its markdown first and its chunks
\* next; the directory goes after the row.
Prepared(k) ==
  LET d == request[k].doc IN
  /\ request[k].step = "removing" => documents[d] = None
  /\ request[k].step \in {"parsing", "persisting", "finishing"} /\ documents[d] # None
       => originals[d].document # None
  /\ request[k].step = "finishing" /\ documents[d] # None => d \in chunks

Complete ==
  /\ ReadyIsComplete
  /\ \A k \in Requests : Prepared(k)

\* What a row has, it keeps as long as it lives; a row that is gone does not
\* come back.
Grows(d) ==
  /\ documents[d] = None => documents'[d] = None
  /\ documents'[d] # None =>
       /\ originals[d].document # None => originals'[d].document # None
       /\ d \in chunks => d \in chunks'

\* A row becomes ready only with its chunks and its markdown.
ReadyProperly(d) ==
  (documents'[d] # None /\ documents'[d].status = "ready")
    => \/ documents[d] # None /\ documents[d].status = "ready"
       \/ d \in chunks' /\ originals'[d].document # None

LEMMA CompleteRequestStep ==
  ASSUME Formed, Complete, NEW k \in Requests, Others(k), Prepared(k)',
         \A d \in DocIds : d < nextId => Grows(d),
         \A d \in DocIds : ReadyProperly(d)
  PROVE  Complete'
<1>1. nextId \in Int /\ DocIds \subseteq Int /\ 0 \notin DocIds
  BY DocIdsNumbers, ArrivalsAssumption DEF Formed, TypeOK
<1>2. ASSUME NEW j \in Requests \ {k} PROVE Prepared(j)'
  <2>1. request'[j] = request[j] /\ Prepared(j) /\ Assigned(j)
    BY DEF Others, Complete, Formed
  <2>2. CASE request[j].step \in {"idle", "inserting"}
    BY <2>1, <2>2 DEF Prepared
  <2>3. CASE request[j].step \notin {"idle", "inserting"}
    BY <2>1, <2>3 DEF Prepared, Assigned, Grows
  <2> QED
    BY <2>2, <2>3
<1>3. ReadyIsComplete'
  <2> SUFFICES ASSUME NEW d \in DocIds, documents'[d] # None,
                      documents'[d].status = "ready"
               PROVE  d \in chunks' /\ originals'[d].document # None
    BY DEF ReadyIsComplete
  <2>1. CASE documents[d] # None /\ documents[d].status = "ready"
    <3>1. d < nextId
      BY <1>1, <2>1 DEF Formed, Unborn
    <3> QED
      BY <2>1, <3>1 DEF Complete, ReadyIsComplete, Grows
  <2> QED
    BY <2>1 DEF ReadyProperly
<1> QED
  BY <1>2, <1>3 DEF Complete

\* A step that leaves the store as it is.
LEMMA CompleteQuietStep ==
  ASSUME Formed, Complete, NEW k \in Requests, Others(k), Prepared(k)',
         UNCHANGED <<originals, documents, chunks>>
  PROVE  Complete'
<1>1. \A d \in DocIds : Grows(d) /\ ReadyProperly(d)
  BY DEF Grows, ReadyProperly
<1> QED
  BY <1>1, CompleteRequestStep

LEMMA CompleteStep ==
  ASSUME Formed, Complete, [Next]_vars
  PROVE  Complete'
<1> USE DEF files, history, counts
<1>1. TypeOK /\ \A k \in Requests : Assigned(k) /\ Prepared(k)
  BY DEF Formed, Complete
<1>2. nextId \in Int /\ DocIds \subseteq Int
  BY DocIdsNumbers, ArrivalsAssumption DEF Formed, TypeOK
<1>3. ASSUME NEW n \in Names, NEW c \in Contents, Drop(n, c) PROVE Complete'
  BY <1>3 DEF Drop, Complete, ReadyIsComplete, Prepared
<1>4. ASSUME NEW k \in Requests, NEW n \in Names, NEW c \in Contents, Upload(k, n, c)
      PROVE  Complete'
  <2>1. Starts(k, "inserting", Suffix[n], n, c, 0)
    BY <1>1, <1>4, LookEffect DEF Upload
  <2>2. Prepared(k)' /\ Others(k)
    BY <2>1 DEF Starts, Prepared
  <2> QED
    BY <1>4, <2>2, CompleteQuietStep DEF Upload
<1>5. ASSUME NEW k \in Requests, NEW n \in Names, KnockRaw(k, n) PROVE Complete'
  <2>1. raw[n] \in Contents /\ Look(k, n, raw[n], FALSE)
    BY <1>1, <1>5 DEF KnockRaw, TypeOK
  <2>2. Starts(k, "inserting", Suffix[n], n, raw[n], 0)
    BY <1>1, <2>1, LookEffect
  <2>3. Prepared(k)' /\ Others(k)
    BY <2>2 DEF Starts, Prepared
  <2> QED
    BY <1>5, <2>3, CompleteQuietStep DEF KnockRaw
<1>6. ASSUME NEW k \in Requests, Insert(k) PROVE Complete'
  <2> DEFINE pending == IF request[k].suffix = "pdf" THEN "converting" ELSE "processing"
  <2>1. /\ Others(k) /\ request'[k].step = "moving"
        /\ Appears(pending, request[k].text, request[k].suffix)
        /\ UNCHANGED <<originals, chunks>>
    BY <1>1, <1>6, InsertEffect
  <2>2. pending # "ready"
    OBVIOUS
  <2> HIDE DEF pending
  <2>3. Prepared(k)'
    BY <2>1 DEF Prepared
  <2>4. \A d \in DocIds : (d < nextId => Grows(d)) /\ ReadyProperly(d)
    BY <1>2, <2>1, <2>2 DEF Appears, Grows, ReadyProperly
  <2> QED
    BY <2>1, <2>3, <2>4, CompleteRequestStep
<1>7. ASSUME NEW k \in Requests, Move(k) PROVE Complete'
  <2>1. request[k].step = "moving"
    BY <1>7 DEF Move, At
  <2>2. Doc(k) \in DocIds /\ Doc(k) = request[k].doc /\ request[k].name \in Names
    BY <1>1, <2>1 DEF Assigned, Doc
  <2> DEFINE d == Doc(k)
             c == raw[request[k].name]
  <2>3. /\ Others(k)
        /\ request'[k].step = AfterMove(request[k].suffix)
        /\ request'[k].doc = request[k].doc
        /\ c # None
        /\ \A e \in DocIds \ {d} : originals'[e] = originals[e]
        /\ request[k].suffix = "md" => originals'[d].document = c
        /\ request[k].suffix # "md" => originals'[d].document = originals[d].document
        /\ UNCHANGED <<documents, chunks>>
    BY <1>1, <1>7, <2>2, MoveEffect
  <2> HIDE DEF d, c
  <2>4. \A e \in DocIds : Grows(e)
    BY <2>3 DEF Grows
  <2>5. \A e \in DocIds : ReadyProperly(e)
    BY <2>3 DEF ReadyProperly
  <2>6. Prepared(k)'
    BY <2>2, <2>3 DEF Prepared, AfterMove, d
  <2> QED
    BY <2>3, <2>4, <2>5, <2>6, CompleteRequestStep
<1>8. ASSUME NEW k \in Requests, MoveFails(k) PROVE Complete'
  <2>1. /\ Rests(k) \/ Moves(k, "failing")
        /\ UNCHANGED <<files, documents, chunks>>
    BY <1>1, <1>8, MoveFailsEffect
  <2>2. Prepared(k)' /\ Others(k)
    BY <2>1 DEF Rests, Moves, Prepared
  <2> QED
    BY <2>1, <2>2, CompleteQuietStep
<1>9. ASSUME NEW k \in Requests,
             \/ AnswerPdf(k) \/ SubmitAccepted(k)
             \/ AnswerLost(k) \/ WithdrawFails(k)
      PROVE  Complete'
  <2>1. Rests(k) /\ UNCHANGED <<files, documents, chunks>>
    BY <1>1, <1>9, AnswerPdfEffect, SubmitAcceptedEffect, LossEffect
  <2>2. Prepared(k)' /\ Others(k)
    BY <2>1 DEF Rests, Prepared
  <2> QED
    BY <2>1, <2>2, CompleteQuietStep
<1>10. ASSUME NEW k \in Requests, Parse(k) PROVE Complete'
  <2>1. /\ request[k].step = "parsing"
        /\ Moves(k, "persisting") \/ Moves(k, "failing")
        /\ UNCHANGED <<files, documents, chunks>>
    BY <1>1, <1>10, ParseEffect
  <2>2. Prepared(k)' /\ Others(k)
    BY <1>1, <2>1 DEF Moves, Prepared
  <2> QED
    BY <2>1, <2>2, CompleteQuietStep
<1>11. ASSUME NEW k \in Requests, Persist(k) PROVE Complete'
  <2>1. /\ request[k].step = "persisting"
        /\ \/ Moves(k, "failing") /\ UNCHANGED chunks
           \/ /\ Moves(k, "finishing")
              /\ documents[request[k].doc] # None
              /\ chunks' = chunks \cup {request[k].doc}
        /\ UNCHANGED <<files, documents>>
    BY <1>1, <1>11, PersistEffect
  <2>2. Prepared(k)' /\ Others(k)
    BY <1>1, <2>1 DEF Moves, Prepared
  <2>3. \A d \in DocIds : Grows(d) /\ ReadyProperly(d)
    BY <2>1 DEF Grows, ReadyProperly
  <2> QED
    BY <2>2, <2>3, CompleteRequestStep
<1>12. ASSUME NEW k \in Requests, MarkReady(k) PROVE Complete'
  <2>1. request[k].step = "finishing"
    BY <1>12 DEF MarkReady, At
  <2>2. request[k].doc \in DocIds
    BY <1>1, <2>1 DEF Assigned
  <2>3. /\ Rests(k) /\ StatusBecomes(request[k].doc, "ready")
        /\ UNCHANGED <<files, chunks>>
    BY <1>1, <1>12, <2>2, MarkReadyEffect
  <2>4. Prepared(k)' /\ Others(k)
    BY <2>3 DEF Rests, Prepared
  <2>5. \A d \in DocIds : Grows(d)
    BY <2>3 DEF Grows, StatusBecomes
  <2>6. \A d \in DocIds : ReadyProperly(d)
    BY <1>1, <2>1, <2>3 DEF ReadyProperly, StatusBecomes, Prepared
  <2> QED
    BY <2>4, <2>5, <2>6, CompleteRequestStep
<1>13. ASSUME NEW k \in Requests, MarkFailed(k) PROVE Complete'
  <2>1. request[k].step = "failing"
    BY <1>13 DEF MarkFailed, At
  <2>2. request[k].doc \in DocIds
    BY <1>1, <2>1 DEF Assigned
  <2>3. /\ Rests(k) /\ StatusBecomes(request[k].doc, "failed")
        /\ UNCHANGED <<files, chunks>>
    BY <1>1, <1>13, <2>2, MarkFailedEffect
  <2>4. Prepared(k)' /\ Others(k)
    BY <2>3 DEF Rests, Prepared
  <2>5. \A d \in DocIds : Grows(d) /\ ReadyProperly(d)
    BY <2>3 DEF Grows, ReadyProperly, StatusBecomes
  <2> QED
    BY <2>4, <2>5, CompleteRequestStep
<1>14. ASSUME NEW d \in DocIds, NEW c \in Contents, Convert(d, c) PROVE Complete'
  BY <1>14 DEF Convert, Complete, ReadyIsComplete, Prepared
<1>25. ASSUME NEW d \in DocIds, ConversionDies(d) PROVE Complete'
  BY <1>25 DEF ConversionDies, Complete, ReadyIsComplete, Prepared
<1>15. ASSUME NEW k \in Requests, NEW d \in DocIds, KnockConverted(k, d)
       PROVE  Complete'
  <2>1. /\ Starts(k, "reading", "pdf", None, None, d)
        /\ UNCHANGED <<files, documents, chunks>>
    BY <1>1, <1>15, KnockConvertedEffect
  <2>2. Prepared(k)' /\ Others(k)
    BY <2>1 DEF Starts, Prepared
  <2> QED
    BY <2>1, <2>2, CompleteQuietStep
<1>16. ASSUME NEW k \in Requests, Read(k) PROVE Complete'
  <2>1. request[k].step = "reading"
    BY <1>16 DEF Read, At
  <2>2. request[k].doc \in DocIds
    BY <1>1, <2>1 DEF Assigned
  <2>3. /\ Others(k) /\ request'[k].step \in {"failing", "storing"}
        /\ UNCHANGED <<files, documents, chunks>>
    BY <1>1, <1>16, <2>2, ReadEffect
  <2>4. Prepared(k)'
    BY <2>3 DEF Prepared
  <2> QED
    BY <2>3, <2>4, CompleteQuietStep
<1>17. ASSUME NEW k \in Requests, Store(k) PROVE Complete'
  <2>1. request[k].step = "storing"
    BY <1>17 DEF Store, At
  <2>2. /\ request[k].doc \in DocIds /\ request[k].text \in Contents
        /\ request[k].text # None
    BY <1>1, <2>1, ArrivalsAssumption DEF Assigned
  <2>3. /\ Moves(k, "parsing")
        /\ \A e \in DocIds \ {request[k].doc} : originals'[e] = originals[e]
        /\ originals'[request[k].doc].document = request[k].text
        /\ UNCHANGED <<documents, chunks>>
    BY <1>1, <1>17, <2>2, StoreEffect
  <2>4. Prepared(k)' /\ Others(k)
    BY <2>2, <2>3 DEF Moves, Prepared
  <2>5. \A d \in DocIds : Grows(d) /\ ReadyProperly(d)
    BY <2>2, <2>3 DEF Grows, ReadyProperly
  <2> QED
    BY <2>4, <2>5, CompleteRequestStep
<1>18. ASSUME NEW k \in Requests, SubmitUrl(k) PROVE Complete'
  <2>1. /\ Starts(k, "submitting", "pdf", None, None, nextId)
        /\ Appears("converting", None, "pdf")
        /\ UNCHANGED <<files, chunks>>
    BY <1>1, <1>18, SubmitUrlEffect
  <2>2. Prepared(k)' /\ Others(k)
    BY <2>1 DEF Starts, Prepared
  <2>3. \A d \in DocIds : (d < nextId => Grows(d)) /\ ReadyProperly(d)
    BY <1>2, <2>1 DEF Appears, Grows, ReadyProperly
  <2> QED
    BY <2>2, <2>3, CompleteRequestStep
<1>19. ASSUME NEW k \in Requests, SubmitFails(k) PROVE Complete'
  <2>1. Moves(k, "withdrawing") /\ UNCHANGED <<files, documents, chunks>>
    BY <1>1, <1>19, SubmitFailsEffect
  <2>2. Prepared(k)' /\ Others(k)
    BY <2>1 DEF Moves, Prepared
  <2> QED
    BY <2>1, <2>2, CompleteQuietStep
<1>20. ASSUME NEW k \in Requests, Withdraw(k) PROVE Complete'
  <2>1. request[k].step = "withdrawing"
    BY <1>20 DEF Withdraw, At
  <2>2. request[k].doc \in DocIds
    BY <1>1, <2>1 DEF Assigned
  <2>3. Rests(k) /\ Disappears(request[k].doc) /\ UNCHANGED files
    BY <1>1, <1>20, <2>2, WithdrawEffect
  <2>4. Prepared(k)' /\ Others(k)
    BY <2>3 DEF Rests, Prepared
  <2>5. \A d \in DocIds : Grows(d) /\ ReadyProperly(d)
    BY <2>3 DEF Disappears, Grows, ReadyProperly
  <2> QED
    BY <2>4, <2>5, CompleteRequestStep
<1>21. ASSUME NEW k \in Requests, NEW d \in DocIds, Delete(k, d) PROVE Complete'
  <2>1. Starts(k, "removing", "md", None, None, d) /\ Disappears(d) /\ UNCHANGED files
    BY <1>1, <1>21, DeleteEffect
  <2>2. Prepared(k)' /\ Others(k)
    BY <2>1 DEF Starts, Disappears, Prepared
  <2>3. \A e \in DocIds : Grows(e) /\ ReadyProperly(e)
    BY <2>1 DEF Disappears, Grows, ReadyProperly
  <2> QED
    BY <2>2, <2>3, CompleteRequestStep
<1>22. ASSUME NEW k \in Requests, RemoveDirectory(k) PROVE Complete'
  <2>1. request[k].step = "removing"
    BY <1>22 DEF RemoveDirectory, At
  <2>2. request[k].doc \in DocIds /\ documents[request[k].doc] = None
    BY <1>1, <2>1 DEF Assigned, Prepared
  <2>3. /\ Rests(k)
        /\ \A e \in DocIds \ {request[k].doc} : originals'[e] = originals[e]
        /\ UNCHANGED <<documents, chunks>>
    BY <1>1, <1>22, <2>2, RemoveDirectoryEffect
  <2>4. Prepared(k)' /\ Others(k)
    BY <2>3 DEF Rests, Prepared
  <2>5. \A d \in DocIds : Grows(d) /\ ReadyProperly(d)
    BY <2>2, <2>3 DEF Grows, ReadyProperly
  <2> QED
    BY <2>4, <2>5, CompleteRequestStep
<1>23. CASE Crash
  <2>1. /\ \A k \in Requests : request'[k].step = "idle" /\ request'[k].doc = 0
        /\ UNCHANGED <<files, documents, chunks>>
    BY <1>1, <1>23, CrashEffect
  <2> QED
    BY <2>1 DEF Complete, ReadyIsComplete, Prepared
<1>24. CASE UNCHANGED vars
  BY <1>24 DEF vars, Complete, ReadyIsComplete, Prepared
<1> QED
  BY <1>3, <1>4, <1>5, <1>6, <1>7, <1>8, <1>9, <1>10, <1>11, <1>12, <1>13, <1>14,
     <1>15, <1>16, <1>17, <1>18, <1>19, <1>20, <1>21, <1>22, <1>23, <1>24,
     <1>25
  DEF Next, Work, Gateway, Converters, People

LEMMA AlwaysComplete == Spec => [](Formed /\ Complete)
<1> DEFINE Inv == Formed /\ Complete
<1>1. Init => Inv
  <2> SUFFICES ASSUME Init PROVE Complete
    BY FormedInit
  <2>1. \A k \in Requests : request[k].step = "idle"
    BY DEF Init, Idle
  <2>2. \A d \in DocIds : documents[d] = None
    BY DEF Init
  <2> QED
    BY <2>1, <2>2 DEF Complete, ReadyIsComplete, Prepared
<1>2. Inv /\ [Next]_vars => Inv'
  BY FormedStep, CompleteStep
<1> QED
  BY <1>1, <1>2, PTL DEF Spec

\* A document shown as ready has its chunks and its markdown on disk, at any
\* moment of any interleaving, with deletions and restarts among it.
THEOREM ReadyDocumentsOpen == Spec => []ReadyIsComplete
<1>1. Formed /\ Complete => ReadyIsComplete
  BY DEF Complete
<1> QED
  BY <1>1, AlwaysComplete, PTL

-----------------------------------------------------------------------------
(* Requests that do not fight over a file *)

Waiting == {"inserting", "moving"}

\* What a request that nobody raced counts on: the content it is about to
\* insert is new, its file still lies where it saw it, its row is not ready.
Alone(k) ==
  LET r == request[k] IN
  /\ r.step = "inserting" => ~ KnownHash(r.text)
  /\ r.step \in Waiting => raw[r.name] = r.text
  /\ r.doc # 0 /\ documents[r.doc] # None => documents[r.doc].status # "ready"

\* Two requests bring in different files, and work on different rows.
Apart(j, k) ==
  /\ request[j].step \in Waiting /\ request[k].step \in Waiting
       => request[j].text # request[k].text
  /\ request[j].doc = request[k].doc /\ request[k].doc # 0
       => documents[request[k].doc] = None

Unshared ==
  /\ OneDocumentPerContent
  /\ \A k \in Requests : Alone(k)
  /\ \A j, k \in Requests : j # k => Apart(j, k)

\* The step leaves request j what it counts on.
Undisturbed(j) ==
  LET r == request[j] IN
  /\ r.step = "inserting" => ~ KnownHash(r.text)'
  /\ r.step \in Waiting => raw'[r.name] = raw[r.name]
  /\ r.doc # 0 =>
       /\ documents[r.doc] = None => documents'[r.doc] = None
       /\ (documents'[r.doc] # None /\ documents'[r.doc].status = "ready")
            => documents[r.doc] # None /\ documents[r.doc].status = "ready"

LEMMA ApartIsSymmetric ==
  ASSUME NEW j \in Requests, NEW k \in Requests, Apart(j, k)
  PROVE  Apart(k, j)
BY DEF Apart

LEMMA UnsharedRequestStep ==
  ASSUME Unshared, NEW k \in Requests, Others(k), OneDocumentPerContent',
         \A j \in Requests \ {k} : Undisturbed(j),
         Alone(k)', \A j \in Requests \ {k} : Apart(k, j)'
  PROVE  Unshared'
<1>1. ASSUME NEW j \in Requests \ {k} PROVE Alone(j)'
  <2>1. request'[j] = request[j] /\ Alone(j) /\ Undisturbed(j)
    BY DEF Others, Unshared
  <2> QED
    BY <2>1 DEF Alone, Undisturbed
<1>2. ASSUME NEW i \in Requests \ {k}, NEW j \in Requests \ {k}, i # j
      PROVE  Apart(i, j)'
  <2>1. /\ request'[i] = request[i] /\ request'[j] = request[j]
        /\ Apart(i, j) /\ Undisturbed(j)
    BY <1>2 DEF Others, Unshared
  <2> QED
    BY <2>1 DEF Apart, Undisturbed
<1>3. ASSUME NEW i \in Requests, NEW j \in Requests, i # j PROVE Apart(i, j)'
  <2>1. CASE i = k
    BY <1>3, <2>1
  <2>2. CASE j = k
    BY <1>3, <2>2 DEF Apart
  <2>3. CASE i # k /\ j # k
    BY <1>2, <1>3, <2>3
  <2> QED
    BY <2>1, <2>2, <2>3
<1> QED
  BY <1>1, <1>3 DEF Unshared

\* Rows only go, and keep their hashes.
Lingers(d) ==
  /\ documents[d] = None => documents'[d] = None
  /\ documents'[d] # None => documents'[d].hash = documents[d].hash

LEMMA LingeringHashes ==
  ASSUME \A d \in DocIds : Lingers(d)
  PROVE  /\ OneDocumentPerContent => OneDocumentPerContent'
         /\ \A c : ~ KnownHash(c) => ~ KnownHash(c)'
BY DEF Lingers, OneDocumentPerContent, KnownHash

\* Request k goes on with its own row, or answers; it may make its row ready
\* as it answers.
LEMMA UnsharedPlainStep ==
  ASSUME Formed, Unshared, NEW k \in Requests, Others(k),
         request'[k].doc \in {0, request[k].doc}, request'[k].step \notin Waiting,
         \A d \in DocIds : Lingers(d),
         \A d \in DocIds :
           \/ documents'[d] # None /\ documents'[d].status = "ready"
                => documents[d] # None /\ documents[d].status = "ready"
           \/ d = request[k].doc /\ request'[k].doc = 0,
         \A j \in Requests \ {k} : request[j].step \in Waiting
           => raw'[request[j].name] = raw[request[j].name]
  PROVE  Unshared'
<1>1. /\ OneDocumentPerContent'
      /\ \A c : ~ KnownHash(c) => ~ KnownHash(c)'
  BY LingeringHashes DEF Unshared
<1>2. \A j \in Requests : request[j].doc # 0 => request[j].doc \in DocIds
  BY DEF Formed, Assigned
<1>3. 0 \notin DocIds
  BY DocIdsNumbers
<1>4. ASSUME NEW j \in Requests \ {k} PROVE Undisturbed(j)
  <2> request'[j] = request[j]
    BY DEF Others
  <2>1. request[j].step = "inserting" => ~ KnownHash(request[j].text)'
    BY <1>1 DEF Unshared, Alone, KnownHash
  <2>2. request[j].doc = request[k].doc /\ request[k].doc # 0
          => documents[request[j].doc] = None
    BY DEF Unshared, Apart
  <2>3. ASSUME request[j].doc # 0
        PROVE  /\ documents[request[j].doc] = None => documents'[request[j].doc] = None
               /\ (documents'[request[j].doc] # None
                      /\ documents'[request[j].doc].status = "ready")
                    => /\ documents[request[j].doc] # None
                       /\ documents[request[j].doc].status = "ready"
    BY <1>2, <2>2, <2>3 DEF Lingers
  <2> QED
    BY <2>1, <2>3 DEF Undisturbed
<1>5. Alone(k)'
  <2>1. Alone(k)
    BY DEF Unshared
  <2>2. request'[k].doc # 0 => request'[k].doc = request[k].doc /\ request[k].doc \in DocIds
    BY <1>2
  <2>3. request'[k].step # "inserting"
    BY DEF Waiting
  <2> QED
    BY <2>1, <2>2, <2>3 DEF Alone, Lingers
<1>6. ASSUME NEW j \in Requests \ {k} PROVE Apart(k, j)'
  <2>1. request'[j] = request[j] /\ Apart(k, j)
    BY DEF Others, Unshared
  <2> QED
    BY <1>2, <2>1 DEF Apart, Lingers
<1> QED
  BY <1>1, <1>4, <1>5, <1>6, UnsharedRequestStep

\* The store is as it was.
LEMMA UnsharedQuietStep ==
  ASSUME Formed, Unshared, NEW k \in Requests, Others(k),
         request'[k].doc \in {0, request[k].doc}, request'[k].step \notin Waiting,
         UNCHANGED <<raw, documents>>
  PROVE  Unshared'
<1>1. \A d \in DocIds : Lingers(d)
  BY DEF Lingers
<1> QED
  BY <1>1, UnsharedPlainStep

LEMMA RestsPlainly ==
  ASSUME NEW k \in Requests, Rests(k)
  PROVE  Others(k) /\ request'[k].doc = 0 /\ request'[k].step \notin Waiting
BY DEF Rests, Waiting

LEMMA MovesPlainly ==
  ASSUME NEW k \in Requests, NEW step \in Steps \ Waiting, Moves(k, step)
  PROVE  /\ Others(k) /\ request'[k].doc = request[k].doc
         /\ request'[k].step \notin Waiting
BY DEF Moves

\* A file put under a free name is in nobody's way.
LEMMA PutIsFree ==
  ASSUME Formed, Unshared, NEW n \in Names, NEW c \in Contents, Put(n, c)
  PROVE  \A j \in Requests : request[j].step \in Waiting
           => request[j].name # n /\ raw'[request[j].name] = raw[request[j].name]
<1> SUFFICES ASSUME NEW j \in Requests, request[j].step \in Waiting
             PROVE  request[j].name # n /\ raw'[request[j].name] = raw[request[j].name]
  OBVIOUS
<1>1. /\ request[j].name \in Names /\ request[j].text \in Contents
      /\ raw[request[j].name] = request[j].text
  BY DEF Formed, Assigned, Unshared, Alone, Waiting
<1>2. raw[n] = None /\ \A m \in Names \ {n} : raw'[m] = raw[m]
  BY PutEffect DEF Formed
<1> QED
  BY <1>1, <1>2, ArrivalsAssumption

\* A request that looks at a content no other request holds.
LEMMA UnsharedLook ==
  ASSUME Formed, Unshared, NEW k \in Requests, NEW n \in Names, NEW c \in Contents,
         Starts(k, "inserting", Suffix[n], n, c, 0), ~ KnownHash(c),
         ~ Overlaps(k, c, 0), UNCHANGED documents, raw'[n] = c,
         \A j \in Requests : request[j].step \in Waiting
           => raw'[request[j].name] = raw[request[j].name]
  PROVE  Unshared'
<1>1. /\ Others(k) /\ request'[k].step = "inserting" /\ request'[k].name = n
      /\ request'[k].text = c /\ request'[k].doc = 0
  BY DEF Starts
<1>2. c # None
  BY ArrivalsAssumption
<1>3. /\ OneDocumentPerContent' /\ \A x : ~ KnownHash(x) => ~ KnownHash(x)'
  BY DEF Unshared, OneDocumentPerContent, KnownHash
<1>4. ASSUME NEW j \in Requests \ {k} PROVE Undisturbed(j)
  <2>1. request'[j] = request[j] /\ Alone(j)
    BY <1>1 DEF Others, Unshared
  <2>2. request[j].step = "inserting" => ~ KnownHash(request[j].text)'
    BY <1>3, <2>1 DEF Alone, KnownHash
  <2> QED
    BY <2>1, <2>2 DEF Undisturbed
<1>5. ASSUME NEW j \in Requests \ {k} PROVE Apart(k, j)'
  <2>1. request'[j] = request[j] /\ (request[j].step = "idle" \/ request[j].text # c)
    BY <1>1, <1>2 DEF Others, Overlaps, At
  <2> QED
    BY <1>1, <2>1, <1>2 DEF Apart, Waiting
<1>6. Alone(k)'
  BY <1>1, <1>3 DEF Alone
<1> QED
  BY <1>1, <1>3, <1>4, <1>5, <1>6, UnsharedRequestStep

LEMMA UnsharedStep ==
  ASSUME Formed, ~ raced => Unshared, [Next]_vars, ~ raced'
  PROVE  Unshared'
<1> USE DEF files, history, counts
<1>1. TypeOK /\ \A k \in Requests : Assigned(k)
  BY DEF Formed
<1>2. /\ nextId \in Int /\ DocIds \subseteq Int /\ 0 \notin DocIds
  BY DocIdsNumbers, ArrivalsAssumption DEF Formed, TypeOK
<1>3. ASSUME Unshared, NEW n \in Names, NEW c \in Contents, Drop(n, c)
      PROVE  Unshared'
  <2>1. Put(n, c) /\ UNCHANGED <<documents, request>>
    BY <1>3 DEF Drop
  <2>2. \A j \in Requests : request[j].step \in Waiting
           => raw'[request[j].name] = raw[request[j].name]
    BY <1>3, <2>1, PutIsFree
  <2>3. \A j \in Requests : Alone(j)'
    BY <1>3, <2>1, <2>2 DEF Unshared, Alone, KnownHash
  <2> QED
    BY <1>3, <2>1, <2>3 DEF Unshared, OneDocumentPerContent, Apart
<1>4. ASSUME Unshared, NEW k \in Requests, NEW n \in Names, NEW c \in Contents,
             Upload(k, n, c)
      PROVE  Unshared'
  <2>1. Put(n, c) /\ Look(k, n, c, TRUE) /\ UNCHANGED documents
    BY <1>4 DEF Upload
  <2>2. /\ Starts(k, "inserting", Suffix[n], n, c, 0) /\ ~ KnownHash(c)
        /\ ~ Overlaps(k, c, 0)
    BY <1>1, <2>1, LookEffect
  <2>3. raw'[n] = c /\ \A j \in Requests : request[j].step \in Waiting
           => raw'[request[j].name] = raw[request[j].name]
    BY <1>1, <1>4, <2>1, PutEffect, PutIsFree
  <2> QED
    BY <1>4, <2>1, <2>2, <2>3, UnsharedLook
<1>5. ASSUME Unshared, NEW k \in Requests, NEW n \in Names, KnockRaw(k, n)
      PROVE  Unshared'
  <2>1. /\ raw[n] \in Contents /\ Look(k, n, raw[n], FALSE)
        /\ UNCHANGED <<raw, documents>>
    BY <1>1, <1>5 DEF KnockRaw, TypeOK
  <2>2. /\ Starts(k, "inserting", Suffix[n], n, raw[n], 0) /\ ~ KnownHash(raw[n])
        /\ ~ Overlaps(k, raw[n], 0)
    BY <1>1, <2>1, LookEffect
  <2> QED
    BY <1>5, <2>1, <2>2, UnsharedLook
<1>6. ASSUME Unshared, NEW k \in Requests, Insert(k) PROVE Unshared'
  <2> DEFINE pending == IF request[k].suffix = "pdf" THEN "converting" ELSE "processing"
             c == request[k].text
  <2>1. /\ request[k].step = "inserting" /\ Others(k)
        /\ request'[k].step = "moving" /\ request'[k].doc = nextId
        /\ request'[k].name = request[k].name /\ request'[k].text = c
        /\ Appears(pending, c, request[k].suffix) /\ UNCHANGED raw
    BY <1>1, <1>6, InsertEffect
  <2>2. pending # "ready"
    OBVIOUS
  <2>3. /\ nextId \in DocIds
        /\ \A e \in DocIds \ {nextId} : documents'[e] = documents[e]
        /\ documents'[nextId] # None /\ documents'[nextId].hash = c
        /\ documents'[nextId].status # "ready"
    BY <2>1, <2>2 DEF Appears
  <2> HIDE DEF pending, c
  <2>4. ~ KnownHash(c) /\ raw[request[k].name] = c
    BY <1>6, <2>1 DEF Unshared, Alone, Waiting, c
  <2>5. OneDocumentPerContent'
    BY <1>6, <2>3, <2>4 DEF Unshared, OneDocumentPerContent, KnownHash
  <2>6. ASSUME NEW j \in Requests \ {k}
        PROVE  Undisturbed(j) /\ Apart(k, j)'
    <3>1. /\ request'[j] = request[j] /\ Apart(k, j) /\ Assigned(j) /\ Alone(j)
      BY <1>1, <1>6, <2>1 DEF Others, Unshared
    <3>2. request[j].doc # nextId /\ (request[j].doc # 0 => request[j].doc \in DocIds)
      BY <1>2, <2>3, <3>1 DEF Assigned
    <3>3. request[j].step = "inserting" => ~ KnownHash(request[j].text)'
      BY <2>1, <2>3, <3>1 DEF Apart, Alone, KnownHash, Waiting, c
    <3>4. Undisturbed(j)
      BY <2>1, <2>3, <3>2, <3>3 DEF Undisturbed
    <3>5. Apart(k, j)'
      BY <2>1, <3>1, <3>2 DEF Apart, Waiting, c
    <3> QED
      BY <3>4, <3>5
  <2>7. Alone(k)'
    BY <1>2, <2>1, <2>3, <2>4 DEF Alone
  <2> QED
    BY <1>6, <2>1, <2>5, <2>6, <2>7, UnsharedRequestStep
<1>7. ASSUME Unshared, NEW k \in Requests, Move(k) PROVE Unshared'
  <2>1. request[k].step = "moving"
    BY <1>7 DEF Move, At
  <2>2. Doc(k) \in DocIds /\ request[k].name \in Names
    BY <1>1, <2>1 DEF Assigned, Doc
  <2>3. /\ Others(k)
        /\ request'[k].step = AfterMove(request[k].suffix)
        /\ request'[k].doc = request[k].doc
        /\ \A m \in Names \ {request[k].name} : raw'[m] = raw[m]
        /\ UNCHANGED documents
    BY <1>1, <1>7, <2>2, MoveEffect
  <2>4. \A d \in DocIds : Lingers(d)
    BY <2>3 DEF Lingers
  <2>5. request'[k].step \notin Waiting
    BY <2>3 DEF AfterMove, Waiting
  <2>6. ASSUME NEW j \in Requests \ {k}, request[j].step \in Waiting
        PROVE  raw'[request[j].name] = raw[request[j].name]
    <3>1. /\ Apart(j, k) /\ Alone(j) /\ Alone(k) /\ request[j].name \in Names
      BY <1>1, <1>7, <2>6 DEF Unshared, Assigned, Waiting
    <3>2. request[j].name # request[k].name
      BY <2>1, <2>6, <3>1 DEF Apart, Alone, Waiting
    <3> QED
      BY <2>3, <3>1, <3>2
  <2> QED
    BY <1>7, <2>3, <2>4, <2>5, <2>6, UnsharedPlainStep
<1>8. ASSUME Unshared, NEW k \in Requests,
             \/ MoveFails(k) \/ AnswerPdf(k) \/ SubmitAccepted(k)
             \/ Parse(k) \/ SubmitFails(k) \/ AnswerLost(k) \/ WithdrawFails(k)
      PROVE  Unshared'
  <2>1. /\ Rests(k) \/ \E step \in {"failing", "persisting", "withdrawing"} : Moves(k, step)
        /\ UNCHANGED <<raw, documents>>
    BY <1>1, <1>8, MoveFailsEffect, AnswerPdfEffect, SubmitAcceptedEffect,
       ParseEffect, SubmitFailsEffect, LossEffect
  <2>2. {"failing", "persisting", "withdrawing"} \subseteq Steps \ Waiting
    BY DEF Steps, Waiting
  <2>3. /\ Others(k) /\ request'[k].doc \in {0, request[k].doc}
        /\ request'[k].step \notin Waiting
    BY <2>1, <2>2, RestsPlainly, MovesPlainly
  <2> QED
    BY <1>8, <2>1, <2>3, UnsharedQuietStep
<1>9. ASSUME Unshared, NEW k \in Requests, Persist(k) PROVE Unshared'
  <2>1. /\ \E step \in {"failing", "finishing"} : Moves(k, step)
        /\ UNCHANGED <<raw, documents>>
    BY <1>1, <1>9, PersistEffect
  <2>2. {"failing", "finishing"} \subseteq Steps \ Waiting
    BY DEF Steps, Waiting
  <2>3. /\ Others(k) /\ request'[k].doc = request[k].doc
        /\ request'[k].step \notin Waiting
    BY <2>1, <2>2, MovesPlainly
  <2> QED
    BY <1>9, <2>1, <2>3, UnsharedQuietStep
<1>10. ASSUME Unshared, NEW k \in Requests, MarkReady(k) \/ MarkFailed(k)
       PROVE  Unshared'
  <2>1. request[k].step \in {"finishing", "failing"}
    BY <1>10 DEF MarkReady, MarkFailed, At
  <2>2. request[k].doc \in DocIds
    BY <1>1, <2>1 DEF Assigned
  <2>3. /\ Rests(k) /\ UNCHANGED raw
        /\ \E status : StatusBecomes(request[k].doc, status)
    BY <1>1, <1>10, <2>2, MarkReadyEffect, MarkFailedEffect
  <2>4. Others(k) /\ request'[k].doc = 0 /\ request'[k].step \notin Waiting
    BY <2>3, RestsPlainly
  <2>5. \A d \in DocIds : Lingers(d)
    BY <2>3 DEF StatusBecomes, Lingers
  <2>6. \A d \in DocIds \ {request[k].doc} : documents'[d] = documents[d]
    BY <2>3 DEF StatusBecomes
  <2> QED
    BY <1>10, <2>3, <2>4, <2>5, <2>6, UnsharedPlainStep
<1>22. ASSUME Unshared, NEW d \in DocIds, ConversionDies(d) PROVE Unshared'
  BY <1>22 DEF ConversionDies, Unshared, OneDocumentPerContent, Alone, Apart, KnownHash
<1>11. ASSUME Unshared, NEW d \in DocIds, NEW c \in Contents, Convert(d, c)
       PROVE  Unshared'
  BY <1>11 DEF Convert, Unshared, OneDocumentPerContent, Alone, Apart, KnownHash
<1>12. ASSUME Unshared, NEW k \in Requests, NEW d \in DocIds, KnockConverted(k, d)
       PROVE  Unshared'
  <2>1. /\ Starts(k, "reading", "pdf", None, None, d)
        /\ documents[d] # None /\ documents[d].status # "ready"
        /\ ~ Overlaps(k, None, d) /\ UNCHANGED <<raw, documents>>
    BY <1>1, <1>12, KnockConvertedEffect
  <2>2. /\ Others(k) /\ request'[k].step = "reading" /\ request'[k].doc = d
    BY <2>1 DEF Starts
  <2>3. ASSUME NEW j \in Requests \ {k} PROVE Undisturbed(j) /\ Apart(k, j)'
    <3>1. request'[j] = request[j] /\ Alone(j) /\ Assigned(j)
      BY <1>1, <1>12, <2>2 DEF Others, Unshared
    <3>2. request[j].doc # d
      BY <1>2, <2>1, <3>1 DEF Overlaps, At, Assigned
    <3>3. Undisturbed(j)
      BY <2>1, <3>1 DEF Undisturbed, Alone, KnownHash
    <3>4. Apart(k, j)'
      BY <2>2, <3>1, <3>2 DEF Apart, Waiting
    <3> QED
      BY <3>3, <3>4
  <2>4. Alone(k)'
    BY <2>1, <2>2 DEF Alone, Waiting
  <2>5. OneDocumentPerContent'
    BY <1>12, <2>1 DEF Unshared, OneDocumentPerContent
  <2> QED
    BY <1>12, <2>2, <2>3, <2>4, <2>5, UnsharedRequestStep
<1>13. ASSUME Unshared, NEW k \in Requests, Read(k) PROVE Unshared'
  <2>1. request[k].step = "reading"
    BY <1>13 DEF Read, At
  <2>2. request[k].doc \in DocIds
    BY <1>1, <2>1 DEF Assigned
  <2>3. /\ Others(k) /\ request'[k].step \in {"failing", "storing"}
        /\ request'[k].doc = request[k].doc /\ UNCHANGED <<raw, documents>>
    BY <1>1, <1>13, <2>2, ReadEffect
  <2> QED
    BY <1>13, <2>3, UnsharedQuietStep DEF Waiting
<1>14. ASSUME Unshared, NEW k \in Requests, Store(k) PROVE Unshared'
  <2>1. request[k].step = "storing"
    BY <1>14 DEF Store, At
  <2>2. request[k].doc \in DocIds /\ request[k].text \in Contents
    BY <1>1, <2>1, ArrivalsAssumption DEF Assigned
  <2>3. Moves(k, "parsing") /\ UNCHANGED <<raw, documents>>
    BY <1>1, <1>14, <2>2, StoreEffect
  <2>4. /\ Others(k) /\ request'[k].doc = request[k].doc
        /\ request'[k].step \notin Waiting
    BY <2>3, MovesPlainly DEF Steps, Waiting
  <2> QED
    BY <1>14, <2>3, <2>4, UnsharedQuietStep
<1>15. ASSUME Unshared, NEW k \in Requests, SubmitUrl(k) PROVE Unshared'
  <2>1. /\ Starts(k, "submitting", "pdf", None, None, nextId)
        /\ Appears("converting", None, "pdf") /\ UNCHANGED raw
    BY <1>1, <1>15, SubmitUrlEffect
  <2>2. /\ Others(k) /\ request'[k].step = "submitting" /\ request'[k].doc = nextId
        /\ nextId \in DocIds
        /\ \A e \in DocIds \ {nextId} : documents'[e] = documents[e]
        /\ documents'[nextId] # None /\ documents'[nextId].hash = None
        /\ documents'[nextId].status = "converting"
    BY <2>1 DEF Starts, Appears
  <2>3. ASSUME NEW j \in Requests \ {k} PROVE Undisturbed(j) /\ Apart(k, j)'
    <3>1. /\ request'[j] = request[j] /\ Alone(j) /\ Assigned(j)
      BY <1>1, <1>15, <2>2 DEF Others, Unshared
    <3>2. request[j].doc # nextId /\ (request[j].doc # 0 => request[j].doc \in DocIds)
      BY <1>2, <2>2, <3>1 DEF Assigned
    <3>3. request[j].step = "inserting" => request[j].text # None
      BY <3>1, ArrivalsAssumption DEF Assigned
    <3>4. request[j].step = "inserting" => ~ KnownHash(request[j].text)'
      BY <2>2, <3>1, <3>3 DEF Alone, KnownHash
    <3>5. Undisturbed(j)
      BY <2>1, <2>2, <3>2, <3>4 DEF Undisturbed
    <3>6. Apart(k, j)'
      BY <2>2, <3>1, <3>2 DEF Apart, Waiting
    <3> QED
      BY <3>5, <3>6
  <2>4. Alone(k)'
    BY <2>2 DEF Alone, Waiting
  <2>5. OneDocumentPerContent'
    BY <1>15, <2>2 DEF Unshared, OneDocumentPerContent
  <2> QED
    BY <1>15, <2>2, <2>3, <2>4, <2>5, UnsharedRequestStep
<1>16. ASSUME Unshared, NEW k \in Requests, Withdraw(k) PROVE Unshared'
  <2>1. request[k].step = "withdrawing"
    BY <1>16 DEF Withdraw, At
  <2>2. request[k].doc \in DocIds
    BY <1>1, <2>1 DEF Assigned
  <2>3. Rests(k) /\ Disappears(request[k].doc) /\ UNCHANGED raw
    BY <1>1, <1>16, <2>2, WithdrawEffect
  <2>4. Others(k) /\ request'[k].doc = 0 /\ request'[k].step \notin Waiting
    BY <2>3, RestsPlainly
  <2>5. /\ \A d \in DocIds : Lingers(d)
        /\ \A d \in DocIds \ {request[k].doc} : documents'[d] = documents[d]
    BY <2>3 DEF Disappears, Lingers
  <2> QED
    BY <1>16, <2>3, <2>4, <2>5, UnsharedPlainStep
<1>17. ASSUME Unshared, NEW k \in Requests, NEW d \in DocIds, Delete(k, d)
       PROVE  Unshared'
  <2>1. Starts(k, "removing", "md", None, None, d) /\ Disappears(d) /\ UNCHANGED raw
    BY <1>1, <1>17, DeleteEffect
  <2>2. /\ Others(k) /\ request'[k].step = "removing" /\ request'[k].doc = d
        /\ documents'[d] = None
        /\ \A e \in DocIds \ {d} : documents'[e] = documents[e]
    BY <2>1 DEF Starts, Disappears
  <2>3. \A e \in DocIds : Lingers(e)
    BY <2>2 DEF Lingers
  <2>4. /\ OneDocumentPerContent' /\ \A c : ~ KnownHash(c) => ~ KnownHash(c)'
    BY <1>17, <2>3, LingeringHashes DEF Unshared
  <2>5. ASSUME NEW j \in Requests \ {k} PROVE Undisturbed(j) /\ Apart(k, j)'
    <3>1. /\ request'[j] = request[j] /\ Alone(j) /\ Assigned(j)
      BY <1>1, <1>17, <2>2 DEF Others, Unshared
    <3>2. request[j].doc # 0 => request[j].doc \in DocIds
      BY <3>1 DEF Assigned
    <3>3. request[j].step = "inserting" => ~ KnownHash(request[j].text)'
      BY <2>4, <3>1 DEF Alone
    <3>4. Undisturbed(j)
      BY <2>1, <2>2, <3>2, <3>3 DEF Undisturbed
    <3>5. Apart(k, j)'
      BY <2>2, <3>1 DEF Apart, Waiting
    <3> QED
      BY <3>4, <3>5
  <2>6. Alone(k)'
    BY <2>2 DEF Alone, Waiting
  <2> QED
    BY <1>17, <2>2, <2>4, <2>5, <2>6, UnsharedRequestStep
<1>18. ASSUME Unshared, NEW k \in Requests, RemoveDirectory(k) PROVE Unshared'
  <2>1. request[k].step = "removing"
    BY <1>18 DEF RemoveDirectory, At
  <2>2. request[k].doc \in DocIds
    BY <1>1, <2>1 DEF Assigned
  <2>3. Rests(k) /\ UNCHANGED <<raw, documents>>
    BY <1>1, <1>18, <2>2, RemoveDirectoryEffect
  <2> QED
    BY <1>18, <2>3, RestsPlainly, UnsharedQuietStep
<1>19. ASSUME Unshared, Crash PROVE Unshared'
  <2>1. /\ \A k \in Requests : request'[k].step = "idle" /\ request'[k].doc = 0
        /\ UNCHANGED <<files, documents>>
    BY <1>1, <1>19, CrashEffect
  <2> QED
    BY <1>19, <2>1 DEF Unshared, OneDocumentPerContent, Alone, Apart, Waiting
<1>20. ASSUME Unshared, UNCHANGED vars PROVE Unshared'
  BY <1>20 DEF vars, Unshared, OneDocumentPerContent, Alone, Apart, KnownHash
<1>21. Unshared
  <2>1. raced' = raced \/ \E x \in BOOLEAN : raced' = (raced \/ x)
    BY DEF Next, Work, Gateway, Converters, People, Drop, Upload, KnockRaw, Look,
       Insert, Move, MoveFails, AnswerPdf, Parse, Persist, MarkReady, MarkFailed,
       Convert, KnockConverted, Read, Store, SubmitUrl, SubmitAccepted,
       SubmitFails, Withdraw, Delete, RemoveDirectory, Crash, Overlaps, vars,
       AnswerLost, ConversionDies, WithdrawFails
  <2> QED
    BY <2>1
<1> QED
  BY <1>3, <1>4, <1>5, <1>6, <1>7, <1>8, <1>9, <1>10, <1>11, <1>12, <1>13, <1>14,
     <1>15, <1>16, <1>17, <1>18, <1>19, <1>20, <1>21, <1>22
  DEF Next, Work, Gateway, Converters, People

Unraced == ~ raced => Unshared

LEMMA AlwaysUnraced == Spec => [](Formed /\ Unraced)
<1> DEFINE Inv == Formed /\ Unraced
<1>1. Init => Inv
  <2> SUFFICES ASSUME Init PROVE Unshared
    BY FormedInit DEF Unraced
  <2>1. \A k \in Requests : request[k].step = "idle" /\ request[k].doc = 0
    BY DEF Init, Idle
  <2>2. \A d \in DocIds : documents[d] = None
    BY DEF Init
  <2> QED
    BY <2>1, <2>2 DEF Unshared, OneDocumentPerContent, Alone, Apart, Waiting
<1>2. Inv /\ [Next]_vars => Inv'
  BY FormedStep, UnsharedStep DEF Unraced
<1> QED
  BY <1>1, <1>2, PTL DEF Spec

\* Repeated knocks, re-uploads, restarts and deletions make no second
\* document of one content, as long as no two requests work on that file at
\* the same time.
THEOREM RetriesAreHarmless == Spec => []RetriesMakeNoDuplicates
<1>1. Formed /\ Unraced => RetriesMakeNoDuplicates
  BY DEF Unraced, Unshared, RetriesMakeNoDuplicates
<1> QED
  BY <1>1, AlwaysUnraced, PTL


\* What a step may do to the rows: they stay, one appears under a fresh id,
\* one goes, or the request that works on one sets its status.
LEMMA RowSteps ==
  ASSUME Formed, [Next]_vars
  PROVE  \/ UNCHANGED documents
         \/ \E status, hash, suffix : Appears(status, hash, suffix)
         \/ \E d \in DocIds : Disappears(d)
         \/ \E k \in Requests, status \in {"ready", "failed"} :
              /\ request[k].doc \in DocIds
              /\ StatusBecomes(request[k].doc, status)
<1>1. TypeOK /\ \A k \in Requests : Assigned(k)
  BY DEF Formed
<1>2. ASSUME NEW k \in Requests, Insert(k) \/ SubmitUrl(k)
      PROVE  \E status, hash, suffix : Appears(status, hash, suffix)
  BY <1>1, <1>2, InsertEffect, SubmitUrlEffect
<1>3. ASSUME NEW k \in Requests, Withdraw(k) PROVE \E d \in DocIds : Disappears(d)
  <2>1. request[k].doc \in DocIds
    BY <1>1, <1>3 DEF Withdraw, At, Assigned
  <2> QED
    BY <1>1, <1>3, <2>1, WithdrawEffect
<1>4. ASSUME NEW k \in Requests, NEW d \in DocIds, Delete(k, d)
      PROVE  \E e \in DocIds : Disappears(e)
  BY <1>1, <1>4, DeleteEffect
<1>5. ASSUME NEW k \in Requests, MarkReady(k) \/ MarkFailed(k)
      PROVE  /\ request[k].doc \in DocIds
             /\ \E status \in {"ready", "failed"} : StatusBecomes(request[k].doc, status)
  <2>1. request[k].doc \in DocIds
    BY <1>1, <1>5 DEF MarkReady, MarkFailed, At, Assigned
  <2> QED
    BY <1>1, <1>5, <2>1, MarkReadyEffect, MarkFailedEffect
<1> QED
  BY <1>2, <1>3, <1>4, <1>5
  DEF Next, Work, Gateway, Converters, People, Drop, Upload, KnockRaw, Move,
      MoveFails, AnswerPdf, Parse, Persist, Convert, KnockConverted, Read, Store,
      SubmitAccepted, SubmitFails, RemoveDirectory, Crash, vars,
      AnswerLost, ConversionDies, WithdrawFails

\* No knock takes a ready document back to failed or converting, unless it
\* overlapped another one: a request that nobody raced works on a row that
\* is not ready yet.
THEOREM ReadyIsFinal == Spec => ReadyStaysReady
<1> DEFINE Stays == \A d \in DocIds :
                      (documents[d] # None /\ documents[d].status = "ready" /\ ~ raced)
                        => documents'[d] = None \/ documents'[d].status = "ready"
<1>1. Formed /\ Unraced /\ [Next]_vars => Stays
  <2> SUFFICES ASSUME Formed, Unraced, [Next]_vars, NEW d \in DocIds,
                      documents[d] # None, documents[d].status = "ready", ~ raced
               PROVE  documents'[d] = None \/ documents'[d].status = "ready"
    OBVIOUS
  <2>1. CASE UNCHANGED documents
    BY <2>1
  <2>2. ASSUME NEW status, NEW hash, NEW suffix, Appears(status, hash, suffix)
        PROVE  documents'[d] = documents[d]
    <3>1. nextId \in Int /\ DocIds \subseteq Int
      BY DocIdsNumbers, ArrivalsAssumption DEF Formed, TypeOK
    <3>2. d # nextId
      BY <3>1 DEF Formed, Unborn
    <3> QED
      BY <2>2, <3>2 DEF Appears
  <2>3. ASSUME NEW e \in DocIds, Disappears(e)
        PROVE  documents'[d] = None \/ documents'[d] = documents[d]
    BY <2>3 DEF Disappears
  <2>4. ASSUME NEW k \in Requests, NEW status, request[k].doc \in DocIds,
               StatusBecomes(request[k].doc, status)
        PROVE  documents'[d] = documents[d]
    <3>1. request[k].doc # d
      BY <2>4, DocIdsNumbers DEF Unraced, Unshared, Alone
    <3> QED
      BY <2>4, <3>1 DEF StatusBecomes
  <2> QED
    BY <2>1, <2>2, <2>3, <2>4, RowSteps
<1>2. Formed /\ Unraced /\ [Next]_vars => [Stays]_vars
  BY <1>1
<1> HIDE DEF Stays
<1>3. Spec => [][Stays]_vars
  BY <1>2, AlwaysUnraced, PTL DEF Spec
<1> QED
  BY <1>3 DEF ReadyStaysReady, Stays


-----------------------------------------------------------------------------
(* No row is left half done *)

Works(k, d) == request[k].doc = d /\ request[k].step # "removing"
Worked(d)   == \E k \in Requests : Works(k, d)

\* Nobody has to work on the row: it is settled, a conversion will, or what
\* should have asked for the conversion or withdrawn the row was lost.
Waits(d) ==
  /\ documents[d].status = "processing" => raced /\ documents[d].suffix = "other"
  /\ documents[d].status = "converting" => d \in jobs \/ converted[d] # None \/ d \in lost

\* A request for a PDF or a URL never works on a row in processing.
Cared(k) ==
  LET r == request[k] IN
  r.doc # 0 /\ documents[r.doc] # None =>
    /\ r.step = "moving" => documents[r.doc].suffix = r.suffix
    /\ \/ r.step \in {"answering", "submitting", "withdrawing"}
       \/ r.step = "moving" /\ r.suffix = "pdf"
       => documents[r.doc].status # "processing"

Tended ==
  /\ \A k \in Requests : Cared(k)
  /\ \A d \in DocIds : documents[d] # None /\ documents[d].status = "converting"
       => documents[d].suffix = "pdf"
  /\ crashes = 0 =>
       \A d \in DocIds : documents[d] # None => Worked(d) \/ Waits(d)

\* The row is as it was or settles, or k has just inserted it.
RowGoesOn(k, d) ==
  documents'[d] # None =>
    \/ /\ documents[d] # None
       /\ documents'[d].suffix = documents[d].suffix
       /\ documents'[d].status \in {documents[d].status, "ready", "failed"}
    \/ /\ d = nextId /\ Works(k, d)'
       /\ documents'[d].status = "converting" => documents'[d].suffix = "pdf"

LEMMA TendedRequestStep ==
  ASSUME Formed, Tended, NEW k \in Requests, Others(k), Cared(k)',
         crashes' = crashes, raced => raced', lost \subseteq lost',
         \A d \in DocIds : RowGoesOn(k, d),
         \A d \in DocIds : Works(k, d) /\ documents'[d] # None
           => Works(k, d)' \/ Waits(d)',
         \A d \in DocIds : d \in jobs \/ converted[d] # None
           => d \in jobs' \/ converted'[d] # None \/ Works(k, d)'
  PROVE  Tended'
<1>1. nextId \in Int /\ DocIds \subseteq Int
  BY DocIdsNumbers, ArrivalsAssumption DEF Formed, TypeOK
<1>2. ASSUME NEW j \in Requests \ {k} PROVE Cared(j)'
  <2>1. request'[j] = request[j] /\ Cared(j) /\ Assigned(j)
    BY DEF Others, Tended, Formed
  <2>2. request[j].doc # 0 => request[j].doc \in DocIds /\ request[j].doc # nextId
    BY <1>1, <2>1 DEF Assigned
  <2>3. request[j].doc # 0 /\ documents'[request[j].doc] # None =>
          /\ documents[request[j].doc] # None
          /\ documents'[request[j].doc].suffix = documents[request[j].doc].suffix
          /\ documents'[request[j].doc].status
               \in {documents[request[j].doc].status, "ready", "failed"}
    BY <2>2 DEF RowGoesOn
  <2> QED
    BY <2>1, <2>3 DEF Cared
<1>3. ASSUME NEW d \in DocIds, documents'[d] # None, documents'[d].status = "converting"
      PROVE  documents'[d].suffix = "pdf"
  BY <1>3 DEF RowGoesOn, Tended
<1>4. ASSUME crashes' = 0, NEW d \in DocIds, documents'[d] # None
      PROVE  Worked(d)' \/ Waits(d)'
  <2>1. CASE Works(k, d)'
    BY <2>1 DEF Worked
  <2>2. CASE ~ Works(k, d)'
    <3>1. /\ documents[d] # None
          /\ documents'[d].suffix = documents[d].suffix
          /\ documents'[d].status \in {documents[d].status, "ready", "failed"}
      BY <1>4, <2>2 DEF RowGoesOn
    <3>2. Worked(d) \/ Waits(d)
      BY <1>4, <3>1 DEF Tended
    <3>3. CASE Waits(d)
      BY <2>2, <3>1, <3>3 DEF Waits
    <3>4. CASE Worked(d)
      <4>1. PICK j \in Requests : Works(j, d)
        BY <3>4 DEF Worked
      <4>2. CASE j = k
        BY <1>4, <2>2, <4>1, <4>2
      <4>3. CASE j # k
        BY <4>1, <4>3 DEF Others, Works, Worked
      <4> QED
        BY <4>2, <4>3
    <3> QED
      BY <3>2, <3>3, <3>4
  <2> QED
    BY <2>1, <2>2
<1> QED
  BY <1>2, <1>3, <1>4 DEF Tended

\* Request k goes on with the row it has, and nothing in the store changes.
LEMMA TendedQuietStep ==
  ASSUME Formed, Tended, NEW k \in Requests, Others(k), Cared(k)',
         request[k].doc # 0 => /\ request'[k].doc = request[k].doc
                               /\ request'[k].step # "removing",
         raced => raced', UNCHANGED <<documents, jobs, converted, lost, crashes>>
  PROVE  Tended'
<1>1. \A d \in DocIds : RowGoesOn(k, d)
  BY DEF RowGoesOn
<1>2. \A d \in DocIds : Works(k, d) => Works(k, d)'
  BY DocIdsNumbers DEF Works
<1> QED
  BY <1>1, <1>2, TendedRequestStep

LEMMA RestsCared ==
  ASSUME NEW k \in Requests, Rests(k)
  PROVE  Others(k) /\ Cared(k)'
BY DEF Rests, Cared

LEMMA MovesCared ==
  ASSUME NEW k \in Requests, NEW step, Moves(k, step),
         step \notin {"answering", "submitting", "withdrawing", "moving", "removing"}
  PROVE  /\ Others(k) /\ Cared(k)' /\ request'[k].doc = request[k].doc
         /\ request'[k].step # "removing"
BY DEF Moves, Cared

LEMMA TendedStep ==
  ASSUME Formed, Unraced, Tended, [Next]_vars
  PROVE  Tended'
<1> USE DEF files, history, counts
<1>1. TypeOK /\ \A k \in Requests : Assigned(k) /\ Cared(k)
  BY DEF Formed, Tended
<1>2. /\ nextId \in Int /\ DocIds \subseteq Int /\ 0 \notin DocIds
  BY DocIdsNumbers, ArrivalsAssumption DEF Formed, TypeOK
<1>3. ASSUME NEW n \in Names, NEW c \in Contents, Drop(n, c) PROVE Tended'
  BY <1>3 DEF Drop, Tended, Cared, Worked, Works, Waits
<1>4. ASSUME NEW k \in Requests, NEW n \in Names, NEW c \in Contents, Upload(k, n, c)
      PROVE  Tended'
  <2>1. /\ Starts(k, "inserting", Suffix[n], n, c, 0)
        /\ raced' = (raced \/ Overlaps(k, c, 0))
    BY <1>1, <1>4, LookEffect DEF Upload
  <2>2. Others(k) /\ Cared(k)' /\ request[k].doc = 0
    BY <1>1, <2>1 DEF Starts, Cared, Assigned
  <2> QED
    BY <1>4, <2>1, <2>2, TendedQuietStep DEF Upload
<1>5. ASSUME NEW k \in Requests, NEW n \in Names, KnockRaw(k, n) PROVE Tended'
  <2>1. raw[n] \in Contents /\ Look(k, n, raw[n], FALSE)
    BY <1>1, <1>5 DEF KnockRaw, TypeOK
  <2>2. /\ Starts(k, "inserting", Suffix[n], n, raw[n], 0)
        /\ raced' = (raced \/ Overlaps(k, raw[n], 0))
    BY <1>1, <2>1, LookEffect
  <2>3. Others(k) /\ Cared(k)' /\ request[k].doc = 0
    BY <1>1, <2>2 DEF Starts, Cared, Assigned
  <2> QED
    BY <1>5, <2>2, <2>3, TendedQuietStep DEF KnockRaw
<1>6. ASSUME NEW k \in Requests, Insert(k) PROVE Tended'
  <2> DEFINE pending == IF request[k].suffix = "pdf" THEN "converting" ELSE "processing"
  <2>1. /\ request[k].step = "inserting" /\ Others(k)
        /\ request'[k].step = "moving" /\ request'[k].doc = nextId
        /\ request'[k].suffix = request[k].suffix
        /\ Appears(pending, request[k].text, request[k].suffix)
        /\ UNCHANGED <<jobs, converted, raced, lost, crashes>>
    BY <1>1, <1>6, InsertEffect
  <2>2. /\ pending = "converting" => request[k].suffix = "pdf"
        /\ request[k].suffix = "pdf" => pending # "processing"
    OBVIOUS
  <2> HIDE DEF pending
  <2>3. /\ nextId \in DocIds
        /\ \A e \in DocIds \ {nextId} : documents'[e] = documents[e]
        /\ documents'[nextId].status = pending
        /\ documents'[nextId].suffix = request[k].suffix
    BY <2>1 DEF Appears
  <2>4. Cared(k)'
    BY <2>1, <2>2, <2>3 DEF Cared
  <2>5. \A d \in DocIds : RowGoesOn(k, d)
    BY <2>1, <2>2, <2>3 DEF RowGoesOn, Works
  <2>6. \A d \in DocIds : ~ Works(k, d)
    BY <1>1, <1>2, <2>1 DEF Works, Assigned
  <2> QED
    BY <2>1, <2>4, <2>5, <2>6, TendedRequestStep
<1>7. ASSUME NEW k \in Requests, Move(k) PROVE Tended'
  <2>1. request[k].step = "moving"
    BY <1>7 DEF Move, At
  <2>2. Doc(k) \in DocIds /\ request[k].name \in Names
    BY <1>1, <2>1 DEF Assigned, Doc
  <2>3. /\ Others(k)
        /\ request'[k].step = AfterMove(request[k].suffix)
        /\ request'[k].doc = request[k].doc
        /\ UNCHANGED <<documents, jobs, converted, raced, lost, crashes>>
    BY <1>1, <1>7, <2>2, MoveEffect
  <2>4. Cared(k)' /\ request'[k].step # "removing"
    BY <1>1, <2>1, <2>3 DEF Cared, AfterMove
  <2> QED
    BY <2>3, <2>4, TendedQuietStep
<1>8. ASSUME NEW k \in Requests, MoveFails(k) PROVE Tended'
  <2>1. /\ request[k].step = "moving"
        /\ \/ request[k].suffix = "other" /\ Rests(k)
           \/ request[k].suffix # "other" /\ Moves(k, "failing")
        /\ \/ raw[request[k].name] = None
           \/ request[k].suffix = "md" /\ raw[request[k].name] \notin Decodable
        /\ UNCHANGED <<documents, jobs, converted, raced, lost, crashes>>
    BY <1>1, <1>8, MoveFailsEffect
  <2>2. request[k].doc \in DocIds /\ request[k].text \in Contents
    BY <1>1, <2>1 DEF Assigned
  <2>3. CASE request[k].suffix # "other"
    BY <2>1, <2>3, MovesCared, TendedQuietStep
  <2>4. CASE request[k].suffix = "other"
    <3>1. Others(k) /\ Cared(k)'
      BY <2>1, <2>4, RestsCared
    \* Alone, it would have found its file.
    <3>2. raced
      BY <2>1, <2>2, <2>4, ArrivalsAssumption DEF Unraced, Unshared, Alone, Waiting
    <3>3. ASSUME NEW d \in DocIds, Works(k, d), documents'[d] # None PROVE Waits(d)'
      <4>1. documents[d] # None /\ documents[d].suffix = "other"
        BY <1>1, <1>2, <2>1, <2>4, <3>3 DEF Works, Cared
      <4>2. documents[d].status # "converting"
        BY <4>1 DEF Tended
      <4> QED
        BY <2>1, <3>2, <4>1, <4>2 DEF Waits
    <3>4. \A d \in DocIds : RowGoesOn(k, d)
      BY <2>1 DEF RowGoesOn
    <3> QED
      BY <2>1, <3>1, <3>3, <3>4, TendedRequestStep
  <2> QED
    BY <2>3, <2>4
<1>9. ASSUME NEW k \in Requests, AnswerPdf(k) \/ SubmitAccepted(k) PROVE Tended'
  <2>1. /\ request[k].step \in {"answering", "submitting"} /\ Rests(k)
        /\ jobs' = jobs \cup {request[k].doc}
        /\ UNCHANGED <<documents, converted, raced, lost, crashes>>
    BY <1>1, <1>9, AnswerPdfEffect, SubmitAcceptedEffect
  <2>2. Others(k) /\ Cared(k)'
    BY <2>1, RestsCared
  <2>3. ASSUME NEW d \in DocIds, Works(k, d), documents'[d] # None PROVE Waits(d)'
    BY <1>1, <1>2, <2>1, <2>3 DEF Works, Cared, Waits
  <2>4. \A d \in DocIds : RowGoesOn(k, d)
    BY <2>1 DEF RowGoesOn
  <2> QED
    BY <2>1, <2>2, <2>3, <2>4, TendedRequestStep
<1>10. ASSUME NEW k \in Requests, Parse(k) \/ Persist(k) PROVE Tended'
  <2>1. /\ \E step \in {"failing", "persisting", "finishing"} : Moves(k, step)
        /\ UNCHANGED <<documents, jobs, converted, raced, lost, crashes>>
    BY <1>1, <1>10, ParseEffect, PersistEffect
  <2> QED
    BY <2>1, MovesCared, TendedQuietStep
<1>11. ASSUME NEW k \in Requests, MarkReady(k) \/ MarkFailed(k) PROVE Tended'
  <2>1. request[k].step \in {"finishing", "failing"}
    BY <1>11 DEF MarkReady, MarkFailed, At
  <2>2. request[k].doc \in DocIds
    BY <1>1, <2>1 DEF Assigned
  <2>3. /\ Rests(k)
        /\ \E status \in {"ready", "failed"} : StatusBecomes(request[k].doc, status)
        /\ UNCHANGED <<jobs, converted, raced, lost, crashes>>
    BY <1>1, <1>11, <2>2, MarkReadyEffect, MarkFailedEffect
  <2>4. Others(k) /\ Cared(k)'
    BY <2>3, RestsCared
  <2>5. \A d \in DocIds : RowGoesOn(k, d)
    BY <2>3 DEF StatusBecomes, RowGoesOn
  <2>6. ASSUME NEW d \in DocIds, Works(k, d), documents'[d] # None PROVE Waits(d)'
    BY <2>3, <2>6 DEF Works, StatusBecomes, Waits
  <2> QED
    BY <2>3, <2>4, <2>5, <2>6, TendedRequestStep
<1>23. ASSUME NEW d \in DocIds, ConversionDies(d) PROVE Tended'
  <2>1. /\ jobs' = jobs \ {d} /\ lost' = lost \cup {d}
        /\ UNCHANGED <<documents, request, converted, raced, crashes>>
    BY <1>23 DEF ConversionDies
  <2>2. \A e \in DocIds : Waits(e) => Waits(e)'
    BY <2>1 DEF Waits
  <2> QED
    BY <2>1, <2>2 DEF Tended, Cared, Worked, Works
<1>24. ASSUME NEW k \in Requests, AnswerLost(k) \/ WithdrawFails(k) PROVE Tended'
  <2>1. /\ request[k].step \in {"answering", "withdrawing"} /\ Rests(k)
        /\ lost' = lost \cup {request[k].doc}
        /\ UNCHANGED <<documents, jobs, converted, raced, crashes>>
    BY <1>1, <1>24, LossEffect
  <2>2. Others(k) /\ Cared(k)'
    BY <2>1, RestsCared
  <2>3. ASSUME NEW d \in DocIds, Works(k, d), documents'[d] # None PROVE Waits(d)'
    BY <1>1, <1>2, <2>1, <2>3 DEF Works, Cared, Waits
  <2>4. \A d \in DocIds : RowGoesOn(k, d)
    BY <2>1 DEF RowGoesOn
  <2> QED
    BY <2>1, <2>2, <2>3, <2>4, TendedRequestStep
<1>12. ASSUME NEW d \in DocIds, NEW c \in Contents, Convert(d, c) PROVE Tended'
  <2>1. /\ jobs' = jobs \ {d} /\ converted' = [converted EXCEPT ![d] = c]
        /\ UNCHANGED <<documents, request, raced, lost, crashes>>
    BY <1>12 DEF Convert
  <2>2. /\ converted'[d] = c /\ c # None
        /\ \A e \in DocIds \ {d} : converted'[e] = converted[e]
    BY <1>1, <2>1, ArrivalsAssumption DEF TypeOK
  <2>3. \A e \in DocIds : Waits(e) => Waits(e)'
    BY <2>1, <2>2 DEF Waits
  <2> QED
    BY <2>1, <2>3 DEF Tended, Cared, Worked, Works
<1>13. ASSUME NEW k \in Requests, NEW d \in DocIds, KnockConverted(k, d)
       PROVE  Tended'
  <2>1. /\ Starts(k, "reading", "pdf", None, None, d)
        /\ raced' = (raced \/ Overlaps(k, None, d))
        /\ UNCHANGED <<documents, jobs, converted, lost, crashes>>
    BY <1>1, <1>13, KnockConvertedEffect
  <2>2. Others(k) /\ Cared(k)' /\ request[k].doc = 0
    BY <1>1, <2>1 DEF Starts, Cared, Assigned
  <2> QED
    BY <2>1, <2>2, TendedQuietStep
<1>14. ASSUME NEW k \in Requests, Read(k) PROVE Tended'
  <2>1. request[k].step = "reading"
    BY <1>14 DEF Read, At
  <2>2. request[k].doc \in DocIds
    BY <1>1, <2>1 DEF Assigned
  <2>3. /\ Others(k) /\ request'[k].step \in {"failing", "storing"}
        /\ request'[k].doc = request[k].doc
        /\ UNCHANGED <<documents, jobs, converted, raced, lost, crashes>>
    BY <1>1, <1>14, <2>2, ReadEffect
  <2>4. Cared(k)'
    BY <2>3 DEF Cared
  <2> QED
    BY <2>3, <2>4, TendedQuietStep
<1>15. ASSUME NEW k \in Requests, Store(k) PROVE Tended'
  <2>1. request[k].step = "storing"
    BY <1>15 DEF Store, At
  <2>2. request[k].doc \in DocIds /\ request[k].text \in Contents
    BY <1>1, <2>1, ArrivalsAssumption DEF Assigned
  <2>3. /\ Moves(k, "parsing")
        /\ \A e \in DocIds \ {request[k].doc} : converted'[e] = converted[e]
        /\ UNCHANGED <<documents, jobs, raced, lost, crashes>>
    BY <1>1, <1>15, <2>2, StoreEffect
  <2>4. /\ Others(k) /\ Cared(k)' /\ request'[k].doc = request[k].doc
        /\ request'[k].step # "removing"
    BY <2>3, MovesCared
  <2>5. /\ \A d \in DocIds : Works(k, d) => Works(k, d)'
        /\ Works(k, request[k].doc)'
    BY <2>4 DEF Works
  <2>6. \A d \in DocIds : RowGoesOn(k, d)
    BY <2>3 DEF RowGoesOn
  <2>7. \A d \in DocIds : d \in jobs \/ converted[d] # None
           => d \in jobs' \/ converted'[d] # None \/ Works(k, d)'
    BY <2>3, <2>4 DEF Works
  <2> QED
    BY <2>3, <2>4, <2>5, <2>6, <2>7, TendedRequestStep
<1>16. ASSUME NEW k \in Requests, SubmitUrl(k) PROVE Tended'
  <2>1. /\ Starts(k, "submitting", "pdf", None, None, nextId)
        /\ Appears("converting", None, "pdf")
        /\ UNCHANGED <<jobs, converted, raced, lost, crashes>>
    BY <1>1, <1>16, SubmitUrlEffect
  <2>2. /\ Others(k) /\ request[k].step = "idle"
        /\ request'[k].step = "submitting" /\ request'[k].doc = nextId
        /\ \A e \in DocIds \ {nextId} : documents'[e] = documents[e]
        /\ documents'[nextId].suffix = "pdf"
        /\ documents'[nextId].status = "converting"
    BY <2>1 DEF Starts, Appears
  <2>3. Cared(k)'
    BY <2>2 DEF Cared
  <2>4. \A d \in DocIds : RowGoesOn(k, d)
    BY <2>2 DEF RowGoesOn, Works
  <2>5. \A d \in DocIds : ~ Works(k, d)
    BY <1>1, <1>2, <2>2 DEF Works, Assigned
  <2> QED
    BY <2>1, <2>2, <2>3, <2>4, <2>5, TendedRequestStep
<1>17. ASSUME NEW k \in Requests, SubmitFails(k) PROVE Tended'
  <2>1. /\ request[k].step = "submitting" /\ Moves(k, "withdrawing")
        /\ jobs \subseteq jobs'
        /\ UNCHANGED <<documents, converted, raced, lost, crashes>>
    BY <1>1, <1>17, SubmitFailsEffect
  <2>2. Others(k) /\ Cared(k)'
    BY <1>1, <2>1 DEF Moves, Cared
  <2>3. \A d \in DocIds : Works(k, d) => Works(k, d)'
    BY <2>1 DEF Moves, Works
  <2>4. \A d \in DocIds : RowGoesOn(k, d)
    BY <2>1 DEF RowGoesOn
  <2> QED
    BY <2>1, <2>2, <2>3, <2>4, TendedRequestStep
<1>18. ASSUME NEW k \in Requests, Withdraw(k) PROVE Tended'
  <2>1. request[k].step = "withdrawing"
    BY <1>18 DEF Withdraw, At
  <2>2. request[k].doc \in DocIds
    BY <1>1, <2>1 DEF Assigned
  <2>3. /\ Rests(k) /\ Disappears(request[k].doc)
        /\ UNCHANGED <<jobs, converted, raced, lost, crashes>>
    BY <1>1, <1>18, <2>2, WithdrawEffect
  <2>4. Others(k) /\ Cared(k)'
    BY <2>3, RestsCared
  <2>5. \A d \in DocIds : RowGoesOn(k, d) /\ (Works(k, d) => documents'[d] = None)
    BY <2>3 DEF Disappears, RowGoesOn, Works
  <2> QED
    BY <2>3, <2>4, <2>5, TendedRequestStep
<1>19. ASSUME NEW k \in Requests, NEW d \in DocIds, Delete(k, d) PROVE Tended'
  <2>1. /\ Starts(k, "removing", "md", None, None, d) /\ Disappears(d)
        /\ UNCHANGED <<jobs, converted, raced, lost, crashes>>
    BY <1>1, <1>19, DeleteEffect
  <2>2. Others(k) /\ Cared(k)' /\ request[k].doc = 0
    BY <1>1, <2>1 DEF Starts, Cared, Assigned
  <2>3. \A e \in DocIds : RowGoesOn(k, e)
    BY <2>1 DEF Disappears, RowGoesOn
  <2>4. \A e \in DocIds : ~ Works(k, e)
    BY <1>2, <2>2 DEF Works
  <2> QED
    BY <2>1, <2>2, <2>3, <2>4, TendedRequestStep
<1>20. ASSUME NEW k \in Requests, RemoveDirectory(k) PROVE Tended'
  <2>1. request[k].step = "removing"
    BY <1>20 DEF RemoveDirectory, At
  <2>2. request[k].doc \in DocIds
    BY <1>1, <2>1 DEF Assigned
  <2>3. Rests(k) /\ UNCHANGED <<documents, jobs, converted, raced, lost, crashes>>
    BY <1>1, <1>20, <2>2, RemoveDirectoryEffect
  <2>4. Others(k) /\ Cared(k)'
    BY <2>3, RestsCared
  <2>5. \A d \in DocIds : RowGoesOn(k, d) /\ ~ Works(k, d)
    BY <2>1, <2>3 DEF RowGoesOn, Works
  <2> QED
    BY <2>3, <2>4, <2>5, TendedRequestStep
<1>21. CASE Crash
  <2>1. /\ \A k \in Requests : request'[k].step = "idle" /\ request'[k].doc = 0
        /\ crashes' = crashes + 1 /\ UNCHANGED documents
    BY <1>1, <1>21, CrashEffect
  <2>2. crashes' # 0
    BY <1>1, <2>1 DEF TypeOK
  <2> QED
    BY <2>1, <2>2 DEF Tended, Cared
<1>22. CASE UNCHANGED vars
  BY <1>22 DEF vars, Tended, Cared, Worked, Works, Waits
<1> QED
  BY <1>3, <1>4, <1>5, <1>6, <1>7, <1>8, <1>9, <1>10, <1>11, <1>12, <1>13, <1>14,
     <1>15, <1>16, <1>17, <1>18, <1>19, <1>20, <1>21, <1>22, <1>23, <1>24
  DEF Next, Work, Gateway, Converters, People

\* When every request has answered and the server never went down, no
\* markdown row is left in processing, not even by requests that raced, and a
\* row in converting has a conversion under way or delivered, or a loss of its
\* own: of the answer that asks for its conversion, of that conversion, or of
\* the delete that takes a refused submission back.
THEOREM NothingElseStrands == Spec => []OnlyLossesStrand
<1>1. Init => Tended
  <2> SUFFICES ASSUME Init PROVE Tended
    OBVIOUS
  <2>1. \A k \in Requests : request[k].doc = 0
    BY DEF Init, Idle
  <2>2. \A d \in DocIds : documents[d] = None
    BY DEF Init
  <2> QED
    BY <2>1, <2>2 DEF Tended, Cared
<1>2. Formed /\ Unraced /\ Tended /\ [Next]_vars => Tended'
  BY TendedStep
<1>3. Formed /\ Tended => OnlyLossesStrand
  <2> SUFFICES ASSUME Formed, Tended, crashes = 0,
                      \A k \in Requests : At(k, "idle"),
                      NEW d \in DocIds, documents[d] # None
               PROVE  Waits(d)
    BY DEF OnlyLossesStrand, Waits
  <2>1. ~ Worked(d)
    BY DocIdsNumbers DEF Worked, Works, Formed, Assigned, At
  <2> QED
    BY <2>1 DEF Tended
<1> QED
  BY <1>1, <1>2, <1>3, AlwaysUnraced, PTL DEF Spec


-----------------------------------------------------------------------------
(* What a row says of its file *)

\* A request that moves a file works on the row that carries its hash, unless
\* the user has deleted it; a URL has no hash, and no conversion is made into
\* a markdown document.
Labelled(k) ==
  LET r == request[k] IN
  /\ r.step = "moving" =>
       IF documents[r.doc] # None THEN documents[r.doc].hash = r.text
       ELSE deletes > 0 /\ r.text \in discarded
  /\ r.step \in {"submitting", "withdrawing"} /\ documents[r.doc] # None
       => documents[r.doc].hash = None
  /\ r.step \in {"answering", "reading", "storing"} /\ documents[r.doc] # None
       => documents[r.doc].suffix # "md"

MarkdownIsNoSource(d) ==
  documents[d] # None =>
    /\ documents[d].hash = None => documents[d].suffix # "md"
    /\ d \in jobs \/ converted[d] # None => documents[d].suffix # "md"

Labels ==
  /\ \A k \in Requests : Labelled(k)
  /\ \A d \in DocIds : MarkdownIsNoSource(d)
  /\ \A j, k \in Requests :
       request[j].step = "moving" /\ request[k].step = "moving"
         /\ request[j].doc = request[k].doc => j = k

\* A row keeps its hash and its kind; one that appears is no nameless markdown.
LabelStays(d) ==
  documents'[d] # None =>
    \/ /\ documents[d] # None
       /\ documents'[d].hash = documents[d].hash
       /\ documents'[d].suffix = documents[d].suffix
    \/ /\ d = nextId /\ d \notin jobs' /\ converted'[d] = None
       /\ documents'[d].hash = None => documents'[d].suffix # "md"

\* A row whose file is on its way goes by the delete button only.
GoesByDelete(d) ==
  documents[d] # None /\ documents'[d] = None /\ documents[d].hash # None =>
    deletes' > 0 /\ documents[d].hash \in discarded'

LEMMA LabelsRequestStep ==
  ASSUME Formed, Labels, NEW k \in Requests, Others(k), Labelled(k)',
         request'[k].step = "moving" => request'[k].doc = nextId,
         deletes' \in Nat, deletes' >= deletes, discarded \subseteq discarded',
         \A d \in DocIds : LabelStays(d) /\ GoesByDelete(d),
         \A d \in DocIds : (d \in jobs' \/ converted'[d] # None) =>
           \/ d \in jobs \/ converted[d] # None
           \/ (documents'[d] # None => documents'[d].suffix # "md")
  PROVE  Labels'
<1>1. /\ nextId \in Int /\ DocIds \subseteq Int /\ 0 \notin DocIds /\ deletes \in Nat
  BY DocIdsNumbers, ArrivalsAssumption DEF Formed, TypeOK
<1>2. ASSUME NEW j \in Requests \ {k}
      PROVE  /\ request'[j] = request[j] /\ Labelled(j) /\ Assigned(j)
             /\ request[j].doc # nextId
             /\ request[j].step \notin {"idle", "inserting"} => request[j].doc \in DocIds
  <2>1. request'[j] = request[j] /\ Labelled(j) /\ Assigned(j)
    BY DEF Others, Labels, Formed
  <2> QED
    BY <1>1, <2>1, ArrivalsAssumption DEF Assigned, Formed, TypeOK
<1>3. ASSUME NEW j \in Requests \ {k} PROVE Labelled(j)'
  <2> DEFINE d == request[j].doc
  <2>1. CASE d \notin DocIds
    BY <1>2, <2>1 DEF Labelled
  <2>2. CASE d \in DocIds
    <3>1. documents'[d] # None =>
            /\ documents[d] # None
            /\ documents'[d].hash = documents[d].hash
            /\ documents'[d].suffix = documents[d].suffix
      BY <1>2, <2>2 DEF LabelStays
    <3>2. request[j].step = "moving" => request[j].text \in Contents
      BY <1>2 DEF Assigned
    <3>3. ASSUME request[j].step = "moving", documents'[d] = None
          PROVE  deletes' > 0 /\ request[j].text \in discarded'
      <4>1. CASE documents[d] = None
        BY <1>1, <1>2, <3>3, <4>1 DEF Labelled
      <4>2. CASE documents[d] # None
        BY <1>2, <2>2, <3>2, <3>3, <4>2, ArrivalsAssumption DEF Labelled, GoesByDelete
      <4> QED
        BY <4>1, <4>2
    <3> QED
      BY <1>2, <3>1, <3>3 DEF Labelled
  <2> QED
    BY <2>1, <2>2
<1>4. ASSUME NEW d \in DocIds PROVE MarkdownIsNoSource(d)'
  BY DEF LabelStays, MarkdownIsNoSource, Labels
<1>5. ASSUME NEW i \in Requests, NEW j \in Requests,
             request'[i].step = "moving", request'[j].step = "moving",
             request'[i].doc = request'[j].doc
      PROVE  i = j
  <2>1. CASE i = k \/ j = k
    BY <1>2, <1>5, <2>1
  <2>2. CASE i # k /\ j # k
    BY <1>2, <1>5, <2>2 DEF Labels
  <2> QED
    BY <2>1, <2>2
<1> QED
  BY <1>3, <1>4, <1>5 DEF Labels

\* Rows and conversions are as they were.
LEMMA LabelsQuietStep ==
  ASSUME Formed, Labels, NEW k \in Requests, Others(k), Labelled(k)',
         request'[k].step # "moving",
         UNCHANGED <<documents, jobs, converted, deletes, discarded>>
  PROVE  Labels'
<1>1. \A d \in DocIds : LabelStays(d) /\ GoesByDelete(d)
  BY DEF LabelStays, GoesByDelete
<1>2. deletes \in Nat
  BY DEF Formed, TypeOK
<1> QED
  BY <1>1, <1>2, LabelsRequestStep

LEMMA RestsLabelled ==
  ASSUME NEW k \in Requests, Rests(k)
  PROVE  Others(k) /\ Labelled(k)' /\ request'[k].step # "moving"
BY DEF Rests, Labelled

LEMMA MovesLabelled ==
  ASSUME NEW k \in Requests, NEW step, Moves(k, step),
         step \in {"failing", "parsing", "persisting", "finishing"}
  PROVE  Others(k) /\ Labelled(k)' /\ request'[k].step # "moving"
BY DEF Moves, Labelled

LEMMA LabelsStep ==
  ASSUME Formed, Tended, Labels, [Next]_vars
  PROVE  Labels'
<1> USE DEF files, history, counts
<1>1. TypeOK /\ \A k \in Requests : Assigned(k) /\ Cared(k) /\ Labelled(k)
  BY DEF Formed, Tended, Labels
<1>2. /\ nextId \in Int /\ DocIds \subseteq Int /\ 0 \notin DocIds /\ deletes \in Nat
  BY DocIdsNumbers, ArrivalsAssumption DEF Formed, TypeOK
<1>3. ASSUME NEW n \in Names, NEW c \in Contents, Drop(n, c) PROVE Labels'
  BY <1>3 DEF Drop, Labels, Labelled, MarkdownIsNoSource
<1>4. ASSUME NEW k \in Requests, NEW n \in Names, NEW c \in Contents, Upload(k, n, c)
      PROVE  Labels'
  <2>1. Starts(k, "inserting", Suffix[n], n, c, 0)
    BY <1>1, <1>4, LookEffect DEF Upload
  <2>2. Others(k) /\ Labelled(k)' /\ request'[k].step # "moving"
    BY <2>1 DEF Starts, Labelled
  <2>3. UNCHANGED <<documents, jobs, converted, deletes, discarded>>
    BY <1>4 DEF Upload
  <2> QED
    BY <2>2, <2>3, LabelsQuietStep
<1>5. ASSUME NEW k \in Requests, NEW n \in Names, KnockRaw(k, n) PROVE Labels'
  <2>1. raw[n] \in Contents /\ Look(k, n, raw[n], FALSE)
    BY <1>1, <1>5 DEF KnockRaw, TypeOK
  <2>2. Starts(k, "inserting", Suffix[n], n, raw[n], 0)
    BY <1>1, <2>1, LookEffect
  <2>3. Others(k) /\ Labelled(k)' /\ request'[k].step # "moving"
    BY <2>2 DEF Starts, Labelled
  <2>4. UNCHANGED <<documents, jobs, converted, deletes, discarded>>
    BY <1>5 DEF KnockRaw
  <2> QED
    BY <2>3, <2>4, LabelsQuietStep
<1>6. ASSUME NEW k \in Requests, Insert(k) PROVE Labels'
  <2> DEFINE pending == IF request[k].suffix = "pdf" THEN "converting" ELSE "processing"
             c == request[k].text
  <2>1. /\ request[k].step = "inserting" /\ Others(k)
        /\ request'[k].step = "moving" /\ request'[k].doc = nextId
        /\ request'[k].text = c
        /\ Appears(pending, c, request[k].suffix)
        /\ UNCHANGED <<jobs, converted, deletes, discarded>>
    BY <1>1, <1>6, InsertEffect
  <2>2. /\ nextId \in DocIds
        /\ \A e \in DocIds \ {nextId} : documents'[e] = documents[e]
        /\ documents'[nextId] # None /\ documents'[nextId].hash = c
    BY <2>1 DEF Appears
  <2>3. c # None
    BY <1>1, <2>1, ArrivalsAssumption DEF Assigned
  <2>4. documents[nextId] = None /\ nextId \notin jobs /\ converted[nextId] = None
    BY <1>2, <2>2 DEF Formed, Unborn
  <2> HIDE DEF pending, c
  <2>5. Labelled(k)'
    BY <2>1, <2>2 DEF Labelled
  <2>6. \A d \in DocIds : LabelStays(d) /\ GoesByDelete(d)
    BY <2>1, <2>2, <2>3, <2>4 DEF LabelStays, GoesByDelete
  <2> QED
    BY <1>2, <2>1, <2>5, <2>6, LabelsRequestStep
<1>7. ASSUME NEW k \in Requests, Move(k) PROVE Labels'
  <2>1. request[k].step = "moving"
    BY <1>7 DEF Move, At
  <2>2. Doc(k) \in DocIds /\ request[k].name \in Names
    BY <1>1, <2>1 DEF Assigned, Doc
  <2>3. /\ Others(k)
        /\ request'[k].step = AfterMove(request[k].suffix)
        /\ request'[k].doc = request[k].doc
        /\ UNCHANGED <<documents, jobs, converted, deletes, discarded>>
    BY <1>1, <1>7, <2>2, MoveEffect
  <2>4. Labelled(k)' /\ request'[k].step # "moving"
    BY <1>1, <1>2, <2>1, <2>2, <2>3 DEF Labelled, Cared, AfterMove, Doc
  <2> QED
    BY <2>3, <2>4, LabelsQuietStep
<1>8. ASSUME NEW k \in Requests,
             \/ MoveFails(k) \/ Parse(k) \/ Persist(k)
             \/ AnswerLost(k) \/ WithdrawFails(k)
      PROVE  Labels'
  <2>1. /\ Rests(k) \/ \E step \in {"failing", "persisting", "finishing"} : Moves(k, step)
        /\ UNCHANGED <<documents, jobs, converted, deletes, discarded>>
    BY <1>1, <1>8, MoveFailsEffect, ParseEffect, PersistEffect, LossEffect
  <2> QED
    BY <2>1, RestsLabelled, MovesLabelled, LabelsQuietStep
<1>9. ASSUME NEW k \in Requests, AnswerPdf(k) \/ SubmitAccepted(k) PROVE Labels'
  <2>1. /\ request[k].step \in {"answering", "submitting"} /\ Rests(k)
        /\ jobs' = jobs \cup {request[k].doc}
        /\ UNCHANGED <<documents, converted, deletes, discarded>>
    BY <1>1, <1>9, AnswerPdfEffect, SubmitAcceptedEffect
  <2>2. Others(k) /\ Labelled(k)' /\ request'[k].step # "moving"
    BY <2>1, RestsLabelled
  <2>3. \A d \in DocIds : LabelStays(d) /\ GoesByDelete(d)
    BY <2>1 DEF LabelStays, GoesByDelete
  <2>4. request[k].doc \in DocIds
    BY <1>1, <2>1 DEF Assigned
  <2>5. documents[request[k].doc] # None => documents[request[k].doc].suffix # "md"
    BY <1>1, <2>1, <2>4 DEF Labelled, Labels, MarkdownIsNoSource
  <2>6. \A d \in DocIds : (d \in jobs' \/ converted'[d] # None) =>
           \/ d \in jobs \/ converted[d] # None
           \/ documents'[d] # None => documents'[d].suffix # "md"
    BY <2>1, <2>5
  <2>7. deletes' \in Nat /\ deletes' >= deletes /\ discarded \subseteq discarded'
    BY <1>2, <2>1
  <2> QED
    BY <2>2, <2>3, <2>6, <2>7, LabelsRequestStep
<1>10. ASSUME NEW k \in Requests, MarkReady(k) \/ MarkFailed(k) PROVE Labels'
  <2>1. request[k].step \in {"finishing", "failing"}
    BY <1>10 DEF MarkReady, MarkFailed, At
  <2>2. request[k].doc \in DocIds
    BY <1>1, <2>1 DEF Assigned
  <2>3. /\ Rests(k)
        /\ \E status \in {"ready", "failed"} : StatusBecomes(request[k].doc, status)
        /\ UNCHANGED <<jobs, converted, deletes, discarded>>
    BY <1>1, <1>10, <2>2, MarkReadyEffect, MarkFailedEffect
  <2>4. Others(k) /\ Labelled(k)' /\ request'[k].step # "moving"
    BY <2>3, RestsLabelled
  <2>5. \A d \in DocIds : LabelStays(d) /\ GoesByDelete(d)
    BY <2>3 DEF StatusBecomes, LabelStays, GoesByDelete
  <2>6. UNCHANGED <<jobs, converted, deletes, discarded>>
    BY <2>3
  <2> QED
    BY <1>2, <2>4, <2>5, <2>6, LabelsRequestStep
<1>22. ASSUME NEW d \in DocIds, ConversionDies(d) PROVE Labels'
  BY <1>22 DEF ConversionDies, Labels, Labelled, MarkdownIsNoSource
<1>11. ASSUME NEW d \in DocIds, NEW c \in Contents, Convert(d, c) PROVE Labels'
  <2>1. /\ d \in jobs /\ jobs' = jobs \ {d} /\ converted' = [converted EXCEPT ![d] = c]
        /\ UNCHANGED <<documents, request, deletes, discarded>>
    BY <1>11 DEF Convert
  <2>2. \A e \in DocIds \ {d} : converted'[e] = converted[e]
    BY <1>1, <2>1 DEF TypeOK
  <2>3. \A e \in DocIds : MarkdownIsNoSource(e)'
    BY <2>1, <2>2 DEF MarkdownIsNoSource, Labels
  <2> QED
    BY <2>1, <2>3 DEF Labels, Labelled
<1>12. ASSUME NEW k \in Requests, NEW d \in DocIds, KnockConverted(k, d)
       PROVE  Labels'
  <2>1. /\ Starts(k, "reading", "pdf", None, None, d) /\ converted[d] # None
        /\ UNCHANGED <<documents, jobs, converted, deletes, discarded>>
    BY <1>1, <1>12, KnockConvertedEffect
  <2>2. Others(k) /\ Labelled(k)' /\ request'[k].step # "moving"
    BY <2>1 DEF Starts, Labelled, Labels, MarkdownIsNoSource
  <2> QED
    BY <2>1, <2>2, LabelsQuietStep
<1>13. ASSUME NEW k \in Requests, Read(k) PROVE Labels'
  <2>1. request[k].step = "reading"
    BY <1>13 DEF Read, At
  <2>2. request[k].doc \in DocIds
    BY <1>1, <2>1 DEF Assigned
  <2>3. /\ Others(k) /\ request'[k].step \in {"failing", "storing"}
        /\ request'[k].doc = request[k].doc
        /\ UNCHANGED <<documents, jobs, converted, deletes, discarded>>
    BY <1>1, <1>13, <2>2, ReadEffect
  <2>4. Labelled(k)'
    BY <1>1, <2>1, <2>3 DEF Labelled
  <2> QED
    BY <2>3, <2>4, LabelsQuietStep
<1>14. ASSUME NEW k \in Requests, Store(k) PROVE Labels'
  <2>1. request[k].step = "storing"
    BY <1>14 DEF Store, At
  <2>2. request[k].doc \in DocIds /\ request[k].text \in Contents
    BY <1>1, <2>1, ArrivalsAssumption DEF Assigned
  <2>3. /\ Moves(k, "parsing")
        /\ \A e \in DocIds \ {request[k].doc} : converted'[e] = converted[e]
        /\ converted'[request[k].doc] = None
        /\ UNCHANGED <<documents, jobs, deletes, discarded>>
    BY <1>1, <1>14, <2>2, StoreEffect
  <2>4. Others(k) /\ Labelled(k)' /\ request'[k].step # "moving"
    BY <2>3, MovesLabelled
  <2>5. \A d \in DocIds : LabelStays(d) /\ GoesByDelete(d)
    BY <2>3 DEF LabelStays, GoesByDelete
  <2>6. \A d \in DocIds :
           d \in jobs' \/ converted'[d] # None => d \in jobs \/ converted[d] # None
    BY <2>3
  <2>7. deletes' \in Nat /\ deletes' >= deletes /\ discarded \subseteq discarded'
    BY <1>2, <2>3
  <2> QED
    BY <2>4, <2>5, <2>6, <2>7, LabelsRequestStep
<1>15. ASSUME NEW k \in Requests, SubmitUrl(k) PROVE Labels'
  <2>1. /\ Starts(k, "submitting", "pdf", None, None, nextId)
        /\ Appears("converting", None, "pdf")
        /\ UNCHANGED <<jobs, converted, deletes, discarded>>
    BY <1>1, <1>15, SubmitUrlEffect
  <2>2. /\ Others(k) /\ request'[k].step = "submitting" /\ request'[k].doc = nextId
        /\ nextId \in DocIds
        /\ \A e \in DocIds \ {nextId} : documents'[e] = documents[e]
        /\ documents'[nextId].hash = None /\ documents'[nextId].suffix = "pdf"
        /\ documents'[nextId] # None
    BY <2>1 DEF Starts, Appears
  <2>3. documents[nextId] = None /\ nextId \notin jobs /\ converted[nextId] = None
    BY <1>2, <2>2 DEF Formed, Unborn
  <2>4. Labelled(k)'
    BY <2>2 DEF Labelled
  <2>5. \A d \in DocIds : LabelStays(d) /\ GoesByDelete(d)
    BY <2>1, <2>2, <2>3 DEF LabelStays, GoesByDelete
  <2> QED
    BY <1>2, <2>1, <2>2, <2>4, <2>5, LabelsRequestStep
<1>16. ASSUME NEW k \in Requests, SubmitFails(k) PROVE Labels'
  <2>1. /\ request[k].step = "submitting" /\ Moves(k, "withdrawing")
        /\ UNCHANGED jobs \/ jobs' = jobs \cup {request[k].doc}
        /\ UNCHANGED <<documents, converted, deletes, discarded>>
    BY <1>1, <1>16, SubmitFailsEffect
  <2>2. Others(k) /\ Labelled(k)' /\ request'[k].step # "moving"
    BY <1>1, <2>1 DEF Moves, Labelled
  <2>3. \A d \in DocIds : LabelStays(d) /\ GoesByDelete(d)
    BY <1>1, <1>2, <2>1 DEF LabelStays, GoesByDelete
  <2>4. request[k].doc \in DocIds
    BY <1>1, <2>1 DEF Assigned
  <2>5. documents[request[k].doc] # None => documents[request[k].doc].suffix # "md"
    BY <1>1, <2>1, <2>4 DEF Labelled, Labels, MarkdownIsNoSource
  <2>6. \A d \in DocIds : (d \in jobs' \/ converted'[d] # None) =>
           \/ d \in jobs \/ converted[d] # None
           \/ documents'[d] # None => documents'[d].suffix # "md"
    BY <2>1, <2>5
  <2>7. deletes' \in Nat /\ deletes' >= deletes /\ discarded \subseteq discarded'
    BY <1>2, <2>1
  <2> QED
    BY <2>2, <2>3, <2>6, <2>7, LabelsRequestStep
<1>17. ASSUME NEW k \in Requests, Withdraw(k) PROVE Labels'
  <2>1. request[k].step = "withdrawing"
    BY <1>17 DEF Withdraw, At
  <2>2. request[k].doc \in DocIds
    BY <1>1, <2>1 DEF Assigned
  <2>3. /\ Rests(k) /\ Disappears(request[k].doc)
        /\ UNCHANGED <<jobs, converted, deletes, discarded>>
    BY <1>1, <1>17, <2>2, WithdrawEffect
  <2>4. Others(k) /\ Labelled(k)' /\ request'[k].step # "moving"
    BY <2>3, RestsLabelled
  <2>5. \A d \in DocIds : LabelStays(d) /\ GoesByDelete(d)
    BY <1>1, <2>1, <2>3 DEF Disappears, LabelStays, GoesByDelete, Labelled
  <2> QED
    BY <1>2, <2>3, <2>4, <2>5, LabelsRequestStep
<1>18. ASSUME NEW k \in Requests, NEW d \in DocIds, Delete(k, d) PROVE Labels'
  <2>1. /\ Starts(k, "removing", "md", None, None, d) /\ Disappears(d)
        /\ discarded' = discarded \cup ({documents[d].hash} \ {None})
        /\ deletes' = deletes + 1 /\ UNCHANGED <<jobs, converted>>
    BY <1>1, <1>18, DeleteEffect
  <2>2. Others(k) /\ Labelled(k)' /\ request'[k].step # "moving"
    BY <2>1 DEF Starts, Labelled
  <2>3. deletes' \in Nat /\ deletes' >= deletes /\ deletes' > 0
    BY <1>2, <2>1
  <2>4. \A e \in DocIds : LabelStays(e) /\ GoesByDelete(e)
    BY <2>1, <2>3 DEF Disappears, LabelStays, GoesByDelete
  <2> QED
    BY <2>1, <2>2, <2>3, <2>4, LabelsRequestStep
<1>19. ASSUME NEW k \in Requests, RemoveDirectory(k) PROVE Labels'
  <2>1. request[k].step = "removing"
    BY <1>19 DEF RemoveDirectory, At
  <2>2. request[k].doc \in DocIds
    BY <1>1, <2>1 DEF Assigned
  <2>3. /\ Rests(k) /\ UNCHANGED <<documents, jobs, converted, deletes, discarded>>
    BY <1>1, <1>19, <2>2, RemoveDirectoryEffect
  <2> QED
    BY <2>3, RestsLabelled, LabelsQuietStep
<1>20. CASE Crash
  <2>1. /\ \A k \in Requests : request'[k].step = "idle"
        /\ UNCHANGED <<documents, jobs, converted, deletes, discarded>>
    BY <1>1, <1>20, CrashEffect
  <2> QED
    BY <2>1 DEF Labels, Labelled, MarkdownIsNoSource
<1>21. CASE UNCHANGED vars
  BY <1>21 DEF vars, Labels, Labelled, MarkdownIsNoSource
<1> QED
  BY <1>3, <1>4, <1>5, <1>6, <1>7, <1>8, <1>9, <1>10, <1>11, <1>12, <1>13, <1>14,
     <1>15, <1>16, <1>17, <1>18, <1>19, <1>20, <1>21, <1>22
  DEF Next, Work, Gateway, Converters, People


-----------------------------------------------------------------------------
(* Nothing dropped is lost *)

\* The file a row was made for, once it has been moved.
Home(d) == IF documents[d].suffix = "md" THEN originals[d].document
           ELSE originals[d].source

Housed(c) ==
  \/ \E n \in Names : raw[n] = c
  \/ \E d \in DocIds : documents[d] # None /\ Home(d) = c

\* A document made from a URL has no file; one that nobody raced has the file
\* its hash stands for.
OwnFile(d) ==
  documents[d] # None =>
    /\ documents[d].hash = None => originals[d].source = None
    /\ ~ raced => Home(d) \in {None, documents[d].hash}

\* A file is moved only to where no file is.
MovesToFreePlace(k) ==
  request[k].step = "moving" /\ documents[request[k].doc] # None
    => Home(request[k].doc) = None

Homes ==
  /\ \A d \in DocIds : OwnFile(d)
  /\ \A k \in Requests : MovesToFreePlace(k)
  /\ OwnerDeleted \/ \A c \in dropped \ discarded : Housed(c)

\* The row lives on with its file, or is new and has none.
LivesOn(d) ==
  documents'[d] # None =>
    \/ d = nextId /\ originals'[d] = NoDirectory
    \/ /\ documents[d] # None
       /\ documents'[d].hash = documents[d].hash
       /\ documents'[d].suffix = documents[d].suffix
       /\ originals'[d].source = originals[d].source
       /\ Home(d)' = Home(d)

\* Request j moves a file only if it was about to, or has a new row.
MovesAsBefore(j) ==
  request'[j].step = "moving" =>
    \/ request'[j].doc = nextId
    \/ request[j].step = "moving" /\ request'[j].doc = request[j].doc

LEMMA OwnerStaysDeleted ==
  ASSUME raced \in BOOLEAN, raced' \in BOOLEAN, raced => raced',
         deletes \in Nat, deletes' \in Nat, deletes' >= deletes, OwnerDeleted
  PROVE  OwnerDeleted'
<1>1. deletes > 0 /\ raced
  BY DEF OwnerDeleted
<1>2. deletes' > 0
  BY <1>1
<1> QED
  BY <1>1, <1>2 DEF OwnerDeleted

\* A step that moves nothing.
LEMMA HomesRequestStep ==
  ASSUME Formed, Formed', Homes, raced => raced', deletes' >= deletes,
         discarded \subseteq discarded',
         \A d \in DocIds : LivesOn(d), \A j \in Requests : MovesAsBefore(j),
         \A c \in dropped' : c \notin dropped => Housed(c)',
         \A c \in dropped : Housed(c) => Housed(c)' \/ c \in discarded' \/ OwnerDeleted'
  PROVE  Homes'
<1>1. /\ raced \in BOOLEAN /\ raced' \in BOOLEAN /\ deletes \in Nat /\ deletes' \in Nat
  BY DEF Formed, TypeOK
<1>2. NoDirectory.document = None /\ NoDirectory.source = None
  BY DEF NoDirectory
<1>3. \A d \in DocIds : documents'[d] # None /\ originals'[d] = NoDirectory
         => Home(d)' = None
  BY <1>2 DEF Home
<1>4. ASSUME NEW d \in DocIds PROVE OwnFile(d)'
  <2>1. OwnFile(d) /\ LivesOn(d)
    BY DEF Homes
  <2>2. CASE originals'[d] = NoDirectory
    BY <1>2, <1>3, <2>2 DEF OwnFile
  <2>3. CASE originals'[d] # NoDirectory
    BY <2>1, <2>3 DEF OwnFile, LivesOn
  <2> QED
    BY <2>2, <2>3
<1>5. ASSUME NEW j \in Requests PROVE MovesToFreePlace(j)'
  <2> SUFFICES ASSUME request'[j].step = "moving", documents'[request'[j].doc] # None
               PROVE  MovesToFreePlace(j)'
    BY DEF MovesToFreePlace
  <2>1. PICK d \in DocIds : d = request'[j].doc
    BY DEF Formed, Assigned
  <2>2. Home(d)' = None
    <3>1. CASE originals'[d] = NoDirectory
      BY <1>3, <2>1, <3>1
    <3>2. CASE originals'[d] # NoDirectory
      <4>1. documents[d] # None /\ Home(d)' = Home(d)
        BY <2>1, <3>2 DEF LivesOn
      <4>2. d # nextId
        BY <4>1, DocIdsNumbers, ArrivalsAssumption DEF Formed, TypeOK, Unborn
      <4>3. request[j].step = "moving" /\ request[j].doc = d
        BY <2>1, <4>2 DEF MovesAsBefore
      <4>4. Home(d) = None
        BY <4>1, <4>3 DEF Homes, MovesToFreePlace
      <4> QED
        BY <4>1, <4>4
    <3> QED
      BY <3>1, <3>2
  <2> QED
    BY <2>1, <2>2 DEF MovesToFreePlace, Home
<1>6. ASSUME ~ OwnerDeleted', NEW c \in dropped' \ discarded' PROVE Housed(c)'
  <2>1. CASE c \notin dropped
    BY <1>6, <2>1
  <2>2. CASE c \in dropped
    <3>1. ~ OwnerDeleted
      BY <1>1, <1>6, OwnerStaysDeleted
    <3>2. Housed(c)
      BY <1>6, <2>2, <3>1 DEF Homes
    <3> QED
      BY <1>6, <2>2, <3>2
  <2> QED
    BY <2>1, <2>2
<1> QED
  BY <1>4, <1>5, <1>6 DEF Homes

\* A step that leaves files and rows where they are.
LEMMA HomesQuietStep ==
  ASSUME Formed, Formed', Homes, raced => raced',
         UNCHANGED <<raw, originals, dropped, discarded, deletes>>,
         \A d \in DocIds :
           /\ documents'[d] = None <=> documents[d] = None
           /\ documents[d] # None => /\ documents'[d].hash = documents[d].hash
                                     /\ documents'[d].suffix = documents[d].suffix,
         \A j \in Requests : MovesAsBefore(j)
  PROVE  Homes'
<1>1. \A d \in DocIds : documents[d] # None => Home(d)' = Home(d)
  BY DEF Home
<1>2. \A d \in DocIds : LivesOn(d)
  BY <1>1 DEF LivesOn
<1>3. \A c \in dropped : Housed(c) => Housed(c)'
  BY <1>1 DEF Housed
<1>4. deletes' >= deletes
  BY DEF Formed, TypeOK
<1> QED
  BY <1>2, <1>3, <1>4, HomesRequestStep

LEMMA OneMovesAsBefore ==
  ASSUME NEW k \in Requests, Others(k),
         \/ request'[k].step # "moving"
         \/ request'[k].doc = nextId
  PROVE  \A j \in Requests : MovesAsBefore(j)
BY DEF Others, MovesAsBefore

LEMMA RestsStill ==
  ASSUME NEW k \in Requests, Rests(k)
  PROVE  \A j \in Requests : MovesAsBefore(j)
BY DEF Rests, Others, MovesAsBefore

LEMMA MovesStill ==
  ASSUME NEW k \in Requests, NEW step, Moves(k, step), step # "moving"
  PROVE  \A j \in Requests : MovesAsBefore(j)
BY DEF Moves, Others, MovesAsBefore

LEMMA StartsStill ==
  ASSUME NEW k \in Requests, NEW step, NEW suffix, NEW name, NEW text, NEW d,
         Starts(k, step, suffix, name, text, d), step # "moving"
  PROVE  \A j \in Requests : MovesAsBefore(j)
BY DEF Starts, Others, MovesAsBefore

LEMMA HomesStep ==
  ASSUME Formed, Formed', Complete, Unraced, Tended, Labels, Homes, [Next]_vars
  PROVE  Homes'
<1> USE DEF files, history, counts
<1>1. /\ TypeOK
      /\ \A k \in Requests : Assigned(k) /\ Prepared(k) /\ Cared(k) /\ Labelled(k)
  BY DEF Formed, Complete, Tended, Labels
<1>2. /\ nextId \in Int /\ DocIds \subseteq Int /\ 0 \notin DocIds
      /\ deletes \in Nat /\ deletes' \in Nat
      /\ raced \in BOOLEAN /\ raced' \in BOOLEAN
      /\ dropped \subseteq Contents
  BY DocIdsNumbers, ArrivalsAssumption DEF Formed, TypeOK
<1>3. ASSUME NEW n \in Names, NEW c \in Contents, Put(n, c), raced => raced',
             UNCHANGED <<originals, documents, discarded, deletes>>,
             \A j \in Requests : MovesAsBefore(j)
      PROVE  Homes'
  <2>1. /\ raw[n] = None /\ raw'[n] = c
        /\ \A m \in Names \ {n} : raw'[m] = raw[m]
        /\ dropped' = dropped \cup {c}
    BY <1>1, <1>3, PutEffect
  <2>2. \A d \in DocIds : LivesOn(d) /\ Home(d)' = Home(d)
    BY <1>3 DEF LivesOn, Home
  <2>3. \A x \in dropped : Housed(x) => Housed(x)'
    BY <1>2, <1>3, <2>1, <2>2, ArrivalsAssumption DEF Housed
  <2>4. \A x \in dropped' : x \notin dropped => Housed(x)'
    BY <2>1 DEF Housed
  <2> QED
    BY <1>2, <1>3, <2>2, <2>3, <2>4, HomesRequestStep
<1>4. ASSUME NEW n \in Names, NEW c \in Contents, Drop(n, c) PROVE Homes'
  <2>1. \A j \in Requests : MovesAsBefore(j)
    BY <1>4 DEF Drop, MovesAsBefore
  <2> QED
    BY <1>3, <1>4, <2>1 DEF Drop
<1>5. ASSUME NEW k \in Requests, NEW n \in Names, NEW c \in Contents, Upload(k, n, c)
      PROVE  Homes'
  <2>1. /\ Starts(k, "inserting", Suffix[n], n, c, 0)
        /\ raced' = (raced \/ Overlaps(k, c, 0))
    BY <1>1, <1>5, LookEffect DEF Upload
  <2>2. \A j \in Requests : MovesAsBefore(j)
    BY <2>1, StartsStill
  <2>3. Put(n, c) /\ UNCHANGED <<originals, documents, discarded, deletes>>
    BY <1>5 DEF Upload
  <2> QED
    BY <1>3, <2>1, <2>2, <2>3
<1>6. ASSUME raced => raced', \A j \in Requests : MovesAsBefore(j),
             UNCHANGED <<raw, originals, documents, dropped, discarded, deletes>>
      PROVE  Homes'
  BY <1>6, HomesQuietStep
<1>7. ASSUME NEW k \in Requests, NEW n \in Names, KnockRaw(k, n) PROVE Homes'
  <2>1. raw[n] \in Contents /\ Look(k, n, raw[n], FALSE)
    BY <1>1, <1>7 DEF KnockRaw, TypeOK
  <2>2. /\ Starts(k, "inserting", Suffix[n], n, raw[n], 0)
        /\ raced' = (raced \/ Overlaps(k, raw[n], 0))
    BY <1>1, <2>1, LookEffect
  <2>3. \A j \in Requests : MovesAsBefore(j)
    BY <2>2, StartsStill
  <2>4. UNCHANGED <<raw, originals, documents, dropped, discarded, deletes>>
    BY <1>7 DEF KnockRaw
  <2> QED
    BY <1>6, <2>2, <2>3, <2>4
<1>8. ASSUME NEW k \in Requests,
             \/ MoveFails(k) \/ AnswerPdf(k) \/ SubmitAccepted(k)
             \/ Parse(k) \/ Persist(k) \/ SubmitFails(k)
             \/ AnswerLost(k) \/ WithdrawFails(k)
      PROVE  Homes'
  <2>1. /\ \/ Rests(k)
           \/ \E step \in {"failing", "persisting", "finishing", "withdrawing"} :
                Moves(k, step)
        /\ UNCHANGED <<raw, originals, documents, raced, dropped, discarded, deletes>>
    BY <1>1, <1>8, MoveFailsEffect, AnswerPdfEffect, SubmitAcceptedEffect,
       ParseEffect, PersistEffect, SubmitFailsEffect, LossEffect
  <2>2. \A j \in Requests : MovesAsBefore(j)
    BY <2>1, RestsStill, MovesStill
  <2> QED
    BY <1>6, <2>1, <2>2
<1>9. ASSUME NEW k \in Requests, MarkReady(k) \/ MarkFailed(k) PROVE Homes'
  <2>1. request[k].step \in {"finishing", "failing"}
    BY <1>9 DEF MarkReady, MarkFailed, At
  <2>2. request[k].doc \in DocIds
    BY <1>1, <2>1 DEF Assigned
  <2>3. /\ Rests(k)
        /\ \E status \in {"ready", "failed"} : StatusBecomes(request[k].doc, status)
    BY <1>1, <1>9, <2>2, MarkReadyEffect, MarkFailedEffect
  <2>4. UNCHANGED <<raw, originals, raced, dropped, discarded, deletes>>
    BY <1>9 DEF MarkReady, MarkFailed
  <2>5. \A d \in DocIds :
           /\ documents'[d] = None <=> documents[d] = None
           /\ documents[d] # None => /\ documents'[d].hash = documents[d].hash
                                     /\ documents'[d].suffix = documents[d].suffix
    BY <2>3 DEF StatusBecomes
  <2>6. \A j \in Requests : MovesAsBefore(j)
    BY <2>3, RestsStill
  <2> QED
    BY <2>4, <2>5, <2>6, HomesQuietStep
<1>10. ASSUME NEW k \in Requests, Insert(k) PROVE Homes'
  <2>1. /\ request[k].step = "inserting" /\ Others(k)
        /\ request'[k].doc = nextId /\ nextId \in DocIds
        /\ \A e \in DocIds \ {nextId} : documents'[e] = documents[e]
        /\ UNCHANGED <<raw, originals, raced, dropped, discarded, deletes>>
    BY <1>1, <1>10, InsertEffect DEF Appears
  <2>2. documents[nextId] = None /\ originals[nextId] = NoDirectory
    BY <1>2, <2>1 DEF Formed, Unborn
  <2>3. \A d \in DocIds : LivesOn(d) /\ (documents[d] # None
           => documents'[d] # None /\ Home(d)' = Home(d))
    BY <2>1, <2>2 DEF LivesOn, Home
  <2>4. \A c \in dropped : Housed(c) => Housed(c)'
    BY <2>1, <2>3 DEF Housed
  <2>5. \A j \in Requests : MovesAsBefore(j)
    BY <2>1, OneMovesAsBefore
  <2> QED
    BY <1>2, <2>1, <2>3, <2>4, <2>5, HomesRequestStep
<1>11. ASSUME NEW k \in Requests, SubmitUrl(k) PROVE Homes'
  <2>1. /\ Starts(k, "submitting", "pdf", None, None, nextId) /\ nextId \in DocIds
        /\ \A e \in DocIds \ {nextId} : documents'[e] = documents[e]
        /\ UNCHANGED <<raw, originals, raced, dropped, discarded, deletes>>
    BY <1>1, <1>11, SubmitUrlEffect DEF Appears
  <2>2. documents[nextId] = None /\ originals[nextId] = NoDirectory
    BY <1>2, <2>1 DEF Formed, Unborn
  <2>3. \A d \in DocIds : LivesOn(d) /\ (documents[d] # None
           => documents'[d] # None /\ Home(d)' = Home(d))
    BY <2>1, <2>2 DEF LivesOn, Home
  <2>4. \A c \in dropped : Housed(c) => Housed(c)'
    BY <2>1, <2>3 DEF Housed
  <2>5. \A j \in Requests : MovesAsBefore(j)
    BY <2>1, StartsStill
  <2> QED
    BY <1>2, <2>1, <2>3, <2>4, <2>5, HomesRequestStep
<1>12. ASSUME NEW k \in Requests, Move(k) PROVE Homes'
  <2>1. request[k].step = "moving"
    BY <1>12 DEF Move, At
  <2>2. /\ Doc(k) \in DocIds /\ Doc(k) = request[k].doc
        /\ request[k].name \in Names /\ request[k].text \in Contents
    BY <1>1, <2>1 DEF Assigned, Doc
  <2> PICK d \in DocIds, n \in Names, c \in {raw[request[k].name]} :
        d = request[k].doc /\ n = request[k].name /\ c = raw[n]
    BY <2>2
  <2>3. /\ Others(k)
        /\ request'[k].step = AfterMove(request[k].suffix)
        /\ c \in Contents /\ c # None
        /\ \A m \in Names \ {n} : raw'[m] = raw[m]
        /\ \A e \in DocIds \ {d} : originals'[e] = originals[e]
        /\ request[k].suffix = "md" =>
             /\ originals'[d].document = c
             /\ originals'[d].source = originals[d].source
        /\ request[k].suffix # "md" => originals'[d].source = c
        /\ UNCHANGED <<documents, raced, dropped, discarded, deletes>>
    BY <1>1, <1>12, <2>2, MoveEffect
  <2>4. documents[d] # None =>
          /\ documents[d].suffix = request[k].suffix
          /\ documents[d].hash = request[k].text
          /\ Home(d) = None
    BY <1>1, <1>2, <2>1, <2>2 DEF Cared, Labelled, Homes, MovesToFreePlace
  <2>5. documents[d] = None => deletes > 0 /\ request[k].text \in discarded
    BY <1>1, <2>1 DEF Labelled
  <2>6. ~ raced => c = request[k].text
    BY <2>1 DEF Unraced, Unshared, Alone, Waiting
  <2>7. request'[k].step # "moving"
    BY <2>3 DEF AfterMove
  <2>8. \A j \in Requests \ {k} : request[j].step = "moving" => request[j].doc # d
    BY <2>1 DEF Labels
  <2>9. documents[d] # None => Home(d)' = c
    BY <2>3, <2>4 DEF Home
  <2>10. \A e \in DocIds \ {d} : Home(e)' = Home(e)
    BY <2>3 DEF Home
  <2>11. \A e \in DocIds : OwnFile(e)'
    <3>1. OwnFile(d)'
      BY <2>2, <2>3, <2>4, <2>6, <2>9, ArrivalsAssumption DEF OwnFile
    <3>2. \A e \in DocIds \ {d} : OwnFile(e)'
      BY <2>3, <2>10 DEF Homes, OwnFile
    <3> QED
      BY <3>1, <3>2
  <2>12. ASSUME NEW j \in Requests PROVE MovesToFreePlace(j)'
    <3>1. CASE j = k
      BY <2>7, <3>1 DEF MovesToFreePlace
    <3>2. CASE j # k
      <4>1. request'[j] = request[j] /\ MovesToFreePlace(j)
        BY <2>3, <3>2 DEF Others, Homes
      <4>2. request[j].step = "moving" => request[j].doc \in DocIds \ {d}
        BY <1>1, <2>8, <3>2 DEF Assigned
      <4> QED
        BY <2>3, <4>1, <4>2 DEF MovesToFreePlace, Home
    <3> QED
      BY <3>1, <3>2
  <2>13. ASSUME ~ OwnerDeleted', NEW x \in dropped \ discarded PROVE Housed(x)'
    <3>1. OwnerDeleted' = OwnerDeleted
      BY <2>3 DEF OwnerDeleted
    <3>2. Housed(x) /\ x \in Contents
      BY <1>2, <2>13, <3>1 DEF Homes
    <3>3. CASE \E m \in Names \ {n} : raw[m] = x
      BY <2>3, <3>3 DEF Housed
    <3>4. CASE raw[n] = x
      \* The file has moved into the directory of a row the user has deleted
      \* only if he has deleted that very content.
      <4>1. documents[d] # None
        BY <2>3, <2>5, <2>6, <2>13, <3>4 DEF OwnerDeleted
      <4> QED
        BY <2>2, <2>3, <2>9, <3>4, <4>1 DEF Housed
    <3>5. CASE \E e \in DocIds : documents[e] # None /\ Home(e) = x
      <4>1. PICK e \in DocIds : documents[e] # None /\ Home(e) = x
        BY <3>5
      <4>2. e # d
        BY <2>4, <3>2, <4>1, ArrivalsAssumption
      <4> QED
        BY <2>3, <2>10, <4>1, <4>2 DEF Housed
    <3> QED
      BY <3>2, <3>3, <3>4, <3>5 DEF Housed
  <2> QED
    BY <2>3, <2>11, <2>12, <2>13 DEF Homes
<1>22. ASSUME NEW d \in DocIds, ConversionDies(d) PROVE Homes'
  <2>1. \A j \in Requests : MovesAsBefore(j)
    BY <1>22 DEF ConversionDies, MovesAsBefore
  <2> QED
    BY <1>6, <1>22, <2>1 DEF ConversionDies
<1>13. ASSUME NEW d \in DocIds, NEW c \in Contents, Convert(d, c) PROVE Homes'
  <2>1. \A j \in Requests : MovesAsBefore(j)
    BY <1>13 DEF Convert, MovesAsBefore
  <2> QED
    BY <1>6, <1>13, <2>1 DEF Convert
<1>14. ASSUME NEW k \in Requests, NEW d \in DocIds, KnockConverted(k, d)
       PROVE  Homes'
  <2>1. /\ Starts(k, "reading", "pdf", None, None, d)
        /\ raced' = (raced \/ Overlaps(k, None, d))
        /\ UNCHANGED <<raw, originals, documents, dropped, discarded, deletes>>
    BY <1>1, <1>14, KnockConvertedEffect
  <2> QED
    BY <1>6, <2>1, StartsStill
<1>15. ASSUME NEW k \in Requests, Read(k) PROVE Homes'
  <2>1. request[k].step = "reading"
    BY <1>15 DEF Read, At
  <2>2. request[k].doc \in DocIds
    BY <1>1, <2>1 DEF Assigned
  <2>3. /\ Others(k) /\ request'[k].step \in {"failing", "storing"}
        /\ UNCHANGED <<raw, originals, documents, raced, dropped, discarded, deletes>>
    BY <1>1, <1>15, <2>2, ReadEffect
  <2> QED
    BY <1>6, <2>3, OneMovesAsBefore
<1>16. ASSUME NEW k \in Requests, Store(k) PROVE Homes'
  <2> DEFINE d == request[k].doc
  <2>1. request[k].step = "storing"
    BY <1>16 DEF Store, At
  <2>2. d \in DocIds /\ request[k].text \in Contents
    BY <1>1, <2>1, ArrivalsAssumption DEF Assigned
  <2>3. /\ Moves(k, "parsing")
        /\ \A e \in DocIds \ {d} : originals'[e] = originals[e]
        /\ originals'[d].source = originals[d].source
        /\ UNCHANGED <<raw, documents, raced, dropped, discarded, deletes>>
    BY <1>1, <1>16, <2>2, StoreEffect
  <2>4. documents[d] # None => documents[d].suffix # "md"
    BY <1>1, <2>1 DEF Labelled
  <2>5. \A e \in DocIds : documents[e] # None => Home(e)' = Home(e)
    BY <2>3, <2>4 DEF Home
  <2>6. \A e \in DocIds : LivesOn(e)
    BY <2>3, <2>5 DEF LivesOn
  <2>7. \A c \in dropped : Housed(c) => Housed(c)'
    BY <2>3, <2>5 DEF Housed
  <2>8. \A j \in Requests : MovesAsBefore(j)
    BY <2>3, MovesStill
  <2> QED
    BY <1>2, <2>3, <2>6, <2>7, <2>8, HomesRequestStep
<1>17. ASSUME NEW k \in Requests, Withdraw(k) PROVE Homes'
  <2> DEFINE d == request[k].doc
  <2>1. request[k].step = "withdrawing"
    BY <1>17 DEF Withdraw, At
  <2>2. d \in DocIds
    BY <1>1, <2>1 DEF Assigned
  <2>3. /\ Rests(k) /\ Disappears(d)
        /\ UNCHANGED <<raw, originals, raced, dropped, discarded, deletes>>
    BY <1>1, <1>17, <2>2, WithdrawEffect
  \* The row of a URL holds no file.
  <2>4. documents[d] # None => Home(d) = None
    BY <1>1, <2>1, <2>2
    DEF Labelled, Labels, MarkdownIsNoSource, Homes, OwnFile, Home
  <2>5. \A e \in DocIds \ {d} : documents'[e] = documents[e] /\ Home(e)' = Home(e)
    BY <2>3 DEF Disappears, Home
  <2>6. \A e \in DocIds : LivesOn(e)
    BY <2>3, <2>5 DEF LivesOn, Disappears
  <2>7. \A c \in dropped : Housed(c) => Housed(c)'
    BY <1>2, <2>3, <2>4, <2>5, ArrivalsAssumption DEF Housed
  <2>8. \A j \in Requests : MovesAsBefore(j)
    BY <2>3, RestsStill
  <2> QED
    BY <1>2, <2>3, <2>6, <2>7, <2>8, HomesRequestStep
<1>18. ASSUME NEW k \in Requests, NEW d \in DocIds, Delete(k, d) PROVE Homes'
  <2>1. /\ Starts(k, "removing", "md", None, None, d) /\ Disappears(d)
        /\ documents[d] # None
        /\ discarded' = discarded \cup ({documents[d].hash} \ {None})
        /\ deletes' = deletes + 1
        /\ UNCHANGED <<raw, originals, raced, dropped>>
    BY <1>1, <1>18, DeleteEffect
  <2>2. deletes' >= deletes /\ deletes' > 0
    BY <1>2, <2>1
  \* Its file is the one its hash stands for, if nobody raced.
  <2>3. raced \/ Home(d) \in {None, documents[d].hash}
    BY <2>1 DEF Homes, OwnFile
  <2>4. \A e \in DocIds \ {d} : documents'[e] = documents[e] /\ Home(e)' = Home(e)
    BY <2>1 DEF Disappears, Home
  <2>5. \A e \in DocIds : LivesOn(e)
    BY <2>1, <2>4 DEF LivesOn, Disappears
  <2>6. ASSUME NEW c \in dropped, Housed(c), ~ OwnerDeleted'
        PROVE  Housed(c)' \/ c \in discarded'
    <3>1. ~ raced /\ c # None
      BY <1>2, <2>1, <2>2, <2>6, ArrivalsAssumption DEF OwnerDeleted
    <3>2. CASE \E n \in Names : raw[n] = c
      BY <2>1, <3>2 DEF Housed
    <3>3. CASE \E e \in DocIds : documents[e] # None /\ Home(e) = c
      <4>1. PICK e \in DocIds : documents[e] # None /\ Home(e) = c
        BY <3>3
      <4>2. CASE e = d
        BY <2>1, <2>3, <3>1, <4>1, <4>2
      <4>3. CASE e # d
        BY <2>4, <4>1, <4>3 DEF Housed
      <4> QED
        BY <4>2, <4>3
    <3> QED
      BY <2>6, <3>2, <3>3 DEF Housed
  <2>7. \A j \in Requests : MovesAsBefore(j)
    BY <2>1, StartsStill
  <2> QED
    BY <1>2, <2>1, <2>2, <2>5, <2>6, <2>7, HomesRequestStep
<1>19. ASSUME NEW k \in Requests, RemoveDirectory(k) PROVE Homes'
  <2>1. request[k].step = "removing"
    BY <1>19 DEF RemoveDirectory, At
  <2>2. request[k].doc \in DocIds /\ documents[request[k].doc] = None
    BY <1>1, <2>1 DEF Assigned, Prepared
  <2>3. /\ Rests(k)
        /\ \A e \in DocIds \ {request[k].doc} : originals'[e] = originals[e]
        /\ UNCHANGED <<raw, documents, raced, dropped, discarded, deletes>>
    BY <1>1, <1>19, <2>2, RemoveDirectoryEffect
  <2>4. \A e \in DocIds : documents[e] # None
           => originals'[e] = originals[e] /\ Home(e)' = Home(e)
    BY <2>2, <2>3 DEF Home
  <2>5. \A e \in DocIds : LivesOn(e)
    BY <2>3, <2>4 DEF LivesOn
  <2>6. \A c \in dropped : Housed(c) => Housed(c)'
    BY <2>3, <2>4 DEF Housed
  <2>7. \A j \in Requests : MovesAsBefore(j)
    BY <2>3, RestsStill
  <2> QED
    BY <1>2, <2>3, <2>5, <2>6, <2>7, HomesRequestStep
<1>20. CASE Crash
  <2>1. /\ \A k \in Requests : request'[k].step = "idle"
        /\ UNCHANGED <<raw, originals, documents, raced, dropped, discarded, deletes>>
    BY <1>1, <1>20, CrashEffect
  <2> QED
    BY <1>6, <2>1 DEF MovesAsBefore
<1>21. CASE UNCHANGED vars
  BY <1>6, <1>21 DEF vars, MovesAsBefore
<1> QED
  BY <1>4, <1>5, <1>7, <1>8, <1>9, <1>10, <1>11, <1>12, <1>13, <1>14, <1>15, <1>16,
     <1>17, <1>18, <1>19, <1>20, <1>21, <1>22
  DEF Next, Work, Gateway, Converters, People

\* What has been dropped is never lost: until its document is deleted it lies
\* in inbound/raw/ or in the directory of a document of the library, wherever
\* a crash falls and however requests interleave.
THEOREM NothingDroppedIsLost == Spec => []DropsAreNeverLost
<1> DEFINE Inv == Formed /\ Complete /\ Unraced /\ Tended /\ Labels /\ Homes
<1>1. Init => Inv
  <2> SUFFICES ASSUME Init PROVE Inv
    OBVIOUS
  <2>1. \A k \in Requests : request[k].step = "idle" /\ request[k].doc = 0
    BY DEF Init, Idle
  <2>2. /\ \A d \in DocIds : documents[d] = None
        /\ dropped = {}
    BY DEF Init
  <2>3. Complete
    BY <2>1, <2>2 DEF Complete, ReadyIsComplete, Prepared
  <2>4. Unshared
    BY <2>1, <2>2 DEF Unshared, OneDocumentPerContent, Alone, Apart, Waiting
  <2>5. Tended
    BY <2>1, <2>2 DEF Tended, Cared
  <2>6. Labels
    BY <2>1, <2>2 DEF Labels, Labelled, MarkdownIsNoSource
  <2>7. Homes
    BY <2>1, <2>2 DEF Homes, OwnFile, MovesToFreePlace
  <2> QED
    BY <2>3, <2>4, <2>5, <2>6, <2>7, FormedInit DEF Unraced
<1>2. Inv /\ [Next]_vars => Inv'
  BY FormedStep, CompleteStep, UnsharedStep, TendedStep, LabelsStep, HomesStep
  DEF Unraced
<1>3. Inv => DropsAreNeverLost
  BY DEF Homes, Housed, Home, DropsAreNeverLost
<1> QED
  BY <1>1, <1>2, <1>3, PTL DEF Spec


=============================================================================
